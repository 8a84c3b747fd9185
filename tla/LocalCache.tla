----------------------------- MODULE LocalCache -----------------------------
(***************************************************************************)
(* The files one person's `ocp-air` processes share on one machine: the    *)
(* blank disk and its metadata (adapters/air/artifacts.py), the discovery  *)
(* ISO of one InfraEnv and the two credential files of one lab             *)
(* (adapters/assisted/adapter.py).  Every file is staged under a private   *)
(* name, synced, and renamed into place; a process may be killed anywhere  *)
(* and the power may fail.                                                 *)
(*                                                                         *)
(* What is staged is invisible, so building and verifying a staged file    *)
(* are one step; its fsync is another.  An error of the file system ends a *)
(* command as a kill does.  Left out: staged files a killed process leaves *)
(* behind, permissions and symbolic links.                                 *)
(***************************************************************************)
EXTENDS Naturals, FiniteSets

CONSTANTS
  Clients,     \* processes
  Commands,    \* what each of them may do
  Disks,       \* contents of a disk, and the digests of them in the metadata
  Valid,       \* disks that qemu-img finds of the intended format and size
  Iso,         \* the discovery ISO
  Clusters,    \* clusters whose credentials the lab's files may hold
  Short,       \* a part of it: its download ended early, without an error
  None, Torn,  \* no file; a file a power failure has left a part of
  MaxMishaps   \* bound: damages and power failures

ASSUME ValidAssumption == Valid \subseteq Disks
ASSUME TornAssumption ==
  /\ Torn \notin Disks \cup Clusters \cup {Iso, Short, None}
  /\ None \notin Disks \cup Clusters \cup {Iso, Short}
ASSUME CommandsAssumption ==
  Commands \in [Clients -> SUBSET {"disk", "iso", "credentials"}]
ASSUME MishapsAssumption == MaxMishaps \in Nat

VARIABLES
  file,     \* what each file holds
  kept,     \* what each may hold after a power failure now
  me,       \* place and locals of each process
  mishaps,
  hist      \* history: see StableDisk and PairKept

vars == <<file, kept, me, mishaps, hist>>

Files == {"disk", "meta", "iso", "kubeconfig", "password"}
Contents == Disks \cup Clusters \cup {Iso, Short, None, Torn}
Places ==
  {"idle", "inspect", "compare", "qemuInfo", "build", "fsyncDisk",
   "replaceDisk", "syncDisk", "hash", "fsyncMeta", "replaceMeta", "syncMeta",
   "isoLook", "download", "fsyncIso", "replaceIso", "stageKubeconfig",
   "fsyncKubeconfig", "stagePassword", "fsyncPassword", "replaceKubeconfig",
   "replacePassword"}

Process ==
  [pc : Places,
   seen : Contents,      \* the metadata read
   staged : Contents,    \* the content of its staged file
   second : Contents,    \* the same, of the staged password
   synced : SUBSET {"staged", "second"},  \* those of the two that are durable
   art : Contents]       \* the disk hashed, which its metadata describes

Fresh == [pc |-> "idle", seen |-> None, staged |-> None, second |-> None,
          synced |-> {}, art |-> None]

TypeOK ==
  /\ file \in [Files -> Contents]
  /\ kept \in [Files -> SUBSET Contents]
  /\ me \in [Clients -> Process]
  /\ mishaps \in 0..MaxMishaps
  /\ hist \in [raced : BOOLEAN, spoilt : BOOLEAN, unsynced : BOOLEAN,
              cut : BOOLEAN, disks : SUBSET Contents]

Init ==
  /\ file = [f \in Files |-> None]
  /\ kept = [f \in Files |-> {None}]
  /\ me = [c \in Clients |-> Fresh]
  /\ mishaps = 0
  /\ hist = [raced |-> FALSE, spoilt |-> FALSE, unsynced |-> FALSE,
             cut |-> FALSE, disks |-> {}]
-----------------------------------------------------------------------------
At(c, p) == me[c].pc = p
Become(c, r) == me' = [me EXCEPT ![c] = r]
Goto(c, p) == Become(c, [me[c] EXCEPT !.pc = p])
End(c) == Become(c, Fresh)
FilesStay == UNCHANGED <<file, kept>>
NoMishap == UNCHANGED mishaps

(* fsync of the staged file, before it gets its name.                      *)
Fsync(c, place, which, next) ==
  /\ At(c, place)
  /\ Become(c, [me[c] EXCEPT !.pc = next, !.synced = @ \cup {which}])
  /\ FilesStay /\ NoMishap /\ UNCHANGED hist

(* os.replace: the new name is seen at once, and durable or not; of a file *)
(* that was not synced a power failure may leave a part under it.          *)
Replace(f, b, synced) ==
  /\ file' = [file EXCEPT ![f] = b]
  /\ kept' = [kept EXCEPT ![f] =
                @ \cup IF synced THEN {b} ELSE {b, Torn}]

Synced(c, which) == which \in me[c].synced

(* fsync of the directory: earlier names are gone for good.                *)
SyncDirNever(S) == kept' = kept         \* mutated: no fsync of the directory
SyncDir(S) ==
  kept' = [f \in Files |->
             IF f \in S THEN kept[f] \cap {file[f], Torn} ELSE kept[f]]

FirstPlace(command) ==
  CASE command = "disk"        -> "inspect"
    [] command = "iso"         -> "isoLook"
    [] command = "credentials" -> "stageKubeconfig"

Launch(c) ==
  /\ At(c, "idle")
  /\ \E command \in Commands[c] :
       Goto(c, FirstPlace(command))
  /\ hist' = [hist EXCEPT !.raced =
                @ \/ (\E d \in Clients \ {c} : ~At(d, "idle"))]
  /\ FilesStay /\ NoMishap

(* The disk returned is remembered in the history.                         *)
Return(c, disk) ==
  /\ End(c)
  /\ hist' = [hist EXCEPT !.unsynced = @ /\ At(c, "compare"), !.disks =
       IF hist.raced \/ hist.spoilt THEN {disk} ELSE @ \cup {disk}]
-----------------------------------------------------------------------------
(***************************************************************************)
(* ensure_blank_disk.                                                      *)
(***************************************************************************)
Inspect(c) ==
  /\ At(c, "inspect")
  /\ IF file["disk"] = None
       THEN Goto(c, "build")
       ELSE Become(c, [me[c] EXCEPT !.pc = "compare", !.seen = file["meta"]])
  /\ FilesStay /\ NoMishap /\ UNCHANGED hist

(* _cached_blank_artifact: the digest in the metadata is that of the disk. *)
DescribesAny(b, disk) == b \in Disks    \* mutated: digests are not compared
Describes(b, disk) == b \in Disks /\ b = disk

Compare(c) ==
  /\ At(c, "compare")
  /\ IF Describes(me[c].seen, file["disk"])
       THEN Return(c, file["disk"])
       ELSE Become(c, [Fresh EXCEPT !.pc = "qemuInfo"]) /\ UNCHANGED hist
  /\ FilesStay /\ NoMishap

(* qemu-img may also fail on what it finds, and that ends the command.     *)
QemuInfo(c) ==
  /\ At(c, "qemuInfo")
  /\ \/ file["disk"] \in Valid /\ Goto(c, "hash")
     \/ file["disk"] \notin Valid /\ Goto(c, "build")
     \/ file["disk"] \notin Valid /\ End(c)
  /\ FilesStay /\ NoMishap /\ UNCHANGED hist

(* qemu-img create, then info, of the staged file.                         *)
Build(c) ==
  /\ At(c, "build")
  /\ \/ End(c)
     \/ \E b \in Valid :
          Become(c, [me[c] EXCEPT !.pc = "fsyncDisk", !.staged = b])
  /\ FilesStay /\ NoMishap /\ UNCHANGED hist

FsyncDisk(c) == Fsync(c, "fsyncDisk", "staged", "replaceDisk")

ReplaceDisk(c) ==
  /\ At(c, "replaceDisk")
  /\ Replace("disk", me[c].staged, Synced(c, "staged"))
  /\ Become(c, [Fresh EXCEPT !.pc = "syncDisk"])
  /\ NoMishap /\ UNCHANGED hist

SyncDisk(c) ==
  /\ At(c, "syncDisk")
  /\ SyncDir({"disk", "meta"})
  /\ Goto(c, "hash")
  /\ hist' = [hist EXCEPT !.unsynced = FALSE]
  /\ NoMishap /\ UNCHANGED file

(* _artifact: of whatever has the name now; its metadata is staged.        *)
Hash(c) ==
  /\ At(c, "hash")
  /\ Become(c, [Fresh EXCEPT !.pc = "fsyncMeta", !.art = file["disk"]])
  /\ FilesStay /\ NoMishap /\ UNCHANGED hist

(* _write_blank_metadata.                                                  *)
FsyncMeta(c) == Fsync(c, "fsyncMeta", "staged", "replaceMeta")

ReplaceMeta(c) ==
  /\ At(c, "replaceMeta")
  /\ Replace("meta", me[c].art, Synced(c, "staged"))
  /\ Goto(c, "syncMeta")
  /\ NoMishap /\ UNCHANGED hist

SyncMeta(c) ==
  /\ At(c, "syncMeta")
  /\ SyncDir({"disk", "meta"})
  /\ Return(c, me[c].art)
  /\ NoMishap /\ UNCHANGED file
-----------------------------------------------------------------------------
(***************************************************************************)
(* The discovery ISO: _reconcile_infraenv, discovery_iso_is_cached,        *)
(* download_discovery_iso, whose downloads may fail.                       *)
(***************************************************************************)
IsoLook(c) ==
  /\ At(c, "isoLook")
  /\ IF file["iso"] = None THEN Goto(c, "download") ELSE End(c)
  /\ FilesStay /\ NoMishap /\ UNCHANGED hist

(* HTTPResponse.read returns what there was of a body that ended early;    *)
(* the client of the credentials, below, makes that an error.              *)
Download(c) ==
  /\ At(c, "download")
  /\ \/ End(c)
     \/ \E b \in {Iso, Short} :
          Become(c, [me[c] EXCEPT !.pc = "fsyncIso", !.staged = b])
  /\ FilesStay /\ NoMishap /\ UNCHANGED hist

FsyncIsoNever(c) ==                   \* mutated: renamed without fsync
  /\ At(c, "fsyncIso")
  /\ Goto(c, "replaceIso")
  /\ FilesStay /\ NoMishap /\ UNCHANGED hist
FsyncIso(c) == Fsync(c, "fsyncIso", "staged", "replaceIso")

ReplaceIso(c) ==
  /\ At(c, "replaceIso")
  /\ Replace("iso", me[c].staged, Synced(c, "staged"))
  /\ Become(c, [Fresh EXCEPT !.pc = "isoLook"])
  /\ NoMishap /\ UNCHANGED hist
-----------------------------------------------------------------------------
(***************************************************************************)
(* download_credentials: both are staged before either is replaced.        *)
(***************************************************************************)
StageKubeconfig(c) ==
  /\ At(c, "stageKubeconfig")
  /\ \/ End(c)
     \/ \E cluster \in Clusters :
          Become(c, [me[c] EXCEPT !.pc = "fsyncKubeconfig",
                                  !.staged = cluster])
  /\ FilesStay /\ NoMishap /\ UNCHANGED hist

FsyncKubeconfig(c) == Fsync(c, "fsyncKubeconfig", "staged", "stagePassword")

StagePasswordLate(c) ==               \* mutated: the first is replaced at once
  /\ At(c, "stagePassword")
  /\ Replace("kubeconfig", me[c].staged, Synced(c, "staged"))
  /\ \/ End(c)
     \/ Become(c, [me[c] EXCEPT !.pc = "fsyncPassword",
                                !.second = me[c].staged])
  /\ NoMishap /\ UNCHANGED hist
StagePassword(c) ==
  /\ At(c, "stagePassword")
  /\ \/ End(c)
     \/ Become(c, [me[c] EXCEPT !.pc = "fsyncPassword",
                                !.second = me[c].staged])
  /\ FilesStay /\ NoMishap /\ UNCHANGED hist

FsyncPassword(c) == Fsync(c, "fsyncPassword", "second", "replaceKubeconfig")

ReplaceKubeconfig(c) ==
  /\ At(c, "replaceKubeconfig")
  /\ Replace("kubeconfig", me[c].staged, Synced(c, "staged"))
  /\ Goto(c, "replacePassword")
  /\ NoMishap /\ UNCHANGED hist

ReplacePassword(c) ==
  /\ At(c, "replacePassword")
  /\ Replace("password", me[c].second, Synced(c, "second"))
  /\ End(c)
  /\ hist' = [hist EXCEPT !.cut = FALSE]
  /\ NoMishap
-----------------------------------------------------------------------------
(***************************************************************************)
(* Mishaps.                                                                *)
(***************************************************************************)
Kill(c) ==
  /\ ~At(c, "idle")
  /\ End(c)
  /\ hist' = [hist EXCEPT !.cut = @ \/ At(c, "replacePassword"),
                           !.unsynced = @ \/ At(c, "syncDisk")]
  /\ FilesStay /\ NoMishap

PowerFailure ==
  /\ mishaps < MaxMishaps
  /\ \E d \in kept["disk"], m \in kept["meta"], i \in kept["iso"],
        k \in kept["kubeconfig"], p \in kept["password"] :
       file' = [disk |-> d, meta |-> m, iso |-> i, kubeconfig |-> k,
                password |-> p]
  /\ kept' = [f \in Files |-> {file'[f]}]
  /\ me' = [c \in Clients |-> Fresh]
  /\ mishaps' = mishaps + 1
  /\ hist' = [hist EXCEPT !.cut = TRUE, !.unsynced = FALSE,
                           !.spoilt = @ \/ hist.unsynced]

(* Somebody spoils or deletes the disk or deletes its metadata, while no   *)
(* process runs.                                                           *)
Damage(f, b) ==
  /\ mishaps < MaxMishaps
  /\ \A c \in Clients : At(c, "idle")
  /\ file' = [file EXCEPT ![f] = b]
  /\ kept' = [kept EXCEPT ![f] = {b}]
  /\ mishaps' = mishaps + 1
  /\ hist' = IF f = "disk" THEN [hist EXCEPT !.spoilt = TRUE, !.disks = {}]
                           ELSE hist
  /\ UNCHANGED me

Step(c) ==
  \/ Inspect(c) \/ Compare(c) \/ QemuInfo(c)
  \/ Build(c) \/ FsyncDisk(c) \/ ReplaceDisk(c) \/ SyncDisk(c)
  \/ Hash(c) \/ FsyncMeta(c) \/ ReplaceMeta(c) \/ SyncMeta(c)
  \/ IsoLook(c) \/ Download(c) \/ FsyncIso(c) \/ ReplaceIso(c)
  \/ StageKubeconfig(c) \/ FsyncKubeconfig(c)
  \/ StagePassword(c) \/ FsyncPassword(c)
  \/ ReplaceKubeconfig(c) \/ ReplacePassword(c)

Next ==
  \/ \E c \in Clients : Launch(c) \/ Step(c) \/ Kill(c)
  \/ PowerFailure
  \/ \E b \in (Disks \ Valid) \cup {None} : Damage("disk", b)
  \/ Damage("meta", None)

Spec == Init /\ [][Next]_vars
-----------------------------------------------------------------------------
(***************************************************************************)
(* What a file was staged with is all there under its final name, whatever *)
(* is killed and whenever the power fails, though neither that name nor    *)
(* the one before may be durable yet: each of the five is synced before    *)
(* its os.replace.  Nothing looks at them again: the ISO's cache test is   *)
(* only that the file is not empty.                                        *)
(***************************************************************************)
WholeFiles == \A f \in Files : file[f] # Torn

(***************************************************************************)
(* A disk that ensure_blank_disk returns is one that qemu-img verified, in *)
(* this run or in the one that wrote the metadata, however the disk and    *)
(* the metadata were replaced by others, lost or spoilt in between.        *)
(***************************************************************************)
VerifiedDisk == hist.disks \subseteq Valid

(***************************************************************************)
(* The digest is part of the name of the image on Air, so a disk returned  *)
(* once is returned ever after, through kills and through power failures,  *)
(* if no two commands overlap and nobody spoils it (fsync of the           *)
(* directory, adoption of a disk without metadata).  Not promised: a disk  *)
(* that a killed process had renamed and not yet synced is taken from the  *)
(* cache unsynced, and a power failure may still lose it.                  *)
(***************************************************************************)
StableDisk ==
  hist.raced \/ hist.spoilt \/ \A d, e \in hist.disks : d = e

(***************************************************************************)
(* The two credential files are of one cluster, whatever downloads fail:   *)
(* only a process cut off between the two replacements, or a lost name,    *)
(* separates them, until the next download (download_credentials).         *)
(***************************************************************************)
PairKept ==
  \/ hist.raced \/ hist.cut
  \/ \E c \in Clients : At(c, "replacePassword")
  \/ file["kubeconfig"] = file["password"]

(***************************************************************************)
(* test_download_failure_preserves_prior_iso_and_cleans_temporary_file     *)
(* (tests/test_adapters/test_assisted_iso.py): a download that stops part  *)
(* of the way is an error and leaves no ISO behind.                        *)
(***************************************************************************)
NoPartialIso == file["iso"] # Short
=============================================================================
