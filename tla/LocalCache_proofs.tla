-------------------------- MODULE LocalCache_proofs --------------------------
(***************************************************************************)
(* Proofs about LocalCache, for any number of processes, any commands, and *)
(* any number of kills, damages and power failures.                        *)
(***************************************************************************)
EXTENDS LocalCache, TLAPS

(* What files and staged files hold: whatever was staged, all of it.       *)
Parts == Disks \cup Clusters \cup {Iso, Short, None}

Locals ==
  [pc : Places, seen : Parts, staged : Parts, second : Parts,
   synced : SUBSET {"staged", "second"}, art : Parts]

(* The metadata, now and after a power failure, describes a verified disk. *)
FilesInv ==
  /\ file \in [Files -> Parts]
  /\ kept \in [Files -> SUBSET Parts]
  /\ file["meta"] \in Valid \cup {None}
  /\ kept["meta"] \subseteq Valid \cup {None}

(* What a process with place and locals m staged or hashed is verified,    *)
(* and so is the disk in place when it is about to hash that; and what it  *)
(* is about to rename is synced.                                           *)
Knows(m, disk) ==
  /\ m.pc = "compare" => m.seen \in Valid \cup {None}
  /\ m.pc \in {"fsyncDisk", "replaceDisk"} => m.staged \in Valid
  /\ m.pc \in {"syncDisk", "hash"} => disk \in Valid
  /\ m.pc \in {"fsyncMeta", "replaceMeta", "syncMeta"} => m.art \in Valid
  /\ m.pc \in {"replaceDisk", "replaceMeta", "replaceIso", "stagePassword",
               "fsyncPassword", "replaceKubeconfig"} => "staged" \in m.synced
  /\ m.pc \in {"replaceKubeconfig", "replacePassword"} =>
       "second" \in m.synced

LocalsInv ==
  /\ me \in [Clients -> Locals]
  /\ \A c \in Clients : Knows(me[c], file["disk"])

Histories ==
  [raced : BOOLEAN, spoilt : BOOLEAN, unsynced : BOOLEAN, cut : BOOLEAN,
   disks : SUBSET Valid]

CacheInv ==
  /\ FilesInv
  /\ LocalsInv
  /\ mishaps \in 0..MaxMishaps
  /\ hist \in Histories
-----------------------------------------------------------------------------
LEMMA PartsContain ==
  /\ Disks \cup Clusters \cup {Iso, Short, None} \subseteq Parts
  /\ Valid \subseteq Parts
  /\ Parts \subseteq Contents
  /\ Torn \notin Parts
BY ValidAssumption, TornAssumption DEF Parts, Contents

(* Ways the files change.                                                  *)
LEMMA FilesUnmoved ==
  ASSUME FilesInv, FilesStay
  PROVE  FilesInv' /\ file'["disk"] = file["disk"]
BY DEF FilesInv, FilesStay

LEMMA FileReplaced ==
  ASSUME FilesInv, NEW f \in Files, NEW b \in Parts, Replace(f, b, TRUE),
         f = "meta" => b \in Valid
  PROVE  /\ FilesInv'
         /\ file'["disk"] = IF f = "disk" THEN b ELSE file["disk"]
BY DEF FilesInv, Replace, Files

(* A process renames only what it has synced.                              *)
LEMMA StagedSynced ==
  ASSUME LocalsInv, NEW c \in Clients,
         me[c].pc \in {"replaceDisk", "replaceMeta", "replaceIso",
                       "replaceKubeconfig"}
  PROVE  Synced(c, "staged") = TRUE
BY DEF LocalsInv, Knows, Synced

LEMMA SecondSynced ==
  ASSUME LocalsInv, NEW c \in Clients, me[c].pc = "replacePassword"
  PROVE  Synced(c, "second") = TRUE
BY DEF LocalsInv, Knows, Synced

LEMMA DirectorySynced ==
  ASSUME FilesInv, NEW S, SyncDir(S), UNCHANGED file
  PROVE  FilesInv' /\ file'["disk"] = file["disk"]
BY DEF FilesInv, SyncDir, Files

(* A process moves: the others know what they knew.                        *)
LEMMA ProcessMoves ==
  ASSUME LocalsInv, NEW c \in Clients, NEW r \in Locals, Become(c, r),
         file'["disk"] = file["disk"] \/ file'["disk"] \in Valid,
         Knows(r, file'["disk"])
  PROVE  LocalsInv'
<1>1. me' \in [Clients -> Locals]
  BY DEF LocalsInv, Become
<1>2. ASSUME NEW d \in Clients PROVE Knows(me'[d], file'["disk"])
  <2>1. CASE d = c
    BY <2>1 DEF LocalsInv, Become
  <2>2. CASE d # c
    <3>1. me'[d] = me[d]
      BY <2>2 DEF LocalsInv, Become
    <3>2. Knows(me[d], file["disk"])
      BY DEF LocalsInv
    <3> QED BY <3>1, <3>2 DEF Knows
  <2> QED BY <2>1, <2>2
<1> QED BY <1>1, <1>2 DEF LocalsInv

(* Places where there is nothing to know.                                  *)
Indifferent ==
  {"idle", "inspect", "qemuInfo", "build", "isoLook", "download", "fsyncIso",
   "stageKubeconfig", "fsyncKubeconfig"}

LEMMA FreshLocals ==
  /\ Fresh \in Locals
  /\ Fresh.pc = "idle"
  /\ \A disk : Knows(Fresh, disk)
BY PartsContain DEF Fresh, Locals, Knows, Places

LEMMA ProcessGoes ==
  ASSUME LocalsInv, NEW c \in Clients, NEW p \in Indifferent, Goto(c, p),
         file'["disk"] = file["disk"] \/ file'["disk"] \in Valid
  PROVE  LocalsInv'
<1> DEFINE r == [me[c] EXCEPT !.pc = p]
<1>1. me[c] \in Locals
  BY DEF LocalsInv
<1>2. r \in Locals /\ r.pc = p
  BY <1>1 DEF Locals, Indifferent, Places
<1>3. Knows(r, file'["disk"])
  BY <1>2 DEF Knows, Indifferent
<1>4. Become(c, r)
  BY DEF Goto
<1> HIDE DEF r
<1> QED BY <1>2, <1>3, <1>4, ProcessMoves

LEMMA ProcessEnds ==
  ASSUME LocalsInv, NEW c \in Clients, End(c),
         file'["disk"] = file["disk"] \/ file'["disk"] \in Valid
  PROVE  LocalsInv'
BY FreshLocals, ProcessMoves DEF End
-----------------------------------------------------------------------------
LEMMA InitInv == Init => CacheInv
<1> SUFFICES ASSUME Init PROVE CacheInv
  OBVIOUS
<1>1. FilesInv
  BY PartsContain DEF Init, FilesInv, Files
<1>2. LocalsInv
  BY FreshLocals DEF Init, LocalsInv
<1>3. hist \in Histories /\ mishaps \in 0..MaxMishaps
  BY MishapsAssumption DEF Init, Histories
<1> QED BY <1>1, <1>2, <1>3 DEF CacheInv
-----------------------------------------------------------------------------
(***************************************************************************)
(* Every step keeps CacheInv.                                              *)
(***************************************************************************)
LEMMA LaunchInv ==
  ASSUME CacheInv, NEW c \in Clients, Launch(c) PROVE CacheInv'
<1> USE DEF CacheInv
<1>1. FilesInv' /\ file'["disk"] = file["disk"]
  BY FilesUnmoved DEF Launch
<1>2. PICK command \in Commands[c] : Goto(c, FirstPlace(command))
  BY DEF Launch
<1>3. FirstPlace(command) \in Indifferent
  BY CommandsAssumption DEF FirstPlace, Indifferent, Places
<1>4. LocalsInv'
  BY <1>1, <1>2, <1>3, ProcessGoes
<1>5. mishaps' \in 0..MaxMishaps /\ hist' \in Histories
  BY DEF Launch, NoMishap, Histories
<1> QED BY <1>1, <1>4, <1>5

(* A returned disk that is verified may be remembered.                     *)
LEMMA Returned ==
  ASSUME LocalsInv, hist \in Histories, NEW c \in Clients,
         NEW disk \in Valid, Return(c, disk), file'["disk"] = file["disk"]
  PROVE  LocalsInv' /\ hist' \in Histories
<1>1. LocalsInv'
  BY ProcessEnds DEF Return
<1>2. (IF hist.raced \/ hist.spoilt THEN {disk} ELSE hist.disks \cup {disk})
        \in SUBSET Valid
  BY DEF Histories
<1>3. (hist.unsynced /\ At(c, "compare")) \in BOOLEAN
  OBVIOUS
<1>4. hist' \in Histories
  BY <1>2, <1>3 DEF Return, Histories
<1> QED BY <1>1, <1>4

(* What a look, or the building of a staged file, leaves alone.            *)
LEMMA LookInv ==
  ASSUME CacheInv, FilesStay, NoMishap, hist' \in Histories, LocalsInv'
  PROVE  CacheInv'
BY FilesUnmoved DEF CacheInv, NoMishap

(* A staged file is synced.                                                *)
LEMMA FsyncInv ==
  ASSUME CacheInv, NEW c \in Clients, NEW place, NEW next \in Places,
         NEW which \in {"staged", "second"}, Fsync(c, place, which, next),
         \A m \in Locals : /\ m.pc = place /\ Knows(m, file["disk"])
                          => Knows([m EXCEPT !.pc = next,
                                             !.synced = @ \cup {which}],
                                   file["disk"])
  PROVE  CacheInv'
<1> USE DEF CacheInv
<1> DEFINE r == [me[c] EXCEPT !.pc = next, !.synced = @ \cup {which}]
<1>1. file'["disk"] = file["disk"]
  BY FilesUnmoved DEF Fsync
<1>2. me[c] \in Locals /\ Knows(me[c], file["disk"]) /\ me[c].pc = place
  BY DEF LocalsInv, Fsync, At
<1>3. r \in Locals
  BY <1>2 DEF Locals
<1>4. Knows(r, file'["disk"])
  BY <1>1, <1>2
<1>5. Become(c, r)
  BY DEF Fsync
<1> HIDE DEF r
<1>6. LocalsInv'
  BY <1>1, <1>3, <1>4, <1>5, ProcessMoves
<1> QED BY <1>6, LookInv DEF Fsync

LEMMA FsyncsInv ==
  ASSUME CacheInv, NEW c \in Clients,
         \/ FsyncDisk(c) \/ FsyncMeta(c) \/ FsyncIso(c)
         \/ FsyncKubeconfig(c) \/ FsyncPassword(c)
  PROVE  CacheInv'
<1>1. ASSUME NEW m \in Locals, NEW p \in Places,
             NEW w \in {"staged", "second"}
      PROVE  LET r == [m EXCEPT !.pc = p, !.synced = @ \cup {w}]
             IN  /\ r.pc = p /\ r.seen = m.seen /\ r.staged = m.staged
                 /\ r.art = m.art /\ r.synced = m.synced \cup {w}
  BY DEF Locals
<1>2. CASE FsyncDisk(c)
  BY <1>1, <1>2, FsyncInv DEF FsyncDisk, Knows, Places
<1>3. CASE FsyncMeta(c)
  BY <1>1, <1>3, FsyncInv DEF FsyncMeta, Knows, Places
<1>4. CASE FsyncIso(c)
  BY <1>1, <1>4, FsyncInv DEF FsyncIso, Knows, Places
<1>5. CASE FsyncKubeconfig(c)
  BY <1>1, <1>5, FsyncInv DEF FsyncKubeconfig, Knows, Places
<1>6. CASE FsyncPassword(c)
  BY <1>1, <1>6, FsyncInv DEF FsyncPassword, Knows, Places
<1> QED BY <1>2, <1>3, <1>4, <1>5, <1>6

LEMMA InspectInv ==
  ASSUME CacheInv, NEW c \in Clients, Inspect(c) PROVE CacheInv'
<1> USE DEF CacheInv
<1>1. file'["disk"] = file["disk"]
  BY FilesUnmoved DEF Inspect
<1>2. ASSUME file["disk"] = None
      PROVE  LocalsInv'
  BY <1>1, <1>2, ProcessGoes DEF Inspect, Indifferent, Places
<1>3. ASSUME file["disk"] # None
      PROVE  LocalsInv'
  <2> DEFINE r == [me[c] EXCEPT !.pc = "compare", !.seen = file["meta"]]
  <2>1. file["meta"] \in Parts /\ file["meta"] \in Valid \cup {None}
    BY DEF FilesInv, Files
  <2>2. r \in Locals /\ Knows(r, file'["disk"])
    BY <2>1 DEF LocalsInv, Locals, Knows, Places
  <2>3. Become(c, r)
    BY <1>3 DEF Inspect
  <2> HIDE DEF r
  <2> QED BY <1>1, <2>2, <2>3, ProcessMoves
<1>4. LocalsInv'
  BY <1>2, <1>3
<1> QED BY <1>4, LookInv DEF Inspect

LEMMA CompareInv ==
  ASSUME CacheInv, NEW c \in Clients, Compare(c) PROVE CacheInv'
<1> USE DEF CacheInv
<1>1. file'["disk"] = file["disk"]
  BY FilesUnmoved DEF Compare
<1>2. ASSUME Describes(me[c].seen, file["disk"])
      PROVE  LocalsInv' /\ hist' \in Histories
  <2>1. me[c].seen \in Valid \cup {None} /\ me[c].seen \in Disks
    BY <1>2 DEF LocalsInv, Knows, Compare, At, Describes
  <2>2. file["disk"] \in Valid
    BY <1>2, <2>1, TornAssumption DEF Describes
  <2> QED BY <1>1, <1>2, <2>2, Returned DEF Compare
<1>3. ASSUME ~Describes(me[c].seen, file["disk"])
      PROVE  LocalsInv' /\ hist' \in Histories
  <2> DEFINE r == [Fresh EXCEPT !.pc = "qemuInfo"]
  <2>1. r \in Locals /\ Knows(r, file'["disk"])
    BY FreshLocals DEF Locals, Knows, Places
  <2>2. Become(c, r)
    BY <1>3 DEF Compare
  <2> HIDE DEF r
  <2> QED BY <1>1, <1>3, <2>1, <2>2, ProcessMoves DEF Compare
<1>4. LocalsInv' /\ hist' \in Histories
  BY <1>2, <1>3
<1> QED BY <1>4, LookInv DEF Compare

LEMMA QemuInfoInv ==
  ASSUME CacheInv, NEW c \in Clients, QemuInfo(c) PROVE CacheInv'
<1> USE DEF CacheInv
<1>1. file'["disk"] = file["disk"]
  BY FilesUnmoved DEF QemuInfo
<1>2. ASSUME file["disk"] \in Valid /\ Goto(c, "hash")
      PROVE  LocalsInv'
  <2> DEFINE r == [me[c] EXCEPT !.pc = "hash"]
  <2>1. r \in Locals /\ Knows(r, file'["disk"])
    BY <1>1, <1>2 DEF LocalsInv, Locals, Knows, Places
  <2>2. Become(c, r)
    BY <1>2 DEF Goto
  <2> HIDE DEF r
  <2> QED BY <1>1, <2>1, <2>2, ProcessMoves
<1>3. ASSUME Goto(c, "build")
      PROVE  LocalsInv'
  BY <1>1, <1>3, ProcessGoes DEF Indifferent, Places
<1>4. ASSUME End(c)
      PROVE  LocalsInv'
  BY <1>1, <1>4, ProcessEnds
<1>5. LocalsInv'
  BY <1>2, <1>3, <1>4 DEF QemuInfo
<1> QED BY <1>5, LookInv DEF QemuInfo

LEMMA BuildInv ==
  ASSUME CacheInv, NEW c \in Clients, Build(c) PROVE CacheInv'
<1> USE DEF CacheInv
<1>1. file'["disk"] = file["disk"]
  BY FilesUnmoved DEF Build
<1>2. ASSUME End(c)
      PROVE  LocalsInv'
  BY <1>1, <1>2, ProcessEnds
<1>3. ASSUME NEW b \in Valid,
             Become(c, [me[c] EXCEPT !.pc = "fsyncDisk", !.staged = b])
      PROVE  LocalsInv'
  <2> DEFINE r == [me[c] EXCEPT !.pc = "fsyncDisk", !.staged = b]
  <2>1. r \in Locals /\ Knows(r, file'["disk"])
    BY PartsContain DEF LocalsInv, Locals, Knows, Places
  <2>2. Become(c, r)
    BY <1>3
  <2> HIDE DEF r
  <2> QED BY <1>1, <2>1, <2>2, ProcessMoves
<1>4. LocalsInv'
  BY <1>2, <1>3 DEF Build
<1> QED BY <1>4, LookInv DEF Build
(* What a step that renames a staged file or syncs a directory leaves.     *)
LEMMA RenameInv ==
  ASSUME CacheInv, FilesInv', LocalsInv', NoMishap, hist' \in Histories
  PROVE  CacheInv'
BY DEF CacheInv, NoMishap

LEMMA ReplaceDiskInv ==
  ASSUME CacheInv, NEW c \in Clients, ReplaceDisk(c) PROVE CacheInv'
<1> USE DEF CacheInv
<1> DEFINE r == [Fresh EXCEPT !.pc = "syncDisk"]
<1>1. me[c].staged \in Valid
  BY DEF ReplaceDisk, At, LocalsInv, Knows
<1>2. FilesInv' /\ file'["disk"] \in Valid
  BY <1>1, StagedSynced, FileReplaced, PartsContain
     DEF ReplaceDisk, At, Files
<1>3. r \in Locals /\ Knows(r, file'["disk"])
  BY <1>2, FreshLocals DEF Locals, Knows, Places
<1>4. Become(c, r)
  BY DEF ReplaceDisk
<1> HIDE DEF r
<1>5. LocalsInv'
  BY <1>2, <1>3, <1>4, ProcessMoves
<1> QED BY <1>2, <1>5, RenameInv DEF ReplaceDisk

LEMMA SyncDiskInv ==
  ASSUME CacheInv, NEW c \in Clients, SyncDisk(c) PROVE CacheInv'
<1> USE DEF CacheInv
<1> DEFINE r == [me[c] EXCEPT !.pc = "hash"]
<1>1. FilesInv' /\ file'["disk"] = file["disk"]
  BY DirectorySynced DEF SyncDisk
<1>2. r \in Locals /\ Knows(r, file'["disk"])
  BY <1>1 DEF SyncDisk, At, LocalsInv, Locals, Knows, Places
<1>3. Become(c, r)
  BY DEF SyncDisk, Goto
<1> HIDE DEF r
<1>4. LocalsInv'
  BY <1>1, <1>2, <1>3, ProcessMoves
<1>5. hist' \in Histories
  BY DEF SyncDisk, Histories
<1> QED BY <1>1, <1>4, <1>5, RenameInv DEF SyncDisk

LEMMA HashInv ==
  ASSUME CacheInv, NEW c \in Clients, Hash(c) PROVE CacheInv'
<1> USE DEF CacheInv
<1> DEFINE r == [Fresh EXCEPT !.pc = "fsyncMeta", !.art = file["disk"]]
<1>1. file'["disk"] = file["disk"]
  BY FilesUnmoved DEF Hash
<1>2. file["disk"] \in Valid
  BY DEF Hash, At, LocalsInv, Knows
<1>3. r \in Locals /\ Knows(r, file'["disk"])
  BY <1>2, FreshLocals, PartsContain DEF Locals, Knows, Places
<1>4. Become(c, r)
  BY DEF Hash
<1> HIDE DEF r
<1>5. LocalsInv'
  BY <1>1, <1>3, <1>4, ProcessMoves
<1> QED BY <1>5, LookInv DEF Hash

LEMMA ReplaceMetaInv ==
  ASSUME CacheInv, NEW c \in Clients, ReplaceMeta(c) PROVE CacheInv'
<1> USE DEF CacheInv
<1> DEFINE r == [me[c] EXCEPT !.pc = "syncMeta"]
<1>1. me[c].art \in Valid
  BY DEF ReplaceMeta, At, LocalsInv, Knows
<1>2. FilesInv' /\ file'["disk"] = file["disk"]
  BY <1>1, StagedSynced, FileReplaced, PartsContain
     DEF ReplaceMeta, At, Files
<1>3. r \in Locals /\ Knows(r, file'["disk"])
  BY <1>1 DEF LocalsInv, Locals, Knows, Places
<1>4. Become(c, r)
  BY DEF ReplaceMeta, Goto
<1> HIDE DEF r
<1>5. LocalsInv'
  BY <1>2, <1>3, <1>4, ProcessMoves
<1> QED BY <1>2, <1>5, RenameInv DEF ReplaceMeta

LEMMA SyncMetaInv ==
  ASSUME CacheInv, NEW c \in Clients, SyncMeta(c) PROVE CacheInv'
<1> USE DEF CacheInv
<1>1. FilesInv' /\ file'["disk"] = file["disk"]
  BY DirectorySynced DEF SyncMeta
<1>2. me[c].art \in Valid
  BY DEF SyncMeta, At, LocalsInv, Knows
<1>3. LocalsInv' /\ hist' \in Histories
  BY <1>1, <1>2, Returned DEF SyncMeta
<1> QED BY <1>1, <1>3, RenameInv DEF SyncMeta

LEMMA IsoLookInv ==
  ASSUME CacheInv, NEW c \in Clients, IsoLook(c) PROVE CacheInv'
<1> USE DEF CacheInv
<1>1. file'["disk"] = file["disk"]
  BY FilesUnmoved DEF IsoLook
<1>2. ASSUME Goto(c, "download") PROVE LocalsInv'
  BY <1>1, <1>2, ProcessGoes DEF Indifferent, Places
<1>3. ASSUME End(c) PROVE LocalsInv'
  BY <1>1, <1>3, ProcessEnds
<1>4. LocalsInv'
  BY <1>2, <1>3 DEF IsoLook
<1> QED BY <1>4, LookInv DEF IsoLook

(* A process stages what it has downloaded.                                *)
LEMMA Staged ==
  ASSUME LocalsInv, NEW c \in Clients, NEW p \in Indifferent, NEW b \in Parts,
         file'["disk"] = file["disk"],
         Become(c, [me[c] EXCEPT !.pc = p, !.staged = b])
  PROVE  LocalsInv'
<1> DEFINE r == [me[c] EXCEPT !.pc = p, !.staged = b]
<1>1. r \in Locals /\ r.pc = p
  BY DEF LocalsInv, Locals, Indifferent, Places
<1>2. Knows(r, file'["disk"])
  BY <1>1 DEF Knows, Indifferent
<1>3. Become(c, r)
  OBVIOUS
<1> HIDE DEF r
<1> QED BY <1>1, <1>2, <1>3, ProcessMoves

LEMMA DownloadInv ==
  ASSUME CacheInv, NEW c \in Clients, Download(c) PROVE CacheInv'
<1> USE DEF CacheInv
<1>1. file'["disk"] = file["disk"]
  BY FilesUnmoved DEF Download
<1>2. "fsyncIso" \in Indifferent
  BY DEF Indifferent
<1>3. {Iso, Short} \subseteq Parts
  BY PartsContain
<1>4. ASSUME End(c) PROVE LocalsInv'
  BY <1>1, <1>4, ProcessEnds
<1>5. LocalsInv'
  BY <1>1, <1>2, <1>3, <1>4, Staged DEF Download
<1> QED BY <1>5, LookInv DEF Download

LEMMA StageKubeconfigInv ==
  ASSUME CacheInv, NEW c \in Clients, StageKubeconfig(c) PROVE CacheInv'
<1> USE DEF CacheInv
<1>1. file'["disk"] = file["disk"]
  BY FilesUnmoved DEF StageKubeconfig
<1>2. "fsyncKubeconfig" \in Indifferent
  BY DEF Indifferent
<1>3. ASSUME End(c) PROVE LocalsInv'
  BY <1>1, <1>3, ProcessEnds
<1>4. LocalsInv'
  BY <1>1, <1>2, <1>3, PartsContain, Staged DEF StageKubeconfig
<1> QED BY <1>4, LookInv DEF StageKubeconfig

LEMMA StagePasswordInv ==
  ASSUME CacheInv, NEW c \in Clients, StagePassword(c) PROVE CacheInv'
<1> USE DEF CacheInv
<1>1. file'["disk"] = file["disk"]
  BY FilesUnmoved DEF StagePassword
<1>2. ASSUME End(c) PROVE LocalsInv'
  BY <1>1, <1>2, ProcessEnds
<1>3. ASSUME Become(c, [me[c] EXCEPT !.pc = "fsyncPassword",
                                     !.second = me[c].staged])
      PROVE  LocalsInv'
  <2> DEFINE r == [me[c] EXCEPT !.pc = "fsyncPassword",
                                !.second = me[c].staged]
  <2>1. /\ me[c] \in Locals /\ me[c].pc = "stagePassword"
        /\ Knows(me[c], file["disk"])
    BY DEF LocalsInv, StagePassword, At
  <2>2. r \in Locals /\ r.pc = "fsyncPassword" /\ r.synced = me[c].synced
    BY <2>1 DEF Locals, Places
  <2>3. Knows(r, file'["disk"])
    BY <2>1, <2>2 DEF Knows
  <2>4. Become(c, r)
    BY <1>3
  <2> HIDE DEF r
  <2> QED BY <1>1, <2>2, <2>3, <2>4, ProcessMoves
<1>4. LocalsInv'
  BY <1>2, <1>3 DEF StagePassword
<1> QED BY <1>4, LookInv DEF StagePassword

(* The files that are not the blank disk's.                                *)
LEMMA DownloadReplaced ==
  ASSUME CacheInv, NEW c \in Clients,
         \/ ReplaceIso(c) \/ ReplaceKubeconfig(c) \/ ReplacePassword(c)
  PROVE  CacheInv'
<1> USE DEF CacheInv
<1>1. me[c].staged \in Parts /\ me[c].second \in Parts
  BY DEF LocalsInv, Locals
<1>2. FilesInv' /\ file'["disk"] = file["disk"]
  BY <1>1, FileReplaced, StagedSynced, SecondSynced
     DEF ReplaceIso, ReplaceKubeconfig, ReplacePassword, At, Files
<1>3. ASSUME ReplaceIso(c) PROVE LocalsInv'
  <2> DEFINE r == [Fresh EXCEPT !.pc = "isoLook"]
  <2>1. r \in Locals /\ Knows(r, file'["disk"])
    BY FreshLocals DEF Locals, Knows, Places
  <2>2. Become(c, r)
    BY <1>3 DEF ReplaceIso
  <2> HIDE DEF r
  <2> QED BY <1>2, <2>1, <2>2, ProcessMoves
<1>4. ASSUME ReplaceKubeconfig(c) PROVE LocalsInv'
  <2> DEFINE r == [me[c] EXCEPT !.pc = "replacePassword"]
  <2>1. /\ me[c] \in Locals /\ me[c].pc = "replaceKubeconfig"
        /\ Knows(me[c], file["disk"])
    BY <1>4 DEF LocalsInv, ReplaceKubeconfig, At
  <2>2. r \in Locals /\ r.pc = "replacePassword" /\ r.synced = me[c].synced
    BY <2>1 DEF Locals, Places
  <2>3. Knows(r, file'["disk"])
    BY <2>1, <2>2 DEF Knows
  <2>4. Become(c, r)
    BY <1>4 DEF ReplaceKubeconfig, Goto
  <2> HIDE DEF r
  <2> QED BY <1>2, <2>2, <2>3, <2>4, ProcessMoves
<1>5. ASSUME ReplacePassword(c) PROVE LocalsInv'
  BY <1>2, <1>5, ProcessEnds DEF ReplacePassword
<1>6. LocalsInv'
  BY <1>3, <1>4, <1>5
<1>7. hist' \in Histories /\ NoMishap
  BY DEF ReplaceIso, ReplaceKubeconfig, ReplacePassword, Histories
<1> QED BY <1>2, <1>6, <1>7, RenameInv
LEMMA KillInv ==
  ASSUME CacheInv, NEW c \in Clients, Kill(c) PROVE CacheInv'
<1> USE DEF CacheInv
<1>1. LocalsInv'
  BY FilesUnmoved, ProcessEnds DEF Kill
<1>2. /\ (hist.cut \/ At(c, "replacePassword")) \in BOOLEAN
      /\ (hist.unsynced \/ At(c, "syncDisk")) \in BOOLEAN
  OBVIOUS
<1>3. hist' \in Histories
  BY <1>2 DEF Kill, Histories
<1> QED BY <1>1, <1>3, LookInv DEF Kill

LEMMA OneMore ==
  ASSUME mishaps \in 0..MaxMishaps, mishaps < MaxMishaps
  PROVE  mishaps + 1 \in 0..MaxMishaps
BY MishapsAssumption

(* After a power failure there are no processes, so nobody relies on the   *)
(* disk; what is left of the metadata was true before.                     *)
LEMMA PowerFailureInv ==
  ASSUME CacheInv, PowerFailure PROVE CacheInv'
<1> USE DEF CacheInv
<1>1. PICK d \in kept["disk"], m \in kept["meta"], i \in kept["iso"],
           k \in kept["kubeconfig"], p \in kept["password"] :
        file' = [disk |-> d, meta |-> m, iso |-> i, kubeconfig |-> k,
                 password |-> p]
  BY DEF PowerFailure
<1>2. {d, m, i, k, p} \subseteq Parts /\ m \in Valid \cup {None}
  BY DEF FilesInv, Files
<1>3. file' \in [Files -> Parts] /\ file'["meta"] = m
  BY <1>1, <1>2 DEF Files
<1>4. FilesInv'
  BY <1>2, <1>3 DEF FilesInv, PowerFailure, Files
<1>5. LocalsInv'
  BY FreshLocals DEF PowerFailure, LocalsInv
<1>6. (hist.spoilt \/ hist.unsynced) \in BOOLEAN
  OBVIOUS
<1>7. hist' \in Histories
  BY <1>6 DEF PowerFailure, Histories
<1>8. mishaps' \in 0..MaxMishaps
  BY OneMore DEF PowerFailure
<1> QED BY <1>4, <1>5, <1>7, <1>8

LEMMA DamageInv ==
  ASSUME CacheInv, NEW b,
         \/ b \in (Disks \ Valid) \cup {None} /\ Damage("disk", b)
         \/ b = None /\ Damage("meta", b)
  PROVE  CacheInv'
<1> USE DEF CacheInv
<1>1. b \in Parts
  BY PartsContain
<1>2. FilesInv'
  BY <1>1 DEF FilesInv, Damage, Files
<1>3. \A c \in Clients : Knows(me[c], file'["disk"])
  BY DEF Damage, At, Knows
<1>4. LocalsInv'
  BY <1>3 DEF LocalsInv, Damage
<1>5. hist' \in Histories
  BY DEF Damage, Histories
<1>6. mishaps' \in 0..MaxMishaps
  BY OneMore DEF Damage
<1> QED BY <1>2, <1>4, <1>5, <1>6

LEMMA StepInv == CacheInv /\ [Next]_vars => CacheInv'
<1> SUFFICES ASSUME CacheInv, [Next]_vars PROVE CacheInv'
  OBVIOUS
<1>1. ASSUME NEW c \in Clients, Launch(c) \/ Step(c) \/ Kill(c)
      PROVE  CacheInv'
  BY <1>1, LaunchInv, InspectInv, CompareInv, QemuInfoInv, BuildInv,
     ReplaceDiskInv, SyncDiskInv, HashInv, ReplaceMetaInv, SyncMetaInv,
     IsoLookInv, DownloadInv, StageKubeconfigInv, StagePasswordInv,
     DownloadReplaced, FsyncsInv, KillInv DEF Step
<1>2. ASSUME UNCHANGED vars PROVE CacheInv'
  BY <1>2 DEF vars, CacheInv, FilesInv, LocalsInv
<1> QED BY <1>1, <1>2, PowerFailureInv, DamageInv DEF Next

LEMMA CacheInvariant == Spec => []CacheInv
BY InitInv, StepInv, PTL DEF Spec

LEMMA InvImplies ==
  CacheInv => TypeOK /\ VerifiedDisk /\ WholeFiles
<1> SUFFICES ASSUME CacheInv PROVE TypeOK /\ VerifiedDisk /\ WholeFiles
  OBVIOUS
<1> USE PartsContain DEF CacheInv
<1>1. file \in [Files -> Contents] /\ kept \in [Files -> SUBSET Contents]
  BY DEF FilesInv
<1>2. me \in [Clients -> Process]
  <2>1. \A m \in Locals : m \in Process
    BY DEF Locals, Process
  <2> QED BY <2>1 DEF LocalsInv
<1>3. hist \in [raced : BOOLEAN, spoilt : BOOLEAN, unsynced : BOOLEAN,
               cut : BOOLEAN, disks : SUBSET Contents]
  BY DEF Histories
<1>4. VerifiedDisk
  BY DEF VerifiedDisk, Histories
<1>5. WholeFiles
  BY DEF FilesInv, WholeFiles
<1> QED BY <1>1, <1>2, <1>3, <1>4, <1>5 DEF TypeOK
-----------------------------------------------------------------------------
(* The types of the state, whatever the processes do and suffer.           *)
THEOREM CacheTypeCorrect == Spec => []TypeOK
BY CacheInvariant, InvImplies, PTL

(* A disk that ensure_blank_disk returns was verified by qemu-img, however *)
(* many runs overlap, are killed, lose power or find the cache damaged.    *)
THEOREM DiskVerified == Spec => []VerifiedDisk
BY CacheInvariant, InvImplies, PTL

(* A power failure never leaves a part of a file under its final name,     *)
(* durable or not: each of the five actions that rename one is reached     *)
(* only through the fsync of what it renames.                              *)
THEOREM FilesWhole == Spec => []WholeFiles
BY CacheInvariant, InvImplies, PTL
-----------------------------------------------------------------------------
(***************************************************************************)
(* Processes that do not overlap.  Until two did, there is one at most,    *)
(* and what it holds agrees with the files.                                *)
(***************************************************************************)
Alone ==
  \A c, d \in Clients : c = d \/ me[c].pc = "idle" \/ me[d].pc = "idle"

(* Both credentials are staged from one cluster; between the renames the   *)
(* process has the other half of what is in place.                         *)
HoldsPair(m, kubeconfig) ==
  /\ m.pc \in {"fsyncPassword", "replaceKubeconfig"} => m.second = m.staged
  /\ m.pc = "replacePassword" => m.second = kubeconfig

PairInv ==
  ~hist.raced =>
    /\ Alone
    /\ \A c \in Clients : HoldsPair(me[c], file["kubeconfig"])
    /\ \/ hist.cut
       \/ \E c \in Clients : me[c].pc = "replacePassword"
       \/ file["kubeconfig"] = file["password"]

(* A disk is built only while none was returned, and what was hashed is    *)
(* the disk in place.                                                      *)
HoldsDisk(m, disk, returned) ==
  /\ m.pc \in {"build", "fsyncDisk", "replaceDisk", "syncDisk"} =>
       returned = {}
  /\ m.pc \in {"fsyncMeta", "replaceMeta", "syncMeta"} => m.art = disk

(* What was returned is in place, and durable unless a process was killed  *)
(* before the sync that follows the renaming.                              *)
DiskInv ==
  /\ Torn \notin kept["disk"]
  /\ ~hist.raced /\ ~hist.spoilt =>
       /\ hist.disks \subseteq {file["disk"]}
       /\ \A c \in Clients : HoldsDisk(me[c], file["disk"], hist.disks)
       /\ \/ hist.unsynced
          \/ \E c \in Clients : me[c].pc = "syncDisk"
          \/ kept["disk"] \subseteq {file["disk"]}

(* The place of c changes, and perhaps files that are not in question.     *)
LEMMA OneMoves ==
  ASSUME LocalsInv, NEW c \in Clients, NEW r, Become(c, r)
  PROVE  /\ me'[c] = r
         /\ \A d \in Clients : d # c => me'[d] = me[d]
BY DEF LocalsInv, Become

LEMMA PairElsewhere ==
  ASSUME LocalsInv, PairInv, NEW c \in Clients, NEW r, Become(c, r),
         me[c].pc \notin {"idle", "replacePassword"},
         r.pc # "replacePassword",
         r.pc \in {"fsyncPassword", "replaceKubeconfig"} =>
           r.second = r.staged,
         hist'.raced = hist.raced, hist'.cut = hist.cut,
         file'["kubeconfig"] = file["kubeconfig"],
         file'["password"] = file["password"]
  PROVE  PairInv'
<1> SUFFICES ASSUME ~hist.raced PROVE PairInv'
  BY DEF PairInv
<1>1. /\ me'[c] = r
      /\ \A d \in Clients : d # c => me'[d] = me[d] /\ me[d].pc = "idle"
  BY OneMoves DEF PairInv, Alone
<1>2. Alone'
  BY <1>1 DEF Alone
<1>3. \A d \in Clients : HoldsPair(me'[d], file'["kubeconfig"])
  BY <1>1 DEF HoldsPair
<1>4. \/ hist.cut \/ file["kubeconfig"] = file["password"]
  BY <1>1 DEF PairInv
<1> QED BY <1>2, <1>3, <1>4 DEF PairInv

LEMMA DiskElsewhere ==
  ASSUME LocalsInv, DiskInv, NEW c \in Clients, NEW r, Become(c, r),
         me[c].pc # "syncDisk",
         ~hist.raced /\ ~hist.spoilt =>
           HoldsDisk(r, file["disk"], hist.disks),
         hist'.raced = hist.raced, hist'.spoilt = hist.spoilt,
         hist'.unsynced = hist.unsynced, hist'.disks = hist.disks,
         file'["disk"] = file["disk"], kept'["disk"] = kept["disk"]
  PROVE  DiskInv'
<1>1. /\ me'[c] = r
      /\ \A d \in Clients : d # c => me'[d] = me[d]
  BY OneMoves
<1>2. ASSUME ~hist.raced, ~hist.spoilt
      PROVE  /\ \A d \in Clients : HoldsDisk(me'[d], file["disk"], hist.disks)
             /\ \/ hist.unsynced
                \/ \E d \in Clients : me'[d].pc = "syncDisk"
                \/ kept["disk"] \subseteq {file["disk"]}
  BY <1>1, <1>2 DEF DiskInv
<1> QED BY <1>2 DEF DiskInv

(* The steps that do not touch the credential files.                       *)
NoPair(c) ==
  /\ me[c].pc \notin {"idle", "replacePassword"}
  /\ Become(c, me'[c])
  /\ me'[c].pc \notin
       {"fsyncPassword", "replaceKubeconfig", "replacePassword"}
  /\ hist'.raced = hist.raced /\ hist'.cut = hist.cut
  /\ file'["kubeconfig"] = file["kubeconfig"]
  /\ file'["password"] = file["password"]

LEMMA NoPairSteps ==
  ASSUME CacheInv, NEW c \in Clients, Step(c),
         ~StagePassword(c), ~FsyncPassword(c),
         ~ReplaceKubeconfig(c), ~ReplacePassword(c)
  PROVE  NoPair(c)
<1>1. me \in [Clients -> Locals] /\ me[c] \in Locals
  BY DEF CacheInv, LocalsInv
<1>2. file \in [Files -> Parts] /\ hist \in Histories
  BY DEF CacheInv, FilesInv
<1> USE <1>1, <1>2 DEF NoPair, At, Become, Goto, End, Fresh, FilesStay,
        Locals, Histories, Files, Return, Replace
<1>3. ASSUME Inspect(c) PROVE NoPair(c)
  <2>1. CASE file["disk"] = None
    BY <1>3, <2>1 DEF Inspect
  <2>2. CASE file["disk"] # None
    <3>1. /\ me[c].pc = "inspect" /\ FilesStay /\ hist' = hist
          /\ me' = [me EXCEPT ![c] =
                      [me[c] EXCEPT !.pc = "compare", !.seen = file["meta"]]]
      BY <1>3, <2>2 DEF Inspect
    <3>2. me'[c].pc = "compare" /\ me' = [me EXCEPT ![c] = me'[c]]
      BY <3>1
    <3> QED BY <3>1, <3>2
  <2> QED BY <2>1, <2>2
<1>4. ASSUME QemuInfo(c) PROVE NoPair(c)
  BY <1>4 DEF QemuInfo
<1>5. ASSUME Compare(c)
      PROVE  NoPair(c)
  <2>1. CASE Describes(me[c].seen, file["disk"])
    <3>1. Return(c, file["disk"]) /\ FilesStay /\ me[c].pc = "compare"
      BY <1>5, <2>1 DEF Compare
    <3>2. me' = [me EXCEPT ![c] = Fresh]
      BY <3>1
    <3>3. hist'.raced = hist.raced /\ hist'.cut = hist.cut
      BY <3>1
    <3> QED BY <3>1, <3>2, <3>3
  <2>2. CASE ~Describes(me[c].seen, file["disk"])
    BY <1>5, <2>2 DEF Compare
  <2> QED BY <2>1, <2>2
<1>6. ASSUME Build(c) \/ Download(c) \/ StageKubeconfig(c)
      PROVE  NoPair(c)
  <2>1. /\ me[c].pc \notin {"idle", "replacePassword"}
        /\ hist' = hist /\ file' = file
    BY <1>6 DEF Build, Download, StageKubeconfig
  <2>2. \/ me' = [me EXCEPT ![c] = Fresh]
        \/ \E b, p : /\ me' = [me EXCEPT ![c] =
                                 [me[c] EXCEPT !.pc = p, !.staged = b]]
                     /\ p \in {"fsyncDisk", "fsyncIso", "fsyncKubeconfig"}
    BY <1>6 DEF Build, Download, StageKubeconfig
  <2>3. CASE me' = [me EXCEPT ![c] = Fresh]
    BY <2>1, <2>3
  <2>4. ASSUME NEW b, NEW p,
               me' = [me EXCEPT ![c] =
                        [me[c] EXCEPT !.pc = p, !.staged = b]],
               p \in {"fsyncDisk", "fsyncIso", "fsyncKubeconfig"}
        PROVE  NoPair(c)
    BY <2>1, <2>4
  <2> QED BY <2>2, <2>3, <2>4
<1>7. ASSUME ReplaceDisk(c) PROVE NoPair(c)
  BY <1>7 DEF ReplaceDisk
<1>8. ASSUME SyncDisk(c) PROVE NoPair(c)
  BY <1>8 DEF SyncDisk
<1>9. ASSUME Hash(c) PROVE NoPair(c)
  BY <1>9 DEF Hash
<1>10. ASSUME ReplaceMeta(c) PROVE NoPair(c)
  BY <1>10 DEF ReplaceMeta
<1>11. ASSUME SyncMeta(c) PROVE NoPair(c)
  BY <1>11 DEF SyncMeta
<1>12. ASSUME IsoLook(c) PROVE NoPair(c)
  BY <1>12 DEF IsoLook
<1>13. ASSUME ReplaceIso(c) PROVE NoPair(c)
  BY <1>13 DEF ReplaceIso
<1>14. ASSUME NEW place \in {"fsyncDisk", "fsyncMeta", "fsyncIso",
                             "fsyncKubeconfig"},
              NEW next \in {"replaceDisk", "replaceMeta", "replaceIso",
                            "stagePassword"},
              Fsync(c, place, "staged", next)
       PROVE  NoPair(c)
  <2>1. /\ me[c].pc = place /\ FilesStay /\ hist' = hist
        /\ me' = [me EXCEPT ![c] = [me[c] EXCEPT
                    !.pc = next, !.synced = @ \cup {"staged"}]]
    BY <1>14 DEF Fsync
  <2>2. me'[c].pc = next /\ me' = [me EXCEPT ![c] = me'[c]]
    BY <2>1
  <2> QED BY <2>1, <2>2
<1> HIDE DEF NoPair, At, Become, Goto, End, Fresh, FilesStay, Locals,
        Histories, Files, Return, Replace
<1>15. ASSUME \/ FsyncDisk(c) \/ FsyncMeta(c) \/ FsyncIso(c)
              \/ FsyncKubeconfig(c)
       PROVE  NoPair(c)
  BY <1>14, <1>15 DEF FsyncDisk, FsyncMeta, FsyncIso, FsyncKubeconfig
<1> QED BY <1>3, <1>4, <1>5, <1>6, <1>7, <1>8, <1>9, <1>10, <1>11, <1>12,
           <1>13, <1>15 DEF Step

LEMMA PairSteps ==
  ASSUME CacheInv, PairInv, NEW c \in Clients, Step(c) PROVE PairInv'
<1>1. me \in [Clients -> Locals] /\ me[c] \in Locals /\ LocalsInv
  BY DEF CacheInv, LocalsInv
<1>2. file \in [Files -> Parts] /\ hist \in Histories
  BY DEF CacheInv, FilesInv
<1>3. ASSUME NoPair(c)
      PROVE  PairInv'
  <2> DEFINE r == me'[c]
  <2>1. Become(c, r)
    BY <1>3 DEF NoPair
  <2>2. /\ me[c].pc \notin {"idle", "replacePassword"}
        /\ r.pc \notin
             {"fsyncPassword", "replaceKubeconfig", "replacePassword"}
        /\ hist'.raced = hist.raced /\ hist'.cut = hist.cut
        /\ file'["kubeconfig"] = file["kubeconfig"]
        /\ file'["password"] = file["password"]
    BY <1>3 DEF NoPair
  <2> HIDE DEF r
  <2> QED BY <1>1, <2>1, <2>2, PairElsewhere
<1>4. ASSUME StagePassword(c)
      PROVE  PairInv'
  <2>1. /\ me[c].pc = "stagePassword" /\ hist' = hist /\ file' = file
        /\ \/ Become(c, Fresh)
           \/ Become(c, [me[c] EXCEPT !.pc = "fsyncPassword",
                                      !.second = me[c].staged])
    BY <1>4 DEF StagePassword, At, End, FilesStay
  <2> DEFINE r == [me[c] EXCEPT !.pc = "fsyncPassword",
                                !.second = me[c].staged]
  <2>2. r.pc = "fsyncPassword" /\ r.second = r.staged
    BY <1>1 DEF Locals
  <2>3. Fresh.pc = "idle"
    BY FreshLocals
  <2>4. Become(c, Fresh) \/ Become(c, r)
    BY <2>1
  <2> HIDE DEF r
  <2>5. CASE Become(c, Fresh)
    BY <1>1, <2>1, <2>3, <2>5, PairElsewhere
  <2>6. CASE Become(c, r)
    BY <1>1, <2>1, <2>2, <2>6, PairElsewhere
  <2> QED BY <2>4, <2>5, <2>6
<1>5. ASSUME ReplaceKubeconfig(c)
      PROVE  PairInv'
  <2> SUFFICES ASSUME ~hist.raced PROVE PairInv'
    BY <1>5 DEF ReplaceKubeconfig, PairInv
  <2>1. /\ me[c].pc = "replaceKubeconfig" /\ hist' = hist
        /\ file'["kubeconfig"] = me[c].staged
        /\ Become(c, [me[c] EXCEPT !.pc = "replacePassword"])
    BY <1>2, <1>5 DEF ReplaceKubeconfig, At, Goto, Replace, Files
  <2>2. me[c].second = me[c].staged
    BY <2>1 DEF PairInv, HoldsPair
  <2>3. /\ me'[c].pc = "replacePassword" /\ me'[c].second = me[c].staged
        /\ \A d \in Clients : d # c => me'[d] = me[d] /\ me[d].pc = "idle"
    BY <1>1, <2>1, <2>2, OneMoves DEF PairInv, Alone, Locals
  <2>4. Alone' /\ \A d \in Clients : HoldsPair(me'[d], file'["kubeconfig"])
    BY <2>1, <2>3 DEF Alone, HoldsPair
  <2> QED BY <2>3, <2>4 DEF PairInv
<1>6. ASSUME ReplacePassword(c)
      PROVE  PairInv'
  <2> SUFFICES ASSUME ~hist.raced PROVE PairInv'
    BY <1>2, <1>6 DEF ReplacePassword, PairInv, Histories
  <2>1. /\ me[c].pc = "replacePassword" /\ Become(c, Fresh)
        /\ file'["password"] = me[c].second
        /\ file'["kubeconfig"] = file["kubeconfig"]
    BY <1>2, <1>6 DEF ReplacePassword, At, End, Replace, Files
  <2>2. me[c].second = file["kubeconfig"]
    BY <2>1 DEF PairInv, HoldsPair
  <2>3. /\ me'[c].pc = "idle"
        /\ \A d \in Clients : d # c => me'[d] = me[d] /\ me[d].pc = "idle"
    BY <1>1, <2>1, FreshLocals, OneMoves DEF PairInv, Alone
  <2>4. Alone' /\ \A d \in Clients : HoldsPair(me'[d], file'["kubeconfig"])
    BY <2>3 DEF Alone, HoldsPair
  <2> QED BY <2>1, <2>2, <2>4 DEF PairInv
<1>7. ASSUME FsyncPassword(c)
      PROVE  PairInv'
  <2> SUFFICES ASSUME ~hist.raced PROVE PairInv'
    BY <1>7 DEF FsyncPassword, Fsync, PairInv
  <2> DEFINE r == [me[c] EXCEPT !.pc = "replaceKubeconfig",
                                !.synced = @ \cup {"second"}]
  <2>1. /\ me[c].pc = "fsyncPassword" /\ hist' = hist /\ file' = file
        /\ Become(c, r)
    BY <1>7 DEF FsyncPassword, Fsync, At, FilesStay
  <2>2. me[c].second = me[c].staged
    BY <2>1 DEF PairInv, HoldsPair
  <2>3. r.pc = "replaceKubeconfig" /\ r.second = r.staged
    BY <1>1, <2>2 DEF Locals
  <2> HIDE DEF r
  <2> QED BY <1>1, <2>1, <2>3, PairElsewhere
<1> QED BY <1>3, <1>4, <1>5, <1>6, <1>7, NoPairSteps

LEMMA PairLaunch ==
  ASSUME CacheInv, PairInv, NEW c \in Clients, Launch(c) PROVE PairInv'
<1>1. me[c] \in Locals /\ LocalsInv /\ hist \in Histories
  BY DEF CacheInv, LocalsInv
<1>2. PICK command \in Commands[c] : Goto(c, FirstPlace(command))
  BY DEF Launch
<1>3. FirstPlace(command) \in {"inspect", "isoLook", "stageKubeconfig"}
  BY CommandsAssumption DEF FirstPlace
<1>4. /\ hist'.raced = (hist.raced \/ \E d \in Clients \ {c} : ~At(d, "idle"))
      /\ hist'.cut = hist.cut /\ file' = file
  BY <1>1 DEF Launch, Histories, FilesStay
<1> SUFFICES ASSUME ~hist'.raced PROVE PairInv'
  BY DEF PairInv
<1>5. /\ me'[c].pc = FirstPlace(command)
      /\ \A d \in Clients : d # c => me'[d] = me[d] /\ me[d].pc = "idle"
  <2> DEFINE r == [me[c] EXCEPT !.pc = FirstPlace(command)]
  <2>1. r.pc = FirstPlace(command)
    BY <1>1 DEF Locals
  <2>2. Become(c, r)
    BY <1>2 DEF Goto
  <2> HIDE DEF r
  <2>3. me'[c] = r /\ \A d \in Clients : d # c => me'[d] = me[d]
    BY <1>1, <2>2, OneMoves
  <2>4. \A d \in Clients : d # c => me[d].pc = "idle"
    BY <1>4 DEF At
  <2> QED BY <2>1, <2>3, <2>4
<1>6. me[c].pc = "idle"
  BY DEF Launch, At
<1>7. Alone' /\ \A d \in Clients : HoldsPair(me'[d], file'["kubeconfig"])
  BY <1>3, <1>5 DEF Alone, HoldsPair
<1>8. hist.cut \/ file["kubeconfig"] = file["password"]
  BY <1>4, <1>5, <1>6 DEF PairInv
<1> QED BY <1>4, <1>7, <1>8 DEF PairInv

LEMMA PairKill ==
  ASSUME CacheInv, PairInv, NEW c \in Clients, Kill(c) PROVE PairInv'
<1>1. LocalsInv /\ hist \in Histories
  BY DEF CacheInv
<1>2. /\ hist'.raced = hist.raced /\ file' = file
      /\ hist'.cut = (hist.cut \/ me[c].pc = "replacePassword")
  BY <1>1 DEF Kill, Histories, FilesStay, At
<1>3. /\ me[c].pc # "idle" /\ me'[c].pc = "idle"
      /\ \A d \in Clients : d # c => me'[d] = me[d]
  BY <1>1, FreshLocals, OneMoves DEF Kill, End, At
<1> SUFFICES ASSUME ~hist.raced PROVE PairInv'
  BY <1>2 DEF PairInv
<1>4. \A d \in Clients : d # c => me[d].pc = "idle"
  BY <1>3 DEF PairInv, Alone
<1>5. Alone' /\ \A d \in Clients : HoldsPair(me'[d], file'["kubeconfig"])
  BY <1>3, <1>4 DEF Alone, HoldsPair
<1>6. hist'.cut \/ file["kubeconfig"] = file["password"]
  BY <1>2, <1>4 DEF PairInv
<1> QED BY <1>2, <1>5, <1>6 DEF PairInv

LEMMA PairMishaps ==
  ASSUME CacheInv, PairInv,
         \/ PowerFailure
         \/ \E b : Damage("disk", b) \/ Damage("meta", b)
  PROVE  PairInv'
<1>1. file \in [Files -> Parts] /\ hist \in Histories
  BY DEF CacheInv, FilesInv
<1>2. ASSUME PowerFailure PROVE PairInv'
  <2>1. hist'.cut
    BY <1>1, <1>2 DEF PowerFailure, Histories
  <2>2. \A c \in Clients : me'[c].pc = "idle"
    BY <1>2, FreshLocals DEF PowerFailure
  <2> QED BY <2>1, <2>2 DEF PairInv, Alone, HoldsPair
<1>3. ASSUME NEW b, NEW f \in {"disk", "meta"}, Damage(f, b) PROVE PairInv'
  <2>1. /\ me' = me /\ file'["kubeconfig"] = file["kubeconfig"]
        /\ file'["password"] = file["password"]
        /\ hist'.raced = hist.raced /\ hist'.cut = hist.cut
    BY <1>1, <1>3 DEF Damage, Files, Histories
  <2> QED BY <2>1 DEF PairInv, Alone
<1> QED BY <1>2, <1>3

(* The steps that do not touch the disk and return none.                   *)
NoDisk(c) ==
  /\ me[c].pc # "syncDisk"
  /\ Become(c, me'[c])
  /\ ~hist.raced /\ ~hist.spoilt =>
       HoldsDisk(me'[c], file["disk"], hist.disks)
  /\ hist'.raced = hist.raced /\ hist'.spoilt = hist.spoilt
  /\ hist'.unsynced = hist.unsynced /\ hist'.disks = hist.disks
  /\ file'["disk"] = file["disk"] /\ kept'["disk"] = kept["disk"]

LEMMA NoDiskStep ==
  ASSUME CacheInv, DiskInv, NEW c \in Clients, NoDisk(c) PROVE DiskInv'
<1> DEFINE r == me'[c]
<1>1. Become(c, r)
  BY DEF NoDisk
<1>2. ~hist.raced /\ ~hist.spoilt => HoldsDisk(r, file["disk"], hist.disks)
  BY DEF NoDisk
<1>3. /\ me[c].pc # "syncDisk"
      /\ hist'.raced = hist.raced /\ hist'.spoilt = hist.spoilt
      /\ hist'.unsynced = hist.unsynced /\ hist'.disks = hist.disks
      /\ file'["disk"] = file["disk"] /\ kept'["disk"] = kept["disk"]
  BY DEF NoDisk
<1>4. LocalsInv
  BY DEF CacheInv
<1> HIDE DEF r
<1> QED BY <1>1, <1>2, <1>3, <1>4, DiskElsewhere

(* No disk was returned while the one in place is not valid.               *)
LEMMA NoneReturned ==
  ASSUME CacheInv, DiskInv, ~hist.raced, ~hist.spoilt,
         file["disk"] \notin Valid
  PROVE  hist.disks = {}
BY DEF CacheInv, Histories, DiskInv

LEMMA NoDiskSteps ==
  ASSUME CacheInv, DiskInv, NEW c \in Clients, Step(c),
         ~Compare(c), ~ReplaceDisk(c), ~SyncDisk(c), ~SyncMeta(c)
  PROVE  NoDisk(c)
<1>1. me \in [Clients -> Locals] /\ me[c] \in Locals
  BY DEF CacheInv, LocalsInv
<1>2. /\ file \in [Files -> Parts] /\ kept \in [Files -> SUBSET Parts]
      /\ hist \in Histories
  BY DEF CacheInv, FilesInv
<1>3. None \notin Valid
  BY ValidAssumption, TornAssumption
<1>4. ~hist.raced /\ ~hist.spoilt =>
        HoldsDisk(me[c], file["disk"], hist.disks)
  BY DEF DiskInv
<1>5. ~hist.raced /\ ~hist.spoilt /\ file["disk"] \notin Valid =>
        hist.disks = {}
  BY NoneReturned
<1> USE <1>1, <1>2 DEF NoDisk, HoldsDisk, At, Become, Goto, End, Fresh,
        FilesStay, Locals, Histories, Files, Replace
<1>6. ASSUME Inspect(c) PROVE NoDisk(c)
  <2>1. CASE file["disk"] = None
    <3>1. /\ me[c].pc = "inspect" /\ FilesStay /\ hist' = hist
          /\ me' = [me EXCEPT ![c] = [me[c] EXCEPT !.pc = "build"]]
      BY <1>6, <2>1 DEF Inspect
    <3>2. me'[c].pc = "build" /\ me' = [me EXCEPT ![c] = me'[c]]
      BY <3>1
    <3> QED BY <1>3, <1>5, <2>1, <3>1, <3>2
  <2>2. CASE file["disk"] # None
    <3>1. /\ me[c].pc = "inspect" /\ FilesStay /\ hist' = hist
          /\ me' = [me EXCEPT ![c] =
                      [me[c] EXCEPT !.pc = "compare", !.seen = file["meta"]]]
      BY <1>6, <2>2 DEF Inspect
    <3>2. me'[c].pc = "compare" /\ me' = [me EXCEPT ![c] = me'[c]]
      BY <3>1
    <3> QED BY <3>1, <3>2
  <2> QED BY <2>1, <2>2
<1>7. ASSUME QemuInfo(c) PROVE NoDisk(c)
  <2>1. me[c].pc = "qemuInfo" /\ FilesStay /\ hist' = hist
    BY <1>7 DEF QemuInfo
  <2>2. \/ me' = [me EXCEPT ![c] = [me[c] EXCEPT !.pc = "hash"]]
        \/ me' = [me EXCEPT ![c] = Fresh]
        \/ /\ file["disk"] \notin Valid
           /\ me' = [me EXCEPT ![c] = [me[c] EXCEPT !.pc = "build"]]
    BY <1>7 DEF QemuInfo
  <2>3. /\ me' = [me EXCEPT ![c] = me'[c]]
        /\ \/ me'[c].pc \in {"hash", "idle"}
           \/ me'[c].pc = "build" /\ file["disk"] \notin Valid
    BY <2>2
  <2> QED BY <1>5, <2>1, <2>3
<1>8. ASSUME Build(c) PROVE NoDisk(c)
  <2>1. me[c].pc = "build" /\ FilesStay /\ hist' = hist
    BY <1>8 DEF Build
  <2>2. \/ me' = [me EXCEPT ![c] = Fresh]
        \/ \E b : me' = [me EXCEPT ![c] =
                           [me[c] EXCEPT !.pc = "fsyncDisk", !.staged = b]]
    BY <1>8 DEF Build
  <2>3. /\ me' = [me EXCEPT ![c] = me'[c]]
        /\ me'[c].pc \in {"idle", "fsyncDisk"}
    <3>1. CASE me' = [me EXCEPT ![c] = Fresh]
      BY <3>1
    <3>2. ASSUME NEW b,
                 me' = [me EXCEPT ![c] =
                          [me[c] EXCEPT !.pc = "fsyncDisk", !.staged = b]]
          PROVE  /\ me' = [me EXCEPT ![c] = me'[c]]
                 /\ me'[c].pc = "fsyncDisk"
      BY <3>2
    <3> QED BY <2>2, <3>1, <3>2
  <2> QED BY <1>4, <2>1, <2>3
<1>9. ASSUME Hash(c) PROVE NoDisk(c)
  BY <1>9 DEF Hash
<1>10. ASSUME ReplaceMeta(c) PROVE NoDisk(c)
  <2>1. /\ me[c].pc = "replaceMeta" /\ hist' = hist
        /\ file'["disk"] = file["disk"] /\ kept'["disk"] = kept["disk"]
        /\ me' = [me EXCEPT ![c] = [me[c] EXCEPT !.pc = "syncMeta"]]
    BY <1>10 DEF ReplaceMeta
  <2>2. /\ me' = [me EXCEPT ![c] = me'[c]]
        /\ me'[c].pc = "syncMeta" /\ me'[c].art = me[c].art
    BY <2>1
  <2> QED BY <1>4, <2>1, <2>2
<1>11. ASSUME IsoLook(c) PROVE NoDisk(c)
  BY <1>11 DEF IsoLook
<1>12. ASSUME ReplaceIso(c) PROVE NoDisk(c)
  BY <1>12 DEF ReplaceIso
<1>13. ASSUME Download(c) \/ StageKubeconfig(c) PROVE NoDisk(c)
  <2>1. /\ me[c].pc # "syncDisk" /\ FilesStay /\ hist' = hist
    BY <1>13 DEF Download, StageKubeconfig
  <2>2. \/ me' = [me EXCEPT ![c] = Fresh]
        \/ \E b, p : /\ me' = [me EXCEPT ![c] =
                                 [me[c] EXCEPT !.pc = p, !.staged = b]]
                     /\ p \in {"fsyncIso", "fsyncKubeconfig"}
    BY <1>13 DEF Download, StageKubeconfig
  <2>3. /\ me' = [me EXCEPT ![c] = me'[c]]
        /\ me'[c].pc \in {"idle", "fsyncIso", "fsyncKubeconfig"}
    <3>1. CASE me' = [me EXCEPT ![c] = Fresh]
      BY <3>1
    <3>2. ASSUME NEW b, NEW p \in {"fsyncIso", "fsyncKubeconfig"},
                 me' = [me EXCEPT ![c] =
                          [me[c] EXCEPT !.pc = p, !.staged = b]]
          PROVE  /\ me' = [me EXCEPT ![c] = me'[c]]
                 /\ me'[c].pc \in {"idle", "fsyncIso", "fsyncKubeconfig"}
      BY <3>2
    <3> HIDE DEF Fresh
    <3> QED BY <2>2, <3>1, <3>2
  <2>4. HoldsDisk(me'[c], file["disk"], hist.disks)
    BY <2>3
  <2> QED BY <2>1, <2>3, <2>4
<1>14. ASSUME StagePassword(c) PROVE NoDisk(c)
  <2>1. /\ me[c].pc = "stagePassword" /\ FilesStay /\ hist' = hist
        /\ \/ me' = [me EXCEPT ![c] = Fresh]
           \/ me' = [me EXCEPT ![c] = [me[c] EXCEPT
                       !.pc = "fsyncPassword", !.second = me[c].staged]]
    BY <1>14 DEF StagePassword
  <2>2. /\ me' = [me EXCEPT ![c] = me'[c]]
        /\ me'[c].pc \in {"idle", "fsyncPassword"}
    <3>1. CASE me' = [me EXCEPT ![c] = Fresh]
      BY <3>1
    <3>2. CASE me' = [me EXCEPT ![c] = [me[c] EXCEPT
                        !.pc = "fsyncPassword", !.second = me[c].staged]]
      BY <3>2
    <3> QED BY <2>1, <3>1, <3>2
  <2> QED BY <2>1, <2>2
<1>15. ASSUME ReplaceKubeconfig(c) PROVE NoDisk(c)
  BY <1>15 DEF ReplaceKubeconfig
<1>16. ASSUME ReplacePassword(c) PROVE NoDisk(c)
  BY <1>16 DEF ReplacePassword
<1>17. ASSUME NEW place \in Places, NEW which \in {"staged", "second"},
              NEW next \in Places, Fsync(c, place, which, next),
              place # "syncDisk",
              next \in {"build", "fsyncDisk", "replaceDisk", "syncDisk"} =>
                place = "fsyncDisk",
              next \in {"fsyncMeta", "replaceMeta", "syncMeta"} =>
                place = "fsyncMeta"
       PROVE  NoDisk(c)
  <2>1. /\ me[c].pc = place /\ FilesStay /\ hist' = hist
        /\ me' = [me EXCEPT ![c] = [me[c] EXCEPT
                    !.pc = next, !.synced = @ \cup {which}]]
    BY <1>17 DEF Fsync
  <2>2. /\ me'[c].pc = next /\ me'[c].art = me[c].art
        /\ me' = [me EXCEPT ![c] = me'[c]]
    BY <2>1
  <2> QED BY <1>4, <1>17, <2>1, <2>2
<1> HIDE DEF NoDisk, HoldsDisk, At, Become, Goto, End, Fresh, FilesStay,
        Locals, Histories, Files, Replace
<1>18. ASSUME \/ FsyncDisk(c) \/ FsyncMeta(c) \/ FsyncIso(c)
              \/ FsyncKubeconfig(c) \/ FsyncPassword(c)
       PROVE  NoDisk(c)
  BY <1>17, <1>18 DEF FsyncDisk, FsyncMeta, FsyncIso, FsyncKubeconfig,
     FsyncPassword, Places
<1> QED BY <1>6, <1>7, <1>8, <1>9, <1>10, <1>11, <1>12, <1>13, <1>14, <1>15,
           <1>16, <1>18 DEF Step

(* A disk is returned: it is the one in place.                             *)
LEMMA DiskReturned ==
  ASSUME CacheInv, PairInv, DiskInv, NEW c \in Clients,
         me[c].pc \in {"compare", "syncMeta"},
         Return(c, file["disk"]), file'["disk"] = file["disk"],
         Torn \notin kept'["disk"],
         ~hist'.unsynced => kept'["disk"] \subseteq {file["disk"]}
  PROVE  DiskInv'
<1>1. LocalsInv /\ hist \in Histories
  BY DEF CacheInv
<1>2. hist'.raced = hist.raced /\ hist'.spoilt = hist.spoilt
  BY <1>1 DEF Return, Histories
<1> SUFFICES ASSUME ~hist.raced, ~hist.spoilt PROVE DiskInv'
  BY <1>2 DEF DiskInv
<1>3. hist'.disks = hist.disks \cup {file["disk"]}
  BY <1>1 DEF Return, Histories
<1>4. hist'.disks \subseteq {file'["disk"]}
  BY <1>3 DEF DiskInv
<1>5. /\ me'[c].pc = "idle"
      /\ \A d \in Clients : d # c => me'[d] = me[d] /\ me[d].pc = "idle"
  BY <1>1, FreshLocals, OneMoves DEF Return, End, PairInv, Alone
<1>6. \A d \in Clients : HoldsDisk(me'[d], file'["disk"], hist'.disks)
  BY <1>5 DEF HoldsDisk
<1> QED BY <1>4, <1>6 DEF DiskInv

(* Compare returns the disk in place, or has it inspected.                 *)
LEMMA DiskCompare ==
  ASSUME CacheInv, PairInv, DiskInv, NEW c \in Clients, Compare(c)
  PROVE  DiskInv'
<1>1. LocalsInv /\ hist \in Histories
  BY DEF CacheInv
<1>2. me[c].pc = "compare" /\ file' = file /\ kept' = kept
  BY DEF Compare, At, FilesStay
<1>3. CASE Return(c, file["disk"])
  <2> SUFFICES ASSUME ~hist.raced, ~hist.spoilt PROVE DiskInv'
    BY <1>1, <1>2, <1>3 DEF DiskInv, Return, Histories
  <2>1. hist'.unsynced = hist.unsynced
    BY <1>1, <1>2, <1>3 DEF Return, Histories, At
  <2>2. \A d \in Clients : me[d].pc # "syncDisk"
    BY <1>2 DEF PairInv, Alone
  <2> QED BY <1>2, <1>3, <2>1, <2>2, DiskReturned DEF DiskInv
<1>4. CASE /\ Become(c, [Fresh EXCEPT !.pc = "qemuInfo"])
           /\ UNCHANGED hist
  <2> DEFINE r == [Fresh EXCEPT !.pc = "qemuInfo"]
  <2>1. r.pc = "qemuInfo"
    BY DEF Fresh
  <2>2. Become(c, r)
    BY <1>4
  <2> HIDE DEF r
  <2> QED BY <1>1, <1>2, <1>4, <2>1, <2>2, DiskElsewhere DEF HoldsDisk
<1> QED BY <1>3, <1>4 DEF Compare

(* A new disk is put in place only while none was returned.                *)
LEMMA DiskReplaced ==
  ASSUME CacheInv, PairInv, DiskInv, NEW c \in Clients, ReplaceDisk(c)
  PROVE  DiskInv'
<1>1. /\ LocalsInv /\ hist \in Histories /\ me[c] \in Locals
      /\ file \in [Files -> Parts] /\ kept \in [Files -> SUBSET Parts]
  BY DEF CacheInv, FilesInv, LocalsInv
<1>2. /\ me[c].pc = "replaceDisk" /\ hist' = hist
      /\ Replace("disk", me[c].staged, TRUE)
      /\ Become(c, [Fresh EXCEPT !.pc = "syncDisk"])
  BY <1>1, StagedSynced DEF ReplaceDisk, At
<1>3. me[c].staged # Torn
  BY <1>2, ValidAssumption, TornAssumption DEF CacheInv, LocalsInv, Knows
<1>4. Torn \notin kept'["disk"]
  BY <1>1, <1>2, <1>3 DEF DiskInv, Replace, Files
<1> SUFFICES ASSUME ~hist.raced, ~hist.spoilt PROVE DiskInv'
  BY <1>2, <1>4 DEF DiskInv
<1>5. hist.disks = {}
  BY <1>2 DEF DiskInv, HoldsDisk
<1>6. /\ me'[c].pc = "syncDisk"
      /\ \A d \in Clients : d # c => me'[d] = me[d] /\ me[d].pc = "idle"
  <2> DEFINE r == [Fresh EXCEPT !.pc = "syncDisk"]
  <2>1. r.pc = "syncDisk"
    BY DEF Fresh
  <2>2. Become(c, r)
    BY <1>2
  <2> HIDE DEF r
  <2> QED BY <1>1, <1>2, <2>1, <2>2, OneMoves DEF PairInv, Alone
<1>7. \A d \in Clients : HoldsDisk(me'[d], file'["disk"], hist'.disks)
  BY <1>2, <1>5, <1>6 DEF HoldsDisk
<1> QED BY <1>2, <1>4, <1>5, <1>6, <1>7 DEF DiskInv

LEMMA DiskSynced ==
  ASSUME CacheInv, PairInv, DiskInv, NEW c \in Clients, SyncDisk(c)
  PROVE  DiskInv'
<1>1. /\ LocalsInv /\ hist \in Histories /\ me[c] \in Locals
      /\ file \in [Files -> Parts] /\ kept \in [Files -> SUBSET Parts]
  BY DEF CacheInv, FilesInv, LocalsInv
<1>2. /\ me[c].pc = "syncDisk" /\ file' = file
      /\ SyncDir({"disk", "meta"})
      /\ Become(c, [me[c] EXCEPT !.pc = "hash"])
      /\ hist' = [hist EXCEPT !.unsynced = FALSE]
  BY DEF SyncDisk, At, Goto
<1>3. kept'["disk"] \subseteq {file["disk"]} /\ Torn \notin kept'["disk"]
  BY <1>1, <1>2 DEF DiskInv, SyncDir, Files
<1>4. /\ hist'.raced = hist.raced /\ hist'.spoilt = hist.spoilt
      /\ hist'.disks = hist.disks
  BY <1>1, <1>2 DEF Histories
<1> SUFFICES ASSUME ~hist.raced, ~hist.spoilt PROVE DiskInv'
  BY <1>3, <1>4 DEF DiskInv
<1>5. me'[c].pc = "hash" /\ \A d \in Clients : d # c => me'[d] = me[d]
  <2> DEFINE r == [me[c] EXCEPT !.pc = "hash"]
  <2>1. r.pc = "hash"
    BY <1>1 DEF Locals
  <2>2. Become(c, r)
    BY <1>2
  <2> HIDE DEF r
  <2> QED BY <1>1, <2>1, <2>2, OneMoves
<1>6. \A d \in Clients : HoldsDisk(me'[d], file["disk"], hist.disks)
  BY <1>5 DEF HoldsDisk, DiskInv
<1> QED BY <1>2, <1>3, <1>4, <1>6 DEF DiskInv

LEMMA DiskSyncMeta ==
  ASSUME CacheInv, PairInv, DiskInv, NEW c \in Clients, SyncMeta(c)
  PROVE  DiskInv'
<1>1. /\ hist \in Histories
      /\ file \in [Files -> Parts] /\ kept \in [Files -> SUBSET Parts]
  BY DEF CacheInv, FilesInv
<1>2. /\ me[c].pc = "syncMeta" /\ file' = file
      /\ SyncDir({"disk", "meta"}) /\ Return(c, me[c].art)
  BY DEF SyncMeta, At
<1>3. kept'["disk"] \subseteq {file["disk"]} /\ Torn \notin kept'["disk"]
  BY <1>1, <1>2 DEF DiskInv, SyncDir, Files
<1> SUFFICES ASSUME ~hist.raced, ~hist.spoilt PROVE DiskInv'
  BY <1>1, <1>2, <1>3 DEF DiskInv, Return, Histories
<1>4. me[c].art = file["disk"]
  BY <1>2 DEF DiskInv, HoldsDisk
<1> QED BY <1>2, <1>3, <1>4, DiskReturned

LEMMA DiskStep ==
  ASSUME CacheInv, PairInv, DiskInv, NEW c \in Clients, Step(c)
  PROVE  DiskInv'
BY DiskCompare, DiskReplaced, DiskSynced, DiskSyncMeta, NoDiskSteps,
   NoDiskStep

LEMMA DiskLaunch ==
  ASSUME CacheInv, DiskInv, NEW c \in Clients, Launch(c) PROVE DiskInv'
<1>1. me[c] \in Locals /\ LocalsInv /\ hist \in Histories
  BY DEF CacheInv, LocalsInv
<1>2. PICK command \in Commands[c] : Goto(c, FirstPlace(command))
  BY DEF Launch
<1>3. FirstPlace(command) \in {"inspect", "isoLook", "stageKubeconfig"}
  BY CommandsAssumption DEF FirstPlace
<1>4. /\ me[c].pc = "idle" /\ file' = file /\ kept' = kept
      /\ hist.raced => hist'.raced
      /\ hist'.spoilt = hist.spoilt /\ hist'.unsynced = hist.unsynced
      /\ hist'.disks = hist.disks
  BY <1>1 DEF Launch, At, Histories, FilesStay
<1> SUFFICES ASSUME ~hist'.raced, ~hist'.spoilt PROVE DiskInv'
  BY <1>4 DEF DiskInv
<1>5. /\ me'[c].pc = FirstPlace(command)
      /\ \A d \in Clients : d # c => me'[d] = me[d]
  <2> DEFINE r == [me[c] EXCEPT !.pc = FirstPlace(command)]
  <2>1. r.pc = FirstPlace(command)
    BY <1>1 DEF Locals
  <2>2. Become(c, r)
    BY <1>2 DEF Goto
  <2> HIDE DEF r
  <2> QED BY <1>1, <2>1, <2>2, OneMoves
<1>6. \A d \in Clients : HoldsDisk(me'[d], file["disk"], hist.disks)
  BY <1>3, <1>4, <1>5 DEF HoldsDisk, DiskInv
<1>7. \/ hist.unsynced
      \/ \E d \in Clients : me'[d].pc = "syncDisk"
      \/ kept["disk"] \subseteq {file["disk"]}
  BY <1>4, <1>5 DEF DiskInv
<1> QED BY <1>4, <1>6, <1>7 DEF DiskInv

LEMMA DiskKill ==
  ASSUME CacheInv, DiskInv, NEW c \in Clients, Kill(c) PROVE DiskInv'
<1>1. LocalsInv /\ hist \in Histories
  BY DEF CacheInv
<1>2. /\ file' = file /\ kept' = kept
      /\ hist'.raced = hist.raced /\ hist'.spoilt = hist.spoilt
      /\ hist'.disks = hist.disks
      /\ hist'.unsynced = (hist.unsynced \/ me[c].pc = "syncDisk")
  BY <1>1 DEF Kill, Histories, FilesStay, At
<1>3. /\ me'[c].pc = "idle"
      /\ \A d \in Clients : d # c => me'[d] = me[d]
  BY <1>1, FreshLocals, OneMoves DEF Kill, End
<1> SUFFICES ASSUME ~hist.raced, ~hist.spoilt PROVE DiskInv'
  BY <1>2 DEF DiskInv
<1>4. \A d \in Clients : HoldsDisk(me'[d], file["disk"], hist.disks)
  BY <1>3 DEF HoldsDisk, DiskInv
<1>5. \/ hist'.unsynced
      \/ \E d \in Clients : me'[d].pc = "syncDisk"
      \/ kept["disk"] \subseteq {file["disk"]}
  BY <1>2, <1>3 DEF DiskInv
<1> QED BY <1>2, <1>4, <1>5 DEF DiskInv

(* The power fails: the disk in place is the one that was durable.         *)
LEMMA DiskPowerFailure ==
  ASSUME CacheInv, DiskInv, PowerFailure PROVE DiskInv'
<1>1. hist \in Histories
  BY DEF CacheInv
<1>2. file'["disk"] \in kept["disk"] /\ kept'["disk"] = {file'["disk"]}
  BY DEF PowerFailure, Files
<1>3. \A c \in Clients : me'[c].pc = "idle"
  BY FreshLocals DEF PowerFailure
<1>4. /\ hist'.raced = hist.raced /\ hist'.disks = hist.disks
      /\ hist'.spoilt = (hist.spoilt \/ hist.unsynced)
  BY <1>1 DEF PowerFailure, Histories
<1>5. Torn \notin kept'["disk"]
  BY <1>2 DEF DiskInv
<1> SUFFICES ASSUME ~hist.raced, ~hist.spoilt, ~hist.unsynced PROVE DiskInv'
  BY <1>4, <1>5 DEF DiskInv
<1>6. hist.disks \subseteq {file'["disk"]}
  BY <1>2 DEF DiskInv, HoldsDisk
<1>7. \A c \in Clients : HoldsDisk(me'[c], file'["disk"], hist'.disks)
  BY <1>3 DEF HoldsDisk
<1> QED BY <1>2, <1>4, <1>5, <1>6, <1>7 DEF DiskInv

LEMMA DiskDamage ==
  ASSUME CacheInv, DiskInv, NEW b,
         \/ b \in (Disks \ Valid) \cup {None} /\ Damage("disk", b)
         \/ b = None /\ Damage("meta", b)
  PROVE  DiskInv'
<1>1. hist \in Histories /\ file \in [Files -> Parts]
      /\ kept \in [Files -> SUBSET Parts]
  BY DEF CacheInv, FilesInv
<1>2. CASE b \in (Disks \ Valid) \cup {None} /\ Damage("disk", b)
  <2>1. hist'.spoilt
    BY <1>1, <1>2 DEF Damage, Histories
  <2>2. Torn \notin kept'["disk"]
    BY <1>1, <1>2, TornAssumption DEF Damage, Files
  <2> QED BY <2>1, <2>2 DEF DiskInv
<1>3. CASE Damage("meta", b)
  BY <1>1, <1>3 DEF Damage, Files, DiskInv
<1> QED BY <1>2, <1>3

(* The whole, from the first state on.                                     *)
ApartInv == CacheInv /\ PairInv /\ DiskInv

LEMMA ApartInit == Init => ApartInv
<1> SUFFICES ASSUME Init PROVE ApartInv
  OBVIOUS
<1>1. \A c \in Clients : me[c].pc = "idle"
  BY FreshLocals DEF Init
<1>2. PairInv
  BY <1>1 DEF Init, PairInv, Alone, HoldsPair, Files
<1>3. DiskInv
  BY <1>1, TornAssumption DEF Init, DiskInv, HoldsDisk, Files
<1> QED BY <1>2, <1>3, InitInv DEF ApartInv

LEMMA ApartStep == ApartInv /\ [Next]_vars => ApartInv'
<1> SUFFICES ASSUME CacheInv, PairInv, DiskInv, [Next]_vars PROVE ApartInv'
  BY DEF ApartInv
<1>1. CacheInv'
  BY StepInv
<1>2. ASSUME NEW c \in Clients, Launch(c) \/ Step(c) \/ Kill(c)
      PROVE  PairInv' /\ DiskInv'
  BY <1>2, PairLaunch, PairSteps, PairKill, DiskLaunch, DiskStep, DiskKill
<1>3. ASSUME PowerFailure PROVE PairInv' /\ DiskInv'
  BY <1>3, PairMishaps, DiskPowerFailure
<1>4. ASSUME NEW b,
             \/ b \in (Disks \ Valid) \cup {None} /\ Damage("disk", b)
             \/ b = None /\ Damage("meta", b)
      PROVE  PairInv' /\ DiskInv'
  BY <1>4, PairMishaps, DiskDamage
<1>5. ASSUME UNCHANGED vars PROVE PairInv' /\ DiskInv'
  BY <1>5 DEF vars, PairInv, Alone, DiskInv
<1> QED BY <1>1, <1>2, <1>3, <1>4, <1>5 DEF Next, ApartInv

LEMMA ApartInvariant == Spec => []ApartInv
BY ApartInit, ApartStep, PTL DEF Spec

(* If no two commands overlap, the two credential files are of one         *)
(* cluster, but for the time between their two replacements and after a    *)
(* process was cut off in between or a name was lost.                      *)
THEOREM PairStaysTogether == Spec => []PairKept
<1>1. ApartInv => PairKept
  BY DEF ApartInv, PairInv, PairKept, At
<1> QED BY <1>1, ApartInvariant, PTL

(* If no two commands overlap and nobody spoils it, ensure_blank_disk      *)
(* returns the same disk ever after, through kills and power failures.     *)
THEOREM DiskIsStable == Spec => []StableDisk
<1>1. ApartInv => StableDisk
  BY DEF ApartInv, DiskInv, StableDisk
<1> QED BY <1>1, ApartInvariant, PTL
=============================================================================
