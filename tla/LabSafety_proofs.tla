-------------------------- MODULE LabSafety_proofs --------------------------
(***************************************************************************)
(* More theorems about LabWorkflows, as general as those of                *)
(* LabWorkflows_proofs: what a process looked at before it acts is still   *)
(* so when it acts, whoever acts in between, because installed clusters    *)
(* and complete images stay as they are until they are deleted (Lasts) and *)
(* ids are not used twice; and a `deploy' never gets to a place where it   *)
(* deletes (CommandOK).                                                    *)
(***************************************************************************)
EXTENDS LabWorkflows_proofs

(* Images are replaced and anything is destroyed only on request.          *)
CommandOK(r) ==
  /\ r.swap \/ r.pc = "deleteImage" => r.cmd = "replace"
  /\ r.pc \in DestroyPlaces => r.cmd \in {"replace", "destroy"}

(* From where both images were found complete to the import.               *)
ImportPlaces == {"missingSim", "sim", "importSim", "startSim",
                 "recheckCapacity", "awaitImport", "claimSim"}

Whole(id) == id < nextId /\ \A m \in images : m.id = id => m.status = "COMPLETE"
Installed(id) ==
  id < nextId /\ \A k \in clusters : k.id = id => k.status = "installed"

Sees(r) ==
  /\ Whole(r.blank)
  /\ r.pc \in ImportPlaces => Whole(r.image)
  /\ r.pc = "download" => Installed(r.cluster)

ClustersBelow ==
  /\ \A k \in clusters : 0 < k.id /\ k.id < nextId
  /\ \A k, l \in clusters : k.id = l.id => k = l

SafetyInv ==
  /\ LabInv /\ ClustersBelow
  /\ \A c \in Clients : Sees(me[c]) /\ CommandOK(me[c]) /\ Installed(creds[c])
  /\ \A s \in sims : Whole(s.image) /\ Whole(s.blank)

(* No step takes back that an image is complete or a cluster installed.    *)
ImagesLast ==
  \A n \in images' :
    \/ n.id >= nextId
    \/ \E m \in images :
         m.id = n.id /\ (m.status = "COMPLETE" => n.status = "COMPLETE")
ClustersLast ==
  \A l \in clusters' :
    \/ l.id >= nextId
    \/ \E k \in clusters :
         k.id = l.id /\ (k.status = "installed" => l.status = "installed")
Lasts == nextId' >= nextId /\ ImagesLast /\ ClustersLast
-----------------------------------------------------------------------------
(***************************************************************************)
(* Where a step of a process leads.                                        *)
(***************************************************************************)
Kept(c) == Sees(me'[c]) /\ CommandOK(me'[c])

LEMMA Known ==
  ASSUME SafetyInv, NEW c \in Clients
  PROVE  /\ me \in [Clients -> Process] /\ me[c] \in Process
         /\ Sees(me[c]) /\ CommandOK(me[c]) /\ Whole(0)
         /\ \A k \in clusters : 0 < k.id /\ k.id < nextId
         /\ \A m \in images : 0 < m.id /\ m.id < nextId
         /\ images \subseteq Image /\ clusters \subseteq Cluster
<1>1. LabInv
  BY DEF SafetyInv
<1>2. /\ me \in [Clients -> Process] /\ me[c] \in Process
      /\ nextId \in Nat \ {0}
  BY <1>1, Locals
<1>3. /\ \A m \in images : 0 < m.id /\ m.id < nextId
      /\ images \subseteq Image
  BY <1>1 DEF LabInv, ImagesInv, ImagesBelow
<1>4. Whole(0)
  BY <1>2, <1>3 DEF Whole
<1>5. clusters \subseteq Cluster
  BY <1>1 DEF LabInv, TypeOK, ServicesTypeOK
<1> QED BY <1>2, <1>3, <1>4, <1>5 DEF SafetyInv, ClustersBelow

(* A command that ends remembers nothing.                                  *)
Ended(c) ==
  /\ me'[c].pc \in Resting /\ me'[c].cmd = "none" /\ ~me'[c].swap
  /\ me'[c].blank = 0

LEMMA EndedKept ==
  ASSUME SafetyInv, NEW c \in Clients, Ended(c) PROVE Kept(c)
BY Known DEF Ended, Kept, Sees, CommandOK, Resting, DestroyPlaces, ImportPlaces

LEMMA EndEnds ==
  ASSUME SafetyInv, NEW c \in Clients, NEW p \in Resting, End(c, p)
  PROVE  Ended(c)
<1>1. me'[c] = Fresh(p)
  BY Known DEF End
<1> QED BY <1>1 DEF Ended, Fresh

(* Most steps lead to a place where no more is asked for.                  *)
Onward(c) ==
  /\ me'[c].cmd = me[c].cmd
  /\ me'[c].swap => me[c].swap
  /\ me'[c].blank \in {0, me[c].blank}
  /\ me'[c].pc \notin {"deleteImage", "download"}
  /\ me'[c].pc \in DestroyPlaces => me[c].pc \in DestroyPlaces
  /\ me'[c].pc \in ImportPlaces =>
       me[c].pc \in ImportPlaces /\ me'[c].image = me[c].image

LEMMA OnwardKept ==
  ASSUME SafetyInv, NEW c \in Clients, Onward(c) PROVE Kept(c)
BY Known DEF Onward, Kept, Sees, CommandOK

Moved(c) == Ended(c) \/ Onward(c)

LEMMA MovedKept ==
  ASSUME SafetyInv, NEW c \in Clients, Moved(c) PROVE Kept(c)
BY EndedKept, OnwardKept DEF Moved

(* A step that ends the command, or moves on to a given record.            *)
LEMMA Refused ==
  ASSUME SafetyInv, NEW c \in Clients, Refuse(c) \/ TimeOut(c) PROVE Ended(c)
BY EndEnds DEF Refuse, TimeOut, Resting

LEMMA Went ==
  ASSUME SafetyInv, NEW c \in Clients, NEW p, Goto(c, p),
         p \notin {"deleteImage", "download"},
         p \in DestroyPlaces => me[c].pc \in DestroyPlaces,
         p \in ImportPlaces => me[c].pc \in ImportPlaces
  PROVE  Onward(c)
<1>1. me'[c] = [me[c] EXCEPT !.pc = p] /\ me[c] \in Process
  BY Known DEF Goto
<1>2. /\ me'[c].pc = p /\ me'[c].cmd = me[c].cmd /\ me'[c].swap = me[c].swap
      /\ me'[c].blank = me[c].blank /\ me'[c].image = me[c].image
  BY <1>1 DEF Process
<1> QED BY <1>2 DEF Onward

LEMMA Became ==
  ASSUME SafetyInv, NEW c \in Clients, NEW r, Become(c, r)
  PROVE  me'[c] = r
BY Known DEF Become
-----------------------------------------------------------------------------
LEMMA PreflightMoves ==
  ASSUME SafetyInv, NEW c \in Clients,
         PreflightSimulation(c) \/ PreflightInfraEnv(c) \/ PreflightImage(c)
  PROVE  Moved(c)
<1>1. me \in [Clients -> Process] /\ me[c] \in Process
  BY Known
<1> USE DEF DestroyPlaces, ImportPlaces, Moved
<1>2. CASE PreflightSimulation(c)
  BY <1>2, Refused, Went DEF PreflightSimulation
<1>3. CASE PreflightInfraEnv(c)
  <2>1. ASSUME NEW i,
               Become(c, [me[c] EXCEPT !.pc = "preflightImage", !.target = i])
        PROVE  Onward(c)
    BY <1>1, <2>1 DEF Onward, Become, Process
  <2> QED BY <1>3, <2>1, Refused, Went DEF PreflightInfraEnv
<1>4. CASE PreflightImage(c)
  <2>1. ASSUME Become(c, [me[c] EXCEPT !.pc = "cluster", !.target = 0])
        PROVE  Onward(c)
    BY <1>1, <2>1 DEF Onward, Become, Process
  <2> QED BY <1>4, <2>1, Refused DEF PreflightImage
<1> QED BY <1>2, <1>3, <1>4

LEMMA AssistedMoves ==
  ASSUME SafetyInv, NEW c \in Clients,
         \/ ReconcileCluster(c) \/ CreateCluster(c)
         \/ ReconcileInfraEnv(c) \/ CreateInfraEnv(c) \/ DownloadIso(c)
  PROVE  Moved(c)
<1>1. me \in [Clients -> Process] /\ me[c] \in Process
  BY Known
<1> USE DEF DestroyPlaces, ImportPlaces, Moved
<1>2. CASE ReconcileCluster(c)
  <2>1. ASSUME NEW k,
               Become(c, [me[c] EXCEPT !.pc = "infraenv", !.cluster = k.id,
                            !.started = k.started])
        PROVE  Onward(c)
    BY <1>1, <2>1 DEF Onward, Become, Process
  <2> QED BY <1>2, <2>1, Refused, Went DEF ReconcileCluster
<1>3. CASE CreateCluster(c)
  BY <1>3, Went DEF CreateCluster
<1>4. CASE ReconcileInfraEnv(c)
  <2>1. ASSUME NEW i, NEW p \in {"downloadIso", "blankLook"},
               Become(c, [me[c] EXCEPT !.pc = p, !.infra = i])
        PROVE  Onward(c)
    BY <1>1, <2>1 DEF Onward, Become, Process
  <2> QED BY <1>4, <2>1, Refused, Went DEF ReconcileInfraEnv
<1>5. CASE CreateInfraEnv(c)
  BY <1>5, Went, Refused DEF CreateInfraEnv
<1>6. CASE DownloadIso(c)
  <2>1. ASSUME Become(c, [me[c] EXCEPT !.pc = "infraenv", !.infra = 0])
        PROVE  Onward(c)
    BY <1>1, <2>1 DEF Onward, Become, Process
  <2> QED BY <1>6, <2>1, Refused DEF DownloadIso
<1> QED BY <1>2, <1>3, <1>4, <1>5, <1>6

(* The images: --replace alone swaps one, and what is ready is complete.   *)
LEMMA BlankLookKept ==
  ASSUME SafetyInv, NEW c \in Clients, BlankLook(c) PROVE Kept(c)
<1>1. me[c] \in Process /\ Sees(me[c]) /\ CommandOK(me[c])
  BY Known
<1> DEFINE swap == \E m \in ImagesNamed(Blank) : ReplacesBlank(c, m)
<1>2. swap \in BOOLEAN /\ (swap => me[c].cmd = "replace")
  BY DEF ReplacesBlank
<1>3. \/ Refuse(c)
      \/ Become(c, [me[c] EXCEPT !.pc = "image", !.target = Blank,
                      !.swap = swap])
  BY DEF BlankLook
<1> HIDE DEF swap
<1>4. CASE Become(c, [me[c] EXCEPT !.pc = "image", !.target = Blank,
                        !.swap = swap])
  <2>1. /\ me'[c].pc = "image" /\ me'[c].cmd = me[c].cmd
        /\ me'[c].swap = swap /\ me'[c].blank = me[c].blank
    BY <1>1, <1>4, Became DEF Process
  <2> QED BY <1>1, <1>2, <2>1
          DEF Kept, Sees, CommandOK, DestroyPlaces, ImportPlaces
<1> QED BY <1>3, <1>4, Refused, EndedKept

LEMMA ReadyIsComplete ==
  ASSUME NEW c \in Clients, NEW m \in images, m \in Image,
         ImageDecision(c, m) = "ready"
  PROVE  m.status = "COMPLETE"
BY DEF ImageDecision, ImageAction, Image, AirImageUploadStatus,
       ImageUploadInProgress, ImageUnsupported

LEMMA ImageReadyKept ==
  ASSUME SafetyInv, NEW c \in Clients, NEW m \in images,
         me[c].pc = "image", ImagesNamed(me[c].target) = {m},
         m.status = "COMPLETE", ImageReady(c, m)
  PROVE  Kept(c)
<1>1. /\ me[c] \in Process /\ Sees(me[c]) /\ CommandOK(me[c])
      /\ m.id < nextId
  BY Known
<1>2. Whole(m.id)
  <2>1. \A n \in images : n.id = m.id => n = m
    BY DEF SafetyInv, LabInv, ImagesInv, ImagesBelow
  <2> QED BY <1>1, <2>1 DEF Whole
<1>3. CASE me[c].target = Blank
  <2>1. /\ me'[c].pc = "image" /\ me'[c].cmd = me[c].cmd
        /\ me'[c].swap = FALSE /\ me'[c].blank = m.id
    BY <1>1, <1>3, Became DEF ImageReady, Process
  <2> QED BY <1>2, <2>1 DEF Kept, Sees, CommandOK, DestroyPlaces, ImportPlaces
<1>4. CASE me[c].target # Blank
  <2>1. /\ me'[c].pc = "missingSim" /\ me'[c].cmd = me[c].cmd
        /\ me'[c].swap = me[c].swap /\ me'[c].blank = me[c].blank
        /\ me'[c].image = m.id
    BY <1>1, <1>4, Became DEF ImageReady, Process
  <2> QED BY <1>1, <1>2, <2>1 DEF Kept, Sees, CommandOK, DestroyPlaces
<1> QED BY <1>3, <1>4

LEMMA ReconcileImageKept ==
  ASSUME SafetyInv, NEW c \in Clients, ReconcileImage(c) PROVE Kept(c)
<1>1. /\ me \in [Clients -> Process] /\ me[c] \in Process
      /\ Sees(me[c]) /\ CommandOK(me[c]) /\ images \subseteq Image
  BY Known
<1>2. me[c].pc = "image"
  BY DEF ReconcileImage, At
<1>3. CASE Refuse(c) \/ TimeOut(c)
  BY <1>3, Refused, EndedKept
<1>4. CASE Goto(c, "createImage")
  BY <1>4, Went, OnwardKept DEF DestroyPlaces, ImportPlaces
<1>5. ASSUME NEW m \in images, ImageDecision(c, m) = "upload",
             Become(c, [me[c] EXCEPT !.pc = "uploadImage", !.image = m.id])
      PROVE  Kept(c)
  <2>1. Onward(c)
    BY <1>1, <1>5 DEF Onward, Become, Process, DestroyPlaces, ImportPlaces
  <2> QED BY <2>1, OnwardKept
<1>6. ASSUME NEW m \in images, ImageDecision(c, m) = "replace",
             Become(c, [me[c] EXCEPT !.pc = "deleteImage", !.image = m.id])
      PROVE  Kept(c)
  <2>1. me[c].swap
    BY <1>6 DEF ImageDecision, ImageAction
  <2>2. /\ me'[c].pc = "deleteImage" /\ me'[c].cmd = me[c].cmd
        /\ me'[c].blank = me[c].blank
    BY <1>1, <1>6 DEF Become, Process
  <2> QED BY <1>1, <2>1, <2>2
          DEF Kept, Sees, CommandOK, DestroyPlaces, ImportPlaces
<1>7. ASSUME NEW m \in images, ImagesNamed(me[c].target) = {m},
             ImageDecision(c, m) = "ready", ImageReady(c, m)
      PROVE  Kept(c)
  BY <1>1, <1>2, <1>7, ReadyIsComplete, ImageReadyKept
<1>8. \A m \in ImagesNamed(me[c].target) : m \in images
  BY DEF ImagesNamed
<1> QED BY <1>3, <1>4, <1>5, <1>6, <1>7, <1>8 DEF ReconcileImage

LEMMA ImageMoves ==
  ASSUME SafetyInv, NEW c \in Clients,
         CreateImage(c) \/ UploadImage(c) \/ DeleteBlankImage(c)
  PROVE  Moved(c)
<1>1. me \in [Clients -> Process] /\ me[c] \in Process
  BY Known
<1> USE DEF DestroyPlaces, ImportPlaces, Moved
<1>2. CASE CreateImage(c)
  BY <1>2, Went DEF CreateImage
<1>3. CASE UploadImage(c)
  <2>1. ASSUME Become(c, [me[c] EXCEPT !.pc = "image", !.image = 0])
        PROVE  Onward(c)
    BY <1>1, <2>1 DEF Onward, Become, Process
  <2> QED BY <1>3, <2>1, Refused DEF UploadImage
<1>4. CASE DeleteBlankImage(c)
  <2>1. ASSUME Become(c, [me[c] EXCEPT !.pc = "image", !.image = 0,
                            !.swap = FALSE])
        PROVE  Onward(c)
    BY <1>1, <2>1 DEF Onward, Become, Process
  <2> QED BY <1>4, <2>1, Refused DEF DeleteBlankImage
<1> QED BY <1>2, <1>3, <1>4

(* The simulation: both images are remembered until it is there.           *)
LEMMA SimulationMoves ==
  ASSUME SafetyInv, NEW c \in Clients,
         \/ CheckMissingSimulation(c) \/ ReconcileSimulation(c)
         \/ ImportSimulation(c) \/ AwaitImport(c) \/ ClaimSimulation(c)
         \/ StartSimulation(c) \/ RecheckCapacity(c)
  PROVE  Moved(c)
<1>1. me \in [Clients -> Process] /\ me[c] \in Process
  BY Known
<1> USE DEF DestroyPlaces, ImportPlaces, Moved, At
<1>2. CASE CheckMissingSimulation(c)
  <2>1. me[c].pc = "missingSim"
    BY <1>2 DEF CheckMissingSimulation
  <2>2. ASSUME Become(c, [me[c] EXCEPT !.pc = "sim", !.started = FALSE])
        PROVE  Onward(c)
    BY <1>1, <2>1, <2>2 DEF Onward, Become, Process
  <2> QED BY <1>2, <2>2, Refused DEF CheckMissingSimulation
<1>3. CASE ReconcileSimulation(c)
  <2>1. me[c].pc = "sim"
    BY <1>3 DEF ReconcileSimulation
  <2>2. ASSUME NEW i, NEW p \in {"startSim", "recheckCapacity"},
               Become(c, [me[c] EXCEPT !.pc = p, !.sim = i])
        PROVE  Onward(c)
    BY <1>1, <2>1, <2>2 DEF Onward, Become, Process
  <2>3. ASSUME NEW i,
               Become(c, [me[c] EXCEPT !.pc = "hosts", !.sim = i,
                            !.infra = 0, !.blank = 0, !.image = 0,
                            !.asked = FALSE, !.rechecked = FALSE])
        PROVE  Onward(c)
    BY <1>1, <2>1, <2>3 DEF Onward, Become, Process
  <2>4. Goto(c, "importSim") => Onward(c)
    BY <2>1, Went
  <2> QED BY <1>3, <2>2, <2>3, <2>4, Refused DEF ReconcileSimulation
<1>4. CASE ImportSimulation(c)
  <2>1. /\ me[c].pc = "importSim"
        /\ Become(c, [me[c] EXCEPT !.pc = "awaitImport", !.sim = nextId])
    BY <1>4 DEF ImportSimulation
  <2> QED BY <1>1, <2>1 DEF Onward, Become, Process
<1>5. CASE AwaitImport(c)
  <2>1. Goto(c, "claimSim") => Onward(c)
    BY <1>5, Went DEF AwaitImport
  <2> QED BY <1>5, <2>1, Refused DEF AwaitImport
<1>6. CASE ClaimSimulation(c)
  <2>1. me[c].pc = "claimSim"
    BY <1>6 DEF ClaimSimulation
  <2>2. ASSUME Become(c, [me[c] EXCEPT !.pc = "sim", !.sim = 0])
        PROVE  Onward(c)
    BY <1>1, <2>1, <2>2 DEF Onward, Become, Process
  <2> QED BY <1>6, <2>2, Refused DEF ClaimSimulation
<1>7. CASE StartSimulation(c)
  <2>1. me[c].pc = "startSim"
    BY <1>7 DEF StartSimulation
  <2>2. ASSUME Become(c, [me[c] EXCEPT !.pc = "sim", !.sim = 0,
                            !.asked = TRUE])
        PROVE  Onward(c)
    BY <1>1, <2>1, <2>2 DEF Onward, Become, Process
  <2> QED BY <1>7, <2>2, Refused DEF StartSimulation
<1>8. CASE RecheckCapacity(c)
  <2>1. me[c].pc = "recheckCapacity"
    BY <1>8 DEF RecheckCapacity
  <2>2. ASSUME Become(c, [me[c] EXCEPT !.pc = "sim", !.sim = 0,
                            !.rechecked = TRUE])
        PROVE  Onward(c)
    BY <1>1, <2>1, <2>2 DEF Onward, Become, Process
  <2> QED BY <1>8, <2>2, Refused DEF RecheckCapacity
<1> QED BY <1>2, <1>3, <1>4, <1>5, <1>6, <1>7, <1>8

LEMMA HostsMoves ==
  ASSUME SafetyInv, NEW c \in Clients,
         \/ ReconcileHosts(c) \/ AssignRoles(c) \/ EnsureJumpHost(c)
         \/ StartInstallation(c) \/ DownloadCredentials(c)
  PROVE  Moved(c)
<1>1. me \in [Clients -> Process] /\ me[c] \in Process
  BY Known
<1> USE DEF DestroyPlaces, ImportPlaces, Moved
<1>2. CASE ReconcileHosts(c)
  <2>1. ASSUME NEW i,
               Become(c, [me[c] EXCEPT !.pc = "assignRoles", !.target = i])
        PROVE  Onward(c)
    BY <1>1, <2>1 DEF Onward, Become, Process
  <2>2. Goto(c, "jumpHost") => Onward(c)
    BY Went
  <2> QED BY <1>2, <2>1, <2>2, Refused DEF ReconcileHosts, AfterHosts
<1>3. CASE AssignRoles(c)
  <2>1. ASSUME Become(c, [me[c] EXCEPT !.pc = "hosts", !.target = 0])
        PROVE  Onward(c)
    BY <1>1, <2>1 DEF Onward, Become, Process
  <2> QED BY <1>3, <2>1, Refused DEF AssignRoles
<1>4. CASE EnsureJumpHost(c)
  <2>1. ASSUME Become(c, [me[c] EXCEPT !.pc = "install", !.sim = 0])
        PROVE  Onward(c)
    BY <1>1, <2>1 DEF Onward, Become, Process
  <2> QED BY <1>4, <2>1, Refused DEF EnsureJumpHost
<1>5. CASE StartInstallation(c)
  <2>1. Goto(c, "install") => Onward(c)
    BY Went
  <2> QED BY <1>5, <2>1, Refused DEF StartInstallation
<1>6. CASE DownloadCredentials(c)
  BY <1>6, EndEnds, Refused DEF DownloadCredentials, Resting
<1> QED BY <1>2, <1>3, <1>4, <1>5, <1>6

(* Credentials are asked of a cluster seen installed.                      *)
LEMMA InstallationKept ==
  ASSUME SafetyInv, NEW c \in Clients, ReconcileInstallation(c) PROVE Kept(c)
<1>1. /\ me \in [Clients -> Process] /\ me[c] \in Process
      /\ Sees(me[c]) /\ CommandOK(me[c]) /\ clusters \subseteq Cluster
      /\ \A k \in clusters : k.id < nextId
  BY Known
<1>2. me[c].pc = "install"
  BY DEF ReconcileInstallation, At
<1>3. CASE Refuse(c) \/ TimeOut(c)
  BY <1>3, Refused, EndedKept
<1>4. ASSUME NEW k,
             Become(c, [me[c] EXCEPT !.pc = "startInstall", !.cluster = k.id])
      PROVE  Kept(c)
  <2>1. Onward(c)
    BY <1>1, <1>4 DEF Onward, Become, Process, DestroyPlaces, ImportPlaces
  <2> QED BY <2>1, OnwardKept
<1>5. ASSUME NEW k \in clusters, clusters = {k},
             ClusterDecision(c, k) = "download-credentials",
             Become(c, [me[c] EXCEPT !.pc = "download", !.cluster = k.id])
      PROVE  Kept(c)
  <2>1. k.status = "installed"
    BY <1>5 DEF ClusterDecision, ClusterAction
  <2>2. Installed(k.id)
    BY <1>1, <1>5, <2>1 DEF Installed
  <2>3. /\ me'[c].pc = "download" /\ me'[c].cmd = me[c].cmd
        /\ me'[c].swap = me[c].swap /\ me'[c].blank = me[c].blank
        /\ me'[c].cluster = k.id
    BY <1>1, <1>5 DEF Become, Process
  <2> QED BY <1>1, <2>2, <2>3
          DEF Kept, Sees, CommandOK, DestroyPlaces, ImportPlaces
<1> QED BY <1>3, <1>4, <1>5 DEF ReconcileInstallation
-----------------------------------------------------------------------------
(***************************************************************************)
(* destroy_lab, and `replace' going on as a deployment after it.           *)
(***************************************************************************)
Fine(r) == Sees(r) /\ CommandOK(r)

LEMMA PhaseFine ==
  ASSUME NEW r \in Process, Fine(r), r.pc \in DestroyPlaces,
         NEW p \in DestroyPlaces
  PROVE  Fine([r EXCEPT !.pc = p])
<1> DEFINE q == [r EXCEPT !.pc = p]
<1>1. /\ q.pc = p /\ q.cmd = r.cmd /\ q.swap = r.swap /\ q.blank = r.blank
  BY DEF Process
<1>2. p \notin ImportPlaces \cup {"download", "deleteImage"}
  BY DEF DestroyPlaces, ImportPlaces
<1> HIDE DEF q
<1>3. Fine(q)
  BY <1>1, <1>2 DEF Fine, Sees, CommandOK
<1> QED BY <1>3 DEF q

LEMMA DestroyedFine ==
  ASSUME SafetyInv, NEW c \in Clients, NEW r \in Process
  PROVE  Fine(Destroyed(r))
<1> DEFINE q == Destroyed(r)
<1>1. /\ q.pc \in {"cluster", "destroyed"} /\ ~q.swap /\ q.blank = 0
  BY DEF Destroyed, Fresh
<1> HIDE DEF q
<1>2. Fine(q)
  BY <1>1, Known DEF Fine, Sees, CommandOK, DestroyPlaces, ImportPlaces
<1> QED BY <1>2 DEF q

LEMMA AfterFine ==
  ASSUME SafetyInv, NEW c \in Clients, NEW r \in Process, Fine(r),
         r.pc \in DestroyPlaces
  PROVE  /\ Fine(AfterInfraEnv(r))
         /\ Fine(AfterImage(r))
         /\ Fine(AfterSimulation(r))
<1>1. {"dropCluster", "dropHosts", "dropInfraEnv", "dropImage"}
        \subseteq DestroyPlaces
  BY DEF DestroyPlaces
<1>2. Fine(AfterInfraEnv(r))
  BY <1>1, PhaseFine, DestroyedFine DEF AfterInfraEnv
<1>3. Fine(AfterImage(r))
  <2>1. CASE r.infra = 0
    BY <1>2, <2>1 DEF AfterImage
  <2>2. CASE r.infra # 0
    <3> DEFINE p == IF r.hosts THEN "dropHosts" ELSE "dropInfraEnv"
    <3>1. p \in DestroyPlaces
      BY <1>1
    <3>2. AfterImage(r) = [r EXCEPT !.pc = p]
      BY <2>2 DEF AfterImage
    <3> HIDE DEF p
    <3> QED BY <3>1, <3>2, PhaseFine
  <2> QED BY <2>1, <2>2
<1>4. Fine(AfterSimulation(r))
  <2>1. CASE r.image # 0
    BY <1>1, <2>1, PhaseFine DEF AfterSimulation
  <2>2. CASE r.image = 0
    BY <1>3, <2>2 DEF AfterSimulation
  <2> QED BY <2>1, <2>2
<1> QED BY <1>2, <1>3, <1>4

(* A process that destroys gets on to such a record.                       *)
LEMMA BecameFine ==
  ASSUME SafetyInv, NEW c \in Clients, NEW r, Become(c, r), Fine(r)
  PROVE  Kept(c)
BY Became DEF Kept, Fine

LEMMA SeekMoves ==
  ASSUME SafetyInv, NEW c \in Clients,
         \/ SeekCluster(c) \/ SeekInfraEnv(c) \/ ListHosts(c)
         \/ SeekDiscoveryImage(c)
  PROVE  Moved(c)
<1>1. me \in [Clients -> Process] /\ me[c] \in Process
  BY Known
<1> USE DEF DestroyPlaces, ImportPlaces, Moved, At
<1>2. CASE SeekCluster(c)
  <2>1. me[c].pc = "seekCluster"
    BY <1>2 DEF SeekCluster
  <2>2. ASSUME NEW i,
               Become(c, [me[c] EXCEPT !.pc = "seekInfraEnv", !.cluster = i])
        PROVE  Onward(c)
    BY <1>1, <2>1, <2>2 DEF Onward, Become, Process
  <2>3. Goto(c, "seekInfraEnv") => Onward(c)
    BY <2>1, Went
  <2> QED BY <1>2, <2>2, <2>3, Refused DEF SeekCluster
<1>3. CASE SeekInfraEnv(c)
  <2> DEFINE p == IF me[c].cluster = 0 THEN "seekSim" ELSE "listHosts"
  <2>1. me[c].pc = "seekInfraEnv" /\ p \in {"seekSim", "listHosts"}
    BY <1>3 DEF SeekInfraEnv
  <2>2. \/ Refuse(c) \/ Goto(c, p)
        \/ \E i \in infraenvs :
             Become(c, [me[c] EXCEPT !.pc = p, !.infra = i.id, !.target = i.id])
    BY <1>3 DEF SeekInfraEnv
  <2> HIDE DEF p
  <2>3. ASSUME NEW i,
               Become(c, [me[c] EXCEPT !.pc = p, !.infra = i, !.target = i])
        PROVE  Onward(c)
    BY <1>1, <2>1, <2>3 DEF Onward, Become, Process
  <2>4. Goto(c, p) => Onward(c)
    BY <2>1, Went
  <2> QED BY <2>2, <2>3, <2>4, Refused
<1>4. CASE ListHosts(c)
  <2>1. me[c].pc = "listHosts"
    BY <1>4 DEF ListHosts
  <2>2. ASSUME NEW h,
               Become(c, [me[c] EXCEPT !.pc = "seekSim", !.hosts = h])
        PROVE  Onward(c)
    BY <1>1, <2>1, <2>2 DEF Onward, Become, Process
  <2> QED BY <1>4, <2>2, Refused DEF ListHosts
<1>5. CASE SeekDiscoveryImage(c)
  <2>1. me[c].pc = "seekImage"
    BY <1>5 DEF SeekDiscoveryImage
  <2>2. ASSUME NEW i,
               Become(c, [me[c] EXCEPT !.pc = "actSim", !.image = i])
        PROVE  Onward(c)
    BY <1>1, <2>1, <2>2 DEF Onward, Become, Process
  <2>3. Goto(c, "actSim") => Onward(c)
    BY <2>1, Went
  <2> QED BY <1>5, <2>2, <2>3, Refused DEF SeekDiscoveryImage
<1> QED BY <1>2, <1>3, <1>4, <1>5

LEMMA SeekSimulationMoves ==
  ASSUME SafetyInv, NEW c \in Clients, SeekSimulation(c) PROVE Moved(c)
<1>1. me \in [Clients -> Process] /\ me[c] \in Process
  BY Known
<1>2. me[c].pc = "seekSim"
  BY DEF SeekSimulation, At
<1> DEFINE next(r) == IF r.target = 0 THEN "actSim" ELSE "seekImage"
           seen(s) == [me[c] EXCEPT !.sim = s.id, !.seen = s.status,
                         !.target = IF @ # 0 THEN @ ELSE s.infra]
<1>3. \/ Refuse(c) \/ Goto(c, next(me[c]))
      \/ \E s \in sims : Become(c, [seen(s) EXCEPT !.pc = next(seen(s))])
  BY DEF SeekSimulation
<1>4. \A r : next(r) \in {"actSim", "seekImage"}
  OBVIOUS
<1>5. ASSUME NEW s \in sims, Become(c, [seen(s) EXCEPT !.pc = next(seen(s))])
      PROVE  Onward(c)
  <2> DEFINE p == next(seen(s))
             r == [seen(s) EXCEPT !.pc = p]
  <2>1. me'[c] = r
    BY <1>5, Became
  <2>2. p \in {"actSim", "seekImage"}
    BY <1>4
  <2> HIDE DEF p, next
  <2>3. /\ r.pc = p /\ r.cmd = me[c].cmd /\ r.swap = me[c].swap
        /\ r.blank = me[c].blank
    BY <1>1 DEF Process
  <2> HIDE DEF r, seen
  <2> QED BY <1>2, <2>1, <2>2, <2>3 DEF Onward, DestroyPlaces, ImportPlaces
<1>6. Goto(c, next(me[c])) => Onward(c)
  BY <1>2, <1>4, Went DEF DestroyPlaces, ImportPlaces
<1> QED BY <1>3, <1>5, <1>6, Refused DEF Moved

LEMMA ActOnSimulationKept ==
  ASSUME SafetyInv, NEW c \in Clients,
         ActOnSimulation(c) \/ RefindSimulation(c)
  PROVE  Kept(c)
<1>1. /\ me \in [Clients -> Process] /\ me[c] \in Process
      /\ Sees(me[c]) /\ CommandOK(me[c])
  BY Known
<1>2. CASE Refuse(c) \/ TimeOut(c)
  BY <1>2, Refused, EndedKept
<1>3. CASE ActOnSimulation(c)
  <2>1. me[c].pc = "actSim"
    BY <1>3 DEF ActOnSimulation, At
  <2>2. ASSUME Become(c, AfterSimulation([me[c] EXCEPT !.sim = 0]))
        PROVE  Kept(c)
    <3> DEFINE r == [me[c] EXCEPT !.sim = 0]
    <3>1. /\ r \in Process /\ r.pc = "actSim" /\ r.cmd = me[c].cmd
          /\ r.swap = me[c].swap /\ r.blank = me[c].blank
      BY <1>1, <2>1 DEF Process
    <3>2. Become(c, AfterSimulation(r))
      BY <2>2
    <3> HIDE DEF r
    <3>3. Fine(r) /\ r.pc \in DestroyPlaces
      BY <1>1, <2>1, <3>1
         DEF Fine, Sees, CommandOK, DestroyPlaces, ImportPlaces
    <3> QED BY <3>1, <3>2, <3>3, AfterFine, BecameFine
  <2>3. ASSUME Become(c, [me[c] EXCEPT !.pc = "refindSim", !.sim = 0,
                            !.seen = "none"])
        PROVE  Kept(c)
    <3>1. Onward(c)
      BY <1>1, <2>1, <2>3
         DEF Onward, Become, Process, DestroyPlaces, ImportPlaces
    <3> QED BY <3>1, OnwardKept
  <2> QED BY <1>2, <1>3, <2>2, <2>3 DEF ActOnSimulation
<1>4. CASE RefindSimulation(c)
  <2>1. me[c].pc = "refindSim"
    BY <1>4 DEF RefindSimulation, At
  <2>2. ASSUME Become(c, AfterSimulation(me[c])) PROVE Kept(c)
    <3>1. Fine(me[c]) /\ me[c].pc \in DestroyPlaces
      BY <1>1, <2>1 DEF Fine, DestroyPlaces
    <3> QED BY <1>1, <2>2, <3>1, AfterFine, BecameFine
  <2>3. ASSUME NEW i, NEW st,
               Become(c, [me[c] EXCEPT !.pc = "actSim", !.sim = i, !.seen = st])
        PROVE  Kept(c)
    <3>1. Onward(c)
      BY <1>1, <2>1, <2>3
         DEF Onward, Become, Process, DestroyPlaces, ImportPlaces
    <3> QED BY <3>1, OnwardKept
  <2> QED BY <1>2, <1>4, <2>2, <2>3 DEF RefindSimulation
<1> QED BY <1>3, <1>4

LEMMA DropMoves ==
  ASSUME SafetyInv, NEW c \in Clients,
         DropImage(c) \/ DropHosts(c) \/ DropInfraEnv(c) \/ DropCluster(c)
  PROVE  Moved(c)
<1>1. me \in [Clients -> Process] /\ me[c] \in Process
  BY Known
<1> USE DEF DestroyPlaces, ImportPlaces, Moved, At
<1>2. CASE DropImage(c)
  <2>1. me[c].pc = "dropImage"
    BY <1>2 DEF DropImage
  <2>2. ASSUME Become(c, [me[c] EXCEPT !.pc = "imageGone", !.image = 0])
        PROVE  Onward(c)
    BY <1>1, <2>1, <2>2 DEF Onward, Become, Process
  <2> QED BY <1>2, <2>2, Refused DEF DropImage
<1>3. CASE DropHosts(c)
  <2>1. Goto(c, "dropInfraEnv") => Onward(c)
    BY <1>3, Went DEF DropHosts
  <2> QED BY <1>3, <2>1, Refused DEF DropHosts
<1>4. CASE DropInfraEnv(c)
  <2>1. Goto(c, "infraEnvGone") => Onward(c)
    BY <1>4, Went DEF DropInfraEnv
  <2> QED BY <1>4, <2>1, Refused DEF DropInfraEnv
<1>5. CASE DropCluster(c)
  <2>1. Goto(c, "clusterGone") => Onward(c)
    BY <1>5, Went DEF DropCluster
  <2> QED BY <1>5, <2>1, Refused DEF DropCluster
<1> QED BY <1>2, <1>3, <1>4, <1>5

LEMMA GoneKept ==
  ASSUME SafetyInv, NEW c \in Clients,
         ImageGone(c) \/ InfraEnvGone(c) \/ ClusterGone(c)
  PROVE  Kept(c)
<1>1. me[c] \in Process /\ Sees(me[c]) /\ CommandOK(me[c])
  BY Known
<1>2. me[c].pc \in {"imageGone", "infraEnvGone", "clusterGone"}
  BY DEF ImageGone, InfraEnvGone, ClusterGone, At
<1>3. Fine(me[c]) /\ me[c].pc \in DestroyPlaces
  BY <1>1, <1>2 DEF Fine, DestroyPlaces
<1>4. \/ Refuse(c) \/ TimeOut(c) \/ Become(c, AfterImage(me[c]))
      \/ Become(c, AfterInfraEnv(me[c])) \/ Become(c, Destroyed(me[c]))
  BY DEF ImageGone, InfraEnvGone, ClusterGone
<1> QED BY <1>1, <1>3, <1>4, Refused, EndedKept, AfterFine, DestroyedFine,
           BecameFine

LEMMA LaunchKept ==
  ASSUME SafetyInv, NEW c \in Clients, Launch(c) PROVE Kept(c)
<1>1. PICK cmd \in Commands[c], spec \in Specs :
        Become(c, [Fresh(FirstPlace(cmd)) EXCEPT !.cmd = cmd, !.spec = spec])
  BY DEF Launch
<1> DEFINE p == FirstPlace(cmd)
           r == [Fresh(p) EXCEPT !.cmd = cmd, !.spec = spec]
<1>2. /\ cmd \in {"deploy", "replace", "destroy"}
      /\ p \in {"preflightSim", "seekCluster"}
      /\ p = "seekCluster" => cmd # "deploy"
  BY CommandsAssumption DEF FirstPlace
<1>3. Become(c, r)
  BY <1>1
<1> HIDE DEF p
<1>4. r.pc = p /\ r.cmd = cmd /\ ~r.swap /\ r.blank = 0
  BY DEF Fresh
<1> HIDE DEF r
<1>5. Fine(r)
  BY <1>2, <1>4, Known
     DEF Fine, Sees, CommandOK, DestroyPlaces, ImportPlaces
<1> QED BY <1>3, <1>5, BecameFine

LEMMA EveryMoveKept ==
  ASSUME SafetyInv, NEW c \in Clients,
         Launch(c) \/ ClientStep(c) \/ GiveUp(c)
  PROVE  Kept(c)
<1>1. CASE DeployStep(c)
  BY <1>1, MovedKept, PreflightMoves, AssistedMoves, BlankLookKept,
     ReconcileImageKept, ImageMoves, SimulationMoves, HostsMoves,
     InstallationKept DEF DeployStep
<1>2. CASE DestroyStep(c)
  BY <1>2, MovedKept, SeekMoves, SeekSimulationMoves, ActOnSimulationKept,
     DropMoves, GoneKept DEF DestroyStep
<1>3. CASE GiveUp(c)
  BY <1>3, EndEnds, EndedKept DEF GiveUp, Resting
<1> QED BY <1>1, <1>2, <1>3, LaunchKept DEF ClientStep
-----------------------------------------------------------------------------
(***************************************************************************)
(* What a step does to clusters, images and simulations.                   *)
(***************************************************************************)
LEMMA ClusterUpdated ==
  ASSUME ClustersBelow, NEW k \in clusters, NEW l, l.id = k.id,
         k.status = "installed" => l.status = "installed",
         clusters' = Updated(clusters, k, l), nextId' = nextId
  PROVE  ClustersBelow' /\ ClustersLast
BY DEF ClustersBelow, ClustersLast, Updated

LEMMA ClustersFewer ==
  ASSUME ClustersBelow, clusters \subseteq Cluster, nextId \in Nat,
         nextId' \in Nat, nextId' >= nextId, clusters' \subseteq clusters
  PROVE  ClustersBelow' /\ ClustersLast
BY DEF ClustersBelow, ClustersLast, Cluster

LEMMA ClientClusters ==
  ASSUME SafetyInv, NEW c \in Clients, ClientStep(c),
         nextId' \in Nat, nextId' >= nextId
  PROVE  ClustersBelow' /\ ClustersLast
<1>1. /\ ClustersBelow /\ clusters \subseteq Cluster
      /\ nextId \in Nat \ {0}
  BY Known, Locals DEF SafetyInv
<1>2. CASE clusters' \subseteq clusters
  BY <1>1, <1>2, ClustersFewer
<1>3. CASE CreateCluster(c)
  <2> DEFINE l == [id |-> nextId, spec |-> me[c].spec,
                   status |-> "pending-for-input",
                   started |-> FALSE, requests |-> 0]
  <2>1. l.id = nextId
    OBVIOUS
  <2>2. clusters' = clusters \cup {l} /\ nextId' = nextId + 1
    BY <1>3 DEF CreateCluster
  <2> HIDE DEF l
  <2> QED BY <1>1, <2>1, <2>2 DEF ClustersBelow, ClustersLast, Cluster
<1>4. CASE StartInstallation(c)
  <2>1. ASSUME NEW k \in clusters, nextId' = nextId, k.status = "ready",
               clusters' = Updated(clusters, k,
                 [k EXCEPT !.started = TRUE,
                           !.requests = IF @ = 2 THEN 2 ELSE @ + 1])
        PROVE  ClustersBelow' /\ ClustersLast
    <3> DEFINE l == [k EXCEPT !.started = TRUE,
                              !.requests = IF @ = 2 THEN 2 ELSE @ + 1]
    <3>1. l.id = k.id
      BY <1>1 DEF Cluster
    <3>2. clusters' = Updated(clusters, k, l)
      BY <2>1
    <3> HIDE DEF l
    <3> QED BY <1>1, <2>1, <3>1, <3>2, ClusterUpdated
  <2> QED BY <1>2, <1>4, <2>1 DEF StartInstallation
<1>5. DropCluster(c) => clusters' \subseteq clusters
  BY DEF DropCluster
<1> QED BY <1>2, <1>3, <1>4, <1>5, ClusterSteps

LEMMA ServiceClusters ==
  ASSUME SafetyInv, ServiceStep, nextId' \in Nat, nextId' >= nextId
  PROVE  ClustersBelow' /\ ClustersLast
<1>1. /\ ClustersBelow /\ clusters \subseteq Cluster /\ nextId \in Nat \ {0}
  BY DEF SafetyInv, LabInv, TypeOK, ServicesTypeOK
<1>2. CASE clusters' = clusters
  BY <1>1, <1>2, ClustersFewer
<1>3. ASSUME NEW k \in clusters, NEW st, nextId' = nextId,
             k.status # "installed", NEW b,
             clusters' =
               Updated(clusters, k, [k EXCEPT !.status = st, !.started = b])
      PROVE  ClustersBelow' /\ ClustersLast
  <2> DEFINE l == [k EXCEPT !.status = st, !.started = b]
  <2>1. l.id = k.id
    BY <1>1 DEF Cluster
  <2>2. clusters' = Updated(clusters, k, l)
    BY <1>3
  <2> HIDE DEF l
  <2> QED BY <1>1, <1>3, <2>1, <2>2, ClusterUpdated
<1>4. ASSUME NEW k \in clusters, NEW st, nextId' = nextId,
             k.status # "installed",
             clusters' = Updated(clusters, k, [k EXCEPT !.status = st])
      PROVE  ClustersBelow' /\ ClustersLast
  <2> DEFINE l == [k EXCEPT !.status = st]
  <2>1. l.id = k.id
    BY <1>1 DEF Cluster
  <2>2. clusters' = Updated(clusters, k, l)
    BY <1>4
  <2> HIDE DEF l
  <2> QED BY <1>1, <1>4, <2>1, <2>2, ClusterUpdated
<1>5. ASSUME NEW k \in clusters, BecomeReady(k) \/ BecomeInsufficient(k)
      PROVE  ClustersBelow' /\ ClustersLast
  BY <1>4, <1>5 DEF BecomeReady, BecomeInsufficient
<1>6. ASSUME NEW k \in clusters, BeginInstallation(k)
      PROVE  ClustersBelow' /\ ClustersLast
  BY <1>3, <1>6 DEF BeginInstallation
<1>7. ASSUME NEW k \in clusters, EndInstallation(k)
      PROVE  ClustersBelow' /\ ClustersLast
  BY <1>4, <1>7 DEF EndInstallation
<1>8. AirNext => clusters' = clusters
  BY DEF AirNext, CompleteUpload, EndImport, BeginStart, DropStart, EndStart,
         BeginStop, EndStop, BeginDelete, EndDelete
<1>9. ForeignNext => clusters' = clusters
  BY DEF ForeignNext, ForeignImport, ForeignDelete, ForeignBlank
<1>10. \A i \in infraenvs :
         BuildIso(i) \/ RegisterHosts(i) => clusters' = clusters
  BY DEF BuildIso, RegisterHosts
<1> QED BY <1>2, <1>5, <1>6, <1>7, <1>8, <1>9, <1>10
        DEF ServiceStep, AssistedNext

LEMMA ClientImages ==
  ASSUME SafetyInv, NEW c \in Clients, ClientStep(c) PROVE ImagesLast
<1>1. images \subseteq Image
  BY Known
<1>2. CASE images' \subseteq images
  BY <1>2 DEF ImagesLast
<1>3. CASE CreateImage(c)
  <2> DEFINE n == [id |-> nextId, name |-> me[c].target, owner |-> User[c],
                   status |-> "READY", alike |-> TRUE]
  <2>1. n.id = nextId /\ images' = images \cup {n}
    BY <1>3 DEF CreateImage
  <2> HIDE DEF n
  <2>2. nextId \in Nat
    BY Locals DEF SafetyInv
  <2> QED BY <2>1, <2>2 DEF ImagesLast
<1>4. CASE UploadImage(c)
  <2>1. ASSUME NEW m \in images, m.status = "READY",
               images' = Updated(images, m, [m EXCEPT !.status = "VALIDATING"])
        PROVE  ImagesLast
    <3> DEFINE n == [m EXCEPT !.status = "VALIDATING"]
    <3>1. n.id = m.id
      BY <1>1 DEF Image
    <3>2. images' = (images \ {m}) \cup {n}
      BY <2>1 DEF Updated
    <3> HIDE DEF n
    <3> QED BY <2>1, <3>1, <3>2 DEF ImagesLast
  <2> QED BY <1>2, <1>4, <2>1 DEF UploadImage
<1>5. DeleteBlankImage(c) \/ DropImage(c) => images' \subseteq images
  BY DEF DeleteBlankImage, DropImage
<1> QED BY <1>2, <1>3, <1>4, <1>5, ImageSteps

LEMMA ServiceImages ==
  ASSUME SafetyInv, ServiceStep PROVE ImagesLast
<1>1. images \subseteq Image /\ nextId \in Nat
  BY DEF SafetyInv, LabInv, TypeOK, ServicesTypeOK
<1>2. CASE images' = images
  BY <1>2 DEF ImagesLast
<1>3. ASSUME NEW m \in images, CompleteUpload(m) PROVE ImagesLast
  <2> DEFINE n == [m EXCEPT !.status = "COMPLETE"]
  <2>1. n.id = m.id /\ n.status = "COMPLETE"
    BY <1>1 DEF Image
  <2>2. images' = (images \ {m}) \cup {n}
    BY <1>3 DEF CompleteUpload, Updated
  <2> HIDE DEF n
  <2> QED BY <2>1, <2>2 DEF ImagesLast
<1>4. ASSUME NEW u, ForeignBlank(u) PROVE ImagesLast
  <2> DEFINE n == [id |-> nextId, name |-> Blank, owner |-> u,
                   status |-> "COMPLETE", alike |-> FALSE]
  <2>1. n.id = nextId /\ images' = images \cup {n}
    BY <1>4 DEF ForeignBlank
  <2> HIDE DEF n
  <2> QED BY <1>1, <2>1 DEF ImagesLast
<1>5. AssistedNext => images' = images
  BY DEF AssistedNext, BuildIso, RegisterHosts, BecomeReady,
       BecomeInsufficient, BeginInstallation, EndInstallation
<1>6. \A s \in sims :
        (\/ EndImport(s) \/ BeginStart(s) \/ DropStart(s) \/ EndStart(s)
         \/ BeginStop(s) \/ EndStop(s) \/ BeginDelete(s) \/ EndDelete(s)
         \/ ForeignDelete(s)) => images' = images
  BY DEF EndImport, BeginStart, DropStart, EndStart, BeginStop, EndStop,
         BeginDelete, EndDelete, ForeignDelete
<1>7. ForeignImport => images' = images
  BY DEF ForeignImport
<1> QED BY <1>2, <1>3, <1>4, <1>5, <1>6, <1>7
        DEF ServiceStep, AirNext, ForeignNext

(* A simulation keeps the images it was imported with, and is imported     *)
(* with complete ones, or by somebody else with none of ours.              *)
RefersTo(t, i, b) == t.image = i /\ t.blank = b
RefsLast ==
  \A t \in sims' :
    \/ \E s \in sims : RefersTo(t, s.image, s.blank)
    \/ Whole(t.image) /\ Whole(t.blank)

LEMMA SimEdited ==
  ASSUME NEW s \in sims, NEW t, RefersTo(t, s.image, s.blank),
         sims' = Updated(sims, s, t)
  PROVE  RefsLast
BY DEF RefsLast, Updated, RefersTo

LEMMA SimsStayed ==
  ASSUME sims' \subseteq sims PROVE RefsLast
BY DEF RefsLast, RefersTo

LEMMA SimSteps ==
  ASSUME NEW c \in Clients, ClientStep(c)
  PROVE  \/ UNCHANGED sims
         \/ ImportSimulation(c) \/ ClaimSimulation(c) \/ StartSimulation(c)
         \/ EnsureJumpHost(c) \/ ActOnSimulation(c)
<1> USE DEF LooksOnly, remote
<1>1. CASE \/ PreflightSimulation(c) \/ PreflightInfraEnv(c)
           \/ PreflightImage(c) \/ ReconcileCluster(c) \/ ReconcileInfraEnv(c)
           \/ DownloadIso(c) \/ BlankLook(c) \/ ReconcileImage(c)
  BY <1>1 DEF PreflightSimulation, PreflightInfraEnv, PreflightImage,
       ReconcileCluster, ReconcileInfraEnv, DownloadIso, BlankLook,
       ReconcileImage
<1>2. CASE \/ CheckMissingSimulation(c) \/ ReconcileSimulation(c)
           \/ AwaitImport(c) \/ RecheckCapacity(c) \/ ReconcileHosts(c)
           \/ ReconcileInstallation(c) \/ DownloadCredentials(c)
  BY <1>2 DEF CheckMissingSimulation, ReconcileSimulation, AwaitImport,
       RecheckCapacity, ReconcileHosts, ReconcileInstallation,
       DownloadCredentials
<1>3. CASE \/ CreateCluster(c) \/ CreateInfraEnv(c) \/ CreateImage(c)
           \/ UploadImage(c) \/ DeleteBlankImage(c) \/ AssignRoles(c)
           \/ StartInstallation(c)
  BY <1>3 DEF CreateCluster, CreateInfraEnv, CreateImage, UploadImage,
       DeleteBlankImage, AssignRoles, StartInstallation
<1>4. CASE \/ SeekCluster(c) \/ SeekInfraEnv(c) \/ ListHosts(c)
           \/ SeekSimulation(c) \/ SeekDiscoveryImage(c) \/ RefindSimulation(c)
           \/ ImageGone(c) \/ InfraEnvGone(c) \/ ClusterGone(c)
  BY <1>4 DEF SeekCluster, SeekInfraEnv, ListHosts, SeekSimulation,
       SeekDiscoveryImage, RefindSimulation, ImageGone, InfraEnvGone,
       ClusterGone
<1>5. CASE DropImage(c) \/ DropHosts(c) \/ DropInfraEnv(c) \/ DropCluster(c)
  BY <1>5 DEF DropImage, DropHosts, DropInfraEnv, DropCluster
<1> QED BY <1>1, <1>2, <1>3, <1>4, <1>5 DEF ClientStep, DeployStep, DestroyStep

LEMMA ClientRefs ==
  ASSUME SafetyInv, NEW c \in Clients, ClientStep(c) PROVE RefsLast
<1>1. Sees(me[c])
  BY Known
<1>2. sims \subseteq Simulation
  BY DEF SafetyInv, LabInv, SimsInv
<1>3. CASE sims' = sims
  BY <1>3, SimsStayed
<1>4. CASE ImportSimulation(c)
  <2> DEFINE t == [id |-> nextId, spec |-> me[c].spec, managed |-> FALSE,
                   status |-> "IMPORTING", req |-> "none",
                   image |-> me[c].image, infra |-> me[c].infra,
                   blank |-> me[c].blank, bastion |-> FALSE]
  <2>1. t.image = me[c].image /\ t.blank = me[c].blank
    OBVIOUS
  <2>2. sims' = sims \cup {t} /\ me[c].pc = "importSim"
    BY <1>4 DEF ImportSimulation, At
  <2> HIDE DEF t
  <2>3. Whole(t.image) /\ Whole(t.blank)
    BY <1>1, <2>1, <2>2 DEF Sees, ImportPlaces
  <2> QED BY <2>2, <2>3 DEF RefsLast, RefersTo
<1>5. CASE ClaimSimulation(c)
  <2>1. ASSUME NEW s \in sims,
               sims' = Updated(sims, s, [s EXCEPT !.managed = TRUE])
        PROVE  RefsLast
    BY <1>2, <2>1, SimEdited DEF RefersTo, Simulation
  <2> QED BY <1>3, <1>5, <2>1 DEF ClaimSimulation, Imported
<1>6. ASSUME NEW s \in sims, NEW q,
             sims' = Updated(sims, s, [s EXCEPT !.req = q])
      PROVE  RefsLast
  BY <1>2, <1>6, SimEdited DEF RefersTo, Simulation
<1>7. CASE StartSimulation(c)
  BY <1>3, <1>6, <1>7 DEF StartSimulation
<1>8. CASE ActOnSimulation(c)
  BY <1>3, <1>6, <1>8 DEF ActOnSimulation
<1>9. CASE EnsureJumpHost(c)
  <2>1. ASSUME NEW s \in sims,
               sims' = Updated(sims, s, [s EXCEPT !.bastion = TRUE])
        PROVE  RefsLast
    BY <1>2, <2>1, SimEdited DEF RefersTo, Simulation
  <2> QED BY <1>3, <1>9, <2>1 DEF EnsureJumpHost
<1> QED BY <1>3, <1>4, <1>5, <1>7, <1>8, <1>9, SimSteps

LEMMA ServiceRefs ==
  ASSUME SafetyInv, ServiceStep PROVE RefsLast
<1>1. sims \subseteq Simulation
  BY DEF SafetyInv, LabInv, SimsInv
<1>2. CASE sims' \subseteq sims
  BY <1>2, SimsStayed
<1>3. ASSUME NEW s \in sims, NEW st, NEW q,
             sims' = Updated(sims, s, [s EXCEPT !.status = st, !.req = q])
      PROVE  RefsLast
  BY <1>1, <1>3, SimEdited DEF RefersTo, Simulation
<1>4. ASSUME NEW s \in sims, NEW st,
             sims' = Updated(sims, s, [s EXCEPT !.status = st])
      PROVE  RefsLast
  BY <1>1, <1>4, SimEdited DEF RefersTo, Simulation
<1>5. ASSUME NEW s \in sims,
             sims' = Updated(sims, s, [s EXCEPT !.req = "none"])
      PROVE  RefsLast
  BY <1>1, <1>5, SimEdited DEF RefersTo, Simulation
<1>6. ASSUME NEW s \in sims,
             EndImport(s) \/ EndStart(s) \/ EndStop(s)
      PROVE  RefsLast
  BY <1>4, <1>6 DEF EndImport, EndStart, EndStop
<1>7. ASSUME NEW s \in sims,
             BeginStart(s) \/ BeginStop(s) \/ BeginDelete(s) \/ ForeignDelete(s)
      PROVE  RefsLast
  BY <1>3, <1>7 DEF BeginStart, BeginStop, BeginDelete, ForeignDelete
<1>8. ASSUME NEW s \in sims, DropStart(s) \/ EndDelete(s) PROVE RefsLast
  BY <1>2, <1>5, <1>8 DEF DropStart, EndDelete
<1>9. CASE ForeignImport
  <2> DEFINE t == [id |-> nextId, spec |-> NoSpec, managed |-> FALSE,
                   status |-> "INACTIVE", req |-> "none", image |-> 0,
                   infra |-> 0, blank |-> 0, bastion |-> FALSE]
  <2>1. t.image = 0 /\ t.blank = 0 /\ sims' = sims \cup {t}
    BY <1>9 DEF ForeignImport
  <2> HIDE DEF t
  <2>2. Whole(0)
    BY DEF SafetyInv, LabInv, TypeOK, ServicesTypeOK, ImagesInv,
           ImagesBelow, Whole
  <2> QED BY <2>1, <2>2 DEF RefsLast, RefersTo
<1>10. AssistedNext => sims' = sims
  BY DEF AssistedNext, BuildIso, RegisterHosts, BecomeReady,
       BecomeInsufficient, BeginInstallation, EndInstallation
<1>11. ASSUME NEW m, CompleteUpload(m) \/ ForeignBlank(m) PROVE RefsLast
  BY <1>2, <1>11 DEF CompleteUpload, ForeignBlank
<1> QED BY <1>2, <1>6, <1>7, <1>8, <1>9, <1>10, <1>11
        DEF ServiceStep, AirNext, ForeignNext

LEMMA CredentialSteps ==
  ASSUME NEW c \in Clients, ClientStep(c)
  PROVE  \/ UNCHANGED creds
         \/ /\ me[c].pc = "download"
            /\ creds' = [creds EXCEPT ![c] = me[c].cluster]
<1> USE DEF LooksOnly
<1>1. CASE \/ PreflightSimulation(c) \/ PreflightInfraEnv(c)
           \/ PreflightImage(c) \/ ReconcileCluster(c) \/ ReconcileInfraEnv(c)
           \/ DownloadIso(c) \/ BlankLook(c) \/ ReconcileImage(c)
  BY <1>1 DEF PreflightSimulation, PreflightInfraEnv, PreflightImage,
       ReconcileCluster, ReconcileInfraEnv, DownloadIso, BlankLook,
       ReconcileImage
<1>2. CASE \/ CheckMissingSimulation(c) \/ ReconcileSimulation(c)
           \/ AwaitImport(c) \/ RecheckCapacity(c) \/ ReconcileHosts(c)
           \/ ReconcileInstallation(c)
  BY <1>2 DEF CheckMissingSimulation, ReconcileSimulation, AwaitImport,
       RecheckCapacity, ReconcileHosts, ReconcileInstallation
<1>3. CASE \/ CreateCluster(c) \/ CreateInfraEnv(c) \/ CreateImage(c)
           \/ UploadImage(c) \/ DeleteBlankImage(c) \/ ImportSimulation(c)
           \/ ClaimSimulation(c) \/ StartSimulation(c) \/ AssignRoles(c)
           \/ EnsureJumpHost(c) \/ StartInstallation(c)
  BY <1>3 DEF CreateCluster, CreateInfraEnv, CreateImage, UploadImage,
       DeleteBlankImage, ImportSimulation, ClaimSimulation, StartSimulation,
       AssignRoles, EnsureJumpHost, StartInstallation
<1>4. CASE \/ SeekCluster(c) \/ SeekInfraEnv(c) \/ ListHosts(c)
           \/ SeekSimulation(c) \/ SeekDiscoveryImage(c) \/ RefindSimulation(c)
           \/ ImageGone(c) \/ InfraEnvGone(c) \/ ClusterGone(c)
  BY <1>4 DEF SeekCluster, SeekInfraEnv, ListHosts, SeekSimulation,
       SeekDiscoveryImage, RefindSimulation, ImageGone, InfraEnvGone,
       ClusterGone
<1>5. CASE \/ ActOnSimulation(c) \/ DropImage(c) \/ DropHosts(c)
           \/ DropInfraEnv(c) \/ DropCluster(c)
  BY <1>5 DEF ActOnSimulation, DropImage, DropHosts, DropInfraEnv, DropCluster
<1>6. CASE DownloadCredentials(c)
  BY <1>6 DEF DownloadCredentials, At
<1> QED BY <1>1, <1>2, <1>3, <1>4, <1>5, <1>6
        DEF ClientStep, DeployStep, DestroyStep
-----------------------------------------------------------------------------
(***************************************************************************)
(* The invariant.                                                          *)
(***************************************************************************)
LEMMA StillWhole ==
  ASSUME Lasts, nextId \in Nat, nextId' \in Nat, NEW id \in Nat, Whole(id)
  PROVE  Whole(id)'
BY DEF Lasts, ImagesLast, Whole

LEMMA StillInstalled ==
  ASSUME Lasts, nextId \in Nat, nextId' \in Nat, NEW id \in Nat, Installed(id)
  PROVE  Installed(id)'
BY DEF Lasts, ClustersLast, Installed

LEMMA StillSees ==
  ASSUME Lasts, nextId \in Nat, nextId' \in Nat, NEW r \in Process, Sees(r)
  PROVE  Sees(r)'
<1>1. r.blank \in Nat /\ r.image \in Nat /\ r.cluster \in Nat
  BY DEF Process
<1> QED BY <1>1, StillWhole, StillInstalled DEF Sees

LEMMA SafetyInit == Init => SafetyInv
<1> SUFFICES ASSUME Init PROVE SafetyInv
  OBVIOUS
<1>1. LabInv
  BY Initially
<1>2. clusters = {} /\ images = {} /\ sims = {} /\ nextId = 1
  BY DEF Init, ServicesInit
<1>3. \A c \in Clients : me[c] = Fresh("idle") /\ creds[c] = 0
  BY DEF Init
<1>4. /\ Fresh("idle").pc = "idle" /\ ~Fresh("idle").swap
      /\ Fresh("idle").blank = 0
  BY DEF Fresh
<1>5. \A c \in Clients : Sees(me[c]) /\ CommandOK(me[c]) /\ Installed(creds[c])
  BY <1>2, <1>3, <1>4 DEF Sees, CommandOK, Whole, Installed, DestroyPlaces,
       ImportPlaces
<1> QED BY <1>1, <1>2, <1>5 DEF SafetyInv, ClustersBelow

(* What is left to show of a step, once the resources are dealt with.      *)
LEMMA Rest ==
  ASSUME SafetyInv, LabInv', Lasts, ClustersBelow', RefsLast,
         \A c \in Clients : Kept(c) /\ Installed(creds'[c])
  PROVE  SafetyInv'
<1>1. /\ nextId \in Nat /\ nextId' \in Nat
      /\ me' \in [Clients -> Process] /\ creds' \in [Clients -> Nat]
      /\ sims \subseteq Simulation /\ sims' \subseteq Simulation
  BY DEF SafetyInv, LabInv, TypeOK, ServicesTypeOK
<1>2. ASSUME NEW c \in Clients
      PROVE  (Sees(me[c]) /\ CommandOK(me[c]) /\ Installed(creds[c]))'
  <2>1. me'[c] \in Process /\ creds'[c] \in Nat
    BY <1>1
  <2>2. Sees(me'[c]) /\ CommandOK(me'[c]) /\ Installed(creds'[c])
    BY DEF Kept
  <2>3. PICK r \in Process : r = me'[c]
    BY <2>1
  <2>4. PICK id \in Nat : id = creds'[c]
    BY <2>1
  <2>5. Sees(r)' /\ CommandOK(r)
    BY <1>1, <2>2, <2>3, StillSees
  <2>6. Installed(id)'
    BY <1>1, <2>2, <2>4, StillInstalled
  <2> QED BY <2>3, <2>4, <2>5, <2>6
<1>3. ASSUME NEW t \in sims' PROVE (Whole(t.image) /\ Whole(t.blank))'
  <2>1. t.image \in Nat /\ t.blank \in Nat
    BY <1>1 DEF Simulation
  <2>2. Whole(t.image) /\ Whole(t.blank)
    BY DEF RefsLast, RefersTo, SafetyInv
  <2>3. PICK i \in Nat, b \in Nat : i = t.image /\ b = t.blank
    BY <2>1
  <2>4. Whole(i)' /\ Whole(b)'
    BY <1>1, <2>2, <2>3, StillWhole
  <2> QED BY <2>3, <2>4
<1> QED BY <1>2, <1>3 DEF SafetyInv

LEMMA SafetyStep == SafetyInv /\ [Next]_vars => SafetyInv'
<1> SUFFICES ASSUME SafetyInv, [Next]_vars PROVE SafetyInv'
  OBVIOUS
<1>1. LabInv' /\ nextId' >= nextId
  BY Inductive DEF SafetyInv, Keeps
<1>2. /\ nextId \in Nat /\ nextId' \in Nat /\ creds \in [Clients -> Nat]
      /\ me \in [Clients -> Process] /\ me' \in [Clients -> Process]
      /\ clusters \subseteq Cluster /\ ClustersBelow
      /\ \A c \in Clients : Sees(me[c]) /\ CommandOK(me[c])
                            /\ Installed(creds[c])
  BY <1>1 DEF SafetyInv, LabInv, TypeOK, ServicesTypeOK
<1>3. ASSUME NEW c \in Clients, Launch(c) \/ ClientStep(c) \/ GiveUp(c)
      PROVE  SafetyInv'
  <2>1. ASSUME NEW d \in Clients, d # c PROVE Kept(d)
    <3>1. Good(c)
      BY <1>3, LaunchGood, ClientStepGood, GiveUpGood DEF SafetyInv
    <3>2. PICK r \in Process : Become(c, r)
      BY <3>1 DEF Good, Move
    <3>3. me'[d] = me[d]
      BY <1>2, <2>1, <3>2 DEF Become
    <3> QED BY <1>2, <3>3 DEF Kept
  <2>2. \A d \in Clients : Kept(d)
    BY <1>3, <2>1, EveryMoveKept
  <2>3. CASE ClientStep(c)
    <3>1. ClustersBelow' /\ ClustersLast
      BY <1>1, <1>2, <2>3, ClientClusters
    <3>2. Lasts
      BY <1>1, <2>3, <3>1, ClientImages DEF Lasts
    <3>3. \A d \in Clients : Installed(creds'[d])
      BY <1>2, <2>3, CredentialSteps DEF Sees
    <3> QED BY <1>1, <2>2, <2>3, <3>1, <3>2, <3>3, ClientRefs, Rest
  <2>4. CASE Launch(c) \/ GiveUp(c)
    <3>1. UNCHANGED remote /\ UNCHANGED creds
      BY <2>4 DEF Launch, GiveUp, LooksOnly
    <3>2. /\ clusters' = clusters /\ images' = images /\ sims' = sims
          /\ nextId' = nextId
      BY <3>1 DEF remote
    <3>3. ClustersBelow' /\ ClustersLast
      BY <1>2, <3>2, ClustersFewer
    <3>4. Lasts /\ RefsLast
      BY <1>2, <3>2, <3>3, SimsStayed DEF Lasts, ImagesLast
    <3> QED BY <1>1, <1>2, <2>2, <3>1, <3>3, <3>4, Rest
  <2> QED BY <1>3, <2>3, <2>4
<1>4. CASE ServiceStep
  <2>1. me' = me /\ creds' = creds
    BY <1>4 DEF ServiceStep
  <2>2. ClustersBelow' /\ ClustersLast
    BY <1>1, <1>2, <1>4, ServiceClusters
  <2>3. Lasts /\ RefsLast
    BY <1>1, <1>4, <2>2, ServiceImages, ServiceRefs DEF Lasts
  <2>4. \A c \in Clients : Kept(c) /\ Installed(creds'[c])
    BY <1>2, <2>1 DEF Kept
  <2> QED BY <1>1, <2>2, <2>3, <2>4, Rest
<1>5. CASE UNCHANGED vars
  <2>1. /\ clusters' = clusters /\ images' = images /\ sims' = sims
        /\ nextId' = nextId /\ me' = me /\ creds' = creds
    BY <1>5 DEF vars
  <2>2. ClustersBelow' /\ ClustersLast
    BY <1>2, <2>1, ClustersFewer
  <2>3. Lasts /\ RefsLast
    BY <1>2, <2>1, <2>2, SimsStayed DEF Lasts, ImagesLast
  <2>4. \A c \in Clients : Kept(c) /\ Installed(creds'[c])
    BY <1>2, <2>1 DEF Kept
  <2> QED BY <1>1, <2>2, <2>3, <2>4, Rest
<1> QED BY <1>3, <1>4, <1>5 DEF Next

LEMMA SafetyInvariant == Spec => []SafetyInv
BY SafetyInit, SafetyStep, PTL DEF Spec

(***************************************************************************)
(* No node boots from an image that is not complete, whatever is uploaded, *)
(* replaced or deleted between _reconcile_air_image and the import.        *)
(***************************************************************************)
THEOREM BootsAreComplete == Spec => []BootsOnlyCompleteImages
<1>1. SafetyInv => BootsOnlyCompleteImages
  BY DEF SafetyInv, Whole, BootsOnlyCompleteImages
<1> QED BY <1>1, SafetyInvariant, PTL

(***************************************************************************)
(* download_credentials keeps the credentials of installed clusters only,  *)
(* although the look at the cluster and the download are separate calls.   *)
(***************************************************************************)
THEOREM CredentialsAreInstalled == Spec => []CredentialsOfInstalled
<1>1. SafetyInv => CredentialsOfInstalled
  BY DEF SafetyInv, Installed, CredentialsOfInstalled
<1> QED BY <1>1, SafetyInvariant, PTL
-----------------------------------------------------------------------------
(***************************************************************************)
(* What `deploy' leaves alone.                                             *)
(***************************************************************************)
LEMMA InfraEnvSteps ==
  ASSUME NEW c \in Clients, ClientStep(c)
  PROVE  \/ UNCHANGED infraenvs
         \/ CreateInfraEnv(c) \/ AssignRoles(c)
         \/ DropHosts(c) \/ DropInfraEnv(c)
<1> USE DEF LooksOnly, remote
<1>1. CASE \/ PreflightSimulation(c) \/ PreflightInfraEnv(c)
           \/ PreflightImage(c) \/ ReconcileCluster(c) \/ ReconcileInfraEnv(c)
           \/ DownloadIso(c) \/ BlankLook(c) \/ ReconcileImage(c)
  BY <1>1 DEF PreflightSimulation, PreflightInfraEnv, PreflightImage,
       ReconcileCluster, ReconcileInfraEnv, DownloadIso, BlankLook,
       ReconcileImage
<1>2. CASE \/ CheckMissingSimulation(c) \/ ReconcileSimulation(c)
           \/ AwaitImport(c) \/ RecheckCapacity(c) \/ ReconcileHosts(c)
           \/ ReconcileInstallation(c) \/ DownloadCredentials(c)
  BY <1>2 DEF CheckMissingSimulation, ReconcileSimulation, AwaitImport,
       RecheckCapacity, ReconcileHosts, ReconcileInstallation,
       DownloadCredentials
<1>3. CASE \/ CreateCluster(c) \/ CreateImage(c) \/ UploadImage(c)
           \/ DeleteBlankImage(c) \/ ImportSimulation(c)
           \/ ClaimSimulation(c) \/ StartSimulation(c)
           \/ EnsureJumpHost(c) \/ StartInstallation(c)
  BY <1>3 DEF CreateCluster, CreateImage, UploadImage, DeleteBlankImage,
       ImportSimulation, ClaimSimulation, StartSimulation, EnsureJumpHost,
       StartInstallation
<1>4. CASE \/ SeekCluster(c) \/ SeekInfraEnv(c) \/ ListHosts(c)
           \/ SeekSimulation(c) \/ SeekDiscoveryImage(c) \/ RefindSimulation(c)
           \/ ImageGone(c) \/ InfraEnvGone(c) \/ ClusterGone(c)
  BY <1>4 DEF SeekCluster, SeekInfraEnv, ListHosts, SeekSimulation,
       SeekDiscoveryImage, RefindSimulation, ImageGone, InfraEnvGone,
       ClusterGone
<1>5. CASE ActOnSimulation(c) \/ DropImage(c) \/ DropCluster(c)
  BY <1>5 DEF ActOnSimulation, DropImage, DropCluster
<1> QED BY <1>1, <1>2, <1>3, <1>4, <1>5 DEF ClientStep, DeployStep, DestroyStep

LEMMA IdsStay ==
  ASSUME SafetyInv, NEW c \in Clients, me[c].cmd = "deploy", ClientStep(c)
  PROVE  /\ Ids(clusters) \subseteq Ids(clusters)'
         /\ Ids(infraenvs) \subseteq Ids(infraenvs)'
         /\ Ids(images) \subseteq Ids(images)'
<1>1. /\ clusters \subseteq Cluster /\ infraenvs \subseteq InfraEnv
      /\ images \subseteq Image
  BY DEF SafetyInv, LabInv, TypeOK, ServicesTypeOK
<1>2. me[c].pc # "deleteImage" /\ me[c].pc \notin DestroyPlaces
  BY Known DEF CommandOK
<1>3. /\ ~DeleteBlankImage(c) /\ ~DropImage(c) /\ ~DropCluster(c)
      /\ ~DropHosts(c) /\ ~DropInfraEnv(c)
  BY <1>2 DEF DeleteBlankImage, DropImage, DropCluster, DropHosts,
              DropInfraEnv, At, DestroyPlaces
<1>4. Ids(clusters) \subseteq Ids(clusters)'
  <2>1. CreateCluster(c) => clusters \subseteq clusters'
    BY DEF CreateCluster
  <2>2. ASSUME StartInstallation(c)
        PROVE  \/ clusters' = clusters
               \/ \E k \in clusters : \E l :
                    l.id = k.id /\ clusters' = Updated(clusters, k, l)
    <3>1. \A k \in clusters :
            [k EXCEPT !.started = TRUE,
                      !.requests = IF @ = 2 THEN 2 ELSE @ + 1].id = k.id
      BY <1>1 DEF Cluster
    <3> QED BY <2>2, <3>1 DEF StartInstallation
  <2>3. CASE clusters \subseteq clusters'
    BY <2>3 DEF Ids
  <2>4. ASSUME NEW k \in clusters, NEW l, l.id = k.id,
               clusters' = Updated(clusters, k, l)
        PROVE  Ids(clusters) \subseteq Ids(clusters)'
    BY <2>4 DEF Ids, Updated
  <2> QED BY <1>3, <2>1, <2>2, <2>3, <2>4, ClusterSteps
<1>5. Ids(infraenvs) \subseteq Ids(infraenvs)'
  <2>1. CreateInfraEnv(c) => infraenvs \subseteq infraenvs'
    BY DEF CreateInfraEnv
  <2>2. ASSUME AssignRoles(c)
        PROVE  \/ infraenvs' = infraenvs
               \/ \E i \in infraenvs : \E j :
                    j.id = i.id /\ infraenvs' = Updated(infraenvs, i, j)
    <3>1. \A i \in infraenvs : [i EXCEPT !.hosts = "assigned"].id = i.id
      BY <1>1 DEF InfraEnv
    <3> QED BY <2>2, <3>1 DEF AssignRoles
  <2>3. CASE infraenvs \subseteq infraenvs'
    BY <2>3 DEF Ids
  <2>4. ASSUME NEW i \in infraenvs, NEW j, j.id = i.id,
               infraenvs' = Updated(infraenvs, i, j)
        PROVE  Ids(infraenvs) \subseteq Ids(infraenvs)'
    BY <2>4 DEF Ids, Updated
  <2> QED BY <1>3, <2>1, <2>2, <2>3, <2>4, InfraEnvSteps
<1>6. Ids(images) \subseteq Ids(images)'
  <2>1. CreateImage(c) => images \subseteq images'
    BY DEF CreateImage
  <2>2. ASSUME UploadImage(c)
        PROVE  \/ images' = images
               \/ \E m \in images : \E n :
                    n.id = m.id /\ images' = Updated(images, m, n)
    <3>1. \A m \in images : [m EXCEPT !.status = "VALIDATING"].id = m.id
      BY <1>1 DEF Image
    <3> QED BY <2>2, <3>1 DEF UploadImage
  <2>3. CASE images \subseteq images'
    BY <2>3 DEF Ids
  <2>4. ASSUME NEW m \in images, NEW n, n.id = m.id,
               images' = Updated(images, m, n)
        PROVE  Ids(images) \subseteq Ids(images)'
    BY <2>4 DEF Ids, Updated
  <2> QED BY <1>3, <2>1, <2>2, <2>3, <2>4, ImageSteps
<1> QED BY <1>4, <1>5, <1>6

(* No shutdown and no deletion of a simulation is requested.               *)
Spared == \A s \in sims : \E t \in sims' :
            t.id = s.id /\ (t.req = s.req \/ t.req = "start")

LEMMA SimsSpared ==
  ASSUME SafetyInv, NEW c \in Clients, me[c].cmd = "deploy", ClientStep(c)
  PROVE  Spared
<1>1. sims \subseteq Simulation
  BY DEF SafetyInv, LabInv, SimsInv
<1>2. me[c].pc \notin DestroyPlaces
  BY Known DEF CommandOK
<1>3. ~ActOnSimulation(c)
  BY <1>2 DEF ActOnSimulation, At, DestroyPlaces
<1>4. CASE sims \subseteq sims'
  BY <1>4 DEF Spared
<1>5. ASSUME NEW s \in sims, NEW t, t.id = s.id,
             t.req = s.req \/ t.req = "start",
             sims' = Updated(sims, s, t)
      PROVE  Spared
  BY <1>5 DEF Spared, Updated
<1>6. CASE ImportSimulation(c)
  BY <1>4, <1>6 DEF ImportSimulation
<1>7. CASE ClaimSimulation(c)
  <2>1. ASSUME NEW s \in sims,
               sims' = Updated(sims, s, [s EXCEPT !.managed = TRUE])
        PROVE  Spared
    BY <1>1, <1>5, <2>1 DEF Simulation
  <2> QED BY <1>4, <1>7, <2>1 DEF ClaimSimulation, Imported
<1>8. CASE StartSimulation(c)
  <2>1. ASSUME NEW s \in sims,
               sims' = Updated(sims, s, [s EXCEPT !.req = "start"])
        PROVE  Spared
    BY <1>1, <1>5, <2>1 DEF Simulation
  <2> QED BY <1>4, <1>8, <2>1 DEF StartSimulation
<1>9. CASE EnsureJumpHost(c)
  <2>1. ASSUME NEW s \in sims,
               sims' = Updated(sims, s, [s EXCEPT !.bastion = TRUE])
        PROVE  Spared
    BY <1>1, <1>5, <2>1 DEF Simulation
  <2> QED BY <1>4, <1>9, <2>1 DEF EnsureJumpHost
<1> QED BY <1>3, <1>4, <1>6, <1>7, <1>8, <1>9, SimSteps

(***************************************************************************)
(* `deploy' without --replace deletes no cluster, InfraEnv or image and    *)
(* asks for no shutdown and no deletion of a simulation, from wherever     *)
(* other processes left the lab and whatever they do meanwhile.            *)
(***************************************************************************)
THEOREM DeploySpares == Spec => DeployNeverDestroys
<1> DEFINE Safe(c) == /\ Ids(clusters) \subseteq Ids(clusters)'
                      /\ Ids(infraenvs) \subseteq Ids(infraenvs)'
                      /\ Ids(images) \subseteq Ids(images)'
                      /\ \A s \in sims : \E t \in sims' :
                           t.id = s.id /\ (t.req = s.req \/ t.req = "start")
<1>1. ASSUME SafetyInv, [Next]_vars, NEW c \in Clients,
             me[c].cmd = "deploy", Moves(c)
      PROVE  Safe(c)
  <2>1. me \in [Clients -> Process]
    BY <1>1, Known
  <2>2. me' # me
    BY <1>1 DEF Moves
  <2>3. PICK d \in Clients : Launch(d) \/ ClientStep(d) \/ GiveUp(d)
    BY <1>1, <2>2 DEF Next, ServiceStep, vars
  <2>4. d = c
    <3>1. Good(d)
      BY <1>1, <2>3, LaunchGood, ClientStepGood, GiveUpGood DEF SafetyInv
    <3>2. PICK r \in Process : Become(d, r)
      BY <3>1 DEF Good, Move
    <3> QED BY <1>1, <2>1, <3>2 DEF Become, Moves
  <2>5. CASE Launch(c) \/ GiveUp(c)
    BY <2>5 DEF Launch, GiveUp, LooksOnly, remote, Ids
  <2>6. CASE ClientStep(c)
    BY <1>1, <2>6, IdsStay, SimsSpared DEF Spared
  <2> QED BY <2>3, <2>4, <2>5, <2>6
<1>2. SafetyInv /\ [Next]_vars =>
        [\A c \in Clients : me[c].cmd = "deploy" /\ Moves(c) =>
           /\ Ids(clusters) \subseteq Ids(clusters)'
           /\ Ids(infraenvs) \subseteq Ids(infraenvs)'
           /\ Ids(images) \subseteq Ids(images)'
           /\ \A s \in sims : \E t \in sims' :
                t.id = s.id /\ (t.req = s.req \/ t.req = "start")]_vars
  BY <1>1
<1> QED BY <1>2, SafetyInvariant, PTL DEF Spec, DeployNeverDestroys
=============================================================================
