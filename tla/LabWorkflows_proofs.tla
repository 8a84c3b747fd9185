------------------------ MODULE LabWorkflows_proofs ------------------------
(***************************************************************************)
(* Theorems about LabWorkflows, for any number of processes and users, any *)
(* bounds, with other people acting on the lab at any time: the types, and *)
(* three promises about what belongs to whom.  All of them follow from one *)
(* inductive invariant, LabInv.  Its heart is OwnsTarget, StartsManaged    *)
(* and ClaimsOwn: what a process found out about an id before it acts on   *)
(* it stays true of that id, because ids are never used twice (ImagesBelow,*)
(* SimsBelow) and owner, spec and metadata are never taken back (Keeps).   *)
(***************************************************************************)
EXTENDS LabProperties, TLAPS

(* What a process that runs knows: its spec, ...                           *)
Running(r) == r.pc \notin Resting => r.spec \in Specs

(* ... that the image it is about to upload to or delete is its user's,    *)
ImageAtHand == {"uploadImage", "deleteImage"} \cup DestroyPlaces
OwnsTarget(c, r) ==
  r.pc \in ImageAtHand =>
    /\ r.image < nextId
    /\ \A m \in images : m.id = r.image => m.owner = User[c]

(* ... that the simulation it is about to start is managed,                *)
StartsManaged(r) ==
  r.pc = "startSim" =>
    /\ r.sim < nextId
    /\ \A s \in sims : s.id = r.sim => s.managed

(* ... and that the simulation it imports is not somebody else's.          *)
ClaimsOwn(r) ==
  r.pc \in {"awaitImport", "claimSim"} =>
    /\ r.sim < nextId
    /\ \A s \in sims : s.id = r.sim => s.spec # NoSpec

Knows(c, r) ==
  Running(r) /\ OwnsTarget(c, r) /\ StartsManaged(r) /\ ClaimsOwn(r)

(* Ids are handed out once.                                                *)
ImagesBelow ==
  /\ \A m \in images : 0 < m.id /\ m.id < nextId
  /\ \A m, n \in images : m.id = n.id => m = n
SimsBelow ==
  /\ \A s \in sims : 0 < s.id /\ s.id < nextId
  /\ \A s, t \in sims : s.id = t.id => s = t

SimsInv ==
  /\ sims \subseteq Simulation
  /\ SimsBelow /\ StartsOnlyClaimed /\ ClaimsOnlyOwnImports
ImagesInv == images \subseteq Image /\ ImagesBelow

LabInv ==
  /\ TypeOK /\ SimsInv /\ ImagesInv
  /\ \A c \in Clients : Knows(c, me[c])

(* What no step takes back.                                                *)
ImagesKeep ==
  \A n \in images' :
    \/ n.id >= nextId
    \/ \E m \in images : m.id = n.id /\ m.owner = n.owner
SimsKeep ==
  \A t \in sims' :
    \/ t.id >= nextId
    \/ \E s \in sims : s.id = t.id /\ s.spec = t.spec /\ (s.managed => t.managed)
Keeps == nextId' >= nextId /\ ImagesKeep /\ SimsKeep
-----------------------------------------------------------------------------
(***************************************************************************)
(* How the sets of resources change, one lemma per way of changing.        *)
(***************************************************************************)

(* A simulation updated in place keeps the invariant if the new record     *)
(* does and takes nothing back.                                            *)
LEMMA SimUpdated ==
  ASSUME SimsInv, NEW s \in sims, NEW t \in Simulation,
         t.id = s.id, t.spec = s.spec, s.managed => t.managed,
         t.req = "start" => t.managed, t.managed => t.spec # NoSpec,
         sims' = Updated(sims, s, t), nextId' = nextId
  PROVE  SimsInv' /\ SimsKeep
<1> USE DEF SimsInv, SimsBelow, StartsOnlyClaimed, ClaimsOnlyOwnImports, Updated
<1>1. \A x \in sims' : x = t \/ x \in sims
  OBVIOUS
<1>2. SimsInv'
  BY <1>1
<1>3. SimsKeep
  BY <1>1 DEF SimsKeep
<1> QED BY <1>2, <1>3

(* A simulation that appears has the next id.                              *)
LEMMA SimAdded ==
  ASSUME ServicesTypeOK, SimsInv, NEW t \in Simulation, t.id = nextId,
         t.req = "none", ~t.managed,
         sims' = sims \cup {t}, nextId' = nextId + 1
  PROVE  SimsInv' /\ SimsKeep
<1> USE DEF SimsInv, SimsBelow, StartsOnlyClaimed, ClaimsOnlyOwnImports, ServicesTypeOK, Simulation
<1>1. SimsInv'
  OBVIOUS
<1>2. SimsKeep
  BY DEF SimsKeep
<1> QED BY <1>1, <1>2

(* Simulations that go, or stay, while ids may be used up by other things. *)
LEMMA SimsFewer ==
  ASSUME ServicesTypeOK, SimsInv, sims' \subseteq sims,
         nextId' \in Nat, nextId' >= nextId
  PROVE  SimsInv' /\ SimsKeep
<1> USE DEF SimsInv, SimsBelow, StartsOnlyClaimed, ClaimsOnlyOwnImports, ServicesTypeOK, Simulation
<1>1. SimsInv'
  OBVIOUS
<1>2. SimsKeep
  BY DEF SimsKeep
<1> QED BY <1>1, <1>2

(* The same for images, whose owner never changes.                         *)
LEMMA ImageUpdated ==
  ASSUME ImagesInv, NEW m \in images, NEW n \in Image,
         n.id = m.id, n.owner = m.owner,
         images' = Updated(images, m, n), nextId' = nextId
  PROVE  ImagesInv' /\ ImagesKeep
<1> USE DEF ImagesInv, ImagesBelow, Updated
<1>1. \A x \in images' : x = n \/ x \in images
  OBVIOUS
<1>2. ImagesInv'
  BY <1>1
<1>3. ImagesKeep
  BY <1>1 DEF ImagesKeep
<1> QED BY <1>2, <1>3

LEMMA ImageAdded ==
  ASSUME ServicesTypeOK, ImagesInv, NEW n \in Image, n.id = nextId,
         images' = images \cup {n}, nextId' = nextId + 1
  PROVE  ImagesInv' /\ ImagesKeep
<1> USE DEF ImagesInv, ImagesBelow, ServicesTypeOK, Image
<1>1. ImagesInv'
  OBVIOUS
<1>2. ImagesKeep
  BY DEF ImagesKeep
<1> QED BY <1>1, <1>2

LEMMA ImagesFewer ==
  ASSUME ServicesTypeOK, ImagesInv, images' \subseteq images,
         nextId' \in Nat, nextId' >= nextId
  PROVE  ImagesInv' /\ ImagesKeep
<1> USE DEF ImagesInv, ImagesBelow, ServicesTypeOK, Image
<1>1. ImagesInv'
  OBVIOUS
<1>2. ImagesKeep
  BY DEF ImagesKeep
<1> QED BY <1>1, <1>2
-----------------------------------------------------------------------------
(***************************************************************************)
(* What every step does to the services: types, the invariants of images   *)
(* and simulations, and Keeps.                                             *)
(***************************************************************************)
RemoteInv == ServicesTypeOK /\ SimsInv /\ ImagesInv
Remote == RemoteInv' /\ Keeps

LEMMA Looking ==
  ASSUME RemoteInv, UNCHANGED remote
  PROVE  Remote
<1>1. ServicesTypeOK' /\ nextId' = nextId /\ nextId \in Nat
  BY DEF RemoteInv, ServicesTypeOK, remote
<1>2. SimsInv' /\ SimsKeep
  BY <1>1, SimsFewer DEF RemoteInv, remote
<1>3. ImagesInv' /\ ImagesKeep
  BY <1>1, ImagesFewer DEF RemoteInv, remote
<1> QED BY <1>1, <1>2, <1>3 DEF Remote, RemoteInv, Keeps

(* Assisted Installer's part changes only clusters and InfraEnvs, and may  *)
(* take an id.                                                             *)
LEMMA AssistedSide ==
  ASSUME RemoteInv, clusters' \subseteq Cluster, infraenvs' \subseteq InfraEnv,
         nextId' \in Nat \ {0}, nextId' >= nextId,
         UNCHANGED <<images, sims, foreign>>
  PROVE  Remote
<1>1. SimsInv' /\ SimsKeep
  BY SimsFewer DEF RemoteInv
<1>2. ImagesInv' /\ ImagesKeep
  BY ImagesFewer DEF RemoteInv
<1>3. ServicesTypeOK'
  BY <1>1, <1>2 DEF RemoteInv, ServicesTypeOK, SimsInv, ImagesInv
<1> QED BY <1>1, <1>2, <1>3 DEF Remote, RemoteInv, Keeps

(* A step on the simulations alone, and one on the images alone.           *)
LEMMA SimsSide ==
  ASSUME RemoteInv, SimsInv' /\ SimsKeep,
         nextId' \in Nat \ {0}, nextId' >= nextId, foreign' \in 0..MaxForeign,
         UNCHANGED <<clusters, infraenvs, images>>
  PROVE  Remote
<1>1. ImagesInv' /\ ImagesKeep
  BY ImagesFewer DEF RemoteInv
<1>2. ServicesTypeOK'
  BY DEF RemoteInv, ServicesTypeOK, SimsInv
<1> QED BY <1>1, <1>2 DEF Remote, RemoteInv, Keeps

LEMMA ImagesSide ==
  ASSUME RemoteInv, ImagesInv' /\ ImagesKeep,
         nextId' \in Nat \ {0}, nextId' >= nextId, foreign' \in 0..MaxForeign,
         UNCHANGED <<clusters, infraenvs, sims>>
  PROVE  Remote
<1>1. SimsInv' /\ SimsKeep
  BY SimsFewer DEF RemoteInv
<1>2. ServicesTypeOK'
  BY DEF RemoteInv, ServicesTypeOK, ImagesInv
<1> QED BY <1>1, <1>2 DEF Remote, RemoteInv, Keeps

(* What the services and other people do.                                  *)
LEMMA ServicesRemote ==
  ASSUME RemoteInv, AssistedNext \/ AirNext \/ ForeignNext
  PROVE  Remote
<1> USE DEF RemoteInv, ServicesTypeOK
<1>1. ASSUME NEW i \in infraenvs, BuildIso(i) \/ RegisterHosts(i)
      PROVE  Remote
  <2>1. i \in InfraEnv
    OBVIOUS
  <2>2. [i EXCEPT !.iso = TRUE] \in InfraEnv /\ [i EXCEPT !.hosts = "found"] \in InfraEnv
    BY <2>1 DEF InfraEnv
  <2>3. infraenvs' \subseteq InfraEnv
    BY <1>1, <2>2 DEF BuildIso, RegisterHosts, Updated
  <2> QED BY <1>1, <2>3, AssistedSide DEF BuildIso, RegisterHosts
<1>2. ASSUME NEW k \in clusters,
             BecomeReady(k) \/ BecomeInsufficient(k)
               \/ BeginInstallation(k) \/ EndInstallation(k)
      PROVE  Remote
  <2>1. k \in Cluster
    OBVIOUS
  <2>2. \A st \in ClusterStatus :
          /\ [k EXCEPT !.status = st] \in Cluster
          /\ [k EXCEPT !.status = st, !.started = TRUE] \in Cluster
    BY <2>1 DEF Cluster
  <2>3. {"ready", "insufficient", "installing", "installed", "error"}
          \subseteq ClusterStatus
    BY DEF ClusterStatus
  <2>4. clusters' \subseteq Cluster
    <3>1. CASE BecomeReady(k) \/ BecomeInsufficient(k)
      <4>1. \E l \in Cluster : clusters' = Updated(clusters, k, l)
        BY <3>1, <2>2, <2>3 DEF BecomeReady, BecomeInsufficient
      <4> QED BY <4>1 DEF Updated
    <3>2. CASE BeginInstallation(k)
      <4>1. \E l \in Cluster : clusters' = Updated(clusters, k, l)
        BY <3>2, <2>2, <2>3 DEF BeginInstallation
      <4> QED BY <4>1 DEF Updated
    <3>3. CASE EndInstallation(k)
      <4>1. \E l \in Cluster : clusters' = Updated(clusters, k, l)
        BY <3>3, <2>2, <2>3 DEF EndInstallation
      <4> QED BY <4>1 DEF Updated
    <3> QED BY <1>2, <3>1, <3>2, <3>3
  <2>5. UNCHANGED <<images, sims, foreign, nextId, infraenvs>>
    BY <1>2 DEF BecomeReady, BecomeInsufficient, BeginInstallation,
         EndInstallation
  <2> QED BY <2>4, <2>5, AssistedSide
<1>3. ASSUME NEW m \in images, CompleteUpload(m)
      PROVE  Remote
  <2> DEFINE n == [m EXCEPT !.status = "COMPLETE"]
  <2>1. n \in Image /\ n.id = m.id /\ n.owner = m.owner
    BY DEF Image, AirImageUploadStatus
  <2>2. images' = Updated(images, m, n)
    BY <1>3 DEF CompleteUpload
  <2> HIDE DEF n
  <2>3. ImagesInv' /\ ImagesKeep
    BY <1>3, <2>1, <2>2, ImageUpdated DEF CompleteUpload
  <2> QED BY <1>3, <2>3, ImagesSide DEF CompleteUpload
<1>4. ASSUME NEW s \in sims, EndDelete(s)
      PROVE  Remote
  <2>1. SimsInv' /\ SimsKeep
    BY <1>4, SimsFewer DEF EndDelete
  <2> QED BY <1>4, <2>1, SimsSide DEF EndDelete
<1>5. ASSUME NEW s \in sims, NEW st \in AirSimulationStatus,
             NEW rq \in {s.req, "none"}, foreign' \in 0..MaxForeign,
             sims' = Updated(sims, s, [s EXCEPT !.status = st, !.req = rq]),
             UNCHANGED <<clusters, infraenvs, images, nextId>>
      PROVE  Remote
  <2> DEFINE t == [s EXCEPT !.status = st, !.req = rq]
  <2>1. /\ t \in Simulation
        /\ t.id = s.id /\ t.spec = s.spec /\ t.managed = s.managed /\ t.req = rq
    BY DEF Simulation
  <2>2. (s.req = "start" => s.managed) /\ (s.managed => s.spec # NoSpec)
    BY DEF SimsInv, StartsOnlyClaimed, ClaimsOnlyOwnImports
  <2>3. sims' = Updated(sims, s, t)
    BY <1>5
  <2> HIDE DEF t
  <2>4. SimsInv' /\ SimsKeep
    BY <1>5, <2>1, <2>2, <2>3, SimUpdated
  <2> QED BY <1>5, <2>4, SimsSide
<1>6. ASSUME NEW s \in sims,
             \/ EndImport(s) \/ BeginStart(s) \/ DropStart(s) \/ EndStart(s)
             \/ BeginStop(s) \/ EndStop(s) \/ BeginDelete(s) \/ ForeignDelete(s)
      PROVE  Remote
  <2>1. /\ foreign' \in 0..MaxForeign
        /\ UNCHANGED <<clusters, infraenvs, images, nextId>>
    BY <1>6, BoundsAssumption DEF EndImport, BeginStart, DropStart, EndStart,
         BeginStop, EndStop, BeginDelete, ForeignDelete
  <2>2. \E st \in AirSimulationStatus, rq \in {s.req, "none"} :
          sims' = Updated(sims, s, [s EXCEPT !.status = st, !.req = rq])
    <3>1. s \in Simulation
      OBVIOUS
    <3>2. CASE EndImport(s)
      BY <3>1, <3>2 DEF EndImport, Simulation, AirSimulationStatus
    <3>3. CASE BeginStart(s)
      BY <3>1, <3>3 DEF BeginStart, AirSimulationStatus
    <3>4. CASE DropStart(s)
      BY <3>1, <3>4 DEF DropStart, Simulation
    <3>5. CASE EndStart(s)
      BY <3>1, <3>5 DEF EndStart, Simulation, AirSimulationStatus
    <3>6. CASE BeginStop(s)
      BY <3>1, <3>6 DEF BeginStop, AirSimulationStatus
    <3>7. CASE EndStop(s)
      BY <3>1, <3>7 DEF EndStop, Simulation, AirSimulationStatus
    <3>8. CASE BeginDelete(s)
      BY <3>1, <3>8 DEF BeginDelete, AirSimulationStatus
    <3>9. CASE ForeignDelete(s)
      BY <3>1, <3>9 DEF ForeignDelete, AirSimulationStatus
    <3> QED BY <1>6, <3>2, <3>3, <3>4, <3>5, <3>6, <3>7, <3>8, <3>9
  <2> QED BY <1>5, <2>1, <2>2
<1>7. ASSUME ForeignImport
      PROVE  Remote
  <2> DEFINE t == [id |-> nextId, spec |-> NoSpec, managed |-> FALSE,
                   status |-> "INACTIVE", req |-> "none", image |-> 0,
                   infra |-> 0, blank |-> 0, bastion |-> FALSE]
  <2>1. /\ t \in Simulation
        /\ t.id = nextId /\ t.req = "none" /\ ~t.managed
    BY DEF Simulation, AirSimulationStatus
  <2>2. sims' = sims \cup {t} /\ nextId' = nextId + 1
    BY <1>7 DEF ForeignImport
  <2>3. SimsInv' /\ SimsKeep
    <3> HIDE DEF t
    <3> QED BY <2>1, <2>2, SimAdded
  <2>4. foreign' \in 0..MaxForeign
    BY <1>7, BoundsAssumption DEF ForeignImport
  <2> QED BY <1>7, <2>2, <2>3, <2>4, SimsSide DEF ForeignImport
<1>8. ASSUME NEW u \in Users, ForeignBlank(u)
      PROVE  Remote
  <2> DEFINE n == [id |-> nextId, name |-> Blank, owner |-> u,
                   status |-> "COMPLETE", alike |-> FALSE]
  <2>1. n \in Image /\ n.id = nextId
    BY DEF Image, AirImageUploadStatus, Blank
  <2>2. images' = images \cup {n} /\ nextId' = nextId + 1
    BY <1>8 DEF ForeignBlank
  <2>3. ImagesInv' /\ ImagesKeep
    <3> HIDE DEF n
    <3> QED BY <2>1, <2>2, ImageAdded
  <2>4. foreign' \in 0..MaxForeign
    BY <1>8, BoundsAssumption DEF ForeignBlank
  <2> QED BY <1>8, <2>2, <2>3, <2>4, ImagesSide DEF ForeignBlank
<1> QED BY <1>1, <1>2, <1>3, <1>4, <1>6, <1>7, <1>8
         DEF AssistedNext, AirNext, ForeignNext
-----------------------------------------------------------------------------
(***************************************************************************)
(* What a process's step does to its locals: they become a record of which *)
(* Knows still holds.                                                      *)
(***************************************************************************)
Move(c) == \E r \in Process : Become(c, r) /\ Knows(c, r)'
LocalOK == iso' \in [Clients -> SUBSET Nat] /\ creds' \in [Clients -> Nat]
Good(c) == Remote /\ LocalOK /\ Move(c)

(* Knowledge about ids survives every step that keeps owners and metadata. *)
LEMMA StillKnows ==
  ASSUME RemoteInv, Remote, NEW c \in Clients, NEW r \in Process, Knows(c, r)
  PROVE  Knows(c, r)'
<1>1. nextId \in Nat /\ nextId' \in Nat /\ nextId' >= nextId /\ r.image \in Nat /\ r.sim \in Nat
  BY DEF RemoteInv, Remote, Keeps, ServicesTypeOK, Process
<1>2. images \subseteq Image /\ sims \subseteq Simulation
      /\ images' \subseteq Image /\ sims' \subseteq Simulation
  BY DEF RemoteInv, Remote, ImagesInv, SimsInv
<1>3. OwnsTarget(c, r)'
  BY <1>1, <1>2 DEF Knows, OwnsTarget, Remote, Keeps, ImagesKeep, Image
<1>4. StartsManaged(r)'
  BY <1>1, <1>2 DEF Knows, StartsManaged, Remote, Keeps, SimsKeep, Simulation
<1>5. ClaimsOwn(r)'
  BY <1>1, <1>2 DEF Knows, ClaimsOwn, Remote, Keeps, SimsKeep, Simulation
<1> QED BY <1>3, <1>4, <1>5 DEF Knows, Running

LEMMA Locals ==
  ASSUME LabInv, NEW c \in Clients
  PROVE  /\ RemoteInv /\ me[c] \in Process /\ Knows(c, me[c])
         /\ me \in [Clients -> Process] /\ nextId \in Nat \ {0}
BY DEF LabInv, RemoteInv, TypeOK, ServicesTypeOK

LEMMA MoveKnowing ==
  ASSUME LabInv, Remote, NEW c \in Clients, NEW r \in Process,
         Become(c, r), Knows(c, r)
  PROVE  Move(c)
BY Locals, StillKnows DEF Move

LEMMA FreshKnows ==
  ASSUME LabInv, NEW c \in Clients, NEW p \in Resting
  PROVE  Fresh(p) \in Process /\ Knows(c, Fresh(p))
<1>1. Fresh(p) \in Process /\ Fresh(p).pc = p
  BY DEF Fresh, Process, Places, NoSpec
<1>2. p \notin ImageAtHand /\ p # "startSim" /\ p # "awaitImport" /\ p # "claimSim"
  BY DEF ImageAtHand, DestroyPlaces, Resting
<1> QED BY <1>1, <1>2 DEF Knows, Running, OwnsTarget, StartsManaged, ClaimsOwn

LEMMA MoveEnd ==
  ASSUME LabInv, Remote, NEW c \in Clients, NEW p \in Resting, End(c, p)
  PROVE  Move(c)
BY FreshKnows, MoveKnowing DEF End, Become

LEMMA MoveGoto ==
  ASSUME LabInv, Remote, NEW c \in Clients, NEW p \in Places, Goto(c, p),
         me[c].pc \notin Resting, p \notin {"startSim", "awaitImport"},
         p \in ImageAtHand => me[c].pc \in ImageAtHand,
         p = "claimSim" => me[c].pc = "awaitImport"
  PROVE  Move(c)
<1> DEFINE r == [me[c] EXCEPT !.pc = p]
<1>1. me[c] \in Process /\ Knows(c, me[c])
  BY Locals
<1>2. /\ r \in Process /\ r.pc = p
      /\ r.spec = me[c].spec /\ r.image = me[c].image /\ r.sim = me[c].sim
  BY <1>1 DEF Process
<1>3. Become(c, r)
  BY DEF Goto, Become
<1> HIDE DEF r
<1>4. Knows(c, r)
  BY <1>1, <1>2 DEF Knows, Running, OwnsTarget, StartsManaged, ClaimsOwn
<1> QED BY <1>2, <1>3, <1>4, MoveKnowing

(* Most places need no knowledge but of the spec.                          *)
Careless == Places \ (Resting \cup ImageAtHand
                        \cup {"startSim", "awaitImport", "claimSim"})

LEMMA CarelessPlaces ==
  Careless = DeployPlaces \ {"uploadImage", "deleteImage", "startSim",
                             "awaitImport", "claimSim"}
BY DEF Careless, Places, DeployPlaces, DestroyPlaces, Resting, ImageAtHand

LEMMA MoveCareless ==
  ASSUME LabInv, Remote, NEW c \in Clients, NEW r \in Process, Become(c, r),
         me[c].pc \notin Resting, r.spec = me[c].spec, r.pc \in Careless
  PROVE  Move(c)
<1>1. me[c].spec \in Specs
  BY Locals DEF Knows, Running
<1>2. Knows(c, r)
  BY <1>1 DEF Knows, Running, OwnsTarget, StartsManaged, ClaimsOwn, Careless
<1> QED BY <1>2, MoveKnowing

(* While it destroys a process keeps its image at hand or has none.        *)
LEMMA MoveDestroying ==
  ASSUME LabInv, Remote, NEW c \in Clients, NEW r \in Process, Become(c, r),
         me[c].pc \in DestroyPlaces, r.spec = me[c].spec,
         r.pc \in DestroyPlaces, r.image \in {0, me[c].image}
  PROVE  Move(c)
<1>1. /\ me[c].spec \in Specs /\ OwnsTarget(c, me[c])
      /\ me[c].pc \in ImageAtHand /\ nextId \in Nat \ {0}
  BY Locals DEF Knows, Running, DestroyPlaces, Resting, ImageAtHand
<1>2. \A m \in images : 0 < m.id
  BY Locals DEF RemoteInv, ImagesInv, ImagesBelow
<1>3. OwnsTarget(c, r)
  BY <1>1, <1>2 DEF OwnsTarget
<1>4. r.pc \notin {"startSim", "awaitImport", "claimSim"}
  BY DEF DestroyPlaces
<1>5. Knows(c, r)
  BY <1>1, <1>3, <1>4 DEF Knows, Running, StartsManaged, ClaimsOwn
<1> QED BY <1>5, MoveKnowing

LEMMA Looks ==
  ASSUME LabInv, LooksOnly
  PROVE  Remote /\ LocalOK
<1>1. RemoteInv /\ UNCHANGED remote
  BY DEF LabInv, TypeOK, RemoteInv, LooksOnly
<1>2. Remote
  BY <1>1, Looking
<1>3. LocalOK
  BY DEF LabInv, TypeOK, LocalOK, LooksOnly
<1> QED BY <1>2, <1>3
-----------------------------------------------------------------------------
(***************************************************************************)
(* The steps that only look, one lemma per stage of deploy_lab.            *)
(***************************************************************************)
(* The preflight. *)
LEMMA PreflightGood ==
  ASSUME LabInv, NEW c \in Clients,
         PreflightSimulation(c) \/ PreflightInfraEnv(c) \/ PreflightImage(c)
  PROVE  Good(c)
<1>1. Remote /\ LocalOK
  BY Looks DEF PreflightSimulation, PreflightInfraEnv, PreflightImage
<1>2. me[c] \in Process /\ infraenvs \subseteq InfraEnv
  BY Locals DEF RemoteInv, ServicesTypeOK
<1>3. me[c].pc \notin Resting
  BY DEF PreflightSimulation, PreflightInfraEnv, PreflightImage, At, Resting
<1>4. CASE Refuse(c) \/ TimeOut(c)
  BY <1>1, <1>4, MoveEnd DEF Refuse, TimeOut, Good, Resting
<1>5. CASE Goto(c, "preflightInfraEnv") \/ Goto(c, "cluster")
  BY <1>1, <1>3, <1>5, MoveGoto
     DEF Good, Places, DeployPlaces, DestroyPlaces, ImageAtHand
<1>6. CASE \E i \in infraenvs : Become(c, [me[c] EXCEPT !.pc = "preflightImage", !.target = i.id])
  <2>1. PICK i \in infraenvs : Become(c, [me[c] EXCEPT !.pc = "preflightImage", !.target = i.id])
    BY <1>6
  <2> DEFINE r == [me[c] EXCEPT !.pc = "preflightImage", !.target = i.id]
  <2>2. r \in Process /\ r.spec = me[c].spec /\ r.pc \in Careless
    BY <1>2, CarelessPlaces DEF Process, InfraEnv, Places, DeployPlaces
  <2> QED BY <1>1, <1>3, <2>1, <2>2, MoveCareless DEF Good
<1>7. CASE Become(c, [me[c] EXCEPT !.pc = "cluster", !.target = 0])
  <2>1. Become(c, [me[c] EXCEPT !.pc = "cluster", !.target = 0])
    BY <1>7
  <2> DEFINE r == [me[c] EXCEPT !.pc = "cluster", !.target = 0]
  <2>2. r \in Process /\ r.spec = me[c].spec /\ r.pc \in Careless
    BY <1>2, CarelessPlaces DEF Process, Places, DeployPlaces
  <2> QED BY <1>1, <1>3, <2>1, <2>2, MoveCareless DEF Good
<1> QED BY <1>4, <1>5, <1>6, <1>7
        DEF PreflightSimulation, PreflightInfraEnv, PreflightImage

(* Reconciling the cluster and the InfraEnv. *)
LEMMA AssistedLooksGood ==
  ASSUME LabInv, NEW c \in Clients,
         ReconcileCluster(c) \/ ReconcileInfraEnv(c)
  PROVE  Good(c)
<1>1. Remote /\ LocalOK
  BY Looks DEF ReconcileCluster, ReconcileInfraEnv
<1>2. me[c] \in Process /\ infraenvs \subseteq InfraEnv /\ clusters \subseteq Cluster
  BY Locals DEF RemoteInv, ServicesTypeOK
<1>3. me[c].pc \notin Resting
  BY DEF ReconcileCluster, ReconcileInfraEnv, At, Resting
<1>4. CASE Refuse(c) \/ TimeOut(c)
  BY <1>1, <1>4, MoveEnd DEF Refuse, TimeOut, Good, Resting
<1>5. CASE Goto(c, "createCluster") \/ Goto(c, "createInfraEnv")
  BY <1>1, <1>3, <1>5, MoveGoto
     DEF Good, Places, DeployPlaces, DestroyPlaces, ImageAtHand
<1>6. CASE \E k \in clusters : Become(c, [me[c] EXCEPT !.pc = "infraenv", !.cluster = k.id,
                                !.started = k.started])
  <2>1. PICK k \in clusters : Become(c, [me[c] EXCEPT !.pc = "infraenv", !.cluster = k.id,
                                !.started = k.started])
    BY <1>6
  <2> DEFINE r == [me[c] EXCEPT !.pc = "infraenv", !.cluster = k.id,
                                !.started = k.started]
  <2>2. r \in Process /\ r.spec = me[c].spec /\ r.pc \in Careless
    BY <1>2, CarelessPlaces DEF Process, Cluster, Places, DeployPlaces
  <2> QED BY <1>1, <1>3, <2>1, <2>2, MoveCareless DEF Good
<1>7. CASE \E i \in infraenvs : Become(c, [me[c] EXCEPT !.pc = "downloadIso", !.infra = i.id])
  <2>1. PICK i \in infraenvs : Become(c, [me[c] EXCEPT !.pc = "downloadIso", !.infra = i.id])
    BY <1>7
  <2> DEFINE r == [me[c] EXCEPT !.pc = "downloadIso", !.infra = i.id]
  <2>2. r \in Process /\ r.spec = me[c].spec /\ r.pc \in Careless
    BY <1>2, CarelessPlaces DEF Process, InfraEnv, Places, DeployPlaces
  <2> QED BY <1>1, <1>3, <2>1, <2>2, MoveCareless DEF Good
<1>8. CASE \E i \in infraenvs : Become(c, [me[c] EXCEPT !.pc = "blankLook", !.infra = i.id])
  <2>1. PICK i \in infraenvs : Become(c, [me[c] EXCEPT !.pc = "blankLook", !.infra = i.id])
    BY <1>8
  <2> DEFINE r == [me[c] EXCEPT !.pc = "blankLook", !.infra = i.id]
  <2>2. r \in Process /\ r.spec = me[c].spec /\ r.pc \in Careless
    BY <1>2, CarelessPlaces DEF Process, InfraEnv, Places, DeployPlaces
  <2> QED BY <1>1, <1>3, <2>1, <2>2, MoveCareless DEF Good
<1>9. CASE ReconcileCluster(c)
  BY <1>4, <1>5, <1>6, <1>9 DEF ReconcileCluster
<1>10. CASE ReconcileInfraEnv(c)
  BY <1>4, <1>5, <1>7, <1>8, <1>10 DEF ReconcileInfraEnv
<1> QED BY <1>9, <1>10

(* The look at the blank-disk image. *)
LEMMA BlankLookGood ==
  ASSUME LabInv, NEW c \in Clients, BlankLook(c)
  PROVE  Good(c)
<1>1. Remote /\ LocalOK
  BY Looks DEF BlankLook
<1>2. me[c] \in Process
  BY Locals
<1>3. me[c].pc \notin Resting
  BY DEF BlankLook, At, Resting
<1>4. CASE Refuse(c) \/ TimeOut(c)
  BY <1>1, <1>4, MoveEnd DEF Refuse, TimeOut, Good, Resting
<1>5. CASE \E b \in BOOLEAN : Become(c, [me[c] EXCEPT !.pc = "image", !.target = Blank, !.swap = b])
  <2>1. PICK b \in BOOLEAN : Become(c, [me[c] EXCEPT !.pc = "image", !.target = Blank, !.swap = b])
    BY <1>5
  <2> DEFINE r == [me[c] EXCEPT !.pc = "image", !.target = Blank, !.swap = b]
  <2>2. r \in Process /\ r.spec = me[c].spec /\ r.pc \in Careless
    BY <1>2, CarelessPlaces DEF Process, Blank, Places, DeployPlaces
  <2> QED BY <1>1, <1>3, <2>1, <2>2, MoveCareless DEF Good
<1>6. Refuse(c) \/ \E b \in BOOLEAN : Become(c, [me[c] EXCEPT !.pc = "image", !.target = Blank, !.swap = b])
  BY DEF BlankLook
<1> QED BY <1>4, <1>5, <1>6

(* Reconciling an image: what is about to be uploaded to or deleted is the
   user's own. *)
LEMMA ReconcileImageGood ==
  ASSUME LabInv, NEW c \in Clients, ReconcileImage(c)
  PROVE  Good(c)
<1>1. Remote /\ LocalOK
  BY Looks DEF ReconcileImage
<1>2. me[c] \in Process /\ images \subseteq Image
  BY Locals DEF RemoteInv, ServicesTypeOK
<1>3. me[c].pc \notin Resting
  BY DEF ReconcileImage, At, Resting
<1>4. CASE Refuse(c) \/ TimeOut(c)
  BY <1>1, <1>4, MoveEnd DEF Refuse, TimeOut, Good, Resting
<1>5. CASE Goto(c, "createImage")
  BY <1>1, <1>3, <1>5, MoveGoto
     DEF Good, Places, DeployPlaces, DestroyPlaces, ImageAtHand
<1>6. CASE \E m \in images : Become(c, [me[c] EXCEPT !.target = me[c].infra, !.blank = m.id,
                                !.swap = FALSE])
  <2>1. PICK m \in images : Become(c, [me[c] EXCEPT !.target = me[c].infra, !.blank = m.id,
                                !.swap = FALSE])
    BY <1>6
  <2> DEFINE r == [me[c] EXCEPT !.target = me[c].infra, !.blank = m.id,
                                !.swap = FALSE]
  <2>2. r \in Process /\ r.spec = me[c].spec /\ r.pc \in Careless
    BY <1>2, CarelessPlaces DEF ReconcileImage, At, Process, Image, Places, DeployPlaces
  <2> QED BY <1>1, <1>3, <2>1, <2>2, MoveCareless DEF Good
<1>7. CASE \E m \in images : Become(c, [me[c] EXCEPT !.pc = "missingSim", !.target = 0,
                                !.image = m.id])
  <2>1. PICK m \in images : Become(c, [me[c] EXCEPT !.pc = "missingSim", !.target = 0,
                                !.image = m.id])
    BY <1>7
  <2> DEFINE r == [me[c] EXCEPT !.pc = "missingSim", !.target = 0,
                                !.image = m.id]
  <2>2. r \in Process /\ r.spec = me[c].spec /\ r.pc \in Careless
    BY <1>2, CarelessPlaces DEF Process, Image, Places, DeployPlaces
  <2> QED BY <1>1, <1>3, <2>1, <2>2, MoveCareless DEF Good
<1>8. ASSUME NEW m \in images, NEW p \in {"uploadImage", "deleteImage"},
             m.owner = User[c],
             Become(c, [me[c] EXCEPT !.pc = p, !.image = m.id])
      PROVE  Good(c)
  <2> DEFINE r == [me[c] EXCEPT !.pc = p, !.image = m.id]
  <2>1. r \in Process /\ r.spec = me[c].spec /\ r.pc = p /\ r.image = m.id
    BY <1>2 DEF Process, Image, Places, DeployPlaces
  <2>2. Become(c, r)
    BY <1>8
  <2> HIDE DEF r
  <2>3. m.id < nextId /\ \A n \in images : n.id = m.id => n.owner = User[c]
    BY <1>8, Locals DEF RemoteInv, ImagesInv, ImagesBelow
  <2>4. Knows(c, r)
    BY <1>3, <2>1, <2>3, Locals
       DEF Knows, Running, OwnsTarget, StartsManaged, ClaimsOwn
  <2> QED BY <1>1, <2>1, <2>2, <2>4, MoveKnowing DEF Good
<1>9. ASSUME NEW m \in images, ImageDecision(c, m) = "upload"
      PROVE  m.owner = User[c]
  BY <1>9 DEF ImageDecision, ImageAction, ImageDrift
<1>10. ASSUME NEW m \in images, ImageReady(c, m)
       PROVE  Good(c)
  <2>1. me[c].target = Blank => me[c].pc = "image"
    BY DEF ReconcileImage, At
  <2> QED BY <1>6, <1>7, <1>10, <2>1 DEF ImageReady
<1> QED BY <1>4, <1>5, <1>8, <1>9, <1>10
        DEF ReconcileImage, MayDeleteImage, ImagesNamed

(* The look for a missing simulation, and the second look at the capacity. *)
LEMMA SimulationLooksGood ==
  ASSUME LabInv, NEW c \in Clients, CheckMissingSimulation(c) \/ RecheckCapacity(c)
  PROVE  Good(c)
<1>1. Remote /\ LocalOK
  BY Looks DEF CheckMissingSimulation, RecheckCapacity
<1>2. me[c] \in Process
  BY Locals
<1>3. me[c].pc \notin Resting
  BY DEF CheckMissingSimulation, RecheckCapacity, At, Resting
<1>4. CASE Refuse(c) \/ TimeOut(c)
  BY <1>1, <1>4, MoveEnd DEF Refuse, TimeOut, Good, Resting
<1>5. CASE Become(c, [me[c] EXCEPT !.pc = "sim", !.started = FALSE])
  <2>1. Become(c, [me[c] EXCEPT !.pc = "sim", !.started = FALSE])
    BY <1>5
  <2> DEFINE r == [me[c] EXCEPT !.pc = "sim", !.started = FALSE]
  <2>2. r \in Process /\ r.spec = me[c].spec /\ r.pc \in Careless
    BY <1>2, CarelessPlaces DEF Process, Places, DeployPlaces
  <2> QED BY <1>1, <1>3, <2>1, <2>2, MoveCareless DEF Good
<1>6. CASE Become(c, [me[c] EXCEPT !.pc = "sim", !.sim = 0,
                                !.rechecked = TRUE])
  <2>1. Become(c, [me[c] EXCEPT !.pc = "sim", !.sim = 0,
                                !.rechecked = TRUE])
    BY <1>6
  <2> DEFINE r == [me[c] EXCEPT !.pc = "sim", !.sim = 0,
                                !.rechecked = TRUE]
  <2>2. r \in Process /\ r.spec = me[c].spec /\ r.pc \in Careless
    BY <1>2, CarelessPlaces DEF Process, Places, DeployPlaces
  <2> QED BY <1>1, <1>3, <2>1, <2>2, MoveCareless DEF Good
<1> QED BY <1>4, <1>5, <1>6 DEF CheckMissingSimulation, RecheckCapacity

(* Reconciling the simulation: what is about to be started is managed. *)
LEMMA ReconcileSimulationGood ==
  ASSUME LabInv, NEW c \in Clients, ReconcileSimulation(c)
  PROVE  Good(c)
<1>1. Remote /\ LocalOK
  BY Looks DEF ReconcileSimulation
<1>2. me[c] \in Process /\ sims \subseteq Simulation
  BY Locals DEF RemoteInv, ServicesTypeOK
<1>3. me[c].pc \notin Resting
  BY DEF ReconcileSimulation, At, Resting
<1>4. CASE Refuse(c) \/ TimeOut(c)
  BY <1>1, <1>4, MoveEnd DEF Refuse, TimeOut, Good, Resting
<1>5. CASE Goto(c, "importSim")
  BY <1>1, <1>3, <1>5, MoveGoto
     DEF Good, Places, DeployPlaces, DestroyPlaces, ImageAtHand
<1>6. CASE \E s \in sims : Become(c, [me[c] EXCEPT !.pc = "recheckCapacity", !.sim = s.id])
  <2>1. PICK s \in sims : Become(c, [me[c] EXCEPT !.pc = "recheckCapacity", !.sim = s.id])
    BY <1>6
  <2> DEFINE r == [me[c] EXCEPT !.pc = "recheckCapacity", !.sim = s.id]
  <2>2. r \in Process /\ r.spec = me[c].spec /\ r.pc \in Careless
    BY <1>2, CarelessPlaces DEF Process, Simulation, Places, DeployPlaces
  <2> QED BY <1>1, <1>3, <2>1, <2>2, MoveCareless DEF Good
<1>7. CASE \E s \in sims : Become(c, [me[c] EXCEPT !.pc = "hosts", !.sim = s.id,
                                !.infra = 0, !.blank = 0, !.image = 0,
                                !.asked = FALSE, !.rechecked = FALSE])
  <2>1. PICK s \in sims : Become(c, [me[c] EXCEPT !.pc = "hosts", !.sim = s.id,
                                !.infra = 0, !.blank = 0, !.image = 0,
                                !.asked = FALSE, !.rechecked = FALSE])
    BY <1>7
  <2> DEFINE r == [me[c] EXCEPT !.pc = "hosts", !.sim = s.id,
                                !.infra = 0, !.blank = 0, !.image = 0,
                                !.asked = FALSE, !.rechecked = FALSE]
  <2>2. r \in Process /\ r.spec = me[c].spec /\ r.pc \in Careless
    BY <1>2, CarelessPlaces DEF Process, Simulation, Places, DeployPlaces
  <2> QED BY <1>1, <1>3, <2>1, <2>2, MoveCareless DEF Good
<1>8. ASSUME NEW s \in sims, s.managed,
             Become(c, [me[c] EXCEPT !.pc = "startSim", !.sim = s.id])
      PROVE  Good(c)
  <2> DEFINE r == [me[c] EXCEPT !.pc = "startSim", !.sim = s.id]
  <2>1. r \in Process /\ r.spec = me[c].spec /\ r.pc = "startSim" /\ r.sim = s.id
    BY <1>2 DEF Process, Simulation, Places, DeployPlaces
  <2>2. Become(c, r)
    BY <1>8
  <2> HIDE DEF r
  <2>3. s.id < nextId /\ \A t \in sims : t.id = s.id => t.managed
    BY <1>8, Locals DEF RemoteInv, SimsInv, SimsBelow
  <2>4. Knows(c, r)
    BY <1>3, <2>1, <2>3, Locals DEF Knows, Running, OwnsTarget, StartsManaged,
         ClaimsOwn, ImageAtHand, DestroyPlaces
  <2> QED BY <1>1, <2>1, <2>2, <2>4, MoveKnowing DEF Good
<1>9. ASSUME NEW s \in sims, SimulationDecision(c, s) = "start"
      PROVE  s.managed
  BY <1>2, <1>9 DEF SimulationDecision, SimulationAction, SimulationDrift, Simulation
<1> QED BY <1>4, <1>5, <1>6, <1>7, <1>8, <1>9 DEF ReconcileSimulation

(* Waiting for the import: what is claimed next is still the own import. *)
LEMMA AwaitImportGood ==
  ASSUME LabInv, NEW c \in Clients, AwaitImport(c)
  PROVE  Good(c)
<1>1. Remote /\ LocalOK
  BY Looks DEF AwaitImport
<1>2. me[c] \in Process
  BY Locals
<1>3. me[c].pc \notin Resting
  BY DEF AwaitImport, At, Resting
<1>4. CASE Refuse(c) \/ TimeOut(c)
  BY <1>1, <1>4, MoveEnd DEF Refuse, TimeOut, Good, Resting
<1>5. CASE Goto(c, "claimSim")
  BY <1>1, <1>3, <1>5, MoveGoto
     DEF AwaitImport, At, Good, Places, DeployPlaces, DestroyPlaces, ImageAtHand
<1> QED BY <1>4, <1>5 DEF AwaitImport

(* Host discovery. *)
LEMMA HostsLookGood ==
  ASSUME LabInv, NEW c \in Clients, ReconcileHosts(c)
  PROVE  Good(c)
<1>1. Remote /\ LocalOK
  BY Looks DEF ReconcileHosts
<1>2. me[c] \in Process /\ infraenvs \subseteq InfraEnv
  BY Locals DEF RemoteInv, ServicesTypeOK
<1>3. me[c].pc \notin Resting
  BY DEF ReconcileHosts, At, Resting
<1>4. CASE Refuse(c) \/ TimeOut(c)
  BY <1>1, <1>4, MoveEnd DEF Refuse, TimeOut, Good, Resting
<1>5. CASE Goto(c, "jumpHost")
  BY <1>1, <1>3, <1>5, MoveGoto
     DEF Good, Places, DeployPlaces, DestroyPlaces, ImageAtHand
<1>6. CASE \E i \in infraenvs : Become(c, [me[c] EXCEPT !.pc = "assignRoles",
                                     !.target = i.id])
  <2>1. PICK i \in infraenvs : Become(c, [me[c] EXCEPT !.pc = "assignRoles",
                                     !.target = i.id])
    BY <1>6
  <2> DEFINE r == [me[c] EXCEPT !.pc = "assignRoles",
                                     !.target = i.id]
  <2>2. r \in Process /\ r.spec = me[c].spec /\ r.pc \in Careless
    BY <1>2, CarelessPlaces DEF Process, InfraEnv, Places, DeployPlaces
  <2> QED BY <1>1, <1>3, <2>1, <2>2, MoveCareless DEF Good
<1> QED BY <1>4, <1>5, <1>6 DEF ReconcileHosts, HostsOf, AfterHosts

(* The installation loop's looks. *)
LEMMA InstallationLooksGood ==
  ASSUME LabInv, NEW c \in Clients, ReconcileInstallation(c)
  PROVE  Good(c)
<1>1. Remote /\ LocalOK
  BY Looks DEF ReconcileInstallation
<1>2. me[c] \in Process /\ clusters \subseteq Cluster
  BY Locals DEF RemoteInv, ServicesTypeOK
<1>3. me[c].pc \notin Resting
  BY DEF ReconcileInstallation, At, Resting
<1>4. CASE Refuse(c) \/ TimeOut(c)
  BY <1>1, <1>4, MoveEnd DEF Refuse, TimeOut, Good, Resting
<1>5. CASE \E k \in clusters : Become(c, [me[c] EXCEPT !.pc = "startInstall",
                                !.cluster = k.id])
  <2>1. PICK k \in clusters : Become(c, [me[c] EXCEPT !.pc = "startInstall",
                                !.cluster = k.id])
    BY <1>5
  <2> DEFINE r == [me[c] EXCEPT !.pc = "startInstall",
                                !.cluster = k.id]
  <2>2. r \in Process /\ r.spec = me[c].spec /\ r.pc \in Careless
    BY <1>2, CarelessPlaces DEF Process, Cluster, Places, DeployPlaces
  <2> QED BY <1>1, <1>3, <2>1, <2>2, MoveCareless DEF Good
<1>6. CASE \E k \in clusters : Become(c, [me[c] EXCEPT !.pc = "download",
                                !.cluster = k.id])
  <2>1. PICK k \in clusters : Become(c, [me[c] EXCEPT !.pc = "download",
                                !.cluster = k.id])
    BY <1>6
  <2> DEFINE r == [me[c] EXCEPT !.pc = "download",
                                !.cluster = k.id]
  <2>2. r \in Process /\ r.spec = me[c].spec /\ r.pc \in Careless
    BY <1>2, CarelessPlaces DEF Process, Cluster, Places, DeployPlaces
  <2> QED BY <1>1, <1>3, <2>1, <2>2, MoveCareless DEF Good
<1> QED BY <1>4, <1>5, <1>6 DEF ReconcileInstallation
-----------------------------------------------------------------------------
(***************************************************************************)
(* The steps of deploy_lab that write.                                     *)
(***************************************************************************)
(* Making the cluster. *)
LEMMA CreateClusterGood ==
  ASSUME LabInv, NEW c \in Clients, CreateCluster(c)
  PROVE  Good(c)
<1>2. me[c] \in Process /\ RemoteInv
  BY Locals DEF RemoteInv, ServicesTypeOK, SimsInv, ImagesInv
<1>3. me[c].pc \notin Resting
  BY DEF CreateCluster, At, Resting
<1>4. me[c].spec \in Specs
  BY <1>3, Locals DEF Knows, Running
<1>1. Remote /\ LocalOK
  <2>1. [id |-> nextId, spec |-> me[c].spec, status |-> "pending-for-input",
         started |-> FALSE, requests |-> 0] \in Cluster
    BY <1>4, Locals DEF Cluster, ClusterStatus
  <2>2. clusters' \subseteq Cluster
    BY <1>2, <2>1 DEF CreateCluster, RemoteInv, ServicesTypeOK
  <2>3. Remote
    BY <1>2, <2>2, Locals, AssistedSide DEF CreateCluster, RemoteInv, ServicesTypeOK
  <2> QED BY <2>3 DEF LocalOK, CreateCluster, LabInv, TypeOK
<1>5. Goto(c, "cluster")
  BY DEF CreateCluster
<1> QED BY <1>1, <1>3, <1>5, MoveGoto
     DEF Good, Places, DeployPlaces, DestroyPlaces, ImageAtHand

(* Making the InfraEnv. *)
LEMMA CreateInfraEnvGood ==
  ASSUME LabInv, NEW c \in Clients, CreateInfraEnv(c)
  PROVE  Good(c)
<1>2. me[c] \in Process /\ RemoteInv
  BY Locals DEF RemoteInv, ServicesTypeOK, SimsInv, ImagesInv
<1>3. me[c].pc \notin Resting
  BY DEF CreateInfraEnv, At, Resting
<1>4. me[c].spec \in Specs
  BY <1>3, Locals DEF Knows, Running
<1>1. Remote /\ LocalOK
  <2>1. [id |-> nextId, spec |-> me[c].spec, cluster |-> me[c].cluster,
         iso |-> FALSE, hosts |-> "none"] \in InfraEnv
    BY <1>2, <1>4, Locals DEF InfraEnv, Process
  <2>2. infraenvs' \subseteq InfraEnv
    BY <1>2, <2>1 DEF CreateInfraEnv, RemoteInv, ServicesTypeOK
  <2>3. /\ UNCHANGED <<clusters, images, sims, foreign, iso, creds>>
        /\ nextId' \in {nextId, nextId + 1}
    BY DEF CreateInfraEnv
  <2>4. Remote
    BY <1>2, <2>2, <2>3, Locals, AssistedSide DEF RemoteInv, ServicesTypeOK
  <2> QED BY <2>3, <2>4 DEF LocalOK, LabInv, TypeOK
<1>5. CASE Goto(c, "infraenv")
  BY <1>1, <1>3, <1>5, MoveGoto
     DEF Good, Places, DeployPlaces, DestroyPlaces, ImageAtHand
<1>6. CASE Refuse(c)
  BY <1>1, <1>6, MoveEnd DEF Refuse, Good, Resting
<1> QED BY <1>5, <1>6 DEF CreateInfraEnv

(* Downloading the discovery ISO. *)
LEMMA DownloadIsoGood ==
  ASSUME LabInv, NEW c \in Clients, DownloadIso(c)
  PROVE  Good(c)
<1>2. me[c] \in Process /\ RemoteInv
  BY Locals DEF RemoteInv, ServicesTypeOK, SimsInv, ImagesInv
<1>3. me[c].pc \notin Resting
  BY DEF DownloadIso, At, Resting
<1>1. Remote /\ LocalOK
  <2>1. Remote
    BY <1>2, Looking DEF DownloadIso
  <2>2. me[c].infra \in Nat
    BY <1>2 DEF Process
  <2>3. iso' \in [Clients -> SUBSET Nat]
    BY <2>2 DEF DownloadIso, LabInv, TypeOK
  <2> QED BY <2>1, <2>3 DEF LocalOK, DownloadIso, LabInv, TypeOK
<1>4. CASE Refuse(c)
  BY <1>1, <1>4, MoveEnd DEF Refuse, Good, Resting
<1>5. CASE Become(c, [me[c] EXCEPT !.pc = "infraenv", !.infra = 0])
  <2>1. Become(c, [me[c] EXCEPT !.pc = "infraenv", !.infra = 0])
    BY <1>5
  <2> DEFINE r == [me[c] EXCEPT !.pc = "infraenv", !.infra = 0]
  <2>2. r \in Process /\ r.spec = me[c].spec /\ r.pc \in Careless
    BY <1>2, CarelessPlaces DEF Process, Places, DeployPlaces
  <2> QED BY <1>1, <1>3, <2>1, <2>2, MoveCareless DEF Good
<1> QED BY <1>4, <1>5 DEF DownloadIso

(* Making an image. *)
LEMMA CreateImageGood ==
  ASSUME LabInv, NEW c \in Clients, CreateImage(c)
  PROVE  Good(c)
<1>2. me[c] \in Process /\ RemoteInv
  BY Locals DEF RemoteInv, ServicesTypeOK, SimsInv, ImagesInv
<1>3. me[c].pc \notin Resting
  BY DEF CreateImage, At, Resting
<1>1. Remote /\ LocalOK
  <2> DEFINE n == [id |-> nextId, name |-> me[c].target, owner |-> User[c],
                   status |-> "READY", alike |-> TRUE]
  <2>1. n \in Image /\ n.id = nextId
    BY <1>2, UserAssumption, Locals DEF Image, Process, AirImageUploadStatus
  <2>2. images' = images \cup {n} /\ nextId' = nextId + 1
    BY DEF CreateImage
  <2> HIDE DEF n
  <2>3. ImagesInv' /\ ImagesKeep
    BY <1>2, <2>1, <2>2, ImageAdded DEF RemoteInv
  <2>4. Remote
    BY <1>2, <2>2, <2>3, Locals, ImagesSide DEF CreateImage, RemoteInv, ServicesTypeOK
  <2> QED BY <2>4 DEF LocalOK, CreateImage, LabInv, TypeOK
<1>4. Goto(c, "image")
  BY DEF CreateImage
<1> QED BY <1>1, <1>3, <1>4, MoveGoto
     DEF Good, Places, DeployPlaces, DestroyPlaces, ImageAtHand

(* Uploading an image. *)
LEMMA UploadImageGood ==
  ASSUME LabInv, NEW c \in Clients, UploadImage(c)
  PROVE  Good(c)
<1>2. me[c] \in Process /\ RemoteInv
  BY Locals DEF RemoteInv, ServicesTypeOK, SimsInv, ImagesInv
<1>3. me[c].pc \notin Resting
  BY DEF UploadImage, At, Resting
<1>1. Remote /\ LocalOK
  <2>1. CASE UNCHANGED images
    <3>1. UNCHANGED remote
      BY <2>1 DEF UploadImage, remote
    <3> QED BY <1>2, <3>1, Looking DEF UploadImage, LocalOK, LabInv, TypeOK
  <2>2. CASE \E m \in images :
               images' = Updated(images, m, [m EXCEPT !.status = "VALIDATING"])
    <3>1. PICK m \in images :
               images' = Updated(images, m, [m EXCEPT !.status = "VALIDATING"])
      BY <2>2
    <3> DEFINE n == [m EXCEPT !.status = "VALIDATING"]
    <3>2. n \in Image /\ n.id = m.id /\ n.owner = m.owner
      BY <1>2 DEF RemoteInv, ServicesTypeOK, Image, AirImageUploadStatus
    <3> HIDE DEF n
    <3>3. images' = Updated(images, m, n)
      BY <3>1 DEF n
    <3>4. ImagesInv' /\ ImagesKeep
      BY <1>2, <3>2, <3>3, ImageUpdated DEF UploadImage, RemoteInv
    <3>5. Remote
      BY <1>2, <3>4, Locals, ImagesSide DEF UploadImage, RemoteInv, ServicesTypeOK
    <3> QED BY <3>5 DEF UploadImage, LocalOK, LabInv, TypeOK
  <2> QED BY <2>1, <2>2 DEF UploadImage
<1>4. CASE Refuse(c)
  BY <1>1, <1>4, MoveEnd DEF Refuse, Good, Resting
<1>5. CASE Become(c, [me[c] EXCEPT !.pc = "image", !.image = 0])
  <2>1. Become(c, [me[c] EXCEPT !.pc = "image", !.image = 0])
    BY <1>5
  <2> DEFINE r == [me[c] EXCEPT !.pc = "image", !.image = 0]
  <2>2. r \in Process /\ r.spec = me[c].spec /\ r.pc \in Careless
    BY <1>2, CarelessPlaces DEF Process, Places, DeployPlaces
  <2> QED BY <1>1, <1>3, <2>1, <2>2, MoveCareless DEF Good
<1> QED BY <1>4, <1>5 DEF UploadImage

(* Deleting the blank-disk image that is replaced. *)
LEMMA DeleteImageGood ==
  ASSUME LabInv, NEW c \in Clients, DeleteBlankImage(c)
  PROVE  Good(c)
<1>2. me[c] \in Process /\ RemoteInv
  BY Locals DEF RemoteInv, ServicesTypeOK, SimsInv, ImagesInv
<1>3. me[c].pc \notin Resting
  BY DEF DeleteBlankImage, At, Resting
<1>1. Remote /\ LocalOK
  <2>1. images' \subseteq images
    BY DEF DeleteBlankImage
  <2>2. ImagesInv' /\ ImagesKeep
    BY <1>2, <2>1, Locals, ImagesFewer DEF DeleteBlankImage, RemoteInv
  <2>3. Remote
    BY <1>2, <2>2, Locals, ImagesSide DEF DeleteBlankImage, RemoteInv, ServicesTypeOK
  <2> QED BY <2>3 DEF DeleteBlankImage, LocalOK, LabInv, TypeOK
<1>4. CASE Refuse(c)
  BY <1>1, <1>4, MoveEnd DEF Refuse, Good, Resting
<1>5. CASE Become(c, [me[c] EXCEPT !.pc = "image", !.image = 0,
                            !.swap = FALSE])
  <2>1. Become(c, [me[c] EXCEPT !.pc = "image", !.image = 0,
                            !.swap = FALSE])
    BY <1>5
  <2> DEFINE r == [me[c] EXCEPT !.pc = "image", !.image = 0,
                            !.swap = FALSE]
  <2>2. r \in Process /\ r.spec = me[c].spec /\ r.pc \in Careless
    BY <1>2, CarelessPlaces DEF Process, Places, DeployPlaces
  <2> QED BY <1>1, <1>3, <2>1, <2>2, MoveCareless DEF Good
<1> QED BY <1>4, <1>5 DEF DeleteBlankImage

(* Importing the simulation: its id is new, and its spec the process's own. *)
LEMMA ImportGood ==
  ASSUME LabInv, NEW c \in Clients, ImportSimulation(c)
  PROVE  Good(c)
<1>2. me[c] \in Process /\ RemoteInv
  BY Locals DEF RemoteInv, ServicesTypeOK, SimsInv, ImagesInv
<1>3. me[c].pc \notin Resting
  BY DEF ImportSimulation, At, Resting
<1>4. me[c].spec \in Specs /\ me[c].spec # NoSpec
  BY <1>3, Locals, SpecsAssumption DEF Knows, Running, NoSpec
<1> DEFINE t == [id |-> nextId, spec |-> me[c].spec, managed |-> FALSE,
                 status |-> "IMPORTING", req |-> "none", image |-> me[c].image,
                 infra |-> me[c].infra, blank |-> me[c].blank,
                 bastion |-> FALSE]
<1>5. /\ t \in Simulation
      /\ t.id = nextId /\ t.req = "none" /\ ~t.managed /\ t.spec = me[c].spec
  BY <1>2, <1>4, Locals DEF Simulation, Process, AirSimulationStatus
<1>6. sims' = sims \cup {t} /\ nextId' = nextId + 1
  BY DEF ImportSimulation
<1> HIDE DEF t
<1>1. Remote /\ LocalOK
  <2>1. SimsInv' /\ SimsKeep
    BY <1>2, <1>5, <1>6, SimAdded DEF RemoteInv
  <2>2. Remote
    BY <1>2, <1>6, <2>1, Locals, SimsSide DEF ImportSimulation, RemoteInv, ServicesTypeOK
  <2> QED BY <2>2 DEF ImportSimulation, LocalOK, LabInv, TypeOK
<1>7. PICK r \in Process :
        /\ r.spec = me[c].spec /\ r.pc = "awaitImport" /\ r.sim = nextId
        /\ Become(c, r)
  <2> DEFINE q == [me[c] EXCEPT !.pc = "awaitImport", !.sim = nextId]
  <2>1. q \in Process /\ q.spec = me[c].spec /\ q.pc = "awaitImport" /\ q.sim = nextId
    BY <1>2, Locals DEF Process, Places, DeployPlaces
  <2>2. Become(c, q)
    BY DEF ImportSimulation
  <2> HIDE DEF q
  <2> QED BY <2>1, <2>2
<1>8. nextId < nextId'
  BY <1>6, Locals
<1>9. \A s \in sims' : s.id = nextId => s.spec # NoSpec
  BY <1>2, <1>4, <1>5, <1>6 DEF RemoteInv, SimsInv, SimsBelow, ServicesTypeOK, Simulation
<1>10. Knows(c, r)'
  BY <1>4, <1>7, <1>8, <1>9 DEF Knows, Running, OwnsTarget, StartsManaged,
       ClaimsOwn, ImageAtHand, DestroyPlaces
<1> QED BY <1>1, <1>7, <1>10 DEF Good, Move

(* Claiming the import. *)
LEMMA ClaimGood ==
  ASSUME LabInv, NEW c \in Clients, ClaimSimulation(c)
  PROVE  Good(c)
<1>2. me[c] \in Process /\ RemoteInv
  BY Locals DEF RemoteInv, ServicesTypeOK, SimsInv, ImagesInv
<1>3. me[c].pc \notin Resting
  BY DEF ClaimSimulation, At, Resting
<1>4. \A s \in Imported(c) : s \in sims /\ s.spec # NoSpec
  BY Locals DEF ClaimSimulation, At, Imported, Knows, ClaimsOwn
<1>1. Remote /\ LocalOK
  <2>1. CASE UNCHANGED sims
    <3>1. UNCHANGED remote
      BY <2>1 DEF ClaimSimulation, remote
    <3> QED BY <1>2, <3>1, Looking DEF ClaimSimulation, LocalOK, LabInv, TypeOK
  <2>2. ASSUME NEW s \in sims, s.spec # NoSpec,
               sims' = Updated(sims, s, [s EXCEPT !.managed = TRUE])
        PROVE  Remote /\ LocalOK
    <3> DEFINE t == [s EXCEPT !.managed = TRUE]
    <3>1. /\ t \in Simulation /\ t.id = s.id /\ t.spec = s.spec
          /\ t.req = s.req /\ t.managed
      BY <1>2 DEF RemoteInv, ServicesTypeOK, Simulation
    <3> HIDE DEF t
    <3>2. sims' = Updated(sims, s, t)
      BY <2>2 DEF t
    <3>3. (s.req = "start" => s.managed) /\ (s.managed => s.spec # NoSpec)
      BY <1>2 DEF RemoteInv, SimsInv, StartsOnlyClaimed, ClaimsOnlyOwnImports
    <3>4. SimsInv' /\ SimsKeep
      BY <1>2, <2>2, <3>1, <3>2, <3>3, SimUpdated DEF ClaimSimulation, RemoteInv
    <3>5. Remote
      BY <1>2, <3>4, Locals, SimsSide DEF ClaimSimulation, RemoteInv, ServicesTypeOK
    <3> QED BY <3>5 DEF ClaimSimulation, LocalOK, LabInv, TypeOK
  <2> QED BY <2>1, <2>2, <1>4 DEF ClaimSimulation
<1>5. CASE Refuse(c) \/ TimeOut(c)
  BY <1>1, <1>5, MoveEnd DEF Refuse, TimeOut, Good, Resting
<1>6. CASE Become(c, [me[c] EXCEPT !.pc = "sim", !.sim = 0])
  <2>1. Become(c, [me[c] EXCEPT !.pc = "sim", !.sim = 0])
    BY <1>6
  <2> DEFINE r == [me[c] EXCEPT !.pc = "sim", !.sim = 0]
  <2>2. r \in Process /\ r.spec = me[c].spec /\ r.pc \in Careless
    BY <1>2, CarelessPlaces DEF Process, Places, DeployPlaces
  <2> QED BY <1>1, <1>3, <2>1, <2>2, MoveCareless DEF Good
<1> QED BY <1>5, <1>6 DEF ClaimSimulation

(* Requesting the start. *)
LEMMA StartGood ==
  ASSUME LabInv, NEW c \in Clients, StartSimulation(c)
  PROVE  Good(c)
<1>2. me[c] \in Process /\ RemoteInv
  BY Locals DEF RemoteInv, ServicesTypeOK, SimsInv, ImagesInv
<1>3. me[c].pc \notin Resting
  BY DEF StartSimulation, At, Resting
<1>4. \A s \in sims : s.id = me[c].sim => s.managed
  BY Locals DEF StartSimulation, At, Knows, StartsManaged
<1>1. Remote /\ LocalOK
  <2>1. CASE UNCHANGED sims
    <3>1. UNCHANGED remote
      BY <2>1 DEF StartSimulation, remote
    <3> QED BY <1>2, <3>1, Looking DEF StartSimulation, LocalOK, LabInv, TypeOK
  <2>2. ASSUME NEW s \in sims, s.managed,
               sims' = Updated(sims, s, [s EXCEPT !.req = "start"])
        PROVE  Remote /\ LocalOK
    <3> DEFINE t == [s EXCEPT !.req = "start"]
    <3>1. /\ t \in Simulation /\ t.id = s.id /\ t.spec = s.spec
          /\ t.managed /\ t.req = "start"
      BY <1>2, <2>2 DEF RemoteInv, ServicesTypeOK, Simulation
    <3> HIDE DEF t
    <3>2. sims' = Updated(sims, s, t)
      BY <2>2 DEF t
    <3>3. (s.req = "start" => s.managed) /\ (s.managed => s.spec # NoSpec)
      BY <1>2 DEF RemoteInv, SimsInv, StartsOnlyClaimed, ClaimsOnlyOwnImports
    <3>4. SimsInv' /\ SimsKeep
      BY <1>2, <2>2, <3>1, <3>2, <3>3, SimUpdated DEF StartSimulation, RemoteInv
    <3>5. Remote
      BY <1>2, <3>4, Locals, SimsSide DEF StartSimulation, RemoteInv, ServicesTypeOK
    <3> QED BY <3>5 DEF StartSimulation, LocalOK, LabInv, TypeOK
  <2> QED BY <2>1, <2>2, <1>4 DEF StartSimulation
<1>5. CASE Refuse(c) \/ TimeOut(c)
  BY <1>1, <1>5, MoveEnd DEF Refuse, TimeOut, Good, Resting
<1>6. CASE Become(c, [me[c] EXCEPT !.pc = "sim", !.sim = 0, !.asked = TRUE])
  <2>1. Become(c, [me[c] EXCEPT !.pc = "sim", !.sim = 0, !.asked = TRUE])
    BY <1>6
  <2> DEFINE r == [me[c] EXCEPT !.pc = "sim", !.sim = 0, !.asked = TRUE]
  <2>2. r \in Process /\ r.spec = me[c].spec /\ r.pc \in Careless
    BY <1>2, CarelessPlaces DEF Process, Places, DeployPlaces
  <2> QED BY <1>1, <1>3, <2>1, <2>2, MoveCareless DEF Good
<1> QED BY <1>5, <1>6 DEF StartSimulation

(* Making the jump host ready. *)
LEMMA JumpHostGood ==
  ASSUME LabInv, NEW c \in Clients, EnsureJumpHost(c)
  PROVE  Good(c)
<1>2. me[c] \in Process /\ RemoteInv
  BY Locals DEF RemoteInv, ServicesTypeOK, SimsInv, ImagesInv
<1>3. me[c].pc \notin Resting
  BY DEF EnsureJumpHost, At, Resting
<1>1. Remote /\ LocalOK
  <2>1. CASE UNCHANGED sims
    <3>1. UNCHANGED remote
      BY <2>1 DEF EnsureJumpHost, remote
    <3> QED BY <1>2, <3>1, Looking DEF EnsureJumpHost, LocalOK, LabInv, TypeOK
  <2>2. ASSUME NEW s \in sims, TRUE,
               sims' = Updated(sims, s, [s EXCEPT !.bastion = TRUE])
        PROVE  Remote /\ LocalOK
    <3> DEFINE t == [s EXCEPT !.bastion = TRUE]
    <3>1. /\ t \in Simulation /\ t.id = s.id /\ t.spec = s.spec
          /\ t.req = s.req /\ t.managed = s.managed
      BY <1>2 DEF RemoteInv, ServicesTypeOK, Simulation
    <3> HIDE DEF t
    <3>2. sims' = Updated(sims, s, t)
      BY <2>2 DEF t
    <3>3. (s.req = "start" => s.managed) /\ (s.managed => s.spec # NoSpec)
      BY <1>2 DEF RemoteInv, SimsInv, StartsOnlyClaimed, ClaimsOnlyOwnImports
    <3>4. SimsInv' /\ SimsKeep
      BY <1>2, <2>2, <3>1, <3>2, <3>3, SimUpdated DEF EnsureJumpHost, RemoteInv
    <3>5. Remote
      BY <1>2, <3>4, Locals, SimsSide DEF EnsureJumpHost, RemoteInv, ServicesTypeOK
    <3> QED BY <3>5 DEF EnsureJumpHost, LocalOK, LabInv, TypeOK
  <2> QED BY <2>1, <2>2 DEF EnsureJumpHost
<1>5. CASE Refuse(c) \/ TimeOut(c)
  BY <1>1, <1>5, MoveEnd DEF Refuse, TimeOut, Good, Resting
<1>6. CASE Become(c, [me[c] EXCEPT !.pc = "install", !.sim = 0])
  <2>1. Become(c, [me[c] EXCEPT !.pc = "install", !.sim = 0])
    BY <1>6
  <2> DEFINE r == [me[c] EXCEPT !.pc = "install", !.sim = 0]
  <2>2. r \in Process /\ r.spec = me[c].spec /\ r.pc \in Careless
    BY <1>2, CarelessPlaces DEF Process, Places, DeployPlaces
  <2> QED BY <1>1, <1>3, <2>1, <2>2, MoveCareless DEF Good
<1> QED BY <1>5, <1>6 DEF EnsureJumpHost

(* Assigning the roles. *)
LEMMA RolesGood ==
  ASSUME LabInv, NEW c \in Clients, AssignRoles(c)
  PROVE  Good(c)
<1>2. me[c] \in Process /\ RemoteInv
  BY Locals DEF RemoteInv, ServicesTypeOK, SimsInv, ImagesInv
<1>3. me[c].pc \notin Resting
  BY DEF AssignRoles, At, Resting
<1>1. Remote /\ LocalOK
  <2>1. \A i \in infraenvs : [i EXCEPT !.hosts = "assigned"] \in InfraEnv
    BY <1>2 DEF RemoteInv, ServicesTypeOK, InfraEnv
  <2>2. infraenvs' \subseteq InfraEnv
    BY <1>2, <2>1 DEF AssignRoles, Updated, RemoteInv, ServicesTypeOK
  <2>3. Remote
    BY <1>2, <2>2, Locals, AssistedSide DEF AssignRoles, RemoteInv, ServicesTypeOK
  <2> QED BY <2>3 DEF AssignRoles, LocalOK, LabInv, TypeOK
<1>4. CASE Refuse(c) \/ TimeOut(c)
  BY <1>1, <1>4, MoveEnd DEF Refuse, TimeOut, Good, Resting
<1>5. CASE Become(c, [me[c] EXCEPT !.pc = "hosts", !.target = 0])
  <2>1. Become(c, [me[c] EXCEPT !.pc = "hosts", !.target = 0])
    BY <1>5
  <2> DEFINE r == [me[c] EXCEPT !.pc = "hosts", !.target = 0]
  <2>2. r \in Process /\ r.spec = me[c].spec /\ r.pc \in Careless
    BY <1>2, CarelessPlaces DEF Process, Places, DeployPlaces
  <2> QED BY <1>1, <1>3, <2>1, <2>2, MoveCareless DEF Good
<1> QED BY <1>4, <1>5 DEF AssignRoles

(* Requesting the installation. *)
LEMMA StartInstallationGood ==
  ASSUME LabInv, NEW c \in Clients, StartInstallation(c)
  PROVE  Good(c)
<1>2. me[c] \in Process /\ RemoteInv
  BY Locals DEF RemoteInv, ServicesTypeOK, SimsInv, ImagesInv
<1>3. me[c].pc \notin Resting
  BY DEF StartInstallation, At, Resting
<1>1. Remote /\ LocalOK
  <2>1. ASSUME UNCHANGED clusters
        PROVE  clusters' \subseteq Cluster
    BY <1>2, <2>1 DEF RemoteInv, ServicesTypeOK
  <2>2. ASSUME NEW k \in clusters,
               clusters' = Updated(clusters, k,
                 [k EXCEPT !.started = TRUE,
                           !.requests = IF @ = 2 THEN 2 ELSE @ + 1])
        PROVE  clusters' \subseteq Cluster
    <3> DEFINE n == IF k.requests = 2 THEN 2 ELSE k.requests + 1
               l == [k EXCEPT !.started = TRUE, !.requests = n]
    <3>1. k \in Cluster
      BY <1>2 DEF RemoteInv, ServicesTypeOK
    <3>2. k.requests \in 0..2
      BY <3>1 DEF Cluster
    <3>3. n \in 0..2
      BY <3>2
    <3>4. clusters' = Updated(clusters, k, l)
      BY <2>2, <3>1 DEF Cluster
    <3> HIDE DEF n
    <3>5. l \in Cluster
      BY <3>1, <3>3 DEF Cluster
    <3> HIDE DEF l
    <3> QED BY <1>2, <3>4, <3>5 DEF Updated, RemoteInv, ServicesTypeOK
  <2>3. clusters' \subseteq Cluster
    BY <2>1, <2>2 DEF StartInstallation
  <2>4. UNCHANGED <<infraenvs, images, sims, nextId, foreign, iso, creds>>
    BY DEF StartInstallation
  <2>5. Remote
    BY <1>2, <2>3, <2>4, AssistedSide DEF RemoteInv, ServicesTypeOK
  <2> QED BY <2>4, <2>5 DEF LocalOK, LabInv, TypeOK
<1>4. CASE Refuse(c) \/ TimeOut(c)
  BY <1>1, <1>4, MoveEnd DEF Refuse, TimeOut, Good, Resting
<1>5. CASE Goto(c, "install")
  BY <1>1, <1>3, <1>5, MoveGoto
     DEF Good, Places, DeployPlaces, DestroyPlaces, ImageAtHand
<1> QED BY <1>4, <1>5 DEF StartInstallation

(* Downloading the credentials. *)
LEMMA DownloadGood ==
  ASSUME LabInv, NEW c \in Clients, DownloadCredentials(c)
  PROVE  Good(c)
<1>2. me[c] \in Process /\ RemoteInv
  BY Locals DEF RemoteInv, ServicesTypeOK, SimsInv, ImagesInv
<1>3. me[c].pc \notin Resting
  BY DEF DownloadCredentials, At, Resting
<1>1. Remote /\ LocalOK
  <2>1. Remote
    BY <1>2, Looking DEF DownloadCredentials
  <2>2. me[c].cluster \in Nat
    BY <1>2 DEF Process
  <2>3. creds' \in [Clients -> Nat]
    BY <2>2 DEF DownloadCredentials, LabInv, TypeOK
  <2> QED BY <2>1, <2>3 DEF LocalOK, DownloadCredentials, LabInv, TypeOK
<1>4. CASE Refuse(c) \/ End(c, "deployed")
  BY <1>1, <1>4, MoveEnd DEF Refuse, Good, Resting
<1> QED BY <1>4 DEF DownloadCredentials

-----------------------------------------------------------------------------
(***************************************************************************)
(* The steps of destroy_lab.                                               *)
(***************************************************************************)
(* Done: the end of `destroy', or the deployment that `replace' goes on to. *)
LEMMA MoveDestroyed ==
  ASSUME LabInv, Remote, NEW c \in Clients, NEW r \in Process,
         Become(c, Destroyed(r)), me[c].pc \in DestroyPlaces,
         r.spec = me[c].spec
  PROVE  Move(c)
<1>1. CASE r.cmd = "replace"
  <2> DEFINE q == [Fresh("cluster") EXCEPT !.cmd = r.cmd, !.spec = r.spec]
  <2>1. Become(c, q)
    BY <1>1 DEF Destroyed
  <2>2. q \in Process /\ q.spec = me[c].spec /\ q.pc = "cluster"
    BY DEF Fresh, Process, Places, DeployPlaces, NoSpec
  <2>3. "cluster" \in Careless /\ me[c].pc \notin Resting
    BY CarelessPlaces DEF DeployPlaces, DestroyPlaces, Resting
  <2> QED BY <2>1, <2>2, <2>3, MoveCareless
<1>2. CASE r.cmd # "replace"
  BY <1>2, MoveEnd DEF Destroyed, End, Become, Resting
<1> QED BY <1>1, <1>2

(* From one phase to the next that has something to do.                    *)
LEMMA MoveOn ==
  ASSUME LabInv, Remote, NEW c \in Clients, NEW r \in Process,
         \/ Become(c, AfterSimulation(r)) \/ Become(c, AfterImage(r))
         \/ Become(c, AfterInfraEnv(r)) \/ Become(c, Destroyed(r)),
         me[c].pc \in DestroyPlaces,
         r.spec = me[c].spec, r.image \in {0, me[c].image}
  PROVE  Move(c)
<1> DEFINE Onward == {"dropImage", "dropHosts", "dropInfraEnv", "dropCluster"}
<1>1. \/ Become(c, Destroyed(r))
      \/ \E p \in Onward : Become(c, [r EXCEPT !.pc = p])
  BY DEF AfterSimulation, AfterImage, AfterInfraEnv
<1>2. ASSUME NEW p \in Onward, Become(c, [r EXCEPT !.pc = p])
      PROVE  Move(c)
  <2> DEFINE q == [r EXCEPT !.pc = p]
  <2>1. /\ q \in Process /\ q.spec = me[c].spec
        /\ q.pc \in DestroyPlaces /\ q.image \in {0, me[c].image}
    BY DEF Process, Places, DestroyPlaces
  <2>2. Become(c, q)
    BY <1>2
  <2> HIDE DEF q
  <2> QED BY <2>1, <2>2, MoveDestroying
<1> QED BY <1>1, <1>2, MoveDestroyed

(* A step within the destruction that touches neither spec nor image.      *)
LEMMA MoveWithin ==
  ASSUME LabInv, Remote, NEW c \in Clients, NEW p \in DestroyPlaces,
         Goto(c, p), me[c].pc \in DestroyPlaces
  PROVE  Move(c)
BY MoveGoto DEF DestroyPlaces, Places, Resting, ImageAtHand

(* Looking up the cluster, the InfraEnv and the hosts.                     *)
LEMMA AssistedSeekGood ==
  ASSUME LabInv, NEW c \in Clients,
         SeekCluster(c) \/ SeekInfraEnv(c) \/ ListHosts(c)
  PROVE  Good(c)
<1>1. Remote /\ LocalOK
  BY Looks DEF SeekCluster, SeekInfraEnv, ListHosts
<1>2. me[c] \in Process /\ infraenvs \subseteq InfraEnv /\ clusters \subseteq Cluster
  BY Locals DEF RemoteInv, ServicesTypeOK
<1>3. me[c].pc \in DestroyPlaces
  BY DEF SeekCluster, SeekInfraEnv, ListHosts, At, DestroyPlaces
<1>4. CASE Refuse(c)
  BY <1>1, <1>4, MoveEnd DEF Refuse, Good, Resting
<1>5. CASE \/ Goto(c, "seekInfraEnv") \/ Goto(c, "seekSim")
           \/ Goto(c, "listHosts")
  BY <1>1, <1>3, <1>5, MoveWithin DEF Good, DestroyPlaces
<1>6. CASE \E k \in clusters :
             Become(c, [me[c] EXCEPT !.pc = "seekInfraEnv", !.cluster = k.id])
  <2>1. PICK k \in clusters :
             Become(c, [me[c] EXCEPT !.pc = "seekInfraEnv", !.cluster = k.id])
    BY <1>6
  <2> DEFINE r == [me[c] EXCEPT !.pc = "seekInfraEnv", !.cluster = k.id]
  <2>2. /\ r \in Process /\ r.spec = me[c].spec
        /\ r.pc \in DestroyPlaces /\ r.image = me[c].image
    BY <1>2 DEF Process, Cluster, Places, DestroyPlaces
  <2> QED BY <1>1, <1>3, <2>1, <2>2, MoveDestroying DEF Good
<1>7. CASE \E i \in infraenvs, p \in {"seekSim", "listHosts"} :
             Become(c, [me[c] EXCEPT !.pc = p, !.infra = i.id, !.target = i.id])
  <2>1. PICK i \in infraenvs, p \in {"seekSim", "listHosts"} :
             Become(c, [me[c] EXCEPT !.pc = p, !.infra = i.id, !.target = i.id])
    BY <1>7
  <2> DEFINE r == [me[c] EXCEPT !.pc = p, !.infra = i.id, !.target = i.id]
  <2>2. /\ r \in Process /\ r.spec = me[c].spec
        /\ r.pc \in DestroyPlaces /\ r.image = me[c].image
    BY <1>2 DEF Process, InfraEnv, Places, DestroyPlaces
  <2> QED BY <1>1, <1>3, <2>1, <2>2, MoveDestroying DEF Good
<1>8. CASE \E h \in BOOLEAN : Become(c, [me[c] EXCEPT !.pc = "seekSim", !.hosts = h])
  <2>1. PICK h \in BOOLEAN : Become(c, [me[c] EXCEPT !.pc = "seekSim", !.hosts = h])
    BY <1>8
  <2> DEFINE r == [me[c] EXCEPT !.pc = "seekSim", !.hosts = h]
  <2>2. /\ r \in Process /\ r.spec = me[c].spec
        /\ r.pc \in DestroyPlaces /\ r.image = me[c].image
    BY <1>2 DEF Process, Places, DestroyPlaces
  <2> QED BY <1>1, <1>3, <2>1, <2>2, MoveDestroying DEF Good
<1>9. CASE SeekCluster(c)
  BY <1>4, <1>5, <1>6, <1>9 DEF SeekCluster
<1>10. CASE SeekInfraEnv(c)
  BY <1>4, <1>5, <1>7, <1>10 DEF SeekInfraEnv
<1>11. CASE ListHosts(c)
  BY <1>4, <1>8, <1>11 DEF ListHosts
<1> QED BY <1>9, <1>10, <1>11

(* Looking up the simulation.                                              *)
LEMMA SeekSimulationGood ==
  ASSUME LabInv, NEW c \in Clients, SeekSimulation(c)
  PROVE  Good(c)
<1>1. Remote /\ LocalOK
  BY Looks DEF SeekSimulation
<1>2. me[c] \in Process /\ sims \subseteq Simulation
  BY Locals DEF RemoteInv, ServicesTypeOK
<1>3. me[c].pc \in DestroyPlaces
  BY DEF SeekSimulation, At, DestroyPlaces
<1>4. CASE Refuse(c)
  BY <1>1, <1>4, MoveEnd DEF Refuse, Good, Resting
<1>5. CASE Goto(c, "actSim") \/ Goto(c, "seekImage")
  BY <1>1, <1>3, <1>5, MoveWithin DEF Good, DestroyPlaces
<1>6. ASSUME NEW s \in sims, NEW p \in {"actSim", "seekImage"},
             NEW n \in {me[c].target, s.infra},
             Become(c, [me[c] EXCEPT !.sim = s.id, !.seen = s.status,
                          !.target = n, !.pc = p])
      PROVE  Good(c)
  <2> DEFINE r == [me[c] EXCEPT !.sim = s.id, !.seen = s.status,
                     !.target = n, !.pc = p]
  <2>1. n \in Nat
    BY <1>2 DEF Process, Simulation
  <2>2. /\ r \in Process /\ r.spec = me[c].spec
        /\ r.pc \in DestroyPlaces /\ r.image = me[c].image
    BY <1>2, <2>1 DEF Process, Simulation, Places, DestroyPlaces
  <2> QED BY <1>1, <1>3, <1>6, <2>2, MoveDestroying DEF Good
<1>7. ASSUME NEW s \in sims,
             LET r == [me[c] EXCEPT !.sim = s.id, !.seen = s.status,
                         !.target = IF @ # 0 THEN @ ELSE s.infra]
                 q == IF r.target = 0 THEN "actSim" ELSE "seekImage"
             IN  Become(c, [r EXCEPT !.pc = q])
      PROVE  Good(c)
  <2> DEFINE n == IF me[c].target # 0 THEN me[c].target ELSE s.infra
             p == IF n = 0 THEN "actSim" ELSE "seekImage"
  <2>1. Become(c, [me[c] EXCEPT !.sim = s.id, !.seen = s.status,
                     !.target = n, !.pc = p])
    BY <1>2, <1>7 DEF Process
  <2>2. n \in {me[c].target, s.infra} /\ p \in {"actSim", "seekImage"}
    OBVIOUS
  <2> HIDE DEF n, p
  <2> QED BY <1>6, <2>1, <2>2
<1> QED BY <1>4, <1>5, <1>7 DEF SeekSimulation

(* Looking up the discovery image: it is taken at hand only if the user    *)
(* owns it.                                                                *)
LEMMA SeekDiscoveryImageGood ==
  ASSUME LabInv, NEW c \in Clients, SeekDiscoveryImage(c)
  PROVE  Good(c)
<1>1. Remote /\ LocalOK
  BY Looks DEF SeekDiscoveryImage
<1>2. me[c] \in Process /\ images \subseteq Image /\ ImagesBelow
  BY Locals DEF RemoteInv, ServicesTypeOK, ImagesInv
<1>3. me[c].pc \in DestroyPlaces /\ me[c].spec \in Specs
  BY Locals DEF SeekDiscoveryImage, At, DestroyPlaces, Knows, Running, Resting
<1>4. CASE Refuse(c)
  BY <1>1, <1>4, MoveEnd DEF Refuse, Good, Resting
<1>5. CASE Goto(c, "actSim")
  BY <1>1, <1>3, <1>5, MoveWithin DEF Good, DestroyPlaces
<1>6. ASSUME NEW m \in images, MayDeleteImage(c, m),
             Become(c, [me[c] EXCEPT !.pc = "actSim", !.image = m.id])
      PROVE  Good(c)
  <2> DEFINE r == [me[c] EXCEPT !.pc = "actSim", !.image = m.id]
  <2>1. /\ r \in Process /\ r.spec = me[c].spec
        /\ r.pc = "actSim" /\ r.image = m.id
    BY <1>2 DEF Process, Image, Places, DestroyPlaces
  <2>2. Become(c, r)
    BY <1>6
  <2> HIDE DEF r
  <2>3. OwnsTarget(c, r)
    BY <1>2, <1>6, <2>1 DEF OwnsTarget, MayDeleteImage, ImagesBelow
  <2>4. Knows(c, r)
    BY <1>3, <2>1, <2>3 DEF Knows, Running, StartsManaged, ClaimsOwn
  <2> QED BY <1>1, <2>1, <2>2, <2>4, MoveKnowing DEF Good
<1> QED BY <1>4, <1>5, <1>6 DEF SeekDiscoveryImage, ImagesNamed

(* The looks after a deletion was requested.                               *)
LEMMA GoneGood ==
  ASSUME LabInv, NEW c \in Clients,
         RefindSimulation(c) \/ ImageGone(c) \/ InfraEnvGone(c) \/ ClusterGone(c)
  PROVE  Good(c)
<1>1. Remote /\ LocalOK
  BY Looks DEF RefindSimulation, ImageGone, InfraEnvGone, ClusterGone
<1>2. me[c] \in Process /\ sims \subseteq Simulation
  BY Locals DEF RemoteInv, ServicesTypeOK
<1>3. me[c].pc \in DestroyPlaces
  BY DEF RefindSimulation, ImageGone, InfraEnvGone, ClusterGone, At,
         DestroyPlaces
<1>4. CASE Refuse(c) \/ TimeOut(c)
  BY <1>1, <1>4, MoveEnd DEF Refuse, TimeOut, Good, Resting
<1>5. CASE \/ Become(c, AfterSimulation(me[c])) \/ Become(c, AfterImage(me[c]))
           \/ Become(c, AfterInfraEnv(me[c])) \/ Become(c, Destroyed(me[c]))
  BY <1>1, <1>2, <1>3, <1>5, MoveOn DEF Good
<1>6. ASSUME NEW s \in sims,
             Become(c, [me[c] EXCEPT !.pc = "actSim", !.sim = s.id,
                          !.seen = s.status])
      PROVE  Good(c)
  <2> DEFINE r == [me[c] EXCEPT !.pc = "actSim", !.sim = s.id,
                     !.seen = s.status]
  <2>1. /\ r \in Process /\ r.spec = me[c].spec
        /\ r.pc \in DestroyPlaces /\ r.image = me[c].image
    BY <1>2 DEF Process, Simulation, Places, DestroyPlaces
  <2> QED BY <1>1, <1>3, <1>6, <2>1, MoveDestroying DEF Good
<1> QED BY <1>4, <1>5, <1>6
        DEF RefindSimulation, ImageGone, InfraEnvGone, ClusterGone

(* Stopping or deleting the simulation.                                    *)
LEMMA ActOnSimulationGood ==
  ASSUME LabInv, NEW c \in Clients, ActOnSimulation(c)
  PROVE  Good(c)
<1>2. me[c] \in Process /\ RemoteInv
  BY Locals
<1>3. me[c].pc \in DestroyPlaces
  BY DEF ActOnSimulation, At, DestroyPlaces
<1>4. /\ UNCHANGED <<clusters, infraenvs, images, nextId, foreign, iso, creds>>
      /\ \/ UNCHANGED sims
         \/ \E s \in sims, rq \in {"stop", "delete"} :
              sims' = Updated(sims, s, [s EXCEPT !.req = rq])
  BY DEF ActOnSimulation, RequestFor
<1>1. Remote /\ LocalOK
  <2>1. CASE UNCHANGED sims
    <3>1. UNCHANGED remote
      BY <1>4, <2>1 DEF remote
    <3> QED BY <1>2, <1>4, <3>1, Looking DEF LocalOK, LabInv, TypeOK
  <2>2. ASSUME NEW s \in sims, NEW rq \in {"stop", "delete"},
               sims' = Updated(sims, s, [s EXCEPT !.req = rq])
        PROVE  Remote /\ LocalOK
    <3> DEFINE t == [s EXCEPT !.req = rq]
    <3>1. /\ t \in Simulation /\ t.id = s.id /\ t.spec = s.spec
          /\ t.managed = s.managed /\ t.req # "start"
      BY <1>2 DEF RemoteInv, ServicesTypeOK, Simulation
    <3>2. sims' = Updated(sims, s, t)
      BY <2>2
    <3> HIDE DEF t
    <3>3. s.managed => s.spec # NoSpec
      BY <1>2 DEF RemoteInv, SimsInv, ClaimsOnlyOwnImports
    <3>4. SimsInv' /\ SimsKeep
      BY <1>2, <1>4, <3>1, <3>2, <3>3, SimUpdated DEF RemoteInv
    <3>5. Remote
      BY <1>2, <1>4, <3>4, SimsSide DEF RemoteInv, ServicesTypeOK
    <3> QED BY <1>4, <3>5 DEF LocalOK, LabInv, TypeOK
  <2> QED BY <1>4, <2>1, <2>2
<1>5. CASE Refuse(c)
  BY <1>1, <1>5, MoveEnd DEF Refuse, Good, Resting
<1>6. CASE Become(c, AfterSimulation([me[c] EXCEPT !.sim = 0]))
  <2> DEFINE r == [me[c] EXCEPT !.sim = 0]
  <2>1. r \in Process /\ r.spec = me[c].spec /\ r.image = me[c].image
    BY <1>2 DEF Process
  <2>2. Become(c, AfterSimulation(r))
    BY <1>6
  <2> HIDE DEF r
  <2> QED BY <1>1, <1>3, <2>1, <2>2, MoveOn DEF Good
<1>7. CASE Become(c, [me[c] EXCEPT !.pc = "refindSim", !.sim = 0, !.seen = "none"])
  <2> DEFINE r == [me[c] EXCEPT !.pc = "refindSim", !.sim = 0, !.seen = "none"]
  <2>1. /\ r \in Process /\ r.spec = me[c].spec
        /\ r.pc \in DestroyPlaces /\ r.image = me[c].image
    BY <1>2 DEF Process, Places, DestroyPlaces
  <2> QED BY <1>1, <1>3, <1>7, <2>1, MoveDestroying DEF Good
<1> QED BY <1>5, <1>6, <1>7 DEF ActOnSimulation

(* Deleting the discovery image.                                           *)
LEMMA DropImageGood ==
  ASSUME LabInv, NEW c \in Clients, DropImage(c)
  PROVE  Good(c)
<1>2. me[c] \in Process /\ RemoteInv
  BY Locals
<1>3. me[c].pc \in DestroyPlaces
  BY DEF DropImage, At, DestroyPlaces
<1>1. Remote /\ LocalOK
  <2>1. images' \subseteq images
    BY DEF DropImage
  <2>2. ImagesInv' /\ ImagesKeep
    BY <1>2, <2>1, Locals, ImagesFewer DEF DropImage, RemoteInv
  <2>3. Remote
    BY <1>2, <2>2, Locals, ImagesSide DEF DropImage, RemoteInv, ServicesTypeOK
  <2> QED BY <2>3 DEF DropImage, LocalOK, LabInv, TypeOK
<1>4. CASE Refuse(c)
  BY <1>1, <1>4, MoveEnd DEF Refuse, Good, Resting
<1>5. CASE Become(c, [me[c] EXCEPT !.pc = "imageGone", !.image = 0])
  <2> DEFINE r == [me[c] EXCEPT !.pc = "imageGone", !.image = 0]
  <2>1. /\ r \in Process /\ r.spec = me[c].spec
        /\ r.pc \in DestroyPlaces /\ r.image = 0
    BY <1>2 DEF Process, Places, DestroyPlaces
  <2> QED BY <1>1, <1>3, <1>5, <2>1, MoveDestroying DEF Good
<1> QED BY <1>4, <1>5 DEF DropImage

(* Deregistering the hosts, deleting the InfraEnv and the cluster.         *)
LEMMA AssistedDropGood ==
  ASSUME LabInv, NEW c \in Clients,
         DropHosts(c) \/ DropInfraEnv(c) \/ DropCluster(c)
  PROVE  Good(c)
<1>2. me[c] \in Process /\ RemoteInv
  BY Locals
<1>3. me[c].pc \in DestroyPlaces
  BY DEF DropHosts, DropInfraEnv, DropCluster, At, DestroyPlaces
<1>1. Remote /\ LocalOK
  <2>1. \A i \in infraenvs : [i EXCEPT !.hosts = "none"] \in InfraEnv
    BY <1>2 DEF RemoteInv, ServicesTypeOK, InfraEnv
  <2>2. clusters' \subseteq Cluster /\ infraenvs' \subseteq InfraEnv
    BY <1>2, <2>1 DEF DropHosts, DropInfraEnv, DropCluster, Updated, RemoteInv, ServicesTypeOK
  <2>3. UNCHANGED <<images, sims, nextId, foreign, iso, creds>>
    BY DEF DropHosts, DropInfraEnv, DropCluster
  <2>4. Remote
    BY <1>2, <2>2, <2>3, AssistedSide DEF RemoteInv, ServicesTypeOK
  <2> QED BY <2>3, <2>4 DEF LocalOK, LabInv, TypeOK
<1>4. CASE Refuse(c)
  BY <1>1, <1>4, MoveEnd DEF Refuse, Good, Resting
<1>5. CASE \/ Goto(c, "dropInfraEnv") \/ Goto(c, "infraEnvGone")
           \/ Goto(c, "clusterGone")
  BY <1>1, <1>3, <1>5, MoveWithin DEF Good, DestroyPlaces
<1> QED BY <1>4, <1>5 DEF DropHosts, DropInfraEnv, DropCluster

(* Commands given and given up.                                            *)
LEMMA LaunchGood ==
  ASSUME LabInv, NEW c \in Clients, Launch(c)
  PROVE  Good(c)
<1>1. Remote /\ LocalOK
  BY Looks DEF Launch
<1>2. PICK cmd \in Commands[c], spec \in Specs :
        Become(c, [Fresh(FirstPlace(cmd)) EXCEPT !.cmd = cmd, !.spec = spec])
  BY DEF Launch
<1> DEFINE p == FirstPlace(cmd)
           r == [Fresh(p) EXCEPT !.cmd = cmd, !.spec = spec]
<1>3. cmd \in {"deploy", "replace", "destroy"} /\ p \in {"preflightSim", "seekCluster"}
  BY CommandsAssumption DEF FirstPlace
<1> HIDE DEF p
<1>4. /\ r \in Process /\ r.spec = spec /\ r.pc = p /\ r.image = 0
  BY <1>3 DEF Fresh, Process, Places, DeployPlaces, DestroyPlaces, NoSpec
<1>5. Become(c, r)
  BY <1>2 DEF p
<1> HIDE DEF r
<1>6. \A m \in images : 0 < m.id
  BY Locals DEF RemoteInv, ImagesInv, ImagesBelow
<1>7. Knows(c, r)
  BY <1>3, <1>4, <1>6, Locals
     DEF Knows, Running, OwnsTarget, StartsManaged, ClaimsOwn
<1> QED BY <1>1, <1>4, <1>5, <1>7, MoveKnowing DEF Good

LEMMA GiveUpGood ==
  ASSUME LabInv, NEW c \in Clients, GiveUp(c)
  PROVE  Good(c)
BY Looks, MoveEnd DEF GiveUp, Good, Resting

(* Every step of a process.                                                *)
LEMMA ClientStepGood ==
  ASSUME LabInv, NEW c \in Clients, ClientStep(c)
  PROVE  Good(c)
<1>1. CASE DeployStep(c)
  BY <1>1, PreflightGood, AssistedLooksGood, BlankLookGood, ReconcileImageGood,
     SimulationLooksGood, ReconcileSimulationGood, AwaitImportGood,
     HostsLookGood, InstallationLooksGood, CreateClusterGood,
     CreateInfraEnvGood, DownloadIsoGood, CreateImageGood, UploadImageGood,
     DeleteImageGood, ImportGood, ClaimGood, StartGood, RolesGood, JumpHostGood,
     StartInstallationGood, DownloadGood DEF DeployStep
<1>2. CASE DestroyStep(c)
  BY <1>2, AssistedSeekGood, SeekSimulationGood, SeekDiscoveryImageGood,
     GoneGood, ActOnSimulationGood, DropImageGood, AssistedDropGood
     DEF DestroyStep
<1> QED BY <1>1, <1>2 DEF ClientStep
-----------------------------------------------------------------------------
(***************************************************************************)
(* The invariant, and what follows from it.                                *)
(***************************************************************************)
LEMMA Initially == Init => LabInv
<1> SUFFICES ASSUME Init PROVE LabInv
  OBVIOUS
<1> USE DEF Init, ServicesInit
<1>1. \A c \in Clients : Fresh("idle") \in Process /\ Fresh("idle").pc = "idle"
  BY DEF Fresh, Process, Places, Resting, NoSpec
<1>2. TypeOK
  BY <1>1, BoundsAssumption DEF TypeOK, ServicesTypeOK
<1>3. SimsInv /\ ImagesInv
  BY DEF SimsInv, SimsBelow, StartsOnlyClaimed, ClaimsOnlyOwnImports,
         ImagesInv, ImagesBelow
<1>4. \A c \in Clients : Knows(c, me[c])
  BY <1>1 DEF Knows, Running, OwnsTarget, StartsManaged, ClaimsOwn, Resting,
              ImageAtHand, DestroyPlaces
<1> QED BY <1>2, <1>3, <1>4 DEF LabInv

LEMMA Inductive == LabInv /\ [Next]_vars => LabInv' /\ Keeps
<1> SUFFICES ASSUME LabInv, [Next]_vars PROVE LabInv' /\ Keeps
  OBVIOUS
<1>1. /\ RemoteInv /\ me \in [Clients -> Process]
      /\ \A c \in Clients : Knows(c, me[c])
  BY DEF LabInv, RemoteInv, TypeOK
<1>2. ASSUME Remote, LocalOK, UNCHANGED me
      PROVE  LabInv' /\ Keeps
  <2>1. \A c \in Clients : me[c] \in Process
    BY <1>1
  <2>2. \A c \in Clients : Knows(c, me[c])'
    BY <1>1, <1>2, <2>1, StillKnows
  <2> QED BY <1>1, <1>2, <2>2 DEF LabInv, TypeOK, Remote, RemoteInv, LocalOK
<1>3. ASSUME NEW c \in Clients, Good(c)
      PROVE  LabInv' /\ Keeps
  <2>1. PICK r \in Process : Become(c, r) /\ Knows(c, r)'
    BY <1>3 DEF Good, Move
  <2>2. me' \in [Clients -> Process] /\ me'[c] = r
    BY <1>1, <2>1 DEF Become
  <2>3. \A d \in Clients : Knows(d, me[d])'
    <3> SUFFICES ASSUME NEW d \in Clients PROVE Knows(d, me[d])'
      OBVIOUS
    <3>1. PICK q \in Process : q = me[d]
      BY <1>1
    <3>2. CASE d = c
      BY <2>1, <2>2, <3>2
    <3>3. CASE d # c
      <4>1. Knows(d, q)'
        BY <1>1, <1>3, <3>1, StillKnows DEF Good
      <4>2. me'[d] = q
        BY <1>1, <2>1, <3>1, <3>3 DEF Become
      <4> QED BY <4>1, <4>2
    <3> QED BY <3>2, <3>3
  <2> QED BY <1>3, <2>2, <2>3 DEF LabInv, TypeOK, Remote, RemoteInv, LocalOK, Good
<1>4. CASE \E c \in Clients : Launch(c) \/ ClientStep(c) \/ GiveUp(c)
  BY <1>3, <1>4, LaunchGood, ClientStepGood, GiveUpGood
<1>5. CASE ServiceStep
  <2>1. Remote /\ UNCHANGED <<me, iso, creds>>
    BY <1>1, <1>5, ServicesRemote DEF ServiceStep
  <2> QED BY <1>2, <2>1 DEF LocalOK, LabInv, TypeOK
<1>6. CASE UNCHANGED vars
  <2>1. UNCHANGED remote /\ UNCHANGED <<me, iso, creds>>
    BY <1>6 DEF vars, remote
  <2>2. Remote
    BY <1>1, <2>1, Looking
  <2> QED BY <1>2, <2>1, <2>2 DEF LocalOK, LabInv, TypeOK
<1> QED BY <1>4, <1>5, <1>6 DEF Next

LEMMA Invariantly == Spec => []LabInv
BY Initially, Inductive, PTL DEF Spec

(***************************************************************************)
(* Every variable keeps its type.                                          *)
(***************************************************************************)
THEOREM TypeCorrect == Spec => []TypeOK
<1>1. LabInv => TypeOK
  BY DEF LabInv
<1> QED BY <1>1, Invariantly, PTL

(***************************************************************************)
(* deploy_lab never requests the start of a simulation it has not claimed, *)
(* whoever else imports or deletes simulations with the lab's name between *)
(* its looks and its calls.                                                *)
(***************************************************************************)
THEOREM StartsAreClaimed == Spec => []StartsOnlyClaimed
<1>1. LabInv => StartsOnlyClaimed
  BY DEF LabInv, SimsInv
<1> QED BY <1>1, Invariantly, PTL

(***************************************************************************)
(* import_simulation never gives the project's metadata to a simulation    *)
(* somebody else imported.                                                 *)
(***************************************************************************)
THEOREM ClaimsAreOwn == Spec => []ClaimsOnlyOwnImports
<1>1. LabInv => ClaimsOnlyOwnImports
  BY DEF LabInv, SimsInv
<1> QED BY <1>1, Invariantly, PTL

(* Only three steps of a process change the clusters that are there.       *)
LEMMA ClusterSteps ==
  ASSUME NEW c \in Clients, ClientStep(c)
  PROVE  \/ UNCHANGED clusters
         \/ CreateCluster(c) \/ StartInstallation(c) \/ DropCluster(c)
<1> USE DEF LooksOnly, remote
<1>1. CASE \/ PreflightSimulation(c) \/ PreflightInfraEnv(c)
           \/ PreflightImage(c) \/ ReconcileCluster(c) \/ ReconcileInfraEnv(c)
           \/ DownloadIso(c) \/ BlankLook(c) \/ ReconcileImage(c)
  BY <1>1 DEF PreflightSimulation, PreflightInfraEnv, PreflightImage,
       ReconcileCluster, ReconcileInfraEnv, DownloadIso, BlankLook,
       ReconcileImage
<1>2. CASE \/ CheckMissingSimulation(c) \/ ReconcileSimulation(c)
           \/ AwaitImport(c) \/ RecheckCapacity(c) \/ ReconcileHosts(c)
           \/ ReconcileInstallation(c) \/ DownloadCredentials(c)
  BY <1>2 DEF CheckMissingSimulation, ReconcileSimulation, AwaitImport,
       RecheckCapacity, ReconcileHosts, ReconcileInstallation,
       DownloadCredentials
<1>3. CASE \/ CreateInfraEnv(c) \/ CreateImage(c) \/ UploadImage(c)
           \/ DeleteBlankImage(c) \/ ImportSimulation(c)
           \/ ClaimSimulation(c) \/ StartSimulation(c) \/ AssignRoles(c)
           \/ EnsureJumpHost(c)
  BY <1>3 DEF CreateInfraEnv, CreateImage, UploadImage, DeleteBlankImage,
       ImportSimulation, ClaimSimulation, StartSimulation, AssignRoles,
       EnsureJumpHost
<1>4. CASE \/ SeekCluster(c) \/ SeekInfraEnv(c) \/ ListHosts(c)
           \/ SeekSimulation(c) \/ SeekDiscoveryImage(c) \/ RefindSimulation(c)
           \/ ImageGone(c) \/ InfraEnvGone(c) \/ ClusterGone(c)
  BY <1>4 DEF SeekCluster, SeekInfraEnv, ListHosts, SeekSimulation,
       SeekDiscoveryImage, RefindSimulation, ImageGone, InfraEnvGone,
       ClusterGone
<1>5. CASE ActOnSimulation(c) \/ DropImage(c) \/ DropHosts(c) \/ DropInfraEnv(c)
  BY <1>5 DEF ActOnSimulation, DropImage, DropHosts, DropInfraEnv
<1> QED BY <1>1, <1>2, <1>3, <1>4, <1>5 DEF ClientStep, DeployStep, DestroyStep

(* Only four steps change the images that are there.                       *)
LEMMA ImageSteps ==
  ASSUME NEW c \in Clients, ClientStep(c)
  PROVE  \/ UNCHANGED images
         \/ CreateImage(c) \/ UploadImage(c) \/ DeleteBlankImage(c)
         \/ DropImage(c)
<1> USE DEF LooksOnly, remote
<1>1. CASE \/ PreflightSimulation(c) \/ PreflightInfraEnv(c)
           \/ PreflightImage(c) \/ ReconcileCluster(c) \/ ReconcileInfraEnv(c)
           \/ DownloadIso(c) \/ BlankLook(c) \/ ReconcileImage(c)
  BY <1>1 DEF PreflightSimulation, PreflightInfraEnv, PreflightImage,
       ReconcileCluster, ReconcileInfraEnv, DownloadIso, BlankLook,
       ReconcileImage
<1>2. CASE \/ CheckMissingSimulation(c) \/ ReconcileSimulation(c)
           \/ AwaitImport(c) \/ RecheckCapacity(c) \/ ReconcileHosts(c)
           \/ ReconcileInstallation(c) \/ DownloadCredentials(c)
  BY <1>2 DEF CheckMissingSimulation, ReconcileSimulation, AwaitImport,
       RecheckCapacity, ReconcileHosts, ReconcileInstallation,
       DownloadCredentials
<1>3. CASE \/ CreateCluster(c) \/ CreateInfraEnv(c) \/ ImportSimulation(c)
           \/ ClaimSimulation(c) \/ StartSimulation(c) \/ AssignRoles(c)
           \/ EnsureJumpHost(c) \/ StartInstallation(c)
  BY <1>3 DEF CreateCluster, CreateInfraEnv, ImportSimulation,
       ClaimSimulation, StartSimulation, AssignRoles, EnsureJumpHost,
       StartInstallation
<1>4. CASE \/ SeekCluster(c) \/ SeekInfraEnv(c) \/ ListHosts(c)
           \/ SeekSimulation(c) \/ SeekDiscoveryImage(c) \/ RefindSimulation(c)
           \/ ImageGone(c) \/ InfraEnvGone(c) \/ ClusterGone(c)
  BY <1>4 DEF SeekCluster, SeekInfraEnv, ListHosts, SeekSimulation,
       SeekDiscoveryImage, RefindSimulation, ImageGone, InfraEnvGone,
       ClusterGone
<1>5. CASE \/ ActOnSimulation(c) \/ DropHosts(c) \/ DropInfraEnv(c)
           \/ DropCluster(c)
  BY <1>5 DEF ActOnSimulation, DropHosts, DropInfraEnv, DropCluster
<1> QED BY <1>1, <1>2, <1>3, <1>4, <1>5 DEF ClientStep, DeployStep, DestroyStep

(* A process acts on an image only while it has its user's image at hand.  *)
LEMMA ImageOwned ==
  ASSUME LabInv, NEW c \in Clients, NEW m \in images, m \notin images',
         UploadImage(c) \/ DeleteBlankImage(c) \/ DropImage(c)
  PROVE  Moves(c) /\ User[c] = m.owner
<1>1. /\ me \in [Clients -> Process] /\ me[c] \in Process
      /\ OwnsTarget(c, me[c])
  BY Locals DEF Knows
<1>2. me[c].pc \in {"uploadImage", "deleteImage", "dropImage"}
  BY DEF UploadImage, DeleteBlankImage, DropImage, At
<1>3. m.id = me[c].image
  BY DEF UploadImage, DeleteBlankImage, DropImage, Updated
<1>4. me'[c].pc \in {"image", "imageGone"}
  <2>1. \/ Become(c, [me[c] EXCEPT !.pc = "image", !.image = 0])
        \/ Become(c, [me[c] EXCEPT !.pc = "image", !.image = 0, !.swap = FALSE])
        \/ Become(c, [me[c] EXCEPT !.pc = "imageGone", !.image = 0])
    BY DEF UploadImage, DeleteBlankImage, DropImage
  <2> QED BY <1>1, <2>1 DEF Become, Process
<1>5. Moves(c)
  BY <1>2, <1>4 DEF Moves
<1>6. me[c].pc \in ImageAtHand
  BY <1>2 DEF ImageAtHand, DestroyPlaces
<1> QED BY <1>1, <1>3, <1>5, <1>6 DEF OwnsTarget

(***************************************************************************)
(* Whatever processes of other users do between the look that finds an     *)
(* image and the call that acts on its id, a process deletes and uploads   *)
(* to its own user's images only (_reconcile_air_image, destroy_lab).      *)
(***************************************************************************)
THEOREM OwnershipKept == Spec => OnlyOwnImagesTouched
<1> DEFINE Touch(m) == \/ \E c \in Clients : Moves(c) /\ User[c] = m.owner
                       \/ m.status = "VALIDATING"
<1>1. ASSUME LabInv, [Next]_vars, NEW m \in images, m \notin images'
      PROVE  Touch(m)
  <2>1. ASSUME NEW c \in Clients, ClientStep(c)
        PROVE  Touch(m)
    <3>1. CASE CreateImage(c)
      BY <1>1, <3>1 DEF CreateImage
    <3>2. CASE UploadImage(c) \/ DeleteBlankImage(c) \/ DropImage(c)
      BY <1>1, <3>2, ImageOwned
    <3> QED BY <1>1, <2>1, <3>1, <3>2, ImageSteps
  <2>2. ASSUME NEW c \in Clients, Launch(c) \/ GiveUp(c)
        PROVE  Touch(m)
    BY <1>1, <2>2 DEF Launch, GiveUp, LooksOnly, remote
  <2>3. CASE ServiceStep
    <3>1. CASE \E n \in images : CompleteUpload(n)
      BY <1>1, <3>1 DEF CompleteUpload, Updated
    <3>2. CASE ~ \E n \in images : CompleteUpload(n)
      <4>1. AssistedNext => UNCHANGED images
        BY DEF AssistedNext, BuildIso, RegisterHosts, BecomeReady,
             BecomeInsufficient, BeginInstallation, EndInstallation
      <4>2. AirNext => UNCHANGED images
        BY <3>2 DEF AirNext, EndImport, BeginStart, DropStart, EndStart,
             BeginStop, EndStop, BeginDelete, EndDelete
      <4>3. ForeignNext => images \subseteq images'
        BY DEF ForeignNext, ForeignImport, ForeignDelete, ForeignBlank
      <4> QED BY <1>1, <2>3, <4>1, <4>2, <4>3 DEF ServiceStep
    <3> QED BY <3>1, <3>2
  <2>4. CASE UNCHANGED vars
    BY <1>1, <2>4 DEF vars
  <2> QED BY <1>1, <2>1, <2>2, <2>3, <2>4 DEF Next
<1>2. LabInv /\ [Next]_vars =>
        [\A m \in images :
           m \notin images' =>
             \/ \E c \in Clients : Moves(c) /\ User[c] = m.owner
             \/ m.status = "VALIDATING"]_vars
  BY <1>1
<1> QED BY <1>2, Invariantly, PTL DEF Spec, OnlyOwnImagesTouched
=============================================================================
