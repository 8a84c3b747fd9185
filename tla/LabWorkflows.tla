---------------------------- MODULE LabWorkflows ----------------------------
(***************************************************************************)
(* core/workflows.py: deploy_lab and destroy_lab, as run by one or more    *)
(* `ocp-air` processes against the services of LabServices.                *)
(*                                                                         *)
(* A process keeps nothing between runs but its caches (the ISO files and  *)
(* the downloaded credentials).  Within a run it is a sequential program   *)
(* whose place is me[c].pc and whose locals are the other fields of me[c]. *)
(* Each call of an adapter that reads, and each that writes, is one step,  *)
(* so whatever happens remotely can happen between a look and the act      *)
(* decided on it.  A poll that finds nothing new is a stuttering step; the *)
(* deadline of a loop is the step TimeOut, possible wherever a look finds  *)
(* that the loop must sleep.  (A deadline that passes during a call that   *)
(* changes something ends the run like GiveUp at the place that follows.)  *)
(***************************************************************************)
EXTENDS LabServices

CONSTANTS
  Clients,    \* processes
  User,       \* the Air identity each of them has
  Commands,   \* the commands each of them may be given
  Breakable   \* the places where a process may be stopped from outside

ASSUME UserAssumption == User \in [Clients -> Users]
ASSUME CommandsAssumption ==
  Commands \in [Clients -> SUBSET {"deploy", "replace", "destroy"}]

VARIABLES me,     \* the program counter and locals of each process
          iso,    \* the InfraEnvs whose discovery ISO each has cached
          creds   \* the cluster whose credentials each has, 0 for none

local == <<me, iso, creds>>
vars == <<clusters, infraenvs, images, sims, nextId, foreign, me, iso, creds>>

Resting == {"idle", "deployed", "destroyed", "refused", "timedout",
            "interrupted"}
DestroyPlaces ==
  {"seekCluster", "seekInfraEnv", "listHosts", "seekSim", "seekImage",
   "actSim", "refindSim", "dropImage", "imageGone", "dropHosts",
   "dropInfraEnv", "infraEnvGone", "dropCluster", "clusterGone"}
DeployPlaces ==
  {"preflightSim", "preflightInfraEnv", "preflightImage", "cluster",
   "createCluster", "infraenv", "createInfraEnv", "downloadIso", "blankLook",
   "image", "createImage", "uploadImage", "deleteImage", "missingSim", "sim",
   "importSim", "awaitImport", "claimSim", "startSim", "recheckCapacity",
   "hosts", "assignRoles", "jumpHost", "install", "startInstall", "download"}
Places == Resting \cup DestroyPlaces \cup DeployPlaces

ASSUME BreakableAssumption == Breakable \subseteq Places \ Resting

(* Ids are positive: 0 is "none" in every field that holds one.            *)
Process ==
  [pc : Places, cmd : {"none", "deploy", "replace", "destroy"},
   spec : Specs \cup {NoSpec}, cluster : Nat, started : BOOLEAN, infra : Nat,
   hosts : BOOLEAN, blank : Nat, image : Nat, target : Nat, swap : BOOLEAN,
   sim : Nat, seen : AirSimulationStatus \cup {"none"}, asked : BOOLEAN,
   rechecked : BOOLEAN]

Fresh(p) ==
  [pc |-> p, cmd |-> "none", spec |-> NoSpec, cluster |-> 0,
   started |-> FALSE, infra |-> 0, hosts |-> FALSE, blank |-> 0, image |-> 0,
   target |-> 0, swap |-> FALSE, sim |-> 0, seen |-> "none", asked |-> FALSE,
   rechecked |-> FALSE]

TypeOK ==
  /\ ServicesTypeOK
  /\ me \in [Clients -> Process]
  /\ iso \in [Clients -> SUBSET Nat]
  /\ creds \in [Clients -> Nat]

Init ==
  /\ ServicesInit
  /\ me = [c \in Clients |-> Fresh("idle")]
  /\ iso = [c \in Clients |-> {}]
  /\ creds = [c \in Clients |-> 0]
-----------------------------------------------------------------------------
(***************************************************************************)
(* What the steps are made of.                                             *)
(***************************************************************************)
At(c, p) == me[c].pc = p
Goto(c, p) == me' = [me EXCEPT ![c].pc = p]
Become(c, r) == me' = [me EXCEPT ![c] = r]
End(c, p) == me' = [me EXCEPT ![c] = Fresh(p)]

(* An error leaves the workflow and ends the command.                      *)
Refuse(c) == End(c, "refused")

(* A loop that would sleep finds its deadline passed instead.              *)
TimeOut(c) == End(c, "timedout")

LooksOnly == UNCHANGED <<remote, iso, creds>>

(* The adapters list by exact name and give up on two answers.             *)
Ambiguous(S) == \E x, y \in S : x # y
ImagesNamed(n) == {m \in images : m.name = n}

(***************************************************************************)
(* The decisions of core/decisions.py on what process c sees.              *)
(***************************************************************************)
ClusterDecisionForgetsStart(c, k) ==     \* mutated: a start leaves no trace
  ClusterAction(k.status, FALSE, k.status = "installed",
                k.spec # me[c].spec, FALSE)
ClusterDecisionAnySpec(c, k) ==          \* mutated: drift is not looked for
  ClusterAction(k.status, k.started, k.status = "installed", FALSE, FALSE)
ClusterDecisionEarly(c, k) ==            \* mutated: started means completed
  ClusterAction(k.status, k.started, k.started, k.spec # me[c].spec, FALSE)
ClusterDecision(c, k) ==
  ClusterAction(k.status, k.started, k.status = "installed",
                k.spec # me[c].spec, FALSE)

InfraEnvDecision(c, i) ==
  InfraEnvAction(FALSE, i.iso, i.id \in iso[c],
                 i.spec # me[c].spec \/ i.cluster # me[c].cluster, FALSE)

ImageDrift(c, m) == ~m.alike \/ m.owner # User[c]
ImageDecisionEarly(c, m) ==              \* mutated: an upload begun is done
  IF m.status \in ImageUploadInProgress /\ ~ImageDrift(c, m) THEN "ready"
  ELSE ImageAction(m.status, ImageDrift(c, m), me[c].swap)
ImageDecision(c, m) == ImageAction(m.status, ImageDrift(c, m), me[c].swap)

SimulationDrift(c, s) ==
  \/ ~s.managed
  \/ s.spec # me[c].spec
  \/ s.image # me[c].image
  \/ s.blank # me[c].blank
SimulationDecisionBlind(c, s) ==         \* mutated: drift is not looked for
  SimulationAction(s.status, FALSE, FALSE, FALSE)
SimulationDecision(c, s) ==
  SimulationAction(s.status, FALSE, SimulationDrift(c, s), FALSE)
-----------------------------------------------------------------------------
(***************************************************************************)
(* deploy_lab: _preflight_air_ownership.  Nothing is created if a          *)
(* resource with the lab's name belongs to somebody else.                  *)
(***************************************************************************)
PreflightRefuses(s) == ~s.managed

PreflightSimulation(c) ==
  /\ At(c, "preflightSim")
  /\ IF Ambiguous(sims) \/ \E s \in sims : PreflightRefuses(s)
       THEN Refuse(c) ELSE Goto(c, "preflightInfraEnv")
  /\ LooksOnly

PreflightInfraEnv(c) ==
  /\ At(c, "preflightInfraEnv")
  /\ \/ Ambiguous(infraenvs) /\ Refuse(c)
     \/ infraenvs = {} /\ Goto(c, "cluster")
     \/ \E i \in infraenvs :
          /\ infraenvs = {i}
          /\ Become(c, [me[c] EXCEPT !.pc = "preflightImage", !.target = i.id])
  /\ LooksOnly

PreflightImage(c) ==
  /\ At(c, "preflightImage")
  /\ LET found == ImagesNamed(me[c].target) IN
     IF Ambiguous(found) \/ \E m \in found : m.owner # User[c]
       THEN Refuse(c)
       ELSE Become(c, [me[c] EXCEPT !.pc = "cluster", !.target = 0])
  /\ LooksOnly
-----------------------------------------------------------------------------
(***************************************************************************)
(* deploy_lab: _reconcile_cluster                                          *)
(***************************************************************************)
ClusterUsable ==
  {"wait-for-hosts", "start-install", "wait-for-install",
   "download-credentials"}

ReconcileCluster(c) ==
  /\ At(c, "cluster")
  /\ \/ Ambiguous(clusters) /\ Refuse(c)
     \/ clusters = {} /\ Goto(c, "createCluster")
     \/ \E k \in clusters :
          /\ clusters = {k}
          /\ IF ClusterDecision(c, k) \in ClusterUsable
               THEN Become(c, [me[c] EXCEPT !.pc = "infraenv",
                                 !.cluster = k.id, !.started = k.started])
               ELSE Refuse(c)
  /\ LooksOnly

CreateCluster(c) ==
  /\ At(c, "createCluster") /\ CanCreate
  /\ clusters' = clusters \cup
       {[id |-> nextId, spec |-> me[c].spec, status |-> "pending-for-input",
         started |-> FALSE, requests |-> 0]}
  /\ nextId' = nextId + 1
  /\ Goto(c, "cluster")
  /\ UNCHANGED <<infraenvs, images, sims, foreign, iso, creds>>
-----------------------------------------------------------------------------
(***************************************************************************)
(* deploy_lab: _reconcile_infraenv                                         *)
(***************************************************************************)
ReconcileInfraEnv(c) ==
  /\ At(c, "infraenv")
  /\ \/ Ambiguous(infraenvs) /\ Refuse(c)
     \/ infraenvs = {} /\ Goto(c, "createInfraEnv")
     \/ \E i \in infraenvs :
          /\ infraenvs = {i}
          /\ LET d == InfraEnvDecision(c, i) IN
             \/ d = "download-iso"
                /\ Become(c, [me[c] EXCEPT !.pc = "downloadIso", !.infra = i.id])
             \/ d = "wait-for-iso" /\ TimeOut(c)
             \/ d = "ready"
                /\ Become(c, [me[c] EXCEPT !.pc = "blankLook", !.infra = i.id])
             \/ d \notin {"download-iso", "wait-for-iso", "ready"} /\ Refuse(c)
  /\ LooksOnly

(* The service turns the request down when the cluster is gone.            *)
CreateInfraEnv(c) ==
  /\ At(c, "createInfraEnv")
  /\ IF \E k \in clusters : k.id = me[c].cluster
       THEN /\ CanCreate
            /\ infraenvs' = infraenvs \cup
                 {[id |-> nextId, spec |-> me[c].spec,
                   cluster |-> me[c].cluster, iso |-> FALSE,
                   hosts |-> "none"]}
            /\ nextId' = nextId + 1
            /\ Goto(c, "infraenv")
       ELSE Refuse(c) /\ UNCHANGED <<infraenvs, nextId>>
  /\ UNCHANGED <<clusters, images, sims, foreign, iso, creds>>

DownloadIso(c) ==
  /\ At(c, "downloadIso")
  /\ IF \E i \in infraenvs : i.id = me[c].infra
       THEN /\ iso' = [iso EXCEPT ![c] = @ \cup {me[c].infra}]
            /\ Become(c, [me[c] EXCEPT !.pc = "infraenv", !.infra = 0])
       ELSE Refuse(c) /\ UNCHANGED iso
  /\ UNCHANGED <<remote, creds>>
-----------------------------------------------------------------------------
(***************************************************************************)
(* deploy_lab: the blank-disk image, then _reconcile_air_image for it and  *)
(* for the discovery image, me[c].target naming the one at hand.           *)
(***************************************************************************)
ReplacesBlankAlways(c, m) ==             \* mutated: not only with --replace
  ImageAction(m.status, ImageDrift(c, m), FALSE) = "refuse-drift"
ReplacesBlank(c, m) ==
  /\ me[c].cmd = "replace"
  /\ ImageAction(m.status, ImageDrift(c, m), FALSE) = "refuse-drift"

BlankLook(c) ==
  /\ At(c, "blankLook")
  /\ LET found == ImagesNamed(Blank) IN
     IF Ambiguous(found) THEN Refuse(c)
     ELSE Become(c, [me[c] EXCEPT !.pc = "image", !.target = Blank,
                       !.swap = \E m \in found : ReplacesBlank(c, m)])
  /\ LooksOnly

(* One image is ready: go on to the discovery image, or to the simulation. *)
ImageReady(c, m) ==
  IF me[c].target = Blank
    THEN Become(c, [me[c] EXCEPT !.target = me[c].infra, !.blank = m.id,
                      !.swap = FALSE])
    ELSE Become(c, [me[c] EXCEPT !.pc = "missingSim", !.target = 0,
                      !.image = m.id])

MayDeleteAnyImage(c, m) == TRUE          \* mutated: ownership not checked
MayDeleteImage(c, m) == m.owner = User[c]

ReconcileImage(c) ==
  /\ At(c, "image")
  /\ LET found == ImagesNamed(me[c].target) IN
     \/ Ambiguous(found) /\ Refuse(c)
     \/ found = {} /\ Goto(c, "createImage")
     \/ \E m \in found :
          /\ found = {m}
          /\ LET d == ImageDecision(c, m) IN
             \/ d = "upload"
                /\ Become(c, [me[c] EXCEPT !.pc = "uploadImage", !.image = m.id])
             \/ d = "replace" /\ MayDeleteImage(c, m)
                /\ Become(c, [me[c] EXCEPT !.pc = "deleteImage", !.image = m.id])
             \/ d = "wait-for-upload" /\ TimeOut(c)
             \/ d = "ready" /\ ImageReady(c, m)
             \/ d = "replace" /\ ~MayDeleteImage(c, m) /\ Refuse(c)
             \/ /\ d \notin {"upload", "replace", "wait-for-upload", "ready"}
                /\ Refuse(c)
  /\ LooksOnly

CreateImage(c) ==
  /\ At(c, "createImage") /\ CanCreate
  /\ images' = images \cup
       {[id |-> nextId, name |-> me[c].target, owner |-> User[c],
         status |-> "READY", alike |-> TRUE]}
  /\ nextId' = nextId + 1
  /\ Goto(c, "image")
  /\ UNCHANGED <<clusters, infraenvs, sims, foreign, iso, creds>>

UploadImage(c) ==
  /\ At(c, "uploadImage")
  /\ \/ \E m \in images :
          /\ m.id = me[c].image /\ m.status = "READY"
          /\ images' = Updated(images, m, [m EXCEPT !.status = "VALIDATING"])
          /\ Become(c, [me[c] EXCEPT !.pc = "image", !.image = 0])
     \/ /\ ~ \E m \in images : m.id = me[c].image /\ m.status = "READY"
        /\ Refuse(c) /\ UNCHANGED images
  /\ UNCHANGED <<clusters, infraenvs, sims, nextId, foreign, iso, creds>>

DeleteBlankImage(c) ==
  /\ At(c, "deleteImage")
  /\ IF \E m \in images : m.id = me[c].image
       THEN /\ images' = {m \in images : m.id # me[c].image}
            /\ Become(c, [me[c] EXCEPT !.pc = "image", !.image = 0,
                            !.swap = FALSE])
       ELSE Refuse(c) /\ UNCHANGED images
  /\ UNCHANGED <<clusters, infraenvs, sims, nextId, foreign, iso, creds>>
-----------------------------------------------------------------------------
(***************************************************************************)
(* deploy_lab: the simulation.  Once an installation has begun a missing   *)
(* simulation is an error; otherwise _reconcile_simulation.                *)
(***************************************************************************)
MissingSimulationRefuses(c) == me[c].started /\ sims = {}

CheckMissingSimulation(c) ==
  /\ At(c, "missingSim")
  /\ IF Ambiguous(sims) \/ MissingSimulationRefuses(c) THEN Refuse(c)
     ELSE Become(c, [me[c] EXCEPT !.pc = "sim", !.started = FALSE])
  /\ LooksOnly

SimulationWaits ==
  {"wait-for-creation", "wait-for-active", "wait-for-inactive",
   "wait-for-deletion"}

NeedsImportUnlessLeaving ==              \* mutated: one on its way out is none
  \A s \in sims : s.status = "DELETING"
NeedsImport == sims = {}

(* A start is requested once; one more look at the capacity follows if the *)
(* simulation is still inactive, and after that only waiting.              *)
ReconcileSimulation(c) ==
  /\ At(c, "sim")
  /\ \/ Ambiguous(sims) /\ Refuse(c)
     \/ NeedsImport /\ Goto(c, "importSim")
     \/ \E s \in sims :
          /\ sims = {s}
          /\ LET d == SimulationDecision(c, s) IN
             \/ d = "start" /\ ~me[c].asked
                /\ Become(c, [me[c] EXCEPT !.pc = "startSim", !.sim = s.id])
             \/ d = "start" /\ me[c].asked /\ ~me[c].rechecked
                /\ Become(c, [me[c] EXCEPT !.pc = "recheckCapacity",
                                !.sim = s.id])
             \/ d = "start" /\ me[c].rechecked /\ TimeOut(c)
             \/ d \in SimulationWaits /\ TimeOut(c)
             \/ d = "ready"
                /\ Become(c, [me[c] EXCEPT !.pc = "hosts", !.sim = s.id,
                                !.infra = 0, !.blank = 0, !.image = 0,
                                !.asked = FALSE, !.rechecked = FALSE])
             \/ d \notin SimulationWaits \cup {"start", "ready"} /\ Refuse(c)
  /\ LooksOnly

(***************************************************************************)
(* adapters/air: import_simulation, three calls.  The simulation carries   *)
(* the project's metadata only after the last of them.                     *)
(***************************************************************************)
ImportSimulation(c) ==
  /\ At(c, "importSim") /\ CanCreate
  /\ sims' = sims \cup
       {[id |-> nextId, spec |-> me[c].spec, managed |-> FALSE,
         status |-> "IMPORTING", req |-> "none", image |-> me[c].image,
         infra |-> me[c].infra, blank |-> me[c].blank, bastion |-> FALSE]}
  /\ nextId' = nextId + 1
  /\ Become(c, [me[c] EXCEPT !.pc = "awaitImport", !.sim = nextId])
  /\ UNCHANGED <<clusters, infraenvs, images, foreign, iso, creds>>

ImportedByName(c) == sims                \* mutated: whatever has the name
Imported(c) == {s \in sims : s.id = me[c].sim}

AwaitImport(c) ==
  /\ At(c, "awaitImport")
  /\ \/ Imported(c) = {} /\ Refuse(c)
     \/ \E s \in Imported(c) :
          \/ s.status = "INACTIVE" /\ Goto(c, "claimSim")
          \/ s.status = "INVALID" /\ Refuse(c)
          \/ /\ s.status \notin {"INACTIVE", "INVALID"}
             /\ "awaitImport" \in Breakable
             /\ TimeOut(c)
  /\ LooksOnly

ClaimSimulation(c) ==
  /\ At(c, "claimSim")
  /\ \/ \E s \in Imported(c) :
          /\ sims' = Updated(sims, s, [s EXCEPT !.managed = TRUE])
          /\ Become(c, [me[c] EXCEPT !.pc = "sim", !.sim = 0])
     \/ Imported(c) = {} /\ Refuse(c) /\ UNCHANGED sims
  /\ UNCHANGED <<clusters, infraenvs, images, nextId, foreign, iso, creds>>

(* ensure_simulation_capacity, then start_simulation: the first may fail,  *)
(* and the service turns the second down unless the simulation is at rest. *)
Startable(s) == s.status = "INACTIVE" /\ s.req \in {"none", "start"}

StartSimulation(c) ==
  /\ At(c, "startSim")
  /\ \/ \E s \in sims :
          /\ s.id = me[c].sim /\ Startable(s)
          /\ sims' = Updated(sims, s, [s EXCEPT !.req = "start"])
          /\ Become(c, [me[c] EXCEPT !.pc = "sim", !.sim = 0, !.asked = TRUE])
     \/ /\ Failures \/ ~ \E s \in sims : s.id = me[c].sim /\ Startable(s)
        /\ Refuse(c) /\ UNCHANGED sims
  /\ UNCHANGED <<clusters, infraenvs, images, nextId, foreign, iso, creds>>

RecheckCapacity(c) ==
  /\ At(c, "recheckCapacity")
  /\ \/ /\ \E s \in sims : s.id = me[c].sim
        /\ Become(c, [me[c] EXCEPT !.pc = "sim", !.sim = 0,
                        !.rechecked = TRUE])
     \/ /\ Failures \/ ~ \E s \in sims : s.id = me[c].sim
        /\ Refuse(c)
  /\ LooksOnly
-----------------------------------------------------------------------------
(***************************************************************************)
(* deploy_lab: _reconcile_hosts, all hosts of the cluster at once, and the *)
(* jump host.                                                              *)
(***************************************************************************)
HostsOf(k) == {i \in infraenvs : i.cluster = k.id /\ i.hosts # "none"}

(* Between two looks the cluster must stay the one this run reconciled.    *)
SameCluster(c, k) == clusters = {k} /\ k.id = me[c].cluster

HostsAcceptedAtFirst(k, i) ==            \* mutated: no status of a host that
  i.hosts = "assigned" /\ Booted(i) /\ ~k.started     \* installs is accepted
HostsAccepted(k, i) == i.hosts = "assigned" /\ (Booted(i) \/ k.started)

HostsRefused(k) ==
  \/ k.status \in ActionClusterStatuses \cup UnsupportedClusterStatuses
  \/ Ambiguous(HostsOf(k))

AfterHostsInHaste(k) ==                  \* mutated: a ready cluster needs no
  IF k.status = "ready" THEN "install" ELSE "jumpHost"          \* jump host
AfterHosts(k) == "jumpHost"

ReconcileHosts(c) ==
  /\ At(c, "hosts")
  /\ \/ /\ ~ \E k \in clusters : SameCluster(c, k) /\ ~HostsRefused(k)
        /\ Refuse(c)
     \/ \E k \in clusters :
          /\ SameCluster(c, k) /\ ~HostsRefused(k)
          /\ \/ \E i \in HostsOf(k) :
                  \/ i.hosts = "found"
                     /\ Become(c, [me[c] EXCEPT !.pc = "assignRoles",
                                     !.target = i.id])
                  \/ HostsAccepted(k, i) /\ Goto(c, AfterHosts(k))
             \/ /\ ~ \E i \in HostsOf(k) :
                       i.hosts = "found" \/ HostsAccepted(k, i)
                /\ TimeOut(c)
  /\ LooksOnly

AssignRoles(c) ==
  /\ At(c, "assignRoles")
  /\ \/ \E i \in infraenvs :
          /\ i.id = me[c].target /\ i.hosts # "none"
          /\ infraenvs' = Updated(infraenvs, i, [i EXCEPT !.hosts = "assigned"])
          /\ Become(c, [me[c] EXCEPT !.pc = "hosts", !.target = 0])
     \/ /\ ~ \E i \in infraenvs : i.id = me[c].target /\ i.hosts # "none"
        /\ Refuse(c) /\ UNCHANGED infraenvs
  /\ UNCHANGED <<clusters, images, sims, nextId, foreign, iso, creds>>

EnsureJumpHost(c) ==
  /\ At(c, "jumpHost")
  /\ LET mine == {s \in sims : s.id = me[c].sim} IN
     \/ mine = {} /\ Refuse(c) /\ UNCHANGED sims
     \/ \E s \in mine :
          \/ /\ s.status = "ACTIVE"
             /\ sims' = Updated(sims, s, [s EXCEPT !.bastion = TRUE])
             /\ Become(c, [me[c] EXCEPT !.pc = "install", !.sim = 0])
          \/ s.status # "ACTIVE" /\ TimeOut(c) /\ UNCHANGED sims
  /\ UNCHANGED <<clusters, infraenvs, images, nextId, foreign, iso, creds>>
-----------------------------------------------------------------------------
(***************************************************************************)
(* deploy_lab: _reconcile_installation.  It looks the cluster up by name   *)
(* alone; the service is not relied on to refuse a second request.  That   *)
(* it gives up when a host needs attention is GiveUp: hosts have no issues *)
(* here, but in HostDiscovery.                                             *)
(***************************************************************************)
ReconcileInstallation(c) ==
  /\ At(c, "install")
  /\ \/ Ambiguous(clusters) /\ Refuse(c)
     \/ clusters = {} /\ Refuse(c)
     \/ \E k \in clusters :
          /\ clusters = {k}
          /\ LET d == ClusterDecision(c, k) IN
             \/ d = "start-install"
                /\ Become(c, [me[c] EXCEPT !.pc = "startInstall",
                                !.cluster = k.id])
             \/ d \in {"wait-for-install", "wait-for-hosts"} /\ TimeOut(c)
             \/ d = "download-credentials"
                /\ Become(c, [me[c] EXCEPT !.pc = "download",
                                !.cluster = k.id])
             \/ d \notin ClusterUsable /\ Refuse(c)
  /\ LooksOnly

StartInstallation(c) ==
  /\ At(c, "startInstall")
  /\ \/ \E k \in clusters :
          /\ k.id = me[c].cluster /\ k.status = "ready"
          /\ clusters' = Updated(clusters, k,
               [k EXCEPT !.started = TRUE,
                         !.requests = IF @ = 2 THEN 2 ELSE @ + 1])
          /\ Goto(c, "install")
     \/ /\ ~ \E k \in clusters : k.id = me[c].cluster /\ k.status = "ready"
        /\ Refuse(c) /\ UNCHANGED clusters
  /\ UNCHANGED <<infraenvs, images, sims, nextId, foreign, iso, creds>>

DownloadCredentials(c) ==
  /\ At(c, "download")
  /\ IF \E k \in clusters : k.id = me[c].cluster
       THEN /\ creds' = [creds EXCEPT ![c] = me[c].cluster]
            /\ End(c, "deployed")
       ELSE Refuse(c) /\ UNCHANGED creds
  /\ UNCHANGED <<remote, iso>>
-----------------------------------------------------------------------------
(***************************************************************************)
(* destroy_lab: first everything is looked up.  target is the discovery    *)
(* image's name, taken from the InfraEnv or else from the simulation, and  *)
(* 0 when neither is there to tell.                                        *)
(***************************************************************************)
SeekCluster(c) ==
  /\ At(c, "seekCluster")
  /\ \/ Ambiguous(clusters) /\ Refuse(c)
     \/ clusters = {} /\ Goto(c, "seekInfraEnv")
     \/ \E k \in clusters :
          /\ clusters = {k}
          /\ Become(c, [me[c] EXCEPT !.pc = "seekInfraEnv", !.cluster = k.id])
  /\ LooksOnly

SeekInfraEnv(c) ==
  /\ At(c, "seekInfraEnv")
  /\ LET next == IF me[c].cluster = 0 THEN "seekSim" ELSE "listHosts" IN
     \/ Ambiguous(infraenvs) /\ Refuse(c)
     \/ infraenvs = {} /\ Goto(c, next)
     \/ \E i \in infraenvs :
          /\ infraenvs = {i}
          /\ Become(c, [me[c] EXCEPT !.pc = next, !.infra = i.id,
                          !.target = i.id])
  /\ LooksOnly

(* The hosts to deregister later are the cluster's as of now.              *)
ListHosts(c) ==
  /\ At(c, "listHosts")
  /\ IF \E k \in clusters : k.id = me[c].cluster
       THEN Become(c, [me[c] EXCEPT !.pc = "seekSim",
              !.hosts = \E i \in infraenvs :
                          /\ i.id = me[c].infra /\ i.cluster = me[c].cluster
                          /\ i.hosts # "none"])
       ELSE Refuse(c)
  /\ LooksOnly

(* _simulation_is_replaceable                                              *)
Replaceable(s) == s.managed \/ s.status = "INVALID"

(* The refusal comes after the look at the image in the code; nothing but  *)
(* that look is in between.                                                *)
SeekSimulation(c) ==
  /\ At(c, "seekSim")
  /\ LET next(r) == IF r.target = 0 THEN "actSim" ELSE "seekImage" IN
     \/ Ambiguous(sims) /\ Refuse(c)
     \/ sims = {} /\ Goto(c, next(me[c]))
     \/ \E s \in sims :
          /\ sims = {s}
          /\ IF Replaceable(s)
               THEN LET r == [me[c] EXCEPT !.sim = s.id, !.seen = s.status,
                                !.target = IF @ # 0 THEN @ ELSE s.infra]
                    IN  Become(c, [r EXCEPT !.pc = next(r)])
               ELSE Refuse(c)
  /\ LooksOnly

SeekDiscoveryImage(c) ==
  /\ At(c, "seekImage")
  /\ LET found == ImagesNamed(me[c].target) IN
     \/ Ambiguous(found) /\ Refuse(c)
     \/ found = {} /\ Goto(c, "actSim")
     \/ \E m \in found :
          /\ found = {m}
          /\ IF MayDeleteImage(c, m)
               THEN Become(c, [me[c] EXCEPT !.pc = "actSim", !.image = m.id])
               ELSE Refuse(c)
  /\ LooksOnly

(***************************************************************************)
(* destroy_lab: then the phases, each skipped when its lookup found        *)
(* nothing.  `replace' goes on as a deployment.                            *)
(***************************************************************************)
DestroyedForgetful(r) ==                 \* mutated: the spec is lost
  IF r.cmd = "replace" THEN Fresh("cluster") ELSE Fresh("destroyed")
Destroyed(r) ==
  IF r.cmd = "replace"
    THEN [Fresh("cluster") EXCEPT !.cmd = r.cmd, !.spec = r.spec]
    ELSE Fresh("destroyed")
AfterInfraEnv(r) ==
  IF r.cluster # 0 THEN [r EXCEPT !.pc = "dropCluster"] ELSE Destroyed(r)
AfterImageOnlyHosts(r) ==                \* mutated: no hosts, no deletion
  IF r.infra = 0 \/ ~r.hosts THEN AfterInfraEnv(r)
  ELSE [r EXCEPT !.pc = "dropHosts"]
AfterImageHostsStay(r) ==                \* mutated: hosts are left registered
  IF r.infra = 0 THEN AfterInfraEnv(r) ELSE [r EXCEPT !.pc = "dropInfraEnv"]
AfterImage(r) ==
  IF r.infra = 0 THEN AfterInfraEnv(r)
  ELSE [r EXCEPT !.pc = IF r.hosts THEN "dropHosts" ELSE "dropInfraEnv"]
AfterSimulationNoImage(r) == AfterImage(r)   \* mutated: the image is left
AfterSimulation(r) ==
  IF r.image # 0 THEN [r EXCEPT !.pc = "dropImage"] ELSE AfterImage(r)

(* Stop or delete the simulation that was seen, by id.  The service turns  *)
(* down a shutdown of what does not run and a deletion of what does.       *)
RequestFor(status) ==
  IF status = "ACTIVE" THEN "stop"
  ELSE IF status \in {"INACTIVE", "INVALID"} THEN "delete"
  ELSE "none"
Accepts(s, req) ==
  \/ req = "stop" /\ s.status = "ACTIVE"
  \/ req = "delete" /\ s.status \in {"INACTIVE", "INVALID"}

ActOnSimulation(c) ==
  /\ At(c, "actSim")
  /\ LET req == RequestFor(me[c].seen)
         target == {s \in sims : s.id = me[c].sim /\ Accepts(s, req)}
         sawIt == [me[c] EXCEPT !.pc = "refindSim", !.sim = 0, !.seen = "none"]
     IN
     \/ /\ me[c].seen = "none"
        /\ Become(c, AfterSimulation([me[c] EXCEPT !.sim = 0]))
        /\ UNCHANGED sims
     \/ /\ me[c].seen # "none" /\ req # "none"
        /\ \E s \in target :
             /\ sims' = Updated(sims, s, [s EXCEPT !.req = req])
             /\ Become(c, sawIt)
     \/ /\ me[c].seen # "none" /\ req # "none" /\ target = {}
        /\ Refuse(c) /\ UNCHANGED sims
     \/ /\ me[c].seen \in DestroyWaitsOut
        /\ Become(c, sawIt) /\ UNCHANGED sims
     \/ /\ me[c].seen \notin DestroyWaitsOut \cup {"none"} /\ req = "none"
        /\ Refuse(c) /\ UNCHANGED sims
  /\ UNCHANGED <<clusters, infraenvs, images, nextId, foreign, iso, creds>>

(* The next look is by name and is not checked for ownership again.        *)
RefindSimulation(c) ==
  /\ At(c, "refindSim")
  /\ \/ Ambiguous(sims) /\ Refuse(c)
     \/ sims = {} /\ Become(c, AfterSimulation(me[c]))
     \/ \E s \in sims :
          /\ sims = {s}
          /\ \/ Become(c, [me[c] EXCEPT !.pc = "actSim", !.sim = s.id,
                             !.seen = s.status])
             \/ TimeOut(c)
  /\ LooksOnly

DropImage(c) ==
  /\ At(c, "dropImage")
  /\ IF \E m \in images : m.id = me[c].image
       THEN /\ images' = {m \in images : m.id # me[c].image}
            /\ Become(c, [me[c] EXCEPT !.pc = "imageGone", !.image = 0])
       ELSE Refuse(c) /\ UNCHANGED images
  /\ UNCHANGED <<clusters, infraenvs, sims, nextId, foreign, iso, creds>>

ImageGone(c) ==
  /\ At(c, "imageGone")
  /\ LET found == ImagesNamed(me[c].target) IN
     \/ Ambiguous(found) /\ Refuse(c)
     \/ found = {} /\ Become(c, AfterImage(me[c]))
     \/ found # {} /\ ~Ambiguous(found) /\ TimeOut(c)
  /\ LooksOnly

DropHosts(c) ==
  /\ At(c, "dropHosts")
  /\ \/ \E i \in infraenvs :
          /\ i.id = me[c].infra
          /\ infraenvs' = Updated(infraenvs, i, [i EXCEPT !.hosts = "none"])
          /\ Goto(c, "dropInfraEnv")
     \/ /\ ~ \E i \in infraenvs : i.id = me[c].infra
        /\ Refuse(c) /\ UNCHANGED infraenvs
  /\ UNCHANGED <<clusters, images, sims, nextId, foreign, iso, creds>>

(* The service keeps an InfraEnv that still has hosts.                     *)
DropInfraEnv(c) ==
  /\ At(c, "dropInfraEnv")
  /\ IF \E i \in infraenvs : i.id = me[c].infra /\ i.hosts = "none"
       THEN /\ infraenvs' = {i \in infraenvs : i.id # me[c].infra}
            /\ Goto(c, "infraEnvGone")
       ELSE Refuse(c) /\ UNCHANGED infraenvs
  /\ UNCHANGED <<clusters, images, sims, nextId, foreign, iso, creds>>

InfraEnvGone(c) ==
  /\ At(c, "infraEnvGone")
  /\ \/ Ambiguous(infraenvs) /\ Refuse(c)
     \/ infraenvs = {} /\ Become(c, AfterInfraEnv(me[c]))
     \/ infraenvs # {} /\ ~Ambiguous(infraenvs) /\ TimeOut(c)
  /\ LooksOnly

DropCluster(c) ==
  /\ At(c, "dropCluster")
  /\ IF \E k \in clusters : k.id = me[c].cluster
       THEN /\ clusters' = {k \in clusters : k.id # me[c].cluster}
            /\ Goto(c, "clusterGone")
       ELSE Refuse(c) /\ UNCHANGED clusters
  /\ UNCHANGED <<infraenvs, images, sims, nextId, foreign, iso, creds>>

ClusterGone(c) ==
  /\ At(c, "clusterGone")
  /\ \/ Ambiguous(clusters) /\ Refuse(c)
     \/ clusters = {} /\ Become(c, Destroyed(me[c]))
     \/ clusters # {} /\ ~Ambiguous(clusters) /\ TimeOut(c)
  /\ LooksOnly
-----------------------------------------------------------------------------
(***************************************************************************)
(* A command is given, to a process that is running none, with a version   *)
(* of the lab spec.                                                        *)
(***************************************************************************)
FirstPlace(cmd) == IF cmd = "deploy" THEN "preflightSim" ELSE "seekCluster"

Launch(c) ==
  /\ me[c].pc \in Resting
  /\ \E cmd \in Commands[c], spec \in Specs :
       Become(c, [Fresh(FirstPlace(cmd)) EXCEPT !.cmd = cmd, !.spec = spec])
  /\ LooksOnly

(* Interrupted from outside, a transport error, a crash: what was done     *)
(* remotely stays done.                                                    *)
GiveUp(c) ==
  /\ me[c].pc \in Breakable
  /\ End(c, "interrupted")
  /\ LooksOnly

DeployStep(c) ==
  \/ PreflightSimulation(c) \/ PreflightInfraEnv(c) \/ PreflightImage(c)
  \/ ReconcileCluster(c) \/ CreateCluster(c)
  \/ ReconcileInfraEnv(c) \/ CreateInfraEnv(c) \/ DownloadIso(c)
  \/ BlankLook(c) \/ ReconcileImage(c) \/ CreateImage(c) \/ UploadImage(c)
  \/ DeleteBlankImage(c)
  \/ CheckMissingSimulation(c) \/ ReconcileSimulation(c)
  \/ ImportSimulation(c) \/ AwaitImport(c) \/ ClaimSimulation(c)
  \/ StartSimulation(c) \/ RecheckCapacity(c)
  \/ ReconcileHosts(c) \/ AssignRoles(c) \/ EnsureJumpHost(c)
  \/ ReconcileInstallation(c) \/ StartInstallation(c) \/ DownloadCredentials(c)

DestroyStep(c) ==
  \/ SeekCluster(c) \/ SeekInfraEnv(c) \/ ListHosts(c) \/ SeekSimulation(c)
  \/ SeekDiscoveryImage(c)
  \/ ActOnSimulation(c) \/ RefindSimulation(c)
  \/ DropImage(c) \/ ImageGone(c)
  \/ DropHosts(c) \/ DropInfraEnv(c) \/ InfraEnvGone(c)
  \/ DropCluster(c) \/ ClusterGone(c)

ClientStep(c) == DeployStep(c) \/ DestroyStep(c)

ServiceStep ==
  (AssistedNext \/ AirNext \/ ForeignNext) /\ UNCHANGED <<me, iso, creds>>

Next ==
  \/ \E c \in Clients : Launch(c) \/ ClientStep(c) \/ GiveUp(c)
  \/ ServiceStep

Spec == Init /\ [][Next]_vars

(***************************************************************************)
(* A process keeps running, commands keep being given, and each service    *)
(* gets on with what it has accepted.  Of a start that is accepted and     *)
(* lost to somebody else's capacity again and again, one goes through.     *)
(***************************************************************************)
Serves(A) == A /\ UNCHANGED <<me, iso, creds>>

Fairness ==
  /\ \A c \in Clients : WF_vars(ClientStep(c)) /\ WF_vars(Launch(c))
  /\ WF_vars(Serves(\E i \in infraenvs : BuildIso(i)))
  /\ WF_vars(Serves(\E i \in infraenvs : RegisterHosts(i)))
  /\ WF_vars(Serves(\E k \in clusters : BecomeReady(k)))
  /\ WF_vars(Serves(\E k \in clusters : BeginInstallation(k)))
  /\ WF_vars(Serves(\E k \in clusters : EndInstallation(k)))
  /\ WF_vars(Serves(\E m \in images : CompleteUpload(m)))
  /\ WF_vars(Serves(\E s \in sims : EndImport(s)))
  /\ SF_vars(Serves(\E s \in sims : BeginStart(s)))
  /\ WF_vars(Serves(\E s \in sims : EndStart(s)))
  /\ WF_vars(Serves(\E s \in sims : BeginStop(s)))
  /\ WF_vars(Serves(\E s \in sims : EndStop(s)))
  /\ WF_vars(Serves(\E s \in sims : BeginDelete(s)))
  /\ WF_vars(Serves(\E s \in sims : EndDelete(s)))

FairSpec == Spec /\ Fairness
=============================================================================
