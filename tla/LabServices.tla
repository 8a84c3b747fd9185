----------------------------- MODULE LabServices -----------------------------
(***************************************************************************)
(* The remote resources of one lab as the two services keep them: the      *)
(* Assisted cluster and InfraEnv, the Air images and the Air simulation,   *)
(* with what the services do on their own and what other people may do in  *)
(* their web consoles.  This is the environment of LabWorkflows, modelled  *)
(* from what the code in src/ expects of it (adapters, core/contracts.py   *)
(* and the fakes in tests/support/deployment.py).                          *)
(*                                                                         *)
(* The four variables hold the resources that carry the lab's own names;   *)
(* names are not unique on either service, ids are and are never reused.   *)
(* Of the blank-disk images only the one with the name this lab needs      *)
(* matters; it is named Blank, and a discovery image by its InfraEnv's id. *)
(*                                                                         *)
(* Simplifications: creating and deleting a cluster, an InfraEnv or an     *)
(* image takes effect before the call returns; a simulation's start,       *)
(* shutdown and deletion are accepted first ("req") and show later.  An    *)
(* upload is one step.  All hosts of a lab move together.                  *)
(***************************************************************************)
EXTENDS Naturals, FiniteSets, Decisions

CONSTANTS
  Users,       \* identities that own Air images
  Specs,       \* versions of the lab spec a command may be run with
  MaxId,       \* bound: resources ever created
  MaxForeign,  \* bound: actions of other people on the lab's simulation
  Failures     \* whether imports and installations may fail

ASSUME BoundsAssumption == MaxId \in Nat /\ MaxForeign \in Nat
ASSUME FailuresAssumption == Failures \in BOOLEAN
ASSUME SpecsAssumption == Specs \subseteq Nat \ {0}

VARIABLES clusters, infraenvs, images, sims,
          nextId,    \* the next unused id
          foreign    \* foreign actions so far

remote == <<clusters, infraenvs, images, sims, nextId, foreign>>

Blank == 0           \* the name of the blank-disk image
NoSpec == 0          \* the configuration of a simulation made elsewhere

Cluster ==
  [id : Nat, spec : Specs, status : ClusterStatus, started : BOOLEAN,
   requests : 0..2]  \* accepted installation requests, 2 for "several"
InfraEnv ==
  [id : Nat, spec : Specs, cluster : Nat, iso : BOOLEAN,
   hosts : {"none", "found", "assigned"}]
Image ==
  [id : Nat, name : Nat, owner : Users, status : AirImageUploadStatus,
   alike : BOOLEAN]  \* version, architecture, provider and content as intended
Simulation ==
  [id : Nat, spec : Specs \cup {NoSpec}, managed : BOOLEAN,
   status : AirSimulationStatus, req : {"none", "start", "stop", "delete"},
   image : Nat,      \* id of the discovery image its nodes boot from
   infra : Nat,      \* and that image's name
   blank : Nat,      \* id of the blank-disk image of its nodes
   bastion : BOOLEAN]

ServicesTypeOK ==
  /\ clusters \subseteq Cluster
  /\ infraenvs \subseteq InfraEnv
  /\ images \subseteq Image
  /\ sims \subseteq Simulation
  /\ nextId \in Nat \ {0}
  /\ foreign \in 0..MaxForeign

ServicesInit ==
  /\ clusters = {} /\ infraenvs = {} /\ images = {} /\ sims = {}
  /\ nextId = 1
  /\ foreign = 0

(***************************************************************************)
(* What an update in place does to a set of resources.                     *)
(***************************************************************************)
Updated(set, old, new) == (set \ {old}) \cup {new}

CanCreate == nextId <= MaxId

(* The hosts of InfraEnv i are up: its simulation runs.                    *)
Booted(i) == \E s \in sims : s.infra = i.id /\ s.status = "ACTIVE"
-----------------------------------------------------------------------------
(***************************************************************************)
(* Assisted Installer on its own.                                          *)
(***************************************************************************)
BuildIso(i) ==
  /\ ~i.iso
  /\ infraenvs' = Updated(infraenvs, i, [i EXCEPT !.iso = TRUE])
  /\ UNCHANGED <<clusters, images, sims, nextId, foreign>>

RegisterHosts(i) ==
  /\ i.hosts = "none" /\ Booted(i)
  /\ infraenvs' = Updated(infraenvs, i, [i EXCEPT !.hosts = "found"])
  /\ UNCHANGED <<clusters, images, sims, nextId, foreign>>

(* Roles assigned and hosts up: validations pass.                          *)
Validated(k) ==
  \E i \in infraenvs : i.cluster = k.id /\ i.hosts = "assigned" /\ Booted(i)

BecomeReady(k) ==
  /\ k.status \in {"pending-for-input", "insufficient"} /\ Validated(k)
  /\ clusters' = Updated(clusters, k, [k EXCEPT !.status = "ready"])
  /\ UNCHANGED <<infraenvs, images, sims, nextId, foreign>>

BecomeInsufficient(k) ==
  /\ k.status = "ready" /\ k.requests = 0 /\ ~Validated(k)
  /\ clusters' = Updated(clusters, k, [k EXCEPT !.status = "insufficient"])
  /\ UNCHANGED <<infraenvs, images, sims, nextId, foreign>>

BeginInstallation(k) ==
  /\ k.status = "ready" /\ k.requests > 0
  /\ clusters' =
       Updated(clusters, k, [k EXCEPT !.status = "installing", !.started = TRUE])
  /\ UNCHANGED <<infraenvs, images, sims, nextId, foreign>>

EndInstallation(k) ==
  /\ k.status = "installing"
  /\ \E result \in {"installed", "error"} :
       /\ result = "error" => Failures
       /\ result = "installed" => Validated(k)
       /\ clusters' = Updated(clusters, k, [k EXCEPT !.status = result])
  /\ UNCHANGED <<infraenvs, images, sims, nextId, foreign>>
-----------------------------------------------------------------------------
(***************************************************************************)
(* NVIDIA Air on its own.                                                  *)
(***************************************************************************)
CompleteUpload(m) ==
  /\ m.status = "VALIDATING"
  /\ images' = Updated(images, m, [m EXCEPT !.status = "COMPLETE"])
  /\ UNCHANGED <<clusters, infraenvs, sims, nextId, foreign>>

EndImport(s) ==
  /\ s.status = "IMPORTING"
  /\ \E result \in {"INACTIVE", "INVALID"} :
       /\ result = "INVALID" => Failures
       /\ sims' = Updated(sims, s, [s EXCEPT !.status = result])
  /\ UNCHANGED <<clusters, infraenvs, images, nextId, foreign>>

BeginStart(s) ==
  /\ s.status = "INACTIVE" /\ s.req = "start"
  /\ sims' = Updated(sims, s, [s EXCEPT !.status = "BOOTING", !.req = "none"])
  /\ UNCHANGED <<clusters, infraenvs, images, nextId, foreign>>

(* Capacity went to somebody else after the request was accepted.          *)
DropStart(s) ==
  /\ s.status = "INACTIVE" /\ s.req = "start"
  /\ sims' = Updated(sims, s, [s EXCEPT !.req = "none"])
  /\ UNCHANGED <<clusters, infraenvs, images, nextId, foreign>>

EndStart(s) ==
  /\ s.status = "BOOTING"
  /\ sims' = Updated(sims, s, [s EXCEPT !.status = "ACTIVE"])
  /\ UNCHANGED <<clusters, infraenvs, images, nextId, foreign>>

BeginStop(s) ==
  /\ s.status = "ACTIVE" /\ s.req = "stop"
  /\ sims' =
       Updated(sims, s, [s EXCEPT !.status = "SHUTTING_DOWN", !.req = "none"])
  /\ UNCHANGED <<clusters, infraenvs, images, nextId, foreign>>

EndStop(s) ==
  /\ s.status = "SHUTTING_DOWN"
  /\ sims' = Updated(sims, s, [s EXCEPT !.status = "INACTIVE"])
  /\ UNCHANGED <<clusters, infraenvs, images, nextId, foreign>>

BeginDelete(s) ==
  /\ s.status \in {"INACTIVE", "INVALID"} /\ s.req = "delete"
  /\ sims' = Updated(sims, s, [s EXCEPT !.status = "DELETING", !.req = "none"])
  /\ UNCHANGED <<clusters, infraenvs, images, nextId, foreign>>

EndDelete(s) ==
  /\ s.status = "DELETING"
  /\ sims' = sims \ {s}
  /\ UNCHANGED <<clusters, infraenvs, images, nextId, foreign>>

AssistedNext ==
  \/ \E i \in infraenvs : BuildIso(i) \/ RegisterHosts(i)
  \/ \E k \in clusters :
       BecomeReady(k) \/ BecomeInsufficient(k)
         \/ BeginInstallation(k) \/ EndInstallation(k)

AirNext ==
  \/ \E m \in images : CompleteUpload(m)
  \/ \E s \in sims :
       \/ EndImport(s) \/ BeginStart(s) \/ DropStart(s) \/ EndStart(s)
       \/ BeginStop(s) \/ EndStop(s) \/ BeginDelete(s) \/ EndDelete(s)
-----------------------------------------------------------------------------
(***************************************************************************)
(* Other people, in the Air console: somebody imports a topology under the *)
(* lab's name without the project's metadata, removes the lab's            *)
(* simulation, or makes an image with the blank disk's name.               *)
(***************************************************************************)
ForeignImport ==
  /\ foreign < MaxForeign /\ CanCreate
  /\ sims' = sims \cup
       {[id |-> nextId, spec |-> NoSpec, managed |-> FALSE,
         status |-> "INACTIVE", req |-> "none", image |-> 0, infra |-> 0,
         blank |-> 0, bastion |-> FALSE]}
  /\ nextId' = nextId + 1
  /\ foreign' = foreign + 1
  /\ UNCHANGED <<clusters, infraenvs, images>>

ForeignDelete(s) ==
  /\ foreign < MaxForeign
  /\ s.status \in {"INACTIVE", "ACTIVE"}
  /\ sims' = Updated(sims, s, [s EXCEPT !.status = "DELETING", !.req = "none"])
  /\ foreign' = foreign + 1
  /\ UNCHANGED <<clusters, infraenvs, images, nextId>>

(* An older release of the project, or a person, makes a blank-disk image  *)
(* with this lab's name for it but other settings.                         *)
ForeignBlank(u) ==
  /\ foreign < MaxForeign /\ CanCreate
  /\ images' = images \cup
       {[id |-> nextId, name |-> Blank, owner |-> u, status |-> "COMPLETE",
         alike |-> FALSE]}
  /\ nextId' = nextId + 1
  /\ foreign' = foreign + 1
  /\ UNCHANGED <<clusters, infraenvs, sims>>

ForeignNext ==
  \/ ForeignImport
  \/ \E s \in sims : ForeignDelete(s)
  \/ \E u \in Users : ForeignBlank(u)
=============================================================================
