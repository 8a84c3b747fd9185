--------------------------- MODULE LabProperties ---------------------------
(***************************************************************************)
(* What LabWorkflows promises.  The first group holds for any number of    *)
(* processes and users, with other people acting on the lab; the second    *)
(* for one process that may be stopped anywhere and run again; the third   *)
(* says that running again gets there.  The last group is what the         *)
(* documentation promises and the code does not keep.                      *)
(***************************************************************************)
EXTENDS LabWorkflows

(* Process c moves in this step.                                           *)
Moves(c) == me'[c] # me[c]

Ids(S) == {x.id : x \in S}
-----------------------------------------------------------------------------
(***************************************************************************)
(* An image is deleted, or uploaded to, only by a process of the user who  *)
(* owns it, although the look that found the image and the act on its id   *)
(* are separate calls (_reconcile_air_image, destroy_lab).                 *)
(***************************************************************************)
OnlyOwnImagesTouched ==
  [][\A m \in images :
       m \notin images' =>
         \/ \E c \in Clients : Moves(c) /\ User[c] = m.owner
         \/ m.status = "VALIDATING"]_vars

(***************************************************************************)
(* Only a simulation with the project's metadata is ever waiting to be     *)
(* started (deploy_lab never starts what it has not claimed).              *)
(***************************************************************************)
StartsOnlyClaimed == \A s \in sims : s.req = "start" => s.managed

(***************************************************************************)
(* Nobody else's simulation is ever given the project's metadata, whatever *)
(* appears under the lab's name during an import (import_simulation).      *)
(***************************************************************************)
ClaimsOnlyOwnImports == \A s \in sims : s.managed => s.spec # NoSpec

(***************************************************************************)
(* A simulation never refers to an image whose content is not complete     *)
(* (_reconcile_air_image comes before the import, uploads being            *)
(* asynchronous).                                                          *)
(***************************************************************************)
BootsOnlyCompleteImages ==
  \A s \in sims, m \in images :
    m.id \in {s.image, s.blank} => m.status = "COMPLETE"

(***************************************************************************)
(* The credentials a process keeps are never those of a cluster that is    *)
(* not installed (_reconcile_installation, download_credentials).          *)
(***************************************************************************)
CredentialsOfInstalled ==
  \A c \in Clients, k \in clusters : k.id = creds[c] => k.status = "installed"

(***************************************************************************)
(* Without --replace nothing remote is deleted: `deploy' refuses a         *)
(* drifted blank-disk image as it refuses everything else.                 *)
(***************************************************************************)
DeployNeverDestroys ==
  [][\A c \in Clients :
       me[c].cmd = "deploy" /\ Moves(c) =>
         /\ Ids(clusters) \subseteq Ids(clusters)'
         /\ Ids(infraenvs) \subseteq Ids(infraenvs)'
         /\ Ids(images) \subseteq Ids(images)'
         /\ \A s \in sims : \E t \in sims' :
              t.id = s.id /\ (t.req = s.req \/ t.req = "start")]_vars
-----------------------------------------------------------------------------
(***************************************************************************)
(* Runs that are stopped anywhere and repeated never make a second         *)
(* resource with a name already taken: creation always follows a look.     *)
(***************************************************************************)
RerunsNeverDuplicate ==
  /\ Cardinality(clusters) <= 1
  /\ Cardinality(infraenvs) <= 1
  /\ Cardinality(sims) <= 1
  /\ \A m, n \in images : m.name = n.name => m = n

(***************************************************************************)
(* Wherever a deployment or a destruction stops, nothing remains that the  *)
(* next destruction could not find: a discovery image has its InfraEnv,    *)
(* which alone tells its name, an InfraEnv its cluster, a simulation its   *)
(* images (the order of the phases of deploy_lab and of destroy_lab).      *)
(***************************************************************************)
NoOrphans ==
  /\ \A i \in infraenvs : i.cluster \in Ids(clusters)
  /\ \A m \in images : m.name # Blank => m.name \in Ids(infraenvs)
  /\ \A s \in sims : {s.image, s.blank} \subseteq Ids(images)

(***************************************************************************)
(* When destroy_lab returns nothing of the lab is left but the blank disk. *)
(***************************************************************************)
DestroyedMeansGone ==
  \A c \in Clients : At(c, "destroyed") =>
    /\ clusters = {} /\ infraenvs = {} /\ sims = {}
    /\ \A m \in images : m.name = Blank

(***************************************************************************)
(* When deploy_lab returns the lab is whole and of one spec: an installed  *)
(* cluster, its InfraEnv with assigned hosts, the managed simulation made  *)
(* from that InfraEnv's image with a jump host, which it got while it ran, *)
(* the credentials those of the cluster.                                   *)
(***************************************************************************)
DeployedMeansUsable ==
  \A c \in Clients : At(c, "deployed") =>
    \E k \in clusters, i \in infraenvs, s \in sims :
      /\ k.status = "installed" /\ creds[c] = k.id
      /\ i.cluster = k.id /\ i.hosts = "assigned"
      /\ s.infra = i.id /\ s.managed /\ s.bastion
      /\ k.spec = i.spec /\ k.spec = s.spec

(***************************************************************************)
(* An installation is requested only for a lab that is prepared: the       *)
(* hosts have their roles and boot from the managed simulation, whose jump *)
(* host is up, also when the run that requests it resumes another's work.  *)
(* (That the simulation still runs is not promised: a destruction stopped  *)
(* after its shutdown request leaves it ACTIVE for a while, and a          *)
(* deployment given next takes it as it is.)                               *)
(***************************************************************************)
InstallsOnlyPreparedLab ==
  [][\A k \in clusters, l \in clusters' :
       k.id = l.id /\ k.requests < l.requests =>
         \E i \in infraenvs, s \in sims :
           /\ i.cluster = k.id /\ i.hosts = "assigned"
           /\ s.infra = i.id /\ s.managed /\ s.bastion]_vars

(***************************************************************************)
(* "Start installation at most once" (_reconcile_installation), over all   *)
(* the runs that resume one another.                                       *)
(***************************************************************************)
OneInstallation == \A k \in clusters : k.requests <= 1
-----------------------------------------------------------------------------
(***************************************************************************)
(* If processes are eventually left alone, a deployment that is only ever  *)
(* rerun with `deploy' completes, whatever the deadlines cut short and     *)
(* however often a start is lost ("Safe reruns", docs/lifecycle.md).       *)
(***************************************************************************)
LeftAlone == <>[][\A c \in Clients : ~GiveUp(c)]_vars

DeployResumes ==
  LeftAlone /\ [](\A c \in Clients : me[c].cmd \in {"none", "deploy"})
    => \A c \in Clients : <>At(c, "deployed")

(***************************************************************************)
(* And from wherever deployments and destructions were left, `destroy'     *)
(* given again and again completes.                                        *)
(***************************************************************************)
DestroyResumes ==
  LeftAlone /\ <>[](\A c \in Clients : me[c].cmd \in {"none", "destroy"})
    => \A c \in Clients : <>At(c, "destroyed")
-----------------------------------------------------------------------------
(***************************************************************************)
(* docs/lifecycle.md, "Safe reruns": "If installation has started, the     *)
(* matching Air simulation must still exist": deploy_lab imports none for  *)
(* a cluster whose installation has started.                               *)
(***************************************************************************)
NoImportAfterStart ==
  [][\A s \in sims' :
       s.id \notin Ids(sims) /\ s.spec # NoSpec
         => \A k \in clusters : ~k.started]_vars

(***************************************************************************)
(* docs/operations.md: "The command refuses to replace a valid Air         *)
(* simulation that is not managed by this project": none is stopped or     *)
(* deleted.                                                                *)
(***************************************************************************)
RefusesUnmanaged ==
  [][\A s \in sims, t \in sims' :
       /\ s.id = t.id /\ s.req # t.req /\ t.req \in {"stop", "delete"}
       => Replaceable(s)]_vars
=============================================================================
