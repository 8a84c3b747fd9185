--------------------------- MODULE LabSolo_proofs ---------------------------
(***************************************************************************)
(* Theorems about LabWorkflows when one process at a time works on a lab   *)
(* that nobody else touches (Solo): it may be stopped anywhere and given   *)
(* any command next, any number of times.  They all follow from SoloInv,   *)
(* which says how the resources hang together (Linked) and what the place  *)
(* of the process tells about them (Place).                                *)
(***************************************************************************)
EXTENDS LabWorkflows_proofs, FiniteSetTheorems

Solo == (\A c, d \in Clients : c = d) /\ MaxForeign = 0
-----------------------------------------------------------------------------
(***************************************************************************)
(* How the resources hang together.                                        *)
(***************************************************************************)
One(S) == \A x, y \in S : x = y

Has(id, name) == \E m \in images : m.id = id /\ m.name = name

Uniques ==
  /\ One(clusters) /\ One(infraenvs) /\ One(sims)
  /\ \A m, n \in images : m.name = n.name => m = n

ClusterLinks ==
  \A k \in clusters :
    0 < k.id /\ k.requests <= 1 /\ (k.requests > 0 => k.started)
InfraEnvLinks ==
  /\ infraenvs # {} => clusters # {}
  /\ \A i \in infraenvs :
       0 < i.id /\ \A k \in clusters : i.cluster = k.id
ImageLinks ==
  \A m \in images :
    /\ m.alike /\ \A c \in Clients : m.owner = User[c]
    /\ m.name # Blank =>
         infraenvs # {} /\ \A i \in infraenvs : m.name = i.id
SimLinks ==
  /\ sims # {} => infraenvs # {}
  /\ \A s \in sims :
       /\ Has(s.image, s.infra) /\ Has(s.blank, Blank)
       /\ \A i \in infraenvs : s.infra = i.id
       /\ s.req = "delete" => s.status \in {"INACTIVE", "INVALID"}

Linked ==
  Uniques /\ ClusterLinks /\ InfraEnvLinks /\ ImageLinks /\ SimLinks
-----------------------------------------------------------------------------
(***************************************************************************)
(* What the place of a process with locals r tells, while it deploys ...   *)
(***************************************************************************)
SimPlaces == {"missingSim", "sim", "importSim", "startSim",
              "recheckCapacity", "awaitImport", "claimSim"}
ImagePlaces == {"image", "createImage", "uploadImage"}
LabPlaces == {"hosts", "assignRoles", "jumpHost", "install", "startInstall",
              "download"}
InfraEnvPlaces == {"blankLook"} \cup ImagePlaces \cup SimPlaces
ClusterPlaces ==
  {"infraenv", "createInfraEnv", "downloadIso"}
    \cup InfraEnvPlaces \cup LabPlaces

(* Nothing has the name of what is about to be created.                    *)
LookedFirst(r) ==
  /\ r.pc = "createCluster" => clusters = {}
  /\ r.pc = "createInfraEnv" => infraenvs = {}
  /\ r.pc = "createImage" => \A m \in images : m.name # r.target
  /\ r.pc = "importSim" => sims = {}

HasCluster(r) ==
  clusters # {} /\ \A k \in clusters : k.id = r.cluster /\ k.spec = r.spec
HasInfraEnv(r) ==
  infraenvs # {} /\ \A i \in infraenvs : i.id = r.infra /\ i.spec = r.spec

(* A simulation that no request of the project takes away.                 *)
Stays(s) ==
  /\ s.status \in {"INACTIVE", "BOOTING", "ACTIVE", "SHUTTING_DOWN"}
  /\ s.req # "delete"

HasLab(spec) ==
  /\ infraenvs # {} /\ \A i \in infraenvs : i.spec = spec
  /\ sims # {} /\ \A s \in sims : s.spec = spec /\ s.managed /\ Stays(s)
Assigned == \A i \in infraenvs : i.hosts = "assigned"
Reached == \A s \in sims : s.bastion

DeployKnows(r) ==
  /\ r.pc # "deleteImage"
  /\ r.pc \in ClusterPlaces => HasCluster(r)
  /\ r.pc \in InfraEnvPlaces => HasInfraEnv(r)
  /\ r.pc \in ImagePlaces =>
       /\ ~r.swap /\ r.target \in {Blank, r.infra}
       /\ r.target # Blank => Has(r.blank, Blank)
  /\ r.pc \in SimPlaces => Has(r.image, r.infra) /\ Has(r.blank, Blank)
  /\ r.pc \in LabPlaces => HasLab(r.spec)
  /\ r.pc \in {"jumpHost", "install", "startInstall", "download"} => Assigned
  /\ r.pc \in {"install", "startInstall", "download"} => Reached
  /\ r.pc = "startInstall" => \A k \in clusters : ~k.started
  /\ r.pc = "download" => \A k \in clusters : k.status = "installed"

(***************************************************************************)
(* ... and while it destroys: what it looked for and did not find is not   *)
(* there, and what it has passed is gone.                                  *)
(***************************************************************************)
Seeking == {"seekCluster", "seekInfraEnv"}
Ending == {"dropHosts", "dropInfraEnv", "infraEnvGone", "dropCluster",
           "clusterGone"}
SimGone == {"dropImage", "imageGone"} \cup Ending

DestroyKnows(r) ==
  /\ r.pc \in Seeking => r.target = 0 /\ r.infra = 0
  /\ r.pc \in Seeking \cup {"listHosts", "seekSim", "seekImage", "imageGone"}
                \cup Ending => r.image = 0
  /\ r.pc \in DestroyPlaces \ {"seekCluster"} /\ r.cluster = 0 =>
       clusters = {}
  /\ r.pc \in DestroyPlaces \ Seeking =>
       /\ r.target = r.infra
       /\ r.infra = 0 => infraenvs = {}
       /\ \A i \in infraenvs : i.id = r.infra
  /\ r.pc \in {"seekImage", "actSim"} /\ r.seen = "none" => sims = {}
  /\ r.pc \in {"actSim", "refindSim"} \cup SimGone =>
       \A m \in images : m.name # Blank => m.id = r.image
  /\ r.pc \in SimGone => sims = {}
  /\ r.pc \in {"dropCluster", "clusterGone"} => infraenvs = {}
  /\ r.pc = "destroyed" => clusters = {} /\ infraenvs = {} /\ sims = {}

(* And when a deployment is over, until the next command is given.         *)
Usable(cluster) ==
  /\ clusters # {} /\ \A k \in clusters :
       k.id = cluster /\ k.status = "installed" /\ HasLab(k.spec)
  /\ Assigned /\ Reached

Place(r, cluster) ==
  /\ LookedFirst(r) /\ DeployKnows(r) /\ DestroyKnows(r)
  /\ r.pc = "deployed" => Usable(cluster)

SoloInv ==
  LabInv /\ Linked /\ foreign = 0 /\ \A c \in Clients : Place(me[c], creds[c])
-----------------------------------------------------------------------------
(***************************************************************************)
(* What the invariant gives at hand.                                       *)
(***************************************************************************)
LEMMA Given ==
  ASSUME SoloInv, NEW c \in Clients
  PROVE  /\ me \in [Clients -> Process] /\ me[c] \in Process
         /\ Place(me[c], creds[c]) /\ Linked
         /\ clusters \subseteq Cluster /\ infraenvs \subseteq InfraEnv
         /\ images \subseteq Image /\ sims \subseteq Simulation
         /\ nextId \in Nat \ {0}
         /\ \A m \in images : 0 < m.id /\ m.id < nextId
         /\ \A m, n \in images : m.id = n.id => m = n
<1>1. LabInv
  BY DEF SoloInv
<1>2. me \in [Clients -> Process] /\ me[c] \in Process /\ ServicesTypeOK
  BY <1>1 DEF LabInv, TypeOK
<1>3. /\ \A m \in images : 0 < m.id /\ m.id < nextId
      /\ \A m, n \in images : m.id = n.id => m = n
  BY <1>1 DEF LabInv, ImagesInv, ImagesBelow
<1> QED BY <1>2, <1>3 DEF SoloInv, ServicesTypeOK

LEMMA Alone ==
  ASSUME NEW S, One(S), NEW x \in S
  PROVE  S = {x} /\ \A y : Updated(S, x, y) = {y}
BY DEF One, Updated

-----------------------------------------------------------------------------
(***************************************************************************)
(* What the edits in place leave as it is.                                 *)
(***************************************************************************)
LEMMA Unmoved ==
  ASSUME Linked, UNCHANGED <<clusters, infraenvs, images, sims>>,
         NEW q, NEW id, Place(q, id)
  PROVE  Linked' /\ Place(q, id)'
<1>1. /\ clusters' = clusters /\ infraenvs' = infraenvs
      /\ images' = images /\ sims' = sims
  OBVIOUS
<1>2. Linked'
  BY <1>1 DEF Linked, Uniques, One, ClusterLinks, InfraEnvLinks, ImageLinks,
              SimLinks, Has
<1>3. Place(q, id)'
  BY <1>1 DEF Place, LookedFirst, DeployKnows, DestroyKnows, Usable, Has,
              HasCluster, HasInfraEnv, HasLab, Assigned, Reached
<1> QED BY <1>2, <1>3

LEMMA ClusterEdited ==
  ASSUME Linked, NEW k \in clusters, NEW l,
         l.id = k.id, l.spec = k.spec,
         l.requests <= 1, l.requests > 0 => l.started,
         k.status = "installed" => l.status = "installed",
         clusters' = Updated(clusters, k, l),
         UNCHANGED <<infraenvs, images, sims>>,
         NEW q, NEW id, Place(q, id),
         q.pc = "startInstall" => l.started = k.started
  PROVE  Linked' /\ Place(q, id)'
<1>1. /\ clusters = {k} /\ clusters' = {l} /\ infraenvs' = infraenvs
      /\ images' = images /\ sims' = sims
  BY Alone DEF Linked, Uniques
<1>2. Linked'
  BY <1>1 DEF Linked, Uniques, One, ClusterLinks, InfraEnvLinks, ImageLinks,
              SimLinks, Has
<1>3. LookedFirst(q)' /\ DestroyKnows(q)'
  BY <1>1 DEF Place, LookedFirst, DestroyKnows
<1>4. DeployKnows(q)'
  BY <1>1 DEF Place, DeployKnows, Has, HasCluster, HasInfraEnv, HasLab,
              Assigned, Reached
<1>5. Usable(id) => Usable(id)'
  BY <1>1 DEF Usable, HasLab, Assigned, Reached
<1> QED BY <1>2, <1>3, <1>4, <1>5 DEF Place

LEMMA InfraEnvEdited ==
  ASSUME Linked, NEW i \in infraenvs, NEW j,
         j.id = i.id, j.spec = i.spec, j.cluster = i.cluster,
         i.hosts = "assigned" => j.hosts = "assigned",
         infraenvs' = Updated(infraenvs, i, j),
         UNCHANGED <<clusters, images, sims>>,
         NEW q, NEW id, Place(q, id)
  PROVE  Linked' /\ Place(q, id)'
<1>1. /\ infraenvs = {i} /\ infraenvs' = {j} /\ clusters' = clusters
      /\ images' = images /\ sims' = sims
  BY Alone DEF Linked, Uniques
<1>2. Linked'
  BY <1>1 DEF Linked, Uniques, One, ClusterLinks, InfraEnvLinks, ImageLinks,
              SimLinks, Has
<1>3. LookedFirst(q)' /\ DestroyKnows(q)'
  BY <1>1 DEF Place, LookedFirst, DestroyKnows
<1>4. DeployKnows(q)'
  BY <1>1 DEF Place, DeployKnows, Has, HasCluster, HasInfraEnv, HasLab,
              Assigned, Reached
<1>5. Usable(id) => Usable(id)'
  BY <1>1 DEF Usable, HasLab, Assigned, Reached
<1> QED BY <1>2, <1>3, <1>4, <1>5 DEF Place

LEMMA ImageEdited ==
  ASSUME Linked, NEW m \in images, NEW n,
         n.id = m.id, n.name = m.name, n.owner = m.owner, n.alike = m.alike,
         images' = Updated(images, m, n),
         UNCHANGED <<clusters, infraenvs, sims>>,
         NEW q, NEW id, Place(q, id)
  PROVE  Linked' /\ Place(q, id)'
<1>1. /\ images' = (images \ {m}) \cup {n} /\ clusters' = clusters
      /\ infraenvs' = infraenvs /\ sims' = sims
  BY DEF Updated
<1>2. \A x, name : Has(x, name) => Has(x, name)'
  BY <1>1 DEF Has
<1>3. Linked'
  <2>1. Uniques' /\ ClusterLinks' /\ InfraEnvLinks'
    BY <1>1 DEF Linked, Uniques, One, ClusterLinks, InfraEnvLinks
  <2>2. ImageLinks'
    BY <1>1 DEF Linked, ImageLinks
  <2>3. SimLinks'
    BY <1>1 DEF Linked, SimLinks, Has
  <2> QED BY <2>1, <2>2, <2>3 DEF Linked
<1>4. LookedFirst(q)'
  BY <1>1 DEF Place, LookedFirst
<1>5. DestroyKnows(q)'
  BY <1>1 DEF Place, DestroyKnows
<1>6. DeployKnows(q)'
  BY <1>1 DEF Place, DeployKnows, Has, HasCluster, HasInfraEnv, HasLab,
              Assigned, Reached
<1>7. Usable(id) => Usable(id)'
  BY <1>1 DEF Usable, HasLab, Assigned, Reached
<1> QED BY <1>3, <1>4, <1>5, <1>6, <1>7 DEF Place

LEMMA SimEdited ==
  ASSUME Linked, NEW s \in sims, NEW t,
         t.spec = s.spec, t.image = s.image, t.infra = s.infra,
         t.blank = s.blank, s.managed => t.managed, s.bastion => t.bastion,
         t.req = "delete" => t.status \in {"INACTIVE", "INVALID"},
         sims' = Updated(sims, s, t),
         UNCHANGED <<clusters, infraenvs, images>>,
         NEW q, NEW id, Place(q, id),
         q.pc \in LabPlaces \cup {"deployed"} /\ Stays(s) => Stays(t)
  PROVE  Linked' /\ Place(q, id)'
<1>1. /\ sims = {s} /\ sims' = {t} /\ clusters' = clusters
      /\ images' = images /\ infraenvs' = infraenvs
  BY Alone DEF Linked, Uniques
<1>2. Linked'
  <2>1. Uniques' /\ ClusterLinks' /\ InfraEnvLinks'
    BY <1>1 DEF Linked, Uniques, One, ClusterLinks, InfraEnvLinks
  <2>2. ImageLinks'
    BY <1>1 DEF Linked, ImageLinks
  <2>3. SimLinks'
    BY <1>1 DEF Linked, SimLinks, Has
  <2> QED BY <2>1, <2>2, <2>3 DEF Linked
<1>3. LookedFirst(q)' /\ DestroyKnows(q)'
  BY <1>1 DEF Place, LookedFirst, DestroyKnows
<1>4. DeployKnows(q)'
  BY <1>1 DEF Place, DeployKnows, Has, HasCluster, HasInfraEnv, HasLab,
              Assigned, Reached, LabPlaces
<1>5. q.pc = "deployed" /\ Usable(id) => Usable(id)'
  BY <1>1 DEF Usable, HasLab, Assigned, Reached
<1> QED BY <1>2, <1>3, <1>4, <1>5 DEF Place
-----------------------------------------------------------------------------
(***************************************************************************)
(* Where the looks of a deployment lead.                                   *)
(***************************************************************************)
LEMMA Rests ==
  ASSUME NEW p \in {"idle", "refused", "timedout", "interrupted"}, NEW id
  PROVE  Place(Fresh(p), id)
BY DEF Fresh, Place, LookedFirst, DeployKnows, DestroyKnows, DestroyPlaces,
       ClusterPlaces, InfraEnvPlaces, ImagePlaces, SimPlaces, LabPlaces,
       Seeking, Ending, SimGone

LEMMA Refusing ==
  ASSUME SoloInv, NEW c \in Clients,
         Refuse(c) \/ TimeOut(c) \/ End(c, "interrupted"),
         NEW q, q = me'[c], NEW id
  PROVE  Place(q, id)
<1>1. \E p \in {"idle", "refused", "timedout", "interrupted"} : q = Fresh(p)
  BY Given DEF Refuse, TimeOut, End
<1> QED BY <1>1, Rests

LEMMA Goes ==
  ASSUME SoloInv, NEW c \in Clients, NEW p, Goto(c, p), NEW q, q = me'[c]
  PROVE  q = [me[c] EXCEPT !.pc = p]
BY Given DEF Goto

(* The places of a deployment say nothing about a destruction.             *)
LEMMA Deploying ==
  ASSUME NEW q, q.pc \in DeployPlaces, NEW id,
         LookedFirst(q), DeployKnows(q)
  PROVE  Place(q, id)
BY DEF Place, DestroyKnows, DeployPlaces, DestroyPlaces, Seeking, Ending,
       SimGone

LEMMA Destroying ==
  ASSUME NEW q, q.pc \in DestroyPlaces, NEW id, DestroyKnows(q)
  PROVE  Place(q, id)
BY DEF Place, LookedFirst, DeployKnows, DestroyPlaces, ClusterPlaces,
       InfraEnvPlaces, ImagePlaces, SimPlaces, LabPlaces

LEMMA PreflightLooks ==
  ASSUME SoloInv, NEW c \in Clients, NEW q, q = me'[c], NEW id,
         PreflightSimulation(c) \/ PreflightInfraEnv(c) \/ PreflightImage(c)
  PROVE  Place(q, id)
<1>1. me \in [Clients -> Process] /\ me[c] \in Process
  BY Given
<1>2. ASSUME q.pc \in {"preflightInfraEnv", "preflightImage", "cluster"}
      PROVE  Place(q, id)
  BY <1>2, Deploying
     DEF DeployPlaces, LookedFirst, DeployKnows, ClusterPlaces,
         InfraEnvPlaces, ImagePlaces, SimPlaces, LabPlaces
<1>3. CASE PreflightSimulation(c)
  <2>1. Goto(c, "preflightInfraEnv") => q.pc = "preflightInfraEnv"
    BY <1>1, Goes DEF Process
  <2> QED BY <1>2, <1>3, <2>1, Refusing DEF PreflightSimulation
<1>4. CASE PreflightInfraEnv(c)
  <2>1. Goto(c, "cluster") => q.pc = "cluster"
    BY <1>1, Goes DEF Process
  <2>2. ASSUME NEW i,
               Become(c, [me[c] EXCEPT !.pc = "preflightImage", !.target = i])
        PROVE  q.pc = "preflightImage"
    BY <1>1, <2>2 DEF Become, Process
  <2> QED BY <1>2, <1>4, <2>1, <2>2, Refusing DEF PreflightInfraEnv
<1>5. CASE PreflightImage(c)
  <2>1. Become(c, [me[c] EXCEPT !.pc = "cluster", !.target = 0])
          => q.pc = "cluster"
    BY <1>1 DEF Become, Process
  <2> QED BY <1>2, <1>5, <2>1, Refusing DEF PreflightImage
<1> QED BY <1>3, <1>4, <1>5

LEMMA ClusterAsSpecified ==
  ASSUME NEW c \in Clients, NEW k, ClusterDecision(c, k) \in ClusterUsable
  PROVE  k.spec = me[c].spec
BY DEF ClusterDecision, ClusterAction, ClusterUsable

LEMMA ReconcileClusterLooks ==
  ASSUME SoloInv, NEW c \in Clients, NEW q, q = me'[c], NEW id,
         ReconcileCluster(c)
  PROVE  Place(q, id)
<1>1. me \in [Clients -> Process] /\ me[c] \in Process
  BY Given
<1>2. CASE clusters = {} /\ Goto(c, "createCluster")
  <2>1. q.pc = "createCluster"
    BY <1>1, <1>2 DEF Goto, Process
  <2> QED BY <1>2, <2>1, Deploying
     DEF DeployPlaces, LookedFirst, DeployKnows, ClusterPlaces,
         InfraEnvPlaces, ImagePlaces, SimPlaces, LabPlaces
<1>3. ASSUME NEW k, clusters = {k}, ClusterDecision(c, k) \in ClusterUsable,
             Become(c, [me[c] EXCEPT !.pc = "infraenv", !.cluster = k.id,
                          !.started = k.started])
      PROVE  Place(q, id)
  <2>1. q.pc = "infraenv" /\ q.cluster = k.id /\ q.spec = me[c].spec
    BY <1>1, <1>3 DEF Become, Process
  <2>2. HasCluster(q)
    BY <1>3, <2>1, ClusterAsSpecified DEF HasCluster
  <2> QED BY <2>1, <2>2, Deploying
     DEF DeployPlaces, LookedFirst, DeployKnows, ClusterPlaces,
         InfraEnvPlaces, ImagePlaces, SimPlaces, LabPlaces
<1> QED BY <1>2, <1>3, Refusing DEF ReconcileCluster

LEMMA InfraEnvAsSpecified ==
  ASSUME NEW c \in Clients, NEW i,
         InfraEnvDecision(c, i) \in {"download-iso", "ready"}
  PROVE  i.spec = me[c].spec
BY DEF InfraEnvDecision, InfraEnvAction

LEMMA ReconcileInfraEnvLooks ==
  ASSUME SoloInv, NEW c \in Clients, NEW q, q = me'[c], NEW id,
         ReconcileInfraEnv(c)
  PROVE  Place(q, id)
<1>1. me \in [Clients -> Process] /\ me[c] \in Process
  BY Given
<1>2. HasCluster(me[c])
  BY Given DEF ReconcileInfraEnv, At, Place, DeployKnows, ClusterPlaces
<1>3. CASE infraenvs = {} /\ Goto(c, "createInfraEnv")
  <2>1. /\ q.pc = "createInfraEnv" /\ q.cluster = me[c].cluster
        /\ q.spec = me[c].spec
    BY <1>1, <1>3 DEF Goto, Process
  <2>2. HasCluster(q)
    BY <1>2, <2>1 DEF HasCluster
  <2> QED BY <1>3, <2>1, <2>2, Deploying
     DEF DeployPlaces, LookedFirst, DeployKnows, ClusterPlaces,
         InfraEnvPlaces, ImagePlaces, SimPlaces, LabPlaces
<1>4. ASSUME NEW i, infraenvs = {i},
             InfraEnvDecision(c, i) \in {"download-iso", "ready"},
             NEW p \in {"downloadIso", "blankLook"},
             Become(c, [me[c] EXCEPT !.pc = p, !.infra = i.id])
      PROVE  Place(q, id)
  <2>1. /\ q.pc = p /\ q.cluster = me[c].cluster
        /\ q.spec = me[c].spec /\ q.infra = i.id
    BY <1>1, <1>4 DEF Become, Process
  <2>2. HasCluster(q)
    BY <1>2, <2>1 DEF HasCluster
  <2>3. HasInfraEnv(q)
    BY <1>4, <2>1, InfraEnvAsSpecified DEF HasInfraEnv
  <2> QED BY <2>1, <2>2, <2>3, Deploying
     DEF DeployPlaces, LookedFirst, DeployKnows, ClusterPlaces,
         InfraEnvPlaces, ImagePlaces, SimPlaces, LabPlaces
<1> QED BY <1>3, <1>4, Refusing DEF ReconcileInfraEnv

LEMMA DownloadIsoLooks ==
  ASSUME SoloInv, NEW c \in Clients, NEW q, q = me'[c], NEW id,
         DownloadIso(c)
  PROVE  Place(q, id)
<1>1. me \in [Clients -> Process] /\ me[c] \in Process
  BY Given
<1>2. HasCluster(me[c])
  BY Given DEF DownloadIso, At, Place, DeployKnows, ClusterPlaces
<1>3. CASE Become(c, [me[c] EXCEPT !.pc = "infraenv", !.infra = 0])
  <2>1. /\ q.pc = "infraenv" /\ q.cluster = me[c].cluster
        /\ q.spec = me[c].spec
    BY <1>1, <1>3 DEF Become, Process
  <2>2. HasCluster(q)
    BY <1>2, <2>1 DEF HasCluster
  <2> QED BY <2>1, <2>2, Deploying
     DEF DeployPlaces, LookedFirst, DeployKnows, ClusterPlaces,
         InfraEnvPlaces, ImagePlaces, SimPlaces, LabPlaces
<1> QED BY <1>3, Refusing DEF DownloadIso

(* Every image is as intended and the user's, so none is ever swapped.     *)
LEMMA NoSwap ==
  ASSUME SoloInv, NEW c \in Clients, NEW m \in images
  PROVE  ~ImageDrift(c, m) /\ ~ReplacesBlank(c, m)
<1>1. ~ImageDrift(c, m)
  BY Given DEF Linked, ImageLinks, ImageDrift
<1> QED BY <1>1 DEF ReplacesBlank, ImageAction

LEMMA BlankLookLooks ==
  ASSUME SoloInv, NEW c \in Clients, NEW q, q = me'[c], NEW id,
         BlankLook(c)
  PROVE  Place(q, id)
<1>1. me \in [Clients -> Process] /\ me[c] \in Process
  BY Given
<1>2. HasCluster(me[c]) /\ HasInfraEnv(me[c])
  BY Given DEF BlankLook, At, Place, DeployKnows, ClusterPlaces,
               InfraEnvPlaces
<1> DEFINE swap == \E m \in ImagesNamed(Blank) : ReplacesBlank(c, m)
<1>3. ~swap
  BY NoSwap DEF ImagesNamed
<1>4. \/ Refuse(c)
      \/ Become(c, [me[c] EXCEPT !.pc = "image", !.target = Blank,
                      !.swap = swap])
  BY DEF BlankLook
<1> HIDE DEF swap
<1>5. CASE Become(c, [me[c] EXCEPT !.pc = "image", !.target = Blank,
                        !.swap = swap])
  <2>1. /\ q.pc = "image" /\ q.cluster = me[c].cluster /\ q.target = Blank
        /\ q.spec = me[c].spec /\ q.infra = me[c].infra /\ q.swap = swap
    BY <1>1, <1>5 DEF Become, Process
  <2>2. HasCluster(q) /\ HasInfraEnv(q)
    BY <1>2, <2>1 DEF HasCluster, HasInfraEnv
  <2> QED BY <1>3, <2>1, <2>2, Deploying
     DEF DeployPlaces, LookedFirst, DeployKnows, ClusterPlaces,
         InfraEnvPlaces, ImagePlaces, SimPlaces, LabPlaces
<1> QED BY <1>4, <1>5, Refusing

LEMMA ImageReadyLooks ==
  ASSUME SoloInv, NEW c \in Clients, NEW q, q = me'[c], NEW id,
         NEW m \in images, m.name = me[c].target, At(c, "image"),
         ImageReady(c, m)
  PROVE  Place(q, id)
<1>1. me \in [Clients -> Process] /\ me[c] \in Process
  BY Given
<1>2. /\ HasCluster(me[c]) /\ HasInfraEnv(me[c])
      /\ me[c].target \in {Blank, me[c].infra}
      /\ me[c].target # Blank => Has(me[c].blank, Blank)
      /\ ~me[c].swap
  BY Given DEF At, Place, DeployKnows, ClusterPlaces, InfraEnvPlaces,
               ImagePlaces
<1>3. CASE me[c].target = Blank
  <2>1. /\ q.pc = "image" /\ q.cluster = me[c].cluster
        /\ q.target = me[c].infra /\ q.swap = FALSE /\ q.blank = m.id
        /\ q.spec = me[c].spec /\ q.infra = me[c].infra
    BY <1>1, <1>3, At(c, "image") DEF ImageReady, Become, Process, At
  <2>2. HasCluster(q) /\ HasInfraEnv(q) /\ Has(q.blank, Blank)
    BY <1>2, <1>3, <2>1 DEF HasCluster, HasInfraEnv, Has
  <2> QED BY <2>1, <2>2, Deploying
     DEF DeployPlaces, LookedFirst, DeployKnows, ClusterPlaces,
         InfraEnvPlaces, ImagePlaces, SimPlaces, LabPlaces
<1>4. CASE me[c].target # Blank
  <2>1. /\ q.pc = "missingSim" /\ q.cluster = me[c].cluster
        /\ q.image = m.id /\ q.blank = me[c].blank
        /\ q.spec = me[c].spec /\ q.infra = me[c].infra
    BY <1>1, <1>4 DEF ImageReady, Become, Process
  <2>2. /\ HasCluster(q) /\ HasInfraEnv(q) /\ Has(q.blank, Blank)
        /\ Has(q.image, q.infra)
    BY <1>2, <1>4, <2>1 DEF HasCluster, HasInfraEnv, Has
  <2> QED BY <2>1, <2>2, Deploying
     DEF DeployPlaces, LookedFirst, DeployKnows, ClusterPlaces,
         InfraEnvPlaces, ImagePlaces, SimPlaces, LabPlaces
<1> QED BY <1>3, <1>4

LEMMA ReconcileImageLooks ==
  ASSUME SoloInv, NEW c \in Clients, NEW q, q = me'[c], NEW id,
         ReconcileImage(c)
  PROVE  Place(q, id)
<1>1. me \in [Clients -> Process] /\ me[c] \in Process /\ At(c, "image")
  BY Given DEF ReconcileImage
<1>2. /\ HasCluster(me[c]) /\ HasInfraEnv(me[c])
      /\ me[c].target \in {Blank, me[c].infra}
      /\ me[c].target # Blank => Has(me[c].blank, Blank)
      /\ ~me[c].swap
  BY <1>1, Given DEF At, Place, DeployKnows, ClusterPlaces, InfraEnvPlaces,
               ImagePlaces
<1>3. ASSUME NEW i, NEW p \in {"createImage", "uploadImage"},
             p = "createImage" => ImagesNamed(me[c].target) = {},
             \/ q = [me[c] EXCEPT !.pc = p]
             \/ q = [me[c] EXCEPT !.pc = p, !.image = i]
      PROVE  Place(q, id)
  <2>1. /\ q.pc = p /\ q.cluster = me[c].cluster /\ q.swap = me[c].swap
        /\ q.target = me[c].target /\ q.blank = me[c].blank
        /\ q.spec = me[c].spec /\ q.infra = me[c].infra
    BY <1>1, <1>3 DEF Process
  <2>2. HasCluster(q) /\ HasInfraEnv(q)
    BY <1>2, <2>1 DEF HasCluster, HasInfraEnv
  <2>3. LookedFirst(q)
    BY <1>3, <2>1 DEF LookedFirst, ImagesNamed
  <2> QED BY <1>2, <2>1, <2>2, <2>3, Deploying
     DEF DeployPlaces, DeployKnows, ClusterPlaces,
         InfraEnvPlaces, ImagePlaces, SimPlaces, LabPlaces
<1>4. CASE ImagesNamed(me[c].target) = {} /\ Goto(c, "createImage")
  <2>1. q = [me[c] EXCEPT !.pc = "createImage"]
    BY <1>1, <1>4 DEF Goto
  <2> QED BY <1>3, <1>4, <2>1
<1>5. ASSUME NEW m \in images,
             Become(c, [me[c] EXCEPT !.pc = "uploadImage", !.image = m.id])
      PROVE  Place(q, id)
  <2>1. q = [me[c] EXCEPT !.pc = "uploadImage", !.image = m.id]
    BY <1>1, <1>5 DEF Become
  <2> QED BY <1>3, <2>1
<1>6. ASSUME NEW m PROVE ImageDecision(c, m) # "replace"
  BY <1>2 DEF ImageDecision, ImageAction
<1>7. ASSUME NEW m \in images, m.name = me[c].target, ImageReady(c, m)
      PROVE  Place(q, id)
  BY <1>1, <1>7, ImageReadyLooks
<1>8. \A m \in ImagesNamed(me[c].target) :
        m \in images /\ m.name = me[c].target
  BY DEF ImagesNamed
<1> QED BY <1>4, <1>5, <1>6, <1>7, <1>8, Refusing DEF ReconcileImage

(* While the simulation is reconciled the process knows cluster, InfraEnv  *)
(* and both images; what it knows of its locals it keeps.                  *)
KnowsImages(r) ==
  /\ HasCluster(r) /\ HasInfraEnv(r)
  /\ Has(r.image, r.infra) /\ Has(r.blank, Blank)

LEMMA AtSimPlaces ==
  ASSUME SoloInv, NEW c \in Clients, me[c].pc \in SimPlaces
  PROVE  KnowsImages(me[c])
BY Given DEF Place, DeployKnows, ClusterPlaces, InfraEnvPlaces, KnowsImages

LEMMA ToSimPlaces ==
  ASSUME NEW r, KnowsImages(r), NEW q, q.pc \in SimPlaces, NEW id,
         q.cluster = r.cluster, q.spec = r.spec, q.infra = r.infra,
         q.image = r.image, q.blank = r.blank,
         q.pc = "importSim" => sims = {}
  PROVE  Place(q, id)
<1>1. KnowsImages(q)
  BY DEF KnowsImages, HasCluster, HasInfraEnv
<1> QED BY <1>1, Deploying
     DEF KnowsImages, DeployPlaces, LookedFirst, DeployKnows, ClusterPlaces,
         InfraEnvPlaces, ImagePlaces, SimPlaces, LabPlaces

LEMMA SimulationWaitLooks ==
  ASSUME SoloInv, NEW c \in Clients, NEW q, q = me'[c], NEW id,
         CheckMissingSimulation(c) \/ AwaitImport(c) \/ RecheckCapacity(c)
  PROVE  Place(q, id)
<1>1. /\ me \in [Clients -> Process] /\ me[c] \in Process
      /\ KnowsImages(me[c])
  BY Given, AtSimPlaces DEF CheckMissingSimulation, AwaitImport,
     RecheckCapacity, At, SimPlaces
<1>2. CASE CheckMissingSimulation(c)
  <2>1. CASE Become(c, [me[c] EXCEPT !.pc = "sim", !.started = FALSE])
    <3>1. /\ q.pc = "sim" /\ q.cluster = me[c].cluster /\ q.spec = me[c].spec
          /\ q.infra = me[c].infra /\ q.image = me[c].image
          /\ q.blank = me[c].blank
      BY <1>1, <2>1 DEF Become, Process
    <3> QED BY <1>1, <3>1, ToSimPlaces DEF SimPlaces
  <2> QED BY <1>2, <2>1, Refusing DEF CheckMissingSimulation
<1>3. CASE AwaitImport(c)
  <2>1. CASE Goto(c, "claimSim")
    <3>1. /\ q.pc = "claimSim" /\ q.cluster = me[c].cluster
          /\ q.spec = me[c].spec /\ q.infra = me[c].infra
          /\ q.image = me[c].image /\ q.blank = me[c].blank
      BY <1>1, <2>1 DEF Goto, Process
    <3> QED BY <1>1, <3>1, ToSimPlaces DEF SimPlaces
  <2> QED BY <1>3, <2>1, Refusing DEF AwaitImport
<1>4. CASE RecheckCapacity(c)
  <2>1. CASE Become(c, [me[c] EXCEPT !.pc = "sim", !.sim = 0,
                          !.rechecked = TRUE])
    <3>1. /\ q.pc = "sim" /\ q.cluster = me[c].cluster /\ q.spec = me[c].spec
          /\ q.infra = me[c].infra /\ q.image = me[c].image
          /\ q.blank = me[c].blank
      BY <1>1, <2>1 DEF Become, Process
    <3> QED BY <1>1, <3>1, ToSimPlaces DEF SimPlaces
  <2> QED BY <1>4, <2>1, Refusing DEF RecheckCapacity
<1> QED BY <1>2, <1>3, <1>4

(* Ready is only an active simulation of this spec, and the project's.     *)
LEMMA SimulationAsSpecified ==
  ASSUME NEW c \in Clients, NEW s \in Simulation,
         SimulationDecision(c, s) = "ready"
  PROVE  s.status = "ACTIVE" /\ s.managed /\ s.spec = me[c].spec
BY DEF Simulation, SimulationDecision, SimulationAction, SimulationDrift,
       AirSimulationStatus, SimulationCreating, SimulationStarting,
       SimulationStopping, SimulationDeleting

LEMMA ReconcileSimulationLooks ==
  ASSUME SoloInv, NEW c \in Clients, NEW q, q = me'[c], NEW id,
         ReconcileSimulation(c)
  PROVE  Place(q, id)
<1>1. /\ me \in [Clients -> Process] /\ me[c] \in Process
      /\ KnowsImages(me[c]) /\ sims \subseteq Simulation
      /\ SimLinks
  BY Given, AtSimPlaces DEF ReconcileSimulation, At, SimPlaces, Linked
<1>2. CASE NeedsImport /\ Goto(c, "importSim")
  <2>1. /\ q.pc = "importSim" /\ q.cluster = me[c].cluster
        /\ q.spec = me[c].spec /\ q.infra = me[c].infra
        /\ q.image = me[c].image /\ q.blank = me[c].blank
    BY <1>1, <1>2 DEF Goto, Process
  <2> QED BY <1>1, <1>2, <2>1, ToSimPlaces DEF SimPlaces, NeedsImport
<1>3. ASSUME NEW i, NEW p \in {"startSim", "recheckCapacity"},
             Become(c, [me[c] EXCEPT !.pc = p, !.sim = i])
      PROVE  Place(q, id)
  <2>1. /\ q.pc = p /\ q.cluster = me[c].cluster
        /\ q.spec = me[c].spec /\ q.infra = me[c].infra
        /\ q.image = me[c].image /\ q.blank = me[c].blank
    BY <1>1, <1>3 DEF Become, Process
  <2> QED BY <1>1, <2>1, ToSimPlaces DEF SimPlaces
<1>4. ASSUME NEW s \in sims, sims = {s}, SimulationDecision(c, s) = "ready",
             Become(c, [me[c] EXCEPT !.pc = "hosts", !.sim = s.id,
                          !.infra = 0, !.blank = 0, !.image = 0,
                          !.asked = FALSE, !.rechecked = FALSE])
      PROVE  Place(q, id)
  <2>1. q.pc = "hosts" /\ q.cluster = me[c].cluster /\ q.spec = me[c].spec
    BY <1>1, <1>4 DEF Become, Process
  <2>2. HasCluster(q)
    BY <1>1, <2>1 DEF KnowsImages, HasCluster
  <2>3. s.status = "ACTIVE" /\ s.managed /\ s.spec = me[c].spec
    BY <1>1, <1>4, SimulationAsSpecified
  <2>4. Stays(s)
    BY <1>1, <2>3 DEF SimLinks, Stays
  <2>5. HasLab(q.spec)
    BY <1>1, <1>4, <2>1, <2>3, <2>4 DEF KnowsImages, HasInfraEnv, HasLab
  <2> QED BY <2>1, <2>2, <2>5, Deploying
     DEF DeployPlaces, LookedFirst, DeployKnows, ClusterPlaces,
         InfraEnvPlaces, ImagePlaces, SimPlaces, LabPlaces
<1> QED BY <1>2, <1>3, <1>4, Refusing DEF ReconcileSimulation

(* From the hosts on the lab stands, and the process keeps its cluster.    *)
LEMMA AtLabPlaces ==
  ASSUME SoloInv, NEW c \in Clients, me[c].pc \in LabPlaces
  PROVE  HasCluster(me[c]) /\ HasLab(me[c].spec)
BY Given DEF Place, DeployKnows, ClusterPlaces

LEMMA ToLabPlaces ==
  ASSUME NEW r, HasCluster(r), HasLab(r.spec),
         NEW q, q.pc \in LabPlaces, NEW id,
         q.cluster = r.cluster, q.spec = r.spec,
         q.pc \in {"jumpHost", "install", "startInstall", "download"}
           => Assigned,
         q.pc \in {"install", "startInstall", "download"} => Reached,
         q.pc = "startInstall" => \A k \in clusters : ~k.started,
         q.pc = "download" => \A k \in clusters : k.status = "installed"
  PROVE  Place(q, id)
<1>1. HasCluster(q)
  BY DEF HasCluster
<1> QED BY <1>1, Deploying
     DEF DeployPlaces, LookedFirst, DeployKnows, ClusterPlaces,
         InfraEnvPlaces, ImagePlaces, SimPlaces, LabPlaces

LEMMA ReconcileHostsLooks ==
  ASSUME SoloInv, NEW c \in Clients, NEW q, q = me'[c], NEW id,
         ReconcileHosts(c)
  PROVE  Place(q, id)
<1>1. /\ me \in [Clients -> Process] /\ me[c] \in Process
      /\ HasCluster(me[c]) /\ HasLab(me[c].spec) /\ One(infraenvs)
  BY Given, AtLabPlaces DEF ReconcileHosts, At, LabPlaces, Linked, Uniques
<1>2. ASSUME NEW i,
             Become(c, [me[c] EXCEPT !.pc = "assignRoles", !.target = i])
      PROVE  Place(q, id)
  <2>1. /\ q.pc = "assignRoles" /\ q.cluster = me[c].cluster
        /\ q.spec = me[c].spec
    BY <1>1, <1>2 DEF Become, Process
  <2> QED BY <1>1, <2>1, ToLabPlaces DEF LabPlaces
<1>3. ASSUME NEW k, NEW i \in HostsOf(k), HostsAccepted(k, i),
             Goto(c, "jumpHost")
      PROVE  Place(q, id)
  <2>1. /\ q.pc = "jumpHost" /\ q.cluster = me[c].cluster
        /\ q.spec = me[c].spec
    BY <1>1, <1>3 DEF Goto, Process
  <2>2. Assigned
    BY <1>1, <1>3 DEF HostsOf, HostsAccepted, Assigned, One
  <2> QED BY <1>1, <2>1, <2>2, ToLabPlaces DEF LabPlaces
<1> QED BY <1>2, <1>3, Refusing DEF ReconcileHosts, AfterHosts

LEMMA InstallationDecided ==
  ASSUME NEW c \in Clients, NEW k
  PROVE  /\ ClusterDecision(c, k) = "start-install" => ~k.started
         /\ ClusterDecision(c, k) = "download-credentials" =>
              k.status = "installed"
BY DEF ClusterDecision, ClusterAction

LEMMA ReconcileInstallationLooks ==
  ASSUME SoloInv, NEW c \in Clients, NEW q, q = me'[c], NEW id,
         ReconcileInstallation(c)
  PROVE  Place(q, id)
<1>1. /\ me \in [Clients -> Process] /\ me[c] \in Process
      /\ HasCluster(me[c]) /\ HasLab(me[c].spec) /\ Assigned /\ Reached
  BY Given, AtLabPlaces DEF ReconcileInstallation, At, LabPlaces, Place,
     DeployKnows
<1>2. ASSUME NEW k, clusters = {k},
             NEW p \in {"startInstall", "download"},
             p = "startInstall" => ~k.started,
             p = "download" => k.status = "installed",
             Become(c, [me[c] EXCEPT !.pc = p, !.cluster = k.id])
      PROVE  Place(q, id)
  <2>1. q.pc = p /\ q.cluster = k.id /\ q.spec = me[c].spec
    BY <1>1, <1>2 DEF Become, Process
  <2>2. k.id = me[c].cluster
    BY <1>1, <1>2 DEF HasCluster
  <2> QED BY <1>1, <1>2, <2>1, <2>2, ToLabPlaces DEF LabPlaces
<1>3. ASSUME NEW k, clusters = {k}, ClusterDecision(c, k) = "start-install",
             Become(c, [me[c] EXCEPT !.pc = "startInstall", !.cluster = k.id])
      PROVE  Place(q, id)
  BY <1>2, <1>3, InstallationDecided
<1>4. ASSUME NEW k, clusters = {k},
             ClusterDecision(c, k) = "download-credentials",
             Become(c, [me[c] EXCEPT !.pc = "download", !.cluster = k.id])
      PROVE  Place(q, id)
  BY <1>2, <1>4, InstallationDecided
<1> QED BY <1>3, <1>4, Refusing DEF ReconcileInstallation

(* What the command leaves, when it succeeds, is a usable lab.             *)
LEMMA DownloadLooks ==
  ASSUME SoloInv, NEW c \in Clients, NEW q, q = me'[c], NEW id, id = creds'[c],
         DownloadCredentials(c)
  PROVE  Place(q, id)
<1>1. /\ me \in [Clients -> Process] /\ me[c] \in Process
      /\ HasCluster(me[c]) /\ HasLab(me[c].spec) /\ Assigned /\ Reached
      /\ \A k \in clusters : k.status = "installed"
      /\ creds \in [Clients -> Nat]
  BY Given, AtLabPlaces DEF DownloadCredentials, At, LabPlaces, Place,
     DeployKnows, SoloInv, LabInv, TypeOK
<1>2. CASE End(c, "deployed") /\ creds' = [creds EXCEPT ![c] = me[c].cluster]
  <2>1. q = Fresh("deployed") /\ id = me[c].cluster
    BY <1>1, <1>2 DEF End
  <2>2. Usable(id)
    BY <1>1, <2>1 DEF Usable, HasCluster
  <2> QED BY <2>1, <2>2
     DEF Fresh, Place, LookedFirst, DeployKnows, DestroyKnows, DestroyPlaces,
         ClusterPlaces, InfraEnvPlaces, ImagePlaces, SimPlaces, LabPlaces,
         Seeking, Ending, SimGone
<1> QED BY <1>2, Refusing DEF DownloadCredentials
-----------------------------------------------------------------------------
(***************************************************************************)
(* What a deployment creates, uploads, claims and starts.                  *)
(***************************************************************************)
LEMMA CreateClusterKeeps ==
  ASSUME SoloInv, NEW c \in Clients, NEW q, q = me'[c], NEW id,
         CreateCluster(c)
  PROVE  Linked' /\ Place(q, id)'
<1>1. /\ me \in [Clients -> Process] /\ me[c] \in Process /\ Linked
      /\ clusters = {} /\ nextId \in Nat \ {0}
  BY Given DEF CreateCluster, At, Place, LookedFirst
<1>2. infraenvs = {} /\ sims = {} /\ \A m \in images : m.name = Blank
  BY <1>1 DEF Linked, InfraEnvLinks, SimLinks, ImageLinks
<1>3. q.pc = "cluster"
  BY <1>1 DEF CreateCluster, Goto, Process
<1> DEFINE k == [id |-> nextId, spec |-> me[c].spec,
                 status |-> "pending-for-input", started |-> FALSE,
                 requests |-> 0]
<1>4. /\ clusters' = {k} /\ infraenvs' = {} /\ sims' = {} /\ images' = images
      /\ k.id = nextId /\ k.requests = 0
  BY <1>1, <1>2 DEF CreateCluster
<1> HIDE DEF k
<1>5. Linked'
  BY <1>1, <1>2, <1>4 DEF Linked, Uniques, One, ClusterLinks, InfraEnvLinks,
     ImageLinks, SimLinks
<1>6. Place(q, id)'
  BY <1>3 DEF Place, LookedFirst, DeployKnows, DestroyKnows, DestroyPlaces,
         ClusterPlaces, InfraEnvPlaces, ImagePlaces, SimPlaces, LabPlaces,
         Seeking, Ending, SimGone
<1> QED BY <1>5, <1>6

LEMMA CreateInfraEnvKeeps ==
  ASSUME SoloInv, NEW c \in Clients, NEW q, q = me'[c], NEW id,
         CreateInfraEnv(c)
  PROVE  Linked' /\ Place(q, id)'
<1>1. /\ me \in [Clients -> Process] /\ me[c] \in Process /\ Linked
      /\ infraenvs = {} /\ nextId \in Nat \ {0} /\ HasCluster(me[c])
  BY Given DEF CreateInfraEnv, At, Place, LookedFirst, DeployKnows,
               ClusterPlaces
<1>2. sims = {} /\ \A m \in images : m.name = Blank
  BY <1>1 DEF Linked, SimLinks, ImageLinks
<1>3. CASE Refuse(c) /\ UNCHANGED infraenvs
  BY <1>1, <1>3, Refusing, Unmoved DEF CreateInfraEnv
<1> DEFINE i == [id |-> nextId, spec |-> me[c].spec,
                 cluster |-> me[c].cluster, iso |-> FALSE, hosts |-> "none"]
<1>4. CASE infraenvs' = infraenvs \cup {i} /\ Goto(c, "infraenv")
  <2>1. /\ q.pc = "infraenv" /\ q.cluster = me[c].cluster
        /\ q.spec = me[c].spec
    BY <1>1, <1>4 DEF Goto, Process
  <2>2. /\ infraenvs' = {i} /\ sims' = {} /\ images' = images
        /\ clusters' = clusters
        /\ i.id = nextId /\ i.cluster = me[c].cluster
    BY <1>1, <1>2, <1>4 DEF CreateInfraEnv
  <2> HIDE DEF i
  <2>3. Linked'
    BY <1>1, <1>2, <2>2 DEF Linked, Uniques, One, ClusterLinks,
       InfraEnvLinks, ImageLinks, SimLinks, HasCluster
  <2>4. HasCluster(q)'
    BY <1>1, <2>1, <2>2 DEF HasCluster
  <2>5. Place(q, id)'
    BY <2>1, <2>4 DEF Place, LookedFirst, DeployKnows, DestroyKnows,
         DestroyPlaces, ClusterPlaces, InfraEnvPlaces, ImagePlaces,
         SimPlaces, LabPlaces, Seeking, Ending, SimGone
  <2> QED BY <2>3, <2>5
<1> QED BY <1>3, <1>4 DEF CreateInfraEnv

LEMMA CreateImageKeeps ==
  ASSUME Solo, SoloInv, NEW c \in Clients, NEW q, q = me'[c], NEW id,
         CreateImage(c)
  PROVE  Linked' /\ Place(q, id)'
<1>1. /\ me \in [Clients -> Process] /\ me[c] \in Process /\ Linked
      /\ \A m \in images : m.name # me[c].target
      /\ nextId \in Nat \ {0} /\ HasCluster(me[c]) /\ HasInfraEnv(me[c])
      /\ ~me[c].swap /\ me[c].target \in {Blank, me[c].infra}
      /\ me[c].target # Blank => Has(me[c].blank, Blank)
  BY Given DEF CreateImage, At, Place, LookedFirst, DeployKnows,
               ClusterPlaces, InfraEnvPlaces, ImagePlaces
<1> DEFINE m == [id |-> nextId, name |-> me[c].target, owner |-> User[c],
                 status |-> "READY", alike |-> TRUE]
<1>2. /\ images' = images \cup {m} /\ infraenvs' = infraenvs
      /\ clusters' = clusters /\ sims' = sims
      /\ m.name = me[c].target /\ m.alike /\ m.owner = User[c]
  BY DEF CreateImage
<1> HIDE DEF m
<1>3. \A x, name : Has(x, name) => Has(x, name)'
  BY <1>2 DEF Has
<1>4. Linked'
  <2>1. Uniques' /\ ClusterLinks' /\ InfraEnvLinks'
    BY <1>1, <1>2 DEF Linked, Uniques, One, ClusterLinks, InfraEnvLinks
  <2>2. ImageLinks'
    BY <1>1, <1>2 DEF Linked, ImageLinks, HasInfraEnv, Solo
  <2>3. SimLinks'
    BY <1>1, <1>2, <1>3 DEF Linked, SimLinks, Has
  <2> QED BY <2>1, <2>2, <2>3 DEF Linked
<1>5. /\ q.pc = "image" /\ q.cluster = me[c].cluster /\ q.spec = me[c].spec
      /\ q.infra = me[c].infra /\ q.swap = me[c].swap
      /\ q.target = me[c].target /\ q.blank = me[c].blank
  BY <1>1 DEF CreateImage, Goto, Process
<1>6. /\ HasCluster(q)' /\ HasInfraEnv(q)'
      /\ q.target # Blank => Has(q.blank, Blank)'
  BY <1>1, <1>2, <1>3, <1>5 DEF HasCluster, HasInfraEnv, Has
<1>7. Place(q, id)'
  BY <1>1, <1>5, <1>6 DEF Place, LookedFirst, DeployKnows, DestroyKnows,
     DestroyPlaces, ClusterPlaces, InfraEnvPlaces, ImagePlaces,
     SimPlaces, LabPlaces, Seeking, Ending, SimGone
<1> QED BY <1>4, <1>7

LEMMA UploadImageKeeps ==
  ASSUME SoloInv, NEW c \in Clients, NEW q, q = me'[c], NEW id,
         UploadImage(c)
  PROVE  Linked' /\ Place(q, id)'
<1>1. /\ me \in [Clients -> Process] /\ me[c] \in Process /\ Linked
      /\ images \subseteq Image
      /\ HasCluster(me[c]) /\ HasInfraEnv(me[c])
      /\ ~me[c].swap /\ me[c].target \in {Blank, me[c].infra}
      /\ me[c].target # Blank => Has(me[c].blank, Blank)
  BY Given DEF UploadImage, At, Place, DeployKnows,
               ClusterPlaces, InfraEnvPlaces, ImagePlaces
<1>2. CASE Refuse(c) /\ UNCHANGED images
  BY <1>1, <1>2, Refusing, Unmoved DEF UploadImage
<1>3. ASSUME NEW m \in images,
             images' = Updated(images, m, [m EXCEPT !.status = "VALIDATING"]),
             Become(c, [me[c] EXCEPT !.pc = "image", !.image = 0])
      PROVE  Linked' /\ Place(q, id)'
  <2>1. /\ q.pc = "image" /\ q.cluster = me[c].cluster
        /\ q.spec = me[c].spec /\ q.infra = me[c].infra
        /\ q.swap = me[c].swap /\ q.target = me[c].target
        /\ q.blank = me[c].blank
    BY <1>1, <1>3 DEF Become, Process
  <2>2. HasCluster(q) /\ HasInfraEnv(q)
    BY <1>1, <2>1 DEF HasCluster, HasInfraEnv
  <2>3. Place(q, id)
    BY <1>1, <2>1, <2>2, Deploying
       DEF DeployPlaces, LookedFirst, DeployKnows, ClusterPlaces,
           InfraEnvPlaces, ImagePlaces, SimPlaces, LabPlaces
  <2> DEFINE n == [m EXCEPT !.status = "VALIDATING"]
  <2>4. /\ n.id = m.id /\ n.name = m.name /\ n.owner = m.owner
        /\ n.alike = m.alike /\ images' = Updated(images, m, n)
    BY <1>1, <1>3 DEF Image
  <2> HIDE DEF n
  <2> QED BY <1>1, <2>3, <2>4, ImageEdited DEF UploadImage
<1> QED BY <1>2, <1>3 DEF UploadImage

LEMMA NothingReplaced ==
  ASSUME SoloInv, NEW c \in Clients PROVE ~DeleteBlankImage(c)
BY Given DEF DeleteBlankImage, At, Place, DeployKnows

LEMMA ImportSimulationKeeps ==
  ASSUME SoloInv, NEW c \in Clients, NEW q, q = me'[c], NEW id,
         ImportSimulation(c)
  PROVE  Linked' /\ Place(q, id)'
<1>1. /\ me \in [Clients -> Process] /\ me[c] \in Process /\ Linked
      /\ sims = {} /\ KnowsImages(me[c])
  BY Given, AtSimPlaces DEF ImportSimulation, At, Place, LookedFirst,
     SimPlaces
<1> DEFINE s == [id |-> nextId, spec |-> me[c].spec, managed |-> FALSE,
                 status |-> "IMPORTING", req |-> "none",
                 image |-> me[c].image, infra |-> me[c].infra,
                 blank |-> me[c].blank, bastion |-> FALSE]
<1>2. /\ sims' = {s} /\ clusters' = clusters /\ infraenvs' = infraenvs
      /\ images' = images /\ s.req = "none" /\ s.image = me[c].image
      /\ s.infra = me[c].infra /\ s.blank = me[c].blank
  BY <1>1 DEF ImportSimulation
<1> HIDE DEF s
<1>3. Linked'
  <2>1. Uniques' /\ ClusterLinks' /\ InfraEnvLinks' /\ ImageLinks'
    BY <1>1, <1>2 DEF Linked, Uniques, One, ClusterLinks, InfraEnvLinks,
       ImageLinks
  <2>2. SimLinks'
    BY <1>1, <1>2 DEF SimLinks, Has, KnowsImages, HasInfraEnv
  <2> QED BY <2>1, <2>2 DEF Linked
<1>4. /\ q.pc = "awaitImport" /\ q.cluster = me[c].cluster
      /\ q.spec = me[c].spec /\ q.infra = me[c].infra
      /\ q.image = me[c].image /\ q.blank = me[c].blank
  BY <1>1 DEF ImportSimulation, Become, Process
<1>5. /\ HasCluster(q)' /\ HasInfraEnv(q)' /\ Has(q.image, q.infra)'
      /\ Has(q.blank, Blank)'
  BY <1>1, <1>2, <1>4 DEF KnowsImages, HasCluster, HasInfraEnv, Has
<1>6. Place(q, id)'
  BY <1>4, <1>5 DEF Place, LookedFirst, DeployKnows, DestroyKnows,
     DestroyPlaces, ClusterPlaces, InfraEnvPlaces, ImagePlaces,
     SimPlaces, LabPlaces, Seeking, Ending, SimGone
<1> QED BY <1>3, <1>6

LEMMA ClaimAndStartKeep ==
  ASSUME SoloInv, NEW c \in Clients, NEW q, q = me'[c], NEW id,
         ClaimSimulation(c) \/ StartSimulation(c)
  PROVE  Linked' /\ Place(q, id)'
<1>1. /\ me \in [Clients -> Process] /\ me[c] \in Process /\ Linked
      /\ KnowsImages(me[c]) /\ sims \subseteq Simulation
  BY Given, AtSimPlaces DEF ClaimSimulation, StartSimulation, At, SimPlaces
<1>2. UNCHANGED <<clusters, infraenvs, images>>
  BY DEF ClaimSimulation, StartSimulation
<1>3. CASE Refuse(c) /\ UNCHANGED sims
  BY <1>1, <1>2, <1>3, Refusing, Unmoved
<1>4. ASSUME NEW s \in sims, NEW t,
             t.spec = s.spec, t.image = s.image, t.infra = s.infra,
             t.blank = s.blank, s.managed => t.managed,
             s.bastion => t.bastion,
             t.req = "delete" => t.status \in {"INACTIVE", "INVALID"},
             sims' = Updated(sims, s, t), q.pc = "sim",
             q.cluster = me[c].cluster, q.spec = me[c].spec,
             q.infra = me[c].infra, q.image = me[c].image,
             q.blank = me[c].blank
      PROVE  Linked' /\ Place(q, id)'
  <2>1. Place(q, id)
    BY <1>1, <1>4, ToSimPlaces DEF SimPlaces
  <2>2. q.pc \notin LabPlaces \cup {"deployed"}
    BY <1>4 DEF LabPlaces
  <2> QED BY <1>1, <1>2, <1>4, <2>1, <2>2, SimEdited
<1>5. CASE ClaimSimulation(c)
  <2>1. ASSUME NEW s \in sims,
               sims' = Updated(sims, s, [s EXCEPT !.managed = TRUE]),
               Become(c, [me[c] EXCEPT !.pc = "sim", !.sim = 0])
        PROVE  Linked' /\ Place(q, id)'
    <3>1. /\ q.pc = "sim" /\ q.cluster = me[c].cluster
          /\ q.spec = me[c].spec /\ q.infra = me[c].infra
          /\ q.image = me[c].image /\ q.blank = me[c].blank
      BY <1>1, <2>1 DEF Become, Process
    <3> DEFINE t == [s EXCEPT !.managed = TRUE]
    <3>2. /\ t.spec = s.spec /\ t.image = s.image /\ t.infra = s.infra
          /\ t.blank = s.blank /\ t.managed /\ t.bastion = s.bastion
          /\ t.req = s.req /\ t.status = s.status
          /\ sims' = Updated(sims, s, t)
      BY <1>1, <2>1 DEF Simulation
    <3> HIDE DEF t
    <3> QED BY <1>1, <1>4, <3>1, <3>2 DEF Linked, SimLinks
  <2> QED BY <1>3, <1>5, <2>1 DEF ClaimSimulation, Imported
<1>6. CASE StartSimulation(c)
  <2>1. ASSUME NEW s \in sims,
               sims' = Updated(sims, s, [s EXCEPT !.req = "start"]),
               Become(c, [me[c] EXCEPT !.pc = "sim", !.sim = 0,
                            !.asked = TRUE])
        PROVE  Linked' /\ Place(q, id)'
    <3>1. /\ q.pc = "sim" /\ q.cluster = me[c].cluster
          /\ q.spec = me[c].spec /\ q.infra = me[c].infra
          /\ q.image = me[c].image /\ q.blank = me[c].blank
      BY <1>1, <2>1 DEF Become, Process
    <3> DEFINE t == [s EXCEPT !.req = "start"]
    <3>2. /\ t.spec = s.spec /\ t.image = s.image /\ t.infra = s.infra
          /\ t.blank = s.blank /\ t.managed = s.managed
          /\ t.bastion = s.bastion /\ t.req = "start"
          /\ sims' = Updated(sims, s, t)
      BY <1>1, <2>1 DEF Simulation
    <3> HIDE DEF t
    <3> QED BY <1>4, <3>1, <3>2
  <2> QED BY <1>3, <1>6, <2>1 DEF StartSimulation
<1> QED BY <1>5, <1>6

LEMMA AssignRolesKeeps ==
  ASSUME SoloInv, NEW c \in Clients, NEW q, q = me'[c], NEW id,
         AssignRoles(c)
  PROVE  Linked' /\ Place(q, id)'
<1>1. /\ me \in [Clients -> Process] /\ me[c] \in Process /\ Linked
      /\ HasCluster(me[c]) /\ HasLab(me[c].spec)
      /\ infraenvs \subseteq InfraEnv
  BY Given, AtLabPlaces DEF AssignRoles, At, LabPlaces
<1>2. CASE Refuse(c) /\ UNCHANGED infraenvs
  BY <1>1, <1>2, Refusing, Unmoved DEF AssignRoles
<1>3. ASSUME NEW i \in infraenvs,
             infraenvs' = Updated(infraenvs, i,
                                  [i EXCEPT !.hosts = "assigned"]),
             Become(c, [me[c] EXCEPT !.pc = "hosts", !.target = 0])
      PROVE  Linked' /\ Place(q, id)'
  <2>1. q.pc = "hosts" /\ q.cluster = me[c].cluster /\ q.spec = me[c].spec
    BY <1>1, <1>3 DEF Become, Process
  <2>2. Place(q, id)
    BY <1>1, <2>1, ToLabPlaces DEF LabPlaces
  <2> DEFINE j == [i EXCEPT !.hosts = "assigned"]
  <2>3. /\ j.id = i.id /\ j.spec = i.spec /\ j.cluster = i.cluster
        /\ j.hosts = "assigned" /\ infraenvs' = Updated(infraenvs, i, j)
    BY <1>1, <1>3 DEF InfraEnv
  <2> HIDE DEF j
  <2> QED BY <1>1, <2>2, <2>3, InfraEnvEdited DEF AssignRoles
<1> QED BY <1>2, <1>3 DEF AssignRoles

LEMMA EnsureJumpHostKeeps ==
  ASSUME SoloInv, NEW c \in Clients, NEW q, q = me'[c], NEW id,
         EnsureJumpHost(c)
  PROVE  Linked' /\ Place(q, id)'
<1>1. /\ me \in [Clients -> Process] /\ me[c] \in Process /\ Linked
      /\ HasCluster(me[c]) /\ HasLab(me[c].spec) /\ Assigned
      /\ sims \subseteq Simulation
  BY Given, AtLabPlaces DEF EnsureJumpHost, At, LabPlaces, Place, DeployKnows
<1>2. CASE (Refuse(c) \/ TimeOut(c)) /\ UNCHANGED sims
  BY <1>1, <1>2, Refusing, Unmoved DEF EnsureJumpHost
<1>3. ASSUME NEW s \in sims,
             sims' = Updated(sims, s, [s EXCEPT !.bastion = TRUE]),
             Become(c, [me[c] EXCEPT !.pc = "install", !.sim = 0])
      PROVE  Linked' /\ Place(q, id)'
  <2>1. q.pc = "install" /\ q.cluster = me[c].cluster /\ q.spec = me[c].spec
    BY <1>1, <1>3 DEF Become, Process
  <2> DEFINE t == [s EXCEPT !.bastion = TRUE]
  <2>2. /\ t.spec = s.spec /\ t.image = s.image /\ t.infra = s.infra
        /\ t.blank = s.blank /\ t.managed = s.managed /\ t.bastion
        /\ t.req = s.req /\ t.status = s.status
        /\ sims' = Updated(sims, s, t)
    BY <1>1, <1>3 DEF Simulation
  <2> HIDE DEF t
  <2>3. Linked'
    <3>1. Place(Fresh("idle"), 0) /\ Fresh("idle").pc = "idle"
      BY Rests DEF Fresh
    <3>2. Fresh("idle").pc \notin LabPlaces \cup {"deployed"}
      BY <3>1 DEF LabPlaces
    <3> QED BY <1>1, <2>2, <3>1, <3>2, SimEdited
            DEF EnsureJumpHost, Linked, SimLinks
  <2>4. /\ sims = {s} /\ sims' = {t} /\ clusters' = clusters
        /\ infraenvs' = infraenvs
    BY <1>1, <2>2, Alone DEF EnsureJumpHost, Linked, Uniques
  <2>5. /\ HasCluster(q)' /\ HasLab(q.spec)' /\ Assigned' /\ Reached'
    BY <1>1, <2>1, <2>2, <2>4
       DEF HasCluster, HasLab, Stays, Assigned, Reached
  <2>6. Place(q, id)'
    BY <2>1, <2>5 DEF Place, LookedFirst, DeployKnows, DestroyKnows,
       DestroyPlaces, ClusterPlaces, InfraEnvPlaces, ImagePlaces,
       SimPlaces, LabPlaces, Seeking, Ending, SimGone
  <2> QED BY <2>3, <2>6
<1> QED BY <1>2, <1>3 DEF EnsureJumpHost

LEMMA StartInstallationKeeps ==
  ASSUME SoloInv, NEW c \in Clients, NEW q, q = me'[c], NEW id,
         StartInstallation(c)
  PROVE  Linked' /\ Place(q, id)'
<1>1. /\ me \in [Clients -> Process] /\ me[c] \in Process /\ Linked
      /\ HasCluster(me[c]) /\ HasLab(me[c].spec) /\ Assigned /\ Reached
      /\ \A k \in clusters : ~k.started
      /\ clusters \subseteq Cluster
  BY Given, AtLabPlaces DEF StartInstallation, At, LabPlaces, Place,
     DeployKnows
<1>2. CASE Refuse(c) /\ UNCHANGED clusters
  BY <1>1, <1>2, Refusing, Unmoved DEF StartInstallation
<1>3. ASSUME NEW k \in clusters, k.status = "ready",
             clusters' = Updated(clusters, k,
               [k EXCEPT !.started = TRUE,
                         !.requests = IF @ = 2 THEN 2 ELSE @ + 1]),
             Goto(c, "install")
      PROVE  Linked' /\ Place(q, id)'
  <2>1. q.pc = "install" /\ q.cluster = me[c].cluster /\ q.spec = me[c].spec
    BY <1>1, <1>3 DEF Goto, Process
  <2>2. Place(q, id)
    BY <1>1, <2>1, ToLabPlaces DEF LabPlaces
  <2>3. k.requests = 0
    BY <1>1 DEF Linked, ClusterLinks, Cluster
  <2> DEFINE l == [k EXCEPT !.started = TRUE,
                            !.requests = IF @ = 2 THEN 2 ELSE @ + 1]
  <2>4. /\ l.id = k.id /\ l.spec = k.spec /\ l.requests = 1 /\ l.started
        /\ clusters' = Updated(clusters, k, l)
    BY <1>1, <1>3, <2>3 DEF Cluster
  <2>5. l.requests <= 1 /\ k.status # "installed"
    BY <1>3, <2>4
  <2>6. l.status = k.status
    BY <1>1 DEF Cluster
  <2> HIDE DEF l
  <2> QED BY <1>1, <2>1, <2>2, <2>4, <2>5, <2>6, ClusterEdited
          DEF StartInstallation
<1> QED BY <1>2, <1>3 DEF StartInstallation

-----------------------------------------------------------------------------
(***************************************************************************)
(* The places of destroy_lab.                                              *)
(***************************************************************************)
Found(r) ==
  /\ r.cluster = 0 => clusters = {}
  /\ r.target = r.infra
  /\ r.infra = 0 => infraenvs = {}
  /\ \A i \in infraenvs : i.id = r.infra
OnlyImage(r) == \A m \in images : m.name # Blank => m.id = r.image

LEMMA AtDestroyPlaces ==
  ASSUME SoloInv, NEW c \in Clients, me[c].pc \in DestroyPlaces \ Seeking
  PROVE  Found(me[c])
BY Given DEF Place, DestroyKnows, Found, Seeking

LEMMA ToDestroyPlaces ==
  ASSUME NEW r, Found(r), NEW q, q.pc \in DestroyPlaces \ Seeking, NEW id,
         q.cluster = r.cluster, q.target = r.target, q.infra = r.infra,
         q.pc \in {"listHosts", "seekSim", "seekImage", "imageGone"}
                    \cup Ending => q.image = 0,
         q.pc \in {"seekImage", "actSim"} /\ q.seen = "none" => sims = {},
         q.pc \in {"actSim", "refindSim"} \cup SimGone => OnlyImage(q),
         q.pc \in SimGone => sims = {},
         q.pc \in {"dropCluster", "clusterGone"} => infraenvs = {}
  PROVE  Place(q, id)
<1>1. DestroyKnows(q)
  BY DEF Found, OnlyImage, DestroyKnows, Seeking, DestroyPlaces
<1> QED BY <1>1, Destroying

LEMMA DestroyedKnows ==
  ASSUME NEW r, clusters = {}, infraenvs = {}, sims = {}, NEW id
  PROVE  Place(Destroyed(r), id)
<1>1. Destroyed(r).pc \in {"cluster", "destroyed"}
  BY DEF Destroyed, Fresh
<1> QED BY <1>1
     DEF Place, LookedFirst, DeployKnows, DestroyKnows, DestroyPlaces,
         ClusterPlaces, InfraEnvPlaces, ImagePlaces, SimPlaces, LabPlaces,
         Seeking, Ending, SimGone

LEMMA AfterInfraEnvKnows ==
  ASSUME NEW r \in Process, Found(r), r.image = 0, OnlyImage(r),
         sims = {}, infraenvs = {}, NEW id
  PROVE  Place(AfterInfraEnv(r), id)
<1>1. CASE r.cluster = 0
  BY <1>1, DestroyedKnows DEF AfterInfraEnv, Found
<1>2. CASE r.cluster # 0
  <2> DEFINE q == [r EXCEPT !.pc = "dropCluster"]
  <2>1. /\ q.pc = "dropCluster" /\ q.cluster = r.cluster
        /\ q.target = r.target /\ q.infra = r.infra /\ q.image = r.image
        /\ AfterInfraEnv(r) = q
    BY <1>2 DEF AfterInfraEnv, Process
  <2> HIDE DEF q
  <2> QED BY <2>1, ToDestroyPlaces
          DEF OnlyImage, DestroyPlaces, Seeking, SimGone, Ending
<1> QED BY <1>1, <1>2

LEMMA AfterImageKnows ==
  ASSUME NEW r \in Process, Found(r), r.image = 0, OnlyImage(r),
         sims = {}, NEW id
  PROVE  Place(AfterImage(r), id)
<1>1. CASE r.infra = 0
  BY <1>1, AfterInfraEnvKnows DEF AfterImage, Found
<1>2. CASE r.infra # 0
  <2> DEFINE p == IF r.hosts THEN "dropHosts" ELSE "dropInfraEnv"
             q == [r EXCEPT !.pc = p]
  <2>1. /\ q.pc = p /\ q.cluster = r.cluster
        /\ q.target = r.target /\ q.infra = r.infra /\ q.image = r.image
        /\ AfterImage(r) = q
    BY <1>2 DEF AfterImage, Process
  <2>2. p \in {"dropHosts", "dropInfraEnv"}
    OBVIOUS
  <2> HIDE DEF p, q
  <2> QED BY <2>1, <2>2, ToDestroyPlaces
          DEF OnlyImage, DestroyPlaces, Seeking, SimGone, Ending
<1> QED BY <1>1, <1>2

LEMMA AfterSimulationKnows ==
  ASSUME NEW r \in Process, Found(r), OnlyImage(r), sims = {}, NEW id
  PROVE  Place(AfterSimulation(r), id)
<1>1. CASE r.image = 0
  BY <1>1, AfterImageKnows DEF AfterSimulation
<1>2. CASE r.image # 0
  <2> DEFINE q == [r EXCEPT !.pc = "dropImage"]
  <2>1. /\ q.pc = "dropImage" /\ q.cluster = r.cluster
        /\ q.target = r.target /\ q.infra = r.infra /\ q.image = r.image
        /\ AfterSimulation(r) = q
    BY <1>2 DEF AfterSimulation, Process
  <2> HIDE DEF q
  <2> QED BY <2>1, ToDestroyPlaces
          DEF OnlyImage, DestroyPlaces, Seeking, SimGone, Ending
<1> QED BY <1>1, <1>2
-----------------------------------------------------------------------------
(***************************************************************************)
(* The looks of a destruction.                                             *)
(***************************************************************************)
LEMMA SeekClusterLooks ==
  ASSUME SoloInv, NEW c \in Clients, NEW q, q = me'[c], NEW id,
         SeekCluster(c)
  PROVE  Place(q, id)
<1>1. /\ me \in [Clients -> Process] /\ me[c] \in Process
      /\ me[c].target = 0 /\ me[c].infra = 0 /\ me[c].image = 0
  BY Given DEF SeekCluster, At, Place, DestroyKnows, Seeking
<1>2. ASSUME q.pc = "seekInfraEnv", q.target = 0, q.infra = 0, q.image = 0,
             q.cluster = 0 => clusters = {}
      PROVE  Place(q, id)
  BY <1>2, Destroying DEF DestroyKnows, DestroyPlaces, Seeking, SimGone,
     Ending
<1>3. CASE clusters = {} /\ Goto(c, "seekInfraEnv")
  <2>1. /\ q.pc = "seekInfraEnv" /\ q.target = 0 /\ q.infra = 0
        /\ q.image = 0
    BY <1>1, <1>3 DEF Goto, Process
  <2> QED BY <1>2, <1>3, <2>1
<1>4. ASSUME NEW k \in clusters,
             Become(c, [me[c] EXCEPT !.pc = "seekInfraEnv",
                          !.cluster = k.id])
      PROVE  Place(q, id)
  <2>1. /\ q.pc = "seekInfraEnv" /\ q.target = 0 /\ q.infra = 0
        /\ q.image = 0 /\ q.cluster = k.id
    BY <1>1, <1>4 DEF Become, Process
  <2>2. k.id # 0
    BY Given DEF Linked, ClusterLinks
  <2> QED BY <1>2, <2>1, <2>2
<1> QED BY <1>3, <1>4, Refusing DEF SeekCluster

LEMMA SeekInfraEnvLooks ==
  ASSUME SoloInv, NEW c \in Clients, NEW q, q = me'[c], NEW id,
         SeekInfraEnv(c)
  PROVE  Place(q, id)
<1>1. /\ me \in [Clients -> Process] /\ me[c] \in Process
      /\ me[c].target = 0 /\ me[c].infra = 0 /\ me[c].image = 0
      /\ me[c].cluster = 0 => clusters = {}
  BY Given DEF SeekInfraEnv, At, Place, DestroyKnows, Seeking, DestroyPlaces
<1> DEFINE next == IF me[c].cluster = 0 THEN "seekSim" ELSE "listHosts"
<1>2. ASSUME q.pc \in {"seekSim", "listHosts"}, q.target = q.infra,
             q.image = 0, q.cluster = me[c].cluster,
             q.infra = 0 => infraenvs = {},
             \A i \in infraenvs : i.id = q.infra
      PROVE  Place(q, id)
  BY <1>1, <1>2, Destroying DEF DestroyKnows, DestroyPlaces, Seeking,
     SimGone, Ending
<1>3. next \in {"seekSim", "listHosts"}
  OBVIOUS
<1>4. \/ Refuse(c)
      \/ infraenvs = {} /\ Goto(c, next)
      \/ \E i \in infraenvs :
           /\ infraenvs = {i}
           /\ Become(c, [me[c] EXCEPT !.pc = next, !.infra = i.id,
                           !.target = i.id])
  BY DEF SeekInfraEnv
<1> HIDE DEF next
<1>5. CASE infraenvs = {} /\ Goto(c, next)
  <2>1. /\ q.pc = next /\ q.target = 0 /\ q.infra = 0
        /\ q.image = 0 /\ q.cluster = me[c].cluster
    BY <1>1, <1>5 DEF Goto, Process
  <2> QED BY <1>2, <1>3, <1>5, <2>1
<1>6. ASSUME NEW i \in infraenvs, infraenvs = {i},
             Become(c, [me[c] EXCEPT !.pc = next, !.infra = i.id,
                          !.target = i.id])
      PROVE  Place(q, id)
  <2>1. /\ q.pc = next /\ q.target = i.id /\ q.infra = i.id
        /\ q.image = 0 /\ q.cluster = me[c].cluster
    BY <1>1, <1>6 DEF Become, Process
  <2>2. i.id # 0
    BY Given DEF Linked, InfraEnvLinks
  <2> QED BY <1>2, <1>3, <1>6, <2>1, <2>2
<1> QED BY <1>4, <1>5, <1>6, Refusing

LEMMA ListHostsLooks ==
  ASSUME SoloInv, NEW c \in Clients, NEW q, q = me'[c], NEW id,
         ListHosts(c)
  PROVE  Place(q, id)
<1>1. /\ me \in [Clients -> Process] /\ me[c] \in Process
      /\ Found(me[c]) /\ me[c].image = 0
  BY Given, AtDestroyPlaces
     DEF ListHosts, At, Place, DestroyKnows, Seeking, DestroyPlaces
<1> DEFINE hosts == \E i \in infraenvs :
                      /\ i.id = me[c].infra /\ i.cluster = me[c].cluster
                      /\ i.hosts # "none"
<1>2. Refuse(c) \/ Become(c, [me[c] EXCEPT !.pc = "seekSim", !.hosts = hosts])
  BY DEF ListHosts
<1> HIDE DEF hosts
<1>3. CASE Become(c, [me[c] EXCEPT !.pc = "seekSim", !.hosts = hosts])
  <2>1. /\ q.pc = "seekSim" /\ q.cluster = me[c].cluster
        /\ q.target = me[c].target /\ q.infra = me[c].infra /\ q.image = 0
    BY <1>1, <1>3 DEF Become, Process
  <2> QED BY <1>1, <2>1, ToDestroyPlaces
          DEF DestroyPlaces, Seeking, SimGone, Ending
<1> QED BY <1>2, <1>3, Refusing

(* Without an InfraEnv there is no discovery image and no simulation.      *)
LEMMA NothingWithoutInfraEnv ==
  ASSUME Linked, infraenvs = {}
  PROVE  sims = {} /\ \A m \in images : m.name = Blank
BY DEF Linked, SimLinks, ImageLinks

LEMMA SeekSimulationLooks ==
  ASSUME SoloInv, NEW c \in Clients, NEW q, q = me'[c], NEW id,
         SeekSimulation(c)
  PROVE  Place(q, id)
<1>1. /\ me \in [Clients -> Process] /\ me[c] \in Process
      /\ Found(me[c]) /\ me[c].image = 0 /\ Linked
      /\ sims \subseteq Simulation
  BY Given, AtDestroyPlaces
     DEF SeekSimulation, At, Place, DestroyKnows, Seeking, DestroyPlaces
<1>2. ASSUME q.pc = IF q.target = 0 THEN "actSim" ELSE "seekImage",
             q.cluster = me[c].cluster, q.target = me[c].target,
             q.infra = me[c].infra, q.image = 0,
             q.seen = "none" => sims = {}
      PROVE  Place(q, id)
  <2>1. q.target = 0 => OnlyImage(q)
    BY <1>1, <1>2, NothingWithoutInfraEnv DEF Found, OnlyImage
  <2> QED BY <1>1, <1>2, <2>1, ToDestroyPlaces
          DEF DestroyPlaces, Seeking, SimGone, Ending
<1> DEFINE next(r) == IF r.target = 0 THEN "actSim" ELSE "seekImage"
<1>3. CASE sims = {} /\ Goto(c, next(me[c]))
  <2>1. /\ q.pc = next(me[c]) /\ q.cluster = me[c].cluster
        /\ q.target = me[c].target /\ q.infra = me[c].infra /\ q.image = 0
    BY <1>1, <1>3 DEF Goto, Process
  <2> QED BY <1>2, <1>3, <2>1
<1>4. ASSUME NEW s \in sims, NEW r,
             r = [me[c] EXCEPT !.sim = s.id, !.seen = s.status,
                    !.target = IF @ # 0 THEN @ ELSE s.infra],
             Become(c, [r EXCEPT !.pc = next(r)])
      PROVE  Place(q, id)
  <2>1. me[c].target # 0
    BY <1>1, <1>4, NothingWithoutInfraEnv DEF Found
  <2>2. /\ r.cluster = me[c].cluster /\ r.target = me[c].target
        /\ r.infra = me[c].infra /\ r.image = 0 /\ r.seen = s.status
    BY <1>1, <1>4, <2>1 DEF Process
  <2>3. /\ q.pc = next(r) /\ q.cluster = r.cluster
        /\ q.target = r.target /\ q.infra = r.infra /\ q.image = r.image
        /\ q.seen = r.seen
    BY <1>1, <1>4 DEF Become, Process
  <2>4. s.status # "none"
    BY <1>1, <1>4 DEF Simulation, AirSimulationStatus
  <2> QED BY <1>2, <2>2, <2>3, <2>4
<1>5. \/ Refuse(c)
      \/ sims = {} /\ Goto(c, next(me[c]))
      \/ \E s \in sims : \E r :
           /\ r = [me[c] EXCEPT !.sim = s.id, !.seen = s.status,
                     !.target = IF @ # 0 THEN @ ELSE s.infra]
           /\ Become(c, [r EXCEPT !.pc = next(r)])
  BY DEF SeekSimulation
<1> HIDE DEF next
<1> QED BY <1>3, <1>4, <1>5, Refusing

LEMMA SeekDiscoveryImageLooks ==
  ASSUME SoloInv, NEW c \in Clients, NEW q, q = me'[c], NEW id,
         SeekDiscoveryImage(c)
  PROVE  Place(q, id)
<1>1. /\ me \in [Clients -> Process] /\ me[c] \in Process
      /\ Found(me[c]) /\ me[c].image = 0 /\ Linked
      /\ me[c].seen = "none" => sims = {}
  BY Given, AtDestroyPlaces
     DEF SeekDiscoveryImage, At, Place, DestroyKnows, Seeking, DestroyPlaces
<1>2. \A m \in images : m.name # Blank => m.name = me[c].target
  BY <1>1 DEF Linked, ImageLinks, Found
<1>3. ASSUME q.pc = "actSim", q.cluster = me[c].cluster,
             q.target = me[c].target, q.infra = me[c].infra,
             q.seen = me[c].seen, OnlyImage(q)
      PROVE  Place(q, id)
  BY <1>1, <1>3, ToDestroyPlaces DEF DestroyPlaces, Seeking, SimGone, Ending
<1>4. CASE ImagesNamed(me[c].target) = {} /\ Goto(c, "actSim")
  <2>1. /\ q.pc = "actSim" /\ q.cluster = me[c].cluster
        /\ q.target = me[c].target /\ q.infra = me[c].infra
        /\ q.seen = me[c].seen
    BY <1>1, <1>4 DEF Goto, Process
  <2>2. OnlyImage(q)
    BY <1>2, <1>4 DEF OnlyImage, ImagesNamed
  <2> QED BY <1>3, <2>1, <2>2
<1>5. ASSUME NEW m, ImagesNamed(me[c].target) = {m},
             Become(c, [me[c] EXCEPT !.pc = "actSim", !.image = m.id])
      PROVE  Place(q, id)
  <2>1. /\ q.pc = "actSim" /\ q.cluster = me[c].cluster
        /\ q.target = me[c].target /\ q.infra = me[c].infra
        /\ q.seen = me[c].seen /\ q.image = m.id
    BY <1>1, <1>5 DEF Become, Process
  <2>2. OnlyImage(q)
    BY <1>2, <1>5, <2>1 DEF OnlyImage, ImagesNamed
  <2> QED BY <1>3, <2>1, <2>2
<1> QED BY <1>4, <1>5, Refusing DEF SeekDiscoveryImage

LEMMA RefindSimulationLooks ==
  ASSUME SoloInv, NEW c \in Clients, NEW q, q = me'[c], NEW id,
         RefindSimulation(c)
  PROVE  Place(q, id)
<1>1. /\ me \in [Clients -> Process] /\ me[c] \in Process
      /\ Found(me[c]) /\ OnlyImage(me[c]) /\ sims \subseteq Simulation
  BY Given, AtDestroyPlaces
     DEF RefindSimulation, At, Place, DestroyKnows, Seeking, DestroyPlaces,
         OnlyImage
<1>2. CASE sims = {} /\ Become(c, AfterSimulation(me[c]))
  <2>1. q = AfterSimulation(me[c])
    BY <1>1, <1>2 DEF Become
  <2> QED BY <1>1, <1>2, <2>1, AfterSimulationKnows
<1>3. ASSUME NEW s \in sims,
             Become(c, [me[c] EXCEPT !.pc = "actSim", !.sim = s.id,
                          !.seen = s.status])
      PROVE  Place(q, id)
  <2>1. /\ q.pc = "actSim" /\ q.cluster = me[c].cluster
        /\ q.target = me[c].target /\ q.infra = me[c].infra
        /\ q.seen = s.status /\ q.image = me[c].image
    BY <1>1, <1>3 DEF Become, Process
  <2>2. s.status # "none"
    BY <1>1, <1>3 DEF Simulation, AirSimulationStatus
  <2> QED BY <1>1, <2>1, <2>2, ToDestroyPlaces
          DEF DestroyPlaces, Seeking, SimGone, Ending, OnlyImage
<1> QED BY <1>2, <1>3, Refusing DEF RefindSimulation

LEMMA GoneLooks ==
  ASSUME SoloInv, NEW c \in Clients, NEW q, q = me'[c], NEW id,
         ImageGone(c) \/ InfraEnvGone(c) \/ ClusterGone(c)
  PROVE  Place(q, id)
<1>1. /\ me \in [Clients -> Process] /\ me[c] \in Process
      /\ Found(me[c]) /\ me[c].image = 0 /\ OnlyImage(me[c]) /\ sims = {}
  BY Given, AtDestroyPlaces
     DEF ImageGone, InfraEnvGone, ClusterGone, At, Place, DestroyKnows,
         Seeking, DestroyPlaces, OnlyImage, SimGone, Ending
<1>2. CASE ImageGone(c)
  <2>1. Become(c, AfterImage(me[c])) => q = AfterImage(me[c])
    BY <1>1 DEF Become
  <2> QED BY <1>1, <1>2, <2>1, AfterImageKnows, Refusing DEF ImageGone
<1>3. CASE InfraEnvGone(c)
  <2>1. Become(c, AfterInfraEnv(me[c])) => q = AfterInfraEnv(me[c])
    BY <1>1 DEF Become
  <2> QED BY <1>1, <1>3, <2>1, AfterInfraEnvKnows, Refusing DEF InfraEnvGone
<1>4. CASE ClusterGone(c)
  <2>1. Become(c, Destroyed(me[c])) => q = Destroyed(me[c])
    BY <1>1 DEF Become
  <2>2. infraenvs = {}
    BY <1>4, Given DEF ClusterGone, At, Place, DestroyKnows
  <2> QED BY <1>1, <1>4, <2>1, <2>2, DestroyedKnows, Refusing DEF ClusterGone
<1> QED BY <1>2, <1>3, <1>4

LEMMA LaunchLooks ==
  ASSUME SoloInv, NEW c \in Clients, NEW q, q = me'[c], NEW id,
         Launch(c)
  PROVE  Place(q, id)
<1>1. me \in [Clients -> Process] /\ me[c] \in Process
  BY Given
<1>2. PICK cmd \in Commands[c], spec \in Specs :
        Become(c, [Fresh(FirstPlace(cmd)) EXCEPT !.cmd = cmd, !.spec = spec])
  BY DEF Launch
<1>3. FirstPlace(cmd) \in {"preflightSim", "seekCluster"}
  BY DEF FirstPlace
<1>4. /\ q.pc = FirstPlace(cmd) /\ q.target = 0 /\ q.infra = 0
      /\ q.image = 0
  BY <1>1, <1>2 DEF Become, Fresh
<1> QED BY <1>3, <1>4
     DEF Place, LookedFirst, DeployKnows, DestroyKnows, DestroyPlaces,
         ClusterPlaces, InfraEnvPlaces, ImagePlaces, SimPlaces, LabPlaces,
         Seeking, Ending, SimGone
-----------------------------------------------------------------------------
(***************************************************************************)
(* What a destruction stops and deletes.                                   *)
(***************************************************************************)
LEMMA ActOnSimulationKeeps ==
  ASSUME SoloInv, NEW c \in Clients, NEW q, q = me'[c], NEW id,
         ActOnSimulation(c)
  PROVE  Linked' /\ Place(q, id)'
<1>1. /\ me \in [Clients -> Process] /\ me[c] \in Process /\ Linked
      /\ Found(me[c]) /\ OnlyImage(me[c]) /\ sims \subseteq Simulation
      /\ me[c].seen = "none" => sims = {}
  BY Given, AtDestroyPlaces
     DEF ActOnSimulation, At, Place, DestroyKnows, Seeking, DestroyPlaces,
         OnlyImage
<1>2. UNCHANGED <<clusters, infraenvs, images>>
  BY DEF ActOnSimulation
<1> DEFINE req == RequestFor(me[c].seen)
           sawIt == [me[c] EXCEPT !.pc = "refindSim", !.sim = 0,
                       !.seen = "none"]
<1>3. Become(c, sawIt) => Place(q, id) /\ q.pc = "refindSim"
  <2> SUFFICES ASSUME Become(c, sawIt)
               PROVE  Place(q, id) /\ q.pc = "refindSim"
    OBVIOUS
  <2>1. /\ q.pc = "refindSim" /\ q.cluster = me[c].cluster
        /\ q.target = me[c].target /\ q.infra = me[c].infra
        /\ q.image = me[c].image
    BY <1>1 DEF Become, Process
  <2> QED BY <1>1, <2>1, ToDestroyPlaces
          DEF DestroyPlaces, Seeking, SimGone, Ending, OnlyImage
<1>4. CASE /\ me[c].seen = "none"
           /\ Become(c, AfterSimulation([me[c] EXCEPT !.sim = 0]))
           /\ UNCHANGED sims
  <2> DEFINE r == [me[c] EXCEPT !.sim = 0]
  <2>1. /\ r \in Process /\ r.cluster = me[c].cluster
        /\ r.target = me[c].target /\ r.infra = me[c].infra
        /\ r.image = me[c].image
    BY <1>1 DEF Process
  <2>2. q = AfterSimulation(r)
    BY <1>1, <1>4 DEF Become
  <2> HIDE DEF r
  <2>3. Found(r) /\ OnlyImage(r)
    BY <1>1, <2>1 DEF Found, OnlyImage
  <2>4. Place(q, id)
    BY <1>1, <1>4, <2>1, <2>2, <2>3, AfterSimulationKnows
  <2> QED BY <1>1, <1>2, <1>4, <2>4, Unmoved
<1>5. ASSUME NEW s \in sims, Accepts(s, req),
             sims' = Updated(sims, s, [s EXCEPT !.req = req]),
             Become(c, sawIt)
      PROVE  Linked' /\ Place(q, id)'
  <2>1. Place(q, id) /\ q.pc \notin LabPlaces \cup {"deployed"}
    BY <1>3, <1>5 DEF LabPlaces
  <2> DEFINE t == [s EXCEPT !.req = req]
  <2>2. /\ t.spec = s.spec /\ t.image = s.image /\ t.infra = s.infra
        /\ t.blank = s.blank /\ t.managed = s.managed
        /\ t.bastion = s.bastion /\ t.req = req /\ t.status = s.status
        /\ sims' = Updated(sims, s, t)
    BY <1>1, <1>5 DEF Simulation
  <2>3. t.req = "delete" => t.status \in {"INACTIVE", "INVALID"}
    BY <1>5, <2>2 DEF Accepts
  <2> HIDE DEF t
  <2> QED BY <1>1, <1>2, <2>1, <2>2, <2>3, SimEdited
<1>6. CASE (Refuse(c) \/ Become(c, sawIt)) /\ UNCHANGED sims
  BY <1>1, <1>2, <1>3, <1>6, Refusing, Unmoved
<1>7. \/ /\ me[c].seen = "none"
         /\ Become(c, AfterSimulation([me[c] EXCEPT !.sim = 0]))
         /\ UNCHANGED sims
      \/ \E s \in sims : /\ Accepts(s, req)
                         /\ sims' = Updated(sims, s, [s EXCEPT !.req = req])
                         /\ Become(c, sawIt)
      \/ (Refuse(c) \/ Become(c, sawIt)) /\ UNCHANGED sims
  BY DEF ActOnSimulation
<1> HIDE DEF req, sawIt
<1> QED BY <1>4, <1>5, <1>6, <1>7

LEMMA DropImageKeeps ==
  ASSUME SoloInv, NEW c \in Clients, NEW q, q = me'[c], NEW id, DropImage(c)
  PROVE  Linked' /\ Place(q, id)'
<1>1. /\ me \in [Clients -> Process] /\ me[c] \in Process /\ Linked
      /\ Found(me[c]) /\ OnlyImage(me[c]) /\ sims = {}
      /\ UNCHANGED <<clusters, infraenvs, sims>>
  BY Given, AtDestroyPlaces
     DEF DropImage, At, Place, DestroyKnows, Seeking, DestroyPlaces,
         OnlyImage, SimGone
<1>2. CASE Refuse(c) /\ UNCHANGED images
  BY <1>1, <1>2, Refusing, Unmoved
<1>3. CASE /\ images' = {m \in images : m.id # me[c].image}
           /\ Become(c, [me[c] EXCEPT !.pc = "imageGone", !.image = 0])
  <2>1. /\ q.pc = "imageGone" /\ q.cluster = me[c].cluster
        /\ q.target = me[c].target /\ q.infra = me[c].infra
        /\ q.image = 0
    BY <1>1, <1>3 DEF Become, Process
  <2>2. \A m \in images' : m.name = Blank
    BY <1>1, <1>3 DEF OnlyImage
  <2>3. Linked'
    BY <1>1, <1>3 DEF Linked, Uniques, One, ClusterLinks, InfraEnvLinks,
                      ImageLinks, SimLinks
  <2>4. DestroyKnows(q)'
    BY <1>1, <2>1, <2>2
       DEF Found, DestroyKnows, Seeking, Ending, SimGone, DestroyPlaces
  <2>5. Place(q, id)'
    BY <2>1, <2>4 DEF Place, LookedFirst, DeployKnows, ClusterPlaces,
       InfraEnvPlaces, ImagePlaces, SimPlaces, LabPlaces
  <2> QED BY <2>3, <2>5
<1> QED BY <1>2, <1>3 DEF DropImage

LEMMA DropHostsKeeps ==
  ASSUME SoloInv, NEW c \in Clients, NEW q, q = me'[c], NEW id, DropHosts(c)
  PROVE  Linked' /\ Place(q, id)'
<1>1. /\ me \in [Clients -> Process] /\ me[c] \in Process /\ Linked
      /\ Found(me[c]) /\ OnlyImage(me[c]) /\ sims = {} /\ me[c].image = 0
      /\ infraenvs \subseteq InfraEnv
      /\ UNCHANGED <<clusters, images, sims>>
  BY Given, AtDestroyPlaces
     DEF DropHosts, At, Place, DestroyKnows, Seeking, DestroyPlaces,
         OnlyImage, SimGone, Ending
<1>2. CASE Refuse(c) /\ UNCHANGED infraenvs
  BY <1>1, <1>2, Refusing, Unmoved
<1>3. ASSUME NEW i \in infraenvs,
             infraenvs' = Updated(infraenvs, i, [i EXCEPT !.hosts = "none"]),
             Goto(c, "dropInfraEnv")
      PROVE  Linked' /\ Place(q, id)'
  <2>1. /\ q.pc = "dropInfraEnv" /\ q.cluster = me[c].cluster
        /\ q.target = me[c].target /\ q.infra = me[c].infra
        /\ q.image = 0
    BY <1>1, <1>3 DEF Goto, Process
  <2> DEFINE j == [i EXCEPT !.hosts = "none"]
  <2>2. /\ j.id = i.id /\ j.cluster = i.cluster
        /\ infraenvs' = Updated(infraenvs, i, j)
    BY <1>1, <1>3 DEF InfraEnv
  <2> HIDE DEF j
  <2>3. infraenvs = {i} /\ infraenvs' = {j}
    BY <1>1, <2>2, Alone DEF Linked, Uniques
  <2>4. Linked'
    BY <1>1, <2>2, <2>3 DEF Linked, Uniques, One, ClusterLinks,
       InfraEnvLinks, ImageLinks, SimLinks
  <2>5. DestroyKnows(q)'
    BY <1>1, <2>1, <2>2, <2>3 DEF Found, OnlyImage, DestroyKnows, Seeking,
       Ending, SimGone, DestroyPlaces
  <2>6. Place(q, id)'
    BY <2>1, <2>5 DEF Place, LookedFirst, DeployKnows, ClusterPlaces,
       InfraEnvPlaces, ImagePlaces, SimPlaces, LabPlaces
  <2> QED BY <2>4, <2>6
<1> QED BY <1>2, <1>3 DEF DropHosts

LEMMA DropInfraEnvKeeps ==
  ASSUME SoloInv, NEW c \in Clients, NEW q, q = me'[c], NEW id,
         DropInfraEnv(c)
  PROVE  Linked' /\ Place(q, id)'
<1>1. /\ me \in [Clients -> Process] /\ me[c] \in Process /\ Linked
      /\ Found(me[c]) /\ OnlyImage(me[c]) /\ sims = {} /\ me[c].image = 0
      /\ UNCHANGED <<clusters, images, sims>>
      /\ \A m \in images : 0 < m.id
  BY Given, AtDestroyPlaces
     DEF DropInfraEnv, At, Place, DestroyKnows, Seeking, DestroyPlaces,
         OnlyImage, SimGone, Ending
<1>2. CASE Refuse(c) /\ UNCHANGED infraenvs
  BY <1>1, <1>2, Refusing, Unmoved
<1>3. CASE /\ infraenvs' = {i \in infraenvs : i.id # me[c].infra}
           /\ Goto(c, "infraEnvGone")
  <2>1. /\ q.pc = "infraEnvGone" /\ q.cluster = me[c].cluster
        /\ q.target = me[c].target /\ q.infra = me[c].infra
        /\ q.image = 0
    BY <1>1, <1>3 DEF Goto, Process
  <2>2. infraenvs' = {} /\ \A m \in images : m.name = Blank
    BY <1>1, <1>3 DEF Found, OnlyImage
  <2>3. Linked'
    BY <1>1, <2>2 DEF Linked, Uniques, One, ClusterLinks, InfraEnvLinks,
                      ImageLinks, SimLinks
  <2>4. DestroyKnows(q)'
    BY <1>1, <2>1, <2>2
       DEF Found, DestroyKnows, Seeking, Ending, SimGone, DestroyPlaces
  <2>5. Place(q, id)'
    BY <2>1, <2>4 DEF Place, LookedFirst, DeployKnows, ClusterPlaces,
       InfraEnvPlaces, ImagePlaces, SimPlaces, LabPlaces
  <2> QED BY <2>3, <2>5
<1> QED BY <1>2, <1>3 DEF DropInfraEnv

LEMMA DropClusterKeeps ==
  ASSUME SoloInv, NEW c \in Clients, NEW q, q = me'[c], NEW id,
         DropCluster(c)
  PROVE  Linked' /\ Place(q, id)'
<1>1. /\ me \in [Clients -> Process] /\ me[c] \in Process /\ Linked
      /\ Found(me[c]) /\ OnlyImage(me[c]) /\ sims = {} /\ me[c].image = 0
      /\ infraenvs = {} /\ UNCHANGED <<infraenvs, images, sims>>
  BY Given, AtDestroyPlaces
     DEF DropCluster, At, Place, DestroyKnows, Seeking, DestroyPlaces,
         OnlyImage, SimGone, Ending
<1>2. CASE Refuse(c) /\ UNCHANGED clusters
  BY <1>1, <1>2, Refusing, Unmoved
<1>3. CASE /\ \E k \in clusters : k.id = me[c].cluster
           /\ clusters' = {k \in clusters : k.id # me[c].cluster}
           /\ Goto(c, "clusterGone")
  <2>1. /\ q.pc = "clusterGone" /\ q.cluster = me[c].cluster
        /\ q.target = me[c].target /\ q.infra = me[c].infra
        /\ q.image = 0
    BY <1>1, <1>3 DEF Goto, Process
  <2>2. clusters' = {}
    BY <1>1, <1>3 DEF Linked, Uniques, One
  <2>3. Linked'
    BY <1>1, <2>2 DEF Linked, Uniques, One, ClusterLinks, InfraEnvLinks,
                      ImageLinks, SimLinks
  <2>4. DestroyKnows(q)'
    BY <1>1, <2>1, <2>2 DEF Found, OnlyImage, DestroyKnows, Seeking, Ending,
       SimGone, DestroyPlaces
  <2>5. Place(q, id)'
    BY <2>1, <2>4 DEF Place, LookedFirst, DeployKnows, ClusterPlaces,
       InfraEnvPlaces, ImagePlaces, SimPlaces, LabPlaces
  <2> QED BY <2>3, <2>5
<1> QED BY <1>2, <1>3 DEF DropCluster

-----------------------------------------------------------------------------
(***************************************************************************)
(* What the services do on their own leaves what a process knows true.     *)
(***************************************************************************)
LEMMA HostsServed ==
  ASSUME SoloInv, NEW i \in infraenvs, BuildIso(i) \/ RegisterHosts(i),
         NEW q, NEW id, Place(q, id)
  PROVE  Linked' /\ Place(q, id)'
<1>1. Linked /\ infraenvs \subseteq InfraEnv
  BY DEF SoloInv, LabInv, TypeOK, ServicesTypeOK
<1>2. \E j : /\ j.id = i.id /\ j.spec = i.spec /\ j.cluster = i.cluster
             /\ i.hosts = "assigned" => j.hosts = "assigned"
             /\ infraenvs' = Updated(infraenvs, i, j)
  <2>1. CASE BuildIso(i)
    <3> DEFINE j == [i EXCEPT !.iso = TRUE]
    <3>1. /\ j.id = i.id /\ j.spec = i.spec /\ j.cluster = i.cluster
          /\ j.hosts = i.hosts /\ infraenvs' = Updated(infraenvs, i, j)
      BY <1>1, <2>1 DEF BuildIso, InfraEnv
    <3> QED BY <3>1
  <2>2. CASE RegisterHosts(i)
    <3> DEFINE j == [i EXCEPT !.hosts = "found"]
    <3>1. /\ j.id = i.id /\ j.spec = i.spec /\ j.cluster = i.cluster
          /\ i.hosts # "assigned" /\ infraenvs' = Updated(infraenvs, i, j)
      BY <1>1, <2>2 DEF RegisterHosts, InfraEnv
    <3> QED BY <3>1
  <2> QED BY <2>1, <2>2
<1>3. UNCHANGED <<clusters, images, sims>>
  BY DEF BuildIso, RegisterHosts
<1> QED BY <1>1, <1>2, <1>3, InfraEnvEdited

LEMMA ClusterServed ==
  ASSUME SoloInv, NEW k \in clusters,
         \/ BecomeReady(k) \/ BecomeInsufficient(k)
         \/ BeginInstallation(k) \/ EndInstallation(k),
         NEW q, NEW id, Place(q, id)
  PROVE  Linked' /\ Place(q, id)'
<1>1. Linked /\ k \in Cluster /\ k.requests <= 1
      /\ (k.requests > 0 => k.started)
  BY DEF SoloInv, LabInv, TypeOK, ServicesTypeOK, Linked, ClusterLinks
<1>2. \E l : /\ l.id = k.id /\ l.spec = k.spec /\ l.requests = k.requests
             /\ l.started = k.started /\ k.status # "installed"
             /\ clusters' = Updated(clusters, k, l)
  <2>1. ASSUME NEW status, k.status # "installed",
               clusters' = Updated(clusters, k, [k EXCEPT !.status = status])
        PROVE  <1>2
    <3> DEFINE l == [k EXCEPT !.status = status]
    <3>1. /\ l.id = k.id /\ l.spec = k.spec /\ l.requests = k.requests
          /\ l.started = k.started
      BY <1>1 DEF Cluster
    <3> QED BY <2>1, <3>1
  <2>2. CASE BeginInstallation(k)
    <3> DEFINE l == [k EXCEPT !.status = "installing", !.started = TRUE]
    <3>1. /\ l.id = k.id /\ l.spec = k.spec /\ l.requests = k.requests
          /\ l.started = k.started /\ k.status # "installed"
          /\ clusters' = Updated(clusters, k, l)
      BY <1>1, <2>2 DEF BeginInstallation, Cluster
    <3> QED BY <3>1
  <2> QED BY <2>1, <2>2 DEF BecomeReady, BecomeInsufficient, EndInstallation
<1>3. UNCHANGED <<infraenvs, images, sims>>
  BY DEF BecomeReady, BecomeInsufficient, BeginInstallation, EndInstallation
<1> QED BY <1>1, <1>2, <1>3, ClusterEdited

LEMMA ImageServed ==
  ASSUME SoloInv, NEW m \in images, CompleteUpload(m),
         NEW q, NEW id, Place(q, id)
  PROVE  Linked' /\ Place(q, id)'
<1>1. Linked /\ m \in Image
  BY DEF SoloInv, LabInv, TypeOK, ServicesTypeOK
<1> DEFINE n == [m EXCEPT !.status = "COMPLETE"]
<1>2. /\ n.id = m.id /\ n.name = m.name /\ n.owner = m.owner
      /\ n.alike = m.alike /\ images' = Updated(images, m, n)
      /\ UNCHANGED <<clusters, infraenvs, sims>>
  BY <1>1 DEF CompleteUpload, Image
<1> HIDE DEF n
<1> QED BY <1>1, <1>2, ImageEdited

LEMMA SimServed ==
  ASSUME SoloInv, NEW s \in sims,
         \/ EndImport(s) \/ BeginStart(s) \/ DropStart(s) \/ EndStart(s)
         \/ BeginStop(s) \/ EndStop(s) \/ BeginDelete(s),
         NEW q, NEW id, Place(q, id)
  PROVE  Linked' /\ Place(q, id)'
<1>1. Linked /\ s \in Simulation
      /\ (s.req = "delete" => s.status \in {"INACTIVE", "INVALID"})
  BY DEF SoloInv, LabInv, TypeOK, ServicesTypeOK, Linked, SimLinks
<1>2. UNCHANGED <<clusters, infraenvs, images>>
  BY DEF EndImport, BeginStart, DropStart, EndStart, BeginStop, EndStop,
         BeginDelete
<1>3. ASSUME NEW status, NEW req,
             sims' = Updated(sims, s,
                       [s EXCEPT !.status = status, !.req = req]),
             req = "delete" => status \in {"INACTIVE", "INVALID"},
             Stays(s) =>
               /\ req # "delete"
               /\ status \in {"INACTIVE", "BOOTING", "ACTIVE",
                              "SHUTTING_DOWN"}
      PROVE  Linked' /\ Place(q, id)'
  <2> DEFINE t == [s EXCEPT !.status = status, !.req = req]
  <2>1. /\ t.spec = s.spec /\ t.image = s.image /\ t.infra = s.infra
        /\ t.blank = s.blank /\ t.managed = s.managed
        /\ t.bastion = s.bastion /\ t.req = req /\ t.status = status
        /\ sims' = Updated(sims, s, t)
    BY <1>1, <1>3 DEF Simulation
  <2> HIDE DEF t
  <2>2. Stays(s) => Stays(t)
    BY <1>3, <2>1 DEF Stays
  <2> QED BY <1>1, <1>2, <1>3, <2>1, <2>2, SimEdited
<1>4. /\ \A status : [s EXCEPT !.status = status]
                       = [s EXCEPT !.status = status, !.req = s.req]
      /\ [s EXCEPT !.req = "none"]
           = [s EXCEPT !.status = s.status, !.req = "none"]
  BY <1>1 DEF Simulation
<1>5. CASE EndImport(s)
  BY <1>1, <1>3, <1>4, <1>5 DEF EndImport, Stays
<1>6. CASE DropStart(s)
  BY <1>1, <1>3, <1>4, <1>6 DEF DropStart, Stays
<1>7. CASE BeginStart(s)
  BY <1>3, <1>7 DEF BeginStart, Stays
<1>8. CASE BeginStop(s)
  BY <1>3, <1>8 DEF BeginStop, Stays
<1>9. CASE BeginDelete(s)
  BY <1>1, <1>3, <1>9 DEF BeginDelete, Stays
<1>10. CASE EndStart(s)
  BY <1>1, <1>3, <1>4, <1>10 DEF EndStart, Stays
<1>11. CASE EndStop(s)
  BY <1>1, <1>3, <1>4, <1>11 DEF EndStop, Stays
<1> QED BY <1>5, <1>6, <1>7, <1>8, <1>9, <1>10, <1>11

LEMMA SimDeleted ==
  ASSUME SoloInv, NEW s \in sims, EndDelete(s),
         NEW q, NEW id, Place(q, id)
  PROVE  Linked' /\ Place(q, id)'
<1>1. Linked /\ sims' = {} /\ ~Stays(s)
      /\ UNCHANGED <<clusters, infraenvs, images>>
  BY DEF EndDelete, Stays, SoloInv, Linked, Uniques, One
<1>2. Linked'
  BY <1>1 DEF Linked, Uniques, One, ClusterLinks, InfraEnvLinks,
              ImageLinks, SimLinks
<1>3. q.pc \notin LabPlaces \cup {"deployed"}
  BY <1>1 DEF Place, DeployKnows, Usable, HasLab
<1>4. LookedFirst(q)' /\ DestroyKnows(q)'
  BY <1>1 DEF Place, LookedFirst, DestroyKnows
<1>5. DeployKnows(q)'
  BY <1>1, <1>3
     DEF Place, DeployKnows, Has, HasCluster, HasInfraEnv, LabPlaces
<1> QED BY <1>2, <1>3, <1>4, <1>5 DEF Place

LEMMA ServiceKeeps ==
  ASSUME SoloInv, Solo, ServiceStep, NEW q, NEW id, Place(q, id)
  PROVE  Linked' /\ Place(q, id)' /\ foreign' = 0
<1>1. foreign = 0 /\ ~ForeignNext
  BY BoundsAssumption
     DEF SoloInv, Solo, ForeignNext, ForeignImport, ForeignDelete, ForeignBlank
<1>2. CASE AssistedNext
  <2>1. foreign' = foreign
    BY <1>2 DEF AssistedNext, BuildIso, RegisterHosts, BecomeReady,
                BecomeInsufficient, BeginInstallation, EndInstallation
  <2> QED BY <1>1, <1>2, <2>1, HostsServed, ClusterServed DEF AssistedNext
<1>3. CASE AirNext
  <2>1. foreign' = foreign
    BY <1>3 DEF AirNext, CompleteUpload, EndImport, BeginStart, DropStart,
                EndStart, BeginStop, EndStop, BeginDelete, EndDelete
  <2> QED BY <1>1, <1>3, <2>1, ImageServed, SimServed, SimDeleted DEF AirNext
<1> QED BY <1>1, <1>2, <1>3 DEF ServiceStep

-----------------------------------------------------------------------------
(***************************************************************************)
(* Every step.                                                             *)
(***************************************************************************)
LEMMA DeployStepKeeps ==
  ASSUME SoloInv, Solo, NEW c \in Clients, DeployStep(c),
         NEW q, q = me'[c], NEW id, id = creds'[c]
  PROVE  Linked' /\ Place(q, id)' /\ foreign' = 0
<1> USE DEF LooksOnly, remote
<1>1. Linked /\ foreign = 0
  BY DEF SoloInv
<1>2. CASE PreflightSimulation(c) \/ PreflightInfraEnv(c) \/ PreflightImage(c)
  BY <1>1, <1>2, PreflightLooks, Unmoved
     DEF PreflightSimulation, PreflightInfraEnv, PreflightImage
<1>3. CASE ReconcileCluster(c)
  BY <1>1, <1>3, ReconcileClusterLooks, Unmoved DEF ReconcileCluster
<1>4. CASE CreateCluster(c)
  BY <1>1, <1>4, CreateClusterKeeps DEF CreateCluster
<1>5. CASE ReconcileInfraEnv(c)
  BY <1>1, <1>5, ReconcileInfraEnvLooks, Unmoved DEF ReconcileInfraEnv
<1>6. CASE CreateInfraEnv(c)
  BY <1>1, <1>6, CreateInfraEnvKeeps DEF CreateInfraEnv
<1>7. CASE DownloadIso(c)
  BY <1>1, <1>7, DownloadIsoLooks, Unmoved DEF DownloadIso
<1>8. CASE BlankLook(c)
  BY <1>1, <1>8, BlankLookLooks, Unmoved DEF BlankLook
<1>9. CASE ReconcileImage(c)
  BY <1>1, <1>9, ReconcileImageLooks, Unmoved DEF ReconcileImage
<1>10. CASE CreateImage(c)
  BY <1>1, <1>10, CreateImageKeeps DEF CreateImage
<1>11. CASE UploadImage(c)
  BY <1>1, <1>11, UploadImageKeeps DEF UploadImage
<1>12. CASE DeleteBlankImage(c)
  BY <1>12, NothingReplaced
<1>13. CASE CheckMissingSimulation(c) \/ AwaitImport(c) \/ RecheckCapacity(c)
  BY <1>1, <1>13, SimulationWaitLooks, Unmoved
     DEF CheckMissingSimulation, AwaitImport, RecheckCapacity
<1>14. CASE ReconcileSimulation(c)
  BY <1>1, <1>14, ReconcileSimulationLooks, Unmoved DEF ReconcileSimulation
<1>15. CASE ImportSimulation(c)
  BY <1>1, <1>15, ImportSimulationKeeps DEF ImportSimulation
<1>16. CASE ClaimSimulation(c) \/ StartSimulation(c)
  BY <1>1, <1>16, ClaimAndStartKeep DEF ClaimSimulation, StartSimulation
<1>17. CASE ReconcileHosts(c)
  BY <1>1, <1>17, ReconcileHostsLooks, Unmoved DEF ReconcileHosts
<1>18. CASE AssignRoles(c)
  BY <1>1, <1>18, AssignRolesKeeps DEF AssignRoles
<1>19. CASE EnsureJumpHost(c)
  BY <1>1, <1>19, EnsureJumpHostKeeps DEF EnsureJumpHost
<1>20. CASE ReconcileInstallation(c)
  BY <1>1, <1>20, ReconcileInstallationLooks, Unmoved
     DEF ReconcileInstallation
<1>21. CASE StartInstallation(c)
  BY <1>1, <1>21, StartInstallationKeeps DEF StartInstallation
<1>22. CASE DownloadCredentials(c)
  BY <1>1, <1>22, DownloadLooks, Unmoved DEF DownloadCredentials
<1> QED
  BY <1>2, <1>3, <1>4, <1>5, <1>6, <1>7, <1>8, <1>9, <1>10, <1>11, <1>12,
     <1>13, <1>14, <1>15, <1>16, <1>17, <1>18, <1>19, <1>20, <1>21, <1>22
     DEF DeployStep

LEMMA DestroyStepKeeps ==
  ASSUME SoloInv, NEW c \in Clients, DestroyStep(c),
         NEW q, q = me'[c], NEW id
  PROVE  Linked' /\ Place(q, id)' /\ foreign' = 0
<1> USE DEF LooksOnly, remote
<1>1. Linked /\ foreign = 0
  BY DEF SoloInv
<1>2. CASE SeekCluster(c)
  BY <1>1, <1>2, SeekClusterLooks, Unmoved DEF SeekCluster
<1>3. CASE SeekInfraEnv(c)
  BY <1>1, <1>3, SeekInfraEnvLooks, Unmoved DEF SeekInfraEnv
<1>4. CASE ListHosts(c)
  BY <1>1, <1>4, ListHostsLooks, Unmoved DEF ListHosts
<1>5. CASE SeekSimulation(c)
  BY <1>1, <1>5, SeekSimulationLooks, Unmoved DEF SeekSimulation
<1>6. CASE SeekDiscoveryImage(c)
  BY <1>1, <1>6, SeekDiscoveryImageLooks, Unmoved DEF SeekDiscoveryImage
<1>7. CASE ActOnSimulation(c)
  BY <1>1, <1>7, ActOnSimulationKeeps DEF ActOnSimulation
<1>8. CASE RefindSimulation(c)
  BY <1>1, <1>8, RefindSimulationLooks, Unmoved DEF RefindSimulation
<1>9. CASE DropImage(c)
  BY <1>1, <1>9, DropImageKeeps DEF DropImage
<1>10. CASE ImageGone(c) \/ InfraEnvGone(c) \/ ClusterGone(c)
  BY <1>1, <1>10, GoneLooks, Unmoved DEF ImageGone, InfraEnvGone, ClusterGone
<1>11. CASE DropHosts(c)
  BY <1>1, <1>11, DropHostsKeeps DEF DropHosts
<1>12. CASE DropInfraEnv(c)
  BY <1>1, <1>12, DropInfraEnvKeeps DEF DropInfraEnv
<1>13. CASE DropCluster(c)
  BY <1>1, <1>13, DropClusterKeeps DEF DropCluster
<1> QED
  BY <1>2, <1>3, <1>4, <1>5, <1>6, <1>7, <1>8, <1>9, <1>10, <1>11, <1>12,
     <1>13 DEF DestroyStep

LEMMA SoloInit == Init => SoloInv
<1> SUFFICES ASSUME Init PROVE SoloInv
  OBVIOUS
<1>1. Linked /\ foreign = 0
  BY DEF Init, ServicesInit, Linked, Uniques, One, ClusterLinks,
         InfraEnvLinks, ImageLinks, SimLinks
<1>2. \A c \in Clients : Place(me[c], creds[c])
  BY Rests DEF Init
<1> QED BY <1>1, <1>2, Initially DEF SoloInv

LEMMA SoloStep ==
  ASSUME Solo, SoloInv, [Next]_vars
  PROVE  SoloInv'
<1>1. LabInv' /\ LabInv /\ Linked /\ foreign = 0
  BY Inductive DEF SoloInv
<1>2. ASSUME NEW c \in Clients, Launch(c) \/ ClientStep(c) \/ GiveUp(c)
      PROVE  Linked' /\ foreign' = 0
             /\ \A d \in Clients : Place(me[d], creds[d])'
  <2>1. PICK q, id : q = me'[c] /\ id = creds'[c]
    OBVIOUS
  <2>2. Linked' /\ foreign' = 0 /\ Place(q, id)'
    <3>1. CASE Launch(c)
      BY <1>1, <2>1, <3>1, LaunchLooks, Unmoved DEF Launch, LooksOnly, remote
    <3>2. CASE DeployStep(c)
      BY <2>1, <3>2, DeployStepKeeps
    <3>3. CASE DestroyStep(c)
      BY <2>1, <3>3, DestroyStepKeeps
    <3>4. CASE GiveUp(c)
      BY <1>1, <2>1, <3>4, Refusing, Unmoved DEF GiveUp, LooksOnly, remote
    <3> QED BY <1>2, <3>1, <3>2, <3>3, <3>4 DEF ClientStep
  <2>3. \A d \in Clients : d = c
    BY DEF Solo
  <2> QED BY <2>1, <2>2, <2>3
<1>3. CASE ServiceStep
  <2>1. Linked' /\ foreign' = 0
    BY <1>3, Rests, ServiceKeeps
  <2>2. ASSUME NEW d \in Clients PROVE Place(me[d], creds[d])'
    <3>1. PICK q, id : q = me[d] /\ id = creds[d]
      OBVIOUS
    <3>2. Place(q, id) /\ me' = me /\ creds' = creds
      BY <1>3, <3>1 DEF SoloInv, ServiceStep
    <3>3. Place(q, id)'
      BY <1>3, <3>2, ServiceKeeps
    <3> QED BY <3>1, <3>2, <3>3
  <2> QED BY <1>1, <2>1, <2>2 DEF SoloInv
<1>4. CASE UNCHANGED vars
  <2>1. Linked' /\ foreign' = 0
    BY <1>1, <1>4, Rests, Unmoved DEF vars
  <2>2. ASSUME NEW d \in Clients PROVE Place(me[d], creds[d])'
    <3>1. PICK q, id : q = me[d] /\ id = creds[d]
      OBVIOUS
    <3>2. Place(q, id) /\ me' = me /\ creds' = creds
      BY <1>4, <3>1 DEF SoloInv, vars
    <3>3. Place(q, id)'
      BY <1>1, <1>4, <3>2, Unmoved DEF vars
    <3> QED BY <3>1, <3>2, <3>3
  <2> QED BY <1>1, <2>1, <2>2 DEF SoloInv
<1> QED BY <1>1, <1>2, <1>3, <1>4 DEF Next, SoloInv

LEMMA SoloInvariant == ASSUME Solo PROVE Spec => []SoloInv
<1>1. SoloInv /\ [Next]_vars => SoloInv'
  BY SoloStep
<1> QED BY <1>1, SoloInit, PTL DEF Spec
-----------------------------------------------------------------------------
LEMMA OneCounted == ASSUME NEW S, One(S) PROVE Cardinality(S) <= 1
<1>1. CASE S = {}
  BY <1>1, FS_EmptySet
<1>2. ASSUME NEW x \in S PROVE Cardinality(S) <= 1
  <2>1. S = {x} /\ Cardinality({x}) = 1
    BY FS_Singleton DEF One
  <2> QED BY <2>1
<1> QED BY <1>1, <1>2

(***************************************************************************)
(* Runs stopped anywhere and repeated never make a second resource with a  *)
(* name already taken: each creation is told by the place of its process   *)
(* to follow a look that found nothing (LookedFirst).                      *)
(***************************************************************************)
THEOREM RerunsDuplicateNothing ==
  ASSUME Solo PROVE Spec => []RerunsNeverDuplicate
<1>1. SoloInv => RerunsNeverDuplicate
  BY OneCounted DEF SoloInv, Linked, Uniques, RerunsNeverDuplicate
<1> QED BY <1>1, SoloInvariant, PTL

(***************************************************************************)
(* Wherever a deployment or a destruction stops, a discovery image has its *)
(* InfraEnv, an InfraEnv its cluster and a simulation its images: the next *)
(* destruction finds all of them.                                          *)
(***************************************************************************)
THEOREM NothingIsOrphaned == ASSUME Solo PROVE Spec => []NoOrphans
<1>1. SoloInv => NoOrphans
  <2> SUFFICES ASSUME SoloInv PROVE NoOrphans
    OBVIOUS
  <2>1. InfraEnvLinks /\ ImageLinks /\ SimLinks
    BY DEF SoloInv, Linked
  <2>2. \A i \in infraenvs : i.cluster \in Ids(clusters)
    BY <2>1 DEF InfraEnvLinks, Ids
  <2>3. \A m \in images : m.name # Blank => m.name \in Ids(infraenvs)
    BY <2>1 DEF ImageLinks, Ids
  <2>4. \A s \in sims : {s.image, s.blank} \subseteq Ids(images)
    BY <2>1 DEF SimLinks, Has, Ids
  <2> QED BY <2>2, <2>3, <2>4 DEF NoOrphans
<1> QED BY <1>1, SoloInvariant, PTL

(***************************************************************************)
(* When destroy_lab returns nothing of the lab is left but the blank disk, *)
(* whatever earlier runs were stopped at.                                  *)
(***************************************************************************)
THEOREM DestroyedIsGone == ASSUME Solo PROVE Spec => []DestroyedMeansGone
<1>1. SoloInv => DestroyedMeansGone
  <2> SUFFICES ASSUME SoloInv, NEW c \in Clients, At(c, "destroyed")
               PROVE  /\ clusters = {} /\ infraenvs = {} /\ sims = {}
                      /\ \A m \in images : m.name = Blank
    BY DEF DestroyedMeansGone
  <2>1. clusters = {} /\ infraenvs = {} /\ sims = {}
    BY DEF SoloInv, Place, DestroyKnows, At
  <2> QED BY <2>1, NothingWithoutInfraEnv DEF SoloInv
<1> QED BY <1>1, SoloInvariant, PTL

(***************************************************************************)
(* When deploy_lab returns the lab is whole and of one spec, also when the *)
(* run that returns resumed the work of others.                            *)
(***************************************************************************)
THEOREM DeployedIsUsable == ASSUME Solo PROVE Spec => []DeployedMeansUsable
<1>1. SoloInv => DeployedMeansUsable
  <2> SUFFICES ASSUME SoloInv, NEW c \in Clients, At(c, "deployed")
               PROVE  \E k \in clusters, i \in infraenvs, s \in sims :
                        /\ k.status = "installed" /\ creds[c] = k.id
                        /\ i.cluster = k.id /\ i.hosts = "assigned"
                        /\ s.infra = i.id /\ s.managed /\ s.bastion
                        /\ k.spec = i.spec /\ k.spec = s.spec
    BY DEF DeployedMeansUsable
  <2>1. Usable(creds[c]) /\ Linked
    BY DEF SoloInv, Place, At
  <2>2. PICK k \in clusters :
          k.id = creds[c] /\ k.status = "installed" /\ HasLab(k.spec)
    BY <2>1 DEF Usable
  <2>3. PICK i \in infraenvs, s \in sims : TRUE
    BY <2>2 DEF HasLab
  <2>4. i.spec = k.spec /\ s.spec = k.spec /\ s.managed
    BY <2>2 DEF HasLab
  <2>5. i.hosts = "assigned" /\ s.bastion
    BY <2>1 DEF Usable, Assigned, Reached
  <2>6. i.cluster = k.id /\ s.infra = i.id
    BY <2>1 DEF Linked, InfraEnvLinks, SimLinks
  <2> QED BY <2>2, <2>4, <2>5, <2>6
<1> QED BY <1>1, SoloInvariant, PTL

(***************************************************************************)
(* _reconcile_installation requests one installation of a cluster, over    *)
(* all the runs that resume one another.                                   *)
(***************************************************************************)
THEOREM InstallsOnce == ASSUME Solo PROVE Spec => []OneInstallation
<1>1. SoloInv => OneInstallation
  BY DEF SoloInv, Linked, ClusterLinks, OneInstallation
<1> QED BY <1>1, SoloInvariant, PTL

(* A request for an installation is made by StartInstallation alone.       *)
LEMMA OnlyStartRequests ==
  ASSUME SoloInv, [Next]_vars, NEW k \in clusters, NEW l \in clusters',
         k.id = l.id, k.requests < l.requests
  PROVE  \E c \in Clients : StartInstallation(c)
<1>1. clusters = {k} /\ k \in Cluster /\ k.requests \in 0..2
  BY DEF SoloInv, Linked, Uniques, One, LabInv, TypeOK, ServicesTypeOK,
         Cluster
<1>2. l \notin clusters
  BY <1>1
<1>3. CASE \E c \in Clients : Launch(c) \/ ClientStep(c) \/ GiveUp(c)
  <2>1. PICK c \in Clients : Launch(c) \/ ClientStep(c) \/ GiveUp(c)
    BY <1>3
  <2>2. Launch(c) \/ GiveUp(c) => UNCHANGED clusters
    BY DEF Launch, GiveUp, LooksOnly, remote
  <2>3. ~CreateCluster(c)
    BY <1>1, Given DEF CreateCluster, At, Place, LookedFirst
  <2>4. ~DropCluster(c)
    BY <1>2 DEF DropCluster, Refuse
  <2> QED BY <1>2, <2>1, <2>2, <2>3, <2>4, ClusterSteps
<1>4. CASE ServiceStep
  <2>1. \/ UNCHANGED clusters
        \/ \E status : clusters' = Updated(clusters, k,
                                     [k EXCEPT !.status = status])
        \/ clusters' = Updated(clusters, k,
                         [k EXCEPT !.status = "installing", !.started = TRUE])
    <3>1. CASE AssistedNext
      BY <1>1, <3>1
         DEF AssistedNext, BuildIso, RegisterHosts, BecomeReady,
             BecomeInsufficient, BeginInstallation, EndInstallation
    <3>2. CASE AirNext
      BY <3>2
         DEF AirNext, CompleteUpload, EndImport, BeginStart, DropStart,
             EndStart, BeginStop, EndStop, BeginDelete, EndDelete
    <3>3. CASE ForeignNext
      BY <3>3
         DEF ForeignNext, ForeignImport, ForeignDelete, ForeignBlank
    <3> QED BY <1>4, <3>1, <3>2, <3>3 DEF ServiceStep
  <2>2. \A x \in clusters' : x.requests = k.requests
    BY <1>1, <2>1 DEF Updated, Cluster
  <2> QED BY <1>1, <2>2
<1>5. ~UNCHANGED vars
  BY <1>2 DEF vars
<1> QED BY <1>3, <1>4, <1>5 DEF Next

(***************************************************************************)
(* An installation is requested only for a prepared lab: assigned hosts    *)
(* that boot from the managed simulation, whose jump host is up.           *)
(***************************************************************************)
THEOREM InstallsPreparedLabs ==
  ASSUME Solo PROVE Spec => InstallsOnlyPreparedLab
<1> DEFINE Prepared ==
      \A k \in clusters, l \in clusters' :
        k.id = l.id /\ k.requests < l.requests =>
          \E i \in infraenvs, s \in sims :
            /\ i.cluster = k.id /\ i.hosts = "assigned"
            /\ s.infra = i.id /\ s.managed /\ s.bastion
<1>1. SoloInv /\ [Next]_vars => [Prepared]_vars
  <2> SUFFICES ASSUME SoloInv, [Next]_vars, NEW k \in clusters,
                      NEW l \in clusters', k.id = l.id,
                      k.requests < l.requests
               PROVE  \E i \in infraenvs, s \in sims :
                        /\ i.cluster = k.id /\ i.hosts = "assigned"
                        /\ s.infra = i.id /\ s.managed /\ s.bastion
    OBVIOUS
  <2>1. PICK c \in Clients : StartInstallation(c)
    BY OnlyStartRequests
  <2>2. HasLab(me[c].spec) /\ Assigned /\ Reached /\ Linked
    BY <2>1, Given DEF StartInstallation, At, LabPlaces, Place, DeployKnows
  <2>3. PICK i \in infraenvs, s \in sims : s.managed
    BY <2>2 DEF HasLab
  <2>4. i.hosts = "assigned" /\ s.bastion
    BY <2>2 DEF Assigned, Reached
  <2>5. i.cluster = k.id /\ s.infra = i.id
    BY <2>2 DEF Linked, InfraEnvLinks, SimLinks
  <2> QED BY <2>3, <2>4, <2>5
<1> QED BY <1>1, SoloInvariant, PTL DEF Spec, InstallsOnlyPreparedLab
=============================================================================
