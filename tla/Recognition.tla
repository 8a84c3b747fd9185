---------------------------- MODULE Recognition ----------------------------
(***************************************************************************)
(* How a deployment recognises its own lab: the validation of a spec       *)
(* (models/spec.py), the intents made from it (models/resolution.py,       *)
(* core/builders.py), what becomes of them in the requests to the two      *)
(* services and in what is read back (adapters/air/mapping.py,             *)
(* adapters/assisted/mapping.py), and the drift between the two            *)
(* (core/decisions.py).  The processes of LabWorkflows, where a            *)
(* configuration is a version of the spec and drift another version, rest  *)
(* on the properties at the end.                                           *)
(*                                                                         *)
(* Simplifications: one deployment at a time, with the looks at which      *)
(* drift is decided; spec and simulation are changed while none runs.      *)
(* Lists whose order is sorted away are sets from the intents on; a pool   *)
(* has the names resolved for it; size is CPUs and memory, plain is the    *)
(* domain with the cluster and service networks, all copied as they are;   *)
(* an address is a pair of its network and the rest; a digest is what it   *)
(* is computed from; the names of cluster and simulation are not blank;    *)
(* ids, but for the blank disk's, ownership and credentials are left to    *)
(* LabWorkflows.                                                           *)
(***************************************************************************)
EXTENDS Integers, FiniteSets, Sequences, SequencesExt

CONSTANTS
  Drafts,   \* specs as read from files, before they are validated
  Patches   \* stable patches of a release the service may choose

None == "none"                        \* Python's None
NoPatch == -1                         \* a version that is only a release
PreRelease == -2                      \* a patch like 0-rc.1

(* A text, and whether there is whitespace, or a comma with nothing beyond *)
(* it, around it.                                                          *)
Text == [text : STRING, padded : BOOLEAN]
Stripped(t) == [t EXCEPT !.padded = FALSE]

Device ==
  [name : STRING \ {None}, model : STRING,
   emulation_type : {"NIC_ETHERNET", "NIC_INFINIBAND", "UNKNOWN"}]
NodeHardware ==
  [cpu_mode : {"host-passthrough", "host-model", "custom", "unknown"},
   nic_model : STRING, uefi : BOOLEAN, secureboot : BOOLEAN,
   emulation_type : {None, "HOST", "UNKNOWN"}, network_pci : Seq(Device)]
NodePool ==
  [names : Seq(STRING), size : Nat \ {0}, disk : Nat \ {0},
   hardware : NodeHardware]
Endpoint == [node : STRING, network_pci : STRING, interface : STRING]
Version == [release : STRING, patch : Nat \cup {NoPatch, PreRelease}]
Architectures == {"x86_64", "arm64", "unknown"}
ClusterSettings ==
  [version : Version,
   architecture : Architectures, plain : Text,
   ntp_sources : Seq(Seq(Text)),
   machine_networks : Seq(STRING), api_vips : Seq(STRING \X Nat),
   ingress_vips : Seq(STRING \X Nat)]
LabSpec ==
  [control_plane : NodePool, workers : NodePool,
   links : Seq(Endpoint \X Endpoint), cluster : ClusterSettings]

ASSUME DraftsAssumption == Drafts \subseteq LabSpec
ASSUME PatchesAssumption == Patches \subseteq Nat
-----------------------------------------------------------------------------
(***************************************************************************)
(* The validators of models/spec.py.                                       *)
(***************************************************************************)
ValidHardware(h) ==
  /\ \A i, j \in DOMAIN h.network_pci :
       h.network_pci[i].name = h.network_pci[j].name => i = j
  /\ \A d \in ToSet(h.network_pci) : d.name # "" /\ d.model # ""
  /\ h.network_pci # <<>> => h.emulation_type = "HOST"
  /\ h.cpu_mode # "unknown"
  /\ h.nic_model \in {"virtio", "e1000"}
  /\ h.secureboot => h.uefi

(* Every VIP is in a machine network.                                      *)
ValidNetworking(k) ==
  LET vips == ToSet(k.api_vips) \cup ToSet(k.ingress_vips)
  IN /\ k.api_vips # <<>> /\ k.ingress_vips # <<>> /\ k.machine_networks # <<>>
     /\ ToSet(k.api_vips) \cap ToSet(k.ingress_vips) = {}
     /\ \A vip \in vips : vip[1] \in ToSet(k.machine_networks)

NodeNames(s) == ToSet(s.control_plane.names) \cup ToSet(s.workers.names)

PoolOf(s, n) ==
  IF n \in ToSet(s.control_plane.names) THEN s.control_plane ELSE s.workers

DeviceNames(s, n) == {d.name : d \in ToSet(PoolOf(s, n).hardware.network_pci)}

ValidLink(s, l) ==
  \A e \in ToSet(l) :
    /\ e.node \in NodeNames(s)
    /\ e.interface # ""
    /\ e.network_pci \in DeviceNames(s, e.node) \cup {None}

ValidTopology(s) ==
  LET names == s.control_plane.names \o s.workers.names
      ends == (DOMAIN s.links) \X {1, 2}
      End(x) == s.links[x[1]][x[2]]
  IN /\ Len(s.control_plane.names) \in {1, 3}
     /\ s.workers.names # <<>> => Len(s.control_plane.names) = 3
     /\ IsInjective(names)
     /\ \A l \in ToSet(s.links) : ValidLink(s, l)
     /\ \A x, y \in ends : End(x) = End(y) => x = y

Valid(s) ==
  /\ ValidHardware(s.control_plane.hardware)
  /\ ValidHardware(s.workers.hardware)
  /\ ValidNetworking(s.cluster)
  /\ ValidTopology(s)
-----------------------------------------------------------------------------
(***************************************************************************)
(* The intents: models/resolution.py and core/builders.py.                 *)
(***************************************************************************)
HardwareIntentCpu(h) ==               \* mutated: the CPU mode is kept
  [h EXCEPT !.network_pci = ToSet(@)]
HardwareIntent(h) ==
  [cpu_mode |-> IF h.emulation_type = None THEN h.cpu_mode ELSE None,
   nic_model |-> h.nic_model, uefi |-> h.uefi, secureboot |-> h.secureboot,
   emulation_type |-> h.emulation_type, network_pci |-> ToSet(h.network_pci)]

(* The blank disk's image is named after its architecture and its size,    *)
(* that of the smallest disk.                                              *)
BlankDisk(s) ==
  LET disks == {PoolOf(s, n).disk : n \in NodeNames(s)}
  IN [architecture |-> s.cluster.architecture,
      gib |-> CHOOSE d \in disks : \A e \in disks : d <= e]

NodeIntent(s, n) ==
  [size |-> PoolOf(s, n).size, disk |-> PoolOf(s, n).disk,
   base_image |-> BlankDisk(s),
   hardware |-> HardwareIntent(PoolOf(s, n).hardware)]

SimulationIntent(s) ==
  [nodes |-> [n \in NodeNames(s) |-> NodeIntent(s, n)],
   links |-> {ToSet(l) : l \in ToSet(s.links)}]

HighAvailability(s) == Len(s.control_plane.names) = 3

(* The VIPs of a single node are dropped: its address is both.             *)
ClusterIntent(s) ==
  [version |-> s.cluster.version, architecture |-> s.cluster.architecture,
   plain |-> s.cluster.plain, ntp_sources |-> s.cluster.ntp_sources,
   high_availability |-> HighAvailability(s),
   control_plane_count |-> Len(s.control_plane.names),
   machine_networks |-> s.cluster.machine_networks,
   api_vips |-> IF HighAvailability(s) THEN s.cluster.api_vips ELSE <<>>,
   ingress_vips |->
     IF HighAvailability(s) THEN s.cluster.ingress_vips ELSE <<>>]
-----------------------------------------------------------------------------
(***************************************************************************)
(* Air: what simulation_content checks before an import, what Air has      *)
(* afterwards and what its export tells of it.  Air adds a node for its    *)
(* own network and may leave the firmware of HOST nodes out (~shown).      *)
(***************************************************************************)
LinkFits(l, nodes) ==
  /\ Cardinality(l) = 2
  /\ \A e \in l :
       /\ e.node \in DOMAIN nodes /\ e.interface # ""
       /\ e.network_pci = None \/
            \E d \in nodes[e.node].hardware.network_pci : d.name = e.network_pci

Importable(sim) ==
  /\ \A n \in DOMAIN sim.nodes :
       LET h == sim.nodes[n].hardware
       IN /\ h.cpu_mode # "unknown" /\ h.emulation_type # "UNKNOWN"
          /\ (h.cpu_mode = None) # (h.emulation_type = None)
          /\ h.nic_model \in {"virtio", "e1000"}
          /\ \A d, e \in h.network_pci : d.name = e.name => d = e
          /\ \A d \in h.network_pci :
               d.name # "" /\ d.model # "" /\ d.emulation_type # "UNKNOWN"
          /\ h.network_pci # {} => h.emulation_type = "HOST"
  /\ \A l \in sim.links : LinkFits(l, sim.nodes)

ManagementNode == "oob-mgmt-server"

Exported(sim, shown) ==
  [nodes |->
     [n \in DOMAIN sim.nodes |->
        [settings |-> sim.nodes[n],
         firmware |-> shown \/ sim.nodes[n].hardware.emulation_type = None]],
   links |-> sim.links, others |-> {ManagementNode}]

(* Absent firmware is no firmware (_node_hardware_snapshot).               *)
HardwareSnapshot(h, firmware) ==
  [cpu_mode |-> h.cpu_mode, nic_model |-> h.nic_model,
   uefi |-> IF firmware THEN h.uefi ELSE FALSE,
   secureboot |-> IF firmware THEN h.secureboot ELSE FALSE,
   emulation_type |-> h.emulation_type, network_pci |-> h.network_pci]

NodeSnapshot(x) ==
  [size |-> x.settings.size, disk |-> x.settings.disk,
   base_image |-> x.settings.base_image,
   hardware |-> HardwareSnapshot(x.settings.hardware, x.firmware)]

(* Written after an import: a digest of the topology and the names.        *)
Metadata(sim) == [topology |-> sim, managed_nodes |-> DOMAIN sim.nodes]

(* simulation_to_snapshot fails on an export that lacks a managed node.    *)
Readable(export, metadata) ==
  LET nodes == [n \in DOMAIN export.nodes |-> export.nodes[n].settings]
  IN /\ \A l \in export.links : LinkFits(l, nodes)
     /\ metadata.managed_nodes \subseteq DOMAIN export.nodes \cup export.others

(* find_air_simulation_material_drift                                      *)
SimulationMatchesDigest(intent, export, metadata) ==
  metadata.topology = intent          \* mutated: the digest is believed
SimulationMatches(intent, export, metadata) ==
  /\ Readable(export, metadata)
  /\ metadata.topology = intent /\ metadata.managed_nodes = DOMAIN intent.nodes
  /\ intent.links = export.links
  /\ \A n \in DOMAIN intent.nodes :
       /\ n \in DOMAIN export.nodes
       /\ intent.nodes[n] = NodeSnapshot(export.nodes[n])
-----------------------------------------------------------------------------
(***************************************************************************)
(* Assisted Installer: the request for a cluster, what the service makes   *)
(* of it and what is read back.  NTP sources travel as one text, joined    *)
(* and split at commas: a source is the sequence of names it consists of,  *)
(* blank ones left out.                                                    *)
(***************************************************************************)
Sendable(intent) == intent.architecture # "unknown"

ClusterParams(intent) ==
  [version |-> intent.version, architecture |-> intent.architecture,
   plain |-> intent.plain, ntp_sources |-> FlattenSeq(intent.ntp_sources),
   high_availability_mode |->
     IF intent.high_availability THEN "Full" ELSE "None",
   control_plane_count |-> intent.control_plane_count,
   machine_networks |-> intent.machine_networks,
   api_vips |-> intent.api_vips, ingress_vips |-> intent.ingress_vips]

(* The service chooses a patch of a release, and may not show the machine  *)
(* network before hosts have been discovered (early).                      *)
ReportedCluster(params, patch, early) ==
  [params EXCEPT
     !.version = IF @.patch = NoPatch THEN [@ EXCEPT !.patch = patch] ELSE @,
     !.machine_networks = IF early THEN <<>> ELSE @]

NtpSources(text) == [i \in DOMAIN text |-> <<Stripped(text[i])>>]

VersionMatchesRelease(requested, observed) ==
  requested.release = observed.release  \* mutated: any patch will do
VersionMatches(requested, observed) ==
  \/ requested = observed
  \/ /\ requested.patch = NoPatch /\ requested.release = observed.release
     /\ observed.patch \in Nat

(* find_material_drift and find_infraenv_material_drift: the InfraEnv      *)
(* repeats some of the cluster.                                            *)
ClusterMatches(intent, cluster, early) ==
  /\ VersionMatches(intent.version, cluster.version)
  /\ intent.plain = Stripped(cluster.plain)
  /\ intent.architecture = cluster.architecture
  /\ intent.ntp_sources = NtpSources(cluster.ntp_sources)
  /\ intent.high_availability = (cluster.high_availability_mode = "Full")
  /\ intent.control_plane_count = cluster.control_plane_count
  /\ \/ intent.machine_networks = cluster.machine_networks
     \/ cluster.machine_networks = <<>> /\ early
  /\ intent.api_vips = cluster.api_vips
  /\ intent.ingress_vips = cluster.ingress_vips
-----------------------------------------------------------------------------
(***************************************************************************)
(* Deployments of one lab.  A resource is told by the spec it was made     *)
(* from: a simulation has the nodes and links of made and the metadata of  *)
(* marked.                                                                 *)
(***************************************************************************)
VARIABLES
  file,      \* the person's spec
  place,     \* where the deployment is
  answer,    \* what the last one said
  clusters,  \* the lab's cluster with its InfraEnv, if there is one
  images,    \* its discovery image
  sims,      \* its simulation
  touched    \* history: file or simulation changed since the lab was begun

vars == <<file, place, answer, clusters, images, sims, touched>>
remote == <<clusters, images, sims>>

ImageIntent(s) ==
  [version |-> s.cluster.version, architecture |-> s.cluster.architecture]

(* The variables have their types; resources are made in order.            *)
TypeOK ==
  /\ file \in LabSpec
  /\ place \in {"idle", "cluster", "image", "simulation", "installation"}
  /\ answer \in {"none", "invalid", "refused", "done"}
  /\ clusters \subseteq [made : LabSpec, patch : Patches, early : BOOLEAN]
  /\ images \subseteq [version : Version, architecture : Architectures]
  /\ sims \subseteq [made : LabSpec, marked : LabSpec, shown : BOOLEAN]
  /\ touched \in BOOLEAN
  /\ clusters = {} => images = {}
  /\ images = {} => sims = {}

Init ==
  /\ file \in Drafts
  /\ place = "idle" /\ answer = "none"
  /\ clusters = {} /\ images = {} /\ sims = {}
  /\ touched = FALSE

Goto(p) == place' = p /\ UNCHANGED answer
End(a) == place' = "idle" /\ answer' = a

Deploy ==
  /\ place = "idle"
  /\ IF Valid(file) THEN place' = "cluster" /\ answer' = "none"
     ELSE End("invalid")
  /\ UNCHANGED <<file, touched, remote>>

Recognised(k) ==
  ClusterMatches(
    ClusterIntent(file),
    ReportedCluster(ClusterParams(ClusterIntent(k.made)), k.patch, k.early),
    k.early)

ReconcileCluster ==
  /\ place = "cluster"
  /\ \/ /\ clusters = {} /\ ~Sendable(ClusterIntent(file))
        /\ End("refused") /\ UNCHANGED clusters
     \/ /\ clusters = {} /\ Sendable(ClusterIntent(file))
        /\ \E p \in Patches :
             clusters' = {[made |-> file, patch |-> p, early |-> TRUE]}
        /\ Goto("image")
     \/ /\ \E k \in clusters :
             IF Recognised(k) THEN Goto("image") ELSE End("refused")
        /\ UNCHANGED clusters
  /\ UNCHANGED <<file, touched, images, sims>>

ReconcileImage ==
  /\ place = "image"
  /\ \/ images = {} /\ images' = {ImageIntent(file)} /\ Goto("simulation")
     \/ /\ \E m \in images :
             IF m = ImageIntent(file) THEN Goto("simulation")
             ELSE End("refused")
        /\ UNCHANGED images
  /\ UNCHANGED <<file, touched, clusters, sims>>

ReconcileSimulation ==
  LET intent == SimulationIntent(file)
  IN /\ place = "simulation"
     /\ \/ ~Importable(intent) /\ End("refused") /\ UNCHANGED sims
        \/ /\ Importable(intent) /\ sims = {}
           /\ \E shown \in BOOLEAN :
                sims' = {[made |-> file, marked |-> file, shown |-> shown]}
           /\ Goto("installation")
        \/ /\ Importable(intent)
           /\ \E x \in sims :
                IF SimulationMatches(
                     intent, Exported(SimulationIntent(x.made), x.shown),
                     Metadata(SimulationIntent(x.marked)))
                  THEN Goto("installation") ELSE End("refused")
           /\ UNCHANGED sims
     /\ UNCHANGED <<file, touched, clusters, images>>

(* The cluster is looked at again until it is ready, and so no more early. *)
ReconcileInstallation ==
  /\ place = "installation"
  /\ \E k \in clusters :
       \/ ~k.early /\ Recognised(k) /\ End("done")
       \/ ~Recognised(k) /\ End("refused")
  /\ UNCHANGED <<file, touched, remote>>

Kill == place # "idle" /\ End("none") /\ UNCHANGED <<file, touched, remote>>

DiscoverHosts ==
  /\ sims # {}
  /\ \E k \in clusters : k.early /\ clusters' = {[k EXCEPT !.early = FALSE]}
  /\ UNCHANGED <<file, place, answer, images, sims, touched>>

DestroyHalf ==                        \* mutated: the simulation stays
  /\ place = "idle"
  /\ clusters' = {} /\ images' = {} /\ answer' = "none" /\ touched' = FALSE
  /\ UNCHANGED <<file, place, sims>>
Destroy ==
  /\ place = "idle"
  /\ clusters' = {} /\ images' = {} /\ sims' = {}
  /\ answer' = "none" /\ touched' = FALSE
  /\ UNCHANGED <<file, place>>

Touch == place = "idle" /\ ~touched /\ touched' = TRUE /\ answer' = "none"

EditFile ==
  /\ Touch
  /\ file' \in Drafts
  /\ UNCHANGED <<place, remote>>

EditSimulation ==
  /\ Touch
  /\ \E x \in sims, t \in Drafts :
       /\ Valid(t) /\ Importable(SimulationIntent(t))
       /\ sims' = {[x EXCEPT !.made = t]}
  /\ UNCHANGED <<file, place, clusters, images>>

Next ==
  \/ Deploy \/ ReconcileCluster \/ ReconcileImage \/ ReconcileSimulation
  \/ ReconcileInstallation \/ Kill
  \/ DiscoverHosts \/ Destroy \/ EditFile \/ EditSimulation

Spec == Init /\ [][Next]_vars
-----------------------------------------------------------------------------
(***************************************************************************)
(* What the code does not carry through, though the validators accept it:  *)
(* kinds and architectures that are only names for what is unknown,        *)
(* whitespace around the domain or an NTP source, which reading back       *)
(* strips, several servers in one NTP source, and firmware of HOST nodes,  *)
(* which an export may not show.                                           *)
(***************************************************************************)
Carried(s) ==
  /\ s.cluster.architecture # "unknown"
  /\ ~s.cluster.plain.padded
  /\ \A q \in ToSet(s.cluster.ntp_sources) : Len(q) = 1 /\ ~q[1].padded
  /\ \A n \in NodeNames(s) :
       LET h == PoolOf(s, n).hardware
       IN /\ \/ h.emulation_type = None
             \/ h.emulation_type = "HOST" /\ ~h.uefi
          /\ \A d \in ToSet(h.network_pci) : d.emulation_type # "UNKNOWN"

(***************************************************************************)
(* Validation is strong enough and the conversions agree: a spec that was  *)
(* accepted and whose settings are all carried through is never refused    *)
(* later, not by the checks before a cluster is requested or a simulation  *)
(* imported and not because its own lab looks different when it is read    *)
(* back, stopped at any place, early or late and whatever patch the        *)
(* service chose (docs/lifecycle.md, safe reruns).                         *)
(***************************************************************************)
LabsRecognised == answer = "refused" => touched \/ ~Carried(file)

SameHardware(h, k, shown) ==
  /\ h.emulation_type = k.emulation_type
  /\ h.emulation_type = None => h.cpu_mode = k.cpu_mode
  /\ h.nic_model = k.nic_model
  /\ ToSet(h.network_pci) = ToSet(k.network_pci)
  /\ shown \/ h.emulation_type = None =>
       h.uefi = k.uefi /\ h.secureboot = k.secureboot

SameNode(s, t, n, shown) ==
  /\ n \in NodeNames(t)
  /\ PoolOf(s, n).size = PoolOf(t, n).size
  /\ PoolOf(s, n).disk = PoolOf(t, n).disk
  /\ SameHardware(PoolOf(s, n).hardware, PoolOf(t, n).hardware, shown)

(***************************************************************************)
(* A deployment that reports success has the simulation its spec asks for, *)
(* though the spec was edited or somebody gave the simulation other nodes  *)
(* and links in the console and left its metadata: every node of the spec  *)
(* with its settings, but for a CPU mode that emulation replaces and       *)
(* firmware that is not shown, and the links, in any order.  Nodes that    *)
(* are not the lab's may be added; which node has which role is not seen.  *)
(***************************************************************************)
SimulationAsAsked ==
  answer = "done" =>
    \A x \in sims :
      /\ \A n \in NodeNames(file) : SameNode(file, x.made, n, x.shown)
      /\ {ToSet(l) : l \in ToSet(file.links)} =
           {ToSet(l) : l \in ToSet(x.made.links)}

Servers(cluster) ==
  LET q == FlattenSeq(cluster.ntp_sources) IN [i \in DOMAIN q |-> q[i].text]

(***************************************************************************)
(* And its cluster: of the version, or of a patch of the release, the spec *)
(* names, with its size, NTP servers and networks, the machine network     *)
(* that is not shown at first included, and with its VIPs unless it is a   *)
(* single node.                                                            *)
(***************************************************************************)
ClusterAsAsked ==
  answer = "done" =>
    \A k \in clusters :
      LET i == file.cluster
          j == k.made.cluster
          patch ==
            IF j.version.patch = NoPatch THEN k.patch ELSE j.version.patch
      IN /\ i.version.release = j.version.release
         /\ i.version.patch \in {NoPatch, patch}
         /\ i.architecture = j.architecture
         /\ i.plain.text = j.plain.text
         /\ Len(file.control_plane.names) = Len(k.made.control_plane.names)
         /\ Servers(i) = Servers(j)
         /\ i.machine_networks = j.machine_networks
         /\ HighAvailability(file) =>
              i.api_vips = j.api_vips /\ i.ingress_vips = j.ingress_vips
=============================================================================
