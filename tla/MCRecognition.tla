--------------------------- MODULE MCRecognition ---------------------------
(***************************************************************************)
(* A small instance of Recognition for TLC: single nodes with every kind   *)
(* of hardware, labs of three to five nodes linked in several ways, and    *)
(* variants of the cluster's settings, some of each not valid.             *)
(***************************************************************************)
EXTENDS Recognition

Nic(name, type) ==
  [name |-> name, model |-> "connectx7", emulation_type |-> type]

Hardware(mode, emulation, devices) ==
  [cpu_mode |-> mode, nic_model |-> "virtio", uefi |-> FALSE,
   secureboot |-> FALSE, emulation_type |-> emulation, network_pci |-> devices]

Plain == Hardware("host-passthrough", None, <<>>)
WithNic == Hardware("custom", "HOST", <<Nic("nic1", "NIC_ETHERNET")>>)

Two == <<Nic("nic1", "NIC_ETHERNET"), Nic("nic2", "NIC_ETHERNET")>>
Devices == {<<>>, <<Two[1]>>, Two, <<Two[2], Two[1]>>}

AnyHardware ==
  {[Hardware(mode, emulation, devices) EXCEPT !.uefi = uefi] :
     mode \in {"host-passthrough", "custom"}, emulation \in {None, "HOST"},
     devices \in Devices, uefi \in BOOLEAN}
  \cup
  {Hardware("unknown", None, <<>>), Hardware("custom", "UNKNOWN", <<>>),
   Hardware("custom", "HOST", <<Nic("nic1", "UNKNOWN")>>),
   Hardware("custom", "HOST", <<Nic("", "NIC_ETHERNET")>>),
   Hardware("custom", "HOST", <<Nic("nic1", "NIC_INFINIBAND")>>),
   Hardware("custom", "HOST", <<Two[1], Nic("nic1", "NIC_INFINIBAND")>>),
   [Plain EXCEPT !.nic_model = "e1000"], [Plain EXCEPT !.nic_model = "ne2000"],
   [Plain EXCEPT !.secureboot = TRUE],
   [Plain EXCEPT !.uefi = TRUE, !.secureboot = TRUE]}

Pool(names, size, disk, hardware) ==
  [names |-> names, size |-> size, disk |-> disk, hardware |-> hardware]

Word(w) == [text |-> w, padded |-> FALSE]
Padded(w) == [text |-> w, padded |-> TRUE]

Settings ==
  [version |-> [release |-> "4.18", patch |-> NoPatch],
   architecture |-> "x86_64", plain |-> Word("a"), ntp_sources |-> <<>>,
   machine_networks |-> <<"n">>, api_vips |-> <<<<"n", 10>>>>,
   ingress_vips |-> <<<<"n", 11>>>>]

SingleNode ==
  [control_plane |-> Pool(<<"c0">>, 2, 2, Plain),
   workers |-> Pool(<<>>, 1, 1, Plain), links |-> <<>>, cluster |-> Settings]

Three == Pool(<<"c0", "c1", "c2">>, 2, 2, WithNic)
Compact == [SingleNode EXCEPT !.control_plane = Three]

SingleNodes ==
  {[SingleNode EXCEPT !.control_plane.hardware = h] : h \in AnyHardware}

OtherPools ==
  {[Compact EXCEPT !.workers = w] :
     w \in {Pool(<<"w0", "w1">>, 1, 1, Plain),
            Pool(<<"w0", "w1">>, 1, 2, Plain),
            Pool(<<"c2">>, 2, 2, WithNic), Pool(<<"w0">>, 2, 2, WithNic)}}
  \cup
  {[Compact EXCEPT !.control_plane.names = <<"c0", "c1", "w0">>,
                   !.workers = Pool(<<"c2">>, 2, 2, WithNic)],
   [SingleNode EXCEPT !.control_plane.names = <<"c0", "c1">>],
   [SingleNode EXCEPT !.workers.names = <<"w0">>],
   [SingleNode EXCEPT !.control_plane.names = <<"w0">>]}

Port(node, device, interface) ==
  [node |-> node, network_pci |-> device, interface |-> interface]

(* One link or two, between ports that differ in node, device or name.     *)
Ports ==
  {Port("c0", "nic1", "p0"), Port("c1", "nic1", "p0"), Port("c1", None, "p0"),
   Port("c1", "nic1", "p1"), Port("w9", None, "p0"), Port("c0", "nic2", "p0"),
   Port("c1", "", "p0"), Port("c1", None, "")}
Linked ==
  {[Compact EXCEPT !.links = <<<<a, b>>>>] : a \in Ports, b \in Ports}
  \cup
  {[Compact EXCEPT !.links = <<<<a, Port("c2", "nic1", "p0")>>, <<b, d>>>>] :
     a \in {Port("c0", "nic1", "p0")},
     b \in Ports, d \in {Port("c2", None, "p0"), Port("c2", "nic1", "p0")}}
  \cup
  {[Compact EXCEPT !.links =
      <<<<Port("c1", "nic1", "p0"), Port("c2", None, "p0")>>,
        <<Port("c0", "nic1", "p0"), Port("c2", "nic1", "p0")>>>>]}

OtherSettings ==
  {[Settings EXCEPT !.version = v] :
     v \in [release : {"4.18"}, patch : {NoPatch, PreRelease, 3, 4}]
               \cup {[release |-> "4.19", patch |-> 3]}}
  \cup
  {[Settings EXCEPT !.ntp_sources = q] :
     q \in {<<<<Word("a")>>>>, <<<<Word("a")>>, <<Word("b")>>>>,
            <<<<Word("b")>>, <<Word("a")>>>>, <<<<Word("a"), Word("b")>>>>,
            <<<<Padded("a")>>>>, <<<<>>>>}}
  \cup
  {[Settings EXCEPT !.api_vips = <<<<"n", 11>>>>],
   [Settings EXCEPT !.api_vips = <<<<"n", 12>>>>],
   [Settings EXCEPT !.ingress_vips = <<<<"n", 12>>>>],
   [Settings EXCEPT !.machine_networks = <<"n", "m">>],
   [Settings EXCEPT !.machine_networks = <<"m">>],
   [Settings EXCEPT !.plain = Word("b")],
   [Settings EXCEPT !.plain = Padded("a")],
   [Settings EXCEPT !.architecture = "arm64"],
   [Settings EXCEPT !.architecture = "unknown"]}

LabDrafts ==
  SingleNodes \cup OtherPools \cup Linked
  \cup {[s EXCEPT !.cluster = k] :
          s \in {SingleNode, Compact}, k \in OtherSettings}

SomePatches == {3, 4}
=============================================================================
