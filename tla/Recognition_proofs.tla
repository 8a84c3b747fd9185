------------------------- MODULE Recognition_proofs -------------------------
(***************************************************************************)
(* Proofs about Recognition, for every set of drafts: first what joining   *)
(* the NTP sources does (by the least index where two definitions would    *)
(* differ), then that the conversions there and back agree, and the        *)
(* inductive invariant that gives the properties.                          *)
(***************************************************************************)
EXTENDS Recognition, SequenceTheorems, FiniteSetTheorems,
        WellFoundedInduction, TLAPS

(* A set of natural numbers that is not empty has a least element.         *)
LEMMA LeastNumber ==
  ASSUME NEW T \in SUBSET Nat, T # {}
  PROVE  \E m \in T : \A k \in T : m <= k
<1>1. PICK m \in T : \A k \in T : <<k, m>> \notin OpToRel(<, Nat)
  BY NatLessThanWellFounded, WFMin
<1>2. ASSUME NEW k \in T, k < m
      PROVE  FALSE
  <2>1. <<k, m>> \in Nat \X Nat /\ <<k, m>>[1] < <<k, m>>[2]
    BY <1>2
  <2> QED BY <1>1, <2>1, Zenon DEF OpToRel
<1> QED
  BY <1>2

Steps(f, q, n) ==
  \A i \in 1..n : f[i] = IF i = 1 THEN q[i] ELSE f[i - 1] \o q[i]

Flattens(f, q, n) == f \in [1..n -> Seq(Text)] /\ Steps(f, q, n)

LEMMA StepsUnique ==
  ASSUME NEW q, NEW n \in Nat, NEW f, Steps(f, q, n), NEW g, Steps(g, q, n)
  PROVE  \A i \in 1..n : f[i] = g[i]
<1> DEFINE T == {i \in 1..n : f[i] # g[i]}
<1>1. T \in SUBSET Nat
  OBVIOUS
<1>2. ASSUME NEW m \in T, \A k \in T : m <= k
      PROVE  FALSE
  <2>1. m \in 1..n /\ f[m] # g[m]
    OBVIOUS
  <2>2. m # 1
    BY <2>1 DEF Steps
  <2>3. m - 1 \in 1..n /\ ~(m <= m - 1)
    BY <2>1, <2>2
  <2>4. f[m - 1] = g[m - 1]
    BY <1>2, <2>3
  <2> QED BY <2>1, <2>2, <2>4 DEF Steps
<1> HIDE DEF T
<1>3. T = {}
  BY <1>1, <1>2, LeastNumber
<1> QED BY <1>3 DEF T

LEMMA FlattenExtends ==
  ASSUME NEW q \in Seq(Seq(Text)), NEW n \in Nat, n + 1 \in 1..Len(q),
         NEW f, Flattens(f, q, n), n # 0
  PROVE  \E g : Flattens(g, q, n + 1)
<1> DEFINE m == n + 1
           g == [i \in 1..m |-> IF i = m THEN f[n] \o q[m] ELSE f[i]]
<1>1. n \in 1..n /\ m \in 1..m /\ \A i \in 1..m : i # m => i \in 1..n
  OBVIOUS
<1>2. q[m] \in Seq(Text) /\ f[n] \in Seq(Text)
  BY <1>1 DEF Flattens, Steps
<1>3. f[n] \o q[m] \in Seq(Text)
  BY <1>2
<1>4. \A i \in 1..m : i # m => f[i] \in Seq(Text)
  BY <1>1 DEF Flattens, Steps
<1>5. g \in [1..m -> Seq(Text)]
  BY <1>3, <1>4
<1>6. ASSUME NEW i \in 1..m
      PROVE  g[i] = IF i = 1 THEN q[i] ELSE g[i - 1] \o q[i]
  <2>1. CASE i = m
    <3>1. i - 1 = n /\ i # 1 /\ i - 1 \in 1..m /\ i - 1 # m
      BY <2>1
    <3> QED BY <2>1, <3>1
  <2>2. CASE i # m
    <3>1. i \in 1..n /\ g[i] = f[i]
      BY <2>2, <1>1
    <3>2. i # 1 => i - 1 \in 1..m /\ i - 1 # m
      BY <3>1
    <3>3. i # 1 => g[i - 1] = f[i - 1]
      BY <3>2
    <3> QED BY <3>1, <3>3 DEF Flattens, Steps
  <2> QED BY <2>1, <2>2
<1> HIDE DEF g
<1>7. Flattens(g, q, m)
  BY <1>5, <1>6 DEF Flattens, Steps
<1> QED BY <1>7

LEMMA FlattenExists ==
  ASSUME NEW q \in Seq(Seq(Text))
  PROVE  \A n \in 1..Len(q) : \E f : Flattens(f, q, n)
<1> DEFINE T == {m \in 1..Len(q) : \A f : ~Flattens(f, q, m)}
<1>1. T \in SUBSET Nat
  OBVIOUS
<1>2. ASSUME NEW m \in T, \A k \in T : m <= k
      PROVE  FALSE
  <2>1. m \in 1..Len(q) /\ \A f : ~Flattens(f, q, m)
    OBVIOUS
  <2>2. CASE m = 1
    <3>1. q[1] \in Seq(Text)
      BY <2>1, <2>2
    <3>2. Flattens([i \in 1..1 |-> q[1]], q, 1)
      BY <3>1 DEF Flattens, Steps
    <3> QED BY <2>1, <2>2, <3>2
  <2>3. CASE m # 1
    <3> DEFINE n == m - 1
    <3>1. n \in 1..Len(q) /\ n \in Nat /\ n # 0 /\ n + 1 = m /\ ~(m <= n)
      BY <2>1, <2>3
    <3>2. n \notin T
      BY <1>2, <3>1
    <3>3. \E f : Flattens(f, q, n)
      BY <3>1, <3>2
    <3> HIDE DEF n
    <3>4. \E g : Flattens(g, q, n + 1)
      BY <2>1, <3>1, <3>3, FlattenExtends
    <3> QED BY <2>1, <3>1, <3>4
  <2> QED BY <2>2, <2>3
<1> HIDE DEF T
<1>3. T = {}
  BY <1>1, <1>2, LeastNumber
<1> QED BY <1>3 DEF T

LEMMA FlattenSeqIs ==
  ASSUME NEW q \in Seq(Seq(Text)), q # <<>>
  PROVE  \E f : Flattens(f, q, Len(q)) /\ FlattenSeq(q) = f[Len(q)]
<1> DEFINE n == Len(q)
           Eq(f) ==
             f = [i \in 1..n |-> IF i = 1 THEN q[i] ELSE f[i - 1] \o q[i]]
           c == CHOOSE f : Eq(f)
<1>1. n \in Nat /\ n # 0
  OBVIOUS
<1>2. PICK f : Flattens(f, q, n)
  BY <1>1, FlattenExists
<1>3. f = [i \in 1..n |-> f[i]]
  BY <1>2 DEF Flattens, Steps
<1>4. Eq(f)
  BY <1>2, <1>3 DEF Flattens, Steps
<1>5. Eq(c)
  BY <1>4
<1>6. FlattenSeq(q) = c[n]
  BY <1>1 DEF FlattenSeq
<1> HIDE DEF c
<1>7. Steps(c, q, n) /\ Steps(f, q, n)
  BY <1>2, <1>5 DEF Flattens, Steps
<1>8. c[n] = f[n]
  BY <1>1, <1>7, StepsUnique
<1> QED BY <1>2, <1>6, <1>8

LEMMA OneMore ==
  ASSUME NEW s \in Seq(Text), NEW t \in Seq(Text), Len(t) = 1
  PROVE  /\ s \o t \in Seq(Text) /\ Len(s \o t) = Len(s) + 1
         /\ \A k \in 1..Len(s) : (s \o t)[k] = s[k]
         /\ (s \o t)[Len(s) + 1] = t[1]
<1> DEFINE u == s \o t
           n == Len(s)
<1>1. n \in Nat
  BY LenProperties
<1>2. /\ u \in Seq(Text) /\ Len(u) = n + 1
      /\ \A k \in 1..n + 1 : u[k] = IF k <= n THEN s[k] ELSE t[k - n]
  <2>1. /\ u \in Seq(Text) /\ Len(u) = n + Len(t)
        /\ \A k \in 1..n + Len(t) :
             u[k] = IF k <= n THEN s[k] ELSE t[k - n]
    BY ConcatProperties, Zenon
  <2> HIDE DEF u, n
  <2> QED BY <2>1
<1> HIDE DEF u, n
<1>3. \A k \in 1..n : u[k] = s[k]
  BY <1>1, <1>2
<1>4. u[n + 1] = t[1]
  <2>1. n + 1 \in 1..n + 1 /\ ~(n + 1 <= n) /\ n + 1 - n = 1
    BY <1>1
  <2> QED BY <1>1, <1>2, <2>1
<1> QED BY <1>2, <1>3, <1>4 DEF u, n

(* A list of sources of one server each is joined to the list of servers.  *)
LEMMA FlattenSingles ==
  ASSUME NEW q \in Seq(Seq(Text)), \A i \in DOMAIN q : Len(q[i]) = 1
  PROVE  FlattenSeq(q) = [i \in DOMAIN q |-> q[i][1]]
<1>1. CASE q = <<>>
  BY <1>1 DEF FlattenSeq
<1>2. CASE q # <<>>
  <2> DEFINE n == Len(q)
             g == [i \in 1..n |-> [k \in 1..i |-> q[k][1]]]
  <2>1. n \in Nat /\ n # 0 /\ n \in 1..n
    BY <1>2
  <2>2. ASSUME NEW i \in 1..n
        PROVE  q[i] \in Seq(Text) /\ Len(q[i]) = 1 /\ q[i][1] \in Text
    <3>1. i \in DOMAIN q /\ q[i] \in Seq(Text)
      OBVIOUS
    <3>2. Len(q[i]) = 1
      BY <3>1
    <3>3. 1 \in 1..Len(q[i])
      BY <3>2
    <3>4. q[i][1] \in Text
      BY <3>1, <3>3, ElementOfSeq
    <3> QED BY <3>1, <3>2, <3>4
  <2>3. ASSUME NEW i \in 1..n
        PROVE  g[i] = IF i = 1 THEN q[i] ELSE g[i - 1] \o q[i]
    <3>1. CASE i = 1
      <4>1. g[i] \in Seq(Text) /\ Len(g[i]) = 1 /\ g[i][1] = q[i][1]
        BY <3>1, <2>2
      <4> HIDE DEF g
      <4> QED BY <3>1, <4>1, <2>2, SeqEqual
    <3>2. CASE i # 1
      <4>1. i - 1 \in 1..n /\ i - 1 \in Nat
        BY <3>2
      <4>2. g[i] \in Seq(Text) /\ Len(g[i]) = i
        BY <2>2
      <4>3. g[i - 1] \in Seq(Text) /\ Len(g[i - 1]) = i - 1
        BY <4>1, <2>2
      <4>4. \A k \in 1..i - 1 : g[i][k] = g[i - 1][k]
        BY <4>1
      <4>5. g[i][i] = q[i][1]
        OBVIOUS
      <4> HIDE DEF g
      <4>6. /\ g[i - 1] \o q[i] \in Seq(Text) /\ Len(g[i - 1] \o q[i]) = i
            /\ \A k \in 1..i - 1 : (g[i - 1] \o q[i])[k] = g[i - 1][k]
            /\ (g[i - 1] \o q[i])[i] = q[i][1]
        <5> DEFINE p == g[i - 1]
                   r == q[i]
        <5>1. p \in Seq(Text) /\ Len(p) = i - 1
          BY <4>3
        <5>2. r \in Seq(Text) /\ Len(r) = 1 /\ i - 1 + 1 = i
          BY <2>2
        <5> HIDE DEF p, r
        <5>3. /\ p \o r \in Seq(Text) /\ Len(p \o r) = Len(p) + 1
              /\ \A k \in 1..Len(p) : (p \o r)[k] = p[k]
              /\ (p \o r)[Len(p) + 1] = r[1]
          BY <5>1, <5>2, OneMore
        <5>4. /\ p \o r \in Seq(Text) /\ Len(p \o r) = i
              /\ \A k \in 1..i - 1 : (p \o r)[k] = p[k]
              /\ (p \o r)[i] = r[1]
          BY <5>1, <5>2, <5>3
        <5> QED BY <5>4 DEF p, r
      <4>7. \A k \in 1..i : g[i][k] = (g[i - 1] \o q[i])[k]
        <5>1. \A k \in 1..i : k = i \/ k \in 1..i - 1
          OBVIOUS
        <5> QED BY <4>4, <4>5, <4>6, <5>1
      <4> QED BY <3>2, <4>2, <4>6, <4>7, SeqEqual
    <3> QED BY <3>1, <3>2
  <2> HIDE DEF g
  <2>4. Steps(g, q, n)
    BY <2>3 DEF Steps
  <2>5. PICK f : Flattens(f, q, n) /\ FlattenSeq(q) = f[n]
    BY <1>2, FlattenSeqIs
  <2>6. f[n] = g[n]
    BY <2>1, <2>4, <2>5, StepsUnique DEF Flattens
  <2>7. g[n] = [k \in 1..n |-> q[k][1]]
    BY <2>1 DEF g
  <2> QED BY <2>5, <2>6, <2>7
<1> QED BY <1>1, <1>2

LEMMA FlattenType ==
  ASSUME NEW q \in Seq(Seq(Text))
  PROVE  FlattenSeq(q) \in Seq(Text)
<1>1. CASE q = <<>>
  BY <1>1 DEF FlattenSeq
<1>2. CASE q # <<>>
  <2>1. Len(q) \in 1..Len(q)
    BY <1>2
  <2> QED BY <1>2, <2>1, FlattenSeqIs DEF Flattens
<1> QED BY <1>1, <1>2
-----------------------------------------------------------------------------
(***************************************************************************)
(* The conversions.                                                        *)
(***************************************************************************)
LEMMA PoolType ==
  ASSUME NEW s \in LabSpec, NEW n
  PROVE  /\ PoolOf(s, n) \in NodePool
         /\ PoolOf(s, n) \in {s.control_plane, s.workers}
BY DEF LabSpec, PoolOf

(* What is read back of a node whose firmware is shown or not.             *)
LEMMA NodeSnapshotIs ==
  ASSUME NEW s, NEW n, NEW firmware
  PROVE  LET h == PoolOf(s, n).hardware
         IN NodeSnapshot([settings |-> NodeIntent(s, n),
                          firmware |-> firmware]) =
              [size |-> PoolOf(s, n).size, disk |-> PoolOf(s, n).disk,
               base_image |-> BlankDisk(s),
               hardware |->
                 [cpu_mode |->
                    IF h.emulation_type = None THEN h.cpu_mode ELSE None,
                  nic_model |-> h.nic_model,
                  uefi |-> IF firmware THEN h.uefi ELSE FALSE,
                  secureboot |-> IF firmware THEN h.secureboot ELSE FALSE,
                  emulation_type |-> h.emulation_type,
                  network_pci |-> ToSet(h.network_pci)]]
BY DEF NodeSnapshot, HardwareSnapshot, NodeIntent, HardwareIntent

LEMMA LinkEnds ==
  ASSUME NEW s \in LabSpec, NEW l \in ToSet(s.links)
  PROVE  /\ l \in Endpoint \X Endpoint /\ ToSet(l) = {l[1], l[2]}
<1>1. PICK i \in DOMAIN s.links : l = s.links[i]
  BY DEF ToSet
<1>2. s.links \in Seq(Endpoint \X Endpoint)
  BY DEF LabSpec
<1>3. l \in Endpoint \X Endpoint
  BY <1>1, <1>2, ElementOfSeq, LenProperties
<1>4. DOMAIN l = {1, 2}
  BY <1>3
<1> QED BY <1>3, <1>4 DEF ToSet

LEMMA EndsDiffer ==
  ASSUME NEW s \in LabSpec, ValidTopology(s), NEW l \in ToSet(s.links)
  PROVE  l[1] # l[2] /\ Cardinality(ToSet(l)) = 2
<1>1. PICK i \in DOMAIN s.links : l = s.links[i]
  BY DEF ToSet
<1>2. /\ <<i, 1>> \in (DOMAIN s.links) \X {1, 2}
      /\ <<i, 2>> \in (DOMAIN s.links) \X {1, 2}
      /\ <<i, 1>> # <<i, 2>>
  OBVIOUS
<1>3. l[1] # l[2]
  BY <1>1, <1>2 DEF ValidTopology
<1>4. /\ IsFiniteSet({l[1]}) /\ Cardinality({l[1]}) = 1
      /\ l[2] \notin {l[1]} /\ {l[1]} \cup {l[2]} = {l[1], l[2]}
  BY <1>3, FS_Singleton
<1>5. Cardinality({l[1], l[2]}) = 2
  BY <1>4, FS_AddElement
<1> QED BY <1>3, <1>5, LinkEnds

(* A spec that passes validation, and says nothing the code does not       *)
(* carry, passes the checks before an import.                              *)
LEMMA NodeImportable ==
  ASSUME NEW s \in LabSpec, Valid(s), Carried(s), NEW n \in NodeNames(s)
  PROVE  LET h == HardwareIntent(PoolOf(s, n).hardware)
         IN /\ h.cpu_mode # "unknown" /\ h.emulation_type # "UNKNOWN"
            /\ (h.cpu_mode = None) # (h.emulation_type = None)
            /\ h.nic_model \in {"virtio", "e1000"}
            /\ \A d, e \in h.network_pci : d.name = e.name => d = e
            /\ \A d \in h.network_pci :
                 d.name # "" /\ d.model # "" /\ d.emulation_type # "UNKNOWN"
            /\ h.network_pci # {} => h.emulation_type = "HOST"
<1> DEFINE g == PoolOf(s, n).hardware
           h == HardwareIntent(g)
<1>1. g \in NodeHardware /\ ValidHardware(g)
  BY PoolType DEF NodePool, Valid
<1>2. /\ g.emulation_type \in {None, "HOST"}
      /\ \A d \in ToSet(g.network_pci) : d.emulation_type # "UNKNOWN"
  BY DEF Carried
<1> HIDE DEF g
<1>3. /\ h.cpu_mode = IF g.emulation_type = None THEN g.cpu_mode ELSE None
      /\ h.emulation_type = g.emulation_type /\ h.nic_model = g.nic_model
      /\ h.network_pci = ToSet(g.network_pci)
  BY DEF HardwareIntent
<1> HIDE DEF h
<1>4. g.cpu_mode # "unknown" /\ g.cpu_mode # None
  BY <1>1 DEF ValidHardware, NodeHardware, None
<1>5. h.cpu_mode # "unknown" /\ h.emulation_type # "UNKNOWN"
  BY <1>2, <1>3, <1>4 DEF None
<1>6. (h.cpu_mode = None) # (h.emulation_type = None)
  BY <1>2, <1>3, <1>4 DEF None
<1>7. h.nic_model \in {"virtio", "e1000"}
  BY <1>1, <1>3 DEF ValidHardware
<1>8. \A d, e \in h.network_pci : d.name = e.name => d = e
  BY <1>1, <1>3 DEF ValidHardware, ToSet
<1>9. h.network_pci # {} => h.emulation_type = "HOST"
  <2>1. h.network_pci # {} => g.network_pci # <<>>
    BY <1>3 DEF ToSet
  <2> QED BY <1>1, <1>3, <2>1 DEF ValidHardware
<1>10. \A d \in h.network_pci : d.name # "" /\ d.model # ""
  BY <1>1, <1>3 DEF ValidHardware
<1> QED BY <1>2, <1>3, <1>5, <1>6, <1>7, <1>8, <1>9, <1>10 DEF h, g

LEMMA OwnLinksFit ==
  ASSUME NEW s \in LabSpec, Valid(s), NEW l \in SimulationIntent(s).links
  PROVE  LinkFits(l, SimulationIntent(s).nodes)
<1> DEFINE nodes == [n \in NodeNames(s) |-> NodeIntent(s, n)]
<1>1. /\ SimulationIntent(s).nodes = nodes
      /\ SimulationIntent(s).links = {ToSet(m) : m \in ToSet(s.links)}
  BY DEF SimulationIntent
<1>2. PICK m \in ToSet(s.links) : l = ToSet(m)
  BY <1>1
<1>3. ValidTopology(s) /\ ValidLink(s, m)
  BY DEF Valid, ValidTopology
<1>4. Cardinality(l) = 2
  BY <1>2, <1>3, EndsDiffer
<1>5. ASSUME NEW e \in l
      PROVE  /\ e.node \in DOMAIN nodes /\ e.interface # ""
             /\ \/ e.network_pci = None
                \/ \E d \in nodes[e.node].hardware.network_pci :
                     d.name = e.network_pci
  <2>1. /\ e.node \in NodeNames(s) /\ e.interface # ""
        /\ e.network_pci \in DeviceNames(s, e.node) \cup {None}
    BY <1>2, <1>3 DEF ValidLink
  <2>2. nodes[e.node].hardware.network_pci =
          ToSet(PoolOf(s, e.node).hardware.network_pci)
    BY <2>1 DEF NodeIntent, HardwareIntent
  <2> QED BY <2>1, <2>2 DEF DeviceNames
<1> HIDE DEF nodes
<1> QED BY <1>1, <1>4, <1>5 DEF LinkFits

LEMMA OwnLabImportable ==
  ASSUME NEW s \in LabSpec, Valid(s), Carried(s)
  PROVE  Importable(SimulationIntent(s))
<1> DEFINE sim == SimulationIntent(s)
<1>1. DOMAIN sim.nodes = NodeNames(s)
  BY DEF SimulationIntent
<1>2. \A n \in NodeNames(s) :
        sim.nodes[n].hardware = HardwareIntent(PoolOf(s, n).hardware)
  BY DEF SimulationIntent, NodeIntent
<1>3. \A l \in sim.links : LinkFits(l, sim.nodes)
  BY OwnLinksFit
<1>4. ASSUME NEW n \in NodeNames(s)
      PROVE  LET h == sim.nodes[n].hardware
             IN /\ h.cpu_mode # "unknown" /\ h.emulation_type # "UNKNOWN"
                /\ (h.cpu_mode = None) # (h.emulation_type = None)
                /\ h.nic_model \in {"virtio", "e1000"}
                /\ \A d, e \in h.network_pci : d.name = e.name => d = e
                /\ \A d \in h.network_pci :
                     /\ d.name # "" /\ d.model # ""
                     /\ d.emulation_type # "UNKNOWN"
                /\ h.network_pci # {} => h.emulation_type = "HOST"
  <2> HIDE DEF sim
  <2> DEFINE g == HardwareIntent(PoolOf(s, n).hardware)
  <2>1. sim.nodes[n].hardware = g
    BY <1>2
  <2>2. /\ g.cpu_mode # "unknown" /\ g.emulation_type # "UNKNOWN"
        /\ (g.cpu_mode = None) # (g.emulation_type = None)
        /\ g.nic_model \in {"virtio", "e1000"}
        /\ \A d, e \in g.network_pci : d.name = e.name => d = e
        /\ \A d \in g.network_pci :
             d.name # "" /\ d.model # "" /\ d.emulation_type # "UNKNOWN"
        /\ g.network_pci # {} => g.emulation_type = "HOST"
    BY NodeImportable
  <2> HIDE DEF g
  <2> QED BY <2>1, <2>2
<1> HIDE DEF sim
<1> QED BY <1>1, <1>3, <1>4 DEF Importable, sim

(* Its lab, made by an import, is recognised.                              *)
LEMMA OwnSimulationMatches ==
  ASSUME NEW s \in LabSpec, Valid(s), Carried(s), NEW shown \in BOOLEAN
  PROVE  LET sim == SimulationIntent(s)
         IN SimulationMatches(sim, Exported(sim, shown), Metadata(sim))
<1> DEFINE sim == SimulationIntent(s)
           export == Exported(sim, shown)
           metadata == Metadata(sim)
<1>1. /\ DOMAIN export.nodes = DOMAIN sim.nodes /\ export.links = sim.links
      /\ \A n \in DOMAIN sim.nodes :
           export.nodes[n] =
             [settings |-> sim.nodes[n],
              firmware |->
                shown \/ sim.nodes[n].hardware.emulation_type = None]
  BY DEF Exported
<1>2. metadata.topology = sim /\ metadata.managed_nodes = DOMAIN sim.nodes
  BY DEF Metadata
<1>3. /\ DOMAIN sim.nodes = NodeNames(s)
      /\ sim.nodes = [n \in NodeNames(s) |-> NodeIntent(s, n)]
  BY DEF SimulationIntent
<1>4. \A l \in sim.links : LinkFits(l, sim.nodes)
  BY OwnLinksFit
<1> HIDE DEF sim, export, metadata
<1>5. [n \in DOMAIN export.nodes |-> export.nodes[n].settings] = sim.nodes
  <2>1. ASSUME NEW n \in DOMAIN sim.nodes
        PROVE  export.nodes[n].settings = sim.nodes[n]
    <3> DEFINE x == export.nodes[n]
               y == sim.nodes[n]
    <3>1. x = [settings |-> y,
               firmware |-> shown \/ y.hardware.emulation_type = None]
      BY <1>1
    <3> HIDE DEF x, y
    <3>2. x.settings = y
      BY <3>1
    <3> QED BY <3>2 DEF x, y
  <2>2. [n \in DOMAIN export.nodes |-> export.nodes[n].settings] =
          [n \in DOMAIN sim.nodes |-> sim.nodes[n]]
    BY <1>1, <2>1
  <2>3. sim.nodes = [n \in DOMAIN sim.nodes |-> sim.nodes[n]]
    BY <1>3
  <2> QED BY <2>2, <2>3
<1>6. Readable(export, metadata)
  BY <1>1, <1>2, <1>4, <1>5 DEF Readable
<1>7. ASSUME NEW n \in DOMAIN sim.nodes
      PROVE  sim.nodes[n] = NodeSnapshot(export.nodes[n])
  <2> DEFINE h == PoolOf(s, n).hardware
             firmware == shown \/ sim.nodes[n].hardware.emulation_type = None
  <2>1. sim.nodes[n] = NodeIntent(s, n) /\ n \in NodeNames(s)
    BY <1>3
  <2>2. sim.nodes[n].hardware.emulation_type = h.emulation_type
    BY <2>1 DEF NodeIntent, HardwareIntent
  <2>3. h \in NodeHardware /\ ValidHardware(h)
    BY PoolType DEF NodePool, Valid
  <2>4. ~firmware => h.uefi = FALSE /\ h.secureboot = FALSE
    <3>1. ~firmware => ~h.uefi
      BY <2>1, <2>2 DEF Carried
    <3>2. h.secureboot => h.uefi
      BY <2>3 DEF ValidHardware
    <3>3. h.uefi \in BOOLEAN /\ h.secureboot \in BOOLEAN
      BY <2>3 DEF NodeHardware
    <3> HIDE DEF h, firmware
    <3> QED BY <3>1, <3>2, <3>3
  <2> DEFINE c == IF h.emulation_type = None THEN h.cpu_mode ELSE None
             Node(u, v) ==
               [size |-> PoolOf(s, n).size, disk |-> PoolOf(s, n).disk,
                base_image |-> BlankDisk(s),
                hardware |->
                  [cpu_mode |-> c, nic_model |-> h.nic_model, uefi |-> u,
                   secureboot |-> v, emulation_type |-> h.emulation_type,
                   network_pci |-> ToSet(h.network_pci)]]
  <2>5. NodeIntent(s, n) = Node(h.uefi, h.secureboot)
    BY DEF NodeIntent, HardwareIntent
  <2>6. NodeSnapshot(export.nodes[n]) =
          Node(IF firmware THEN h.uefi ELSE FALSE,
               IF firmware THEN h.secureboot ELSE FALSE)
    <3>1. export.nodes[n] =
            [settings |-> NodeIntent(s, n), firmware |-> firmware]
      BY <1>1, <2>1
    <3> HIDE DEF firmware
    <3>2. NodeSnapshot([settings |-> NodeIntent(s, n),
                        firmware |-> firmware]) =
            Node(IF firmware THEN h.uefi ELSE FALSE,
                 IF firmware THEN h.secureboot ELSE FALSE)
      BY NodeSnapshotIs
    <3> QED BY <3>1, <3>2
  <2> HIDE DEF h, firmware, Node
  <2>7. /\ (IF firmware THEN h.uefi ELSE FALSE) = h.uefi
        /\ (IF firmware THEN h.secureboot ELSE FALSE) = h.secureboot
    BY <2>4
  <2> QED BY <2>1, <2>5, <2>6, <2>7
<1>8. /\ Readable(export, metadata)
      /\ metadata.topology = sim /\ metadata.managed_nodes = DOMAIN sim.nodes
      /\ sim.links = export.links
      /\ \A n \in DOMAIN sim.nodes :
           /\ n \in DOMAIN export.nodes
           /\ sim.nodes[n] = NodeSnapshot(export.nodes[n])
  BY <1>1, <1>2, <1>6, <1>7
<1> QED BY <1>8 DEF SimulationMatches, sim, export, metadata

LEMMA StrippedIs ==
  ASSUME NEW x \in Text
  PROVE  /\ Stripped(x) \in Text /\ Stripped(x).text = x.text
         /\ ~x.padded => Stripped(x) = x
BY DEF Text, Stripped

(* NTP sources of one server each come back as they were; and whatever     *)
(* comes back names the servers that were sent.                            *)
LEMMA NtpRoundTrip ==
  ASSUME NEW q \in Seq(Seq(Text)),
         \A i \in DOMAIN q : Len(q[i]) = 1 /\ ~q[i][1].padded
  PROVE  q = NtpSources(FlattenSeq(q))
<1> DEFINE t == [i \in DOMAIN q |-> q[i][1]]
<1>1. FlattenSeq(q) = t
  BY FlattenSingles
<1>2. NtpSources(t) = [i \in DOMAIN q |-> <<Stripped(q[i][1])>>]
  BY DEF NtpSources
<1>3. ASSUME NEW i \in DOMAIN q
      PROVE  q[i] = <<Stripped(q[i][1])>>
  <2> DEFINE u == q[i]
  <2>1. u \in Seq(Text) /\ Len(u) = 1 /\ ~u[1].padded
    OBVIOUS
  <2> HIDE DEF u
  <2>2. u = <<u[1]>> /\ u[1] \in Text
    BY <2>1
  <2>3. Stripped(u[1]) = u[1]
    BY <2>1, <2>2, StrippedIs
  <2> QED BY <2>2, <2>3 DEF u
<1>4. q = [i \in DOMAIN q |-> q[i]]
  OBVIOUS
<1> HIDE DEF t
<1> QED BY <1>1, <1>2, <1>3, <1>4

LEMMA NtpAsked ==
  ASSUME NEW c, NEW d, c.ntp_sources \in Seq(Seq(Text)),
         d.ntp_sources \in Seq(Seq(Text)),
         c.ntp_sources = NtpSources(FlattenSeq(d.ntp_sources))
  PROVE  Servers(c) = Servers(d)
<1> DEFINE q == c.ntp_sources
           t == FlattenSeq(d.ntp_sources)
<1>1. t \in Seq(Text)
  BY FlattenType
<1>2. q \in Seq(Seq(Text)) /\ q = NtpSources(t)
  OBVIOUS
<1>3. Servers(c) = [i \in DOMAIN FlattenSeq(q) |-> FlattenSeq(q)[i].text]
  BY DEF Servers
<1>4. Servers(d) = [i \in DOMAIN t |-> t[i].text]
  BY DEF Servers
<1> HIDE DEF t, q
<1>5. q = [i \in DOMAIN t |-> <<Stripped(t[i])>>]
  BY <1>2 DEF NtpSources
<1>6. \A i \in DOMAIN q : Len(q[i]) = 1 /\ q[i][1] = Stripped(t[i])
  BY <1>5
<1>7. FlattenSeq(q) = [i \in DOMAIN q |-> q[i][1]]
  BY <1>2, <1>6, FlattenSingles
<1>8. DOMAIN FlattenSeq(q) = DOMAIN t
  BY <1>5, <1>7
<1>9. ASSUME NEW i \in DOMAIN t
      PROVE  FlattenSeq(q)[i].text = t[i].text
  <2>1. t[i] \in Text
    BY <1>1
  <2>2. FlattenSeq(q)[i] = Stripped(t[i])
    BY <1>5, <1>6, <1>7
  <2> QED BY <2>1, <2>2, StrippedIs
<1> QED BY <1>3, <1>4, <1>8, <1>9

LEMMA SettingsType ==
  ASSUME NEW s \in LabSpec
  PROVE  /\ s.cluster.version \in Version
         /\ s.cluster.architecture \in Architectures
         /\ s.cluster.plain \in Text
         /\ s.cluster.ntp_sources \in Seq(Seq(Text))
BY DEF LabSpec, ClusterSettings

(* What is read back of a cluster made from a spec.                        *)
Shows(c, s, patch, early) ==
  /\ c.version =
       IF s.cluster.version.patch = NoPatch
         THEN [s.cluster.version EXCEPT !.patch = patch] ELSE s.cluster.version
  /\ c.architecture = s.cluster.architecture
  /\ c.plain = s.cluster.plain
  /\ c.ntp_sources = FlattenSeq(s.cluster.ntp_sources)
  /\ c.high_availability_mode = IF HighAvailability(s) THEN "Full" ELSE "None"
  /\ c.control_plane_count = Len(s.control_plane.names)
  /\ c.machine_networks = IF early THEN <<>> ELSE s.cluster.machine_networks
  /\ c.api_vips = IF HighAvailability(s) THEN s.cluster.api_vips ELSE <<>>
  /\ c.ingress_vips =
       IF HighAvailability(s) THEN s.cluster.ingress_vips ELSE <<>>

LEMMA ReportedShows ==
  ASSUME NEW s, NEW patch, NEW early
  PROVE  Shows(ReportedCluster(ClusterParams(ClusterIntent(s)), patch, early),
               s, patch, early)
<1> DEFINE q == ClusterParams(ClusterIntent(s))
           x == IF q.version.patch = NoPatch
                  THEN [q.version EXCEPT !.patch = patch] ELSE q.version
           y == IF early THEN <<>> ELSE q.machine_networks
           r == [q EXCEPT !.version = x, !.machine_networks = y]
<1>1. q = [version |-> s.cluster.version,
           architecture |-> s.cluster.architecture,
           plain |-> s.cluster.plain,
           ntp_sources |-> FlattenSeq(s.cluster.ntp_sources),
           high_availability_mode |->
             IF HighAvailability(s) THEN "Full" ELSE "None",
           control_plane_count |-> Len(s.control_plane.names),
           machine_networks |-> s.cluster.machine_networks,
           api_vips |->
             IF HighAvailability(s) THEN s.cluster.api_vips ELSE <<>>,
           ingress_vips |->
             IF HighAvailability(s) THEN s.cluster.ingress_vips ELSE <<>>]
  BY DEF ClusterParams, ClusterIntent
<1>2. ReportedCluster(q, patch, early) = r
  BY DEF ReportedCluster
<1> HIDE DEF q
<1>3. /\ x = IF s.cluster.version.patch = NoPatch
               THEN [s.cluster.version EXCEPT !.patch = patch]
               ELSE s.cluster.version
      /\ y = IF early THEN <<>> ELSE s.cluster.machine_networks
  BY <1>1
<1> HIDE DEF x, y
<1>4. r.version = x /\ r.machine_networks = y
  BY <1>1
<1>5. /\ r.architecture = q.architecture /\ r.plain = q.plain
      /\ r.ntp_sources = q.ntp_sources
      /\ r.high_availability_mode = q.high_availability_mode
      /\ r.control_plane_count = q.control_plane_count
      /\ r.api_vips = q.api_vips /\ r.ingress_vips = q.ingress_vips
  BY <1>1
<1>6. /\ q.architecture = s.cluster.architecture /\ q.plain = s.cluster.plain
      /\ q.ntp_sources = FlattenSeq(s.cluster.ntp_sources)
      /\ q.high_availability_mode =
           IF HighAvailability(s) THEN "Full" ELSE "None"
      /\ q.control_plane_count = Len(s.control_plane.names)
      /\ q.api_vips = IF HighAvailability(s) THEN s.cluster.api_vips ELSE <<>>
      /\ q.ingress_vips =
           IF HighAvailability(s) THEN s.cluster.ingress_vips ELSE <<>>
  BY <1>1
<1> HIDE DEF r
<1>7. Shows(r, s, patch, early)
  BY <1>3, <1>4, <1>5, <1>6 DEF Shows
<1> QED BY <1>2, <1>7 DEF q

(* The cluster of a spec is recognised, early or late.                     *)
LEMMA OwnClusterMatches ==
  ASSUME NEW s \in LabSpec, Carried(s), NEW p \in Nat, NEW early \in BOOLEAN
  PROVE  ClusterMatches(
           ClusterIntent(s),
           ReportedCluster(ClusterParams(ClusterIntent(s)), p, early), early)
<1> DEFINE i == ClusterIntent(s)
           c == ReportedCluster(ClusterParams(ClusterIntent(s)), p, early)
           v == s.cluster.version
<1>0. Shows(c, s, p, early)
  BY ReportedShows
<1> HIDE DEF c
<1>1. i.ntp_sources = NtpSources(c.ntp_sources)
  <2>1. \A k \in DOMAIN s.cluster.ntp_sources :
          /\ Len(s.cluster.ntp_sources[k]) = 1
          /\ ~s.cluster.ntp_sources[k][1].padded
    BY DEF Carried, ToSet
  <2>2. s.cluster.ntp_sources = NtpSources(FlattenSeq(s.cluster.ntp_sources))
    BY <2>1, SettingsType, NtpRoundTrip
  <2>3. /\ i.ntp_sources = s.cluster.ntp_sources
        /\ c.ntp_sources = FlattenSeq(s.cluster.ntp_sources)
    BY <1>0 DEF ClusterIntent, Shows
  <2> QED BY <2>2, <2>3
<1>2. VersionMatches(i.version, c.version)
  <2>1. /\ i.version = v /\ v \in Version
        /\ c.version = IF v.patch = NoPatch THEN [v EXCEPT !.patch = p] ELSE v
    BY <1>0, SettingsType DEF ClusterIntent, Shows
  <2> HIDE DEF i, c, v
  <2> QED BY <2>1 DEF VersionMatches, Version
<1>3. i.high_availability = (c.high_availability_mode = "Full")
  <2>1. /\ i.high_availability = HighAvailability(s)
        /\ c.high_availability_mode =
             IF HighAvailability(s) THEN "Full" ELSE "None"
    BY <1>0 DEF ClusterIntent, Shows
  <2>2. HighAvailability(s) \in BOOLEAN
    BY DEF HighAvailability
  <2> HIDE DEF i, c
  <2> QED BY <2>1, <2>2
<1>4. i.plain = Stripped(c.plain)
  <2>1. i.plain = s.cluster.plain /\ c.plain = s.cluster.plain
    BY <1>0 DEF ClusterIntent, Shows
  <2>2. s.cluster.plain \in Text /\ ~s.cluster.plain.padded
    BY SettingsType DEF Carried
  <2> HIDE DEF i, c
  <2> QED BY <2>1, <2>2, StrippedIs
<1>5. /\ i.architecture = c.architecture
      /\ i.control_plane_count = c.control_plane_count
      /\ \/ i.machine_networks = c.machine_networks
         \/ c.machine_networks = <<>> /\ early
      /\ i.api_vips = c.api_vips /\ i.ingress_vips = c.ingress_vips
  BY <1>0 DEF ClusterIntent, Shows
<1> HIDE DEF i
<1>6. ClusterMatches(i, c, early)
  BY <1>1, <1>2, <1>3, <1>4, <1>5 DEF ClusterMatches
<1> QED BY <1>6 DEF i, c
-----------------------------------------------------------------------------
(***************************************************************************)
(* What recognition promises.                                              *)
(***************************************************************************)
SimulationAsked(s, x) ==
  /\ \A n \in NodeNames(s) : SameNode(s, x.made, n, x.shown)
  /\ {ToSet(l) : l \in ToSet(s.links)} = {ToSet(l) : l \in ToSet(x.made.links)}

ClusterAsked(s, k) ==
  LET i == s.cluster
      j == k.made.cluster
      patch == IF j.version.patch = NoPatch THEN k.patch ELSE j.version.patch
  IN /\ i.version.release = j.version.release
     /\ i.version.patch \in {NoPatch, patch}
     /\ i.architecture = j.architecture
     /\ i.plain.text = j.plain.text
     /\ Len(s.control_plane.names) = Len(k.made.control_plane.names)
     /\ Servers(i) = Servers(j)
     /\ i.machine_networks = j.machine_networks
     /\ HighAvailability(s) =>
          i.api_vips = j.api_vips /\ i.ingress_vips = j.ingress_vips

LEMMA OwnSimulationAsked ==
  ASSUME NEW s \in LabSpec, NEW x, x.made = s
  PROVE  SimulationAsked(s, x)
BY DEF SimulationAsked, SameNode, SameHardware

LEMMA MatchedNode ==
  ASSUME NEW s, NEW t, NEW n, NEW shown \in BOOLEAN, NEW firmware \in BOOLEAN,
         firmware = (shown \/ PoolOf(t, n).hardware.emulation_type = None),
         n \in NodeNames(t),
         NodeIntent(s, n) =
           NodeSnapshot([settings |-> NodeIntent(t, n), firmware |-> firmware])
  PROVE  SameNode(s, t, n, shown)
<1> DEFINE h == PoolOf(s, n).hardware
           k == PoolOf(t, n).hardware
           a == NodeIntent(s, n)
           b == NodeSnapshot([settings |-> NodeIntent(t, n),
                              firmware |-> firmware])
<1>1. a.size = b.size /\ a.disk = b.disk /\ a.hardware = b.hardware
  OBVIOUS
<1>2. /\ a.size = PoolOf(s, n).size /\ a.disk = PoolOf(s, n).disk
      /\ a.hardware = HardwareIntent(h)
  BY DEF NodeIntent
<1>3. /\ b.size = PoolOf(t, n).size /\ b.disk = PoolOf(t, n).disk
      /\ b.hardware =
           [cpu_mode |-> IF k.emulation_type = None THEN k.cpu_mode ELSE None,
            nic_model |-> k.nic_model,
            uefi |-> IF firmware THEN k.uefi ELSE FALSE,
            secureboot |-> IF firmware THEN k.secureboot ELSE FALSE,
            emulation_type |-> k.emulation_type,
            network_pci |-> ToSet(k.network_pci)]
  <2>1. b = [size |-> PoolOf(t, n).size, disk |-> PoolOf(t, n).disk,
             base_image |-> BlankDisk(t),
             hardware |->
               [cpu_mode |->
                  IF k.emulation_type = None THEN k.cpu_mode ELSE None,
                nic_model |-> k.nic_model,
                uefi |-> IF firmware THEN k.uefi ELSE FALSE,
                secureboot |-> IF firmware THEN k.secureboot ELSE FALSE,
                emulation_type |-> k.emulation_type,
                network_pci |-> ToSet(k.network_pci)]]
    BY NodeSnapshotIs
  <2> HIDE DEF b, k
  <2> QED BY <2>1
<1>4. firmware = (shown \/ k.emulation_type = None)
  OBVIOUS
<1> HIDE DEF h, k, a, b
<1>5. HardwareIntent(h) =
        [cpu_mode |-> IF h.emulation_type = None THEN h.cpu_mode ELSE None,
         nic_model |-> h.nic_model, uefi |-> h.uefi,
         secureboot |-> h.secureboot,
         emulation_type |-> h.emulation_type,
         network_pci |-> ToSet(h.network_pci)]
  BY DEF HardwareIntent
<1>6. /\ h.emulation_type = k.emulation_type /\ h.nic_model = k.nic_model
      /\ ToSet(h.network_pci) = ToSet(k.network_pci)
      /\ (IF h.emulation_type = None THEN h.cpu_mode ELSE None) =
           (IF k.emulation_type = None THEN k.cpu_mode ELSE None)
      /\ h.uefi = (IF firmware THEN k.uefi ELSE FALSE)
      /\ h.secureboot = (IF firmware THEN k.secureboot ELSE FALSE)
  <2> DEFINE g == HardwareIntent(h)
             e == b.hardware
  <2>1. g = e
    BY <1>1, <1>2
  <2>2. /\ g.emulation_type = h.emulation_type /\ g.nic_model = h.nic_model
        /\ g.network_pci = ToSet(h.network_pci)
        /\ g.cpu_mode = IF h.emulation_type = None THEN h.cpu_mode ELSE None
        /\ g.uefi = h.uefi /\ g.secureboot = h.secureboot
    BY <1>5
  <2>3. /\ e.emulation_type = k.emulation_type /\ e.nic_model = k.nic_model
        /\ e.network_pci = ToSet(k.network_pci)
        /\ e.cpu_mode = IF k.emulation_type = None THEN k.cpu_mode ELSE None
        /\ e.uefi = IF firmware THEN k.uefi ELSE FALSE
        /\ e.secureboot = IF firmware THEN k.secureboot ELSE FALSE
    BY <1>3
  <2> HIDE DEF g, e
  <2> QED BY <2>1, <2>2, <2>3
<1>7. SameHardware(h, k, shown)
  BY <1>4, <1>6 DEF SameHardware
<1> QED BY <1>1, <1>2, <1>3, <1>7 DEF SameNode, h, k

LEMMA MatchedSimulation ==
  ASSUME NEW s \in LabSpec, NEW x, x.made \in LabSpec, x.shown \in BOOLEAN,
         NEW metadata,
         SimulationMatches(
           SimulationIntent(s),
           Exported(SimulationIntent(x.made), x.shown), metadata)
  PROVE  SimulationAsked(s, x)
<1> DEFINE t == x.made
           sim == SimulationIntent(t)
           export == Exported(sim, x.shown)
<1>1. /\ DOMAIN export.nodes = NodeNames(t)
      /\ \A n \in NodeNames(t) :
           /\ sim.nodes[n] = NodeIntent(t, n)
           /\ export.nodes[n] =
                [settings |-> sim.nodes[n],
                 firmware |->
                   x.shown \/ sim.nodes[n].hardware.emulation_type = None]
      /\ export.links = {ToSet(l) : l \in ToSet(t.links)}
  BY DEF Exported, SimulationIntent
<1>2. /\ \A n \in NodeNames(s) : SimulationIntent(s).nodes[n] = NodeIntent(s, n)
      /\ DOMAIN SimulationIntent(s).nodes = NodeNames(s)
      /\ SimulationIntent(s).links = {ToSet(l) : l \in ToSet(s.links)}
  BY DEF SimulationIntent
<1>3. /\ SimulationIntent(s).links = export.links
      /\ \A n \in DOMAIN SimulationIntent(s).nodes :
           /\ n \in DOMAIN export.nodes
           /\ SimulationIntent(s).nodes[n] = NodeSnapshot(export.nodes[n])
  BY DEF SimulationMatches
<1> HIDE DEF export, sim
<1>4. ASSUME NEW n \in NodeNames(s)
      PROVE  SameNode(s, t, n, x.shown)
  <2> DEFINE firmware == x.shown \/ PoolOf(t, n).hardware.emulation_type = None
  <2>1. n \in NodeNames(t) /\ NodeIntent(s, n) = NodeSnapshot(export.nodes[n])
    BY <1>1, <1>2, <1>3
  <2>2. sim.nodes[n].hardware.emulation_type =
          PoolOf(t, n).hardware.emulation_type
    <3>1. sim.nodes[n] = NodeIntent(t, n)
      BY <1>1, <2>1
    <3>2. NodeIntent(t, n).hardware.emulation_type =
            PoolOf(t, n).hardware.emulation_type
      BY DEF NodeIntent, HardwareIntent
    <3> QED BY <3>1, <3>2
  <2>3. export.nodes[n] =
          [settings |-> NodeIntent(t, n), firmware |-> firmware]
    BY <1>1, <2>1, <2>2
  <2>4. firmware \in BOOLEAN
    OBVIOUS
  <2> QED BY <2>1, <2>3, <2>4, MatchedNode
<1> QED BY <1>1, <1>2, <1>3, <1>4 DEF SimulationAsked

LEMMA MatchedCluster ==
  ASSUME NEW s \in LabSpec, NEW k, k.made \in LabSpec, k.patch \in Nat,
         ClusterMatches(
           ClusterIntent(s),
           ReportedCluster(ClusterParams(ClusterIntent(k.made)),
                           k.patch, FALSE),
           FALSE)
  PROVE  ClusterAsked(s, k)
<1> DEFINE t == k.made
           i == ClusterIntent(s)
           c == ReportedCluster(ClusterParams(ClusterIntent(t)), k.patch, FALSE)
           v == s.cluster.version
           w == t.cluster.version
<1>1. /\ VersionMatches(i.version, c.version)
      /\ i.plain = Stripped(c.plain) /\ i.architecture = c.architecture
      /\ i.ntp_sources = NtpSources(c.ntp_sources)
      /\ i.high_availability = (c.high_availability_mode = "Full")
      /\ i.control_plane_count = c.control_plane_count
      /\ i.machine_networks = c.machine_networks
      /\ i.api_vips = c.api_vips /\ i.ingress_vips = c.ingress_vips
  BY DEF ClusterMatches
<1>2. /\ i.version = v /\ i.plain = s.cluster.plain
      /\ i.architecture = s.cluster.architecture
      /\ i.ntp_sources = s.cluster.ntp_sources
      /\ i.high_availability = HighAvailability(s)
      /\ i.control_plane_count = Len(s.control_plane.names)
      /\ i.machine_networks = s.cluster.machine_networks
      /\ i.api_vips = IF HighAvailability(s) THEN s.cluster.api_vips ELSE <<>>
      /\ i.ingress_vips =
           IF HighAvailability(s) THEN s.cluster.ingress_vips ELSE <<>>
  BY DEF ClusterIntent
<1>3. /\ c.version =
           IF w.patch = NoPatch THEN [w EXCEPT !.patch = k.patch] ELSE w
      /\ c.plain = t.cluster.plain /\ c.architecture = t.cluster.architecture
      /\ c.ntp_sources = FlattenSeq(t.cluster.ntp_sources)
      /\ c.high_availability_mode =
           IF HighAvailability(t) THEN "Full" ELSE "None"
      /\ c.control_plane_count = Len(t.control_plane.names)
      /\ c.machine_networks = t.cluster.machine_networks
      /\ c.api_vips = IF HighAvailability(t) THEN t.cluster.api_vips ELSE <<>>
      /\ c.ingress_vips =
           IF HighAvailability(t) THEN t.cluster.ingress_vips ELSE <<>>
  <2>1. Shows(c, t, k.patch, FALSE)
    BY ReportedShows
  <2> HIDE DEF c, t
  <2> QED BY <2>1 DEF Shows
<1> HIDE DEF i, c
<1>4. Servers(s.cluster) = Servers(t.cluster)
  BY <1>1, <1>2, <1>3, SettingsType, NtpAsked
<1>5. /\ v.release = w.release
      /\ v.patch \in {NoPatch, IF w.patch = NoPatch THEN k.patch ELSE w.patch}
  <2>1. VersionMatches(v, c.version) /\ v \in Version /\ w \in Version
    BY <1>1, <1>2, SettingsType
  <2> HIDE DEF v, w
  <2> QED BY <1>3, <2>1 DEF VersionMatches, Version
<1>6. HighAvailability(s) => HighAvailability(t)
  BY <1>1, <1>2, <1>3
<1>7. s.cluster.plain.text = t.cluster.plain.text
  <2>1. /\ s.cluster.plain = Stripped(t.cluster.plain)
        /\ t.cluster.plain \in Text
    BY <1>1, <1>2, <1>3, SettingsType
  <2> HIDE DEF t
  <2> QED BY <2>1, StrippedIs
<1> QED BY <1>1, <1>2, <1>3, <1>4, <1>5, <1>6, <1>7 DEF ClusterAsked
-----------------------------------------------------------------------------
(***************************************************************************)
(* The inductive invariant.  There is one cluster, one image and one       *)
(* simulation at most; a deployment under way has a valid file and, where  *)
(* it waits for the cluster, has recognised the simulation; and until      *)
(* somebody changes something the lab is the file's own.                   *)
(***************************************************************************)
AtMostOne(S) == \A a, b \in S : a = b

Working ==
  /\ place # "idle" => answer = "none" /\ Valid(file)
  /\ place \in {"image", "simulation", "installation"} => clusters # {}
  /\ place \in {"simulation", "installation"} => images # {}

Own ==
  ~touched => /\ \A k \in clusters : k.made = file
              /\ \A m \in images : m = ImageIntent(file)
              /\ \A x \in sims : x.made = file /\ x.marked = file

Checked ==
  (place = "installation" \/ answer = "done") =>
    \A x \in sims : SimulationAsked(file, x)

Installed == answer = "done" => \A k \in clusters : ClusterAsked(file, k)

IInv ==
  /\ TypeOK
  /\ AtMostOne(clusters) /\ AtMostOne(images) /\ AtMostOne(sims)
  /\ Working /\ Own /\ Checked /\ Installed /\ LabsRecognised

LEMMA ImageType ==
  ASSUME NEW s \in LabSpec
  PROVE  ImageIntent(s) \in [version : Version, architecture : Architectures]
BY SettingsType DEF ImageIntent

LEMMA OwnRecognised ==
  ASSUME IInv, ~touched, Carried(file), NEW k \in clusters
  PROVE  Recognised(k)
<1>1. /\ k.made = file /\ file \in LabSpec
      /\ k.patch \in Nat /\ k.early \in BOOLEAN
  BY PatchesAssumption DEF IInv, TypeOK, Own
<1> QED BY <1>1, OwnClusterMatches DEF Recognised

LEMMA InitInv == Init => IInv
<1> SUFFICES ASSUME Init PROVE IInv
  OBVIOUS
<1>1. TypeOK
  BY DraftsAssumption DEF Init, TypeOK
<1> QED
  BY <1>1 DEF Init, IInv, AtMostOne, Working, Own, Checked, Installed,
              LabsRecognised

LEMMA DeployStep == ASSUME IInv, Deploy PROVE IInv'
<1>1. TypeOK'
  BY DEF IInv, TypeOK, Deploy, remote, End
<1> QED
  BY <1>1 DEF IInv, AtMostOne, Working, Own, Checked, Installed,
              LabsRecognised, Deploy, remote, End

LEMMA ReconcileClusterStep == ASSUME IInv, ReconcileCluster PROVE IInv'
<1> USE DEF ReconcileCluster, Goto
<1>1. answer = "none" /\ Valid(file) /\ file \in LabSpec
  BY DEF IInv, Working, TypeOK
<1>2. CASE clusters = {} /\ Goto("image") /\
           \E p \in Patches :
             clusters' = {[made |-> file, patch |-> p, early |-> TRUE]}
  <2>1. PICK p \in Patches :
          clusters' = {[made |-> file, patch |-> p, early |-> TRUE]}
    BY <1>2
  <2>2. images = {} /\ sims = {} /\ clusters' # {}
    BY <1>2, <2>1 DEF IInv, TypeOK
  <2>3. TypeOK'
    BY <1>1, <1>2, <2>1, <2>2 DEF IInv, TypeOK
  <2>4. AtMostOne(clusters)' /\ AtMostOne(images)' /\ AtMostOne(sims)'
    BY <2>1, <2>2 DEF AtMostOne
  <2> QED
    BY <1>1, <1>2, <2>1, <2>2, <2>3, <2>4
       DEF IInv, Working, Own, Checked, Installed, LabsRecognised
<1>3. CASE ~Sendable(ClusterIntent(file)) /\ End("refused") /\
           UNCHANGED clusters
  <2>1. ~Carried(file)
    BY <1>3 DEF Sendable, ClusterIntent, Carried
  <2>2. TypeOK'
    BY <1>3 DEF IInv, TypeOK, End
  <2> QED
    BY <1>1, <1>3, <2>1, <2>2
       DEF IInv, AtMostOne, Working, Own, Checked, Installed, LabsRecognised,
           End
<1>4. CASE /\ UNCHANGED clusters
           /\ \E k \in clusters :
                IF Recognised(k) THEN Goto("image") ELSE End("refused")
  <2>1. PICK k \in clusters :
          IF Recognised(k) THEN Goto("image") ELSE End("refused")
    BY <1>4
  <2>2. \/ place' = "image" /\ answer' = answer
        \/ ~Recognised(k) /\ place' = "idle" /\ answer' = "refused"
    BY <2>1 DEF End
  <2>3. TypeOK'
    BY <1>4, <2>2 DEF IInv, TypeOK
  <2>4. LabsRecognised'
    BY <1>1, <2>2, OwnRecognised DEF LabsRecognised
  <2> QED
    BY <1>1, <1>4, <2>1, <2>2, <2>3, <2>4
       DEF IInv, AtMostOne, Working, Own, Checked, Installed
<1> QED BY <1>2, <1>3, <1>4

LEMMA ReconcileImageStep == ASSUME IInv, ReconcileImage PROVE IInv'
<1> USE DEF ReconcileImage, Goto
<1>1. answer = "none" /\ Valid(file) /\ file \in LabSpec /\ clusters # {}
  BY DEF IInv, Working, TypeOK
<1>2. CASE images = {} /\ images' = {ImageIntent(file)} /\ Goto("simulation")
  <2>1. sims = {} /\ images' # {}
    BY <1>2 DEF IInv, TypeOK
  <2>2. TypeOK'
    BY <1>1, <1>2, <2>1, ImageType DEF IInv, TypeOK
  <2>3. AtMostOne(clusters)' /\ AtMostOne(images)' /\ AtMostOne(sims)'
    BY <1>2 DEF AtMostOne, IInv
  <2>4. Own'
    BY <1>2 DEF Own, IInv
  <2> QED
    BY <1>1, <1>2, <2>1, <2>2, <2>3, <2>4
       DEF IInv, Working, Checked, Installed, LabsRecognised
<1>3. CASE /\ UNCHANGED images
           /\ \E m \in images :
                IF m = ImageIntent(file) THEN Goto("simulation")
                ELSE End("refused")
  <2>1. PICK m \in images :
          IF m = ImageIntent(file) THEN Goto("simulation") ELSE End("refused")
    BY <1>3
  <2>2. \/ place' = "simulation" /\ answer' = answer
        \/ m # ImageIntent(file) /\ place' = "idle" /\ answer' = "refused"
    BY <2>1 DEF End
  <2>3. TypeOK'
    BY <1>3, <2>2 DEF IInv, TypeOK
  <2>4. LabsRecognised'
    BY <1>1, <2>2 DEF LabsRecognised, IInv, Own
  <2> QED
    BY <1>1, <1>3, <2>1, <2>2, <2>3, <2>4
       DEF IInv, AtMostOne, Working, Own, Checked, Installed
<1> QED BY <1>2, <1>3

LEMMA ReconcileSimulationStep == ASSUME IInv, ReconcileSimulation PROVE IInv'
<1> USE DEF Goto
<1> DEFINE intent == SimulationIntent(file)
           Matches(x) ==
             SimulationMatches(intent,
                               Exported(SimulationIntent(x.made), x.shown),
                               Metadata(SimulationIntent(x.marked)))
<1>1. /\ answer = "none" /\ Valid(file) /\ file \in LabSpec
      /\ clusters # {} /\ images # {}
  BY DEF IInv, Working, TypeOK, ReconcileSimulation
<1>2. /\ place = "simulation"
      /\ file' = file /\ touched' = touched
      /\ clusters' = clusters /\ images' = images
  BY DEF ReconcileSimulation
<1>3. CASE ~Importable(intent) /\ End("refused") /\ UNCHANGED sims
  <2>1. ~Carried(file)
    BY <1>1, <1>3, OwnLabImportable
  <2> HIDE DEF intent
  <2>2. TypeOK'
    BY <1>2, <1>3 DEF IInv, TypeOK, End
  <2> QED
    BY <1>1, <1>2, <1>3, <2>1, <2>2
       DEF IInv, AtMostOne, Working, Own, Checked, Installed, LabsRecognised,
           End
<1>4. CASE /\ \E shown \in BOOLEAN :
                sims' = {[made |-> file, marked |-> file, shown |-> shown]}
           /\ Goto("installation")
  <2>1. PICK shown \in BOOLEAN :
          sims' = {[made |-> file, marked |-> file, shown |-> shown]}
    BY <1>4
  <2>2. TypeOK'
    BY <1>1, <1>2, <1>4, <2>1 DEF IInv, TypeOK
  <2>3. AtMostOne(clusters)' /\ AtMostOne(images)' /\ AtMostOne(sims)'
    BY <1>2, <2>1 DEF AtMostOne, IInv
  <2>4. Checked'
    BY <1>1, <1>2, <2>1, OwnSimulationAsked DEF Checked
  <2> QED
    BY <1>1, <1>2, <1>4, <2>1, <2>2, <2>3, <2>4
       DEF IInv, Working, Own, Installed, LabsRecognised
<1>5. CASE /\ UNCHANGED sims /\ Importable(intent)
           /\ \E x \in sims :
                IF Matches(x) THEN Goto("installation") ELSE End("refused")
  <2>1. PICK x \in sims :
          IF Matches(x) THEN Goto("installation") ELSE End("refused")
    BY <1>5
  <2>2. /\ x.made \in LabSpec /\ x.shown \in BOOLEAN
        /\ \A y \in sims : y = x
    BY <2>1 DEF IInv, TypeOK, AtMostOne
  <2>3. CASE Matches(x) /\ place' = "installation" /\ answer' = answer
    <3>1. SimulationAsked(file, x)
      BY <1>1, <2>2, <2>3, MatchedSimulation
    <3> HIDE DEF intent, Matches
    <3>2. TypeOK'
      BY <1>2, <1>5, <2>3 DEF IInv, TypeOK
    <3>3. Checked'
      BY <1>2, <1>5, <2>2, <3>1 DEF Checked
    <3> QED
      BY <1>1, <1>2, <1>5, <2>3, <3>2, <3>3
         DEF IInv, AtMostOne, Working, Own, Installed, LabsRecognised
  <2>4. CASE ~Matches(x) /\ place' = "idle" /\ answer' = "refused"
    <3>1. touched \/ ~Carried(file)
      <4> SUFFICES ASSUME ~touched, Carried(file) PROVE FALSE
        OBVIOUS
      <4>1. x.made = file /\ x.marked = file
        BY <2>1 DEF IInv, Own
      <4> QED BY <1>1, <2>2, <2>4, <4>1, OwnSimulationMatches
    <3> HIDE DEF intent, Matches
    <3>2. TypeOK'
      BY <1>2, <1>5, <2>4 DEF IInv, TypeOK
    <3> QED
      BY <1>1, <1>2, <1>5, <2>4, <3>1, <3>2
         DEF IInv, AtMostOne, Working, Own, Checked, Installed, LabsRecognised
  <2> HIDE DEF intent, Matches
  <2> QED BY <2>1, <2>3, <2>4 DEF End
<1> QED BY <1>3, <1>4, <1>5 DEF ReconcileSimulation

LEMMA ReconcileInstallationStep ==
  ASSUME IInv, ReconcileInstallation
  PROVE  IInv'
<1> USE DEF ReconcileInstallation, End, remote
<1>1. PICK k \in clusters :
        \/ ~k.early /\ Recognised(k) /\ End("done")
        \/ ~Recognised(k) /\ End("refused")
  OBVIOUS
<1>2. TypeOK'
  BY <1>1 DEF IInv, TypeOK
<1>3. LabsRecognised'
  BY <1>1, OwnRecognised DEF LabsRecognised
<1>4. Installed'
  <2>1. CASE Recognised(k) /\ ~k.early
    <3>1. /\ k.made \in LabSpec /\ k.patch \in Nat /\ k.early = FALSE
          /\ file \in LabSpec /\ \A l \in clusters : l = k
      BY <1>1, <2>1, PatchesAssumption DEF IInv, TypeOK, AtMostOne
    <3>2. ClusterAsked(file, k)
      BY <2>1, <3>1, MatchedCluster DEF Recognised
    <3> QED BY <1>1, <3>1, <3>2 DEF Installed
  <2>2. CASE answer' = "refused"
    BY <2>2 DEF Installed
  <2> QED BY <1>1, <2>1, <2>2
<1>5. Checked'
  BY DEF IInv, Checked
<1> QED BY <1>1, <1>2, <1>3, <1>4, <1>5 DEF IInv, AtMostOne, Working, Own

LEMMA KillStep == ASSUME IInv, Kill PROVE IInv'
<1>1. TypeOK'
  BY DEF IInv, TypeOK, Kill, remote, End
<1> QED
  BY <1>1 DEF IInv, AtMostOne, Working, Own, Checked, Installed,
              LabsRecognised, Kill, remote, End

LEMMA DiscoverHostsStep == ASSUME IInv, DiscoverHosts PROVE IInv'
<1> USE DEF DiscoverHosts
<1>1. PICK k \in clusters : clusters' = {[k EXCEPT !.early = FALSE]}
  OBVIOUS
<1> DEFINE c == [k EXCEPT !.early = FALSE]
<1>2. /\ c \in [made : LabSpec, patch : Patches, early : BOOLEAN]
      /\ c.made = k.made /\ c.patch = k.patch
  BY <1>1 DEF IInv, TypeOK
<1> HIDE DEF c
<1>3. clusters' = {c}
  BY <1>1 DEF c
<1>4. TypeOK'
  BY <1>2, <1>3 DEF IInv, TypeOK
<1>5. AtMostOne(clusters)' /\ AtMostOne(images)' /\ AtMostOne(sims)'
  BY <1>3 DEF IInv, AtMostOne
<1>6. Own'
  BY <1>1, <1>2, <1>3 DEF IInv, Own
<1>7. Installed'
  BY <1>1, <1>2, <1>3 DEF IInv, Installed, ClusterAsked
<1> QED
  BY <1>3, <1>4, <1>5, <1>6, <1>7
     DEF IInv, Working, Checked, LabsRecognised

LEMMA DestroyStep == ASSUME IInv, Destroy PROVE IInv'
<1>1. TypeOK'
  BY DEF IInv, TypeOK, Destroy
<1> QED
  BY <1>1 DEF IInv, AtMostOne, Working, Own, Checked, Installed,
              LabsRecognised, Destroy

LEMMA EditFileStep == ASSUME IInv, EditFile PROVE IInv'
<1>1. TypeOK'
  BY DraftsAssumption DEF IInv, TypeOK, EditFile, Touch, remote
<1> QED
  BY <1>1 DEF IInv, AtMostOne, Working, Own, Checked, Installed,
              LabsRecognised, EditFile, Touch, remote

LEMMA EditSimulationStep == ASSUME IInv, EditSimulation PROVE IInv'
<1> USE DEF EditSimulation, Touch
<1>1. PICK x \in sims, t \in Drafts : sims' = {[x EXCEPT !.made = t]}
  OBVIOUS
<1> DEFINE y == [x EXCEPT !.made = t]
<1>2. y \in [made : LabSpec, marked : LabSpec, shown : BOOLEAN]
  BY <1>1, DraftsAssumption DEF IInv, TypeOK
<1>3. sims' = {y}
  BY <1>1
<1> HIDE DEF y
<1>4. TypeOK'
  BY <1>1, <1>2, <1>3 DEF IInv, TypeOK
<1>5. AtMostOne(clusters)' /\ AtMostOne(images)' /\ AtMostOne(sims)'
  BY <1>3 DEF IInv, AtMostOne
<1> QED
  BY <1>3, <1>4, <1>5
     DEF IInv, Working, Own, Checked, Installed, LabsRecognised

LEMMA NextInv == IInv /\ [Next]_vars => IInv'
<1> SUFFICES ASSUME IInv, [Next]_vars PROVE IInv'
  OBVIOUS
<1>1. CASE UNCHANGED vars
  <2>1. TypeOK'
    BY <1>1 DEF IInv, TypeOK, vars
  <2> QED
    BY <1>1, <2>1 DEF IInv, AtMostOne, Working, Own, Checked, Installed,
                      LabsRecognised, vars
<1> QED
  BY <1>1, DeployStep, ReconcileClusterStep, ReconcileImageStep,
     ReconcileSimulationStep, ReconcileInstallationStep, KillStep,
     DiscoverHostsStep, DestroyStep, EditFileStep, EditSimulationStep DEF Next

LEMMA Inductive == Spec => []IInv
BY InitInv, NextInv, PTL DEF Spec
-----------------------------------------------------------------------------
(***************************************************************************)
(* The variables have their types, and image and simulation are only there *)
(* after the cluster: deploy makes them in this order (core/workflows.py,  *)
(* deploy_lab) and only destroy removes any.                               *)
(***************************************************************************)
THEOREM TypeCorrect == Spec => []TypeOK
<1>1. IInv => TypeOK
  BY DEF IInv
<1> QED BY <1>1, Inductive, PTL

(***************************************************************************)
(* For specs of any size: one that the validators of models/spec.py accept *)
(* and the code carries through is never refused by the checks before an   *)
(* import, and neither cluster, image nor simulation looks different from  *)
(* the spec when it is read back, at whatever place the deployment that    *)
(* made them stopped.                                                      *)
(***************************************************************************)
THEOREM LabsAreRecognised == Spec => []LabsRecognised
<1>1. IInv => LabsRecognised
  BY DEF IInv
<1> QED BY <1>1, Inductive, PTL

(***************************************************************************)
(* When a deployment reports success every node of its spec is in the      *)
(* simulation with its settings, and so are the links, whatever was edited *)
(* before: the digest of find_air_simulation_material_drift is not all     *)
(* that is compared.                                                       *)
(***************************************************************************)
THEOREM SimulationIsAsAsked == Spec => []SimulationAsAsked
<1>1. IInv => SimulationAsAsked
  BY DEF IInv, Checked, SimulationAsked, SimulationAsAsked
<1> QED BY <1>1, Inductive, PTL

(***************************************************************************)
(* And the cluster is of the version, size, servers and networks the spec  *)
(* names, though the service chose the patch, showed no machine network at *)
(* first, and sent the NTP servers back as one text (find_material_drift). *)
(***************************************************************************)
THEOREM ClusterIsAsAsked == Spec => []ClusterAsAsked
<1>1. IInv => ClusterAsAsked
  BY DEF IInv, Installed, ClusterAsked, ClusterAsAsked
<1> QED BY <1>1, Inductive, PTL
=============================================================================
