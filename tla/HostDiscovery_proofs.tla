------------------------ MODULE HostDiscovery_proofs ------------------------
(***************************************************************************)
(* Proofs about HostDiscovery, for any number of processes, nodes and      *)
(* hosts, any roles, and any interference of other people.                 *)
(***************************************************************************)
EXTENDS HostDiscovery, WellFoundedInduction, FiniteSetTheorems, TLAPS

(* Only a host that was renamed asks for a name other than its machine's,  *)
(* or has another role than its machine's.                                 *)
Named(h) ==
  /\ h.inventory \in {None, h.machine}
  /\ ~h.renamed => h.requested \in {None, Uuid, h.machine}

RoleFits(h) ==
  h.role # AutoAssign /\ ~h.renamed =>
    h.machine \in Nodes /\ h.role = Role[h.machine]

(* Ids are unique and not reused.                                          *)
HostsFit(H, n) ==
  /\ H \subseteq Host /\ IsFiniteSet(H)
  /\ n \in 0..MaxHosts
  /\ \A h \in H : h.id <= n /\ Named(h) /\ RoleFits(h)
  /\ \A h, k \in H : h.id = k.id => h = k

HostsInv == HostsFit(hosts, registered)

(* What the place of a process with locals m says of the hosts H, when n   *)
(* were ever registered: the role it is about to assign is that of the     *)
(* host's machine; the host it gave the address of the API is a master.    *)
Knows(m, H, n) ==
  /\ m.host <= n /\ m.api <= n
  /\ m.pc = "role" =>
       /\ m.host # 0 /\ m.node # 0
       /\ \A h \in H : h.id = m.host /\ ~h.renamed => h.machine = m.node
  /\ m.pc = "done" =>
       \A h \in H : h.id = m.api /\ ~h.renamed => h.role = "master"

ProcessesInv ==
  /\ me \in [Clients -> Process]
  /\ \A c \in Clients : Knows(me[c], hosts, registered)

ClusterInv ==
  /\ cluster \in [id : Nat \ {0}, status : ClusterStatus, started : BOOLEAN]
  /\ trouble \in 0..MaxForeign

DiscoveryInv == ClusterInv /\ HostsInv /\ ProcessesInv
-----------------------------------------------------------------------------
(***************************************************************************)
(* The match.                                                              *)
(***************************************************************************)
LEMMA FirstIsLeast ==
  ASSUME NEW N \in SUBSET Nodes, N # {}
  PROVE  First(N) \in N /\ \A k \in N : First(N) <= k
<1>1. N \subseteq Nat
  BY NodesAssumption DEF Nodes
<1>2. PICK n \in N : \A k \in N : <<k, n>> \notin OpToRel(<, Nat)
  BY <1>1, NatLessThanWellFounded, WFMin
<1>3. ASSUME NEW k \in Nat, NEW l \in Nat, k < l
      PROVE  <<k, l>> \in OpToRel(<, Nat)
  <2>1. <<k, l>> \in Nat \X Nat /\ <<k, l>>[1] = k /\ <<k, l>>[2] = l
    BY <1>3
  <2>2. <<k, l>>[1] < <<k, l>>[2]
    BY <1>3, <2>1
  <2> QED BY <2>1, <2>2, Zenon DEF OpToRel
<1>4. \A k \in N : ~(k < n)
  BY <1>1, <1>2, <1>3, Zenon
<1>5. \A k \in N : n <= k
  BY <1>1, <1>4
<1> QED BY <1>5 DEF First

Snapshots == {Snapshot(h) : h \in hosts}

LEMMA CandidatesAreHosts ==
  ASSUME NEW S, NEW n PROVE Candidates(n, S) \subseteq S
BY DEF Candidates

(* When all hosts are in place every node has one candidate, which no      *)
(* other node has.                                                         *)
LEMMA OneCandidate ==
  ASSUME NEW S, IsFiniteSet(S), Matched(S), NEW n \in Nodes
  PROVE  /\ Match(n, S) \in S
         /\ Candidates(n, S) = {Match(n, S)}
<1>1. Cardinality(Candidates(n, S)) = 1
  BY DEF Matched, Unmatched
<1>2. IsFiniteSet(Candidates(n, S))
  BY CandidatesAreHosts, FS_Subset
<1>3. PICK s : Candidates(n, S) = {s}
  BY <1>1, <1>2, FS_Singleton
<1>4. s \in S
  BY <1>3, CandidatesAreHosts
<1>5. Match(n, S) = s
  BY <1>3, <1>4 DEF Match
<1> QED BY <1>3, <1>4, <1>5

LEMMA OneNode ==
  ASSUME NEW S, IsFiniteSet(S), Matched(S), NEW n \in Nodes, NEW m \in Nodes,
         Match(n, S) \in Candidates(m, S)
  PROVE  m = n
<1>1. /\ Candidates(n, S) = {Match(n, S)}
      /\ Candidates(m, S) = {Match(m, S)}
  BY OneCandidate
<1>2. Match(m, S) = Match(n, S)
  BY <1>1
<1>3. ASSUME NEW k \in Nodes, NEW l \in Nodes, k < l,
             Candidates(k, S) = Candidates(l, S)
      PROVE  FALSE
  <2>1. k \in 1..(l - 1)
    BY <1>3, NodesAssumption DEF Nodes
  <2>2. Candidates(l, S) \subseteq Claimed(l, S)
    BY <1>3, <2>1 DEF Claimed
  <2> QED BY <2>2 DEF Matched, Unmatched
<1>4. m < n \/ n < m \/ m = n
  BY NodesAssumption DEF Nodes
<1> QED BY <1>1, <1>2, <1>3, <1>4

(* The second way the code finds the host of a node, by its name, agrees   *)
(* with the first.                                                         *)
LEMMA NamesAgree ==
  ASSUME NEW S, IsFiniteSet(S), Matched(S), ~Unexpected(S), NEW n \in Nodes
  PROVE  Name(Match(n, S)) = n
<1> DEFINE s == Match(n, S)
<1>1. s \in S /\ s \in Candidates(n, S)
  BY OneCandidate
<1>2. Name(s) \in Nodes \cup {None}
  BY <1>1 DEF Unexpected
<1>3. n # None
  BY NodesAssumption DEF Nodes, None
<1>4. CASE s.requested = n
  BY <1>3, <1>4 DEF Name
<1>5. CASE s.requested # n
  <2>1. s.inventory = n
    BY <1>1, <1>5 DEF Candidates
  <2>2. CASE s.requested = None
    BY <2>1, <2>2 DEF Name
  <2>3. CASE s.requested # None
    <3>1. s.requested \in Nodes
      BY <1>2, <2>3 DEF Name
    <3>2. s \in Candidates(s.requested, S)
      BY <1>1 DEF Candidates
    <3> QED BY <1>5, <3>1, <3>2, OneNode
  <2> QED BY <2>2, <2>3
<1> QED BY <1>4, <1>5

LEMMA ApiHostIsMaster ==
  ASSUME NEW S, IsFiniteSet(S), Matched(S), ~Unexpected(S)
  PROVE  \E n \in Masters : ApiHost(S) = Match(n, S)
<1>1. {n \in Nodes : Name(Match(n, S)) \in Masters} = Masters
  BY NamesAgree DEF Masters
<1>2. Masters \in SUBSET Nodes /\ Masters # {}
  BY RoleAssumption DEF Masters
<1>3. First(Masters) \in Masters
  BY <1>2, FirstIsLeast
<1> QED BY <1>1, <1>3 DEF ApiHost

(* What a snapshot says of its host.                                       *)
LEMMA SnapshotsTell ==
  ASSUME HostsInv
  PROVE  /\ IsFiniteSet(Snapshots)
         /\ \A s \in Snapshots : \E h \in hosts :
              /\ s = Snapshot(h) /\ s.id = h.id
              /\ s.role \in OpenShiftNodeRole
              /\ s.role # "unknown" => s.role = h.role
              /\ \A n \in Nodes :
                   s \in Candidates(n, Snapshots) /\ ~h.renamed => h.machine = n
<1>1. IsFiniteSet(Snapshots)
  <2> DEFINE f == [h \in hosts |-> Snapshot(h)]
  <2>1. f \in Surjection(hosts, Snapshots)
    BY DEF Surjection, Snapshots
  <2> QED BY <2>1, FS_Surjection DEF HostsInv, HostsFit
<1>2. ASSUME NEW h \in hosts
      PROVE  LET s == Snapshot(h) IN
             /\ s.id = h.id
             /\ s.role \in OpenShiftNodeRole
             /\ s.role # "unknown" => s.role = h.role
             /\ \A n \in Nodes :
                  s \in Candidates(n, Snapshots) /\ ~h.renamed => h.machine = n
  <2> DEFINE s == Snapshot(h)
  <2>1. /\ s.id = h.id
        /\ s.role = EnumOrUnknown(OpenShiftNodeRole, h.role)
        /\ s.requested = RequestedHostname(h.requested)
        /\ s.inventory = h.inventory
    BY DEF Snapshot
  <2>2. /\ s.role \in OpenShiftNodeRole
        /\ s.role # "unknown" => s.role = h.role
    BY <2>1 DEF EnumOrUnknown, OpenShiftNodeRole
  <2>3. ASSUME NEW n \in Nodes, s \in Candidates(n, Snapshots), ~h.renamed
        PROVE  h.machine = n
    <3>1. n # None /\ n # Uuid
      BY NodesAssumption DEF Nodes, None, Uuid
    <3>2. s.requested = n \/ s.inventory = n
      BY <2>3 DEF Candidates
    <3>3. Named(h)
      BY DEF HostsInv, HostsFit
    <3> QED BY <2>1, <2>3, <3>1, <3>2, <3>3 DEF Named, RequestedHostname
  <2> QED BY <2>1, <2>2, <2>3
<1> QED BY <1>1, <1>2 DEF Snapshots
-----------------------------------------------------------------------------
(***************************************************************************)
(* How hosts change: k comes of h, which stood in its place.               *)
(***************************************************************************)
Stems(k, h) ==
  /\ k.id = h.id /\ k.machine = h.machine
  /\ h.renamed => k.renamed
  /\ ~k.renamed => k.role = h.role \/ k.role = Role[k.machine]

Evolves(H, K, n) ==
  \A k \in K : k.id > n \/ \E h \in H : Stems(k, h)

LEMMA StillKnown ==
  ASSUME NEW H, NEW K, NEW n \in Nat, NEW r \in Nat, n <= r,
         HostsFit(H, n), K \subseteq Host, Evolves(H, K, n),
         NEW m \in Process, Knows(m, H, n)
  PROVE  Knows(m, K, r)
<1>1. m.host \in Nat /\ m.api \in Nat
  BY BoundsAssumption DEF Process
<1>2. ASSUME NEW k \in K, k.id <= n, ~k.renamed
      PROVE  \E h \in H : Stems(k, h) /\ ~h.renamed
  <2>1. k.id \in Nat
    BY BoundsAssumption DEF Host
  <2> QED BY <1>2, <2>1 DEF Evolves, Stems
<1>3. m.host <= r /\ m.api <= r
  BY <1>1 DEF Knows
<1>4. ASSUME m.pc = "role", NEW k \in K, k.id = m.host, ~k.renamed
      PROVE  k.machine = m.node
  BY <1>2, <1>4 DEF Knows, Stems
<1>5. ASSUME m.pc = "done", NEW k \in K, k.id = m.api, ~k.renamed
      PROVE  k.role = "master"
  <2>1. PICK h \in H : Stems(k, h) /\ ~h.renamed
    BY <1>2, <1>5 DEF Knows
  <2>2. h.role = "master"
    BY <1>5, <2>1 DEF Knows, Stems
  <2>3. h.role = Role[h.machine]
    BY <2>1, <2>2 DEF HostsFit, RoleFits, AutoAssign
  <2> QED BY <1>5, <2>1, <2>2, <2>3 DEF Stems
<1> QED BY <1>3, <1>4, <1>5 DEF Knows

LEMMA OneChanged ==
  ASSUME NEW H, NEW n, HostsFit(H, n), NEW h \in H, NEW k \in Host,
         Stems(k, h), Named(k), RoleFits(k)
  PROVE  /\ HostsFit((H \ {h}) \cup {k}, n)
         /\ Evolves(H, (H \ {h}) \cup {k}, n)
<1>1. IsFiniteSet((H \ {h}) \cup {k})
  <2>1. IsFiniteSet(H \ {h})
    BY FS_RemoveElement DEF HostsFit
  <2> QED BY <2>1, FS_AddElement
<1>2. \A g \in H : Stems(g, g)
  BY DEF Stems
<1>3. HostsFit((H \ {h}) \cup {k}, n)
  BY <1>1 DEF HostsFit, Stems
<1> QED BY <1>2, <1>3 DEF Evolves

LEMMA NoneChanged ==
  ASSUME NEW H, NEW n PROVE Evolves(H, H, n)
BY DEF Evolves, Stems

(* One process moves, to locals r that the hosts bear out.                 *)
LEMMA OneMoves ==
  ASSUME DiscoveryInv, NEW c \in Clients, NEW r \in Process, Become(c, r),
         HostsInv', registered <= registered',
         Evolves(hosts, hosts', registered), Knows(r, hosts', registered')
  PROVE  ProcessesInv'
<1>1. me' \in [Clients -> Process] /\ me'[c] = r
  BY DEF Become, DiscoveryInv, ProcessesInv
<1>2. ASSUME NEW d \in Clients, d # c
      PROVE  Knows(me'[d], hosts', registered')
  <2>1. me'[d] = me[d] /\ me[d] \in Process
    BY <1>2 DEF Become, DiscoveryInv, ProcessesInv
  <2>2. Knows(me[d], hosts, registered)
    BY DEF DiscoveryInv, ProcessesInv
  <2>3. registered \in Nat /\ registered' \in Nat
    BY BoundsAssumption DEF DiscoveryInv, HostsInv, HostsFit
  <2>4. HostsFit(hosts, registered) /\ hosts' \subseteq Host
    BY DEF DiscoveryInv, HostsInv, HostsFit
  <2>5. Knows(me[d], hosts', registered')
    BY <2>1, <2>2, <2>3, <2>4, StillKnown
  <2> QED BY <2>1, <2>5
<1> QED BY <1>1, <1>2 DEF ProcessesInv

LEMMA NoneMoves ==
  ASSUME DiscoveryInv, me' = me, HostsInv', registered <= registered',
         Evolves(hosts, hosts', registered)
  PROVE  ProcessesInv'
<1>1. SUFFICES ASSUME NEW d \in Clients
               PROVE  Knows(me[d], hosts', registered')
  BY DEF DiscoveryInv, ProcessesInv
<1>2. me[d] \in Process /\ Knows(me[d], hosts, registered)
  BY DEF DiscoveryInv, ProcessesInv
<1>3. registered \in Nat /\ registered' \in Nat
  BY BoundsAssumption DEF DiscoveryInv, HostsInv, HostsFit
<1>4. HostsFit(hosts, registered) /\ hosts' \subseteq Host
  BY DEF DiscoveryInv, HostsInv, HostsFit
<1> QED BY <1>2, <1>3, <1>4, StillKnown

-----------------------------------------------------------------------------
LEMMA InitFits == Init => DiscoveryInv
<1> SUFFICES ASSUME Init PROVE DiscoveryInv
  OBVIOUS
<1>1. ClusterInv
  BY BoundsAssumption DEF Init, ClusterInv, ClusterStatus
<1>2. HostsInv
  BY BoundsAssumption, FS_EmptySet DEF Init, HostsInv, HostsFit
<1>3. Fresh("idle") \in Process /\ Knows(Fresh("idle"), hosts, registered)
  BY BoundsAssumption
     DEF Init, Fresh, Process, Resting, Calling, Knows
<1>4. ProcessesInv
  BY <1>3 DEF Init, ProcessesInv
<1> QED BY <1>1, <1>2, <1>4 DEF DiscoveryInv

(***************************************************************************)
(* The steps of a process that leave the service alone.                    *)
(***************************************************************************)
LEMMA StillServed ==
  ASSUME DiscoveryInv, NEW c \in Clients, NEW r \in Process, Become(c, r),
         Knows(r, hosts, registered), ServiceKept
  PROVE  DiscoveryInv'
<1>1. ClusterInv' /\ HostsInv'
  BY DEF DiscoveryInv, ClusterInv, HostsInv, ServiceKept
<1>2. Evolves(hosts, hosts', registered) /\ registered <= registered'
  BY NoneChanged, BoundsAssumption
     DEF ServiceKept, DiscoveryInv, HostsInv, HostsFit
<1>3. Knows(r, hosts', registered')
  BY DEF ServiceKept
<1>4. ProcessesInv'
  BY <1>1, <1>2, <1>3, OneMoves
<1> QED BY <1>1, <1>4 DEF DiscoveryInv

LEMMA FreshKnows ==
  ASSUME NEW p \in {"idle", "refused", "cluster"}, NEW n \in Nat, NEW H
  PROVE  Fresh(p) \in Process /\ Knows(Fresh(p), H, n)
BY BoundsAssumption DEF Fresh, Process, Resting, Calling, Knows

LEMMA Counted ==
  ASSUME DiscoveryInv
  PROVE  /\ registered \in Nat
         /\ \A c \in Clients :
              /\ me[c] \in Process
              /\ Knows(me[c], hosts, registered)
BY BoundsAssumption DEF DiscoveryInv, HostsInv, HostsFit, ProcessesInv

(* The process of a step that fails or goes on to its next look knows      *)
(* nothing new.                                                            *)
LEMMA FailsOrGoes ==
  ASSUME DiscoveryInv, NEW c \in Clients,
         \/ \E code : Fails(c, code)
         \/ Goto(c, "cluster")
         \/ \E p \in {"idle", "refused"} : End(c, p)
  PROVE  \E r \in Process :
           Become(c, r) /\ \A G : Knows(r, G, registered)
<1> DEFINE s == [me[c] EXCEPT !.pc = "cluster", !.refreshed = FALSE]
<1>1. s \in Process /\ \A G : Knows(s, G, registered)
  BY Counted DEF Process, Calling, Knows
<1>2. \A p \in {"idle", "refused"} :
        Fresh(p) \in Process /\ \A G : Knows(Fresh(p), G, registered)
  BY Counted, FreshKnows
<1>3. \/ Become(c, s)
      \/ \E p \in {"idle", "refused"} : Become(c, Fresh(p))
  BY DEF Fails, Goto, End
<1> QED BY <1>1, <1>2, <1>3

LEMMA FailsQuietly ==
  ASSUME DiscoveryInv, NEW c \in Clients, ServiceKept,
         \/ \E code : Fails(c, code)
         \/ Goto(c, "cluster")
         \/ \E p \in {"idle", "refused"} : End(c, p)
  PROVE  DiscoveryInv'
BY FailsOrGoes, StillServed

LEMMA TokensFit ==
  ASSUME DiscoveryInv, NEW c \in Clients, Exchange(c) \/ Expire(c)
  PROVE  DiscoveryInv'
<1>1. PICK token \in {"valid", "expired"}, refreshed \in BOOLEAN :
        Become(c, [me[c] EXCEPT !.token = token, !.refreshed = refreshed])
  <2>1. CASE Exchange(c)
    BY <2>1 DEF Exchange
  <2>2. CASE Expire(c)
    <3>1. me[c].refreshed \in BOOLEAN
      BY Counted DEF Process
    <3>2. [me[c] EXCEPT !.token = "expired", !.refreshed = me[c].refreshed]
            = [me[c] EXCEPT !.token = "expired"]
      BY Counted DEF Process
    <3> QED BY <2>2, <3>1, <3>2 DEF Expire
  <2> QED BY <2>1, <2>2
<1> DEFINE r == [me[c] EXCEPT !.token = token, !.refreshed = refreshed]
<1>2. r \in Process /\ Knows(r, hosts, registered)
  BY Counted DEF Process, Knows
<1>3. ServiceKept
  BY DEF Exchange, Expire
<1> QED BY <1>1, <1>2, <1>3, StillServed

LEMMA LaunchFits ==
  ASSUME DiscoveryInv, NEW c \in Clients, Launch(c) PROVE DiscoveryInv'
<1> DEFINE r == [Fresh("cluster") EXCEPT !.cluster = cluster.id]
<1>1. r \in Process /\ Knows(r, hosts, registered)
  BY Counted, FreshKnows
     DEF DiscoveryInv, ClusterInv, Fresh, Process, Calling, Knows
<1> QED BY <1>1, StillServed DEF Launch

LEMMA LookAtClusterFits ==
  ASSUME DiscoveryInv, NEW c \in Clients, LookAtCluster(c)
  PROVE  DiscoveryInv'
<1> DEFINE r == [me[c] EXCEPT !.pc = "hosts", !.refreshed = FALSE,
                              !.started = cluster.started]
<1>1. r \in Process /\ Knows(r, hosts, registered)
  BY Counted DEF DiscoveryInv, ClusterInv, Process, Calling, Knows
<1>2. Become(c, r) \/ End(c, "refused")
  BY DEF LookAtCluster
<1> QED BY <1>1, <1>2, StillServed, FailsQuietly DEF LookAtCluster

LEMMA InterruptionsFit ==
  ASSUME DiscoveryInv, NEW c \in Clients,
         \/ ExchangeFails(c) \/ Rejected(c) \/ Unavailable(c)
         \/ TimeOut(c) \/ Kill(c)
  PROVE  DiscoveryInv'
BY FailsQuietly DEF ExchangeFails, Rejected, Unavailable, TimeOut, Kill

(***************************************************************************)
(* A look at the hosts: what it says of each matched host is true of the   *)
(* host, unless it was renamed.                                            *)
(***************************************************************************)
LEMMA ReconcileFits ==
  ASSUME DiscoveryInv, NEW c \in Clients, ServiceKept,
         Matched(Snapshots), ~Unexpected(Snapshots), Reconcile(c, Snapshots)
  PROVE  DiscoveryInv'
<1> DEFINE S == Snapshots
           wrong == {n \in Nodes : Match(n, S).role # Role[n]}
           n == First(wrong)
<1>1. /\ IsFiniteSet(S)
      /\ \A s \in S : \E h \in hosts :
           /\ s = Snapshot(h) /\ s.id = h.id
           /\ s.role \in OpenShiftNodeRole
           /\ s.role # "unknown" => s.role = h.role
           /\ \A m \in Nodes :
                s \in Candidates(m, S) /\ ~h.renamed => h.machine = m
  BY SnapshotsTell DEF DiscoveryInv
<1>2. ASSUME NEW m \in Nodes
      PROVE  \E h \in hosts :
               /\ Match(m, S).id = h.id
               /\ Match(m, S).role # "unknown" => Match(m, S).role = h.role
               /\ ~h.renamed => h.machine = m
  <2>1. Match(m, S) \in S /\ Match(m, S) \in Candidates(m, S)
    BY <1>1, OneCandidate
  <2> QED BY <1>1, <2>1
<1>3. \A h \in hosts : h.id \in 1..MaxHosts /\ h.id <= registered
  BY DEF DiscoveryInv, HostsInv, HostsFit, Host
<1>4. \A h, k \in hosts : h.id = k.id => h = k
  BY DEF DiscoveryInv, HostsInv, HostsFit
<1>5. CASE /\ wrong # {}
           /\ Become(c, [me[c] EXCEPT !.pc = "role", !.refreshed = FALSE,
                                      !.host = Match(n, S).id, !.node = n])
  <2> DEFINE r == [me[c] EXCEPT !.pc = "role", !.refreshed = FALSE,
                                !.host = Match(n, S).id, !.node = n]
  <2>1. n \in Nodes
    BY <1>5, FirstIsLeast
  <2> HIDE DEF n
  <2>2. PICK h \in hosts :
          Match(n, S).id = h.id /\ (~h.renamed => h.machine = n)
    BY <1>2, <2>1
  <2>3. r \in Process
    <3> DEFINE i == Match(n, S).id
    <3>1. i \in 0..MaxHosts
      BY <1>3, <2>2, BoundsAssumption
    <3> HIDE DEF i
    <3>2. [me[c] EXCEPT !.pc = "role", !.refreshed = FALSE,
                        !.host = i, !.node = n] \in Process
      BY <2>1, <3>1, Counted DEF Process, Calling
    <3> QED BY <3>2 DEF i
  <2>4. Knows(r, hosts, registered)
    <3>1. /\ r.pc = "role" /\ r.host = h.id /\ r.node = n
          /\ r.api = me[c].api
      BY <2>2, Counted DEF Process
    <3>2. h.id # 0 /\ n # 0 /\ h.id <= registered
      BY <1>3, <2>1, NodesAssumption DEF Nodes
    <3>3. me[c].api <= registered
      BY Counted DEF Knows
    <3> QED BY <1>4, <2>2, <3>1, <3>2, <3>3 DEF Knows
  <2> QED BY <1>5, <2>3, <2>4, StillServed DEF n
<1>6. CASE /\ wrong = {}
           /\ Become(c, [Fresh("done") EXCEPT !.cluster = me[c].cluster,
                                              !.api = ApiHost(S).id])
  <2> DEFINE r == [Fresh("done") EXCEPT !.cluster = me[c].cluster,
                                        !.api = ApiHost(S).id]
  <2>1. PICK m \in Masters : ApiHost(S) = Match(m, S)
    BY <1>1, ApiHostIsMaster
  <2>2. m \in Nodes /\ Role[m] = "master"
    BY DEF Masters
  <2>3. Match(m, S).role = "master"
    BY <1>6, <2>2
  <2>4. PICK h \in hosts : Match(m, S).id = h.id /\ h.role = "master"
    BY <1>2, <2>2, <2>3
  <2>5. /\ r.pc = "done" /\ r.api = h.id /\ r.host = 0 /\ r.node = 0
        /\ r.cluster = me[c].cluster /\ r.started = FALSE
        /\ r.token = "none" /\ r.refreshed = FALSE
    BY <2>1, <2>4 DEF Fresh
  <2>6. r \in Process
    <3>1. h.id \in 0..MaxHosts /\ 0 \in 0..MaxHosts
      BY <1>3, BoundsAssumption
    <3>2. me[c].cluster \in Nat
      BY Counted DEF Process
    <3>3. ApiHost(S).id = h.id
      BY <2>1, <2>4
    <3> QED BY <3>1, <3>2, <3>3 DEF Process, Resting, Fresh
  <2>7. Knows(r, hosts, registered)
    BY <1>3, <1>4, <2>4, <2>5, Counted DEF Knows
  <2> HIDE DEF r
  <2>8. Become(c, r)
    BY <1>6 DEF r
  <2> QED BY <2>6, <2>7, <2>8, StillServed
<1>7. CASE End(c, "refused") \/ Goto(c, "cluster")
  BY <1>7, FailsQuietly
<1> QED BY <1>5, <1>6, <1>7 DEF Reconcile

LEMMA NoHosts == ~Matched({})
<1>1. Cardinality({}) = 0
  BY FS_EmptySet
<1>2. IsFiniteSet(Nodes) /\ Cardinality(Nodes) = NodeCount
  BY FS_Interval, NodesAssumption DEF Nodes
<1> QED BY <1>1, <1>2, NodesAssumption DEF Matched

LEMMA LookAtHostsFits ==
  ASSUME DiscoveryInv, NEW c \in Clients, LookAtHosts(c) PROVE DiscoveryInv'
<1>1. ServiceKept
  BY DEF LookAtHosts
<1> DEFINE S == IF cluster.id = me[c].cluster THEN Snapshots ELSE {}
<1>2. \/ End(c, "refused") \/ Goto(c, "cluster")
      \/ Matched(S) /\ ~Unexpected(S) /\ Reconcile(c, S)
  BY DEF LookAtHosts, Snapshots
<1>3. CASE End(c, "refused") \/ Goto(c, "cluster")
  BY <1>1, <1>3, FailsQuietly
<1>4. CASE Matched(S) /\ ~Unexpected(S) /\ Reconcile(c, S)
  <2>1. S = Snapshots
    BY <1>4, NoHosts
  <2> QED BY <1>1, <1>4, <2>1, ReconcileFits
<1> QED BY <1>2, <1>3, <1>4

(***************************************************************************)
(* The role of one host changes.                                           *)
(***************************************************************************)
LEMMA RoleGiven ==
  ASSUME DiscoveryInv, NEW c \in Clients, At(c, "role"), NEW h \in hosts,
         h.id = me[c].host, NEW k, k = [h EXCEPT !.role = Role[me[c].node]]
  PROVE  k \in Host /\ Stems(k, h) /\ Named(k) /\ RoleFits(k)
<1> DEFINE n == me[c].node
<1>1. n \in Nodes /\ (~h.renamed => h.machine = n)
  BY Counted DEF Process, Knows, At
<1>2. Role[n] \in {"master", "worker"}
  BY <1>1, RoleAssumption
<1>3. h \in Host /\ Named(h)
  BY DEF DiscoveryInv, HostsInv, HostsFit
<1> HIDE DEF n
<1>4. k = [h EXCEPT !.role = Role[n]]
  BY DEF n
<1>5. /\ k.id = h.id /\ k.machine = h.machine /\ k.renamed = h.renamed
      /\ k.requested = h.requested /\ k.inventory = h.inventory
      /\ k.role = Role[n]
  BY <1>3, <1>4 DEF Host
<1>6. k \in Host
  BY <1>2, <1>3, <1>4 DEF Host
<1> QED BY <1>1, <1>3, <1>5, <1>6 DEF Stems, Named, RoleFits

LEMMA AssignRoleFits ==
  ASSUME DiscoveryInv, NEW c \in Clients, AssignRole(c) PROVE DiscoveryInv'
<1> DEFINE target == {h \in hosts : h.id = me[c].host}
           settable == {h \in target : h.status \in RoleMutableHostStatuses}
<1>1. CASE hosts' = hosts /\ \E code : Fails(c, code)
  BY <1>1, FailsQuietly DEF AssignRole, ServiceKept
<1>2. CASE /\ settable # {}
           /\ hosts' = (hosts \ settable) \cup
                {[h EXCEPT !.role = Role[me[c].node]] : h \in settable}
           /\ Goto(c, "cluster")
  <2>1. PICK h \in hosts : settable = {h} /\ h.id = me[c].host
    BY <1>2 DEF DiscoveryInv, HostsInv, HostsFit
  <2> DEFINE k == [h EXCEPT !.role = Role[me[c].node]]
  <2>2. hosts' = (hosts \ {h}) \cup {k}
    BY <1>2, <2>1
  <2>3. k \in Host /\ Stems(k, h) /\ Named(k) /\ RoleFits(k)
    BY <2>1, RoleGiven DEF AssignRole
  <2> HIDE DEF k
  <2>4. HostsFit(hosts', registered) /\ Evolves(hosts, hosts', registered)
    BY <2>2, <2>3, OneChanged DEF DiscoveryInv, HostsInv
  <2>5. registered' = registered /\ UNCHANGED <<cluster, trouble>>
    BY DEF AssignRole
  <2>6. PICK r \in Process :
          Become(c, r) /\ \A G : Knows(r, G, registered)
    BY <1>2, FailsOrGoes
  <2>7. registered <= registered'
    BY <2>5, Counted
  <2>8. HostsInv'
    BY <2>4, <2>5 DEF HostsInv
  <2>9. ProcessesInv'
    BY <2>4, <2>5, <2>6, <2>7, <2>8, OneMoves
  <2> QED BY <2>5, <2>8, <2>9 DEF DiscoveryInv, ClusterInv
<1> QED BY <1>1, <1>2 DEF AssignRole

(***************************************************************************)
(* The service and other people.                                           *)
(***************************************************************************)
LEMMA ServiceMoves ==
  ASSUME DiscoveryInv, me' = me, ClusterInv', HostsFit(hosts', registered'),
         registered <= registered', Evolves(hosts, hosts', registered)
  PROVE  DiscoveryInv'
<1>1. HostsInv'
  BY DEF HostsInv
<1> QED BY <1>1, NoneMoves DEF DiscoveryInv

LEMMA HostMoves ==
  ASSUME DiscoveryInv, NEW h \in hosts, NEW k \in Host,
         Stems(k, h), Named(k), RoleFits(k),
         hosts' = (hosts \ {h}) \cup {k},
         UNCHANGED <<cluster, registered, me>>,
         trouble' \in 0..MaxForeign
  PROVE  DiscoveryInv'
<1>1. HostsFit(hosts', registered) /\ Evolves(hosts, hosts', registered)
  BY OneChanged DEF DiscoveryInv, HostsInv
<1>2. registered <= registered' /\ ClusterInv'
  BY Counted DEF DiscoveryInv, ClusterInv
<1> QED BY <1>1, <1>2, ServiceMoves

LEMMA HostStepsFit ==
  ASSUME DiscoveryInv, NEW h \in hosts,
         \/ Describe(h) \/ NameHost(h) \/ InstallHost(h)
         \/ Validate(h) \/ Invalidate(h)
  PROVE  DiscoveryInv'
<1>1. h \in Host /\ Named(h) /\ RoleFits(h)
  BY DEF DiscoveryInv, HostsInv, HostsFit
<1>2. trouble \in 0..MaxForeign
  BY DEF DiscoveryInv, ClusterInv
<1>3. CASE \/ InstallHost(h) \/ Validate(h) \/ Invalidate(h)
  <2>1. PICK status \in HostStatus : Changed(h, [h EXCEPT !.status = status])
    BY <1>3 DEF InstallHost, Validate, Invalidate, HostStatus
  <2> DEFINE k == [h EXCEPT !.status = status]
  <2>2. k \in Host /\ Stems(k, h) /\ Named(k) /\ RoleFits(k)
    BY <1>1 DEF Host, Stems, Named, RoleFits
  <2> QED BY <1>2, <2>1, <2>2, HostMoves DEF Changed
<1>4. CASE Describe(h)
  <2> DEFINE k == [h EXCEPT !.inventory = h.machine, !.status = "insufficient"]
  <2>1. k \in Host /\ Stems(k, h) /\ Named(k) /\ RoleFits(k)
    BY <1>1 DEF Host, HostStatus, Stems, Named, RoleFits
  <2> QED BY <1>2, <1>4, <2>1, HostMoves DEF Changed, Describe
<1>5. CASE NameHost(h)
  <2> DEFINE k == [h EXCEPT !.requested = h.machine]
  <2>1. k \in Host /\ Stems(k, h) /\ Named(k) /\ RoleFits(k)
    BY <1>1 DEF Host, Stems, Named, RoleFits
  <2> QED BY <1>2, <1>5, <2>1, HostMoves DEF Changed, NameHost
<1> QED BY <1>3, <1>4, <1>5

LEMMA HostRegisters ==
  ASSUME DiscoveryInv, NEW m \in Machines, NEW raw \in {None, Uuid},
         Registered(m, raw), trouble' \in 0..MaxForeign
  PROVE  DiscoveryInv'
<1> DEFINE k == [id |-> registered + 1, machine |-> m, requested |-> raw,
                 inventory |-> None, status |-> "discovering",
                 role |-> AutoAssign, renamed |-> FALSE]
<1>1. registered + 1 \in 1..MaxHosts /\ registered' = registered + 1
  BY Counted, BoundsAssumption DEF Registered, DiscoveryInv, HostsInv, HostsFit
<1>2. k \in Host /\ Named(k) /\ RoleFits(k)
  BY <1>1 DEF Host, HostStatus, Named, RoleFits
<1>3. hosts' = hosts \cup {k}
  BY DEF Registered
<1>4. k.id = registered + 1
  OBVIOUS
<1> HIDE DEF k
<1>5. IsFiniteSet(hosts')
  BY <1>3, FS_AddElement DEF DiscoveryInv, HostsInv, HostsFit
<1>6. \A h \in hosts : h.id \in Nat /\ h.id <= registered
  BY BoundsAssumption DEF DiscoveryInv, HostsInv, HostsFit, Host
<1>7. HostsFit(hosts', registered')
  <2>1. \A h \in hosts' : h.id <= registered' /\ Named(h) /\ RoleFits(h)
    BY <1>1, <1>2, <1>3, <1>4, <1>6, Counted
       DEF DiscoveryInv, HostsInv, HostsFit
  <2>2. \A h, g \in hosts' : h.id = g.id => h = g
    BY <1>3, <1>4, <1>6, Counted DEF DiscoveryInv, HostsInv, HostsFit
  <2>3. hosts' \subseteq Host /\ registered' \in 0..MaxHosts
    BY <1>1, <1>2, <1>3, BoundsAssumption DEF DiscoveryInv, HostsInv, HostsFit
  <2> QED BY <1>5, <2>1, <2>2, <2>3 DEF HostsFit
<1>8. Evolves(hosts, hosts', registered)
  BY <1>3, <1>4, Counted DEF Evolves, Stems
<1>9. ClusterInv' /\ registered <= registered' /\ me' = me
  BY <1>1, Counted DEF DiscoveryInv, ClusterInv, Registered
<1> QED BY <1>7, <1>8, <1>9, ServiceMoves

LEMMA RemovalFits ==
  ASSUME DiscoveryInv, hosts' \in SUBSET hosts,
         UNCHANGED <<registered, me>>, ClusterInv'
  PROVE  DiscoveryInv'
<1>1. IsFiniteSet(hosts')
  BY FS_Subset DEF DiscoveryInv, HostsInv, HostsFit
<1>2. HostsFit(hosts', registered')
  BY <1>1 DEF DiscoveryInv, HostsInv, HostsFit
<1>3. Evolves(hosts, hosts', registered)
  BY DEF Evolves, Stems
<1>4. registered <= registered'
  BY Counted
<1> QED BY <1>2, <1>3, <1>4, ServiceMoves

LEMMA MeddleFits ==
  ASSUME DiscoveryInv, Meddle PROVE DiscoveryInv'
<1>1. trouble' \in 0..MaxForeign
  <2>1. trouble < MaxForeign /\ trouble' = trouble + 1
    BY DEF Meddle, Troubled
  <2> QED BY <2>1, BoundsAssumption DEF DiscoveryInv, ClusterInv
<1>2. CASE \E m \in Machines : Registered(m, None)
  BY <1>1, <1>2, HostRegisters
<1>3. ASSUME NEW h \in hosts, NEW name \in Machines,
             hosts' = (hosts \ {h}) \cup
                        {[h EXCEPT !.requested = name, !.renamed = TRUE]},
             UNCHANGED <<cluster, registered, me>>
      PROVE  DiscoveryInv'
  <2> DEFINE k == [h EXCEPT !.requested = name, !.renamed = TRUE]
  <2>1. h \in Host /\ Named(h)
    BY DEF DiscoveryInv, HostsInv, HostsFit
  <2>2. k \in Host /\ Stems(k, h) /\ Named(k) /\ RoleFits(k)
    BY <2>1 DEF Host, Stems, Named, RoleFits
  <2> QED BY <1>1, <1>3, <2>2, HostMoves
<1>4. ASSUME NEW h \in hosts, hosts' = hosts \ {h},
             UNCHANGED <<cluster, registered, me>>
      PROVE  DiscoveryInv'
  <2>1. ClusterInv'
    BY <1>1, <1>4 DEF DiscoveryInv, ClusterInv
  <2> QED BY <1>4, <2>1, RemovalFits
<1>5. ASSUME NEW h \in hosts, NEW status \in {Unlisted, "error"},
             hosts' = (hosts \ {h}) \cup {[h EXCEPT !.status = status]},
             UNCHANGED <<cluster, registered, me>>
      PROVE  DiscoveryInv'
  <2> DEFINE k == [h EXCEPT !.status = status]
  <2>1. h \in Host /\ Named(h) /\ RoleFits(h)
    BY DEF DiscoveryInv, HostsInv, HostsFit
  <2>2. k \in Host /\ Stems(k, h) /\ Named(k) /\ RoleFits(k)
    BY <2>1 DEF Host, HostStatus, Stems, Named, RoleFits
  <2> QED BY <1>1, <1>5, <2>2, HostMoves
<1>6. ASSUME NEW status \in {"cancelled", "unmonitored"},
             cluster' = [cluster EXCEPT !.status = status],
             UNCHANGED <<hosts, registered, me>>
      PROVE  DiscoveryInv'
  <2>1. ClusterInv'
    BY <1>1, <1>6 DEF DiscoveryInv, ClusterInv, ClusterStatus
  <2> QED BY <1>6, <2>1, RemovalFits
<1>7. ASSUME cluster' = [id |-> cluster.id + 1, status |-> "insufficient",
                         started |-> FALSE],
             hosts' = {}, UNCHANGED <<registered, me>>
      PROVE  DiscoveryInv'
  <2>1. ClusterInv'
    BY <1>1, <1>7 DEF DiscoveryInv, ClusterInv, ClusterStatus
  <2> QED BY <1>7, <2>1, RemovalFits
<1> QED BY <1>2, <1>3, <1>4, <1>5, <1>6, <1>7 DEF Meddle

LEMMA InstallFits ==
  ASSUME DiscoveryInv, NEW c \in Clients, Install(c) PROVE DiscoveryInv'
<1>1. ClusterInv'
  BY DEF Install, DiscoveryInv, ClusterInv, ClusterStatus
<1> QED BY <1>1, RemovalFits DEF Install

LEMMA EveryStepFits ==
  DiscoveryInv /\ [Next]_vars => DiscoveryInv'
<1> SUFFICES ASSUME DiscoveryInv, [Next]_vars PROVE DiscoveryInv'
  OBVIOUS
<1>1. ASSUME NEW c \in Clients, Step(c) PROVE DiscoveryInv'
  BY <1>1, TokensFit, InterruptionsFit, LookAtClusterFits, LookAtHostsFits,
     AssignRoleFits DEF Step
<1>2. ASSUME NEW c \in Clients,
             \/ Launch(c) \/ Install(c) \/ TimeOut(c) \/ Kill(c)
             \/ ExchangeFails(c) \/ Unavailable(c) \/ Expire(c)
      PROVE  DiscoveryInv'
  BY <1>2, LaunchFits, InstallFits, InterruptionsFit, TokensFit
<1>3. ASSUME NEW n \in Nodes, Register(n) PROVE DiscoveryInv'
  <2>1. n \in Machines /\ trouble' \in 0..MaxForeign
    BY <1>3 DEF Machines, Register, DiscoveryInv, ClusterInv
  <2> QED BY <1>3, <2>1, HostRegisters DEF Register
<1>4. CASE UNCHANGED vars
  BY <1>4, RemovalFits DEF vars, DiscoveryInv, ClusterInv
<1> QED BY <1>1, <1>2, <1>3, <1>4, HostStepsFit, MeddleFits DEF Next

LEMMA AlwaysFits == Spec => []DiscoveryInv
BY InitFits, EveryStepFits, PTL DEF Spec
-----------------------------------------------------------------------------
(* Every variable keeps its type, no two hosts have one id, and a process  *)
(* about to assign a role knows host and node.                             *)
THEOREM TypeCorrect == Spec => []TypeOK
<1>1. DiscoveryInv => TypeOK
  BY DEF DiscoveryInv, ClusterInv, HostsInv, HostsFit, ProcessesInv, Knows,
         TypeOK, At
<1> QED BY <1>1, AlwaysFits, PTL

(* Whatever machines boot the ISO and whatever other people do, a host not *)
(* renamed has no role but that of its own machine (_match_hosts).         *)
THEOREM RolesAreTheirOwn == Spec => []RolesFollowMachines
<1>1. DiscoveryInv => RolesFollowMachines
  BY DEF DiscoveryInv, HostsInv, HostsFit, RoleFits, RolesFollowMachines
<1> QED BY <1>1, AlwaysFits, PTL

(* The host that is given the API's address of a single-node deployment is *)
(* a master (_cluster_network_config).                                     *)
THEOREM ApiIsControlPlane == Spec => []ApiOnControlPlane
<1>1. DiscoveryInv => ApiOnControlPlane
  BY DEF DiscoveryInv, ProcessesInv, Knows, ApiOnControlPlane, At
<1> QED BY <1>1, AlwaysFits, PTL
-----------------------------------------------------------------------------
(***************************************************************************)
(* A healthy lab: nothing has happened but what a lab does by itself.      *)
(* Every host is a machine of the spec of its own; an installation began   *)
(* when all were there and had their roles; a process about to assign a    *)
(* role looked before that.                                                *)
(***************************************************************************)
AllHere(H) == \A n \in Nodes : \E h \in H : h.machine = n

HealthyHosts(H, C) ==
  /\ \A h \in H :
       /\ h.machine \in Nodes /\ ~h.renamed
       /\ C.started =>
            h.role # AutoAssign /\ h.status \in {"known", "installing"}
       /\ ~C.started => h.status \in {"discovering", "insufficient", "known"}
  /\ \A h, k \in H : h.machine = k.machine => h = k
  /\ C.started => AllHere(H)

Placed(m, H, C) ==
  /\ m.pc \in Calling => m.cluster = C.id /\ (m.started => C.started)
  /\ m.pc = "role" => ~m.started /\ \E h \in H : h.id = m.host
  /\ m.pc = "done" => AllHere(H)

HealthyInv ==
  /\ cluster.status \in {"insufficient", "installing"}
  /\ HealthyHosts(hosts, cluster)
  /\ \A c \in Clients : Placed(me[c], hosts, cluster)

Grows(H, K) == \A h \in H : \E k \in K : k.id = h.id /\ k.machine = h.machine

LEMMA StillPlaced ==
  ASSUME NEW H, NEW K, NEW C, NEW D, NEW m, Placed(m, H, C), Grows(H, K),
         D.id = C.id, C.started => D.started
  PROVE  Placed(m, K, D)
<1>1. AllHere(H) => AllHere(K)
  BY DEF AllHere, Grows
<1>2. (\E h \in H : h.id = m.host) => \E k \in K : k.id = m.host
  BY DEF Grows
<1> QED BY <1>1, <1>2 DEF Placed

LEMMA SameHosts == ASSUME NEW H PROVE Grows(H, H)
BY DEF Grows

LEMMA ProcessHealthy ==
  ASSUME DiscoveryInv, HealthyInv, NEW c \in Clients, NEW r, Become(c, r),
         cluster' = cluster, HealthyHosts(hosts', cluster),
         Grows(hosts, hosts'), Placed(r, hosts', cluster)
  PROVE  HealthyInv'
<1>1. ASSUME NEW d \in Clients PROVE Placed(me'[d], hosts', cluster')
  <2>1. CASE d = c
    <3>1. me'[d] = r
      BY <2>1 DEF Become, DiscoveryInv, ProcessesInv
    <3> QED BY <3>1
  <2>2. CASE d # c
    <3>1. me'[d] = me[d]
      BY <2>2 DEF Become, DiscoveryInv, ProcessesInv
    <3>2. Placed(me[d], hosts, cluster)
      BY DEF HealthyInv
    <3>3. Placed(me[d], hosts', cluster)
      BY <3>2, StillPlaced
    <3> QED BY <3>1, <3>3
  <2> QED BY <2>1, <2>2
<1> QED BY <1>1 DEF HealthyInv

LEMMA LooksHealthy ==
  ASSUME DiscoveryInv, HealthyInv, NEW c \in Clients, NEW r, Become(c, r),
         ServiceKept, Placed(r, hosts, cluster)
  PROVE  HealthyInv'
<1>1. hosts' = hosts /\ cluster' = cluster
  BY DEF ServiceKept
<1>2. HealthyHosts(hosts', cluster) /\ Grows(hosts, hosts')
  BY <1>1, SameHosts DEF HealthyInv
<1> QED BY <1>1, <1>2, ProcessHealthy

(* A process that fails or goes on is placed wherever the hosts go.        *)
LEMMA FailsPlaced ==
  ASSUME DiscoveryInv, HealthyInv, NEW c \in Clients, me[c].pc \in Calling,
         \/ \E code : Fails(c, code)
         \/ Goto(c, "cluster")
         \/ \E p \in {"idle", "refused"} : End(c, p)
  PROVE  \E r : Become(c, r) /\ \A H : Placed(r, H, cluster)
<1> DEFINE s == [me[c] EXCEPT !.pc = "cluster", !.refreshed = FALSE]
<1>1. \A H : Placed(s, H, cluster)
  <2>1. Placed(me[c], hosts, cluster)
    BY DEF HealthyInv
  <2>2. /\ s.pc = "cluster" /\ s.cluster = me[c].cluster
        /\ s.started = me[c].started
    BY Counted DEF Process
  <2> QED BY <2>1, <2>2 DEF Placed
<1>2. \A p \in {"idle", "refused"} : \A H : Placed(Fresh(p), H, cluster)
  BY DEF Placed, Fresh, Calling
<1>3. \/ Become(c, s)
      \/ \E p \in {"idle", "refused"} : Become(c, Fresh(p))
  BY DEF Fails, Goto, End
<1> QED BY <1>1, <1>2, <1>3

LEMMA FailsHealthy ==
  ASSUME DiscoveryInv, HealthyInv, NEW c \in Clients, me[c].pc \in Calling,
         ServiceKept,
         \/ \E code : Fails(c, code)
         \/ Goto(c, "cluster")
         \/ \E p \in {"idle", "refused"} : End(c, p)
  PROVE  HealthyInv'
BY FailsPlaced, LooksHealthy

(* A healthy lab gives no reason to refuse it.                             *)
LEMMA NoReason ==
  ASSUME DiscoveryInv, HealthyInv
  PROVE  /\ \A s \in Snapshots : s.status \notin ActionHostIssues
         /\ ~Unexpected(Snapshots) /\ ~Ambiguous(Snapshots)
<1> DEFINE S == Snapshots
<1>1. /\ IsFiniteSet(S)
      /\ \A s \in S : \E h \in hosts :
           /\ s = Snapshot(h)
           /\ \A n \in Nodes : s \in Candidates(n, S) => h.machine = n
  BY SnapshotsTell DEF DiscoveryInv, HealthyInv, HealthyHosts
<1>2. ASSUME NEW s \in S
      PROVE  /\ s.status \in {"discovering", "insufficient", "known",
                              "installing"}
             /\ Name(s) \in Nodes \cup {None}
  <2>1. PICK h \in hosts : s = Snapshot(h)
    BY <1>1
  <2>2. /\ h.status \in {"discovering", "insufficient", "known", "installing"}
        /\ h.machine \in Nodes /\ ~h.renamed
    BY DEF HealthyInv, HealthyHosts
  <2>3. Named(h)
    BY DEF DiscoveryInv, HostsInv, HostsFit
  <2>4. s.status = h.status
    BY <2>1, <2>2 DEF Snapshot, EnumOrUnknown, HostStatus
  <2>5. Name(s) \in {None, h.machine}
    BY <2>1, <2>2, <2>3 DEF Snapshot, Name, Named, RequestedHostname
  <2> QED BY <2>2, <2>4, <2>5
<1>3. ASSUME NEW n \in Nodes, Candidates(n, S) # {} PROVE n \notin Unmatched(S)
  <2>1. PICK s \in S : s \in Candidates(n, S)
    BY <1>3, CandidatesAreHosts
  <2>2. PICK h \in hosts :
          /\ s = Snapshot(h)
          /\ \A m \in Nodes : s \in Candidates(m, S) => h.machine = m
    BY <1>1
  <2>3. Candidates(n, S) = {s}
    <3>1. ASSUME NEW t \in Candidates(n, S) PROVE t = s
      <4>1. PICK k \in hosts : t = Snapshot(k) /\ k.machine = n
        BY <1>1, CandidatesAreHosts
      <4>2. h.machine = n
        BY <2>1, <2>2
      <4>3. k = h
        BY <4>1, <4>2 DEF HealthyInv, HealthyHosts
      <4> QED BY <2>2, <4>1, <4>3
    <3> QED BY <2>1, <3>1
  <2>4. Cardinality(Candidates(n, S)) = 1
    BY <2>3, FS_Singleton
  <2>5. s \notin Claimed(n, S)
    <3>1. SUFFICES ASSUME NEW m \in 1..(n - 1), s \in Candidates(m, S)
                   PROVE  FALSE
      BY DEF Claimed
    <3>2. m \in Nodes /\ m # n
      BY NodesAssumption DEF Nodes
    <3> QED BY <2>1, <2>2, <3>1, <3>2
  <2> QED BY <2>1, <2>4, <2>5 DEF Unmatched
<1>4. ~Ambiguous(S)
  <2>1. SUFFICES ASSUME Unmatched(S) # {}
                 PROVE  Candidates(First(Unmatched(S)), S) = {}
    BY DEF Ambiguous
  <2>2. Unmatched(S) \in SUBSET Nodes
    BY DEF Unmatched
  <2>3. First(Unmatched(S)) \in Unmatched(S)
    BY <2>1, <2>2, FirstIsLeast
  <2> QED BY <1>3, <2>2, <2>3
<1> QED BY <1>2, <1>4 DEF Unexpected, ActionHostIssues

(* A step of process c refuses the deployment.                             *)
Refuses(c) == At(c, "refused")' /\ ~At(c, "refused")

Excused(c) ==
  /\ At(c, "role")
  /\ \/ cluster.started /\ ~me[c].started
     \/ me[c].token = "expired" /\ me[c].refreshed

LEMMA Where ==
  ASSUME DiscoveryInv, NEW c \in Clients, NEW r, Become(c, r)
  PROVE  me'[c] = r /\ (Refuses(c) => r.pc = "refused")
BY DEF Become, DiscoveryInv, ProcessesInv, Refuses, At

LEMMA ReconcileHealthy ==
  ASSUME DiscoveryInv, HealthyInv, NEW c \in Clients, me[c].pc \in Calling,
         ServiceKept, Matched(Snapshots), Reconcile(c, Snapshots)
  PROVE  HealthyInv' /\ ~Refuses(c)
<1> DEFINE S == Snapshots
           wrong == {n \in Nodes : Match(n, S).role # Role[n]}
           n == First(wrong)
           s == Match(n, S)
<1>1. /\ IsFiniteSet(S)
      /\ \A t \in S : \E h \in hosts :
           /\ t = Snapshot(h)
           /\ \A m \in Nodes : t \in Candidates(m, S) => h.machine = m
  BY SnapshotsTell DEF DiscoveryInv, HealthyInv, HealthyHosts
<1>2. ASSUME NEW m \in Nodes
      PROVE  \E h \in hosts : Match(m, S) = Snapshot(h) /\ h.machine = m
  BY <1>1, OneCandidate
<1>3. AllHere(hosts)
  BY <1>2 DEF AllHere
<1>4. Placed(me[c], hosts, cluster)
  BY DEF HealthyInv
<1>5. CASE wrong # {}
  <2>1. n \in Nodes /\ s.role # Role[n]
    BY <1>5, FirstIsLeast
  <2>2. PICK h \in hosts : s = Snapshot(h) /\ h.machine = n
    BY <1>2, <2>1
  <2>3. ~cluster.started
    <3>1. SUFFICES ASSUME cluster.started PROVE FALSE
      OBVIOUS
    <3>2. h.role # AutoAssign /\ ~h.renamed
      BY <3>1 DEF HealthyInv, HealthyHosts
    <3>3. h.role = Role[n]
      BY <2>2, <3>2 DEF DiscoveryInv, HostsInv, HostsFit, RoleFits
    <3>4. h.role \in {"master", "worker"}
      BY <2>1, <3>3, RoleAssumption
    <3>5. s.role = h.role
      BY <2>2, <3>4 DEF Snapshot, EnumOrUnknown, OpenShiftNodeRole
    <3> QED BY <2>1, <3>3, <3>5
  <2>4. s.status \in RoleMutableHostStatuses
    <3>1. h.status \in {"discovering", "insufficient", "known"}
      BY <2>3 DEF HealthyInv, HealthyHosts
    <3> QED BY <2>2, <3>1
            DEF Snapshot, EnumOrUnknown, HostStatus, RoleMutableHostStatuses
  <2> DEFINE r == [me[c] EXCEPT !.pc = "role", !.refreshed = FALSE,
                                !.host = s.id, !.node = n]
  <2>5. Become(c, r)
    BY <1>5, <2>4 DEF Reconcile
  <2>6. /\ r.pc = "role" /\ r.cluster = me[c].cluster
        /\ r.started = me[c].started /\ r.host = s.id
    BY Counted DEF Process
  <2>7. s.id = h.id
    BY <2>2 DEF Snapshot
  <2>8. Placed(r, hosts, cluster)
    BY <1>4, <2>3, <2>6, <2>7 DEF Placed
  <2> HIDE DEF r
  <2> QED BY <2>5, <2>6, <2>8, LooksHealthy, Where
<1>6. CASE wrong = {}
  <2> DEFINE r == [Fresh("done") EXCEPT !.cluster = me[c].cluster,
                                        !.api = ApiHost(S).id]
  <2>1. Become(c, r) \/ Goto(c, "cluster")
    BY <1>6 DEF Reconcile
  <2>2. r.pc = "done" /\ Placed(r, hosts, cluster)
    BY <1>3 DEF Placed, Fresh, Calling
  <2> HIDE DEF r
  <2>3. CASE Become(c, r)
    BY <2>2, <2>3, LooksHealthy, Where
  <2>4. CASE Goto(c, "cluster")
    <3>1. ~Refuses(c)
      BY <2>4, Where, Counted DEF Goto, Process
    <3> QED BY <2>4, <3>1, FailsHealthy
  <2> QED BY <2>1, <2>3, <2>4
<1> QED BY <1>5, <1>6

LEMMA LookAtHostsHealthy ==
  ASSUME DiscoveryInv, HealthyInv, NEW c \in Clients, LookAtHosts(c)
  PROVE  HealthyInv' /\ ~Refuses(c)
<1>1. ServiceKept /\ me[c].pc \in Calling
  BY DEF LookAtHosts, Authorized
<1>2. cluster.id = me[c].cluster
  BY <1>1 DEF HealthyInv, Placed
<1>3. \/ Matched(Snapshots) /\ Reconcile(c, Snapshots)
      \/ Goto(c, "cluster")
  BY <1>2, NoReason DEF LookAtHosts, Snapshots
<1>4. CASE Goto(c, "cluster")
  <2>1. ~Refuses(c)
    BY <1>4, Where, Counted DEF Goto, Process
  <2> QED BY <1>1, <1>4, <2>1, FailsHealthy
<1> QED BY <1>1, <1>3, <1>4, ReconcileHealthy

LEMMA LookAtClusterHealthy ==
  ASSUME DiscoveryInv, HealthyInv, NEW c \in Clients, LookAtCluster(c)
  PROVE  HealthyInv' /\ ~Refuses(c)
<1> DEFINE r == [me[c] EXCEPT !.pc = "hosts", !.refreshed = FALSE,
                              !.started = cluster.started]
<1>1. Placed(me[c], hosts, cluster) /\ me[c].pc \in Calling
  BY DEF HealthyInv, LookAtCluster, Authorized
<1>2. Become(c, r)
  BY <1>1 DEF HealthyInv, Placed, LookAtCluster, ActionClusterStatuses,
              UnsupportedClusterStatuses
<1>3. /\ r.pc = "hosts" /\ r.cluster = me[c].cluster
      /\ r.started = cluster.started
  BY Counted DEF Process
<1>4. Placed(r, hosts, cluster)
  BY <1>1, <1>3 DEF Placed
<1> HIDE DEF r
<1> QED BY <1>2, <1>3, <1>4, LooksHealthy, Where DEF LookAtCluster

(* A call that fails leaves a process idle, but a second 401 at a role.    *)
LEMMA InterruptionsHealthy ==
  ASSUME DiscoveryInv, HealthyInv, NEW c \in Clients,
         \/ ExchangeFails(c) \/ Rejected(c) \/ Unavailable(c)
         \/ TimeOut(c) \/ Kill(c)
  PROVE  HealthyInv' /\ (Refuses(c) => Excused(c))
<1>1. me[c].pc \in Calling /\ ServiceKept
  BY DEF ExchangeFails, NeedsToken, Rejected, Unavailable, Authorized,
         TimeOut, Kill, At, Calling
<1>2. \/ Fails(c, NoCode) \/ Fails(c, 401) \/ End(c, "idle")
  BY DEF ExchangeFails, Rejected, Unavailable, TimeOut, Kill
<1>3. Refuses(c) => Excused(c)
  <2>1. CASE At(c, "role") /\ Rejected(c)
    BY <2>1 DEF Rejected, Authorized, Excused
  <2>2. CASE ~(At(c, "role") /\ Rejected(c))
    <3>1. ~At(c, "role") \/ Fails(c, NoCode) \/ End(c, "idle")
      BY <2>2 DEF ExchangeFails, Unavailable, TimeOut, Kill
    <3>2. \/ Become(c, [me[c] EXCEPT !.pc = "cluster", !.refreshed = FALSE])
          \/ Become(c, Fresh("idle"))
      BY <1>2, <3>1 DEF Fails, End, NoCode, RefusedCodes
    <3>3. [me[c] EXCEPT !.pc = "cluster", !.refreshed = FALSE].pc = "cluster"
      BY Counted DEF Process
    <3>4. Fresh("idle").pc = "idle"
      BY DEF Fresh
    <3> QED BY <3>2, <3>3, <3>4, Where
  <2> QED BY <2>1, <2>2
<1>5. \/ \E code : Fails(c, code)
      \/ \E p \in {"idle", "refused"} : End(c, p)
  BY <1>2
<1> QED BY <1>1, <1>3, <1>5, FailsHealthy

LEMMA TokensHealthy ==
  ASSUME DiscoveryInv, HealthyInv, NEW c \in Clients, Exchange(c) \/ Expire(c)
  PROVE  HealthyInv' /\ ~Refuses(c)
<1>1. PICK r : /\ Become(c, r) /\ r.pc = me[c].pc
               /\ r.cluster = me[c].cluster /\ r.started = me[c].started
               /\ r.host = me[c].host
  <2> DEFINE Like(r) == /\ r.pc = me[c].pc /\ r.cluster = me[c].cluster
                        /\ r.started = me[c].started /\ r.host = me[c].host
  <2>1. CASE Exchange(c)
    <3> DEFINE r == [me[c] EXCEPT !.token = "valid",
                                  !.refreshed = me[c].token = "expired"]
    <3>1. Like(r)
      BY Counted DEF Process
    <3>2. Become(c, r)
      BY <2>1 DEF Exchange
    <3> QED BY <3>1, <3>2
  <2>2. CASE Expire(c)
    <3> DEFINE r == [me[c] EXCEPT !.token = "expired"]
    <3>1. Like(r)
      BY Counted DEF Process
    <3>2. Become(c, r)
      BY <2>2 DEF Expire
    <3> QED BY <3>1, <3>2
  <2> QED BY <2>1, <2>2
<1>2. Placed(me[c], hosts, cluster)
  BY DEF HealthyInv
<1>3. Placed(r, hosts, cluster)
  BY <1>1, <1>2 DEF Placed
<1>4. ServiceKept
  BY DEF Exchange, Expire
<1>5. ~Refuses(c)
  BY <1>1, Where DEF Refuses, At
<1> QED BY <1>1, <1>3, <1>4, <1>5, LooksHealthy

LEMMA LaunchHealthy ==
  ASSUME DiscoveryInv, HealthyInv, NEW c \in Clients, Launch(c)
  PROVE  HealthyInv' /\ ~Refuses(c)
<1> DEFINE r == [Fresh("cluster") EXCEPT !.cluster = cluster.id]
<1>1. /\ r.pc = "cluster" /\ r.cluster = cluster.id /\ ~r.started
  BY DEF Fresh
<1>2. Placed(r, hosts, cluster)
  BY <1>1 DEF Placed
<1>3. Become(c, r) /\ ServiceKept
  BY DEF Launch
<1> HIDE DEF r
<1> QED BY <1>1, <1>2, <1>3, LooksHealthy, Where

LEMMA AssignRoleHealthy ==
  ASSUME DiscoveryInv, HealthyInv, NEW c \in Clients, AssignRole(c)
  PROVE  HealthyInv' /\ (Refuses(c) => Excused(c))
<1> DEFINE target == {h \in hosts : h.id = me[c].host}
           settable == {h \in target : h.status \in RoleMutableHostStatuses}
           n == me[c].node
<1>1. /\ At(c, "role") /\ me[c].pc \in Calling /\ cluster' = cluster
      /\ UNCHANGED <<registered, trouble>>
  BY DEF AssignRole, Authorized
<1>2. ~me[c].started /\ target # {}
  BY <1>1 DEF HealthyInv, Placed, At
<1>3. CASE hosts' = hosts /\ target # settable /\ \E code : Fails(c, code)
  <2>1. ServiceKept
    BY <1>1, <1>3 DEF ServiceKept
  <2>2. cluster.started
    BY <1>3 DEF HealthyInv, HealthyHosts, RoleMutableHostStatuses
  <2>3. HealthyInv'
    BY <1>1, <1>3, <2>1, FailsHealthy
  <2> QED BY <1>1, <1>2, <2>2, <2>3 DEF Excused
<1>4. CASE /\ settable # {}
           /\ hosts' = (hosts \ settable) \cup
                {[h EXCEPT !.role = Role[n]] : h \in settable}
           /\ Goto(c, "cluster")
  <2>1. PICK h \in hosts : settable = {h}
    BY <1>4 DEF DiscoveryInv, HostsInv, HostsFit
  <2> DEFINE k == [h EXCEPT !.role = Role[n]]
  <2>2. hosts' = (hosts \ {h}) \cup {k}
    BY <1>4, <2>1
  <2>3. Role[n] # AutoAssign
    <3>1. n \in Nodes
      BY <1>1, Counted DEF Process, Knows, At
    <3> QED BY <3>1, RoleAssumption DEF AutoAssign
  <2>4. /\ k.id = h.id /\ k.machine = h.machine /\ k.status = h.status
        /\ k.renamed = h.renamed /\ k.role = Role[n]
    BY DEF DiscoveryInv, HostsInv, HostsFit, Host
  <2> HIDE DEF k, n
  <2>5. HealthyHosts(hosts', cluster) /\ Grows(hosts, hosts')
    <3>1. Grows(hosts, hosts')
      BY <2>2, <2>4 DEF Grows
    <3>2. AllHere(hosts) => AllHere(hosts')
      BY <3>1 DEF AllHere, Grows
    <3>3. HealthyHosts(hosts, cluster)
      BY DEF HealthyInv
    <3> QED BY <2>2, <2>3, <2>4, <3>1, <3>2, <3>3 DEF HealthyHosts
  <2>6. PICK r : Become(c, r) /\ \A H : Placed(r, H, cluster)
    BY <1>1, <1>4, FailsPlaced
  <2>7. HealthyInv'
    BY <1>1, <2>5, <2>6, ProcessHealthy
  <2>8. ~Refuses(c)
    BY <1>4, Where, Counted DEF Goto, Process
  <2> QED BY <2>7, <2>8
<1> QED BY <1>2, <1>3, <1>4 DEF AssignRole

(***************************************************************************)
(* The steps of the service.                                               *)
(***************************************************************************)
LEMMA ServiceHealthy ==
  ASSUME DiscoveryInv, HealthyInv, me' = me, Grows(hosts, hosts'),
         cluster'.id = cluster.id, cluster.started => cluster'.started,
         cluster'.status \in {"insufficient", "installing"},
         HealthyHosts(hosts', cluster')
  PROVE  HealthyInv'
<1>1. ASSUME NEW d \in Clients PROVE Placed(me[d], hosts', cluster')
  BY StillPlaced DEF HealthyInv
<1> QED BY <1>1 DEF HealthyInv

LEMMA InstallHealthy ==
  ASSUME DiscoveryInv, HealthyInv, NEW c \in Clients, Install(c)
  PROVE  HealthyInv'
<1>1. AllHere(hosts)
  BY DEF HealthyInv, Placed, Install, At
<1>2. /\ cluster'.id = cluster.id /\ cluster'.started
      /\ cluster'.status = "installing"
  BY DEF Install, DiscoveryInv, ClusterInv
<1>3. hosts' = hosts /\ me' = me
  BY DEF Install
<1>4. HealthyHosts(hosts', cluster')
  BY <1>1, <1>2, <1>3 DEF HealthyInv, HealthyHosts, Install
<1> QED BY <1>2, <1>3, <1>4, SameHosts, ServiceHealthy

LEMMA HostStepsHealthy ==
  ASSUME DiscoveryInv, HealthyInv, NEW h \in hosts,
         \/ Describe(h) \/ NameHost(h) \/ InstallHost(h)
         \/ Validate(h) \/ Invalidate(h)
  PROVE  HealthyInv'
<1>1. PICK k : /\ Changed(h, k)
               /\ k.id = h.id /\ k.machine = h.machine
               /\ k.role = h.role /\ k.renamed = h.renamed
               /\ \/ k.status = h.status
                  \/ k.status = "installing" /\ cluster.started
                  \/ /\ k.status = "insufficient" /\ ~cluster.started
                  \/ k.status = "known" /\ ~cluster.started
  <2> DEFINE Like(k) == /\ k.id = h.id /\ k.machine = h.machine
                        /\ k.role = h.role /\ k.renamed = h.renamed
  <2>1. h \in Host
    BY DEF DiscoveryInv, HostsInv, HostsFit
  <2>2. \A status : /\ Like([h EXCEPT !.status = status])
                    /\ [h EXCEPT !.status = status].status = status
    BY <2>1 DEF Host
  <2>3. cluster.started => h.status \in {"known", "installing"}
    BY DEF HealthyInv, HealthyHosts
  <2>4. CASE Describe(h)
    <3> DEFINE k == [h EXCEPT !.inventory = h.machine,
                              !.status = "insufficient"]
    <3>1. Like(k) /\ k.status = "insufficient"
      BY <2>1 DEF Host
    <3>2. Changed(h, k) /\ ~cluster.started
      BY <2>3, <2>4 DEF Describe
    <3> QED BY <3>1, <3>2
  <2>5. CASE NameHost(h)
    <3> DEFINE k == [h EXCEPT !.requested = h.machine]
    <3>1. Like(k) /\ k.status = h.status
      BY <2>1 DEF Host
    <3>2. Changed(h, k)
      BY <2>5 DEF NameHost
    <3> QED BY <3>1, <3>2
  <2>6. CASE InstallHost(h)
    <3>1. Changed(h, [h EXCEPT !.status = "installing"]) /\ cluster.started
      BY <2>6 DEF InstallHost
    <3> QED BY <2>2, <3>1
  <2>7. CASE Validate(h)
    <3>1. Changed(h, [h EXCEPT !.status = "known"]) /\ ~cluster.started
      BY <2>3, <2>7 DEF Validate
    <3> QED BY <2>2, <3>1
  <2>8. CASE Invalidate(h)
    <3>1. /\ Changed(h, [h EXCEPT !.status = "insufficient"])
          /\ ~cluster.started
      BY <2>8 DEF Invalidate
    <3> QED BY <2>2, <3>1
  <2> QED BY <2>4, <2>5, <2>6, <2>7, <2>8
<1>2. /\ hosts' = (hosts \ {h}) \cup {k}
      /\ UNCHANGED <<cluster, registered, me, trouble>>
  BY <1>1 DEF Changed
<1>3. Grows(hosts, hosts')
  BY <1>1, <1>2 DEF Grows
<1>4. AllHere(hosts) => AllHere(hosts')
  BY <1>3 DEF AllHere, Grows
<1>5. HealthyHosts(hosts, cluster)
  BY DEF HealthyInv
<1>6. /\ k.machine \in Nodes /\ ~k.renamed
      /\ cluster.started =>
           k.role # AutoAssign /\ k.status \in {"known", "installing"}
      /\ ~cluster.started =>
           k.status \in {"discovering", "insufficient", "known"}
  BY <1>1, <1>5 DEF HealthyHosts
<1>7. HealthyHosts(hosts', cluster')
  BY <1>1, <1>2, <1>4, <1>5, <1>6 DEF HealthyHosts
<1>8. cluster.status \in {"insufficient", "installing"}
  BY DEF HealthyInv
<1> QED BY <1>2, <1>3, <1>7, <1>8, ServiceHealthy

LEMMA RegisterHealthy ==
  ASSUME DiscoveryInv, HealthyInv, NEW n \in Nodes, Register(n)
  PROVE  HealthyInv'
<1>1. PICK k : /\ hosts' = hosts \cup {k}
               /\ k.machine = n /\ ~k.renamed /\ k.status = "discovering"
  <2>1. PICK raw \in {None, Uuid} : Registered(n, raw)
    BY DEF Register
  <2> DEFINE g == [id |-> registered + 1, machine |-> n, requested |-> raw,
                   inventory |-> None, status |-> "discovering",
                   role |-> AutoAssign, renamed |-> FALSE]
  <2>2. hosts' = hosts \cup {g}
    BY <2>1 DEF Registered
  <2>3. g.machine = n /\ ~g.renamed /\ g.status = "discovering"
    OBVIOUS
  <2> QED BY <2>2, <2>3
<1>2. UNCHANGED <<cluster, me>> /\ \A h \in hosts : h.machine # n
  BY DEF Register, Registered
<1>3. ~cluster.started
  BY <1>2 DEF HealthyInv, HealthyHosts, AllHere
<1>4. HealthyHosts(hosts', cluster')
  BY <1>1, <1>2, <1>3 DEF HealthyInv, HealthyHosts
<1>5. Grows(hosts, hosts')
  BY <1>1 DEF Grows
<1> QED BY <1>2, <1>4, <1>5, ServiceHealthy DEF HealthyInv

CalmInv == DiscoveryInv /\ (trouble = 0 => HealthyInv)

LEMMA InitHealthy == Init => CalmInv
<1> SUFFICES ASSUME Init PROVE HealthyInv
  BY InitFits DEF CalmInv
<1>1. HealthyHosts(hosts, cluster)
  BY DEF Init, HealthyHosts
<1>2. \A c \in Clients : Placed(me[c], hosts, cluster)
  BY DEF Init, Fresh, Placed, Calling
<1> QED BY <1>1, <1>2 DEF Init, HealthyInv

Refusals == \A c \in Clients : Refuses(c) => trouble > 0 \/ Excused(c)

LEMMA StepHealthy ==
  ASSUME DiscoveryInv, HealthyInv, [Next]_vars, trouble' = 0, trouble = 0
  PROVE  HealthyInv' /\ \A c \in Clients : Refuses(c) => Excused(c)
<1>1. ASSUME NEW c \in Clients, NEW r, Become(c, r)
      PROVE  \A d \in Clients \ {c} : ~Refuses(d)
  BY <1>1 DEF Become, DiscoveryInv, ProcessesInv, Refuses, At
<1>2. ASSUME NEW c \in Clients,
             \/ Step(c) \/ Launch(c) \/ TimeOut(c) \/ Kill(c)
             \/ ExchangeFails(c) \/ Unavailable(c) \/ Expire(c)
      PROVE  HealthyInv' /\ \A d \in Clients : Refuses(d) => Excused(d)
  <2>1. HealthyInv' /\ (Refuses(c) => Excused(c))
    BY <1>2, TokensHealthy, LookAtClusterHealthy, LookAtHostsHealthy,
       AssignRoleHealthy, InterruptionsHealthy, LaunchHealthy DEF Step
  <2>2. \E r : Become(c, r)
    BY <1>2
       DEF Step, Exchange, Rejected, LookAtCluster, LookAtHosts, Reconcile,
           AssignRole, Launch, TimeOut, Kill, ExchangeFails, Unavailable,
           Expire, Fails, Goto, End
  <2> QED BY <1>1, <2>1, <2>2
<1>3. ASSUME me' = me PROVE \A d \in Clients : ~Refuses(d)
  BY <1>3 DEF Refuses, At
<1>4. ASSUME NEW c \in Clients, Install(c)
      PROVE  HealthyInv' /\ me' = me
  BY <1>4, InstallHealthy DEF Install
<1>5. ASSUME NEW n \in Nodes, Register(n)
      PROVE  HealthyInv' /\ me' = me
  BY <1>5, RegisterHealthy DEF Register, Registered
<1>6. ASSUME NEW h \in hosts,
             \/ Describe(h) \/ NameHost(h) \/ InstallHost(h)
             \/ Validate(h) \/ Invalidate(h)
      PROVE  HealthyInv' /\ me' = me
  <2>1. me' = me
    BY <1>6 DEF Describe, NameHost, InstallHost, Validate, Invalidate, Changed
  <2> QED BY <1>6, <2>1, HostStepsHealthy
<1>7. ~Meddle
  BY DEF Meddle, Troubled
<1>8. CASE UNCHANGED vars
  <2>1. me' = me /\ cluster' = cluster /\ hosts' = hosts
    BY <1>8 DEF vars
  <2>2. HealthyInv'
    BY <2>1, SameHosts, ServiceHealthy DEF HealthyInv
  <2> QED BY <1>3, <2>1, <2>2
<1> QED BY <1>2, <1>3, <1>4, <1>5, <1>6, <1>7, <1>8 DEF Next

LEMMA NextHealthy == CalmInv /\ [Next]_vars => CalmInv' /\ Refusals
<1> SUFFICES ASSUME CalmInv, [Next]_vars PROVE CalmInv' /\ Refusals
  OBVIOUS
<1>1. DiscoveryInv /\ DiscoveryInv'
  BY EveryStepFits DEF CalmInv
<1>2. trouble \in Nat /\ (trouble' = trouble \/ trouble' = trouble + 1)
  <2>1. trouble \in Nat
    BY <1>1, BoundsAssumption DEF DiscoveryInv, ClusterInv
  <2>2. trouble' = trouble \/ trouble' = trouble + 1
    BY DEF Next, vars, Step, Launch, Exchange, Rejected, LookAtCluster,
           LookAtHosts, AssignRole, Install, TimeOut, Kill, ExchangeFails,
           Unavailable, Expire, ServiceKept, Register, Describe, NameHost,
           InstallHost, Validate, Invalidate, Changed, Meddle, Troubled
  <2> QED BY <2>1, <2>2
<1>3. CASE trouble = 0 /\ trouble' = 0
  BY <1>1, <1>3, StepHealthy DEF CalmInv, Refusals
<1>4. CASE trouble = 0 /\ trouble' = 1
  <2>1. Meddle
    <3>1. Next
      BY <1>4 DEF vars
    <3> QED BY <1>4, <3>1
            DEF Next, Step, Launch, Exchange, Rejected, LookAtCluster,
                LookAtHosts, AssignRole, Install, TimeOut, Kill,
                ExchangeFails, Unavailable, Expire, ServiceKept, Register,
                Describe, NameHost, InstallHost, Validate, Invalidate, Changed
  <2>2. me' = me
    BY <2>1 DEF Meddle, Registered
  <2> QED BY <1>1, <1>4, <2>2 DEF CalmInv, Refusals, Refuses, At
<1>5. CASE trouble > 0
  BY <1>1, <1>2, <1>5 DEF CalmInv, Refusals
<1> QED BY <1>2, <1>3, <1>4, <1>5

(* Nothing a lab does by itself, in whatever order, makes a deployment     *)
(* give up its discovery, but an installation that another one began, or a *)
(* token rejected twice at a role (_reconcile_hosts, _match_hosts, get).   *)
THEOREM HealthyLabsAccepted == Spec => HealthyNeverRefused
<1>1. Refusals =>
        [\A c \in Clients :
           At(c, "refused")' /\ ~At(c, "refused") =>
             \/ trouble > 0
             \/ At(c, "role") /\ cluster.started /\ ~me[c].started
             \/ At(c, "role") /\ me[c].token = "expired"
                  /\ me[c].refreshed]_vars
  BY DEF Refusals, Refuses, Excused
<1> QED BY <1>1, InitHealthy, NextHealthy, PTL DEF Spec, HealthyNeverRefused
=============================================================================
