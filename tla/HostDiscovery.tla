---------------------------- MODULE HostDiscovery ----------------------------
(***************************************************************************)
(* The hosts that register with the Assisted Installer, as deployments     *)
(* wait for them, match them to the nodes of the spec and give them their  *)
(* roles (_reconcile_hosts and _match_hosts of core/workflows.py,          *)
(* core/polling.py), through the calls of adapters/assisted: the           *)
(* conversion of names, roles and statuses and the life of the access      *)
(* token (transport.py).                                                   *)
(*                                                                         *)
(* Nodes are numbered in the order of the spec.  A host is the record the  *)
(* service keeps of a machine that booted the discovery ISO; its names     *)
(* arrive after it, the requested one possibly as its own UUID first.      *)
(*                                                                         *)
(* Simplifications: the calls of one look at the cluster, and those of one *)
(* look at the hosts of its one InfraEnv, are one call each; addresses are *)
(* left out, so that the network configuration of a single node is the     *)
(* host its address is taken from; a machine boots as one step.            *)
(***************************************************************************)
EXTENDS AirStatus, Integers, FiniteSets

CONSTANTS
  Clients,    \* processes of deployments of the lab
  NodeCount,  \* the nodes of the spec
  Role,       \* the role it gives each
  Strays,     \* other machines that may boot the ISO
  MaxHosts,   \* bound: hosts ever registered
  MaxForeign  \* bound: acts of other people

None == 0                             \* Python's None: no name
Uuid == -1                            \* a raw name that is the host's own id
                                      \* or @ and any UUID

Nodes == 1..NodeCount

ASSUME NodesAssumption == NodeCount \in Nat \ {0}
ASSUME RoleAssumption ==
  Role \in [Nodes -> {"master", "worker"}] /\ \E n \in Nodes : Role[n] = "master"
ASSUME StraysAssumption == \A m \in Strays : m \in Nat /\ m > NodeCount
ASSUME BoundsAssumption == MaxHosts \in Nat /\ MaxForeign \in Nat

Machines == Nodes \cup Strays
Masters == {n \in Nodes : Role[n] = "master"}
-----------------------------------------------------------------------------
(***************************************************************************)
(* core/contracts.py and core/polling.py: what a host may report.          *)
(***************************************************************************)
HostStatus ==
  {"discovering", "known", "ready", "disconnected", "pending-for-input",
   "insufficient", "installing", "installing-in-progress",
   "installing-pending-user-action", "resetting-pending-user-action",
   "unbinding-pending-user-action", "installed", "error", "cancelled",
   "unknown"}

OpenShiftNodeRole == {"master", "worker", "unknown"}

(* The statuses find_poll_issues reports as ACTION_REQUIRED.               *)
ActionHostIssues ==
  {"error", "cancelled", "installing-pending-user-action",
   "resetting-pending-user-action", "unbinding-pending-user-action"}

RoleMutableHostStatuses ==
  {"discovering", "known", "disconnected", "insufficient",
   "pending-for-input"}

Accepted(started) ==
  {"known", "ready"} \cup
    (IF started THEN {"installing", "installing-in-progress", "installed"}
     ELSE {})

(* A role assignment answered with one of these is refused, any other      *)
(* failure is tried again.                                                 *)
RefusedCodes == {400, 401, 403, 404, 422}
NoCode == 0
-----------------------------------------------------------------------------
VARIABLES
  cluster,    \* the lab's cluster
  hosts,      \* the hosts registered with it
  registered, \* how many ever were: the ids of hosts
  me,         \* place and locals of each process
  trouble     \* history: what happened that a healthy lab is spared

vars == <<cluster, hosts, registered, me, trouble>>

(* Raw values of the service: a status or role outside the enumerations.   *)
Unlisted == "preparing-for-installation"
AutoAssign == "auto-assign"

(* renamed is history: somebody has given this host another name.          *)
Host ==
  [id : 1..MaxHosts, machine : Machines,
   requested : Machines \cup {None, Uuid},
   inventory : Machines \cup {None},
   status : HostStatus \cup {Unlisted}, role : {AutoAssign, "master", "worker"},
   renamed : BOOLEAN]

Resting == {"idle", "refused", "done"}
Calling == {"cluster", "hosts", "role"}

Process ==
  [pc : Resting \cup Calling, cluster : Nat, started : BOOLEAN,
   token : {"none", "valid", "expired"}, refreshed : BOOLEAN,
   host : 0..MaxHosts, node : Nodes \cup {0}, api : 0..MaxHosts]

Fresh(p) ==
  [pc |-> p, cluster |-> 0, started |-> FALSE, token |-> "none",
   refreshed |-> FALSE, host |-> 0, node |-> 0, api |-> 0]

(* The variables have their types, no two hosts have one id, and a process *)
(* about to assign a role knows the host and the node (_reconcile_hosts).  *)
TypeOK ==
  /\ cluster \in [id : Nat \ {0}, status : ClusterStatus, started : BOOLEAN]
  /\ hosts \subseteq Host
  /\ registered \in 0..MaxHosts
  /\ \A h \in hosts : h.id <= registered
  /\ \A h, k \in hosts : h.id = k.id => h = k
  /\ me \in [Clients -> Process]
  /\ \A c \in Clients :
       me[c].pc = "role" => me[c].host # 0 /\ me[c].node # 0
  /\ trouble \in 0..MaxForeign

Init ==
  /\ cluster = [id |-> 1, status |-> "insufficient", started |-> FALSE]
  /\ hosts = {}
  /\ registered = 0
  /\ me = [c \in Clients |-> Fresh("idle")]
  /\ trouble = 0

At(c, p) == me[c].pc = p
Become(c, r) == me' = [me EXCEPT ![c] = r]
End(c, p) == Become(c, Fresh(p))
ServiceKept == UNCHANGED <<cluster, hosts, registered, trouble>>
-----------------------------------------------------------------------------
(***************************************************************************)
(* adapters/assisted/mapping.py: what a process makes of a host.           *)
(***************************************************************************)
RequestedHostnameRaw(raw) == raw      \* mutated: any name is a name
RequestedHostname(raw) == IF raw = Uuid THEN None ELSE raw

EnumOrUnknown(enum, raw) == IF raw \in enum THEN raw ELSE "unknown"

Snapshot(h) ==
  [id |-> h.id, requested |-> RequestedHostname(h.requested),
   inventory |-> h.inventory, status |-> EnumOrUnknown(HostStatus, h.status),
   role |-> EnumOrUnknown(OpenShiftNodeRole, h.role)]

Name(s) == IF s.requested # None THEN s.requested ELSE s.inventory

(***************************************************************************)
(* _match_hosts.  S is the list of hosts, which the code reads in no order *)
(* that matters; the nodes are taken in theirs, and the first that is not  *)
(* matched decides.                                                        *)
(***************************************************************************)
Unexpected(S) ==
  \E s \in S : s.status = "unknown" \/ Name(s) \notin Nodes \cup {None}

CandidatesRequested(n, S) == {s \in S : s.requested = n}
                                      \* mutated: no fall back
Candidates(n, S) ==
  LET requested == {s \in S : s.requested = n}
  IN IF requested # {} THEN requested ELSE {s \in S : s.inventory = n}

Claimed(n, S) == UNION {Candidates(m, S) : m \in 1..(n - 1)}

Unmatched(S) ==
  {n \in Nodes : \/ Cardinality(Candidates(n, S)) # 1
                 \/ Candidates(n, S) \subseteq Claimed(n, S)}

First(N) == CHOOSE n \in N : \A k \in N : n <= k

Ambiguous(S) ==
  Unmatched(S) # {} /\ Candidates(First(Unmatched(S)), S) # {}

Matched(S) == Unmatched(S) = {} /\ Cardinality(S) = Cardinality(Nodes)

MatchInOrder(n, S) ==                 \* mutated: by order of discovery
  CHOOSE s \in S : Cardinality({t \in S : t.id <= s.id}) = n
Match(n, S) == CHOOSE s \in S : s \in Candidates(n, S)

(* _cluster_network_config for a single node: the host whose address is    *)
(* the API's.                                                              *)
ApiHostFirst(S) == Match(1, S)        \* mutated: the first host's
ApiHost(S) ==
  Match(First({n \in Nodes : Name(Match(n, S)) \in Masters}), S)
-----------------------------------------------------------------------------
(***************************************************************************)
(* AssistedApiTransport: a process exchanges its offline token at its      *)
(* first call and once more in every call answered 401.  A failure ends    *)
(* the deployment; that of a role assignment refuses it or is repeated.    *)
(***************************************************************************)
Authorized(c) == me[c].pc \in Calling /\ me[c].token = "valid"

NeedsToken(c) ==
  /\ me[c].pc \in Calling
  /\ me[c].token = "none" \/ (me[c].token = "expired" /\ ~me[c].refreshed)

FailsAtOnce(c, code) ==               \* mutated: the change is repeated blindly
  IF At(c, "role") /\ code \notin RefusedCodes
    THEN Become(c, [Fresh("role") EXCEPT !.token = me[c].token])
    ELSE End(c, IF At(c, "role") THEN "refused" ELSE "idle")
Fails(c, code) ==
  IF At(c, "role") /\ code \notin RefusedCodes
    THEN Become(c, [me[c] EXCEPT !.pc = "cluster", !.refreshed = FALSE])
    ELSE End(c, IF At(c, "role") THEN "refused" ELSE "idle")

Exchange(c) ==
  /\ NeedsToken(c)
  /\ Become(c, [me[c] EXCEPT !.token = "valid",
                             !.refreshed = me[c].token = "expired"])
  /\ ServiceKept

ExchangeFails(c) == NeedsToken(c) /\ Fails(c, NoCode) /\ ServiceKept

(* The second answer of 401.                                               *)
Rejected(c) ==
  /\ me[c].pc \in Calling /\ me[c].token = "expired" /\ me[c].refreshed
  /\ Fails(c, 401)
  /\ ServiceKept

Unavailable(c) == Authorized(c) /\ Fails(c, NoCode) /\ ServiceKept

Expire(c) ==
  /\ me[c].token = "valid"
  /\ Become(c, [me[c] EXCEPT !.token = "expired"])
  /\ ServiceKept
-----------------------------------------------------------------------------
(***************************************************************************)
(* _reconcile_hosts.                                                       *)
(***************************************************************************)
Launch(c) ==
  /\ me[c].pc \in Resting
  /\ Become(c, [Fresh("cluster") EXCEPT !.cluster = cluster.id])
  /\ ServiceKept

Goto(c, p) == Become(c, [me[c] EXCEPT !.pc = p, !.refreshed = FALSE])

LookAtCluster(c) ==
  /\ At(c, "cluster") /\ Authorized(c)
  /\ IF \/ cluster.id # me[c].cluster
        \/ cluster.status \in ActionClusterStatuses
        \/ cluster.status \in UnsupportedClusterStatuses
       THEN End(c, "refused")
       ELSE Become(c, [me[c] EXCEPT !.pc = "hosts", !.refreshed = FALSE,
                                    !.started = cluster.started])
  /\ ServiceKept

(* All hosts are in place: one role is changed, or discovery is over.      *)
Reconcile(c, S) ==
  LET wrong == {n \in Nodes : Match(n, S).role # Role[n]}
      n == First(wrong)
      s == Match(n, S)
  IN IF wrong # {}
       THEN IF s.status \notin RoleMutableHostStatuses
              THEN End(c, "refused")
              ELSE Become(c, [me[c] EXCEPT !.pc = "role", !.refreshed = FALSE,
                                           !.host = s.id, !.node = n])
       ELSE IF \A k \in Nodes : Match(k, S).status \in Accepted(me[c].started)
              THEN Become(c, [Fresh("done") EXCEPT !.cluster = me[c].cluster,
                                                   !.api = ApiHost(S).id])
              ELSE Goto(c, "cluster")

LookAtHosts(c) ==
  /\ At(c, "hosts") /\ Authorized(c)
  /\ LET S == IF cluster.id = me[c].cluster THEN {Snapshot(h) : h \in hosts}
              ELSE {}
     IN IF \/ \E s \in S : s.status \in ActionHostIssues
           \/ Unexpected(S) \/ Ambiguous(S)
          THEN End(c, "refused")
          ELSE IF Matched(S) THEN Reconcile(c, S) ELSE Goto(c, "cluster")
  /\ ServiceKept

(* update_host_role.  The answer to a change that was made may be lost,    *)
(* which looks like the next turn of the loop.                             *)
AssignRole(c) ==
  /\ At(c, "role") /\ Authorized(c)
  /\ LET target == {h \in hosts : h.id = me[c].host}
         settable == {h \in target : h.status \in RoleMutableHostStatuses}
     IN \/ target = {} /\ Fails(c, 404) /\ UNCHANGED hosts
        \/ /\ target # settable
           /\ \E code \in {400, 409} : Fails(c, code)
           /\ UNCHANGED hosts
        \/ /\ settable # {}
           /\ hosts' = (hosts \ settable) \cup
                {[h EXCEPT !.role = Role[me[c].node]] : h \in settable}
           /\ Goto(c, "cluster")
  /\ UNCHANGED <<cluster, registered, trouble>>

(* A look finds the deadline passed, or the process is stopped.            *)
TimeOut(c) == At(c, "cluster") /\ End(c, "idle") /\ ServiceKept

Kill(c) == me[c].pc \in Calling /\ End(c, "idle") /\ ServiceKept

(* The rest of a deployment, as far as hosts notice it (start_installation *)
(* when the service finds the cluster ready).                              *)
Install(c) ==
  /\ At(c, "done") /\ cluster.id = me[c].cluster /\ ~cluster.started
  /\ cluster.status \notin ActionClusterStatuses \cup UnsupportedClusterStatuses
  /\ \A h \in hosts : h.status = "known" /\ h.role # AutoAssign
  /\ cluster' = [cluster EXCEPT !.status = "installing", !.started = TRUE]
  /\ UNCHANGED <<hosts, registered, me, trouble>>
-----------------------------------------------------------------------------
(***************************************************************************)
(* The service and its hosts.  What a healthy lab does: machines register, *)
(* their names arrive, validations pass and fail, hosts are installed.     *)
(***************************************************************************)
Changed(h, k) ==
  /\ hosts' = (hosts \ {h}) \cup {k}
  /\ UNCHANGED <<cluster, registered, me, trouble>>

Registered(m, raw) ==
  /\ registered < MaxHosts
  /\ registered' = registered + 1
  /\ hosts' = hosts \cup
       {[id |-> registered + 1, machine |-> m, requested |-> raw,
         inventory |-> None, status |-> "discovering", role |-> AutoAssign,
         renamed |-> FALSE]}
  /\ UNCHANGED <<cluster, me>>

Register(m) ==
  /\ \A h \in hosts : h.machine # m
  /\ \E raw \in {None, Uuid} : Registered(m, raw)
  /\ UNCHANGED trouble

Describe(h) ==
  /\ h.inventory = None /\ h.status = "discovering"
  /\ Changed(h, [h EXCEPT !.inventory = h.machine, !.status = "insufficient"])

NameHost(h) ==
  /\ h.inventory # None /\ h.requested \in {None, Uuid}
  /\ Changed(h, [h EXCEPT !.requested = h.machine])

Validate(h) ==
  /\ h.status = "insufficient"
  /\ Changed(h, [h EXCEPT !.status = "known"])

Invalidate(h) ==
  /\ h.status = "known" /\ ~cluster.started
  /\ Changed(h, [h EXCEPT !.status = "insufficient"])

InstallHost(h) ==
  /\ cluster.started
  /\ h.status \in {"known", Unlisted}
  /\ Changed(h, [h EXCEPT !.status = "installing"])

(* ... and what it does not: other machines boot the ISO, a machine made   *)
(* again registers again, hosts are renamed or removed, the cluster fails  *)
(* or is replaced, an installation fails, a status is none of those known. *)
Troubled == trouble < MaxForeign /\ trouble' = trouble + 1

Meddle ==
  /\ Troubled
  /\ \/ \E m \in Machines :
          /\ m \in Strays \/ \E h \in hosts : h.machine = m
          /\ Registered(m, None)
     \/ /\ \E h \in hosts, name \in Machines :
             hosts' = (hosts \ {h}) \cup
                        {[h EXCEPT !.requested = name, !.renamed = TRUE]}
        /\ UNCHANGED <<cluster, registered, me>>
     \/ /\ \E h \in hosts : hosts' = hosts \ {h}
        /\ UNCHANGED <<cluster, registered, me>>
     \/ /\ \E h \in hosts :
             /\ cluster.started /\ h.status \in {"known", "installing"}
             /\ \E status \in {Unlisted, "error"} :
                  hosts' = (hosts \ {h}) \cup {[h EXCEPT !.status = status]}
        /\ UNCHANGED <<cluster, registered, me>>
     \/ /\ \E status \in {"cancelled", "unmonitored"} :
             cluster' = [cluster EXCEPT !.status = status]
        /\ UNCHANGED <<hosts, registered, me>>
     \/ /\ cluster' = [id |-> cluster.id + 1, status |-> "insufficient",
                       started |-> FALSE]
        /\ hosts' = {}
        /\ UNCHANGED <<registered, me>>

Step(c) ==
  \/ Exchange(c) \/ Rejected(c)
  \/ LookAtCluster(c) \/ LookAtHosts(c) \/ AssignRole(c)

Disturbed(c) == Kill(c) \/ ExchangeFails(c) \/ Unavailable(c) \/ Rejected(c)

Next ==
  \/ \E c \in Clients :
       \/ Launch(c) \/ Step(c) \/ Install(c) \/ TimeOut(c)
       \/ Kill(c) \/ ExchangeFails(c) \/ Unavailable(c) \/ Expire(c)
  \/ \E n \in Nodes : Register(n)
  \/ \E h \in hosts :
       \/ Describe(h) \/ NameHost(h) \/ InstallHost(h)
       \/ Validate(h) \/ Invalidate(h)
  \/ Meddle

Spec == Init /\ [][Next]_vars

(***************************************************************************)
(* Deployments go on and are given again; machines register, are described *)
(* and validated in the end.  Nothing obliges the service to put a name in *)
(* the place of a UUID, or a token to live longer than one call.           *)
(***************************************************************************)
Fairness ==
  /\ \A c \in Clients : WF_vars(Step(c)) /\ WF_vars(Launch(c))
  /\ \A n \in Nodes : WF_vars(Register(n))
  /\ WF_vars(\E h \in hosts : Describe(h))
  /\ WF_vars(\E h \in hosts : Validate(h))
  /\ WF_vars(\E h \in hosts : InstallHost(h))

FairSpec == Spec /\ Fairness
-----------------------------------------------------------------------------
(***************************************************************************)
(* A role is never given to the wrong machine: not on the strength of a    *)
(* UUID, of the order in which hosts registered, of a name somebody else's *)
(* host has, of an answer that is out of date; not to a machine that is    *)
(* not of the spec, whatever happens to the others.  Only a host that      *)
(* itself was renamed gets the role of its new name (_match_hosts).        *)
(***************************************************************************)
RolesFollowMachines ==
  \A h \in hosts :
    h.role # AutoAssign /\ ~h.renamed =>
      h.machine \in Nodes /\ h.role = Role[h.machine]

(***************************************************************************)
(* The address a single-node deployment gives to the API, found by name a  *)
(* second time, is that of a host with the control-plane role              *)
(* (_cluster_network_config).                                              *)
(***************************************************************************)
ApiOnControlPlane ==
  \A c \in Clients, h \in hosts :
    At(c, "done") /\ h.id = me[c].api /\ ~h.renamed => h.role = "master"

(***************************************************************************)
(* None of the many errors of discovery stops the deployment of a healthy  *)
(* lab, in whatever order its hosts register and get their names and       *)
(* whenever tokens expire; unless another deployment has the cluster       *)
(* installed between this one's look and its role assignment, or that is   *)
(* answered 401 with a new token as well, which the code takes for good.   *)
(***************************************************************************)
HealthyNeverRefused ==
  [][\A c \in Clients :
       At(c, "refused")' /\ ~At(c, "refused") =>
         \/ trouble > 0
         \/ At(c, "role") /\ cluster.started /\ ~me[c].started
         \/ At(c, "role") /\ me[c].token = "expired" /\ me[c].refreshed]_vars

(* From some time on nothing interrupts and no validation is taken back.   *)
(* TimeOut is the step Kill is, and so excluded too: time is not counted,  *)
(* and a deadline that may pass at any look could pass at every one.       *)
Calm ==
  <>[][~((\E c \in Clients : Disturbed(c)) \/ (\E h \in hosts : Invalidate(h)))
      ]_vars

(***************************************************************************)
(* Deployments of a healthy lab get past discovery, during and after its   *)
(* installation too, though its hosts may keep UUIDs for names and every   *)
(* token may expire after one call (docs/lifecycle.md, safe reruns).       *)
(***************************************************************************)
DiscoveryCompletes ==
  Calm /\ [](trouble = 0) => \A c \in Clients : []<>At(c, "done")
=============================================================================
