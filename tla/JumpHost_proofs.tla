--------------------------- MODULE JumpHost_proofs ---------------------------
(***************************************************************************)
(* Proofs about JumpHost, for any number of processes, any commands and    *)
(* networks, and any number of boots and services; and about the sessions  *)
(* of AccessSessions beside it.                                            *)
(***************************************************************************)
EXTENDS AccessSessions, FiniteSetTheorems, TLAPS

Prepared == {"readHosts", "emptyHosts", "fillHosts"}
Ended == {"idle", "killed", "ready"}

(* What holds of a process with place and locals m, when the node is n:    *)
(* its command is one that gets there, and past the probe the node accepts *)
(* the key.                                                                *)
Fits(m, n) ==
  /\ m \in Process
  /\ m.pc \in Connecting \cup {"resolved"} => m.address # 0
  /\ m.pc \in Resting <=> m.cmd = "none"
  /\ m.pc \in {"resolve", "createService", "probe", "rotate"} \cup Prepared
       => m.cmd = "deploy"
  /\ m.pc \in {"find", "tcp"} => m.cmd = "access"
  /\ m.pc \in Prepared => n.key /\ ~n.expired

Simulation == [up : BOOLEAN, wanted : BOOLEAN, boot : 0..MaxBoots]
Services == [id : Nat, address : 0..MaxBoots, listed : BOOLEAN]
Node == [expired : BOOLEAN, key : BOOLEAN, own : BOOLEAN,
         net : Networks \cup {0}]
Histories == [raced : BOOLEAN, lost : BOOLEAN, cut : BOOLEAN]

BaseInv ==
  /\ sim \in Simulation
  /\ services \subseteq Services /\ IsFiniteSet(services)
  /\ node \in Node
  /\ hist \in Histories
  /\ me \in [Clients -> Process]
  /\ \A c \in Clients : Fits(me[c], node)

Deploys(c) == me[c].cmd = "deploy"

(* At most one deployment runs, unless two have overlapped.                *)
Single == hist.raced \/ \A c, d \in Clients : Deploys(c) /\ Deploys(d) => c = d

(* The lines that are not ours are on the node or with the process that    *)
(* writes the file.                                                        *)
LinesHeld ==
  \/ hist.raced \/ hist.cut
  \/ /\ \A c \in Clients : me[c].pc \in {"emptyHosts", "fillHosts"} => me[c].own
     /\ node.own \/ \E c \in Clients :
                      me[c].pc \in {"emptyHosts", "fillHosts"}

(* There is at most one service.  If it is not listed, the deployment that *)
(* created it runs; and none is about to create another.                   *)
ServiceHeld ==
  \/ hist.raced \/ hist.lost
  \/ /\ \A s, t \in services : s = t
     /\ \A s \in services :
          s.listed \/ \E c \in Clients : Deploys(c) /\ me[c].created = s.id
     /\ \A c \in Clients : At(c, "createService") => services = {}

HostInv == BaseInv /\ Single /\ LinesHeld /\ ServiceHeld
-----------------------------------------------------------------------------
(* What is taken over when a process moves.                                *)
Improves(n, old) == /\ n \in Node
                    /\ old.key => n.key
                    /\ ~old.expired => ~n.expired

LEMMA FreshFits ==
  ASSUME NEW p \in Ended, NEW n
  PROVE  Fits(Fresh(p), n) /\ Fresh(p).cmd = "none"
<1>1. 0 \in 0..MaxBoots
  BY BoundsAssumption
<1> QED BY <1>1
        DEF Fits, Fresh, Process, Places, Ended, Resting, Connecting, Prepared

LEMMA ProcessesFit ==
  ASSUME BaseInv, Improves(node', node), NEW c \in Clients, NEW r,
         me' = [me EXCEPT ![c] = r], Fits(r, node')
  PROVE  me' \in [Clients -> Process] /\ \A d \in Clients : Fits(me'[d], node')
<1>1. me' \in [Clients -> Process]
  BY DEF BaseInv, Fits
<1>2. ASSUME NEW d \in Clients PROVE Fits(me'[d], node')
  <2>1. CASE d = c
    BY <2>1 DEF BaseInv
  <2>2. CASE d # c
    <3>1. me'[d] = me[d] /\ Fits(me[d], node)
      BY <2>2 DEF BaseInv
    <3> QED BY <3>1 DEF Fits, Improves
  <2> QED BY <2>1, <2>2
<1> QED BY <1>1, <1>2

LEMMA Becomes ==
  ASSUME BaseInv, NEW c \in Clients, NEW r, Become(c, r), Fits(r, node'),
         Improves(node', node), sim' \in Simulation,
         services' \subseteq Services, IsFiniteSet(services')
  PROVE  BaseInv'
BY ProcessesFit DEF Ended, BaseInv, Become, Improves

LEMMA Ends ==
  ASSUME BaseInv, NEW c \in Clients, NEW p \in Ended, End(c, p),
         Improves(node', node), sim' \in Simulation,
         services' \subseteq Services, IsFiniteSet(services')
  PROVE  BaseInv'
<1>1. Fits(Fresh(p), node')
  BY FreshFits
<1>2. hist' \in Histories
  BY DEF BaseInv, End, Histories
<1> QED BY <1>1, <1>2, ProcessesFit DEF BaseInv, End, Improves

(* A process that goes on keeps its locals.                                *)
LEMMA GoesOn ==
  ASSUME BaseInv, NEW c \in Clients, NEW p \in Places, NEW n
  PROVE  LET r == [me[c] EXCEPT !.pc = p]
         IN  r \in Process /\ r.pc = p /\ r.cmd = me[c].cmd
                           /\ r.address = me[c].address
BY DEF BaseInv, Process

LEMMA Looks ==
  ASSUME BaseInv, LooksOnly
  PROVE  /\ Improves(node', node) /\ sim' \in Simulation
         /\ services' \subseteq Services /\ IsFiniteSet(services')
         /\ UNCHANGED <<sim, services, node>>
BY DEF BaseInv, LooksOnly, Improves
-----------------------------------------------------------------------------
LEMMA InitBase == Init => BaseInv
<1> SUFFICES ASSUME Init PROVE BaseInv
  OBVIOUS
<1>1. sim \in Simulation /\ node \in Node /\ hist \in Histories
  BY BoundsAssumption DEF Init, Simulation, Node, Histories
<1>2. services \subseteq Services /\ IsFiniteSet(services)
  BY FS_EmptySet DEF Init
<1>3. \A c \in Clients : me[c] = Fresh("idle") /\ Fits(me[c], node)
  BY FreshFits DEF Ended, Init, Resting
<1>4. me \in [Clients -> Process]
  BY <1>3 DEF Init, Fits
<1> QED BY <1>1, <1>2, <1>3, <1>4 DEF BaseInv
-----------------------------------------------------------------------------
(***************************************************************************)
(* Every step of a process keeps BaseInv.                                  *)
(***************************************************************************)
LEMMA LaunchBase ==
  ASSUME BaseInv, NEW c \in Clients, Launch(c) PROVE BaseInv'
<1>1. PICK cmd \in Commands[c], net \in Networks :
        /\ me' = [me EXCEPT ![c] =
             [Fresh("look") EXCEPT !.cmd = cmd,
                                   !.net = IF cmd = "deploy" THEN net ELSE 0]]
        /\ hist' = [hist EXCEPT !.raced = @ \/
             (cmd = "deploy" /\ \E d \in Clients \ {c} : me[d].cmd = "deploy")]
  BY DEF Launch
<1> DEFINE r == [Fresh("look") EXCEPT !.cmd = cmd,
                                   !.net = IF cmd = "deploy" THEN net ELSE 0]
<1>2. cmd \in {"deploy", "access"}
  BY CommandsAssumption
<1>3. Fits(r, node')
  <2>1. 0 \in 0..MaxBoots
    BY BoundsAssumption
  <2> QED BY <1>2, <2>1
          DEF Fits, Fresh, Process, Places, Resting, Connecting, Prepared
<1>4. hist' \in Histories
  BY <1>1 DEF BaseInv, Histories
<1>5. /\ Improves(node', node) /\ sim' \in Simulation
      /\ services' \subseteq Services /\ IsFiniteSet(services')
  BY Looks DEF Launch
<1>6. me' \in [Clients -> Process] /\ \A d \in Clients : Fits(me'[d], node')
  <2>1. me' = [me EXCEPT ![c] = r]
    BY <1>1
  <2> HIDE DEF r
  <2> QED BY <1>3, <1>5, <2>1, ProcessesFit
<1> QED BY <1>4, <1>5, <1>6 DEF BaseInv, Improves

(* A process that goes to p has what it takes to be there.                 *)
LEMMA Goes ==
  ASSUME BaseInv, NEW c \in Clients, NEW p \in Places \ Resting, Goto(c, p),
         me[c].pc \notin Resting,
         p \in Connecting => me[c].address # 0,
         p \in {"resolve", "createService", "probe", "rotate"} \cup Prepared
           => Deploys(c),
         p \in {"find", "tcp"} => me[c].cmd = "access",
         p \in Prepared => node'.key /\ ~node'.expired,
         Improves(node', node), sim' \in Simulation,
         services' \subseteq Services, IsFiniteSet(services')
  PROVE  BaseInv'
<1> DEFINE r == [me[c] EXCEPT !.pc = p]
<1>1. /\ r \in Process /\ r.pc = p /\ r.cmd = me[c].cmd
      /\ r.address = me[c].address
  BY GoesOn
<1>2. r.cmd # "none"
  BY <1>1 DEF BaseInv, Fits
<1>3. Become(c, r)
  BY DEF Goto
<1> HIDE DEF r
<1>4. Fits(r, node')
  BY <1>1, <1>2 DEF Fits, Deploys, Resting
<1> QED BY <1>3, <1>4, Becomes

LEMMA LookBase ==
  ASSUME BaseInv, NEW c \in Clients, Look(c) PROVE BaseInv'
<1>1. /\ Improves(node', node) /\ services' \subseteq Services
      /\ IsFiniteSet(services') /\ UNCHANGED <<services, node>>
  BY DEF Look, BaseInv, Improves
<1>2. me[c].pc \notin Resting
  BY DEF Look, At, Resting
<1>3. me[c].cmd \in {"deploy", "access"}
  BY <1>2 DEF BaseInv, Fits, Process
<1>4. CASE Goto(c, AfterWaking(c)) /\ UNCHANGED sim
  <2>1. /\ AfterWaking(c) \in (Places \ Resting) \ Connecting
        /\ AfterWaking(c) \in {"resolve", "createService", "probe", "rotate"}
                               \cup Prepared => Deploys(c)
        /\ AfterWaking(c) = "find" => me[c].cmd = "access"
        /\ AfterWaking(c) # "tcp"
    BY <1>3 DEF AfterWaking, Places, Resting, Connecting, Prepared, Deploys
  <2> HIDE DEF AfterWaking
  <2>2. AfterWaking(c) \notin Prepared
    BY <2>1 DEF Prepared, Connecting
  <2>3. sim' \in Simulation
    BY <1>4 DEF BaseInv
  <2> QED BY <1>1, <1>2, <1>4, <2>1, <2>2, <2>3, Goes
<1>5. CASE Goto(c, "waking") /\ sim' = [sim EXCEPT !.wanted = TRUE]
  <2>1. sim' \in Simulation
    BY <1>5 DEF BaseInv, Simulation
  <2> QED BY <1>1, <1>2, <1>5, <2>1, Goes
          DEF Places, Resting, Connecting, Prepared
<1>6. CASE End(c, "idle") /\ UNCHANGED sim
  <2>1. sim' \in Simulation /\ "idle" \in Ended
    BY <1>6 DEF BaseInv, Ended
  <2> QED BY <1>1, <1>6, <2>1, Ends
<1> QED BY <1>4, <1>5, <1>6 DEF Look

LEMMA WokenBase ==
  ASSUME BaseInv, NEW c \in Clients, Woken(c) PROVE BaseInv'
<1>1. me[c].pc \notin Resting
  BY DEF Woken, At, Resting
<1>2. me[c].cmd \in {"deploy", "access"}
  BY <1>1 DEF BaseInv, Fits, Process
<1>3. /\ AfterWaking(c) \in (Places \ Resting) \ Connecting
      /\ AfterWaking(c) \in {"resolve", "createService", "probe", "rotate"}
                             \cup Prepared => Deploys(c)
      /\ AfterWaking(c) \in {"find", "tcp"} => me[c].cmd = "access"
      /\ AfterWaking(c) \notin Prepared
  BY <1>2 DEF AfterWaking, Places, Resting, Connecting, Prepared, Deploys
<1> QED BY <1>1, <1>3, Looks, Goes DEF Woken

(* An address of a listed service, or of the one created.                  *)
LEMMA ServiceAddress ==
  ASSUME BaseInv, NEW s \in services
  PROVE  s.address \in 0..MaxBoots /\ s.id \in Nat
BY DEF BaseInv, Services

LEMMA ConnectsTo ==
  ASSUME BaseInv, NEW c \in Clients, NEW p \in {"probe", "tcp"},
         NEW s \in services, s.address # 0,
         Become(c, [me[c] EXCEPT !.pc = p, !.address = s.address]),
         me[c].pc \notin Resting, p = "probe" => Deploys(c),
         p = "tcp" => me[c].cmd = "access", LooksOnly
  PROVE  BaseInv'
<1> DEFINE r == [me[c] EXCEPT !.pc = p, !.address = s.address]
<1>1. /\ r \in Process /\ r.pc = p /\ r.cmd = me[c].cmd
      /\ r.address # 0
  BY ServiceAddress DEF BaseInv, Process, Places, Connecting
<1>2. Fits(r, node')
  BY <1>1 DEF BaseInv, Fits, Resting, Connecting, Prepared, Deploys
<1> HIDE DEF r
<1>3. Become(c, r)
  BY DEF r
<1> QED BY <1>2, <1>3, Looks, Becomes

LEMMA ResolveBase ==
  ASSUME BaseInv, NEW c \in Clients, Resolve(c) PROVE BaseInv'
<1>1. me[c].pc \notin Resting /\ Deploys(c)
  BY DEF Resolve, At, Resting, BaseInv, Fits, Deploys
<1>2. CASE Goto(c, "createService")
  BY <1>1, <1>2, Looks, Goes
     DEF Resolve, Places, Resting, Connecting, Prepared
<1>3. CASE \E s \in Candidates(c) :
             /\ s.address # 0
             /\ Become(c, [me[c] EXCEPT !.pc = "probe", !.address = s.address])
  <2>1. Candidates(c) \subseteq services
    BY DEF Candidates, Listed, Mine
  <2> QED BY <1>1, <1>3, <2>1, ConnectsTo DEF Resolve
<1> QED BY <1>2, <1>3 DEF Resolve

LEMMA CreateServiceBase ==
  ASSUME BaseInv, NEW c \in Clients, CreateService(c) PROVE BaseInv'
<1> DEFINE id == Cardinality(services) + 1
           new == [id |-> id, address |-> 0, listed |-> FALSE]
           r == [me[c] EXCEPT !.pc = "resolve", !.created = id]
<1>1. id \in Nat
  BY FS_CardinalityType DEF BaseInv
<1>2. services' = services \cup {new} /\ Become(c, r)
  BY DEF CreateService
<1>3. r \in Process /\ r.pc = "resolve" /\ r.cmd = me[c].cmd
  BY <1>1 DEF BaseInv, Process, Places
<1>4. Deploys(c)
  BY DEF CreateService, At, BaseInv, Fits, Deploys
<1>5. Fits(r, node')
  BY <1>3, <1>4 DEF Fits, Deploys, Resting, Connecting, Prepared
<1>6. services' \subseteq Services
  <2> HIDE DEF id
  <2>1. new \in Services
    BY <1>1, BoundsAssumption DEF Services
  <2> HIDE DEF new
  <2> QED BY <1>2, <2>1 DEF BaseInv
<1>7. IsFiniteSet(services')
  BY <1>2, FS_AddElement DEF BaseInv
<1>8. Improves(node', node) /\ sim' \in Simulation
  BY DEF CreateService, BaseInv, Improves
<1> HIDE DEF r, new
<1> QED BY <1>2, <1>5, <1>6, <1>7, <1>8, Becomes

LEMMA ProbeBase ==
  ASSUME BaseInv, NEW c \in Clients, Probe(c) PROVE BaseInv'
<1>1. me[c].pc \notin Resting /\ Deploys(c) /\ me[c].address # 0
  BY DEF Probe, At, Resting, Connecting, BaseInv, Fits, Deploys
<1>2. CASE node.key /\ ~node.expired
  <2>1. Goto(c, "readHosts") /\ node'.key /\ ~node'.expired
    BY <1>2 DEF Probe, LooksOnly
  <2> QED BY <1>1, <2>1, Looks, Goes DEF Probe, Places, Resting, Connecting
<1>3. CASE ~(node.key /\ ~node.expired)
  BY <1>1, <1>3, Looks, Goes
     DEF Probe, Places, Resting, Connecting, Prepared
<1> QED BY <1>2, <1>3

LEMMA RotatePasswordBase ==
  ASSUME BaseInv, NEW c \in Clients, RotatePassword(c) PROVE BaseInv'
<1>1. me[c].pc \notin Resting /\ Deploys(c) /\ me[c].address # 0
  BY DEF RotatePassword, At, Resting, Connecting, BaseInv, Fits, Deploys
<1>2. /\ Improves(node', node) /\ sim' \in Simulation
      /\ services' \subseteq Services /\ IsFiniteSet(services')
  BY DEF RotatePassword, BaseInv, Improves, Node
<1>3. CASE Goto(c, "probe")
  BY <1>1, <1>2, <1>3, Goes DEF Places, Resting, Connecting, Prepared
<1>4. CASE End(c, "idle")
  BY <1>2, <1>4, Ends DEF Ended, Resting
<1> QED BY <1>3, <1>4 DEF RotatePassword

LEMMA ReadHostsBase ==
  ASSUME BaseInv, NEW c \in Clients, ReadHosts(c) PROVE BaseInv'
<1>1. CASE End(c, "idle") \/ End(c, "ready")
  BY <1>1, Looks, Ends DEF Ended, ReadHosts, Resting
<1>2. CASE Become(c, [me[c] EXCEPT !.pc = "emptyHosts", !.own = node.own])
  <2> DEFINE r == [me[c] EXCEPT !.pc = "emptyHosts", !.own = node.own]
  <2>1. /\ r \in Process /\ r.pc = "emptyHosts" /\ r.cmd = me[c].cmd
        /\ r.address = me[c].address
    BY DEF BaseInv, Process, Node, Places, Connecting
  <2>2. Fits(me[c], node) /\ me[c].pc = "readHosts" /\ node' = node
    BY DEF BaseInv, ReadHosts, At, LooksOnly
  <2> HIDE DEF r
  <2>3. Fits(r, node')
    BY <2>1, <2>2 DEF Fits, Resting, Connecting, Prepared
  <2>4. Become(c, r)
    BY <1>2 DEF r
  <2> QED BY <2>3, <2>4, Looks, Becomes DEF ReadHosts
<1> QED BY <1>1, <1>2 DEF ReadHosts

LEMMA EmptyHostsBase ==
  ASSUME BaseInv, NEW c \in Clients, EmptyHosts(c) PROVE BaseInv'
<1>1. /\ Improves(node', node) /\ sim' \in Simulation
      /\ services' \subseteq Services /\ IsFiniteSet(services')
      /\ node'.key = node.key /\ node'.expired = node.expired
  BY DEF EmptyHosts, BaseInv, Improves, Node
<1>2. /\ me[c].pc \notin Resting /\ Deploys(c) /\ me[c].address # 0
      /\ node'.key /\ ~node'.expired /\ Goto(c, "fillHosts")
  BY <1>1 DEF EmptyHosts, At, Resting, Connecting, Prepared, BaseInv, Fits,
              Deploys
<1> QED BY <1>1, <1>2, Goes DEF Places, Resting, Connecting

LEMMA FillHostsBase ==
  ASSUME BaseInv, NEW c \in Clients, FillHosts(c) PROVE BaseInv'
<1>1. /\ Improves(node', node) /\ sim' \in Simulation
      /\ services' \subseteq Services /\ IsFiniteSet(services')
  BY DEF FillHosts, Merged, BaseInv, Improves, Node, Process
<1> QED BY <1>1, Ends DEF Ended, FillHosts, Resting

LEMMA TeeFailsBase ==
  ASSUME BaseInv, NEW c \in Clients, TeeFails(c) PROVE BaseInv'
<1>1. CASE End(c, "idle")
  BY <1>1, Looks, Ends DEF Ended, TeeFails
<1>2. CASE Become(c, [me[c] EXCEPT !.pc = "emptyHosts", !.plain = TRUE])
  <2> DEFINE r == [me[c] EXCEPT !.pc = "emptyHosts", !.plain = TRUE]
  <2>1. /\ r \in Process /\ r.pc = "emptyHosts" /\ r.cmd = me[c].cmd
        /\ r.address = me[c].address
    BY DEF BaseInv, Process, Places, Connecting
  <2>2. /\ Fits(me[c], node) /\ me[c].pc \in {"emptyHosts", "fillHosts"}
        /\ node' = node
    BY DEF BaseInv, TeeFails, LooksOnly
  <2> HIDE DEF r
  <2>3. Fits(r, node')
    BY <2>1, <2>2 DEF Fits, Resting, Connecting, Prepared
  <2>4. Become(c, r)
    BY <1>2 DEF r
  <2> QED BY <2>3, <2>4, Looks, Becomes DEF TeeFails
<1> QED BY <1>1, <1>2 DEF TeeFails

LEMMA FindBase ==
  ASSUME BaseInv, NEW c \in Clients, Find(c) PROVE BaseInv'
<1>1. me[c].pc \notin Resting /\ me[c].cmd = "access"
  BY DEF Find, At, Resting, BaseInv, Fits
<1>2. CASE End(c, "idle")
  BY <1>2, Looks, Ends DEF Ended, Find, Resting
<1>3. CASE \E s \in Listed :
             /\ s.address # 0
             /\ Become(c, [me[c] EXCEPT !.pc = "tcp", !.address = s.address])
  BY <1>1, <1>3, ConnectsTo DEF Find, Listed
<1> QED BY <1>2, <1>3 DEF Find

LEMMA TestEndpointBase ==
  ASSUME BaseInv, NEW c \in Clients, TestEndpoint(c) PROVE BaseInv'
<1>1. CASE Become(c, [Fresh("resolved") EXCEPT !.address = me[c].address])
  <2> DEFINE r == [Fresh("resolved") EXCEPT !.address = me[c].address]
  <2>1. me[c] \in Process /\ me[c].address # 0
    BY DEF TestEndpoint, At, BaseInv, Fits, Connecting
  <2>2. r \in Process /\ r.pc = "resolved" /\ r.cmd = "none" /\ r.address # 0
    BY <2>1 DEF Fresh, Process, Places, Resting
  <2>3. Fits(r, node')
    BY <2>2 DEF Fits, Resting, Connecting, Prepared
  <2> HIDE DEF r
  <2>4. Become(c, r)
    BY <1>1 DEF r
  <2> QED BY <2>3, <2>4, Looks, Becomes DEF TestEndpoint
<1>2. CASE Goto(c, NextTry)
  <2>1. me[c].pc \notin Resting /\ me[c].cmd = "access"
    BY DEF TestEndpoint, At, Resting, BaseInv, Fits
  <2> QED BY <1>2, <2>1, Looks, Goes
          DEF TestEndpoint, NextTry, Places, Resting, Connecting, Prepared
<1> QED BY <1>1, <1>2 DEF TestEndpoint

LEMMA StopBase ==
  ASSUME BaseInv, NEW c \in Clients, TimeOut(c) \/ Kill(c) PROVE BaseInv'
BY Looks, Ends DEF Ended, TimeOut, Kill, Resting

LEMMA StepBase ==
  ASSUME BaseInv, NEW c \in Clients, Step(c) \/ TeeFails(c) PROVE BaseInv'
BY LookBase, WokenBase, ResolveBase, CreateServiceBase, ProbeBase,
   RotatePasswordBase, ReadHostsBase, EmptyHostsBase, FillHostsBase,
   TeeFailsBase, FindBase, TestEndpointBase
   DEF Step

(* Air's steps leave the processes alone.                                  *)
LEMMA AirBase ==
  ASSUME BaseInv,
         \/ Boot \/ ShutDown \/ InjectKey
         \/ \E s \in services : Forward(s) \/ List(s)
  PROVE  BaseInv'
<1>1. UNCHANGED <<me, hist>>
  BY DEF Boot, ShutDown, InjectKey, Forward, List
<1>2. sim' \in Simulation
  <2>1. CASE Boot
    <3>1. sim.boot + 1 \in 0..MaxBoots
      BY <2>1, BoundsAssumption DEF BaseInv, Simulation, Boot
    <3> QED BY <2>1, <3>1 DEF Simulation, Boot
  <2>2. CASE ShutDown
    BY <2>2 DEF BaseInv, Simulation, ShutDown
  <2>3. CASE UNCHANGED sim
    BY <2>3 DEF BaseInv
  <2> QED BY <2>1, <2>2, <2>3 DEF InjectKey, Forward, List
<1>3. Improves(node', node)
  BY DEF BaseInv, Improves, Node, Boot, ShutDown, InjectKey, Forward, List
<1>4. services' \subseteq Services /\ IsFiniteSet(services')
  <2>1. CASE UNCHANGED services
    BY <2>1 DEF BaseInv
  <2>2. CASE \E s \in services : Forward(s) \/ List(s)
    <3>1. PICK s \in services, t \in Services :
            services' = (services \ {s}) \cup {t}
      BY <2>2 DEF BaseInv, Simulation, Services, Forward, List
    <3>2. IsFiniteSet(services \ {s})
      BY FS_RemoveElement DEF BaseInv
    <3> QED BY <3>1, <3>2, FS_AddElement DEF BaseInv
  <2> QED BY <2>1, <2>2 DEF Boot, ShutDown, InjectKey
<1>5. \A c \in Clients : Fits(me'[c], node')
  BY <1>1, <1>3 DEF BaseInv, Improves, Fits
<1> QED BY <1>1, <1>2, <1>3, <1>4, <1>5 DEF BaseInv, Improves

LEMMA NextBase == BaseInv /\ [Next]_vars => BaseInv'
<1> SUFFICES ASSUME BaseInv, [Next]_vars PROVE BaseInv'
  OBVIOUS
<1>1. CASE UNCHANGED vars
  BY <1>1 DEF vars, BaseInv
<1> QED BY <1>1, LaunchBase, StepBase, StopBase, AirBase DEF Next
-----------------------------------------------------------------------------
(* How a process moves, and that no other one does.                        *)
Alone(c) == \A d \in Clients \ {c} : me'[d] = me[d]

LEMMA EndMoves ==
  ASSUME BaseInv, NEW c \in Clients, NEW p, End(c, p)
  PROVE  /\ Alone(c) /\ me'[c].pc = p /\ me'[c].cmd = "none"
         /\ hist'.raced = hist.raced
         /\ hist'.lost <=> hist.lost \/ \E s \in Mine(c) : ~s.listed
         /\ hist'.cut <=> hist.cut \/ (HoldsLines(c) /\ p # "ready")
<1>1. Alone(c) /\ me'[c] = Fresh(p)
  BY DEF End, Alone, BaseInv
<1>2. Fresh(p).pc = p /\ Fresh(p).cmd = "none"
  BY DEF Fresh
<1>3. /\ hist'.raced = hist.raced
      /\ hist'.lost <=> hist.lost \/ \E s \in Mine(c) : ~s.listed
      /\ hist'.cut <=> hist.cut \/ (HoldsLines(c) /\ p # "ready")
  BY DEF End, BaseInv, Histories
<1> QED BY <1>1, <1>2, <1>3

LEMMA GotoMoves ==
  ASSUME BaseInv, NEW c \in Clients, NEW p, Goto(c, p)
  PROVE  /\ Alone(c) /\ hist' = hist /\ me'[c].pc = p
         /\ me'[c].cmd = me[c].cmd /\ me'[c].created = me[c].created
         /\ me'[c].own = me[c].own
BY DEF Goto, Become, Alone, BaseInv, Process

(* A process keeps its command or ends.  The places the proofs are about   *)
(* have one way in, and only a creation changes what was created.          *)
Moves(c) ==
  /\ Alone(c) /\ hist'.raced = hist.raced
  /\ me'[c].cmd = "none" \/ me'[c].cmd = me[c].cmd
  /\ me'[c].pc = "ready" => At(c, "readHosts") \/ At(c, "fillHosts")
  /\ me'[c].pc = "emptyHosts" =>
       me[c].pc \in {"readHosts", "emptyHosts", "fillHosts"}
  /\ me'[c].pc = "fillHosts" => At(c, "emptyHosts")
  /\ me'[c].pc = "createService" => At(c, "resolve")

Marked == {"ready", "emptyHosts", "fillHosts", "createService"}

LEMMA MovesByEnd ==
  ASSUME BaseInv, NEW c \in Clients, NEW p \in Ended, End(c, p),
         p = "ready" => At(c, "readHosts") \/ At(c, "fillHosts")
  PROVE  Moves(c)
BY EndMoves DEF Moves, Ended

LEMMA MovesByGoto ==
  ASSUME BaseInv, NEW c \in Clients, NEW p \in Places \ Marked, Goto(c, p)
  PROVE  Moves(c)
BY GotoMoves DEF Moves, Marked

LEMMA StepsMove ==
  ASSUME BaseInv, NEW c \in Clients,
         Step(c) \/ TeeFails(c) \/ TimeOut(c) \/ Kill(c)
  PROVE  Moves(c)
<1> USE DEF Places, Ended, Resting, Connecting, Marked
<1>1. CASE Look(c) \/ Woken(c)
  BY <1>1, MovesByEnd, MovesByGoto DEF Ended, Look, Woken, AfterWaking
<1>2. CASE Resolve(c)
  <2>1. CASE Goto(c, "createService")
    <3>1. At(c, "resolve")
      BY <1>2 DEF Resolve
    <3> QED BY <2>1, <3>1, GotoMoves DEF Moves
  <2>2. CASE \E s \in Candidates(c) :
          Become(c, [me[c] EXCEPT !.pc = "probe", !.address = s.address])
    BY <2>2 DEF Become, Moves, Alone, BaseInv, Process
  <2> QED BY <1>2, <2>1, <2>2 DEF Resolve
<1>3. CASE CreateService(c)
  BY <1>3 DEF CreateService, Become, Moves, Alone, BaseInv, Process
<1>4. CASE Probe(c) \/ RotatePassword(c)
  BY <1>4, MovesByEnd, MovesByGoto DEF Ended, Probe, RotatePassword
<1>5. CASE ReadHosts(c)
  <2>1. CASE End(c, "idle") \/ End(c, "ready")
    BY <1>5, <2>1, MovesByEnd DEF Ended, ReadHosts
  <2>2. CASE Become(c, [me[c] EXCEPT !.pc = "emptyHosts", !.own = node.own])
    <3>1. /\ Alone(c) /\ hist' = hist /\ me'[c].pc = "emptyHosts"
          /\ me'[c].cmd = me[c].cmd
      BY <2>2 DEF Become, Alone, BaseInv, Process
    <3>2. me[c].pc = "readHosts"
      BY <1>5 DEF ReadHosts, At
    <3> QED BY <3>1, <3>2 DEF Moves
  <2> QED BY <1>5, <2>1, <2>2 DEF ReadHosts
<1>6. CASE EmptyHosts(c)
  BY <1>6, GotoMoves DEF Moves, EmptyHosts
<1>7. CASE FillHosts(c)
  BY <1>7, MovesByEnd DEF Ended, FillHosts
<1>8. CASE Find(c)
  <2>1. CASE End(c, "idle")
    BY <2>1, MovesByEnd
  <2>2. CASE \E s \in Listed :
          Become(c, [me[c] EXCEPT !.pc = "tcp", !.address = s.address])
    BY <2>2 DEF Become, Moves, Alone, BaseInv, Process
  <2> QED BY <1>8, <2>1, <2>2 DEF Find
<1>9. CASE TestEndpoint(c)
  <2>1. CASE Become(c, [Fresh("resolved") EXCEPT !.address = me[c].address])
    BY <2>1 DEF Become, Moves, Alone, BaseInv, Fresh
  <2>2. CASE Goto(c, NextTry)
    BY <2>2, MovesByGoto DEF NextTry
  <2> QED BY <1>9, <2>1, <2>2 DEF TestEndpoint
<1>10. CASE TimeOut(c) \/ Kill(c)
  BY <1>10, MovesByEnd DEF Ended, TimeOut, Kill
<1>11. CASE TeeFails(c)
  <2>1. CASE End(c, "idle")
    BY <2>1, MovesByEnd DEF Ended
  <2>2. CASE Become(c, [me[c] EXCEPT !.pc = "emptyHosts", !.plain = TRUE])
    BY <1>11, <2>2 DEF TeeFails, Become, Moves, Alone, BaseInv, Process
  <2> QED BY <1>11, <2>1, <2>2 DEF TeeFails
<1> QED BY <1>1, <1>2, <1>3, <1>4, <1>5, <1>6, <1>7, <1>8, <1>9, <1>10,
           <1>11 DEF Step
-----------------------------------------------------------------------------
(***************************************************************************)
(* TypeOK, and what a deployment that goes on has checked.                 *)
(***************************************************************************)
LEMMA BaseAlways == Spec => []BaseInv
BY InitBase, NextBase, PTL DEF Spec

THEOREM TypeCorrect == Spec => []TypeOK
<1>1. BaseInv => TypeOK
  BY DEF BaseInv, TypeOK, Fits, Simulation, Services, Node, Histories
<1> QED BY <1>1, BaseAlways, PTL

(* The node accepts the key, and its names are those of process c.         *)
Ready(c) == /\ node'.key /\ ~node'.expired
            /\ node'.net = me[c].net

LEMMA BecomesReady ==
  ASSUME BaseInv, Next, NEW c \in Clients, ~At(c, "ready"), At(c, "ready")'
  PROVE  Ready(c)
<1>1. ASSUME NEW d \in Clients, ReadHosts(d) PROVE Ready(c)
  <2>1. CASE d = c /\ Current(c)
    BY <1>1, <2>1 DEF ReadHosts, Current, Ready, LooksOnly, BaseInv, Fits,
                      Prepared, At
  <2>2. CASE d # c
    BY <1>1, <2>2 DEF ReadHosts, End, Become, At, BaseInv
  <2>3. CASE d = c /\ ~Current(c)
    <3>1. CASE End(c, "idle")
      BY <3>1 DEF End, At, Fresh, BaseInv
    <3>2. CASE Become(c, [me[c] EXCEPT !.pc = "emptyHosts", !.own = node.own])
      BY <3>2 DEF Become, At, BaseInv, Process
    <3> QED BY <1>1, <2>3, <3>1, <3>2 DEF ReadHosts
  <2> QED BY <2>1, <2>2, <2>3
<1>2. ASSUME NEW d \in Clients, FillHosts(d) PROVE Ready(c)
  <2>1. CASE d # c
    BY <1>2, <2>1 DEF FillHosts, End, At, Fresh, BaseInv
  <2>2. CASE d = c /\ node' = Merged(c)
    <3>1. node.key /\ ~node.expired
      BY <1>2, <2>2 DEF FillHosts, At, BaseInv, Fits, Prepared
    <3> QED BY <2>2, <3>1 DEF Merged, Ready, BaseInv, Node
  <2> QED BY <1>2, <2>1, <2>2 DEF FillHosts
<1>3. ASSUME NEW d \in Clients,
             \/ Launch(d) \/ TimeOut(d) \/ Kill(d) \/ TeeFails(d)
             \/ Look(d) \/ Woken(d) \/ Resolve(d) \/ CreateService(d)
             \/ Probe(d) \/ RotatePassword(d) \/ EmptyHosts(d)
             \/ Find(d) \/ TestEndpoint(d)
      PROVE  FALSE
  <2>1. CASE Launch(d)
    BY <2>1 DEF Launch, Fresh, At, BaseInv
  <2>2. CASE TimeOut(d) \/ Kill(d)
    <3>1. End(d, "idle") \/ End(d, "killed")
      BY <2>2 DEF TimeOut, Kill
    <3> QED BY <3>1, EndMoves DEF Alone, At
  <2>3. CASE TeeFails(d)
    <3>1. CASE End(d, "idle")
      BY <3>1, EndMoves DEF Alone, At
    <3>2. CASE Become(d, [me[d] EXCEPT !.pc = "emptyHosts", !.plain = TRUE])
      BY <3>2 DEF Become, At, BaseInv, Process
    <3> QED BY <2>3, <3>1, <3>2 DEF TeeFails
  <2>4. CASE ~Launch(d) /\ ~TimeOut(d) /\ ~Kill(d) /\ ~TeeFails(d)
    <3>1. ~At(d, "readHosts") /\ ~At(d, "fillHosts")
      BY <1>3, <2>4
         DEF Look, Woken, Resolve, CreateService, Probe,
             RotatePassword, EmptyHosts, Find, TestEndpoint, At
    <3> QED BY <1>3, <2>4, <3>1, StepsMove DEF Step, Moves, Alone, At
  <2> QED BY <2>1, <2>2, <2>3, <2>4
<1>4. ASSUME UNCHANGED me PROVE FALSE
  BY <1>4 DEF At
<1> QED BY <1>1, <1>2, <1>3, <1>4
        DEF Next, Step, Boot, ShutDown, InjectKey, Forward, List

THEOREM HandedOnReady == Spec => ReadyMeansReady
<1>1. BaseInv /\ [Next]_vars =>
        [\A c \in Clients :
           ~At(c, "ready") /\ At(c, "ready")' =>
             /\ node'.key /\ ~node'.expired
             /\ node'.net = me[c].net]_vars
  BY BecomesReady DEF Ready
<1> QED BY <1>1, BaseAlways, PTL DEF Spec, ReadyMeansReady
-----------------------------------------------------------------------------
(***************************************************************************)
(* OthersLinesKept and OneService, as long as deployments do not overlap.  *)
(***************************************************************************)
LaunchMoves(c) ==
  /\ Alone(c) /\ me[c].pc \in Resting /\ me'[c].pc = "look"
  /\ hist'.lost = hist.lost /\ hist'.cut = hist.cut
  /\ hist'.raced <=>
       hist.raced \/ (Deploys(c)' /\ \E d \in Clients \ {c} : Deploys(d))

LEMMA LaunchesMove ==
  ASSUME BaseInv, NEW c \in Clients, Launch(c) PROVE LaunchMoves(c)
<1>1. PICK cmd, net :
        /\ me' = [me EXCEPT ![c] =
             [Fresh("look") EXCEPT !.cmd = cmd,
                                   !.net = IF cmd = "deploy" THEN net ELSE 0]]
        /\ hist' = [hist EXCEPT !.raced = @ \/
             (cmd = "deploy" /\ \E d \in Clients \ {c} : me[d].cmd = "deploy")]
  BY DEF Launch
<1>2. Alone(c) /\ me'[c].pc = "look" /\ me'[c].cmd = cmd
  BY <1>1 DEF Alone, Fresh, BaseInv
<1>3. /\ hist'.lost = hist.lost /\ hist'.cut = hist.cut
      /\ hist'.raced <=> hist.raced \/
           (cmd = "deploy" /\ \E d \in Clients \ {c} : me[d].cmd = "deploy")
  BY <1>1 DEF BaseInv, Histories
<1> QED BY <1>2, <1>3 DEF Launch, LaunchMoves, Deploys

AirSteps == \/ Boot \/ ShutDown \/ InjectKey
            \/ \E s \in services : Forward(s) \/ List(s)

LEMMA NextCases ==
  ASSUME [Next]_vars
  PROVE  \/ UNCHANGED vars \/ AirSteps
         \/ \E c \in Clients :
              Launch(c) \/ Step(c) \/ TeeFails(c) \/ TimeOut(c) \/ Kill(c)
BY DEF Next, AirSteps

LEMMA SingleKept ==
  ASSUME BaseInv, Single, [Next]_vars PROVE Single'
<1>1. CASE UNCHANGED <<me, hist>>
  BY <1>1 DEF Single, Deploys
<1>2. ASSUME NEW c \in Clients, Launch(c) PROVE Single'
  BY <1>2, LaunchesMove DEF LaunchMoves, Alone, Single, Deploys
<1>3. ASSUME NEW c \in Clients,
             Step(c) \/ TeeFails(c) \/ TimeOut(c) \/ Kill(c)
      PROVE  Single'
  <2>1. Moves(c)
    BY <1>3, StepsMove
  <2> QED BY <2>1 DEF Moves, Alone, Single, Deploys
<1>4. vars' = vars \/ AirSteps => UNCHANGED <<me, hist>>
  BY DEF vars, AirSteps, Boot, ShutDown, InjectKey, Forward, List
<1> QED BY <1>1, <1>2, <1>3, <1>4, NextCases

(* A step that moves neither to a place where the file is written nor away *)
(* from one keeps the lines.                                               *)
Writing(c) == me[c].pc \in {"emptyHosts", "fillHosts"}

LEMMA LinesStay ==
  ASSUME LinesHeld, NEW c \in Clients, Alone(c), ~Writing(c)',
         ~Writing(c) \/ node.own, node'.own = node.own,
         hist.raced => hist'.raced, hist.cut => hist'.cut
  PROVE  LinesHeld'
BY DEF LinesHeld, Alone, Writing

(* A process that ends without having finished its write.                  *)
LEMMA LinesInEnd ==
  ASSUME BaseInv, LinesHeld, NEW c \in Clients, NEW p \in {"idle", "killed"},
         End(c, p), node' = node
  PROVE  LinesHeld'
<1>1. /\ Alone(c) /\ ~Writing(c)' /\ hist'.raced = hist.raced
      /\ hist'.cut <=> hist.cut \/ HoldsLines(c)
  BY EndMoves DEF Writing
<1>2. CASE hist.raced \/ hist.cut \/ HoldsLines(c)
  BY <1>1, <1>2 DEF LinesHeld
<1>3. CASE ~hist.raced /\ ~hist.cut /\ ~HoldsLines(c)
  <2>1. ~Writing(c) \/ node.own
    BY <1>3 DEF LinesHeld, HoldsLines, Writing
  <2> QED BY <1>1, <2>1, LinesStay
<1> QED BY <1>2, <1>3

(* The only process that deploys.                                          *)
LEMMA OnlyDeployer ==
  ASSUME BaseInv, Single, ~hist.raced, NEW c \in Clients, Deploys(c),
         NEW d \in Clients, d # c
  PROVE  ~Deploys(d) /\ ~Writing(d) /\ ~At(d, "createService")
BY DEF BaseInv, Fits, Single, Deploys, Writing, At, Prepared

LEMMA LinesInStep ==
  ASSUME BaseInv, Single, LinesHeld, NEW c \in Clients,
         Step(c) \/ TeeFails(c)
  PROVE  LinesHeld'
<1>1. Moves(c)
  BY StepsMove
<1>2. SUFFICES ASSUME ~hist.raced, ~hist.cut, ~hist'.cut PROVE LinesHeld'
  <2>1. CASE hist.raced
    BY <1>1, <2>1 DEF Moves, LinesHeld
  <2>2. hist.cut => hist'.cut
    BY DEF Step, Look, Woken, Resolve, CreateService, Probe, RotatePassword,
           ReadHosts, EmptyHosts, FillHosts, TeeFails, Find, TestEndpoint,
           Become, Goto, End, BaseInv, Histories
  <2> QED BY <2>1, <2>2 DEF LinesHeld
<1>3. CASE ReadHosts(c)
  <2>1. Deploys(c) /\ node' = node /\ ~Writing(c)
    BY <1>3 DEF ReadHosts, At, BaseInv, Fits, Prepared, Deploys, LooksOnly,
                Writing
  <2>2. node.own
    BY <1>2, <2>1, OnlyDeployer DEF LinesHeld, Writing, At
  <2>3. me'[c].pc = "emptyHosts" => me'[c].own
    <3>1. CASE End(c, "idle") \/ End(c, "ready")
      BY <3>1, EndMoves
    <3>2. CASE Become(c, [me[c] EXCEPT !.pc = "emptyHosts", !.own = node.own])
      BY <2>2, <3>2 DEF Become, BaseInv, Process
    <3> QED BY <1>3, <3>1, <3>2 DEF ReadHosts
  <2>4. ~At(c, "fillHosts")' /\ ~At(c, "emptyHosts")
    BY <1>1, <1>3 DEF Moves, ReadHosts, At
  <2>5. \A d \in Clients \ {c} : ~Writing(d)'
    BY <1>1, <1>2, <2>1, OnlyDeployer DEF Moves, Alone, Writing
  <2> QED BY <2>1, <2>2, <2>3, <2>4, <2>5 DEF LinesHeld, Writing, At
<1>4. CASE EmptyHosts(c)
  <2>1. Deploys(c) /\ me[c].own
    BY <1>2, <1>4
       DEF EmptyHosts, At, BaseInv, Fits, Prepared, Deploys, LinesHeld
  <2>2. \A d \in Clients \ {c} : ~Writing(d)'
    BY <1>1, <1>2, <2>1, OnlyDeployer DEF Moves, Alone, Writing
  <2>3. me'[c].own /\ me'[c].pc = "fillHosts"
    BY <1>4, <2>1, GotoMoves DEF EmptyHosts
  <2> QED BY <2>2, <2>3 DEF LinesHeld, Writing
<1>5. CASE FillHosts(c)
  <2>1. Deploys(c) /\ me[c].own
    BY <1>2, <1>5
       DEF FillHosts, At, BaseInv, Fits, Prepared, Deploys, LinesHeld
  <2>2. \A d \in Clients \ {c} : ~Writing(d)'
    BY <1>1, <1>2, <2>1, OnlyDeployer DEF Moves, Alone, Writing
  <2>3. ~Writing(c)'
    BY <1>5, EndMoves DEF FillHosts, Writing
  <2>4. node'.own
    BY <1>5, <2>1 DEF FillHosts, Merged, BaseInv, Node
  <2> QED BY <2>2, <2>3, <2>4 DEF LinesHeld, Writing
<1>6. CASE TeeFails(c)
  <2>1. node' = node
    BY <1>6 DEF TeeFails, LooksOnly
  <2>2. CASE End(c, "idle")
    BY <2>1, <2>2, LinesInEnd
  <2>3. CASE Become(c, [me[c] EXCEPT !.pc = "emptyHosts", !.plain = TRUE])
    <3>1. /\ me'[c].pc = "emptyHosts" /\ me'[c].own = me[c].own
          /\ me[c].pc \in {"emptyHosts", "fillHosts"}
      BY <1>6, <2>3 DEF TeeFails, Become, BaseInv, Process
    <3> QED BY <1>1, <1>2, <2>1, <3>1 DEF LinesHeld, Moves, Alone
  <2> QED BY <1>6, <2>2, <2>3 DEF TeeFails
<1>7. CASE ~ReadHosts(c) /\ ~EmptyHosts(c) /\ ~FillHosts(c) /\ ~TeeFails(c)
  <2>1. ~Writing(c)' /\ ~Writing(c)
    BY <1>1, <1>7 DEF Moves, Step, Look, Woken, Resolve, CreateService, Probe,
                      RotatePassword, Find, TestEndpoint, Writing, At
  <2>2. node'.own = node.own
    BY <1>7 DEF Step, Look, Woken, Resolve, CreateService, Probe,
                RotatePassword, Find, TestEndpoint, LooksOnly, BaseInv, Node
  <2>3. Alone(c) /\ (hist.raced => hist'.raced) /\ (hist.cut => hist'.cut)
    BY <1>1, <1>2 DEF Moves
  <2> QED BY <2>1, <2>2, <2>3, LinesStay
<1> QED BY <1>3, <1>4, <1>5, <1>6, <1>7

LEMMA LinesKept ==
  ASSUME BaseInv, Single, LinesHeld, [Next]_vars PROVE LinesHeld'
<1>1. CASE UNCHANGED vars \/ AirSteps
  <2>1. UNCHANGED <<me, hist>> /\ node'.own = node.own
    BY <1>1 DEF vars, AirSteps, Boot, ShutDown, InjectKey, Forward, List,
                BaseInv, Node
  <2> QED BY <2>1 DEF LinesHeld, At
<1>2. ASSUME NEW c \in Clients, Launch(c) PROVE LinesHeld'
  <2>1. LaunchMoves(c) /\ node' = node
    BY <1>2, LaunchesMove DEF Launch, LooksOnly
  <2>2. Alone(c) /\ ~Writing(c)' /\ ~Writing(c)
    BY <2>1 DEF LaunchMoves, Writing, Resting
  <2> QED BY <2>1, <2>2, LinesStay DEF LaunchMoves
<1>3. ASSUME NEW c \in Clients, TimeOut(c) \/ Kill(c) PROVE LinesHeld'
  <2>1. PICK p \in {"idle", "killed"} : End(c, p) /\ node' = node
    BY <1>3 DEF TimeOut, Kill, LooksOnly
  <2> QED BY <2>1, LinesInEnd
<1> QED BY <1>1, <1>2, <1>3, LinesInStep, NextCases
-----------------------------------------------------------------------------
(* ServiceHeld, in parts.                                                  *)
AtMostOne == \A s, t \in services : s = t
Owned(s) == \E c \in Clients : Deploys(c) /\ me[c].created = s.id
NoneOrphaned == \A s \in services : s.listed \/ Owned(s)
NoneToCome == \A c \in Clients : At(c, "createService") => services = {}

LEMMA ServiceParts ==
  ServiceHeld <=> \/ hist.raced \/ hist.lost
                  \/ AtMostOne /\ NoneOrphaned /\ NoneToCome
BY DEF ServiceHeld, AtMostOne, NoneOrphaned, NoneToCome, Owned

LEMMA ServicePartsNext ==
  ServiceHeld' <=> \/ hist'.raced \/ hist'.lost
                   \/ AtMostOne' /\ NoneOrphaned' /\ NoneToCome'
BY DEF Ended, ServiceHeld, AtMostOne, NoneOrphaned, NoneToCome, Owned

LEMMA ServiceInEnd ==
  ASSUME BaseInv, ServiceHeld, NEW c \in Clients, NEW p \in Ended, End(c, p),
         services' = services
  PROVE  ServiceHeld'
<1>1. /\ Alone(c) /\ me'[c].pc = p /\ me'[c].cmd = "none"
      /\ hist'.raced = hist.raced
      /\ hist'.lost <=> hist.lost \/ \E s \in Mine(c) : ~s.listed
  BY EndMoves
<1>2. SUFFICES ASSUME ~hist'.raced, ~hist'.lost
               PROVE  AtMostOne' /\ NoneOrphaned' /\ NoneToCome'
  BY ServicePartsNext
<1>3. AtMostOne /\ NoneOrphaned /\ NoneToCome
  BY <1>1, <1>2, ServiceParts
<1>4. AtMostOne'
  BY <1>3 DEF AtMostOne
<1>5. ASSUME NEW s \in services, ~s.listed PROVE Owned(s)'
  <2>1. PICK d \in Clients : Deploys(d) /\ me[d].created = s.id
    BY <1>3, <1>5 DEF NoneOrphaned, Owned
  <2>2. d # c
    BY <1>1, <1>2, <1>5, <2>1 DEF Mine
  <2> QED BY <1>1, <2>1, <2>2 DEF Alone, Owned, Deploys
<1>6. NoneOrphaned'
  BY <1>5 DEF NoneOrphaned
<1>7. NoneToCome'
  BY <1>1, <1>3 DEF NoneToCome, Alone, At, Ended
<1> QED BY <1>4, <1>6, <1>7

(* A process goes on with what it has created.                             *)
LEMMA ServiceInMove ==
  ASSUME ServiceHeld, NEW c \in Clients, Alone(c), UNCHANGED <<services, hist>>,
         Deploys(c) =>
           me'[c].cmd = me[c].cmd /\ me'[c].created = me[c].created,
         me'[c].pc = "createService" => services = {}
  PROVE  ServiceHeld'
<1>1. SUFFICES ASSUME AtMostOne, NoneOrphaned, NoneToCome
               PROVE  AtMostOne' /\ NoneOrphaned' /\ NoneToCome'
  BY ServiceParts, ServicePartsNext
<1>2. AtMostOne'
  BY <1>1 DEF AtMostOne
<1>3. ASSUME NEW s \in services, Owned(s) PROVE Owned(s)'
  BY <1>3 DEF Owned, Alone, Deploys
<1>4. NoneOrphaned'
  BY <1>1, <1>3 DEF NoneOrphaned
<1>5. NoneToCome'
  BY <1>1 DEF NoneToCome, Alone, At
<1> QED BY <1>2, <1>4, <1>5

(* A deployment about to create a service has seen that there is none.     *)
LEMMA SeesNone ==
  ASSUME BaseInv, Single, ~hist.raced, NEW c \in Clients, Deploys(c),
         NoneOrphaned, Candidates(c) = {}
  PROVE  services = {}
<1>1. Listed = {} /\ Mine(c) = {}
  BY DEF Candidates
<1>2. SUFFICES ASSUME NEW s \in services PROVE FALSE
  OBVIOUS
<1>3. PICK d \in Clients : Deploys(d) /\ me[d].created = s.id
  BY <1>1 DEF Listed, NoneOrphaned, Owned
<1>4. d = c
  BY <1>3 DEF Single
<1> QED BY <1>1, <1>3, <1>4 DEF Mine

LEMMA ServiceInStep ==
  ASSUME BaseInv, Single, ServiceHeld, NEW c \in Clients,
         Step(c) \/ TeeFails(c)
  PROVE  ServiceHeld'
<1>1. Moves(c)
  BY StepsMove
<1>2. SUFFICES ASSUME ~hist.raced, ~hist.lost PROVE ServiceHeld'
  <2>1. hist.raced => hist'.raced
    BY <1>1 DEF Moves
  <2>2. hist.lost => hist'.lost
    BY DEF Step, Look, Woken, Resolve, CreateService, Probe, RotatePassword,
           ReadHosts, EmptyHosts, FillHosts, TeeFails, Find, TestEndpoint,
           Become, Goto, End, BaseInv, Histories
  <2> QED BY <2>1, <2>2 DEF ServiceHeld
<1>3. AtMostOne /\ NoneOrphaned /\ NoneToCome
  BY <1>2, ServiceParts
<1>4. CASE CreateService(c)
  <2> DEFINE id == Cardinality(services) + 1
             new == [id |-> id, address |-> 0, listed |-> FALSE]
             r == [me[c] EXCEPT !.pc = "resolve", !.created = id]
  <2>1. services' = services \cup {new} /\ Become(c, r) /\ services = {}
    BY <1>3, <1>4 DEF CreateService, NoneToCome
  <2>2. new.id = id
    OBVIOUS
  <2>3. Deploys(c) /\ me[c] \in Process
    BY <1>4 DEF CreateService, At, BaseInv, Fits, Deploys
  <2>4. r.pc = "resolve" /\ r.cmd = me[c].cmd /\ r.created = id
    BY <2>3 DEF Process
  <2> HIDE DEF id, new, r
  <2>5. me'[c] = r
    BY <2>1 DEF Become, BaseInv
  <2>6. AtMostOne'
    BY <2>1 DEF AtMostOne
  <2>7. NoneOrphaned'
    BY <2>1, <2>2, <2>3, <2>4, <2>5 DEF NoneOrphaned, Owned, Deploys
  <2>8. NoneToCome'
    <3>1. \A d \in Clients \ {c} : ~At(d, "createService")'
      BY <1>1, <1>2, <2>3, OnlyDeployer DEF Moves, Alone, At
    <3> QED BY <2>4, <2>5, <3>1 DEF NoneToCome, At
  <2> QED BY <2>6, <2>7, <2>8, ServicePartsNext
<1>5. CASE ~CreateService(c)
  <2>1. services' = services
    BY <1>5 DEF Step, Look, Woken, Resolve, Probe, RotatePassword, ReadHosts,
                EmptyHosts, FillHosts, TeeFails, Find, TestEndpoint, LooksOnly
  <2>2. CASE \E p \in Ended : End(c, p)
    BY <2>1, <2>2, ServiceInEnd
  <2>3. CASE Resolve(c)
    <3>1. Deploys(c)
      BY <2>3 DEF Resolve, At, BaseInv, Fits, Deploys
    <3>2. CASE Goto(c, "createService") /\ Candidates(c) = {}
      <4>1. services = {}
        BY <1>2, <1>3, <3>1, <3>2, SeesNone
      <4> QED BY <2>1, <3>2, <4>1, GotoMoves, ServiceInMove
    <3>3. CASE \E s \in Candidates(c) :
            Become(c, [me[c] EXCEPT !.pc = "probe", !.address = s.address])
      <4>1. /\ Alone(c) /\ hist' = hist /\ me'[c].pc = "probe"
            /\ me'[c].cmd = me[c].cmd /\ me'[c].created = me[c].created
        BY <3>3 DEF Become, Alone, BaseInv, Process
      <4> QED BY <2>1, <4>1, ServiceInMove
    <3> QED BY <2>3, <3>2, <3>3 DEF Resolve
  <2>4. CASE \E p \in Places \ {"createService"} : Goto(c, p)
    BY <2>1, <2>4, GotoMoves, ServiceInMove
  <2>5. CASE ReadHosts(c) /\ ~\E p \in Ended : End(c, p)
    <3>1. Become(c, [me[c] EXCEPT !.pc = "emptyHosts", !.own = node.own])
      BY <2>5 DEF ReadHosts, Ended
    <3>2. /\ Alone(c) /\ hist' = hist /\ me'[c].pc = "emptyHosts"
          /\ me'[c].cmd = me[c].cmd /\ me'[c].created = me[c].created
      BY <3>1 DEF Become, Alone, BaseInv, Process
    <3> QED BY <2>1, <3>2, ServiceInMove
  <2>6. CASE Find(c) /\ ~\E p \in Ended : End(c, p)
    <3>1. /\ Alone(c) /\ hist' = hist /\ me'[c].pc = "tcp"
          /\ me'[c].cmd = me[c].cmd /\ me'[c].created = me[c].created
      <4>1. PICK s : Become(c, [me[c] EXCEPT !.pc = "tcp",
                                             !.address = s.address])
        BY <2>6 DEF Find, Ended
      <4> QED BY <4>1 DEF Become, Alone, BaseInv, Process
    <3> QED BY <2>1, <3>1, ServiceInMove
  <2>7. CASE Become(c, [Fresh("resolved") EXCEPT !.address = me[c].address])
             /\ TestEndpoint(c)
    <3>1. Alone(c) /\ hist' = hist /\ me'[c].pc = "resolved"
      BY <2>7 DEF Become, Alone, BaseInv, Fresh
    <3>2. ~Deploys(c)
      BY <2>7 DEF TestEndpoint, At, BaseInv, Fits, Deploys
    <3> QED BY <2>1, <3>1, <3>2, ServiceInMove
  <2>8. CASE Look(c) \/ Woken(c) \/ Probe(c) \/ RotatePassword(c)
             \/ EmptyHosts(c) \/ FillHosts(c)
    BY <2>2, <2>4, <2>8 DEF Look, Woken, AfterWaking, Probe, RotatePassword,
       EmptyHosts, FillHosts, Places, Resting, Connecting, Ended
  <2>9. CASE TestEndpoint(c)
    BY <2>4, <2>7, <2>9 DEF TestEndpoint, NextTry, Places
  <2>10. CASE TeeFails(c) /\ ~\E p \in Ended : End(c, p)
    <3>1. Become(c, [me[c] EXCEPT !.pc = "emptyHosts", !.plain = TRUE])
      BY <2>10 DEF TeeFails, Ended
    <3>2. /\ Alone(c) /\ hist' = hist /\ me'[c].pc = "emptyHosts"
          /\ me'[c].cmd = me[c].cmd /\ me'[c].created = me[c].created
      BY <3>1 DEF Become, Alone, BaseInv, Process
    <3> QED BY <2>1, <3>2, ServiceInMove
  <2> QED BY <1>5, <2>2, <2>3, <2>5, <2>6, <2>8, <2>9, <2>10 DEF Step
<1> QED BY <1>4, <1>5

(* A service gets its address or is listed.                                *)
LEMMA ServiceInAir ==
  ASSUME BaseInv, ServiceHeld, UNCHANGED <<me, hist>>,
         UNCHANGED services \/ \E s \in services : Forward(s) \/ List(s)
  PROVE  ServiceHeld'
<1>1. SUFFICES ASSUME AtMostOne, NoneOrphaned, NoneToCome
               PROVE  AtMostOne' /\ NoneOrphaned' /\ NoneToCome'
  BY ServiceParts, ServicePartsNext
<1>2. CASE UNCHANGED services
  BY <1>1, <1>2 DEF AtMostOne, NoneOrphaned, NoneToCome, Owned, Deploys, At
<1>3. CASE \E s \in services : Forward(s) \/ List(s)
  <2>1. PICK s, t :
          /\ s \in services
          /\ services' = (services \ {s}) \cup {t}
          /\ t.id = s.id /\ (s.listed => t.listed)
    <3>1. PICK s \in services : Forward(s) \/ List(s)
      BY <1>3
    <3>2. s \in Services
      BY DEF BaseInv
    <3>3. CASE Forward(s)
      <4>1. [s EXCEPT !.address = sim.boot].id = s.id
        BY <3>2 DEF Services
      <4>2. [s EXCEPT !.address = sim.boot].listed = s.listed
        BY <3>2 DEF Services
      <4> QED BY <3>3, <4>1, <4>2 DEF Forward
    <3>4. CASE List(s)
      <4>1. /\ [s EXCEPT !.listed = TRUE].id = s.id
            /\ [s EXCEPT !.listed = TRUE].listed
        BY <3>2 DEF Services
      <4> QED BY <3>4, <4>1 DEF List
    <3> QED BY <3>1, <3>3, <3>4
  <2>2. services' = {t}
    BY <1>1, <2>1 DEF AtMostOne
  <2>3. t.listed \/ Owned(s)'
    BY <1>1, <2>1 DEF NoneOrphaned, Owned, Deploys
  <2>4. AtMostOne' /\ NoneToCome'
    BY <1>1, <2>1, <2>2 DEF AtMostOne, NoneToCome, At
  <2>5. NoneOrphaned'
    BY <2>1, <2>2, <2>3 DEF NoneOrphaned, Owned
  <2> QED BY <2>4, <2>5
<1> QED BY <1>2, <1>3

LEMMA ServiceKept ==
  ASSUME BaseInv, Single, ServiceHeld, [Next]_vars PROVE ServiceHeld'
<1>1. CASE UNCHANGED vars \/ AirSteps
  <2>1. /\ UNCHANGED <<me, hist>>
        /\ UNCHANGED services \/ \E s \in services : Forward(s) \/ List(s)
    BY <1>1 DEF vars, AirSteps, Boot, ShutDown, InjectKey, Forward, List
  <2> QED BY <2>1, ServiceInAir
<1>2. ASSUME NEW c \in Clients, Launch(c) PROVE ServiceHeld'
  <2>1. LaunchMoves(c) /\ UNCHANGED services
    BY <1>2, LaunchesMove DEF Launch, LooksOnly
  <2>2. ~Deploys(c)
    BY <2>1 DEF LaunchMoves, BaseInv, Fits, Deploys
  <2>3. ~hist'.raced /\ ~hist'.lost =>
          AtMostOne' /\ NoneOrphaned' /\ NoneToCome'
    BY <2>1, <2>2, ServiceParts
       DEF LaunchMoves, Alone, AtMostOne, NoneOrphaned, NoneToCome, Owned,
           Deploys, At
  <2> QED BY <2>3, ServicePartsNext
<1>3. ASSUME NEW c \in Clients, TimeOut(c) \/ Kill(c) PROVE ServiceHeld'
  BY <1>3, ServiceInEnd DEF Ended, TimeOut, Kill, LooksOnly, Resting
<1> QED BY <1>1, <1>2, <1>3, ServiceInStep, NextCases
-----------------------------------------------------------------------------
LEMMA InitHost == Init => HostInv
<1> SUFFICES ASSUME Init PROVE HostInv
  OBVIOUS
<1>1. \A c \in Clients : me[c].pc = "idle" /\ me[c].cmd = "none"
  BY DEF Init, Fresh
<1>2. Single /\ LinesHeld /\ ServiceHeld
  BY <1>1 DEF Init, Single, Deploys, LinesHeld, ServiceHeld, At
<1> QED BY <1>2, InitBase DEF HostInv

LEMMA HostAlways == Spec => []HostInv
<1>1. HostInv /\ [Next]_vars => HostInv'
  BY NextBase, SingleKept, LinesKept, ServiceKept DEF HostInv
<1> QED BY InitHost, <1>1, PTL DEF Spec

THEOREM LinesSurvive == Spec => []OthersLinesKept
<1>1. HostInv => OthersLinesKept
  BY DEF HostInv, LinesHeld, OthersLinesKept, HoldsLines
<1> QED BY <1>1, HostAlways, PTL

THEOREM NeverTwoServices == Spec => []OneService
<1>1. ASSUME HostInv PROVE OneService
  <2>1. SUFFICES ASSUME AtMostOne PROVE Cardinality(services) <= 1
    BY <1>1, ServiceParts DEF HostInv, OneService
  <2>2. CASE services = {}
    BY <2>2, FS_EmptySet
  <2>3. CASE services # {}
    <3>1. PICK s : services = {s}
      BY <2>1, <2>3 DEF AtMostOne
    <3> QED BY <3>1, FS_Singleton
  <2> QED BY <2>2, <2>3
<1> QED BY <1>1, HostAlways, PTL
-----------------------------------------------------------------------------
(***************************************************************************)
(* AccessSessions: the sessions add nothing to what JumpHost does, so that *)
(* its theorems hold beside them, and they clean up.                       *)
(***************************************************************************)

(* A step of the sessions leaves JumpHost alone, and any other step is one *)
(* of JumpHost.                                                            *)
THEOREM SessionsBesideNode == AccessSpec => Spec
<1>1. AccessInit => Init
  BY DEF AccessInit
<1>2. [AccessNext]_accessVars => [Next]_vars
  BY DEF AccessNext, accessVars, JumpHostNext, LaunchNext, Next
<1> QED BY <1>1, <1>2, PTL DEF AccessSpec, Spec

LEMMA BaseBeside == AccessSpec => []BaseInv
BY SessionsBesideNode, BaseAlways, PTL

(* ssh runs only while its session is at a place that stops it.            *)
SshWatched ==
  \A s \in ssh : session[s.owner].pc \notin {"none", "open", "over"}

SessionInv == SessionTypeOK /\ SshWatched

SshProcess == [owner : Clients, port : Ports, address : 1..MaxBoots,
               up : BOOLEAN]
-----------------------------------------------------------------------------
(* A process that has found the node stays so until it gets a new command. *)
LEMMA ResolvedStays ==
  ASSUME BaseInv, JumpHostNext, NEW d \in Clients, At(d, "resolved")
  PROVE  At(d, "resolved")'
<1>1. ASSUME NEW c \in Clients,
             Step(c) \/ TeeFails(c) \/ TimeOut(c) \/ Kill(c)
      PROVE  At(d, "resolved")'
  <2>1. ~At(c, "resolved")
    BY <1>1 DEF Step, TimeOut, Waits, Kill, Resting, Look, Woken, Resolve,
                CreateService, Probe, RotatePassword, ReadHosts, EmptyHosts,
                FillHosts, TeeFails, Find, TestEndpoint, At
  <2>2. me'[d] = me[d]
    BY <1>1, <2>1, StepsMove DEF Moves, Alone
  <2> QED BY <2>2 DEF At
<1>2. CASE UNCHANGED me
  BY <1>2 DEF At
<1> QED BY <1>1, <1>2
        DEF JumpHostNext, Boot, ShutDown, InjectKey, Forward, List

(* A session enters a place.                                               *)
LEMMA Enters ==
  ASSUME SessionTypeOK, NEW c \in Clients, NEW p \in SessionPlaces, Enter(c, p)
  PROVE  /\ session' \in [Clients -> Session]
         /\ session'[c].pc = p
         /\ p # "over" => session'[c].port = session[c].port
         /\ \A d \in Clients \ {c} : session'[d] = session[d]
<1>1. session[c] \in Session
  BY DEF SessionTypeOK
<1>2. [session[c] EXCEPT !.pc = p] \in Session
  BY <1>1 DEF Session
<1>3. [NoSession EXCEPT !.pc = p] \in Session
  BY DEF Session, NoSession
<1> QED BY <1>1, <1>2, <1>3 DEF Enter, SessionTypeOK, Session, NoSession

(* A session that has begun moves to p, and takes care of what it started. *)
LEMMA SessionMoves ==
  ASSUME SessionInv, NEW c \in Clients, session[c].pc \notin {"none", "over"},
         NEW p \in SessionPlaces \ {"none"}, Enter(c, p), me' = me,
         ssh' \subseteq ssh, taken' \subseteq Ports,
         p \in {"open", "over"} => \A s \in ssh' : s.owner # c,
         browsers' \subseteq browsers \cup {c},
         c \in browsers' => p \in {"browse", "stopBrowser"}
  PROVE  SessionInv'
<1>1. /\ session' \in [Clients -> Session]
      /\ session'[c].pc = p
      /\ p # "over" => session'[c].port = session[c].port
      /\ \A d \in Clients \ {c} : session'[d] = session[d]
  BY Enters DEF SessionInv
<1>2. SessionTypeOK'
  <2>1. /\ ssh' \subseteq SshProcess
        /\ browsers' \subseteq Clients /\ taken' \subseteq Ports
    BY DEF SessionInv, SessionTypeOK, SshProcess
  <2>2. ASSUME NEW d \in Clients
        PROVE  /\ session'[d].pc # "none" => At(d, "resolved")'
               /\ session'[d].pc \notin {"none", "over"} => session'[d].port # 0
               /\ d \in browsers' => session'[d].pc \in {"browse", "stopBrowser"}
    BY <1>1 DEF SessionInv, SessionTypeOK, At
  <2> QED BY <1>1, <2>1, <2>2 DEF SessionTypeOK, SshProcess
<1>3. SshWatched'
  <2>1. ASSUME NEW s \in ssh'
        PROVE  session'[s.owner].pc \notin {"none", "open", "over"}
    <3>1. s \in ssh /\ s.owner \in Clients
      BY DEF SessionInv, SessionTypeOK
    <3>2. CASE s.owner = c
      BY <1>1, <3>2
    <3>3. CASE s.owner # c
      BY <1>1, <3>1, <3>3 DEF SessionInv, SshWatched
    <3> QED BY <3>2, <3>3
  <2> QED BY <2>1 DEF SshWatched
<1> QED BY <1>2, <1>3 DEF SessionInv

(* The machine changes, and no session moves.                              *)
LEMMA MachineMoves ==
  ASSUME SessionInv, UNCHANGED <<me, session>>,
         \A t \in ssh' : t \in SshProcess /\ \E s \in ssh : t.owner = s.owner,
         browsers' \subseteq browsers, taken' \subseteq Ports
  PROVE  SessionInv'
<1>1. ssh' \subseteq SshProcess
  OBVIOUS
<1>2. SessionTypeOK'
  BY <1>1 DEF SessionInv, SessionTypeOK, SshProcess, At
<1>3. SshWatched'
  BY DEF SessionInv, SshWatched
<1> QED BY <1>2, <1>3 DEF SessionInv

LEMMA BeginInv ==
  ASSUME SessionInv, NEW c \in Clients, Begin(c), me' = me PROVE SessionInv'
<1>1. PICK cmd \in {"tunnel", "console"}, port \in Ports :
        session' = [session EXCEPT ![c] =
                      [pc |-> "open", cmd |-> cmd, port |-> port]]
  BY DEF Begin
<1> DEFINE r == [pc |-> "open", cmd |-> cmd, port |-> port]
<1>2. r \in Session /\ r.pc = "open" /\ r.port # 0
  <2>1. port # 0
    BY PortsAssumption
  <2>2. r \in Session
    BY DEF Session, SessionPlaces
  <2> QED BY <2>1, <2>2
<1>3. session' = [session EXCEPT ![c] = r]
  BY <1>1
<1> HIDE DEF r
<1>4. SessionTypeOK'
  BY <1>2, <1>3 DEF SessionInv, SessionTypeOK, Begin, MachineKept, At, In
<1>5. SshWatched'
  BY <1>2, <1>3
     DEF SessionInv, SessionTypeOK, SshWatched, Begin, MachineKept, In
<1> QED BY <1>4, <1>5 DEF SessionInv

LEMMA OpenInv ==
  ASSUME BaseInv, SessionInv, NEW c \in Clients, Open(c), me' = me
  PROVE  SessionInv'
<1>1. session[c].pc = "open" /\ At(c, "resolved") /\ c \notin browsers
  BY DEF Open, In, SessionInv, SessionTypeOK
<1>2. \A s \in ssh : s.owner # c
  BY <1>1 DEF SessionInv, SshWatched
<1>3. CASE PortOpen(session[c].port)
  <2>1. /\ Enter(c, "over") /\ UNCHANGED <<ssh, browsers, taken>>
    BY <1>3 DEF Open
  <2>2. taken' \subseteq Ports
    BY <2>1 DEF SessionInv, SessionTypeOK
  <2> QED BY <1>1, <1>2, <2>1, <2>2, SessionMoves DEF SessionPlaces
<1>4. CASE ~PortOpen(session[c].port)
  <2> DEFINE new == [owner |-> c, port |-> session[c].port,
                     address |-> me[c].address, up |-> FALSE]
  <2>1. PICK p \in {"wait", "await"} : Enter(c, p)
    BY <1>4 DEF Open
  <2>2. ssh' = ssh \cup {new} /\ UNCHANGED <<browsers, taken>>
    BY <1>4 DEF Open
  <2>3. new \in SshProcess /\ new.owner = c
    <3>1. session[c].port \in Ports
      BY <1>1 DEF SessionInv, SessionTypeOK, Session
    <3>2. me[c].address \in 1..MaxBoots
      BY <1>1, BoundsAssumption DEF BaseInv, Fits, Process, At
    <3> QED BY <3>1, <3>2 DEF SshProcess
  <2>4. /\ session' \in [Clients -> Session]
        /\ session'[c].pc = p
        /\ session'[c].port = session[c].port
        /\ \A d \in Clients \ {c} : session'[d] = session[d]
    BY <2>1, Enters DEF SessionInv, SessionPlaces
  <2> HIDE DEF new
  <2>5. ssh' \subseteq SshProcess
    BY <2>2, <2>3 DEF SessionInv, SessionTypeOK, SshProcess
  <2>6. SessionTypeOK'
    <3>1. ASSUME NEW d \in Clients
          PROVE  /\ session'[d].pc # "none" => At(d, "resolved")'
                 /\ session'[d].pc \notin {"none", "over"} =>
                      session'[d].port # 0
                 /\ d \in browsers' =>
                      session'[d].pc \in {"browse", "stopBrowser"}
      BY <1>1, <2>2, <2>4 DEF SessionInv, SessionTypeOK, At
    <3> QED BY <2>2, <2>4, <2>5, <3>1
            DEF SessionInv, SessionTypeOK, SshProcess
  <2>7. SshWatched'
    <3>1. ASSUME NEW s \in ssh
          PROVE  session'[s.owner].pc \notin {"none", "open", "over"}
      BY <1>2, <2>4 DEF SessionInv, SessionTypeOK, SshWatched
    <3> QED BY <2>2, <2>3, <2>4, <3>1 DEF SshWatched
  <2> QED BY <2>6, <2>7 DEF SessionInv
<1> QED BY <1>3, <1>4

LEMMA SessionStepInv ==
  ASSUME BaseInv, SessionInv, NEW c \in Clients, me' = me,
         SessionStep(c) \/ AwaitTimesOut(c) \/ Interrupt(c) \/ Abandon(c)
  PROVE  SessionInv'
<1> USE DEF SessionPlaces
<1>1. browsers \subseteq Clients /\ taken \subseteq Ports
  BY DEF SessionInv, SessionTypeOK
<1>2. c \in browsers => session[c].pc \in {"browse", "stopBrowser"}
  BY DEF SessionInv, SessionTypeOK
<1>3. session[c].pc = "open" => \A s \in ssh : s.owner # c
  BY DEF SessionInv, SshWatched
<1>4. CASE AwaitOpen(c)
  BY <1>1, <1>4, SessionMoves DEF AwaitOpen, In
<1>5. CASE AwaitFails(c) \/ AwaitTimesOut(c)
  <2>1. /\ session[c].pc = "await" /\ Enter(c, "stopSsh")
        /\ UNCHANGED <<ssh, browsers, taken>>
    BY <1>5 DEF AwaitFails, AwaitTimesOut, AfterAwait, MachineKept, In
  <2> QED BY <1>1, <1>2, <2>1, SessionMoves
<1>6. CASE Supervise(c)
  BY <1>1, <1>6, SessionMoves DEF Supervise, MachineKept, In
<1>7. CASE Wait(c)
  <2>1. \A s \in ssh : s.owner # c
    BY <1>7 DEF Wait, Running, Own
  <2> QED BY <1>1, <1>2, <1>7, <2>1, SessionMoves DEF Wait, MachineKept, In
<1>8. CASE StopBrowser(c)
  BY <1>1, <1>8, SessionMoves DEF StopBrowser, In
<1>9. CASE StopSsh(c)
  <2>1. \A s \in ssh' : s \in ssh /\ s.owner # c
    BY <1>9 DEF StopSsh, Own
  <2> QED BY <1>1, <1>2, <1>9, <2>1, SessionMoves DEF StopSsh, In
<1>10. CASE Interrupt(c)
  <2>1. UNCHANGED <<ssh, browsers, taken>>
    BY <1>10 DEF Interrupt, MachineKept
  <2>2. CASE session[c].pc = "open" /\ Enter(c, "over")
    BY <1>1, <1>2, <1>3, <2>1, <2>2, SessionMoves
  <2>3. CASE session[c].pc \in {"await", "wait"} /\ Enter(c, "stopSsh")
    BY <1>1, <1>2, <2>1, <2>3, SessionMoves
  <2>4. CASE session[c].pc = "browse" /\ Enter(c, "stopBrowser")
    BY <1>1, <1>2, <2>1, <2>4, SessionMoves
  <2> QED BY <1>10, <2>2, <2>3, <2>4 DEF Interrupt, In
<1>11. CASE Abandon(c)
  <2>1. \A s \in ssh' : s \in ssh /\ s.owner # c
    BY <1>11 DEF Abandon, Own
  <2>2. taken' \subseteq Ports
    BY <1>1, <1>11 DEF Abandon, Own, SessionInv, SessionTypeOK
  <2>3. c \notin browsers' /\ browsers' \subseteq browsers
    BY <1>11 DEF Abandon
  <2> QED BY <1>11, <2>1, <2>2, <2>3, SessionMoves DEF Abandon
<1> QED BY <1>4, <1>5, <1>6, <1>7, <1>8, <1>9, <1>10, <1>11, BeginInv, OpenInv
        DEF SessionStep

LEMMA MachineInv ==
  ASSUME SessionInv, me' = me,
         \/ \E c \in Clients : CloseBrowser(c)
         \/ \E s \in ssh : Connect(s) \/ Disconnect(s)
         \/ \E port \in Ports : Take(port) \/ Release(port)
  PROVE  SessionInv'
<1>1. /\ ssh \subseteq SshProcess /\ taken \subseteq Ports
      /\ browsers \subseteq Clients
  BY DEF SessionInv, SessionTypeOK, SshProcess
<1>2. CASE \E s \in ssh : Connect(s)
  <2>1. PICK s \in ssh : Connect(s)
    BY <1>2
  <2> DEFINE t == [s EXCEPT !.up = TRUE]
  <2>2. t \in SshProcess /\ t.owner = s.owner
    BY <1>1 DEF SshProcess
  <2>3. ssh' \subseteq ssh \cup {t} /\ UNCHANGED <<session, browsers, taken>>
    BY <2>1 DEF Connect
  <2> HIDE DEF t
  <2> QED BY <1>1, <2>2, <2>3, MachineMoves
<1>3. CASE \/ \E c \in Clients : CloseBrowser(c)
           \/ \E s \in ssh : Disconnect(s)
           \/ \E port \in Ports : Take(port) \/ Release(port)
  <2>1. /\ session' = session /\ ssh' \subseteq ssh
        /\ browsers' \subseteq browsers /\ taken' \subseteq Ports
    BY <1>1, <1>3 DEF CloseBrowser, Disconnect, Take, Release
  <2> QED BY <1>1, <2>1, MachineMoves
<1> QED BY <1>2, <1>3

LEMMA LaunchNextInv ==
  ASSUME BaseInv, SessionInv, NEW c \in Clients, LaunchNext(c)
  PROVE  SessionInv'
<1>1. /\ session' = [session EXCEPT ![c] = NoSession]
      /\ UNCHANGED <<ssh, browsers, taken>>
  BY DEF LaunchNext, MachineKept
<1>2. session[c].pc \in {"none", "over"}
  BY DEF LaunchNext, SessionInv, SessionTypeOK, In
<1>3. \A d \in Clients \ {c} : me'[d] = me[d]
  BY LaunchesMove DEF LaunchNext, LaunchMoves, Alone
<1>4. NoSession \in Session /\ NoSession.pc = "none"
  BY DEF NoSession, Session, SessionPlaces
<1>5. SessionTypeOK'
  BY <1>1, <1>2, <1>3, <1>4 DEF SessionInv, SessionTypeOK, At
<1>6. SshWatched'
  BY <1>1, <1>2 DEF SessionInv, SessionTypeOK, SshWatched
<1> QED BY <1>5, <1>6 DEF SessionInv

LEMMA SessionsKept ==
  ASSUME BaseInv, SessionInv, [AccessNext]_accessVars PROVE SessionInv'
<1>1. CASE UNCHANGED accessVars
  BY <1>1 DEF accessVars, vars, sessionVars, SessionInv, SessionTypeOK,
              SshWatched, At
<1>2. CASE SessionNext /\ UNCHANGED vars
  BY <1>2, SessionStepInv, MachineInv DEF SessionNext, vars
<1>3. CASE \E c \in Clients : LaunchNext(c)
  BY <1>3, LaunchNextInv
<1>4. CASE JumpHostNext /\ UNCHANGED sessionVars
  <2>1. SessionTypeOK'
    BY <1>4, ResolvedStays DEF SessionInv, SessionTypeOK, sessionVars
  <2>2. SshWatched'
    BY <1>4 DEF SessionInv, SshWatched, sessionVars
  <2> QED BY <2>1, <2>2 DEF SessionInv
<1> QED BY <1>1, <1>2, <1>3, <1>4 DEF AccessNext

LEMMA SessionsAlways == AccessSpec => []SessionInv
<1>1. AccessInit => SessionInv
  BY DEF AccessInit, SessionInv, SessionTypeOK, SshWatched, NoSession, Session,
         SessionPlaces
<1> QED BY <1>1, SessionsKept, BaseBeside, PTL DEF AccessSpec
-----------------------------------------------------------------------------
THEOREM SessionTypeCorrect == AccessSpec => []SessionTypeOK
<1>1. SessionInv => SessionTypeOK
  BY DEF SessionInv
<1> QED BY <1>1, SessionsAlways, PTL

THEOREM SessionsCleanUp == AccessSpec => []NothingLeftRunning
<1>1. SessionInv => NothingLeftRunning
  BY DEF SessionInv, SessionTypeOK, SshWatched, NothingLeftRunning, Running,
         Own
<1> QED BY <1>1, SessionsAlways, PTL
=============================================================================
