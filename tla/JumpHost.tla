------------------------------ MODULE JumpHost ------------------------------
(***************************************************************************)
(* The management node of a lab's simulation, as a deployment prepares it  *)
(* (ensure_jump_host of adapters/air/adapter.py, adapters/air/jump_host.py *)
(* and core/jumphost.py) and as the access commands find it                *)
(* (find_jump_host, cli/commands/access.py).                               *)
(*                                                                         *)
(* Air forwards a port of some worker to the node's SSH.  An address is    *)
(* the number of the boot it was given for, and nobody answers it after    *)
(* the next shutdown, though Air may go on listing it.  The hosts file is  *)
(* the lines that are not ours and the network our block is for.           *)
(*                                                                         *)
(* Simplifications: calls of one lookup that change nothing are one step;  *)
(* a file that is being written is empty until it is complete; the text of *)
(* the file, its layout and hand-made markers are left out, and so is      *)
(* `console --print-only', which does not test the address.                *)
(***************************************************************************)
EXTENDS Naturals, FiniteSets

CONSTANTS
  Clients,    \* processes
  Commands,   \* what each of them may do
  Networks,   \* addresses the cluster may have
  MaxBoots,   \* bound: boots of the simulation
  MaxServices \* bound: no lookup sets out to create a service beyond these

ASSUME CommandsAssumption ==
  Commands \in [Clients -> SUBSET {"deploy", "access"}]
ASSUME NetworksAssumption == Networks \subseteq Nat \ {0}
ASSUME BoundsAssumption == MaxBoots \in Nat /\ MaxServices \in Nat

VARIABLES
  sim,       \* the simulation
  services,  \* its SSH services
  node,      \* the management node
  me,        \* place and locals of each process
  hist       \* history: see ReadyMeansReady and the other properties

vars == <<sim, services, node, me, hist>>

Resting == {"idle", "killed", "ready", "resolved"}
Connecting ==
  {"probe", "rotate", "readHosts", "emptyHosts", "fillHosts", "tcp"}
Places == Resting \cup Connecting \cup
  {"look", "waking", "resolve", "createService", "find"}

Process ==
  [pc : Places, cmd : {"none", "deploy", "access"},
   net : Networks \cup {0}, created : Nat, address : 0..MaxBoots,
   own : BOOLEAN, plain : BOOLEAN]

Fresh(p) == [pc |-> p, cmd |-> "none", net |-> 0, created |-> 0,
             address |-> 0, own |-> FALSE, plain |-> FALSE]

(* The variables have their types, and nobody connects to a service whose  *)
(* address Air has not given yet (ensure_jump_host, find_jump_host).       *)
TypeOK ==
  /\ sim \in [up : BOOLEAN, wanted : BOOLEAN, boot : 0..MaxBoots]
  /\ services \subseteq [id : Nat, address : 0..MaxBoots, listed : BOOLEAN]
  /\ node \in [expired : BOOLEAN, key : BOOLEAN, own : BOOLEAN,
               net : Networks \cup {0}]
  /\ me \in [Clients -> Process]
  /\ \A c \in Clients :
       me[c].pc \in Connecting \cup {"resolved"} => me[c].address # 0
  /\ hist \in [raced : BOOLEAN, lost : BOOLEAN, cut : BOOLEAN]

Init ==
  /\ sim = [up |-> FALSE, wanted |-> FALSE, boot |-> 0]
  /\ services = {}
  /\ node = [expired |-> TRUE, key |-> FALSE, own |-> TRUE, net |-> 0]
  /\ me = [c \in Clients |-> Fresh("idle")]
  /\ hist = [raced |-> FALSE, lost |-> FALSE, cut |-> FALSE]
-----------------------------------------------------------------------------
At(c, p) == me[c].pc = p
Mine(c) == {s \in services : s.id = me[c].created}
Listed == {s \in services : s.listed}

Become(c, r) == me' = [me EXCEPT ![c] = r] /\ UNCHANGED hist
Goto(c, p) == Become(c, [me[c] EXCEPT !.pc = p])
LooksOnly == UNCHANGED <<sim, services, node>>

(* The lines that are not ours are with c, which has truncated the file.   *)
HoldsLines(c) ==
  me[c].pc \in {"emptyHosts", "fillHosts"} /\ me[c].own /\ ~node.own

(* The history notes a service left unlisted and a write left half done.   *)
End(c, p) ==
  /\ me' = [me EXCEPT ![c] = Fresh(p)]
  /\ hist' = [hist EXCEPT !.lost = @ \/ \E s \in Mine(c) : ~s.listed,
                          !.cut = @ \/ (HoldsLines(c) /\ p # "ready")]

Answers(address) == sim.up /\ address = sim.boot

(***************************************************************************)
(* A command is given.  Both begin with an ACTIVE simulation, which they   *)
(* start if need be (reconciliation, or access with --start; access        *)
(* without it refuses).                                                    *)
(***************************************************************************)
Launch(c) ==
  /\ me[c].pc \in Resting
  /\ \E cmd \in Commands[c], net \in Networks :
       /\ me' = [me EXCEPT ![c] =
            [Fresh("look") EXCEPT !.cmd = cmd,
                                  !.net = IF cmd = "deploy" THEN net ELSE 0]]
       /\ hist' = [hist EXCEPT !.raced = @ \/
            (cmd = "deploy" /\ \E d \in Clients \ {c} : me[d].cmd = "deploy")]
  /\ LooksOnly

AfterWaking(c) == IF me[c].cmd = "deploy" THEN "resolve" ELSE "find"

Look(c) ==
  /\ At(c, "look")
  /\ \/ sim.up /\ Goto(c, AfterWaking(c)) /\ UNCHANGED sim
     \/ ~sim.up /\ Goto(c, "waking") /\ sim' = [sim EXCEPT !.wanted = TRUE]
     \/ ~sim.up /\ me[c].cmd = "access" /\ End(c, "idle") /\ UNCHANGED sim
  /\ UNCHANGED <<services, node>>

Woken(c) ==
  /\ At(c, "waking") /\ sim.up
  /\ Goto(c, AfterWaking(c))
  /\ LooksOnly
-----------------------------------------------------------------------------
(***************************************************************************)
(* ensure_jump_host: resolve until the service has an address.  A service  *)
(* this run has created is used even while Air does not list it.           *)
(***************************************************************************)
CandidatesListed(c) == Listed         \* mutated: created_service is not kept
Candidates(c) == IF Listed # {} THEN Listed ELSE Mine(c)

ResolveUnchecked(c) ==                \* mutated: a missing address is used
  /\ At(c, "resolve")
  /\ \/ /\ Candidates(c) = {} /\ Cardinality(services) < MaxServices
        /\ Goto(c, "createService")
     \/ \E s \in Candidates(c) :
          Become(c, [me[c] EXCEPT !.pc = "probe", !.address = s.address])
  /\ LooksOnly

Resolve(c) ==
  /\ At(c, "resolve")
  /\ \/ /\ Candidates(c) = {} /\ Cardinality(services) < MaxServices
        /\ Goto(c, "createService")
     \/ \E s \in Candidates(c) :
          /\ s.address # 0
          /\ Become(c, [me[c] EXCEPT !.pc = "probe", !.address = s.address])
  /\ LooksOnly

CreateService(c) ==
  /\ At(c, "createService")
  /\ LET id == Cardinality(services) + 1 IN
     /\ services' =
          services \cup {[id |-> id, address |-> 0, listed |-> FALSE]}
     /\ Become(c, [me[c] EXCEPT !.pc = "resolve", !.created = id])
  /\ UNCHANGED <<sim, node>>

(***************************************************************************)
(* SshJumpHostExecutor.ensure_ready: probe with the key, rotate the        *)
(* factory password, then the hosts file.  A refused key counts as an      *)
(* expired password.                                                       *)
(***************************************************************************)
ProbeAnyRefusal(c) ==                 \* mutated: every answer means expired
  /\ At(c, "probe") /\ Answers(me[c].address)
  /\ Goto(c, "rotate")
  /\ LooksOnly

Probe(c) ==
  /\ At(c, "probe") /\ Answers(me[c].address)
  /\ Goto(c, IF node.key /\ ~node.expired THEN "readHosts" ELSE "rotate")
  /\ LooksOnly

(* The dialogue needs the factory password; its last answer may be lost.   *)
RotatePassword(c) ==
  /\ At(c, "rotate")
  /\ \/ /\ Answers(me[c].address) /\ node.expired
        /\ node' = [node EXCEPT !.expired = FALSE]
        /\ Goto(c, "probe") \/ End(c, "idle")
     \/ /\ ~(Answers(me[c].address) /\ node.expired)
        /\ End(c, "idle") /\ UNCHANGED node
  /\ UNCHANGED <<sim, services>>

(* _configure_dns.  The SSH calls fail if nobody answers.                  *)
CurrentAny(c) == node.net # 0         \* mutated: any block will do
Current(c) == node.net = me[c].net

ReadHosts(c) ==
  /\ At(c, "readHosts")
  /\ \/ ~Answers(me[c].address) /\ End(c, "idle")
     \/ /\ Answers(me[c].address)
        /\ IF Current(c)
             THEN End(c, "ready")
             ELSE Become(c, [me[c] EXCEPT !.pc = "emptyHosts",
                                          !.own = node.own])
  /\ LooksOnly

(* tee truncates the file, ...                                             *)
EmptyHosts(c) ==
  /\ At(c, "emptyHosts") /\ Answers(me[c].address)
  /\ node' = [node EXCEPT !.own = FALSE, !.net = 0]
  /\ Goto(c, "fillHosts")
  /\ UNCHANGED <<sim, services>>

(* ... and writes merge_hosts_file of what was read.                       *)
MergedBlockOnly(c) == [node EXCEPT !.own = FALSE, !.net = me[c].net]
                                      \* mutated: the other lines are dropped
Merged(c) == [node EXCEPT !.own = me[c].own, !.net = me[c].net]

FillHosts(c) ==
  /\ At(c, "fillHosts") /\ Answers(me[c].address)
  /\ node' = Merged(c)
  /\ End(c, "ready")
  /\ UNCHANGED <<sim, services>>

(* `sudo -n tee' fails, before the truncation or after it, and a plain tee *)
(* gets the same content; if that fails as well, the deployment does.      *)
TeeFails(c) ==
  /\ me[c].pc \in {"emptyHosts", "fillHosts"}
  /\ IF me[c].plain
       THEN End(c, "idle")
       ELSE Become(c, [me[c] EXCEPT !.pc = "emptyHosts", !.plain = TRUE])
  /\ LooksOnly
-----------------------------------------------------------------------------
(***************************************************************************)
(* resolve_active_jump_host: look the service up until it answers, and     *)
(* return its address.                                                     *)
(***************************************************************************)
Find(c) ==
  /\ At(c, "find")
  /\ \/ Cardinality(Listed) > 1 /\ End(c, "idle")
     \/ \E s \in Listed :
          /\ Listed = {s} /\ s.address # 0
          /\ Become(c, [me[c] EXCEPT !.pc = "tcp", !.address = s.address])
  /\ LooksOnly

NextTryRetained == "tcp"              \* mutated: the address found is kept
NextTry == "find"

TestEndpoint(c) ==
  /\ At(c, "tcp")
  /\ IF Answers(me[c].address)
       THEN Become(c, [Fresh("resolved") EXCEPT !.address = me[c].address])
       ELSE Goto(c, NextTry)
  /\ LooksOnly
-----------------------------------------------------------------------------
(* A wait finds its deadline passed, after a look that was in vain; that   *)
(* of ensure_jump_host has created a service if there was none.  The       *)
(* caller of ensure_ready looks at one address until then.                 *)
Waits(c) ==
  \/ At(c, "waking") /\ ~sim.up
  \/ /\ At(c, "resolve") /\ Candidates(c) # {}
     /\ \A s \in Candidates(c) : s.address = 0
  \/ At(c, "probe") /\ ~Answers(me[c].address)
  \/ At(c, "find") /\ \A s \in Listed : s.address = 0
  \/ At(c, "tcp") /\ ~Answers(me[c].address)

TimeOut(c) == Waits(c) /\ End(c, "idle") /\ LooksOnly

Kill(c) == me[c].pc \notin Resting /\ End(c, "killed") /\ LooksOnly

(***************************************************************************)
(* Air and other people.                                                   *)
(***************************************************************************)
Boot ==
  /\ sim.wanted /\ ~sim.up /\ sim.boot < MaxBoots
  /\ sim' = [up |-> TRUE, wanted |-> FALSE, boot |-> sim.boot + 1]
  /\ UNCHANGED <<services, node, me, hist>>

ShutDown ==
  /\ sim.up /\ sim.boot < MaxBoots
  /\ sim' = [sim EXCEPT !.up = FALSE, !.wanted = FALSE]
  /\ UNCHANGED <<services, node, me, hist>>

Forward(s) ==
  /\ sim.up /\ s.address # sim.boot
  /\ services' = (services \ {s}) \cup {[s EXCEPT !.address = sim.boot]}
  /\ UNCHANGED <<sim, node, me, hist>>

List(s) ==
  /\ ~s.listed
  /\ services' = (services \ {s}) \cup {[s EXCEPT !.listed = TRUE]}
  /\ UNCHANGED <<sim, node, me, hist>>

InjectKey ==
  /\ sim.up /\ ~node.key
  /\ node' = [node EXCEPT !.key = TRUE]
  /\ UNCHANGED <<sim, services, me, hist>>

Step(c) ==
  \/ Look(c) \/ Woken(c) \/ Resolve(c) \/ CreateService(c)
  \/ Probe(c) \/ RotatePassword(c)
  \/ ReadHosts(c) \/ EmptyHosts(c) \/ FillHosts(c)
  \/ ~Answers(me[c].address) /\ TeeFails(c)
  \/ Find(c) \/ TestEndpoint(c)

Next ==
  \/ \E c \in Clients :
       Launch(c) \/ Step(c) \/ TeeFails(c) \/ TimeOut(c) \/ Kill(c)
  \/ Boot \/ ShutDown \/ InjectKey
  \/ \E s \in services : Forward(s) \/ List(s)

Spec == Init /\ [][Next]_vars

(***************************************************************************)
(* Processes go on, a deployment ends when its deadline has passed,        *)
(* commands keep being given, and Air gets on with what it has accepted.   *)
(* That an access command reaches its deadline is never relied on.         *)
(***************************************************************************)
Fairness ==
  /\ \A c \in Clients : WF_vars(Step(c)) /\ WF_vars(Launch(c))
  /\ \A c \in Clients : WF_vars(me[c].cmd = "deploy" /\ TimeOut(c))
  /\ WF_vars(Boot) /\ WF_vars(InjectKey)
  /\ WF_vars(\E s \in services : Forward(s))
  /\ WF_vars(\E s \in services : List(s))

FairSpec == Spec /\ Fairness
-----------------------------------------------------------------------------
(***************************************************************************)
(* When a deployment goes on to install, the node accepts the key without  *)
(* a password change and the names on it are those of its own network,     *)
(* whatever earlier runs were stopped in the middle of and whatever others *)
(* do meanwhile (ensure_ready).                                            *)
(***************************************************************************)
ReadyMeansReady ==
  [][\A c \in Clients :
       ~At(c, "ready") /\ At(c, "ready")' =>
         /\ node'.key /\ ~node'.expired
         /\ node'.net = me[c].net]_vars

(***************************************************************************)
(* The lines of the hosts file that are not ours survive any number of     *)
(* deployments with different networks, and a first tee that fails half-   *)
(* way.  Only a write cut off for good after the truncation, or two        *)
(* deployments at once, loses them (merge_hosts_file, and the unguarded    *)
(* read and writes of _configure_dns).                                     *)
(***************************************************************************)
OthersLinesKept ==
  \/ node.own \/ hist.raced \/ hist.cut
  \/ \E c \in Clients : HoldsLines(c)

(***************************************************************************)
(* There is never a second SSH service, which would make find_jump_host    *)
(* refuse for ever, although Air lists the first one late; unless two      *)
(* deployments overlap or one ends before its service is listed.           *)
(***************************************************************************)
OneService == Cardinality(services) <= 1 \/ hist.raced \/ hist.lost

(* From some time on nobody stops a deployment or an access command, and   *)
(* of the two tees one that reaches the node succeeds.  A command that     *)
(* fails by itself, at a rotation, a read, a deadline, may do so again and *)
(* again.                                                                  *)
LeftAlone ==
  <>[][\A c \in Clients :
         /\ ~Kill(c)
         /\ ~(me[c].plain /\ Answers(me[c].address) /\ TeeFails(c))]_vars

(***************************************************************************)
(* A deployment given again gets past the jump host, wherever the earlier  *)
(* ones were stopped and though the password may be rotated before the key *)
(* is in place, when a rotation can no longer succeed.                     *)
(***************************************************************************)
DeployGetsReady ==
  LeftAlone =>
    \A c \in Clients : Commands[c] = {"deploy"} => []<>At(c, "ready")
=============================================================================
