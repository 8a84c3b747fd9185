--------------------- MODULE SimulationLifecycle_proofs ---------------------
(***************************************************************************)
(* Proofs about SimulationLifecycle, for any processes and commands: its   *)
(* types, and that it implements PowerPromise.  What makes the answers     *)
(* true is LifecycleInv: where a process is says what it asked for, how    *)
(* far the shutdown has come that it waits for, and that the id it will    *)
(* use is of a simulation of the project, or of one that is gone.          *)
(***************************************************************************)
EXTENDS SimulationLifecycle, TLAPS

Process == [pc : Places, cmd : Names \cup {"none"}, id : Nat]

(* A request is pending only in the status it is to leave.                 *)
RequestsFit ==
  /\ sim.req = "start" => sim.status = "INACTIVE"
  /\ sim.req = "stop" => sim.status = "ACTIVE"

(* The history is up to date with what the simulation does now.            *)
SinceFits == \A c \in Clients : since[c] = Promise!Stage(since[c], Power, sim.req)

(* What process c, with place and locals m, may rely on.                   *)
Relies(m, stage) ==
  /\ m.pc \notin Resting => m.cmd \in Names
  /\ m.pc \in {"stop", "capacity", "start"} =>
       m.id <= sim.id /\ (m.id = sim.id => sim.managed)
  /\ m.pc \in {"stop", "stopped", "awaitStop"} => m.cmd # "start"
  /\ m.pc = "stopped" => m.cmd # "restart" /\ stage # "nothing"
  /\ m.pc = "awaitStop" => m.cmd # "stop"
  /\ m.pc = "joinStart" => m.cmd = "start"
  /\ m.pc \in {"joinStop", "capacity", "start", "awaitStart"} =>
       m.cmd \in {"start", "restart"}
  /\ m.pc \in {"capacity", "start", "awaitStart"} =>
       (m.cmd = "restart" => stage = "off")

LifecycleInv ==
  /\ TypeOK
  /\ RequestsFit
  /\ SinceFits
  /\ \A c \in Clients : Relies(me[c], since[c])

(***************************************************************************)
(* A stage never goes back, and being off is the last.                     *)
(***************************************************************************)
LEMMA Stages ==
  ASSUME NEW was \in {"nothing", "stopping", "off"}, NEW p, NEW w
  PROVE  /\ Promise!Stage(was, p, w) \in {"nothing", "stopping", "off"}
         /\ Promise!Stage(Promise!Stage(was, p, w), p, w) = Promise!Stage(was, p, w)
         /\ was = "off" => Promise!Stage(was, p, w) = "off"
         /\ was # "nothing" => Promise!Stage(was, p, w) # "nothing"
         /\ p = "off" => Promise!Stage(was, p, w) = "off"
         /\ p = "falling" \/ w = "stop" => Promise!Stage(was, p, w) # "nothing"
BY DEF Promise!Stage

(***************************************************************************)
(* When a process moves, the mapped calls change at that process alone.    *)
(***************************************************************************)
LEMMA CallsChange ==
  ASSUME me \in [Clients -> Process], NEW c \in Clients, NEW r,
         me' = [me EXCEPT ![c] = r]
  PROVE  [d \in Clients |-> Call(me[d])]'
           = [[d \in Clients |-> Call(me[d])] EXCEPT ![c] = Call(r)]
BY DEF Call

LEMMA Initially == Init => LifecycleInv
<1> SUFFICES ASSUME Init PROVE LifecycleInv
  OBVIOUS
<1> USE DEF Init
<1>1. TypeOK
  BY Stages, MaxForeignAssumption
    DEF TypeOK, Places, Resting, AirSimulationStatus, Power, Promise!Stage
<1>2. RequestsFit
  BY DEF RequestsFit
<1>3. SinceFits
  BY Stages DEF SinceFits
<1>4. \A c \in Clients : Relies(me[c], since[c])
  BY DEF Relies, Resting
<1> QED
  BY <1>1, <1>2, <1>3, <1>4 DEF LifecycleInv

(***************************************************************************)
(* What a step shows: the invariant again, and a step of the promise or    *)
(* nothing that the promise speaks of.                                     *)
(***************************************************************************)
Implements == LifecycleInv' /\ (Promise!Next \/ UNCHANGED Promise!pvars)

(* The guard of PowerPromise's answer, for a process with locals m.        *)
MayAnswer(m, stage) ==
  /\ sim.managed
  /\ m.cmd \in {"start", "restart"} => sim.status = "ACTIVE"
  /\ m.cmd = "restart" => stage = "off"
  /\ m.cmd = "stopWait" => sim.status = "INACTIVE"
  /\ m.cmd = "stop" => stage # "nothing"

(***************************************************************************)
(* A step of a running process that changes its own record only.           *)
(***************************************************************************)
LEMMA Moving ==
  ASSUME LifecycleInv, NEW c \in Clients, me[c].pc \notin Resting,
         NEW r \in Process, r.cmd = me[c].cmd, r.pc # "idle",
         me' = [me EXCEPT ![c] = r], LooksOnly,
         Relies(r, since[c]),
         r.pc = "done" => MayAnswer(r, since[c])
  PROVE  Implements
<1>1. me \in [Clients -> Process] /\ TypeOK
  BY DEF LifecycleInv, TypeOK, Process
<1>2. LifecycleInv'
  <2>1. TypeOK'
    BY <1>1 DEF TypeOK, LooksOnly, Process
  <2>2. RequestsFit' /\ SinceFits'
    BY DEF LifecycleInv, RequestsFit, SinceFits, LooksOnly, Power
  <2>3. \A d \in Clients : Relies(me[d], since[d])'
    BY <1>1 DEF LifecycleInv, Relies, LooksOnly
  <2> QED
    BY <2>1, <2>2, <2>3 DEF LifecycleInv
<1>3. [d \in Clients |-> Call(me[d])]'
        = [[d \in Clients |-> Call(me[d])] EXCEPT ![c] = Call(r)]
  BY <1>1, CallsChange
<1>4. UNCHANGED <<Power, sim.req, sim.managed, since>>
  BY DEF LooksOnly, Power
<1>5. /\ me[c].cmd \in Names
      /\ Call(me[c]) = me[c].cmd
  BY DEF LifecycleInv, Relies, Call, Resting
<1>6. CASE r.pc \notin Resting
  <2>1. Call(r) = Call(me[c])
    BY <1>6, <1>5 DEF Call, Resting
  <2> QED
    BY <2>1, <1>2, <1>3, <1>4 DEF Implements, Promise!pvars
<1>7. CASE r.pc = "done"
  <2>1. Call(r) = "answered"
    BY <1>7 DEF Call
  <2>2. Promise!Answer(c)
    BY <2>1, <1>3, <1>4, <1>5, <1>7
      DEF Promise!Answer, Promise!Calls, Names, MayAnswer, Power
  <2> QED
    BY <2>2, <1>2 DEF Implements, Promise!Next
<1>8. CASE r.pc \in Resting \ {"done"}
  <2>1. Call(r) = "failed"
    BY <1>8 DEF Call
  <2>2. Promise!Fail(c)
    BY <2>1, <1>3, <1>4, <1>5 DEF Promise!Fail, Promise!Calls, Names
  <2> QED
    BY <2>2, <1>2 DEF Implements, Promise!Next
<1> QED
  BY <1>6, <1>7, <1>8

(***************************************************************************)
(* One lemma per step of a process that looks.                             *)
(***************************************************************************)
LEMMA LookGood ==
  ASSUME LifecycleInv, NEW c \in Clients, Look(c)
  PROVE  Implements
<1>1. /\ me[c] \in Process /\ me[c].pc = "look" /\ me[c].cmd \in Names
      /\ sim.id \in Nat /\ LooksOnly
      /\ since[c] = Promise!Stage(since[c], Power, sim.req)
  BY DEF LifecycleInv, TypeOK, Process, Look, At, Relies, Resting, SinceFits
<1>2. me[c].pc \notin Resting
  BY <1>1 DEF Resting
<1>3. CASE Unseen
  <2> DEFINE r == [me[c] EXCEPT !.pc = "failed"]
  <2>1. me' = [me EXCEPT ![c] = r]
    BY <1>3, <1>1 DEF Look, Goto
  <2>2. r \in Process /\ r.cmd = me[c].cmd /\ r.pc = "failed"
    BY <1>1 DEF Process, Places, Resting
  <2>3. Relies(r, since[c])
    BY <2>2, <1>1 DEF Relies, Resting
  <2> QED
    BY <2>1, <2>2, <2>3, <1>1, <1>2, Moving
<1>4. CASE ~Unseen
  <2>1. PICK p :
          /\ me' = [me EXCEPT ![c] = [@ EXCEPT !.pc = p, !.id = sim.id]]
          /\ p = CASE me[c].cmd = "start"    -> StartPlace(sim.status)
                   [] me[c].cmd = "restart"  -> RestartPlace(sim.status)
                   [] me[c].cmd = "stop"     -> StopPlace(sim.status, FALSE)
                   [] me[c].cmd = "stopWait" -> StopPlace(sim.status, TRUE)
    BY <1>4 DEF Look, GotoSeen
  <2> DEFINE r == [me[c] EXCEPT !.pc = p, !.id = sim.id]
  <2>2. me' = [me EXCEPT ![c] = r]
    BY <2>1, <1>1 DEF Process
  <2>3. /\ p \in {"done", "failed", "joinStart", "joinStop", "awaitStop",
                   "capacity", "stop"}
        /\ p = "done" => sim.status \in {"ACTIVE", "INACTIVE"} \cup STOPPING_STATUSES
        /\ p = "done" /\ me[c].cmd = "start" => sim.status = "ACTIVE"
        /\ p = "done" /\ me[c].cmd = "stopWait" => sim.status = "INACTIVE"
        /\ p = "done" /\ me[c].cmd = "stop" =>
             sim.status \in {"INACTIVE"} \cup STOPPING_STATUSES
        /\ p = "done" => me[c].cmd # "restart"
        /\ p = "joinStart" => me[c].cmd = "start"
        /\ p \in {"joinStop", "capacity"} => me[c].cmd \in {"start", "restart"}
        /\ p = "awaitStop" => me[c].cmd = "stopWait"
        /\ p = "stop" => me[c].cmd # "start"
        /\ p = "capacity" => sim.status = "INACTIVE"
    BY <2>1, <1>1 DEF StartPlace, RestartPlace, StopPlace, Names,
         STARTING_STATUSES, STOPPING_STATUSES, SimulationStopping
  <2>4. r \in Process /\ r.cmd = me[c].cmd /\ r.pc = p /\ r.id = sim.id
    BY <2>3, <1>1 DEF Process, Places, Resting, Waiting
  <2>5. sim.managed
    BY <1>4 DEF Unseen
  <2>6. Relies(r, since[c])
    <3>1. p = "capacity" => since[c] = "off"
      BY <2>3, <1>1 DEF Power, Promise!Stage
    <3> QED
      BY <3>1, <2>3, <2>4, <2>5, <1>1 DEF Relies
  <2>7. r.pc = "done" => MayAnswer(r, since[c])
    <3>1. sim.status \in {"INACTIVE"} \cup STOPPING_STATUSES =>
            since[c] # "nothing"
      BY <1>1 DEF Power, Promise!Stage, STOPPING_STATUSES, SimulationStopping
    <3> QED
      BY <3>1, <2>3, <2>4, <2>5 DEF MayAnswer
  <2> HIDE DEF r
  <2> QED
    BY <2>2, <2>3, <2>4, <2>6, <2>7, <1>1, <1>2, Moving
<1> QED
  BY <1>3, <1>4

(***************************************************************************)
(* A process that looks and fails, times out or is interrupted.            *)
(***************************************************************************)
LEMMA EndingGood ==
  ASSUME LifecycleInv, NEW c \in Clients, me[c].pc \notin Resting,
         NEW p \in {"failed", "timedout", "interrupted"},
         Goto(c, p), LooksOnly
  PROVE  Implements
<1> DEFINE r == [me[c] EXCEPT !.pc = p]
<1>1. me[c] \in Process /\ sim.id \in Nat
  BY DEF LifecycleInv, TypeOK, Process
<1>2. me' = [me EXCEPT ![c] = r]
  BY DEF Goto
<1>3. r \in Process /\ r.cmd = me[c].cmd /\ r.pc = p
  BY <1>1 DEF Process, Places, Resting
<1>4. Relies(r, since[c])
  BY <1>3 DEF Relies, Resting
<1> QED
  BY <1>2, <1>3, <1>4, Moving

LEMMA SecondLookGood ==
  ASSUME LifecycleInv, NEW c \in Clients, SecondLook(c)
  PROVE  Implements
<1>1. /\ me[c] \in Process /\ me[c].pc = "stopped" /\ LooksOnly
      /\ me[c].cmd \in {"stop", "stopWait"} /\ since[c] # "nothing"
      /\ me[c].pc \notin Resting
  BY DEF LifecycleInv, TypeOK, Process, SecondLook, At, Relies, Resting, Names
<1>2. CASE Unseen
  BY <1>1, <1>2, EndingGood DEF SecondLook
<1>3. CASE ~Unseen
  <2>1. PICK p \in {"done", "awaitStop"} :
          /\ me' = [me EXCEPT ![c] = [me[c] EXCEPT !.pc = p]]
          /\ p = "done" /\ me[c].cmd = "stopWait" => sim.status = "INACTIVE"
          /\ p = "awaitStop" => me[c].cmd = "stopWait"
    BY <1>3, <1>1 DEF SecondLook, Goto
  <2> DEFINE r == [me[c] EXCEPT !.pc = p]
  <2>2. r \in Process /\ r.cmd = me[c].cmd /\ r.pc = p
    BY <1>1 DEF Process, Places, Resting, Waiting
  <2>3. Relies(r, since[c])
    BY <2>1, <2>2, <1>1 DEF Relies, Names
  <2>4. r.pc = "done" => MayAnswer(r, since[c])
    BY <2>1, <2>2, <1>1, <1>3 DEF MayAnswer, Unseen
  <2> HIDE DEF r
  <2>5. me' = [me EXCEPT ![c] = r]
    BY <2>1 DEF r
  <2> QED
    BY <2>2, <2>3, <2>4, <2>5, <1>1, Moving
<1> QED
  BY <1>2, <1>3

LEMMA CheckCapacityGood ==
  ASSUME LifecycleInv, NEW c \in Clients, CheckCapacity(c)
  PROVE  Implements
<1>1. /\ me[c] \in Process /\ me[c].pc = "capacity" /\ LooksOnly
      /\ me[c].pc \notin Resting
  BY DEF LifecycleInv, TypeOK, Process, CheckCapacity, At, Resting
<1>2. CASE Goto(c, "failed")
  BY <1>1, <1>2, EndingGood
<1>3. CASE Goto(c, "start")
  <2> DEFINE r == [me[c] EXCEPT !.pc = "start"]
  <2>1. me' = [me EXCEPT ![c] = r]
    BY <1>3 DEF Goto
  <2>2. /\ r \in Process /\ r.cmd = me[c].cmd /\ r.pc = "start"
        /\ r.id = me[c].id
    BY <1>1 DEF Process, Places
  <2>3. Relies(r, since[c])
    BY <2>2, <1>1 DEF LifecycleInv, Relies
  <2> HIDE DEF r
  <2> QED
    BY <2>1, <2>2, <2>3, <1>1, Moving
<1> QED
  BY <1>2, <1>3 DEF CheckCapacity

LEMMA WaitGood ==
  ASSUME LifecycleInv, NEW c \in Clients, Wait(c)
  PROVE  Implements
<1>1. /\ me[c] \in Process /\ me[c].pc \in Waiting /\ LooksOnly
      /\ me[c].pc \notin Resting /\ sim.id \in Nat
      /\ since[c] = Promise!Stage(since[c], Power, sim.req)
      /\ Relies(me[c], since[c])
  BY DEF LifecycleInv, TypeOK, Process, Wait, Resting, Waiting, SinceFits
<1>2. CASE Goto(c, "failed") \/ Goto(c, "timedout")
  BY <1>1, <1>2, EndingGood
<1>3. CASE /\ ~Unseen /\ sim.status = Target(me[c].pc)
           /\ GotoSeen(c, Reached(c))
  <2>1. PICK p \in {"done", "capacity"} :
          /\ me' = [me EXCEPT ![c] = [me[c] EXCEPT !.pc = p, !.id = sim.id]]
          /\ me[c].pc \in {"joinStart", "awaitStart"} => p = "done"
          /\ p = "done" <=> \/ sim.status = "ACTIVE"
                            \/ me[c].cmd = "stopWait"
    BY <1>3 DEF GotoSeen, Reached, Target
  <2> DEFINE r == [me[c] EXCEPT !.pc = p, !.id = sim.id]
  <2>2. /\ r \in Process /\ r.cmd = me[c].cmd /\ r.pc = p /\ r.id = sim.id
    BY <1>1 DEF Process, Places, Resting
  <2>3. /\ sim.managed
        /\ sim.status = "INACTIVE" => since[c] = "off"
    BY <1>1, <1>3 DEF Unseen, Power, Promise!Stage
  <2>4. sim.status = IF me[c].pc \in {"joinStart", "awaitStart"}
                      THEN "ACTIVE" ELSE "INACTIVE"
    BY <1>3 DEF Target
  <2>5. Relies(r, since[c])
    BY <2>1, <2>2, <2>3, <2>4, <1>1 DEF Relies, Names, Waiting, Resting
  <2>6. r.pc = "done" => MayAnswer(r, since[c])
    BY <2>1, <2>2, <2>3, <2>4, <1>1 DEF MayAnswer, Relies, Names, Waiting
  <2> HIDE DEF r
  <2>7. me' = [me EXCEPT ![c] = r]
    BY <2>1 DEF r
  <2> QED
    BY <2>2, <2>5, <2>6, <2>7, <1>1, Moving
<1> QED
  BY <1>2, <1>3 DEF Wait, TimeOut

LEMMA GiveUpGood ==
  ASSUME LifecycleInv, NEW c \in Clients, GiveUp(c)
  PROVE  Implements
BY EndingGood DEF GiveUp

LEMMA LaunchGood ==
  ASSUME LifecycleInv, NEW c \in Clients, Launch(c)
  PROVE  Implements
<1> USE DEF LifecycleInv
<1>1. PICK command \in Names :
        me' = [me EXCEPT ![c] = [pc |-> "look", cmd |-> command, id |-> 0]]
  BY CommandsAssumption DEF Launch, Names
<1> DEFINE r == [pc |-> "look", cmd |-> command, id |-> 0]
<1>2. /\ me \in [Clients -> Process] /\ me[c].pc \in Resting
      /\ since \in [Clients -> {"nothing", "stopping", "off"}]
      /\ quiet \in [Clients -> BOOLEAN]
      /\ since' = [since EXCEPT ![c] = Promise!Stage("nothing", Power, sim.req)]
      /\ quiet' = [quiet EXCEPT ![c] = TRUE]
      /\ UNCHANGED <<sim, foreign, Power>>
  BY DEF Launch, TypeOK, Process, Power
<1>3. r \in Process
  BY DEF Process, Places
<1>4. since' \in [Clients -> {"nothing", "stopping", "off"}]
  BY <1>2, Stages
<1>5. TypeOK'
  <2>1. me' \in [Clients -> Process]
    BY <1>1, <1>2, <1>3
  <2> QED
    BY <2>1, <1>2, <1>4 DEF TypeOK, Process
<1>6. RequestsFit' /\ SinceFits'
  <2>1. \A d \in Clients :
          since'[d] = Promise!Stage(since'[d], Power, sim.req)
    BY <1>2, Stages DEF SinceFits
  <2> QED
    BY <2>1, <1>2 DEF RequestsFit, SinceFits
<1>7. \A d \in Clients : Relies(me[d], since[d])'
  <2>1. Relies(r, since[c])'
    BY <1>2 DEF Relies, Resting
  <2>2. \A d \in Clients \ {c} : me'[d] = me[d] /\ since'[d] = since[d]
    BY <1>1, <1>2
  <2>3. me'[c] = r
    BY <1>1, <1>2
  <2> QED
    BY <2>1, <2>2, <2>3, <1>2 DEF Relies
<1>8. Promise!Ask(c, command)
  <2>1. Call(me[c]) \in {"idle", "answered", "failed"}
    BY <1>2 DEF Call
  <2>2. Call(r) = command
    BY DEF Call, Resting
  <2>3. [d \in Clients |-> Call(me[d])]'
          = [[d \in Clients |-> Call(me[d])] EXCEPT ![c] = command]
    BY <1>1, <1>2, <2>2, CallsChange
  <2> QED
    BY <2>1, <2>3, <1>2 DEF Promise!Ask, Promise!Endings
<1> QED
  BY <1>5, <1>6, <1>7, <1>8
    DEF Implements, Promise!Next, Promise!Calls, Names

(***************************************************************************)
(* The two requests: refused, they are an ending; accepted, a request of   *)
(* the promise.                                                            *)
(***************************************************************************)
LEMMA RequestStopGood ==
  ASSUME LifecycleInv, NEW c \in Clients, RequestStop(c)
  PROVE  Implements
<1>1. /\ me \in [Clients -> Process] /\ TypeOK
      /\ me[c] \in Process /\ me[c].pc = "stop" /\ me[c].pc \notin Resting
      /\ me[c].cmd \in {"stop", "stopWait", "restart"}
      /\ me[c].id = sim.id => sim.managed
      /\ SinceFits
  BY DEF LifecycleInv, TypeOK, Process, RequestStop, At, Resting, Relies, Names
<1>2. CASE ~RequestedOf(c, "ACTIVE")
  <2>1. Goto(c, "failed") /\ UNCHANGED <<sim, quiet, foreign>>
    BY <1>2 DEF RequestStop
  <2>2. since' = since
    BY <2>1, <1>1 DEF RequestStop, SinceFits, TypeOK
  <2> QED
    BY <2>1, <2>2, <1>1, EndingGood DEF LooksOnly
<1>3. CASE RequestedOf(c, "ACTIVE")
  <2> DEFINE p == IF me[c].cmd = "restart" THEN "awaitStop" ELSE "stopped"
             r == [me[c] EXCEPT !.pc = p]
  <2>1. /\ sim' = [sim EXCEPT !.req = "stop"]
        /\ me' = [me EXCEPT ![c] = r]
        /\ quiet' = [d \in Clients |-> quiet[d] /\ d \notin Clients \ {c}]
        /\ since' = [d \in Clients |-> Promise!Stage(since[d], Power, "stop")]
        /\ foreign' = foreign
    BY <1>3, <1>1 DEF RequestStop, Goto, Meddled, TypeOK
  <2>2. /\ sim.status = "ACTIVE" /\ sim.managed
        /\ sim'.status = "ACTIVE" /\ sim'.req = "stop"
        /\ sim'.id = sim.id /\ sim'.managed = sim.managed
    BY <2>1, <1>1, <1>3 DEF RequestedOf, TypeOK
  <2>3. /\ r \in Process /\ r.cmd = me[c].cmd /\ r.pc = p
        /\ p \in {"awaitStop", "stopped"}
    BY <1>1 DEF Process, Places, Waiting
  <2>4. Power = "on" /\ Power' = "on"
    BY <2>2 DEF Power
  <2>5. \A d \in Clients :
          /\ since'[d] \in {"nothing", "stopping", "off"}
          /\ since'[d] # "nothing"
          /\ since[d] = "off" => since'[d] = "off"
          /\ since'[d] = Promise!Stage(since'[d], Power', "stop")
    BY <2>1, <2>4, <1>1, Stages DEF TypeOK
  <2>6. TypeOK'
    <3>1. me' \in [Clients -> Process]
      BY <2>1, <2>3, <1>1
    <3>2. sim' \in [id : Nat, managed : BOOLEAN, req : {"none", "start", "stop"},
                    status : AirSimulationStatus \cup {"none"}]
      BY <2>1, <1>1 DEF TypeOK
    <3>3. quiet' \in [Clients -> BOOLEAN]
      BY <2>1
    <3>4. since' \in [Clients -> {"nothing", "stopping", "off"}]
      BY <2>1, <2>5
    <3> QED
      BY <3>1, <3>2, <3>3, <3>4, <2>1, <1>1 DEF TypeOK, Process
  <2>7. RequestsFit' /\ SinceFits'
    BY <2>2, <2>5 DEF RequestsFit, SinceFits
  <2>8. \A d \in Clients : Relies(me[d], since[d])'
    <3> SUFFICES ASSUME NEW d \in Clients PROVE Relies(me[d], since[d])'
      OBVIOUS
    <3>1. Relies(me[d], since[d])
      BY DEF LifecycleInv
    <3>2. CASE d = c
      <4>1. me'[d] = r
        BY <3>2, <2>1, <1>1
      <4> QED
        BY <4>1, <3>2, <2>3, <2>5, <1>1 DEF Relies, Names
    <3>3. CASE d # c
      <4>1. me'[d] = me[d]
        BY <3>3, <2>1, <1>1
      <4> QED
        BY <4>1, <3>1, <2>2, <2>5 DEF Relies
    <3> QED
      BY <3>2, <3>3
  <2>9. Promise!Request(c)
    <3>1. Call(me[c]) = me[c].cmd /\ Call(r) = me[c].cmd
      BY <2>3, <1>1 DEF Call, Resting
    <3>2. [d \in Clients |-> Call(me[d])]' = [d \in Clients |-> Call(me[d])]
      BY <3>1, <2>1, <1>1, CallsChange
    <3>3. since' = [d \in Clients |-> Promise!Stage(since[d], Power', sim'.req)]
      BY <2>1, <2>2, <2>4
    <3> QED
      BY <3>1, <3>2, <3>3, <2>2, <2>4, <1>1
        DEF Promise!Request, Promise!Watched
  <2> QED
    BY <2>6, <2>7, <2>8, <2>9 DEF Implements, Promise!Next, LifecycleInv
<1> QED
  BY <1>2, <1>3

LEMMA RequestStartGood ==
  ASSUME LifecycleInv, NEW c \in Clients, RequestStart(c)
  PROVE  Implements
<1>1. /\ me \in [Clients -> Process] /\ TypeOK
      /\ me[c] \in Process /\ me[c].pc = "start" /\ me[c].pc \notin Resting
      /\ me[c].cmd \in {"start", "restart"}
      /\ me[c].cmd = "restart" => since[c] = "off"
      /\ me[c].id = sim.id => sim.managed
      /\ SinceFits /\ since' = since /\ foreign' = foreign
  BY DEF LifecycleInv, TypeOK, Process, RequestStart, At, Resting, Relies, Names
<1>2. CASE ~RequestedOf(c, "INACTIVE")
  BY <1>1, <1>2, EndingGood DEF RequestStart, LooksOnly
<1>3. CASE RequestedOf(c, "INACTIVE")
  <2> DEFINE r == [me[c] EXCEPT !.pc = "awaitStart"]
  <2>1. /\ sim' = [sim EXCEPT !.req = "start"]
        /\ me' = [me EXCEPT ![c] = r]
        /\ quiet' = [d \in Clients |-> quiet[d] /\ d \notin Clients \ {c}]
    BY <1>3 DEF RequestStart, Goto, Meddled
  <2>2. /\ sim.status = "INACTIVE" /\ sim.managed
        /\ sim'.status = "INACTIVE" /\ sim'.req = "start"
        /\ sim'.id = sim.id /\ sim'.managed = sim.managed
    BY <2>1, <1>1, <1>3 DEF RequestedOf, TypeOK
  <2>3. r \in Process /\ r.cmd = me[c].cmd /\ r.pc = "awaitStart"
    BY <1>1 DEF Process, Places, Waiting
  <2>4. Power = "off" /\ Power' = "off"
    BY <2>2 DEF Power
  <2>5. \A d \in Clients :
          since[d] = "off" /\ since[d] = Promise!Stage(since[d], "off", "start")
    BY <2>4, <1>1 DEF SinceFits, Promise!Stage
  <2>6. TypeOK'
    <3>1. me' \in [Clients -> Process]
      BY <2>1, <2>3, <1>1
    <3>2. sim' \in [id : Nat, managed : BOOLEAN, req : {"none", "start", "stop"},
                    status : AirSimulationStatus \cup {"none"}]
      BY <2>1, <1>1 DEF TypeOK
    <3>3. quiet' \in [Clients -> BOOLEAN]
      BY <2>1
    <3> QED
      BY <3>1, <3>2, <3>3, <1>1 DEF TypeOK, Process
  <2>7. RequestsFit' /\ SinceFits'
    BY <2>2, <2>4, <2>5, <1>1 DEF RequestsFit, SinceFits
  <2>8. \A d \in Clients : Relies(me[d], since[d])'
    <3> SUFFICES ASSUME NEW d \in Clients PROVE Relies(me[d], since[d])'
      OBVIOUS
    <3>1. Relies(me[d], since[d])
      BY DEF LifecycleInv
    <3>2. CASE d = c
      <4>1. me'[d] = r
        BY <3>2, <2>1, <1>1
      <4> QED
        BY <4>1, <3>2, <2>3, <2>5, <1>1 DEF Relies, Names
    <3>3. CASE d # c
      <4>1. me'[d] = me[d]
        BY <3>3, <2>1, <1>1
      <4> QED
        BY <4>1, <3>1, <2>2, <1>1 DEF Relies
    <3> QED
      BY <3>2, <3>3
  <2>9. Promise!Request(c)
    <3>1. Call(me[c]) = me[c].cmd /\ Call(r) = me[c].cmd
      BY <2>3, <1>1 DEF Call, Resting
    <3>2. [d \in Clients |-> Call(me[d])]' = [d \in Clients |-> Call(me[d])]
      BY <3>1, <2>1, <1>1, CallsChange
    <3>3. since' = [d \in Clients |-> Promise!Stage(since[d], Power', sim'.req)]
      BY <2>2, <2>4, <2>5, <1>1 DEF TypeOK
    <3> QED
      BY <3>1, <3>2, <3>3, <2>2, <2>4, <1>1
        DEF Promise!Request, Promise!Watched
  <2> QED
    BY <2>6, <2>7, <2>8, <2>9 DEF Implements, Promise!Next, LifecycleInv
<1> QED
  BY <1>2, <1>3

(***************************************************************************)
(* Whatever status the simulation gets from Air or from other people.      *)
(***************************************************************************)
LEMMA ElsewhereGood ==
  ASSUME LifecycleInv, UNCHANGED me,
         foreign' \in 0..MaxForeign, quiet' \in [Clients -> BOOLEAN],
         sim' \in [id : Nat, managed : BOOLEAN, req : {"none"},
                  status : AirSimulationStatus \cup {"none"}],
         sim'.id >= sim.id,
         sim'.id = sim.id => sim'.managed = sim.managed,
         since' = [c \in Clients |-> Promise!Stage(since[c], Power', "none")]
  PROVE  Implements
<1>1. /\ since \in [Clients -> {"nothing", "stopping", "off"}]
      /\ me \in [Clients -> Process] /\ sim.id \in Nat /\ TypeOK
  BY DEF LifecycleInv, TypeOK, Process
<1>2. \A d \in Clients :
        /\ since'[d] \in {"nothing", "stopping", "off"}
        /\ since[d] = "off" => since'[d] = "off"
        /\ since[d] # "nothing" => since'[d] # "nothing"
        /\ since'[d] = Promise!Stage(since'[d], Power', "none")
  BY <1>1, Stages
<1>3. TypeOK'
  <2>1. since' \in [Clients -> {"nothing", "stopping", "off"}]
    BY <1>2
  <2> QED
    BY <2>1, <1>1 DEF TypeOK, Process
<1>4. RequestsFit' /\ SinceFits'
  BY <1>2 DEF RequestsFit, SinceFits
<1>5. \A d \in Clients : Relies(me[d], since[d])'
  <2> SUFFICES ASSUME NEW d \in Clients PROVE Relies(me[d], since[d])'
    OBVIOUS
  <2>1. Relies(me[d], since[d]) /\ me[d].id \in Nat
    BY <1>1 DEF LifecycleInv, Process
  <2> QED
    BY <2>1, <1>1, <1>2 DEF Relies
<1>6. Promise!Elsewhere
  <2>1. Power' \in Promise!Powers
    BY DEF Power, Promise!Powers
  <2>2. UNCHANGED [d \in Clients |-> Call(me[d])]
    OBVIOUS
  <2> QED
    BY <2>1, <2>2 DEF Promise!Elsewhere, Promise!Watched
<1> QED
  BY <1>3, <1>4, <1>5, <1>6 DEF Implements, Promise!Next, LifecycleInv

LEMMA BecomesGood ==
  ASSUME LifecycleInv, NEW status \in AirSimulationStatus \cup {"none"},
         Becomes(status),
         foreign' \in 0..MaxForeign, quiet' \in [Clients -> BOOLEAN]
  PROVE  Implements
<1>1. sim \in [id : Nat, managed : BOOLEAN, req : {"none", "start", "stop"},
              status : AirSimulationStatus \cup {"none"}]
  BY DEF LifecycleInv, TypeOK
<1>2. /\ sim' = [sim EXCEPT !.status = status, !.req = "none"]
      /\ since' = [c \in Clients |-> Promise!Stage(since[c], Power', "none")]
      /\ UNCHANGED me
  BY DEF Becomes
<1>3. /\ sim' \in [id : Nat, managed : BOOLEAN, req : {"none"},
                  status : AirSimulationStatus \cup {"none"}]
      /\ sim'.id = sim.id /\ sim'.managed = sim.managed
  BY <1>1, <1>2
<1>4. sim'.id >= sim.id
  BY <1>1, <1>3
<1> QED
  BY <1>2, <1>3, <1>4, ElsewhereGood

LEMMA AirNextGood ==
  ASSUME LifecycleInv, AirNext
  PROVE  Implements
<1>1. foreign \in 0..MaxForeign /\ quiet \in [Clients -> BOOLEAN]
  BY DEF LifecycleInv, TypeOK
<1>2. CASE BeginStart
  BY <1>1, <1>2, BecomesGood DEF BeginStart, AirSimulationStatus
<1>3. CASE BeginStop
  BY <1>1, <1>3, BecomesGood DEF BeginStop, AirSimulationStatus
<1>4. CASE Advance
  <2>1. Progress[sim.status] \in AirSimulationStatus \cup {"none"}
    BY <1>4 DEF Advance, Progress, AirSimulationStatus
  <2> QED
    BY <2>1, <1>1, <1>4, BecomesGood DEF Advance
<1>5. CASE LoseStart
  <2>1. quiet' \in [Clients -> BOOLEAN]
    BY <1>5 DEF LoseStart, Meddled
  <2> QED
    BY <2>1, <1>1, <1>5, BecomesGood DEF LoseStart, AirSimulationStatus
<1> QED
  BY <1>2, <1>3, <1>4, <1>5 DEF AirNext

LEMMA PeopleGood ==
  ASSUME LifecycleInv, Console \/ Import
  PROVE  Implements
<1>1. /\ foreign' \in 0..MaxForeign /\ quiet' \in [Clients -> BOOLEAN]
  <2>1. foreign \in 0..MaxForeign /\ foreign < MaxForeign
    BY DEF LifecycleInv, TypeOK, Console, Import
  <2>2. foreign' = foreign + 1 /\ Meddled(Clients)
    BY DEF Console, Import
  <2>3. quiet \in [Clients -> BOOLEAN]
    BY DEF LifecycleInv, TypeOK
  <2>4. quiet' \in [Clients -> BOOLEAN]
    BY <2>2 DEF Meddled
  <2> QED
    BY <2>1, <2>2, <2>4, MaxForeignAssumption
<1>2. CASE Console
  BY <1>1, <1>2, BecomesGood DEF Console, AirSimulationStatus
<1>3. CASE Import
  <2>1. sim.id \in Nat /\ since \in [Clients -> {"nothing", "stopping", "off"}]
    BY DEF LifecycleInv, TypeOK
  <2>2. PICK managed \in BOOLEAN :
          sim' = [id |-> sim.id + 1, managed |-> managed, req |-> "none",
                  status |-> "INACTIVE"]
    BY <1>3 DEF Import
  <2>3. since' = [c \in Clients |-> Promise!Stage(since[c], Power', "none")]
    BY <2>2, <1>3 DEF Import, Power, Promise!Stage
  <2> QED
    BY <2>1, <2>2, <2>3, <1>1, <1>3, ElsewhereGood DEF Import, AirSimulationStatus
<1> QED
  BY <1>2, <1>3

LEMMA StepGood ==
  ASSUME LifecycleInv, [Next]_vars
  PROVE  LifecycleInv' /\ [Promise!Next]_(Promise!pvars)
<1>1. ASSUME NEW c \in Clients, Launch(c) \/ Step(c) \/ GiveUp(c)
      PROVE  Implements
  BY <1>1, LaunchGood, GiveUpGood, LookGood, RequestStopGood, SecondLookGood,
     CheckCapacityGood, RequestStartGood, WaitGood DEF Step
<1>2. CASE AirNext \/ Console \/ Import
  BY <1>2, AirNextGood, PeopleGood DEF Implements
<1>3. CASE UNCHANGED vars
  <2>1. LifecycleInv'
    BY <1>3 DEF vars, LifecycleInv, TypeOK, RequestsFit, SinceFits, Relies, Power
  <2>2. UNCHANGED Promise!pvars
    BY <1>3 DEF vars, Promise!pvars, Power
  <2> QED
    BY <2>1, <2>2
<1> QED
  BY <1>1, <1>2, <1>3 DEF Next, Implements

(***************************************************************************)
(* Types hold in every reachable state.                                    *)
(***************************************************************************)
THEOREM LifecycleTypeCorrect == Spec => []TypeOK
<1>1. Init => LifecycleInv
  BY Initially
<1>2. LifecycleInv /\ [Next]_vars => LifecycleInv'
  BY StepGood
<1>3. LifecycleInv => TypeOK
  BY DEF LifecycleInv
<1> QED
  BY <1>1, <1>2, <1>3, PTL DEF Spec

(***************************************************************************)
(* The commands implement PowerPromise: with any number of processes and   *)
(* any behaviour of Air and other people, an answer is true when it is     *)
(* given, and requests reach only the project's simulation in the status   *)
(* they are for (core/simulation_lifecycle.py).                            *)
(***************************************************************************)
THEOREM PromiseHolds == Spec => PromiseKept
<1>1. Init => LifecycleInv
  BY Initially
<1>2. Init => Promise!Init
  <2> SUFFICES ASSUME Init PROVE Promise!Init
    OBVIOUS
  <2>1. /\ Power \in Promise!Powers /\ sim.req = "none"
        /\ sim.managed \in BOOLEAN
    BY DEF Init, Power, Promise!Powers
  <2>2. [c \in Clients |-> Call(me[c])] = [c \in Clients |-> "idle"]
    BY DEF Init, Call
  <2> QED
    BY <2>1, <2>2 DEF Promise!Init, Init
<1>3. LifecycleInv /\ [Next]_vars
        => LifecycleInv' /\ [Promise!Next]_(Promise!pvars)
  BY StepGood
<1> QED
  BY <1>1, <1>2, <1>3, PTL DEF Spec, PromiseKept, Promise!Spec

-----------------------------------------------------------------------------
(***************************************************************************)
(* NeverSurprised.  While nobody else meddles, a wait sees the statuses on *)
(* the way to its target and no others, and no request is pending that     *)
(* leads away from there.                                                  *)
(***************************************************************************)
Course(p) ==
  Allowed(IF p = "stopped" THEN "awaitStop" ELSE p) \cup {Target(p)}

OnCourse(m) ==
  m.pc \in Waiting \cup {"stopped"} =>
    /\ sim.managed
    /\ sim.status \in Course(m.pc)
    /\ sim.req = "start" => m.pc = "awaitStart"
    /\ sim.req = "stop" => m.pc \in {"stopped", "awaitStop"}

Undisturbed == \A c \in Clients : quiet[c] => OnCourse(me[c])

QuietInv == LifecycleInv /\ Undisturbed

(* The courses, written out.                                               *)
LEMMA Courses ==
  /\ Course("joinStart") = STARTING_STATUSES \cup {"ACTIVE"}
  /\ Course("awaitStart") = STARTING_STATUSES \cup {"INACTIVE", "ACTIVE"}
  /\ Course("joinStop") = STOPPING_STATUSES \cup {"INACTIVE"}
  /\ Course("awaitStop") = STOPPING_STATUSES \cup {"ACTIVE", "INACTIVE"}
  /\ Course("stopped") = STOPPING_STATUSES \cup {"ACTIVE", "INACTIVE"}
BY DEF Course, Allowed, Target

(* A process that moves disturbs no other.                                 *)
LEMMA MovesQuietly ==
  ASSUME QuietInv, NEW c \in Clients, NEW r,
         me' = [me EXCEPT ![c] = r], UNCHANGED <<sim, quiet>>,
         quiet[c] => OnCourse(r)
  PROVE  Undisturbed'
<1>1. me \in [Clients -> Process]
  BY DEF QuietInv, LifecycleInv, TypeOK, Process
<1> SUFFICES ASSUME NEW d \in Clients, quiet[d] PROVE OnCourse(me[d])'
  BY DEF Undisturbed
<1>2. OnCourse(me'[d])
  BY <1>1 DEF QuietInv, Undisturbed
<1> QED BY <1>2 DEF OnCourse

(* A process that goes to a place is there.                                *)
LEMMA GoesThere ==
  ASSUME QuietInv, NEW c \in Clients, NEW p, Goto(c, p) \/ GotoSeen(c, p)
  PROVE  \E r : me' = [me EXCEPT ![c] = r] /\ r.pc = p
<1>1. me[c] \in [pc : Places, cmd : Names \cup {"none"}, id : Nat]
  BY DEF QuietInv, LifecycleInv, TypeOK
<1>2. [me[c] EXCEPT !.pc = p].pc = p
  BY <1>1
<1>3. [me[c] EXCEPT !.pc = p, !.id = sim.id].pc = p
  BY <1>1
<1>4. CASE Goto(c, p)
  BY <1>2, <1>4 DEF Goto
<1>5. CASE GotoSeen(c, p)
  BY <1>3, <1>5 DEF GotoSeen
<1> QED BY <1>4, <1>5

(* A place that is off every course.                                       *)
LEMMA GoesQuietly ==
  ASSUME QuietInv, NEW c \in Clients, NEW p, p \notin Waiting \cup {"stopped"},
         Goto(c, p) \/ GotoSeen(c, p), UNCHANGED <<sim, quiet>>
  PROVE  Undisturbed'
<1>1. PICK r : me' = [me EXCEPT ![c] = r] /\ r.pc = p
  BY GoesThere
<1>2. OnCourse(r)
  BY <1>1 DEF OnCourse
<1> QED BY <1>1, <1>2, MovesQuietly

LEMMA LookQuiet ==
  ASSUME QuietInv, NEW c \in Clients, Look(c)
  PROVE  Undisturbed'
<1>1. /\ me[c] \in Process /\ me[c].cmd \in Names /\ UNCHANGED <<sim, quiet>>
      /\ RequestsFit
  BY DEF QuietInv, LifecycleInv, TypeOK, Process, Look, At, Relies, Resting,
         LooksOnly
<1>2. CASE Unseen
  <2>1. Goto(c, "failed") /\ "failed" \notin Waiting \cup {"stopped"}
    BY <1>2 DEF Look, Waiting
  <2> QED BY <1>1, <2>1, GoesQuietly
<1>3. CASE ~Unseen
  <2>1. PICK p :
          /\ GotoSeen(c, p)
          /\ p = CASE me[c].cmd = "start"    -> StartPlace(sim.status)
                   [] me[c].cmd = "restart"  -> RestartPlace(sim.status)
                   [] me[c].cmd = "stop"     -> StopPlace(sim.status, FALSE)
                   [] me[c].cmd = "stopWait" -> StopPlace(sim.status, TRUE)
    BY <1>3 DEF Look
  <2>2. /\ p \in {"done", "failed", "joinStart", "joinStop", "awaitStop",
                   "capacity", "stop"}
        /\ p = "joinStart" => sim.status \in STARTING_STATUSES
        /\ p \in {"joinStop", "awaitStop"} => sim.status \in STOPPING_STATUSES
    BY <1>1, <2>1 DEF StartPlace, RestartPlace, StopPlace, Names
  <2>3. PICK r : me' = [me EXCEPT ![c] = r] /\ r.pc = p
    <3>1. GotoSeen(c, p)
      BY <2>1
    <3> QED BY <3>1, GoesThere
  <2>4. OnCourse(r)
    BY <1>1, <1>3, <2>2, <2>3, Courses
       DEF OnCourse, Unseen, Waiting, RequestsFit, STARTING_STATUSES,
           STOPPING_STATUSES, SimulationStopping
  <2> QED BY <1>1, <2>3, <2>4, MovesQuietly
<1> QED BY <1>2, <1>3

LEMMA SecondLookQuiet ==
  ASSUME QuietInv, NEW c \in Clients, SecondLook(c)
  PROVE  Undisturbed'
<1>1. /\ me[c] \in Process /\ me[c].pc = "stopped" /\ UNCHANGED <<sim, quiet>>
      /\ quiet[c] => OnCourse(me[c])
  BY DEF QuietInv, LifecycleInv, TypeOK, Process, SecondLook, At, LooksOnly,
         Undisturbed
<1>2. CASE Goto(c, "failed") \/ Goto(c, "done")
  BY <1>1, <1>2, GoesQuietly DEF Waiting
<1>3. CASE Goto(c, "awaitStop")
  <2>1. PICK r : me' = [me EXCEPT ![c] = r] /\ r.pc = "awaitStop"
    BY <1>3, GoesThere
  <2>2. quiet[c] => OnCourse(r)
    BY <1>1, <2>1, Courses DEF OnCourse, Waiting
  <2> QED BY <1>1, <2>1, <2>2, MovesQuietly
<1> QED BY <1>2, <1>3 DEF SecondLook

LEMMA WaitQuiet ==
  ASSUME QuietInv, NEW c \in Clients,
         CheckCapacity(c) \/ Wait(c) \/ GiveUp(c)
  PROVE  Undisturbed'
<1>1. \E p \in {"failed", "timedout", "interrupted", "start", "done",
                "capacity"} : Goto(c, p) \/ GotoSeen(c, p)
  BY DEF CheckCapacity, Wait, GiveUp, TimeOut, Reached
<1>2. UNCHANGED <<sim, quiet>>
  BY DEF CheckCapacity, Wait, GiveUp, LooksOnly
<1> QED BY <1>1, <1>2, GoesQuietly DEF Waiting

LEMMA LaunchQuiet ==
  ASSUME QuietInv, NEW c \in Clients, Launch(c)
  PROVE  Undisturbed'
<1>1. /\ me \in [Clients -> Process] /\ quiet \in [Clients -> BOOLEAN]
      /\ sim' = sim /\ quiet' = [quiet EXCEPT ![c] = TRUE]
  BY DEF QuietInv, LifecycleInv, TypeOK, Process, Launch
<1>2. PICK command :
        me' = [me EXCEPT ![c] = [pc |-> "look", cmd |-> command, id |-> 0]]
  BY DEF Launch
<1> SUFFICES ASSUME NEW d \in Clients, quiet'[d] PROVE OnCourse(me'[d])
  BY <1>1 DEF Undisturbed, OnCourse
<1>3. CASE d = c
  BY <1>1, <1>2, <1>3 DEF OnCourse, Waiting
<1>4. CASE d # c
  BY <1>1, <1>2, <1>4 DEF QuietInv, Undisturbed
<1> QED BY <1>3, <1>4

(* An accepted request is a disturbance to all but its process.            *)
LEMMA RequestQuiet ==
  ASSUME QuietInv, NEW c \in Clients, RequestStop(c) \/ RequestStart(c)
  PROVE  Undisturbed'
<1>1. /\ me \in [Clients -> Process] /\ me[c] \in Process
      /\ quiet \in [Clients -> BOOLEAN]
      /\ me[c].id = sim.id => sim.managed
      /\ sim \in [id : Nat, managed : BOOLEAN,
                  req : {"none", "start", "stop"},
                  status : AirSimulationStatus \cup {"none"}]
  BY DEF QuietInv, LifecycleInv, TypeOK, Process, Relies, RequestStop,
         RequestStart, At
<1>2. CASE Goto(c, "failed") /\ UNCHANGED <<sim, quiet>>
  BY <1>2, GoesQuietly DEF Waiting
<1>3. ASSUME NEW p \in {"stopped", "awaitStop", "awaitStart"},
             NEW req \in {"start", "stop"},
             req = "start" <=> p = "awaitStart",
             RequestedOf(c, IF req = "stop" THEN "ACTIVE" ELSE "INACTIVE"),
             Goto(c, p), sim' = [sim EXCEPT !.req = req],
             Meddled(Clients \ {c})
      PROVE  Undisturbed'
  <2>1. \A d \in Clients : quiet'[d] => d = c
    BY <1>3 DEF Meddled
  <2>2. /\ sim'.managed /\ sim'.status = sim.status /\ sim'.req = req
        /\ sim.status = IF req = "stop" THEN "ACTIVE" ELSE "INACTIVE"
    BY <1>1, <1>3 DEF RequestedOf
  <2>3. me'[c].pc = p
    BY <1>1, <1>3 DEF Goto, Process
  <2>4. OnCourse(me[c])'
    BY <1>3, <2>2, <2>3, Courses DEF OnCourse
  <2> QED BY <2>1, <2>4 DEF Undisturbed
<1>4. CASE RequestStop(c)
  BY <1>2, <1>3, <1>4 DEF RequestStop
<1>5. CASE RequestStart(c)
  BY <1>2, <1>3, <1>5 DEF RequestStart
<1> QED BY <1>4, <1>5

(* Air keeps to the course it was sent on.                                 *)
LEMMA AirQuiet ==
  ASSUME QuietInv, AirNext
  PROVE  Undisturbed'
<1>1. /\ me' = me /\ quiet \in [Clients -> BOOLEAN] /\ RequestsFit
      /\ sim \in [id : Nat, managed : BOOLEAN,
                  req : {"none", "start", "stop"},
                  status : AirSimulationStatus \cup {"none"}]
  BY DEF QuietInv, LifecycleInv, TypeOK, AirNext, BeginStart, BeginStop,
         Advance, LoseStart, Becomes
<1>2. ASSUME NEW status, Becomes(status), NEW d \in Clients, quiet[d],
             me[d].pc \in Waiting \cup {"stopped"} =>
               status \in Course(me[d].pc)
      PROVE  OnCourse(me[d])'
  <2>1. sim'.managed = sim.managed /\ sim'.status = status
        /\ sim'.req = "none"
    BY <1>1, <1>2 DEF Becomes
  <2> QED BY <1>1, <1>2, <2>1 DEF OnCourse, QuietInv, Undisturbed
<1> SUFFICES ASSUME NEW d \in Clients, quiet'[d] PROVE OnCourse(me[d])'
  BY DEF Undisturbed
<1>3. quiet[d]
  BY <1>1 DEF AirNext, BeginStart, BeginStop, Advance, LoseStart, Meddled
<1> USE DEF Waiting, STARTING_STATUSES, STOPPING_STATUSES, SimulationStopping
<1>4. me[d].pc \in Waiting \cup {"stopped"} =>
        /\ sim.status \in Course(me[d].pc)
        /\ sim.req = "start" => me[d].pc = "awaitStart"
        /\ sim.req = "stop" => me[d].pc \in {"stopped", "awaitStop"}
  BY <1>3 DEF QuietInv, Undisturbed, OnCourse
<1>5. CASE BeginStart
  BY <1>2, <1>3, <1>4, <1>5, Courses DEF BeginStart
<1>6. CASE BeginStop
  BY <1>2, <1>3, <1>4, <1>6, Courses DEF BeginStop
<1>7. CASE Advance
  <2>1. me[d].pc \in Waiting \cup {"stopped"} =>
          Progress[sim.status] \in Course(me[d].pc)
    BY <1>4, <1>7, Courses DEF Advance, Progress
  <2> QED BY <1>2, <1>3, <1>7, <2>1 DEF Advance
<1>8. CASE LoseStart
  <2>1. me[d].pc # "joinStart"
    BY <1>1, <1>8 DEF LoseStart, Meddled, At
  <2>2. me[d].pc \in Waiting \cup {"stopped"} =>
          "INACTIVE" \in Course(me[d].pc)
    BY <2>1, Courses
  <2> QED BY <1>2, <1>3, <1>8, <2>2 DEF LoseStart
<1> QED BY <1>5, <1>6, <1>7, <1>8 DEF AirNext

LEMMA QuietStep == QuietInv /\ [Next]_vars => QuietInv'
<1> SUFFICES ASSUME QuietInv, [Next]_vars PROVE QuietInv'
  OBVIOUS
<1>1. LifecycleInv'
  BY StepGood DEF QuietInv
<1>2. ASSUME NEW c \in Clients, Launch(c) \/ Step(c) \/ GiveUp(c)
      PROVE  Undisturbed'
  BY <1>2, LaunchQuiet, LookQuiet, RequestQuiet, SecondLookQuiet, WaitQuiet
     DEF Step
<1>3. CASE Console \/ Import
  <2>1. \A d \in Clients : ~quiet'[d]
    BY <1>3 DEF Console, Import, Meddled
  <2> QED BY <1>1, <2>1 DEF Undisturbed, QuietInv
<1>4. CASE UNCHANGED vars
  BY <1>1, <1>4 DEF vars, QuietInv, Undisturbed, OnCourse
<1> QED BY <1>1, <1>2, <1>3, <1>4, AirQuiet DEF Next, QuietInv

(***************************************************************************)
(* A wait of start, stop or restart ends in an error only if somebody else *)
(* meddled: however late Air shows what it accepted, and however many      *)
(* statuses it goes through, the allowed sets of _wait_for suffice.        *)
(***************************************************************************)
THEOREM WaitsAreNotSurprised == Spec => NeverSurprised
<1> DEFINE Fine ==
      \A c \in Clients :
        me[c].pc \in Waiting /\ quiet[c] => me'[c].pc # "failed"
<1>1. Init => QuietInv
  <2>1. Init => Undisturbed
    BY DEF Init, Undisturbed, OnCourse, Waiting
  <2> QED BY <2>1, Initially DEF QuietInv
<1>2. QuietInv /\ [Next]_vars => [Fine]_vars
  <2> SUFFICES ASSUME QuietInv, [Next]_vars, NEW d \in Clients,
                      me[d].pc \in Waiting, quiet[d]
               PROVE  me'[d].pc # "failed"
    OBVIOUS
  <2>1. /\ me \in [Clients -> Process] /\ me[d] \in Process
        /\ sim.managed /\ sim.status \in Course(me[d].pc)
    BY DEF QuietInv, LifecycleInv, TypeOK, Process, Undisturbed, OnCourse
  <2>2. me[d].pc # "failed"
    BY DEF Waiting
  <2>3. ASSUME me'[d] # me[d] PROVE Wait(d) \/ GiveUp(d)
    <3>1. PICK c \in Clients : Launch(c) \/ Step(c) \/ GiveUp(c)
      BY <2>3 DEF Next, vars, AirNext, BeginStart, BeginStop, Advance,
                  LoseStart, Console, Import, Becomes
    <3>2. \E r : me' = [me EXCEPT ![c] = r]
      BY <3>1 DEF Launch, Step, GiveUp, Look, RequestStop, SecondLook,
                  CheckCapacity, RequestStart, Wait, TimeOut, Goto, GotoSeen
    <3>3. c = d
      BY <2>1, <2>3, <3>2
    <3> QED BY <3>1, <3>3
            DEF Launch, Step, Look, RequestStop, SecondLook, CheckCapacity,
                RequestStart, At, Waiting, Resting
  <2>4. CASE Wait(d)
    <3>1. sim.status # "none" /\ "none" \notin Course(me[d].pc)
      BY <2>1, Courses DEF Waiting, STARTING_STATUSES, STOPPING_STATUSES,
                           SimulationStopping
    <3>2. ~Unseen
      BY <2>1, <3>1 DEF Unseen
    <3>3. sim.status = Target(me[d].pc) \/ sim.status \in Allowed(me[d].pc)
      BY <2>1 DEF Course, Waiting
    <3>4. PICK p \in {"done", "capacity", "timedout"} :
            Goto(d, p) \/ GotoSeen(d, p)
      BY <2>4, <3>2, <3>3 DEF Wait, TimeOut, Reached
    <3>5. PICK r : me' = [me EXCEPT ![d] = r] /\ r.pc = p
      BY <3>4, GoesThere
    <3> QED BY <2>1, <3>5
  <2>5. CASE GiveUp(d)
    BY <2>1, <2>5 DEF GiveUp, Goto, Process
  <2> QED BY <2>2, <2>3, <2>4, <2>5
<1> QED BY <1>1, <1>2, QuietStep, PTL DEF Spec, NeverSurprised
=============================================================================
