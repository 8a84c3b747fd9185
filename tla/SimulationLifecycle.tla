------------------------ MODULE SimulationLifecycle ------------------------
(***************************************************************************)
(* core/simulation_lifecycle.py: the commands start, stop, stop --wait and *)
(* restart, given to one simulation name by several `ocp-air` processes,   *)
(* while Air moves the simulation from status to status and other people   *)
(* operate it in the console.  Every look is by name and every request by  *)
(* the id of an earlier look.  The simulation that has the name is sim;    *)
(* its status is "none" when there is none, and an id is never reused.     *)
(*                                                                         *)
(* A poll that sees nothing new is a stuttering step and TimeOut a poll    *)
(* that finds the deadline passed.  The adapter's refusal of two           *)
(* simulations of one name is left to LabWorkflows.                        *)
(***************************************************************************)
EXTENDS Naturals, AirStatus

CONSTANTS
  Clients,     \* processes
  Commands,    \* the commands each of them may be given
  MaxForeign   \* bound: actions of other people

ASSUME CommandsAssumption ==
  Commands \in [Clients -> SUBSET {"start", "stop", "stopWait", "restart"}]
ASSUME MaxForeignAssumption == MaxForeign \in Nat

VARIABLES
  sim,      \* the simulation of that name
  foreign,  \* foreign actions so far
  me,       \* place, command and remembered id of each process
  since,    \* history: see PowerPromise
  quiet     \* history: nobody else meddled since the command was given

vars == <<sim, foreign, me, since, quiet>>

STARTING_STATUSES ==
  {"REQUESTING", "PROVISIONING", "PREPARE_BOOT", "BOOTING",
   "PREPARE_REBUILD", "REBUILDING"}
STOPPING_STATUSES == SimulationStopping

Resting == {"idle", "done", "failed", "timedout", "interrupted"}
Waiting == {"joinStart", "awaitStart", "joinStop", "awaitStop"}
Places ==
  Resting \cup Waiting \cup {"look", "stop", "stopped", "capacity", "start"}
Names == {"start", "stop", "stopWait", "restart"}

TypeOK ==
  /\ sim \in [id : Nat, managed : BOOLEAN, req : {"none", "start", "stop"},
              status : AirSimulationStatus \cup {"none"}]
  /\ foreign \in 0..MaxForeign
  /\ me \in [Clients -> [pc : Places, cmd : Names \cup {"none"}, id : Nat]]
  /\ since \in [Clients -> {"nothing", "stopping", "off"}]
  /\ quiet \in [Clients -> BOOLEAN]

(***************************************************************************)
(* The refinement mapping.                                                 *)
(***************************************************************************)
Power ==
  IF sim.status = "INACTIVE" THEN "off"
  ELSE IF sim.status = "ACTIVE" THEN "on"
  ELSE IF sim.status \in STOPPING_STATUSES THEN "falling" ELSE "other"

Call(m) ==
  IF m.pc = "idle" THEN "idle" ELSE IF m.pc = "done" THEN "answered"
  ELSE IF m.pc \in Resting THEN "failed" ELSE m.cmd

Promise == INSTANCE PowerPromise WITH
  power <- Power, wish <- sim.req, ours <- sim.managed,
  call <- [c \in Clients |-> Call(me[c])]

Init ==
  /\ sim \in [id : {1}, managed : BOOLEAN, req : {"none"},
              status : {"INACTIVE", "ACTIVE"}]
  /\ foreign = 0
  /\ me = [c \in Clients |-> [pc |-> "idle", cmd |-> "none", id |-> 0]]
  /\ since = [c \in Clients |-> Promise!Stage("nothing", Power, sim.req)]
  /\ quiet = [c \in Clients |-> TRUE]
-----------------------------------------------------------------------------
(***************************************************************************)
(* What the steps are made of.                                             *)
(***************************************************************************)
At(c, p) == me[c].pc = p
Goto(c, p) == me' = [me EXCEPT ![c].pc = p]
GotoSeen(c, p) ==
  me' = [me EXCEPT ![c] = [@ EXCEPT !.pc = p, !.id = sim.id]]
Meddled(S) == quiet' = [c \in Clients |-> quiet[c] /\ c \notin S]
LooksOnly == UNCHANGED <<sim, foreign, since, quiet>>

(* _observe with require_managed: an error without the project's own.      *)
UnseenOnlyMissing == sim.status = "none"     \* mutated: any simulation does
Unseen == sim.status = "none" \/ ~sim.managed

(* Air knows the id and the simulation is in the status to be left.        *)
RequestedOf(c, status) == me[c].id = sim.id /\ sim.status = status

(***************************************************************************)
(* A process begins one of its commands, forgetting any earlier run.       *)
(***************************************************************************)
Launch(c) ==
  /\ me[c].pc \in Resting
  /\ \E command \in Commands[c] :
       me' = [me EXCEPT ![c] = [pc |-> "look", cmd |-> command, id |-> 0]]
  /\ since' = [since EXCEPT ![c] = Promise!Stage("nothing", Power, sim.req)]
  /\ quiet' = [quiet EXCEPT ![c] = TRUE]
  /\ UNCHANGED <<sim, foreign>>

(***************************************************************************)
(* The first look and what each command makes of the status it sees.       *)
(***************************************************************************)
StartPlace(status) ==
  CASE status = "ACTIVE"             -> "done"
    [] status \in STARTING_STATUSES  -> "joinStart"
    [] status \in STOPPING_STATUSES  -> "joinStop"
    [] status = "INACTIVE"           -> "capacity"
    [] OTHER                         -> "failed"
StopPlace(status, wait) ==
  CASE status = "ACTIVE"             -> "stop"
    [] status = "INACTIVE"           -> "done"
    [] status \in STOPPING_STATUSES  -> IF wait THEN "awaitStop" ELSE "done"
    [] OTHER                         -> "failed"
RestartPlaceRunning(status) ==       \* mutated: only what runs is restarted
  CASE status = "ACTIVE"             -> "stop"
    [] status \in STOPPING_STATUSES  -> "joinStop"
    [] OTHER                         -> "failed"
RestartPlace(status) ==
  CASE status = "ACTIVE"             -> "stop"
    [] status \in STOPPING_STATUSES  -> "joinStop"
    [] status = "INACTIVE"           -> "capacity"
    [] OTHER                         -> "failed"

Look(c) ==
  /\ At(c, "look")
  /\ IF Unseen THEN Goto(c, "failed")
     ELSE GotoSeen(c, CASE me[c].cmd = "start"    -> StartPlace(sim.status)
                        [] me[c].cmd = "restart"  -> RestartPlace(sim.status)
                        [] me[c].cmd = "stop"     -> StopPlace(sim.status, FALSE)
                        [] me[c].cmd = "stopWait" -> StopPlace(sim.status, TRUE))
  /\ LooksOnly

(***************************************************************************)
(* shutdown_simulation.  Air accepts it and may report ACTIVE for a while; *)
(* a simulation that is gone or no longer ACTIVE makes the call fail.      *)
(***************************************************************************)
RequestStop(c) ==
  /\ At(c, "stop")
  /\ IF RequestedOf(c, "ACTIVE")
       THEN /\ sim' = [sim EXCEPT !.req = "stop"]
            /\ Goto(c, IF me[c].cmd = "restart" THEN "awaitStop" ELSE "stopped")
            /\ Meddled(Clients \ {c})
       ELSE Goto(c, "failed") /\ UNCHANGED <<sim, quiet>>
  /\ since' =
       [d \in Clients |-> Promise!Stage(since[d], Power, sim'.req)]
  /\ UNCHANGED foreign

(* The one observation that follows an accepted stop.                      *)
SecondLook(c) ==
  /\ At(c, "stopped")
  /\ IF Unseen THEN Goto(c, "failed")
     ELSE IF me[c].cmd = "stop" \/ sim.status = "INACTIVE" THEN Goto(c, "done")
     ELSE Goto(c, "awaitStop")
  /\ LooksOnly

(* ensure_simulation_capacity: by id, and there may be too little.         *)
CheckCapacity(c) ==
  /\ At(c, "capacity")
  /\ \/ me[c].id = sim.id /\ sim.status # "none" /\ Goto(c, "start")
     \/ Goto(c, "failed")
  /\ LooksOnly

RequestStart(c) ==
  /\ At(c, "start")
  /\ IF RequestedOf(c, "INACTIVE")
       THEN /\ sim' = [sim EXCEPT !.req = "start"]
            /\ Goto(c, "awaitStart")
            /\ Meddled(Clients \ {c})
       ELSE Goto(c, "failed") /\ UNCHANGED <<sim, quiet>>
  /\ UNCHANGED <<foreign, since>>

(***************************************************************************)
(* _wait_for: the target, the statuses it may pass through, and the place  *)
(* that follows.  Waiting after a request, the status may be the old one.  *)
(***************************************************************************)
Target(place) ==
  IF place \in {"joinStart", "awaitStart"} THEN "ACTIVE" ELSE "INACTIVE"

AllowedAtOnce(place) ==                \* mutated: requests show at once
  IF place \in {"joinStart", "awaitStart"}
    THEN STARTING_STATUSES ELSE STOPPING_STATUSES
Allowed(place) ==
  CASE place = "joinStart"  -> STARTING_STATUSES
    [] place = "awaitStart" -> STARTING_STATUSES \cup {"INACTIVE"}
    [] place = "joinStop"   -> STOPPING_STATUSES
    [] place = "awaitStop"  -> STOPPING_STATUSES \cup {"ACTIVE"}

Reached(c) ==
  IF Target(me[c].pc) = "ACTIVE" \/ me[c].cmd = "stopWait"
    THEN "done" ELSE "capacity"

TimeOut(c) == Goto(c, "timedout")

Wait(c) ==
  /\ me[c].pc \in Waiting
  /\ IF Unseen THEN Goto(c, "failed")
     ELSE IF sim.status = Target(me[c].pc) THEN GotoSeen(c, Reached(c))
     ELSE IF sim.status \notin Allowed(me[c].pc) THEN Goto(c, "failed")
     ELSE TimeOut(c)
  /\ LooksOnly

(* The process is interrupted, or a call fails.                            *)
GiveUp(c) ==
  /\ me[c].pc \notin Resting
  /\ Goto(c, "interrupted")
  /\ LooksOnly
-----------------------------------------------------------------------------
(***************************************************************************)
(* NVIDIA Air on its own: accepted requests begin, or are lost, and then   *)
(* run through their statuses.                                             *)
(***************************************************************************)
Progress ==
  [REQUESTING |-> "PROVISIONING", PROVISIONING |-> "PREPARE_BOOT",
   PREPARE_BOOT |-> "BOOTING", BOOTING |-> "ACTIVE",
   PREPARE_REBUILD |-> "REBUILDING", REBUILDING |-> "ACTIVE",
   PREPARE_SHUTDOWN |-> "SHUTTING_DOWN", SHUTTING_DOWN |-> "SAVING",
   SAVING |-> "INACTIVE", DELETING |-> "none"]

(* The simulation gets a status by somebody else's doing than a command's. *)
Becomes(status) ==
  /\ sim' = [sim EXCEPT !.status = status, !.req = "none"]
  /\ since' = [c \in Clients |-> Promise!Stage(since[c], Power', "none")]
  /\ UNCHANGED me

BeginStart == sim.req = "start" /\ Becomes("REQUESTING") /\ UNCHANGED <<foreign, quiet>>
BeginStop ==
  sim.req = "stop" /\ Becomes("PREPARE_SHUTDOWN") /\ UNCHANGED <<foreign, quiet>>
Advance ==
  /\ sim.status \in DOMAIN Progress
  /\ Becomes(Progress[sim.status])
  /\ UNCHANGED <<foreign, quiet>>

(* Capacity went to somebody else after the request was accepted.          *)
LoseStart ==
  /\ sim.req = "start" \/ sim.status = "REQUESTING"
  /\ Becomes("INACTIVE")
  /\ Meddled({c \in Clients : At(c, "joinStart")})
  /\ UNCHANGED foreign

AirNext == BeginStart \/ BeginStop \/ Advance \/ LoseStart

(***************************************************************************)
(* Other people, in the console or with another tool.                      *)
(***************************************************************************)
Console ==
  /\ foreign < MaxForeign
  /\ \/ sim.status = "INACTIVE" /\ Becomes("REQUESTING")
     \/ sim.status = "ACTIVE" /\ Becomes("PREPARE_SHUTDOWN")
     \/ sim.status = "ACTIVE" /\ Becomes("PREPARE_REBUILD")
     \/ sim.status \in {"INACTIVE", "ACTIVE"} /\ Becomes("DELETING")
  /\ foreign' = foreign + 1
  /\ Meddled(Clients)

(* A new simulation of the name: a deployment's, or a stranger's.          *)
Import ==
  /\ foreign < MaxForeign
  /\ sim.status = "none"
  /\ \E managed \in BOOLEAN :
       sim' = [id |-> sim.id + 1, managed |-> managed, req |-> "none",
               status |-> "INACTIVE"]
  /\ since' = [c \in Clients |-> "off"]
  /\ foreign' = foreign + 1
  /\ Meddled(Clients)
  /\ UNCHANGED me
-----------------------------------------------------------------------------
Step(c) ==
  \/ Look(c) \/ RequestStop(c) \/ SecondLook(c) \/ CheckCapacity(c)
  \/ RequestStart(c) \/ Wait(c)

Next ==
  \/ \E c \in Clients : Launch(c) \/ Step(c) \/ GiveUp(c)
  \/ AirNext \/ Console \/ Import

Spec == Init /\ [][Next]_vars

(***************************************************************************)
(* Commands go on (every loop polls and has a deadline); Air goes on, and  *)
(* of the starts accepted enough are carried out rather than lost.         *)
(***************************************************************************)
Fairness ==
  /\ \A c \in Clients : WF_vars(Step(c))
  /\ WF_vars(BeginStop) /\ WF_vars(Advance)
  /\ SF_vars(BeginStart) /\ SF_vars(sim.status = "REQUESTING" /\ Advance)

FairSpec == Spec /\ Fairness
-----------------------------------------------------------------------------
(***************************************************************************)
(* The commands keep PowerPromise: each answer is true when it is given,   *)
(* and only the project's simulation, in the right status, is operated,    *)
(* although looks are by name, requests by an id that may be stale, and    *)
(* clients, Air and people act between them.                               *)
(***************************************************************************)
PromiseKept == Promise!Spec

(***************************************************************************)
(* A wait ends in an error only if somebody else meddled after the command *)
(* was given: Air's asynchrony alone, which shows an accepted request      *)
(* late, never makes a command fail (the allowed sets of _wait_for).       *)
(***************************************************************************)
NeverSurprised ==
  [][\A c \in Clients :
       me[c].pc \in Waiting /\ quiet[c] => me'[c].pc # "failed"]_vars

(* What nobody disturbs: in the end c is not interrupted and its calls     *)
(* succeed, the other processes rest, and the simulation is the project's. *)
LeftAlone(c) ==
  /\ <>[][~GiveUp(c) /\ ~(CheckCapacity(c) /\ me'[c].pc = "failed")]_vars
  /\ <>[](\A d \in Clients \ {c} : me[d].pc \in Resting)
  /\ <>[](sim.managed /\ sim.status \notin {"none", "DELETING"})

(* Deadlines pass only when Air has nothing to do for the command.         *)
Patient(c) ==
  <>[][me[c].pc \in Waiting /\ me'[c].pc = "timedout"
         => sim.req = "none" /\ sim.status \notin DOMAIN Progress]_vars

(***************************************************************************)
(* A command that is given again and again is answered again and again,    *)
(* from any status Air works through and whatever was interrupted before   *)
(* (docs/operations.md: "After a timeout, run `status'. Rerun ...").  Of   *)
(* the commands only restart needs deadlines longer than Air takes: given  *)
(* again after it asked for a start it would stop the simulation again.    *)
(***************************************************************************)
CommandsComplete ==
  \A c \in Clients : \A command \in Commands[c] :
    /\ LeftAlone(c) /\ WF_vars(Launch(c)) /\ <>[](me[c].cmd = command)
    /\ command = "restart" => Patient(c)
    => []<>At(c, "done")
=============================================================================
