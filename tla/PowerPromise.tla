---------------------------- MODULE PowerPromise ----------------------------
(***************************************************************************)
(* What the commands start, stop, stop --wait and restart promise about    *)
(* the power of one simulation, whatever Air and other people do with it   *)
(* (core/simulation_lifecycle.py, docs/lifecycle.md "Explicit simulation   *)
(* lifecycle").  A command is answered, which is a promise, or it fails.   *)
(***************************************************************************)
CONSTANT Clients

VARIABLES
  power,   \* of the simulation that has the name
  wish,    \* what a command last asked Air for, until Air sees to it
  ours,    \* whether that simulation has the project's metadata
  call,    \* what each client asked for, or how that ended
  since    \* how far a shutdown has come since each client asked

pvars == <<power, wish, ours, call, since>>

Powers == {"off", "on", "falling", "other"}
Wishes == {"none", "start", "stop"}
Calls == {"start", "stop", "stopWait", "restart"}
Endings == {"idle", "answered", "failed"}
Stages == {"nothing", "stopping", "off"}

(* A shutdown is under way once it is asked for; being off outlasts it.    *)
Stage(was, p, w) ==
  IF p = "off" \/ was = "off" THEN "off"
  ELSE IF p = "falling" \/ w = "stop" THEN "stopping" ELSE was

Watched == since' = [c \in Clients |-> Stage(since[c], power', wish')]

Init ==
  /\ power \in Powers /\ wish = "none" /\ ours \in BOOLEAN
  /\ call = [c \in Clients |-> "idle"]
  /\ since = [c \in Clients |-> Stage("nothing", power, wish)]

Ask(c, command) ==
  /\ call[c] \in Endings
  /\ call' = [call EXCEPT ![c] = command]
  /\ since' = [since EXCEPT ![c] = Stage("nothing", power, wish)]
  /\ UNCHANGED <<power, wish, ours>>

(* Only the project's own simulation is operated: started when it is off,  *)
(* shut down when it is on, by a command that says so.                     *)
Request(c) ==
  /\ ours
  /\ \/ /\ call[c] \in {"start", "restart"}
        /\ power = "off" /\ wish' = "start"
     \/ /\ call[c] \in {"stop", "stopWait", "restart"}
        /\ power = "on" /\ wish' = "stop"
  /\ Watched
  /\ UNCHANGED <<power, ours, call>>

(* What an answer says: start, it is on now; stop, a shutdown was at least *)
(* asked for since; stop --wait, it is off now; restart, it is on now and  *)
(* was off since.                                                          *)
Answer(c) ==
  /\ call[c] \in Calls /\ ours
  /\ call[c] \in {"start", "restart"} => power = "on"
  /\ call[c] = "restart" => since[c] = "off"
  /\ call[c] = "stopWait" => power = "off"
  /\ call[c] = "stop" => since[c] # "nothing"
  /\ call' = [call EXCEPT ![c] = "answered"]
  /\ UNCHANGED <<power, wish, ours, since>>

Fail(c) ==
  /\ call[c] \in Calls
  /\ call' = [call EXCEPT ![c] = "failed"]
  /\ UNCHANGED <<power, wish, ours, since>>

(* Air or other people: nothing more is asked for then.                    *)
Elsewhere ==
  /\ power' \in Powers /\ ours' \in BOOLEAN /\ wish' = "none"
  /\ Watched
  /\ UNCHANGED call

Next ==
  \/ \E c \in Clients :
       \/ \E command \in Calls : Ask(c, command)
       \/ Request(c) \/ Answer(c) \/ Fail(c)
  \/ Elsewhere

Spec == Init /\ [][Next]_pvars
=============================================================================
