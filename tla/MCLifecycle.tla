---------------------------- MODULE MCLifecycle ----------------------------
(***************************************************************************)
(* Small instances of SimulationLifecycle for TLC.                         *)
(***************************************************************************)
EXTENDS SimulationLifecycle

CONSTANTS p1, p2

TwoClients == {p1, p2}
DuoCommands ==
  [c \in {p1, p2} |->
     IF c = p1 THEN {"start", "stop"} ELSE {"stopWait", "restart"}]
=============================================================================
