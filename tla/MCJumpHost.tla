----------------------------- MODULE MCJumpHost -----------------------------
(***************************************************************************)
(* A small instance of AccessSessions, and so of JumpHost, for TLC: one    *)
(* person deploys, one uses the lab.                                       *)
(***************************************************************************)
EXTENDS AccessSessions

CONSTANTS p1, p2

TwoClients == {p1, p2}

DeployAndUse ==
  [c \in {p1, p2} |-> IF c = p1 THEN {"deploy"} ELSE {"access"}]
=============================================================================
