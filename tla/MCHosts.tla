------------------------------ MODULE MCHosts -------------------------------
(***************************************************************************)
(* A small instance of HostDiscovery for TLC.                              *)
(***************************************************************************)
EXTENDS HostDiscovery

CONSTANTS p1, p2

OneClient == {p1}
TwoClients == {p1, p2}
WorkerFirst == [n \in Nodes |-> IF n = 1 THEN "worker" ELSE "master"]
=============================================================================
