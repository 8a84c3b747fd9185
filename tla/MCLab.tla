------------------------------- MODULE MCLab -------------------------------
(***************************************************************************)
(* Small instances of LabWorkflows for TLC.                                *)
(***************************************************************************)
EXTENDS LabProperties

CONSTANTS u1, u2, p1, p2

OneUser == {u1}
OneClient == {p1}
SoloUser == [c \in {p1} |-> u1]
SoloCommands == [c \in {p1} |-> {"deploy", "replace", "destroy"}]
Everywhere == Places \ Resting
OutsideImport == Everywhere \ {"awaitImport", "claimSim"}
AtCreation ==
  {"createCluster", "createInfraEnv", "createImage", "importSim"}

TwoUsers == {u1, u2}
TwoClients == {p1, p2}
DuoUser == [c \in {p1, p2} |-> IF c = p1 THEN u1 ELSE u2]
DuoCommands ==
  [c \in {p1, p2} |-> IF c = p1 THEN {"deploy"} ELSE {"replace"}]
ResumeCommands == [c \in {p1} |-> {"deploy", "destroy"}]
=============================================================================
