SPECIFICATION FairSpec
CONSTANTS
  p1 = p1
  p2 = p2
  Clients <- OneClient
  NodeCount = 2
  Role <- WorkerFirst
  Strays = {3}
  MaxHosts = 3
  MaxForeign = 1
INVARIANTS
  TypeOK
  RolesFollowMachines
  ApiOnControlPlane
PROPERTIES
  HealthyNeverRefused
  DiscoveryCompletes
