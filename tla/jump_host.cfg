SPECIFICATION AccessFairSpec
CONSTANTS
  p1 = p1
  p2 = p2
  Clients <- TwoClients
  Commands <- DeployAndUse
  Networks = {1, 2}
  MaxBoots = 2
  MaxServices = 2
  Ports = {1}
INVARIANTS
  TypeOK
  SessionTypeOK
  OthersLinesKept
  OneService
  NothingLeftRunning
PROPERTIES
  ReadyMeansReady
  DeployGetsReady
  AccessWorks
