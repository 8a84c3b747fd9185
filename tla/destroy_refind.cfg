SPECIFICATION Spec
CONSTANTS
  u1 = u1
  u2 = u2
  p1 = p1
  p2 = p2
  Users <- OneUser
  Clients <- OneClient
  User <- SoloUser
  Commands <- SoloCommands
  Breakable <- AtCreation
  Specs = {1}
  MaxId = 8
  MaxForeign = 2
  Failures = TRUE
PROPERTIES
  RefusesUnmanaged
