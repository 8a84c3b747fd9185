SPECIFICATION Spec
CONSTANTS
  u1 = u1
  u2 = u2
  p1 = p1
  p2 = p2
  Users <- OneUser
  Clients <- OneClient
  User <- SoloUser
  Commands <- SoloCommands
  Breakable <- Everywhere
  Specs = {1}
  MaxId = 8
  MaxForeign = 0
  Failures = TRUE
PROPERTIES
  NoImportAfterStart
