SPECIFICATION FairSpec
CONSTANTS
  u1 = u1
  u2 = u2
  p1 = p1
  p2 = p2
  Users <- OneUser
  Clients <- OneClient
  User <- SoloUser
  Commands <- ResumeCommands
  Breakable <- OutsideImport
  Specs = {1}
  MaxId = 8
  MaxForeign = 0
  Failures = FALSE
PROPERTIES
  DeployResumes
  DestroyResumes
