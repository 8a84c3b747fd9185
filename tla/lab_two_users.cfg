SPECIFICATION Spec
CONSTANTS
  u1 = u1
  u2 = u2
  p1 = p1
  p2 = p2
  Users <- TwoUsers
  Clients <- TwoClients
  User <- DuoUser
  Commands <- DuoCommands
  Breakable <- AtCreation
  Specs = {1}
  MaxId = 6
  MaxForeign = 1
  Failures = TRUE
INVARIANTS
  StartsOnlyClaimed
  ClaimsOnlyOwnImports
  BootsOnlyCompleteImages
  CredentialsOfInstalled
PROPERTIES
  OnlyOwnImagesTouched
  DeployNeverDestroys
