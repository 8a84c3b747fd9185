SPECIFICATION FairSpec
CONSTANTS
  p1 = p1
  p2 = p2
  Clients <- TwoClients
  Commands <- DuoCommands
  MaxForeign = 2
PROPERTIES
  PromiseKept
  NeverSurprised
  CommandsComplete
