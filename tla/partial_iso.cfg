SPECIFICATION Spec
CONSTANTS
  p1 = p1
  p2 = p2
  b1 = b1
  b2 = b2
  bad = bad
  k1 = k1
  k2 = k2
  None = None
  Torn = Torn
  Iso = Iso
  Short = Short
  Clients <- TwoClients
  Commands <- CacheCommands
  Disks <- ThreeDisks
  Valid <- TwoDisks
  Clusters <- TwoClusters
  MaxMishaps = 1
INVARIANTS
  NoPartialIso
