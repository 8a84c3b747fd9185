SPECIFICATION Spec
CONSTANTS
  Drafts <- LabDrafts
  Patches <- SomePatches
INVARIANTS
  TypeOK
  
  SimulationAsAsked
  ClusterAsAsked
