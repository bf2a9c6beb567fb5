SPECIFICATION FairSpec
CONSTANTS
  Names <- ThreeNames
  Uploaded <- Table
  Malformed <- Unreadable
  Requests <- Pipelines
  Late = 1
  NoRow = NoRow
INVARIANTS
  LockfileIsSolution
  ChosenInRange
  NoStrayPackages
  LockfileAcyclic
  RefusalIsJust
  CycleIsReal
PROPERTIES
  ImplementsResolution
  EverySearchEnds
