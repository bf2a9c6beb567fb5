SPECIFICATION FairSpec
CONSTANTS
  Clients <- OneClient
  Output = 2
  Faults = {"disk"}
INVARIANTS
  FailureIsExplained
  FileInOrder
PROPERTIES
  EndsAtVerdictOrBeforeStart
  EveryStreamEnds
