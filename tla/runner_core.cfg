SPECIFICATION FairSpec
CONSTANTS
  Jobs <- JobsFour
  Needs <- NeedsFour
  Groups <- GroupsFour
  MaxConcurrency = 2
  Packages = {"libfoo"}
  Artifacts = {"app"}
  Faults <- Benign
INVARIANTS
  ConcurrencyBound
  OneGroupRuns
  NothingLeaks
PROPERTIES
  VerdictsAreFinal
  ImplementsPipelineRun
  RunEnds
  EverythingReclaimed
