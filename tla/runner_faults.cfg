SPECIFICATION Spec
CONSTANTS
  Jobs <- JobsFour
  Needs <- NeedsFour
  Groups <- GroupsFour
  MaxConcurrency = 2
  Packages = {"libfoo"}
  Artifacts = {"app"}
  Faults <- AllFaults
INVARIANTS
  NeedsSucceeded
  SuccessMeansAll
  SkippedNeverRan
  AlertsTruthful
