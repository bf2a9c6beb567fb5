SPECIFICATION Spec
CONSTANTS
  Jobs <- JobsThree
  Needs <- NeedsThree
  Groups <- GroupsThree
  MaxConcurrency = 2
  Packages = {}
  Artifacts = {}
  Faults = {"start"}
INVARIANTS
  NothingLeaks
