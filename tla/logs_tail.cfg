SPECIFICATION Spec
CONSTANTS
  Clients <- OneClient
  Output = 1
  Faults = {}
INVARIANTS
  NothingMissed
