SPECIFICATION Spec
CONSTANTS
  Workers = {"w1"}
  Uploads <- FourUploads
  Coordinates <- TwoNames
  Contents = {"red", "blue"}
  Target <- FourTargets
  Faults = {"disk"}
INVARIANTS
  PublishedIsWhole
