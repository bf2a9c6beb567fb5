SPECIFICATION FairSpec
CONSTANTS
  Workers = {"w1", "w2"}
  Uploads <- ThreeUploads
  Coordinates <- TwoNames
  Contents = {"red", "blue"}
  Target <- ThreeTargets
  Faults = {"crash", "disk"}
INVARIANTS
  AnswersAreTrue
  PublishedHasFile
PROPERTIES
  ImplementsArtifactStore
  EveryUploadAnswered
