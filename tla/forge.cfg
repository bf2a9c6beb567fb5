SPECIFICATION FairSpec
CONSTANTS
  Commands = {"run", "pub"}
  Publish = {"pub"}
  Artifacts <- RunAndPublish
  Tokens = {"alice1", "alice2", "internal"}
  Internal = "internal"
  Labels = {"alice", "engine"}
  EngineLabel = "engine"
  Crashes = 1
  NoOne = NoOne
INVARIANTS
  SuccessIsPublished
  PublishedIsPrefix
  ToldIsTrue
  RevocationLasts
PROPERTIES
  EveryRunSettles
CHECK_DEADLOCK FALSE
