SPECIFICATION FairSpec
CONSTANTS
  Jobs <- ThreeJobs
  Runs <- TwoRuns
  RunOf <- RunOfJobs
  Printing <- OnePrints
  MaxConcurrency = 1
  Threads = 3
INVARIANTS
  ThreadToSpare
PROPERTIES
  TimeoutKills
