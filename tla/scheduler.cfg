SPECIFICATION SubFairSpec
CONSTANTS
  Jobs <- ThreeJobs
  Names <- AnyName
  Documents <- AllDocuments
INVARIANTS
  CycleIsReal
  CyclesAreFound
  AcceptedIsLayering
  GroupsAreEarliest
  AcceptedIsComplete
PROPERTIES
  EveryRequestIsAnswered
