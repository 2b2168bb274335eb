SPECIFICATION Spec
CONSTANTS
  Cards <- TwoCards
  Spelled <- MCSpelled
  ArgLists <- MCArgLists
  MaxOptions = 2
  AVG_THROTTLE_SAMPLE_COUNT = 2
INVARIANTS
  TypeOK
  ExitHonest
  SampleExplained
  OnlineFirst
  ConfKept
  FeaturesAsAsked
  RestartAdvised
