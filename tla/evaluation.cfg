SPECIFICATION Spec
CONSTANTS
  s1 = s1
  s2 = s2
  Scenarios <- MCScenarios
  Tier1 <- MCScenarios
  Grades <- MCGrades
  ShadowOn = TRUE
  Requested <- MCRequested
  MaxServed <- MCServed
  BatchSize = 1
  MaxRounds = 2
  MinSamples = 2
  Strategies <- MCStrategies
  GatePairs = 2
  ComparePairs = 1
INVARIANTS
  EvaluationsAgree
PROPERTIES
  SmoothReplayRepairsAll
  OnlyStubbornReportsStarve
  CoverageLostOnlyBySuperseded
  AllowSpeaksForPairs
  AllowedChallengerPassedShadow
  ReplayEnds
CHECK_DEADLOCK FALSE
