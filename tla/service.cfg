\* Two requests of one ticker with their shadow runs, through a crash.
SPECIFICATION ServiceSpec
CONSTANTS
  r1 = r1
  r2 = r2
  Requests = {r1, r2}
  RunModes <- MCRunModes
  ShadowOn = TRUE
  TopK = 2
  Ttl = 2
  MaxLag = 1
  MaxCrashes = 2
INVARIANTS
  OnlyOverlapHidesNotes
  AnswersAreTruthful
  OrphansComeFromFailures
  FeedbackIsAttached
PROPERTIES
  StalenessIsBounded
  RequestsAreAnswered
CHECK_DEADLOCK FALSE
