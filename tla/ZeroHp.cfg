SPECIFICATION FairSpec
CONSTANTS
  Profile <- Profiles
  Controller <- Controllers
  SuccessesRequired = 3
  FailuresRequired = 3
  HpBound = 2
  TaskBound = 3
INVARIANTS DyingIsScheduled CountDecides
PROPERTIES SavesAreKept GetsUpAwake DyingEnds
CHECK_DEADLOCK FALSE
