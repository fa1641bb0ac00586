SPECIFICATION FairSpec
CONSTANTS
  Size = 3
  Browsers = {b}
  Warmers = {w}
INVARIANTS
  TypeOK
  FullMeansFetched
  OverflowOnlyAtReset
PROPERTIES
  ProgressNeverFallsBack
  PollersStop
CHECK_DEADLOCK FALSE
