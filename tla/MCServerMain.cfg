SPECIFICATION FairSpec
CONSTANTS
  Timeout = 1
  Datasets = {d1, d2, d3}
  Handlers = {h1, h2}
INVARIANTS
  TypeOK
  StopsOnlyWhenAsked
  PurgesAlone
  NothingLeftBehind
PROPERTIES
  StopCompletes
CHECK_DEADLOCK FALSE
