SPECIFICATION Spec
CONSTANTS
  Timeout = 0
  Datasets = {d1}
  Handlers = {h1}
INVARIANTS
  StopsOnlyWhenAsked
CHECK_DEADLOCK FALSE
