SPECIFICATION Spec
CONSTANTS
  Timeout = 1
  Datasets = {d1}
  Handlers = {h1}
INVARIANTS
  ExitSerialises
CHECK_DEADLOCK FALSE
