SPECIFICATION Spec
CONSTANTS
  Size = 3
  Browsers = {b}
  Warmers = {w}
INVARIANTS
  NoAnomaly
CHECK_DEADLOCK FALSE
