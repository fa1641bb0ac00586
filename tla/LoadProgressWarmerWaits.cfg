SPECIFICATION Spec
CONSTANTS
  Size = 3
  Browsers = {b}
  Warmers = {w}
INVARIANTS
  WarmerWaits
CHECK_DEADLOCK FALSE
