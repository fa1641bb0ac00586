SPECIFICATION Spec
CONSTANTS
  Sample <- MCSample
  Counts <- MCCounts
  WorkSize = 4
  MinCounts = 4
  Resolution = 40
  Ln <- MCLn
INVARIANT TypeOK
INVARIANT BlocksAreBest
INVARIANT EveryEventCounted
PROPERTY WeightsAreStable
