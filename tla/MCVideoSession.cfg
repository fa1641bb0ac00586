SPECIFICATION FairSpec
CONSTANTS
  Workers = {w1, w2}
  Capacity = 2
  Backlog = 2
  Budget = 4
  Nobody = Nobody
INVARIANTS
  TypeOK
  NalsInOrder
  EncoderIsLive
  SizesMatch
  SessionReleasesEncoder
  SettledView
PROPERTIES
  SessionEnds
CHECK_DEADLOCK FALSE
