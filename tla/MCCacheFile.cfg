SPECIFICATION Spec
SYMMETRY Symmetry
CONSTANTS
  Size = 3
  Writers = {w1, w2}
  Readers = {r1}
  Files = {f1, f2, f3}
  NoFile = NoFile
INVARIANTS
  TypeOK
  RestoredIsWhole
  TornByCrash
PROPERTIES
  WholeIsKept
  TornStays
