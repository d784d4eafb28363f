SPECIFICATION Spec
CONSTANTS
  Systems = {a, b}
  Files = {f, g}
  MaxTime = 2
  MaxChunks = 3
  MaxRecords = 2
  MaxLives = 2
SYMMETRY Symmetry
INVARIANTS
  RangeQueriesExact
  OnlyGluedIsLost
