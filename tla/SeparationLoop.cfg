\* All arrays of four records, for two documents and three times.
SPECIFICATION Spec
CONSTANTS
  NoRecord = NoRecord
  Records = {a, b, d, e}
  Docs = {x, y}
  Times = {1, 2, 3}
INVARIANT LoopComputesSeparation
INVARIANT LatestIsNewest
