SPECIFICATION FairSpec
CONSTANTS
  Docs = {d1}
  Cids = {c1}
  DocOf <- MCDocOf
  None = None
  MaxObjects = 2
  MaxRequests = 2
  MaxFaults = 2
INVARIANTS OneObjectUnlessRaced OneLoopPerRecord UnheardIsPursued
PROPERTIES HeardInOrder PollingEnds RequestedIsHeard
CHECK_DEADLOCK FALSE
