SPECIFICATION FairSpec
CONSTANTS
  NoDoc = NoDoc
  Cids = {c1, c2, c3}
  Docs = {d1, d2}
  Times = {1, 2}
  Runs = {r1}
  MaxTransactions = 4
  MaxFaults = 1
INVARIANT RepeatedOnlyAfterFault
PROPERTY ImplementsLifecycle
PROPERTY EveryRequestSettles
PROPERTY LastStateAnchored
