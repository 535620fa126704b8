SPECIFICATION Spec
CONSTANTS
  NoDoc = NoDoc
  Cids = {c1, c2, c3}
  Docs = {d1, d2}
  Times = {1, 2}
  Runs = {r1, r2}
  MaxTransactions = 2
  MaxFaults = 1
SYMMETRY Symmetry
INVARIANT AnchoredHasAnchor
INVARIANT AnchorIsProven
INVARIANT OneVersionPerTransaction
INVARIANT OutdatedIsSuperseded
INVARIANT AnchoredWasAnnounced
