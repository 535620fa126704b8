\* Two calls at a time and two overlapping runs, over one document version
\* that is posted for two documents.
SPECIFICATION ApiSpec
CONSTANTS
  NoDoc = NoDoc
  Cids = {c1}
  Docs = {d1, d2}
  Times = {1, 2}
  Runs = {r1, r2}
  Calls = {h1, h2}
  MaxTransactions = 2
  MaxFaults = 1
SYMMETRY Symmetry
INVARIANT AnchoredAnswerFindsAnchor
INVARIANT PostAnswersItsDocument
