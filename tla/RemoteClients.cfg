SPECIFICATION FairSpec
CONSTANTS
  Clients = {c1}
  Changes = {k1}
  Fields = {x, y}
  Edited = {x}
  MaxVersions = 3
  MaxAnswers = 2
  MaxDeriving = 2
  MaxFaults = 1
INVARIANTS CanonicalFollows
PROPERTIES ChangesOwnFieldOnly LosesOnlyWhatWasHeard ClientsSettle
CHECK_DEADLOCK FALSE
