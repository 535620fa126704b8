SPECIFICATION Spec
CONSTANTS
    Nodes = {n1, n2}
    Writers = {n1}
    Requesters = {}
    u1 = u1
    u2 = u2
    u3 = u3
    u4 = u4
    Updates = {u1, u3}
    Content <- MCContent
    Leaves = {}
    Genesis = genesis
    None = None
    Jobs = {j1, j2}
    Overlap = TRUE
    MaxFaults = 0
SYMMETRY JobSymmetry
CHECK_DEADLOCK FALSE
INVARIANTS
    LogIsChain
    LogIsLawful
    SameHeadSameLog
