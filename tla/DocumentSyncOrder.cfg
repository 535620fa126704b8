SPECIFICATION Spec
CONSTANTS
    Nodes = {n1, n2}
    Writers = {n1}
    Requesters = {}
    u1 = u1
    u2 = u2
    u3 = u3
    u4 = u4
    Updates = {u1, u3}
    Content <- MCContent
    Leaves = {l1}
    Genesis = genesis
    None = None
    Jobs = {j1}
    Overlap = FALSE
    MaxFaults = 1
CHECK_DEADLOCK FALSE
INVARIANTS
    LogIsLawful
    QuietNodesAgree
PROPERTIES
    LogOnlyGrows
    ImplementsReplicated
