--------------------------- MODULE MCNodeProcess ---------------------------
\* The model that TLC checks: one document, of which one record is anchored.
EXTENDS NodeProcess, TLC

MCDocOf == [c \in Cids |-> CHOOSE d \in Docs : TRUE]
=============================================================================
