--------------------------- MODULE MCDocumentSync ---------------------------
(* Small instances of DocumentSync for TLC.                                  *)
EXTENDS DocumentSync, TLC

CONSTANTS u1, u2, u3, u4

\* Of these an instance takes two: what one party signed, what both signed on the
\* same number, and on a lower one, and what the other party signed on that.
Contents ==
    u1 :> [num |-> 2, signed |-> {"partyA"}]
    @@ u2 :> [num |-> 2, signed |-> Parties]
    @@ u3 :> [num |-> 1, signed |-> Parties]
    @@ u4 :> [num |-> 1, signed |-> {"partyB"}]

MCContent == [u \in Updates |-> Contents[u]]

JobSymmetry == Permutations(Jobs)
=============================================================================
