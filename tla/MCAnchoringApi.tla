------------------------- MODULE MCAnchoringApi -------------------------
(* Small instances of AnchoringApi for TLC. *)
EXTENDS AnchoringApi, TLC

\* Calls, runs and documents are alike, and so are the cids.
Symmetry == Permutations(Cids) \cup Permutations(Docs) \cup Permutations(Runs)
            \cup Permutations(Calls)
=========================================================================
