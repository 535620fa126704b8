----------------------- MODULE MCAnchoringService -----------------------
(* Small instances of AnchoringService for TLC. *)
EXTENDS AnchoringService, TLC

\* The cids and the documents are alike; used in runs without liveness.
Symmetry == Permutations(Cids) \cup Permutations(Docs)
=========================================================================
