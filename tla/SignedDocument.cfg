\* Two jobs at a time over two updates that are in order, one by a key that is
\* not for signing, one that was moved to another place, and a leaf.
SPECIFICATION Spec
CONSTANTS
  None = None
  Genesis = "genesis"
  Leaves = {"leaf"}
  Updates <- MCUpdates
  Content <- MCContent
  Signers <- MCSigners
  Tampered <- MCTampered
  Versions <- MCVersions
  Jobs = {j1, j2}
  MaxRecords = 3
SYMMETRY Symmetry
VIEW ReferredTo
INVARIANT AcceptedIsSigned
INVARIANT RefusedIsNotListed
INVARIANT ViewFitsLog
CHECK_DEADLOCK FALSE
