--------------------------- MODULE MerkleTree ---------------------------
(***************************************************************************)
(* The Merkle tree of lib/anchoring, its inner nodes stored in IPFS, and   *)
(* the way from a root back to a leaf.                                     *)
(*                                                                         *)
(* A node is known by its id.  The id of a leaf is the cid column of a     *)
(* request, a text: the entity and IAnchoringRequest declare it a string.  *)
(* The id of an inner node is what dag.put returned, a link to the stored  *)
(* pair of its children's ids; IPFS addresses by content, so a link is     *)
(* represented by the pair itself.  Cids are unique in the table, so ids   *)
(* tell the nodes of a tree apart as object identity does in the code.     *)
(***************************************************************************)
EXTENDS Integers, Sequences, SequencesExt

Text(cid) == [kind |-> "text", cid |-> cid]
Link(left, right) == [kind |-> "link", L |-> left, R |-> right]

\* new CID(request.cid): a text that was parsed
Cid(cid) == [kind |-> "cid", cid |-> cid]

\* new CID(root.id) parses a text and leaves a link as it is.
AsCid(id) == IF id.kind = "text" THEN Cid(id.cid) ELSE id

-----------------------------------------------------------------------------
\* Operators marked "mistake" are used by no definition: each is the operator
\* after it with a plausible mistake in the code, for showing that the
\* properties notice.

\* MerkleTree.fromLeaves: the first level
LeafLevel(cids) == [i \in 1..Len(cids) |-> Text(cids[i])]

\* ipfsMerge of the i-th pair of a level
MergeAt(level, i) == Link(level[2 * i - 1], level[2 * i])

\* mistake: the last node of a level of odd length is forgotten
NothingCarried(level) == << >>

\* grow: the last node of a level of odd length goes up as it is
Carried(level) == IF Len(level) % 2 = 1 THEN <<level[Len(level)]>> ELSE << >>

\* the pairs that grow's loop merges
PairsOf(level) == Len(level) \div 2

\* grow stops at a level of one node
IsRootLevel(level) == Len(level) = 1

-----------------------------------------------------------------------------
\* The place of a node's parent (its uplink) in the level above: the pair that
\* the node is in, or its own place where the node was carried up.
UplinkOf(i) == (i + 1) \div 2

\* The nodes from the i-th leaf up to the root
Ascent(levels, i) ==
  LET place[k \in 1..Len(levels)] == IF k = 1 THEN i ELSE UplinkOf(place[k - 1])
  IN  [k \in 1..Len(levels) |-> levels[k][place[k]]]

\* nodePath's step from a node to its parent; a carried node takes none.
StepTo(node, parent) ==
  CASE parent = node -> << >>
    [] parent # node /\ parent.L = node -> <<"L">>
    [] OTHER -> <<"R">>

\* nodePath's "present": the steps up to each level
StepsUp(levels, i) ==
  LET nodes == Ascent(levels, i)
      present[k \in 1..Len(levels)] ==
        IF k = 1 THEN << >> ELSE present[k - 1] \o StepTo(nodes[k - 1], nodes[k])
  IN  present[Len(levels)]

LeafIndex(levels, cid) == CHOOSE i \in 1..Len(levels[1]) : levels[1][i] = Text(cid)

\* MerkleTree.path: from the leaf up to the root, then reversed.
PathOf(levels, cid) == Reverse(StepsUp(levels, LeafIndex(levels, cid)))

\* MerkleTree.root
RootOf(levels) == levels[Len(levels)][1]

-----------------------------------------------------------------------------
\* What dag.get and the property access on its result give where there is
\* nothing to follow.
Nothing == [kind |-> "nothing"]

\* One segment of a path, below an id.
Follow(id, direction) ==
  IF id.kind # "link" THEN Nothing
  ELSE IF direction = "L" THEN id.L ELSE id.R

\* dag.get with a path
Resolved(id, path) == FoldLeft(Follow, id, path)

\* BlockchainReader.originalRecordCid: the path without its last step is
\* resolved in IPFS, the last step is read from the record found there.
OriginalRecord(root, path) ==
  IF path = << >> THEN root ELSE Follow(Resolved(root, Front(path)), Last(path))
=============================================================================
