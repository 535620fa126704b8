--------------------------- MODULE AnchorProofs ---------------------------
(***************************************************************************)
(* What stands behind an anchor: Anchoring.create builds a Merkle tree in  *)
(* IPFS, sends its root in a transaction, waits for the block and stores   *)
(* a proof and one leaf per request; BlockchainReader.verify, in another   *)
(* program, follows a leaf back to its record and asks the blockchain      *)
(* whether it holds the root where the proof says.                         *)
(*                                                                         *)
(* Both are split at their awaits.  The blockchain is external: blocks are *)
(* mined, and may be replaced by others (a reorganisation) at any time,    *)
(* also between two requests of one creation or of one verification.  A    *)
(* transaction is known by the creation that sent it.                      *)
(***************************************************************************)
EXTENDS MerkleTree, ConnectionStrings, FiniteSets

CONSTANTS
  Creations,   \* calls of Anchoring.create
  Batches,     \* the request lists that each may be called with
  Urls,        \* values of BLOCKCHAIN_URL
  NoUrl,       \* a program that is not running
  MaxBlocks,   \* bound: blocks mined that hold none of the transactions
  MaxReorgs,   \* bound: reorganisations
  MaxFaults    \* bound: calls that fail

ASSUME ProofConstants ==
  /\ NoUrl \notin Urls
  /\ MaxBlocks \in Nat /\ MaxReorgs \in Nat /\ MaxFaults \in Nat

\* What anchorRequests hands to create: one request of each document, and at
\* least one.
ASSUME BatchConstants ==
  \A c \in Creations : \A batch \in Batches[c] :
    /\ Len(batch) \in Nat \ {0} /\ DOMAIN batch = 1..Len(batch)
    /\ \A i \in 1..Len(batch) : batch[i].docId \in Int
    /\ \A i, j \in 1..Len(batch) : batch[i].docId = batch[j].docId => i = j

VARIABLES
  apiUrl,    \* BLOCKCHAIN_URL of the running anchoring API
  nodeUrl,   \* BLOCKCHAIN_URL of the running node
  pc,        \* where each creation stands
  requests,  \* the requests of a creation, as it sorted them
  levels,    \* the finished levels of its tree
  nextLevel, \* the level it is growing
  receipt,   \* the block that its transaction was reported in
  proof,     \* its proof, once it knows the block
  leaves,    \* the leaves in IPFS
  mempool,   \* transactions that wait for a block
  chain,     \* the blocks of the chain
  mined,     \* all blocks ever mined, the replaced ones included
  reorgs,    \* reorganisations so far
  faults,    \* failures so far
  check      \* the verification that is under way, or the last one

creation == <<pc, requests, levels, nextLevel, receipt, proof>>
blockchain == <<mempool, chain, mined, reorgs>>
programs == <<apiUrl, nodeUrl>>
vars == <<programs, creation, leaves, blockchain, faults, check>>

None == [none |-> TRUE]
Position == {"idle", "merge", "send", "wait", "block", "leaves",
             "done", "failed"}

\* AnchorProof: its root is a CID, not the text a tree of one leaf has for root.
IsProof(p) ==
  /\ DOMAIN p = {"blockNumber", "blockTimestamp", "root", "chainId", "txHash"}
  /\ p.blockNumber \in Nat /\ p.blockTimestamp \in Nat
  /\ p.root.kind \in {"cid", "link"} /\ p.txHash \in Creations

\* AnchorLeaf, with the proof that its link leads to
IsLeaf(l) ==
  /\ DOMAIN l = {"prev", "proof", "path"}
  /\ l.prev.kind = "cid" /\ IsProof(l.proof) /\ Range(l.path) \subseteq {"L", "R"}

\* One type invariant; trees have no bounded type and are left to the others.
TypeOK ==
  /\ apiUrl \in Urls \cup {NoUrl} /\ nodeUrl \in Urls \cup {NoUrl}
  /\ pc \in [Creations -> Position]
  /\ \A c \in Creations : receipt[c] = None \/ receipt[c] \in mined
  /\ \A c \in Creations : proof[c] = None \/ IsProof(proof[c])
  /\ \A l \in leaves : IsLeaf(l)
  /\ \A i \in 1..Len(chain) : chain[i] \in mined /\ chain[i].number = i
  /\ \A b \in mined : b.hash \in 1..Cardinality(mined) /\ b.number \in Nat /\ b.time \in Nat
  /\ reorgs \in 0..MaxReorgs /\ faults \in 0..MaxFaults
  /\ check.at \in {"none", "transaction", "block", "end"}

Init ==
  /\ apiUrl = NoUrl /\ nodeUrl = NoUrl
  /\ pc = [c \in Creations |-> "idle"]
  /\ requests = [c \in Creations |-> << >>]
  /\ levels = [c \in Creations |-> << >>]
  /\ nextLevel = [c \in Creations |-> << >>]
  /\ receipt = [c \in Creations |-> None]
  /\ proof = [c \in Creations |-> None]
  /\ leaves = {} /\ mempool = {} /\ chain = << >> /\ mined = {}
  /\ reorgs = 0 /\ faults = 0
  /\ check = [at |-> "none"]

-----------------------------------------------------------------------------
(***************************************************************************)
(* The two programs start.  The configuration takes BLOCKCHAIN_URL, or     *)
(* null for it, and the constructors have to make something of that, or    *)
(* the process ends.                                                       *)
(***************************************************************************)
StartApi(url) ==
  /\ apiUrl = NoUrl /\ WriterStarts(Configured(url))
  /\ apiUrl' = Configured(url)
  /\ UNCHANGED <<nodeUrl, creation, leaves, blockchain, faults, check>>

StartNode(url) ==
  /\ nodeUrl = NoUrl /\ ReaderStarts(Configured(url))
  /\ nodeUrl' = Configured(url)
  /\ UNCHANGED <<apiUrl, creation, leaves, blockchain, faults, check>>

-----------------------------------------------------------------------------
(***************************************************************************)
(* The blockchain.                                                         *)
(***************************************************************************)
\* The bytes of a CID are taken as one.
Bytes(root) == <<root>>

Holds(block, c, root) == [hash |-> c, data |-> Bytes(root)] \in block.txs

\* A block with the transactions of txs; its time is after its parent's.
MineBlock(txs, gap) ==
  /\ txs \subseteq mempool
  /\ txs # {} \/ Cardinality({b \in mined : b.txs = {}}) < MaxBlocks
  /\ LET parent == IF chain = << >> THEN 0 ELSE Last(chain).time
         block == [hash |-> Cardinality(mined) + 1, number |-> Len(chain) + 1,
                   time |-> parent + gap, txs |-> txs]
     IN  chain' = Append(chain, block) /\ mined' = mined \cup {block}
  /\ mempool' = mempool \ txs
  /\ UNCHANGED <<programs, creation, leaves, reorgs, faults, check>>

\* The blocks from the n-th on are replaced, by blocks that are mined later: their
\* transactions wait again, and a block that was replaced does not come back.
Reorganise(n) ==
  /\ reorgs < MaxReorgs
  /\ mempool' = mempool \cup UNION {chain[i].txs : i \in n..Len(chain)}
  /\ chain' = SubSeq(chain, 1, n - 1)
  /\ reorgs' = reorgs + 1
  /\ UNCHANGED <<programs, creation, leaves, mined, faults, check>>

-----------------------------------------------------------------------------
(***************************************************************************)
(* Anchoring.create, from one await to the next.                           *)
(***************************************************************************)
Goto(c, place) == pc' = [pc EXCEPT ![c] = place]

\* mistake: the requests are merged in the order they were read in
AsRead(batch) == batch

\* Anchoring.merkleTree sorts the requests by docId; those of one
\* document stay in their order, as sort is stable.
ComesBefore(batch, i, j) ==
  batch[i].docId < batch[j].docId \/ (batch[i].docId = batch[j].docId /\ i < j)

PlaceOf(batch, i) == Cardinality({j \in DOMAIN batch : ComesBefore(batch, j, i)}) + 1

SortByDocId(batch) ==
  [k \in 1..Len(batch) |-> batch[CHOOSE i \in DOMAIN batch : PlaceOf(batch, i) = k]]

\* create is called, up to the first merge: an empty batch is never anchored.
StartCreation(c, batch) ==
  /\ apiUrl # NoUrl /\ pc[c] = "idle"
  /\ LET sorted == SortByDocId(batch)
         level == LeafLevel([i \in 1..Len(sorted) |-> sorted[i].cid])
     IN  /\ requests' = [requests EXCEPT ![c] = sorted]
         /\ levels' = [levels EXCEPT ![c] = <<level>>]
         /\ Goto(c, IF IsRootLevel(level) THEN "send" ELSE "merge")
  /\ UNCHANGED <<programs, nextLevel, receipt, proof, leaves, blockchain, faults, check>>

\* One dag.put of grow's loop; after the last pair the level is closed.  A
\* level without pairs that is no root would be grown again and again.
MergePair(c) ==
  /\ pc[c] = "merge"
  /\ Len(nextLevel[c]) < PairsOf(Last(levels[c]))
  /\ LET level == Last(levels[c])
         grown == Append(nextLevel[c], MergeAt(level, Len(nextLevel[c]) + 1))
         whole == grown \o Carried(level)
     IN  IF Len(grown) < PairsOf(level)
         THEN /\ nextLevel' = [nextLevel EXCEPT ![c] = grown]
              /\ UNCHANGED <<levels, pc>>
         ELSE /\ nextLevel' = [nextLevel EXCEPT ![c] = << >>]
              /\ levels' = [levels EXCEPT ![c] = Append(@, whole)]
              /\ Goto(c, IF IsRootLevel(whole) THEN "send" ELSE "merge")
  /\ UNCHANGED <<programs, requests, receipt, proof, leaves, blockchain,
                 faults, check>>

MerkleRoot(c) == AsCid(RootOf(levels[c]))

\* EthereumWriter.createAnchor: sendTransaction with the root as its data
SendTransaction(c) ==
  /\ pc[c] = "send"
  /\ mempool' = mempool \cup {[hash |-> c, data |-> Bytes(MerkleRoot(c))]}
  /\ Goto(c, "wait")
  /\ UNCHANGED <<programs, requests, levels, nextLevel, receipt, proof, leaves,
                 chain, mined, reorgs, faults, check>>

\* mistake: the transaction has to be confirmed by a block on top of its own
WaitForConfirmation(c) ==
  /\ pc[c] = "wait"
  /\ \E i \in 1..(Len(chain) - 1) : /\ Holds(chain[i], c, MerkleRoot(c))
                                    /\ receipt' = [receipt EXCEPT ![c] = chain[i]]
  /\ Goto(c, "block")
  /\ UNCHANGED <<programs, requests, levels, nextLevel, proof, leaves, blockchain,
                 faults, check>>

\* waitForTransaction: one confirmation is enough
WaitForTransaction(c) ==
  /\ pc[c] = "wait"
  /\ \E b \in Range(chain) : /\ Holds(b, c, MerkleRoot(c))
                             /\ receipt' = [receipt EXCEPT ![c] = b]
  /\ Goto(c, "block")
  /\ UNCHANGED <<programs, requests, levels, nextLevel, proof, leaves, blockchain,
                 faults, check>>

\* mistake: the latest block is asked for
LatestBlock(c) == IF chain = << >> THEN {} ELSE {Last(chain)}

\* mistake: the block is asked for by its number, whichever it is by now
BlockAtNumber(c) ==
  IF receipt[c].number <= Len(chain) THEN {chain[receipt[c].number]} ELSE {}

\* getBlock(receipt.blockHash): the reported block, replaced or not
BlockOfReceipt(c) == {b \in mined : b.hash = receipt[c].hash}

\* the number comes from the receipt, the time from the block
GetBlock(c) ==
  /\ pc[c] = "block"
  /\ \E b \in BlockOfReceipt(c) :
       proof' = [proof EXCEPT ![c] =
         [blockNumber |-> receipt[c].number, blockTimestamp |-> b.time,
          root |-> MerkleRoot(c), chainId |-> FromString(apiUrl).chain, txHash |-> c]]
  /\ Goto(c, "leaves")
  /\ UNCHANGED <<programs, requests, levels, nextLevel, receipt, leaves, blockchain,
                 faults, check>>

\* mistake: the path is turned round twice, and stays as it was climbed
LeafOfClimb(c, request) ==
  [prev |-> Cid(request.cid), proof |-> proof[c],
   path |-> Reverse(PathOf(levels[c], request.cid))]

LeafOf(c, request) ==
  [prev |-> Cid(request.cid), proof |-> proof[c], path |-> PathOf(levels[c], request.cid)]

\* The proof is put, and then the leaves that embed it, side by side.  Nobody knows their cids before create
\* returns, when all of them are stored.
PutLeaves(c) ==
  /\ pc[c] = "leaves"
  /\ leaves' = leaves \cup {LeafOf(c, r) : r \in Range(requests[c])}
  /\ Goto(c, "done")
  /\ UNCHANGED <<programs, requests, levels, nextLevel, receipt, proof, blockchain,
                 faults, check>>

\* A call to IPFS or to the blockchain rejects, and create with it.  What was
\* sent or stored before remains.
CreationFails(c) ==
  /\ pc[c] \notin {"idle", "done", "failed"} /\ faults < MaxFaults
  /\ Goto(c, "failed")
  /\ faults' = faults + 1
  /\ UNCHANGED <<programs, requests, levels, nextLevel, receipt, proof, leaves,
                 blockchain, check>>

-----------------------------------------------------------------------------
(***************************************************************************)
(* BlockchainReader.verify, from one await to the next.                    *)
(***************************************************************************)
End(l, verdict) == [at |-> "end", leaf |-> l, verdict |-> verdict]

\* verifyPrev: the record at the end of the path is a link and equals prev.
\* On a text there is no equals to call: the verification throws.
PrevVerdict(l) ==
  LET original == OriginalRecord(l.proof.root, l.path)
  IN  CASE original.kind \in {"text", "nothing"} -> "not a link"
        [] original.kind \in {"cid", "link"} /\ original # l.prev -> "misleading"
        [] OTHER -> "ok"

\* A verification starts; it goes on if the path leads to the record and
\* there is a reader for the chain of the proof.  What it reads in IPFS does
\* not change, and if that fails the verification is as if it had not started.
Verify(l) ==
  /\ nodeUrl # NoUrl /\ check.at \in {"none", "end"}
  /\ check' = IF PrevVerdict(l) # "ok" THEN End(l, PrevVerdict(l))
              ELSE IF ~Handles(nodeUrl, l.proof.chainId) THEN End(l, "unhandled chain")
              ELSE [at |-> "transaction", leaf |-> l]
  /\ UNCHANGED <<programs, creation, leaves, blockchain, faults>>

\* The blocks of the chain the node reads that hold a transaction
BlocksWith(hash) ==
  IF FromString(nodeUrl).transport # FromString(apiUrl).transport THEN {}
  ELSE {b \in Range(chain) : \E tx \in b.txs : tx.hash = hash}

\* getTransaction: null, or without a block while it waits for one
GetTransaction ==
  /\ check.at = "transaction"
  /\ LET found == BlocksWith(check.leaf.proof.txHash)
     IN  IF found = {} THEN check' = End(check.leaf, "no transaction")
         ELSE \E b \in found :
                check' = [at |-> "block", leaf |-> check.leaf, block |-> b]
  /\ UNCHANGED <<programs, creation, leaves, blockchain, faults>>

\* txData.every: the bytes of the transaction are those the root begins with, so
\* that fewer of them, or none, pass for any root.
Agrees(data, root) == IsPrefix(data, Bytes(root))

\* EthereumReader.validateProof once it has the transaction and its block
ProofVerdict(p, block) ==
  LET equal == \E tx \in block.txs : tx.hash = p.txHash /\ Agrees(tx.data, p.root)
      sameNumber == p.blockNumber = block.number
  IN  CASE ~equal -> "other root"
        [] equal /\ ~sameNumber -> "numbers diverge"
        [] equal /\ sameNumber /\ p.blockTimestamp # block.time -> "timestamps diverge"
        [] OTHER -> "accepted"

\* getBlock(transaction.blockHash) and the comparisons
CompareWithBlock ==
  /\ check.at = "block"
  /\ check' = End(check.leaf, ProofVerdict(check.leaf.proof, check.block))
  /\ UNCHANGED <<programs, creation, leaves, blockchain, faults>>

\* A call to IPFS or to the blockchain rejects: there is no verdict.
VerificationFails ==
  /\ check.at \in {"transaction", "block"} /\ faults < MaxFaults
  /\ check' = [at |-> "none"]
  /\ faults' = faults + 1
  /\ UNCHANGED <<programs, creation, leaves, blockchain>>

-----------------------------------------------------------------------------
Create(c) ==
  \/ MergePair(c) \/ SendTransaction(c) \/ WaitForTransaction(c)
  \/ GetBlock(c) \/ PutLeaves(c)

Next ==
  \/ \E url \in Urls : StartApi(url) \/ StartNode(url)
  \/ \E txs \in SUBSET mempool, gap \in 1..2 : MineBlock(txs, gap)
  \/ \E n \in 1..Len(chain) : Reorganise(n)
  \/ \E c \in Creations :
       \/ \E batch \in Batches[c] : StartCreation(c, batch)
       \/ Create(c) \/ CreationFails(c)
  \/ \E l \in leaves : Verify(l)
  \/ GetTransaction \/ CompareWithBlock \/ VerificationFails

Spec == Init /\ [][Next]_vars

\* The one event loop runs what awaited calls returned, of whichever creation, and
\* the network mines what it was sent.
Fairness ==
  /\ WF_vars(\E c \in Creations : Create(c))
  /\ WF_vars(mempool # {} /\ MineBlock(mempool, 1))

FairSpec == Spec /\ Fairness
-----------------------------------------------------------------------------
\* Every leaf in IPFS leads from the root of its proof to the record it
\* names: the path that MerkleTree.path noted on the way up is the one that
\* originalRecordCid follows on the way down, in trees of every shape.
LeafLeadsToRecord ==
  \A l \in leaves : OriginalRecord(l.proof.root, l.path)
                      \in {l.prev, Text(l.prev.cid)}

\* The root depends on the set of requests only: two creations that were
\* given the same requests, in whatever order the query returned them, send
\* the same root.
SameBatchSameRoot ==
  \A c, d \in Creations :
    /\ proof[c] # None /\ proof[d] # None
    /\ Range(requests[c]) = Range(requests[d])
    => proof[c].root = proof[d].root

\* The number and the time of a proof are those of one block, and this block
\* has held the transaction and its root: createAnchor reads them in two
\* calls, and the chain may be reorganised between them.
NamesABlock(p) ==
  \E b \in mined : /\ b.number = p.blockNumber /\ b.time = p.blockTimestamp
                   /\ Holds(b, p.txHash, p.root)

ProofNamesOneBlock == \A c \in Creations : proof[c] # None => NamesABlock(proof[c])

\* The verdicts that blame the proof
Refusals == {"not a link", "misleading", "unhandled chain", "no transaction",
             "other root", "numbers diverge", "timestamps diverge"}

\* What a node says of a stored leaf.  A leaf of several requests is always
\* refused, whatever the chain holds: its path ends at a text, and a text has no
\* equals.  A leaf that is its own root is refused, by a node that reads the
\* chain the service writes to, only if the very block that its transaction was
\* reported in has been replaced: another reorganisation is no reason, nor is
\* one between the two calls that the number and the time of the proof came from.
VerdictFollowsChain ==
  check.at = "end" =>
    /\ check.leaf.path # << >> => check.verdict = "not a link"
    /\ /\ check.leaf.path = << >> /\ check.verdict \in Refusals
       /\ FromString(nodeUrl).transport = FromString(apiUrl).transport
       => receipt[check.leaf.proof.txHash] \notin Range(chain)

\* Every creation ends, with its leaves stored or with an error: the tree
\* reaches its root and the transaction its block, though the chain is
\* reorganised (MaxReorgs times) while the creation waits.
CreationEnds ==
  \A c \in Creations : pc[c] = "merge" ~> pc[c] \in {"done", "failed"}

=============================================================================
