------------------------- MODULE AnchoringProofs -------------------------
(***************************************************************************)
(* Proofs about the anchoring service and the API on top of it, for any    *)
(* number of requests, documents, overlapping runs, HTTP calls, failures   *)
(* and restarts.                                                           *)
(***************************************************************************)
EXTENDS AnchoringApi, SeparateByTimeProofs

USE DEF requests, ledger, runs

-----------------------------------------------------------------------------
(***************************************************************************)
(* AnchoringService: its tables and what is sent to the blockchain.        *)
(***************************************************************************)

\* The part of TypeOK about the local variables of the runs.
RunsTyped ==
  /\ pc \in [Runs -> Position]
  /\ picked \in [Runs -> SUBSET Cids]
  /\ batch \in [Runs -> SUBSET Cids]
  /\ tx \in [Runs -> Nat]

\* A run that has sent its transaction knows its place in the chain.
MinedInChain == \A r \in Runs : pc[r] = "mined" => tx[r] \in DOMAIN chain

TypeInv == TypeOK /\ MinedInChain

LEMMA EndRunTyped ==
  ASSUME RunsTyped, MinedInChain, NEW r \in Runs, EndRun(r), chain' = chain
  PROVE  RunsTyped' /\ MinedInChain'
BY DEF RunsTyped, MinedInChain, EndRun, Position

LEMMA TypeStep ==
  ASSUME TypeInv, [Next]_vars
  PROVE  TypeInv'
<1>. USE DEF TypeInv, TypeOK, RunsTyped, MinedInChain
<1>1. CASE UNCHANGED vars
  BY <1>1 DEF vars
<1>2. ASSUME NEW c \in Cids, NEW d \in Docs, NEW t \in Times, Accept(c, d, t)
      PROVE  TypeInv'
  BY <1>2, ServiceConstants DEF Accept, Lifecycle!AnchoringStatus
<1>3. ASSUME NEW r \in Runs, ReadRequests(r) PROVE TypeInv'
  BY <1>3 DEF ReadRequests, AllByStatus, Position
<1>4. ASSUME NEW r \in Runs, MarkProcessing(r) PROVE TypeInv'
  BY <1>4 DEF MarkProcessing, UpdateStatus, Position, Lifecycle!AnchoringStatus
<1>5. ASSUME NEW r \in Runs, SeparateAndMarkOutdated(r) PROVE TypeInv'
  <2>1. PICK ord \in ScanOrders(picked[r]) :
          /\ UpdateStatus(StaleOf(picked[r], ord), "OUTDATED")
          /\ \/ EndRun(r)
             \/ /\ batch' = [batch EXCEPT ![r] = LatestOf(picked[r], ord)]
                /\ pc' = [pc EXCEPT ![r] = "send"]
                /\ UNCHANGED <<picked, tx>>
    BY <1>5 DEF SeparateAndMarkOutdated
  <2>2. status' \in [Cids -> Lifecycle!AnchoringStatus]
    BY <2>1 DEF UpdateStatus, Lifecycle!AnchoringStatus
  <2>3. LatestOf(picked[r], ord) \subseteq Cids
    BY DEF LatestOf, BecomesPresent
  <2>4. CASE EndRun(r)
    BY <1>5, <2>2, <2>4, EndRunTyped DEF SeparateAndMarkOutdated
  <2>5. CASE /\ batch' = [batch EXCEPT ![r] = LatestOf(picked[r], ord)]
             /\ pc' = [pc EXCEPT ![r] = "send"]
             /\ UNCHANGED <<picked, tx>>
    <3>1. RunsTyped' /\ \A s \in Runs : pc'[s] = "mined" => pc[s] = "mined"
      BY <2>3, <2>5 DEF Position
    <3>2. MinedInChain'
      BY <1>5, <2>5, <3>1 DEF SeparateAndMarkOutdated
    <3>. QED BY <1>5, <2>2, <3>1, <3>2 DEF SeparateAndMarkOutdated
  <2>. QED BY <2>1, <2>4, <2>5
<1>6. ASSUME NEW r \in Runs, SendTransaction(r) PROVE TypeInv'
  <2>1. /\ chain' \in Seq(SUBSET Cids) /\ DOMAIN chain \subseteq DOMAIN chain'
        /\ NextPosition \in DOMAIN chain' /\ NextPosition \in Nat
    BY <1>6 DEF SendTransaction, NextPosition
  <2>. QED BY <1>6, <2>1 DEF SendTransaction, Position
<1>7. ASSUME NEW r \in Runs, TransactionRejected(r) PROVE TypeInv'
  BY <1>7, EndRunTyped DEF TransactionRejected
<1>8. ASSUME NEW r \in Runs, SaveTransaction(r) PROVE TypeInv'
  BY <1>8 DEF SaveTransaction, Position
<1>9. ASSUME NEW r \in Runs, SaveAnchor(r) PROVE TypeInv'
  <2>1. PICK c \in batch[r] : anchors' = anchors \cup {[cid |-> c, tx |-> tx[r]]}
    BY <1>9 DEF SaveAnchor
  <2>2. [cid |-> c, tx |-> tx[r]] \in Anchor
    BY DEF Anchor
  <2>. QED BY <1>9, <2>1, <2>2 DEF SaveAnchor, Position
<1>10. ASSUME NEW r \in Runs, SaveRequest(r) PROVE TypeInv'
  <2>1. PICK c \in batch[r] :
          /\ status' = [status EXCEPT ![c] = "ANCHORED"]
          /\ DidAnchor(c)
          /\ \/ EndRun(r)
             \/ /\ batch' = [batch EXCEPT ![r] = batch[r] \ {c}]
                /\ pc' = [pc EXCEPT ![r] = "anchor"]
                /\ UNCHANGED <<picked, tx>>
    BY <1>10 DEF SaveRequest
  <2>2. c \in Cids /\ status' \in [Cids -> Lifecycle!AnchoringStatus]
    BY <2>1 DEF Lifecycle!AnchoringStatus
  <2>3. announced' \subseteq Cids
    BY <2>1, <2>2 DEF DidAnchor, Publish
  <2>4. CASE EndRun(r)
    BY <1>10, <2>2, <2>3, <2>4, EndRunTyped DEF SaveRequest
  <2>5. CASE /\ batch' = [batch EXCEPT ![r] = batch[r] \ {c}]
             /\ pc' = [pc EXCEPT ![r] = "anchor"]
             /\ UNCHANGED <<picked, tx>>
    BY <1>10, <2>2, <2>3, <2>5 DEF SaveRequest, Position
  <2>. QED BY <2>1, <2>4, <2>5
<1>11. ASSUME NEW r \in Runs, RunThrows(r) PROVE TypeInv'
  BY <1>11, EndRunTyped DEF RunThrows, Fault
<1>12. ASSUME NEW r \in Runs, RequestRolledBack(r) PROVE TypeInv'
  <2>1. announced' \subseteq Cids
    BY <1>12 DEF RequestRolledBack, DidAnchor, Publish
  <2>. QED BY <1>12, <2>1, EndRunTyped DEF RequestRolledBack, Fault
<1>13. CASE Restart
  BY <1>13 DEF Restart, Fault, Position
<1>. QED BY <1>1, <1>2, <1>3, <1>4, <1>5, <1>6, <1>7, <1>8, <1>9, <1>10, <1>11,
            <1>12, <1>13 DEF Next, RunStep

\* Every variable keeps its type.
THEOREM TypeCorrect == Spec => []TypeOK
<1>1. Init => TypeInv
  BY DEF Init, TypeInv, TypeOK, MinedInChain, Position, Lifecycle!AnchoringStatus
<1>2. TypeInv => TypeOK
  BY DEF TypeInv
<1>. QED BY <1>1, <1>2, TypeStep, PTL DEF Spec

-----------------------------------------------------------------------------
(* What one step can do to a row, to a run and to the ledger. *)

Read(c) == \E r \in Runs : pc[r] = "read" /\ c \in picked[r]

MadeStale(c) ==
  \E r \in Runs : pc[r] = "separate" /\
    \E ord \in ScanOrders(picked[r]) : c \in StaleOf(picked[r], ord)

Saved(c) == \E r \in Runs : pc[r] = "request" /\ InLoop(r, c)

\* The status of a row changes in four ways only.
LEMMA StatusSteps ==
  ASSUME TypeOK, [Next]_vars, NEW c \in Cids, status'[c] # status[c]
  PROVE  \/ status[c] = "NOT_REQUESTED" /\ status'[c] = "PENDING"
         \/ Read(c) /\ status'[c] = "PROCESSING"
         \/ MadeStale(c) /\ status'[c] = "OUTDATED"
         \/ Saved(c) /\ status'[c] = "ANCHORED" /\ c \in announced'
<1>1. ASSUME NEW b \in Cids, NEW d \in Docs, NEW t \in Times, Accept(b, d, t)
      PROVE  status[c] = "NOT_REQUESTED" /\ status'[c] = "PENDING"
  BY <1>1 DEF Accept, TypeOK
<1>2. ASSUME NEW r \in Runs, MarkProcessing(r)
      PROVE  Read(c) /\ status'[c] = "PROCESSING"
  BY <1>2 DEF MarkProcessing, UpdateStatus, Read, TypeOK
<1>3. ASSUME NEW r \in Runs, SeparateAndMarkOutdated(r)
      PROVE  MadeStale(c) /\ status'[c] = "OUTDATED"
  BY <1>3 DEF SeparateAndMarkOutdated, UpdateStatus, MadeStale, TypeOK
<1>4. ASSUME NEW r \in Runs, SaveRequest(r)
      PROVE  Saved(c) /\ status'[c] = "ANCHORED" /\ c \in announced'
  <2>1. PICK b \in batch[r] : /\ InLoop(r, b) /\ DidAnchor(b)
                              /\ status' = [status EXCEPT ![b] = "ANCHORED"]
    BY <1>4 DEF SaveRequest
  <2>2. b = c /\ status'[c] = "ANCHORED"
    BY <2>1 DEF TypeOK
  <2>3. HasAnchor(c)
    BY <2>1, <2>2 DEF InLoop, HasAnchor
  <2>. QED BY <1>4, <2>1, <2>2, <2>3 DEF SaveRequest, Saved, DidAnchor, Publish
<1>5. ASSUME NEW r \in Runs,
             \/ ReadRequests(r) \/ SendTransaction(r) \/ TransactionRejected(r)
             \/ SaveTransaction(r) \/ SaveAnchor(r) \/ RunThrows(r) \/ RequestRolledBack(r)
      PROVE  FALSE
  BY <1>5 DEF ReadRequests, SendTransaction, TransactionRejected, SaveTransaction,
              SaveAnchor, RunThrows, RequestRolledBack
<1>6. ~Restart /\ ~UNCHANGED vars
  BY DEF Restart, vars
<1>. QED BY <1>1, <1>2, <1>3, <1>4, <1>5, <1>6 DEF Next, RunStep

\* The document and the time of a row are never changed.
LEMMA RowsStay ==
  ASSUME TypeOK, [Next]_vars, NEW c \in Cids, status[c] # "NOT_REQUESTED"
  PROVE  /\ docId'[c] = docId[c] /\ createdAt'[c] = createdAt[c]
         /\ status'[c] # "NOT_REQUESTED"
         /\ status[c] # "PENDING" => status'[c] # "PENDING"
<1>1. ASSUME NEW b \in Cids, NEW d \in Docs, NEW t \in Times, Accept(b, d, t)
      PROVE  docId'[c] = docId[c] /\ createdAt'[c] = createdAt[c]
  BY <1>1 DEF Accept, TypeOK
<1>2. \/ \E b \in Cids, d \in Docs, t \in Times : Accept(b, d, t)
      \/ UNCHANGED <<docId, createdAt>>
  BY DEF Next, RunStep, vars, ReadRequests, MarkProcessing, SeparateAndMarkOutdated,
         SendTransaction, TransactionRejected, SaveTransaction, SaveAnchor, SaveRequest,
         RunThrows, RequestRolledBack, Restart
<1>3. docId'[c] = docId[c] /\ createdAt'[c] = createdAt[c]
  BY <1>1, <1>2
<1>. QED BY <1>3, StatusSteps

\* Nothing is taken off the ledger.
LEMMA LedgerGrows ==
  ASSUME [Next]_vars
  PROVE  /\ anchors \subseteq anchors' /\ transactions \subseteq transactions'
         /\ announced \subseteq announced'
BY DEF Next, RunStep, vars, Accept, ReadRequests, MarkProcessing, SeparateAndMarkOutdated,
       SendTransaction, TransactionRejected, SaveTransaction, SaveAnchor, SaveRequest,
       RunThrows, RequestRolledBack, Restart, DidAnchor, Publish

-----------------------------------------------------------------------------
\* A request that is ANCHORED has an anchor record and was announced, whatever
\* runs overlapped and wherever they stopped (anchorRequests saves the anchor
\* record first; RequestSubscriber.afterUpdate finds it).
THEOREM AnchoredIsOnRecord == Spec => []AnchoredHasAnchor
<1>1. Init => AnchoredHasAnchor
  BY DEF Init, AnchoredHasAnchor
<1>2. TypeOK /\ AnchoredHasAnchor /\ [Next]_vars => AnchoredHasAnchor'
  <2>. SUFFICES ASSUME TypeOK, AnchoredHasAnchor, [Next]_vars,
                       NEW c \in Cids, status'[c] = "ANCHORED"
                PROVE  HasAnchor(c)'
    BY DEF AnchoredHasAnchor
  <2>1. HasAnchor(c)
    BY StatusSteps DEF AnchoredHasAnchor, Saved, InLoop, HasAnchor
  <2>. QED BY <2>1, LedgerGrows DEF HasAnchor
<1>. QED BY <1>1, <1>2, TypeCorrect, PTL DEF Spec

\* The same for the announcement on didAnchor.
THEOREM AnchoredIsAnnounced == Spec => []AnchoredWasAnnounced
<1>1. Init => AnchoredWasAnnounced
  BY DEF Init, AnchoredWasAnnounced
<1>2. TypeOK /\ AnchoredWasAnnounced /\ [Next]_vars => AnchoredWasAnnounced'
  <2>. SUFFICES ASSUME TypeOK, AnchoredWasAnnounced, [Next]_vars,
                       NEW c \in Cids, status'[c] = "ANCHORED"
                PROVE  c \in announced'
    BY DEF AnchoredWasAnnounced
  <2>. QED BY StatusSteps, LedgerGrows DEF AnchoredWasAnnounced
<1>. QED BY <1>1, <1>2, TypeCorrect, PTL DEF Spec

-----------------------------------------------------------------------------
\* What one step does to the sets a run works on, and to the chain.
LEMMA BatchSteps ==
  ASSUME TypeOK, [Next]_vars, NEW r \in Runs
  PROVE  /\ picked'[r] \subseteq picked[r] \cup AllByStatus({"PENDING", "PROCESSING"})
         /\ \/ batch'[r] \subseteq batch[r]
            \/ \E ord \in ScanOrders(picked[r]) : batch'[r] = LatestOf(picked[r], ord)
<1>. USE DEF TypeOK
<1>1. ASSUME NEW s \in Runs, SeparateAndMarkOutdated(s)
      PROVE  /\ picked'[r] \subseteq picked[r]
             /\ \/ batch'[r] \subseteq batch[r]
                \/ \E ord \in ScanOrders(picked[r]) : batch'[r] = LatestOf(picked[r], ord)
  <2>1. PICK ord \in ScanOrders(picked[s]) :
          \/ EndRun(s)
          \/ batch' = [batch EXCEPT ![s] = LatestOf(picked[s], ord)] /\ picked' = picked
    BY <1>1 DEF SeparateAndMarkOutdated
  <2>. QED BY <2>1 DEF EndRun
<1>2. ASSUME NEW s \in Runs, SaveRequest(s)
      PROVE  picked'[r] \subseteq picked[r] /\ batch'[r] \subseteq batch[r]
  <2>1. PICK c \in batch[s] :
          \/ EndRun(s)
          \/ batch' = [batch EXCEPT ![s] = batch[s] \ {c}] /\ picked' = picked
    BY <1>2 DEF SaveRequest
  <2>2. CASE EndRun(s)
    BY <2>2 DEF EndRun
  <2>3. CASE batch' = [batch EXCEPT ![s] = batch[s] \ {c}] /\ picked' = picked
    BY <2>3
  <2>. QED BY <2>1, <2>2, <2>3
<1>3. ASSUME NEW s \in Runs, ReadRequests(s)
      PROVE  /\ picked'[r] \subseteq picked[r] \cup AllByStatus({"PENDING", "PROCESSING"})
             /\ batch' = batch
  BY <1>3 DEF ReadRequests
<1>4. ASSUME NEW s \in Runs,
             RunThrows(s) \/ RequestRolledBack(s) \/ TransactionRejected(s)
      PROVE  picked'[r] \subseteq picked[r] /\ batch'[r] \subseteq batch[r]
  <2>1. EndRun(s)
    BY <1>4 DEF RunThrows, RequestRolledBack, TransactionRejected
  <2>. QED BY <2>1 DEF EndRun
<1>5. ASSUME NEW s \in Runs,
             MarkProcessing(s) \/ SendTransaction(s) \/ SaveTransaction(s) \/ SaveAnchor(s)
      PROVE  picked'[r] \subseteq picked[r] /\ batch' = batch
  BY <1>5 DEF MarkProcessing, SendTransaction, SaveTransaction, SaveAnchor
<1>6. CASE Restart
  BY <1>6 DEF Restart
<1>7. CASE UNCHANGED vars
  BY <1>7 DEF vars
<1>8. ASSUME NEW b \in Cids, NEW d \in Docs, NEW t \in Times, Accept(b, d, t)
      PROVE  picked' = picked /\ batch' = batch
  BY <1>8 DEF Accept
<1>. QED BY <1>1, <1>2, <1>3, <1>4, <1>5, <1>6, <1>7, <1>8 DEF Next, RunStep

LEMMA ChainSteps ==
  ASSUME TypeOK, [Next]_vars
  PROVE  /\ chain \in Seq(SUBSET Cids) /\ chain' \in Seq(SUBSET Cids)
         /\ \A k \in DOMAIN chain : k \in DOMAIN chain' /\ chain'[k] = chain[k]
         /\ \A k \in DOMAIN chain' : \/ k \in DOMAIN chain /\ chain'[k] = chain[k]
                                     \/ \E s \in Runs : chain'[k] = batch[s]
<1>1. chain' = chain \/ \E s \in Runs : chain' = Append(chain, batch[s])
  BY DEF Next, RunStep, vars, Accept, ReadRequests, MarkProcessing, SeparateAndMarkOutdated,
         SendTransaction, TransactionRejected, SaveTransaction, SaveAnchor, SaveRequest,
         RunThrows, RequestRolledBack, Restart
<1>2. chain \in Seq(SUBSET Cids) /\ \A s \in Runs : batch[s] \in SUBSET Cids
  BY DEF TypeOK
<1>3. CASE chain' = chain
  BY <1>2, <1>3
<1>4. ASSUME NEW s \in Runs, chain' = Append(chain, batch[s])
      PROVE  /\ chain' \in Seq(SUBSET Cids) /\ DOMAIN chain' = 1..Len(chain) + 1
             /\ DOMAIN chain = 1..Len(chain) /\ Len(chain) \in Nat
             /\ \A k \in 1..Len(chain) : chain'[k] = chain[k]
             /\ chain'[Len(chain) + 1] = batch[s]
  BY <1>2, <1>4
<1>. QED BY <1>1, <1>2, <1>3, <1>4

\* The rows a run works on, and those on the chain, are in the table.
RowsInTable ==
  /\ \A r \in Runs : \A c \in picked[r] \cup batch[r] : status[c] # "NOT_REQUESTED"
  /\ \A k \in DOMAIN chain : \A c \in chain[k] : status[c] # "NOT_REQUESTED"

\* The batch of a run holds one version of a document.
OneVersionPerBatch ==
  \A r \in Runs : \A c, o \in batch[r] : c # o => docId[c] # docId[o]

VersionInv == RowsInTable /\ OneVersionPerBatch /\ OneVersionPerTransaction

LEMMA VersionStep ==
  ASSUME TypeOK, VersionInv, [Next]_vars
  PROVE  VersionInv'
<1>1. ASSUME NEW r \in Runs, NEW c \in picked'[r] \cup batch'[r]
      PROVE  c \in Cids /\ status[c] # "NOT_REQUESTED"
  <2>1. \A ord : LatestOf(picked[r], ord) \subseteq picked[r]
    BY DEF LatestOf, BecomesPresent
  <2>2. \/ c \in picked[r] \cup batch[r]
        \/ c \in AllByStatus({"PENDING", "PROCESSING"})
    BY <2>1, BatchSteps
  <2>. QED BY <2>2 DEF VersionInv, RowsInTable, AllByStatus, TypeOK
<1>2. ASSUME NEW k \in DOMAIN chain', NEW c \in chain'[k]
      PROVE  c \in Cids /\ status[c] # "NOT_REQUESTED"
  <2>1. CASE k \in DOMAIN chain /\ chain'[k] = chain[k]
    BY <2>1, ChainSteps DEF VersionInv, RowsInTable
  <2>2. ASSUME NEW s \in Runs, chain'[k] = batch[s]
        PROVE  c \in Cids /\ status[c] # "NOT_REQUESTED"
    BY <2>2 DEF VersionInv, RowsInTable, TypeOK
  <2>. QED BY <2>1, <2>2, ChainSteps
<1>3. RowsInTable'
  <2>1. \A r \in Runs : \A c \in picked'[r] \cup batch'[r] : status'[c] # "NOT_REQUESTED"
    BY <1>1, RowsStay
  <2>2. ASSUME NEW k \in DOMAIN chain', NEW c \in chain'[k]
        PROVE  status'[c] # "NOT_REQUESTED"
    BY <1>2, RowsStay
  <2>. QED BY <2>1, <2>2 DEF RowsInTable
<1>4. OneVersionPerBatch'
  <2>. SUFFICES ASSUME NEW r \in Runs, NEW c \in batch'[r], NEW o \in batch'[r], c # o
                PROVE  docId'[c] # docId'[o]
    BY DEF OneVersionPerBatch
  <2>1. docId'[c] = docId[c] /\ docId'[o] = docId[o]
    BY <1>1, RowsStay
  <2>2. docId[c] # docId[o]
    <3>1. CASE batch'[r] \subseteq batch[r]
      BY <3>1 DEF VersionInv, OneVersionPerBatch
    <3>2. ASSUME NEW ord \in ScanOrders(picked[r]), batch'[r] = LatestOf(picked[r], ord)
          PROVE  docId[c] # docId[o]
      BY <3>2, OneLatestPerDocument
    <3>. QED BY <3>1, <3>2, BatchSteps
  <2>. QED BY <2>1, <2>2
<1>5. OneVersionPerTransaction'
  <2>. SUFFICES ASSUME NEW k \in DOMAIN chain', NEW c \in chain'[k], NEW o \in chain'[k],
                       c # o
                PROVE  docId'[c] # docId'[o]
    BY DEF OneVersionPerTransaction
  <2>1. c \in Cids /\ o \in Cids /\ status[c] # "NOT_REQUESTED" /\ status[o] # "NOT_REQUESTED"
    BY <1>2
  <2>2. docId[c] # docId[o]
    BY ChainSteps DEF VersionInv, OneVersionPerBatch, OneVersionPerTransaction
  <2>. QED BY <2>1, <2>2, RowsStay
<1>. QED BY <1>3, <1>4, <1>5 DEF VersionInv

\* A transaction never anchors two versions of a document, whatever the order
\* in which the database returns the rows and however their times tie.
THEOREM OneVersionOnChain == Spec => []OneVersionPerTransaction
<1>1. Init => VersionInv
  BY DEF Init, VersionInv, RowsInTable, OneVersionPerBatch, OneVersionPerTransaction
<1>2. VersionInv => OneVersionPerTransaction
  BY DEF VersionInv
<1>. QED BY <1>1, <1>2, VersionStep, TypeCorrect, PTL DEF Spec

-----------------------------------------------------------------------------
\* A run past its transaction works on leaves of that transaction's tree, and
\* the transaction is on record before the first anchor.
RunProven(r) ==
  /\ pc[r] \in {"mined", "anchor", "request"} =>
       tx[r] \in DOMAIN chain /\ batch[r] \subseteq chain[tx[r]]
  /\ pc[r] \in {"anchor", "request"} => tx[r] \in transactions

ProvenInv == AnchorIsProven /\ \A r \in Runs : RunProven(r)

\* A step that leaves the ledger alone, and each run where it was or idle.
LEMMA ProvenKept ==
  ASSUME TypeOK, ProvenInv, UNCHANGED ledger,
         \A r \in Runs :
           \/ pc'[r] \in {"idle", "read", "separate", "send"}
           \/ pc'[r] = pc[r] /\ tx'[r] = tx[r] /\ batch'[r] \subseteq batch[r]
           \/ pc'[r] = "anchor" /\ pc[r] = "request" /\ tx'[r] = tx[r]
              /\ batch'[r] \subseteq batch[r]
  PROVE  ProvenInv'
BY DEF ProvenInv, RunProven, AnchorIsProven

LEMMA ProvenStep ==
  ASSUME TypeOK, ProvenInv, [Next]_vars
  PROVE  ProvenInv'
<1>. USE DEF TypeOK
<1>1. CASE UNCHANGED vars
  BY <1>1, ProvenKept DEF vars
<1>2. ASSUME NEW c \in Cids, NEW d \in Docs, NEW t \in Times, Accept(c, d, t)
      PROVE  ProvenInv'
  BY <1>2, ProvenKept DEF Accept
<1>3. ASSUME NEW r \in Runs, ReadRequests(r) \/ MarkProcessing(r) PROVE ProvenInv'
  BY <1>3, ProvenKept DEF ReadRequests, MarkProcessing
<1>4. ASSUME NEW r \in Runs, SeparateAndMarkOutdated(r) PROVE ProvenInv'
  <2>1. \A s \in Runs : \/ pc'[s] \in {"idle", "send"}
                        \/ pc'[s] = pc[s] /\ tx'[s] = tx[s] /\ batch'[s] = batch[s]
    BY <1>4 DEF SeparateAndMarkOutdated, EndRun
  <2>. QED BY <1>4, <2>1, ProvenKept DEF SeparateAndMarkOutdated
<1>5. ASSUME NEW r \in Runs, SendTransaction(r) PROVE ProvenInv'
  <2>1. /\ NextPosition \in DOMAIN chain' /\ chain'[NextPosition] = batch[r]
        /\ \A k \in DOMAIN chain : k \in DOMAIN chain' /\ chain'[k] = chain[k]
    BY <1>5 DEF SendTransaction, NextPosition
  <2>2. ASSUME NEW s \in Runs PROVE RunProven(s)'
    <3>1. CASE s = r
      BY <1>5, <2>1, <3>1 DEF SendTransaction, RunProven
    <3>2. CASE s # r
      BY <1>5, <2>1, <3>2 DEF SendTransaction, ProvenInv, RunProven
    <3>. QED BY <3>1, <3>2
  <2>3. AnchorIsProven'
    BY <1>5, <2>1 DEF SendTransaction, ProvenInv, AnchorIsProven
  <2>. QED BY <2>2, <2>3 DEF ProvenInv
<1>6. ASSUME NEW r \in Runs,
             \/ TransactionRejected(r) \/ RunThrows(r) \/ RequestRolledBack(r)
      PROVE  ProvenInv'
  <2>1. EndRun(r) /\ UNCHANGED ledger
    BY <1>6 DEF TransactionRejected, RunThrows, RequestRolledBack
  <2>2. \A s \in Runs : \/ pc'[s] = "idle"
                        \/ pc'[s] = pc[s] /\ tx'[s] = tx[s] /\ batch'[s] = batch[s]
    BY <2>1 DEF EndRun
  <2>. QED BY <2>1, <2>2, ProvenKept
<1>7. ASSUME NEW r \in Runs, SaveTransaction(r) PROVE ProvenInv'
  BY <1>7 DEF SaveTransaction, ProvenInv, RunProven, AnchorIsProven
<1>8. ASSUME NEW r \in Runs, SaveAnchor(r) PROVE ProvenInv'
  <2>1. PICK c \in batch[r] : anchors' = anchors \cup {[cid |-> c, tx |-> tx[r]]}
    BY <1>8 DEF SaveAnchor
  <2>2. AnchorIsProven'
    <3>1. tx[r] \in transactions /\ c \in chain[tx[r]]
      BY <1>8 DEF SaveAnchor, ProvenInv, RunProven
    <3>. QED BY <1>8, <2>1, <3>1 DEF SaveAnchor, ProvenInv, AnchorIsProven
  <2>3. ASSUME NEW s \in Runs PROVE RunProven(s)'
    BY <1>8 DEF SaveAnchor, ProvenInv, RunProven
  <2>. QED BY <2>2, <2>3 DEF ProvenInv
<1>9. ASSUME NEW r \in Runs, SaveRequest(r) PROVE ProvenInv'
  <2>1. PICK c \in batch[r] :
          \/ EndRun(r)
          \/ /\ batch' = [batch EXCEPT ![r] = batch[r] \ {c}]
             /\ pc' = [pc EXCEPT ![r] = "anchor"] /\ tx' = tx
    BY <1>9 DEF SaveRequest
  <2>2. \A s \in Runs :
          \/ pc'[s] = "idle"
          \/ pc'[s] = pc[s] /\ tx'[s] = tx[s] /\ batch'[s] = batch[s]
          \/ pc'[s] = "anchor" /\ pc[s] = "request" /\ tx'[s] = tx[s]
             /\ batch'[s] \subseteq batch[s]
    <3>1. CASE EndRun(r)
      BY <3>1 DEF EndRun
    <3>2. CASE /\ batch' = [batch EXCEPT ![r] = batch[r] \ {c}]
               /\ pc' = [pc EXCEPT ![r] = "anchor"] /\ tx' = tx
      BY <1>9, <3>2 DEF SaveRequest
    <3>. QED BY <2>1, <3>1, <3>2
  <2>. QED BY <1>9, <2>2, ProvenKept DEF SaveRequest
<1>10. CASE Restart
  BY <1>10, ProvenKept DEF Restart
<1>. QED BY <1>1, <1>2, <1>3, <1>4, <1>5, <1>6, <1>7, <1>8, <1>9, <1>10 DEF Next, RunStep

\* Every anchor record ever saved points to a transaction on record whose tree
\* holds the request, though runs overlap and stop between any two saves.
THEOREM AnchorsAreProven == Spec => []AnchorIsProven
<1>1. Init => ProvenInv
  BY DEF Init, ProvenInv, RunProven, AnchorIsProven
<1>2. ProvenInv => AnchorIsProven
  BY DEF ProvenInv
<1>. QED BY <1>1, <1>2, ProvenStep, TypeCorrect, PTL DEF Spec

-----------------------------------------------------------------------------
(***************************************************************************)
(* AnchoringService: the status of requests.  Giving a request up as       *)
(* OUTDATED never loses the last state of its document, for any number of  *)
(* overlapping runs; and when runs come one at a time the service follows  *)
(* the lifecycle of the repository's diagram, and anchors a request twice  *)
(* only after a failure.                                                   *)
(***************************************************************************)

\* A request is past PENDING when a run has taken it up.
TakenUp(c) == status[c] \notin {"NOT_REQUESTED", "PENDING"}

\* A run separates only requests it has marked.
SeparatesMarked == \A r \in Runs : pc[r] = "separate" => \A c \in picked[r] : TakenUp(c)

\* No code writes FAILED.
NeverFailed == \A c \in Cids : status[c] # "FAILED"

\* The request that made another one stale was itself taken up; it may be
\* OUTDATED by now, when it is superseded in turn.
StaleIsSuperseded ==
  \A c \in Cids : status[c] = "OUTDATED" => \E o \in Cids : Newer(o, c) /\ TakenUp(o)

StaleInv == SeparatesMarked /\ NeverFailed /\ StaleIsSuperseded

\* The only way to the separation is to mark the requests.
LEMMA BeforeSeparation ==
  ASSUME TypeOK, [Next]_vars, NEW r \in Runs, pc'[r] = "separate"
  PROVE  \/ pc[r] = "separate" /\ picked'[r] = picked[r]
         \/ MarkProcessing(r)
<1>. USE DEF TypeOK
<1>1. ASSUME NEW s \in Runs, SeparateAndMarkOutdated(s) \/ SaveRequest(s)
      PROVE  pc[r] = "separate" /\ picked'[r] = picked[r]
  <2>1. \/ EndRun(s)
        \/ \E to \in {"send", "anchor"} : pc' = [pc EXCEPT ![s] = to] /\ picked' = picked
    BY <1>1 DEF SeparateAndMarkOutdated, SaveRequest
  <2>2. CASE EndRun(s)
    BY <2>2 DEF EndRun
  <2>3. ASSUME NEW to \in {"send", "anchor"},
               pc' = [pc EXCEPT ![s] = to] /\ picked' = picked
        PROVE  pc[r] = "separate" /\ picked'[r] = picked[r]
    BY <2>3
  <2>. QED BY <2>1, <2>2, <2>3
<1>2. ASSUME NEW s \in Runs, TransactionRejected(s) \/ RunThrows(s) \/ RequestRolledBack(s)
      PROVE  pc[r] = "separate" /\ picked'[r] = picked[r]
  <2>1. EndRun(s)
    BY <1>2 DEF TransactionRejected, RunThrows, RequestRolledBack
  <2>. QED BY <2>1 DEF EndRun
<1>3. ASSUME NEW s \in Runs,
             \/ ReadRequests(s) \/ SendTransaction(s) \/ SaveTransaction(s)
             \/ SaveAnchor(s)
      PROVE  pc[r] = "separate" /\ picked'[r] = picked[r]
  BY <1>3 DEF ReadRequests, SendTransaction, SaveTransaction, SaveAnchor
<1>4. ASSUME NEW s \in Runs, MarkProcessing(s), s # r
      PROVE  pc[r] = "separate" /\ picked'[r] = picked[r]
  BY <1>4 DEF MarkProcessing
<1>5. ASSUME NEW b \in Cids, NEW d \in Docs, NEW t \in Times, Accept(b, d, t)
      PROVE  pc[r] = "separate" /\ picked'[r] = picked[r]
  BY <1>5 DEF Accept
<1>6. CASE UNCHANGED vars
  BY <1>6 DEF vars
<1>7. ~Restart
  BY DEF Restart
<1>. QED BY <1>1, <1>2, <1>3, <1>4, <1>5, <1>6, <1>7 DEF Next, RunStep

LEMMA StaleStep ==
  ASSUME TypeOK, StaleInv, [Next]_vars
  PROVE  StaleInv'
<1>1. ASSUME NEW c \in Cids, TakenUp(c)
      PROVE  TakenUp(c)' /\ docId'[c] = docId[c] /\ createdAt'[c] = createdAt[c]
  BY <1>1, RowsStay DEF TakenUp
<1>2. SeparatesMarked'
  <2>. SUFFICES ASSUME NEW r \in Runs, pc'[r] = "separate", NEW c \in picked'[r]
                PROVE  TakenUp(c)'
    BY DEF SeparatesMarked
  <2>1. CASE pc[r] = "separate" /\ picked'[r] = picked[r]
    BY <1>1, <2>1 DEF StaleInv, SeparatesMarked, TypeOK
  <2>2. CASE MarkProcessing(r)
    BY <2>2 DEF MarkProcessing, UpdateStatus, TakenUp, TypeOK
  <2>. QED BY <2>1, <2>2, BeforeSeparation
<1>3. NeverFailed'
  BY StatusSteps DEF StaleInv, NeverFailed
<1>4. StaleIsSuperseded'
  <2>. SUFFICES ASSUME NEW c \in Cids, status'[c] = "OUTDATED"
                PROVE  \E o \in Cids : Newer(o, c)' /\ TakenUp(o)'
    BY DEF StaleIsSuperseded
  <2>1. TakenUp(c) /\ \E o \in Cids : Newer(o, c) /\ TakenUp(o)
    <3>1. CASE status[c] = "OUTDATED"
      BY <3>1 DEF StaleInv, StaleIsSuperseded, TakenUp
    <3>2. CASE MadeStale(c)
      <4>0. PICK r \in Runs :
              /\ pc[r] = "separate"
              /\ \E ord \in ScanOrders(picked[r]) : c \in StaleOf(picked[r], ord)
        BY <3>2 DEF MadeStale
      <4>1. PICK ord \in ScanOrders(picked[r]) : c \in StaleOf(picked[r], ord)
        BY <4>0
      <4>2. c \in picked[r]
        BY <4>1 DEF StaleOf, BecomesPresent
      <4>3. \E o \in picked[r] : Newer(o, c)
        BY <4>1, StaleHasNewer
      <4>. QED BY <4>0, <4>2, <4>3 DEF StaleInv, SeparatesMarked, TypeOK
    <3>. QED BY <3>1, <3>2, StatusSteps
  <2>. QED BY <1>1, <2>1 DEF Newer
<1>. QED BY <1>2, <1>3, <1>4 DEF StaleInv

\* Of the newer requests that were taken up, the newest is not OUTDATED, so it
\* is being anchored or is anchored.
LEMMA NewestIsLive ==
  ASSUME TypeOK, StaleInv, NEW c \in Cids, status[c] = "OUTDATED"
  PROVE  \E o \in Cids : Newer(o, c) /\ status[o] \in {"PROCESSING", "ANCHORED"}
<1> DEFINE T == {o \in Cids : Newer(o, c) /\ TakenUp(o)}
<1>1. IsFiniteSet(T) /\ T # {}
  BY ServiceConstants, FS_Subset DEF StaleInv, StaleIsSuperseded
<1>2. \A x \in T : createdAt[x] \in Nat
  BY DEF TypeOK
<1>3. PICK m \in T : \A x \in T : createdAt[x] <= createdAt[m]
  <2>. HIDE DEF T
  <2>. QED BY <1>1, <1>2, FiniteArgMax
<1>4. status[m] # "OUTDATED"
  <2>. SUFFICES ASSUME status[m] = "OUTDATED" PROVE FALSE
    OBVIOUS
  <2>1. PICK o \in Cids : Newer(o, m) /\ TakenUp(o)
    BY DEF StaleInv, StaleIsSuperseded
  <2>2. createdAt[o] \in Nat /\ createdAt[m] \in Nat /\ createdAt[c] \in Nat
    BY DEF TypeOK
  <2>3. o \in T
    BY <2>1, <2>2 DEF Newer
  <2>. QED BY <1>3, <2>1, <2>2, <2>3 DEF Newer
<1>5. status[m] \in {"PROCESSING", "ANCHORED"}
  BY <1>4 DEF TakenUp, StaleInv, NeverFailed, TypeOK, Lifecycle!AnchoringStatus
<1>. QED BY <1>5

\* Whatever runs overlap, fail or are cut short, a request is OUTDATED only
\* while a strictly newer one of its document is being anchored or is anchored
\* (markRecordsOutdated).
THEOREM OutdatedIsNeverLost == Spec => []OutdatedIsSuperseded
<1>1. Init => StaleInv
  BY DEF Init, StaleInv, SeparatesMarked, NeverFailed, StaleIsSuperseded
<1>2. TypeOK /\ StaleInv => OutdatedIsSuperseded
  BY NewestIsLive DEF OutdatedIsSuperseded
<1>. QED BY <1>1, <1>2, StaleStep, TypeCorrect, PTL DEF Spec

-----------------------------------------------------------------------------
\* What a run that is alone knows of the rows it works on.
Alone(r) ==
  /\ pc[r] = "read" => \A c \in picked[r] : status[c] \in {"PENDING", "PROCESSING"}
  /\ pc[r] = "separate" => \A c \in picked[r] : status[c] = "PROCESSING"
  /\ pc[r] \in {"send", "mined", "anchor", "request"} =>
       \A c \in batch[r] : status[c] = "PROCESSING"

AloneInv == \A r \in Runs : Alone(r)

LEMMA AloneStep ==
  ASSUME OneRun, TypeOK, AloneInv, [Next]_vars
  PROVE  AloneInv'
<1>. SUFFICES ASSUME NEW r \in Runs, \A s \in Runs : s = r PROVE Alone(r)'
  BY DEF OneRun, AloneInv
<1>. Alone(r)
  BY DEF AloneInv
<1>. USE DEF TypeOK
<1>1. CASE UNCHANGED vars
  BY <1>1 DEF vars, Alone
<1>2. ASSUME NEW c \in Cids, NEW d \in Docs, NEW t \in Times, Accept(c, d, t)
      PROVE  Alone(r)'
  BY <1>2 DEF Accept, Alone
<1>3. CASE ReadRequests(r)
  BY <1>3 DEF ReadRequests, AllByStatus, Alone
<1>4. CASE MarkProcessing(r)
  BY <1>4 DEF MarkProcessing, UpdateStatus, Alone
<1>5. CASE SeparateAndMarkOutdated(r)
  <2>1. PICK ord \in ScanOrders(picked[r]) :
          /\ UpdateStatus(StaleOf(picked[r], ord), "OUTDATED")
          /\ \/ EndRun(r)
             \/ /\ batch' = [batch EXCEPT ![r] = LatestOf(picked[r], ord)]
                /\ pc' = [pc EXCEPT ![r] = "send"]
    BY <1>5 DEF SeparateAndMarkOutdated
  <2>2. CASE EndRun(r)
    BY <2>2 DEF EndRun, Alone
  <2>3. CASE /\ batch' = [batch EXCEPT ![r] = LatestOf(picked[r], ord)]
             /\ pc' = [pc EXCEPT ![r] = "send"]
    <3>1. \A c \in LatestOf(picked[r], ord) :
            c \in picked[r] /\ c \notin StaleOf(picked[r], ord)
      BY DEF LatestOf, StaleOf, BecomesPresent
    <3>2. \A c \in LatestOf(picked[r], ord) : status'[c] = "PROCESSING"
      BY <1>5, <2>1, <3>1 DEF SeparateAndMarkOutdated, UpdateStatus, Alone
    <3>. QED BY <2>3, <3>2 DEF Alone
  <2>. QED BY <2>1, <2>2, <2>3
<1>6. CASE SendTransaction(r) \/ SaveTransaction(r) \/ SaveAnchor(r)
  BY <1>6 DEF SendTransaction, SaveTransaction, SaveAnchor, Alone
<1>7. CASE SaveRequest(r)
  <2>1. PICK c \in batch[r] :
          /\ status' = [status EXCEPT ![c] = "ANCHORED"]
          /\ \/ EndRun(r)
             \/ /\ batch' = [batch EXCEPT ![r] = batch[r] \ {c}]
                /\ pc' = [pc EXCEPT ![r] = "anchor"]
    BY <1>7 DEF SaveRequest
  <2>2. CASE EndRun(r)
    BY <2>2 DEF EndRun, Alone
  <2>3. CASE /\ batch' = [batch EXCEPT ![r] = batch[r] \ {c}]
             /\ pc' = [pc EXCEPT ![r] = "anchor"]
    <3>1. \A o \in batch[r] \ {c} : status'[o] = "PROCESSING"
      BY <1>7, <2>1 DEF SaveRequest, Alone
    <3>. QED BY <2>3, <3>1 DEF Alone
  <2>. QED BY <2>1, <2>2, <2>3
<1>8. CASE TransactionRejected(r) \/ RunThrows(r) \/ RequestRolledBack(r)
  <2>1. EndRun(r)
    BY <1>8 DEF TransactionRejected, RunThrows, RequestRolledBack
  <2>. QED BY <2>1 DEF EndRun, Alone
<1>9. CASE Restart
  BY <1>9 DEF Restart, Alone
<1>. QED BY <1>1, <1>2, <1>3, <1>4, <1>5, <1>6, <1>7, <1>8, <1>9 DEF Next, RunStep

\* A row moves along an arrow of the diagram.
LEMMA AloneFollowsEdge ==
  ASSUME OneRun, TypeOK, AloneInv, [Next]_vars, NEW c \in Cids, status'[c] # status[c]
  PROVE  <<status[c], status'[c]>> \in Lifecycle!Edges
<1>1. Read(c) => status[c] \in {"PENDING", "PROCESSING"}
  BY DEF Read, AloneInv, Alone
<1>2. MadeStale(c) => status[c] = "PROCESSING"
  <2>. SUFFICES ASSUME NEW r \in Runs, pc[r] = "separate",
                       \E ord \in ScanOrders(picked[r]) : c \in StaleOf(picked[r], ord)
                PROVE  status[c] = "PROCESSING"
    BY DEF MadeStale
  <2>1. c \in picked[r]
    BY DEF StaleOf, BecomesPresent
  <2>. QED BY <2>1 DEF AloneInv, Alone
<1>3. Saved(c) => status[c] = "PROCESSING"
  BY DEF Saved, InLoop, AloneInv, Alone
<1>. QED BY <1>1, <1>2, <1>3, StatusSteps DEF Lifecycle!Edges

\* When the runs come one at a time, and whatever fails, every request follows
\* lifecycle.puml; with overlapping runs this is not so.
THEOREM OneRunImplementsLifecycle == ASSUME OneRun PROVE Spec => ImplementsLifecycle
<1>1. Init => AloneInv /\ Lifecycle!Init
  BY DEF Init, AloneInv, Alone, Lifecycle!Init
<1>2. TypeOK /\ TypeOK' /\ AloneInv /\ [Next]_vars => [Lifecycle!Next]_status
  <2>. SUFFICES ASSUME TypeOK, TypeOK', AloneInv, [Next]_vars PROVE Lifecycle!Next
    OBVIOUS
  <2>1. \A c \in Cids : status'[c] # status[c] => <<status[c], status'[c]>> \in Lifecycle!Edges
    BY AloneFollowsEdge
  <2>. QED BY <2>1 DEF Lifecycle!Next, TypeOK
<1>. QED BY <1>1, <1>2, AloneStep, TypeCorrect, PTL DEF Spec, ImplementsLifecycle, Lifecycle!Spec
-----------------------------------------------------------------------------
\* The anchor records of a request.
AnchorsOf(c) == {a \in anchors : a.cid = c}

\* A request needs no further anchor: it is ANCHORED, or will be next.
Done(c) ==
  \/ status[c] = "ANCHORED"
  \/ \E r \in Runs : pc[r] = "request" /\ InLoop(r, c)

\* What the transaction of a run has been recorded for: nothing of what the
\* run has still to anchor, except for the request that the loop is at.
Unrecorded(r) ==
  /\ pc[r] = "mined" => \A a \in anchors : a.tx # tx[r]
  /\ pc[r] = "anchor" => \A c \in batch[r] : ~InLoop(r, c)
  /\ pc[r] = "request" => \A c, o \in batch[r] : InLoop(r, c) /\ InLoop(r, o) => c = o

RepeatInv ==
  /\ IsFiniteSet(anchors)
  /\ RepeatedOnlyAfterFault
  /\ \A c \in Cids : ~Done(c) => Cardinality(AnchorsOf(c)) <= faults
  /\ \A r \in Runs : Unrecorded(r)

LEMMA AnchorsCounted ==
  ASSUME IsFiniteSet(anchors), NEW c
  PROVE  IsFiniteSet(AnchorsOf(c)) /\ Cardinality(AnchorsOf(c)) \in Nat
BY FS_Subset, FS_CardinalityType DEF AnchorsOf

\* No step saves an anchor twice for what it has in hand.
LEMMA UnrecordedStep ==
  ASSUME OneRun, TypeOK, ProvenInv, RepeatInv, [Next]_vars, NEW r \in Runs
  PROVE  Unrecorded(r)'
<1>. \A s \in Runs : s = r
  BY DEF OneRun
<1>. Unrecorded(r)
  BY DEF RepeatInv
<1>. USE DEF TypeOK
<1>1. CASE UNCHANGED vars
  BY <1>1 DEF vars, Unrecorded, InLoop
<1>2. ASSUME NEW c \in Cids, NEW d \in Docs, NEW t \in Times, Accept(c, d, t)
      PROVE  Unrecorded(r)'
  BY <1>2 DEF Accept, Unrecorded, InLoop
<1>3. CASE \/ ReadRequests(r) \/ MarkProcessing(r) \/ SeparateAndMarkOutdated(r)
           \/ TransactionRejected(r) \/ RunThrows(r) \/ RequestRolledBack(r) \/ Restart
  <2>1. pc'[r] \in {"idle", "read", "separate", "send"}
    BY <1>3 DEF ReadRequests, MarkProcessing, SeparateAndMarkOutdated, TransactionRejected,
                RunThrows, RequestRolledBack, Restart, EndRun
  <2>. QED BY <2>1 DEF Unrecorded
<1>4. CASE SendTransaction(r)
  <2>1. \A a \in anchors : a.tx \in 1..Len(chain)
    BY DEF ProvenInv, AnchorIsProven
  <2>2. pc'[r] = "mined" /\ tx'[r] = Len(chain) + 1 /\ anchors' = anchors
    BY <1>4 DEF SendTransaction, NextPosition
  <2>3. Len(chain) \in Nat
    OBVIOUS
  <2>. QED BY <2>1, <2>2, <2>3 DEF Unrecorded
<1>5. CASE SaveTransaction(r)
  BY <1>5 DEF SaveTransaction, Unrecorded, InLoop
<1>6. CASE SaveAnchor(r)
  <2>1. PICK b \in batch[r] : anchors' = anchors \cup {[cid |-> b, tx |-> tx[r]]}
    BY <1>6 DEF SaveAnchor
  <2>2. \A c \in batch[r] : InLoop(r, c)' => c = b
    BY <1>6, <2>1 DEF SaveAnchor, Unrecorded, InLoop
  <2>. QED BY <1>6, <2>2 DEF SaveAnchor, Unrecorded
<1>7. CASE SaveRequest(r)
  <2>1. PICK c \in batch[r] : /\ InLoop(r, c)
                              /\ \/ EndRun(r)
                                 \/ /\ batch' = [batch EXCEPT ![r] = batch[r] \ {c}]
                                    /\ pc' = [pc EXCEPT ![r] = "anchor"]
                                    /\ tx' = tx
    BY <1>7 DEF SaveRequest
  <2>2. CASE EndRun(r)
    BY <2>2 DEF EndRun, Unrecorded
  <2>3. CASE /\ batch' = [batch EXCEPT ![r] = batch[r] \ {c}]
             /\ pc' = [pc EXCEPT ![r] = "anchor"]
             /\ tx' = tx
    <3>1. \A o \in batch[r] \ {c} : ~InLoop(r, o)
      BY <1>7, <2>1 DEF SaveRequest, Unrecorded
    <3>. QED BY <1>7, <2>3, <3>1 DEF SaveRequest, Unrecorded, InLoop
  <2>. QED BY <2>1, <2>2, <2>3
<1>. QED BY <1>1, <1>2, <1>3, <1>4, <1>5, <1>6, <1>7 DEF Next, RunStep

\* What was done stays done, unless the step is a failure.
LEMMA DoneStays ==
  ASSUME OneRun, TypeOK, AloneInv, RepeatInv, [Next]_vars, NEW c \in Cids, Done(c)
  PROVE  Done(c)' \/ faults' = faults + 1
<1>1. CASE status[c] = "ANCHORED"
  BY <1>1, AloneFollowsEdge DEF Done, Lifecycle!Edges
<1>2. ASSUME NEW r \in Runs, pc[r] = "request", InLoop(r, c)
      PROVE  Done(c)' \/ faults' = faults + 1
  <2>. \A s \in Runs : s = r
    BY DEF OneRun
  <2>1. CASE SaveRequest(r)
    <3>1. PICK b \in batch[r] : InLoop(r, b) /\ status' = [status EXCEPT ![b] = "ANCHORED"]
      BY <2>1 DEF SaveRequest
    <3>2. b = c
      BY <1>2, <3>1 DEF RepeatInv, Unrecorded, InLoop
    <3>. QED BY <3>1, <3>2 DEF Done, TypeOK
  <2>2. CASE UNCHANGED <<runs, ledger>>
    BY <1>2, <2>2 DEF Done, InLoop
  <2>3. CASE RunThrows(r) \/ RequestRolledBack(r) \/ Restart
    BY <2>3 DEF RunThrows, RequestRolledBack, Restart, Fault
  <2>. QED
    BY <1>2, <2>1, <2>2, <2>3
    DEF Next, RunStep, vars, Accept, ReadRequests, MarkProcessing, SeparateAndMarkOutdated,
        SendTransaction, TransactionRejected, SaveTransaction, SaveAnchor
<1>. QED BY <1>1, <1>2 DEF Done

LEMMA FaultsCount ==
  ASSUME TypeOK, [Next]_vars
  PROVE  faults \in Nat /\ faults' \in {faults, faults + 1}
BY DEF TypeOK, Next, RunStep, vars, Accept, ReadRequests, MarkProcessing, Fault,
       SeparateAndMarkOutdated, SendTransaction, TransactionRejected, SaveTransaction,
       SaveAnchor, SaveRequest, RunThrows, RequestRolledBack, Restart

LEMMA RepeatStep ==
  ASSUME OneRun, TypeOK, AloneInv, ProvenInv, RepeatInv, [Next]_vars
  PROVE  RepeatInv'
<1>1. CASE anchors' = anchors
  <2>1. ASSUME NEW c \in Cids
        PROVE  /\ AnchorsOf(c)' = AnchorsOf(c)
               /\ Cardinality(AnchorsOf(c)) <= 1 + faults'
               /\ ~Done(c)' => Cardinality(AnchorsOf(c)) <= faults'
    <3>1. AnchorsOf(c)' = AnchorsOf(c)
      BY <1>1 DEF AnchorsOf
    <3>2. Cardinality(AnchorsOf(c)) \in Nat /\ Cardinality(AnchorsOf(c)) <= 1 + faults
      BY AnchorsCounted DEF RepeatInv, RepeatedOnlyAfterFault, AnchorsOf
    <3>3. ~Done(c) => Cardinality(AnchorsOf(c)) <= faults
      BY DEF RepeatInv
    <3>. QED BY <3>1, <3>2, <3>3, DoneStays, FaultsCount
  <2>. QED BY <1>1, <2>1, UnrecordedStep DEF RepeatInv, RepeatedOnlyAfterFault, AnchorsOf
<1>2. ASSUME NEW r \in Runs, SaveAnchor(r)
      PROVE  RepeatInv'
  <2>1. PICK b \in batch[r] : anchors' = anchors \cup {[cid |-> b, tx |-> tx[r]]}
    BY <1>2 DEF SaveAnchor
  <2>2. b \in Cids /\ IsFiniteSet(anchors) /\ IsFiniteSet(anchors') /\ faults' = faults
    BY <1>2, <2>1, FS_AddElement DEF SaveAnchor, RepeatInv, TypeOK
  <2>3. ~Done(b) /\ Done(b)'
    <3>1. status[b] = "PROCESSING" /\ pc[r] = "anchor"
      BY <1>2 DEF SaveAnchor, AloneInv, Alone
    <3>2. ~Done(b)
      BY <3>1 DEF Done, OneRun
    <3>3. pc'[r] = "request" /\ InLoop(r, b)'
      BY <1>2, <2>1 DEF SaveAnchor, InLoop, TypeOK
    <3>. QED BY <3>2, <3>3 DEF Done
  <2>4. Cardinality(AnchorsOf(b)') <= 1 + faults'
    <3>1. AnchorsOf(b)' = AnchorsOf(b) \cup {[cid |-> b, tx |-> tx[r]]}
      BY <2>1 DEF AnchorsOf
    <3>2. IsFiniteSet(AnchorsOf(b)) /\ Cardinality(AnchorsOf(b)) \in Nat
      BY <2>2, AnchorsCounted
    <3>3. Cardinality(AnchorsOf(b) \cup {[cid |-> b, tx |-> tx[r]]})
            <= Cardinality(AnchorsOf(b)) + 1
      <4>1. Cardinality(AnchorsOf(b) \cup {[cid |-> b, tx |-> tx[r]]})
              \in {Cardinality(AnchorsOf(b)), Cardinality(AnchorsOf(b)) + 1}
        BY <3>2, FS_AddElement, Zenon
      <4>. QED BY <3>2, <4>1
    <3>4. Cardinality(AnchorsOf(b)) <= faults
      BY <2>2, <2>3 DEF RepeatInv
    <3>5. faults \in Nat
      BY FaultsCount
    <3>6. Cardinality(AnchorsOf(b) \cup {[cid |-> b, tx |-> tx[r]]}) <= 1 + faults
      <4>1. \A m, n, k \in Int : m <= n + 1 /\ n <= k => m <= 1 + k
        OBVIOUS
      <4>2. Cardinality(AnchorsOf(b) \cup {[cid |-> b, tx |-> tx[r]]}) \in Nat
        BY <3>2, FS_AddElement, FS_CardinalityType
      <4>. QED BY <3>2, <3>3, <3>4, <3>5, <4>1, <4>2
    <3>. QED BY <2>2, <3>1, <3>6
  <2>5. ASSUME NEW c \in Cids, c # b
        PROVE  /\ Cardinality(AnchorsOf(c)') <= 1 + faults'
               /\ ~Done(c)' => Cardinality(AnchorsOf(c)') <= faults'
    <3>1. AnchorsOf(c)' = AnchorsOf(c)
      BY <2>1, <2>5 DEF AnchorsOf
    <3>2. Cardinality(AnchorsOf(c)) <= 1 + faults
      BY DEF RepeatInv, RepeatedOnlyAfterFault, AnchorsOf
    <3>3. ~Done(c) => Cardinality(AnchorsOf(c)) <= faults
      BY DEF RepeatInv
    <3>4. Done(c) => Done(c)'
      BY <2>2, DoneStays, FaultsCount
    <3>. QED BY <2>2, <3>1, <3>2, <3>3, <3>4
  <2>. QED BY <2>2, <2>3, <2>4, <2>5, UnrecordedStep
       DEF RepeatInv, RepeatedOnlyAfterFault, AnchorsOf
<1>3. anchors' = anchors \/ \E r \in Runs : SaveAnchor(r)
  BY DEF Next, RunStep, vars, Accept, ReadRequests, MarkProcessing, SeparateAndMarkOutdated,
         SendTransaction, TransactionRejected, SaveTransaction, SaveRequest, RunThrows,
         RequestRolledBack, Restart
<1>. QED BY <1>1, <1>2, <1>3

\* When the runs come one at a time, every anchor record of a request beyond
\* its first was paid for by a run that threw or a restart (anchorRequests).
THEOREM OneRunRepeatsAfterFault == ASSUME OneRun PROVE Spec => []RepeatedOnlyAfterFault
<1>1. Init => AloneInv /\ ProvenInv
  BY DEF Init, AloneInv, Alone, ProvenInv, RunProven, AnchorIsProven
<1>2. Init => RepeatInv
  <2>. SUFFICES ASSUME Init PROVE RepeatInv
    OBVIOUS
  <2>1. \A c : AnchorsOf(c) = {}
    BY DEF Init, AnchorsOf
  <2>2. IsFiniteSet(anchors) /\ \A c : Cardinality(AnchorsOf(c)) = 0
    BY <2>1, FS_EmptySet DEF Init
  <2>. QED BY <2>2 DEF Init, RepeatInv, RepeatedOnlyAfterFault, AnchorsOf, Unrecorded
<1>3. RepeatInv => RepeatedOnlyAfterFault
  BY DEF RepeatInv
<1>. QED BY <1>1, <1>2, <1>3, AloneStep, ProvenStep, RepeatStep, TypeCorrect, PTL DEF Spec

-----------------------------------------------------------------------------
(***************************************************************************)
(* AnchoringApi, for any number of HTTP calls at a time: the calls         *)
(* implement AnchoringService, so what is proved of the service holds      *)
(* under them, and what a call answers fits the tables.                    *)
(***************************************************************************)

CallTyped == call \in [Calls -> Call] /\ now \in Times

\* The actions of the calls, which the runs know nothing of.
CallStep(h) ==
  \/ \E c \in Cids : Get(h, c) \/ GetMany(h, c) \/ \E d \in Docs : PostFind(h, c, d)
  \/ PostConflict(h) \/ ReadRow(h) \/ LookUpAnchor(h) \/ CallFails(h)
  \/ ListPage(h) \/ ListCount(h) \/ ListAnswer(h)
  \/ AnchorPage(h) \/ AnchorCount(h) \/ TransactionPage(h) \/ TransactionCount(h)

\* A call that is inserting carries a row of the right type.
LEMMA InsertTyped ==
  ASSUME CallTyped, NEW h \in Calls, call[h].at = "insert"
  PROVE  call[h].cid \in Cids /\ call[h].docId \in Docs /\ call[h].createdAt \in Times
BY DEF CallTyped, Call, Free

\* A call that is reading knows the cid it reads.
LEMMA ReadTyped ==
  ASSUME CallTyped, NEW h \in Calls, call[h].at \in {"read", "lookup"}
  PROVE  call[h].cid \in Cids /\ call[h].docId \in Docs \cup {NoDoc}
BY DEF CallTyped, Call, Free

\* A call that has a page knows what its rows said.
LEMMA CountTyped ==
  ASSUME CallTyped, NEW h \in Calls, call[h].at = "count"
  PROVE  /\ call[h].page \in SUBSET Cids
         /\ call[h].seen \in [Cids -> Lifecycle!AnchoringStatus]
BY DEF CallTyped, Call, Free

LEMMA AnchorCountTyped ==
  ASSUME CallTyped, NEW h \in Calls, call[h].at = "anchorCount"
  PROVE  call[h].anchorPage \in SUBSET Anchor
BY DEF CallTyped, Call, Free

LEMMA TransactionCountTyped ==
  ASSUME CallTyped, NEW h \in Calls, call[h].at = "txCount"
  PROVE  call[h].txPage \in SUBSET Nat
BY DEF CallTyped, Call, Free

LEMMA SeenTyped ==
  ASSUME TypeOK, NEW page
  PROVE  Seen(page) \in [Cids -> Lifecycle!AnchoringStatus]
BY DEF Seen, TypeOK, Lifecycle!AnchoringStatus

LEMMA TransactionsTyped ==
  ASSUME TypeOK
  PROVE  transactions \in SUBSET Nat
BY DEF TypeOK

LEMMA GoTyped ==
  ASSUME CallTyped, NEW h \in Calls, NEW next \in Call, Go(h, next)
  PROVE  call' \in [Calls -> Call] /\ call'[h] = next /\ \A g \in Calls \ {h} : call'[g] = call[g]
BY DEF CallTyped, Go

LEMMA CallTypedStep ==
  ASSUME TypeOK, CallTyped, [ApiNext]_apiVars
  PROVE  CallTyped'
<1>1. ASSUME NEW h \in Calls, NEW c \in Cids, Get(h, c) PROVE CallTyped'
  <2>1. [at |-> "read", cid |-> c, docId |-> NoDoc] \in Call
    BY DEF Call
  <2>. QED BY <1>1, <2>1, GoTyped DEF Get, CallTyped
<1>2. ASSUME NEW h \in Calls, NEW c \in Cids, NEW d \in Docs, PostFind(h, c, d)
      PROVE  CallTyped'
  <2>1. CASE Find(c, d)
    <3>1. [at |-> "read", cid |-> c, docId |-> d] \in Call
      BY DEF Call
    <3>. QED BY <1>2, <2>1, <3>1, GoTyped DEF PostFind, CallTyped
  <2>2. CASE ~Find(c, d)
    <3>1. PICK t \in Times :
            now' = t /\ Go(h, [at |-> "insert", cid |-> c, docId |-> d, createdAt |-> t])
      BY <1>2, <2>2 DEF PostFind
    <3>2. [at |-> "insert", cid |-> c, docId |-> d, createdAt |-> t] \in Call
      BY DEF Call
    <3>. QED BY <3>1, <3>2, GoTyped DEF CallTyped
  <2>. QED BY <2>1, <2>2
<1>3. ASSUME NEW h \in Calls, PostInsert(h) PROVE CallTyped'
  <2>1. [at |-> "read", cid |-> call[h].cid, docId |-> call[h].docId] \in Call
    BY <1>3, InsertTyped DEF PostInsert, Call
  <2>. QED BY <1>3, <2>1, GoTyped DEF PostInsert, CallTyped
<1>4. ASSUME NEW h \in Calls, ReadRow(h) PROVE CallTyped'
  <2>1. call[h].cid \in Cids /\ call[h].docId \in Docs \cup {NoDoc}
    BY <1>4, ReadTyped DEF ReadRow
  <2>2. Free \in Call /\ [at |-> "lookup", cid |-> call[h].cid, docId |-> call[h].docId,
                          seen |-> status[call[h].cid]] \in Call
    BY <2>1 DEF Call, TypeOK
  <2>. QED BY <1>4, <2>2, GoTyped DEF ReadRow, CallTyped
<1>5. ASSUME NEW h \in Calls,
             PostConflict(h) \/ LookUpAnchor(h) \/ ListAnswer(h) \/ CallFails(h)
      PROVE  CallTyped'
  <2>1. Free \in Call
    BY DEF Call
  <2>. QED BY <1>5, <2>1, GoTyped DEF PostConflict, LookUpAnchor, ListAnswer, CallFails,
              CallTyped
<1>8. ASSUME NEW h \in Calls, ListPage(h) PROVE CallTyped'
  <2>1. PICK page \in SUBSET Rows :
          Go(h, [at |-> "count", page |-> page, seen |-> Seen(page)])
    BY <1>8 DEF ListPage
  <2>2. [at |-> "count", page |-> page, seen |-> Seen(page)] \in Call
    BY SeenTyped DEF Call, Rows
  <2>. QED BY <1>8, <2>1, <2>2, GoTyped DEF ListPage, CallTyped
<1>9. ASSUME NEW h \in Calls, ListCount(h) PROVE CallTyped'
  <2>1. [at |-> "present", page |-> call[h].page, total |-> Rows, seen |-> call[h].seen]
          \in Call
    BY <1>9, CountTyped DEF ListCount, Call, Rows
  <2>. QED BY <1>9, <2>1, GoTyped DEF ListCount, CallTyped
<1>6. CASE call' = [h \in Calls |-> Free] /\ now' = now
  BY <1>6 DEF CallTyped, Call
<1>7. CASE UNCHANGED <<call, now>>
  BY <1>7 DEF CallTyped
<1>10. ASSUME NEW h \in Calls, NEW c \in Cids, GetMany(h, c) PROVE CallTyped'
  <2>. DEFINE found == ByDocIdMany(c)
  <2>1. [at |-> "present", page |-> found, total |-> found, seen |-> Seen(found)] \in Call
    BY SeenTyped DEF Call, ByDocIdMany, Rows
  <2>. QED BY <1>10, <2>1, GoTyped DEF GetMany, CallTyped
<1>11. ASSUME NEW h \in Calls, AnchorPage(h) PROVE CallTyped'
  <2>1. PICK page \in SUBSET anchors :
          Go(h, [at |-> "anchorCount", anchorPage |-> page])
    BY <1>11 DEF AnchorPage
  <2>2. [at |-> "anchorCount", anchorPage |-> page] \in Call
    BY DEF Call, TypeOK
  <2>. QED BY <1>11, <2>1, <2>2, GoTyped DEF AnchorPage, CallTyped
<1>12. ASSUME NEW h \in Calls, AnchorCount(h) PROVE CallTyped'
  <2>1. [at |-> "anchorList", anchorPage |-> call[h].anchorPage, anchorTotal |-> anchors]
          \in Call
    BY <1>12, AnchorCountTyped DEF AnchorCount, Call, TypeOK
  <2>. QED BY <1>12, <2>1, GoTyped DEF AnchorCount, CallTyped
<1>13. ASSUME NEW h \in Calls, TransactionPage(h) PROVE CallTyped'
  <2>1. PICK page \in SUBSET transactions : Go(h, [at |-> "txCount", txPage |-> page])
    BY <1>13 DEF TransactionPage
  <2>2. [at |-> "txCount", txPage |-> page] \in Call
    BY TransactionsTyped DEF Call
  <2>. QED BY <1>13, <2>1, <2>2, GoTyped DEF TransactionPage, CallTyped
<1>14. ASSUME NEW h \in Calls, TransactionCount(h) PROVE CallTyped'
  <2>1. [at |-> "txList", txPage |-> call[h].txPage, txTotal |-> transactions] \in Call
    BY <1>14, TransactionCountTyped, TransactionsTyped DEF TransactionCount, Call
  <2>. QED BY <1>14, <2>1, GoTyped DEF TransactionCount, CallTyped
<1>. QED BY <1>1, <1>2, <1>3, <1>4, <1>5, <1>6, <1>7, <1>8, <1>9, <1>10, <1>11, <1>12,
            <1>13, <1>14
    DEF ApiNext, apiVars

\* A step of a call that is not an insert is a stutter of the service.
LEMMA CallsStutter ==
  ASSUME NEW h \in Calls, CallStep(h)
  PROVE  UNCHANGED vars
BY DEF CallStep, Get, PostFind, PostConflict, ReadRow, LookUpAnchor, CallFails, ListPage,
       GetMany, ListCount, ListAnswer, AnchorPage, AnchorCount, TransactionPage, TransactionCount

LEMMA StepImplements ==
  ASSUME CallTyped, [ApiNext]_apiVars
  PROVE  [Next]_vars
<1>1. ASSUME NEW h \in Calls, PostInsert(h)
      PROVE  \E c \in Cids, d \in Docs, t \in Times : Accept(c, d, t)
  <2>1. Accept(call[h].cid, call[h].docId, call[h].createdAt) /\ call[h].at = "insert"
    BY <1>1 DEF PostInsert
  <2>. QED BY <2>1, InsertTyped
<1>2. CASE \E h \in Calls : CallStep(h)
  BY <1>2, CallsStutter
<1>3. CASE \E h \in Calls : PostInsert(h)
  BY <1>1, <1>3 DEF Next
<1>4. CASE \E r \in Runs : RunStep(r) \/ RunThrows(r) \/ RequestRolledBack(r)
  BY <1>4 DEF Next
<1>5. CASE Restart
  BY <1>5 DEF Next
<1>6. CASE UNCHANGED apiVars
  BY <1>6 DEF apiVars
<1>. QED BY <1>2, <1>3, <1>4, <1>5, <1>6 DEF ApiNext, CallStep

ApiInv == TypeInv /\ CallTyped

\* What is proved of the service holds where it is called.
LEMMA ApiRefines == ApiSpec => []ApiInv /\ Spec
<1>1. ApiInit => Init /\ ApiInv
  BY DEF ApiInit, ApiInv, CallTyped, Call, Init, TypeInv, TypeOK, MinedInChain, Position,
         Lifecycle!AnchoringStatus
<1>2. ApiInv /\ [ApiNext]_apiVars => ApiInv' /\ [Next]_vars
  BY CallTypedStep, StepImplements, TypeStep DEF ApiInv, TypeInv
<1>. QED BY <1>1, <1>2, PTL DEF ApiSpec, Spec

\* The variables of the service and of the calls keep their types.
THEOREM ApiTypeCorrect == ApiSpec => []ApiTypeOK
<1>1. ApiInv => ApiTypeOK
  BY DEF ApiInv, TypeInv, CallTyped, ApiTypeOK
<1>. QED BY <1>1, ApiRefines, PTL

-----------------------------------------------------------------------------
\* What a step does to a call that is about to answer.
LEMMA CallSteps ==
  ASSUME ApiInv, [ApiNext]_apiVars, NEW h \in Calls, call'[h].at \in {"read", "lookup"}
  PROVE  \/ call'[h] = call[h]
         \/ call'[h].at = "read" /\ call'[h].docId = NoDoc
         \/ /\ call'[h].at = "read"
            /\ Find(call'[h].cid, call'[h].docId) /\ UNCHANGED vars
         \/ /\ call'[h].at = "read" /\ call[h].at = "insert"
            /\ call'[h].cid = call[h].cid /\ call'[h].docId = call[h].docId
            /\ PostInsert(h)
         \/ /\ call'[h].at = "lookup" /\ call[h].at = "read"
            /\ call'[h].cid = call[h].cid /\ call'[h].docId = call[h].docId
            /\ call'[h].seen = status[call[h].cid] /\ UNCHANGED vars
<1>1. CASE call' = [g \in Calls |-> Free]
  BY <1>1 DEF Free
<1>2. CASE call' = call
  BY <1>2
<1>3. ASSUME NEW g \in Calls, g # h, CallStep(g) \/ PostInsert(g)
      PROVE  call'[h] = call[h]
  BY <1>3 DEF CallStep, Get, PostFind, PostInsert, PostConflict, ReadRow, LookUpAnchor,
              GetMany, ListPage, ListCount, ListAnswer, CallFails, Go, ApiInv, CallTyped,
              AnchorPage, AnchorCount, TransactionPage, TransactionCount
<1>4. ASSUME NEW c \in Cids, Get(h, c)
      PROVE  call'[h].at = "read" /\ call'[h].docId = NoDoc
  BY <1>4 DEF Get, Go, ApiInv, CallTyped
<1>5. ASSUME NEW c \in Cids, NEW d \in Docs, PostFind(h, c, d)
      PROVE  /\ call'[h].at = "read" /\ UNCHANGED vars
             /\ Find(call'[h].cid, call'[h].docId)
  BY <1>5 DEF PostFind, Go, ApiInv, CallTyped
<1>6. ASSUME PostInsert(h)
      PROVE  /\ call'[h].at = "read" /\ call[h].at = "insert"
             /\ call'[h].cid = call[h].cid /\ call'[h].docId = call[h].docId
  BY <1>6 DEF PostInsert, Go, ApiInv, CallTyped
<1>7. ASSUME ReadRow(h)
      PROVE  /\ call'[h].at = "lookup" /\ call[h].at = "read"
             /\ call'[h].cid = call[h].cid /\ call'[h].docId = call[h].docId
             /\ call'[h].seen = status[call[h].cid] /\ UNCHANGED vars
  BY <1>7 DEF ReadRow, Go, ApiInv, CallTyped, Free
<1>8. ~(PostConflict(h) \/ LookUpAnchor(h) \/ CallFails(h))
  BY DEF PostConflict, LookUpAnchor, CallFails, Go, ApiInv, CallTyped, Free
<1>9. ~(ListPage(h) \/ ListCount(h) \/ ListAnswer(h)) /\ \A c \in Cids : ~GetMany(h, c)
  BY DEF GetMany, ListPage, ListCount, ListAnswer, Go, ApiInv, CallTyped, Free
<1>10. ~(AnchorPage(h) \/ AnchorCount(h) \/ TransactionPage(h) \/ TransactionCount(h))
  BY DEF AnchorPage, AnchorCount, TransactionPage, TransactionCount, Go, ApiInv, CallTyped
<1>. QED BY <1>1, <1>2, <1>3, <1>4, <1>5, <1>6, <1>7, <1>8, <1>9, <1>10
    DEF ApiNext, apiVars, CallStep

\* What a step does to a call that lists the requests.
LEMMA ListSteps ==
  ASSUME ApiInv, [ApiNext]_apiVars, NEW h \in Calls, call'[h].at \in {"count", "present"}
  PROVE  \/ call'[h] = call[h]
         \/ /\ call'[h].at = "count" /\ UNCHANGED vars
            /\ call'[h].page \subseteq Rows /\ call'[h].seen = Seen(call'[h].page)
         \/ /\ call[h].at = "count" /\ call'[h].at = "present" /\ UNCHANGED vars
            /\ call'[h].page = call[h].page /\ call'[h].seen = call[h].seen
            /\ call'[h].total = Rows
         \/ /\ call'[h].at = "present" /\ UNCHANGED vars
            /\ call'[h].page \subseteq Rows /\ call'[h].seen = Seen(call'[h].page)
            /\ call'[h].total = call'[h].page
<1>1. CASE call' = [g \in Calls |-> Free]
  BY <1>1 DEF Free
<1>2. CASE call' = call
  BY <1>2
<1>3. ASSUME NEW g \in Calls, g # h, CallStep(g) \/ PostInsert(g)
      PROVE  call'[h] = call[h]
  BY <1>3 DEF CallStep, Get, PostFind, PostInsert, PostConflict, ReadRow, LookUpAnchor,
              GetMany, ListPage, ListCount, ListAnswer, CallFails, Go, ApiInv, CallTyped,
              AnchorPage, AnchorCount, TransactionPage, TransactionCount
<1>4. ASSUME ListPage(h)
      PROVE  /\ call'[h].at = "count" /\ UNCHANGED vars
             /\ call'[h].page \subseteq Rows /\ call'[h].seen = Seen(call'[h].page)
  BY <1>4 DEF ListPage, Go, ApiInv, CallTyped
<1>5. ASSUME ListCount(h)
      PROVE  /\ call[h].at = "count" /\ call'[h].at = "present" /\ UNCHANGED vars
             /\ call'[h].page = call[h].page /\ call'[h].seen = call[h].seen
             /\ call'[h].total = Rows
  BY <1>5 DEF ListCount, Go, ApiInv, CallTyped
<1>6. ~(PostInsert(h) \/ PostConflict(h) \/ ReadRow(h))
  BY DEF PostInsert, PostConflict, ReadRow, Go, ApiInv, CallTyped, Free
<1>7. ~(LookUpAnchor(h) \/ ListAnswer(h) \/ CallFails(h))
  BY DEF LookUpAnchor, ListAnswer, CallFails, Go, ApiInv, CallTyped, Free
<1>8. \A c \in Cids : ~Get(h, c) /\ \A d \in Docs : ~PostFind(h, c, d)
  BY DEF Get, PostFind, Go, ApiInv, CallTyped
<1>9. ASSUME NEW c \in Cids, GetMany(h, c)
      PROVE  /\ call'[h].at = "present" /\ UNCHANGED vars
             /\ call'[h].page \subseteq Rows /\ call'[h].seen = Seen(call'[h].page)
             /\ call'[h].total = call'[h].page
  BY <1>9 DEF GetMany, ByDocIdMany, Go, ApiInv, CallTyped
<1>10. ~(AnchorPage(h) \/ AnchorCount(h) \/ TransactionPage(h) \/ TransactionCount(h))
  BY DEF AnchorPage, AnchorCount, TransactionPage, TransactionCount, Go, ApiInv, CallTyped
<1>. QED BY <1>1, <1>2, <1>3, <1>4, <1>5, <1>6, <1>7, <1>8, <1>9, <1>10
    DEF ApiNext, apiVars, CallStep

\* What a step does to a call that lists anchors or transactions.
LEMMA LedgerListSteps ==
  ASSUME ApiInv, [ApiNext]_apiVars, NEW h \in Calls,
         call'[h].at \in {"anchorCount", "anchorList", "txCount", "txList"}
  PROVE  \/ call'[h] = call[h]
         \/ /\ call'[h].at = "anchorCount" /\ UNCHANGED vars
            /\ call'[h].anchorPage \subseteq anchors
         \/ /\ call[h].at = "anchorCount" /\ call'[h].at = "anchorList"
            /\ call'[h].anchorPage = call[h].anchorPage /\ call'[h].anchorTotal = anchors
         \/ /\ call'[h].at = "txCount" /\ UNCHANGED vars
            /\ call'[h].txPage \subseteq transactions
         \/ /\ call[h].at = "txCount" /\ call'[h].at = "txList"
            /\ call'[h].txPage = call[h].txPage /\ call'[h].txTotal = transactions
<1>1. CASE call' = [g \in Calls |-> Free]
  BY <1>1 DEF Free
<1>2. CASE call' = call
  BY <1>2
<1>3. ASSUME NEW g \in Calls, g # h, CallStep(g) \/ PostInsert(g)
      PROVE  call'[h] = call[h]
  BY <1>3 DEF CallStep, Get, PostFind, PostInsert, PostConflict, ReadRow, LookUpAnchor,
              GetMany, ListPage, ListCount, ListAnswer, CallFails, Go, ApiInv, CallTyped,
              AnchorPage, AnchorCount, TransactionPage, TransactionCount
<1>4. ASSUME AnchorPage(h)
      PROVE  /\ call'[h].at = "anchorCount" /\ UNCHANGED vars
             /\ call'[h].anchorPage \subseteq anchors
  BY <1>4 DEF AnchorPage, Go, ApiInv, CallTyped
<1>5. ASSUME AnchorCount(h)
      PROVE  /\ call[h].at = "anchorCount" /\ call'[h].at = "anchorList"
             /\ call'[h].anchorPage = call[h].anchorPage /\ call'[h].anchorTotal = anchors
  BY <1>5 DEF AnchorCount, Go, ApiInv, CallTyped
<1>6. ASSUME TransactionPage(h)
      PROVE  /\ call'[h].at = "txCount" /\ UNCHANGED vars
             /\ call'[h].txPage \subseteq transactions
  BY <1>6 DEF TransactionPage, Go, ApiInv, CallTyped
<1>7. ASSUME TransactionCount(h)
      PROVE  /\ call[h].at = "txCount" /\ call'[h].at = "txList"
             /\ call'[h].txPage = call[h].txPage /\ call'[h].txTotal = transactions
  BY <1>7 DEF TransactionCount, Go, ApiInv, CallTyped
<1>8. ~(PostInsert(h) \/ PostConflict(h) \/ ReadRow(h) \/ LookUpAnchor(h) \/ ListAnswer(h))
  BY DEF PostInsert, PostConflict, ReadRow, LookUpAnchor, ListAnswer, Go, ApiInv, CallTyped,
         Free
<1>9. ~(CallFails(h) \/ ListPage(h) \/ ListCount(h))
  BY DEF CallFails, ListPage, ListCount, Go, ApiInv, CallTyped, Free
<1>10. \A c \in Cids : ~Get(h, c) /\ ~GetMany(h, c) /\ \A d \in Docs : ~PostFind(h, c, d)
  BY DEF Get, GetMany, PostFind, Go, ApiInv, CallTyped
<1>. QED BY <1>1, <1>2, <1>3, <1>4, <1>5, <1>6, <1>7, <1>8, <1>9, <1>10
    DEF ApiNext, apiVars, CallStep

\* Between its two queries a list has rows that are in the table.
PageIsThere ==
  \A h \in Calls :
    /\ call[h].at = "count" => call[h].page \subseteq Rows
    /\ call[h].at = "anchorCount" => call[h].anchorPage \subseteq anchors
    /\ call[h].at = "txCount" => call[h].txPage \subseteq transactions

LEMMA PageStays ==
  ASSUME ApiInv, PageIsThere, [ApiNext]_apiVars
  PROVE  PageIsThere'
<1>1. [Next]_vars /\ TypeOK
  BY StepImplements DEF ApiInv, TypeInv
<1>2. ASSUME NEW h \in Calls, call'[h].at = "count", NEW c \in call'[h].page
      PROVE  c \in Cids /\ status'[c] # "NOT_REQUESTED"
  <2>1. c \in Rows
    BY <1>2, ListSteps DEF PageIsThere
  <2>. QED BY <1>1, <2>1, RowsStay DEF Rows
<1>3. anchors \subseteq anchors' /\ transactions \subseteq transactions'
  BY <1>1, LedgerGrows
<1>4. ASSUME NEW h \in Calls, call'[h].at = "anchorCount"
      PROVE  call'[h].anchorPage \subseteq anchors'
  BY <1>3, <1>4, LedgerListSteps DEF PageIsThere
<1>5. ASSUME NEW h \in Calls, call'[h].at = "txCount"
      PROVE  call'[h].txPage \subseteq transactions'
  BY <1>3, <1>5, LedgerListSteps DEF PageIsThere
<1>. QED BY <1>2, <1>4, <1>5 DEF PageIsThere, Rows

\* A call that has read ANCHORED in a row, its own or one of a page, finds the
\* anchor record whatever the runs do before it looks, and counts every row of
\* its page (RequestGetScenario.execute, RequestController.index).
THEOREM AnswerFindsAnchor == ApiSpec => []AnchoredAnswerFindsAnchor
<1>1. ApiInit => AnchoredAnswerFindsAnchor /\ PageIsThere
  BY DEF ApiInit, AnchoredAnswerFindsAnchor, PageIsThere, Free
<1>2. ASSUME ApiInv, AnchoredHasAnchor, AnchoredAnswerFindsAnchor, PageIsThere,
             [ApiNext]_apiVars
      PROVE  AnchoredAnswerFindsAnchor'
  <2>1. [Next]_vars
    BY <1>2, StepImplements DEF ApiInv
  <2>2. ASSUME NEW c, HasAnchor(c) PROVE HasAnchor(c)'
    BY <2>1, <2>2, LedgerGrows DEF HasAnchor
  <2>3. ASSUME NEW h \in Calls, call'[h].at = "lookup", call'[h].seen = "ANCHORED"
        PROVE  HasAnchor(call'[h].cid)
    <3>1. CASE call'[h] = call[h]
      BY <1>2, <2>3, <3>1 DEF AnchoredAnswerFindsAnchor, Presentable
    <3>2. CASE /\ call[h].at = "read" /\ call'[h].cid = call[h].cid
               /\ call'[h].seen = status[call[h].cid]
      <4>1. call[h].cid \in Cids
        BY <1>2, <3>2, ReadTyped DEF ApiInv
      <4>. QED BY <1>2, <2>3, <3>2, <4>1 DEF AnchoredHasAnchor
    <3>. QED BY <1>2, <2>3, <3>1, <3>2, CallSteps
  <2>4. ASSUME NEW h \in Calls, call'[h].at \in {"count", "present"},
               NEW c \in call'[h].page, call'[h].seen[c] = "ANCHORED"
        PROVE  HasAnchor(c)
    <3>1. CASE call'[h].page \subseteq Rows /\ call'[h].seen = Seen(call'[h].page)
      <4>1. c \in Cids /\ status[c] = "ANCHORED"
        BY <2>4, <3>1 DEF Seen, Rows
      <4>. QED BY <1>2, <4>1 DEF AnchoredHasAnchor
    <3>2. CASE /\ call[h].at \in {"count", "present"}
               /\ call'[h].page = call[h].page /\ call'[h].seen = call[h].seen
      BY <1>2, <2>4, <3>2 DEF AnchoredAnswerFindsAnchor, Presentable
    <3>. QED BY <1>2, <2>4, <3>1, <3>2, ListSteps
  <2>5. ASSUME NEW h \in Calls, call'[h].at = "present"
        PROVE  call'[h].page \subseteq call'[h].total
    BY <1>2, <2>5, ListSteps DEF AnchoredAnswerFindsAnchor, PageIsThere
  <2>6. ASSUME NEW h \in Calls, call'[h].at = "anchorList"
        PROVE  call'[h].anchorPage \subseteq call'[h].anchorTotal
    BY <1>2, <2>6, LedgerListSteps DEF AnchoredAnswerFindsAnchor, PageIsThere
  <2>7. ASSUME NEW h \in Calls, call'[h].at = "txList"
        PROVE  call'[h].txPage \subseteq call'[h].txTotal
    BY <1>2, <2>7, LedgerListSteps DEF AnchoredAnswerFindsAnchor, PageIsThere
  <2>. QED BY <2>2, <2>3, <2>4, <2>5, <2>6, <2>7 DEF AnchoredAnswerFindsAnchor, Presentable
<1>3. ApiInv /\ PageIsThere /\ [ApiNext]_apiVars => PageIsThere'
  BY PageStays
<1>. QED BY <1>1, <1>2, <1>3, ApiRefines, AnchoredIsOnRecord, PTL DEF ApiSpec

\* A POST answers with a row of the document it was sent for: calls for the
\* same cid that race it are refused (RequestCreateScenario.save).
THEOREM PostIsNotMixedUp == ApiSpec => []PostAnswersItsDocument
<1>1. ApiInit => PostAnswersItsDocument
  BY DEF ApiInit, PostAnswersItsDocument, Free
<1>2. ApiInv /\ PostAnswersItsDocument /\ [ApiNext]_apiVars => PostAnswersItsDocument'
  <2>. SUFFICES ASSUME ApiInv, PostAnswersItsDocument, [ApiNext]_apiVars, NEW h \in Calls,
                       call'[h].at \in {"read", "lookup"}, call'[h].docId # NoDoc
                PROVE  /\ status'[call'[h].cid] # "NOT_REQUESTED"
                       /\ docId'[call'[h].cid] = call'[h].docId
    BY DEF PostAnswersItsDocument
  <2>1. [Next]_vars /\ TypeOK /\ CallTyped /\ CallTyped'
    BY StepImplements, CallTypedStep DEF ApiInv, TypeInv
  <2>2. call'[h].cid \in Cids
    BY <2>1 DEF CallTyped, Call, Free
  <2>3. CASE /\ status[call'[h].cid] # "NOT_REQUESTED"
             /\ docId[call'[h].cid] = call'[h].docId
    BY <2>1, <2>2, <2>3, RowsStay
  <2>4. CASE PostInsert(h) /\ call'[h].cid = call[h].cid /\ call'[h].docId = call[h].docId
    BY <2>1, <2>2, <2>4 DEF PostInsert, Accept, TypeOK
  <2>5. CASE call'[h] = call[h]
    BY <2>3, <2>5 DEF PostAnswersItsDocument
  <2>6. CASE call[h].at = "read" /\ call'[h].cid = call[h].cid /\ call'[h].docId = call[h].docId
    BY <2>3, <2>6 DEF PostAnswersItsDocument
  <2>. QED BY <2>3, <2>4, <2>5, <2>6, CallSteps DEF Find
<1>. QED BY <1>1, <1>2, ApiRefines, PTL DEF ApiSpec
=============================================================================
