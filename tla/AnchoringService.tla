------------------------ MODULE AnchoringService ------------------------
(***************************************************************************)
(* The anchoring service of apps/anchoring-api: its three tables, the      *)
(* blockchain it writes to, and the runs of AnchoringService.anchorRequests*)
(* that a cron job starts.                                                 *)
(*                                                                         *)
(* A request record is identified by its cid, which is unique in the       *)
(* table.  The cron job does not wait for the run it started before        *)
(* (AnchoringScheduleService.triggerAnchoring), so several runs may be     *)
(* under way: Runs is the set of runs that can be.  A run is split at      *)
(* every await: between two of its steps another run, a new request, a     *)
(* failure or a restart may come.                                          *)
(***************************************************************************)
EXTENDS SeparateByTime, Sequences

CONSTANTS
  Cids,             \* the document versions that clients ask to anchor
  Docs,             \* the documents they belong to
  NoDoc,            \* docId of a row that is not in the table
  Times,            \* values of createdAt
  Runs,             \* anchoring runs that can be under way together
  MaxTransactions,  \* transactions that the service's wallet can pay for
  MaxFaults         \* bound: runs that throw, and restarts

ASSUME ServiceConstants ==
  /\ IsFiniteSet(Cids)
  /\ Times \subseteq Nat
  /\ NoDoc \notin Docs
  /\ MaxTransactions \in Nat
  /\ MaxFaults \in Nat

VARIABLES
                \* requests.docId and requests.createdAt: SeparateByTime
  status,       \* requests.status, NOT_REQUESTED where there is no row
  anchors,      \* table anchors: request and transaction of each record
  transactions, \* table transactions: the chain positions on record
  chain,        \* the blockchain: for each transaction, the leaves of its tree
  announced,    \* requests published on didAnchor so far
  pc,           \* where each run stands
  picked,       \* the requests a run has read, until it sends its transaction
  batch,        \* the requests a run has still to anchor
  tx,           \* the transaction of a run, 0 before there is one
  faults        \* failures so far

requests == <<status, docId, createdAt>>
ledger == <<anchors, transactions, chain>>
runs == <<pc, picked, batch, tx>>
vars == <<requests, ledger, announced, runs, faults>>

\* The life of a request as the repository draws it.
Lifecycle == INSTANCE RequestLifecycle

Anchor == [cid : Cids, tx : Nat]
Position == {"idle", "read", "separate", "send", "mined", "anchor", "request"}

\* One type invariant for the tables, the chain and the runs.
TypeOK ==
  /\ status \in [Cids -> Lifecycle!AnchoringStatus]
  /\ docId \in [Cids -> Docs \cup {NoDoc}]
  /\ createdAt \in [Cids -> Nat]
  /\ anchors \subseteq Anchor
  /\ transactions \subseteq DOMAIN chain
  /\ chain \in Seq(SUBSET Cids)
  /\ announced \subseteq Cids
  /\ pc \in [Runs -> Position]
  /\ picked \in [Runs -> SUBSET Cids]
  /\ batch \in [Runs -> SUBSET Cids]
  /\ tx \in [Runs -> Nat]
  /\ faults \in Nat

Init ==
  /\ status = [c \in Cids |-> "NOT_REQUESTED"]
  /\ docId = [c \in Cids |-> NoDoc]
  /\ createdAt = [c \in Cids |-> 0]
  /\ anchors = {} /\ transactions = {} /\ chain = << >> /\ announced = {}
  /\ pc = [r \in Runs |-> "idle"]
  /\ picked = [r \in Runs |-> {}]
  /\ batch = [r \in Runs |-> {}]
  /\ tx = [r \in Runs |-> 0]
  /\ faults = 0

-----------------------------------------------------------------------------
\* What the queries of the storage classes return and what their saves write.

\* Operators marked "mistake" are used by no definition: each is the operator
\* after it with a plausible mistake in the code, for showing that the
\* properties notice.

\* mistake: requests a failed run left behind are not read again
AllPending(S) == {c \in Cids : status[c] \in S \ {"PROCESSING"}}

\* mistake: anchored requests are read again
AllUnlessOutdated(S) == {c \in Cids : status[c] \in S \cup {"ANCHORED"}}

\* RequestStorage.allByStatus
AllByStatus(S) == {c \in Cids : status[c] \in S}

\* RequestStorage.updateStatus: the status held by the entities is written
\* over whatever the rows hold by now, all rows in one transaction.
UpdateStatus(S, s) == status' = [c \in Cids |-> IF c \in S THEN s ELSE status[c]]

\* mistake: only the anchors of the newest transaction are looked up
HasNewAnchor(c) == \E a \in anchors : a.cid = c /\ a.tx = Len(chain)

\* AnchorStorage.byRequestId finds a record
HasAnchor(c) == \E a \in anchors : a.cid = c

\* PubSubService.didAnchor.publish
Publish(c) == announced' = announced \cup {c}

\* RequestSubscriber.afterUpdate: called when a save changes a request's row
\* to ANCHORED, it publishes the request if an anchor is on record.
DidAnchor(c) ==
  IF status[c] # "ANCHORED" /\ HasAnchor(c) THEN Publish(c) ELSE UNCHANGED announced

\* The run returns or its promise is rejected: its local variables are gone.
EndRun(r) ==
  /\ pc' = [pc EXCEPT ![r] = "idle"]
  /\ picked' = [picked EXCEPT ![r] = {}]
  /\ batch' = [batch EXCEPT ![r] = {}]
  /\ tx' = [tx EXCEPT ![r] = 0]

-----------------------------------------------------------------------------
(***************************************************************************)
(* New requests.  RequestCreateScenario inserts a row with status PENDING; *)
(* the column cid is unique.  createdAt is stamped when the entity is built*)
(* and the rows of concurrent callers are committed in any order, so any   *)
(* time may show up; AnchoringApi.tla models the callers one by one.       *)
(***************************************************************************)
Accept(c, d, t) ==
  /\ status[c] = "NOT_REQUESTED"
  /\ status' = [status EXCEPT ![c] = "PENDING"]
  /\ docId' = [docId EXCEPT ![c] = d]
  /\ createdAt' = [createdAt EXCEPT ![c] = t]
  /\ UNCHANGED <<ledger, announced, runs, faults>>

-----------------------------------------------------------------------------
(***************************************************************************)
(* The steps of anchorRequests, each up to its next await.                 *)
(***************************************************************************)

\* A cron tick: allByStatus(PENDING, PROCESSING).  Requests that an earlier
\* run left PROCESSING are read again.
ReadRequests(r) ==
  /\ pc[r] = "idle"
  /\ picked' = [picked EXCEPT ![r] = AllByStatus({"PENDING", "PROCESSING"})]
  /\ pc' = [pc EXCEPT ![r] = "read"]
  /\ UNCHANGED <<requests, ledger, announced, batch, tx, faults>>

\* updateStatus(pending, PROCESSING)
MarkProcessing(r) ==
  /\ pc[r] = "read"
  /\ UpdateStatus(picked[r], "PROCESSING")
  /\ pc' = [pc EXCEPT ![r] = "separate"]
  /\ UNCHANGED <<docId, createdAt, ledger, announced, picked, batch, tx, faults>>

\* separateRecordsByTime, markRecordsOutdated(stale), and the return when
\* there is nothing to anchor.
SeparateAndMarkOutdated(r) ==
  /\ pc[r] = "separate"
  /\ \E ord \in ScanOrders(picked[r]) :
       /\ UpdateStatus(StaleOf(picked[r], ord), "OUTDATED")
       /\ IF LatestOf(picked[r], ord) = {}
          THEN EndRun(r)
          ELSE /\ batch' = [batch EXCEPT ![r] = LatestOf(picked[r], ord)]
               /\ pc' = [pc EXCEPT ![r] = "send"]
               /\ UNCHANGED <<picked, tx>>
  /\ UNCHANGED <<docId, createdAt, ledger, announced, faults>>

\* mistake: always the receipt of the first transaction
FirstPosition == 1

\* The chain position of the transaction that is sent next.
NextPosition == Len(chain) + 1

\* Anchoring.create up to the transaction: the Merkle tree of the batch is
\* built and its root is put on the chain.
SendTransaction(r) ==
  /\ pc[r] = "send"
  /\ Len(chain) < MaxTransactions
  /\ chain' = Append(chain, batch[r])
  /\ tx' = [tx EXCEPT ![r] = NextPosition]
  /\ picked' = [picked EXCEPT ![r] = {}]
  /\ pc' = [pc EXCEPT ![r] = "mined"]
  /\ UNCHANGED <<requests, anchors, transactions, announced, batch, faults>>

\* sendTransaction rejects: the wallet is empty.
TransactionRejected(r) ==
  /\ pc[r] = "send"
  /\ Len(chain) = MaxTransactions
  /\ EndRun(r)
  /\ UNCHANGED <<requests, ledger, announced, faults>>

\* The rest of Anchoring.create (wait for the block, proof and leaves in
\* IPFS) and the save of the transaction record.
SaveTransaction(r) ==
  /\ pc[r] = "mined"
  /\ transactions' = transactions \cup {tx[r]}
  /\ pc' = [pc EXCEPT ![r] = "anchor"]
  /\ UNCHANGED <<requests, anchors, chain, announced, picked, batch, tx, faults>>

\* One turn of the loop over the responses: the anchor record is saved first,
SaveAnchor(r) ==
  /\ pc[r] = "anchor"
  /\ \E c \in batch[r] : anchors' = anchors \cup {[cid |-> c, tx |-> tx[r]]}
  /\ pc' = [pc EXCEPT ![r] = "request"]
  /\ UNCHANGED <<requests, transactions, chain, announced, picked, batch, tx, faults>>

\* mistake: another request of the batch
InBatch(r, c) == c \in batch[r]

\* the request whose anchor record the loop has just saved,
InLoop(r, c) == c \in batch[r] /\ [cid |-> c, tx |-> tx[r]] \in anchors

\* and then its row, which RequestSubscriber announces.
SaveRequest(r) ==
  /\ pc[r] = "request"
  /\ \E c \in batch[r] :
       /\ InLoop(r, c)
       /\ status' = [status EXCEPT ![c] = "ANCHORED"]
       /\ DidAnchor(c)
       /\ IF batch[r] = {c}
          THEN EndRun(r)
          ELSE /\ batch' = [batch EXCEPT ![r] = batch[r] \ {c}]
               /\ pc' = [pc EXCEPT ![r] = "anchor"]
               /\ UNCHANGED <<picked, tx>>
  /\ UNCHANGED <<docId, createdAt, ledger, faults>>

-----------------------------------------------------------------------------
(***************************************************************************)
(* Failures.  An await that rejects ends the run; nothing it saved is      *)
(* undone and no row is marked: the next tick reads the rows again.        *)
(***************************************************************************)
Fault == faults < MaxFaults /\ faults' = faults + 1

RunThrows(r) ==
  /\ pc[r] # "idle"
  /\ Fault
  /\ EndRun(r)
  /\ UNCHANGED <<requests, ledger, announced>>

\* The save of an anchored request is rolled back after its subscriber ran.
RequestRolledBack(r) ==
  /\ pc[r] = "request"
  /\ Fault
  /\ \E c \in batch[r] : InLoop(r, c) /\ DidAnchor(c)
  /\ EndRun(r)
  /\ UNCHANGED <<requests, ledger>>

\* The process restarts: the tables and the chain are all that is left.
Restart ==
  /\ \E r \in Runs : pc[r] # "idle"
  /\ Fault
  /\ pc' = [r \in Runs |-> "idle"]
  /\ picked' = [r \in Runs |-> {}]
  /\ batch' = [r \in Runs |-> {}]
  /\ tx' = [r \in Runs |-> 0]
  /\ UNCHANGED <<requests, ledger, announced>>

-----------------------------------------------------------------------------
RunStep(r) ==
  \/ ReadRequests(r) \/ MarkProcessing(r) \/ SeparateAndMarkOutdated(r)
  \/ SendTransaction(r) \/ TransactionRejected(r)
  \/ SaveTransaction(r) \/ SaveAnchor(r) \/ SaveRequest(r)

Next ==
  \/ \E c \in Cids, d \in Docs, t \in Times : Accept(c, d, t)
  \/ \E r \in Runs : RunStep(r) \/ RunThrows(r) \/ RequestRolledBack(r)
  \/ Restart

Spec == Init /\ [][Next]_vars

\* The cron job ticks for ever, and every await of a run settles.
FairSpec == Spec /\ \A r \in Runs : WF_vars(RunStep(r))

-----------------------------------------------------------------------------
(***************************************************************************)
(* Properties, for any number of runs at a time, failures and restarts.    *)
(***************************************************************************)

\* A request whose row says ANCHORED has an anchor record, so that no answer
\* fails with "Can not find anchor" (RequestPresentation.toJSON): whichever
\* run wrote the status, and wherever other runs stopped.
AnchoredHasAnchor == \A c \in Cids : status[c] = "ANCHORED" => HasAnchor(c)

\* An anchor record points to a transaction that is on record, and the tree
\* of that transaction holds the request: the proof handed out stands on the
\* chain, also when a run stopped between its saves.
AnchorIsProven ==
  \A a \in anchors : a.tx \in transactions /\ a.cid \in chain[a.tx]

\* One transaction anchors at most one version of a document, whatever the
\* order of the rows and however their times tie (separateRecordsByTime).
OneVersionPerTransaction ==
  \A i \in DOMAIN chain : \A c, o \in chain[i] : c # o => docId[c] # docId[o]

\* A request is given up as OUTDATED only when a strictly newer one for the
\* same document exists, and a strictly newer one is being anchored or is
\* anchored: giving up never loses the last state of a document.
OutdatedIsSuperseded ==
  \A c \in Cids : status[c] = "OUTDATED" =>
    \E o \in Cids : Newer(o, c) /\ status[o] \in {"PROCESSING", "ANCHORED"}

\* A request is ANCHORED only after it was published on didAnchor
\* (RequestSubscriber.afterUpdate), though a save may be rolled back, and
\* another run may have anchored the request before.
AnchoredWasAnnounced == \A c \in Cids : status[c] = "ANCHORED" => c \in announced

-----------------------------------------------------------------------------
(***************************************************************************)
(* Properties that need the runs to come one at a time: every run ends     *)
(* before the next tick of the cron job.                                   *)
(***************************************************************************)
OneRun == \A r, s \in Runs : r = s

\* Every request moves along the arrows of lifecycle.puml only.
ImplementsLifecycle == Lifecycle!Spec

\* Each anchor record beyond the first of a request was paid for by a failure:
\* the service never anchors again what it has anchored and saved.
RepeatedOnlyAfterFault ==
  \A c \in Cids : Cardinality({a \in anchors : a.cid = c}) <= 1 + faults

\* Every request that was accepted is settled at last, through failures and
\* restarts (as long as they end).
Settled(c) == status[c] \in {"ANCHORED", "OUTDATED"}
EveryRequestSettles == \A c \in Cids : status[c] = "PENDING" ~> Settled(c)

\* When no more requests come, the last state of every document stays anchored.
Newest(c) == docId[c] # NoDoc /\ ~\E o \in Cids : Newer(o, c)
LastStateAnchored ==
  <>[](\A c \in Cids : Newest(c) => status[c] = "ANCHORED")
=========================================================================
