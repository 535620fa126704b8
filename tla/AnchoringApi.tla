-------------------------- MODULE AnchoringApi --------------------------
(***************************************************************************)
(* The REST side of the anchoring service, composed with AnchoringService: *)
(* POST /v0/requests (RequestController.create: RequestCreateScenario and  *)
(* then RequestGetScenario), GET /v0/requests/:cid (RequestGetScenario),   *)
(* GET /v0/requests (RequestController.index), a page of the requests, and *)
(* GET /v0/requests/list/:cid (RequestGetManyScenario); and the pages of   *)
(* anchors (AnchorController.index) and transactions.                      *)
(* A call is split at its database queries, so calls overlap with each     *)
(* other and with anchoring runs.                                          *)
(***************************************************************************)
EXTENDS AnchoringService

CONSTANT Calls      \* requests the HTTP server handles at a time

VARIABLES
  call,             \* where each call stands, with its local variables
  now               \* the clock of the process

apiVars == <<vars, call, now>>

Free == [at |-> "free"]

Call ==
  {Free}
  \cup [at : {"insert"}, cid : Cids, docId : Docs, createdAt : Times]
  \cup [at : {"read"}, cid : Cids, docId : Docs \cup {NoDoc}]
  \cup [at : {"lookup"}, cid : Cids, docId : Docs \cup {NoDoc},
        seen : Lifecycle!AnchoringStatus]
  \cup [at : {"count"}, page : SUBSET Cids, seen : [Cids -> Lifecycle!AnchoringStatus]]
  \cup [at : {"present"}, page : SUBSET Cids, total : SUBSET Cids,
        seen : [Cids -> Lifecycle!AnchoringStatus]]
  \cup [at : {"anchorCount"}, anchorPage : SUBSET Anchor]
  \cup [at : {"anchorList"}, anchorPage : SUBSET Anchor, anchorTotal : SUBSET Anchor]
  \cup [at : {"txCount"}, txPage : SUBSET Nat]
  \cup [at : {"txList"}, txPage : SUBSET Nat, txTotal : SUBSET Nat]

ApiTypeOK == TypeOK /\ call \in [Calls -> Call] /\ now \in Times

ApiInit ==
  /\ Init
  /\ call = [h \in Calls |-> Free]
  /\ now \in {t \in Times : \A u \in Times : t <= u}

Go(h, next) == call' = [call EXCEPT ![h] = next]

-----------------------------------------------------------------------------
\* mistake: the row is found by its cid alone
FindByCid(c, d) == status[c] # "NOT_REQUESTED"

\* RequestStorage.find: the row of this cid and this document.
Find(c, d) == status[c] # "NOT_REQUESTED" /\ docId[c] = d

\* POST: the scenario looks for the row.  When there is none it builds an
\* entity, which TypeORM stamps with the time before it inserts it.
PostFind(h, c, d) ==
  /\ call[h] = Free
  /\ IF Find(c, d)
     THEN /\ Go(h, [at |-> "read", cid |-> c, docId |-> d])
          /\ UNCHANGED now
     ELSE \E t \in Times :
            /\ t >= now
            /\ now' = t
            /\ Go(h, [at |-> "insert", cid |-> c, docId |-> d, createdAt |-> t])
  /\ UNCHANGED vars

\* mistake: a save that replaces the row with the same cid
PostReplace(h) ==
  /\ call[h].at = "insert"
  /\ LET p == call[h] IN
       /\ status' = [status EXCEPT ![p.cid] = "PENDING"]
       /\ docId' = [docId EXCEPT ![p.cid] = p.docId]
       /\ createdAt' = [createdAt EXCEPT ![p.cid] = p.createdAt]
       /\ Go(h, [at |-> "read", cid |-> p.cid, docId |-> p.docId])
  /\ UNCHANGED <<ledger, announced, runs, faults, now>>

\* POST: the row is inserted, unless one with this cid is there by now.
PostInsert(h) ==
  /\ call[h].at = "insert"
  /\ LET p == call[h] IN
       /\ Accept(p.cid, p.docId, p.createdAt)
       /\ Go(h, [at |-> "read", cid |-> p.cid, docId |-> p.docId])
  /\ UNCHANGED now

\* POST: the insert violates the unique cid; the answer is a bad request.
PostConflict(h) ==
  /\ call[h].at = "insert"
  /\ status[call[h].cid] # "NOT_REQUESTED"
  /\ Go(h, Free)
  /\ UNCHANGED <<vars, now>>

\* GET starts at the query that a POST ends with.
Get(h, c) ==
  /\ call[h] = Free
  /\ Go(h, [at |-> "read", cid |-> c, docId |-> NoDoc])
  /\ UNCHANGED <<vars, now>>

\* RequestGetScenario: byCidOrFail returns a copy of the row, or throws.
ReadRow(h) ==
  /\ call[h].at = "read"
  /\ LET c == call[h].cid IN
       Go(h, IF status[c] = "NOT_REQUESTED" THEN Free
             ELSE [at |-> "lookup", cid |-> c, docId |-> call[h].docId,
                   seen |-> status[c]])
  /\ UNCHANGED <<vars, now>>

\* RequestPresentation.toJSON of the copy of a row: every status has its
\* answer, but that of ANCHORED has the cid of an anchor, or else it throws.
Presentable(c, seen) == seen = "ANCHORED" => HasAnchor(c)

\* RequestGetScenario: byRequestId, and the answer from the copy and the
\* anchor that was found.
LookUpAnchor(h) ==
  /\ call[h].at = "lookup"
  /\ Go(h, Free)
  /\ UNCHANGED <<vars, now>>

Rows == {c \in Cids : status[c] # "NOT_REQUESTED"}

\* The copies of the rows of a page
Seen(page) == [c \in Cids |-> IF c \in page THEN status[c] ELSE "NOT_REQUESTED"]

\* RequestStorage.byDocIdMany, of the cid as it is in the call: no docId is
\* one, for docIds begin with vessel://.
ByDocIdMany(c) == {r \in Rows : docId[r] = c}

\* RequestGetManyScenario looks up the anchors of the rows it finds.
GetMany(h, c) ==
  /\ call[h] = Free
  /\ LET found == ByDocIdMany(c) IN
       Go(h, [at |-> "present", page |-> found, total |-> found, seen |-> Seen(found)])
  /\ UNCHANGED <<vars, now>>

\* index: RequestStorage.page.  Which rows are on it depends on the number of
\* the page and on when they were updated.
ListPage(h) ==
  /\ call[h] = Free
  /\ \E page \in SUBSET Rows : Go(h, [at |-> "count", page |-> page, seen |-> Seen(page)])
  /\ UNCHANGED <<vars, now>>

\* index: RequestStorage.count, of which the rows are kept here.
ListCount(h) ==
  /\ call[h].at = "count"
  /\ Go(h, [at |-> "present", page |-> call[h].page, total |-> Rows, seen |-> call[h].seen])
  /\ UNCHANGED <<vars, now>>

\* AnchorController.index: AnchorStorage.page, in any order
AnchorPage(h) ==
  /\ call[h] = Free
  /\ \E page \in SUBSET anchors : Go(h, [at |-> "anchorCount", anchorPage |-> page])
  /\ UNCHANGED <<vars, now>>

\* AnchorController.index: AnchorStorage.count, of which the records are kept
AnchorCount(h) ==
  /\ call[h].at = "anchorCount"
  /\ Go(h, [at |-> "anchorList", anchorPage |-> call[h].anchorPage, anchorTotal |-> anchors])
  /\ UNCHANGED <<vars, now>>

\* TransactionController.index: TransactionStorage.page
TransactionPage(h) ==
  /\ call[h] = Free
  /\ \E page \in SUBSET transactions : Go(h, [at |-> "txCount", txPage |-> page])
  /\ UNCHANGED <<vars, now>>

\* TransactionController.index: TransactionStorage.count
TransactionCount(h) ==
  /\ call[h].at = "txCount"
  /\ Go(h, [at |-> "txList", txPage |-> call[h].txPage, txTotal |-> transactions])
  /\ UNCHANGED <<vars, now>>

\* requestPresentation of every row, at the same time: the anchor is looked up
\* and what it points to is read from IPFS; then the answer.  The other lists
\* are answered at once.
ListAnswer(h) ==
  /\ call[h].at \in {"present", "anchorList", "txList"}
  /\ Go(h, Free)
  /\ UNCHANGED <<vars, now>>

\* A query of the call fails; the answer is an error.
CallFails(h) ==
  /\ call[h] # Free
  /\ Go(h, Free)
  /\ UNCHANGED <<vars, now>>

-----------------------------------------------------------------------------
ApiNext ==
  \/ \E h \in Calls :
       \/ \E c \in Cids : Get(h, c) \/ GetMany(h, c) \/ \E d \in Docs : PostFind(h, c, d)
       \/ PostInsert(h) \/ PostConflict(h) \/ ReadRow(h) \/ LookUpAnchor(h)
       \/ ListPage(h) \/ ListCount(h) \/ ListAnswer(h)
       \/ AnchorPage(h) \/ AnchorCount(h) \/ TransactionPage(h) \/ TransactionCount(h)
       \/ CallFails(h)
  \/ \E r \in Runs :
       (RunStep(r) \/ RunThrows(r) \/ RequestRolledBack(r)) /\ UNCHANGED <<call, now>>
  \/ Restart /\ call' = [h \in Calls |-> Free] /\ UNCHANGED now

ApiSpec == ApiInit /\ [][ApiNext]_apiVars

-----------------------------------------------------------------------------
\* An answer made from a row that said ANCHORED when it was read finds an
\* anchor, whatever the runs did between the two queries: the "Can not find
\* anchor" of RequestPresentation.toJSON never happens, and a list shows the
\* anchor of every anchored request.  No list has more than it counts.
AnchoredAnswerFindsAnchor ==
  \A h \in Calls :
    /\ call[h].at = "lookup" => Presentable(call[h].cid, call[h].seen)
    /\ call[h].at \in {"count", "present"} =>
         \A c \in call[h].page : Presentable(c, call[h].seen[c])
    /\ call[h].at = "present" => call[h].page \subseteq call[h].total
    /\ call[h].at = "anchorList" => call[h].anchorPage \subseteq call[h].anchorTotal
    /\ call[h].at = "txList" => call[h].txPage \subseteq call[h].txTotal

\* A POST that got past find and insert answers with a row of the document it
\* was sent for, though calls for the same cid may race it.
PostAnswersItsDocument ==
  \A h \in Calls :
    call[h].at \in {"read", "lookup"} /\ call[h].docId # NoDoc =>
      /\ status[call[h].cid] # "NOT_REQUESTED"
      /\ docId[call[h].cid] = call[h].docId
=========================================================================
