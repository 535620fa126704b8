------------------------- MODULE SeparationLoop -------------------------
(***************************************************************************)
(* The loop of AnchoringService.separateRecordsByTime, one record a step,  *)
(* over any records in any scan order.                                     *)
(***************************************************************************)
EXTENDS SeparateByTime

CONSTANTS Records, Docs, Times, NoRecord

ASSUME LoopConstants ==
  /\ IsFiniteSet(Records)
  /\ Times \subseteq Nat
  /\ NoRecord \notin Records

VARIABLES
  order,      \* the position of each record in the array
  i,          \* records scanned so far
  latest,     \* the map: document to its present record
  stale       \* the array of records that were replaced

records == <<docId, createdAt, order>>
vars == <<records, i, latest, stale>>

Scanned == {c \in Records : order[c] <= i}

TypeOK ==
  /\ docId \in [Records -> Docs]
  /\ createdAt \in [Records -> Nat]
  /\ order \in ScanOrders(Records)
  /\ i \in Nat
  /\ latest \in [Docs -> Records \cup {NoRecord}]
  /\ stale \subseteq Records

Init ==
  /\ docId \in [Records -> Docs]
  /\ createdAt \in [Records -> Times]
  /\ order \in ScanOrders(Records)
  /\ i = 0
  /\ latest = [d \in Docs |-> NoRecord]
  /\ stale = {}

\* Operators marked "mistake" are used by no definition: each is the operator
\* after it with a plausible mistake in the code, for showing that the
\* properties notice.

\* mistake: the comparison the wrong way round
ReplacesIfOlder(c, present) == createdAt[c] < createdAt[present]

\* mistake: the comparison with the present record is not strict
ReplacesOrTies(c, present) == createdAt[c] >= createdAt[present]

Replaces(c, present) == createdAt[c] > createdAt[present]

\* The callback of forEach, for the record c.
Visit(c) ==
  LET present == latest[docId[c]] IN
  /\ order[c] = i + 1
  /\ i' = i + 1
  /\ \/ /\ present = NoRecord
        /\ latest' = [latest EXCEPT ![docId[c]] = c]
        /\ UNCHANGED stale
     \/ /\ present # NoRecord
        /\ Replaces(c, present)
        /\ latest' = [latest EXCEPT ![docId[c]] = c]
        /\ stale' = stale \cup {present}
     \/ /\ present # NoRecord
        /\ ~Replaces(c, present)
        /\ UNCHANGED <<latest, stale>>
  /\ UNCHANGED records

\* The loop has ended; its two lists stay.
Return == i = Cardinality(Records) /\ UNCHANGED vars

Next == (\E c \in Records : Visit(c)) \/ Return

Spec == Init /\ [][Next]_vars

-----------------------------------------------------------------------------
\* After any number of records, the values of the map are the latest records
\* of those scanned and the array holds the stale ones, as SeparateByTime
\* states them.
LoopComputesSeparation ==
  /\ {latest[d] : d \in Docs} \ {NoRecord} = LatestOf(Scanned, order)
  /\ stale = StaleOf(Scanned, order)

\* When the loop is done, every document of a record has exactly one latest
\* record, and no record of the document is newer: of two versions posted in
\* an interval the newest is never given up, in whatever order they come.
LatestIsNewest ==
  i = Cardinality(Records) =>
    \A c \in Records :
      /\ latest[docId[c]] \in Records
      /\ docId[latest[docId[c]]] = docId[c]
      /\ ~Newer(c, latest[docId[c]])
      /\ latest[docId[c]] \notin stale
=========================================================================
