------------------------- MODULE SeparateByTime -------------------------
(***************************************************************************)
(* AnchoringService.separateRecordsByTime: which of the request records    *)
(* that a run picked are the latest of their documents and which are       *)
(* stale.  The code scans the records once, in the order in which the      *)
(* database returned them (the query has no ORDER BY); here its result is  *)
(* stated in one expression.  SeparationLoop.tla models the loop and       *)
(* SeparationProofs.tla proves that the loop computes this.                *)
(***************************************************************************)
EXTENDS Naturals, FiniteSets

VARIABLES docId, createdAt      \* of every request record

\* A scan order of the records in S, as the position of each.
ScanOrders(S) == {ord \in [S -> 1..Cardinality(S)] :
                    \A a, b \in S : a # b => ord[a] # ord[b]}

Newer(a, b) == docId[a] = docId[b] /\ createdAt[a] > createdAt[b]

\* Operators marked "mistake" are used by no definition: each is the operator
\* after it with a plausible mistake in the code, for showing that the
\* properties notice.

\* A record becomes the present one of its document when it is strictly newer
\* than every record of that document scanned before it.
BecomesPresent(S, ord) ==
  {c \in S : \A o \in S : ord[o] < ord[c] /\ docId[o] = docId[c] => Newer(c, o)}

\* mistake: the comparison of createdAt the wrong way round
OldestOf(S, ord) ==
  {c \in BecomesPresent(S, ord) : ~\E o \in BecomesPresent(S, ord) : Newer(c, o)}

\* mistake: a present record is not taken out when a newer one comes
PresentOf(S, ord) == BecomesPresent(S, ord)

\* The records that are present at the end.
LatestOf(S, ord) ==
  {c \in BecomesPresent(S, ord) : ~\E o \in BecomesPresent(S, ord) : Newer(o, c)}

\* mistake: every record that was ever present is stale
EveryPresentOf(S, ord) == BecomesPresent(S, ord)

\* The records whose place a later one took.  A record scanned after one at
\* least as new is in neither set.
StaleOf(S, ord) == BecomesPresent(S, ord) \ LatestOf(S, ord)
=========================================================================
