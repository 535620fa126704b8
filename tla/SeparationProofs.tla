------------------------ MODULE SeparationProofs ------------------------
(***************************************************************************)
(* The loop of separateRecordsByTime computes what SeparateByTime states,  *)
(* for any number of records, documents and times.                         *)
(***************************************************************************)
EXTENDS SeparationLoop, SeparateByTimeProofs

\* The loop invariant: the map holds, for each document seen so far, the one
\* latest record, and the array holds the stale ones.
LoopInv ==
  /\ TypeOK
  /\ \A d \in Docs : latest[d] = NoRecord => \A c \in Scanned : docId[c] # d
  /\ \A d \in Docs : latest[d] # NoRecord =>
       latest[d] \in LatestOf(Scanned, order) /\ docId[latest[d]] = d
  /\ stale = StaleOf(Scanned, order)

\* The present record of a document is at least as new as all scanned ones.
LEMMA PresentIsNewest ==
  ASSUME LoopInv, NEW d \in Docs, latest[d] # NoRecord
  PROVE  /\ latest[d] \in Scanned
         /\ \A c \in Scanned : docId[c] = d => createdAt[c] <= createdAt[latest[d]]
<1>1. Scanned \in SUBSET Records /\ \A x \in Scanned : createdAt[x] \in Nat
  BY DEF LoopInv, TypeOK, Scanned
<1>2. latest[d] \in LatestOf(Scanned, order) /\ docId[latest[d]] = d
  BY DEF LoopInv
<1>3. order \in ScanOrders(Records)
  BY DEF LoopInv, TypeOK
<1>4. ASSUME NEW c \in Scanned, docId[c] = d
      PROVE  createdAt[c] <= createdAt[latest[d]]
  <2>1. PICK l \in LatestOf(Scanned, order) :
           docId[l] = docId[c] /\ createdAt[c] <= createdAt[l]
    BY <1>1, <1>3, LoopConstants, LatestIsAsNew
  <2>2. l = latest[d]
    BY <1>1, <1>2, <1>3, <1>4, <2>1, OneLatestPerDocument
  <2>. QED BY <2>1, <2>2
<1>. QED BY <1>2, <1>4 DEF LatestOf, BecomesPresent

\* One turn of the loop keeps the invariant.
LEMMA VisitKeepsLoopInv ==
  ASSUME LoopInv, NEW c \in Records, Visit(c)
  PROVE  LoopInv'
<1> DEFINE d == docId[c]
           P == BecomesPresent(Scanned, order)
<1>1. /\ order[c] = i + 1 /\ i' = i + 1 /\ i \in Nat /\ d \in Docs
      /\ UNCHANGED <<docId, createdAt, order>>
      /\ \A x \in Records : order[x] \in Int /\ createdAt[x] \in Nat
      /\ \A x, y \in Records : x # y => order[x] # order[y]
  BY DEF LoopInv, TypeOK, Visit, records, ScanOrders
<1>2. Scanned' = Scanned \cup {c} /\ c \notin Scanned /\ Scanned \subseteq Records
  BY <1>1 DEF Scanned
<1>3. \A x \in Scanned : order[x] < order[c] /\ ~(order[c] < order[x])
  BY <1>1 DEF Scanned
<1>4. TypeOK'
  BY <1>1 DEF LoopInv, TypeOK, Visit, ScanOrders
<1>5. ASSUME \A o \in Scanned : docId[o] = d => createdAt[c] > createdAt[o]
      PROVE  BecomesPresent(Scanned, order)' = P \cup {c}
  BY <1>1, <1>2, <1>3, <1>5 DEF BecomesPresent, Newer
<1>6. ASSUME NEW o \in Scanned, docId[o] = d, ~(createdAt[c] > createdAt[o])
      PROVE  BecomesPresent(Scanned, order)' = P
  BY <1>1, <1>2, <1>3, <1>6 DEF BecomesPresent, Newer
<1>7. CASE latest[d] = NoRecord
  <2>1. \A o \in Scanned : docId[o] # d
    BY <1>1, <1>7 DEF LoopInv
  <2>2. BecomesPresent(Scanned, order)' = P \cup {c}
    BY <1>5, <2>1
  <2>3. /\ LatestOf(Scanned, order)' = LatestOf(Scanned, order) \cup {c}
        /\ StaleOf(Scanned, order)' = StaleOf(Scanned, order)
    <3>1. /\ ~Newer(c, c)
          /\ \A x \in P : x \in Records /\ x # c /\ ~Newer(c, x) /\ ~Newer(x, c)
      BY <1>1, <1>2, <2>1 DEF BecomesPresent, Newer
    <3>2. \A x, y \in Records : Newer(x, y)' = Newer(x, y)
      BY <1>1 DEF Newer
    <3>3. LatestOf(Scanned, order)' =
            {x \in P \cup {c} : ~\E o \in P \cup {c} : Newer(o, x)}
      BY <2>2, <3>1, <3>2 DEF LatestOf
    <3>4. LatestOf(Scanned, order)' = LatestOf(Scanned, order) \cup {c}
      BY <3>1, <3>2, <3>3 DEF LatestOf
    <3>. QED BY <2>2, <3>1, <3>4 DEF StaleOf
  <2>4. latest' = [latest EXCEPT ![d] = c] /\ stale' = stale
    BY <1>7 DEF Visit
  <2>5. /\ stale' = StaleOf(Scanned, order)'
        /\ latest'[d] = c /\ docId'[c] = d /\ c # NoRecord /\ c \in LatestOf(Scanned, order)'
        /\ \A e \in Docs : e # d => latest'[e] = latest[e]
    BY <1>1, <2>3, <2>4, LoopConstants DEF LoopInv, TypeOK
  <2>6. \A e \in Docs : latest'[e] = NoRecord => \A x \in Scanned' : docId'[x] # e
    BY <1>1, <1>2, <2>5 DEF LoopInv
  <2>7. \A e \in Docs : latest'[e] # NoRecord =>
          latest'[e] \in LatestOf(Scanned, order)' /\ docId'[latest'[e]] = e
    <3>. SUFFICES ASSUME NEW e \in Docs, e # d, latest[e] # NoRecord
                  PROVE  latest[e] \in LatestOf(Scanned, order)' /\ docId[latest[e]] = e
      BY <1>1, <2>5
    <3>1. latest[e] \in LatestOf(Scanned, order) /\ docId[latest[e]] = e
      BY DEF LoopInv
    <3>. QED BY <3>1, <2>3
  <2>. QED BY <1>4, <2>5, <2>6, <2>7 DEF LoopInv
<1>8. CASE latest[d] # NoRecord /\ Replaces(c, latest[d])
  <2> DEFINE p == latest[d]
  <2>1. p \in Scanned /\ \A o \in Scanned : docId[o] = d => createdAt[o] <= createdAt[p]
    BY <1>1, <1>8, PresentIsNewest
  <2>2. createdAt[c] > createdAt[p]
    BY <1>8 DEF Replaces
  <2>3. \A o \in Scanned : docId[o] = d => createdAt[c] > createdAt[o]
    BY <1>1, <1>2, <2>1, <2>2
  <2>4. BecomesPresent(Scanned, order)' = P \cup {c}
    BY <1>5, <2>3
  <2>5. p \in LatestOf(Scanned, order) /\ docId[p] = d /\ p \in P
    BY <1>1, <1>8 DEF LoopInv, LatestOf
  <2>6. /\ LatestOf(Scanned, order)' = (LatestOf(Scanned, order) \ {p}) \cup {c}
        /\ StaleOf(Scanned, order)' = StaleOf(Scanned, order) \cup {p}
    <3>1. \A x \in P : x \in Scanned
      BY DEF BecomesPresent
    <3>2. \A x, y \in Records : Newer(x, y)' = Newer(x, y)
      BY <1>1 DEF Newer
    <3>3. /\ ~Newer(c, c) /\ Newer(c, p)
          /\ \A x \in P : ~Newer(x, c)
          /\ \A x \in P : Newer(c, x) <=> docId[x] = d
      BY <1>1, <1>2, <2>2, <2>3, <2>5, <3>1 DEF Newer
    <3>4. \A x \in LatestOf(Scanned, order) : docId[x] = d => x = p
      BY <1>2, <2>5, OneLatestPerDocument DEF LoopInv, TypeOK
    <3>5. LatestOf(Scanned, order)' =
            {x \in P \cup {c} : ~\E o \in P \cup {c} : Newer(o, x)}
      BY <1>1, <1>2, <2>4, <3>1, <3>2 DEF LatestOf
    <3>6. LatestOf(Scanned, order)' = (LatestOf(Scanned, order) \ {p}) \cup {c}
      BY <2>5, <3>3, <3>4, <3>5 DEF LatestOf
    <3>7. c \notin P
      BY <1>2, <3>1
    <3>. QED BY <2>4, <2>5, <3>6, <3>7 DEF StaleOf
  <2>7. latest' = [latest EXCEPT ![d] = c] /\ stale' = stale \cup {p}
    BY <1>8 DEF Visit
  <2>8. /\ stale' = StaleOf(Scanned, order)'
        /\ latest'[d] = c /\ docId'[c] = d /\ c # NoRecord /\ c \in LatestOf(Scanned, order)'
        /\ \A e \in Docs : e # d => latest'[e] = latest[e]
    BY <1>1, <2>6, <2>7, LoopConstants DEF LoopInv, TypeOK
  <2>9. \A e \in Docs : latest'[e] = NoRecord => \A x \in Scanned' : docId'[x] # e
    BY <1>1, <1>2, <2>8 DEF LoopInv
  <2>10. \A e \in Docs : latest'[e] # NoRecord =>
          latest'[e] \in LatestOf(Scanned, order)' /\ docId'[latest'[e]] = e
    <3>. SUFFICES ASSUME NEW e \in Docs, e # d, latest[e] # NoRecord
                  PROVE  latest[e] \in LatestOf(Scanned, order)' /\ docId[latest[e]] = e
      BY <1>1, <2>8
    <3>1. latest[e] \in LatestOf(Scanned, order) /\ docId[latest[e]] = e
      BY DEF LoopInv
    <3>. QED BY <3>1, <2>5, <2>6
  <2>. QED BY <1>4, <2>8, <2>9, <2>10 DEF LoopInv
<1>9. CASE latest[d] # NoRecord /\ ~Replaces(c, latest[d])
  <2>1. latest[d] \in Scanned /\ docId[latest[d]] = d
    BY <1>1, <1>9, PresentIsNewest DEF LoopInv
  <2>2. BecomesPresent(Scanned, order)' = P
    BY <1>6, <1>9, <2>1 DEF Replaces
  <2>3. /\ LatestOf(Scanned, order)' = LatestOf(Scanned, order)
        /\ StaleOf(Scanned, order)' = StaleOf(Scanned, order)
    BY <1>1, <2>2 DEF LatestOf, StaleOf, Newer
  <2>4. UNCHANGED <<latest, stale>>
    BY <1>9 DEF Visit
  <2>5. \A e \in Docs : latest'[e] = NoRecord => \A x \in Scanned' : docId'[x] # e
    BY <1>1, <1>2, <1>9, <2>4 DEF LoopInv
  <2>6. \A e \in Docs : latest'[e] # NoRecord =>
          latest'[e] \in LatestOf(Scanned, order)' /\ docId'[latest'[e]] = e
    BY <1>1, <2>3, <2>4 DEF LoopInv
  <2>. QED BY <1>4, <2>3, <2>4, <2>5, <2>6 DEF LoopInv
<1>. QED BY <1>7, <1>8, <1>9

\* The loop invariant holds throughout.
LEMMA LoopInvHolds == Spec => []LoopInv
<1>1. Init => LoopInv
  <2>. SUFFICES ASSUME Init PROVE LoopInv
    OBVIOUS
  <2>1. Scanned = {}
    BY DEF Init, Scanned, ScanOrders
  <2>2. StaleOf(Scanned, order) = {}
    BY <2>1 DEF StaleOf, BecomesPresent
  <2>. QED BY <2>1, <2>2, LoopConstants DEF Init, LoopInv, TypeOK
<1>2. LoopInv /\ [Next]_vars => LoopInv'
  <2>. SUFFICES ASSUME LoopInv, [Next]_vars PROVE LoopInv'
    OBVIOUS
  <2>1. CASE UNCHANGED vars
    BY <2>1 DEF LoopInv, TypeOK, Scanned, StaleOf, LatestOf, BecomesPresent, Newer,
               vars, records
  <2>. QED BY <2>1, VisitKeepsLoopInv DEF Next, Return
<1>. QED BY <1>1, <1>2, PTL DEF Spec

\* After any number of records the loop has computed LatestOf and StaleOf
\* (separateRecordsByTime; AnchoringService.tla uses these two sets).
THEOREM LoopIsSeparation == Spec => []LoopComputesSeparation
<1>1. LoopInv => LoopComputesSeparation
  <2>. SUFFICES ASSUME LoopInv PROVE LoopComputesSeparation
    OBVIOUS
  <2>1. ASSUME NEW c \in LatestOf(Scanned, order)
        PROVE  docId[c] \in Docs /\ latest[docId[c]] = c /\ c # NoRecord
    <3>1. c \in Scanned /\ c \in Records /\ docId[c] \in Docs
      BY DEF LatestOf, BecomesPresent, Scanned, LoopInv, TypeOK
    <3>2. latest[docId[c]] # NoRecord
      BY <3>1 DEF LoopInv
    <3>3. latest[docId[c]] \in LatestOf(Scanned, order) /\ docId[latest[docId[c]]] = docId[c]
      BY <3>1, <3>2 DEF LoopInv
    <3>4. Scanned \in SUBSET Records /\ order \in ScanOrders(Records)
      BY DEF Scanned, LoopInv, TypeOK
    <3>. QED BY <3>1, <3>3, <3>4, OneLatestPerDocument, LoopConstants
  <2>. QED BY <2>1 DEF LoopComputesSeparation, LoopInv
<1>. QED BY <1>1, LoopInvHolds, PTL

\* At the end of the loop the newest record of every document is among the
\* latest ones, so that the run anchors the last state of the document.
THEOREM LoopKeepsNewest == Spec => []LatestIsNewest
<1>1. LoopInv => LatestIsNewest
  <2>. SUFFICES ASSUME LoopInv, i = Cardinality(Records), NEW c \in Records
                PROVE  /\ latest[docId[c]] \in Records
                       /\ docId[latest[docId[c]]] = docId[c]
                       /\ ~Newer(c, latest[docId[c]])
                       /\ latest[docId[c]] \notin stale
    BY DEF LatestIsNewest
  <2>1. c \in Scanned /\ docId[c] \in Docs
    BY DEF LoopInv, TypeOK, Scanned, ScanOrders
  <2>2. latest[docId[c]] # NoRecord
    BY <2>1 DEF LoopInv
  <2>3. latest[docId[c]] \in Scanned /\ createdAt[c] <= createdAt[latest[docId[c]]]
    BY <2>1, <2>2, PresentIsNewest
  <2>4. latest[docId[c]] \in LatestOf(Scanned, order) /\ docId[latest[docId[c]]] = docId[c]
    BY <2>1, <2>2 DEF LoopInv
  <2>5. createdAt[c] \in Nat /\ createdAt[latest[docId[c]]] \in Nat
    BY <2>3 DEF LoopInv, TypeOK, Scanned
  <2>. QED BY <2>3, <2>4, <2>5 DEF LoopInv, StaleOf, Newer, Scanned
<1>. QED BY <1>1, LoopInvHolds, PTL
=========================================================================
