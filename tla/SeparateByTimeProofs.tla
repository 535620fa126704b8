---------------------- MODULE SeparateByTimeProofs ----------------------
(***************************************************************************)
(* Facts about separateRecordsByTime, for any records in any scan order.   *)
(***************************************************************************)
EXTENDS SeparateByTime, FiniteSetTheorems, WellFoundedInduction, TLAPS

\* A function to the naturals has a greatest value on a finite set that is not
\* empty.  (A smallest set without one would have an element, and would still
\* be without one when that element is taken out.)
LEMMA FiniteArgMax ==
  ASSUME NEW T, IsFiniteSet(T), T # {}, NEW f, \A x \in T : f[x] \in Nat
  PROVE  \E m \in T : \A x \in T : f[x] <= f[m]
<1> DEFINE Bad == {U \in FiniteSubsetsOf(T) : U # {} /\ ~\E m \in U : \A x \in U : f[x] <= f[m]}
<1>1. SUFFICES ASSUME Bad # {} PROVE FALSE
  BY DEF FiniteSubsetsOf
<1>2. PICK U \in Bad : \A V \in Bad : ~(<<V, U>> \in StrictSubsetOrdering(T))
  <2> HIDE DEF Bad
  <2>1. Bad \subseteq FiniteSubsetsOf(T)
    BY DEF Bad
  <2>2. IsWellFoundedOn(StrictSubsetOrdering(T), FiniteSubsetsOf(T))
    BY FS_StrictSubsetOrderingWellFounded
  <2>. QED BY <1>1, <2>1, <2>2, WFMin
<1>3. PICK u \in U : TRUE
  OBVIOUS
<1>4. U \ {u} \in FiniteSubsetsOf(T) /\ <<U \ {u}, U>> \in StrictSubsetOrdering(T)
  BY FS_Subset DEF FiniteSubsetsOf, StrictSubsetOrdering
<1>5. U \ {u} # {}
  <2>. SUFFICES ASSUME U = {u} PROVE FALSE
    OBVIOUS
  <2>. f[u] <= f[u]
    BY DEF FiniteSubsetsOf
  <2>. QED OBVIOUS
<1>6. PICK m \in U \ {u} : \A x \in U \ {u} : f[x] <= f[m]
  BY <1>2, <1>4, <1>5
<1>7. f[u] \in Nat /\ f[m] \in Nat /\ \A x \in U : f[x] \in Nat
  BY DEF FiniteSubsetsOf
<1>8. \E n \in U : \A x \in U : f[x] <= f[n]
  <2>1. CASE f[u] <= f[m]
    BY <1>6, <2>1
  <2>2. CASE ~(f[u] <= f[m])
    <3>1. \A x \in U : f[x] <= f[u]
      BY <1>6, <1>7, <2>2
    <3>. QED BY <3>1
  <2>. QED BY <2>1, <2>2
<1>. QED BY <1>8

\* Two latest records are of different documents: one Merkle tree holds at
\* most one version of a document.
LEMMA OneLatestPerDocument ==
  ASSUME NEW R, NEW S \in SUBSET R, NEW ord \in ScanOrders(R),
         NEW c \in LatestOf(S, ord), NEW o \in LatestOf(S, ord), c # o
  PROVE  docId[c] # docId[o]
<1>. SUFFICES ASSUME docId[c] = docId[o] PROVE FALSE
  OBVIOUS
<1>1. c \in S /\ o \in S /\ ord[c] # ord[o] /\ ord[c] \in Int /\ ord[o] \in Int
  BY DEF ScanOrders, LatestOf, BecomesPresent
<1>2. CASE ord[c] < ord[o]
  BY <1>1, <1>2 DEF LatestOf, BecomesPresent
<1>3. CASE ord[o] < ord[c]
  BY <1>1, <1>3 DEF LatestOf, BecomesPresent
<1>. QED BY <1>1, <1>2, <1>3

\* A stale record is replaced by a newer one that was picked with it.
LEMMA StaleHasNewer ==
  ASSUME NEW S, NEW ord, NEW c \in StaleOf(S, ord)
  PROVE  \E o \in S : Newer(o, c)
BY DEF StaleOf, LatestOf, BecomesPresent

\* For every record there is a latest one of its document, and the record is
\* not newer than that: the newest record of a document is never lost.
LEMMA LatestIsAsNew ==
  ASSUME NEW R, IsFiniteSet(R), NEW S \in SUBSET R, NEW ord \in ScanOrders(R),
         \A x \in S : createdAt[x] \in Nat, NEW c \in S
  PROVE  \E l \in LatestOf(S, ord) : docId[l] = docId[c] /\ createdAt[c] <= createdAt[l]
<1> DEFINE Same == {x \in S : docId[x] = docId[c]}
           n == Cardinality(R)
<1>1. n \in Nat /\ \A x \in S : ord[x] \in 1..n
  BY FS_CardinalityType DEF ScanOrders
<1>2. PICK m \in Same : \A x \in Same : createdAt[x] <= createdAt[m]
  <2>1. IsFiniteSet(Same) /\ Same # {}
    BY FS_Subset
  <2>. QED BY <2>1, FiniteArgMax
<1> DEFINE Top == {x \in Same : createdAt[x] = createdAt[m]}
           first == [x \in Top |-> n - ord[x]]
<1>3. PICK l \in Top : \A x \in Top : first[x] <= first[l]
  <2>1. IsFiniteSet(Top) /\ Top # {}
    BY FS_Subset
  <2>2. \A x \in Top : first[x] \in Nat
    BY <1>1
  <2>. HIDE DEF first, Top
  <2>. QED BY <2>1, <2>2, FiniteArgMax
<1>4. \A x \in Top : ord[l] <= ord[x]
  BY <1>1, <1>3
<1>5. \A x \in Same : createdAt[x] <= createdAt[l] /\ createdAt[x] \in Nat
  BY <1>2
<1>6. l \in BecomesPresent(S, ord)
  <2>. SUFFICES ASSUME NEW o \in S, ord[o] < ord[l], docId[o] = docId[l]
                PROVE  Newer(l, o)
    BY DEF BecomesPresent
  <2>1. o \in Same /\ o \notin Top
    BY <1>1, <1>4
  <2>2. createdAt[o] # createdAt[l]
    BY <2>1
  <2>. QED BY <1>5, <2>1, <2>2 DEF Newer
<1>7. ~\E o \in BecomesPresent(S, ord) : Newer(o, l)
  BY <1>5 DEF BecomesPresent, Newer
<1>. QED BY <1>5, <1>6, <1>7 DEF LatestOf
=========================================================================
