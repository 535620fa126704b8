------------------------ MODULE AnchorProofsTheorems ------------------------
(***************************************************************************)
(* Proofs about AnchorProofs, for any batches, any number of creations and *)
(* blocks, and reorganisations at any time: what a proof says of the       *)
(* chain, what a verification that refuses shows, where the path of a leaf *)
(* leads, and what the root depends on.                                    *)
(*                                                                         *)
(* The first part is about MerkleTree alone.  A path is followed by        *)
(* FoldLeft, and a tree is climbed by recursive functions, so each of them *)
(* is first shown to be what its steps make it.                            *)
(***************************************************************************)
EXTENDS AnchorProofs, FiniteSetTheorems, SequenceTheorems, TLAPS

-----------------------------------------------------------------------------
(* Counting.                                                               *)

LEMMA LeastNatural ==
  ASSUME NEW T, T \subseteq Nat, T # {}
  PROVE  \E x \in T : \A y \in T : x <= y
<1>1. PICK x \in T : \A y \in T : <<y, x>> \notin OpToRel(<, Nat)
  BY NatLessThanWellFounded, WFMin, Zenon
<1>2. \A y \in T : y < x => <<y, x>> \in OpToRel(<, Nat)
  BY DEF OpToRel
<1>3. \A y \in T : ~(y < x)
  BY <1>1, <1>2, Zenon
<1>4. \A y \in T : x <= y
  BY <1>3
<1>. QED BY <1>4, Zenon

\* Induction: what holds of 0 and goes from each number to the next up to n.
LEMMA Counting ==
  ASSUME NEW n \in Nat, NEW T, 0 \in T, \A m \in 0..(n - 1) : m \in T => m + 1 \in T
  PROVE  0..n \subseteq T
<1>. SUFFICES ASSUME ~(0..n \subseteq T) PROVE FALSE
  OBVIOUS
<1>. DEFINE Out == (0..n) \ T
<1>1. PICK m \in Out : \A k \in Out : m <= k
  <2>1. Out \subseteq Nat /\ Out # {}
    OBVIOUS
  <2>. HIDE DEF Out
  <2>. QED BY <2>1, LeastNatural
<1>2. m # 0 /\ m \in 1..n
  BY <1>1
<1>3. m - 1 \in 0..(n - 1) /\ m - 1 \notin Out /\ m = (m - 1) + 1
  BY <1>1, <1>2
<1>. QED BY <1>1, <1>3

-----------------------------------------------------------------------------
(* Following a path.                                                       *)

\* What FoldLeft computes on the way, for every set of positions.
Computes(it, id, path, D) ==
  it = [S \in SUBSET D |-> IF S = {} THEN id ELSE Follow(it[S \ {Max(S)}], path[Max(S)])]

Down(id, path, D) == CHOOSE it : Computes(it, id, path, D)

\* g[k] is what the first k steps of a path lead to.
Follows(g, id, path, n) ==
  g[0] = id /\ \A k \in 1..n : g[k] = Follow(g[k - 1], path[k])

LEMMA ResolvedIsDown ==
  ASSUME NEW id, NEW path
  PROVE  Resolved(id, path) = Down(id, path, DOMAIN path)[DOMAIN path]
BY DEF Resolved, FoldLeft, MapThenFoldSet, Down, Computes

LEMMA MaxOfInterval ==
  ASSUME NEW m \in Nat, NEW S \in SUBSET (1..(m + 1)), m + 1 \in S
  PROVE  Max(S) = m + 1
<1>1. \A y \in S : m + 1 >= y
  OBVIOUS
<1>2. \A x \in S : (\A y \in S : x >= y) => x = m + 1
  BY <1>1
<1>. QED BY <1>1, <1>2 DEF Max

LEMMA DownExists ==
  ASSUME NEW id, NEW path, NEW n \in Nat
  PROVE  \E it : Computes(it, id, path, 1..n)
<1>. DEFINE T == {m \in Nat : \E it : Computes(it, id, path, 1..m)}
<1>1. 0 \in T
  <2>. DEFINE it == [S \in {{}} |-> id]
  <2>1. SUBSET (1..0) = {{}}
    OBVIOUS
  <2>2. it = [S \in {{}} |-> IF S = {} THEN id ELSE Follow(it[S \ {Max(S)}], path[Max(S)])]
    OBVIOUS
  <2>3. Computes(it, id, path, 1..0)
    BY <2>1, <2>2, Zenon DEF Computes
  <2>. QED BY <2>3
<1>2. ASSUME NEW m \in 0..(n - 1), m \in T PROVE m + 1 \in T
  <2>1. PICK it : Computes(it, id, path, 1..m)
    BY <1>2
  <2>. DEFINE next == [S \in SUBSET (1..(m + 1)) |->
                        IF m + 1 \in S THEN Follow(it[S \ {m + 1}], path[m + 1]) ELSE it[S]]
  <2>2. ASSUME NEW S \in SUBSET (1..(m + 1))
        PROVE  next[S] = IF S = {} THEN id ELSE Follow(next[S \ {Max(S)}], path[Max(S)])
    <3>1. CASE m + 1 \in S
      <4>1. Max(S) = m + 1
        BY <3>1, MaxOfInterval
      <4>2. S \ {m + 1} \in SUBSET (1..(m + 1)) /\ m + 1 \notin S \ {m + 1}
        OBVIOUS
      <4>3. next[S \ {m + 1}] = it[S \ {m + 1}]
        BY <4>2
      <4>. QED BY <3>1, <4>1, <4>3
    <3>2. CASE m + 1 \notin S
      <4>1. S \in SUBSET (1..m)
        BY <3>2
      <4>2. it[S] = IF S = {} THEN id ELSE Follow(it[S \ {Max(S)}], path[Max(S)])
        BY <2>1, <4>1 DEF Computes
      <4>3. next[S] = it[S]
        BY <3>2
      <4>4. next[S \ {Max(S)}] = it[S \ {Max(S)}]
        BY <3>2
      <4>. QED BY <4>2, <4>3, <4>4
    <3>. QED BY <3>1, <3>2
  <2>3. Computes(next, id, path, 1..(m + 1))
    <3>1. next = [S \in SUBSET (1..(m + 1)) |-> next[S]]
      OBVIOUS
    <3>. HIDE DEF next
    <3>. QED BY <2>2, <3>1 DEF Computes
  <2>. QED BY <2>3
<1>. HIDE DEF T
<1>3. 0..n \subseteq T
  BY <1>1, <1>2, Counting
<1>4. n \in T
  BY <1>3
<1>. QED BY <1>4 DEF T

\* FoldLeft is the last of any values that follow each other along the path.
LEMMA ResolvedIsLast ==
  ASSUME NEW id, NEW path, NEW n \in Nat, DOMAIN path = 1..n,
         NEW g, Follows(g, id, path, n)
  PROVE  Resolved(id, path) = g[n]
<1>. DEFINE it == Down(id, path, 1..n)
            T == {m \in Nat : it[1..m] = g[m]}
<1>1. Computes(it, id, path, 1..n)
  <2>1. \E x : Computes(x, id, path, 1..n)
    BY DownExists
  <2>. QED BY <2>1 DEF Down
<1>. HIDE DEF it
<1>2. 0 \in T
  <2>1. 1..0 = {} /\ {} \in SUBSET (1..n)
    OBVIOUS
  <2>2. it[{}] = id
    BY <1>1, <2>1, Zenon DEF Computes
  <2>. QED BY <2>1, <2>2 DEF Follows
<1>3. ASSUME NEW m \in 0..(n - 1), m \in T PROVE m + 1 \in T
  <2>. HIDE DEF T
  <2>0. m \in Nat /\ m + 1 \in 1..n
    OBVIOUS
  <2>1. 1..(m + 1) \in SUBSET (1..n) /\ 1..(m + 1) # {} /\ m + 1 \in 1..(m + 1)
    <3>1. m + 1 \in 1..(m + 1) /\ \A x \in 1..(m + 1) : x \in 1..n
      BY <2>0
    <3>. QED BY <3>1
  <2>2. Max(1..(m + 1)) = m + 1
    BY <2>1, MaxOfInterval
  <2>3. (1..(m + 1)) \ {m + 1} = 1..m
    OBVIOUS
  <2>4. it[1..(m + 1)] = Follow(it[1..m], path[m + 1])
    BY <1>1, <2>1, <2>2, <2>3 DEF Computes
  <2>5. g[m + 1] = Follow(g[m], path[m + 1])
    BY <2>0 DEF Follows
  <2>. QED BY <1>3, <2>0, <2>4, <2>5 DEF T
<1>. HIDE DEF T
<1>4. 0..n \subseteq T
  BY <1>2, <1>3, Counting
<1>5. n \in T
  BY <1>4
<1>. QED BY <1>5, ResolvedIsDown DEF T, it

LEMMA FollowingExists ==
  ASSUME NEW id, NEW path, NEW n \in Nat
  PROVE  \E g : Follows(g, id, path, n)
<1>1. PICK it : Computes(it, id, path, 1..n)
  BY DownExists
<1>. DEFINE g == [k \in 0..n |-> it[1..k]]
<1>2. g[0] = id
  <2>1. 1..0 = {} /\ {} \in SUBSET (1..n)
    OBVIOUS
  <2>. QED BY <1>1, <2>1 DEF Computes
<1>3. ASSUME NEW k \in 1..n PROVE g[k] = Follow(g[k - 1], path[k])
  <2>1. /\ 1..k \in SUBSET (1..n) /\ 1..k # {} /\ k \in 1..k
        /\ (1..k) \ {k} = 1..(k - 1) /\ k - 1 \in Nat /\ k = (k - 1) + 1
    OBVIOUS
  <2>2. Max(1..k) = k
    BY <2>1, MaxOfInterval, Zenon
  <2>3. it[1..k] = Follow(it[1..(k - 1)], path[k])
    BY <1>1, <2>1, <2>2 DEF Computes
  <2>. QED BY <2>3
<1>. HIDE DEF g
<1>. QED BY <1>2, <1>3 DEF Follows

\* One step first, and the rest of the path from there.
LEMMA ResolveFirst ==
  ASSUME NEW id, NEW path \in Seq({"L", "R"}), NEW d \in {"L", "R"}
  PROVE  Resolved(id, <<d>> \o path) = Resolved(Follow(id, d), path)
<1>. DEFINE n == Len(path)
            whole == <<d>> \o path
<1>1. n \in Nat /\ DOMAIN path = 1..n /\ DOMAIN whole = 1..(n + 1)
  OBVIOUS
<1>2. whole[1] = d /\ \A k \in 1..n : whole[k + 1] = path[k]
  OBVIOUS
<1>. HIDE DEF n, whole
<1>3. PICK g : Follows(g, id, whole, n + 1)
  <2>1. n + 1 \in Nat
    BY <1>1
  <2>. QED BY <2>1, FollowingExists
<1>4. Resolved(id, whole) = g[n + 1]
  BY <1>1, <1>3, ResolvedIsLast
<1>. DEFINE h == [k \in 0..n |-> g[k + 1]]
<1>5. h[0] = Follow(id, d)
  BY <1>1, <1>2, <1>3 DEF Follows
<1>6. ASSUME NEW k \in 1..n PROVE h[k] = Follow(h[k - 1], path[k])
  <2>1. k + 1 \in 1..(n + 1) /\ (k + 1) - 1 = k /\ k \in 0..n /\ k - 1 \in 0..n /\ (k - 1) + 1 = k
    BY <1>1
  <2>2. g[k + 1] = Follow(g[k], path[k])
    BY <1>2, <1>3, <2>1 DEF Follows
  <2>. QED BY <2>1, <2>2
<1>7. h[n] = g[n + 1]
  BY <1>1
<1>. HIDE DEF h
<1>8. Resolved(Follow(id, d), path) = h[n]
  <2>1. Follows(h, Follow(id, d), path, n)
    BY <1>5, <1>6 DEF Follows
  <2>. QED BY <1>1, <2>1, ResolvedIsLast
<1>. QED BY <1>4, <1>7, <1>8 DEF whole

\* The rest of the path first, and then one step.
LEMMA ResolveLast ==
  ASSUME NEW id, NEW path \in Seq({"L", "R"}), path # << >>
  PROVE  Resolved(id, path) = Follow(Resolved(id, Front(path)), Last(path))
<1>. DEFINE n == Len(path)
            front == Front(path)
<1>1. /\ n \in Nat \ {0} /\ DOMAIN path = 1..n /\ Last(path) = path[n]
      /\ DOMAIN front = 1..(n - 1) /\ \A k \in 1..(n - 1) : front[k] = path[k]
  BY DEF Front, Last
<1>. HIDE DEF n, front
<1>2. PICK g : Follows(g, id, path, n)
  BY <1>1, FollowingExists
<1>3. Resolved(id, path) = g[n]
  BY <1>1, <1>2, ResolvedIsLast
<1>4. Resolved(id, front) = g[n - 1]
  <2>1. Follows(g, id, front, n - 1)
    BY <1>1, <1>2 DEF Follows
  <2>2. n - 1 \in Nat
    BY <1>1
  <2>. QED BY <1>1, <2>1, <2>2, ResolvedIsLast
<1>5. g[n] = Follow(g[n - 1], path[n])
  BY <1>1, <1>2 DEF Follows
<1>. QED BY <1>1, <1>3, <1>4, <1>5 DEF front

LEMMA ResolveNone == ASSUME NEW id PROVE Resolved(id, << >>) = id
<1>1. PICK g : Follows(g, id, << >>, 0)
  BY FollowingExists
<1>2. DOMAIN << >> = 1..0
  OBVIOUS
<1>3. Resolved(id, << >>) = g[0]
  BY <1>1, <1>2, ResolvedIsLast
<1>. QED BY <1>1, <1>3 DEF Follows

-----------------------------------------------------------------------------
(* Trees, as grow makes them.                                              *)

IsLevel(level) == Len(level) \in Nat \ {0} /\ DOMAIN level = 1..Len(level)

\* What grow makes of a level.
GrownFrom(above, level) ==
  /\ Len(above) = (Len(level) + 1) \div 2
  /\ \A j \in 1..Len(above) :
       above[j] = IF 2 * j <= Len(level) THEN MergeAt(level, j) ELSE level[Len(level)]

IsTree(tree) ==
  /\ Len(tree) \in Nat \ {0} /\ DOMAIN tree = 1..Len(tree)
  /\ \A k \in 1..Len(tree) : IsLevel(tree[k])
  /\ \A k \in 2..Len(tree) : GrownFrom(tree[k], tree[k - 1])

\* f is the function that step makes of first, up to n.
Recursive(f, first, step, n) ==
  \A k \in 1..n : f[k] = IF k = 1 THEN first ELSE step[k][f[k - 1]]

LEMMA RecursionExists ==
  ASSUME NEW X, NEW n \in Nat, NEW first \in X, NEW step \in [1..n -> [X -> X]]
  PROVE  \E f \in [1..n -> X] : Recursive(f, first, step, n)
<1>. DEFINE T == {m \in Nat : \E f \in [1..m -> X] : Recursive(f, first, step, m)}
<1>1. 0 \in T
  <2>1. [k \in 1..0 |-> first] \in [1..0 -> X] /\ Recursive([k \in 1..0 |-> first], first, step, 0)
    BY DEF Recursive
  <2>. QED BY <2>1
<1>2. ASSUME NEW m \in 0..(n - 1), m \in T PROVE m + 1 \in T
  <2>1. PICK f \in [1..m -> X] : Recursive(f, first, step, m)
    BY <1>2
  <2>. DEFINE v == IF m = 0 THEN first ELSE step[m + 1][f[m]]
              g == [k \in 1..(m + 1) |-> IF k = m + 1 THEN v ELSE f[k]]
  <2>2. v \in X
    <3>1. CASE m = 0
      BY <3>1
    <3>2. CASE m # 0
      <4>1. f[m] \in X /\ m + 1 \in 1..n
        BY <3>2
      <4>. QED BY <3>2, <4>1
    <3>. QED BY <3>1, <3>2
  <2>3. \A k \in 1..m : g[k] = f[k]
    OBVIOUS
  <2>4. g[m + 1] = v
    OBVIOUS
  <2>5. g \in [1..(m + 1) -> X]
    BY <2>2
  <2>6. Recursive(g, first, step, m + 1)
    <3>. HIDE DEF g
    <3>1. ASSUME NEW k \in 1..m
          PROVE  g[k] = IF k = 1 THEN first ELSE step[k][g[k - 1]]
      BY <2>1, <2>3 DEF Recursive
    <3>2. g[m + 1] = IF m + 1 = 1 THEN first ELSE step[m + 1][g[(m + 1) - 1]]
      BY <2>3, <2>4
    <3>. QED BY <3>1, <3>2 DEF Recursive
  <2>. HIDE DEF g, v
  <2>7. \E h \in [1..(m + 1) -> X] : Recursive(h, first, step, m + 1)
    BY <2>5, <2>6
  <2>. QED BY <2>7
<1>. HIDE DEF T
<1>3. 0..n \subseteq T
  BY <1>1, <1>2, Counting
<1>4. n \in T
  BY <1>3
<1>. QED BY <1>4 DEF T

\* The places of the nodes that Ascent goes through.
IsClimb(place, tree, i) ==
  /\ DOMAIN place = 1..Len(tree)
  /\ \A k \in 1..Len(tree) : place[k] = IF k = 1 THEN i ELSE UplinkOf(place[k - 1])

LEMMA AscentIs ==
  ASSUME NEW tree, Len(tree) \in Nat, NEW i \in Nat
  PROVE  \E place : /\ IsClimb(place, tree, i)
                    /\ Ascent(tree, i) = [k \in 1..Len(tree) |-> tree[k][place[k]]]
<1>. DEFINE n == Len(tree)
            Def(f) == f = [k \in 1..n |-> IF k = 1 THEN i ELSE UplinkOf(f[k - 1])]
            place == CHOOSE f : Def(f)
<1>1. \E f : Def(f)
  <2>. DEFINE step == [k \in 1..n |-> [v \in Nat |-> UplinkOf(v)]]
  <2>1. step \in [1..n -> [Nat -> Nat]]
    <3>1. \A v \in Nat : UplinkOf(v) \in Nat
      BY DEF UplinkOf
    <3>. QED BY <3>1
  <2>. HIDE DEF step
  <2>2. PICK f \in [1..n -> Nat] : Recursive(f, i, step, n)
    BY <2>1, RecursionExists
  <2>3. ASSUME NEW k \in 1..n PROVE f[k] = IF k = 1 THEN i ELSE UplinkOf(f[k - 1])
    <3>1. CASE k = 1
      BY <2>2, <3>1 DEF Recursive
    <3>2. CASE k # 1
      <4>1. k - 1 \in 1..n
        BY <3>2
      <4>2. f[k - 1] \in Nat
        BY <4>1
      <4>3. f[k] = step[k][f[k - 1]]
        BY <2>2, <3>2 DEF Recursive
      <4>. QED BY <3>2, <4>2, <4>3 DEF step
    <3>. QED BY <3>1, <3>2
  <2>4. f = [k \in 1..n |-> f[k]]
    OBVIOUS
  <2>5. Def(f)
    BY <2>3, <2>4
  <2>. QED BY <2>5
<1>2. Def(place)
  BY <1>1
<1>3. Ascent(tree, i) = [k \in 1..n |-> tree[k][place[k]]]
  BY DEF Ascent
<1>. HIDE DEF place
<1>4. IsClimb(place, tree, i)
  BY <1>2 DEF IsClimb
<1>. QED BY <1>3, <1>4

\* The steps that nodePath has taken when it comes to each level.
IsPresent(present, nodes, n) ==
  /\ \A k \in 1..n : present[k] \in Seq({"L", "R"})
  /\ \A k \in 1..n : present[k] =
       IF k = 1 THEN << >> ELSE present[k - 1] \o StepTo(nodes[k - 1], nodes[k])

LEMMA StepIsSeq == \A a, b : StepTo(a, b) \in Seq({"L", "R"})
<1>. SUFFICES ASSUME NEW a, NEW b PROVE StepTo(a, b) \in Seq({"L", "R"})
  OBVIOUS
<1>1. StepTo(a, b) \in {<< >>, <<"L">>, <<"R">>}
  BY DEF StepTo
<1>2. << >> \in Seq({"L", "R"}) /\ <<"L">> \in Seq({"L", "R"}) /\ <<"R">> \in Seq({"L", "R"})
  OBVIOUS
<1>. QED BY <1>1, <1>2

LEMMA StepsUpAre ==
  ASSUME NEW tree, Len(tree) \in Nat \ {0}, NEW i
  PROVE  \E present : /\ IsPresent(present, Ascent(tree, i), Len(tree))
                      /\ StepsUp(tree, i) = present[Len(tree)]
<1>. DEFINE n == Len(tree)
            nodes == Ascent(tree, i)
            Steps == Seq({"L", "R"})
            Def(f) == f = [k \in 1..n |->
                         IF k = 1 THEN << >> ELSE f[k - 1] \o StepTo(nodes[k - 1], nodes[k])]
            present == CHOOSE f : Def(f)
<1>1. \E f \in [1..n -> Steps] : Def(f)
  <2>. DEFINE step == [k \in 1..n |-> [v \in Steps |-> v \o StepTo(nodes[k - 1], nodes[k])]]
  <2>. HIDE DEF nodes
  <2>1. step \in [1..n -> [Steps -> Steps]]
    <3>1. ASSUME NEW k \in 1..n, NEW v \in Steps
          PROVE  v \o StepTo(nodes[k - 1], nodes[k]) \in Steps
      <4>1. StepTo(nodes[k - 1], nodes[k]) \in Steps
        BY StepIsSeq
      <4>. QED BY <4>1
    <3>. QED BY <3>1
  <2>2. << >> \in Steps
    OBVIOUS
  <2>. HIDE DEF step, Steps
  <2>3. PICK f \in [1..n -> Steps] : Recursive(f, << >>, step, n)
    BY <2>1, <2>2, RecursionExists
  <2>4. ASSUME NEW k \in 1..n
        PROVE  f[k] = IF k = 1 THEN << >> ELSE f[k - 1] \o StepTo(nodes[k - 1], nodes[k])
    <3>1. CASE k = 1
      BY <2>3, <3>1 DEF Recursive
    <3>2. CASE k # 1
      <4>1. k - 1 \in 1..n
        BY <3>2
      <4>2. f[k - 1] \in Steps
        BY <4>1
      <4>3. f[k] = step[k][f[k - 1]]
        BY <2>3, <3>2 DEF Recursive
      <4>. QED BY <3>2, <4>2, <4>3 DEF step
    <3>. QED BY <3>1, <3>2
  <2>5. f = [k \in 1..n |-> f[k]]
    OBVIOUS
  <2>6. Def(f)
    BY <2>4, <2>5
  <2>. QED BY <2>6
<1>2. Def(present)
  BY <1>1
<1>3. StepsUp(tree, i) = present[n]
  BY DEF StepsUp
<1>. HIDE DEF present, nodes
<1>4. \A k \in 1..n : present[k] =
        IF k = 1 THEN << >> ELSE present[k - 1] \o StepTo(nodes[k - 1], nodes[k])
  BY <1>2
<1>5. \A k \in 1..n : present[k] \in Steps
  <2>. DEFINE T == {m \in Nat : m + 1 \in 1..n => present[m + 1] \in Steps}
  <2>1. 0 \in T
    <3>1. 1 \in 1..n => present[1] = << >>
      BY <1>4
    <3>2. << >> \in Steps
      OBVIOUS
    <3>3. 0 \in Nat /\ 0 + 1 = 1
      OBVIOUS
    <3>. QED BY <3>1, <3>2, <3>3, Zenon
  <2>2. ASSUME NEW m \in 0..(n - 1), m \in T PROVE m + 1 \in T
    <3>1. ASSUME m + 2 \in 1..n PROVE present[m + 2] \in Steps
      <4>1. m + 1 \in 1..n
        BY <3>1
      <4>2. present[m + 1] \in Steps
        BY <2>2, <4>1
      <4>. HIDE DEF T
      <4>0. m + 2 # 1 /\ (m + 2) - 1 = m + 1
        OBVIOUS
      <4>3. present[m + 2] = present[m + 1] \o StepTo(nodes[m + 1], nodes[m + 2])
        BY <1>4, <3>1, <4>0, Zenon
      <4>4. StepTo(nodes[m + 1], nodes[m + 2]) \in Steps
        BY StepIsSeq
      <4>. QED BY <4>2, <4>3, <4>4
    <3>2. (m + 1) + 1 = m + 2 /\ m + 1 \in Nat
      OBVIOUS
    <3>. QED BY <3>1, <3>2
  <2>. HIDE DEF T
  <2>3. 0..n \subseteq T
    BY <2>1, <2>2, Counting
  <2>4. ASSUME NEW k \in 1..n PROVE k - 1 \in T /\ (k - 1) + 1 = k
    BY <2>3
  <2>. QED BY <2>4 DEF T
<1>. QED BY <1>3, <1>4, <1>5 DEF IsPresent, nodes

LEMMA ReverseIs ==
  ASSUME NEW S, NEW q \in Seq(S)
  PROVE  /\ Reverse(q) \in Seq(S) /\ Len(Reverse(q)) = Len(q)
         /\ \A k \in 1..Len(q) : Reverse(q)[k] = q[(Len(q) - k) + 1]
BY DEF Reverse

LEMMA ReverseLast ==
  ASSUME NEW S, NEW q \in Seq(S), NEW d \in S
  PROVE  Reverse(q \o <<d>>) = <<d>> \o Reverse(q)
<1>. DEFINE n == Len(q)
            longer == q \o <<d>>
            back == Reverse(q)
            right == <<d>> \o back
<1>1. n \in Nat /\ longer \in Seq(S) /\ Len(longer) = n + 1
  OBVIOUS
<1>2. (\A k \in 1..n : longer[k] = q[k]) /\ longer[n + 1] = d
  OBVIOUS
<1>3. /\ back \in Seq(S) /\ Len(back) = n
      /\ \A k \in 1..n : back[k] = q[(n - k) + 1]
  BY ReverseIs
<1>. HIDE DEF back
<1>4. right \in Seq(S) /\ Len(right) = n + 1 /\ right[1] = d
      /\ \A k \in 1..n : right[k + 1] = back[k]
  BY <1>1, <1>3
<1>. HIDE DEF longer, n
<1>5. /\ Reverse(longer) \in Seq(S) /\ Len(Reverse(longer)) = n + 1
      /\ \A k \in 1..(n + 1) : Reverse(longer)[k] = longer[((n + 1) - k) + 1]
  BY <1>1, ReverseIs
<1>6. ASSUME NEW k \in 1..(n + 1) PROVE Reverse(longer)[k] = right[k]
  <2>. HIDE DEF right
  <2>0. Reverse(longer)[k] = longer[((n + 1) - k) + 1]
    BY <1>5
  <2>1. CASE k = 1
    <3>1. ((n + 1) - k) + 1 = n + 1
      BY <1>1, <2>1
    <3>. QED BY <1>2, <1>4, <2>0, <2>1, <3>1
  <2>2. CASE k # 1
    <3>1. /\ k - 1 \in 1..n /\ (k - 1) + 1 = k /\ (n - (k - 1)) + 1 \in 1..n
          /\ ((n + 1) - k) + 1 = (n - (k - 1)) + 1
      BY <1>1, <2>2
    <3>2. right[k] = q[(n - (k - 1)) + 1]
      <4>1. right[(k - 1) + 1] = back[k - 1] /\ back[k - 1] = q[(n - (k - 1)) + 1]
        BY <1>3, <1>4, <3>1, Zenon
      <4>. QED BY <3>1, <4>1, Zenon
    <3>3. longer[(n - (k - 1)) + 1] = q[(n - (k - 1)) + 1]
      BY <1>2, <3>1, Zenon
    <3>. QED BY <2>0, <3>1, <3>2, <3>3, Zenon
  <2>. QED BY <2>1, <2>2
<1>. HIDE DEF right
<1>7. Reverse(longer) = right
  BY <1>4, <1>5, <1>6
<1>. QED BY <1>7 DEF longer, right, back

\* What a step of StepTo leads up to leads down again.
LeadsBack(lower, upper, step) ==
  \/ step = << >> /\ upper = lower
  \/ \E d \in {"L", "R"} : step = <<d>> /\ upper.kind = "link" /\ Follow(upper, d) = lower

\* A level, the one above and the node p below its uplink.
LEMMA UplinkLeadsBack ==
  ASSUME NEW level, NEW above, IsLevel(level), GrownFrom(above, level),
         NEW p \in 1..Len(level)
  PROVE  /\ UplinkOf(p) \in 1..Len(above)
         /\ LeadsBack(level[p], above[UplinkOf(p)], StepTo(level[p], above[UplinkOf(p)]))
<1>. DEFINE n == Len(level)
            j == UplinkOf(p)
            a == level[p]
            b == above[j]
<1>0. n \in Nat /\ p \in 1..n
  BY DEF IsLevel
<1>1. j \in 1..Len(above) /\ (p = 2 * j \/ p = 2 * j - 1)
  BY <1>0 DEF UplinkOf, GrownFrom
<1>2. b = IF 2 * j <= n THEN MergeAt(level, j) ELSE level[n]
  BY <1>1 DEF GrownFrom
<1>. HIDE DEF n, j
<1>3. CASE 2 * j > n
  <2>1. p = n
    BY <1>0, <1>1, <1>3 DEF n
  <2>2. ~(2 * j <= n)
    BY <1>0, <1>1, <1>3
  <2>3. b = a
    BY <1>2, <2>1, <2>2
  <2>4. StepTo(a, b) = << >>
    BY <2>3 DEF StepTo
  <2>. QED BY <1>1, <2>3, <2>4 DEF LeadsBack, j
<1>4. CASE 2 * j <= n
  <2>1. b.kind = "link" /\ b.L = level[2 * j - 1] /\ b.R = level[2 * j]
    BY <1>2, <1>4 DEF MergeAt, Link
  <2>2. b.L = a \/ b.R = a
    BY <1>1, <2>1
  <2>3. Follow(b, "L") = b.L /\ Follow(b, "R") = b.R
    BY <2>1 DEF Follow
  <2>. HIDE DEF a, b
  <2>4. CASE b = a
    <3>1. StepTo(a, b) = << >>
      BY <2>4 DEF StepTo
    <3>. QED BY <1>1, <2>4, <3>1 DEF LeadsBack, j, a, b
  <2>5. CASE b # a /\ b.L = a
    <3>1. StepTo(a, b) = <<"L">>
      BY <2>5 DEF StepTo
    <3>2. LeadsBack(a, b, StepTo(a, b))
      BY <2>1, <2>3, <2>5, <3>1 DEF LeadsBack
    <3>. QED BY <1>1, <3>2 DEF j, a, b
  <2>6. CASE b # a /\ b.L # a
    <3>1. StepTo(a, b) = <<"R">>
      BY <2>6 DEF StepTo
    <3>2. LeadsBack(a, b, StepTo(a, b))
      BY <2>1, <2>2, <2>3, <2>6, <3>1 DEF LeadsBack
    <3>. QED BY <1>1, <3>2 DEF j, a, b
  <2>. QED BY <2>4, <2>5, <2>6
<1>. QED BY <1>0, <1>1, <1>3, <1>4

\* A path to a node at which the steps so far lead back to the leaf.
Returns(leaf, node, steps) ==
  /\ Resolved(node, Reverse(steps)) = leaf
  /\ steps # << >> => node.kind = "link"

LEMMA ReturnsStep ==
  ASSUME NEW leaf, NEW lower, NEW upper, NEW steps \in Seq({"L", "R"}), NEW step,
         Returns(leaf, lower, steps), LeadsBack(lower, upper, step)
  PROVE  Returns(leaf, upper, steps \o step)
<1>1. CASE step = << >> /\ upper = lower
  <2>1. steps \o step = steps
    BY <1>1
  <2>. QED BY <1>1, <2>1, Zenon
<1>2. ASSUME NEW d \in {"L", "R"}, step = <<d>>, upper.kind = "link", Follow(upper, d) = lower
      PROVE  Returns(leaf, upper, steps \o step)
  <2>1. Reverse(steps \o <<d>>) = <<d>> \o Reverse(steps)
    BY ReverseLast
  <2>2. Reverse(steps) \in Seq({"L", "R"})
    BY ReverseIs
  <2>3. Resolved(upper, <<d>> \o Reverse(steps)) = Resolved(lower, Reverse(steps))
    BY <1>2, <2>2, ResolveFirst
  <2>. QED BY <1>2, <2>1, <2>3, Zenon DEF Returns
<1>. QED BY <1>1, <1>2 DEF LeadsBack

\* The path from any leaf of a tree of any shape, turned round, leads from the root
\* down to the leaf.
LEMMA PathLeadsDown ==
  ASSUME NEW tree, IsTree(tree), Len(tree[Len(tree)]) = 1,
         NEW i \in 1..Len(tree[1])
  PROVE  /\ StepsUp(tree, i) \in Seq({"L", "R"})
         /\ Returns(tree[1][i], RootOf(tree), StepsUp(tree, i))
<1>. DEFINE n == Len(tree)
            nodes == Ascent(tree, i)
<1>0. n \in Nat \ {0} /\ i \in Nat
  BY DEF IsTree, IsLevel
<1>1. PICK place : IsClimb(place, tree, i) /\ nodes = [k \in 1..n |-> tree[k][place[k]]]
  BY <1>0, AscentIs
<1>2. PICK present : IsPresent(present, nodes, n) /\ StepsUp(tree, i) = present[n]
  BY <1>0, StepsUpAre
<1>3. \A k \in 1..n : nodes[k] = tree[k][place[k]]
  BY <1>1
<1>. HIDE DEF nodes, n
<1>. DEFINE T == {m \in Nat : m + 1 \in 1..n =>
                    /\ place[m + 1] \in 1..Len(tree[m + 1])
                    /\ Returns(tree[1][i], nodes[m + 1], present[m + 1])}
<1>4. 0 \in T
  <2>1. 1 \in 1..n /\ 0 + 1 = 1 /\ 0 \in Nat
    BY <1>0
  <2>2. place[1] = i /\ present[1] = << >>
    BY <1>1, <1>2, <2>1 DEF IsClimb, IsPresent, n
  <2>3. Resolved(nodes[1], Reverse(<< >>)) = nodes[1]
    <3>1. Reverse(<< >>) = << >>
      BY DEF Reverse
    <3>. QED BY <3>1, ResolveNone
  <2>4. Returns(tree[1][i], nodes[1], present[1])
    BY <1>3, <2>1, <2>2, <2>3 DEF Returns
  <2>. QED BY <2>1, <2>2, <2>4, Zenon
<1>5. ASSUME NEW m \in 0..(n - 1), m \in T PROVE m + 1 \in T
  <2>1. ASSUME (m + 1) + 1 \in 1..n
        PROVE  /\ place[(m + 1) + 1] \in 1..Len(tree[(m + 1) + 1])
               /\ Returns(tree[1][i], nodes[(m + 1) + 1], present[(m + 1) + 1])
    <3>. DEFINE k == m + 1
    <3>0. k \in 1..n /\ k + 1 \in 2..n /\ k + 1 \in 1..n /\ k + 1 # 1 /\ (k + 1) - 1 = k
      BY <1>0, <2>1
    <3>1. place[k] \in 1..Len(tree[k]) /\ Returns(tree[1][i], nodes[k], present[k])
      BY <1>5, <3>0
    <3>. HIDE DEF k, T
    <3>2. IsLevel(tree[k]) /\ GrownFrom(tree[k + 1], tree[k])
      <4>1. GrownFrom(tree[k + 1], tree[(k + 1) - 1])
        BY <3>0, Zenon DEF IsTree, n
      <4>. QED BY <3>0, <4>1, Zenon DEF IsTree, n
    <3>3. place[k + 1] = UplinkOf(place[k])
      <4>1. place[k + 1] = UplinkOf(place[(k + 1) - 1])
        BY <1>1, <3>0, Zenon DEF IsClimb, n
      <4>. QED BY <3>0, <4>1, Zenon
    <3>4. /\ place[k + 1] \in 1..Len(tree[k + 1])
          /\ LeadsBack(nodes[k], nodes[k + 1], StepTo(nodes[k], nodes[k + 1]))
      <4>1. nodes[k] = tree[k][place[k]] /\ nodes[k + 1] = tree[k + 1][place[k + 1]]
        BY <1>3, <3>0, Zenon
      <4>. QED BY <3>1, <3>2, <3>3, <4>1, UplinkLeadsBack, Zenon
    <3>5. present[k] \in Seq({"L", "R"}) /\ present[k + 1] = present[k] \o StepTo(nodes[k], nodes[k + 1])
      <4>1. present[k + 1] = present[(k + 1) - 1] \o StepTo(nodes[(k + 1) - 1], nodes[k + 1])
        BY <1>2, <3>0, Zenon DEF IsPresent
      <4>2. present[k] \in Seq({"L", "R"})
        BY <1>2, <3>0, Zenon DEF IsPresent
      <4>. QED BY <3>0, <4>1, <4>2, Zenon
    <3>6. Returns(tree[1][i], nodes[k + 1], present[k + 1])
      BY <3>1, <3>4, <3>5, ReturnsStep, Zenon
    <3>. QED BY <3>4, <3>6 DEF k
  <2>2. m + 1 \in Nat
    OBVIOUS
  <2>. QED BY <2>1, <2>2, Zenon
<1>6. n - 1 \in T
  <2>. HIDE DEF T
  <2>1. 0..n \subseteq T
    BY <1>0, <1>4, <1>5, Counting
  <2>2. n - 1 \in 0..n
    BY <1>0
  <2>. QED BY <2>1, <2>2
<1>7. place[n] \in 1..Len(tree[n]) /\ Returns(tree[1][i], nodes[n], present[n])
  <2>1. (n - 1) + 1 = n /\ n \in 1..n
    BY <1>0
  <2>. QED BY <1>6, <2>1, Zenon
<1>8. nodes[n] = RootOf(tree)
  <2>1. place[n] = 1
    BY <1>7 DEF n
  <2>2. n \in 1..n
    BY <1>0
  <2>. QED BY <1>3, <2>1, <2>2 DEF RootOf, n
<1>9. present[n] \in Seq({"L", "R"})
  <2>1. n \in 1..n
    BY <1>0
  <2>. QED BY <1>2, <2>1, Zenon DEF IsPresent
<1>. QED BY <1>2, <1>7, <1>8, <1>9

\* What originalRecordCid reads for a leaf of a tree: the cid that the leaf was made of,
\* as a text, or, in a tree of one leaf, as the CID that its root was parsed to.
THEOREM PathsLeadToRecords ==
  ASSUME NEW tree, IsTree(tree), Len(tree[Len(tree)]) = 1,
         NEW cid, \E i \in 1..Len(tree[1]) : tree[1][i] = Text(cid)
  PROVE  /\ PathOf(tree, cid) \in Seq({"L", "R"})
         /\ OriginalRecord(AsCid(RootOf(tree)), PathOf(tree, cid))
              = IF PathOf(tree, cid) = << >> THEN Cid(cid) ELSE Text(cid)
<1>. DEFINE i == LeafIndex(tree, cid)
            steps == StepsUp(tree, i)
            path == PathOf(tree, cid)
            root == RootOf(tree)
<1>1. i \in 1..Len(tree[1]) /\ tree[1][i] = Text(cid)
  BY DEF LeafIndex
<1>2. steps \in Seq({"L", "R"}) /\ Returns(Text(cid), root, steps)
  <2>. HIDE DEF i
  <2>. QED BY <1>1, PathLeadsDown
<1>3. path = Reverse(steps)
  BY DEF PathOf
<1>. HIDE DEF steps, path, root
<1>4. path \in Seq({"L", "R"}) /\ Len(path) = Len(steps)
  BY <1>2, <1>3, ReverseIs
<1>5. Resolved(root, path) = Text(cid) /\ (steps # << >> => root.kind = "link")
  BY <1>2, <1>3 DEF Returns
<1>6. CASE path = << >>
  <2>1. root = Text(cid)
    BY <1>5, <1>6, ResolveNone
  <2>2. AsCid(root) = Cid(cid)
    BY <2>1 DEF AsCid, Text
  <2>3. OriginalRecord(AsCid(root), path) = AsCid(root)
    BY <1>6 DEF OriginalRecord
  <2>. QED BY <1>4, <1>6, <2>2, <2>3 DEF root, path
<1>7. CASE path # << >>
  <2>1. steps # << >>
    BY <1>2, <1>4, <1>7
  <2>2. AsCid(root) = root
    BY <1>5, <2>1 DEF AsCid
  <2>3. OriginalRecord(root, path) = Resolved(root, path)
    BY <1>4, <1>7, ResolveLast DEF OriginalRecord
  <2>. QED BY <1>4, <1>5, <1>7, <2>2, <2>3 DEF root, path
<1>. QED BY <1>6, <1>7

-----------------------------------------------------------------------------
(* The state machine.                                                      *)

USE DEF creation, blockchain, programs

-----------------------------------------------------------------------------
(* The blocks.  A hash stands for one block, whatever became of it.        *)

BlockInv ==
  /\ IsFiniteSet(mined)
  /\ \A b \in mined : b.hash \in 1..Cardinality(mined)
  /\ \A b, d \in mined : b.hash = d.hash => b = d
  /\ chain \in Seq(mined)

LEMMA MineStep ==
  ASSUME BlockInv, NEW txs, NEW gap, MineBlock(txs, gap)
  PROVE  BlockInv' /\ mined \subseteq mined'
<1>1. PICK block : /\ block.hash = Cardinality(mined) + 1
                   /\ chain' = Append(chain, block) /\ mined' = mined \cup {block}
  <2>. DEFINE block == [hash |-> Cardinality(mined) + 1, number |-> Len(chain) + 1,
                        time |-> (IF chain = << >> THEN 0 ELSE Last(chain).time) + gap,
                        txs |-> txs]
  <2>1. /\ block.hash = Cardinality(mined) + 1
        /\ chain' = Append(chain, block) /\ mined' = mined \cup {block}
    BY DEF MineBlock
  <2>. HIDE DEF block
  <2>. QED BY <2>1
<1>2. Cardinality(mined) \in Nat
  BY FS_CardinalityType DEF BlockInv
<1>3. block \notin mined
  BY <1>1, <1>2 DEF BlockInv
<1>4. IsFiniteSet(mined') /\ Cardinality(mined') = Cardinality(mined) + 1
  BY <1>1, <1>3, FS_AddElement DEF BlockInv
<1>5. \A b \in mined' : b.hash \in 1..Cardinality(mined')
  BY <1>1, <1>2, <1>4 DEF BlockInv
<1>6. \A b, d \in mined' : b.hash = d.hash => b = d
  BY <1>1, <1>2 DEF BlockInv
<1>7. chain' \in Seq(mined')
  BY <1>1 DEF BlockInv
<1>. QED BY <1>1, <1>4, <1>5, <1>6, <1>7 DEF BlockInv

LEMMA ReorganiseStep ==
  ASSUME BlockInv, NEW n \in 1..Len(chain), Reorganise(n)
  PROVE  BlockInv' /\ mined' = mined
<1>1. chain' \in Seq(mined)
  BY DEF BlockInv, Reorganise
<1>. QED BY <1>1 DEF BlockInv, Reorganise

\* Only blocks are mined and replaced; none is ever forgotten.
LEMMA BlockStep ==
  ASSUME BlockInv, [Next]_vars
  PROVE  BlockInv' /\ mined \subseteq mined'
<1>1. CASE UNCHANGED <<chain, mined>>
  BY <1>1 DEF BlockInv
<1>2. CASE \E txs \in SUBSET mempool, gap \in 1..2 : MineBlock(txs, gap)
  BY <1>2, MineStep
<1>3. CASE \E n \in 1..Len(chain) : Reorganise(n)
  BY <1>3, ReorganiseStep
<1>. QED
  BY <1>1, <1>2, <1>3
  DEF Next, vars, StartApi, StartNode, StartCreation, Create, MergePair, SendTransaction,
      WaitForTransaction, GetBlock, PutLeaves, CreationFails, Verify, GetTransaction,
      CompareWithBlock, VerificationFails

-----------------------------------------------------------------------------
(* The creations.  The receipt is of a block that has held the root, and   *)
(* its tree does not grow any more.                                        *)

CreationInv ==
  /\ DOMAIN pc = Creations /\ DOMAIN levels = Creations
  /\ DOMAIN receipt = Creations /\ DOMAIN proof = Creations
  /\ \A c \in Creations : pc[c] = "block" =>
       receipt[c] \in mined /\ Holds(receipt[c], c, MerkleRoot(c))
  /\ ProofNamesOneBlock

\* Steps that leave the trees of the others, the receipts and the proofs alone.
LEMMA CreationKept ==
  ASSUME CreationInv, mined \subseteq mined', UNCHANGED <<receipt, proof>>,
         DOMAIN pc' = Creations, DOMAIN levels' = Creations,
         \A c \in Creations : pc'[c] = "block" => pc[c] = "block" /\ levels'[c] = levels[c]
  PROVE  CreationInv'
BY DEF CreationInv, ProofNamesOneBlock, NamesABlock, MerkleRoot

LEMMA CreationStep ==
  ASSUME BlockInv, CreationInv, [Next]_vars
  PROVE  CreationInv'
<1>1. mined \subseteq mined'
  BY BlockStep
<1>2. CASE UNCHANGED creation
  BY <1>1, <1>2, CreationKept DEF CreationInv
<1>3. ASSUME NEW c \in Creations, NEW batch, StartCreation(c, batch)
      PROVE  CreationInv'
  BY <1>1, <1>3, CreationKept DEF StartCreation, Goto, CreationInv
<1>4. ASSUME NEW c \in Creations, MergePair(c)
      PROVE  CreationInv'
  <2>1. /\ DOMAIN pc' = Creations /\ DOMAIN levels' = Creations
        /\ \A d \in Creations : pc'[d] = "block" => pc[d] = "block" /\ levels'[d] = levels[d]
    BY <1>4 DEF MergePair, Goto, CreationInv
  <2>. QED BY <1>1, <1>4, <2>1, CreationKept DEF MergePair
<1>5. ASSUME NEW c \in Creations, SendTransaction(c) \/ PutLeaves(c) \/ CreationFails(c)
      PROVE  CreationInv'
  BY <1>1, <1>5, CreationKept DEF SendTransaction, PutLeaves, CreationFails, Goto, CreationInv
<1>6. ASSUME NEW c \in Creations, WaitForTransaction(c)
      PROVE  CreationInv'
  <2>1. PICK b \in Range(chain) : Holds(b, c, MerkleRoot(c))
                                  /\ receipt' = [receipt EXCEPT ![c] = b]
    BY <1>6 DEF WaitForTransaction
  <2>2. b \in mined
    BY DEF BlockInv, Range
  <2>. QED BY <1>1, <1>6, <2>1, <2>2
       DEF WaitForTransaction, Goto, CreationInv, ProofNamesOneBlock, NamesABlock, MerkleRoot
<1>7. ASSUME NEW c \in Creations, GetBlock(c)
      PROVE  CreationInv'
  <2>1. PICK b \in BlockOfReceipt(c) :
          proof' = [proof EXCEPT ![c] =
            [blockNumber |-> receipt[c].number, blockTimestamp |-> b.time,
             root |-> MerkleRoot(c), chainId |-> FromString(apiUrl).chain, txHash |-> c]]
    BY <1>7 DEF GetBlock
  <2>2. b = receipt[c] /\ b \in mined /\ Holds(b, c, MerkleRoot(c))
    BY <1>7 DEF GetBlock, BlockOfReceipt, BlockInv, CreationInv
  <2>3. NamesABlock(proof'[c])
    BY <2>1, <2>2 DEF NamesABlock, CreationInv
  <2>4. \A d \in Creations \ {c} : proof'[d] = proof[d]
    BY <2>1 DEF CreationInv
  <2>5. ProofNamesOneBlock'
    BY <1>1, <2>3, <2>4 DEF CreationInv, ProofNamesOneBlock, NamesABlock
  <2>. QED BY <1>1, <1>7, <2>1, <2>5 DEF GetBlock, Goto, CreationInv, MerkleRoot
<1>. QED
  BY <1>2, <1>3, <1>4, <1>5, <1>6, <1>7
  DEF Next, vars, Create, StartApi, StartNode, MineBlock, Reorganise, Verify, GetTransaction,
      CompareWithBlock, VerificationFails

\* The number and the time of a proof are those of one block that held its root,
\* though createAnchor reads them in two calls and the chain may be reorganised
\* between them.
THEOREM ProofsNameOneBlock == Spec => []ProofNamesOneBlock
<1>1. Init => BlockInv /\ CreationInv
  <2>. SUFFICES ASSUME Init PROVE BlockInv /\ CreationInv
    OBVIOUS
  <2>1. BlockInv
    BY FS_EmptySet DEF Init, BlockInv
  <2>2. CreationInv
    BY DEF Init, CreationInv, ProofNamesOneBlock
  <2>. QED BY <2>1, <2>2
<1>2. CreationInv => ProofNamesOneBlock
  BY DEF CreationInv
<1>. QED BY <1>1, <1>2, BlockStep, CreationStep, PTL DEF Spec

-----------------------------------------------------------------------------
(* The programs and the trees.                                             *)

CidsOf(batch) == [i \in 1..Len(batch) |-> batch[i].cid]

\* The connection strings that the programs run with
UrlInv ==
  /\ apiUrl \in Urls \cup {NoUrl} /\ nodeUrl \in Urls \cup {NoUrl}
  /\ apiUrl # NoUrl => FromString(apiUrl).chain = "eip155"
  /\ nodeUrl # NoUrl => FromString(nodeUrl).chain = "eip155"

Started(c) ==
  /\ apiUrl # NoUrl
  /\ \E batch \in Batches[c] : requests[c] = SortByDocId(batch)
  /\ IsTree(levels[c]) /\ levels[c][1] = LeafLevel(CidsOf(requests[c]))
  /\ \A k \in 1..(Len(levels[c]) - 1) : ~IsRootLevel(levels[c][k])

\* The level under construction
Growing(level, above) ==
  /\ ~IsRootLevel(level)
  /\ Len(above) \in Nat /\ Len(above) < PairsOf(level)
  /\ above = [j \in 1..Len(above) |-> MergeAt(level, j)]

HasRoot(c) == IsRootLevel(levels[c][Len(levels[c])])

Stands(c) ==
  /\ pc[c] \in Position
  /\ pc[c] = "idle" => nextLevel[c] = << >> /\ proof[c] = None
  /\ pc[c] # "idle" => Started(c)
  /\ pc[c] = "merge" => Growing(levels[c][Len(levels[c])], nextLevel[c])
  /\ pc[c] \in {"send", "wait", "block", "leaves", "done"} => HasRoot(c)
  /\ pc[c] \in {"leaves", "done"} => proof[c] # None
  /\ proof[c] # None => /\ pc[c] \in {"leaves", "done", "failed"} /\ HasRoot(c)
                        /\ proof[c].root = MerkleRoot(c) /\ proof[c].txHash = c
                        /\ proof[c].chainId = "eip155"

TreeInv ==
  /\ pc = [c \in Creations |-> pc[c]]
  /\ DOMAIN requests = Creations /\ DOMAIN levels = Creations
  /\ DOMAIN nextLevel = Creations /\ DOMAIN proof = Creations
  /\ \A c \in Creations : Stands(c)

LEMMA UrlStep ==
  ASSUME UrlInv, [Next]_vars
  PROVE  /\ UrlInv' /\ (apiUrl # NoUrl => apiUrl' = apiUrl)
         /\ (nodeUrl # NoUrl => nodeUrl' = nodeUrl)
<1>1. CASE UNCHANGED programs
  BY <1>1 DEF UrlInv
<1>2. ASSUME NEW url \in Urls, StartApi(url) \/ StartNode(url)
      PROVE  /\ UrlInv' /\ (apiUrl # NoUrl => apiUrl' = apiUrl)
             /\ (nodeUrl # NoUrl => nodeUrl' = nodeUrl)
  <2>1. FromString(Configured(url)) # Refused => Configured(url) = url
    <3>1. FromString(Null) = Refused
      <4>1. Null.scheme = << >> /\ Len(<< >>) = 0
        BY DEF Null
      <4>2. SchemeCase(Null.scheme) # "FULL_SCHEME"
        BY <4>1 DEF SchemeCase
      <4>3. SchemeFrom(Null) = Refused
        BY <4>2 DEF SchemeFrom
      <4>. QED BY <4>3 DEF FromString
    <3>. QED BY <3>1 DEF Configured
  <2>. QED BY <1>2, <2>1 DEF StartApi, StartNode, WriterStarts, ReaderStarts, UrlInv
<1>. QED
  BY <1>1, <1>2
  DEF Next, vars, StartCreation, Create, MergePair, SendTransaction,
      WaitForTransaction, GetBlock, PutLeaves, CreationFails, Verify, GetTransaction,
      CompareWithBlock, VerificationFails, MineBlock, Reorganise

LEMMA SortedLength ==
  ASSUME NEW c \in Creations, NEW batch \in Batches[c]
  PROVE  /\ Len(SortByDocId(batch)) = Len(batch) /\ Len(batch) \in Nat \ {0}
         /\ DOMAIN SortByDocId(batch) = 1..Len(batch)
<1>1. Len(batch) \in Nat \ {0}
  BY BatchConstants
<1>. DEFINE at(k) == batch[CHOOSE i \in DOMAIN batch : PlaceOf(batch, i) = k]
<1>2. SortByDocId(batch) = [k \in 1..Len(batch) |-> at(k)]
  BY DEF SortByDocId
<1>. HIDE DEF at
<1>. QED BY <1>1, <1>2

LEMMA PairsAreNat == ASSUME NEW level, IsLevel(level) PROVE PairsOf(level) \in Nat
<1>. DEFINE n == Len(level)
<1>1. n \in Nat /\ PairsOf(level) = n \div 2
  BY DEF IsLevel, PairsOf
<1>. HIDE DEF n
<1>. QED BY <1>1

\* A level that grow has closed
LEMMA LevelCloses ==
  ASSUME NEW level, IsLevel(level), ~IsRootLevel(level),
         NEW above, above = [j \in 1..PairsOf(level) |-> MergeAt(level, j)]
  PROVE  IsLevel(above \o Carried(level)) /\ GrownFrom(above \o Carried(level), level)
<1>. DEFINE n == Len(level)
            h == n \div 2
            whole == above \o Carried(level)
<1>0. n \in Nat /\ n >= 2 /\ PairsOf(level) = h
  BY DEF IsLevel, IsRootLevel, PairsOf
<1>1. n \in Nat /\ n >= 2 /\ h \in Nat \ {0} /\ PairsOf(level) = h /\ (n = 2 * h \/ n = 2 * h + 1)
  <2>. HIDE DEF n
  <2>. QED BY <1>0
<1>. HIDE DEF n, h
<1>2. Len(above) = h /\ DOMAIN above = 1..h /\ \A j \in 1..h : above[j] = MergeAt(level, j)
  BY <1>1
<1>3. CASE n = 2 * h
  <2>1. Carried(level) = << >>
    BY <1>1, <1>3 DEF Carried, n
  <2>2. Len(whole) = h /\ DOMAIN whole = 1..h /\ \A j \in 1..h : whole[j] = MergeAt(level, j)
    BY <1>1, <1>2, <2>1
  <2>. HIDE DEF whole
  <2>3. (n + 1) \div 2 = h /\ \A j \in 1..h : 2 * j <= n
    BY <1>1, <1>3
  <2>4. IsLevel(whole)
    BY <1>1, <2>2 DEF IsLevel
  <2>5. GrownFrom(whole, level)
    BY <1>1, <2>2, <2>3 DEF GrownFrom, n
  <2>. QED BY <2>4, <2>5 DEF whole
<1>4. CASE n = 2 * h + 1
  <2>1. Carried(level) = <<level[n]>>
    BY <1>1, <1>4 DEF Carried, n
  <2>2. /\ Len(whole) = h + 1 /\ DOMAIN whole = 1..(h + 1) /\ whole[h + 1] = level[n]
        /\ \A j \in 1..h : whole[j] = MergeAt(level, j)
    BY <1>1, <1>2, <2>1
  <2>. HIDE DEF whole
  <2>3. (n + 1) \div 2 = h + 1 /\ (\A j \in 1..h : 2 * j <= n) /\ ~(2 * (h + 1) <= n)
    BY <1>1, <1>4
  <2>4. ASSUME NEW j \in 1..(h + 1)
        PROVE  whole[j] = IF 2 * j <= n THEN MergeAt(level, j) ELSE level[n]
    <3>1. j \in 1..h \/ j = h + 1
      BY <1>1
    <3>. QED BY <2>2, <2>3, <3>1
  <2>. HIDE DEF whole
  <2>5. IsLevel(whole)
    BY <1>1, <2>2 DEF IsLevel
  <2>6. GrownFrom(whole, level)
    BY <1>1, <2>2, <2>3, <2>4 DEF GrownFrom, n
  <2>. QED BY <2>5, <2>6 DEF whole
<1>. QED BY <1>1, <1>3, <1>4

LEMMA TreeGrows ==
  ASSUME NEW tree, IsTree(tree), NEW whole, IsLevel(whole), GrownFrom(whole, tree[Len(tree)])
  PROVE  /\ IsTree(Append(tree, whole)) /\ Append(tree, whole)[1] = tree[1]
         /\ Len(Append(tree, whole)) = Len(tree) + 1 /\ Append(tree, whole)[Len(tree) + 1] = whole
         /\ \A k \in 1..Len(tree) : Append(tree, whole)[k] = tree[k]
<1>. DEFINE n == Len(tree)
            more == Append(tree, whole)
<1>1. n \in Nat \ {0} /\ DOMAIN tree = 1..n
  BY DEF IsTree
<1>2. /\ Len(more) = n + 1 /\ DOMAIN more = 1..(n + 1)
      /\ more[n + 1] = whole /\ \A k \in 1..n : more[k] = tree[k]
  BY <1>1
<1>. HIDE DEF more, n
<1>3. ASSUME NEW k \in 1..(n + 1) PROVE IsLevel(more[k])
  <2>1. k \in 1..n \/ k = n + 1
    BY <1>1
  <2>. QED BY <1>2, <2>1 DEF IsTree, n
<1>4. ASSUME NEW k \in 2..(n + 1) PROVE GrownFrom(more[k], more[k - 1])
  <2>1. CASE k = n + 1
    <3>1. k - 1 = n /\ n \in 1..n
      BY <1>1, <2>1
    <3>. QED BY <1>2, <2>1, <3>1 DEF n
  <2>2. CASE k # n + 1
    <3>1. k \in 1..n /\ k - 1 \in 1..n /\ k \in 2..n
      BY <1>1, <2>2
    <3>. QED BY <1>2, <3>1 DEF IsTree, n
  <2>. QED BY <2>1, <2>2
<1>5. more[1] = tree[1]
  BY <1>1, <1>2
<1>. QED BY <1>1, <1>2, <1>3, <1>4, <1>5 DEF IsTree, more, n

\* A creation that a step leaves alone
LEMMA StandsKept ==
  ASSUME UrlInv, [Next]_vars, NEW c \in Creations, Stands(c),
         pc'[c] = pc[c], requests'[c] = requests[c], levels'[c] = levels[c],
         nextLevel'[c] = nextLevel[c], proof'[c] = proof[c]
  PROVE  Stands(c)'
<1>1. apiUrl # NoUrl => apiUrl' # NoUrl
  BY UrlStep
<1>. QED BY <1>1 DEF Stands, Started, HasRoot, MerkleRoot

\* A step of one creation leaves the others alone.
OnlyChanges(c) ==
  /\ pc' = [d \in Creations |-> pc'[d]]
  /\ DOMAIN requests' = Creations /\ DOMAIN levels' = Creations
  /\ DOMAIN nextLevel' = Creations /\ DOMAIN proof' = Creations
  /\ \A d \in Creations \ {c} :
       /\ pc'[d] = pc[d] /\ requests'[d] = requests[d] /\ levels'[d] = levels[d]
       /\ nextLevel'[d] = nextLevel[d] /\ proof'[d] = proof[d]

LEMMA TreeStepOf ==
  ASSUME UrlInv, TreeInv, [Next]_vars, NEW c \in Creations, OnlyChanges(c), Stands(c)'
  PROVE  TreeInv'
<1>1. ASSUME NEW d \in Creations, d # c PROVE Stands(d)'
  <2>1. Stands(d) /\ pc'[d] = pc[d] /\ requests'[d] = requests[d] /\ levels'[d] = levels[d]
        /\ nextLevel'[d] = nextLevel[d] /\ proof'[d] = proof[d]
    BY <1>1 DEF TreeInv, OnlyChanges
  <2>. QED BY <2>1, StandsKept
<1>. QED BY <1>1 DEF TreeInv, OnlyChanges

LEMMA StartStands ==
  ASSUME TreeInv, NEW c \in Creations, NEW batch \in Batches[c], StartCreation(c, batch)
  PROVE  OnlyChanges(c) /\ Stands(c)'
<1>. DEFINE sorted == SortByDocId(batch)
            level == LeafLevel(CidsOf(sorted))
<1>1. /\ apiUrl # NoUrl /\ apiUrl' = apiUrl /\ pc[c] = "idle"
      /\ requests' = [requests EXCEPT ![c] = sorted] /\ levels' = [levels EXCEPT ![c] = <<level>>]
      /\ pc' = [pc EXCEPT ![c] = IF IsRootLevel(level) THEN "send" ELSE "merge"]
      /\ nextLevel' = nextLevel /\ proof' = proof
  BY DEF StartCreation, Goto, CidsOf
<1>2. Len(sorted) \in Nat \ {0}
  BY SortedLength
<1>3. IsLevel(level) /\ Len(level) = Len(sorted)
  <2>. HIDE DEF sorted
  <2>. QED BY <1>2 DEF LeafLevel, CidsOf, IsLevel
<1>. HIDE DEF level, sorted
<1>4. OnlyChanges(c)
  BY <1>1 DEF OnlyChanges, TreeInv
<1>5. /\ requests'[c] = sorted /\ levels'[c] = <<level>>
      /\ pc'[c] = IF IsRootLevel(level) THEN "send" ELSE "merge"
      /\ nextLevel'[c] = << >> /\ proof'[c] = None
  BY <1>1 DEF TreeInv, Stands
<1>6. IsTree(<<level>>) /\ Len(<<level>>) = 1 /\ <<level>>[1] = level
  BY <1>3 DEF IsTree
<1>7. Started(c)'
  <2>1. apiUrl' # NoUrl
    BY <1>1
  <2>2. requests'[c] = SortByDocId(batch)
    BY <1>5 DEF sorted
  <2>3. \A k \in 1..(Len(levels'[c]) - 1) : ~IsRootLevel(levels'[c][k])
    BY <1>5, <1>6
  <2>4. IsTree(levels'[c]) /\ levels'[c][1] = LeafLevel(CidsOf(requests'[c]))
    BY <1>5, <1>6, Zenon DEF level
  <2>. QED BY <2>1, <2>2, <2>3, <2>4 DEF Started
<1>8. CASE IsRootLevel(level)
  <2>1. HasRoot(c)'
    BY <1>5, <1>6, <1>8 DEF HasRoot
  <2>. QED BY <1>4, <1>5, <1>7, <1>8, <2>1 DEF Stands, Position
<1>9. CASE ~IsRootLevel(level)
  <2>1. Growing(level, << >>)
    <3>1. 0 < PairsOf(level)
      BY <1>3, <1>9 DEF PairsOf, IsLevel, IsRootLevel
    <3>. QED BY <1>9, <3>1 DEF Growing
  <2>2. Growing(levels'[c][Len(levels'[c])], nextLevel'[c])
    BY <1>5, <1>6, <2>1
  <2>. QED BY <1>4, <1>5, <1>7, <1>9, <2>2 DEF Stands, Position
<1>. QED BY <1>8, <1>9

LEMMA MergeStands ==
  ASSUME TreeInv, NEW c \in Creations, MergePair(c)
  PROVE  OnlyChanges(c) /\ Stands(c)'
<1>. DEFINE tree == levels[c]
            level == Last(tree)
            grown == Append(nextLevel[c], MergeAt(level, Len(nextLevel[c]) + 1))
            whole == grown \o Carried(level)
<1>1. /\ pc[c] = "merge" /\ apiUrl' = apiUrl /\ requests' = requests /\ proof' = proof
      /\ \/ /\ Len(grown) < PairsOf(level)
            /\ nextLevel' = [nextLevel EXCEPT ![c] = grown]
            /\ levels' = levels /\ pc' = pc
         \/ /\ ~(Len(grown) < PairsOf(level))
            /\ nextLevel' = [nextLevel EXCEPT ![c] = << >>]
            /\ levels' = [levels EXCEPT ![c] = Append(tree, whole)]
            /\ pc' = [pc EXCEPT ![c] = IF IsRootLevel(whole) THEN "send" ELSE "merge"]
  BY DEF MergePair, Goto, TreeInv
<1>2. Stands(c) /\ Started(c) /\ proof[c] = None /\ Growing(tree[Len(tree)], nextLevel[c])
  BY <1>1 DEF TreeInv, Stands
<1>3. OnlyChanges(c)
  BY <1>1 DEF OnlyChanges, TreeInv
<1>4. level = tree[Len(tree)] /\ IsTree(tree) /\ IsLevel(level) /\ ~IsRootLevel(level)
  BY <1>2 DEF Started, IsTree, Growing, Last
<1>5. /\ Len(grown) = Len(nextLevel[c]) + 1 /\ Len(grown) \in Nat /\ Len(grown) <= PairsOf(level)
      /\ grown = [j \in 1..Len(grown) |-> MergeAt(level, j)]
  <2>. DEFINE m == Len(nextLevel[c])
  <2>1. m \in Nat /\ m < PairsOf(level) /\ nextLevel[c] = [j \in 1..m |-> MergeAt(level, j)]
    BY <1>2, <1>4 DEF Growing
  <2>2. PairsOf(level) \in Nat
    BY <1>4, PairsAreNat
  <2>. HIDE DEF m, level
  <2>3. grown = Append(nextLevel[c], MergeAt(level, m + 1))
    BY DEF m
  <2>. HIDE DEF grown
  <2>4. Len(grown) = m + 1 /\ grown = [j \in 1..(m + 1) |-> MergeAt(level, j)]
    BY <2>1, <2>3
  <2>. QED BY <2>1, <2>2, <2>4 DEF m
<1>6. requests'[c] = requests[c] /\ proof'[c] = None
  BY <1>1, <1>2
<1>. HIDE DEF grown, level, whole
<1>7. CASE Len(grown) < PairsOf(level)
  <2>1. nextLevel'[c] = grown /\ levels'[c] = tree /\ pc'[c] = "merge"
    BY <1>1, <1>7 DEF TreeInv
  <2>2. Growing(tree[Len(tree)], grown)
    BY <1>4, <1>5, <1>7 DEF Growing
  <2>3. Started(c)'
    BY <1>1, <1>2, <1>6, <2>1 DEF Started
  <2>. QED BY <1>3, <1>6, <2>1, <2>2, <2>3 DEF Stands, Position
<1>8. CASE ~(Len(grown) < PairsOf(level))
  <2>1. /\ nextLevel'[c] = << >> /\ levels'[c] = Append(tree, whole)
        /\ pc'[c] = IF IsRootLevel(whole) THEN "send" ELSE "merge"
    BY <1>1, <1>8 DEF TreeInv
  <2>2. grown = [j \in 1..PairsOf(level) |-> MergeAt(level, j)]
    <3>1. PairsOf(level) \in Nat
      BY <1>4, PairsAreNat
    <3>2. Len(grown) = PairsOf(level)
      BY <1>5, <1>8, <3>1
    <3>. QED BY <1>5, <3>2, Zenon
  <2>3. IsLevel(whole) /\ GrownFrom(whole, level)
    BY <1>4, <2>2, LevelCloses, Zenon DEF whole
  <2>. DEFINE more == Append(tree, whole)
  <2>4. /\ IsTree(more) /\ more[1] = tree[1] /\ Len(more) = Len(tree) + 1
        /\ more[Len(tree) + 1] = whole /\ \A k \in 1..Len(tree) : more[k] = tree[k]
    BY <1>4, <2>3, TreeGrows
  <2>. HIDE DEF more
  <2>5. levels'[c] = more
    BY <2>1 DEF more
  <2>6. \A k \in 1..(Len(more) - 1) : ~IsRootLevel(more[k])
    <3>1. Len(tree) \in Nat \ {0} /\ \A k \in 1..(Len(tree) - 1) : ~IsRootLevel(tree[k])
      BY <1>2 DEF Started, IsTree
    <3>2. ~IsRootLevel(tree[Len(tree)])
      BY <1>4
    <3>3. \A k \in 1..Len(tree) : k \in 1..(Len(tree) - 1) \/ k = Len(tree)
      BY <3>1
    <3>4. Len(more) - 1 = Len(tree)
      BY <2>4, <3>1
    <3>. QED BY <2>4, <3>1, <3>2, <3>3, <3>4
  <2>7. Started(c)'
    BY <1>1, <1>2, <1>6, <2>4, <2>5, <2>6 DEF Started
  <2>8. levels'[c][Len(levels'[c])] = whole
    BY <2>4, <2>5
  <2>9. CASE IsRootLevel(whole)
    <3>1. HasRoot(c)'
      BY <2>8, <2>9 DEF HasRoot
    <3>. QED BY <1>3, <1>6, <2>1, <2>7, <2>9, <3>1 DEF Stands, Position
  <2>10. CASE ~IsRootLevel(whole)
    <3>1. Growing(whole, << >>)
      <4>1. 0 < PairsOf(whole)
        BY <2>3, <2>10 DEF PairsOf, IsLevel, IsRootLevel
      <4>. QED BY <2>10, <4>1 DEF Growing
    <3>2. Growing(levels'[c][Len(levels'[c])], nextLevel'[c])
      BY <2>1, <2>8, <3>1
    <3>. QED BY <1>3, <1>6, <2>1, <2>7, <2>10, <3>2 DEF Stands, Position
  <2>. QED BY <2>9, <2>10
<1>. QED BY <1>7, <1>8

\* The steps that leave the tree alone
LEMMA LaterStands ==
  ASSUME TreeInv, UrlInv, NEW c \in Creations,
         SendTransaction(c) \/ WaitForTransaction(c) \/ GetBlock(c) \/ PutLeaves(c) \/ CreationFails(c)
  PROVE  OnlyChanges(c) /\ Stands(c)'
<1>1. /\ apiUrl' = apiUrl /\ requests' = requests /\ levels' = levels /\ nextLevel' = nextLevel
      /\ pc[c] # "idle" /\ DOMAIN proof' = Creations
      /\ \A d \in Creations \ {c} : proof'[d] = proof[d]
      /\ \E p \in Position : pc' = [pc EXCEPT ![c] = p]
  BY DEF SendTransaction, WaitForTransaction, GetBlock, PutLeaves, CreationFails, Goto, TreeInv,
         Position
<1>2. OnlyChanges(c)
  BY <1>1 DEF OnlyChanges, TreeInv
<1>3. Stands(c)
  BY DEF TreeInv
<1>4. Started(c)' /\ (HasRoot(c) => HasRoot(c)')
  BY <1>1, <1>3 DEF Stands, Started, HasRoot
<1>5. CASE SendTransaction(c) \/ WaitForTransaction(c) \/ CreationFails(c)
  <2>1. pc[c] # "idle" /\ proof' = proof /\ (pc'[c] = "failed" \/ pc[c] \in {"send", "wait"})
        /\ pc'[c] \in {"wait", "block", "failed"}
    BY <1>5 DEF SendTransaction, WaitForTransaction, CreationFails, Goto, TreeInv
  <2>. QED BY <1>1, <1>2, <1>3, <1>4, <2>1 DEF Stands, Position, HasRoot, MerkleRoot
<1>6. CASE GetBlock(c)
  <2>1. PICK b \in BlockOfReceipt(c) :
          proof' = [proof EXCEPT ![c] =
            [blockNumber |-> receipt[c].number, blockTimestamp |-> b.time,
             root |-> MerkleRoot(c), chainId |-> FromString(apiUrl).chain, txHash |-> c]]
    BY <1>6 DEF GetBlock
  <2>2. FromString(apiUrl).chain = "eip155"
    BY <1>1, <1>3 DEF UrlInv, Stands, Started
  <2>3. pc[c] = "block" /\ pc'[c] = "leaves" /\ HasRoot(c)
    BY <1>3, <1>6 DEF GetBlock, Goto, TreeInv, Stands
  <2>. DEFINE p == [blockNumber |-> receipt[c].number, blockTimestamp |-> b.time,
                    root |-> MerkleRoot(c), chainId |-> FromString(apiUrl).chain, txHash |-> c]
  <2>4. p # None /\ p.root = MerkleRoot(c) /\ p.txHash = c /\ p.chainId = "eip155"
    <3>1. p.root = MerkleRoot(c) /\ p.txHash = c /\ p.chainId = "eip155"
      BY <2>2
    <3>2. DOMAIN p # DOMAIN None
      BY DEF None
    <3>. QED BY <3>1, <3>2
  <2>5. proof'[c] = p
    BY <2>1 DEF TreeInv
  <2>. HIDE DEF p
  <2>6. MerkleRoot(c)' = MerkleRoot(c)
    BY <1>1 DEF MerkleRoot
  <2>. QED BY <1>2, <1>4, <2>3, <2>4, <2>5, <2>6 DEF Stands, Position
<1>7. CASE PutLeaves(c)
  <2>1. pc[c] = "leaves" /\ pc'[c] = "done" /\ proof' = proof
    BY <1>7 DEF PutLeaves, Goto, TreeInv
  <2>. QED BY <1>1, <1>2, <1>3, <1>4, <2>1 DEF Stands, Position, HasRoot, MerkleRoot
<1>. QED BY <1>5, <1>6, <1>7

LEMMA TreeStep ==
  ASSUME UrlInv, TreeInv, [Next]_vars
  PROVE  TreeInv'
<1>1. CASE UNCHANGED <<pc, requests, levels, nextLevel, proof>>
  <2>1. ASSUME NEW c \in Creations PROVE Stands(c)'
    BY <1>1, <2>1, StandsKept DEF TreeInv
  <2>. QED BY <1>1, <2>1 DEF TreeInv
<1>2. ASSUME NEW c \in Creations, NEW batch \in Batches[c], StartCreation(c, batch) PROVE TreeInv'
  BY <1>2, StartStands, TreeStepOf
<1>3. ASSUME NEW c \in Creations, MergePair(c) PROVE TreeInv'
  BY <1>3, MergeStands, TreeStepOf
<1>4. ASSUME NEW c \in Creations,
             SendTransaction(c) \/ WaitForTransaction(c) \/ GetBlock(c) \/ PutLeaves(c) \/ CreationFails(c)
      PROVE  TreeInv'
  BY <1>4, LaterStands, TreeStepOf
<1>. QED
  BY <1>1, <1>2, <1>3, <1>4
  DEF Next, vars, Create, StartApi, StartNode, MineBlock, Reorganise, Verify, GetTransaction,
      CompareWithBlock, VerificationFails

LEMMA TreeInit == Init => UrlInv /\ TreeInv
<1>. SUFFICES ASSUME Init PROVE UrlInv /\ TreeInv
  OBVIOUS
<1>1. UrlInv
  BY DEF Init, UrlInv
<1>2. ASSUME NEW c \in Creations PROVE Stands(c)
  BY DEF Init, Stands, Position
<1>3. TreeInv
  BY <1>2 DEF Init, TreeInv
<1>. QED BY <1>1, <1>3

-----------------------------------------------------------------------------
(* The leaves.                                                             *)

LeafInv ==
  \A l \in leaves :
    /\ \E c \in Creations : proof[c] # None /\ l.proof = proof[c]
    /\ DOMAIN l = {"prev", "proof", "path"} /\ l.prev.kind = "cid"
    /\ l.path \in Seq({"L", "R"})
    /\ OriginalRecord(l.proof.root, l.path)
                 = IF l.path = << >> THEN l.prev ELSE Text(l.prev.cid)

\* A proof stays, and with it its tree.
LEMMA ProofStays ==
  ASSUME TreeInv, [Next]_vars, NEW c \in Creations, proof[c] # None
  PROVE  proof'[c] = proof[c]
<1>1. pc[c] \in {"leaves", "done", "failed"}
  BY DEF TreeInv, Stands
<1>2. ASSUME NEW d \in Creations, GetBlock(d) PROVE proof'[c] = proof[c]
  BY <1>1, <1>2 DEF GetBlock, TreeInv
<1>. QED
  BY <1>2
  DEF Next, vars, Create, StartApi, StartNode, MineBlock, Reorganise, Verify, GetTransaction,
      CompareWithBlock, VerificationFails, StartCreation, MergePair, SendTransaction,
      WaitForTransaction, PutLeaves, CreationFails

LEMMA LeafStep ==
  ASSUME TreeInv, LeafInv, [Next]_vars
  PROVE  LeafInv'
<1>1. ASSUME NEW l \in leaves
      PROVE  \E c \in Creations : proof'[c] # None /\ l.proof = proof'[c]
  BY ProofStays DEF LeafInv
<1>2. CASE leaves' = leaves
  BY <1>1, <1>2 DEF LeafInv
<1>3. ASSUME NEW c \in Creations, PutLeaves(c) PROVE LeafInv'
  <2>1. leaves' = leaves \cup {LeafOf(c, r) : r \in Range(requests[c])} /\ pc[c] = "leaves"
    BY <1>3 DEF PutLeaves
  <2>2. Started(c) /\ HasRoot(c) /\ proof[c] # None /\ proof[c].root = MerkleRoot(c)
    BY <2>1 DEF TreeInv, Stands
  <2>3. ASSUME NEW r \in Range(requests[c]), NEW l, l = LeafOf(c, r)
        PROVE  /\ \E d \in Creations : proof'[d] # None /\ l.proof = proof'[d]
               /\ DOMAIN l = {"prev", "proof", "path"} /\ l.prev.kind = "cid"
               /\ l.path \in Seq({"L", "R"})
               /\ OriginalRecord(l.proof.root, l.path)
                 = IF l.path = << >> THEN l.prev ELSE Text(l.prev.cid)
    <3>1. /\ DOMAIN l = {"prev", "proof", "path"} /\ l.prev = Cid(r.cid)
          /\ l.proof = proof[c] /\ l.path = PathOf(levels[c], r.cid)
      BY <2>3 DEF LeafOf
    <3>2. \E i \in 1..Len(levels[c][1]) : levels[c][1][i] = Text(r.cid)
      <4>1. PICK batch \in Batches[c] : requests[c] = SortByDocId(batch)
        BY <2>2 DEF Started
      <4>2. /\ Len(requests[c]) \in Nat \ {0} /\ DOMAIN requests[c] = 1..Len(requests[c])
        BY <4>1, SortedLength
      <4>3. PICK i \in DOMAIN requests[c] : r = requests[c][i]
        BY DEF Range
      <4>4. levels[c][1] = LeafLevel(CidsOf(requests[c]))
        BY <2>2 DEF Started
      <4>5. Len(LeafLevel(CidsOf(requests[c]))) = Len(requests[c])
            /\ LeafLevel(CidsOf(requests[c]))[i] = Text(requests[c][i].cid)
        BY <4>2, <4>3 DEF LeafLevel, CidsOf
      <4>. QED BY <4>2, <4>3, <4>4, <4>5
    <3>3. IsTree(levels[c]) /\ Len(levels[c][Len(levels[c])]) = 1
      BY <2>2 DEF Started, HasRoot, IsRootLevel
    <3>4. /\ PathOf(levels[c], r.cid) \in Seq({"L", "R"})
          /\ OriginalRecord(MerkleRoot(c), PathOf(levels[c], r.cid))
               = IF PathOf(levels[c], r.cid) = << >> THEN Cid(r.cid) ELSE Text(r.cid)
      BY <3>2, <3>3, PathsLeadToRecords DEF MerkleRoot
    <3>5. l.prev.kind = "cid" /\ Text(l.prev.cid) = Text(r.cid)
      BY <3>1 DEF Cid
    <3>6. proof'[c] # None /\ l.proof = proof'[c]
      BY <2>2, <3>1, ProofStays
    <3>7. OriginalRecord(l.proof.root, l.path)
                 = IF l.path = << >> THEN l.prev ELSE Text(l.prev.cid)
      BY <2>2, <3>1, <3>4, <3>5
    <3>. QED BY <3>1, <3>4, <3>5, <3>6, <3>7
  <2>4. ASSUME NEW l \in leaves', l \notin leaves
        PROVE  \E r \in Range(requests[c]) : l = LeafOf(c, r)
    BY <2>1, <2>4
  <2>. QED BY <1>1, <2>3, <2>4 DEF LeafInv
<1>. QED
  BY <1>2, <1>3
  DEF Next, vars, Create, StartApi, StartNode, MineBlock, Reorganise, Verify, GetTransaction,
      CompareWithBlock, VerificationFails, StartCreation, MergePair, SendTransaction,
      WaitForTransaction, GetBlock, CreationFails

\* Every leaf leads from the root of its proof to the record it names, in trees of every
\* size and shape (MerkleTree.path and originalRecordCid).
THEOREM LeavesLeadToRecords == Spec => []LeafLeadsToRecord
<1>1. Init => UrlInv /\ TreeInv /\ LeafInv
  <2>1. Init => LeafInv
    BY DEF Init, LeafInv
  <2>. QED BY <2>1, TreeInit
<1>2. UrlInv /\ [Next]_vars => UrlInv'
  BY UrlStep
<1>3. LeafInv => LeafLeadsToRecord
  BY DEF LeafInv, LeafLeadsToRecord
<1>. QED BY <1>1, <1>2, <1>3, TreeStep, LeafStep, PTL DEF Spec

-----------------------------------------------------------------------------
(* The blockchain and what was sent to it.                                 *)

CountInv == reorgs \in 0..MaxReorgs /\ faults \in 0..MaxFaults

LEMMA CountStep == CountInv /\ [Next]_vars => CountInv'
<1>. SUFFICES ASSUME CountInv, [Next]_vars PROVE CountInv'
  OBVIOUS
<1>1. CASE UNCHANGED <<reorgs, faults>>
  BY <1>1 DEF CountInv
<1>2. ASSUME NEW n \in 1..Len(chain), Reorganise(n) PROVE CountInv'
  BY <1>2, ProofConstants DEF Reorganise, CountInv
<1>3. ASSUME NEW c \in Creations, CreationFails(c) PROVE CountInv'
  BY <1>3, ProofConstants DEF CreationFails, CountInv
<1>4. CASE VerificationFails
  <2>1. reorgs' = reorgs /\ faults' = faults + 1 /\ faults < MaxFaults
    BY <1>4 DEF VerificationFails
  <2>. QED BY <2>1, ProofConstants DEF CountInv
<1>. QED
  BY <1>1, <1>2, <1>3, <1>4
  DEF Next, vars, Create, StartApi, StartNode, MineBlock, Verify, GetTransaction,
      CompareWithBlock, StartCreation, MergePair, SendTransaction,
      WaitForTransaction, GetBlock, PutLeaves

\* A transaction is that of a creation, with its root.
Sent(tx) ==
  /\ tx.hash \in Creations /\ HasRoot(tx.hash)
  /\ pc[tx.hash] \notin {"idle", "merge", "send"}
  /\ tx = [hash |-> tx.hash, data |-> Bytes(MerkleRoot(tx.hash))]

\* It waits, or it is in one block of the chain.
OnceOnChain ==
  /\ \A i \in 1..Len(chain) : chain[i].txs \cap mempool = {}
  /\ \A i, j \in 1..Len(chain) : chain[i].txs \cap chain[j].txs # {} => i = j

ChainInv ==
  /\ \A tx \in mempool : Sent(tx)
  /\ \A b \in mined : b.number \in Nat /\ b.time \in Nat
  /\ \A b \in mined : \A tx \in b.txs : Sent(tx)
  /\ \A i \in 1..Len(chain) : chain[i].number = i
  /\ OnceOnChain

LEMMA SentStays ==
  ASSUME TreeInv, [Next]_vars, NEW tx, Sent(tx)
  PROVE  Sent(tx)'
<1>. DEFINE c == tx.hash
<1>1. c \in Creations /\ pc[c] \in {"wait", "block", "leaves", "done", "failed"}
  BY DEF Sent, TreeInv, Stands, Position
<1>. HIDE DEF c
<1>2. levels'[c] = levels[c] /\ pc'[c] \in {"wait", "block", "leaves", "done", "failed"}
  <2>1. CASE UNCHANGED <<pc, levels>>
    BY <1>1, <2>1
  <2>2. ASSUME NEW d \in Creations, NEW batch, StartCreation(d, batch)
        PROVE  levels'[c] = levels[c] /\ pc'[c] \in {"wait", "block", "leaves", "done", "failed"}
    BY <1>1, <2>2 DEF StartCreation, Goto, TreeInv
  <2>3. ASSUME NEW d \in Creations, MergePair(d)
        PROVE  levels'[c] = levels[c] /\ pc'[c] \in {"wait", "block", "leaves", "done", "failed"}
    BY <1>1, <2>3 DEF MergePair, Goto, TreeInv
  <2>4. ASSUME NEW d \in Creations,
               SendTransaction(d) \/ WaitForTransaction(d) \/ GetBlock(d) \/ PutLeaves(d) \/ CreationFails(d)
        PROVE  levels'[c] = levels[c] /\ pc'[c] \in {"wait", "block", "leaves", "done", "failed"}
    BY <1>1, <2>4
    DEF SendTransaction, WaitForTransaction, GetBlock, PutLeaves, CreationFails, Goto, TreeInv
  <2>. QED
    BY <2>1, <2>2, <2>3, <2>4
    DEF Next, vars, Create, StartApi, StartNode, MineBlock, Reorganise, Verify, GetTransaction,
        CompareWithBlock, VerificationFails
<1>. QED BY <1>1, <1>2 DEF Sent, HasRoot, MerkleRoot, c

LEMMA ChainStep ==
  ASSUME BlockInv, TreeInv, ChainInv, [Next]_vars
  PROVE  ChainInv'
<1>0. /\ \A tx \in mempool : Sent(tx)'
      /\ \A b \in mined : \A tx \in b.txs : Sent(tx)'
  BY SentStays DEF ChainInv
<1>1. CASE UNCHANGED blockchain
  BY <1>0, <1>1 DEF ChainInv, OnceOnChain
<1>2. ASSUME NEW txs \in SUBSET mempool, NEW gap \in 1..2, MineBlock(txs, gap) PROVE ChainInv'
  <2>. DEFINE parent == IF chain = << >> THEN 0 ELSE Last(chain).time
              block == [hash |-> Cardinality(mined) + 1, number |-> Len(chain) + 1,
                        time |-> parent + gap, txs |-> txs]
  <2>1. /\ chain' = Append(chain, block) /\ mined' = mined \cup {block}
        /\ mempool' = mempool \ txs /\ reorgs' = reorgs
    BY <1>2 DEF MineBlock
  <2>2. parent \in Nat
    <3>1. CASE chain = << >>
      BY <3>1
    <3>2. CASE chain # << >>
      <4>1. Last(chain) \in mined
        BY <3>2 DEF BlockInv, Last
      <4>2. Last(chain).time \in Nat
        BY <4>1 DEF ChainInv
      <4>. QED BY <3>2, <4>2
    <3>. QED BY <3>1, <3>2
  <2>3. /\ block.number = Len(chain) + 1 /\ block.txs = txs
        /\ block.time \in Nat /\ Len(chain) \in Nat /\ DOMAIN chain = 1..Len(chain)
    BY <2>2 DEF BlockInv
  <2>. HIDE DEF block
  <2>4. /\ Len(chain') = Len(chain) + 1 /\ chain'[Len(chain) + 1] = block
        /\ DOMAIN chain' = 1..(Len(chain) + 1) /\ \A i \in 1..Len(chain) : chain'[i] = chain[i]
    BY <2>1, <2>3
  <2>5. \A i \in 1..Len(chain') : chain'[i].number = i
    <3>1. \A i \in 1..Len(chain') : i \in 1..Len(chain) \/ i = Len(chain) + 1
      BY <2>3, <2>4
    <3>. QED BY <2>3, <2>4, <3>1 DEF ChainInv
  <2>6. \A i \in 1..Len(chain') : i \in 1..Len(chain) \/ (i = Len(chain) + 1 /\ chain'[i] = block)
    BY <2>3, <2>4
  <2>7. \A i \in 1..Len(chain') : chain'[i].txs \cap mempool' = {}
    <3>1. \A i \in 1..Len(chain) : chain'[i].txs \cap mempool' = {}
      BY <2>1, <2>4 DEF ChainInv, OnceOnChain
    <3>2. block.txs \cap mempool' = {}
      BY <2>1, <2>3
    <3>. QED BY <2>6, <3>1, <3>2
  <2>8. \A i, j \in 1..Len(chain') : chain'[i].txs \cap chain'[j].txs # {} => i = j
    <3>1. \A i \in 1..Len(chain) : chain'[i].txs \cap block.txs = {}
      BY <2>3, <2>4 DEF ChainInv, OnceOnChain
    <3>2. \A i, j \in 1..Len(chain) : chain'[i].txs \cap chain'[j].txs # {} => i = j
      BY <2>4 DEF ChainInv, OnceOnChain
    <3>. QED BY <2>6, <3>1, <3>2
  <2>9. /\ \A tx \in mempool' : Sent(tx)'
        /\ \A b \in mined' : \A tx \in b.txs : Sent(tx)'
    BY <1>0, <2>1, <2>3
  <2>10. \A b \in mined' : b.number \in Nat /\ b.time \in Nat
    BY <2>1, <2>3 DEF ChainInv
  <2>. QED BY <2>5, <2>7, <2>8, <2>9, <2>10 DEF ChainInv, OnceOnChain
<1>3. ASSUME NEW n \in 1..Len(chain), Reorganise(n) PROVE ChainInv'
  <2>1. /\ mempool' = mempool \cup UNION {chain[i].txs : i \in n..Len(chain)}
        /\ chain' = SubSeq(chain, 1, n - 1) /\ mined' = mined
    BY <1>3 DEF Reorganise
  <2>2. \A i \in 1..Len(chain) : chain[i] \in mined
    BY DEF BlockInv
  <2>3. /\ Len(chain') = n - 1 /\ n \in Nat
        /\ \A i \in 1..(n - 1) : chain'[i] = chain[i] /\ i \in 1..Len(chain)
        /\ \A i \in n..Len(chain) : i \in 1..Len(chain) /\ i \notin 1..(n - 1)
    BY <2>1 DEF BlockInv
  <2>4. \A tx \in mempool' : Sent(tx)'
    BY <1>0, <2>1, <2>2, <2>3
  <2>5. \A i \in 1..Len(chain') : chain'[i].number = i
    BY <2>3 DEF ChainInv
  <2>6. \A i \in 1..Len(chain') : chain'[i].txs \cap mempool' = {}
    <3>1. \A i \in 1..(n - 1) : \A j \in n..Len(chain) : chain[i].txs \cap chain[j].txs = {}
      BY <2>3 DEF ChainInv, OnceOnChain
    <3>2. \A i \in 1..(n - 1) : chain[i].txs \cap mempool = {}
      BY <2>3 DEF ChainInv, OnceOnChain
    <3>. QED BY <2>1, <2>3, <3>1, <3>2
  <2>7. \A i, j \in 1..Len(chain') : chain'[i].txs \cap chain'[j].txs # {} => i = j
    BY <2>3 DEF ChainInv, OnceOnChain
  <2>8. /\ \A b \in mined' : b.number \in Nat /\ b.time \in Nat
        /\ \A b \in mined' : \A tx \in b.txs : Sent(tx)'
    BY <1>0, <2>1 DEF ChainInv
  <2>. QED BY <2>4, <2>5, <2>6, <2>7, <2>8 DEF ChainInv, OnceOnChain
<1>4. ASSUME NEW c \in Creations, SendTransaction(c) PROVE ChainInv'
  <2>. DEFINE sent == [hash |-> c, data |-> Bytes(MerkleRoot(c))]
  <2>1. /\ mempool' = mempool \cup {sent} /\ chain' = chain /\ mined' = mined
        /\ pc[c] = "send" /\ pc' = [pc EXCEPT ![c] = "wait"] /\ levels' = levels
    BY <1>4 DEF SendTransaction, Goto
  <2>2. sent.hash = c /\ sent.data = Bytes(MerkleRoot(c))
    OBVIOUS
  <2>3. ASSUME NEW tx, tx = sent PROVE Sent(tx)'
    <3>1. pc'[c] = "wait" /\ HasRoot(c)
      BY <2>1 DEF TreeInv, Stands
    <3>2. HasRoot(c)' /\ MerkleRoot(c)' = MerkleRoot(c)
      BY <2>1, <3>1 DEF HasRoot, MerkleRoot
    <3>. QED BY <2>2, <2>3, <3>1, <3>2 DEF Sent
  <2>4. \A b \in mined : sent \notin b.txs
    BY <2>1, <2>2 DEF ChainInv, Sent
  <2>. HIDE DEF sent
  <2>5. \A tx \in mempool' : Sent(tx)'
    BY <1>0, <2>1, <2>3
  <2>6. \A b \in mined' : \A tx \in b.txs : Sent(tx)'
    BY <1>0, <2>1
  <2>7. \A i \in 1..Len(chain') : chain'[i].txs \cap mempool' = {}
    <3>1. \A i \in 1..Len(chain) : chain[i] \in mined
      BY DEF BlockInv
    <3>. QED BY <2>1, <2>4, <3>1 DEF ChainInv, OnceOnChain
  <2>. QED BY <2>1, <2>5, <2>6, <2>7 DEF ChainInv, OnceOnChain
<1>. QED
  BY <1>1, <1>2, <1>3, <1>4
  DEF Next, vars, Create, StartApi, StartNode, Verify, GetTransaction,
      CompareWithBlock, VerificationFails, StartCreation, MergePair,
      WaitForTransaction, GetBlock, PutLeaves, CreationFails

-----------------------------------------------------------------------------
(* The receipts.                                                           *)

\* A proof is that of the block its transaction was reported in.
ReceiptInv ==
  \A c \in Creations : proof[c] # None =>
    /\ receipt[c] \in mined /\ Holds(receipt[c], c, proof[c].root)
    /\ proof[c].blockNumber = receipt[c].number /\ proof[c].blockTimestamp = receipt[c].time

\* The receipt stays with the proof.
LEMMA ReceiptStays ==
  ASSUME TreeInv, CreationInv, [Next]_vars, NEW c \in Creations, proof[c] # None
  PROVE  receipt'[c] = receipt[c]
<1>1. pc[c] \in {"leaves", "done", "failed"}
  BY DEF TreeInv, Stands
<1>2. ASSUME NEW d \in Creations, WaitForTransaction(d) PROVE receipt'[c] = receipt[c]
  <2>1. PICK b : receipt' = [receipt EXCEPT ![d] = b] /\ pc[d] = "wait"
    BY <1>2 DEF WaitForTransaction
  <2>. QED BY <1>1, <2>1 DEF CreationInv
<1>. QED
  BY <1>2
  DEF Next, vars, Create, StartApi, StartNode, MineBlock, Reorganise, Verify, GetTransaction,
      CompareWithBlock, VerificationFails, StartCreation, MergePair, SendTransaction,
      GetBlock, PutLeaves, CreationFails

LEMMA ReceiptStep ==
  ASSUME BlockInv, CreationInv, TreeInv, ReceiptInv, [Next]_vars
  PROVE  ReceiptInv'
<1>1. mined \subseteq mined'
  BY BlockStep
<1>2. ASSUME NEW c \in Creations, proof[c] # None
      PROVE  /\ receipt'[c] \in mined' /\ Holds(receipt'[c], c, proof'[c].root)
             /\ proof'[c].blockNumber = receipt'[c].number
             /\ proof'[c].blockTimestamp = receipt'[c].time
  BY <1>1, <1>2, ProofStays, ReceiptStays DEF ReceiptInv
<1>3. CASE proof' = proof
  BY <1>2, <1>3 DEF ReceiptInv, Holds
<1>4. ASSUME NEW c \in Creations, GetBlock(c) PROVE ReceiptInv'
  <2>1. PICK b \in BlockOfReceipt(c) :
          proof' = [proof EXCEPT ![c] =
            [blockNumber |-> receipt[c].number, blockTimestamp |-> b.time,
             root |-> MerkleRoot(c), chainId |-> FromString(apiUrl).chain, txHash |-> c]]
    BY <1>4 DEF GetBlock
  <2>2. b = receipt[c] /\ b \in mined /\ Holds(b, c, MerkleRoot(c)) /\ receipt' = receipt
    BY <1>4 DEF GetBlock, BlockOfReceipt, BlockInv, CreationInv
  <2>3. /\ proof'[c].root = MerkleRoot(c) /\ proof'[c].blockNumber = receipt[c].number
        /\ proof'[c].blockTimestamp = b.time
        /\ \A d \in Creations \ {c} : proof'[d] = proof[d]
    BY <2>1 DEF CreationInv
  <2>. QED BY <1>1, <1>2, <2>2, <2>3 DEF ReceiptInv, Holds
<1>. QED
  BY <1>3, <1>4
  DEF Next, vars, Create, StartApi, StartNode, MineBlock, Reorganise, Verify, GetTransaction,
      CompareWithBlock, VerificationFails, StartCreation, MergePair, SendTransaction,
      WaitForTransaction, PutLeaves, CreationFails

\* A block that was replaced does not come back.
LEMMA ReplacedStays ==
  ASSUME BlockInv, [Next]_vars, NEW b \in mined, b \in Range(chain')
  PROVE  b \in Range(chain)
<1>1. CASE chain' = chain
  BY <1>1
<1>2. ASSUME NEW txs, NEW gap, MineBlock(txs, gap) PROVE b \in Range(chain)
  <2>1. PICK block : block.hash = Cardinality(mined) + 1 /\ chain' = Append(chain, block)
    <3>. DEFINE block == [hash |-> Cardinality(mined) + 1, number |-> Len(chain) + 1,
                          time |-> (IF chain = << >> THEN 0 ELSE Last(chain).time) + gap,
                          txs |-> txs]
    <3>1. block.hash = Cardinality(mined) + 1 /\ chain' = Append(chain, block)
      BY <1>2 DEF MineBlock
    <3>. HIDE DEF block
    <3>. QED BY <3>1
  <2>2. Cardinality(mined) \in Nat
    BY FS_CardinalityType DEF BlockInv
  <2>3. b # block
    BY <2>1, <2>2 DEF BlockInv
  <2>4. PICK i \in DOMAIN chain' : b = chain'[i]
    BY DEF Range
  <2>5. Len(chain) \in Nat /\ DOMAIN chain = 1..Len(chain) /\ DOMAIN chain' = 1..(Len(chain) + 1)
        /\ chain'[Len(chain) + 1] = block /\ \A j \in 1..Len(chain) : chain'[j] = chain[j]
    BY <2>1 DEF BlockInv
  <2>6. i \in 1..Len(chain)
    BY <2>3, <2>4, <2>5
  <2>. QED BY <2>4, <2>5, <2>6 DEF Range
<1>3. ASSUME NEW n \in 1..Len(chain), Reorganise(n) PROVE b \in Range(chain)
  <2>1. chain' = SubSeq(chain, 1, n - 1)
    BY <1>3 DEF Reorganise
  <2>2. /\ DOMAIN chain = 1..Len(chain) /\ DOMAIN chain' = 1..(n - 1)
        /\ \A j \in 1..(n - 1) : chain'[j] = chain[j] /\ j \in 1..Len(chain)
    BY <2>1 DEF BlockInv
  <2>. QED BY <2>2 DEF Range
<1>. QED
  BY <1>1, <1>2, <1>3
  DEF Next, vars, Create, StartApi, StartNode, Verify, GetTransaction,
      CompareWithBlock, VerificationFails, StartCreation, MergePair, SendTransaction,
      WaitForTransaction, GetBlock, PutLeaves, CreationFails

-----------------------------------------------------------------------------
(* The verdicts.                                                           *)

\* The block that the transaction of a leaf was reported in
ReceiptOf(l) == receipt[l.proof.txHash]

VerifyInv ==
  /\ check.at \in {"none", "transaction", "block", "end"}
  /\ check.at # "none" => check.leaf \in leaves /\ nodeUrl # NoUrl
  /\ check.at \in {"transaction", "block"} => check.leaf.path = << >>
  /\ check.at = "block" /\ ReceiptOf(check.leaf) \in Range(chain)
       => check.block = ReceiptOf(check.leaf)
  /\ VerdictFollowsChain

\* The proof that a leaf leads to is of its creation, and of the block reported to it.
LEMMA ProofOfLeaf ==
  ASSUME TreeInv, LeafInv, ReceiptInv, NEW l \in leaves
  PROVE  /\ apiUrl # NoUrl /\ l.proof.chainId = "eip155" /\ l.proof.txHash \in Creations
         /\ proof[l.proof.txHash] # None
         /\ ReceiptOf(l) \in mined /\ Holds(ReceiptOf(l), l.proof.txHash, l.proof.root)
         /\ l.proof.blockNumber = ReceiptOf(l).number
         /\ l.proof.blockTimestamp = ReceiptOf(l).time
<1>1. PICK c \in Creations : proof[c] # None /\ l.proof = proof[c]
  BY DEF LeafInv
<1>2. Stands(c)
  BY <1>1 DEF TreeInv
<1>3. apiUrl # NoUrl /\ l.proof.chainId = "eip155" /\ l.proof.txHash = c
  BY <1>1, <1>2 DEF Stands, Started
<1>. QED BY <1>1, <1>3 DEF ReceiptInv, ReceiptOf

LEMMA LeavesStay == [Next]_vars => leaves \subseteq leaves'
BY DEF Next, vars, Create, StartApi, StartNode, MineBlock, Reorganise, Verify, GetTransaction,
       CompareWithBlock, VerificationFails, StartCreation, MergePair, SendTransaction,
       WaitForTransaction, GetBlock, PutLeaves, CreationFails

\* The path of a leaf leads to its record: as a CID if it is the root, else as a text.
LEMMA PrevVerdictIs ==
  ASSUME LeafInv, NEW l \in leaves
  PROVE  PrevVerdict(l) = IF l.path = << >> THEN "ok" ELSE "not a link"
<1>. DEFINE original == OriginalRecord(l.proof.root, l.path)
<1>1. original = (IF l.path = << >> THEN l.prev ELSE Text(l.prev.cid)) /\ l.prev.kind = "cid"
  BY DEF LeafInv
<1>2. Text(l.prev.cid).kind = "text"
  BY DEF Text
<1>3. PrevVerdict(l) = CASE original.kind \in {"text", "nothing"} -> "not a link"
        [] original.kind \in {"cid", "link"} /\ original # l.prev -> "misleading"
        [] OTHER -> "ok"
  BY DEF PrevVerdict
<1>. HIDE DEF original
<1>. QED BY <1>1, <1>2, <1>3

\* Steps of the others, while a verification waits or has ended.
LEMMA VerifyKept ==
  ASSUME UrlInv, BlockInv, CreationInv, TreeInv, LeafInv, ReceiptInv, VerifyInv,
         [Next]_vars, UNCHANGED check
  PROVE  VerifyInv'
<1>1. CASE check.at = "none"
  BY <1>1 DEF VerifyInv, VerdictFollowsChain
<1>2. CASE check.at # "none"
  <2>. DEFINE l == check.leaf
  <2>1. l \in leaves /\ l \in leaves' /\ nodeUrl # NoUrl
    BY <1>2, LeavesStay DEF VerifyInv
  <2>2. nodeUrl' = nodeUrl /\ apiUrl' = apiUrl
    BY <2>1, UrlStep, ProofOfLeaf
  <2>3. ReceiptOf(l)' = ReceiptOf(l)
    <3>1. l' = l
      OBVIOUS
    <3>2. receipt'[l.proof.txHash] = receipt[l.proof.txHash]
      BY <2>1, ProofOfLeaf, ReceiptStays
    <3>. QED BY <3>1, <3>2 DEF ReceiptOf
  <2>4. ReceiptOf(l)' \in Range(chain') => ReceiptOf(l) \in Range(chain)
    <3>1. ReceiptOf(l) \in mined
      BY <2>1, ProofOfLeaf
    <3>. HIDE DEF l
    <3>. QED BY <2>3, <3>1, ReplacedStays
  <2>5. VerdictFollowsChain'
    BY <2>2, <2>3, <2>4 DEF VerifyInv, VerdictFollowsChain, ReceiptOf
  <2>. QED BY <1>2, <2>1, <2>2, <2>3, <2>4, <2>5 DEF VerifyInv
<1>. QED BY <1>1, <1>2

LEMMA VerifyStep ==
  ASSUME UrlInv, BlockInv, CreationInv, TreeInv, LeafInv, ChainInv, ReceiptInv, VerifyInv,
         [Next]_vars
  PROVE  VerifyInv'
<1>1. CASE UNCHANGED check
  BY <1>1, VerifyKept
<1>2. ASSUME NEW l \in leaves, Verify(l) PROVE VerifyInv'
  <2>1. Handles(nodeUrl, l.proof.chainId)
    BY <1>2, ProofOfLeaf DEF Verify, UrlInv, Handles
  <2>2. nodeUrl' = nodeUrl /\ nodeUrl # NoUrl /\ leaves' = leaves
    BY <1>2 DEF Verify
  <2>3. CASE l.path = << >>
    <3>1. check' = [at |-> "transaction", leaf |-> l]
      BY <1>2, <2>1, <2>3, PrevVerdictIs DEF Verify
    <3>. QED BY <2>2, <2>3, <3>1 DEF VerifyInv, VerdictFollowsChain
  <2>4. CASE l.path # << >>
    <3>1. check' = [at |-> "end", leaf |-> l, verdict |-> "not a link"]
      BY <1>2, <2>4, PrevVerdictIs DEF Verify, End
    <3>. QED BY <2>2, <2>4, <3>1 DEF VerifyInv, VerdictFollowsChain
  <2>. QED BY <2>3, <2>4
<1>3. CASE GetTransaction
  <2>. DEFINE l == check.leaf
              c == l.proof.txHash
              found == BlocksWith(c)
  <2>1. /\ l \in leaves /\ nodeUrl # NoUrl /\ l.path = << >>
        /\ UNCHANGED <<nodeUrl, apiUrl, leaves, chain, receipt>>
    BY <1>3 DEF GetTransaction, VerifyInv
  <2>2. Holds(ReceiptOf(l), c, l.proof.root)
    BY <2>1, ProofOfLeaf
  <2>3. CASE found = {}
    <3>1. check' = [at |-> "end", leaf |-> l, verdict |-> "no transaction"]
      BY <1>3, <2>3 DEF GetTransaction, End
    <3>2. FromString(nodeUrl).transport = FromString(apiUrl).transport
            => ReceiptOf(l) \notin Range(chain)
      BY <2>2, <2>3 DEF BlocksWith, Holds
    <3>. HIDE DEF found
    <3>. QED BY <2>1, <3>1, <3>2 DEF VerifyInv, VerdictFollowsChain, ReceiptOf
  <2>4. CASE found # {}
    <3>1. PICK b \in found : check' = [at |-> "block", leaf |-> l, block |-> b]
      BY <1>3, <2>4 DEF GetTransaction
    <3>2. ASSUME ReceiptOf(l) \in Range(chain) PROVE b = ReceiptOf(l)
      <4>1. b \in Range(chain) /\ \E tx \in b.txs : tx.hash = c
        BY DEF BlocksWith
      <4>2. PICK tx \in b.txs : tx.hash = c
        BY <4>1
      <4>3. PICK i \in 1..Len(chain) : b = chain[i]
        BY <4>1 DEF Range, BlockInv
      <4>4. PICK j \in 1..Len(chain) : ReceiptOf(l) = chain[j]
        BY <3>2 DEF Range, BlockInv
      <4>. DEFINE sent == [hash |-> c, data |-> Bytes(l.proof.root)]
      <4>5. sent \in chain[j].txs /\ sent.hash = c
        BY <2>2, <4>4 DEF Holds
      <4>. HIDE DEF l, found, sent, c
      <4>6. Sent(tx) /\ Sent(sent)
        BY <4>2, <4>3, <4>5 DEF ChainInv, BlockInv
      <4>7. tx = sent
        BY <4>2, <4>5, <4>6 DEF Sent
      <4>8. i = j
        BY <4>2, <4>3, <4>5, <4>7 DEF ChainInv, OnceOnChain
      <4>. QED BY <4>3, <4>4, <4>8
    <3>3. check'.at = "block" /\ check'.leaf = l /\ check'.block = b
      BY <3>1
    <3>. HIDE DEF l, found
    <3>. QED BY <2>1, <3>2, <3>3 DEF VerifyInv, VerdictFollowsChain, ReceiptOf
  <2>. QED BY <2>3, <2>4
<1>4. CASE CompareWithBlock
  <2>. DEFINE l == check.leaf
              p == l.proof
              block == check.block
  <2>1. /\ check.at = "block" /\ l \in leaves /\ nodeUrl # NoUrl /\ l.path = << >>
        /\ UNCHANGED <<nodeUrl, apiUrl, leaves, chain, receipt>>
    BY <1>4 DEF CompareWithBlock, VerifyInv
  <2>2. check' = [at |-> "end", leaf |-> l, verdict |-> ProofVerdict(p, block)]
    BY <1>4 DEF CompareWithBlock, End
  <2>3. ASSUME ReceiptOf(l) \in Range(chain) PROVE ProofVerdict(p, block) = "accepted"
    <3>1. block = ReceiptOf(l)
      BY <2>1, <2>3 DEF VerifyInv
    <3>2. /\ Holds(block, p.txHash, p.root)
          /\ p.blockNumber = block.number /\ p.blockTimestamp = block.time
      BY <2>1, <3>1, ProofOfLeaf
    <3>. DEFINE sent == [hash |-> p.txHash, data |-> Bytes(p.root)]
    <3>3. sent \in block.txs /\ sent.hash = p.txHash /\ sent.data = Bytes(p.root)
      BY <3>2 DEF Holds
    <3>4. Agrees(sent.data, p.root)
      BY <3>3 DEF Agrees, IsPrefix, Bytes
    <3>. HIDE DEF sent, p, block
    <3>. QED BY <3>2, <3>3, <3>4 DEF ProofVerdict
  <2>4. ReceiptOf(l) \in Range(chain) => check'.verdict \notin Refusals
    BY <2>2, <2>3 DEF Refusals
  <2>5. check'.at = "end" /\ check'.leaf = l
    BY <2>2
  <2>. HIDE DEF l, p, block
  <2>. QED BY <2>1, <2>4, <2>5 DEF VerifyInv, VerdictFollowsChain, ReceiptOf
<1>5. CASE VerificationFails
  BY <1>5 DEF VerificationFails, VerifyInv, VerdictFollowsChain
<1>. QED
  BY <1>1, <1>2, <1>3, <1>4, <1>5
  DEF Next, vars, StartApi, StartNode, StartCreation, Create, MergePair, SendTransaction,
      WaitForTransaction, GetBlock, PutLeaves, CreationFails, MineBlock, Reorganise

LEMMA VerifyInit ==
  Init => /\ BlockInv /\ CreationInv /\ UrlInv /\ TreeInv /\ LeafInv
          /\ ChainInv /\ ReceiptInv /\ VerifyInv
<1>. SUFFICES ASSUME Init
              PROVE  /\ BlockInv /\ CreationInv /\ UrlInv /\ TreeInv /\ LeafInv
                     /\ ChainInv /\ ReceiptInv /\ VerifyInv
  OBVIOUS
<1>1. BlockInv
  BY FS_EmptySet DEF Init, BlockInv
<1>2. CreationInv /\ ReceiptInv
  BY DEF Init, CreationInv, ReceiptInv, ProofNamesOneBlock
<1>3. LeafInv /\ VerifyInv
  BY DEF Init, LeafInv, VerifyInv, VerdictFollowsChain
<1>4. ChainInv
  BY DEF Init, ChainInv, OnceOnChain
<1>. QED BY <1>1, <1>2, <1>3, <1>4, TreeInit

\* What a node says of a stored leaf: one of several requests is never accepted, and one
\* that is its own root is refused only where the block that its transaction was reported
\* in is no longer on the chain, for any number of reorganisations and blocks.
THEOREM VerdictsFollowChain == Spec => []VerdictFollowsChain
<1>1. VerifyInv => VerdictFollowsChain
  BY DEF VerifyInv
<1>2. UrlInv /\ [Next]_vars => UrlInv'
  BY UrlStep
<1>. QED
  BY <1>1, <1>2, VerifyInit, BlockStep, CreationStep, TreeStep, LeafStep, ChainStep,
     ReceiptStep, VerifyStep, PTL DEF Spec

-----------------------------------------------------------------------------
(* Types.                                                                  *)

LEMMA RootKind ==
  ASSUME NEW tree, IsTree(tree), Len(tree[Len(tree)]) = 1,
         NEW cids, tree[1] = LeafLevel(cids)
  PROVE  AsCid(RootOf(tree)).kind \in {"cid", "link"}
<1>. DEFINE steps == StepsUp(tree, 1)
            root == RootOf(tree)
<1>1. 1 \in 1..Len(tree[1]) /\ IsLevel(tree[1])
  BY DEF IsTree, IsLevel
<1>2. steps \in Seq({"L", "R"}) /\ Returns(tree[1][1], root, steps)
  BY <1>1, PathLeadsDown
<1>. HIDE DEF steps, root
<1>3. CASE steps = << >>
  <2>1. Reverse(<< >>) = << >>
    BY DEF Reverse
  <2>2. root = tree[1][1]
    BY <1>2, <1>3, <2>1, ResolveNone DEF Returns
  <2>3. tree[1][1] = Text(cids[1])
    BY <1>1 DEF LeafLevel, IsLevel
  <2>. QED BY <2>2, <2>3 DEF AsCid, Text, Cid, root
<1>4. CASE steps # << >>
  BY <1>2, <1>4 DEF Returns, AsCid, root
<1>. QED BY <1>3, <1>4

TypeInv ==
  \A c \in Creations :
    /\ receipt[c] = None \/ receipt[c] \in mined
    /\ proof[c] # None =>
         DOMAIN proof[c] = {"blockNumber", "blockTimestamp", "root", "chainId", "txHash"}

LEMMA TypeStep ==
  ASSUME BlockInv, CreationInv, TypeInv, [Next]_vars
  PROVE  TypeInv'
<1>1. mined \subseteq mined'
  BY BlockStep
<1>2. CASE UNCHANGED <<receipt, proof>>
  BY <1>1, <1>2 DEF TypeInv
<1>3. ASSUME NEW c \in Creations, WaitForTransaction(c) PROVE TypeInv'
  <2>1. PICK b \in Range(chain) : receipt' = [receipt EXCEPT ![c] = b]
    BY <1>3 DEF WaitForTransaction
  <2>2. b \in mined' /\ proof' = proof
    BY <1>1, <1>3 DEF BlockInv, Range, WaitForTransaction
  <2>3. \A d \in Creations : receipt'[d] = IF d = c THEN b ELSE receipt[d]
    BY <2>1 DEF CreationInv
  <2>. QED BY <1>1, <2>2, <2>3 DEF TypeInv
<1>4. ASSUME NEW c \in Creations, GetBlock(c) PROVE TypeInv'
  <2>1. PICK b \in BlockOfReceipt(c) :
          proof' = [proof EXCEPT ![c] =
            [blockNumber |-> receipt[c].number, blockTimestamp |-> b.time,
             root |-> MerkleRoot(c), chainId |-> FromString(apiUrl).chain, txHash |-> c]]
    BY <1>4 DEF GetBlock
  <2>2. receipt' = receipt
    BY <1>4 DEF GetBlock
  <2>3. DOMAIN proof'[c] = {"blockNumber", "blockTimestamp", "root", "chainId", "txHash"}
    BY <2>1 DEF CreationInv
  <2>4. \A d \in Creations : d # c => proof'[d] = proof[d]
    BY <2>1 DEF CreationInv
  <2>. QED BY <1>1, <2>2, <2>3, <2>4 DEF TypeInv
<1>. QED
  BY <1>2, <1>3, <1>4
  DEF Next, vars, Create, StartApi, StartNode, MineBlock, Reorganise, Verify, GetTransaction,
      CompareWithBlock, VerificationFails, StartCreation, MergePair, SendTransaction,
      PutLeaves, CreationFails

\* The types, the number of a block that is its place in the chain included.
THEOREM TypeCorrect == Spec => []TypeOK
<1>1. Init => CountInv /\ TypeInv
  BY ProofConstants DEF Init, CountInv, TypeInv
<1>2. ASSUME BlockInv, CreationInv, UrlInv, TreeInv, LeafInv, CountInv, ChainInv, VerifyInv, TypeInv
      PROVE  TypeOK
  <2>1. ASSUME NEW c \in Creations, proof[c] # None PROVE IsProof(proof[c])
    <3>1. /\ HasRoot(c) /\ Started(c) /\ proof[c].root = MerkleRoot(c) /\ proof[c].txHash = c
      BY <1>2, <2>1 DEF TreeInv, Stands
    <3>2. proof[c].root.kind \in {"cid", "link"}
      <4>. DEFINE tree == levels[c]
      <4>1. IsTree(tree) /\ Len(tree[Len(tree)]) = 1 /\ tree[1] = LeafLevel(CidsOf(requests[c]))
        BY <3>1 DEF Started, HasRoot, IsRootLevel
      <4>2. AsCid(RootOf(tree)).kind \in {"cid", "link"}
        BY <4>1, RootKind
      <4>. QED BY <3>1, <4>2 DEF MerkleRoot
    <3>3. proof[c].blockNumber \in Nat /\ proof[c].blockTimestamp \in Nat
      BY <1>2, <2>1 DEF CreationInv, ProofNamesOneBlock, NamesABlock, ChainInv
    <3>. QED BY <1>2, <2>1, <3>1, <3>2, <3>3 DEF TypeInv, IsProof
  <2>2. ASSUME NEW l \in leaves PROVE IsLeaf(l)
    <3>1. PICK c \in Creations : proof[c] # None /\ l.proof = proof[c]
      BY <1>2 DEF LeafInv
    <3>2. IsProof(l.proof)
      BY <2>1, <3>1
    <3>3. l.path \in Seq({"L", "R"}) /\ DOMAIN l = {"prev", "proof", "path"} /\ l.prev.kind = "cid"
      BY <1>2 DEF LeafInv
    <3>4. Range(l.path) \subseteq {"L", "R"}
      BY <3>3 DEF Range
    <3>. QED BY <3>2, <3>3, <3>4 DEF IsLeaf
  <2>3. \A i \in 1..Len(chain) : chain[i] \in mined
    BY <1>2 DEF BlockInv
  <2>4. pc \in [Creations -> Position]
    BY <1>2 DEF TreeInv, Stands
  <2>. QED
    BY <1>2, <2>1, <2>2, <2>3, <2>4
    DEF TypeOK, UrlInv, BlockInv, CountInv, ChainInv, VerifyInv, TypeInv
<1>3. UrlInv /\ [Next]_vars => UrlInv'
  BY UrlStep
<1>. QED
  BY <1>1, <1>2, <1>3, VerifyInit, BlockStep, CreationStep, TreeStep, LeafStep, CountStep,
     ChainStep, ReceiptStep, VerifyStep, TypeStep, PTL DEF Spec

-----------------------------------------------------------------------------
(* One root for one set of requests.                                       *)

\* What BatchConstants says of a batch
IsBatch(batch) ==
  /\ Len(batch) \in Nat \ {0} /\ DOMAIN batch = 1..Len(batch)
  /\ \A i \in 1..Len(batch) : batch[i].docId \in Int
  /\ \A i, j \in 1..Len(batch) : batch[i].docId = batch[j].docId => i = j

Ascending(s) ==
  /\ Len(s) \in Nat /\ DOMAIN s = 1..Len(s)
  /\ \A k \in 1..Len(s) : s[k].docId \in Int
  /\ \A k, m \in 1..Len(s) : k < m => s[k].docId < s[m].docId

\* The ranks of the requests are the places 1 to n, each taken once.
LEMMA Ranks ==
  ASSUME NEW batch, IsBatch(batch)
  PROVE  /\ \A i, j \in DOMAIN batch :
              batch[j].docId < batch[i].docId => PlaceOf(batch, j) < PlaceOf(batch, i)
         /\ \A k \in 1..Len(batch) : \E i \in DOMAIN batch : PlaceOf(batch, i) = k
<1>. DEFINE n == Len(batch)
            before(i) == {j \in DOMAIN batch : ComesBefore(batch, j, i)}
<1>0. n \in Nat \ {0} /\ DOMAIN batch = 1..n
  BY DEF IsBatch
<1>1. \A i, j \in 1..n : ComesBefore(batch, j, i) <=> batch[j].docId < batch[i].docId
  <2>1. \A i, j \in 1..n : batch[j].docId = batch[i].docId => j = i
    BY DEF IsBatch
  <2>2. \A i \in 1..n : batch[i].docId \in Int
    BY DEF IsBatch
  <2>. QED BY <2>1, <2>2 DEF ComesBefore
<1>2. IsFiniteSet(1..n) /\ Cardinality(1..n) = n
  BY <1>0, FS_Interval
<1>3. \A i \in 1..n : before(i) \in SUBSET ((1..n) \ {i})
  <2>1. \A i \in 1..n : batch[i].docId \in Int
    BY DEF IsBatch
  <2>. QED BY <1>0, <1>1, <2>1
<1>4. ASSUME NEW i \in 1..n
      PROVE  IsFiniteSet(before(i)) /\ Cardinality(before(i)) \in 0..(n - 1)
  <2>1. IsFiniteSet((1..n) \ {i}) /\ Cardinality((1..n) \ {i}) = n - 1
    BY <1>2, FS_RemoveElement
  <2>2. before(i) \in SUBSET ((1..n) \ {i})
    BY <1>3
  <2>. HIDE DEF before
  <2>3. IsFiniteSet(before(i)) /\ Cardinality(before(i)) <= n - 1
    BY <2>1, <2>2, FS_Subset
  <2>. QED BY <1>0, <2>3, FS_CardinalityType
<1>5. \A i \in 1..n : PlaceOf(batch, i) = Cardinality(before(i)) + 1
  BY DEF PlaceOf
<1>6. ASSUME NEW i \in 1..n, NEW j \in 1..n, batch[j].docId < batch[i].docId
      PROVE  PlaceOf(batch, j) < PlaceOf(batch, i)
  <2>0. \A k \in 1..n : batch[k].docId \in Int
    BY DEF IsBatch
  <2>1. before(j) \cup {j} \in SUBSET before(i) /\ j \notin before(j)
    BY <1>0, <1>1, <1>6, <2>0
  <2>2. IsFiniteSet(before(i)) /\ IsFiniteSet(before(j))
        /\ Cardinality(before(i)) \in Nat /\ Cardinality(before(j)) \in Nat
    <3>. HIDE DEF before
    <3>. QED BY <1>4
  <2>. HIDE DEF before
  <2>3. Cardinality(before(j) \cup {j}) = Cardinality(before(j)) + 1
    BY <2>1, <2>2, FS_AddElement
  <2>4. Cardinality(before(j) \cup {j}) <= Cardinality(before(i))
    BY <2>1, <2>2, FS_Subset
  <2>. QED BY <1>5, <2>2, <2>3, <2>4
<1>. DEFINE rank == [i \in 1..n |-> PlaceOf(batch, i)]
<1>7. rank \in Injection(1..n, 1..n)
  <2>1. \A i \in 1..n : PlaceOf(batch, i) \in 1..n
    <3>. HIDE DEF before
    <3>. QED BY <1>0, <1>4, <1>5
  <2>2. ASSUME NEW i \in 1..n, NEW j \in 1..n, PlaceOf(batch, i) = PlaceOf(batch, j) PROVE i = j
    <3>1. PlaceOf(batch, i) \in Int /\ PlaceOf(batch, j) \in Int
      BY <2>1
    <3>2. ~(batch[i].docId < batch[j].docId) /\ ~(batch[j].docId < batch[i].docId)
      BY <1>6, <2>2, <3>1
    <3>. QED BY <3>2 DEF IsBatch
  <2>. QED BY <2>1, <2>2 DEF Injection, IsInjective
<1>8. rank \in Surjection(1..n, 1..n)
  <2>. HIDE DEF rank
  <2>. QED BY <1>2, <1>7, FS_Injection
<1>9. \A k \in 1..n : \E i \in 1..n : PlaceOf(batch, i) = k
  BY <1>8 DEF Surjection
<1>. QED BY <1>0, <1>6, <1>9

LEMMA SortedAscends ==
  ASSUME NEW batch, IsBatch(batch)
  PROVE  Ascending(SortByDocId(batch))
<1>. DEFINE n == Len(batch)
            from(k) == CHOOSE i \in DOMAIN batch : PlaceOf(batch, i) = k
            sorted == SortByDocId(batch)
<1>1. \A k \in 1..n : from(k) \in 1..n /\ PlaceOf(batch, from(k)) = k
  <2>1. \A k \in 1..n : \E i \in DOMAIN batch : PlaceOf(batch, i) = k
    BY Ranks
  <2>2. DOMAIN batch = 1..n
    BY DEF IsBatch
  <2>. QED BY <2>1, <2>2
<1>2. sorted = [k \in 1..n |-> batch[from(k)]]
  BY DEF SortByDocId
<1>. HIDE DEF from, sorted
<1>3. n \in Nat /\ Len(sorted) = n /\ DOMAIN sorted = 1..n
      /\ \A k \in 1..n : sorted[k] = batch[from(k)]
  BY <1>2 DEF IsBatch
<1>4. \A i \in 1..n : batch[i].docId \in Int
  BY DEF IsBatch
<1>5. ASSUME NEW k \in 1..n, NEW m \in 1..n, k < m
      PROVE  sorted[k].docId < sorted[m].docId
  <2>1. from(k) \in 1..n /\ from(m) \in 1..n /\ PlaceOf(batch, from(k)) = k
        /\ PlaceOf(batch, from(m)) = m /\ DOMAIN batch = 1..n
    BY <1>1 DEF IsBatch
  <2>2. ~(batch[from(m)].docId < batch[from(k)].docId)
    <3>1. batch[from(m)].docId < batch[from(k)].docId => m < k
      BY <2>1, Ranks
    <3>. QED BY <1>5, <3>1
  <2>3. batch[from(m)].docId # batch[from(k)].docId
    <3>1. from(k) # from(m)
      BY <1>5, <2>1
    <3>. QED BY <2>1, <3>1 DEF IsBatch
  <2>4. batch[from(m)].docId \in Int /\ batch[from(k)].docId \in Int
    BY <1>4, <2>1
  <2>5. batch[from(k)].docId < batch[from(m)].docId
    BY <2>2, <2>3, <2>4
  <2>. QED BY <1>3, <2>5
<1>. QED BY <1>1, <1>3, <1>4, <1>5 DEF Ascending, sorted

Agree(s, t, n) == \A m \in 1..n : s[m] = t[m]

\* One order only: what stands at one place of two ascending lists of the same requests
LEMMA AscendingPlace ==
  ASSUME NEW s, NEW t, Ascending(s), Ascending(t), Range(s) = Range(t),
         NEW k \in 1..Len(s), k \in 1..Len(t), Agree(s, t, k - 1)
  PROVE  s[k] = t[k]
<1>1. PICK i \in 1..Len(t) : s[k] = t[i]
  BY DEF Range, Ascending
<1>2. PICK j \in 1..Len(s) : t[k] = s[j]
  BY DEF Range, Ascending
<1>3. ~(i < k)
  <2>. SUFFICES ASSUME i < k PROVE FALSE
    OBVIOUS
  <2>1. s[i] = t[i] /\ i \in 1..Len(s)
    BY DEF Ascending, Agree
  <2>. QED BY <1>1, <2>1 DEF Ascending
<1>4. ~(j < k)
  <2>. SUFFICES ASSUME j < k PROVE FALSE
    OBVIOUS
  <2>1. s[j] = t[j] /\ j \in 1..Len(t)
    BY DEF Ascending, Agree
  <2>. QED BY <1>2, <2>1 DEF Ascending
<1>5. i = k \/ t[k].docId < s[k].docId
  BY <1>1, <1>3 DEF Ascending
<1>6. j = k \/ s[k].docId < t[k].docId
  BY <1>2, <1>4 DEF Ascending
<1>. QED BY <1>1, <1>2, <1>5, <1>6 DEF Ascending

LEMMA AscendingPrefix ==
  ASSUME NEW s, NEW t, Ascending(s), Ascending(t), Range(s) = Range(t),
         NEW n \in Nat, n <= Len(s), n <= Len(t)
  PROVE  Agree(s, t, n)
<1>. DEFINE T == {k \in Nat : Agree(s, t, k)}
<1>1. 0 \in T
  BY DEF Agree
<1>2. ASSUME NEW k \in 0..(n - 1), k \in T PROVE k + 1 \in T
  <2>1. k + 1 \in 1..Len(s) /\ k + 1 \in 1..Len(t) /\ (k + 1) - 1 = k
    BY DEF Ascending
  <2>2. Agree(s, t, (k + 1) - 1)
    BY <1>2, <2>1
  <2>3. s[k + 1] = t[k + 1]
    BY <2>1, <2>2, AscendingPlace
  <2>4. Agree(s, t, k + 1)
    <3>1. \A m \in 1..(k + 1) : m \in 1..k \/ m = k + 1
      OBVIOUS
    <3>. QED BY <2>1, <2>2, <2>3, <3>1 DEF Agree
  <2>. QED BY <2>4
<1>. HIDE DEF T
<1>3. 0..n \subseteq T
  BY <1>1, <1>2, Counting
<1>4. n \in T
  BY <1>3
<1>. QED BY <1>4 DEF T

LEMMA AscendingNotLonger ==
  ASSUME NEW s, NEW t, Ascending(s), Ascending(t), Range(s) = Range(t)
  PROVE  ~(Len(s) < Len(t))
<1>. SUFFICES ASSUME Len(s) < Len(t) PROVE FALSE
  OBVIOUS
<1>0. Len(s) \in Nat /\ Len(t) \in Nat
  BY DEF Ascending
<1>1. Agree(s, t, Len(s))
  <2>1. Len(s) <= Len(s) /\ Len(s) <= Len(t)
    BY <1>0
  <2>. QED BY <1>0, <2>1, AscendingPrefix
<1>2. Len(t) \in 1..Len(t)
  BY <1>0
<1>3. PICK i \in 1..Len(s) : t[Len(t)] = s[i]
  BY <1>2 DEF Range, Ascending
<1>4. t[Len(t)] = t[i] /\ i \in 1..Len(t) /\ i < Len(t)
  BY <1>0, <1>1, <1>3 DEF Agree
<1>. QED BY <1>2, <1>4 DEF Ascending

LEMMA AscendingOnce ==
  ASSUME NEW s, NEW t, Ascending(s), Ascending(t), Range(s) = Range(t)
  PROVE  Len(s) = Len(t) /\ Agree(s, t, Len(s))
<1>0. Len(s) \in Nat /\ Len(t) \in Nat
  BY DEF Ascending
<1>1. Len(s) = Len(t)
  BY <1>0, AscendingNotLonger
<1>2. Len(s) <= Len(s) /\ Len(s) <= Len(t)
  BY <1>0, <1>1
<1>. QED BY <1>0, <1>1, <1>2, AscendingPrefix

SameLevel(a, b) == Len(a) = Len(b) /\ \A j \in 1..Len(a) : a[j] = b[j]

LEMMA GrownSame ==
  ASSUME NEW a, NEW b, NEW x, NEW y, IsLevel(a), IsLevel(b), SameLevel(a, b),
         GrownFrom(x, a), GrownFrom(y, b)
  PROVE  SameLevel(x, y)
<1>1. Len(a) \in Nat \ {0} /\ Len(b) = Len(a) /\ Len(x) = Len(y)
  BY DEF IsLevel, SameLevel, GrownFrom
<1>2. ASSUME NEW j \in 1..Len(x) PROVE x[j] = y[j]
  <2>1. CASE 2 * j <= Len(a)
    <3>1. 2 * j - 1 \in 1..Len(a) /\ 2 * j \in 1..Len(a)
      BY <1>1, <2>1 DEF GrownFrom
    <3>2. MergeAt(a, j) = MergeAt(b, j)
      BY <3>1 DEF MergeAt, SameLevel
    <3>. QED BY <1>1, <2>1, <3>2 DEF GrownFrom
  <2>2. CASE ~(2 * j <= Len(a))
    <3>1. a[Len(a)] = b[Len(b)]
      BY <1>1 DEF SameLevel
    <3>. QED BY <1>1, <2>2, <3>1 DEF GrownFrom
  <2>. QED BY <2>1, <2>2
<1>. QED BY <1>1, <1>2 DEF SameLevel

\* No level of a tree but the last is of one node.
EndsAtRoot(tree) ==
  /\ Len(tree[Len(tree)]) = 1
  /\ \A k \in 1..(Len(tree) - 1) : Len(tree[k]) # 1

LEMMA TreesSame ==
  ASSUME NEW a, NEW b, IsTree(a), IsTree(b), EndsAtRoot(a), EndsAtRoot(b), SameLevel(a[1], b[1])
  PROVE  RootOf(a) = RootOf(b)
<1>. DEFINE T == {m \in Nat : m + 1 \in 1..Len(a) /\ m + 1 \in 1..Len(b) => SameLevel(a[m + 1], b[m + 1])}
<1>0. Len(a) \in Nat \ {0} /\ Len(b) \in Nat \ {0}
  BY DEF IsTree
<1>1. 0 \in T
  OBVIOUS
<1>2. ASSUME NEW m \in 0..(Len(a) - 1), m \in T PROVE m + 1 \in T
  <2>. DEFINE k == m + 1
  <2>1. ASSUME k + 1 \in 1..Len(a), k + 1 \in 1..Len(b) PROVE SameLevel(a[k + 1], b[k + 1])
    <3>1. k \in 1..Len(a) /\ k \in 1..Len(b) /\ k + 1 \in 2..Len(a) /\ k + 1 \in 2..Len(b)
          /\ (k + 1) - 1 = k
      BY <2>1
    <3>2. SameLevel(a[k], b[k])
      BY <1>2, <3>1
    <3>. HIDE DEF k, T
    <3>3. /\ IsLevel(a[k]) /\ IsLevel(b[k])
          /\ GrownFrom(a[k + 1], a[(k + 1) - 1]) /\ GrownFrom(b[k + 1], b[(k + 1) - 1])
      BY <3>1, Zenon DEF IsTree
    <3>4. GrownFrom(a[k + 1], a[k]) /\ GrownFrom(b[k + 1], b[k])
      BY <3>1, <3>3, Zenon
    <3>. QED BY <3>2, <3>3, <3>4, GrownSame
  <2>2. m + 1 \in Nat
    OBVIOUS
  <2>. QED BY <2>1, <2>2, Zenon
<1>3. ASSUME NEW k \in 1..Len(a), k \in 1..Len(b) PROVE SameLevel(a[k], b[k])
  <2>. HIDE DEF T
  <2>1. 0..Len(a) \subseteq T
    BY <1>0, <1>1, <1>2, Counting
  <2>2. k - 1 \in T /\ (k - 1) + 1 = k
    BY <2>1
  <2>. QED BY <1>3, <2>2 DEF T
<1>. HIDE DEF T
<1>4. Len(a) = Len(b)
  <2>1. CASE Len(a) < Len(b)
    <3>1. Len(a) \in 1..Len(a) /\ Len(a) \in 1..(Len(b) - 1) /\ Len(a) \in 1..Len(b)
      BY <1>0, <2>1
    <3>2. Len(a[Len(a)]) = Len(b[Len(a)])
      BY <1>3, <3>1 DEF SameLevel
    <3>. QED BY <3>1, <3>2 DEF EndsAtRoot
  <2>2. CASE Len(b) < Len(a)
    <3>1. Len(b) \in 1..Len(b) /\ Len(b) \in 1..(Len(a) - 1) /\ Len(b) \in 1..Len(a)
      BY <1>0, <2>2
    <3>2. Len(a[Len(b)]) = Len(b[Len(b)])
      BY <1>3, <3>1 DEF SameLevel
    <3>. QED BY <3>1, <3>2 DEF EndsAtRoot
  <2>. QED BY <1>0, <2>1, <2>2
<1>5. Len(a) \in 1..Len(a) /\ Len(a) \in 1..Len(b)
  BY <1>0, <1>4
<1>6. SameLevel(a[Len(a)], b[Len(a)])
  BY <1>3, <1>5
<1>7. a[Len(a)][1] = b[Len(a)][1]
  BY <1>6 DEF SameLevel, EndsAtRoot
<1>. QED BY <1>4, <1>7 DEF RootOf

\* The root depends on the set of requests only, not on the order in which the query
\* returned them (Anchoring.merkleTree sorts them by docId), for batches of every size.
THEOREM RootsOfSameBatches == Spec => []SameBatchSameRoot
<1>1. TreeInv => SameBatchSameRoot
  <2>. SUFFICES ASSUME TreeInv, NEW c \in Creations, NEW d \in Creations,
                       proof[c] # None, proof[d] # None, Range(requests[c]) = Range(requests[d])
                PROVE  proof[c].root = proof[d].root
    BY DEF SameBatchSameRoot
  <2>. DEFINE s == requests[c]
              t == requests[d]
  <2>1. /\ Started(c) /\ HasRoot(c) /\ proof[c].root = MerkleRoot(c)
        /\ Started(d) /\ HasRoot(d) /\ proof[d].root = MerkleRoot(d)
    BY DEF TreeInv, Stands
  <2>2. Ascending(s) /\ Ascending(t)
    <3>1. PICK batch \in Batches[c] : s = SortByDocId(batch)
      BY <2>1 DEF Started
    <3>2. PICK other \in Batches[d] : t = SortByDocId(other)
      BY <2>1 DEF Started
    <3>3. IsBatch(batch) /\ IsBatch(other)
      BY BatchConstants DEF IsBatch
    <3>. QED BY <3>1, <3>2, <3>3, SortedAscends
  <2>3. Len(s) = Len(t) /\ \A k \in 1..Len(s) : s[k] = t[k]
    <3>1. Range(s) = Range(t)
      OBVIOUS
    <3>. HIDE DEF s, t
    <3>2. Len(s) = Len(t) /\ Agree(s, t, Len(s))
      BY <2>2, <3>1, AscendingOnce
    <3>. QED BY <3>2 DEF Agree
  <2>4. SameLevel(LeafLevel(CidsOf(s)), LeafLevel(CidsOf(t)))
    <3>. HIDE DEF s, t
    <3>. QED BY <2>2, <2>3 DEF Ascending, SameLevel, LeafLevel, CidsOf
  <2>5. EndsAtRoot(levels[c]) /\ EndsAtRoot(levels[d])
    BY <2>1 DEF Started, HasRoot, IsRootLevel, EndsAtRoot
  <2>6. RootOf(levels[c]) = RootOf(levels[d])
    BY <2>1, <2>4, <2>5, TreesSame DEF Started
  <2>. QED BY <2>1, <2>6 DEF MerkleRoot
<1>2. UrlInv /\ [Next]_vars => UrlInv'
  BY UrlStep
<1>. QED BY <1>1, <1>2, TreeInit, TreeStep, PTL DEF Spec
=============================================================================
