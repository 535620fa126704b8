------------------------- MODULE NodeProcessProofs -------------------------
(***************************************************************************)
(* Proofs about NodeProcess, for any number of documents, objects, records *)
(* and requests, and any number of failing calls.                          *)
(***************************************************************************)
EXTENDS NodeProcess, FiniteSetTheorems, TLAPS

Status == Lifecycle!AnchoringStatus

LEMMA StatusFacts ==
  /\ {"NOT_REQUESTED", "PENDING", "PROCESSING", "ANCHORED", "OUTDATED"} \subseteq Status
  /\ None \notin Docs /\ None \notin Objects /\ None \notin Cids
BY NodeConstants DEF Status, Lifecycle!AnchoringStatus

\* Where a call or a stream goes, without what surrounds it.
LEMMA CallMoves ==
  ASSUME NEW from, NEW to, NEW call \in Call(from), NEW place \in to, NEW s \in Status
  PROVE  /\ [call EXCEPT !.at = place] \in Call(to)
         /\ [call EXCEPT !.at = place, !.status = s] \in Call(to)
BY DEF Call, Status

LEMMA StreamDies ==
  ASSUME NEW o \in [doc : Docs \cup {None}, stream : {"none", "live", "dead", "closed"}]
  PROVE  [o EXCEPT !.stream = "dead"]
           \in [doc : Docs \cup {None}, stream : {"none", "live", "dead", "closed"}]
OBVIOUS

LEMMA ObserveTyped ==
  ASSUME TypeOK, NEW c \in Cids, NEW s \in Status, Observe(c, s)
  PROVE  heard' \in [Objects -> [Cids -> Status]]
BY DEF TypeOK, Observe, Status

LEMMA StartPollingTyped ==
  ASSUME TypeOK, NEW c \in Cids, NEW n \in Requests, StartPolling(c, n)
  PROVE  /\ poll' \in [Requests -> Call({"none", "sent", "answered"})]
         /\ tasks' \subseteq Cids
<1>1. [at |-> "sent", cid |-> c, status |-> "NOT_REQUESTED"]
        \in Call({"none", "sent", "answered"})
  BY StatusFacts DEF Call, Status
<1>. QED BY <1>1 DEF TypeOK, StartPolling

-----------------------------------------------------------------------------
(* Types.  A call that is under way names a record, and one that is not    *)
(* names none.                                                             *)

CallsName ==
  /\ \A n \in Requests : post[n].at # "none" <=> post[n].cid \in Cids
  /\ \A n \in Requests : poll[n].at # "none" <=> poll[n].cid \in Cids

TypeInv == TypeOK /\ CallsName

LEMMA TypeInit == Init => TypeInv
BY NodeConstants, StatusFacts
DEF Init, TypeInv, TypeOK, CallsName, Call, NoCall, Status

LEMMA TypeStep ==
  ASSUME TypeInv, [Next]_vars
  PROVE  TypeInv'
<1>. USE DEF TypeInv, TypeOK, CallsName, Call, Fault
<1>1. CASE UNCHANGED vars
  BY <1>1 DEF vars, repository, client
<1>2. ASSUME NEW d \in Docs, Load(d) PROVE TypeInv'
  BY <1>2 DEF Load, client
<1>3. ASSUME NEW d \in Docs, LoadFails(d) PROVE TypeInv'
  BY <1>3, NodeConstants DEF LoadFails, client
<1>4. ASSUME NEW d \in Docs, NEW o \in Objects, Construct(d, o) PROVE TypeInv'
  <2>1. /\ object' \in [Objects -> [doc : Docs \cup {None},
                                   stream : {"none", "live", "dead", "closed"}]]
        /\ cache' \in [Docs -> Objects \cup {None}]
        /\ loading' \in [Docs -> Nat]
    BY <1>4 DEF Construct, CacheWith
  <2>. QED BY <1>4, <2>1 DEF Construct, client
<1>5. CASE Close
  <2>1. object' \in [Objects -> [doc : Docs \cup {None},
                                stream : {"none", "live", "dead", "closed"}]]
    BY <1>5 DEF Close
  <2>. QED BY <1>5, <2>1 DEF Close, client
<1>6. ASSUME NEW o \in Objects, NEW c \in Cids, NEW n \in Requests, RequestAnchor(o, c, n)
      PROVE  TypeInv'
  <2>1. /\ post' \in [Requests -> Call({"none", "sent", "answered", "done", "failed"})]
        /\ \A k \in Requests : post'[k].at # "none" <=> post'[k].cid \in Cids
    BY <1>6, StatusFacts DEF RequestAnchor, Status
  <2>2. owed' \in [Objects -> SUBSET Cids]
    BY <1>6 DEF RequestAnchor
  <2>. QED BY <1>6, <2>1, <2>2 DEF RequestAnchor, repository
<1>7. ASSUME NEW n \in Requests, ServePost(n) PROVE TypeInv'
  <2>. DEFINE s == IF service[post[n].cid] = "NOT_REQUESTED" THEN "PENDING"
                   ELSE service[post[n].cid]
  <2>1. post[n].cid \in Cids /\ s \in Status
    BY <1>7, StatusFacts DEF ServePost, Status
  <2>2. /\ service' = [service EXCEPT ![post[n].cid] = s]
        /\ post' = [post EXCEPT ![n].at = "answered", ![n].status = s]
    BY <1>7 DEF ServePost
  <2>. HIDE DEF s
  <2>3. service' \in [Cids -> Status]
    BY <2>1, <2>2 DEF Status
  <2>4. [post[n] EXCEPT !.at = "answered", !.status = s]
          \in Call({"none", "sent", "answered", "done", "failed"})
    <3>1. post[n] \in Call({"none", "sent", "answered", "done", "failed"})
      OBVIOUS
    <3>. QED BY <2>1, <3>1, CallMoves
  <2>5. post' = [post EXCEPT ![n] = [post[n] EXCEPT !.at = "answered", !.status = s]]
    BY <2>2
  <2>6. /\ post' \in [Requests -> Call({"none", "sent", "answered", "done", "failed"})]
        /\ \A k \in Requests : post'[k].at # "none" <=> post'[k].cid \in Cids
    BY <2>1, <2>4, <2>5
  <2>. QED BY <1>7, <2>3, <2>6 DEF ServePost, repository, Status
<1>8. ASSUME NEW n \in Requests, PostAnswered(n) PROVE TypeInv'
  <2>1. post[n].cid \in Cids /\ post[n].status \in Status
    BY <1>8 DEF PostAnswered, Status
  <2>2. heard' \in [Objects -> [Cids -> Status]]
    BY <1>8, <2>1, ObserveTyped DEF PostAnswered
  <2>3. /\ poll' \in [Requests -> Call({"none", "sent", "answered"})]
        /\ tasks' \subseteq Cids
    BY <1>8, <2>1, StartPollingTyped DEF PostAnswered
  <2>4. \A k \in Requests : poll'[k].at # "none" <=> poll'[k].cid \in Cids
    BY <1>8, <2>1 DEF PostAnswered, StartPolling
  <2>5. /\ post' \in [Requests -> Call({"none", "sent", "answered", "done", "failed"})]
        /\ \A k \in Requests : post'[k].at # "none" <=> post'[k].cid \in Cids
    BY <1>8 DEF PostAnswered
  <2>. QED BY <1>8, <2>2, <2>3, <2>4, <2>5 DEF PostAnswered, repository, Status
<1>9. ASSUME NEW n \in Requests, PostFails(n) PROVE TypeInv'
  <2>1. /\ post' \in [Requests -> Call({"none", "sent", "answered", "done", "failed"})]
        /\ \A k \in Requests : post'[k].at # "none" <=> post'[k].cid \in Cids
    BY <1>9 DEF PostFails
  <2>. QED BY <1>9, <2>1, NodeConstants DEF PostFails, repository
<1>10. ASSUME NEW n \in Requests, ServePoll(n) PROVE TypeInv'
  <2>1. poll[n].cid \in Cids /\ service[poll[n].cid] \in Status
    BY <1>10 DEF ServePoll, Status
  <2>2. /\ poll' \in [Requests -> Call({"none", "sent", "answered"})]
        /\ \A k \in Requests : poll'[k].at # "none" <=> poll'[k].cid \in Cids
    BY <1>10, <2>1 DEF ServePoll, Status
  <2>. QED BY <1>10, <2>2 DEF ServePoll, repository
<1>11. ASSUME NEW n \in Requests, PollAnswered(n) PROVE TypeInv'
  <2>1. poll[n].cid \in Cids /\ poll[n].status \in Status
    BY <1>11 DEF PollAnswered, Status
  <2>2. heard' \in [Objects -> [Cids -> Status]]
    BY <1>11, <2>1, ObserveTyped DEF PollAnswered
  <2>3. /\ poll' \in [Requests -> Call({"none", "sent", "answered"})]
        /\ \A k \in Requests : poll'[k].at # "none" <=> poll'[k].cid \in Cids
        /\ tasks' \subseteq Cids
    <3>1. NoCall \in Call({"none", "sent", "answered"}) /\ NoCall.cid \notin Cids
      BY StatusFacts DEF NoCall, Status
    <3>2. CASE Ends(poll[n].status)
      <4>1. poll' = [poll EXCEPT ![n] = NoCall] /\ tasks' \subseteq tasks
        BY <1>11, <3>2 DEF PollAnswered
      <4>2. NoCall.at = "none"
        BY DEF NoCall
      <4>. HIDE DEF Call
      <4>. QED BY <3>1, <4>1, <4>2
    <3>3. CASE ~Ends(poll[n].status)
      <4>1. poll' = [poll EXCEPT ![n] = [poll[n] EXCEPT !.at = "sent"]] /\ tasks' = tasks
        BY <1>11, <3>3 DEF PollAnswered
      <4>2. [poll[n] EXCEPT !.at = "sent"] \in Call({"none", "sent", "answered"})
        <5>1. poll[n] \in Call({"none", "sent", "answered"})
          OBVIOUS
        <5>. QED BY <2>1, <5>1, CallMoves
      <4>3. poll[n].at # "none"
        BY <1>11 DEF PollAnswered
      <4>. QED BY <4>1, <4>2, <4>3
    <3>. QED BY <3>2, <3>3
  <2>. QED BY <1>11, <2>2, <2>3 DEF PollAnswered, repository, Status
<1>12. ASSUME NEW n \in Requests, PollFails(n) PROVE TypeInv'
  <2>1. object' \in [Objects -> [doc : Docs \cup {None},
                                stream : {"none", "live", "dead", "closed"}]]
    <3>1. \A o \in Objects : [object[o] EXCEPT !.stream = "dead"]
            \in [doc : Docs \cup {None}, stream : {"none", "live", "dead", "closed"}]
      BY StreamDies
    <3>. QED BY <1>12, <3>1 DEF PollFails
  <2>2. /\ poll' \in [Requests -> Call({"none", "sent", "answered"})]
        /\ \A k \in Requests : poll'[k].at # "none" <=> poll'[k].cid \in Cids
    BY <1>12 DEF PollFails
  <2>. QED BY <1>12, <2>1, <2>2, NodeConstants DEF PollFails
<1>13. ASSUME NEW c \in Cids, Progress(c) PROVE TypeInv'
  BY <1>13 DEF Progress, repository, client, Lifecycle!AnchoringStatus
<1>. QED BY <1>1, <1>2, <1>3, <1>4, <1>5, <1>6, <1>7, <1>8, <1>9, <1>10, <1>11,
            <1>12, <1>13 DEF Next, PostStep, PollStep

\* Every variable of the process keeps its type.
THEOREM NodeTypeCorrect == Spec => []TypeOK
<1>1. TypeInv => TypeOK
  BY DEF TypeInv
<1>. QED BY <1>1, TypeInit, TypeStep, PTL DEF Spec

-----------------------------------------------------------------------------
(* The loops.  A request starts one when its POST is answered and not     *)
(* before, so its place for a loop is free then; NamedSchedule lets it     *)
(* only where the record has none.                                         *)

LoopInv ==
  /\ TypeInv
  /\ OneLoopPerRecord
  /\ \A n \in Requests : post[n].at # "done" => poll[n].at = "none"

\* The loops stay where they are, and at most ask or are answered.
LEMMA Moved ==
  ASSUME LoopInv, TypeInv', tasks' = tasks,
         \A n \in Requests : post[n].at = "done" => post'[n].at = "done",
         \A n \in Requests : poll'[n].cid = poll[n].cid,
         \A n \in Requests : poll'[n].at = "none" <=> poll[n].at = "none"
  PROVE  LoopInv'
<1>1. \A n, k \in Requests : poll'[n].at # "none" /\ poll'[n].cid = poll'[k].cid => n = k
  BY DEF LoopInv, OneLoopPerRecord
<1>2. {poll'[n].cid : n \in {k \in Requests : poll'[k].at # "none"}}
        = {poll[n].cid : n \in {k \in Requests : poll[k].at # "none"}}
  <2>. DEFINE Busy == {k \in Requests : poll[k].at # "none"}
  <2>1. {k \in Requests : poll'[k].at # "none"} = Busy
    OBVIOUS
  <2>2. \A n \in Busy : poll'[n].cid = poll[n].cid
    OBVIOUS
  <2>. HIDE DEF Busy
  <2>. QED BY <2>1, <2>2
<1>3. \A n \in Requests : post'[n].at # "done" => poll'[n].at = "none"
  BY DEF LoopInv
<1>. QED BY <1>1, <1>2, <1>3 DEF LoopInv, OneLoopPerRecord

LEMMA LoopStep ==
  ASSUME LoopInv, [Next]_vars
  PROVE  LoopInv'
<1>. USE DEF LoopInv
<1>1. TypeInv'
  BY TypeStep
<1>. DEFINE Free == \A n \in Requests : post[n].at # "done" => poll[n].at = "none"
<1>2. CASE UNCHANGED <<poll, tasks>> /\ \A n \in Requests : post[n].at = "done" => post'[n].at = "done"
  BY <1>1, <1>2 DEF OneLoopPerRecord
<1>3. ASSUME NEW n \in Requests, PostAnswered(n) PROVE LoopInv'
  <2>1. post[n].cid \in Cids /\ poll[n].at = "none" /\ post' = [post EXCEPT ![n].at = "done"]
    BY <1>3 DEF PostAnswered, TypeInv, CallsName
  <2>2. Free'
    BY <1>3, <2>1 DEF PostAnswered, StartPolling, TypeInv, TypeOK
  <2>3. CASE ~NewTask(post[n].cid)
    BY <1>1, <1>3, <2>2, <2>3 DEF PostAnswered, StartPolling, OneLoopPerRecord
  <2>4. CASE NewTask(post[n].cid)
    <3>1. /\ tasks' = tasks \cup {post[n].cid}
          /\ poll' = [poll EXCEPT ![n] =
                       [at |-> "sent", cid |-> post[n].cid, status |-> "NOT_REQUESTED"]]
      BY <1>3, <2>4 DEF PostAnswered, StartPolling
    <3>2. \A k \in Requests : poll[k].at # "none" => poll[k].cid # post[n].cid
      BY <2>4 DEF NewTask, OneLoopPerRecord
    <3>3. \A k \in Requests : poll[k].at = "none" => poll[k].cid \notin Cids
      BY DEF TypeInv, CallsName
    <3>4. OneLoopPerRecord'
      BY <2>1, <3>1, <3>2, <3>3 DEF OneLoopPerRecord, TypeInv, TypeOK
    <3>. QED BY <1>1, <2>2, <3>4
  <2>. QED BY <2>3, <2>4
<1>4. ASSUME NEW n \in Requests, PollAnswered(n) PROVE LoopInv'
  <2>1. CASE ~Ends(poll[n].status)
    <3>1. /\ poll' = [poll EXCEPT ![n].at = "sent"] /\ tasks' = tasks /\ post' = post
          /\ poll[n].at # "none"
      BY <1>4, <2>1 DEF PollAnswered
    <3>2. \A k \in Requests : poll'[k].cid = poll[k].cid /\ (poll'[k].at = "none" <=> poll[k].at = "none")
      BY <3>1 DEF TypeInv, TypeOK, Call
    <3>. QED BY <1>1, <3>1, <3>2, Moved
  <2>2. CASE Ends(poll[n].status)
    <3>1. poll' = [poll EXCEPT ![n] = NoCall] /\ tasks' = tasks \ {poll[n].cid} /\ post' = post
      BY <1>4, <2>2 DEF PollAnswered
    <3>2. poll[n].at # "none" /\ NoCall.at = "none" /\ NoCall.cid = None
      BY <1>4 DEF PollAnswered, NoCall
    <3>3. \A k \in Requests : poll[k].at # "none" => poll[k].cid \in Cids
      BY DEF TypeInv, CallsName
    <3>4. OneLoopPerRecord'
      BY <3>1, <3>2, <3>3, StatusFacts DEF OneLoopPerRecord, TypeInv, TypeOK
    <3>5. Free'
      BY <3>1, <3>2 DEF TypeInv, TypeOK
    <3>. QED BY <1>1, <3>4, <3>5
  <2>. QED BY <2>1, <2>2
<1>5. ASSUME NEW n \in Requests, ServePoll(n) \/ PollFails(n) PROVE LoopInv'
  <2>1. /\ post' = post /\ tasks' = tasks /\ poll[n].at # "none"
        /\ \/ poll' = [poll EXCEPT ![n].at = "sent"]
           \/ poll' = [poll EXCEPT ![n].at = "answered", ![n].status = service[poll[n].cid]]
    BY <1>5 DEF ServePoll, PollFails
  <2>2. \A k \in Requests : poll'[k].cid = poll[k].cid /\ (poll'[k].at = "none" <=> poll[k].at = "none")
    <3>1. poll \in [Requests -> Call({"none", "sent", "answered"})]
      BY DEF TypeInv, TypeOK
    <3>2. CASE poll' = [poll EXCEPT ![n].at = "sent"]
      BY <2>1, <3>1, <3>2 DEF Call
    <3>3. CASE poll' = [poll EXCEPT ![n].at = "answered", ![n].status = service[poll[n].cid]]
      BY <2>1, <3>1, <3>3 DEF Call
    <3>. QED BY <2>1, <3>2, <3>3
  <2>. QED BY <1>1, <2>1, <2>2, Moved
<1>6. ASSUME NEW o \in Objects, NEW c \in Cids, NEW n \in Requests, RequestAnchor(o, c, n)
      PROVE  LoopInv'
  <2>1. \A k \in Requests : post[k].at = "done" => post'[k].at = "done"
    <3>1. post[n].at = "none" /\ \A k \in Requests \ {n} : post'[k] = post[k]
      BY <1>6 DEF RequestAnchor, TypeInv, TypeOK, Requests
    <3>. QED BY <3>1
  <2>. QED BY <1>2, <1>6, <2>1 DEF RequestAnchor
<1>7. ASSUME NEW n \in Requests, ServePost(n) \/ PostFails(n) PROVE LoopInv'
  BY <1>2, <1>7 DEF ServePost, PostFails, TypeInv, TypeOK
<1>. QED
  BY <1>2, <1>3, <1>4, <1>5, <1>6, <1>7
  DEF Next, PostStep, PollStep, Load, LoadFails, Construct, Close, Progress, client, vars

\* A record has one loop at most, and its name is on record while it has.
THEOREM OneLoop == Spec => []OneLoopPerRecord
<1>1. Init => LoopInv
  BY TypeInit DEF Init, LoopInv, OneLoopPerRecord, NoCall
<1>2. LoopInv => OneLoopPerRecord
  BY DEF LoopInv
<1>. QED BY <1>1, <1>2, LoopStep, PTL DEF Spec

-----------------------------------------------------------------------------
(* The objects.  While the one load of a document is under way, the cache  *)
(* has nothing of it, and then neither has anybody else.                   *)

ObjectInv ==
  /\ TypeInv
  /\ OneObjectUnlessRaced
  /\ \A d \in Docs \ raced : loading[d] > 0 => loading[d] = 1 /\ cache[d] = None

LEMMA ObjectStep ==
  ASSUME ObjectInv, [Next]_vars
  PROVE  ObjectInv'
<1>. USE DEF ObjectInv
<1>1. TypeInv'
  BY TypeStep
<1>2. CASE /\ UNCHANGED <<cache, loading, raced>>
           /\ \A o \in Objects : object'[o].doc = object[o].doc
  BY <1>1, <1>2 DEF OneObjectUnlessRaced
<1>3. ASSUME NEW d \in Docs, Load(d) PROVE ObjectInv'
  BY <1>1, <1>3 DEF Load, OneObjectUnlessRaced, TypeInv, TypeOK
<1>4. ASSUME NEW d \in Docs, LoadFails(d) PROVE ObjectInv'
  BY <1>1, <1>4 DEF LoadFails, OneObjectUnlessRaced, TypeInv, TypeOK
<1>5. ASSUME NEW d \in Docs, NEW o \in Objects, Construct(d, o) PROVE ObjectInv'
  <2>1. /\ cache' = [cache EXCEPT ![d] = o] /\ raced' = raced
        /\ loading[d] > 0 /\ loading' = [loading EXCEPT ![d] = @ - 1]
        /\ object'[o].doc = d
        /\ \A k \in Objects \ {o} : object'[k] = object[k]
    BY <1>5 DEF Construct, CacheWith, TypeInv, TypeOK
  <2>2. d \notin raced => \A k \in Objects : object[k].doc # d
    BY <2>1, StatusFacts DEF OneObjectUnlessRaced
  <2>3. OneObjectUnlessRaced'
    BY <2>1, <2>2, StatusFacts DEF OneObjectUnlessRaced, TypeInv, TypeOK
  <2>4. \A e \in Docs \ raced' : loading'[e] > 0 => loading'[e] = 1 /\ cache'[e] = None
    BY <2>1 DEF TypeInv, TypeOK
  <2>. QED BY <1>1, <2>3, <2>4
<1>6. CASE Close
  BY <1>2, <1>6 DEF Close, TypeInv, TypeOK
<1>7. ASSUME NEW n \in Requests, PollFails(n) PROVE ObjectInv'
  BY <1>2, <1>7 DEF PollFails, TypeInv, TypeOK
<1>. QED
  BY <1>2, <1>3, <1>4, <1>5, <1>6, <1>7
  DEF Next, PostStep, PollStep, RequestAnchor, ServePost, PostAnswered, PostFails,
      ServePoll, PollAnswered, Progress, repository, vars

\* A document whose loads did not overlap has one object, the cached one.
THEOREM OneObject == Spec => []OneObjectUnlessRaced
<1>1. Init => ObjectInv
  BY TypeInit DEF Init, ObjectInv, OneObjectUnlessRaced
<1>2. ObjectInv => OneObjectUnlessRaced
  BY DEF ObjectInv
<1>. QED BY <1>1, <1>2, ObjectStep, PTL DEF Spec

-----------------------------------------------------------------------------
(* The order in which an anchor is heard of.  What an object has heard, and *)
(* what is on its way to it, is never ahead of the service.  Of a record    *)
(* that was asked for once, one answer at most is on its way, and it is not *)
(* behind what has been heard.                                              *)

LEMMA OrderFacts ==
  /\ \A s : Order(s) \in 0..3
  /\ Order("NOT_REQUESTED") = 0 /\ Order("PENDING") = 1
  /\ \A s, t : <<s, t>> \in Lifecycle!Edges => Order(s) <= Order(t)
BY DEF Order, Lifecycle!Edges

AskedOnce(c) == \A n, k \in Requests : post[n].cid = c /\ post[k].cid = c => n = k

OnItsWay(n, c, s) ==
  \/ post[n].at = "answered" /\ post[n].cid = c /\ post[n].status = s
  \/ poll[n].at = "answered" /\ poll[n].cid = c /\ poll[n].status = s

LoopOfPost == \A n \in Requests : poll[n].at # "none" => poll[n].cid = post[n].cid

NotAhead ==
  \A c \in Cids :
    /\ \A o \in Objects : Order(heard[o][c]) <= Order(service[c])
    /\ \A n \in Requests : \A s : OnItsWay(n, c, s) => Order(s) <= Order(service[c])

NotBehind ==
  \A c \in Cids, n \in Requests, o \in Objects : \A s :
    AskedOnce(c) /\ OnItsWay(n, c, s) => Order(heard[o][c]) <= Order(s)

HearInv == LoopInv /\ LoopOfPost /\ NotAhead /\ NotBehind

\* What a step may do to the requests: none forgets its record.
LEMMA PostsStay ==
  ASSUME HearInv, [Next]_vars, NEW n \in Requests, post[n].cid \in Cids
  PROVE  post'[n].cid = post[n].cid
<1>. USE DEF HearInv, LoopInv, TypeInv, TypeOK
<1>1. ASSUME NEW o \in Objects, NEW c \in Cids, NEW k \in Requests, RequestAnchor(o, c, k)
      PROVE  post'[n].cid = post[n].cid
  <2>1. post[k].at = "none" /\ \A m \in Requests \ {k} : post'[m] = post[m]
    BY <1>1 DEF RequestAnchor, Requests
  <2>. QED BY <2>1 DEF CallsName
<1>2. ASSUME NEW k \in Requests, ServePost(k) PROVE post'[n].cid = post[n].cid
  BY <1>2 DEF ServePost, Call
<1>3. ASSUME NEW k \in Requests, PostAnswered(k) \/ PostFails(k)
      PROVE  post'[n].cid = post[n].cid
  <2>1. \E place : post' = [post EXCEPT ![k].at = place]
    BY <1>3 DEF PostAnswered, PostFails
  <2>. QED BY <2>1 DEF Call
<1>. QED
  BY <1>1, <1>2, <1>3
  DEF Next, PostStep, PollStep, Load, LoadFails, Construct, Close, Progress, ServePoll,
      PollAnswered, PollFails, client, vars

\* Whoever is asked for once after a step was asked for once at most before it.
LEMMA OnceBefore ==
  ASSUME HearInv, [Next]_vars, NEW c \in Cids, AskedOnce(c)'
  PROVE  AskedOnce(c)
BY PostsStay DEF AskedOnce

\* An answer that is heard was the only one of its record on its way.
LEMMA HearStep ==
  ASSUME HearInv, [Next]_vars,
         NEW m \in Requests, NEW d \in Cids, NEW t, OnItsWay(m, d, t), Observe(d, t),
         service' = service, LoopOfPost',
         \A n \in Requests, c \in Cids : \A s : OnItsWay(n, c, s)' =>
           OnItsWay(n, c, s) /\ n # m
  PROVE  NotAhead' /\ NotBehind'
<1>. USE DEF HearInv, LoopInv, TypeInv, TypeOK
<1>1. ASSUME NEW o \in Objects, NEW c \in Cids
      PROVE  heard'[o][c] = heard[o][c] \/ (c = d /\ heard'[o][c] = t)
  BY DEF Observe
<1>2. NotAhead'
  BY <1>1 DEF NotAhead
<1>3. ASSUME NEW c \in Cids, NEW n \in Requests, NEW o \in Objects, NEW s,
             AskedOnce(c)', OnItsWay(n, c, s)'
      PROVE  Order(heard'[o][c]) <= Order(s)
  <2>1. AskedOnce(c) /\ OnItsWay(n, c, s) /\ n # m
    BY <1>3, OnceBefore
  <2>2. c # d
    <3>1. \A k \in Requests : \A e \in Cids : \A u : OnItsWay(k, e, u) => post[k].cid = e
      BY DEF OnItsWay, LoopOfPost
    <3>. QED BY <2>1, <3>1 DEF AskedOnce
  <2>3. heard'[o][c] = heard[o][c]
    BY <1>1, <2>2
  <2>. QED BY <2>1, <2>3 DEF NotBehind
<1>. QED BY <1>2, <1>3 DEF NotBehind

\* A step that nobody hears: what is on its way was so before, or is what the
\* service says now.
LEMMA SilentStep ==
  ASSUME HearInv, [Next]_vars, heard' = heard,
         \A c \in Cids : Order(service[c]) <= Order(service'[c]),
         \A n \in Requests, c \in Cids : \A s : OnItsWay(n, c, s)' =>
           OnItsWay(n, c, s) \/ s = service'[c]
  PROVE  NotAhead' /\ NotBehind'
<1>. USE DEF HearInv
<1>1. \A c \in Cids : Order(service[c]) \in Nat /\ Order(service'[c]) \in Nat
  BY OrderFacts
<1>2. \A o \in Objects, c \in Cids : Order(heard[o][c]) \in Nat
  BY OrderFacts
<1>3. NotAhead'
  <2>1. ASSUME NEW c \in Cids, NEW o \in Objects
        PROVE  Order(heard'[o][c]) <= Order(service'[c])
    BY <1>1, <1>2 DEF NotAhead
  <2>2. ASSUME NEW c \in Cids, NEW n \in Requests, NEW s, OnItsWay(n, c, s)'
        PROVE  Order(s) <= Order(service'[c])
    BY <1>1, <2>2, OrderFacts DEF NotAhead
  <2>. QED BY <2>1, <2>2 DEF NotAhead
<1>4. ASSUME NEW c \in Cids, NEW n \in Requests, NEW o \in Objects, NEW s,
             AskedOnce(c)', OnItsWay(n, c, s)'
      PROVE  Order(heard'[o][c]) <= Order(s)
  <2>1. AskedOnce(c)
    BY <1>4, OnceBefore
  <2>2. CASE OnItsWay(n, c, s)
    BY <2>1, <2>2 DEF NotBehind
  <2>3. CASE s = service'[c]
    BY <1>1, <1>2, <2>3 DEF NotAhead
  <2>. QED BY <1>4, <2>2, <2>3
<1>. QED BY <1>3, <1>4 DEF NotBehind

LEMMA LoopOfPostStep ==
  ASSUME HearInv, [Next]_vars
  PROVE  LoopOfPost'
<1>. USE DEF HearInv, LoopInv, TypeInv, TypeOK
<1>1. \A n \in Requests : post[n].cid \in Cids => post'[n].cid = post[n].cid
  BY PostsStay
<1>2. \A n \in Requests : poll[n].at # "none" => poll[n].cid \in Cids
  BY DEF CallsName
<1>3. CASE \A n \in Requests : poll'[n].at # "none" =>
             poll[n].at # "none" /\ poll'[n].cid = poll[n].cid
  BY <1>1, <1>2, <1>3 DEF LoopOfPost
<1>4. ASSUME NEW n \in Requests, PostAnswered(n) PROVE LoopOfPost'
  <2>1. post[n].cid \in Cids
    BY <1>4 DEF PostAnswered, CallsName
  <2>2. \/ poll' = poll
        \/ poll' = [poll EXCEPT ![n] = [at |-> "sent", cid |-> post[n].cid,
                                        status |-> "NOT_REQUESTED"]]
    BY <1>4 DEF PostAnswered, StartPolling
  <2>3. CASE poll' = poll
    BY <1>3, <2>3
  <2>4. CASE poll' = [poll EXCEPT ![n] = [at |-> "sent", cid |-> post[n].cid,
                                         status |-> "NOT_REQUESTED"]]
    <3>1. poll'[n].cid = post[n].cid /\ \A k \in Requests \ {n} : poll'[k] = poll[k]
      BY <2>4
    <3>2. ASSUME NEW k \in Requests, poll'[k].at # "none" PROVE poll'[k].cid = post'[k].cid
      <4>1. k # n => poll[k].at # "none" /\ poll'[k].cid = poll[k].cid
        BY <3>1, <3>2
      <4>. QED BY <1>1, <1>2, <2>1, <3>1, <4>1 DEF LoopOfPost
    <3>. QED BY <3>2 DEF LoopOfPost
  <2>. QED BY <2>2, <2>3, <2>4
<1>5. ASSUME NEW n \in Requests, ServePoll(n) \/ PollFails(n) PROVE LoopOfPost'
  <2>1. /\ poll[n].at # "none"
        /\ \/ poll' = [poll EXCEPT ![n].at = "sent"]
           \/ poll' = [poll EXCEPT ![n].at = "answered", ![n].status = service[poll[n].cid]]
    BY <1>5 DEF ServePoll, PollFails
  <2>2. \A k \in Requests : poll'[k].at # "none" =>
          poll[k].at # "none" /\ poll'[k].cid = poll[k].cid
    <3>1. CASE poll' = [poll EXCEPT ![n].at = "sent"]
      BY <2>1, <3>1 DEF Call
    <3>2. CASE poll' = [poll EXCEPT ![n].at = "answered", ![n].status = service[poll[n].cid]]
      BY <2>1, <3>2 DEF Call
    <3>. QED BY <2>1, <3>1, <3>2
  <2>. QED BY <1>3, <2>2
<1>6. ASSUME NEW n \in Requests, PollAnswered(n) PROVE LoopOfPost'
  <2>1. /\ poll[n].at # "none"
        /\ \/ poll' = [poll EXCEPT ![n] = NoCall]
           \/ poll' = [poll EXCEPT ![n].at = "sent"]
    BY <1>6 DEF PollAnswered
  <2>2. \A k \in Requests : poll'[k].at # "none" =>
          poll[k].at # "none" /\ poll'[k].cid = poll[k].cid
    <3>1. CASE poll' = [poll EXCEPT ![n] = NoCall]
      BY <3>1 DEF NoCall
    <3>2. CASE poll' = [poll EXCEPT ![n].at = "sent"]
      BY <2>1, <3>2 DEF Call
    <3>. QED BY <2>1, <3>1, <3>2
  <2>. QED BY <1>3, <2>2
<1>. QED
  BY <1>3, <1>4, <1>5, <1>6
  DEF Next, PostStep, PollStep, Load, LoadFails, Construct, Close, Progress, RequestAnchor,
      ServePost, PostFails, client, vars

LEMMA OrderStep ==
  ASSUME HearInv, [Next]_vars
  PROVE  HearInv'
<1>. USE DEF HearInv, LoopInv, TypeInv, TypeOK
<1>1. LoopInv' /\ LoopOfPost'
  BY LoopStep, LoopOfPostStep
<1>. SUFFICES NotAhead' /\ NotBehind'
  BY <1>1
<1>2. ASSUME UNCHANGED <<post, poll, heard>>,
             \A c \in Cids : Order(service[c]) <= Order(service'[c])
      PROVE  NotAhead' /\ NotBehind'
  BY <1>2, SilentStep DEF OnItsWay
<1>3. ASSUME UNCHANGED <<heard, service>>,
             \A n \in Requests, c \in Cids : \A s :
               OnItsWay(n, c, s)' => OnItsWay(n, c, s) \/ s = service[c]
      PROVE  NotAhead' /\ NotBehind'
  <2>1. \A c \in Cids : Order(service[c]) <= Order(service'[c])
    BY <1>3, OrderFacts
  <2>. QED BY <1>3, <2>1, SilentStep
<1>4. ASSUME NEW o \in Objects, NEW c \in Cids, NEW n \in Requests, RequestAnchor(o, c, n)
      PROVE  NotAhead' /\ NotBehind'
  <2>1. /\ post' = [post EXCEPT ![n] = [at |-> "sent", cid |-> c, status |-> "NOT_REQUESTED"]]
        /\ UNCHANGED <<poll, heard, service>>
    BY <1>4 DEF RequestAnchor
  <2>. QED BY <1>3, <2>1 DEF OnItsWay
<1>5. ASSUME NEW n \in Requests, ServePost(n) PROVE NotAhead' /\ NotBehind'
  <2>. DEFINE d == post[n].cid
              t == IF service[d] = "NOT_REQUESTED" THEN "PENDING" ELSE service[d]
  <2>1. /\ d \in Cids
        /\ service' = [service EXCEPT ![d] = t]
        /\ post' = [post EXCEPT ![n].at = "answered", ![n].status = t]
        /\ UNCHANGED <<poll, heard>>
    BY <1>5 DEF ServePost, CallsName
  <2>2. service'[d] = t /\ Order(service[d]) <= Order(t)
    BY <2>1, OrderFacts
  <2>3. \A c \in Cids : Order(service[c]) <= Order(service'[c])
    BY <2>1, <2>2, OrderFacts
  <2>4. post'[n].status = t /\ post'[n].cid = d /\ \A k \in Requests \ {n} : post'[k] = post[k]
    BY <2>1 DEF Call
  <2>. HIDE DEF t
  <2>5. \A k \in Requests, c \in Cids : \A s :
          OnItsWay(k, c, s)' => OnItsWay(k, c, s) \/ s = service'[c]
    BY <2>1, <2>2, <2>4 DEF OnItsWay
  <2>. QED BY <2>1, <2>3, <2>5, SilentStep
<1>6. ASSUME NEW n \in Requests, PostAnswered(n) PROVE NotAhead' /\ NotBehind'
  <2>. DEFINE d == post[n].cid  t == post[n].status
  <2>1. d \in Cids /\ OnItsWay(n, d, t) /\ Observe(d, t) /\ service' = service
    BY <1>6 DEF PostAnswered, CallsName, OnItsWay
  <2>2. /\ post' = [post EXCEPT ![n].at = "done"]
        /\ \/ poll' = poll
           \/ poll' = [poll EXCEPT ![n] = [at |-> "sent", cid |-> d, status |-> "NOT_REQUESTED"]]
    BY <1>6 DEF PostAnswered, StartPolling
  <2>3. poll[n].at = "none"
    BY <1>6 DEF PostAnswered
  <2>4. \A k \in Requests, c \in Cids : \A s : OnItsWay(k, c, s)' => OnItsWay(k, c, s) /\ k # n
    BY <2>2, <2>3 DEF OnItsWay, Call
  <2>. QED BY <1>1, <2>1, <2>4, HearStep
<1>7. ASSUME NEW n \in Requests, PollAnswered(n) PROVE NotAhead' /\ NotBehind'
  <2>. DEFINE d == poll[n].cid  t == poll[n].status
  <2>1. d \in Cids /\ OnItsWay(n, d, t) /\ Observe(d, t) /\ service' = service /\ post' = post
    BY <1>7 DEF PollAnswered, CallsName, OnItsWay
  <2>2. poll' = [poll EXCEPT ![n] = NoCall] \/ poll' = [poll EXCEPT ![n].at = "sent"]
    BY <1>7 DEF PollAnswered
  <2>3. post[n].at = "done"
    BY <1>7 DEF PollAnswered
  <2>4. \A k \in Requests, c \in Cids : \A s : OnItsWay(k, c, s)' => OnItsWay(k, c, s) /\ k # n
    BY <2>1, <2>2, <2>3 DEF OnItsWay, Call, NoCall
  <2>. QED BY <1>1, <2>1, <2>4, HearStep
<1>8. ASSUME NEW n \in Requests, PostFails(n) PROVE NotAhead' /\ NotBehind'
  <2>1. post' = [post EXCEPT ![n].at = "failed"] /\ UNCHANGED <<poll, heard, service>>
    BY <1>8 DEF PostFails
  <2>. QED BY <1>3, <2>1 DEF OnItsWay, Call
<1>9. ASSUME NEW n \in Requests, ServePoll(n) PROVE NotAhead' /\ NotBehind'
  <2>1. /\ poll' = [poll EXCEPT ![n].at = "answered", ![n].status = service[poll[n].cid]]
        /\ UNCHANGED <<post, heard, service>>
    BY <1>9 DEF ServePoll
  <2>. QED BY <1>3, <2>1 DEF OnItsWay, Call
<1>10. ASSUME NEW n \in Requests, PollFails(n) PROVE NotAhead' /\ NotBehind'
  <2>1. poll' = [poll EXCEPT ![n].at = "sent"] /\ UNCHANGED <<post, heard, service>>
    BY <1>10 DEF PollFails
  <2>. QED BY <1>3, <2>1 DEF OnItsWay, Call
<1>11. ASSUME NEW d \in Cids, Progress(d) PROVE NotAhead' /\ NotBehind'
  <2>1. PICK s \in {"PROCESSING", "ANCHORED", "OUTDATED"} :
          <<service[d], s>> \in Lifecycle!Edges /\ service' = [service EXCEPT ![d] = s]
    BY <1>11 DEF Progress
  <2>2. \A c \in Cids : Order(service[c]) <= Order(service'[c])
    BY <2>1, OrderFacts
  <2>. QED BY <1>2, <1>11, <2>2 DEF Progress, client
<1>12. ASSUME UNCHANGED <<post, poll, heard, service>> PROVE NotAhead' /\ NotBehind'
  BY <1>2, <1>12, OrderFacts
<1>. QED
  BY <1>4, <1>5, <1>6, <1>7, <1>8, <1>9, <1>10, <1>11, <1>12
  DEF Next, PostStep, PollStep, Load, LoadFails, Construct, Close, client, vars

\* What an object hears in a step was on its way.
LEMMA HeardWasOnItsWay ==
  ASSUME HearInv, [Next]_vars, NEW o \in Objects, NEW c \in Cids
  PROVE  \/ heard'[o][c] = heard[o][c]
         \/ \E n \in Requests : OnItsWay(n, c, heard'[o][c])
<1>. USE DEF HearInv, LoopInv, TypeInv, TypeOK
<1>1. ASSUME NEW n \in Requests, PostAnswered(n) \/ PollAnswered(n)
      PROVE  \/ heard'[o][c] = heard[o][c]
             \/ OnItsWay(n, c, heard'[o][c])
  <2>1. PICK d \in Cids, s \in Status : OnItsWay(n, d, s) /\ Observe(d, s)
    BY <1>1 DEF PostAnswered, PollAnswered, OnItsWay, CallsName, Call, Status
  <2>2. heard'[o][c] = heard[o][c] \/ (c = d /\ heard'[o][c] = s)
    BY <2>1 DEF Observe
  <2>. QED BY <2>1, <2>2
<1>. QED
  BY <1>1
  DEF Next, PostStep, PollStep, Load, LoadFails, Construct, Close, RequestAnchor, ServePost,
      PostFails, ServePoll, PollFails, Progress, client, vars

LEMMA OneRequestIsAskedOnce ==
  \A c \in Cids : Cardinality({n \in Requests : post[n].cid = c}) = 1 => AskedOnce(c)
<1>. SUFFICES ASSUME NEW c \in Cids, Cardinality({n \in Requests : post[n].cid = c}) = 1
              PROVE  AskedOnce(c)
  OBVIOUS
<1>. DEFINE asking == {n \in Requests : post[n].cid = c}
<1>1. IsFiniteSet(asking)
  BY NodeConstants, FS_Interval, FS_Subset DEF Requests
<1>2. PICK n : asking = {n}
  BY <1>1, FS_Singleton
<1>. QED BY <1>2 DEF AskedOnce

\* An anchor that was asked for once is heard of in the order of its life.
THEOREM HeardInOrderAlways == Spec => HeardInOrder
<1>. DEFINE InOrder == \A o \in Objects, c \in Cids :
              Cardinality({n \in Requests : post'[n].cid = c}) = 1 =>
                Order(heard[o][c]) <= Order(heard'[o][c])
<1>0. (\A c \in Cids : Cardinality({n \in Requests : post[n].cid = c}) = 1 => AskedOnce(c))'
  BY OneRequestIsAskedOnce, PTL
<1>1. Init => HearInv
  <2>1. Init => LoopInv
    BY TypeInit DEF Init, LoopInv, OneLoopPerRecord, NoCall
  <2>2. Init => LoopOfPost /\ NotAhead /\ NotBehind
    BY OrderFacts DEF Init, LoopOfPost, NotAhead, NotBehind, OnItsWay, NoCall
  <2>. QED BY <2>1, <2>2 DEF HearInv
<1>2. HearInv /\ [Next]_vars => HearInv'
  BY OrderStep
<1>3. HearInv /\ [Next]_vars => [InOrder]_vars
  <2>. SUFFICES ASSUME HearInv, [Next]_vars, NEW o \in Objects, NEW c \in Cids,
                       Cardinality({n \in Requests : post'[n].cid = c}) = 1
                PROVE  Order(heard[o][c]) <= Order(heard'[o][c])
    OBVIOUS
  <2>1. AskedOnce(c)'
    BY <1>0
  <2>2. AskedOnce(c)
    BY <2>1, OnceBefore
  <2>. QED BY <2>2, HeardWasOnItsWay, OrderFacts DEF HearInv, NotBehind
<1>. QED BY <1>1, <1>2, <1>3, PTL DEF Spec, HeardInOrder

-----------------------------------------------------------------------------
(* What was asked for is pursued.  An object that was asked for a record is  *)
(* one of the record's document, so that it hears what is said of it while   *)
(* it listens; a POST that is answered leaves a loop, its own or the one     *)
(* that holds the name; and a loop ends with a status that all who listen    *)
(* have heard.                                                               *)

Pursued(c) ==
  \/ \E n \in Requests : post[n].cid = c /\ post[n].at \in {"sent", "answered", "failed"}
  \/ \E n \in Requests : poll[n].cid = c /\ poll[n].at # "none"

PursueInv ==
  /\ LoopInv
  /\ UnheardIsPursued
  /\ \A o \in Objects : \A c \in owed[o] : object[o].doc = DocOf[c]
  /\ \A o \in Objects : object[o].stream = "live" => subject = "open"
  /\ \A o \in Objects : object[o].stream = "none" => object[o].doc = None

LEMMA UnheardMeans ==
  UnheardIsPursued <=>
    \A o \in Objects : object[o].stream = "live" =>
      \A c \in owed[o] : heard[o][c] \in Final \/ Pursued(c)
BY DEF UnheardIsPursued, Pursued

\* Nobody starts to listen, and what is pursued stays so.
LEMMA StillPursued ==
  ASSUME PursueInv, LoopInv', UNCHANGED <<owed, heard, subject>>,
         \A o \in Objects : object'[o].doc = object[o].doc,
         \A o \in Objects : object'[o].stream = "live" => object[o].stream = "live",
         \A o \in Objects : object'[o].stream = "none" => object[o].stream = "none",
         \A c \in Cids : Pursued(c) => Pursued(c)'
  PROVE  PursueInv'
<1>1. \A o \in Objects : owed[o] \subseteq Cids
  BY DEF PursueInv, LoopInv, TypeInv, TypeOK
<1>2. UnheardIsPursued'
  BY <1>1, UnheardMeans DEF PursueInv, UnheardIsPursued, Pursued
<1>. QED BY <1>2 DEF PursueInv

\* The answer of record d is heard: either the record goes on being pursued, or
\* it was the end.
LEMMA HeardOrPursued ==
  ASSUME PursueInv, LoopInv', UNCHANGED <<owed, object, subject>>,
         NEW d \in Cids, NEW s \in Status, Observe(d, s),
         s \in Final \/ Pursued(d)',
         \A c \in Cids \ {d} : Pursued(c) => Pursued(c)'
  PROVE  PursueInv'
<1>1. ASSUME NEW o \in Objects, object[o].stream = "live", NEW c \in owed[o]
      PROVE  heard'[o][c] \in Final \/ Pursued(c)'
  <2>1. c \in Cids /\ heard[o] \in [Cids -> Status]
    BY DEF PursueInv, LoopInv, TypeInv, TypeOK, Status
  <2>2. subject = "open" /\ object[o].doc = DocOf[c]
    BY <1>1 DEF PursueInv
  <2>3. CASE c = d
    <3>1. Listens(o, d)
      BY <1>1, <2>2, <2>3 DEF Listens
    <3>2. heard'[o][c] = s
      BY <2>1, <2>2, <2>3, <3>1 DEF Observe
    <3>. QED BY <2>3, <3>2
  <2>4. CASE c # d
    <3>1. heard'[o][c] = heard[o][c]
      BY <2>1, <2>4 DEF Observe
    <3>2. heard[o][c] \in Final \/ Pursued(c)
      BY <1>1, UnheardMeans DEF PursueInv
    <3>. QED BY <2>1, <2>4, <3>1, <3>2
  <2>. QED BY <2>3, <2>4
<1>2. UnheardIsPursued'
  BY <1>1 DEF UnheardIsPursued, Pursued
<1>. QED BY <1>2 DEF PursueInv

LEMMA PursueStep ==
  ASSUME PursueInv, [Next]_vars
  PROVE  PursueInv'
<1>0. LoopInv'
  BY LoopStep DEF PursueInv
<1>t. TypeInv /\ TypeOK
  BY DEF PursueInv, LoopInv, TypeInv
<1>1. CASE UNCHANGED <<client, object, owed, heard>>
  BY <1>0, <1>1, StillPursued DEF client, Pursued
<1>2. ASSUME NEW d \in Docs, NEW k \in Objects, Construct(d, k) PROVE PursueInv'
  <2>1. /\ object[k].stream = "none" /\ UNCHANGED <<client, owed, heard>>
        /\ object' = [object EXCEPT ![k] =
                        [doc |-> d, stream |-> IF subject = "open" THEN "live" ELSE "dead"]]
    BY <1>2 DEF Construct, Objects
  <2>2. owed[k] = {}
    <3>1. \A c \in owed[k] : DocOf[c] = None /\ DocOf[c] \in Docs
      BY <1>t, <2>1, NodeConstants DEF PursueInv, TypeOK
    <3>. QED BY <3>1, StatusFacts
  <2>3. /\ object'[k].doc = d /\ object'[k].stream # "none"
        /\ object'[k].stream = "live" => subject = "open"
        /\ \A o \in Objects \ {k} : object'[o] = object[o]
    BY <1>t, <2>1 DEF TypeOK
  <2>4. UnheardIsPursued'
    BY <2>1, <2>2, <2>3 DEF PursueInv, UnheardIsPursued, client
  <2>. QED BY <1>0, <2>1, <2>2, <2>3, <2>4 DEF PursueInv, client
<1>3. CASE Close
  <2>1. /\ UNCHANGED <<client, owed, heard>>
        /\ \A o \in Objects :
             object'[o] \in {object[o], [object[o] EXCEPT !.stream = "closed"]}
    BY <1>3 DEF Close
  <2>2. \A o \in Objects : /\ object'[o].doc = object[o].doc
                           /\ object'[o].stream = "live" => object[o].stream = "live"
                           /\ object'[o].stream = "none" => object[o].stream = "none"
    BY <1>t, <2>1 DEF TypeOK
  <2>. QED BY <1>0, <2>1, <2>2, StillPursued DEF client, Pursued
<1>4. ASSUME NEW n \in Requests, PollFails(n) PROVE PursueInv'
  <2>1. /\ UNCHANGED owed /\ subject' = "errored"
        /\ \A o \in Objects : object'[o] = IF object[o].stream = "live"
                                           THEN [object[o] EXCEPT !.stream = "dead"]
                                           ELSE object[o]
    BY <1>4 DEF PollFails
  <2>2. \A o \in Objects : /\ object'[o].doc = object[o].doc
                           /\ object'[o].stream # "live"
                           /\ object'[o].stream = "none" => object[o].stream = "none"
    BY <1>t, <2>1 DEF TypeOK
  <2>. QED BY <1>0, <2>1, <2>2 DEF PursueInv, UnheardIsPursued
<1>5. ASSUME NEW o \in Objects, NEW c \in Cids, NEW n \in Requests, RequestAnchor(o, c, n)
      PROVE  PursueInv'
  <2>1. /\ object[o].doc = DocOf[c] /\ post[n].at = "none"
        /\ post' = [post EXCEPT ![n] = [at |-> "sent", cid |-> c, status |-> "NOT_REQUESTED"]]
        /\ owed' = owed \/ owed' = [owed EXCEPT ![o] = @ \cup {c}]
        /\ UNCHANGED <<object, subject, poll, heard>>
    BY <1>5 DEF RequestAnchor, Requests, repository
  <2>2. post'[n].cid = c /\ post'[n].at = "sent" /\ \A k \in Requests \ {n} : post'[k] = post[k]
    BY <1>t, <2>1 DEF TypeOK
  <2>3. Pursued(c)' /\ \A d \in Cids : Pursued(d) => Pursued(d)'
    BY <2>1, <2>2 DEF Pursued
  <2>4. \A k \in Objects : \A d \in owed'[k] : (d = c /\ k = o) \/ d \in owed[k]
    BY <1>t, <2>1 DEF TypeOK
  <2>5. \A k \in Objects : owed[k] \subseteq Cids
    BY <1>t DEF TypeOK
  <2>6. UnheardIsPursued'
    <3>1. ASSUME NEW k \in Objects, object[k].stream = "live", NEW d \in owed'[k]
          PROVE  heard[k][d] \in Final \/ Pursued(d)'
      BY <2>3, <2>4, <2>5, <3>1, UnheardMeans DEF PursueInv
    <3>. QED BY <2>1, <3>1 DEF UnheardIsPursued, Pursued
  <2>. QED BY <1>0, <2>1, <2>4, <2>6 DEF PursueInv
<1>6. ASSUME NEW n \in Requests, ServePost(n) \/ PostFails(n) PROVE PursueInv'
  <2>1. /\ UNCHANGED <<object, subject, poll, owed, heard>> /\ post[n].at \in {"sent", "answered"}
        /\ \E place \in {"answered", "failed"} : \E s :
             post' = [post EXCEPT ![n] = [post[n] EXCEPT !.at = place, !.status = s]]
    <3>1. CASE ServePost(n)
      BY <3>1 DEF ServePost, repository
    <3>2. CASE PostFails(n)
      <4>1. [post[n] EXCEPT !.at = "failed"]
              = [post[n] EXCEPT !.at = "failed", !.status = post[n].status]
        BY <1>t DEF TypeOK, Call
      <4>2. post' = [post EXCEPT ![n] = [post[n] EXCEPT !.at = "failed"]]
        BY <3>2 DEF PostFails
      <4>. QED BY <3>2, <4>1, <4>2 DEF PostFails, repository
    <3>. QED BY <1>6, <3>1, <3>2
  <2>2. /\ post'[n].cid = post[n].cid /\ post'[n].at \in {"answered", "failed"}
        /\ \A k \in Requests \ {n} : post'[k] = post[k]
    BY <1>t, <2>1 DEF TypeOK, Call
  <2>3. \A d \in Cids : Pursued(d) => Pursued(d)'
    BY <2>1, <2>2 DEF Pursued
  <2>. QED BY <1>0, <2>1, <2>3, StillPursued
<1>7. ASSUME NEW n \in Requests, PostAnswered(n) PROVE PursueInv'
  <2>1. PICK d \in Cids, s \in Status : d = post[n].cid /\ s = post[n].status
    BY <1>7, <1>t DEF PostAnswered, TypeInv, CallsName, TypeOK, Call, Status
  <2>2. /\ Observe(d, s) /\ UNCHANGED <<object, subject, owed>> /\ StartPolling(d, n)
        /\ post' = [post EXCEPT ![n].at = "done"]
    BY <1>7, <2>1 DEF PostAnswered, repository
  <2>3. post[n].at = "answered" /\ poll[n].at = "none"
    BY <1>7 DEF PostAnswered, PursueInv, LoopInv
  <2>4. \A k \in Requests \ {n} : post'[k] = post[k]
    BY <1>t, <2>2 DEF TypeOK
  <2>5. \A k \in Requests : poll[k].at # "none" => poll'[k] = poll[k]
    BY <1>t, <2>2, <2>3 DEF StartPolling, TypeOK
  <2>6. \A c \in Cids \ {d} : Pursued(c) => Pursued(c)'
    BY <2>1, <2>4, <2>5 DEF Pursued
  <2>7. Pursued(d)'
    <3>1. CASE NewTask(d)
      <4>1. poll'[n].cid = d /\ poll'[n].at = "sent"
        BY <1>t, <2>2, <3>1 DEF StartPolling, TypeOK
      <4>. QED BY <4>1 DEF Pursued
    <3>2. CASE ~NewTask(d)
      <4>1. PICK k \in Requests : poll[k].at # "none" /\ poll[k].cid = d
        BY <3>2 DEF NewTask, PursueInv, LoopInv, OneLoopPerRecord
      <4>. QED BY <2>5, <4>1 DEF Pursued
    <3>. QED BY <3>1, <3>2
  <2>. QED BY <1>0, <2>1, <2>2, <2>6, <2>7, HeardOrPursued
<1>8. ASSUME NEW n \in Requests, PollAnswered(n) PROVE PursueInv'
  <2>1. PICK d \in Cids, s \in Status : d = poll[n].cid /\ s = poll[n].status
    BY <1>8, <1>t DEF PollAnswered, TypeInv, CallsName, TypeOK, Call, Status
  <2>2. /\ Observe(d, s) /\ UNCHANGED <<object, subject, owed, post>>
        /\ poll' = [poll EXCEPT ![n] = IF Ends(s) THEN NoCall ELSE [poll[n] EXCEPT !.at = "sent"]]
    BY <1>8, <2>1 DEF PollAnswered, repository
  <2>3. \A k \in Requests \ {n} : poll'[k] = poll[k]
    BY <1>t, <2>2 DEF TypeOK
  <2>4. \A c \in Cids \ {d} : Pursued(c) => Pursued(c)'
    BY <2>1, <2>2, <2>3 DEF Pursued
  <2>5. s \in Final \/ Pursued(d)'
    <3>1. CASE Ends(s)
      BY <3>1 DEF Ends, Final
    <3>2. CASE ~Ends(s)
      <4>1. poll'[n].cid = d /\ poll'[n].at = "sent"
        BY <1>t, <2>1, <2>2, <3>2 DEF TypeOK, Call
      <4>. QED BY <4>1 DEF Pursued
    <3>. QED BY <3>1, <3>2
  <2>. QED BY <1>0, <2>1, <2>2, <2>4, <2>5, HeardOrPursued
<1>9. ASSUME NEW n \in Requests, ServePoll(n) PROVE PursueInv'
  <2>1. /\ UNCHANGED <<object, subject, post, owed, heard>> /\ poll[n].at = "sent"
        /\ poll' = [poll EXCEPT ![n].at = "answered", ![n].status = service[poll[n].cid]]
    BY <1>9 DEF ServePoll, repository
  <2>2. /\ poll'[n].cid = poll[n].cid /\ poll'[n].at = "answered"
        /\ \A k \in Requests \ {n} : poll'[k] = poll[k]
    BY <1>t, <2>1 DEF TypeOK, Call
  <2>3. \A k \in Requests :
          poll[k].at # "none" => poll'[k].at # "none" /\ poll'[k].cid = poll[k].cid
    BY <2>1, <2>2
  <2>4. \A c \in Cids : Pursued(c) => Pursued(c)'
    BY <2>1, <2>3 DEF Pursued
  <2>. QED BY <1>0, <2>1, <2>4, StillPursued
<1>. QED
  BY <1>1, <1>2, <1>3, <1>4, <1>5, <1>6, <1>7, <1>8, <1>9
  DEF Next, PostStep, PollStep, Load, LoadFails, Progress, vars, repository

\* Whoever listens and has asked for an anchor has heard how it ended, or the
\* record is still pursued, for any number of requests, objects and failures.
THEOREM AskedIsPursued == Spec => []UnheardIsPursued
<1>1. Init => PursueInv
  BY TypeInit
  DEF Init, PursueInv, LoopInv, OneLoopPerRecord, UnheardIsPursued, NoCall
<1>2. PursueInv => UnheardIsPursued
  BY DEF PursueInv
<1>. QED BY <1>1, <1>2, PursueStep, PTL DEF Spec
=============================================================================
