---------------------------- MODULE NodeProcess ----------------------------
(***************************************************************************)
(* One process that keeps documents (lib/vessel): DocumentRepository with  *)
(* its cache, and the AnchoringHttpClient that all its documents share.    *)
(*                                                                         *)
(* A load is split at its awaits, so two loads of one document may both    *)
(* miss the cache.  A request for an anchor is one POST and then a loop of *)
(* GETs per record; every answer is passed to the one Subject that all     *)
(* documents observe.  A call and its answer are separate steps: what the  *)
(* service said may be old when it is heard.  The heads and updates of a   *)
(* document are DocumentSync's.                                            *)
(***************************************************************************)
EXTENDS Integers, FiniteSets

CONSTANTS
  Docs,        \* documents
  Cids,        \* records that anchors are asked for
  DocOf,       \* the document of each record
  None,        \* no document, object or record
  MaxObjects,  \* bound: Document objects that are made
  MaxRequests, \* bound: requests for an anchor
  MaxFaults    \* bound: calls that fail

Objects == 1..MaxObjects
Requests == 1..MaxRequests

ASSUME NodeConstants ==
  /\ DocOf \in [Cids -> Docs]
  /\ None \notin Docs \cup Objects \cup Cids
  /\ MaxObjects \in Nat /\ MaxRequests \in Nat /\ MaxFaults \in Nat

VARIABLES
  cache,     \* the object kept for a document
  object,    \* the objects in the order they were made: document, subscription
  loading,   \* how many loads of a document have missed the cache and wait
  raced,     \* documents that were looked up while a load of theirs waited
  subject,   \* the Subject of all observations
  post,      \* the requests in the order they were made, each with its POST
  poll,      \* the polling loops: before the service has answered, or after
  tasks,     \* NamedSchedule: the names of the tasks that run
  owed,      \* records each object asked for while it listened
  heard,     \* the last status each object heard of a record
  service,   \* the status of each record at the anchoring service
  faults     \* failures so far

repository == <<cache, object, loading, raced>>
client == <<subject, post, poll, tasks>>
vars == <<repository, client, owed, heard, service, faults>>

\* The life of a request as the repository draws it.
Lifecycle == INSTANCE RequestLifecycle WITH status <- service

Final == {"ANCHORED", "FAILED", "OUTDATED"}
Call(places) == [at : places, cid : Cids \cup {None}, status : Lifecycle!AnchoringStatus]
NoCall == [at |-> "none", cid |-> None, status |-> "NOT_REQUESTED"]

\* One type invariant for the process and what it knows of the service.
TypeOK ==
  /\ cache \in [Docs -> Objects \cup {None}]
  /\ object \in [Objects -> [doc : Docs \cup {None},
                             stream : {"none", "live", "dead", "closed"}]]
  /\ loading \in [Docs -> Nat]
  /\ raced \subseteq Docs
  /\ subject \in {"open", "errored"}
  /\ post \in [Requests -> Call({"none", "sent", "answered", "done", "failed"})]
  /\ poll \in [Requests -> Call({"none", "sent", "answered"})]
  /\ tasks \subseteq Cids
  /\ owed \in [Objects -> SUBSET Cids]
  /\ heard \in [Objects -> [Cids -> Lifecycle!AnchoringStatus]]
  /\ service \in [Cids -> Lifecycle!AnchoringStatus]
  /\ faults \in 0..MaxFaults

Init ==
  /\ cache = [d \in Docs |-> None]
  /\ object = [o \in Objects |-> [doc |-> None, stream |-> "none"]]
  /\ loading = [d \in Docs |-> 0]
  /\ raced = {} /\ subject = "open"
  /\ post = [n \in Requests |-> NoCall]
  /\ poll = [n \in Requests |-> NoCall]
  /\ tasks = {}
  /\ owed = [o \in Objects |-> {}]
  /\ heard = [o \in Objects |-> [c \in Cids |-> "NOT_REQUESTED"]]
  /\ service = [c \in Cids |-> "NOT_REQUESTED"]
  /\ faults = 0

Fault == faults < MaxFaults /\ faults' = faults + 1

-----------------------------------------------------------------------------
(***************************************************************************)
(* DocumentRepository.                                                     *)
(*                                                                         *)
(* Operators marked "mistake" are used by no definition: each is the       *)
(* operator after it with a plausible mistake in the code, for showing     *)
(* that the properties notice.                                             *)
(***************************************************************************)

\* A load misses the cache and goes to retrieve the genesis record; create has
\* stored that record before it calls load, for which it reads nothing of the
\* process.  The same record, created twice, is the same document.  A load that
\* finds the document returns it and changes nothing.
Load(d) ==
  /\ cache[d] = None
  /\ loading[d] < Cardinality({o \in Objects : object[o].stream = "none"})
  /\ loading' = [loading EXCEPT ![d] = @ + 1]
  /\ raced' = IF loading[d] > 0 THEN raced \cup {d} ELSE raced
  /\ UNCHANGED <<cache, object, client, owed, heard, service, faults>>

\* mistake: the object is returned and not kept
CacheUnchanged(d, o) == cache

\* The object of the later load replaces the other in the cache.
CacheWith(d, o) == [cache EXCEPT ![d] = o]

\* load, once the genesis record is retrieved and kneaded: a new object
\* subscribes to the cloud and to the anchors.  A Subject that has ended in an
\* error passes the error to whoever subscribes later.
Construct(d, o) ==
  /\ loading[d] > 0
  /\ \A k \in Objects : object[k].stream = "none" <=> k >= o
  /\ object' = [object EXCEPT ![o] =
                  [doc |-> d, stream |-> IF subject = "open" THEN "live" ELSE "dead"]]
  /\ cache' = CacheWith(d, o)
  /\ loading' = [loading EXCEPT ![d] = @ - 1]
  /\ UNCHANGED <<raced, client, owed, heard, service, faults>>

\* The record can not be retrieved, is no genesis record, or its doctype is
\* unknown or refuses it.
LoadFails(d) ==
  /\ loading[d] > 0 /\ Fault
  /\ loading' = [loading EXCEPT ![d] = @ - 1]
  /\ UNCHANGED <<cache, object, raced, client, owed, heard, service>>

\* DocumentRepository.close: the objects in the cache stop listening.
Close ==
  /\ \E d \in Docs : cache[d] # None
  /\ object' = [o \in Objects |-> IF \E d \in Docs : cache[d] = o
                                  THEN [object[o] EXCEPT !.stream = "closed"] ELSE object[o]]
  /\ UNCHANGED <<cache, loading, raced, client, owed, heard, service, faults>>

-----------------------------------------------------------------------------
(***************************************************************************)
(* AnchoringHttpClient.                                                    *)
(***************************************************************************)
Listens(o, c) == object[o].stream = "live" /\ object[o].doc = DocOf[c]

\* mistake: the answer that ends a loop is not passed on
ObserveBeforeEnd(c, s) ==
  heard' = [o \in Objects |-> IF subject = "open" /\ Listens(o, c) /\ s \notin Final
                              THEN [heard[o] EXCEPT ![c] = s] ELSE heard[o]]

\* observation$.next: every object of the document that listens hears it; a
\* Subject that has ended passes nothing on.
Observe(c, s) ==
  heard' = [o \in Objects |-> IF subject = "open" /\ Listens(o, c)
                              THEN [heard[o] EXCEPT ![c] = s] ELSE heard[o]]

\* mistake: a record is polled by every request for its anchor
AlwaysNew(c) == TRUE

\* NamedSchedule.add: a task whose name is there is not started again.
NewTask(c) == c \notin tasks

\* startRequestingAnchorStatus: the first GET goes out at once.
StartPolling(c, n) ==
  IF NewTask(c)
  THEN /\ tasks' = tasks \cup {c}
       /\ poll' = [poll EXCEPT ![n] =
                     [at |-> "sent", cid |-> c, status |-> "NOT_REQUESTED"]]
  ELSE UNCHANGED <<tasks, poll>>

\* mistake: polling starts before the POST is answered
StartEagerly(o, c, n) ==
  /\ object[o].doc = DocOf[c]
  /\ \A k \in Requests : post[k].at = "none" <=> k >= n
  /\ post' = [post EXCEPT ![n] = [at |-> "sent", cid |-> c, status |-> "NOT_REQUESTED"]]
  /\ owed' = IF Listens(o, c) THEN [owed EXCEPT ![o] = @ \cup {c}] ELSE owed
  /\ StartPolling(c, n)
  /\ UNCHANGED <<repository, subject, heard, service, faults>>

\* requestAnchor, up to the POST
RequestAnchor(o, c, n) ==
  /\ object[o].doc = DocOf[c]
  /\ \A k \in Requests : post[k].at = "none" <=> k >= n
  /\ post' = [post EXCEPT ![n] = [at |-> "sent", cid |-> c, status |-> "NOT_REQUESTED"]]
  /\ owed' = IF Listens(o, c) THEN [owed EXCEPT ![o] = @ \cup {c}] ELSE owed
  /\ UNCHANGED <<repository, subject, poll, tasks, heard, service, faults>>

\* The POST is answered: its answer is observed like any other.
PostAnswered(n) ==
  /\ post[n].at = "answered"
  /\ Observe(post[n].cid, post[n].status)
  /\ StartPolling(post[n].cid, n)
  /\ post' = [post EXCEPT ![n].at = "done"]
  /\ UNCHANGED <<repository, subject, owed, service, faults>>

\* The POST fails, on the way there or back: nobody catches the rejection and
\* nothing repeats the request.
PostFails(n) ==
  /\ post[n].at \in {"sent", "answered"} /\ Fault
  /\ post' = [post EXCEPT ![n].at = "failed"]
  /\ UNCHANGED <<repository, subject, poll, tasks, owed, heard, service>>

\* mistake: a record that is outdated is asked for again and again
EndsOnAnchor(s) == s \in {"ANCHORED", "FAILED"}

\* The statuses after which doRequest resolves
Ends(s) == s \in {"ANCHORED", "FAILED", "OUTDATED"}

\* A GET is answered.  After a final status the task ends and its name is free
\* again; otherwise the next GET follows after the period.  "sent" stands for
\* the pause as well: the service answers some time after it began.
PollAnswered(n) ==
  /\ poll[n].at = "answered"
  /\ LET c == poll[n].cid
     IN  /\ Observe(c, poll[n].status)
         /\ IF Ends(poll[n].status)
            THEN poll' = [poll EXCEPT ![n] = NoCall] /\ tasks' = tasks \ {c}
            ELSE poll' = [poll EXCEPT ![n].at = "sent"] /\ UNCHANGED tasks
  /\ UNCHANGED <<repository, subject, post, owed, service, faults>>

\* A GET fails: the Subject ends with the error, and every document with it.
\* The status is null, so the loop goes on.
PollFails(n) ==
  /\ poll[n].at \in {"sent", "answered"} /\ Fault
  /\ subject' = "errored"
  /\ object' = [o \in Objects |-> IF object[o].stream = "live"
                                  THEN [object[o] EXCEPT !.stream = "dead"] ELSE object[o]]
  /\ poll' = [poll EXCEPT ![n].at = "sent"]
  /\ UNCHANGED <<cache, loading, raced, post, tasks, owed, heard, service>>

-----------------------------------------------------------------------------
(***************************************************************************)
(* The anchoring service, as AnchoringApi answers and RequestLifecycle     *)
(* promises.                                                               *)
(***************************************************************************)
ServePost(n) ==
  /\ post[n].at = "sent"
  /\ LET c == post[n].cid
         s == IF service[c] = "NOT_REQUESTED" THEN "PENDING" ELSE service[c]
     IN  /\ service' = [service EXCEPT ![c] = s]
         /\ post' = [post EXCEPT ![n].at = "answered", ![n].status = s]
  /\ UNCHANGED <<repository, subject, poll, tasks, owed, heard, faults>>

ServePoll(n) ==
  /\ poll[n].at = "sent"
  /\ poll' = [poll EXCEPT ![n].at = "answered", ![n].status = service[poll[n].cid]]
  /\ UNCHANGED <<repository, subject, post, tasks, owed, heard, service, faults>>

\* An anchoring run takes the request one step on; none writes FAILED.
Progress(c) ==
  /\ service[c] # "NOT_REQUESTED"
  /\ \E s \in {"PROCESSING", "ANCHORED", "OUTDATED"} :
       <<service[c], s>> \in Lifecycle!Edges /\ service' = [service EXCEPT ![c] = s]
  /\ UNCHANGED <<repository, client, owed, heard, faults>>

-----------------------------------------------------------------------------
PostStep(n) == ServePost(n) \/ PostAnswered(n)
PollStep(n) == ServePoll(n) \/ PollAnswered(n)

Next ==
  \/ \E d \in Docs : Load(d) \/ LoadFails(d) \/ \E o \in Objects : Construct(d, o)
  \/ Close
  \/ \E o \in Objects, c \in Cids, n \in Requests : RequestAnchor(o, c, n)
  \/ \E n \in Requests : PostStep(n) \/ PostFails(n) \/ PollStep(n) \/ PollFails(n)
  \/ \E c \in Cids : Progress(c)

Spec == Init /\ [][Next]_vars

\* Calls are answered, timers fire, and the service gets on with its requests.
Fairness ==
  /\ \A n \in Requests : WF_vars(PostStep(n)) /\ WF_vars(PollStep(n))
  /\ \A c \in Cids : WF_vars(Progress(c))

FairSpec == Spec /\ Fairness

-----------------------------------------------------------------------------
\* A document whose loads did not overlap has one object, the cached one, so
\* that a REQUEST is answered with its head and close reaches it.  (Loads that
\* overlap leave a second object, which nobody closes and which does not hear
\* the heads its own process publishes.)
OneObjectUnlessRaced ==
  \A o \in Objects : object[o].doc # None /\ object[o].doc \notin raced
                       => cache[object[o].doc] = o

\* A record is polled by one loop at most, however often its anchor is asked
\* for and wherever the loop stands, and its name is on record while it is.
OneLoopPerRecord ==
  /\ \A n, k \in Requests : poll[n].at # "none" /\ poll[n].cid = poll[k].cid => n = k
  /\ tasks = {poll[n].cid : n \in {k \in Requests : poll[k].at # "none"}}

Order(s) == CASE s = "NOT_REQUESTED" -> 0 [] s = "PENDING" -> 1
              [] s = "PROCESSING" -> 2 [] OTHER -> 3

\* An anchor that was asked for once is heard of in the order of its life: the
\* answer of the POST can not overtake one of the GETs, nor a GET another.
HeardInOrder ==
  [][\A o \in Objects, c \in Cids :
       Cardinality({n \in Requests : post'[n].cid = c}) = 1 =>
         Order(heard[o][c]) <= Order(heard'[o][c])]_vars

\* The polling loops end, also after the Subject has ended and nobody hears
\* them: of the records that are asked for, which are finitely many here, none
\* is polled for ever.
PollingEnds == tasks # {} ~> tasks = {}

\* An object that listens and has asked for an anchor has heard how it ended, or
\* a POST for the record is under way, or the record is polled, if only by the
\* loop of another request.  Failing GETs and loads do not break this, nor do the
\* POSTs for other records; a POST that failed for this one may, as nothing
\* repeats it (requestAnchor, NamedSchedule.add).
UnheardIsPursued ==
  \A o \in Objects : object[o].stream = "live" =>
    \A c \in owed[o] :
      \/ heard[o][c] \in Final
      \/ \E n \in Requests : post[n].cid = c /\ post[n].at \in {"sent", "answered", "failed"}
      \/ \E n \in Requests : poll[n].cid = c /\ poll[n].at # "none"

\* What an object asked for and has not heard the end of, unless it is closed
Unheard == \E o \in Objects : object[o].stream = "live" /\
             \E c \in owed[o] : heard[o][c] \notin Final

\* Where no call fails, an object that asked for an anchor hears how it ended:
\* also where the loop was started for another object, or ends between the
\* POST and its answer.
RequestedIsHeard == Unheard /\ faults = 0 ~> ~Unheard \/ faults > 0
=============================================================================
