---------------------------- MODULE DocumentSync ----------------------------
(* One document on several nodes.  A node keeps the document's snapshot, its  *)
(* log of records and the view they lead to; updates of clients, heads that  *)
(* other nodes publish and anchors are each worked on by a job that starts   *)
(* from the snapshot of the moment and replaces the node's when it is done.  *)
(* Jobs of one node run at the same time, interleaved at their awaits.       *)
EXTENDS SequencesExt, TwoPartyAgreement

CONSTANTS
    Nodes,      \* the processes that hold the document
    Writers,    \* those that take updates from clients
    Requesters, \* those whose clients ask for anchors
    Leaves,     \* the anchor records that may ever be made
    Genesis,    \* the document's first record
    None,       \* no record
    Jobs,       \* names for the jobs that run at a time
    Overlap,    \* whether several of them run on one node
    MaxFaults   \* bound on crashes, lost messages and failing calls

Records == Updates \cup Leaves \cup {Genesis}

ASSUME SyncAssumption ==
    /\ Writers \cup Requesters \subseteq Nodes
    /\ None \notin Records \cup Nodes
    /\ Genesis \notin Updates \cup Leaves
    /\ Updates \cap Leaves = {}
    /\ Overlap \in BOOLEAN
    /\ MaxFaults \in Nat

VARIABLES
    prev,       \* the stored records: what each points back to
    doc,        \* the snapshot each node holds
    stream,     \* its subscription to heads and anchors
    jobs,       \* what the nodes are working on
    inbox,      \* heads published to a node and not yet received
    asked,      \* nodes that a REQUEST is on its way to
    polls,      \* records whose status a node asks for again and again
    faults      \* crashes, lost messages and failing calls so far

vars == <<prev, doc, stream, jobs, inbox, asked, polls, faults>>

(* A snapshot: the log, the view, and a history of the checks that only the   *)
(* properties read: the places of the log whose update the node took for an  *)
(* agreement when it applied it.                                             *)
Snapshot == [log : Seq(Records), view : View, agreed : SUBSET Nat]

Fresh == [log |-> <<Genesis>>, view |-> Knead, agreed |-> {}]

HeadOf(snapshot) == Last(snapshot.log)

Has(snapshot, r) == \E i \in DOMAIN snapshot.log : snapshot.log[i] = r

(* A job: the node it runs on, what it does, the record it looks for in the  *)
(* log, the records it still has to apply, the snapshot it builds on and     *)
(* whether it has built a new one.                                           *)
Job == [node : Nodes \cup {None}, kind : {"idle", "update", "head"},
        tip : Records, rest : Seq(Records), snap : Snapshot, built : BOOLEAN]

Idle == [node |-> None, kind |-> "idle", tip |-> Genesis, rest |-> <<>>,
         snap |-> Fresh, built |-> FALSE]

\* What has gone wrong: how often, and whether a message was lost.
Faults == [count : 0 .. MaxFaults, lost : BOOLEAN]

\* The type of every variable (document.ts:12-18 and what the jobs close over).
TypeOK ==
    /\ prev \in [Records -> Records \cup {None}]
    /\ doc \in [Nodes -> Snapshot]
    /\ stream \in [Nodes -> {"unloaded", "live", "dead"}]
    /\ jobs \in [Jobs -> Job]
    /\ inbox \in [Nodes -> SUBSET Records]
    /\ asked \subseteq Nodes
    /\ polls \in [Nodes -> SUBSET Records]
    /\ faults \in Faults

Init ==
    /\ prev = [r \in Records |-> None]
    /\ doc = [n \in Nodes |-> Fresh]
    /\ stream = [n \in Nodes |-> "unloaded"]
    /\ jobs = [j \in Jobs |-> Idle]
    /\ inbox = [n \in Nodes |-> {}]
    /\ asked = {}
    /\ polls = [n \in Nodes |-> {}]
    /\ faults = [count |-> 0, lost |-> FALSE]

-----------------------------------------------------------------------------
(* Loading, and the messages between nodes.                                  *)

Stored(r) == r = Genesis \/ prev[r] # None

Loaded(n) == stream[n] # "unloaded"

\* A message goes to every node but the one that publishes it.
Published(n, r) ==
    [m \in Nodes |-> IF m = n THEN inbox[m] ELSE inbox[m] \cup {r}]

Fault == /\ faults.count < MaxFaults
         /\ faults' = [faults EXCEPT !.count = @ + 1]

Loss == /\ faults.count < MaxFaults
        /\ faults' = [count |-> faults.count + 1, lost |-> TRUE]

SetJob(j, job) == jobs' = [jobs EXCEPT ![j] = job]

\* The jobs of a kind on a node end.
EndJobs(n, kinds) ==
    jobs' = [j \in Jobs |->
        IF jobs[j].node = n /\ jobs[j].kind \in kinds THEN Idle ELSE jobs[j]]

\* Mistake: every job builds on the snapshot of the moment of the subscription.
BeginAnew(n, j, kind, tip, rest, built) ==
    /\ jobs[j] = Idle
    /\ Overlap \/ \A k \in Jobs : jobs[k].node # n
    /\ SetJob(j, [Idle EXCEPT !.node = n, !.kind = kind, !.tip = tip,
                              !.rest = rest, !.built = built])

\* Job j begins on node n, from the snapshot of the moment.
Begin(n, j, kind, tip, rest, built) ==
    /\ jobs[j] = Idle
    /\ Overlap \/ \A k \in Jobs : jobs[k].node # n
    /\ SetJob(j, [node |-> n, kind |-> kind, tip |-> tip, rest |-> rest,
                  snap |-> doc[n], built |-> built])

\* The document starts from its genesis record and asks for later heads.
Load(n) ==
    /\ stream[n] = "unloaded"
    /\ stream' = [stream EXCEPT ![n] = "live"]
    /\ asked' = asked \cup (Nodes \ {n})
    /\ UNCHANGED <<prev, doc, jobs, inbox, polls, faults>>

\* Mistake: a document that no longer listens does not answer either.
AnswerIfLive(n) ==
    /\ n \in asked
    /\ asked' = asked \ {n}
    /\ inbox' = IF stream[n] = "live" THEN Published(n, HeadOf(doc[n])) ELSE inbox
    /\ UNCHANGED <<prev, doc, stream, jobs, polls, faults>>

\* A REQUEST is answered by a node that has the document in its cache.
AnswerRequest(n) ==
    /\ n \in asked
    /\ asked' = asked \ {n}
    /\ inbox' = IF Loaded(n) THEN Published(n, HeadOf(doc[n])) ELSE inbox
    /\ UNCHANGED <<prev, doc, stream, jobs, polls, faults>>

ReceiveHead(n, j, r) ==
    /\ stream[n] = "live"
    /\ r \in inbox[n]
    /\ inbox' = [inbox EXCEPT ![n] = @ \ {r}]
    /\ Begin(n, j, "head", r, <<>>, FALSE)
    /\ UNCHANGED <<prev, doc, stream, asked, polls, faults>>

\* No one in the process is subscribed to the document's messages.
DropMessage(n, r) ==
    /\ stream[n] # "live"
    /\ r \in inbox[n]
    /\ inbox' = [inbox EXCEPT ![n] = @ \ {r}]
    /\ UNCHANGED <<prev, doc, stream, jobs, asked, polls, faults>>

LoseMessage(n) ==
    /\ Loss
    /\ \/ /\ \E r \in inbox[n] : inbox' = [inbox EXCEPT ![n] = @ \ {r}]
          /\ UNCHANGED asked
       \/ /\ n \in asked
          /\ asked' = asked \ {n}
          /\ UNCHANGED inbox
    /\ UNCHANGED <<prev, doc, stream, jobs, polls>>

Restart(n) ==
    /\ Loaded(n)
    /\ Fault
    /\ doc' = [doc EXCEPT ![n] = Fresh]
    /\ stream' = [stream EXCEPT ![n] = "unloaded"]
    /\ EndJobs(n, {"update", "head"})
    /\ polls' = [polls EXCEPT ![n] = {}]
    /\ UNCHANGED <<prev, inbox, asked>>

-----------------------------------------------------------------------------
(* Anchoring, as the node sees it.                                           *)

\* The POST to the anchoring service; when it fails nothing repeats it.
AskForAnchor(n, r) ==
    \/ /\ polls' = [polls EXCEPT ![n] = @ \cup {r}]
       /\ UNCHANGED faults
    \/ Fault /\ UNCHANGED polls

RequestAnchor(n) ==
    /\ Loaded(n)
    /\ AskForAnchor(n, HeadOf(doc[n]))
    /\ UNCHANGED <<prev, doc, stream, jobs, inbox, asked>>

(* The anchoring service makes a leaf: a record that points to the anchored   *)
(* one.  It matters to the nodes only when one of them still asks for it.    *)
Anchor(r, leaf) ==
    /\ \E n \in Nodes : r \in polls[n]
    /\ prev[leaf] = None
    /\ prev' = [prev EXCEPT ![leaf] = r]
    /\ UNCHANGED <<doc, stream, jobs, inbox, asked, polls, faults>>

\* A poll finds the anchor, which is then applied like a head.
ObserveAnchor(n, j, leaf) ==
    /\ stream[n] = "live"
    /\ prev[leaf] \in polls[n]
    /\ polls' = [polls EXCEPT ![n] = @ \ {prev[leaf]}]
    /\ Begin(n, j, "head", leaf, <<>>, FALSE)
    /\ UNCHANGED <<prev, doc, stream, inbox, asked, faults>>

(* A poll finds PENDING or PROCESSING and makes a new snapshot with the same  *)
(* log, whose head is published once more.  Nothing is awaited in between.   *)
ObserveStatus(n) ==
    /\ stream[n] = "live"
    /\ polls[n] # {}
    /\ HeadOf(doc[n]) # Genesis
    /\ inbox' = Published(n, HeadOf(doc[n]))
    /\ UNCHANGED <<prev, doc, stream, jobs, asked, polls, faults>>

\* A poll finds OUTDATED, the last that is asked of the record.
ObserveOutdated(n, r) ==
    /\ r \in polls[n]
    /\ polls' = [polls EXCEPT ![n] = @ \ {r}]
    /\ UNCHANGED <<prev, doc, stream, jobs, inbox, asked, faults>>

\* The error of a GET ends the observations, and with them the stream.
PollFails(n) ==
    /\ stream[n] = "live"
    /\ polls[n] # {}
    /\ Fault
    /\ stream' = [stream EXCEPT ![n] = "dead"]
    /\ EndJobs(n, {"head"})
    /\ UNCHANGED <<prev, doc, inbox, asked, polls>>

-----------------------------------------------------------------------------
(* The jobs.                                                                 *)

\* An update has to point to the last record of the log.
MayFollow(n, p) == p = HeadOf(doc[n])

(* A client's update.  One that may not follow the log is stored and refused: *)
(* nothing ever refers to it.                                                *)
PutUpdate(n, j, u, p) ==
    /\ Loaded(n)
    /\ ~Stored(u) /\ Stored(p)
    /\ MayFollow(n, p)
    /\ prev' = [prev EXCEPT ![u] = p]
    /\ Begin(n, j, "update", p, <<u>>, FALSE)
    /\ UNCHANGED <<doc, stream, inbox, asked, polls, faults>>

Running(j) == jobs[j].kind # "idle"

\* The walk back from the head has come to a record of the local log.
Reached(job) == Has(job.snap, job.tip)

\* (tail would stop at a record without a prev as well; there is only the genesis
\* record, which every log has.)
Walk(j) ==
    LET job == jobs[j] IN
    /\ Running(j) /\ ~Reached(job)
    /\ SetJob(j, [job EXCEPT !.rest = <<job.tip>> \o @, !.tip = prev[job.tip]])
    /\ UNCHANGED <<prev, doc, stream, inbox, asked, polls, faults>>

\* What the ruleset finds of the parties' signatures, if it is asked at all.
Found(r) == IF r \in Updates THEN Checks(r) ELSE {{}}

\* Genesis records are refused, anchors verified elsewhere, updates left to the
\* ruleset.
Acceptable(view, r, fits) ==
    r # Genesis /\ (r \in Updates => CanApply(view, r, fits))

\* Mistake: a sibling is taken for a continuation.
FitsAnywhere(job, fits) == Acceptable(job.snap.view, Head(job.rest), fits)

(* The next record continues the log and the ruleset takes it.  One that     *)
(* does not continue it is a sibling: the merge applies the whole local log, *)
(* whose genesis record the doctype refuses, so it always throws.            *)
Fits(job, fits) ==
    /\ prev[Head(job.rest)] = HeadOf(job.snap)
    /\ Acceptable(job.snap.view, Head(job.rest), fits)

Closes(r, fits) == r \in Updates /\ Stage(fits) = "agreement"

After(snapshot, r, fits) ==
    [log |-> Append(snapshot.log, r),
     view |-> IF r \in Leaves THEN snapshot.view ELSE Applied(r, fits),
     agreed |-> IF Closes(r, fits) THEN snapshot.agreed \cup {Len(snapshot.log) + 1}
                ELSE snapshot.agreed]

\* Every node that applies an agreement asks for its anchor.
ApplyRecord(j) ==
    LET job == jobs[j]
        r == Head(job.rest)
    IN
    /\ Running(j) /\ Reached(job) /\ job.rest # <<>>
    /\ \E fits \in Found(r) :
        /\ Fits(job, fits)
        /\ SetJob(j, [job EXCEPT !.rest = Tail(@), !.snap = After(@, r, fits),
                                    !.built = TRUE])
        /\ IF Closes(r, fits) THEN AskForAnchor(job.node, r)
           ELSE UNCHANGED <<polls, faults>>
    /\ UNCHANGED <<prev, doc, stream, inbox, asked>>

(* The job's snapshot replaces the node's, whatever has become of that since *)
(* the job read it; a changed one is published by its head.  One that differs *)
(* in the status of an anchor only, which is left out, is published as well: *)
(* ObserveStatus publishes it.                                               *)
Finish(j) ==
    LET job == jobs[j]
        n == job.node
    IN
    /\ Running(j) /\ Reached(job) /\ job.rest = <<>>
    /\ SetJob(j, Idle)
    /\ doc' = [doc EXCEPT ![n] = job.snap]
    /\ inbox' = IF (job.built \/ job.snap # doc[n]) /\ HeadOf(job.snap) # Genesis
                  THEN Published(n, HeadOf(job.snap))
                  ELSE inbox
    /\ IF job.kind = "update"
         THEN AskForAnchor(n, HeadOf(job.snap))
         ELSE UNCHANGED <<polls, faults>>
    /\ UNCHANGED <<prev, stream, asked>>

(* A failing update is answered with the error; a failing head ends the      *)
(* stream, and with it all the heads being worked on.                        *)
Fail(j) ==
    /\ IF jobs[j].kind = "update"
         THEN SetJob(j, Idle) /\ UNCHANGED stream
         ELSE /\ stream' = [stream EXCEPT ![jobs[j].node] = "dead"]
              /\ EndJobs(jobs[j].node, {"head"})
    /\ UNCHANGED <<prev, doc, inbox, asked, polls>>

Throw(j) ==
    LET job == jobs[j] IN
    /\ Running(j) /\ Reached(job) /\ job.rest # <<>>
    /\ \E fits \in Found(Head(job.rest)) : ~Fits(job, fits)
    /\ Fail(j)
    /\ UNCHANGED faults

(* A record can not be retrieved, the signature it carries itself or its     *)
(* anchor not be looked up.  A lookup for a party's signature is Found's.    *)
CallFails(j) == Running(j) /\ Fault /\ Fail(j)

-----------------------------------------------------------------------------
(* A message of the pubsub, read as an UPDATE or a RESPONSE: the document      *)
(* subscribes to the heads of both alike.                                    *)
Hear(n) == \E j \in Jobs : \E r \in Records : ReceiveHead(n, j, r)

JobStep(j) ==
    \/ Walk(j)
    \/ ApplyRecord(j)
    \/ Finish(j)
    \/ Throw(j)

NodeStep(n) ==
    \/ Load(n)
    \/ AnswerRequest(n)
    \/ LoseMessage(n)
    \/ Restart(n)
    \/ PollFails(n)
    \/ ObserveStatus(n)
    \/ \E r \in Records : ObserveOutdated(n, r) \/ DropMessage(n, r)
    \/ \E j \in Jobs, r \in Records : ReceiveHead(n, j, r)
    \/ \E j \in Jobs, leaf \in Leaves : ObserveAnchor(n, j, leaf)

Next ==
    \/ \E n \in Nodes : NodeStep(n)
    \/ \E j \in Jobs : JobStep(j) \/ CallFails(j)
    \/ \E n \in Writers, j \in Jobs, u \in Updates, p \in Records :
        PutUpdate(n, j, u, p)
    \/ \E n \in Requesters : RequestAnchor(n)
    \/ \E r \in Records, leaf \in Leaves : Anchor(r, leaf)

Spec == Init /\ [][Next]_vars

(* Messages that are not lost arrive and jobs go on.  A head is worked on as *)
(* soon as it arrives, where the model may have to wait for a free job that  *)
(* others take again and again: hence the strong fairness of Hear.           *)
Fairness ==
    /\ \A n \in Nodes : WF_vars(AnswerRequest(n)) /\ SF_vars(Hear(n))
    /\ \A j \in Jobs : WF_vars(JobStep(j))

FairSpec == Spec /\ Fairness

-----------------------------------------------------------------------------
(* Properties.                                                               *)

(* The log of a node starts at the genesis record and every other record in  *)
(* it points back to the one before it, whichever jobs overlap               *)
(* (DocumentUpdateService.applyUpdate, applyHead and tail).                  *)
IsChain(log) ==
    /\ Len(log) > 0
    /\ log[1] = Genesis
    /\ \A i \in 1 .. (Len(log) - 1) : prev[log[i + 1]] = log[i]

LogIsChain == \A n \in Nodes : IsChain(doc[n].log)

(* Whatever each check of a party's signature finds, and whichever jobs       *)
(* overlap, no log holds an update after one that the node itself took for   *)
(* an agreement, a number below an earlier one or an update that no party    *)
(* signed; and a node shows an agreement only when both parties signed the   *)
(* last update of its log (Ruleset.canApply).                                *)
Lawful(s) ==
    /\ \A j \in DOMAIN s.log : s.log[j] \in Updates =>
        /\ Content[s.log[j]].signed # {}
        /\ j \in s.agreed => Content[s.log[j]].signed = Parties
        /\ \A i \in 1 .. (j - 1) : s.log[i] \in Updates =>
            /\ i \notin s.agreed
            /\ Content[s.log[i]].num <= Content[s.log[j]].num
    /\ s.view.stage = "agreement" =>
        \E j \in s.agreed \cap DOMAIN s.log : s.log[j] \in Updates

LogIsLawful == \A n \in Nodes : Lawful(doc[n])

(* Two nodes whose logs end in the same record have the same log and number, *)
(* however each came to it.  The stage may differ, as each has checked the   *)
(* parties' signatures for itself (DocumentUpdateService.applyHead).         *)
SameHeadSameLog ==
    \A m, n \in Nodes : HeadOf(doc[m]) = HeadOf(doc[n]) =>
        /\ doc[m].log = doc[n].log
        /\ doc[m].view.num = doc[n].view.num

(* While it is loaded, a node's log is only ever continued: what a client    *)
(* has seen of the document is never taken back (FrozenSubject.next).        *)
LogOnlyGrows ==
    [][\A n \in Nodes : Loaded(n) /\ Loaded(n)' =>
            IsPrefix(doc[n].log, doc[n].log')]_vars

(* "The document can not be changed after it is in agreement stage"          *)
(* (README.md:76): a node that has seen the agreement keeps it.              *)
AgreementIsFinal ==
    [][\A n \in Nodes :
        Loaded(n) /\ Loaded(n)' /\ doc[n].view.stage = "agreement" =>
            doc'[n].view = doc[n].view]_vars

(* The promise of ReplicatedDocument, kept by nodes whose jobs come one at a  *)
(* time: through every update, head, anchor, loss and crash the stored       *)
(* records are a tree and each node's log a branch that only grows, and that *)
(* is closed to updates once the node takes one for an agreement             *)
(* (FrozenSubject.next, DocumentUpdateService.applyLog, Ruleset.canApply).   *)
Replicated == INSTANCE ReplicatedDocument WITH
    tree <- prev,
    replica <- [n \in Nodes |-> [history |-> doc[n].log,
                                  closed |-> doc[n].view.stage = "agreement"]],
    Anchors <- Leaves,
    Closing <- {u \in Updates : Content[u].signed = Parties}

ImplementsReplicated == Replicated!Spec

\* No message is under way and no record is being applied.
Quiet ==
    /\ asked = {} /\ \A n \in Nodes : inbox[n] = {}
    /\ \A j \in Jobs : ~Running(j)

(* As long as no message was lost, and where jobs come one at a time, nodes  *)
(* that have come to rest and still listen have all that any node has, one   *)
(* that has stopped listening too: whatever crashed, was loaded late, failed *)
(* or was refused, no head of the document is forgotten on its way (Load's   *)
(* REQUEST, its answers, CloudBus.publishHead, DocumentService.applyHead).   *)
QuietNodesAgree ==
    ~Overlap /\ ~faults.lost /\ Quiet =>
        \A m, n \in Nodes : Loaded(m) /\ stream[n] = "live" =>
            IsPrefix(doc[m].log, doc[n].log)

(* As long as no message is lost, and where jobs come one at a time, what     *)
(* one node has, and does not forget in a crash, comes to every other node   *)
(* that listens, or that node meets what it can not take over and stops      *)
(* listening (CloudBus.publishHead, REQUEST and RESPONSE,                    *)
(* DocumentService.applyHead).  With jobs that overlap it is not so: an      *)
(* older one that ends last takes a node back.                               *)
CatchesUp ==
    \A m \in Nodes : \A n \in Nodes \ {m}, u \in Updates :
        ~Overlap /\ Loaded(m) /\ Has(doc[m], u) /\ stream[n] = "live"
            ~> \/ Has(doc[n], u) \/ stream[n] # "live"
               \/ ~Has(doc[m], u) \/ faults.lost
=============================================================================
