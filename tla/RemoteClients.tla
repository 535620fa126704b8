--------------------------- MODULE RemoteClients ---------------------------
(***************************************************************************)
(* Clients of a node (lib/vessel/src/remote) that edit one document over   *)
(* the REST interface of the wheel API.  A client polls the document every *)
(* five seconds, keeps its canonical form beside it, and changes it by a   *)
(* patch between two canonical forms.                                      *)
(*                                                                         *)
(* A snapshot of the node is known by its version: its place among those   *)
(* that the node has had.  The node reads the latest when it begins to     *)
(* take a record, and puts a new one in its place when it is done; another *)
(* record may have been taken in between, and is then no longer there.     *)
(* Every await of a client is a place where its other callbacks run.       *)
(* Answers travel: the node answers with the version of the moment, which  *)
(* the client hears later, and in any order.  A GET reads nothing of the   *)
(* client, so it stands for its tick that the node answers it.             *)
(***************************************************************************)
EXTENDS Integers, FiniteSets, SequencesExt

CONSTANTS
  Clients,     \* Document objects of clients, with their VesselDocument
  Changes,     \* calls of change that are under way at once, of any client
  Fields,      \* fields of the document, each a number
  Edited,      \* those that the clients' mutations count up
  MaxVersions, \* bound: snapshots of the document
  MaxAnswers,  \* bound: answers on their way to a client
  MaxDeriving, \* bound: canonical forms being fetched when a GET is heard
  MaxFaults    \* bound: calls that fail

ASSUME ClientConstants ==
  /\ Edited \subseteq Fields /\ Fields # {} /\ Clients # {}
  /\ MaxVersions \in Nat \ {0} /\ MaxAnswers \in Nat \ {0}
  /\ MaxDeriving \in Nat \ {0} /\ MaxFaults \in Nat

VARIABLES
  history,   \* the content of each snapshot that the node has had
  outside,   \* the snapshot that a record from elsewhere is applied to, or 0
  stream,    \* each client: not there yet, polling, without polls, or closed
  shown,     \* the version in its state$
  canonical, \* the version whose canonical form it keeps
  deriving,  \* versions whose canonical form is being fetched, as asked for
  overtook,  \* whether a form has come in before one asked for earlier
  answers,   \* answers to GETs on their way
  change,    \* the changes under way
  faults     \* failures so far

client == <<stream, shown, canonical, deriving, overtook>>
vars == <<history, outside, client, answers, change, faults>>

Versions == 1..Len(history)
Latest == Len(history)
Content == [Fields -> 0..MaxVersions]

\* The fields of a change: its place and its client; the field and the version
\* that the mutation works on; the versions of the comparison and of its prev;
\* the snapshot that the node applies it to; whether another canonical form came
\* in while the mutation ran.
NoChange == [at |-> "idle", by |-> CHOOSE c \in Clients : TRUE,
             field |-> CHOOSE f \in Fields : TRUE,
             base |-> 0, compared |-> 0, prev |-> 0, snapshot |-> 0, replaced |-> FALSE]
Places == {"idle", "mutating", "sent", "applying", "applied", "answered", "refused"}
Change == [at : Places, by : Clients, field : Fields, base : 0..MaxVersions,
           compared : 0..MaxVersions, prev : 0..MaxVersions, snapshot : 0..MaxVersions,
           replaced : BOOLEAN]

\* One type invariant for the node and its clients.
TypeOK ==
  /\ Latest \in 1..MaxVersions /\ outside \in 0..Latest
  /\ \A v \in Versions : history[v] \in Content
  /\ stream \in [Clients -> {"none", "open", "dead", "closed"}]
  /\ shown \in [Clients -> 0..Latest] /\ canonical \in [Clients -> 0..Latest]
  /\ \A c \in Clients : Range(deriving[c]) \subseteq Versions
  /\ overtook \in [Clients -> BOOLEAN]
  /\ answers \in [Clients -> SUBSET Versions]
  /\ change \in [Changes -> Change]
  /\ faults \in 0..MaxFaults

Init ==
  /\ history = <<[f \in Fields |-> 0]>> /\ outside = 0
  /\ stream = [c \in Clients |-> "none"]
  /\ shown = [c \in Clients |-> 0] /\ canonical = [c \in Clients |-> 0]
  /\ deriving = [c \in Clients |-> << >>] /\ overtook = [c \in Clients |-> FALSE]
  /\ answers = [c \in Clients |-> {}]
  /\ change = [k \in Changes |-> NoChange]
  /\ faults = 0

Fault == faults < MaxFaults /\ faults' = faults + 1

-----------------------------------------------------------------------------
(***************************************************************************)
(* The client's document.                                                  *)
(*                                                                         *)
(* Operators marked "mistake" are used by no definition: each is the       *)
(* operator after it with a plausible mistake in the code, for showing     *)
(* that the properties notice.                                             *)
(***************************************************************************)

\* Client.create or load: the snapshot of the answer becomes a Document, which
\* polls from now on.
Track(c, v) ==
  /\ stream' = [stream EXCEPT ![c] = "open"]
  /\ shown' = [shown EXCEPT ![c] = v]

\* The document is tracked, and VesselDocument.fromDocument waits for its
\* canonical form.  The answer may be as old as the wait is long.
Open(c, v) ==
  /\ stream[c] = "none"
  /\ Track(c, v)
  /\ canonical' = [canonical EXCEPT ![c] = v]
  /\ UNCHANGED <<history, outside, deriving, overtook, answers, change, faults>>

\* Client.close, of the documents it tracks
Close(c) ==
  /\ stream[c] \in {"open", "dead"}
  /\ stream' = [stream EXCEPT ![c] = "closed"]
  /\ answers' = [answers EXCEPT ![c] = {}]
  /\ UNCHANGED <<history, outside, shown, canonical, deriving, overtook, change, faults>>

\* mistake: the canonical form is fetched once, when the document is opened
ShowOnly(c, v) == shown' = [shown EXCEPT ![c] = v] /\ UNCHANGED deriving

\* state$.next: the canonical form is fetched anew, by a call of the ruleset
\* that is retrieved for it.  This happens with every answer: isEqual compares
\* Histories by their tags, of which it knows none, and never finds two equal.
\* After complete, next sets the value and tells nobody.
Show(c, v) ==
  /\ shown' = [shown EXCEPT ![c] = v]
  /\ deriving' = IF stream[c] = "closed" THEN deriving
                 ELSE [deriving EXCEPT ![c] = Append(@, v)]

\* The canonical form of a version comes in, whichever was asked for last: what
\* a mutation that is running has started from is not the canonical form now.
Derived(c, i) ==
  /\ i \in DOMAIN deriving[c]
  /\ canonical' = [canonical EXCEPT ![c] = deriving[c][i]]
  /\ deriving' = [deriving EXCEPT ![c] = RemoveAt(@, i)]
  /\ overtook' = [overtook EXCEPT ![c] = @ \/ i > 1]
  /\ change' = [k \in Changes |->
       [change[k] EXCEPT !.replaced = @ \/ (change[k].by = c /\ change[k].at = "mutating")]]
  /\ UNCHANGED <<history, outside, stream, shown, answers, faults>>

\* The ruleset can not be retrieved: the canonical form stays as it is.
DeriveFails(c, i) ==
  /\ i \in DOMAIN deriving[c] /\ Fault
  /\ deriving' = [deriving EXCEPT ![c] = RemoveAt(@, i)]
  /\ UNCHANGED <<history, outside, stream, shown, canonical, overtook, answers, change>>

\* DocumentController.read answers a GET.
AnswerPoll(c) ==
  /\ stream[c] = "open"
  /\ Cardinality(answers[c] \cup {Latest}) <= MaxAnswers
  /\ answers' = [answers EXCEPT ![c] = @ \cup {Latest}]
  /\ UNCHANGED <<history, outside, client, change, faults>>

\* mistake: an answer is heard only if it continues what is shown by one record
NextOnly(c, v) == v = shown[c] + 1

\* The filter on the answers, which is there for new ones: isEqual lets all pass.
News(c, v) == TRUE

\* A client awaits MaxDeriving canonical forms at most; in the code no answer
\* waits for one.
HearPoll(c, v) ==
  /\ stream[c] = "open" /\ v \in answers[c] /\ Len(deriving[c]) < MaxDeriving
  /\ answers' = [answers EXCEPT ![c] = @ \ {v}]
  /\ IF News(c, v) THEN Show(c, v) ELSE UNCHANGED <<shown, deriving>>
  /\ UNCHANGED <<history, outside, stream, canonical, overtook, change, faults>>

\* The error of a GET ends the polls for good; the document logs it.
PollFails(c) ==
  /\ stream[c] = "open" /\ Fault
  /\ stream' = [stream EXCEPT ![c] = "dead"]
  /\ answers' = [answers EXCEPT ![c] = {}]
  /\ UNCHANGED <<history, outside, shown, canonical, deriving, overtook, change>>

-----------------------------------------------------------------------------
(***************************************************************************)
(* VesselDocument.change (Tile.change is the same): the mutation counts    *)
(* one field up.                                                           *)
(***************************************************************************)
Mutated(v, f) == [history[v] EXCEPT ![f] = @ + 1]

\* The mutation starts on the canonical form of the moment.  Nothing keeps a
\* client from changing a document that it has closed, or twice at a time.
BeginChange(k, c, f) ==
  /\ stream[c] # "none" /\ change[k].at = "idle"
  /\ change' = [change EXCEPT ![k] =
       [NoChange EXCEPT !.at = "mutating", !.by = c, !.field = f, !.base = canonical[c]]]
  /\ UNCHANGED <<history, outside, client, answers, faults>>

\* mistake: the patch leads from the state, not from its canonical form
ComparedWithState(c) == shown[c]

\* jsonPatch.compare reads the canonical form again.
ComparedWith(c) == canonical[c]

\* The mutation is done: the patch, and its prev, are of this moment.  Signing
\* and the way to the node change nothing of them.
Send(k) ==
  /\ change[k].at = "mutating"
  /\ change' = [change EXCEPT ![k].at = "sent",
                              ![k].compared = ComparedWith(change[k].by),
                              ![k].prev = shown[change[k].by]]
  /\ UNCHANGED <<history, outside, client, answers, faults>>

\* fast-json-patch: what differs takes the value it has in the second form.
Patched(content, from, to) ==
  [f \in Fields |-> IF from[f] # to[f] THEN to[f] ELSE content[f]]

\* mistake: any record of the log may be continued
MayFollowAny(p) == p \in Versions

\* DocumentUpdateService.applyUpdate: prev has to be the last of the log.
MayFollow(p) == p = Latest

\* What is left of a change whose patch has been applied or refused
AnswerFor(k, place, v) ==
  [NoChange EXCEPT !.at = place, !.by = change[k].by, !.prev = v]

\* DocumentController.update, up to document.update's reading of the state; the
\* record is stored before, whatever becomes of it.
BeginUpdate(k) ==
  /\ change[k].at = "sent"
  /\ change' = [change EXCEPT ![k] =
       IF MayFollow(@.prev) THEN [@ EXCEPT !.at = "applying", !.snapshot = Latest]
       ELSE AnswerFor(k, "refused", 0)]
  /\ UNCHANGED <<history, outside, client, answers, faults>>

\* The handler's apply ends, and state$.next puts what became of that state in
\* the place of whatever is there by now.
EndUpdate(k) ==
  /\ change[k].at = "applying" /\ Latest < MaxVersions
  /\ LET ch == change[k]
     IN  history' = Append(history, Patched(history[ch.snapshot], history[ch.compared],
                                            Mutated(ch.base, ch.field)))
  /\ change' = [change EXCEPT ![k] = AnswerFor(k, "applied", 0)]
  /\ UNCHANGED <<outside, client, answers, faults>>

\* A record comes in from elsewhere: its job reads the state.
BeginExternal ==
  /\ outside = 0 /\ Latest < MaxVersions
  /\ outside' = Latest
  /\ UNCHANGED <<history, client, answers, change, faults>>

\* The job ends: an anchor leaves the content as it is, an update of someone else
\* counts a field up.
EndExternal(content) ==
  /\ outside # 0 /\ Latest < MaxVersions
  /\ history' = Append(history, content)
  /\ outside' = 0
  /\ UNCHANGED <<client, answers, change, faults>>

\* The controller answers with the state that the document has by then.
AnswerUpdate(k) ==
  /\ change[k].at = "applied"
  /\ change' = [change EXCEPT ![k] = AnswerFor(k, "answered", Latest)]
  /\ UNCHANGED <<history, outside, client, answers, faults>>

\* RemoteDocumentService.update: the answer is shown, or the call rejects.
EndChange(k) ==
  /\ change[k].at \in {"answered", "refused"}
  /\ IF change[k].at = "answered" THEN Show(change[k].by, change[k].prev)
     ELSE UNCHANGED <<shown, deriving>>
  /\ change' = [change EXCEPT ![k] = NoChange]
  /\ UNCHANGED <<history, outside, stream, canonical, overtook, answers, faults>>

\* The mutation throws, nobody signs, the node does not take the signature, or
\* the PUT is lost, on the way there or back.
ChangeFails(k) ==
  /\ change[k].at # "idle" /\ Fault
  /\ change' = [change EXCEPT ![k] = NoChange]
  /\ UNCHANGED <<history, outside, client, answers>>

-----------------------------------------------------------------------------
ChangeStep(k) ==
  Send(k) \/ BeginUpdate(k) \/ EndUpdate(k) \/ AnswerUpdate(k) \/ EndChange(k)

Next ==
  \/ BeginExternal
  \/ outside # 0 /\ EndExternal(history[outside])
  \/ \E f \in Fields : outside # 0 /\ EndExternal(Mutated(outside, f))
  \/ \E k \in Changes :
       \/ ChangeStep(k) \/ ChangeFails(k)
       \/ \E c \in Clients, f \in Edited : BeginChange(k, c, f)
  \/ \E c \in Clients :
       \/ Close(c) \/ AnswerPoll(c) \/ PollFails(c)
       \/ \E v \in Versions : Open(c, v) \/ HearPoll(c, v)
       \/ \E i \in DOMAIN deriving[c] : Derived(c, i) \/ DeriveFails(c, i)

Spec == Init /\ [][Next]_vars

\* The timer ticks, the node answers, and answers arrive.
Fairness ==
  /\ \A c \in Clients :
       /\ WF_vars(AnswerPoll(c)) /\ WF_vars(\E v \in Versions : HearPoll(c, v))
       /\ WF_vars(Derived(c, 1))
  /\ \A k \in Changes : WF_vars(ChangeStep(k))

FairSpec == Spec /\ Fairness

-----------------------------------------------------------------------------
Applies(k) == change[k].at = "applying" /\ change'[k].at = "applied"

\* An update changes nothing but the field its author changed of the snapshot
\* that the node applied it to, unless another canonical form came in while the
\* mutation ran: only then the patch takes back what others did (change reads
\* #canonical before and after it).
ChangesOwnFieldOnly ==
  [][\A k \in Changes : Applies(k) /\ ~change[k].replaced =>
       \A f \in Fields \ {change[k].field} :
         history'[Latest'][f] = history[change[k].snapshot][f]]_vars

\* An accepted update counts on from the content it takes the place of: it loses
\* an edit of another only if its author had heard of that edit before the patch
\* was made, and the mutation worked on an older canonical form; or if the node
\* took that edit while it applied this update, for both had read one snapshot.
LosesOnlyWhatWasHeard ==
  [][\A k \in Changes : Applies(k) =>
       \/ history'[Latest'] = Mutated(Latest, change[k].field)
       \/ change[k].base < change[k].prev
       \/ change[k].replaced
       \/ change[k].snapshot # Latest]_vars

\* A client, not closed, that waits for no canonical form keeps the one of what
\* it shows, unless a form has overtaken another, or a fetch failed: nothing else
\* parts #canonical from the state it belongs to.
CanonicalFollows ==
  \A c \in Clients :
    stream[c] # "closed" /\ deriving[c] = << >> /\ ~overtook[c] /\ faults = 0
      => canonical[c] = shown[c]

\* Where no GET fails, an open client comes to show what the node has, and to
\* keep its canonical form, and in the end nothing else, whatever order the
\* answers and the forms came in.
ClientsSettle ==
  \A c \in Clients :
    <>[](stream[c] = "open" => shown[c] = Latest /\ canonical[c] = Latest)
=============================================================================
