------------------------ MODULE RemoteClientsProofs ------------------------
(***************************************************************************)
(* Proofs about RemoteClients, for any number of clients, of changes under *)
(* way, of fields, versions and answers, and of failing calls.             *)
(***************************************************************************)
EXTENDS RemoteClients, SequenceTheorems, TLAPS

LEMMA RemoveOne ==
  ASSUME NEW S, NEW s \in Seq(S), NEW i \in DOMAIN s
  PROVE  /\ RemoveAt(s, i) \in Seq(S)
         /\ Len(RemoveAt(s, i)) = Len(s) - 1
         /\ i = 1 /\ Len(s) > 1 => Last(RemoveAt(s, i)) = Last(s)
<1>. DEFINE before == SubSeq(s, 1, i - 1)  after == SubSeq(s, i + 1, Len(s))
<1>1. i \in 1..Len(s) /\ Len(s) \in Nat
  OBVIOUS
<1>2. before \in Seq(S) /\ Len(before) = i - 1
  BY <1>1
<1>3. after \in Seq(S) /\ Len(after) = Len(s) - i
  BY <1>1
<1>4. \A k \in 1..(Len(s) - i) : after[k] = s[i + k]
  BY <1>1
<1>5. RemoveAt(s, i) = before \o after
  BY DEF RemoveAt
<1>. HIDE DEF before, after
<1>6. RemoveAt(s, i) \in Seq(S) /\ Len(RemoveAt(s, i)) = Len(s) - 1
  BY <1>1, <1>2, <1>3, <1>5
<1>7. ASSUME i = 1, Len(s) > 1 PROVE Last(RemoveAt(s, i)) = Last(s)
  <2>1. (before \o after)[Len(s) - 1] = after[Len(s) - 1]
    BY <1>1, <1>2, <1>3, <1>7
  <2>. QED BY <1>1, <1>4, <1>5, <1>6, <1>7, <2>1 DEF Last
<1>. QED BY <1>6, <1>7

LEMMA SomeField ==
  (CHOOSE f \in Fields : TRUE) \in Fields /\ (CHOOSE c \in Clients : TRUE) \in Clients
BY ClientConstants

-----------------------------------------------------------------------------
(* Types.  Every version that a client knows is one the node has had.  A   *)
(* field is counted up once per version, from a version there was, so that *)
(* it stays below the number of versions.                                  *)

HistoryInv ==
  /\ history \in Seq([Fields -> Nat]) /\ Latest \in 1..MaxVersions
  /\ \A v \in Versions, f \in Fields : history[v][f] < v

Known == [at : Places, by : Clients, field : Fields, base : 0..Latest, compared : 0..Latest,
          prev : 0..Latest, snapshot : 0..Latest, replaced : BOOLEAN]

KnownInv ==
  /\ outside \in 0..Latest
  /\ stream \in [Clients -> {"none", "open", "dead", "closed"}]
  /\ shown \in [Clients -> 0..Latest] /\ canonical \in [Clients -> 0..Latest]
  /\ deriving \in [Clients -> Seq(Versions)]
  /\ overtook \in [Clients -> BOOLEAN]
  /\ answers \in [Clients -> SUBSET Versions]
  /\ change \in [Changes -> Known]
  /\ faults \in 0..MaxFaults

\* Nobody knows of the version before the first.
StartedInv ==
  \A c \in Clients :
    /\ stream[c] = "none" => deriving[c] = << >>
    /\ stream[c] # "none" => shown[c] # 0 /\ canonical[c] # 0

\* Nor does a change that has read a version; the node applies it to its prev.
\* Without another canonical form, the mutation, the comparison and the base of
\* the patch are of one version.
Fits(ch) ==
  /\ ch.at # "idle" => stream[ch.by] # "none"
  /\ ch.at \in {"mutating", "sent", "applying"} => ch.base # 0
  /\ ch.at \in {"sent", "applying"} => ch.compared # 0
  /\ ch.at \in {"sent", "applying", "answered"} => ch.prev # 0
  /\ ch.at = "applying" => ch.snapshot = ch.prev
  /\ ch.at = "mutating" /\ ~ch.replaced => canonical[ch.by] = ch.base
  /\ ch.at \in {"sent", "applying"} /\ ~ch.replaced => ch.compared = ch.base

ChangeInv == \A k \in Changes : Fits(change[k])

\* The last form that was asked for is the one of what is shown.
FollowInv ==
  \A c \in Clients : stream[c] # "closed" /\ ~overtook[c] /\ faults = 0 =>
    /\ deriving[c] = << >> => canonical[c] = shown[c]
    /\ deriving[c] # << >> => Last(deriving[c]) = shown[c]

Inv == HistoryInv /\ KnownInv /\ StartedInv /\ ChangeInv /\ FollowInv

LEMMA InvInit == Init => Inv
<1>. SUFFICES ASSUME Init PROVE Inv
  OBVIOUS
<1>1. HistoryInv
  BY ClientConstants DEF Init, HistoryInv, Latest, Versions
<1>2. NoChange \in Known /\ NoChange.at = "idle"
  BY SomeField, <1>1 DEF NoChange, Known, Places, HistoryInv
<1>3. KnownInv
  BY <1>1, <1>2, ClientConstants DEF Init, KnownInv, HistoryInv
<1>4. StartedInv /\ ChangeInv /\ FollowInv
  BY <1>2 DEF Init, StartedInv, ChangeInv, Fits, FollowInv
<1>. QED BY <1>1, <1>3, <1>4 DEF Inv

LEMMA InvTypes == Inv => TypeOK
<1>. SUFFICES ASSUME Inv PROVE TypeOK
  OBVIOUS
<1>1. \A v \in Versions : history[v] \in Content
  <2>1. ASSUME NEW v \in Versions PROVE history[v] \in [Fields -> 0..MaxVersions]
    <3>1. history[v] \in [Fields -> Nat] /\ v \in Nat /\ v <= MaxVersions
      BY ClientConstants DEF Inv, HistoryInv, Versions, Latest
    <3>2. \A f \in Fields : history[v][f] < v
      BY DEF Inv, HistoryInv
    <3>. QED BY <3>1, <3>2, ClientConstants
  <2>. QED BY <2>1 DEF Content
<1>2. \A c \in Clients : Range(deriving[c]) \subseteq Versions
  BY DEF Inv, KnownInv, Range
<1>3. change \in [Changes -> Change]
  <2>1. 0..Latest \subseteq 0..MaxVersions
    BY ClientConstants DEF Inv, HistoryInv
  <2>2. Known \subseteq Change
    BY <2>1 DEF Known, Change
  <2>. QED BY <2>2 DEF Inv, KnownInv
<1>. QED BY <1>1, <1>2, <1>3 DEF Inv, HistoryInv, KnownInv, TypeOK

-----------------------------------------------------------------------------
(* A record more: what was known stays known. *)
LEMMA Grows ==
  ASSUME Inv, NEW content \in [Fields -> Nat], history' = Append(history, content),
         Latest < MaxVersions, \A f \in Fields : content[f] <= Latest
  PROVE  /\ HistoryInv' /\ Latest' = Latest + 1
         /\ Versions \subseteq Versions' /\ history'[Latest'] = content
         /\ \A v \in Versions : history'[v] = history[v]
<1>. USE DEF Inv, HistoryInv, Latest, Versions
<1>1. Len(history') = Len(history) + 1 /\ history' \in Seq([Fields -> Nat])
  OBVIOUS
<1>2. history'[Len(history')] = content /\ \A v \in 1..Len(history) : history'[v] = history[v]
  BY <1>1
<1>. QED BY <1>1, <1>2, ClientConstants

\* Nothing else than the history changes, and who is going to lengthen it.
LEMMA GrowsOnly ==
  ASSUME Inv, Latest' \in Nat, Latest <= Latest', Versions \subseteq Versions', HistoryInv',
         outside' \in 0..Latest', change' \in [Changes -> Known], ChangeInv',
         UNCHANGED <<client, answers, faults>>
  PROVE  Inv'
<1>. USE DEF Inv, HistoryInv, KnownInv, client
<1>1. 0..Latest \subseteq 0..Latest'
  OBVIOUS
<1>2. Seq(Versions) \subseteq Seq(Versions')
  OBVIOUS
<1>3. Known \subseteq Known'
  BY <1>1 DEF Known
<1>4. KnownInv'
  BY <1>1, <1>2, <1>3
<1>5. StartedInv' /\ FollowInv'
  BY DEF StartedInv, FollowInv
<1>. QED BY <1>4, <1>5

LEMMA BeginExternalStep ==
  ASSUME Inv, BeginExternal
  PROVE  Inv'
<1>1. HistoryInv' /\ Latest' = Latest /\ Versions' = Versions
  BY DEF BeginExternal, Inv, HistoryInv, Latest, Versions
<1>2. ChangeInv' /\ change' \in [Changes -> Known]
  BY DEF BeginExternal, client, Inv, KnownInv, ChangeInv, Fits
<1>. QED BY <1>1, <1>2, GrowsOnly DEF BeginExternal, Inv, HistoryInv

LEMMA ExternalStep ==
  ASSUME Inv, NEW content \in [Fields -> Nat], EndExternal(content),
         \A f \in Fields : content[f] <= Latest
  PROVE  Inv'
<1>1. /\ HistoryInv' /\ Latest' = Latest + 1 /\ Versions \subseteq Versions'
  BY Grows DEF EndExternal
<1>2. ChangeInv' /\ change' \in [Changes -> Known]
  BY DEF EndExternal, client, Inv, KnownInv, ChangeInv, Fits
<1>3. Latest' \in Nat /\ Latest <= Latest' /\ outside' \in 0..Latest'
  <2>1. Latest \in Nat /\ outside' = 0
    BY DEF EndExternal, Inv, HistoryInv
  <2>. QED BY <1>1, <2>1
<1>. QED BY <1>1, <1>2, <1>3, GrowsOnly DEF EndExternal

-----------------------------------------------------------------------------
(* The steps of one client, with the history as it is or one record longer. *)

LEMMA SameHistory ==
  ASSUME Inv, UNCHANGED history
  PROVE  HistoryInv' /\ Latest' = Latest /\ Versions' = Versions /\ Known' = Known
BY DEF Inv, HistoryInv, Latest, Versions, Known

\* The first form that was asked for comes in, or another: those that are left.
LEMMA Left ==
  ASSUME Inv, NEW c \in Clients, NEW i \in DOMAIN deriving[c]
  PROVE  /\ deriving[c][i] \in Versions
         /\ RemoveAt(deriving[c], i) \in Seq(Versions)
         /\ i = 1 /\ RemoveAt(deriving[c], i) # << >> =>
              Last(RemoveAt(deriving[c], i)) = Last(deriving[c])
         /\ i = 1 /\ RemoveAt(deriving[c], i) = << >> => Last(deriving[c]) = deriving[c][i]
         /\ deriving[c] # << >> /\ i \in Nat \ {0}
<1>1. deriving[c] \in Seq(Versions)
  BY DEF Inv, KnownInv
<1>2. RemoveAt(deriving[c], i) \in Seq(Versions) /\ Len(RemoveAt(deriving[c], i)) = Len(deriving[c]) - 1
  BY <1>1, RemoveOne
<1>3. i = 1 /\ Len(deriving[c]) > 1 => Last(RemoveAt(deriving[c], i)) = Last(deriving[c])
  BY <1>1, RemoveOne
<1>. QED BY <1>1, <1>2, <1>3 DEF Last

LEMMA OpenStep ==
  ASSUME Inv, NEW c \in Clients, NEW v \in Versions, Open(c, v)
  PROVE  Inv'
<1>1. HistoryInv' /\ Latest' = Latest /\ Versions' = Versions /\ Known' = Known
  BY SameHistory DEF Open, Track
<1>2. v \in 0..Latest /\ v # 0
  BY DEF Versions, Latest
<1>3. KnownInv'
  BY <1>1, <1>2 DEF Open, Track, Inv, KnownInv
<1>4. StartedInv' /\ ChangeInv' /\ FollowInv'
  BY <1>2 DEF Open, Track, Inv, KnownInv, StartedInv, ChangeInv, Fits, FollowInv
<1>. QED BY <1>1, <1>3, <1>4 DEF Inv

LEMMA CloseStep ==
  ASSUME Inv, NEW c \in Clients, Close(c) \/ PollFails(c)
  PROVE  Inv'
<1>1. HistoryInv' /\ Latest' = Latest /\ Versions' = Versions /\ Known' = Known
  BY SameHistory DEF Close, PollFails
<1>2. KnownInv'
  <2>1. CASE Close(c)
    BY <1>1, <2>1 DEF Close, Inv, KnownInv
  <2>2. CASE PollFails(c)
    BY <1>1, <2>2, ClientConstants DEF PollFails, Fault, Inv, KnownInv
  <2>. QED BY <2>1, <2>2
<1>3. ChangeInv'
  <2>1. \A c2 \in Clients : /\ canonical'[c2] = canonical[c2]
                           /\ stream[c2] # "none" => stream'[c2] # "none"
    BY DEF Close, PollFails, Inv, KnownInv
  <2>. QED BY <2>1 DEF Close, PollFails, Inv, KnownInv, Known, ChangeInv, Fits
<1>4. StartedInv' /\ FollowInv'
  BY ClientConstants DEF Close, PollFails, Fault, Inv, KnownInv, StartedInv, FollowInv
<1>. QED BY <1>1, <1>2, <1>3, <1>4 DEF Inv

LEMMA AnswerStep ==
  ASSUME Inv, NEW c \in Clients, AnswerPoll(c)
  PROVE  Inv'
<1>1. HistoryInv' /\ Latest' = Latest /\ Versions' = Versions /\ Known' = Known
  BY SameHistory DEF AnswerPoll
<1>2. Latest \in Versions
  BY DEF Inv, HistoryInv, Versions, Latest
<1>3. KnownInv'
  BY <1>1, <1>2 DEF AnswerPoll, client, Inv, KnownInv
<1>4. StartedInv' /\ ChangeInv' /\ FollowInv'
  BY DEF AnswerPoll, client, Inv, StartedInv, ChangeInv, Fits, FollowInv
<1>. QED BY <1>1, <1>3, <1>4 DEF Inv

\* What is shown is asked for last.
LEMMA ShowStep ==
  ASSUME Inv, NEW c \in Clients, NEW v \in Versions, Show(c, v),
         stream[c] # "none", UNCHANGED <<stream, canonical, overtook, faults>>
  PROVE  /\ shown' \in [Clients -> 0..Latest] /\ shown'[c] # 0
         /\ \A d \in Clients \ {c} : shown'[d] = shown[d] /\ deriving'[d] = deriving[d]
         /\ deriving' \in [Clients -> Seq(Versions)]
         /\ FollowInv'
<1>1. v \in 0..Latest /\ v # 0
  BY DEF Versions, Latest
<1>2. deriving[c] \in Seq(Versions) /\ Append(deriving[c], v) \in Seq(Versions)
  BY DEF Inv, KnownInv
<1>3. Append(deriving[c], v) # << >> /\ Last(Append(deriving[c], v)) = v
  BY <1>2 DEF Last
<1>4. CASE stream[c] = "closed"
  BY <1>1, <1>4 DEF Show, Inv, KnownInv, FollowInv
<1>5. CASE stream[c] # "closed"
  <2>1. shown' = [shown EXCEPT ![c] = v] /\ deriving' = [deriving EXCEPT ![c] = Append(deriving[c], v)]
    BY <1>5 DEF Show
  <2>2. shown \in [Clients -> 0..Latest] /\ deriving \in [Clients -> Seq(Versions)]
    BY DEF Inv, KnownInv
  <2>3. FollowInv'
    BY <1>3, <2>1, <2>2 DEF Inv, FollowInv
  <2>. QED BY <1>1, <1>2, <2>1, <2>2, <2>3
<1>. QED BY <1>4, <1>5

LEMMA HearStep ==
  ASSUME Inv, NEW c \in Clients, NEW v \in Versions, HearPoll(c, v)
  PROVE  Inv'
<1>1. HistoryInv' /\ Latest' = Latest /\ Versions' = Versions /\ Known' = Known
  BY SameHistory DEF HearPoll
<1>2. /\ Show(c, v) /\ stream[c] # "none"
      /\ UNCHANGED <<outside, stream, canonical, overtook, faults, change>>
      /\ answers' = [answers EXCEPT ![c] = @ \ {v}]
  BY DEF HearPoll, News
<1>3. /\ shown' \in [Clients -> 0..Latest] /\ shown'[c] # 0
      /\ \A d \in Clients \ {c} : shown'[d] = shown[d] /\ deriving'[d] = deriving[d]
      /\ deriving' \in [Clients -> Seq(Versions)]
      /\ FollowInv'
  BY <1>2, ShowStep
<1>4. KnownInv'
  BY <1>1, <1>2, <1>3 DEF Inv, KnownInv
<1>5. StartedInv' /\ ChangeInv'
  BY <1>2, <1>3 DEF Inv, KnownInv, StartedInv, ChangeInv, Fits
<1>. QED BY <1>1, <1>3, <1>4, <1>5 DEF Inv

LEMMA DerivedStep ==
  ASSUME Inv, NEW c \in Clients, NEW i \in DOMAIN deriving[c], Derived(c, i)
  PROVE  Inv'
<1>1. HistoryInv' /\ Latest' = Latest /\ Versions' = Versions /\ Known' = Known
  BY SameHistory DEF Derived
<1>. DEFINE form == deriving[c][i]  rest == RemoveAt(deriving[c], i)
<1>2. /\ form \in Versions /\ rest \in Seq(Versions)
      /\ i = 1 /\ rest # << >> => Last(rest) = Last(deriving[c])
      /\ i = 1 /\ rest = << >> => Last(deriving[c]) = form
      /\ deriving[c] # << >> /\ i \in Nat \ {0}
  BY Left
<1>3. /\ canonical' = [canonical EXCEPT ![c] = form]
      /\ deriving' = [deriving EXCEPT ![c] = rest]
      /\ overtook' = [overtook EXCEPT ![c] = overtook[c] \/ i > 1]
      /\ change' = [k \in Changes |->
           [change[k] EXCEPT !.replaced = @ \/ (change[k].by = c /\ change[k].at = "mutating")]]
      /\ UNCHANGED <<outside, stream, shown, answers, faults>>
  BY DEF Derived
<1>. HIDE DEF form, rest
<1>4. form \in 0..Latest /\ form # 0
  BY <1>2 DEF Versions, Latest
<1>5. \A k \in Changes :
        /\ change'[k] \in Known
        /\ change'[k].at = change[k].at /\ change'[k].by = change[k].by
        /\ change'[k].base = change[k].base /\ change'[k].compared = change[k].compared
        /\ change'[k].prev = change[k].prev /\ change'[k].snapshot = change[k].snapshot
        /\ ~change'[k].replaced =>
             ~change[k].replaced /\ (change[k].by # c \/ change[k].at # "mutating")
  <2>. SUFFICES ASSUME NEW k \in Changes
                PROVE  /\ change'[k] \in Known
                       /\ change'[k].at = change[k].at /\ change'[k].by = change[k].by
                       /\ change'[k].base = change[k].base
                       /\ change'[k].compared = change[k].compared
                       /\ change'[k].prev = change[k].prev
                       /\ change'[k].snapshot = change[k].snapshot
                       /\ ~change'[k].replaced =>
                            ~change[k].replaced /\ (change[k].by # c \/ change[k].at # "mutating")
    OBVIOUS
  <2>. DEFINE hit == change[k].replaced \/ (change[k].by = c /\ change[k].at = "mutating")
  <2>1. change[k] \in Known
    BY DEF Inv, KnownInv
  <2>2. change'[k] = [change[k] EXCEPT !.replaced = hit] /\ hit \in BOOLEAN
    BY <1>3, <2>1 DEF Known
  <2>3. ~hit => ~change[k].replaced /\ (change[k].by # c \/ change[k].at # "mutating")
    OBVIOUS
  <2>. HIDE DEF hit
  <2>. QED BY <2>1, <2>2, <2>3 DEF Known
<1>6. KnownInv'
  <2>1. change' \in [Changes -> Known]
    BY <1>3, <1>5
  <2>. QED BY <1>1, <1>2, <1>3, <1>4, <2>1 DEF Inv, KnownInv
<1>7. StartedInv'
  BY <1>2, <1>3, <1>4 DEF Inv, KnownInv, StartedInv
<1>8. ChangeInv'
  <2>. SUFFICES ASSUME NEW k \in Changes PROVE Fits(change[k])'
    BY DEF ChangeInv
  <2>1. Fits(change[k]) /\ change[k].by \in Clients
    BY DEF Inv, ChangeInv, KnownInv, Known
  <2>2. change[k].by # c => canonical'[change[k].by] = canonical[change[k].by]
    BY <1>3 DEF Inv, KnownInv
  <2>. QED BY <1>3, <1>5, <2>1, <2>2 DEF Fits
<1>9. FollowInv'
  <2>. SUFFICES ASSUME NEW d \in Clients, stream'[d] # "closed", ~overtook'[d], faults' = 0
                PROVE  /\ deriving'[d] = << >> => canonical'[d] = shown'[d]
                       /\ deriving'[d] # << >> => Last(deriving'[d]) = shown'[d]
    BY DEF FollowInv
  <2>1. CASE d # c
    BY <1>3, <2>1 DEF Inv, KnownInv, FollowInv
  <2>2. CASE d = c
    <3>1. ~overtook[c] /\ i = 1
      <4>1. overtook \in [Clients -> BOOLEAN]
        BY DEF Inv, KnownInv
      <4>2. overtook'[c] = (overtook[c] \/ i > 1)
        BY <1>3, <4>1
      <4>3. ~(overtook[c] \/ i > 1)
        BY <2>2, <4>2
      <4>. QED BY <1>2, <4>3
    <3>2. Last(deriving[c]) = shown[c]
      BY <1>2, <1>3, <2>2, <3>1 DEF Inv, FollowInv
    <3>. QED BY <1>2, <1>3, <2>2, <3>1, <3>2 DEF Inv, KnownInv
  <2>. QED BY <2>1, <2>2
<1>. QED BY <1>1, <1>6, <1>7, <1>8, <1>9 DEF Inv

LEMMA DeriveFailsStep ==
  ASSUME Inv, NEW c \in Clients, NEW i \in DOMAIN deriving[c], DeriveFails(c, i)
  PROVE  Inv'
<1>1. HistoryInv' /\ Latest' = Latest /\ Versions' = Versions /\ Known' = Known
  BY SameHistory DEF DeriveFails
<1>2. RemoveAt(deriving[c], i) \in Seq(Versions) /\ deriving[c] # << >>
  BY Left
<1>3. KnownInv'
  BY <1>1, <1>2, ClientConstants DEF DeriveFails, Fault, Inv, KnownInv
<1>4. StartedInv' /\ ChangeInv' /\ FollowInv'
  BY <1>2, ClientConstants DEF DeriveFails, Fault, Inv, KnownInv, StartedInv, ChangeInv, Fits, FollowInv
<1>. QED BY <1>1, <1>3, <1>4 DEF Inv

-----------------------------------------------------------------------------
(* The steps of a change. *)

LEMMA NoChangeKnown ==
  ASSUME Latest \in Nat
  PROVE  NoChange \in Known /\ NoChange.at = "idle" /\ ~NoChange.replaced
BY SomeField DEF NoChange, Known, Places

\* What is left of a change
LEMMA AnswerKnown ==
  ASSUME Inv, NEW k \in Changes, NEW place \in Places, NEW v \in 0..Latest
  PROVE  /\ AnswerFor(k, place, v) \in Known /\ AnswerFor(k, place, v).at = place
         /\ AnswerFor(k, place, v).by = change[k].by /\ AnswerFor(k, place, v).prev = v
<1>1. NoChange \in Known /\ change[k].by \in Clients
  BY NoChangeKnown DEF Inv, HistoryInv, KnownInv, Known
<1>. QED BY <1>1 DEF AnswerFor, Known

\* A change goes on to a place that it fits, and nothing else happens.
LEMMA ChangeMoves ==
  ASSUME Inv, NEW k \in Changes, NEW ch \in Known, Fits(ch),
         change' = [change EXCEPT ![k] = ch],
         UNCHANGED <<history, outside, client, answers>>,
         faults' = faults \/ Fault
  PROVE  Inv'
<1>1. HistoryInv' /\ Latest' = Latest /\ Versions' = Versions /\ Known' = Known
  BY SameHistory
<1>2. KnownInv'
  <2>1. faults' \in 0..MaxFaults
    BY ClientConstants DEF Fault, Inv, KnownInv
  <2>. QED BY <1>1, <2>1 DEF client, Inv, KnownInv
<1>3. ChangeInv'
  <2>1. \A j \in Changes : change'[j] = IF j = k THEN ch ELSE change[j]
    BY DEF Inv, KnownInv
  <2>. QED BY <2>1 DEF client, Inv, ChangeInv, Fits
<1>4. StartedInv' /\ FollowInv'
  <2>1. faults' = 0 => faults = 0
    BY ClientConstants DEF Fault, Inv, KnownInv
  <2>. QED BY <2>1 DEF client, Inv, StartedInv, FollowInv
<1>. QED BY <1>1, <1>2, <1>3, <1>4 DEF Inv

LEMMA BeginStep ==
  ASSUME Inv, NEW k \in Changes, NEW c \in Clients, NEW f \in Edited, BeginChange(k, c, f)
  PROVE  Inv'
<1>. DEFINE begun ==
  [NoChange EXCEPT !.at = "mutating", !.by = c, !.field = f, !.base = canonical[c]]
<1>1. /\ begun \in Known /\ begun.at = "mutating" /\ begun.by = c
      /\ begun.base = canonical[c]
  <2>1. NoChange \in Known /\ f \in Fields /\ canonical[c] \in 0..Latest
    BY NoChangeKnown, ClientConstants DEF Inv, HistoryInv, KnownInv
  <2>. QED BY <2>1 DEF Known, Places
<1>2. change' = [change EXCEPT ![k] = begun] /\ stream[c] # "none"
  BY DEF BeginChange
<1>. HIDE DEF begun
<1>3. Fits(begun)
  BY <1>1, <1>2 DEF Fits, Inv, StartedInv
<1>. QED BY <1>1, <1>2, <1>3, ChangeMoves DEF BeginChange

LEMMA SendStep ==
  ASSUME Inv, NEW k \in Changes, Send(k)
  PROVE  Inv'
<1>. DEFINE c == change[k].by
            sent == [change[k] EXCEPT !.at = "sent", !.compared = canonical[c], !.prev = shown[c]]
<1>1. change[k] \in Known /\ change[k].at = "mutating" /\ Fits(change[k])
  BY DEF Send, Inv, KnownInv, ChangeInv
<1>2. c \in Clients /\ stream[c] # "none" /\ shown[c] # 0 /\ canonical[c] # 0
  BY <1>1 DEF Known, Fits, Inv, StartedInv
<1>3. canonical[c] \in 0..Latest /\ shown[c] \in 0..Latest
  BY <1>2 DEF Inv, KnownInv
<1>4. change' = [change EXCEPT ![k] = sent]
  BY DEF Send, ComparedWith
<1>. HIDE DEF c
<1>5. /\ sent \in Known /\ sent.at = "sent" /\ sent.by = change[k].by
      /\ sent.compared = canonical[c] /\ sent.prev = shown[c]
      /\ sent.base = change[k].base /\ sent.replaced = change[k].replaced
  BY <1>1, <1>3 DEF Known, Places
<1>. HIDE DEF sent
<1>6. Fits(sent)
  BY <1>1, <1>2, <1>5 DEF Fits, c
<1>. QED BY <1>4, <1>5, <1>6, ChangeMoves DEF Send

LEMMA BeginUpdateStep ==
  ASSUME Inv, NEW k \in Changes, BeginUpdate(k)
  PROVE  Inv'
<1>. DEFINE begun == [change[k] EXCEPT !.at = "applying", !.snapshot = Latest]
<1>1. change[k] \in Known /\ change[k].at = "sent" /\ Fits(change[k])
  BY DEF BeginUpdate, Inv, KnownInv, ChangeInv
<1>2. Latest \in 0..Latest
  BY DEF Inv, HistoryInv
<1>3. CASE change[k].prev = Latest
  <2>1. change' = [change EXCEPT ![k] = begun]
    BY <1>3 DEF BeginUpdate, MayFollow
  <2>2. /\ begun \in Known /\ begun.at = "applying" /\ begun.by = change[k].by
        /\ begun.snapshot = Latest /\ begun.prev = change[k].prev
        /\ begun.compared = change[k].compared /\ begun.base = change[k].base
        /\ begun.replaced = change[k].replaced
    BY <1>1, <1>2 DEF Known, Places
  <2>. HIDE DEF begun
  <2>3. Fits(begun)
    BY <1>1, <1>3, <2>2 DEF Fits
  <2>. QED BY <2>1, <2>2, <2>3, ChangeMoves DEF BeginUpdate
<1>4. CASE change[k].prev # Latest
  <2>1. change' = [change EXCEPT ![k] = AnswerFor(k, "refused", 0)]
    BY <1>4 DEF BeginUpdate, MayFollow
  <2>2. /\ AnswerFor(k, "refused", 0) \in Known /\ AnswerFor(k, "refused", 0).at = "refused"
        /\ AnswerFor(k, "refused", 0).by = change[k].by
    BY <1>2, AnswerKnown DEF Places
  <2>3. Fits(AnswerFor(k, "refused", 0))
    BY <1>1, <2>2 DEF Fits
  <2>. QED BY <2>1, <2>2, <2>3, ChangeMoves DEF BeginUpdate
<1>. QED BY <1>3, <1>4

\* The patch between a version and its mutation, applied to the snapshot
PatchOf(ch) ==
  Patched(history[ch.snapshot], history[ch.compared], Mutated(ch.base, ch.field))

LEMMA PatchFits ==
  ASSUME Inv, NEW k \in Changes, change[k].at = "applying"
  PROVE  /\ PatchOf(change[k]) \in [Fields -> Nat]
         /\ \A f \in Fields : PatchOf(change[k])[f] <= Latest
<1>. DEFINE ch == change[k]
<1>1. /\ ch.base \in Versions /\ ch.compared \in Versions /\ ch.snapshot \in Versions
      /\ ch.field \in Fields
  BY DEF Inv, KnownInv, Known, ChangeInv, Fits, Versions, Latest
<1>2. Latest \in Nat
  BY DEF Inv, HistoryInv
<1>3. \A v \in Versions, f \in Fields : history[v][f] \in Nat /\ history[v][f] < v /\ v <= Latest
  BY DEF Inv, HistoryInv, Versions, Latest
<1>4. \A f \in Fields : Mutated(ch.base, ch.field)[f] \in Nat /\ Mutated(ch.base, ch.field)[f] <= Latest
  <2>1. history[ch.base] \in [Fields -> Nat]
    BY <1>1 DEF Inv, HistoryInv, Versions, Latest
  <2>2. ch.base \in Nat
    BY <1>1 DEF Versions, Latest, Inv, HistoryInv
  <2>. QED BY <1>1, <1>2, <1>3, <2>1, <2>2 DEF Mutated
<1>. HIDE DEF ch
<1>5. \A f \in Fields : PatchOf(ch)[f] \in Nat /\ PatchOf(ch)[f] <= Latest
  <2>1. \A f \in Fields : history[ch.snapshot][f] \in Nat /\ history[ch.snapshot][f] <= Latest
    <3>1. ch.snapshot \in Nat /\ ch.snapshot <= Latest
      BY <1>1, <1>2 DEF Versions, Latest
    <3>. QED BY <1>1, <1>2, <1>3, <3>1
  <2>. QED BY <1>4, <2>1 DEF PatchOf, Patched
<1>6. PatchOf(ch) \in [Fields -> Nat]
  BY <1>5 DEF PatchOf, Patched
<1>. QED BY <1>5, <1>6 DEF ch

LEMMA EndUpdateStep ==
  ASSUME Inv, NEW k \in Changes, EndUpdate(k)
  PROVE  Inv'
<1>. DEFINE done == AnswerFor(k, "applied", 0)
<1>1. change[k].at = "applying" /\ Fits(change[k])
  BY DEF EndUpdate, Inv, ChangeInv
<1>2. /\ HistoryInv' /\ Latest' = Latest + 1 /\ Versions \subseteq Versions'
  BY <1>1, PatchFits, Grows DEF EndUpdate, PatchOf
<1>3. done \in Known /\ done.at = "applied" /\ done.by = change[k].by
  BY AnswerKnown DEF Places, Inv, HistoryInv
<1>4. change' = [change EXCEPT ![k] = done]
  BY DEF EndUpdate
<1>. HIDE DEF done
<1>5. \A j \in Changes : change'[j] = IF j = k THEN done ELSE change[j]
  BY <1>4 DEF Inv, KnownInv
<1>6. change' \in [Changes -> Known]
  BY <1>3, <1>4 DEF Inv, KnownInv
<1>7. ChangeInv'
  <2>1. Fits(done)
    BY <1>1, <1>3 DEF Fits
  <2>. QED BY <1>5, <2>1 DEF EndUpdate, client, Inv, ChangeInv, Fits
<1>8. Latest \in Nat /\ outside \in 0..Latest
  BY DEF Inv, HistoryInv, KnownInv
<1>9. Latest' \in Nat /\ Latest <= Latest' /\ outside' \in 0..Latest'
  BY <1>2, <1>8 DEF EndUpdate
<1>. QED BY <1>2, <1>6, <1>7, <1>9, GrowsOnly DEF EndUpdate

LEMMA AnswerUpdateStep ==
  ASSUME Inv, NEW k \in Changes, AnswerUpdate(k)
  PROVE  Inv'
<1>. DEFINE answered == AnswerFor(k, "answered", Latest)
<1>1. Latest \in 0..Latest /\ Latest # 0
  BY DEF Inv, HistoryInv
<1>2. change[k].at = "applied" /\ Fits(change[k])
  BY DEF AnswerUpdate, Inv, ChangeInv
<1>3. /\ answered \in Known /\ answered.at = "answered" /\ answered.prev = Latest
      /\ answered.by = change[k].by
  BY <1>1, AnswerKnown DEF Places
<1>4. change' = [change EXCEPT ![k] = answered]
  BY DEF AnswerUpdate
<1>. HIDE DEF answered
<1>5. Fits(answered)
  BY <1>1, <1>2, <1>3 DEF Fits
<1>. QED BY <1>3, <1>4, <1>5, ChangeMoves DEF AnswerUpdate

LEMMA EndStep ==
  ASSUME Inv, NEW k \in Changes, EndChange(k)
  PROVE  Inv'
<1>. DEFINE c == change[k].by
<1>1. HistoryInv' /\ Latest' = Latest /\ Versions' = Versions /\ Known' = Known
  BY SameHistory DEF EndChange
<1>2. /\ change' = [change EXCEPT ![k] = NoChange] /\ change[k].at # "idle"
      /\ UNCHANGED <<outside, stream, canonical, overtook, answers, faults>>
  BY DEF EndChange
<1>3. /\ NoChange \in Known /\ NoChange.at = "idle" /\ c \in Clients /\ stream[c] # "none"
  BY <1>2, NoChangeKnown DEF Inv, HistoryInv, KnownInv, Known, ChangeInv, Fits
<1>4. /\ shown' \in [Clients -> 0..Latest] /\ (shown[c] # 0 => shown'[c] # 0)
      /\ \A d \in Clients \ {c} : shown'[d] = shown[d] /\ deriving'[d] = deriving[d]
      /\ deriving' \in [Clients -> Seq(Versions)]
      /\ FollowInv'
  <2>1. CASE change[k].at = "answered"
    <3>1. change[k].prev \in Versions /\ Show(c, change[k].prev)
      BY <2>1 DEF EndChange, Inv, KnownInv, Known, ChangeInv, Fits, Versions, Latest
    <3>. QED BY <1>2, <1>3, <3>1, ShowStep
  <2>2. CASE change[k].at # "answered"
    BY <1>2, <2>2 DEF EndChange, Inv, KnownInv, FollowInv
  <2>. QED BY <2>1, <2>2
<1>. HIDE DEF c
<1>5. KnownInv'
  BY <1>1, <1>2, <1>3, <1>4 DEF Inv, KnownInv
<1>6. StartedInv'
  BY <1>2, <1>3, <1>4 DEF Inv, KnownInv, StartedInv
<1>7. ChangeInv'
  <2>1. \A j \in Changes : change'[j] = IF j = k THEN NoChange ELSE change[j]
    BY <1>2 DEF Inv, KnownInv
  <2>. QED BY <1>2, <1>3, <2>1 DEF Inv, ChangeInv, Fits
<1>. QED BY <1>1, <1>4, <1>5, <1>6, <1>7 DEF Inv

LEMMA FailsStep ==
  ASSUME Inv, NEW k \in Changes, ChangeFails(k)
  PROVE  Inv'
<1>1. NoChange \in Known /\ NoChange.at = "idle"
  BY NoChangeKnown DEF Inv, HistoryInv
<1>2. Fits(NoChange)
  BY <1>1 DEF Fits
<1>. QED BY <1>1, <1>2, ChangeMoves DEF ChangeFails

LEMMA InvStep ==
  ASSUME Inv, [Next]_vars
  PROVE  Inv'
<1>1. CASE UNCHANGED vars
  <2>1. HistoryInv' /\ Latest' = Latest /\ Versions' = Versions /\ Known' = Known
    BY <1>1, SameHistory DEF vars
  <2>2. KnownInv' /\ StartedInv' /\ ChangeInv' /\ FollowInv'
    BY <1>1, <2>1 DEF vars, client, Inv, KnownInv, StartedInv, ChangeInv, Fits, FollowInv
  <2>. QED BY <2>1, <2>2 DEF Inv
<1>2. CASE BeginExternal
  BY <1>2, BeginExternalStep
<1>3. CASE outside # 0 /\ EndExternal(history[outside])
  <2>1. /\ history[outside] \in [Fields -> Nat]
        /\ \A f \in Fields : history[outside][f] <= Latest
    <3>1. outside \in Versions /\ outside \in Nat /\ outside <= Latest /\ Latest \in Nat
      BY <1>3 DEF Inv, HistoryInv, KnownInv, Versions, Latest
    <3>2. history[outside] \in [Fields -> Nat] /\ \A f \in Fields : history[outside][f] < outside
      BY <3>1 DEF Inv, HistoryInv, Versions, Latest
    <3>. QED BY <3>1, <3>2
  <2>. QED BY <1>3, <2>1, ExternalStep
<1>4. ASSUME NEW f \in Fields, outside # 0, EndExternal(Mutated(outside, f)) PROVE Inv'
  <2>1. outside \in Versions /\ outside \in Nat /\ outside <= Latest /\ Latest \in Nat
    BY <1>4 DEF Inv, HistoryInv, KnownInv, Versions, Latest
  <2>2. history[outside] \in [Fields -> Nat] /\ \A g \in Fields : history[outside][g] < outside
    BY <2>1 DEF Inv, HistoryInv, Versions, Latest
  <2>3. /\ Mutated(outside, f) \in [Fields -> Nat]
        /\ \A g \in Fields : Mutated(outside, f)[g] <= Latest
    BY <2>1, <2>2 DEF Mutated
  <2>. QED BY <1>4, <2>3, ExternalStep
<1>5. ASSUME NEW c \in Clients, Close(c) \/ AnswerPoll(c) \/ PollFails(c) PROVE Inv'
  BY <1>5, CloseStep, AnswerStep
<1>6. ASSUME NEW k \in Changes, ChangeStep(k) \/ ChangeFails(k) PROVE Inv'
  BY <1>6, SendStep, BeginUpdateStep, EndUpdateStep, AnswerUpdateStep, EndStep, FailsStep
  DEF ChangeStep
<1>7. ASSUME NEW k \in Changes, NEW c \in Clients, NEW f \in Edited, BeginChange(k, c, f)
      PROVE  Inv'
  BY <1>7, BeginStep
<1>8. ASSUME NEW c \in Clients, NEW v \in Versions, Open(c, v) \/ HearPoll(c, v) PROVE Inv'
  BY <1>8, OpenStep, HearStep
<1>9. ASSUME NEW c \in Clients, NEW i \in DOMAIN deriving[c], Derived(c, i) \/ DeriveFails(c, i)
      PROVE  Inv'
  BY <1>9, DerivedStep, DeriveFailsStep
<1>. QED BY <1>1, <1>2, <1>3, <1>4, <1>5, <1>6, <1>7, <1>8, <1>9 DEF Next

LEMMA InvAlways == Spec => []Inv
BY InvInit, InvStep, PTL DEF Spec

-----------------------------------------------------------------------------
\* Every variable of the node and its clients keeps its type.
THEOREM ClientTypeCorrect == Spec => []TypeOK
BY InvAlways, InvTypes, PTL

\* A client that waits for nothing keeps the canonical form of what it shows,
\* as long as no form has overtaken another and none has failed.
THEOREM CanonicalIsOfShown == Spec => []CanonicalFollows
<1>1. Inv => CanonicalFollows
  BY DEF Inv, FollowInv, CanonicalFollows
<1>. QED BY <1>1, InvAlways, PTL

-----------------------------------------------------------------------------
(* What an accepted update does to the document. *)

LEMMA AppliedByUpdate ==
  ASSUME Inv, [Next]_vars, NEW k \in Changes, Applies(k)
  PROVE  /\ change[k] \in Known /\ change[k].at = "applying" /\ Fits(change[k])
         /\ Latest' = Latest + 1 /\ history'[Latest'] = PatchOf(change[k])
<1>. USE DEF Inv, KnownInv
<1>1. /\ change \in [Changes -> Known] /\ change[k].at = "applying" /\ change'[k].at = "applied"
      /\ Fits(change[k])
  BY DEF Applies, ChangeInv
<1>2. CASE EndUpdate(k)
  <2>1. history' = Append(history, PatchOf(change[k])) /\ Latest < MaxVersions
    BY <1>2 DEF EndUpdate, PatchOf
  <2>2. /\ PatchOf(change[k]) \in [Fields -> Nat]
        /\ \A f \in Fields : PatchOf(change[k])[f] <= Latest
    BY <1>1, PatchFits
  <2>. QED BY <1>1, <2>1, <2>2, Grows
<1>3. ASSUME NEW j \in Changes, j # k, NEW ch, change' = [change EXCEPT ![j] = ch] PROVE FALSE
  BY <1>1, <1>3
<1>4. ASSUME NEW ch, ch.at # "applied", change' = [change EXCEPT ![k] = ch] PROVE FALSE
  BY <1>1, <1>4
<1>5. ASSUME NEW j \in Changes,
             Send(j) \/ BeginUpdate(j) \/ AnswerUpdate(j) \/ EndChange(j) \/ ChangeFails(j)
      PROVE  FALSE
  <2>1. CASE j # k
    BY <1>3, <1>5, <2>1 DEF Send, BeginUpdate, AnswerUpdate, EndChange, ChangeFails
  <2>2. CASE Send(k) \/ BeginUpdate(k) \/ AnswerUpdate(k)
    BY <1>1, <2>2 DEF Send, BeginUpdate, AnswerUpdate
  <2>3. CASE EndChange(k) \/ ChangeFails(k)
    <3>1. change' = [change EXCEPT ![k] = NoChange] /\ NoChange.at # "applied"
      BY <2>3 DEF EndChange, ChangeFails, NoChange
    <3>. QED BY <1>4, <3>1
  <2>. QED BY <1>5, <2>1, <2>2, <2>3
<1>6. ASSUME NEW j \in Changes, j # k, EndUpdate(j) PROVE FALSE
  BY <1>3, <1>6 DEF EndUpdate
<1>7. ASSUME NEW j \in Changes, NEW d \in Clients, NEW f \in Edited, BeginChange(j, d, f)
      PROVE  FALSE
  <2>1. CASE j # k
    BY <1>3, <1>7, <2>1 DEF BeginChange
  <2>2. CASE j = k
    BY <1>1, <1>7, <2>2 DEF BeginChange
  <2>. QED BY <2>1, <2>2
<1>8. ASSUME NEW d \in Clients, NEW i, Derived(d, i) PROVE FALSE
  <2>1. change'[k].at = change[k].at
    BY <1>1, <1>8 DEF Derived, Known
  <2>. QED BY <1>1, <2>1
<1>9. CASE UNCHANGED change
  BY <1>1, <1>9
<1>. QED
  BY <1>1, <1>2, <1>5, <1>6, <1>7, <1>8, <1>9
  DEF Next, ChangeStep, BeginExternal, EndExternal, Close, AnswerPoll, PollFails, Open, Track,
      HearPoll, DeriveFails, vars

\* An accepted update changes nothing of the snapshot it was applied to but the
\* field that its author changed, unless another canonical form came in while the
\* mutation ran.
THEOREM OwnFieldOnly == Spec => ChangesOwnFieldOnly
<1>. DEFINE OwnOnly == \A k \in Changes : Applies(k) /\ ~change[k].replaced =>
              \A f \in Fields \ {change[k].field} :
                history'[Latest'][f] = history[change[k].snapshot][f]
<1>1. Inv /\ [Next]_vars => [OwnOnly]_vars
  <2>. SUFFICES ASSUME Inv, [Next]_vars, NEW k \in Changes, Applies(k), ~change[k].replaced,
                       NEW f \in Fields \ {change[k].field}
                PROVE  history'[Latest'][f] = history[change[k].snapshot][f]
    OBVIOUS
  <2>1. /\ change[k] \in Known /\ change[k].at = "applying" /\ Fits(change[k])
        /\ history'[Latest'] = PatchOf(change[k])
    BY AppliedByUpdate
  <2>2. change[k].compared = change[k].base /\ change[k].base \in Versions
    BY <2>1 DEF Fits, Known, Inv, HistoryInv, Versions, Latest
  <2>3. Mutated(change[k].base, change[k].field)[f] = history[change[k].base][f]
    <3>1. history[change[k].base] \in [Fields -> Nat]
      BY <2>2 DEF Inv, HistoryInv, Versions, Latest
    <3>. QED BY <3>1 DEF Mutated
  <2>. QED BY <2>1, <2>2, <2>3 DEF PatchOf, Patched
<1>. QED BY <1>1, InvAlways, PTL DEF Spec, ChangesOwnFieldOnly

\* An accepted update loses an edit of another only if its author had heard of
\* that edit before the patch was made, or the node took that edit while it
\* applied this update.
THEOREM LosesHeardOnly == Spec => LosesOnlyWhatWasHeard
<1>. DEFINE HeardOnly == \A k \in Changes : Applies(k) =>
              \/ history'[Latest'] = Mutated(Latest, change[k].field)
              \/ change[k].base < change[k].prev
              \/ change[k].replaced
              \/ change[k].snapshot # Latest
<1>1. Inv /\ [Next]_vars => [HeardOnly]_vars
  <2>. SUFFICES ASSUME Inv, [Next]_vars, NEW k \in Changes, Applies(k), ~change[k].replaced,
                       ~(change[k].base < change[k].prev), change[k].snapshot = Latest
                PROVE  history'[Latest'] = Mutated(Latest, change[k].field)
    OBVIOUS
  <2>1. /\ change[k] \in Known /\ change[k].at = "applying" /\ Fits(change[k])
        /\ history'[Latest'] = PatchOf(change[k])
    BY AppliedByUpdate
  <2>2. /\ change[k].compared = change[k].base /\ change[k].base \in 0..Latest
        /\ change[k].prev = Latest /\ Latest \in Nat \ {0}
    BY <2>1 DEF Fits, Known, Inv, HistoryInv
  <2>3. change[k].base = Latest
    BY <2>2
  <2>4. history[Latest] \in [Fields -> Nat] /\ change[k].field \in Fields
    BY <2>1, <2>2 DEF Known, Inv, HistoryInv, Latest
  <2>5. PatchOf(change[k]) = Patched(history[Latest], history[Latest], Mutated(Latest, change[k].field))
    BY <2>2, <2>3 DEF PatchOf
  <2>. QED BY <2>1, <2>4, <2>5 DEF Patched, Mutated
<1>. QED BY <1>1, InvAlways, PTL DEF Spec, LosesOnlyWhatWasHeard
=============================================================================
