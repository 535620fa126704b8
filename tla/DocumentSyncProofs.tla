-------------------------- MODULE DocumentSyncProofs --------------------------
(* What holds of the log of a document on every node, for any number of      *)
(* nodes, records, jobs and faults, and however the jobs overlap.            *)
EXTENDS DocumentSync, SequenceTheorems, WellFoundedInduction, TLAPS

-----------------------------------------------------------------------------
(* The inductive invariant.  Every snapshot, a node's or a job's, is sound:  *)
(* its log is a lawful chain, and its view is what the last update in the    *)
(* log has led to, with whatever the checks of its parties' signatures found *)
(* then.  A chain is never broken by a record that is stored later, because  *)
(* every record a chain holds is stored already.                             *)

Told(s) ==
    \/ /\ s.view = Knead
       /\ \A i \in DOMAIN s.log : s.log[i] \notin Updates
    \/ \E i \in DOMAIN s.log :
        /\ s.log[i] \in Updates
        /\ s.view.num = Content[s.log[i]].num
        /\ s.view.stage = "agreement" <=> i \in s.agreed
        /\ \A k \in DOMAIN s.log : k > i => s.log[k] \notin Updates

\* IsChain and Stored, of any map of links.
ChainIn(links, log) ==
    /\ Len(log) > 0
    /\ log[1] = Genesis
    /\ \A i \in 1 .. (Len(log) - 1) : links[log[i + 1]] = log[i]

StoredIn(links, r) == r = Genesis \/ links[r] # None

SoundIn(links, s) ==
    ChainIn(links, s.log) /\ Lawful(s) /\ Told(s) /\ s.agreed \subseteq DOMAIN s.log

GoodLinks(links) ==
    /\ links \in [Records -> Records \cup {None}]
    /\ links[Genesis] = None
    /\ \A r \in Records : links[r] # None => StoredIn(links, links[r])

GoodDocs(links, docs) ==
    /\ docs \in [Nodes -> Snapshot]
    /\ \A n \in Nodes : SoundIn(links, docs[n])

GoodJobs(links, js) ==
    /\ js \in [Jobs -> Job]
    /\ \A j \in Jobs : StoredIn(links, js[j].tip) /\ SoundIn(links, js[j].snap)

\* The inboxes and the polls.
GoodSets(links, sets) ==
    /\ sets \in [Nodes -> SUBSET Records]
    /\ \A n \in Nodes : \A r \in sets[n] : StoredIn(links, r)

SyncInv ==
    /\ GoodLinks(prev)
    /\ GoodDocs(prev, doc)
    /\ GoodJobs(prev, jobs)
    /\ GoodSets(prev, inbox)
    /\ GoodSets(prev, polls)
    /\ stream \in [Nodes -> {"unloaded", "live", "dead"}]
    /\ asked \subseteq Nodes
    /\ faults \in Faults

\* What the proofs use of the assumptions on the constants.
LEMMA Constants ==
  /\ None \notin Records /\ None \notin Nodes
  /\ Genesis \in Records /\ Genesis \notin Updates /\ Genesis \notin Leaves
  /\ \A r \in Leaves : r \notin Updates
  /\ Updates \subseteq Records /\ Leaves \subseteq Records
  /\ MaxFaults \in Nat
BY SyncAssumption DEF Records

-----------------------------------------------------------------------------
(* Lemmas about snapshots.                                                   *)

LEMMA FreshIsSound ==
  ASSUME NEW links
  PROVE  Fresh \in Snapshot /\ SoundIn(links, Fresh)
BY Constants DEF Fresh, Snapshot, View, Knead, SoundIn, ChainIn, Lawful, Told

\* The head of a chain is a stored record.
LEMMA HeadIsStored ==
  ASSUME NEW links, NEW s \in Snapshot, ChainIn(links, s.log)
  PROVE  HeadOf(s) \in Records /\ StoredIn(links, HeadOf(s))
<1>. DEFINE k == Len(s.log)
<1>0. k \in Nat /\ k > 0
  BY DEF Snapshot, ChainIn
<1>1. s.log \in Seq(Records) /\ k \in Nat /\ k > 0 /\ s.log[1] = Genesis
  BY DEF Snapshot, ChainIn
<1>2. HeadOf(s) = s.log[k] /\ s.log[k] \in Records
  BY <1>1 DEF HeadOf, Last
<1>3. CASE k = 1
  BY <1>1, <1>2, <1>3 DEF StoredIn
<1>4. CASE k > 1
  <2>1. k - 1 \in 1 .. (k - 1) /\ s.log[k - 1] \in Records /\ (k - 1) + 1 = k
    BY <1>1, <1>4
  <2>2. links[s.log[(k - 1) + 1]] = s.log[k - 1]
    BY <2>1 DEF ChainIn
  <2>3. links[HeadOf(s)] \in Records
    BY <1>2, <2>1, <2>2
  <2>. QED BY <1>2, <2>3, Constants DEF StoredIn
<1>5. \A i \in Nat : i > 0 => i = 1 \/ i > 1
  OBVIOUS
<1>. QED BY <1>0, <1>3, <1>4, <1>5

\* Applying a record that fits keeps a snapshot sound.
LEMMA AfterIsSound ==
  ASSUME NEW links, NEW s \in Snapshot, SoundIn(links, s), NEW r \in Records,
         NEW fits \in Found(r), links[r] = HeadOf(s), Acceptable(s.view, r, fits)
  PROVE  After(s, r, fits) \in Snapshot /\ SoundIn(links, After(s, r, fits))
<1>. DEFINE t == After(s, r, fits)
            k == Len(s.log)
<1>1. /\ s.log \in Seq(Records) /\ s.view \in View /\ k \in Nat /\ k > 0
      /\ s.agreed \in SUBSET Nat /\ s.agreed \subseteq 1 .. k
  BY DEF Snapshot, SoundIn, ChainIn
<1>2. r # Genesis /\ r \in Updates \cup Leaves
  BY DEF Acceptable, Records
<1>3. /\ t.log \in Seq(Records) /\ Len(t.log) = k + 1
      /\ t.log[k + 1] = r
      /\ \A i \in 1 .. k : t.log[i] = s.log[i]
      /\ DOMAIN t.log = 1 .. (k + 1) /\ DOMAIN s.log = 1 .. k
  BY <1>1 DEF After
<1>4. t.view = IF r \in Leaves THEN s.view ELSE Applied(r, fits)
  BY DEF After
<1>a. t.agreed = IF r \in Updates /\ Stage(fits) = "agreement" THEN s.agreed \cup {k + 1}
                 ELSE s.agreed
  BY DEF After, Closes
<1>b. /\ k + 1 \notin s.agreed /\ t.agreed \subseteq 1 .. (k + 1)
      /\ t.agreed \in SUBSET Nat
      /\ \A i \in 1 .. k : i \in t.agreed <=> i \in s.agreed
      /\ k + 1 \in t.agreed <=> r \in Updates /\ Stage(fits) = "agreement"
  BY <1>1, <1>a
<1>c. ASSUME r \in Updates
      PROVE  /\ Content[r].num \in Nat /\ Content[r].signed # {}
             /\ Stage(fits) = "agreement" => Content[r].signed = Parties
             /\ Applied(r, fits) \in View
  <2>1. /\ Content[r].num \in Nat /\ Content[r].signed \subseteq Parties
        /\ fits \subseteq Content[r].signed /\ fits # {}
    BY <1>c, ContentAssumption DEF Found, Checks, Acceptable, CanApply
  <2>. QED BY <2>1 DEF Applied, View, Stage
<1>6. t \in Snapshot
  <2>1. t.view \in View
    BY <1>1, <1>2, <1>4, <1>c
  <2>. HIDE DEF t
  <2>2. t = [log |-> t.log, view |-> t.view, agreed |-> t.agreed]
    BY DEF t, After
  <2>. QED BY <1>3, <1>b, <2>1, <2>2 DEF Snapshot
<1>. HIDE DEF t
<1>7. ChainIn(links, t.log)
  <2>1. HeadOf(s) = s.log[k]
    BY DEF HeadOf, Last
  <2>2. ASSUME NEW i \in 1 .. k
        PROVE  links[t.log[i + 1]] = t.log[i]
    <3>1. CASE i = k
      BY <1>3, <2>1, <3>1
    <3>2. CASE i < k
      <4>1. i \in 1 .. (k - 1) /\ i + 1 \in 1 .. k
        BY <1>1, <3>2
      <4>. QED BY <1>3, <4>1 DEF SoundIn, ChainIn
    <3>. QED BY <1>1, <3>1, <3>2
  <2>. QED BY <1>1, <1>3, <2>2 DEF SoundIn, ChainIn
<1>8. \A i \in 1 .. k : s.log[i] \in Updates /\ r \in Updates =>
          i \notin s.agreed /\ Content[s.log[i]].num <= Content[r].num
  <2>. SUFFICES ASSUME NEW i \in 1 .. k, s.log[i] \in Updates, r \in Updates
                PROVE  /\ i \notin s.agreed
                       /\ Content[s.log[i]].num <= Content[r].num
    OBVIOUS
  <2>1. s.view.stage # "agreement" /\ Content[r].num >= s.view.num
    BY DEF Acceptable, CanApply
  <2>2. PICK m \in 1 .. k :
            /\ s.log[m] \in Updates
            /\ s.view.num = Content[s.log[m]].num
            /\ s.view.stage = "agreement" <=> m \in s.agreed
            /\ \A h \in DOMAIN s.log : h > m => s.log[h] \notin Updates
    BY <1>3 DEF SoundIn, Told
  <2>3. /\ m \notin s.agreed /\ Content[s.log[m]].num <= Content[r].num
        /\ Content[s.log[m]].num \in Nat /\ Content[r].num \in Nat
    BY <1>c, <2>1, <2>2, ContentAssumption
  <2>4. CASE i = m
    BY <2>3, <2>4
  <2>5. CASE i # m
    <3>1. i \in 1 .. (m - 1)
      <4>1. i \in Int /\ m \in Int /\ i >= 1 /\ i \in DOMAIN s.log
        BY <1>1, <1>3
      <4>2. ~(i > m)
        BY <2>2, <4>1
      <4>. QED BY <2>5, <4>1, <4>2
    <3>2. i \notin s.agreed /\ Content[s.log[i]].num <= Content[s.log[m]].num
      BY <1>3, <2>2, <3>1 DEF SoundIn, Lawful
    <3>3. Content[s.log[i]].num \in Nat
      BY <2>2, ContentAssumption
    <3>. QED BY <2>3, <3>2, <3>3
  <2>. QED BY <2>4, <2>5
<1>9. Lawful(t)
  <2>1. ASSUME NEW j \in 1 .. (k + 1), t.log[j] \in Updates
        PROVE  /\ Content[t.log[j]].signed # {}
               /\ j \in t.agreed => Content[t.log[j]].signed = Parties
               /\ \A i \in 1 .. (j - 1) : t.log[i] \in Updates =>
                    /\ i \notin t.agreed
                    /\ Content[t.log[i]].num <= Content[t.log[j]].num
    <3>1. CASE j = k + 1
      <4>1. r \in Updates /\ t.log[j] = r
        BY <1>3, <2>1, <3>1
      <4>2. \A i \in 1 .. (j - 1) : i \in 1 .. k /\ t.log[i] = s.log[i]
        BY <1>1, <1>3, <3>1
      <4>. QED BY <1>8, <1>b, <1>c, <3>1, <4>1, <4>2
    <3>2. CASE j \in 1 .. k
      <4>1. \A i \in 1 .. j : t.log[i] = s.log[i] /\ (i \in t.agreed <=> i \in s.agreed)
        BY <1>1, <1>3, <1>b, <3>2
      <4>2. j \in DOMAIN s.log /\ s.log[j] \in Updates /\ s.log[j] = t.log[j]
        BY <1>3, <2>1, <3>2, <4>1
      <4>3. /\ Content[s.log[j]].signed # {}
            /\ j \in s.agreed => Content[s.log[j]].signed = Parties
            /\ \A i \in 1 .. (j - 1) : s.log[i] \in Updates =>
                  /\ i \notin s.agreed
                  /\ Content[s.log[i]].num <= Content[s.log[j]].num
        BY <4>2 DEF SoundIn, Lawful
      <4>4. \A i \in 1 .. (j - 1) : i \in 1 .. j
        BY <1>1, <3>2
      <4>. QED BY <3>2, <4>1, <4>2, <4>3, <4>4
    <3>. QED BY <1>1, <3>1, <3>2
  <2>2. ASSUME t.view.stage = "agreement"
        PROVE  \E j \in t.agreed \cap DOMAIN t.log : t.log[j] \in Updates
    <3>1. CASE r \in Updates
      <4>1. Stage(fits) = "agreement"
        BY <1>4, <2>2, <3>1, Constants DEF Applied
      <4>. QED BY <1>1, <1>3, <1>b, <3>1, <4>1
    <3>2. CASE r \notin Updates
      <4>1. s.view.stage = "agreement"
        BY <1>2, <1>4, <2>2, <3>2
      <4>2. PICK j \in s.agreed \cap DOMAIN s.log : s.log[j] \in Updates
        BY <4>1 DEF SoundIn, Lawful
      <4>. QED BY <1>1, <1>3, <1>b, <4>2
    <3>. QED BY <3>1, <3>2
  <2>. QED BY <1>3, <2>1, <2>2 DEF Lawful
<1>10. Told(t)
  <2>1. CASE r \in Updates
    <3>1. t.view.num = Content[r].num /\ t.view.stage = Stage(fits)
      BY <1>4, <2>1, Constants DEF Applied
    <3>2. k + 1 \in DOMAIN t.log /\ \A h \in DOMAIN t.log : ~(h > k + 1)
      BY <1>1, <1>3
    <3>. QED BY <1>3, <1>b, <2>1, <3>1, <3>2 DEF Told
  <2>2. CASE r \notin Updates
    <3>1. t.view = s.view
      BY <1>2, <1>4, <2>2
    <3>2. \A h \in DOMAIN t.log :
             \/ h \in DOMAIN s.log /\ t.log[h] = s.log[h]
             \/ h = k + 1 /\ t.log[h] \notin Updates
      BY <1>1, <1>3, <2>2
    <3>3. CASE s.view = Knead /\ \A i \in DOMAIN s.log : s.log[i] \notin Updates
      BY <3>1, <3>2, <3>3 DEF Told
    <3>4. CASE \E i \in DOMAIN s.log :
                  /\ s.log[i] \in Updates
                  /\ s.view.num = Content[s.log[i]].num
                  /\ s.view.stage = "agreement" <=> i \in s.agreed
                  /\ \A h \in DOMAIN s.log : h > i => s.log[h] \notin Updates
      <4>1. PICK i \in DOMAIN s.log :
                  /\ s.log[i] \in Updates
                  /\ s.view.num = Content[s.log[i]].num
                  /\ s.view.stage = "agreement" <=> i \in s.agreed
                  /\ \A h \in DOMAIN s.log : h > i => s.log[h] \notin Updates
        BY <3>4
      <4>2. i \in DOMAIN t.log /\ t.log[i] = s.log[i] /\ (i \in t.agreed <=> i \in s.agreed)
        BY <1>1, <1>3, <1>b
      <4>3. \A h \in DOMAIN t.log : h > i => t.log[h] \notin Updates
        BY <3>2, <4>1
      <4>. QED BY <3>1, <4>1, <4>2, <4>3 DEF Told
    <3>. QED BY <3>3, <3>4 DEF SoundIn, Told
  <2>. QED BY <2>1, <2>2
<1>11. t.agreed \subseteq DOMAIN t.log
  BY <1>3, <1>b
<1>12. SoundIn(links, t)
  BY <1>7, <1>9, <1>10, <1>11 DEF SoundIn
<1>. QED BY <1>6, <1>12 DEF t

\* Storing a new record does not touch a chain.
LEMMA ChainStays ==
  ASSUME NEW links \in [Records -> Records \cup {None}],
         NEW log \in Seq(Records), ChainIn(links, log),
         NEW r \in Records, ~StoredIn(links, r), NEW p \in Records
  PROVE  ChainIn([links EXCEPT ![r] = p], log)
<1>. SUFFICES ASSUME NEW i \in 1 .. (Len(log) - 1)
              PROVE  [links EXCEPT ![r] = p][log[i + 1]] = log[i]
  BY DEF ChainIn
<1>1. i + 1 \in 1 .. Len(log) /\ i \in 1 .. Len(log)
  OBVIOUS
<1>2. log[i + 1] \in Records /\ log[i] \in Records
  BY <1>1
<1>3. links[log[i + 1]] = log[i]
  BY DEF ChainIn
<1>4. log[i + 1] # r
  BY <1>2, <1>3, Constants DEF StoredIn
<1>. QED BY <1>2, <1>3, <1>4

\* What is stored stays stored, and links only to what is stored.
LEMMA StoringKeepsLinks ==
  ASSUME NEW links, GoodLinks(links), NEW r \in Records, ~StoredIn(links, r),
         NEW p \in Records, StoredIn(links, p)
  PROVE  /\ GoodLinks([links EXCEPT ![r] = p])
         /\ \A q \in Records :
                StoredIn(links, q) => StoredIn([links EXCEPT ![r] = p], q)
<1>. DEFINE next == [links EXCEPT ![r] = p]
<1>1. r # Genesis /\ p # None
  BY Constants DEF StoredIn
<1>2. /\ next \in [Records -> Records \cup {None}]
      /\ \A q \in Records : next[q] = IF q = r THEN p ELSE links[q]
  BY DEF GoodLinks
<1>. HIDE DEF next
<1>3. \A q \in Records : StoredIn(links, q) => StoredIn(next, q)
  BY <1>1, <1>2 DEF StoredIn
<1>4. next[Genesis] = None
  BY <1>1, <1>2, Constants DEF GoodLinks
<1>5. ASSUME NEW q \in Records, next[q] # None
      PROVE  StoredIn(next, next[q])
  <2>1. CASE q = r
    BY <1>2, <1>3, <2>1
  <2>2. CASE q # r
    <3>1. next[q] = links[q] /\ links[q] \in Records /\ StoredIn(links, links[q])
      BY <1>2, <1>5, <2>2 DEF GoodLinks
    <3>. QED BY <1>3, <3>1
  <2>. QED BY <2>1, <2>2
<1>6. GoodLinks(next)
  BY <1>2, <1>4, <1>5 DEF GoodLinks
<1>. QED BY <1>3, <1>6 DEF next

-----------------------------------------------------------------------------
(* What the parts of an action keep.                                         *)

LEMMA IdleIsGood ==
  ASSUME NEW links
  PROVE  Idle \in Job /\ StoredIn(links, Idle.tip) /\ SoundIn(links, Idle.snap)
BY FreshIsSound, Constants DEF Idle, Job, StoredIn

LEMMA PublishedIsGood ==
  ASSUME GoodSets(prev, inbox), NEW n, NEW r \in Records, StoredIn(prev, r)
  PROVE  GoodSets(prev, Published(n, r))
BY DEF GoodSets, Published

LEMMA RemovedIsGood ==
  ASSUME NEW links, NEW sets, GoodSets(links, sets), NEW n, NEW S
  PROVE  GoodSets(links, [sets EXCEPT ![n] = @ \ S])
BY DEF GoodSets

LEMMA FaultIsCounted ==
  ASSUME faults \in Faults, Fault \/ Loss
  PROVE  faults' \in Faults
<1>1. faults.count \in 0 .. MaxFaults /\ MaxFaults \in Nat
  BY Constants DEF Faults
<1>2. CASE Fault
  <2>1. faults' = [faults EXCEPT !.count = @ + 1] /\ faults.count + 1 \in 0 .. MaxFaults
    BY <1>1, <1>2 DEF Fault
  <2>. QED BY <2>1 DEF Faults
<1>3. CASE Loss
  <2>1. /\ faults' = [count |-> faults.count + 1, lost |-> TRUE]
        /\ faults.count + 1 \in 0 .. MaxFaults
    BY <1>1, <1>3 DEF Loss
  <2>. QED BY <2>1 DEF Faults
<1>. QED BY <1>2, <1>3

LEMMA AskingIsGood ==
  ASSUME GoodSets(prev, polls), faults \in Faults, NEW n,
         NEW r \in Records, StoredIn(prev, r), AskForAnchor(n, r)
  PROVE  GoodSets(prev, polls') /\ faults' \in Faults
<1>1. CASE polls' = [polls EXCEPT ![n] = @ \cup {r}] /\ UNCHANGED faults
  BY <1>1 DEF GoodSets
<1>2. CASE Fault /\ UNCHANGED polls
  BY <1>2, FaultIsCounted
<1>. QED BY <1>1, <1>2 DEF AskForAnchor

LEMMA EndingIsGood ==
  ASSUME NEW links, GoodJobs(links, jobs), NEW n, NEW kinds, EndJobs(n, kinds)
  PROVE  GoodJobs(links, jobs')
<1>1. \A j \in Jobs : jobs'[j] = jobs[j] \/ jobs'[j] = Idle
  BY DEF EndJobs
<1>2. jobs' = [j \in Jobs |-> jobs'[j]]
  BY DEF EndJobs
<1>3. \A j \in Jobs : /\ jobs'[j] \in Job
                      /\ StoredIn(links, jobs'[j].tip)
                      /\ SoundIn(links, jobs'[j].snap)
  BY <1>1, IdleIsGood DEF GoodJobs
<1>. QED BY <1>2, <1>3 DEF GoodJobs

LEMMA SettingIsGood ==
  ASSUME NEW links, GoodJobs(links, jobs), NEW j \in Jobs, NEW job \in Job,
         StoredIn(links, job.tip), SoundIn(links, job.snap), SetJob(j, job)
  PROVE  GoodJobs(links, jobs')
BY DEF GoodJobs, SetJob

LEMMA BeginningIsGood ==
  ASSUME NEW links, GoodJobs(links, jobs), GoodDocs(links, doc),
         NEW n \in Nodes, NEW j \in Jobs, NEW kind \in {"update", "head"}, NEW tip \in Records,
         StoredIn(links, tip), NEW rest \in Seq(Records), NEW built \in BOOLEAN,
         Begin(n, j, kind, tip, rest, built)
  PROVE  GoodJobs(links, jobs')
<1>. DEFINE job == [node |-> n, kind |-> kind, tip |-> tip, rest |-> rest,
                    snap |-> doc[n], built |-> built]
<1>1. job \in Job /\ job.tip = tip /\ job.snap = doc[n] /\ SoundIn(links, doc[n])
  BY DEF Job, GoodDocs
<1>2. SetJob(j, job)
  BY DEF Begin
<1>. HIDE DEF job
<1>. QED BY <1>1, <1>2, SettingIsGood

\* Storing a new record leaves all that is in use as good as it was.
LEMMA StoringKeepsGood ==
  ASSUME SyncInv, NEW r \in Records, ~Stored(r), NEW p \in Records, Stored(p),
         prev' = [prev EXCEPT ![r] = p]
  PROVE  /\ GoodLinks(prev')
         /\ GoodDocs(prev', doc) /\ GoodJobs(prev', jobs)
         /\ GoodSets(prev', inbox) /\ GoodSets(prev', polls)
<1>1. ~StoredIn(prev, r) /\ StoredIn(prev, p)
  BY DEF Stored, StoredIn
<1>2. /\ GoodLinks(prev')
      /\ \A q \in Records : StoredIn(prev, q) => StoredIn(prev', q)
  BY <1>1, StoringKeepsLinks DEF SyncInv
<1>3. ASSUME NEW s \in Snapshot, SoundIn(prev, s)
      PROVE  SoundIn(prev', s)
  <2>1. s.log \in Seq(Records)
    BY DEF Snapshot
  <2>2. ChainIn(prev', s.log)
    BY <1>1, <1>3, <2>1, ChainStays DEF SoundIn, SyncInv, GoodLinks
  <2>. QED BY <1>3, <2>2 DEF SoundIn
<1>4. GoodDocs(prev', doc)
  BY <1>3 DEF SyncInv, GoodDocs
<1>5. GoodJobs(prev', jobs)
  <2>1. \A j \in Jobs : jobs[j].tip \in Records /\ jobs[j].snap \in Snapshot
    BY DEF SyncInv, GoodJobs, Job
  <2>. QED BY <1>2, <1>3, <2>1 DEF SyncInv, GoodJobs
<1>6. GoodSets(prev', inbox) /\ GoodSets(prev', polls)
  BY <1>2 DEF SyncInv, GoodSets
<1>. QED BY <1>2, <1>4, <1>5, <1>6

\* A walk that has not reached the log has a record behind it.
LEMMA WalkIsGood ==
  ASSUME SyncInv, NEW j \in Jobs, Walk(j)
  PROVE  GoodJobs(prev, jobs')
<1>. DEFINE job == jobs[j]
            next == [job EXCEPT !.rest = <<job.tip>> \o @, !.tip = prev[job.tip]]
<1>1. /\ job \in Job /\ job.tip \in Records /\ job.snap \in Snapshot
      /\ StoredIn(prev, job.tip) /\ SoundIn(prev, job.snap)
  BY DEF SyncInv, GoodJobs, Job
<1>2. job.tip # Genesis
  <2>1. Has(job.snap, Genesis)
    BY <1>1 DEF SoundIn, ChainIn, Has, Snapshot
  <2>. QED BY <2>1 DEF Walk, Reached
<1>3. prev[job.tip] \in Records /\ StoredIn(prev, prev[job.tip])
  BY <1>1, <1>2 DEF SyncInv, GoodLinks, StoredIn
<1>4. next \in Job /\ next.tip = prev[job.tip] /\ next.snap = job.snap
  <2>1. job.rest \in Seq(Records)
    BY <1>1 DEF Job
  <2>2. <<job.tip>> \o job.rest \in Seq(Records)
    BY <1>1, <2>1
  <2>. QED BY <1>1, <1>3, <2>2 DEF Job
<1>5. SetJob(j, next) /\ GoodJobs(prev, jobs)
  BY DEF Walk, SyncInv
<1>. HIDE DEF next
<1>. QED BY <1>1, <1>3, <1>4, <1>5, SettingIsGood

\* A record is only applied to the snapshot it continues.
LEMMA ApplyingIsGood ==
  ASSUME SyncInv, NEW j \in Jobs, ApplyRecord(j)
  PROVE  /\ GoodJobs(prev, jobs')
         /\ GoodSets(prev, polls') /\ faults' \in Faults
<1>. DEFINE job == jobs[j]
            r == Head(job.rest)
<1>0. PICK fits \in Found(r) :
        /\ Fits(job, fits)
        /\ SetJob(j, [job EXCEPT !.rest = Tail(@), !.snap = After(@, r, fits),
                                !.built = TRUE])
        /\ IF Closes(r, fits) THEN AskForAnchor(job.node, r)
           ELSE UNCHANGED <<polls, faults>>
  BY DEF ApplyRecord
<1>. DEFINE next == [job EXCEPT !.rest = Tail(@), !.snap = After(@, r, fits),
                                !.built = TRUE]
<1>1. /\ job \in Job /\ job.rest \in Seq(Records) /\ job.snap \in Snapshot
      /\ StoredIn(prev, job.tip) /\ SoundIn(prev, job.snap)
  BY DEF SyncInv, GoodJobs, Job
<1>2. job.rest # <<>> /\ Fits(job, fits)
  BY <1>0 DEF ApplyRecord
<1>3. r \in Records /\ Tail(job.rest) \in Seq(Records)
  BY <1>1, <1>2
<1>4. After(job.snap, r, fits) \in Snapshot /\ SoundIn(prev, After(job.snap, r, fits))
  BY <1>1, <1>2, <1>3, AfterIsSound DEF Fits
<1>5. next \in Job /\ next.tip = job.tip /\ next.snap = After(job.snap, r, fits)
  BY <1>1, <1>3, <1>4 DEF Job
<1>6. SetJob(j, next) /\ GoodJobs(prev, jobs)
  BY <1>0 DEF SyncInv
<1>7. StoredIn(prev, r)
  <2>1. prev[r] = HeadOf(job.snap)
    BY <1>2 DEF Fits
  <2>2. HeadOf(job.snap) \in Records
    BY <1>1, HeadIsStored DEF SoundIn
  <2>. QED BY <2>1, <2>2, Constants DEF StoredIn
<1>8. GoodSets(prev, polls') /\ faults' \in Faults
  <2>1. CASE AskForAnchor(job.node, r)
    BY <1>3, <1>7, <2>1, AskingIsGood DEF SyncInv
  <2>2. CASE UNCHANGED <<polls, faults>>
    BY <2>2 DEF SyncInv
  <2>. QED BY <1>0, <2>1, <2>2
<1>. HIDE DEF next
<1>. QED BY <1>1, <1>4, <1>5, <1>6, <1>8, SettingIsGood

\* A job's snapshot is as good for the node as for the job.
LEMMA FinishIsGood ==
  ASSUME SyncInv, NEW j \in Jobs, Finish(j)
  PROVE  /\ GoodDocs(prev, doc') /\ GoodJobs(prev, jobs')
         /\ GoodSets(prev, inbox') /\ GoodSets(prev, polls')
         /\ faults' \in Faults
<1>. DEFINE job == jobs[j]
            r == HeadOf(job.snap)
<1>1. job.snap \in Snapshot /\ SoundIn(prev, job.snap)
  BY DEF SyncInv, GoodJobs, Job
<1>2. r \in Records /\ StoredIn(prev, r)
  BY <1>1, HeadIsStored DEF SoundIn
<1>3. GoodDocs(prev, doc')
  BY <1>1 DEF Finish, SyncInv, GoodDocs
<1>4. GoodJobs(prev, jobs')
  BY IdleIsGood, SettingIsGood DEF Finish, SyncInv
<1>5. GoodSets(prev, inbox')
  <2>1. GoodSets(prev, Published(job.node, r))
    BY <1>2, PublishedIsGood DEF SyncInv
  <2>. QED BY <2>1 DEF Finish, SyncInv
<1>6. GoodSets(prev, polls') /\ faults' \in Faults
  <2>1. CASE AskForAnchor(job.node, r)
    BY <1>2, <2>1, AskingIsGood DEF SyncInv
  <2>2. CASE UNCHANGED <<polls, faults>>
    BY <2>2 DEF SyncInv
  <2>. QED BY <2>1, <2>2 DEF Finish
<1>. QED BY <1>3, <1>4, <1>5, <1>6

\* A failing job ends, alone or with the stream.
LEMMA FailIsGood ==
  ASSUME SyncInv, NEW j \in Jobs, Fail(j)
  PROVE  /\ GoodJobs(prev, jobs')
         /\ stream' \in [Nodes -> {"unloaded", "live", "dead"}]
<1>1. CASE SetJob(j, Idle) /\ UNCHANGED stream
  BY <1>1, IdleIsGood, SettingIsGood DEF SyncInv
<1>2. CASE /\ stream' = [stream EXCEPT ![jobs[j].node] = "dead"]
           /\ EndJobs(jobs[j].node, {"head"})
  BY <1>2, EndingIsGood DEF SyncInv
<1>. QED BY <1>1, <1>2 DEF Fail

-----------------------------------------------------------------------------
(* The invariant holds at first, and every step keeps it.                    *)

LEMMA SyncInitially == Init => SyncInv
<1>. SUFFICES ASSUME Init PROVE SyncInv
  OBVIOUS
<1>1. GoodLinks(prev)
  BY Constants DEF Init, GoodLinks
<1>2. GoodDocs(prev, doc)
  BY FreshIsSound DEF Init, GoodDocs
<1>3. GoodJobs(prev, jobs)
  BY IdleIsGood DEF Init, GoodJobs
<1>4. GoodSets(prev, inbox) /\ GoodSets(prev, polls)
  BY DEF Init, GoodSets
<1>. QED BY <1>1, <1>2, <1>3, <1>4, Constants DEF Init, SyncInv, Faults

\* The steps of a node.
LEMMA NodeStepIsGood ==
  ASSUME SyncInv, NEW n \in Nodes, NodeStep(n)
  PROVE  SyncInv'
<1>. USE DEF SyncInv
<1>0. HeadOf(doc[n]) \in Records /\ StoredIn(prev, HeadOf(doc[n]))
  BY HeadIsStored DEF GoodDocs, SoundIn
<1>1. ASSUME Load(n) PROVE SyncInv'
  BY <1>1 DEF Load
<1>2. ASSUME AnswerRequest(n) PROVE SyncInv'
  <2>1. GoodSets(prev, inbox')
    BY <1>0, <1>2, PublishedIsGood DEF AnswerRequest
  <2>. QED BY <1>2, <2>1 DEF AnswerRequest
<1>3. ASSUME LoseMessage(n) PROVE SyncInv'
  <2>1. GoodSets(prev, inbox')
    <3>1. CASE \E r \in inbox[n] : inbox' = [inbox EXCEPT ![n] = @ \ {r}]
      <4>1. PICK r \in inbox[n] : inbox' = [inbox EXCEPT ![n] = @ \ {r}]
        BY <3>1
      <4>. QED BY <4>1, RemovedIsGood
    <3>2. CASE UNCHANGED inbox
      BY <3>2
    <3>. QED BY <1>3, <3>1, <3>2 DEF LoseMessage
  <2>. QED BY <1>3, <2>1, FaultIsCounted DEF LoseMessage
<1>4. ASSUME Restart(n) PROVE SyncInv'
  <2>1. GoodDocs(prev, doc')
    BY <1>4, FreshIsSound DEF Restart, GoodDocs
  <2>2. GoodJobs(prev, jobs')
    BY <1>4, EndingIsGood DEF Restart
  <2>3. GoodSets(prev, polls')
    BY <1>4 DEF Restart, GoodSets
  <2>4. stream' \in [Nodes -> {"unloaded", "live", "dead"}]
    BY <1>4 DEF Restart
  <2>. QED BY <1>4, <2>1, <2>2, <2>3, <2>4, FaultIsCounted DEF Restart
<1>5. ASSUME PollFails(n) PROVE SyncInv'
  <2>1. GoodJobs(prev, jobs')
    BY <1>5, EndingIsGood DEF PollFails
  <2>2. stream' \in [Nodes -> {"unloaded", "live", "dead"}]
    BY <1>5 DEF PollFails
  <2>. QED BY <1>5, <2>1, <2>2, FaultIsCounted DEF PollFails
<1>6. ASSUME ObserveStatus(n) PROVE SyncInv'
  <2>1. GoodSets(prev, inbox')
    BY <1>0, <1>6, PublishedIsGood DEF ObserveStatus
  <2>. QED BY <1>6, <2>1 DEF ObserveStatus
<1>7. ASSUME NEW r \in Records, ObserveOutdated(n, r) PROVE SyncInv'
  <2>1. GoodSets(prev, polls')
    BY <1>7, RemovedIsGood DEF ObserveOutdated
  <2>. QED BY <1>7, <2>1 DEF ObserveOutdated
<1>8. ASSUME NEW r \in Records, DropMessage(n, r) PROVE SyncInv'
  <2>1. GoodSets(prev, inbox')
    BY <1>8, RemovedIsGood DEF DropMessage
  <2>. QED BY <1>8, <2>1 DEF DropMessage
<1>9. ASSUME NEW j \in Jobs, NEW r \in Records, ReceiveHead(n, j, r) PROVE SyncInv'
  <2>. HIDE DEF SyncInv
  <2>0. SyncInv /\ GoodSets(prev, inbox) /\ GoodJobs(prev, jobs) /\ GoodDocs(prev, doc)
    BY DEF SyncInv
  <2>1. r \in inbox[n] /\ StoredIn(prev, r) /\ Begin(n, j, "head", r, <<>>, FALSE)
    BY <1>9, <2>0 DEF ReceiveHead, GoodSets
  <2>2. GoodJobs(prev, jobs')
    <3>1. <<>> \in Seq(Records) /\ FALSE \in BOOLEAN /\ "head" \in {"update", "head"}
      OBVIOUS
    <3>. QED BY <2>0, <2>1, <3>1, BeginningIsGood
  <2>3. GoodSets(prev, inbox')
    BY <1>9, <2>0, RemovedIsGood DEF ReceiveHead
  <2>. QED BY <1>9, <2>2, <2>3 DEF ReceiveHead, SyncInv
<1>10. ASSUME NEW j \in Jobs, NEW leaf \in Leaves, ObserveAnchor(n, j, leaf)
       PROVE  SyncInv'
  <2>1. /\ prev[leaf] \in polls[n] /\ leaf \in Records
        /\ Begin(n, j, "head", leaf, <<>>, FALSE)
    BY <1>10, Constants DEF ObserveAnchor
  <2>2. StoredIn(prev, leaf)
    BY <2>1, Constants DEF StoredIn, GoodSets
  <2>3. GoodJobs(prev, jobs')
    <3>1. <<>> \in Seq(Records) /\ FALSE \in BOOLEAN /\ "head" \in {"update", "head"}
      OBVIOUS
    <3>. QED BY <2>1, <2>2, <3>1, BeginningIsGood
  <2>4. GoodSets(prev, polls')
    BY <1>10, RemovedIsGood DEF ObserveAnchor
  <2>. QED BY <1>10, <2>3, <2>4 DEF ObserveAnchor
<1>. QED BY <1>1, <1>2, <1>3, <1>4, <1>5, <1>6, <1>7, <1>8, <1>9, <1>10 DEF NodeStep

\* The steps of a job.
LEMMA JobStepIsGood ==
  ASSUME SyncInv, NEW j \in Jobs, JobStep(j) \/ CallFails(j)
  PROVE  SyncInv'
<1>1. ASSUME Walk(j) PROVE SyncInv'
  <2>1. GoodJobs(prev, jobs')
    BY <1>1, WalkIsGood
  <2>. QED BY <1>1, <2>1 DEF Walk, SyncInv
<1>2. ASSUME ApplyRecord(j) PROVE SyncInv'
  <2>1. /\ GoodJobs(prev, jobs')
        /\ GoodSets(prev, polls') /\ faults' \in Faults
    BY <1>2, ApplyingIsGood
  <2>. QED BY <1>2, <2>1 DEF ApplyRecord, SyncInv
<1>3. ASSUME Finish(j) PROVE SyncInv'
  <2>1. /\ GoodDocs(prev, doc') /\ GoodJobs(prev, jobs')
        /\ GoodSets(prev, inbox') /\ GoodSets(prev, polls')
        /\ faults' \in Faults
    BY <1>3, FinishIsGood
  <2>. QED BY <1>3, <2>1 DEF Finish, SyncInv
<1>4. ASSUME Throw(j) PROVE SyncInv'
  <2>1. /\ GoodJobs(prev, jobs')
        /\ stream' \in [Nodes -> {"unloaded", "live", "dead"}]
    BY <1>4, FailIsGood DEF Throw
  <2>. QED BY <1>4, <2>1 DEF Throw, Fail, SyncInv
<1>5. ASSUME CallFails(j) PROVE SyncInv'
  <2>1. /\ GoodJobs(prev, jobs')
        /\ stream' \in [Nodes -> {"unloaded", "live", "dead"}]
    BY <1>5, FailIsGood DEF CallFails
  <2>2. faults' \in Faults
    BY <1>5, FaultIsCounted DEF CallFails, SyncInv
  <2>. QED BY <1>5, <2>1, <2>2 DEF CallFails, Fail, SyncInv
<1>. QED BY <1>1, <1>2, <1>3, <1>4, <1>5 DEF JobStep

\* The steps that write records and ask for anchors.
LEMMA WritingIsGood ==
  ASSUME SyncInv, NEW n \in Nodes, NEW j \in Jobs, NEW u \in Updates, NEW p \in Records,
         PutUpdate(n, j, u, p)
  PROVE  SyncInv'
<1>1. /\ GoodLinks(prev') /\ GoodDocs(prev', doc) /\ GoodJobs(prev', jobs)
      /\ GoodSets(prev', inbox) /\ GoodSets(prev', polls)
  BY StoringKeepsGood, Constants DEF PutUpdate
<1>2. p \in Records /\ StoredIn(prev', p) /\ <<u>> \in Seq(Records)
  <2>1. p # u /\ prev' = [prev EXCEPT ![u] = p]
    BY DEF PutUpdate
  <2>. QED BY <2>1, Constants DEF PutUpdate, Stored, StoredIn, SyncInv, GoodLinks
<1>3. GoodJobs(prev', jobs')
  <2>1. Begin(n, j, "update", p, <<u>>, FALSE)
    BY DEF PutUpdate
  <2>. QED BY <1>1, <1>2, <2>1, BeginningIsGood
<1>. QED BY <1>1, <1>3 DEF PutUpdate, SyncInv

LEMMA AnchorIsGood ==
  ASSUME SyncInv, NEW r \in Records, NEW leaf \in Leaves, Anchor(r, leaf)
  PROVE  SyncInv'
<1>1. Stored(r) /\ ~Stored(leaf) /\ leaf \in Records
  BY Constants DEF Anchor, SyncInv, GoodSets, StoredIn, Stored
<1>2. /\ GoodLinks(prev') /\ GoodDocs(prev', doc) /\ GoodJobs(prev', jobs)
      /\ GoodSets(prev', inbox) /\ GoodSets(prev', polls)
  BY <1>1, StoringKeepsGood DEF Anchor
<1>. QED BY <1>2 DEF Anchor, SyncInv

LEMMA SyncStep == SyncInv /\ [Next]_vars => SyncInv'
<1>. SUFFICES ASSUME SyncInv, [Next]_vars PROVE SyncInv'
  OBVIOUS
<1>1. ASSUME NEW n \in Requesters, RequestAnchor(n) PROVE SyncInv'
  <2>1. n \in Nodes
    BY SyncAssumption
  <2>2. HeadOf(doc[n]) \in Records /\ StoredIn(prev, HeadOf(doc[n]))
    BY <2>1, HeadIsStored DEF SyncInv, GoodDocs, SoundIn
  <2>3. GoodSets(prev, polls') /\ faults' \in Faults
    BY <1>1, <2>2, AskingIsGood DEF RequestAnchor, SyncInv
  <2>. QED BY <1>1, <2>3 DEF RequestAnchor, SyncInv
<1>2. Writers \subseteq Nodes
  BY SyncAssumption
<1>3. CASE UNCHANGED vars
  BY <1>3 DEF vars, SyncInv
<1>. QED BY <1>1, <1>2, <1>3, NodeStepIsGood, JobStepIsGood, WritingIsGood, AnchorIsGood DEF Next

THEOREM SyncInvariant == Spec => []SyncInv
BY SyncInitially, SyncStep, PTL DEF Spec

(* Every variable keeps its type: no job, whatever it overlaps, leaves a      *)
(* node with a snapshot that is none, and the bound on faults is kept.       *)
THEOREM SyncTypeCorrect == Spec => []TypeOK
<1>1. SyncInv => TypeOK
  BY DEF SyncInv, TypeOK, GoodLinks, GoodDocs, GoodJobs, GoodSets
<1>. QED BY <1>1, SyncInvariant, PTL

(* The log of every node is a chain of records back to the genesis record.   *)
THEOREM ChainOnEveryNode == Spec => []LogIsChain
<1>1. SyncInv => LogIsChain
  BY DEF SyncInv, GoodDocs, SoundIn, ChainIn, LogIsChain, IsChain
<1>. QED BY <1>1, SyncInvariant, PTL

(* No log holds what the ruleset forbids, whatever the checks of the parties' *)
(* signatures find: an update after one the node took for an agreement, a    *)
(* number that goes down, an update no party signed; and no node shows an    *)
(* agreement that one of the parties did not sign.                           *)
THEOREM LawOnEveryNode == Spec => []LogIsLawful
<1>1. SyncInv => LogIsLawful
  BY DEF SyncInv, GoodDocs, SoundIn, LogIsLawful
<1>. QED BY <1>1, SyncInvariant, PTL

-----------------------------------------------------------------------------
(* A head stands for its document.                                           *)

LEMMA LeastNatural ==
  ASSUME NEW T, T \subseteq Nat, T # {}
  PROVE  \E x \in T : \A y \in T : x <= y
<1>1. PICK x \in T : \A y \in T : <<y, x>> \notin OpToRel(<, Nat)
  BY NatLessThanWellFounded, WFMin, Zenon
<1>2. \A y \in T : y < x => <<y, x>> \in OpToRel(<, Nat)
  BY DEF OpToRel
<1>3. \A y \in T : ~(y < x)
  BY <1>1, <1>2, Zenon
<1>4. \A y \in T : x <= y
  BY <1>3
<1>. QED BY <1>4, Zenon

\* Two chains that end in the same record are the same from there back.
LEMMA SameFromTheEnd ==
  ASSUME NEW links, NEW s \in Seq(Records), NEW t \in Seq(Records),
         ChainIn(links, s), ChainIn(links, t), s[Len(s)] = t[Len(t)],
         NEW d \in Nat, d < Len(s), d < Len(t)
  PROVE  s[Len(s) - d] = t[Len(t) - d]
<1>. DEFINE k == Len(s)
            m == Len(t)
            Differ == {e \in Nat : e < k /\ e < m /\ s[k - e] # t[m - e]}
<1>1. k \in Nat /\ m \in Nat
  OBVIOUS
<1>. SUFFICES ASSUME s[k - d] # t[m - d] PROVE FALSE
  OBVIOUS
<1>2. PICK e \in Differ : \A f \in Differ : e <= f
  <2>1. d \in Differ /\ Differ \subseteq Nat
    OBVIOUS
  <2>. QED BY <2>1, LeastNatural
<1>3. e \in Nat /\ e < k /\ e < m /\ s[k - e] # t[m - e] /\ e # 0
  OBVIOUS
<1>4. e - 1 \in Nat /\ e - 1 < e /\ e - 1 < k /\ e - 1 < m
  BY <1>1, <1>3
<1>5. s[k - (e - 1)] = t[m - (e - 1)]
  <2>1. e - 1 \notin Differ
    BY <1>2, <1>3, <1>4
  <2>. QED BY <1>4, <2>1
<1>. HIDE DEF Differ, k, m
<1>6. /\ k - e \in 1 .. (k - 1) /\ (k - e) + 1 = k - (e - 1)
      /\ m - e \in 1 .. (m - 1) /\ (m - e) + 1 = m - (e - 1)
  BY <1>1, <1>3
<1>7. links[s[(k - e) + 1]] = s[k - e] /\ links[t[(m - e) + 1]] = t[m - e]
  BY <1>6 DEF ChainIn, k, m
<1>. QED BY <1>3, <1>5, <1>6, <1>7

\* The record before the first of the longer one would be nothing.
LEMMA NoneIsLonger ==
  ASSUME NEW links, GoodLinks(links), NEW s \in Seq(Records), NEW t \in Seq(Records),
         ChainIn(links, s), ChainIn(links, t), s[Len(s)] = t[Len(t)]
  PROVE  ~(Len(s) < Len(t))
<1>. DEFINE k == Len(s)
            m == Len(t)
<1>. SUFFICES ASSUME k < m PROVE FALSE
  OBVIOUS
<1>1. k \in Nat /\ m \in Nat /\ k > 0 /\ s[1] = Genesis
  BY DEF ChainIn
<1>2. s[k - (k - 1)] = t[m - (k - 1)]
  <2>1. k - 1 \in Nat /\ k - 1 < k /\ k - 1 < m
    BY <1>1
  <2>. QED BY <2>1, SameFromTheEnd
<1>3. k - (k - 1) = 1 /\ m - (k - 1) = (m - k) + 1 /\ m - k \in 1 .. (m - 1)
  BY <1>1
<1>4. links[t[(m - k) + 1]] = t[m - k] /\ t[m - k] \in Records
  BY <1>1, <1>3 DEF ChainIn
<1>. QED BY <1>1, <1>2, <1>3, <1>4, Constants DEF GoodLinks

LEMMA ChainsFromOneHead ==
  ASSUME NEW links, GoodLinks(links), NEW s \in Seq(Records), NEW t \in Seq(Records),
         ChainIn(links, s), ChainIn(links, t), s[Len(s)] = t[Len(t)]
  PROVE  s = t
<1>1. Len(s) = Len(t)
  <2>1. ~(Len(s) < Len(t)) /\ ~(Len(t) < Len(s))
    BY NoneIsLonger
  <2>. QED BY <2>1
<1>2. ASSUME NEW i \in 1 .. Len(s)
      PROVE  s[i] = t[i]
  <2>1. /\ Len(s) - i \in Nat /\ Len(s) - i < Len(s) /\ Len(s) - i < Len(t)
        /\ Len(s) - (Len(s) - i) = i /\ Len(t) - (Len(s) - i) = i
    BY <1>1
  <2>. QED BY <2>1, SameFromTheEnd
<1>. QED BY <1>1, <1>2, SeqEqual

\* The log tells the number.
LEMMA SameLogSameNumber ==
  ASSUME NEW s \in Snapshot, NEW t \in Snapshot, Told(s), Told(t), s.log = t.log
  PROVE  s.view.num = t.view.num
<1>1. CASE \A i \in DOMAIN s.log : s.log[i] \notin Updates
  BY <1>1 DEF Told
<1>2. CASE \E i \in DOMAIN s.log : s.log[i] \in Updates
  <2>1. PICK i \in DOMAIN s.log :
          /\ s.log[i] \in Updates
          /\ s.view.num = Content[s.log[i]].num
          /\ \A h \in DOMAIN s.log : h > i => s.log[h] \notin Updates
    BY <1>2 DEF Told
  <2>2. PICK h \in DOMAIN s.log :
          /\ s.log[h] \in Updates
          /\ t.view.num = Content[s.log[h]].num
          /\ \A g \in DOMAIN s.log : g > h => s.log[g] \notin Updates
    BY <1>2 DEF Told
  <2>3. i = h
    <3>1. i \in Int /\ h \in Int
      BY DEF Snapshot
    <3>2. ~(h > i) /\ ~(i > h)
      BY <2>1, <2>2
    <3>. QED BY <3>1, <3>2
  <2>. QED BY <2>1, <2>2, <2>3
<1>. QED BY <1>1, <1>2

(* Two nodes whose logs end in the same record hold the same log and show    *)
(* the same number, with any number of records, nodes, overlapping jobs and  *)
(* faults, and whatever each found of the parties' signatures.               *)
THEOREM HeadStandsForLog == Spec => []SameHeadSameLog
<1>1. ASSUME SyncInv, NEW a \in Nodes, NEW b \in Nodes, HeadOf(doc[a]) = HeadOf(doc[b])
      PROVE  doc[a].log = doc[b].log /\ doc[a].view.num = doc[b].view.num
  <2>1. /\ doc[a] \in Snapshot /\ SoundIn(prev, doc[a])
        /\ doc[b] \in Snapshot /\ SoundIn(prev, doc[b])
    BY <1>1 DEF SyncInv, GoodDocs
  <2>2. doc[a].log \in Seq(Records) /\ doc[b].log \in Seq(Records)
    BY <2>1 DEF Snapshot
  <2>3. doc[a].log = doc[b].log
    BY <1>1, <2>1, <2>2, ChainsFromOneHead DEF SyncInv, SoundIn, HeadOf, Last
  <2>. QED BY <2>1, <2>3, SameLogSameNumber DEF SoundIn
<1>2. SyncInv => SameHeadSameLog
  BY <1>1 DEF SameHeadSameLog
<1>. QED BY <1>2, SyncInvariant, PTL

-----------------------------------------------------------------------------
(* Without overlapping jobs a node's document only grows.  The invariant: a  *)
(* node has at most one job, whose snapshot continues the node's own.  This  *)
(* is what overlapping jobs break, as the job that ends last replaces what   *)
(* the others have made.                                                     *)

Continues(s, t) ==
    /\ Len(s.log) <= Len(t.log)
    /\ \A i \in 1 .. Len(s.log) : t.log[i] = s.log[i]
    /\ s.view.stage = "agreement" =>
        /\ t.view = s.view
        /\ \A i \in 1 .. Len(t.log) : i > Len(s.log) => t.log[i] \in Leaves

Alone(docs, js) ==
    \A j \in Jobs : js[j].node \in Nodes =>
        /\ js[j].kind # "idle"
        /\ Continues(docs[js[j].node], js[j].snap)
        /\ \A k \in Jobs : js[k].node = js[j].node => k = j

LEMMA ContinuesItself ==
  ASSUME NEW s \in Snapshot
  PROVE  Continues(s, s)
BY DEF Continues, Snapshot

LEMMA ContinuesFurther ==
  ASSUME NEW s \in Snapshot, NEW t \in Snapshot, NEW u \in Snapshot,
         Continues(s, t), Continues(t, u)
  PROVE  Continues(s, u)
<1>1. Len(s.log) \in Nat /\ Len(t.log) \in Nat /\ Len(u.log) \in Nat
  BY DEF Snapshot
<1>2. \A i \in 1 .. Len(s.log) : i \in 1 .. Len(t.log)
  BY <1>1 DEF Continues
<1>3. ASSUME s.view.stage = "agreement", NEW i \in 1 .. Len(u.log), i > Len(s.log)
      PROVE  u.log[i] \in Leaves
  <2>1. CASE i > Len(t.log)
    BY <1>3, <2>1 DEF Continues
  <2>2. CASE ~(i > Len(t.log))
    <3>1. i \in 1 .. Len(t.log)
      BY <1>1, <2>2
    <3>. QED BY <1>3, <3>1 DEF Continues
  <2>. QED BY <2>1, <2>2
<1>. QED BY <1>1, <1>2, <1>3 DEF Continues

\* An agreement takes no update, and an anchor changes no view.
LEMMA AfterContinues ==
  ASSUME NEW s \in Snapshot, NEW r \in Records, NEW fits, Acceptable(s.view, r, fits)
  PROVE  Continues(s, After(s, r, fits))
<1>1. s.log \in Seq(Records) /\ After(s, r, fits).log = Append(s.log, r)
  BY DEF Snapshot, After
<1>2. /\ Len(s.log) <= Len(After(s, r, fits).log)
      /\ \A i \in 1 .. Len(s.log) : After(s, r, fits).log[i] = s.log[i]
      /\ \A i \in 1 .. Len(After(s, r, fits).log) :
            i > Len(s.log) => After(s, r, fits).log[i] = r
  BY <1>1
<1>3. s.view.stage = "agreement" => r \in Leaves
  BY DEF Acceptable, CanApply, Records
<1>4. s.view.stage = "agreement" => After(s, r, fits).view = s.view
  BY <1>3 DEF After
<1>. QED BY <1>2, <1>3, <1>4 DEF Continues

LEMMA EndingStaysAlone ==
  ASSUME Alone(doc, jobs), NEW n, NEW kinds, EndJobs(n, kinds)
  PROVE  Alone(doc, jobs')
<1>1. \A j \in Jobs : jobs'[j] = jobs[j] \/ jobs'[j] = Idle
  BY DEF EndJobs
<1>2. Idle.node \notin Nodes
  BY Constants DEF Idle
<1>. QED BY <1>1, <1>2 DEF Alone

LEMMA SettingStaysAlone ==
  ASSUME SyncInv, Alone(doc, jobs), NEW j \in Jobs, NEW job \in Job,
         job.node = jobs[j].node, job.kind = jobs[j].kind,
         Continues(jobs[j].snap, job.snap), SetJob(j, job)
  PROVE  Alone(doc, jobs')
<1>1. /\ jobs[j].snap \in Snapshot /\ job.snap \in Snapshot
      /\ \A n \in Nodes : doc[n] \in Snapshot
  BY DEF SyncInv, GoodJobs, GoodDocs, Job
<1>2. jobs[j].node \in Nodes => Continues(doc[jobs[j].node], job.snap)
  BY <1>1, ContinuesFurther DEF Alone
<1>3. \A k \in Jobs : jobs'[k] = IF k = j THEN job ELSE jobs[k]
  BY DEF SetJob, SyncInv, GoodJobs
<1>. QED BY <1>2, <1>3 DEF Alone

LEMMA BeginningStaysAlone ==
  ASSUME ~Overlap, SyncInv, Alone(doc, jobs), NEW n \in Nodes, NEW j \in Jobs,
         NEW kind \in {"update", "head"}, NEW tip, NEW rest, NEW built,
         Begin(n, j, kind, tip, rest, built)
  PROVE  Alone(doc, jobs')
<1>. DEFINE job == [node |-> n, kind |-> kind, tip |-> tip, rest |-> rest,
                    snap |-> doc[n], built |-> built]
<1>1. /\ \A k \in Jobs : jobs[k].node # n
      /\ \A k \in Jobs : jobs'[k] = IF k = j THEN job ELSE jobs[k]
  BY DEF Begin, SetJob, SyncInv, GoodJobs
<1>2. job.node = n /\ job.kind # "idle" /\ Continues(doc[n], job.snap)
  BY ContinuesItself DEF SyncInv, GoodDocs
<1>. HIDE DEF job
<1>. QED BY <1>1, <1>2 DEF Alone

LEMMA AloneInitially == Init => Alone(doc, jobs)
BY Constants DEF Init, Alone, Idle

LEMMA AloneOnNode ==
  ASSUME ~Overlap, SyncInv, Alone(doc, jobs), NEW n \in Nodes, NodeStep(n)
  PROVE  Alone(doc', jobs')
<1>1. CASE UNCHANGED <<doc, jobs>>
  BY <1>1
<1>2. ASSUME Restart(n) PROVE Alone(doc', jobs')
  <2>1. \A j \in Jobs :
           IF jobs[j].node = n THEN jobs'[j] = Idle ELSE jobs'[j] = jobs[j]
    <3>1. \A j \in Jobs : jobs[j].node = n => jobs[j].kind \in {"update", "head"}
      BY DEF Alone, SyncInv, GoodJobs, Job
    <3>. QED BY <1>2, <3>1 DEF Restart, EndJobs
  <2>2. \A m \in Nodes : m # n => doc'[m] = doc[m]
    BY <1>2 DEF Restart, SyncInv, GoodDocs
  <2>3. Idle.node \notin Nodes
    BY Constants DEF Idle
  <2>. QED BY <2>1, <2>2, <2>3 DEF Alone
<1>3. ASSUME PollFails(n) PROVE Alone(doc', jobs')
  BY <1>3, EndingStaysAlone DEF PollFails
<1>4. ASSUME NEW j \in Jobs, NEW r \in Records, ReceiveHead(n, j, r)
      PROVE  Alone(doc', jobs')
  BY <1>4, BeginningStaysAlone DEF ReceiveHead
<1>5. ASSUME NEW j \in Jobs, NEW leaf \in Leaves, ObserveAnchor(n, j, leaf)
      PROVE  Alone(doc', jobs')
  BY <1>5, BeginningStaysAlone DEF ObserveAnchor
<1>6. ASSUME \/ Load(n) \/ AnswerRequest(n) \/ LoseMessage(n) \/ ObserveStatus(n)
             \/ \E r \in Records : ObserveOutdated(n, r) \/ DropMessage(n, r)
      PROVE  UNCHANGED <<doc, jobs>>
  BY <1>6 DEF Load, AnswerRequest, LoseMessage, ObserveStatus, ObserveOutdated, DropMessage
<1>. QED BY <1>1, <1>2, <1>3, <1>4, <1>5, <1>6 DEF NodeStep

LEMMA AloneInJob ==
  ASSUME SyncInv, Alone(doc, jobs), NEW j \in Jobs, JobStep(j) \/ CallFails(j)
  PROVE  Alone(doc', jobs')
<1>. DEFINE job == jobs[j]
<1>0. /\ job \in Job /\ job.snap \in Snapshot /\ job.rest \in Seq(Records)
      /\ SoundIn(prev, job.snap)
  BY DEF SyncInv, GoodJobs, Job
<1>1. ASSUME Walk(j) PROVE Alone(doc', jobs')
  <2>. DEFINE next == [job EXCEPT !.rest = <<job.tip>> \o @, !.tip = prev[job.tip]]
  <2>1. jobs' = [jobs EXCEPT ![j] = next] /\ doc' = doc
    BY <1>1 DEF Walk, SetJob
  <2>2. next.node = job.node /\ next.kind = job.kind /\ next.snap = job.snap
    BY <1>0 DEF Job
  <2>. HIDE DEF next
  <2>3. \A k \in Jobs : jobs'[k] = IF k = j THEN next ELSE jobs[k]
    BY <2>1 DEF SyncInv, GoodJobs
  <2>. QED BY <2>1, <2>2, <2>3 DEF Alone
<1>2. ASSUME ApplyRecord(j) PROVE Alone(doc', jobs')
  <2>. DEFINE r == Head(job.rest)
  <2>0. PICK fits \in Found(r) :
          /\ Fits(job, fits)
          /\ SetJob(j, [job EXCEPT !.rest = Tail(@), !.snap = After(@, r, fits),
                                  !.built = TRUE])
    BY <1>2 DEF ApplyRecord
  <2>. DEFINE next == [job EXCEPT !.rest = Tail(@), !.snap = After(@, r, fits),
                                  !.built = TRUE]
  <2>1. r \in Records /\ Tail(job.rest) \in Seq(Records) /\ Fits(job, fits)
    BY <1>0, <1>2, <2>0 DEF ApplyRecord
  <2>2. After(job.snap, r, fits) \in Snapshot
    BY <1>0, <2>1, AfterIsSound DEF Fits
  <2>3. Continues(job.snap, After(job.snap, r, fits))
    BY <1>0, <2>1, AfterContinues DEF Fits
  <2>4. /\ next \in Job /\ next.node = job.node /\ next.kind = job.kind
        /\ next.snap = After(job.snap, r, fits)
    BY <1>0, <2>1, <2>2 DEF Job
  <2>5. SetJob(j, next) /\ doc' = doc
    BY <1>2, <2>0 DEF ApplyRecord
  <2>. HIDE DEF next
  <2>. QED BY <2>3, <2>4, <2>5, SettingStaysAlone
<1>3. ASSUME Finish(j) PROVE Alone(doc', jobs')
  <2>1. \A k \in Jobs : jobs'[k] = IF k = j THEN Idle ELSE jobs[k]
    BY <1>3 DEF Finish, SetJob, SyncInv, GoodJobs
  <2>2. \A m \in Nodes : m # job.node => doc'[m] = doc[m]
    BY <1>3 DEF Finish, SyncInv, GoodDocs
  <2>3. Idle.node \notin Nodes
    BY Constants DEF Idle
  <2>. QED BY <2>1, <2>2, <2>3 DEF Alone
<1>4. ASSUME Fail(j) PROVE Alone(doc', jobs')
  <2>1. CASE SetJob(j, Idle)
    <3>1. \A k \in Jobs : jobs'[k] = IF k = j THEN Idle ELSE jobs[k]
      BY <2>1 DEF SetJob, SyncInv, GoodJobs
    <3>2. Idle.node \notin Nodes
      BY Constants DEF Idle
    <3>. QED BY <1>4, <3>1, <3>2 DEF Alone, Fail
  <2>2. CASE EndJobs(job.node, {"head"})
    BY <1>4, <2>2, EndingStaysAlone DEF Fail
  <2>. QED BY <1>4, <2>1, <2>2 DEF Fail
<1>. QED BY <1>1, <1>2, <1>3, <1>4 DEF JobStep, CallFails, Throw

LEMMA AloneStep ==
  ASSUME ~Overlap, SyncInv, Alone(doc, jobs), [Next]_vars
  PROVE  Alone(doc', jobs')
<1>1. ASSUME NEW n \in Writers, NEW j \in Jobs, NEW u \in Updates, NEW p \in Records,
             PutUpdate(n, j, u, p)
      PROVE  Alone(doc', jobs')
  <2>1. n \in Nodes /\ doc' = doc /\ Begin(n, j, "update", p, <<u>>, FALSE)
    BY <1>1, SyncAssumption DEF PutUpdate
  <2>. QED BY <2>1, BeginningStaysAlone
<1>2. ASSUME \/ UNCHANGED vars
             \/ \E n \in Requesters : RequestAnchor(n)
             \/ \E r \in Records, leaf \in Leaves : Anchor(r, leaf)
      PROVE  UNCHANGED <<doc, jobs>>
  BY <1>2 DEF vars, RequestAnchor, Anchor
<1>. QED BY <1>1, <1>2, AloneOnNode, AloneInJob DEF Next

\* What a step does to the document of a loaded node.
LEMMA DocumentContinues ==
  ASSUME SyncInv, Alone(doc, jobs), [Next]_vars, NEW n \in Nodes, Loaded(n)'
  PROVE  Continues(doc[n], doc'[n])
<1>0. doc[n] \in Snapshot
  BY DEF SyncInv, GoodDocs
<1>1. ASSUME NEW j \in Jobs, Finish(j) PROVE Continues(doc[n], doc'[n])
  <2>1. CASE jobs[j].node = n
    <3>1. doc'[n] = jobs[j].snap
      BY <1>1, <2>1 DEF Finish, SyncInv, GoodDocs
    <3>. QED BY <2>1, <3>1 DEF Alone
  <2>2. CASE jobs[j].node # n
    <3>1. doc'[n] = doc[n]
      BY <1>1, <2>2 DEF Finish, SyncInv, GoodDocs
    <3>. QED BY <1>0, <3>1, ContinuesItself
  <2>. QED BY <2>1, <2>2
<1>2. ASSUME NEW m \in Nodes, Restart(m) PROVE Continues(doc[n], doc'[n])
  <2>1. m # n
    BY <1>2 DEF Restart, Loaded, SyncInv
  <2>2. doc'[n] = doc[n]
    BY <1>2, <2>1 DEF Restart, SyncInv, GoodDocs
  <2>. QED BY <1>0, <2>2, ContinuesItself
<1>3. CASE doc' = doc
  BY <1>0, <1>3, ContinuesItself
<1>4. ASSUME NEW j \in Jobs, JobStep(j) \/ CallFails(j)
      PROVE  Finish(j) \/ doc' = doc
  BY <1>4 DEF JobStep, Walk, ApplyRecord, Throw, CallFails, Fail
<1>5. ASSUME NEW m \in Nodes, NodeStep(m)
      PROVE  Restart(m) \/ doc' = doc
  BY <1>5 DEF NodeStep, Load, AnswerRequest, LoseMessage, PollFails, ObserveStatus,
              ObserveOutdated, DropMessage, ReceiveHead, ObserveAnchor
<1>6. ASSUME \/ \E m \in Writers, j \in Jobs, u \in Updates, p \in Records :
                    PutUpdate(m, j, u, p)
             \/ \E m \in Requesters : RequestAnchor(m)
             \/ \E r \in Records, leaf \in Leaves : Anchor(r, leaf)
             \/ UNCHANGED vars
      PROVE  doc' = doc
  BY <1>6 DEF PutUpdate, RequestAnchor, Anchor, vars
<1>. QED BY <1>1, <1>2, <1>3, <1>4, <1>5, <1>6 DEF Next

(* Where the jobs of a node do not overlap, a loaded node's log is only ever  *)
(* continued: a client never sees a record of it taken back.                 *)
THEOREM LogGrowsWithoutOverlap ==
  ASSUME ~Overlap
  PROVE  Spec => LogOnlyGrows
<1>1. ASSUME NEW s \in Snapshot, NEW t \in Snapshot, Continues(s, t)
      PROVE  IsPrefix(s.log, t.log)
  BY <1>1 DEF Continues, IsPrefix, Snapshot
<1>2. SyncInv /\ SyncInv' /\ Alone(doc, jobs) /\ [Next]_vars =>
        [\A n \in Nodes : Loaded(n) /\ Loaded(n)' => IsPrefix(doc[n].log, doc[n].log')]_vars
  BY <1>1, DocumentContinues DEF SyncInv, GoodDocs
<1>3. Init => Alone(doc, jobs)
  BY AloneInitially
<1>4. SyncInv /\ Alone(doc, jobs) /\ [Next]_vars => Alone(doc, jobs)'
  BY AloneStep
<1>. QED BY <1>2, <1>3, <1>4, SyncInvariant, PTL DEF Spec, LogOnlyGrows

(* Where the jobs of a node do not overlap, the document can not be changed   *)
(* after it is in agreement stage (README.md:76).                            *)
THEOREM AgreementIsFinalWithoutOverlap ==
  ASSUME ~Overlap
  PROVE  Spec => AgreementIsFinal
<1>1. SyncInv /\ Alone(doc, jobs) /\ [Next]_vars =>
        [\A n \in Nodes :
            Loaded(n) /\ Loaded(n)' /\ doc[n].view.stage = "agreement" =>
                doc'[n].view = doc[n].view]_vars
  BY DocumentContinues DEF Continues
<1>2. Init => Alone(doc, jobs)
  BY AloneInitially
<1>3. SyncInv /\ Alone(doc, jobs) /\ [Next]_vars => Alone(doc, jobs)'
  BY AloneStep
<1>. QED BY <1>1, <1>2, <1>3, SyncInvariant, PTL DEF Spec, AgreementIsFinal
-----------------------------------------------------------------------------
(* The promise of ReplicatedDocument.                                        *)

\* The documents as the abstract specification sees them.
Replica(s) == [history |-> s.log, closed |-> s.view.stage = "agreement"]

Replicas == [n \in Nodes |-> Replica(doc[n])]

\* A sound snapshot is a history, and if it is closed it is so at an agreement.
LEMMA SoundIsHistory ==
  ASSUME SyncInv, NEW s \in Snapshot, SoundIn(prev, s)
  PROVE  Replicated!Follows(s.log) /\ Replicated!Justified(Replica(s))
<1>1. Replicated!Follows(s.log)
  BY DEF Replicated!Follows, SoundIn, ChainIn
<1>2. ASSUME s.view.stage = "agreement"
      PROVE  \E i \in DOMAIN s.log :
               /\ s.log[i] \in {u \in Updates : Content[u].signed = Parties}
               /\ Replicated!OnlyAnchorsAfter(s.log, i)
  <2>1. s.log \in Seq(Records) /\ DOMAIN s.log = 1 .. Len(s.log)
    BY DEF Snapshot
  <2>2. PICK i \in s.agreed \cap DOMAIN s.log : s.log[i] \in Updates
    BY <1>2 DEF SoundIn, Lawful
  <2>3. Content[s.log[i]].signed = Parties
    BY <2>2 DEF SoundIn, Lawful
  <2>4. ASSUME NEW j \in DOMAIN s.log, j > i
        PROVE  s.log[j] \in Leaves
    <3>1. i \in 1 .. (j - 1)
      BY <2>1, <2>2, <2>4
    <3>2. s.log[j] \notin Updates
      BY <2>2, <3>1 DEF SoundIn, Lawful
    <3>3. j - 1 \in 1 .. (Len(s.log) - 1) /\ (j - 1) + 1 = j
      BY <2>1, <3>1
    <3>4. prev[s.log[j]] = s.log[j - 1] /\ s.log[j - 1] \in Records
      BY <2>1, <3>3 DEF SoundIn, ChainIn
    <3>5. s.log[j] # Genesis
      BY <3>4, Constants DEF SyncInv, GoodLinks
    <3>. QED BY <2>1, <3>2, <3>5 DEF Records
  <2>. QED BY <2>2, <2>3, <2>4 DEF Replicated!OnlyAnchorsAfter
<1>3. Replica(s).history = s.log /\ (Replica(s).closed <=> s.view.stage = "agreement")
  BY DEF Replica
<1>. QED BY <1>1, <1>2, <1>3 DEF Replicated!Justified

\* A step that stores a record.
LEMMA StoringIsWrite ==
  ASSUME SyncInv, NEW r \in Records, NEW p \in Records, r # Genesis,
         prev[r] = None, Stored(p), prev' = [prev EXCEPT ![r] = p], doc' = doc
  PROVE  Replicated!Next
BY DEF Replicated!Next, Replicated!Write, Stored

\* A job that ends continues the history of its node.
LEMMA FinishIsContinue ==
  ASSUME SyncInv, Alone(doc, jobs), NEW j \in Jobs, Finish(j),
         NEW n \in Nodes, n = jobs[j].node
  PROVE  Replicated!Continue(n)
<1>. DEFINE snap == jobs[j].snap
<1>1. /\ jobs[j] \in Job /\ snap \in Snapshot /\ doc[n] \in Snapshot
      /\ SoundIn(prev, snap)
  BY DEF SyncInv, GoodJobs, GoodDocs, Job
<1>2. /\ doc' = [doc EXCEPT ![n] = snap] /\ prev' = prev
      /\ doc'[n] = snap
  BY DEF Finish, SyncInv, GoodDocs
<1>3. Replicated!Follows(snap.log) /\ Replicated!Justified(Replica(snap))
  BY <1>1, SoundIsHistory
<1>4. Replicated!Continued(Replica(doc[n]), Replica(snap))
  <2>1. Continues(doc[n], snap)
    BY DEF Alone
  <2>2. DOMAIN doc[n].log = 1 .. Len(doc[n].log) /\ DOMAIN snap.log = 1 .. Len(snap.log)
    BY <1>1 DEF Snapshot
  <2>3. /\ Replica(doc[n]).history = doc[n].log /\ Replica(snap).history = snap.log
        /\ Replica(doc[n]).closed <=> doc[n].view.stage = "agreement"
        /\ Replica(snap).closed <=> snap.view.stage = "agreement"
    BY DEF Replica
  <2>. HIDE DEF snap
  <2>4. doc[n].view.stage = "agreement" =>
          /\ snap.view.stage = "agreement"
          /\ Replicated!OnlyAnchorsAfter(snap.log, Len(doc[n].log))
    BY <2>1, <2>2 DEF Continues, Replicated!OnlyAnchorsAfter
  <2>. QED BY <2>1, <2>2, <2>3, <2>4 DEF Replicated!Continued, Continues
<1>5. /\ Replicas' = [Replicas EXCEPT ![n] = Replicas'[n]]
      /\ Replicas[n] = Replica(doc[n]) /\ Replicas'[n] = Replica(snap)
  BY <1>2 DEF Replicas, Replica, SyncInv, GoodDocs
<1>6. Replica(snap).history = snap.log
  BY DEF Replica
<1>7. Replicas = [m \in Nodes |-> [history |-> doc[m].log,
                                   closed |-> doc[m].view.stage = "agreement"]]
  BY DEF Replicas, Replica
<1>8. Replicas' = [m \in Nodes |-> [history |-> doc'[m].log,
                                    closed |-> doc'[m].view.stage = "agreement"]]
  BY DEF Replicas, Replica
<1>. HIDE DEF snap
<1>9. prev' = prev
  BY <1>2
<1>. QED BY <1>3, <1>4, <1>5, <1>6, <1>7, <1>8, <1>9 DEF Replicated!Continue

LEMMA ReplicatedStep ==
  ASSUME SyncInv, Alone(doc, jobs), [Next]_vars
  PROVE  Replicated!Next \/ (prev' = prev /\ doc' = doc)
<1>1. ASSUME NEW n \in Writers, NEW j \in Jobs, NEW u \in Updates, NEW p \in Records,
             PutUpdate(n, j, u, p)
      PROVE  Replicated!Next
  BY <1>1, StoringIsWrite, Constants DEF PutUpdate, Stored
<1>2. ASSUME NEW r \in Records, NEW leaf \in Leaves, Anchor(r, leaf)
      PROVE  Replicated!Next
  <2>1. Stored(r)
    BY <1>2 DEF Anchor, SyncInv, GoodSets, StoredIn, Stored
  <2>. QED BY <1>2, <2>1, StoringIsWrite, Constants DEF Anchor
<1>3. ASSUME NEW n \in Nodes, Restart(n) PROVE Replicated!Next
  <2>1. doc' = [doc EXCEPT ![n] = Fresh] /\ prev' = prev
    BY <1>3 DEF Restart
  <2>2. Replicas' = [Replicas EXCEPT ![n] = Replicated!Blank]
    BY <2>1 DEF Replicas, Replica, Replicated!Blank, Fresh, Knead, SyncInv, GoodDocs
  <2>. QED BY <2>1, <2>2 DEF Replicated!Next, Replicated!StartAnew, Replicas, Replica
<1>4. ASSUME NEW j \in Jobs, JobStep(j) \/ CallFails(j)
      PROVE  Finish(j) \/ (prev' = prev /\ doc' = doc)
  BY <1>4 DEF JobStep, Walk, ApplyRecord, Throw, CallFails, Fail
<1>5. ASSUME NEW n \in Nodes, NodeStep(n)
      PROVE  Restart(n) \/ (prev' = prev /\ doc' = doc)
  BY <1>5 DEF NodeStep, Load, AnswerRequest, LoseMessage, PollFails, ObserveStatus,
              ObserveOutdated, DropMessage, ReceiveHead, ObserveAnchor
<1>6. ASSUME UNCHANGED vars \/ \E n \in Requesters : RequestAnchor(n)
      PROVE  prev' = prev /\ doc' = doc
  BY <1>6 DEF vars, RequestAnchor
<1>7. ASSUME NEW j \in Jobs, Finish(j)
      PROVE  Replicated!Next \/ (prev' = prev /\ doc' = doc)
  <2>1. CASE jobs[j].node \in Nodes
    <3>1. PICK n \in Nodes : n = jobs[j].node
      BY <2>1
    <3>2. Replicated!Continue(n)
      BY <1>7, <3>1, FinishIsContinue
    <3>. QED BY <3>2 DEF Replicated!Next
  <2>2. CASE jobs[j].node \notin Nodes
    BY <1>7, <2>2 DEF Finish, SyncInv, GoodDocs
  <2>. QED BY <2>1, <2>2
<1>. QED BY <1>1, <1>2, <1>3, <1>4, <1>5, <1>6, <1>7 DEF Next

(* Where the jobs of a node do not overlap, the nodes keep the promise of     *)
(* ReplicatedDocument, whatever is lost or fails and whichever crash.        *)
THEOREM ReplicatedWithoutOverlap ==
  ASSUME ~Overlap
  PROVE  Spec => ImplementsReplicated
<1>1. Init => Replicated!Init
  <2>. SUFFICES ASSUME Init
                PROVE  Replicated!Init
    OBVIOUS
  <2>1. Fresh.log = <<Genesis>> /\ (Fresh.view.stage = "agreement") = FALSE
    BY DEF Fresh, Knead
  <2>2. \A n \in Nodes : doc[n] = Fresh
    BY DEF Init
  <2>3. ASSUME NEW n \in Nodes
        PROVE  [history |-> doc[n].log, closed |-> doc[n].view.stage = "agreement"]
                 = Replicated!Blank
    BY <2>1, <2>2 DEF Replicated!Blank
  <2>4. prev = [r \in Records |-> None]
    BY DEF Init
  <2>. QED BY <2>3, <2>4 DEF Replicated!Init
<1>2. SyncInv /\ Alone(doc, jobs) /\ [Next]_vars =>
        [Replicated!Next]_<<prev, [n \in Nodes |->
            [history |-> doc[n].log, closed |-> doc[n].view.stage = "agreement"]]>>
  BY ReplicatedStep
<1>3. Init => Alone(doc, jobs)
  BY AloneInitially
<1>4. SyncInv /\ Alone(doc, jobs) /\ [Next]_vars => Alone(doc, jobs)'
  BY AloneStep
<1>. QED BY <1>1, <1>2, <1>3, <1>4, SyncInvariant, PTL
         DEF Spec, ImplementsReplicated, Replicated!Spec

-----------------------------------------------------------------------------
(* Without overlapping jobs, and if no message is lost, the head of a node   *)
(* is never forgotten: a node that listens has it, or the node is still to    *)
(* answer a REQUEST, or the head has been published, or a job is about it.   *)

\* What the job is about: the record it looks for, those it is still to apply
\* and those it has.
Carries(job, n, r) ==
    /\ job.node = n /\ job.kind = "head"
    /\ job.tip = r \/ Has(job.snap, r) \/ \E i \in DOMAIN job.rest : job.rest[i] = r

Coming(m, n, r) ==
    \/ Has(doc[n], r)
    \/ m \in asked
    \/ r \in inbox[n]
    \/ \E j \in Jobs : Carries(jobs[j], n, r)

Untouched(n) == doc[n] = Fresh /\ \A j \in Jobs : jobs[j].node # n

ComingInv ==
    /\ \A n \in Nodes : ~Loaded(n) => Untouched(n)
    /\ \A m, n \in Nodes :
        Loaded(m) /\ stream[n] = "live" => Coming(m, n, HeadOf(doc[m]))

LEMMA HasFirstAndLast ==
  ASSUME NEW s \in Snapshot, NEW links, ChainIn(links, s.log)
  PROVE  Has(s, Genesis) /\ Has(s, HeadOf(s))
<1>1. Len(s.log) \in Nat /\ DOMAIN s.log = 1 .. Len(s.log)
  BY DEF Snapshot
<1>2. 1 \in DOMAIN s.log /\ Len(s.log) \in DOMAIN s.log
  BY <1>1 DEF ChainIn
<1>. QED BY <1>2 DEF Has, HeadOf, Last, ChainIn

LEMMA ContinuingHas ==
  ASSUME NEW s \in Snapshot, NEW t \in Snapshot, Continues(s, t), NEW r, Has(s, r)
  PROVE  Has(t, r)
<1>1. PICK i \in DOMAIN s.log : s.log[i] = r
  BY DEF Has
<1>2. i \in DOMAIN t.log /\ t.log[i] = r
  BY <1>1 DEF Continues, Snapshot
<1>. QED BY <1>2 DEF Has

\* What a step that ends jobs of another node, or only begins one, leaves.
LEMMA BegunJobs ==
  ASSUME SyncInv, NEW n, NEW j \in Jobs, NEW kind, NEW tip, NEW rest, NEW built,
         Begin(n, j, kind, tip, rest, built)
  PROVE  /\ jobs[j] = Idle
         /\ \A k \in Jobs \ {j} : jobs'[k] = jobs[k]
         /\ jobs'[j].node = n /\ jobs'[j].kind = kind /\ jobs'[j].tip = tip
BY DEF Begin, SetJob, SyncInv, GoodJobs

LEMMA EndedJobs ==
  ASSUME NEW n, NEW kinds, EndJobs(n, kinds)
  PROVE  \A k \in Jobs : jobs'[k] = jobs[k] \/ (jobs[k].node = n /\ jobs'[k] = Idle)
BY DEF EndJobs

LEMMA Prepended ==
  ASSUME NEW s \in Seq(Records), NEW r \in Records
  PROVE  /\ 1 \in DOMAIN (<<r>> \o s) /\ (<<r>> \o s)[1] = r
         /\ \A i \in DOMAIN s : i + 1 \in DOMAIN (<<r>> \o s) /\ (<<r>> \o s)[i + 1] = s[i]
<1>1. Len(s) \in Nat /\ DOMAIN s = 1 .. Len(s)
  OBVIOUS
<1>2. <<r>> \o s \in Seq(Records) /\ Len(<<r>> \o s) = Len(s) + 1
  OBVIOUS
<1>3. DOMAIN (<<r>> \o s) = 1 .. (Len(s) + 1)
  BY <1>2
<1>4. (<<r>> \o s)[1] = r /\ \A i \in 1 .. Len(s) : (<<r>> \o s)[i + 1] = s[i]
  BY <1>1
<1>. QED BY <1>1, <1>3, <1>4

LEMMA Appended ==
  ASSUME NEW s \in Seq(Records), NEW r \in Records
  PROVE  /\ Len(s) + 1 \in DOMAIN Append(s, r) /\ Append(s, r)[Len(s) + 1] = r
         /\ \A i \in DOMAIN s : i \in DOMAIN Append(s, r) /\ Append(s, r)[i] = s[i]
<1>1. Len(s) \in Nat /\ DOMAIN s = 1 .. Len(s)
  OBVIOUS
<1>2. DOMAIN Append(s, r) = 1 .. (Len(s) + 1)
  OBVIOUS
<1>3. Append(s, r)[Len(s) + 1] = r /\ \A i \in 1 .. Len(s) : Append(s, r)[i] = s[i]
  OBVIOUS
<1>. QED BY <1>1, <1>2, <1>3

\* Where a record that a job is looking for, or is to apply, goes.
LEMMA WalkCarries ==
  ASSUME SyncInv, NEW j \in Jobs, Walk(j)
  PROVE  /\ jobs'[j].node = jobs[j].node
         /\ \A k \in Jobs \ {j} : jobs'[k] = jobs[k]
         /\ \A n, r : Carries(jobs[j], n, r) => Carries(jobs'[j], n, r)
<1>. DEFINE job == jobs[j]
            longer == <<job.tip>> \o job.rest
            tip == prev[job.tip]
            next == [job EXCEPT !.rest = longer, !.tip = tip]
<1>1. job \in Job /\ job.rest \in Seq(Records) /\ job.tip \in Records
  BY DEF SyncInv, GoodJobs, Job
<1>2. jobs' = [jobs EXCEPT ![j] = next]
  BY DEF Walk, SetJob
<1>3. /\ longer[1] = job.tip /\ 1 \in DOMAIN longer
      /\ \A i \in DOMAIN job.rest : i + 1 \in DOMAIN longer /\ longer[i + 1] = job.rest[i]
  BY <1>1, Prepended
<1>. HIDE DEF longer, tip
<1>4. /\ next.node = job.node /\ next.kind = job.kind
      /\ next.rest = longer /\ next.snap = job.snap
  BY <1>1 DEF Job
<1>. HIDE DEF next
<1>5. jobs'[j] = next /\ \A k \in Jobs \ {j} : jobs'[k] = jobs[k]
  BY <1>2 DEF SyncInv, GoodJobs
<1>. QED BY <1>3, <1>4, <1>5 DEF Carries

LEMMA ApplyCarries ==
  ASSUME SyncInv, NEW j \in Jobs, ApplyRecord(j)
  PROVE  /\ jobs'[j].node = jobs[j].node
         /\ \A k \in Jobs \ {j} : jobs'[k] = jobs[k]
         /\ \A n, r : Carries(jobs[j], n, r) => Carries(jobs'[j], n, r)
<1>. DEFINE job == jobs[j]
            u == Head(job.rest)
            shorter == Tail(job.rest)
<1>0. PICK fits \in Found(u) :
        SetJob(j, [job EXCEPT !.rest = Tail(@), !.snap = After(@, u, fits), !.built = TRUE])
  BY DEF ApplyRecord
<1>. DEFINE after == After(job.snap, u, fits)
            next == [job EXCEPT !.rest = shorter, !.snap = after, !.built = TRUE]
<1>1. job \in Job /\ job.rest \in Seq(Records) /\ job.snap.log \in Seq(Records)
  BY DEF SyncInv, GoodJobs, Job, Snapshot
<1>2. jobs' = [jobs EXCEPT ![j] = next] /\ job.rest # << >>
  BY <1>0 DEF ApplyRecord, SetJob
<1>3. \A r : Has(job.snap, r) \/ r = u => Has(after, r)
  <2>1. after.log = Append(job.snap.log, u)
    BY DEF After
  <2>2. u \in Records
    BY <1>1, <1>2
  <2>. HIDE DEF u, after
  <2>3. /\ Len(job.snap.log) + 1 \in DOMAIN Append(job.snap.log, u)
        /\ Append(job.snap.log, u)[Len(job.snap.log) + 1] = u
        /\ \A i \in DOMAIN job.snap.log :
             /\ i \in DOMAIN Append(job.snap.log, u)
             /\ Append(job.snap.log, u)[i] = job.snap.log[i]
    BY <1>1, <2>2, Appended
  <2>. QED BY <2>1, <2>3 DEF Has
<1>4. \A r : (\E i \in DOMAIN job.rest : job.rest[i] = r)
             => r = u \/ \E i \in DOMAIN shorter : shorter[i] = r
  <2>1. /\ Len(job.rest) \in Nat /\ DOMAIN job.rest = 1 .. Len(job.rest)
        /\ DOMAIN shorter = 1 .. (Len(job.rest) - 1)
        /\ u = job.rest[1] /\ \A i \in 1 .. (Len(job.rest) - 1) : shorter[i] = job.rest[i + 1]
    BY <1>1, <1>2
  <2>. HIDE DEF u, shorter
  <2>2. ASSUME NEW i \in DOMAIN job.rest, i # 1
        PROVE  i - 1 \in DOMAIN shorter /\ shorter[i - 1] = job.rest[i]
    <3>1. i - 1 \in 1 .. (Len(job.rest) - 1) /\ (i - 1) + 1 = i
      BY <2>1, <2>2
    <3>. QED BY <2>1, <3>1
  <2>. QED BY <2>1, <2>2
<1>. HIDE DEF shorter, after, u
<1>5. /\ next.node = job.node /\ next.kind = job.kind /\ next.tip = job.tip
      /\ next.rest = shorter /\ next.snap = after
  BY <1>1 DEF Job
<1>. HIDE DEF next
<1>6. jobs'[j] = next /\ \A k \in Jobs \ {j} : jobs'[k] = jobs[k]
  BY <1>2 DEF SyncInv, GoodJobs
<1>. QED BY <1>3, <1>4, <1>5, <1>6 DEF Carries

\* A job that is done has what it was about.
LEMMA FinishedHas ==
  ASSUME SyncInv, NEW j \in Jobs, Finish(j), NEW n \in Nodes, NEW r, Carries(jobs[j], n, r)
  PROVE  Has(doc'[n], r)
<1>1. jobs[j].node = n /\ doc'[n] = jobs[j].snap
  BY DEF Carries, Finish, SyncInv, GoodDocs
<1>2. jobs[j].rest = << >> /\ Has(jobs[j].snap, jobs[j].tip)
  BY DEF Finish, Reached
<1>3. DOMAIN jobs[j].rest = {}
  BY <1>2
<1>. QED BY <1>1, <1>2, <1>3 DEF Carries

LEMMA FailedJobs ==
  ASSUME SyncInv, NEW j \in Jobs, Fail(j)
  PROVE  \A k \in Jobs :
           \/ jobs'[k] = jobs[k]
           \/ jobs'[k] = Idle /\ (jobs[k].kind = "update" \/ stream' = [stream EXCEPT ![jobs[k].node] = "dead"])
<1>1. CASE jobs[j].kind = "update" /\ SetJob(j, Idle)
  BY <1>1 DEF SetJob, SyncInv, GoodJobs
<1>2. CASE /\ stream' = [stream EXCEPT ![jobs[j].node] = "dead"]
           /\ EndJobs(jobs[j].node, {"head"})
  BY <1>2, EndedJobs
<1>. QED BY <1>1, <1>2 DEF Fail

-----------------------------------------------------------------------------
(* A record that is on its way stays so until it has come.                   *)

\* A job goes on carrying a record until its node has it, or listens no more.
LEMMA JobStays ==
  ASSUME SyncInv, [Next]_vars, NEW n \in Nodes, stream'[n] = "live",
         NEW r, NEW j \in Jobs, Carries(jobs[j], n, r)
  PROVE  Carries(jobs'[j], n, r) \/ Has(doc'[n], r)
<1>0. jobs[j].node = n /\ jobs[j].kind = "head" /\ jobs[j] # Idle
  BY DEF Carries, Idle
<1>. SUFFICES ASSUME jobs'[j] # jobs[j]
              PROVE  Carries(jobs'[j], n, r) \/ Has(doc'[n], r)
  OBVIOUS
<1>1. ASSUME NEW m, NEW k \in Jobs, NEW kind, NEW tip, NEW rest, NEW built,
             Begin(m, k, kind, tip, rest, built)
      PROVE  FALSE
  BY <1>0, <1>1, BegunJobs
<1>2. ASSUME NEW k \in Jobs, Walk(k)
      PROVE  Carries(jobs'[j], n, r)
  BY <1>2, WalkCarries
<1>3. ASSUME NEW k \in Jobs, ApplyRecord(k)
      PROVE  Carries(jobs'[j], n, r)
  BY <1>3, ApplyCarries
<1>4. ASSUME NEW k \in Jobs, Finish(k)
      PROVE  Has(doc'[n], r)
  <2>1. k = j
    BY <1>4 DEF Finish, SetJob
  <2>. QED BY <1>4, <2>1, FinishedHas
<1>5. ASSUME NEW k \in Jobs, Fail(k)
      PROVE  FALSE
  <2>1. stream' = [stream EXCEPT ![n] = "dead"]
    BY <1>0, <1>5, FailedJobs
  <2>. QED BY <2>1 DEF SyncInv
<1>6. ASSUME NEW m \in Nodes, Restart(m) \/ PollFails(m)
      PROVE  FALSE
  <2>1. \E kinds : EndJobs(m, kinds)
    BY <1>6 DEF Restart, PollFails
  <2>2. m = n
    BY <1>0, <2>1, EndedJobs
  <2>. QED BY <1>6, <2>2 DEF Restart, PollFails, SyncInv
<1>7. ASSUME NEW m \in Nodes,
             \/ Load(m) \/ AnswerRequest(m) \/ LoseMessage(m) \/ ObserveStatus(m)
             \/ \E q \in Records : ObserveOutdated(m, q) \/ DropMessage(m, q)
      PROVE  FALSE
  BY <1>7 DEF Load, AnswerRequest, LoseMessage, ObserveStatus, ObserveOutdated, DropMessage
<1>8. ASSUME NEW m \in Nodes, NodeStep(m)
      PROVE  FALSE
  <2>1. ASSUME NEW k \in Jobs, NEW q \in Records, ReceiveHead(m, k, q) PROVE FALSE
    BY <1>1, <2>1 DEF ReceiveHead
  <2>2. ASSUME NEW k \in Jobs, NEW leaf \in Leaves, ObserveAnchor(m, k, leaf) PROVE FALSE
    BY <1>1, <2>2 DEF ObserveAnchor
  <2>. QED BY <1>6, <1>7, <1>8, <2>1, <2>2 DEF NodeStep
<1>9. ASSUME NEW k \in Jobs, JobStep(k) \/ CallFails(k)
      PROVE  Carries(jobs'[j], n, r) \/ Has(doc'[n], r)
  BY <1>2, <1>3, <1>4, <1>5, <1>9 DEF JobStep, CallFails, Throw
<1>10. ASSUME NEW m \in Writers, NEW k \in Jobs, NEW u \in Updates, NEW p \in Records,
              PutUpdate(m, k, u, p)
       PROVE  FALSE
  BY <1>1, <1>10 DEF PutUpdate
<1>11. ASSUME \/ UNCHANGED vars
              \/ \E m \in Requesters : RequestAnchor(m)
              \/ \E q \in Records, leaf \in Leaves : Anchor(q, leaf)
       PROVE  FALSE
  BY <1>11 DEF vars, RequestAnchor, Anchor
<1>. QED BY <1>8, <1>9, <1>10, <1>11 DEF Next

\* A published head stays in the inbox until a job takes it.
LEMMA InboxStays ==
  ASSUME SyncInv, [Next]_vars, ~faults'.lost, NEW n \in Nodes, stream[n] = "live",
         NEW r, r \in inbox[n]
  PROVE  r \in inbox'[n] \/ \E j \in Jobs : Carries(jobs'[j], n, r)
<1>0. inbox \in [Nodes -> SUBSET Records]
  BY DEF SyncInv, GoodSets
<1>1. ASSUME NEW m, NEW q, inbox' = Published(m, q)
      PROVE  r \in inbox'[n]
  BY <1>1 DEF Published
<1>2. CASE inbox' = inbox
  BY <1>2
<1>3. ASSUME NEW m \in Nodes, NEW j \in Jobs, NEW q \in Records, ReceiveHead(m, j, q)
      PROVE  r \in inbox'[n] \/ \E k \in Jobs : Carries(jobs'[k], n, r)
  <2>1. CASE m = n /\ q = r
    <3>1. Begin(n, j, "head", r, << >>, FALSE)
      BY <1>3, <2>1 DEF ReceiveHead
    <3>2. jobs'[j].node = n /\ jobs'[j].kind = "head" /\ jobs'[j].tip = r
      BY <3>1 DEF Begin, SetJob, SyncInv, GoodJobs
    <3>. QED BY <3>2 DEF Carries
  <2>2. CASE ~(m = n /\ q = r)
    BY <1>0, <1>3, <2>2 DEF ReceiveHead
  <2>. QED BY <2>1, <2>2
<1>4. ASSUME NEW m \in Nodes, NEW q \in Records, DropMessage(m, q)
      PROVE  r \in inbox'[n]
  <2>1. m # n
    BY <1>4 DEF DropMessage
  <2>. QED BY <1>0, <1>4, <2>1 DEF DropMessage
<1>5. ASSUME NEW m \in Nodes, NodeStep(m)
      PROVE  r \in inbox'[n] \/ \E k \in Jobs : Carries(jobs'[k], n, r)
  <2>1. CASE AnswerRequest(m) \/ ObserveStatus(m)
    BY <1>1, <1>2, <2>1 DEF AnswerRequest, ObserveStatus
  <2>2. CASE \/ Load(m) \/ Restart(m) \/ PollFails(m)
             \/ \E q \in Records : ObserveOutdated(m, q)
             \/ \E j \in Jobs, leaf \in Leaves : ObserveAnchor(m, j, leaf)
    BY <1>2, <2>2 DEF Load, Restart, PollFails, ObserveOutdated, ObserveAnchor
  <2>. QED BY <1>3, <1>4, <1>5, <2>1, <2>2 DEF NodeStep, LoseMessage, Loss
<1>6. ASSUME NEW j \in Jobs, JobStep(j) \/ CallFails(j)
      PROVE  r \in inbox'[n]
  <2>1. CASE Finish(j)
    BY <1>1, <1>2, <2>1 DEF Finish
  <2>2. CASE Walk(j) \/ ApplyRecord(j) \/ Fail(j)
    BY <1>2, <2>2 DEF Walk, ApplyRecord, Fail
  <2>. QED BY <1>6, <2>1, <2>2 DEF JobStep, CallFails, Throw
<1>7. ASSUME \/ \E m \in Writers, k \in Jobs, u \in Updates, p \in Records : PutUpdate(m, k, u, p)
             \/ UNCHANGED vars
             \/ \E m \in Requesters : RequestAnchor(m)
             \/ \E q \in Records, leaf \in Leaves : Anchor(q, leaf)
      PROVE  inbox' = inbox
  BY <1>7 DEF PutUpdate, vars, RequestAnchor, Anchor
<1>. QED BY <1>2, <1>5, <1>6, <1>7 DEF Next

\* A REQUEST waits for its answer, which is the head.
LEMMA AskedStays ==
  ASSUME SyncInv, [Next]_vars, ~faults'.lost, NEW m \in asked, Loaded(m),
         NEW n \in Nodes, n # m
  PROVE  m \in asked' \/ HeadOf(doc[m]) \in inbox'[n]
<1>1. CASE asked \subseteq asked'
  BY <1>1
<1>2. ASSUME NEW k \in Nodes, AnswerRequest(k)
      PROVE  m \in asked' \/ HeadOf(doc[m]) \in inbox'[n]
  <2>1. CASE k = m
    BY <1>2, <2>1 DEF AnswerRequest, Published
  <2>2. CASE k # m
    BY <1>2, <2>2 DEF AnswerRequest
  <2>. QED BY <2>1, <2>2
<1>3. ASSUME NEW k \in Nodes, NodeStep(k)
      PROVE  AnswerRequest(k) \/ asked \subseteq asked'
  <2>1. ~LoseMessage(k)
    BY DEF LoseMessage, Loss
  <2>. QED
    BY <1>3, <2>1
    DEF NodeStep, Load, Restart, PollFails, ObserveStatus, ObserveOutdated,
        DropMessage, ReceiveHead, ObserveAnchor
<1>4. ASSUME NEW j \in Jobs, JobStep(j) \/ CallFails(j)
      PROVE  asked' = asked
  BY <1>4 DEF JobStep, CallFails, Walk, ApplyRecord, Finish, Throw, Fail
<1>5. ASSUME \/ \E k \in Writers, j \in Jobs, u \in Updates, p \in Records : PutUpdate(k, j, u, p)
             \/ UNCHANGED vars
             \/ \E k \in Requesters : RequestAnchor(k)
             \/ \E q \in Records, leaf \in Leaves : Anchor(q, leaf)
      PROVE  asked' = asked
  BY <1>5 DEF PutUpdate, vars, RequestAnchor, Anchor
<1>. QED BY <1>1, <1>2, <1>3, <1>4, <1>5 DEF Next

\* A node that is not loaded has nothing of the document and does nothing.
LEMMA UntouchedStep ==
  ASSUME ~Overlap, SyncInv, Alone(doc, jobs), [Next]_vars, NEW n \in Nodes,
         ~Loaded(n) => Untouched(n), ~Loaded(n)'
  PROVE  Untouched(n)'
<1>. USE DEF Loaded, Untouched
<1>0. stream \in [Nodes -> {"unloaded", "live", "dead"}] /\ doc \in [Nodes -> Snapshot]
  BY DEF SyncInv, GoodDocs
<1>1. Idle.node # n
  BY Constants DEF Idle
<1>2. ASSUME Restart(n) PROVE Untouched(n)'
  <2>1. doc'[n] = Fresh /\ EndJobs(n, {"update", "head"})
    BY <1>0, <1>2 DEF Restart
  <2>2. \A j \in Jobs : jobs[j].node = n => jobs[j].kind \in {"update", "head"}
    BY DEF Alone, SyncInv, GoodJobs, Job
  <2>3. \A j \in Jobs : jobs'[j].node # n
    BY <1>1, <2>1, <2>2 DEF EndJobs
  <2>. QED BY <2>1, <2>3
<1>3. ASSUME ~Restart(n) PROVE stream[n] = "unloaded"
  <2>1. ASSUME NEW m \in Nodes, NodeStep(m) PROVE stream[n] = "unloaded"
    <3>1. CASE Restart(m) \/ Load(m) \/ PollFails(m)
      BY <1>0, <1>3, <3>1 DEF Restart, Load, PollFails
    <3>2. CASE ~(Restart(m) \/ Load(m) \/ PollFails(m))
      BY <2>1, <3>2 DEF NodeStep, AnswerRequest, LoseMessage, ObserveStatus,
           ObserveOutdated, DropMessage, ReceiveHead, ObserveAnchor
    <3>. QED BY <3>1, <3>2
  <2>2. ASSUME NEW j \in Jobs, JobStep(j) \/ CallFails(j) PROVE stream[n] = "unloaded"
    <3>1. CASE Fail(j)
      BY <1>0, <3>1 DEF Fail
    <3>2. CASE Walk(j) \/ ApplyRecord(j) \/ Finish(j)
      BY <3>2 DEF Walk, ApplyRecord, Finish
    <3>. QED BY <2>2, <3>1, <3>2 DEF JobStep, CallFails, Throw
  <2>3. ASSUME \/ \E m \in Writers, j \in Jobs, u \in Updates, p \in Records : PutUpdate(m, j, u, p)
               \/ UNCHANGED vars
               \/ \E m \in Requesters : RequestAnchor(m)
               \/ \E q \in Records, leaf \in Leaves : Anchor(q, leaf)
        PROVE  stream' = stream
    BY <2>3 DEF PutUpdate, vars, RequestAnchor, Anchor
  <2>. QED BY <2>1, <2>2, <2>3 DEF Next
<1>. SUFFICES ASSUME stream[n] = "unloaded", ~Restart(n) PROVE Untouched(n)'
  BY <1>2, <1>3
<1>4. doc[n] = Fresh /\ \A j \in Jobs : jobs[j].node # n
  OBVIOUS
<1>5. CASE UNCHANGED <<doc, jobs>>
  BY <1>4, <1>5
<1>6. ASSUME NEW m \in Nodes, m # n, NEW j \in Jobs, NEW kind, NEW tip, NEW rest, NEW built,
             Begin(m, j, kind, tip, rest, built), doc' = doc
      PROVE  Untouched(n)'
  BY <1>4, <1>6, BegunJobs
<1>7. ASSUME NEW m \in Nodes, NodeStep(m) PROVE Untouched(n)'
  <2>1. CASE Restart(m) \/ PollFails(m)
    <3>1. doc'[n] = doc[n] /\ \E kinds : EndJobs(m, kinds)
      BY <1>0, <2>1 DEF Restart, PollFails
    <3>. QED BY <1>1, <1>4, <3>1, EndedJobs
  <2>2. CASE \/ Load(m) \/ AnswerRequest(m) \/ LoseMessage(m) \/ ObserveStatus(m)
             \/ \E q \in Records : ObserveOutdated(m, q) \/ DropMessage(m, q)
    BY <1>5, <2>2 DEF Load, AnswerRequest, LoseMessage, ObserveStatus, ObserveOutdated, DropMessage
  <2>3. ASSUME NEW j \in Jobs, NEW q \in Records, ReceiveHead(m, j, q) PROVE Untouched(n)'
    BY <1>6, <2>3 DEF ReceiveHead
  <2>4. ASSUME NEW j \in Jobs, NEW leaf \in Leaves, ObserveAnchor(m, j, leaf) PROVE Untouched(n)'
    BY <1>6, <2>4 DEF ObserveAnchor
  <2>. QED BY <1>7, <2>1, <2>2, <2>3, <2>4 DEF NodeStep
<1>8. ASSUME NEW j \in Jobs, JobStep(j) \/ CallFails(j) PROVE Untouched(n)'
  <2>1. CASE Walk(j) \/ ApplyRecord(j)
    <3>1. doc' = doc
      BY <2>1 DEF Walk, ApplyRecord
    <3>. QED BY <1>4, <2>1, <3>1, WalkCarries, ApplyCarries
  <2>2. CASE Finish(j)
    <3>1. \A k \in Jobs : jobs'[k] = IF k = j THEN Idle ELSE jobs[k]
      BY <2>2 DEF Finish, SetJob, SyncInv, GoodJobs
    <3>2. doc'[n] = doc[n]
      BY <1>0, <1>4, <2>2 DEF Finish
    <3>. QED BY <1>1, <1>4, <3>1, <3>2
  <2>3. CASE Fail(j)
    <3>1. doc' = doc
      BY <2>3 DEF Fail
    <3>. QED BY <1>1, <1>4, <2>3, <3>1, FailedJobs
  <2>. QED BY <1>8, <2>1, <2>2, <2>3 DEF JobStep, CallFails, Throw
<1>9. ASSUME NEW m \in Writers, NEW j \in Jobs, NEW u \in Updates, NEW p \in Records,
             PutUpdate(m, j, u, p)
      PROVE  Untouched(n)'
  <2>1. m \in Nodes /\ m # n
    BY <1>9, SyncAssumption DEF PutUpdate
  <2>. QED BY <1>6, <1>9, <2>1 DEF PutUpdate
<1>10. ASSUME \/ UNCHANGED vars
              \/ \E m \in Requesters : RequestAnchor(m)
              \/ \E q \in Records, leaf \in Leaves : Anchor(q, leaf)
       PROVE  UNCHANGED <<doc, jobs>>
  BY <1>10 DEF vars, RequestAnchor, Anchor
<1>. QED BY <1>5, <1>7, <1>8, <1>9, <1>10 DEF Next

\* A head that is new to a node is published by it.
LEMMA NewHeadIsPublished ==
  ASSUME SyncInv, [Next]_vars, NEW m \in Nodes, NEW n \in Nodes, m # n, Loaded(m)',
         HeadOf(doc'[m]) # HeadOf(doc[m])
  PROVE  HeadOf(doc'[m]) = Genesis \/ HeadOf(doc'[m]) \in inbox'[n]
<1>1. ASSUME NEW j \in Jobs, Finish(j)
      PROVE  HeadOf(doc'[m]) = Genesis \/ HeadOf(doc'[m]) \in inbox'[n]
  <2>1. jobs[j].node = m /\ doc'[m] = jobs[j].snap
    BY <1>1 DEF Finish, SyncInv, GoodDocs
  <2>2. jobs[j].snap # doc[m]
    BY <2>1
  <2>. QED BY <1>1, <2>1, <2>2 DEF Finish, Published
<1>2. ASSUME NEW k \in Nodes, Restart(k) PROVE FALSE
  <2>1. k # m
    BY <1>2 DEF Restart, Loaded, SyncInv
  <2>. QED BY <1>2, <2>1 DEF Restart, SyncInv, GoodDocs
<1>3. ASSUME NEW j \in Jobs, JobStep(j) \/ CallFails(j)
      PROVE  Finish(j) \/ doc' = doc
  BY <1>3 DEF JobStep, Walk, ApplyRecord, Throw, CallFails, Fail
<1>4. ASSUME NEW k \in Nodes, NodeStep(k)
      PROVE  Restart(k) \/ doc' = doc
  BY <1>4 DEF NodeStep, Load, AnswerRequest, LoseMessage, PollFails, ObserveStatus,
              ObserveOutdated, DropMessage, ReceiveHead, ObserveAnchor
<1>5. ASSUME \/ \E k \in Writers, j \in Jobs, u \in Updates, p \in Records :
                    PutUpdate(k, j, u, p)
             \/ \E k \in Requesters : RequestAnchor(k)
             \/ \E r \in Records, leaf \in Leaves : Anchor(r, leaf)
             \/ UNCHANGED vars
      PROVE  doc' = doc
  BY <1>5 DEF PutUpdate, RequestAnchor, Anchor, vars
<1>. QED BY <1>1, <1>2, <1>3, <1>4, <1>5 DEF Next

\* A node begins to listen only when it is loaded, and asks all the others.
LEMMA LoadingAsks ==
  ASSUME SyncInv, [Next]_vars, NEW n \in Nodes, stream'[n] = "live", stream[n] # "live"
  PROVE  doc' = doc /\ Nodes \ {n} \subseteq asked'
<1>0. stream \in [Nodes -> {"unloaded", "live", "dead"}]
  BY DEF SyncInv
<1>1. ASSUME NEW m \in Nodes, NodeStep(m)
      PROVE  m = n /\ Load(n)
  <2>1. CASE Restart(m) \/ PollFails(m)
    BY <1>0, <2>1 DEF Restart, PollFails
  <2>2. CASE \/ AnswerRequest(m) \/ LoseMessage(m) \/ ObserveStatus(m)
             \/ \E q \in Records : ObserveOutdated(m, q) \/ DropMessage(m, q)
             \/ \E j \in Jobs, q \in Records : ReceiveHead(m, j, q)
             \/ \E j \in Jobs, leaf \in Leaves : ObserveAnchor(m, j, leaf)
    BY <2>2 DEF AnswerRequest, LoseMessage, ObserveStatus, ObserveOutdated, DropMessage,
                ReceiveHead, ObserveAnchor
  <2>3. CASE Load(m)
    BY <1>0, <2>3 DEF Load
  <2>. QED BY <1>1, <2>1, <2>2, <2>3 DEF NodeStep
<1>2. ASSUME NEW j \in Jobs, JobStep(j) \/ CallFails(j) PROVE FALSE
  <2>1. CASE Fail(j)
    BY <1>0, <2>1 DEF Fail
  <2>2. CASE Walk(j) \/ ApplyRecord(j) \/ Finish(j)
    BY <2>2 DEF Walk, ApplyRecord, Finish
  <2>. QED BY <1>2, <2>1, <2>2 DEF JobStep, CallFails, Throw
<1>3. ASSUME \/ \E k \in Writers, j \in Jobs, u \in Updates, p \in Records : PutUpdate(k, j, u, p)
             \/ \E k \in Requesters : RequestAnchor(k)
             \/ \E r \in Records, leaf \in Leaves : Anchor(r, leaf)
             \/ UNCHANGED vars
      PROVE  FALSE
  BY <1>3 DEF PutUpdate, RequestAnchor, Anchor, vars
<1>. QED BY <1>1, <1>2, <1>3 DEF Next, Load

\* A lost message is not found again.
LEMMA LostStaysLost ==
  ASSUME SyncInv, [Next]_vars, faults.lost
  PROVE  faults'.lost
<1>0. faults \in Faults
  BY DEF SyncInv
<1>1. CASE faults' = faults
  BY <1>1
<1>2. CASE Fault \/ Loss
  BY <1>0, <1>2 DEF Fault, Loss, Faults
<1>3. ASSUME NEW n, NEW r, AskForAnchor(n, r)
      PROVE  faults' = faults \/ Fault
  BY <1>3 DEF AskForAnchor
<1>4. ASSUME NEW k \in Nodes, NodeStep(k)
      PROVE  faults' = faults \/ Fault \/ Loss
  BY <1>4 DEF NodeStep, LoseMessage, Load, Restart, PollFails, ObserveStatus, ObserveOutdated,
              DropMessage, ReceiveHead, ObserveAnchor, AnswerRequest
<1>5. ASSUME NEW j \in Jobs, JobStep(j) \/ CallFails(j)
      PROVE  faults' = faults \/ Fault \/ Loss
  BY <1>3, <1>5 DEF JobStep, CallFails, Walk, ApplyRecord, Finish, Throw, Fail
<1>6. ASSUME \/ \E k \in Writers, j \in Jobs, u \in Updates, p \in Records : PutUpdate(k, j, u, p)
             \/ UNCHANGED vars
             \/ \E k \in Requesters : RequestAnchor(k)
             \/ \E q \in Records, leaf \in Leaves : Anchor(q, leaf)
      PROVE  faults' = faults \/ Fault
  BY <1>3, <1>6 DEF PutUpdate, vars, RequestAnchor, Anchor
<1>. QED BY <1>1, <1>2, <1>4, <1>5, <1>6 DEF Next

LEMMA ComingStep ==
  ASSUME ~Overlap, ~faults'.lost, SyncInv, SyncInv', Alone(doc, jobs), ComingInv,
         [Next]_vars
  PROVE  ComingInv'
<1>1. \A n \in Nodes : ~Loaded(n)' => Untouched(n)'
  BY UntouchedStep DEF ComingInv
<1>2. ASSUME NEW m \in Nodes, NEW n \in Nodes, Loaded(m)', stream'[n] = "live"
      PROVE  Coming(m, n, HeadOf(doc[m]))'
  <2>. DEFINE h == HeadOf(doc[m])
  <2>1. /\ doc[m] \in Snapshot /\ doc[n] \in Snapshot /\ doc'[n] \in Snapshot
        /\ ChainIn(prev, doc[m].log) /\ ChainIn(prev', doc'[m].log) /\ ChainIn(prev', doc'[n].log)
        /\ doc'[m] \in Snapshot
    BY DEF SyncInv, GoodDocs, SoundIn
  <2>2. Has(doc'[n], Genesis) /\ Has(doc'[m], HeadOf(doc'[m]))
    BY <2>1, HasFirstAndLast
  <2>3. CASE m = n
    BY <2>2, <2>3 DEF Coming
  <2>4. CASE m # n /\ stream[n] # "live"
    <3>1. m \in asked'
      BY <1>2, <2>4, LoadingAsks
    <3>. QED BY <3>1 DEF Coming
  <2>5. CASE HeadOf(doc'[m]) # h /\ m # n
    <3>1. HeadOf(doc'[m]) = Genesis \/ HeadOf(doc'[m]) \in inbox'[n]
      BY <1>2, <2>5, NewHeadIsPublished
    <3>. QED BY <2>2, <3>1 DEF Coming
  <2>6. CASE HeadOf(doc'[m]) = h /\ ~Loaded(m)
    <3>1. doc[m] = Fresh
      BY <2>6 DEF ComingInv, Untouched
    <3>2. h = Genesis
      BY <3>1 DEF Fresh, HeadOf, Last
    <3>. QED BY <2>2, <2>6, <3>2 DEF Coming
  <2>7. CASE m # n /\ stream[n] = "live" /\ HeadOf(doc'[m]) = h /\ Loaded(m)
    <3>1. Coming(m, n, h)
      BY <2>7 DEF ComingInv
    <3>2. CASE Has(doc[n], h)
      <4>1. Loaded(n)'
        BY <1>2 DEF Loaded
      <4>2. Continues(doc[n], doc'[n])
        BY <4>1, DocumentContinues
      <4>3. Has(doc'[n], h)
        BY <2>1, <3>2, <4>2, ContinuingHas
      <4>. QED BY <2>7, <4>3 DEF Coming
    <3>3. CASE m \in asked
      <4>1. m \in asked' \/ h \in inbox'[n]
        BY <2>7, <3>3, AskedStays
      <4>. QED BY <2>7, <4>1 DEF Coming
    <3>4. CASE h \in inbox[n]
      <4>1. h \in inbox'[n] \/ \E j \in Jobs : Carries(jobs'[j], n, h)
        BY <2>7, <3>4, InboxStays
      <4>. QED BY <2>7, <4>1 DEF Coming
    <3>5. ASSUME NEW j \in Jobs, Carries(jobs[j], n, h)
          PROVE  Coming(m, n, HeadOf(doc[m]))'
      <4>1. Carries(jobs'[j], n, h) \/ Has(doc'[n], h)
        BY <1>2, <3>5, JobStays
      <4>. QED BY <2>7, <4>1 DEF Coming
    <3>. QED BY <3>1, <3>2, <3>3, <3>4, <3>5 DEF Coming
  <2>. QED BY <2>3, <2>4, <2>5, <2>6, <2>7
<1>. QED BY <1>1, <1>2 DEF ComingInv

\* A log that has the head of another goes on from it.
LEMMA HeadThenAll ==
  ASSUME NEW links, GoodLinks(links), NEW s \in Snapshot, NEW t \in Snapshot,
         ChainIn(links, s.log), ChainIn(links, t.log), Has(t, HeadOf(s))
  PROVE  IsPrefix(s.log, t.log)
<1>1. s.log \in Seq(Records) /\ t.log \in Seq(Records)
  BY DEF Snapshot
<1>2. PICK i \in DOMAIN t.log : t.log[i] = HeadOf(s)
  BY DEF Has
<1>. DEFINE front == SubSeq(t.log, 1, i)
<1>3. i \in 1 .. Len(t.log) /\ Len(t.log) \in Nat
  BY <1>1
<1>4. /\ front \in Seq(Records) /\ Len(front) = i
      /\ \A k \in 1 .. i : front[k] = t.log[k]
  BY <1>1, <1>3
<1>. HIDE DEF front
<1>5. ChainIn(links, front)
  <2>1. front[1] = Genesis
    BY <1>3, <1>4 DEF ChainIn
  <2>2. ASSUME NEW k \in 1 .. (i - 1) PROVE links[front[k + 1]] = front[k]
    <3>1. k \in 1 .. i /\ k + 1 \in 1 .. i /\ k \in 1 .. (Len(t.log) - 1)
      BY <1>3
    <3>. QED BY <1>4, <3>1 DEF ChainIn
  <2>. QED BY <1>3, <1>4, <2>1, <2>2 DEF ChainIn
<1>6. front[Len(front)] = s.log[Len(s.log)]
  BY <1>2, <1>3, <1>4 DEF HeadOf, Last
<1>7. front = s.log
  BY <1>1, <1>4, <1>5, <1>6, ChainsFromOneHead
<1>8. Len(s.log) <= Len(t.log) /\ \A k \in 1 .. Len(s.log) : s.log[k] = t.log[k]
  BY <1>3, <1>4, <1>7
<1>. QED BY <1>1, <1>8 DEF IsPrefix

(* Where jobs do not overlap and as long as no message was lost, nodes that   *)
(* have come to rest and still listen have all that any loaded node has: no   *)
(* head is forgotten between REQUEST, answer, publication, walk and           *)
(* application, whichever nodes crash, fail, refuse a sibling or load late.   *)
THEOREM NothingIsForgotten ==
  ASSUME ~Overlap
  PROVE  Spec => []QuietNodesAgree
<1>. DEFINE Kept == ~faults.lost => ComingInv
<1>1. Init => Alone(doc, jobs)
  BY AloneInitially
<1>2. SyncInv /\ Alone(doc, jobs) /\ [Next]_vars => Alone(doc, jobs)'
  BY AloneStep
<1>3. Init => Kept
  BY Constants DEF Init, ComingInv, Untouched, Loaded, Idle
<1>4. SyncInv /\ SyncInv' /\ Alone(doc, jobs) /\ Kept /\ [Next]_vars => Kept'
  <2>. SUFFICES ASSUME SyncInv, SyncInv', Alone(doc, jobs), Kept, [Next]_vars, ~faults'.lost
                PROVE  ComingInv'
    OBVIOUS
  <2>1. ~faults.lost
    BY LostStaysLost
  <2>. QED BY <2>1, ComingStep
<1>5. SyncInv /\ Kept => QuietNodesAgree
  <2>. SUFFICES ASSUME SyncInv, ComingInv, Quiet, NEW m \in Nodes, NEW n \in Nodes,
                       Loaded(m), stream[n] = "live"
                PROVE  IsPrefix(doc[m].log, doc[n].log)
    BY DEF QuietNodesAgree
  <2>1. Coming(m, n, HeadOf(doc[m]))
    BY DEF ComingInv
  <2>2. Has(doc[n], HeadOf(doc[m]))
    BY <2>1 DEF Coming, Quiet, Running, Carries
  <2>. QED BY <2>2, HeadThenAll DEF SyncInv, GoodDocs, SoundIn
<1>. HIDE DEF Kept
<1>. QED BY <1>1, <1>2, <1>3, <1>4, <1>5, SyncInvariant, PTL DEF Spec
=============================================================================
