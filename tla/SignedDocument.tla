--------------------------- MODULE SignedDocument ---------------------------
(***************************************************************************)
(* The state of one document in one process, down to the objects it is     *)
(* kept in, and the signatures that its records carry.  DocumentSync has   *)
(* the heads and messages between nodes and takes views for values; here   *)
(* a snapshot refers to an object, which jobs that overlap share: a tile   *)
(* makes a new object at every record, the ruleset of the two-party        *)
(* agreement writes an anchor into the object it is given.  Signatures are *)
(* checked against the DID document of the moment, which may change.       *)
(***************************************************************************)
EXTENDS SequencesExt, TwoPartyAgreement, Signatures

CONSTANTS
  Leaves,      \* anchor records
  Genesis,     \* the first record
  Signers,     \* who signs each update and the first record
  Tampered,    \* which part is not what was signed, of those where one is not
  Versions,    \* the DID documents of the 3ID, one after the other
  Jobs,        \* records and heads that are worked on at a time
  MaxRecords   \* bound: records that are stored after the first

Records == Updates \cup Leaves \cup {Genesis}
Refs == 1 .. (Cardinality(Jobs) + 2)

ASSUME SignedConstants ==
  /\ DOMAIN Signers = Updates \cup {Genesis}
  /\ DOMAIN Tampered \subseteq Updates
  /\ \A r \in DOMAIN Tampered : Tampered[r] \in {"patch", "prev", "id"}
  /\ Genesis \notin Updates \cup Leaves /\ Leaves \cap Updates = {}
  /\ None \notin Records
  /\ IsFiniteSet(Jobs)
  /\ Len(Versions) \in Nat \ {0}

\* Who signs holds the key of a did:key; or has a DID whose documents list, under
\* the DID, keys of the types that the code knows: the kid names the key, all the
\* keys, or, with a query, a version of them.
ASSUME SignersSign ==
  \A r \in DOMAIN Signers :
    LET signer == Signers[r]
        kid == signer.header.kid
    IN  /\ kid # None /\ signer.header.alg \in {"ES256K", "EdDSA"}
        /\ \/ signer = KeySigner(signer.key, signer.header.alg)
           \/ /\ kid.did.method # "key"
              /\ \A v \in 1 .. Len(Versions) : \A entry \in Versions[v].publicKey :
                   entry.id \in Versions[v].authentication =>
                     /\ IsKeyUnderstood(entry)
                     /\ entry.key = signer.key =>
                          /\ AlgOf(entry) = signer.header.alg
                          /\ \/ kid.fragment = None \/ kid = entry.id
                             \/ /\ kid.query # None /\ entry.id.fragment # None
                                /\ entry.id = DidUrl(kid.did, None, entry.id.fragment)

VARIABLES
  doctype,     \* the doctype of the document
  version,     \* which of the DID documents the 3ID resolves to
  prev,        \* the stored records: what each points back to
  heap,        \* the objects that hold the state of the document
  snap,        \* the snapshot: its log, its object, whether heads are heard
  jobs,        \* what is being applied
  refused      \* records that were refused for their signature

vars == <<doctype, version, prev, heap, snap, jobs, refused>>

\* Anchored, which is known by the leaf, or not (yet)
AnchorState == Leaves \cup {None}

\* The contents, each known by the record that set it, and the stage that an
\* agreement has come to with what is canonical.
Data == [current : Updates \cup {None}, freight : Updates \cup {Genesis},
         anchor : AnchorState, stage : {"draft", "agreement"}]

Fresh == [current |-> None, freight |-> Genesis, anchor |-> None, stage |-> "draft"]
Unloaded == [log |-> <<>>, ref |-> 1, live |-> FALSE]
Idle == [kind |-> "idle", rest |-> <<>>, log |-> <<>>, ref |-> 1,
         at |-> "check", doomed |-> FALSE]

Init ==
  /\ doctype \in {"tile", "agreement", "ruleset"}
  /\ version = 1
  /\ prev = [r \in Records |-> None]
  /\ heap = [o \in Refs |-> Fresh]
  /\ snap = Unloaded
  /\ jobs = [j \in Jobs |-> Idle]
  /\ refused = {}

-----------------------------------------------------------------------------
\* canonical: what is not anchored yet, or else what is
Canonical(data) == IF data.current # None THEN data.current ELSE data.freight

\* mistake: what was anchored before stays the freight
AnchorOnly(data, leaf) == [data EXCEPT !.current = None, !.anchor = leaf]

\* An anchor makes the current content the freight.
Anchored(data, leaf) ==
  [data EXCEPT !.current = None, !.freight = Canonical(data), !.anchor = leaf]

Patched(data, u) == [data EXCEPT !.current = u]

\* The next content of an agreement, with the stage it has come to.
Staged(data, u, fits) == [data EXCEPT !.current = u, !.stage = Applied(u, fits).stage]

NumOf(content) == IF content = Genesis THEN Knead.num ELSE Content[content].num

ViewOf(data) == [num |-> NumOf(Canonical(data)), stage |-> data.stage]

-----------------------------------------------------------------------------
(***************************************************************************)
(* Records.  One comes as JSON, in the body of a call; whoever wrote it,   *)
(* it is stored before anybody looks at it.                                *)
(***************************************************************************)
LinkTo(r) == IF r = None THEN NoLink ELSE Link("object", r)

\* A payload is there, whatever it says.
ASSUME PayloadIsThere ==
  \A r \in Records : \A p, i \in Records \cup {None} :
    [patch |-> r, prev |-> LinkTo(p), id |-> LinkTo(i)] # None

Payload(r) ==
  [patch |-> r, prev |-> LinkTo(prev[r]),
   id |-> LinkTo(IF r = Genesis THEN None ELSE Genesis)]

\* A link to a record that is none of the document's.
Elsewhere == Link("object", None)

\* What was signed where part of the record is not what was: another patch, or a
\* place after another record, or in another document.
Sealed(r) ==
  LET altered == IF r \in DOMAIN Tampered THEN Tampered[r] ELSE "nothing"
  IN  [patch |-> IF altered = "patch" THEN None ELSE Payload(r).patch,
       prev |-> IF altered = "prev" THEN Elsewhere ELSE Payload(r).prev,
       id |-> IF altered = "id" THEN Elsewhere ELSE Payload(r).id]

\* Signed by the holder of a key, or by the wallet, whose answer Context.sign
\* puts together in the same form; then changed, perhaps, on the way here.
Received(r) ==
  LET record == CreateEnveloped(Signers[r], Sealed(r))
      payload == Payload(r)
  IN  [record EXCEPT !.patch = payload.patch, !.prev = payload.prev, !.id = payload.id]

\* The DID resolver of a node: did:key documents are made up from the key.
Resolve(signature, v) ==
  IF signature.header.kid.did.method = "key"
  THEN KeyDocument(signature.header.kid.did.id)
  ELSE Versions[v]

Asserted(r) ==
  LET record == Normalized(Received(r))
  IN  AssertSignature(record, Resolve(record.signature, version))

Stored(r) == r = Genesis \/ prev[r] # None

\* This process or another stores an update, which names any record; or the
\* anchoring service a leaf.
Write(r, p) ==
  /\ r # Genesis /\ prev[r] = None
  /\ Cardinality({q \in Records : prev[q] # None}) < MaxRecords
  /\ Stored(p)
  /\ prev' = [prev EXCEPT ![r] = p]
  /\ UNCHANGED <<doctype, version, heap, snap, jobs, refused>>

\* The owner of the 3ID changes its keys.
Rotate ==
  /\ version < Len(Versions)
  /\ version' = version + 1
  /\ UNCHANGED <<doctype, prev, heap, snap, jobs, refused>>

-----------------------------------------------------------------------------
Held == {snap.ref} \cup {jobs[j].ref : j \in {k \in Jobs : jobs[k].kind # "idle"}}

\* An object that no one refers to.
Unused == CHOOSE o \in Refs : o \notin Held

\* knead of a tile checks who signed the first record, an agreement does not.
Kneads == doctype = "tile" => Asserted(Genesis)

Load ==
  /\ snap = Unloaded /\ \A j \in Jobs : jobs[j] = Idle
  /\ IF Kneads
     THEN /\ snap' = [log |-> <<Genesis>>, ref |-> 1, live |-> TRUE]
          /\ heap' = [heap EXCEPT ![1] = Fresh]
          /\ UNCHANGED refused
     ELSE /\ refused' = refused \cup {Genesis}
          /\ UNCHANGED <<snap, heap>>
  /\ UNCHANGED <<doctype, version, prev, jobs>>

Begin(j, kind, rest, doomed) ==
  /\ jobs[j] = Idle /\ snap # Unloaded
  /\ jobs' = [jobs EXCEPT ![j] = [Idle EXCEPT !.kind = kind, !.rest = rest,
                !.doomed = doomed, !.log = snap.log, !.ref = snap.ref]]
  /\ UNCHANGED <<doctype, version, prev, heap, snap, refused>>

\* applyUpdate: an update that does not continue the log is refused at once.
TakeUpdate(j, u) ==
  /\ snap # Unloaded /\ u \in Updates
  /\ prev[u] = Last(snap.log)
  /\ Begin(j, "update", <<u>>, FALSE)

InLog(r) == \E i \in DOMAIN snap.log : snap.log[i] = r
PlaceOf(r) == CHOOSE i \in DOMAIN snap.log : snap.log[i] = r

\* The records from the log's to the head r.
tail(r) ==
  LET back[n \in Nat] ==
        IF n = 0 THEN <<r>> ELSE <<prev[Head(back[n - 1])]>> \o back[n - 1]
      Meets(n) == InLog(prev[Head(back[n])])
  IN  back[CHOOSE n \in 0 .. Cardinality(Records) :
             Meets(n) /\ \A k \in 0 .. (n - 1) : ~Meets(k)]

\* applyHead: the records of a head that continues the log are applied to the
\* snapshot; of a head that forks from it, the local ones after the fork are
\* applied once more, to the present object, before it turns out that the first
\* record can not be applied.
TakeHead(j, r) ==
  /\ snap.live
  /\ Stored(r) /\ ~InLog(r)
  /\ LET fork == PlaceOf(prev[Head(tail(r))])
     IN  IF fork = Len(snap.log) THEN Begin(j, "head", tail(r), FALSE)
         ELSE Begin(j, "head", SubSeq(snap.log, fork + 1, Len(snap.log)), TRUE)

-----------------------------------------------------------------------------
(***************************************************************************)
(* Applying the records of a job, one after the other.                     *)
(***************************************************************************)
Ends(j) == jobs' = [jobs EXCEPT ![j] = Idle]

\* A head that throws ends the subscription to heads and anchors.
Throws(j) ==
  /\ Ends(j)
  /\ snap' = IF jobs[j].kind = "head" THEN [snap EXCEPT !.live = FALSE] ELSE snap

Applying(j) == jobs[j].rest # <<>>
NextRecord(j) == Head(jobs[j].rest)

\* Job j has applied its next record, and its state is now in object o.
Advance(j, o) ==
  jobs' = [jobs EXCEPT ![j].rest = Tail(@), ![j].log = Append(@, NextRecord(j)),
                       ![j].ref = o, ![j].at = "check"]

\* TileHandler.apply and Ruleset.canApply have the signature checked first.  A
\* tile is patched at once; the ruleset looks at the stage and goes on to check
\* the signatures of the two parties.
CheckUpdate(j) ==
  /\ Applying(j) /\ NextRecord(j) \in Updates /\ jobs[j].at = "check"
  /\ doctype # "ruleset"
  /\ LET u == NextRecord(j)
         data == heap[jobs[j].ref]
     IN  CASE ~Asserted(u) ->
                /\ refused' = refused \cup {u}
                /\ Throws(j) /\ UNCHANGED heap
           [] Asserted(u) /\ doctype = "tile" ->
                /\ heap' = [heap EXCEPT ![Unused] = Patched(data, u)]
                /\ Advance(j, Unused) /\ UNCHANGED <<snap, refused>>
           [] Asserted(u) /\ doctype = "agreement" ->
                /\ IF data.stage = "agreement" THEN Throws(j)
                   ELSE jobs' = [jobs EXCEPT ![j].at = "build"] /\ UNCHANGED snap
                /\ UNCHANGED <<heap, refused>>
  /\ UNCHANGED <<doctype, version, prev>>

\* canApply, after the signatures of the parties, each found to fit or not: a new
\* object, with what the given one holds by now.  That has the content it had
\* (anchors move it, but no one changes it), and so the number and the stage.
BuildUpdate(j) ==
  /\ Applying(j) /\ jobs[j].at = "build"
  /\ LET u == NextRecord(j)
         data == heap[jobs[j].ref]
     IN  \E fits \in Checks(u) :
           \/ /\ CanApply(ViewOf(data), u, fits)
              /\ heap' = [heap EXCEPT ![Unused] = Staged(data, u, fits)]
              /\ Advance(j, Unused)
              /\ UNCHANGED snap
           \/ /\ ~CanApply(ViewOf(data), u, fits)
              /\ Throws(j)
              /\ UNCHANGED heap
  /\ UNCHANGED <<doctype, version, prev, refused>>

\* apply, once the proof of the leaf is verified: the tile's state is produced
\* anew, the agreement's object is written to, whoever else refers to it.
ApplyAnchor(j) ==
  /\ Applying(j) /\ NextRecord(j) \in Leaves /\ doctype # "ruleset"
  /\ LET o == IF doctype = "tile" THEN Unused ELSE jobs[j].ref
     IN  /\ heap' = [heap EXCEPT ![o] = Anchored(heap[jobs[j].ref], NextRecord(j))]
         /\ Advance(j, o)
  /\ UNCHANGED <<doctype, version, prev, snap, refused>>

\* The snapshot of the job replaces the present one, unless no one listens any
\* more to what a head leads to.
Finish(j) ==
  /\ jobs[j].kind # "idle" /\ ~Applying(j) /\ ~jobs[j].doomed
  /\ Ends(j)
  /\ snap' = IF jobs[j].kind = "update" \/ snap.live
             THEN [snap EXCEPT !.log = jobs[j].log, !.ref = jobs[j].ref] ELSE snap
  /\ UNCHANGED <<doctype, version, prev, heap, refused>>

\* The merge comes to the first record; a ruleset document, which never changes,
\* is to be applied to; or IPFS, the resolver or the verification of a leaf
\* fails at any point.
JobFails(j) ==
  /\ jobs[j].kind # "idle"
  /\ Throws(j)
  /\ UNCHANGED <<doctype, version, prev, heap, refused>>

Restart ==
  /\ snap # Unloaded
  /\ snap' = Unloaded /\ jobs' = [j \in Jobs |-> Idle]
  /\ UNCHANGED <<doctype, version, prev, heap, refused>>

JobStep(j) ==
  CheckUpdate(j) \/ BuildUpdate(j) \/ ApplyAnchor(j) \/ Finish(j) \/ JobFails(j)

Next ==
  \/ \E r, p \in Records : Write(r, p)
  \/ Rotate \/ Load \/ Restart
  \/ \E j \in Jobs : JobStep(j) \/ \E r \in Records : TakeUpdate(j, r) \/ TakeHead(j, r)

Spec == Init /\ [][Next]_vars

-----------------------------------------------------------------------------
\* A key that was listed for authentication, under the DID that the signature
\* names, in one of these documents
ListedIn(documents, signature) ==
  \E d \in documents : \E entry \in d.publicKey :
    entry.key = SignedBy(signature) /\ entry.id \in d.authentication

\* Every version of the signer's DID document so far
DocumentsOf(signature) == {Resolve(signature, v) : v \in 1 .. version}

Genuine(r) == r \notin DOMAIN Tampered

\* What has got into the document was signed as it is, by a key that was listed
\* for authentication at some time: not by any other key of the DID, and not
\* where the patch, or the place in the log that the record names, was changed
\* afterwards.
AcceptedIsSigned ==
  \A i \in DOMAIN snap.log : snap.log[i] \in Updates =>
    LET s == Received(snap.log[i]).signature
    IN  Genuine(snap.log[i]) /\ ListedIn(DocumentsOf(s), s)

\* A record is refused for its signature only where it was tampered with or its
\* key was, at some time since, not listed: whichever of its forms the kid has,
\* and though links are objects in JSON and CIDs in IPFS.
RefusedIsNotListed ==
  \A r \in refused : Genuine(r) =>
    LET s == Received(r).signature
    IN  \E d \in DocumentsOf(s) : ~ListedIn({d}, s)

LastUpdate(log) == log[Max({i \in DOMAIN log : log[i] \notin Leaves})]

Replay(data, r) ==
  CASE r = Genesis    -> Fresh
    [] r \in Leaves  -> Anchored(data, r)
    [] r \in Updates -> Patched(data, r)

Replayed(log) == FoldLeft(Replay, Fresh, log)

\* The state of the document is what its log leads to.  Of an agreement, whose
\* object other jobs may have written to, this is so of the content and of
\* whether it was anchored; of what was anchored it is not so.
ViewFitsLog ==
  snap # Unloaded =>
    LET data == heap[snap.ref]
    IN  /\ Canonical(data) = LastUpdate(snap.log)
        /\ doctype = "tile" => data = Replayed(snap.log)
        /\ (\E i \in DOMAIN snap.log : snap.log[i] \in Leaves) => data.anchor # None
=============================================================================
