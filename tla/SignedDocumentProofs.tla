------------------------ MODULE SignedDocumentProofs ------------------------
(***************************************************************************)
(* Proofs about SignedDocument, for any signers, keys, DID documents,      *)
(* tampered records and any number of jobs at a time: that the records in  *)
(* a document's log are signed, that no record is refused whose signer's   *)
(* key was listed all along, and that the object that a document is kept   *)
(* in says what its log leads to, whatever other jobs write to it.         *)
(***************************************************************************)
EXTENDS SignedDocument, FiniteSetTheorems, SequenceTheorems, TLAPS

\* The signature that a record comes with.
LEMMA SignatureOf ==
  ASSUME NEW r
  PROVE  LET s == Received(r).signature
         IN  /\ Received(r).patch = r
             /\ s.header = Signers[r].header
             /\ s.signature = <<Signers[r].key, <<Signers[r].header, Encoded(Sealed(r))>>>>
             /\ DOMAIN s = {"header", "payload", "signature"}
             /\ Received(r).prev = Payload(r).prev /\ Received(r).id = Payload(r).id
             /\ DOMAIN Received(r) = {"patch", "prev", "id", "signature"}
             /\ Normalized(Received(r)).signature = s
<1>. DEFINE made == Create(Signers[r], Sealed(r))
            s == AsDetached(made)
            p == LinkTo(prev[r])
            i == LinkTo(IF r = Genesis THEN None ELSE Genesis)
            record == CreateEnveloped(Signers[r], Sealed(r))
<1>1. /\ s.header = Signers[r].header
      /\ s.signature = <<Signers[r].key, <<Signers[r].header, Encoded(Sealed(r))>>>>
      /\ DOMAIN s = {"header", "payload", "signature"}
  BY DEF AsDetached, Create, JWSDecoded, SignBytes, SigningInput
<1>2. Payload(r) = [patch |-> r, prev |-> p, id |-> i]
  BY DEF Payload
<1>3. record = [patch |-> Sealed(r).patch, prev |-> Sealed(r).prev, id |-> Sealed(r).id,
                signature |-> s]
  BY DEF CreateEnveloped
<1>. HIDE DEF record, s, p, i
<1>4. Received(r) = [record EXCEPT !.patch = r, !.prev = p, !.id = i]
  BY <1>2 DEF Received, record
<1>5. Received(r) = [patch |-> r, prev |-> p, id |-> i, signature |-> s]
  BY <1>3, <1>4
<1>6. Normalized(Received(r)).signature = s
  BY <1>5 DEF Normalized, Relinked
<1>. QED BY <1>1, <1>2, <1>5, <1>6 DEF s

\* The links of a record come back in the form they were signed in: JSON has
\* them as objects, normalizeRecord makes CIDs of them, whose text is signed.
LEMMA LinksComeBack ==
  ASSUME NEW p
  PROVE  /\ AsObject(LinkTo(p)) = LinkTo(p)
         /\ AsObject(AsText(AsCid(LinkTo(p)))) = LinkTo(p)
BY DEF LinkTo, AsObject, AsText, AsCid, Link, NoLink

LEMMA EncodedAs ==
  ASSUME NEW r, NEW p, NEW i
  PROVE  Encoded([patch |-> r, prev |-> p, id |-> i])
           = [patch |-> r, prev |-> AsObject(p), id |-> AsObject(i)]
<1>. DEFINE record == [patch |-> r, prev |-> p, id |-> i]
            before == AsObject(p)
            root == AsObject(i)
<1>1. Encoded(record) = [record EXCEPT !.prev = before, !.id = root]
  BY DEF Encoded, Relinked
<1>. HIDE DEF before, root
<1>2. Encoded(record) = [patch |-> r, prev |-> before, id |-> root]
  BY <1>1
<1>. QED BY <1>2 DEF before, root

\* What a record's signature is checked against is the record as it came, and that
\* is what was signed if no part of it is another.
LEMMA CheckedAsReceived ==
  ASSUME NEW r
  PROVE  LET record == Normalized(Received(r))
             payload == [patch |-> record.patch, prev |-> AsText(record.prev),
                         id |-> AsText(record.id)]
         IN  Encoded(payload) = Payload(r)
<1>. DEFINE root == LinkTo(IF r = Genesis THEN None ELSE Genesis)
            received == Received(r)
            record == Normalized(received)
            payload == [patch |-> record.patch, prev |-> AsText(record.prev),
                        id |-> AsText(record.id)]
<1>1. Payload(r) = [patch |-> r, prev |-> LinkTo(prev[r]), id |-> root]
  BY DEF Payload
<1>4. /\ received.patch = r /\ received.prev = LinkTo(prev[r]) /\ received.id = root
      /\ DOMAIN received = {"patch", "prev", "id", "signature"}
  BY <1>1, SignatureOf
<1>. HIDE DEF received, root
<1>5. record.patch = r /\ record.prev = AsCid(LinkTo(prev[r])) /\ record.id = AsCid(root)
  BY <1>4 DEF Normalized, Relinked
<1>. HIDE DEF record
<1>6. payload = [patch |-> r, prev |-> AsText(AsCid(LinkTo(prev[r]))), id |-> AsText(AsCid(root))]
  BY <1>5
<1>7. AsObject(AsText(AsCid(root))) = root
  BY LinksComeBack DEF root
<1>8. Encoded(payload) = Payload(r)
  <2>1. AsObject(AsText(AsCid(LinkTo(prev[r])))) = LinkTo(prev[r])
    BY LinksComeBack
  <2>. HIDE DEF payload
  <2>. QED BY <1>1, <1>6, <1>7, <2>1, EncodedAs
<1>. QED BY <1>8 DEF record, received

\* What was signed is what the record says exactly if the record is genuine.
LEMMA SealedAsPayload ==
  ASSUME NEW r \in Records, prev[r] \in Records \cup {None}
  PROVE  Encoded(Sealed(r)) = Payload(r) <=> Genuine(r)
<1>. DEFINE root == IF r = Genesis THEN None ELSE Genesis
            altered == IF r \in DOMAIN Tampered THEN Tampered[r] ELSE "nothing"
            patch == IF altered = "patch" THEN None ELSE r
            before == IF altered = "prev" THEN Elsewhere ELSE LinkTo(prev[r])
            first == IF altered = "id" THEN Elsewhere ELSE LinkTo(root)
<1>1. Payload(r) = [patch |-> r, prev |-> LinkTo(prev[r]), id |-> LinkTo(root)]
  BY DEF Payload
<1>2. AsObject(before) = before /\ AsObject(first) = first
  BY DEF LinkTo, Elsewhere, AsObject, Link, NoLink
<1>3. Elsewhere # LinkTo(prev[r]) /\ Elsewhere # LinkTo(root)
  BY SignedConstants DEF Elsewhere, LinkTo, Link, NoLink, Records
<1>. HIDE DEF root
<1>4. Sealed(r) = [patch |-> patch, prev |-> before, id |-> first]
  BY <1>1 DEF Sealed
<1>5. altered \in {"patch", "prev", "id"} <=> ~Genuine(r)
  BY SignedConstants DEF Genuine
<1>6. altered \in {"patch", "prev", "id", "nothing"}
  BY SignedConstants
<1>. HIDE DEF altered
<1>7. ~Genuine(r) <=> patch # r \/ before # LinkTo(prev[r]) \/ first # LinkTo(root)
  BY <1>3, <1>5, <1>6, SignedConstants
<1>. HIDE DEF patch, before, first
<1>8. Encoded(Sealed(r)) = [patch |-> patch, prev |-> before, id |-> first]
  BY <1>2, <1>4, EncodedAs
<1>9. Encoded(Sealed(r)) = Payload(r)
        <=> patch = r /\ before = LinkTo(prev[r]) /\ first = LinkTo(root)
  BY <1>1, <1>8
<1>. QED BY <1>7, <1>9

\* Whom the DID of a record's signer stood for, up to a version: what a record
\* needs to be accepted, said of its signer alone.
DocumentFor(u, v) ==
  LET header == Signers[u].header
  IN  IF header.kid.did.method = "key" THEN KeyDocument(header.kid.did.id)
      ELSE Versions[v]

Authentic(u, n) ==
  /\ Genuine(u)
  /\ \E v \in 1 .. n : \E entry \in DocumentFor(u, v).publicKey :
       entry.key = Signers[u].key /\ entry.id \in DocumentFor(u, v).authentication

\* A record that passes assertSignature is authentic (assert-signature.ts).
LEMMA AssertedIsAuthentic ==
  ASSUME NEW r \in Updates, version \in Nat \ {0}, prev[r] \in Records \cup {None},
         Asserted(r)
  PROVE  Authentic(r, version)
<1>. DEFINE s == Received(r).signature
            document == Resolve(s, version)
            record == Normalized(Received(r))
            payload == [patch |-> record.patch, prev |-> AsText(record.prev),
                        id |-> AsText(record.id)]
            jws == AsAttached(payload, s)
<1>1. /\ s.header = Signers[r].header
      /\ s.signature = <<Signers[r].key, <<Signers[r].header, Encoded(Sealed(r))>>>>
      /\ DOMAIN s = {"header", "payload", "signature"}
      /\ record.signature = s
  BY SignatureOf
<1>2. Encoded(payload) = Payload(r)
  BY CheckedAsReceived
<1>3. Verify(jws, document)
  BY <1>1 DEF Asserted, AssertSignature
<1>4. document = DocumentFor(r, version)
  BY <1>1 DEF Resolve, DocumentFor
<1>. HIDE DEF payload, record, s, document
<1>5. jws.header = s.header /\ jws.signature = s.signature /\ jws.payload = Encoded(payload)
  BY <1>1 DEF AsAttached
<1>. HIDE DEF jws
<1>6. PICK key \in ExtractPublicKeys(document, s.header.kid, s.header.alg) :
        s.signature = <<key, <<s.header, Encoded(payload)>>>>
  BY <1>3, <1>5 DEF Verify, VerifyBytes, SignBytes, VerificationInput
<1>7. key = Signers[r].key /\ Encoded(payload) = Encoded(Sealed(r))
  BY <1>1, <1>6
<1>8. Genuine(r)
  BY <1>2, <1>7, SealedAsPayload DEF Records
<1>9. \E entry \in document.publicKey :
        entry.key = Signers[r].key /\ entry.id \in document.authentication
  BY <1>6, <1>7 DEF ExtractPublicKeys, Selected, IsRelationProper
<1>. QED BY <1>4, <1>8, <1>9 DEF Authentic

\* The property says the same of the signature that the record came with.
LEMMA AuthenticIsListed ==
  ASSUME NEW r \in Updates, NEW n, n = version, Authentic(r, n)
  PROVE  LET s == Received(r).signature
         IN  Genuine(r) /\ ListedIn(DocumentsOf(s), s)
<1>. DEFINE s == Received(r).signature
<1>1. s.header = Signers[r].header /\ SignedBy(s) = Signers[r].key
  BY SignatureOf DEF SignedBy
<1>2. \A v : Resolve(s, v) = DocumentFor(r, v)
  BY <1>1 DEF Resolve, DocumentFor
<1>. HIDE DEF s
<1>. SUFFICES ListedIn(DocumentsOf(s), s)
  BY DEF s, Authentic
<1>. QED BY <1>1, <1>2 DEF Authentic, ListedIn, DocumentsOf

-----------------------------------------------------------------------------
(* The logs, of the document and of every job.                             *)

LogOK(log) ==
  /\ log \in Seq(Records)
  /\ \A i \in 1 .. Len(log) : log[i] \in Updates => Authentic(log[i], version)

\* A job that is about to build the next state, of an agreement, has checked the
\* record.
JobOK(job) ==
  /\ DOMAIN job = {"kind", "rest", "log", "ref", "at", "doomed"}
  /\ LogOK(job.log)
  /\ job.at = "build" => /\ doctype = "agreement"
                         /\ Head(job.rest) \in Updates /\ Authentic(Head(job.rest), version)

SignedInv ==
  /\ version \in Nat \ {0} /\ doctype \in {"tile", "agreement", "ruleset"}
  /\ prev \in [Records -> Records \cup {None}]
  /\ DOMAIN snap = {"log", "ref", "live"} /\ LogOK(snap.log)
  /\ DOMAIN jobs = Jobs /\ \A j \in Jobs : JobOK(jobs[j])

LEMMA AppendOK ==
  ASSUME NEW log, LogOK(log), NEW r \in Records, r \in Updates => Authentic(r, version)
  PROVE  LogOK(Append(log, r))
BY DEF LogOK

LEMMA IdleOK == JobOK(Idle)
BY DEF JobOK, Idle, LogOK

LEMMA VersionGrows ==
  ASSUME version \in Nat, version' \in {version, version + 1}, UNCHANGED doctype
  PROVE  /\ \A log : LogOK(log) => LogOK(log)'
         /\ \A job : JobOK(job) => JobOK(job)'
<1>1. \A r : Authentic(r, version) => Authentic(r, version')
  BY DEF Authentic
<1>2. \A log : LogOK(log) => LogOK(log)'
  BY <1>1 DEF LogOK
<1>. QED BY <1>1, <1>2 DEF JobOK

\* A job that ends or fails, and what that does to the snapshot.
LEMMA ThrowsOK ==
  ASSUME SignedInv, NEW j \in Jobs, Throws(j), UNCHANGED <<doctype, version, prev>>
  PROVE  SignedInv'
<1>1. /\ DOMAIN snap' = {"log", "ref", "live"} /\ snap'.log = snap.log
      /\ DOMAIN jobs' = Jobs /\ \A k \in Jobs : jobs'[k] \in {jobs[k], Idle}
  BY DEF Throws, Ends, SignedInv
<1>2. LogOK(snap'.log) /\ \A k \in Jobs : JobOK(jobs'[k])
  BY <1>1, IdleOK DEF SignedInv
<1>. QED BY <1>1, <1>2, VersionGrows DEF SignedInv

LEMMA AdvanceOK ==
  ASSUME SignedInv, NEW j \in Jobs, NEW o, Advance(j, o),
         UNCHANGED <<doctype, version, prev, snap>>, NextRecord(j) \in Records,
         NextRecord(j) \in Updates => Authentic(NextRecord(j), version)
  PROVE  SignedInv'
<1>1. /\ DOMAIN jobs' = Jobs /\ \A k \in Jobs \ {j} : jobs'[k] = jobs[k]
      /\ jobs'[j].log = Append(jobs[j].log, NextRecord(j)) /\ jobs'[j].at = "check"
      /\ DOMAIN jobs'[j] = {"kind", "rest", "log", "ref", "at", "doomed"}
  BY DEF Advance, SignedInv, JobOK
<1>2. LogOK(jobs'[j].log)
  BY <1>1, AppendOK DEF SignedInv, JobOK
<1>3. JobOK(jobs'[j])
  BY <1>1, <1>2 DEF JobOK
<1>. QED BY <1>1, <1>3, VersionGrows DEF SignedInv

LEMMA SignedStep ==
  ASSUME SignedInv, [Next]_vars
  PROVE  SignedInv'
<1>. USE DEF SignedInv
<1>1. CASE UNCHANGED <<doctype, version, prev, snap, jobs>>
  BY <1>1, VersionGrows
<1>2. ASSUME NEW r \in Records, NEW p \in Records, Write(r, p)
      PROVE  SignedInv'
  BY <1>2, VersionGrows DEF Write
<1>3. CASE Rotate
  BY <1>3, VersionGrows DEF Rotate
<1>4. CASE Load
  <2>1. CASE Kneads
    <3>1. LogOK(<<Genesis>>)
      BY SignedConstants DEF LogOK, Records
    <3>. QED BY <1>4, <2>1, <3>1, VersionGrows DEF Load
  <2>. QED BY <1>4, <2>1, <1>1 DEF Load
<1>5. ASSUME NEW j \in Jobs, NEW kind, NEW rest, NEW doomed, Begin(j, kind, rest, doomed)
      PROVE  SignedInv'
  <2>1. /\ DOMAIN jobs' = Jobs /\ \A k \in Jobs \ {j} : jobs'[k] = jobs[k]
        /\ jobs'[j].log = snap.log /\ jobs'[j].at = "check"
        /\ DOMAIN jobs'[j] = {"kind", "rest", "log", "ref", "at", "doomed"}
    BY <1>5 DEF Begin, Idle
  <2>2. UNCHANGED <<doctype, version, prev, snap>>
    BY <1>5 DEF Begin
  <2>3. JobOK(jobs'[j])
    BY <2>1 DEF JobOK
  <2>. QED BY <2>1, <2>2, <2>3, VersionGrows
<1>6. ASSUME NEW j \in Jobs, NEW r \in Records, TakeUpdate(j, r) \/ TakeHead(j, r)
      PROVE  SignedInv'
  <2>1. \E kind, rest, doomed : Begin(j, kind, rest, doomed)
    <3>1. CASE TakeUpdate(j, r)
      BY <3>1 DEF TakeUpdate
    <3>2. CASE TakeHead(j, r)
      BY <3>2 DEF TakeHead
    <3>. QED BY <1>6, <3>1, <3>2
  <2>. QED BY <1>5, <2>1
<1>7. ASSUME NEW j \in Jobs, CheckUpdate(j)
      PROVE  SignedInv'
  <2>. DEFINE u == NextRecord(j)
  <2>1. u \in Updates /\ u \in Records /\ UNCHANGED <<doctype, version, prev>>
    BY <1>7 DEF CheckUpdate, Records
  <2>2. CASE Throws(j)
    BY <2>1, <2>2, ThrowsOK
  <2>3. Asserted(u) => Authentic(u, version)
    BY <2>1, AssertedIsAuthentic, SignedConstants
  <2>4. CASE Asserted(u) /\ snap' = snap /\ \E o : Advance(j, o)
    BY <2>1, <2>3, <2>4, AdvanceOK
  <2>5. CASE /\ Asserted(u) /\ snap' = snap /\ doctype = "agreement"
             /\ jobs' = [jobs EXCEPT ![j].at = "build"]
    <3>1. /\ DOMAIN jobs' = Jobs /\ \A k \in Jobs \ {j} : jobs'[k] = jobs[k]
          /\ jobs'[j].log = jobs[j].log /\ jobs'[j].rest = jobs[j].rest
          /\ DOMAIN jobs'[j] = {"kind", "rest", "log", "ref", "at", "doomed"}
      BY <2>5 DEF JobOK
    <3>2. JobOK(jobs'[j])
      BY <2>1, <2>3, <2>5, <3>1 DEF JobOK, NextRecord
    <3>. QED BY <2>1, <2>5, <3>1, <3>2, VersionGrows
  <2>. QED BY <1>7, <2>2, <2>4, <2>5 DEF CheckUpdate
<1>8. ASSUME NEW j \in Jobs, BuildUpdate(j)
      PROVE  SignedInv'
  <2>1. NextRecord(j) \in Updates /\ Authentic(NextRecord(j), version)
    BY <1>8 DEF BuildUpdate, JobOK, NextRecord
  <2>2. CASE Throws(j)
    BY <1>8, <2>2, ThrowsOK DEF BuildUpdate
  <2>3. CASE Advance(j, Unused) /\ UNCHANGED snap
    BY <1>8, <2>1, <2>3, AdvanceOK DEF BuildUpdate, Records
  <2>. QED BY <1>8, <2>2, <2>3 DEF BuildUpdate
<1>9. ASSUME NEW j \in Jobs, ApplyAnchor(j)
      PROVE  SignedInv'
  <2>1. NextRecord(j) \in Leaves /\ NextRecord(j) \in Records /\ NextRecord(j) \notin Updates
    BY <1>9, SignedConstants DEF ApplyAnchor, Records
  <2>. QED BY <1>9, <2>1, AdvanceOK DEF ApplyAnchor
<1>10. ASSUME NEW j \in Jobs, Finish(j)
       PROVE  SignedInv'
  <2>1. /\ UNCHANGED <<doctype, version, prev>> /\ DOMAIN snap' = {"log", "ref", "live"}
        /\ snap'.log \in {snap.log, jobs[j].log}
        /\ DOMAIN jobs' = Jobs /\ \A k \in Jobs : jobs'[k] \in {jobs[k], Idle}
    BY <1>10 DEF Finish, Ends
  <2>2. LogOK(snap'.log) /\ \A k \in Jobs : JobOK(jobs'[k])
    BY <2>1, IdleOK DEF JobOK
  <2>. QED BY <2>1, <2>2, VersionGrows
<1>11. ASSUME NEW j \in Jobs, JobFails(j)
       PROVE  SignedInv'
  BY <1>11, ThrowsOK DEF JobFails
<1>12. CASE Restart
  <2>1. LogOK(<< >>)
    BY DEF LogOK
  <2>. QED BY <1>12, <2>1, IdleOK, VersionGrows DEF Restart, Unloaded
<1>. QED BY <1>1, <1>2, <1>3, <1>4, <1>6, <1>7, <1>8, <1>9, <1>10, <1>11, <1>12
     DEF Next, JobStep, vars

\* Every update in the log of a document was signed as it is by a key that was
\* listed for authentication in a DID document of its signer, whoever signs, however
\* keys change and jobs overlap, fork or fail (TileHandler.apply, Ruleset.canApply).
THEOREM AcceptedRecordsAreSigned == Spec => []AcceptedIsSigned
<1>1. Init => SignedInv
  <2>. SUFFICES ASSUME Init PROVE SignedInv
    OBVIOUS
  <2>1. LogOK(<< >>)
    BY DEF LogOK
  <2>. QED BY <2>1, IdleOK DEF Init, SignedInv, Unloaded
<1>2. SignedInv => AcceptedIsSigned
  <2>. SUFFICES ASSUME SignedInv, NEW i \in DOMAIN snap.log, snap.log[i] \in Updates
                PROVE  LET s == Received(snap.log[i]).signature
                       IN  Genuine(snap.log[i]) /\ ListedIn(DocumentsOf(s), s)
    BY DEF AcceptedIsSigned
  <2>1. Authentic(snap.log[i], version)
    BY DEF SignedInv, LogOK
  <2>. QED BY <2>1, AuthenticIsListed
<1>. QED BY <1>1, <1>2, SignedStep, PTL DEF Spec
-----------------------------------------------------------------------------
(* The other way round: what is signed so is accepted.                     *)

\* A key that is listed for authentication is selected by the kid of whoever
\* signs with it, and is of the kind that the header says (extractPublicKeys).
LEMMA ListedIsSelected ==
  ASSUME NEW r \in DOMAIN Signers, NEW v \in 1 .. Len(Versions),
         NEW entry \in DocumentFor(r, v).publicKey,
         entry.id \in DocumentFor(r, v).authentication
  PROVE  /\ IsKeyUnderstood(entry)
         /\ entry.key = Signers[r].key =>
              /\ AlgOf(entry) = Signers[r].header.alg
              /\ IsKidProper(Signers[r].header.kid, entry)
<1>. DEFINE signer == Signers[r]
            kid == signer.header.kid
            alg == signer.header.alg
<1>1. alg \in {"ES256K", "EdDSA"}
  BY SignersSign
<1>2. CASE signer = KeySigner(signer.key, alg)
  <2>. DEFINE print == Fingerprint(signer.key, alg)
  <2>1. kid = KeyId(print)
    BY <1>2 DEF KeySigner
  <2>2. kid.did.method = "key" /\ kid.did.id = print
    BY <2>1 DEF KeyId, DidUrl, Identifier, Did
  <2>3. DocumentFor(r, v) = KeyDocument(print)
    BY <2>2 DEF DocumentFor
  <2>5. print[1] = alg /\ print[2] = signer.key
    BY DEF Fingerprint
  <2>. HIDE DEF print
  <2>4. entry = [id |-> kid, key |-> signer.key,
                 type |-> IF alg = "ES256K" THEN "Secp256k1VerificationKey2018"
                          ELSE "Ed25519VerificationKey2018"]
    BY <2>1, <2>3, <2>5 DEF KeyDocument
  <2>6. IsKeyUnderstood(entry) /\ AlgOf(entry) = alg
    BY <1>1, <2>4 DEF IsKeyUnderstood, AlgOf, Secp256k1, Ed25519
  <2>. QED BY <2>4, <2>6 DEF IsKidProper
<1>3. CASE /\ kid.did.method # "key"
           /\ \A w \in 1 .. Len(Versions) : \A e \in Versions[w].publicKey :
                e.id \in Versions[w].authentication =>
                  /\ IsKeyUnderstood(e)
                  /\ e.key = signer.key =>
                       /\ AlgOf(e) = alg
                       /\ \/ kid.fragment = None \/ kid = e.id
                          \/ /\ kid.query # None /\ e.id.fragment # None
                             /\ e.id = DidUrl(kid.did, None, e.id.fragment)
  <2>1. DocumentFor(r, v) = Versions[v]
    BY <1>3 DEF DocumentFor
  <2>2. IsKeyUnderstood(entry)
    BY <1>3, <2>1
  <2>3. ASSUME entry.key = signer.key
        PROVE  AlgOf(entry) = alg /\ IsKidProper(kid, entry)
    <3>1. /\ AlgOf(entry) = alg
          /\ \/ kid.fragment = None \/ kid = entry.id
             \/ /\ kid.query # None /\ entry.id.fragment # None
                /\ entry.id = DidUrl(kid.did, None, entry.id.fragment)
      BY <1>3, <2>1, <2>3
    <3>2. CASE /\ kid.query # None /\ entry.id.fragment # None
               /\ entry.id = DidUrl(kid.did, None, entry.id.fragment)
      <4>1. entry.id.did = kid.did /\ entry.id.query = None
        BY <3>2 DEF DidUrl
      <4>2. UpToFragment(entry.id) = DidUrl(kid.did, None, None)
        BY <3>2, <4>1 DEF UpToFragment
      <4>. QED BY <3>1, <3>2, <4>2 DEF IsKidProper, UpToQuery
    <3>. QED BY <3>1, <3>2 DEF IsKidProper
  <2>. QED BY <2>2, <2>3
<1>. QED BY <1>2, <1>3, SignersSign

\* Some key of the signer's is listed for authentication in version v of what
\* its DID resolves to.
ListedAt(r, v) ==
  \E entry \in DocumentFor(r, v).publicKey :
    entry.key = Signers[r].key /\ entry.id \in DocumentFor(r, v).authentication

\* assertSignature accepts what was signed by a key that is listed.
LEMMA ListedIsAsserted ==
  ASSUME NEW r \in Updates \cup {Genesis}, Genuine(r), version \in 1 .. Len(Versions),
         prev[r] \in Records \cup {None}, ListedAt(r, version)
  PROVE  Asserted(r)
<1>. DEFINE s == Received(r).signature
            document == Resolve(s, version)
            record == Normalized(Received(r))
            payload == [patch |-> record.patch, prev |-> AsText(record.prev),
                        id |-> AsText(record.id)]
            jws == AsAttached(payload, s)
<1>1. /\ s.header = Signers[r].header
      /\ s.signature = <<Signers[r].key, <<Signers[r].header, Encoded(Sealed(r))>>>>
      /\ DOMAIN s = {"header", "payload", "signature"}
      /\ record.signature = s
  BY SignatureOf
<1>2. Encoded(payload) = Payload(r) /\ Encoded(Sealed(r)) = Payload(r)
  BY CheckedAsReceived, SealedAsPayload DEF Records
<1>3. document = DocumentFor(r, version)
  BY <1>1 DEF Resolve, DocumentFor
<1>4. SUFFICES Verify(jws, document)
  BY <1>1 DEF Asserted, AssertSignature
<1>. HIDE DEF payload, record, s, document
<1>5. jws.header = s.header /\ jws.signature = s.signature /\ jws.payload = Payload(r)
  BY <1>1, <1>2 DEF AsAttached
<1>. HIDE DEF jws
<1>. DEFINE kid == Signers[r].header.kid
            alg == Signers[r].header.alg
<1>6. r \in DOMAIN Signers /\ r \in Records
  BY SignedConstants DEF Records
<1>7. Payload(r) # None
  BY <1>6, PayloadIsThere DEF Payload, Records
<1>8. Decodes(jws)
  BY <1>1, <1>5, <1>6, <1>7, SignersSign DEF Decodes
<1>9. \A entry \in Selected(document, kid) : IsKeyUnderstood(entry)
  BY <1>3, <1>6, ListedIsSelected DEF Selected, IsRelationProper
<1>10. PICK entry \in document.publicKey :
         entry.key = Signers[r].key /\ entry.id \in document.authentication
  BY <1>3 DEF ListedAt
<1>11. AlgOf(entry) = alg /\ IsKidProper(kid, entry)
  BY <1>3, <1>6, <1>10, ListedIsSelected
<1>12. Signers[r].key \in ExtractPublicKeys(document, kid, alg)
  BY <1>10, <1>11 DEF ExtractPublicKeys, Selected, IsRelationProper
<1>13. VerifyBytes(Signers[r].key, VerificationInput(jws), jws.signature)
  BY <1>1, <1>2, <1>5 DEF VerifyBytes, SignBytes, VerificationInput
<1>. QED BY <1>1, <1>5, <1>8, <1>9, <1>12, <1>13 DEF Verify

-----------------------------------------------------------------------------
(* The refused records.                                                    *)

RefusedInv ==
  /\ doctype \in {"tile", "agreement", "ruleset"}
  /\ version \in 1 .. Len(Versions)
  /\ prev \in [Records -> Records \cup {None}]
  /\ refused \subseteq Updates \cup {Genesis}
  /\ \A r \in refused : Genuine(r) => \E v \in 1 .. version : ~ListedAt(r, v)

\* Only a record that fails its check is refused; what was not listed once stays
\* so, as versions are only added.
LEMMA RefusedGrows ==
  ASSUME RefusedInv, version' \in 1 .. Len(Versions), version' >= version,
         prev' \in [Records -> Records \cup {None}], doctype' = doctype,
         NEW new, new \subseteq Updates \cup {Genesis}, \A r \in new : ~Asserted(r),
         refused' = refused \cup new
  PROVE  RefusedInv'
<1>1. Len(Versions) \in Nat
  BY SignedConstants
<1>2. ASSUME NEW r \in refused', Genuine(r)
      PROVE  \E v \in 1 .. version' : ~ListedAt(r, v)
  <2>1. r \in Updates \cup {Genesis} /\ prev[r] \in Records \cup {None}
    BY DEF RefusedInv, Records
  <2>2. \E v \in 1 .. version : ~ListedAt(r, v)
    <3>1. CASE r \in new
      BY <1>2, <2>1, <3>1, ListedIsAsserted DEF RefusedInv
    <3>. QED BY <1>2, <3>1 DEF RefusedInv
  <2>. QED BY <1>1, <2>2 DEF RefusedInv
<1>. QED BY <1>2 DEF RefusedInv, Genuine, ListedAt, DocumentFor

LEMMA RefusedStep ==
  ASSUME RefusedInv, [Next]_vars
  PROVE  RefusedInv'
<1>0. Len(Versions) \in Nat /\ version \in 1 .. Len(Versions)
  BY SignedConstants DEF RefusedInv
<1>1. ASSUME UNCHANGED <<doctype, version, prev>>,
             \/ UNCHANGED refused
             \/ \E r \in Updates \cup {Genesis} : ~Asserted(r) /\ refused' = refused \cup {r}
      PROVE  RefusedInv'
  <2>1. PICK new \in SUBSET (Updates \cup {Genesis}) :
          (\A r \in new : ~Asserted(r)) /\ refused' = refused \cup new
    <3>1. CASE UNCHANGED refused
      <4>1. {} \in SUBSET (Updates \cup {Genesis}) /\ refused' = refused \cup {}
        BY <3>1
      <4>. QED BY <4>1
    <3>2. CASE \E r \in Updates \cup {Genesis} : ~Asserted(r) /\ refused' = refused \cup {r}
      <4>1. PICK r \in Updates \cup {Genesis} : ~Asserted(r) /\ refused' = refused \cup {r}
        BY <3>2
      <4>2. {r} \in SUBSET (Updates \cup {Genesis})
        OBVIOUS
      <4>. QED BY <4>1, <4>2
    <3>. QED BY <1>1, <3>1, <3>2
  <2>2. prev' \in [Records -> Records \cup {None}] /\ version' \in 1 .. Len(Versions)
        /\ version' >= version /\ doctype' = doctype
    BY <1>0, <1>1 DEF RefusedInv
  <2>. QED BY <2>1, <2>2, RefusedGrows
<1>2. ASSUME NEW r \in Records, NEW p \in Records, Write(r, p)
      PROVE  RefusedInv'
  <2>1. prev' \in [Records -> Records \cup {None}] /\ UNCHANGED <<doctype, version, refused>>
    BY <1>2 DEF Write, RefusedInv
  <2>2. version' \in 1 .. Len(Versions) /\ version' >= version
    BY <1>0, <2>1
  <2>. DEFINE none == {}
  <2>3. none \subseteq Updates \cup {Genesis} /\ refused' = refused \cup none
        /\ \A q \in none : ~Asserted(q)
    BY <2>1
  <2>. HIDE DEF none
  <2>. QED BY <2>1, <2>2, <2>3, RefusedGrows
<1>3. CASE Rotate
  <2>1. UNCHANGED <<doctype, prev, refused>> /\ version' \in 1 .. Len(Versions) /\ version' >= version
    BY <1>0, <1>3 DEF Rotate
  <2>. QED BY <2>1, RefusedGrows DEF RefusedInv
<1>4. CASE Load
  <2>1. CASE Kneads
    BY <1>1, <1>4, <2>1 DEF Load
  <2>2. CASE ~Kneads
    BY <1>1, <1>4, <2>2 DEF Load, Kneads
  <2>. QED BY <2>1, <2>2
<1>5. ASSUME NEW j \in Jobs, NEW r \in Records, TakeUpdate(j, r) \/ TakeHead(j, r)
      PROVE  UNCHANGED <<doctype, version, prev, refused>>
  BY <1>5 DEF TakeUpdate, TakeHead, Begin
<1>6. ASSUME NEW j \in Jobs, CheckUpdate(j)
      PROVE  RefusedInv'
  <2>1. /\ NextRecord(j) \in Updates /\ UNCHANGED <<doctype, version, prev>>
        /\ doctype \in {"tile", "agreement"}
    BY <1>6 DEF CheckUpdate, RefusedInv
  <2>2. \/ UNCHANGED refused
        \/ ~Asserted(NextRecord(j)) /\ refused' = refused \cup {NextRecord(j)}
    BY <1>6, <2>1 DEF CheckUpdate
  <2>. QED BY <1>1, <2>1, <2>2
<1>7. ASSUME NEW j \in Jobs, BuildUpdate(j) \/ ApplyAnchor(j) \/ Finish(j) \/ JobFails(j)
      PROVE  UNCHANGED <<doctype, version, prev, refused>>
  BY <1>7 DEF BuildUpdate, ApplyAnchor, Finish, JobFails
<1>8. CASE Restart \/ UNCHANGED vars
  BY <1>1, <1>8 DEF Restart, vars
<1>. QED BY <1>1, <1>2, <1>3, <1>4, <1>5, <1>6, <1>7, <1>8 DEF Next, JobStep

\* A record as it was signed is refused for its signature only if its signer's key
\* was not listed for authentication, in one of the documents that the signer's DID
\* has resolved to: no form of the kid and no form of the links in a record makes
\* assertSignature refuse it (assert-signature.ts, extract-public-keys.ts).
THEOREM RefusedRecordsAreNotListed == Spec => []RefusedIsNotListed
<1>1. Init => RefusedInv
  <2>. SUFFICES ASSUME Init PROVE RefusedInv
    OBVIOUS
  <2>1. Len(Versions) \in Nat \ {0}
    BY SignedConstants
  <2>. QED BY <2>1 DEF Init, RefusedInv
<1>2. RefusedInv => RefusedIsNotListed
  <2>. SUFFICES ASSUME RefusedInv, NEW r \in refused, Genuine(r)
                PROVE  LET s == Received(r).signature
                       IN  \E d \in DocumentsOf(s) : ~ListedIn({d}, s)
    BY DEF RefusedIsNotListed
  <2>. DEFINE s == Received(r).signature
  <2>1. s.header = Signers[r].header /\ SignedBy(s) = Signers[r].key
    BY SignatureOf DEF SignedBy
  <2>2. \A v : Resolve(s, v) = DocumentFor(r, v)
    BY <2>1 DEF Resolve, DocumentFor
  <2>. HIDE DEF s
  <2>3. PICK v \in 1 .. version : ~ListedAt(r, v)
    BY DEF RefusedInv
  <2>4. DocumentFor(r, v) \in DocumentsOf(s)
    BY <2>2 DEF DocumentsOf
  <2>5. ~ListedIn({DocumentFor(r, v)}, s)
    BY <2>1, <2>3 DEF ListedAt, ListedIn
  <2>. QED BY <2>4, <2>5 DEF s
<1>. QED BY <1>1, <1>2, RefusedStep, PTL DEF Spec

-----------------------------------------------------------------------------
(* Numbers.                                                                *)

LEMMA LeastNatural ==
  ASSUME NEW T, T \subseteq Nat, T # {}
  PROVE  \E x \in T : \A y \in T : x <= y
<1>1. PICK x \in T : \A y \in T : <<y, x>> \notin OpToRel(<, Nat)
  BY NatLessThanWellFounded, WFMin, Zenon
<1>2. \A y \in T : y < x => <<y, x>> \in OpToRel(<, Nat)
  BY DEF OpToRel
<1>3. \A y \in T : ~(y < x)
  BY <1>1, <1>2, Zenon
<1>4. \A y \in T : x <= y
  BY <1>3
<1>. QED BY <1>4, Zenon

\* Induction: what holds of 0 and goes from each number to the next up to n.
LEMMA Counting ==
  ASSUME NEW n \in Nat, NEW T, 0 \in T, \A m \in 0..(n - 1) : m \in T => m + 1 \in T
  PROVE  0..n \subseteq T
<1>. SUFFICES ASSUME ~(0..n \subseteq T) PROVE FALSE
  OBVIOUS
<1>. DEFINE Out == (0..n) \ T
<1>1. PICK m \in Out : \A k \in Out : m <= k
  <2>1. Out \subseteq Nat /\ Out # {}
    OBVIOUS
  <2>. HIDE DEF Out
  <2>. QED BY <2>1, LeastNatural
<1>2. m # 0 /\ m \in 1..n
  BY <1>1
<1>3. m - 1 \in 0..(n - 1) /\ m - 1 \notin Out /\ m = (m - 1) + 1
  BY <1>1, <1>2
<1>. QED BY <1>1, <1>3

LEMMA GreatestIs ==
  ASSUME NEW S, S \subseteq Nat, NEW m \in S, \A y \in S : m >= y
  PROVE  Max(S) = m
<1>1. \A x \in S : (\A y \in S : x >= y) => x = m
  OBVIOUS
<1>. QED BY <1>1 DEF Max

LEMMA GreatestUpTo ==
  ASSUME NEW m \in Nat, NEW S \in SUBSET (1..(m + 1)), m + 1 \in S
  PROVE  Max(S) = m + 1
<1>1. S \subseteq Nat /\ \A y \in S : m + 1 >= y
  OBVIOUS
<1>. QED BY <1>1, GreatestIs

LEMMA UpTo ==
  ASSUME NEW m \in Nat
  PROVE  /\ 1..(m + 1) # {} /\ (1..(m + 1)) \ {m + 1} = 1..m
         /\ Max(1..(m + 1)) = m + 1
<1>1. m + 1 \in 1..(m + 1)
  OBVIOUS
<1>2. Max(1..(m + 1)) = m + 1
  BY <1>1, GreatestUpTo
<1>3. \A x \in 1..(m + 1) : x # m + 1 => x \in 1..m
  OBVIOUS
<1>4. \A x \in 1..m : x \in 1..(m + 1) /\ x # m + 1
  OBVIOUS
<1>5. (1..(m + 1)) \ {m + 1} = 1..m
  BY <1>3, <1>4, Zenon
<1>. QED BY <1>1, <1>2, <1>5

LEMMA GreatestExists ==
  ASSUME NEW n \in Nat, NEW S, S \subseteq 1..n, S # {}
  PROVE  \E m \in S : \A y \in S : m >= y
<1>. DEFINE T == {n - i : i \in S}
<1>1. T \subseteq Nat /\ T # {}
  <2>1. S \subseteq Nat /\ \A i \in S : n - i \in Nat
    OBVIOUS
  <2>2. PICK i \in S : TRUE
    OBVIOUS
  <2>. QED BY <2>1, <2>2, Zenon
<1>. HIDE DEF T
<1>2. PICK x \in T : \A y \in T : x <= y
  BY <1>1, LeastNatural
<1>3. PICK m \in S : x = n - m
  BY DEF T
<1>4. ASSUME NEW y \in S PROVE m >= y
  <2>1. n - y \in T
    BY DEF T
  <2>2. n - m <= n - y
    BY <1>2, <1>3, <2>1
  <2>3. m \in Nat /\ y \in Nat
    OBVIOUS
  <2>. QED BY <2>2, <2>3
<1>. QED BY <1>4

-----------------------------------------------------------------------------
(* What a log leads to.                                                    *)

\* What FoldLeft computes on the way, for every set of positions.
Computes(it, log, D) ==
  it = [S \in SUBSET D |-> IF S = {} THEN Fresh ELSE Replay(it[S \ {Max(S)}], log[Max(S)])]

StateAt(log, D) == CHOOSE it : Computes(it, log, D)

LEMMA ReplayedIsState ==
  ASSUME NEW log
  PROVE  Replayed(log) = StateAt(log, DOMAIN log)[DOMAIN log]
BY DEF Replayed, FoldLeft, MapThenFoldSet, StateAt, Computes

\* One record more: what is computed before it stays.
LEMMA ComputesMore ==
  ASSUME NEW m \in Nat, NEW log, NEW it, Computes(it, log, 1..m)
  PROVE  \E next : Computes(next, log, 1..(m + 1))
<1>. DEFINE next == [S \in SUBSET (1..(m + 1)) |->
                      IF m + 1 \in S THEN Replay(it[S \ {m + 1}], log[m + 1]) ELSE it[S]]
<1>1. ASSUME NEW S \in SUBSET (1..(m + 1))
      PROVE  next[S] = IF S = {} THEN Fresh ELSE Replay(next[S \ {Max(S)}], log[Max(S)])
  <2>1. CASE m + 1 \in S
    <3>1. Max(S) = m + 1
      BY <2>1, GreatestUpTo
    <3>2. S \ {m + 1} \in SUBSET (1..(m + 1)) /\ m + 1 \notin S \ {m + 1}
      OBVIOUS
    <3>3. next[S \ {m + 1}] = it[S \ {m + 1}]
      BY <3>2
    <3>. QED BY <2>1, <3>1, <3>3
  <2>2. CASE m + 1 \notin S
    <3>1. S \in SUBSET (1..m)
      BY <2>2
    <3>2. it[S] = IF S = {} THEN Fresh ELSE Replay(it[S \ {Max(S)}], log[Max(S)])
      BY <3>1 DEF Computes
    <3>3. next[S] = it[S] /\ next[S \ {Max(S)}] = it[S \ {Max(S)}]
      BY <2>2
    <3>. QED BY <3>2, <3>3
  <2>. QED BY <2>1, <2>2
<1>2. next = [S \in SUBSET (1..(m + 1)) |-> next[S]]
  OBVIOUS
<1>. HIDE DEF next
<1>3. Computes(next, log, 1..(m + 1))
  BY <1>1, <1>2 DEF Computes
<1>. QED BY <1>3

LEMMA StateExists ==
  ASSUME NEW log, NEW n \in Nat
  PROVE  Computes(StateAt(log, 1..n), log, 1..n)
<1>. DEFINE T == {m \in Nat : \E it : Computes(it, log, 1..m)}
<1>1. 0 \in T
  <2>. DEFINE it == [S \in {{}} |-> Fresh]
  <2>1. SUBSET (1..0) = {{}}
    OBVIOUS
  <2>2. it = [S \in {{}} |-> IF S = {} THEN Fresh ELSE Replay(it[S \ {Max(S)}], log[Max(S)])]
    OBVIOUS
  <2>3. Computes(it, log, 1..0)
    BY <2>1, <2>2, Zenon DEF Computes
  <2>. QED BY <2>3
<1>2. ASSUME NEW m \in 0..(n - 1), m \in T PROVE m + 1 \in T
  BY <1>2, ComputesMore
<1>. HIDE DEF T
<1>3. 0..n \subseteq T
  BY <1>1, <1>2, Counting
<1>4. n \in T
  BY <1>3
<1>. QED BY <1>4 DEF T, StateAt

LEMMA StateAfter ==
  ASSUME NEW it, NEW log, NEW l, Computes(it, log, 1..l),
         NEW m \in Nat, 1..(m + 1) \in SUBSET (1..l)
  PROVE  it[1..(m + 1)] = Replay(it[1..m], log[m + 1])
<1>. DEFINE S == 1..(m + 1)
<1>1. S # {} /\ S \ {m + 1} = 1..m /\ Max(S) = m + 1
  BY UpTo
<1>. HIDE DEF S
<1>2. it[S] = IF S = {} THEN Fresh ELSE Replay(it[S \ {Max(S)}], log[Max(S)])
  BY Zenon DEF Computes, S
<1>. QED BY <1>1, <1>2, Zenon DEF S

\* The first n records decide what is computed up to the n-th.
LEMMA SameBeginnings ==
  ASSUME NEW n \in Nat, NEW log, NEW more, \A i \in 1..n : more[i] = log[i],
         NEW it, Computes(it, log, 1..n), NEW l \in Nat, n <= l,
         NEW jt, Computes(jt, more, 1..l)
  PROVE  jt[1..n] = it[1..n]
<1>. DEFINE T == {m \in Nat : jt[1..m] = it[1..m]}
<1>1. 0 \in T
  <2>1. 1..0 = {} /\ {} \in SUBSET (1..n) /\ {} \in SUBSET (1..l)
    OBVIOUS
  <2>2. it[{}] = Fresh /\ jt[{}] = Fresh
    BY <2>1, Zenon DEF Computes
  <2>. QED BY <2>1, <2>2
<1>2. ASSUME NEW m \in 0..(n - 1), m \in T PROVE m + 1 \in T
  <2>. HIDE DEF T
  <2>0. m \in Nat /\ m + 1 \in 1..n
    OBVIOUS
  <2>1. 1..(m + 1) \in SUBSET (1..n) /\ 1..(m + 1) \in SUBSET (1..l)
    <3>1. \A x \in 1..(m + 1) : x \in 1..n /\ x \in 1..l
      BY <2>0
    <3>. QED BY <3>1
  <2>2. it[1..(m + 1)] = Replay(it[1..m], log[m + 1])
    BY <2>0, <2>1, StateAfter
  <2>3. jt[1..(m + 1)] = Replay(jt[1..m], more[m + 1])
    BY <2>0, <2>1, StateAfter
  <2>. QED BY <1>2, <2>0, <2>2, <2>3 DEF T
<1>. HIDE DEF T
<1>3. 0..n \subseteq T
  BY <1>1, <1>2, Counting
<1>4. n \in T
  BY <1>3
<1>. QED BY <1>4 DEF T

LEMMA ReplayedEmpty == Replayed(<< >>) = Fresh
<1>1. Computes(StateAt(<< >>, 1..0), << >>, 1..0)
  BY StateExists
<1>2. 1..0 = {} /\ DOMAIN << >> = 1..0 /\ {} \in SUBSET (1..0)
  OBVIOUS
<1>. QED BY <1>1, <1>2, ReplayedIsState, Zenon DEF Computes

\* A record more in the log makes one step of what it leads to.
LEMMA ReplayedAppend ==
  ASSUME NEW log \in Seq(Records), NEW r \in Records
  PROVE  Replayed(Append(log, r)) = Replay(Replayed(log), r)
<1>. DEFINE n == Len(log)
            more == Append(log, r)
<1>1. n \in Nat /\ DOMAIN log = 1..n /\ DOMAIN more = 1..(n + 1)
      /\ more[n + 1] = r /\ \A i \in 1..n : more[i] = log[i]
  OBVIOUS
<1>. HIDE DEF n, more
<1>. DEFINE it == StateAt(log, 1..n)
            jt == StateAt(more, 1..(n + 1))
<1>2. Computes(it, log, 1..n) /\ Computes(jt, more, 1..(n + 1))
  BY <1>1, StateExists
<1>3. Replayed(log) = it[1..n] /\ Replayed(more) = jt[1..(n + 1)]
  BY <1>1, ReplayedIsState
<1>. HIDE DEF it, jt
<1>4. jt[1..n] = it[1..n]
  BY <1>1, <1>2, SameBeginnings
<1>5. 1..(n + 1) \in SUBSET (1..(n + 1))
  OBVIOUS
<1>6. jt[1..(n + 1)] = Replay(jt[1..n], more[n + 1])
  BY <1>1, <1>2, <1>5, StateAfter
<1>. QED BY <1>1, <1>3, <1>4, <1>6 DEF more

\* An anchor leaves the last update what it is; another record is the last one.
LEMMA LastUpdateAppend ==
  ASSUME NEW log \in Seq(Records), log # << >>, log[1] = Genesis, NEW r \in Records
  PROVE  LastUpdate(Append(log, r)) = IF r \in Leaves THEN LastUpdate(log) ELSE r
<1>. DEFINE n == Len(log)
            more == Append(log, r)
            S == {i \in DOMAIN log : log[i] \notin Leaves}
            S2 == {i \in DOMAIN more : more[i] \notin Leaves}
<1>1. n \in Nat \ {0} /\ DOMAIN log = 1..n /\ DOMAIN more = 1..(n + 1)
      /\ more[n + 1] = r /\ \A i \in 1..n : more[i] = log[i]
  OBVIOUS
<1>. HIDE DEF n, more
<1>2. CASE r \in Leaves
  <2>1. S2 = S
    BY <1>1, <1>2
  <2>2. 1 \in S /\ S \subseteq 1..n
    BY <1>1, SignedConstants
  <2>. HIDE DEF S, S2
  <2>3. PICK m \in S : \A y \in S : m >= y
    BY <1>1, <2>2, GreatestExists
  <2>4. Max(S) = m
    <3>1. S \subseteq Nat
      BY <1>1, <2>2
    <3>. QED BY <2>3, <3>1, GreatestIs
  <2>5. more[m] = log[m]
    BY <1>1, <2>2
  <2>. QED BY <1>2, <2>1, <2>4, <2>5 DEF LastUpdate, S, S2, more
<1>3. CASE r \notin Leaves
  <2>1. n + 1 \in S2 /\ S2 \subseteq Nat /\ \A y \in S2 : n + 1 >= y
    BY <1>1, <1>3
  <2>. HIDE DEF S2
  <2>2. Max(S2) = n + 1
    BY <2>1, GreatestIs
  <2>. QED BY <1>1, <1>3, <2>2 DEF LastUpdate, S2, more
<1>. QED BY <1>2, <1>3

-----------------------------------------------------------------------------
(* The objects.                                                            *)

\* There are two objects more than jobs, so one that nobody refers to.
LEMMA UnusedIsFree == Unused \in Refs /\ Unused \notin Held
<1>. DEFINE Of == {jobs[j].ref : j \in Jobs}
            f == [j \in Jobs |-> jobs[j].ref]
            n == Cardinality(Jobs)
<1>1. IsFiniteSet(Jobs) /\ n \in Nat
  BY SignedConstants, FS_CardinalityType
<1>2. IsFiniteSet(Of) /\ Cardinality(Of) <= n
  <2>1. f \in Surjection(Jobs, Of)
    BY DEF Surjection
  <2>. HIDE DEF f, Of
  <2>. QED BY <1>1, <2>1, FS_Surjection
<1>3. Held \subseteq Of \cup {snap.ref}
  BY DEF Held
<1>. HIDE DEF Of, n
<1>4. IsFiniteSet(Of \cup {snap.ref}) /\ Cardinality(Of \cup {snap.ref}) <= n + 1
  <2>1. Cardinality(Of) \in Nat
    BY <1>2, FS_CardinalityType
  <2>2. /\ IsFiniteSet(Of \cup {snap.ref})
        /\ \/ Cardinality(Of \cup {snap.ref}) = Cardinality(Of)
           \/ Cardinality(Of \cup {snap.ref}) = Cardinality(Of) + 1
    BY <1>2, FS_AddElement
  <2>. QED BY <1>1, <1>2, <2>1, <2>2
<1>5. Cardinality(Refs) = n + 2
  <2>1. 1 \in Int /\ n + 2 \in Int /\ ~(1 > n + 2) /\ (n + 2) - 1 + 1 = n + 2
    BY <1>1
  <2>. QED BY <2>1, FS_Interval DEF Refs, n
<1>6. \E o \in Refs : o \notin Held
  <2>. SUFFICES ASSUME Refs \subseteq Held PROVE FALSE
    OBVIOUS
  <2>1. Refs \in SUBSET (Of \cup {snap.ref})
    BY <1>3
  <2>2. Cardinality(Refs) <= Cardinality(Of \cup {snap.ref})
    BY <1>4, <2>1, FS_Subset
  <2>3. Cardinality(Of \cup {snap.ref}) \in Nat
    BY <1>4, FS_CardinalityType
  <2>. QED BY <1>1, <1>4, <1>5, <2>2, <2>3
<1>. QED BY <1>6 DEF Unused

\* What an object says of a log.
Fits(kind, log, data) ==
  /\ log # << >> /\ log[1] = Genesis
  /\ Canonical(data) = LastUpdate(log)
  /\ kind = "tile" => data = Replayed(log)
  /\ (\E i \in DOMAIN log : log[i] \in Leaves) => data.anchor # None

LEMMA LogAppend ==
  ASSUME NEW log \in Seq(Records), log # << >>, log[1] = Genesis, NEW r \in Records
  PROVE  /\ Append(log, r) # << >> /\ Append(log, r)[1] = Genesis
         /\ \A i \in DOMAIN Append(log, r) :
              Append(log, r)[i] = r \/ \E k \in DOMAIN log : Append(log, r)[i] = log[k]
<1>1. Len(log) \in Nat \ {0} /\ DOMAIN log = 1..Len(log)
  OBVIOUS
<1>2. DOMAIN Append(log, r) = 1..(Len(log) + 1)
  OBVIOUS
<1>3. Append(log, r)[Len(log) + 1] = r /\ \A i \in 1..Len(log) : Append(log, r)[i] = log[i]
  OBVIOUS
<1>. QED BY <1>1, <1>2, <1>3

\* Patching an object keeps it in step with the log that has the update as well.
LEMMA PatchedFits ==
  ASSUME NEW kind, NEW log \in Seq(Records), NEW data \in Data, Fits(kind, log, data),
         NEW u \in Updates,
         NEW next \in Data, next.current = u, next.anchor = data.anchor,
         kind = "tile" => next = Patched(data, u)
  PROVE  Fits(kind, Append(log, u), next)
<1>1. u \in Records /\ u # Genesis /\ u \notin Leaves /\ u # None
  BY SignedConstants DEF Records
<1>2. Canonical(next) = u
  BY <1>1 DEF Canonical
<1>3. LastUpdate(Append(log, u)) = u
  BY <1>1, LastUpdateAppend DEF Fits
<1>4. Replay(data, u) = Patched(data, u)
  BY <1>1 DEF Replay
<1>5. Replayed(Append(log, u)) = Replay(Replayed(log), u)
  BY <1>1, ReplayedAppend
<1>6. kind = "tile" => next = Replayed(Append(log, u))
  BY <1>4, <1>5 DEF Fits
<1>7. /\ Append(log, u) # << >> /\ Append(log, u)[1] = Genesis
      /\ (\E i \in DOMAIN Append(log, u) : Append(log, u)[i] \in Leaves) => data.anchor # None
  BY <1>1, LogAppend DEF Fits
<1>. QED BY <1>2, <1>3, <1>6, <1>7 DEF Fits

\* What the tile and the ruleset make of an object.
LEMMA PatchedData ==
  ASSUME NEW data \in Data, NEW u \in Updates
  PROVE  /\ Patched(data, u) \in Data
         /\ Patched(data, u).current = u /\ Patched(data, u).anchor = data.anchor
BY DEF Patched, Data

LEMMA StagedData ==
  ASSUME NEW data \in Data, NEW u \in Updates, NEW fits
  PROVE  /\ Staged(data, u, fits) \in Data
         /\ Staged(data, u, fits).current = u /\ Staged(data, u, fits).anchor = data.anchor
<1>. DEFINE stage == Applied(u, fits).stage
<1>1. stage \in {"draft", "agreement"}
  BY DEF Applied, Stage
<1>. HIDE DEF stage
<1>2. Staged(data, u, fits) = [data EXCEPT !.current = u, !.stage = stage]
  BY DEF Staged, stage
<1>. QED BY <1>1, <1>2 DEF Data

LEMMA AnchoredData ==
  ASSUME NEW data \in Data, NEW leaf \in Leaves
  PROVE  /\ Anchored(data, leaf) \in Data
         /\ Anchored(data, leaf).anchor # None
         /\ Canonical(Anchored(data, leaf)) = Canonical(data)
<1>1. leaf # None
  BY SignedConstants DEF Records
<1>2. Canonical(data) \in Updates \cup {Genesis}
  BY DEF Canonical, Data
<1>. DEFINE content == Canonical(data)
<1>3. Anchored(data, leaf)
        = [current |-> None, freight |-> content, anchor |-> leaf, stage |-> data.stage]
  <2>1. Anchored(data, leaf)
          = [data EXCEPT !.current = None, !.freight = content, !.anchor = leaf]
    BY DEF Anchored
  <2>. HIDE DEF content
  <2>. QED BY <2>1 DEF Data
<1>. HIDE DEF content
<1>4. content \in Updates \cup {Genesis}
  BY <1>2 DEF content
<1>5. Anchored(data, leaf) \in Data
  BY <1>3, <1>4 DEF Data, AnchorState
<1>6. Canonical(Anchored(data, leaf)) = content
  BY <1>3 DEF Canonical
<1>. QED BY <1>1, <1>3, <1>5, <1>6 DEF content

\* So does anchoring it.
LEMMA AnchoredFits ==
  ASSUME NEW kind, NEW log \in Seq(Records), NEW data \in Data, Fits(kind, log, data),
         NEW leaf \in Leaves
  PROVE  Fits(kind, Append(log, leaf), Anchored(data, leaf))
<1>1. leaf \in Records /\ leaf # Genesis /\ leaf \notin Updates
  BY SignedConstants DEF Records
<1>2. LastUpdate(Append(log, leaf)) = LastUpdate(log)
  BY <1>1, LastUpdateAppend DEF Fits
<1>3. Replay(data, leaf) = Anchored(data, leaf)
  BY <1>1 DEF Replay
<1>4. Replayed(Append(log, leaf)) = Replay(Replayed(log), leaf)
  BY <1>1, ReplayedAppend
<1>5. kind = "tile" => Anchored(data, leaf) = Replayed(Append(log, leaf))
  BY <1>3, <1>4 DEF Fits
<1>6. Append(log, leaf) # << >> /\ Append(log, leaf)[1] = Genesis
  BY <1>1, LogAppend DEF Fits
<1>. QED BY <1>2, <1>5, <1>6, AnchoredData DEF Fits

\* An anchor that is written into an object goes with whatever log it fitted.
LEMMA SharedFits ==
  ASSUME NEW kind, kind # "tile", NEW log, NEW data \in Data, Fits(kind, log, data),
         NEW leaf \in Leaves
  PROVE  Fits(kind, log, Anchored(data, leaf))
BY AnchoredData DEF Fits

-----------------------------------------------------------------------------
(* The state of the document and of every job fits its log.                *)

Holds(kind, objects, log, ref) == ref \in Refs /\ Fits(kind, log, objects[ref])

ViewInv ==
  /\ heap \in [Refs -> Data]
  /\ snap = Unloaded \/ Holds(doctype, heap, snap.log, snap.ref)
  /\ \A j \in Jobs : \/ jobs[j] = Idle
                     \/ jobs[j].kind # "idle" /\ Holds(doctype, heap, jobs[j].log, jobs[j].ref)

\* Steps that leave the objects alone: a job ends, or hands over its log.
LEMMA SameObjects ==
  ASSUME ViewInv, UNCHANGED <<doctype, heap>>,
         snap' = Unloaded \/ Holds(doctype, heap, snap'.log, snap'.ref),
         NEW j \in Jobs, \A k \in Jobs \ {j} : jobs'[k] \in {jobs[k], Idle},
         \/ jobs'[j] = Idle
         \/ jobs'[j].kind # "idle" /\ Holds(doctype, heap, jobs'[j].log, jobs'[j].ref)
  PROVE  ViewInv'
<1>. QED BY DEF ViewInv

\* Job j applies a record: to an object of its own, or into the shared object.
LEMMA AppliedFits ==
  ASSUME SignedInv, ViewInv, UNCHANGED <<doctype, snap>>, NEW j \in Jobs, jobs[j].kind # "idle",
         NEW o \in Refs, Advance(j, o), NEW d \in Data, heap' = [heap EXCEPT ![o] = d],
         Fits(doctype, Append(jobs[j].log, NextRecord(j)), d),
         \/ o \notin Held
         \/ doctype # "tile" /\ \E leaf \in Leaves : d = Anchored(heap[o], leaf)
  PROVE  ViewInv'
<1>1. /\ heap' \in [Refs -> Data] /\ heap'[o] = d
      /\ \A i \in Refs \ {o} : heap'[i] = heap[i]
  BY DEF ViewInv
<1>2. ASSUME NEW log, NEW ref, ref \in Held, Holds(doctype, heap, log, ref)
      PROVE  Holds(doctype, heap', log, ref)
  <2>1. CASE ref # o
    BY <1>1, <1>2, <2>1 DEF Holds
  <2>2. CASE ref = o
    <3>1. PICK leaf \in Leaves : doctype # "tile" /\ d = Anchored(heap[o], leaf)
      BY <1>2, <2>2
    <3>2. heap[o] \in Data
      BY DEF ViewInv
    <3>3. Fits(doctype, log, d)
      BY <1>2, <2>2, <3>1, <3>2, SharedFits DEF Holds
    <3>. QED BY <1>1, <2>2, <3>3 DEF Holds
  <2>. QED BY <2>1, <2>2
<1>3. snap' = Unloaded \/ Holds(doctype, heap', snap'.log, snap'.ref)
  <2>1. snap.ref \in Held
    BY DEF Held
  <2>. QED BY <1>2, <2>1 DEF ViewInv
<1>4. ASSUME NEW k \in Jobs \ {j}
      PROVE  \/ jobs'[k] = Idle
             \/ jobs'[k].kind # "idle" /\ Holds(doctype, heap', jobs'[k].log, jobs'[k].ref)
  <2>1. jobs'[k] = jobs[k]
    BY DEF Advance, SignedInv
  <2>2. jobs[k].kind # "idle" => jobs[k].ref \in Held
    BY DEF Held
  <2>. QED BY <1>2, <2>1, <2>2 DEF ViewInv
<1>5. jobs'[j].kind # "idle" /\ Holds(doctype, heap', jobs'[j].log, jobs'[j].ref)
  <2>1. /\ jobs'[j].kind = jobs[j].kind /\ jobs'[j].ref = o
        /\ jobs'[j].log = Append(jobs[j].log, NextRecord(j))
    BY DEF Advance, SignedInv, JobOK
  <2>. QED BY <1>1, <2>1 DEF Holds
<1>. QED BY <1>1, <1>3, <1>4, <1>5 DEF ViewInv

\* The log and the object of a job that is not idle.
LEMMA OfJob ==
  ASSUME SignedInv, ViewInv, NEW j \in Jobs, jobs[j] # Idle
  PROVE  /\ jobs[j].kind # "idle" /\ jobs[j].ref \in Refs /\ heap[jobs[j].ref] \in Data
         /\ jobs[j].log \in Seq(Records)
         /\ Fits(doctype, jobs[j].log, heap[jobs[j].ref])
BY DEF SignedInv, JobOK, LogOK, ViewInv, Holds

\* A record that is patched into a new object.
LEMMA PatchStep ==
  ASSUME SignedInv, ViewInv, UNCHANGED <<doctype, snap>>, NEW j \in Jobs, Applying(j),
         NextRecord(j) \in Updates, Advance(j, Unused),
         NEW next \in Data, heap' = [heap EXCEPT ![Unused] = next],
         next.current = NextRecord(j), next.anchor = heap[jobs[j].ref].anchor,
         doctype = "tile" => next = Patched(heap[jobs[j].ref], NextRecord(j))
  PROVE  ViewInv'
<1>1. jobs[j] # Idle
  BY DEF Applying, Idle
<1>2. Fits(doctype, Append(jobs[j].log, NextRecord(j)), next)
  BY <1>1, OfJob, PatchedFits
<1>3. jobs[j].kind # "idle"
  BY <1>1, OfJob
<1>. QED BY <1>2, <1>3, UnusedIsFree, AppliedFits

\* A job that throws: what it has worked on is dropped.
LEMMA ThrowStep ==
  ASSUME SignedInv, ViewInv, UNCHANGED <<doctype, heap>>, NEW j \in Jobs, Throws(j)
  PROVE  ViewInv'
<1>1. \A k \in Jobs \ {j} : jobs'[k] = jobs[k]
  BY DEF Throws, Ends, SignedInv
<1>2. jobs'[j] = Idle
  BY DEF Throws, Ends, SignedInv
<1>3. snap' = snap \/ snap' = [snap EXCEPT !.live = FALSE]
  BY DEF Throws
<1>4. snap' = Unloaded \/ Holds(doctype, heap, snap'.log, snap'.ref)
  <2>1. CASE snap = Unloaded
    BY <1>3, <2>1 DEF Unloaded
  <2>2. CASE Holds(doctype, heap, snap.log, snap.ref)
    <3>1. snap'.log = snap.log /\ snap'.ref = snap.ref
      BY <1>3 DEF SignedInv
    <3>. QED BY <2>2, <3>1
  <2>. QED BY <2>1, <2>2 DEF ViewInv
<1>. QED BY <1>1, <1>2, <1>4, SameObjects

LEMMA ViewStep ==
  ASSUME SignedInv, ViewInv, [Next]_vars
  PROVE  ViewInv'
<1>1. CASE UNCHANGED <<doctype, heap, snap, jobs>>
  BY <1>1 DEF ViewInv
<1>2. ASSUME NEW r \in Records, NEW p \in Records, Write(r, p)
      PROVE  UNCHANGED <<doctype, heap, snap, jobs>>
  BY <1>2 DEF Write
<1>3. CASE Rotate
  BY <1>1, <1>3 DEF Rotate
<1>4. CASE Load
  <2>1. CASE Kneads
    <3>1. /\ snap' = [log |-> <<Genesis>>, ref |-> 1, live |-> TRUE]
          /\ heap' = [heap EXCEPT ![1] = Fresh] /\ UNCHANGED <<doctype, jobs>>
          /\ \A j \in Jobs : jobs[j] = Idle
      BY <1>4, <2>1 DEF Load
    <3>2. 1 \in Refs
      <4>1. Cardinality(Jobs) \in Nat
        BY SignedConstants, FS_CardinalityType
      <4>. QED BY <4>1 DEF Refs
    <3>3. Fresh \in Data /\ Canonical(Fresh) = Genesis
      BY DEF Fresh, Data, AnchorState, Canonical
    <3>4. LastUpdate(<<Genesis>>) = Genesis
      <4>. DEFINE log == <<Genesis>>
                  S == {i \in DOMAIN log : log[i] \notin Leaves}
      <4>1. DOMAIN log = 1..1 /\ log[1] = Genesis
        OBVIOUS
      <4>2. S = 1..1
        BY <4>1, SignedConstants
      <4>. HIDE DEF S, log
      <4>3. Max(S) = 1
        BY <4>2, GreatestIs
      <4>. QED BY <4>1, <4>3 DEF LastUpdate, S, log
    <3>5. Replayed(<<Genesis>>) = Fresh
      <4>1. << >> \in Seq(Records) /\ Genesis \in Records /\ Append(<< >>, Genesis) = <<Genesis>>
        BY DEF Records
      <4>2. Replayed(<<Genesis>>) = Replay(Replayed(<< >>), Genesis)
        BY <4>1, ReplayedAppend
      <4>3. Genesis \notin Updates /\ Genesis \notin Leaves
        BY SignedConstants
      <4>. QED BY <4>2, <4>3 DEF Replay
    <3>6. Fits(doctype, <<Genesis>>, Fresh)
      BY <3>3, <3>4, <3>5, SignedConstants DEF Fits
    <3>7. heap' \in [Refs -> Data] /\ heap'[1] = Fresh
      BY <3>1, <3>2, <3>3 DEF ViewInv
    <3>8. Holds(doctype, heap', snap'.log, snap'.ref)
      BY <3>1, <3>2, <3>6, <3>7 DEF Holds
    <3>. QED BY <3>1, <3>7, <3>8 DEF ViewInv
  <2>2. CASE ~Kneads
    BY <1>1, <1>4, <2>2 DEF Load
  <2>. QED BY <2>1, <2>2
<1>5. ASSUME NEW j \in Jobs, NEW kind \in {"update", "head"}, NEW rest, NEW doomed,
             Begin(j, kind, rest, doomed)
      PROVE  ViewInv'
  <2>1. UNCHANGED <<doctype, heap, snap>> /\ snap # Unloaded
    BY <1>5 DEF Begin
  <2>2. \A k \in Jobs \ {j} : jobs'[k] = jobs[k]
    BY <1>5 DEF Begin, SignedInv
  <2>3. jobs'[j].kind = kind /\ jobs'[j].log = snap.log /\ jobs'[j].ref = snap.ref
    BY <1>5 DEF Begin, SignedInv, Idle
  <2>4. Holds(doctype, heap, snap.log, snap.ref)
    BY <2>1 DEF ViewInv
  <2>5. jobs'[j].kind # "idle" /\ Holds(doctype, heap, jobs'[j].log, jobs'[j].ref)
    BY <2>3, <2>4
  <2>. QED BY <2>1, <2>2, <2>4, <2>5, SameObjects
<1>6. ASSUME NEW j \in Jobs, NEW r \in Records, TakeUpdate(j, r) \/ TakeHead(j, r)
      PROVE  ViewInv'
  <2>1. \E kind \in {"update", "head"} : \E rest, doomed : Begin(j, kind, rest, doomed)
    <3>1. CASE TakeUpdate(j, r)
      BY <3>1 DEF TakeUpdate
    <3>2. CASE TakeHead(j, r)
      BY <3>2 DEF TakeHead
    <3>. QED BY <1>6, <3>1, <3>2
  <2>. QED BY <1>5, <2>1
<1>7. ASSUME NEW j \in Jobs, CheckUpdate(j)
      PROVE  ViewInv'
  <2>. DEFINE u == NextRecord(j)
  <2>1. u \in Updates /\ UNCHANGED doctype /\ Applying(j)
    BY <1>7 DEF CheckUpdate
  <2>2. CASE Throws(j) /\ UNCHANGED heap
    BY <2>1, <2>2, ThrowStep
  <2>3. CASE /\ heap' = [heap EXCEPT ![Unused] = Patched(heap[jobs[j].ref], u)]
             /\ Advance(j, Unused) /\ UNCHANGED snap
    <3>1. heap[jobs[j].ref] \in Data
      BY <2>1, OfJob DEF Applying, Idle
    <3>. QED BY <2>1, <2>3, <3>1, PatchedData, PatchStep
  <2>4. CASE jobs' = [jobs EXCEPT ![j].at = "build"] /\ UNCHANGED <<snap, heap>>
    <3>1. jobs[j] # Idle
      BY <2>1 DEF Applying, Idle
    <3>2. jobs[j].kind # "idle" /\ Holds(doctype, heap, jobs[j].log, jobs[j].ref)
      BY <3>1 DEF ViewInv
    <3>3. /\ jobs'[j].kind = jobs[j].kind /\ jobs'[j].log = jobs[j].log
          /\ jobs'[j].ref = jobs[j].ref /\ \A k \in Jobs \ {j} : jobs'[k] = jobs[k]
      BY <2>4 DEF SignedInv, JobOK
    <3>4. jobs'[j].kind # "idle" /\ Holds(doctype, heap, jobs'[j].log, jobs'[j].ref)
      BY <3>2, <3>3
    <3>5. snap' = Unloaded \/ Holds(doctype, heap, snap'.log, snap'.ref)
      BY <2>4 DEF ViewInv
    <3>. QED BY <2>1, <2>4, <3>3, <3>4, <3>5, SameObjects
  <2>5. doctype \in {"tile", "agreement", "ruleset"}
    BY DEF SignedInv
  <2>. QED BY <1>7, <2>2, <2>3, <2>4, <2>5 DEF CheckUpdate
<1>8. ASSUME NEW j \in Jobs, BuildUpdate(j)
      PROVE  ViewInv'
  <2>1. NextRecord(j) \in Updates
    BY <1>8 DEF BuildUpdate, SignedInv, JobOK, NextRecord
  <2>2. doctype = "agreement" /\ UNCHANGED doctype /\ Applying(j)
    BY <1>8 DEF BuildUpdate, SignedInv, JobOK
  <2>3. heap[jobs[j].ref] \in Data
    BY <2>2, OfJob DEF Applying, Idle
  <2>4. CASE Throws(j) /\ UNCHANGED heap
    BY <2>2, <2>4, ThrowStep
  <2>5. ASSUME NEW fits, Advance(j, Unused), UNCHANGED snap,
               heap' = [heap EXCEPT ![Unused] = Staged(heap[jobs[j].ref], NextRecord(j), fits)]
        PROVE  ViewInv'
    BY <2>1, <2>2, <2>3, <2>5, StagedData, PatchStep
  <2>. QED BY <1>8, <2>4, <2>5 DEF BuildUpdate
<1>9. ASSUME NEW j \in Jobs, ApplyAnchor(j)
      PROVE  ViewInv'
  <2>. DEFINE leaf == NextRecord(j)
              d == Anchored(heap[jobs[j].ref], leaf)
              o == IF doctype = "tile" THEN Unused ELSE jobs[j].ref
  <2>1. /\ leaf \in Leaves /\ heap' = [heap EXCEPT ![o] = d] /\ Advance(j, o)
        /\ UNCHANGED <<doctype, snap>> /\ jobs[j] # Idle
    BY <1>9 DEF ApplyAnchor, Applying, Idle
  <2>2. jobs[j].kind # "idle" /\ jobs[j].ref \in Refs
    BY <2>1, OfJob
  <2>3. d \in Data /\ Fits(doctype, Append(jobs[j].log, leaf), d)
    BY <2>1, OfJob, AnchoredData, AnchoredFits
  <2>4. o \in Refs
    BY <2>2, UnusedIsFree
  <2>5. \/ o \notin Held
        \/ doctype # "tile" /\ \E l \in Leaves : d = Anchored(heap[o], l)
    <3>1. CASE doctype = "tile"
      BY <3>1, UnusedIsFree
    <3>2. CASE doctype # "tile"
      BY <2>1, <3>2
    <3>. QED BY <3>1, <3>2
  <2>. HIDE DEF d, o
  <2>. QED BY <2>1, <2>2, <2>3, <2>4, <2>5, AppliedFits
<1>10. ASSUME NEW j \in Jobs, Finish(j)
       PROVE  ViewInv'
  <2>1. /\ UNCHANGED <<doctype, heap>> /\ \A k \in Jobs \ {j} : jobs'[k] = jobs[k]
        /\ jobs'[j] = Idle /\ jobs[j].kind # "idle"
    BY <1>10 DEF Finish, Ends, SignedInv
  <2>2. \/ snap' = snap
        \/ snap'.log = jobs[j].log /\ snap'.ref = jobs[j].ref
    BY <1>10 DEF Finish, SignedInv
  <2>3. Holds(doctype, heap, jobs[j].log, jobs[j].ref)
    BY <2>1 DEF ViewInv, Idle
  <2>4. snap' = Unloaded \/ Holds(doctype, heap, snap'.log, snap'.ref)
    BY <2>2, <2>3 DEF ViewInv
  <2>. QED BY <2>1, <2>4, SameObjects
<1>11. ASSUME NEW j \in Jobs, JobFails(j)
       PROVE  ViewInv'
  BY <1>11, ThrowStep DEF JobFails
<1>12. CASE Restart
  BY <1>12 DEF Restart, ViewInv
<1>. QED BY <1>1, <1>2, <1>3, <1>4, <1>6, <1>7, <1>8, <1>9, <1>10, <1>11, <1>12
     DEF Next, JobStep, vars

\* The state of a document is what its log leads to: its content is that of the last
\* update; a tile's state is that of its log record by record; and a document with a
\* leaf in its log is anchored, though jobs overlap, are refused or fail, and though
\* the agreement writes an anchor into an object that others refer to (apply of
\* TileHandler and of the two-party agreement, Snapshot).
THEOREM StateFitsLog == Spec => []ViewFitsLog
<1>1. Init => SignedInv /\ ViewInv
  <2>. SUFFICES ASSUME Init PROVE SignedInv /\ ViewInv
    OBVIOUS
  <2>1. LogOK(<< >>)
    BY DEF LogOK
  <2>2. SignedInv
    BY <2>1, IdleOK DEF Init, SignedInv, Unloaded
  <2>3. Fresh \in Data
    BY DEF Fresh, Data, AnchorState
  <2>. QED BY <2>2, <2>3 DEF Init, ViewInv
<1>2. ViewInv => ViewFitsLog
  BY DEF ViewInv, Holds, Fits, ViewFitsLog
<1>. QED BY <1>1, <1>2, SignedStep, ViewStep, PTL DEF Spec
====
