----------------------------- MODULE Signatures -----------------------------
(* Signed records (lib/identity, and the signing and checking of records in  *)
(* lib/codec and lib/vessel).  A text is kept as the parts it is told from   *)
(* another by; a signature is kept as the key that made it and what it was   *)
(* made over, as nobody else can make it.                                    *)
(*                                                                           *)
(* Operators marked "mistake" are used by no definition: each is the one     *)
(* after it with a plausible mistake in the code.                            *)
EXTENDS Naturals

CONSTANT None       \* the part of a text, or the link, that is not there

-----------------------------------------------------------------------------
(* DID URLs and DID documents.                                               *)

\* An identifier did:method:id
Did(method, id) == [method |-> method, id |-> id]

DidUrl(did, query, fragment) ==
    [did |-> did, query |-> query, fragment |-> fragment]

\* substring(0, indexOf("#")): empty where there is none.
UpToFragment(url) ==
    IF url.fragment = None THEN DidUrl(None, None, None)
    ELSE DidUrl(url.did, url.query, None)

\* substring(0, indexOf("?"))
UpToQuery(url) ==
    IF url.query = None THEN DidUrl(None, None, None)
    ELSE DidUrl(url.did, None, None)

Secp256k1 == {"Secp256k1VerificationKey2018", "EcdsaPublicKeySecp256k1",
              "Secp256k1SignatureVerificationKey2018",
              "Secp256k1SignatureAuthentication2018"}

Ed25519 == {"Curve25519EncryptionPublicKey", "ED25519SignatureVerification",
            "Ed25519VerificationKey2018"}

\* publicKeyFromDID throws for any other type of key.
IsKeyUnderstood(entry) == entry.type \in Secp256k1 \cup Ed25519

AlgOf(entry) == IF entry.type \in Secp256k1 THEN "ES256K" ELSE "EdDSA"

\* Mistake: any key of the document will do.
IsListed(document, entry) == entry \in document.publicKey

\* Only a key that is listed for authentication proves who signed.
IsRelationProper(document, entry) == entry.id \in document.authentication

\* Mistake: the key of the document has to have the very identifier.
IsKidSame(kid, entry) == kid.fragment = None \/ entry.id = kid

\* A kid without a fragment means all keys; one with it means one key, or, as
\* 3ID has a query in it, all the keys of the DID before the query.
IsKidProper(kid, entry) ==
    \/ kid.fragment = None
    \/ entry.id = kid
    \/ UpToFragment(entry.id) = UpToQuery(kid)

Selected(document, kid) ==
    {entry \in document.publicKey :
        IsRelationProper(document, entry) /\ IsKidProper(kid, entry)}

\* extractPublicKeys, after the filters
ExtractPublicKeys(document, kid, alg) ==
    {entry.key : entry \in {e \in Selected(document, kid) : AlgOf(e) = alg}}

-----------------------------------------------------------------------------
(* did:key, where the identifier is the key, after a prefix that says what it *)
(* is for.                                                                   *)

Fingerprint(key, alg) == <<alg, key>>

Identifier(fingerprint) == Did("key", fingerprint)

KeyId(fingerprint) == DidUrl(Identifier(fingerprint), None, fingerprint)

\* The prefix, not the header of a signature, says of which type the key is.
KeyDocument(fingerprint) ==
    [publicKey |-> {[id |-> KeyId(fingerprint), key |-> fingerprint[2],
                     type |-> IF fingerprint[1] = "ES256K"
                              THEN "Secp256k1VerificationKey2018"
                              ELSE "Ed25519VerificationKey2018"]},
     authentication |-> {KeyId(fingerprint)}]

KeySigner(key, alg) ==
    [key |-> key, header |-> [alg |-> alg, kid |-> KeyId(Fingerprint(key, alg))]]

-----------------------------------------------------------------------------
(* Links in a record: a CID in memory and in IPFS, an object {"/": text} in  *)
(* JSON.                                                                     *)

Link(form, to) == [form |-> form, to |-> to]
NoLink == Link("none", None)

\* A record with its links in another form.
Relinked(record, prev, id) == [record EXCEPT !.prev = prev, !.id = id]

AsObject(link) == IF link.form = "cid" THEN Link("object", link.to) ELSE link
AsCid(link) == IF link.form = "object" THEN Link("cid", link.to) ELSE link

\* UpdateRecordWaiting.encode, and linkify when a payload is signed
Encoded(record) == Relinked(record, AsObject(record.prev), AsObject(record.id))

\* Mistake: the links of a record are left as JSON has them.
AsReceived(record) == record

\* normalizeRecord, which RecordWrap calls on what it is given
Normalized(record) == Relinked(record, AsCid(record.prev), AsCid(record.id))

\* toString tells a CID's text, but says the same of every object.
AsText(link) ==
    CASE link.form = "cid"    -> Link("object", link.to)
      [] link.form = "object" -> Link("object", None)
      [] link.form = "none"   -> NoLink

-----------------------------------------------------------------------------
(* Keys.  Nobody but the holder of a key makes what the key verifies.        *)

SignBytes(key, message) == <<key, message>>

VerifyBytes(key, message, signature) == signature = SignBytes(key, message)

-----------------------------------------------------------------------------
(* JWS: a header, a payload, which the detached form leaves out, and a       *)
(* signature over both.                                                      *)

JWSDecoded(header, payload, signature) ==
    [header |-> header, payload |-> payload, signature |-> signature]

SigningInput(payload, header) == <<header, Encoded(payload)>>

Create(signer, payload) ==
    JWSDecoded(signer.header, Encoded(payload),
               SignBytes(signer.key, SigningInput(payload, signer.header)))

SignedBy(jws) == jws.signature[1]

AsDetached(jws) == [jws EXCEPT !.payload = None]

AsAttached(payload, detached) == [detached EXCEPT !.payload = Encoded(payload)]

\* What is verified is the text up to the signature.
VerificationInput(jws) == <<jws.header, jws.payload>>

\* decode throws where the header lacks a part or names another algorithm.
Decodes(jws) ==
    /\ jws.payload # None
    /\ jws.header.kid # None
    /\ jws.header.alg \in {"ES256K", "EdDSA"}

\* verify, with the document that the kid resolves to: one of the keys will do.
Verify(jws, document) ==
    /\ Decodes(jws)
    /\ \A entry \in Selected(document, jws.header.kid) : IsKeyUnderstood(entry)
    /\ \E key \in ExtractPublicKeys(document, jws.header.kid, jws.header.alg) :
         VerifyBytes(key, VerificationInput(jws), jws.signature)

-----------------------------------------------------------------------------
(* Records that carry their signature.                                       *)

CreateEnveloped(signer, payload) ==
    [patch |-> payload.patch, prev |-> payload.prev, id |-> payload.id,
     signature |-> AsDetached(Create(signer, payload))]

\* assertSignature throws unless this is so.
AssertSignature(record, document) ==
    LET payload == [patch |-> record.patch, prev |-> AsText(record.prev),
                    id |-> AsText(record.id)]
    IN  Verify(AsAttached(payload, record.signature), document)
=============================================================================
