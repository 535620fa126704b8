------------------------- MODULE MCSignedDocument -------------------------
(* Updates that are signed in the ways the code signs them.                *)
EXTENDS SignedDocument, TLC

\* Identifiers and fragments are tuples, as the fingerprint of a did:key is one.
ThreeId == [method |-> "3", id |-> <<"owner">>]
ThreeKey(name, type) ==
  [id |-> DidUrl(ThreeId, None, <<name>>), key |-> name, type |-> type]

\* At first two keys, of which one is for encryption; then another one.
MCVersions ==
  <<[publicKey |-> {ThreeKey("signing", "Secp256k1VerificationKey2018"),
                    ThreeKey("encryption", "Curve25519EncryptionPublicKey")},
     authentication |-> {DidUrl(ThreeId, None, <<"signing">>)}],
    [publicKey |-> {ThreeKey("later", "EcdsaPublicKeySecp256k1")},
     authentication |-> {DidUrl(ThreeId, None, <<"later">>)}]>>

\* The wallet names a version in the query of its kid.
ThreeSigner(key, alg, fragment) ==
  [key |-> key, header |-> [alg |-> alg, kid |-> DidUrl(ThreeId, "version", <<fragment>>)]]

MCSigners ==
  [genesis |-> ThreeSigner("signing", "ES256K", "signing"),
   byOwner |-> ThreeSigner("signing", "ES256K", "signing"),
   byOther |-> ThreeSigner("encryption", "EdDSA", "encryption"),
   byKey   |-> KeySigner("key", "EdDSA"),
   moved   |-> [key |-> "signing", header |-> [alg |-> "ES256K", kid |-> DidUrl(ThreeId, None, None)]]]

MCTampered == [moved |-> "prev"]

MCUpdates == DOMAIN MCSigners \ {"genesis"}

\* Both parties have signed the key's update, one of them the others.
MCContent ==
  [u \in MCUpdates |->
     [num |-> 1, signed |-> IF u = "byKey" THEN Parties ELSE {"partyA"}]]

\* The jobs are alike.
Symmetry == Permutations(Jobs)

\* It makes no difference to what comes which object is which, only what it holds
\* and who refers to it; what no one refers to makes none at all.
Holders == {None} \cup {j \in Jobs : jobs[j].kind # "idle"}

RefOf(h) == IF h = None THEN snap.ref ELSE jobs[h].ref

ReferredTo ==
  <<doctype, version, prev, [snap EXCEPT !.ref = 1],
    [j \in Jobs |-> [jobs[j] EXCEPT !.ref = 1]],
    [h \in Holders |->
       <<heap[RefOf(h)], {k \in Holders : RefOf(k) = RefOf(h)}>>], refused>>
===========================================================================
