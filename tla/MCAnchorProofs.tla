-------------------------- MODULE MCAnchorProofs --------------------------
\* The model that TLC checks: small batches, and the kinds of BLOCKCHAIN_URL.
EXTENDS AnchorProofs

Request(cid, doc) == [cid |-> cid, docId |-> doc]
MCCreations == {"first", "second"}

\* Batches of one and three requests; the second creation has the three
\* again, as the query returns them in another order.
MCBatches ==
  [first |-> {<<Request("a", 1)>>,
              <<Request("a", 1), Request("b", 2), Request("c", 3)>>},
   second |-> {<<Request("c", 3), Request("a", 1), Request("b", 2)>>}]

Url(scheme, endpoint, options) == [scheme |-> scheme, endpoint |-> endpoint, options |-> options]
Ethereum == <<"eip155", "openrpc", "http">>

\* Two whole strings, of two endpoints, one with both keys and one with none (a
\* writer refuses it, a reader does not), one of a known transport only, one of
\* another chain, and one of too few parts.
MCUrls ==
  {Url(Ethereum, "ours", [privateKeyHex |-> "key", mnemonic |-> "words"]),
   Url(Ethereum, "other", [none |-> TRUE]),
   Url(<<"http">>, "ours", [privateKeyHex |-> "key"]),
   Url(<<"bitcoin", "openrpc", "http">>, "ours", [mnemonic |-> "words", path |-> "first"]),
   Url(<<"eip155", "http">>, "ours", [mnemonic |-> "words"])}

MCSchemeParts == {"eip155", "openrpc", "http", "https", "bitcoin"}

-----------------------------------------------------------------------------
\* The same of trees of up to nine leaves, where nodes are carried up more
\* than once: grown level by level, every path leads down to its leaf.
LevelAbove(level) ==
  IF IsRootLevel(level) THEN level
  ELSE [i \in 1..PairsOf(level) |-> MergeAt(level, i)] \o Carried(level)

TreeOf(n) == LET above[k \in 1..5] == IF k = 1 THEN LeafLevel([i \in 1..n |-> i])
                                     ELSE LevelAbove(above[k - 1])
            IN  above

ASSUME EveryPathLeadsDown ==
  \A n \in 1..9 : \A i \in 1..n :
    LET tree == TreeOf(n)
    IN  /\ IsRootLevel(tree[5])
        /\ OriginalRecord(RootOf(tree), PathOf(tree, i)) = Text(i)
=============================================================================
