------------------------ MODULE ConnectionStrings ------------------------
(***************************************************************************)
(* Connection strings (lib/blockchain-connection-string) and what the two  *)
(* programs build from BLOCKCHAIN_URL: a writer with a wallet in the       *)
(* anchoring API, readers in a node.                                       *)
(*                                                                         *)
(* A connection string is a URL that has been split: the parts of its      *)
(* scheme between the plus signs, the endpoint (host and path), and the    *)
(* options of its query.                                                   *)
(***************************************************************************)
EXTENDS Integers, Sequences

CONSTANT SchemeParts   \* the texts that SCHEME_PART matches

KnownTransports == {"https", "wss", "ws", "http", "grpc"}
Refused == [error |-> "refused"]

\* Operators marked "mistake" are used by no definition: each is the operator
\* after it with a plausible mistake in the code, for showing that the
\* properties notice.

\* Scheme.case
SchemeCase(scheme) ==
  CASE Len(scheme) = 3 /\ \A i \in 1..3 : scheme[i] \in SchemeParts
         -> "FULL_SCHEME"
    [] Len(scheme) = 1 /\ scheme[1] \in KnownTransports
         -> "KNOWN_TRANSPORT"
    [] OTHER -> "INVALID"

\* ConnectionString.isValid, which is what the configuration asks
IsValid(url) == SchemeCase(url.scheme) # "INVALID"

\* Scheme.fromURL without defaults, as both programs call it: InvalidSchemeError,
\* MissedDefaultsError, or the three parts.
SchemeFrom(url) ==
  IF SchemeCase(url.scheme) # "FULL_SCHEME" THEN Refused
  ELSE [chain |-> url.scheme[1], messaging |-> url.scheme[2],
        transport |-> url.scheme[3]]

\* ConnectionString.fromString: the connection, where the scheme is not refused
FromString(url) ==
  LET scheme == SchemeFrom(url)
  IN  IF scheme = Refused THEN Refused
      ELSE [chain |-> scheme.chain, messaging |-> scheme.messaging,
            transport |-> <<scheme.transport, url.endpoint>>, options |-> url.options]

\* walletFromConnectionString: the private key is asked first, then the
\* mnemonic, and with neither InvalidKeyMaterialError is thrown.
WalletOf(options) ==
  CASE "privateKeyHex" \in DOMAIN options -> <<options.privateKeyHex>>
    [] "mnemonic" \in DOMAIN options /\ "privateKeyHex" \notin DOMAIN options
         -> IF "path" \in DOMAIN options
            THEN <<options.mnemonic, options.path>> ELSE <<options.mnemonic>>
    [] OTHER -> << >>

\* null, of which new URL makes nothing: no scheme at all
Null == [scheme |-> << >>, endpoint |-> << >>, options |-> << >>]

\* BLOCKCHAIN_URL in the ConfigService of either program: the check does not
\* refuse a string that is not valid but makes null of it.
Configured(url) == IF IsValid(url) THEN url ELSE Null

\* BlockchainWriter.fromConnectionString with EthereumWriter's wallet
WriterStarts(url) ==
  /\ FromString(url) # Refused
  /\ FromString(url).chain = "eip155"
  /\ WalletOf(url.options) # << >>

\* mistake: a reader is made for any chain
AnyReaderStarts(url) == FromString(url) # Refused

\* BlockchainReader.build with the one endpoint of the configuration
ReaderStarts(url) ==
  /\ FromString(url) # Refused
  /\ FromString(url).chain = "eip155"

\* BlockchainReader.validateChainInclusion: the reader for a namespace
Handles(url, namespace) == FromString(url).chain = namespace
=============================================================================
