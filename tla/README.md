# A specification of vessel-kit

vessel-kit keeps *documents*: a document is a chain of content-addressed records in IPFS, which starts
at a genesis record, is continued by signed updates and by anchors, and is held by several nodes at a
time. An *anchoring service* collects requests to prove that a record existed, puts the root of a Merkle
tree of them on a blockchain and hands out the proofs. This directory holds TLA+ modules for all of it, the
TLC configurations that check small instances of them, and TLAPS proofs of the most important properties
for every instance. `PROJECT.json` maps each definition to the lines of the source it stands for.

## Inventory

| Part | Where | State it keeps | Operations | Modelled by |
|---|---|---|---|---|
| anchoring runs | `apps/anchoring-api/src/anchoring`, `storage` | tables `requests`, `anchors`, `transactions`; local variables of the runs under way; the blockchain | `anchorRequests` (a cron job starts it), `separateRecordsByTime`, `RequestSubscriber.afterUpdate` | `AnchoringService`, `SeparateByTime`, `SeparationLoop`, `RequestLifecycle` |
| anchoring REST API | `apps/anchoring-api/src/api`, `scenarios` | the calls under way | POST and GET of a request; pages of requests, anchors and transactions; the list of a document | `AnchoringApi` |
| read-outs and wiring | the same, `app.module.ts` | - | statistics, GraphQL subscription | not modelled |
| documents | `lib/vessel/src` (`document*.ts`, `cloud/`, `util/`) | per node: the cache of documents, the snapshot of each (`FrozenSubject`), its subscription; the records in IPFS; messages on the pubsub | `load`, `update`, `applyHead`, `requestAnchor`, `close`, heads published, requested and answered | `DocumentSync`, `ReplicatedDocument`, `NodeProcess`, `SignedDocument` |
| two-party agreement | `lib/two-party-agreement` | the view inside a snapshot | `knead`, `canApply`, `applyAnchor` | `TwoPartyAgreement`, `SignedDocument` |
| tile doctype | `lib/vessel/src/doctypes/tile-*` | the same | `knead`, `apply`, `canonical`, `change` | `SignedDocument`; `change` in `RemoteClients` |
| rulesets | `lib/vessel/src/doctypes/vessel-*` | none | retrieve, compile, `canApply`, `canonical` | `SignedDocument`, `RemoteClients` in part: compiling is out of scope |
| anchoring client | `lib/anchoring/src/remote` | one Subject of observations for all documents, the names of the polling loops | `requestAnchor`, polling, `anchorStatus$` | `NodeProcess`; its effect on one document in `DocumentSync` |
| Merkle tree | `lib/anchoring/src/merkle-tree` | none | `fromLeaves`, `path`, the way back | `MerkleTree` |
| anchor proofs | `lib/anchoring/src` (`anchoring.ts`, `blockchain-*.ts`, `ethereum/`) | the nodes, proofs and leaves in IPFS, the chain | `create`, `verify` | `AnchorProofs` |
| connection strings | `lib/blockchain-connection-string` | none | parse, `isValid`, `fromString` | `ConnectionStrings` |
| remote client | `lib/vessel/src/remote` | a client's copy of a snapshot and its canonical form | `create`, `load`, `update`, `change`, polling every 5 s | `RemoteClients` in part |
| wheel API | `apps/wheel-api` | connected clients | REST calls that pass on to the documents | `RemoteClients`, `DocumentSync`, `AnchorProofs` in part |
| identity, codecs | `lib/identity`, `lib/codec` | keys | sign, verify, resolve; the forms of links and records | `Signatures` in part |
| user interfaces | `apps/*-ui`, `lib/ui-shared` | - | - | not modelled |

How they interact: a client calls the wheel API, directly or through the remote client, which calls a
`Document`; the document's service stores records in IPFS, publishes heads on the pubsub of all nodes and
asks the anchoring client for anchors; the client POSTs to the anchoring REST API and polls it; the cron
job of the anchoring service reads the table the REST API has written, builds a Merkle tree in IPFS, sends
a transaction with its root, and stores proof and leaf records that the polls then find and the documents
apply like any other head, once they have verified them against the chain.

What is hard here:

- **Runs of the cron job overlap.** The job does not wait for the run before
  (`anchoring-schedule.service.ts:31`), and a run reads its rows once and saves the entities it read.
- **Failures between saves.** A run saves a transaction, then for each request an anchor and the row;
  it may throw or the process may stop between any two of them. Nothing is undone.
- **Unordered rows.** The query has no `ORDER BY`; times may tie.
- **Jobs of a node overlap.** An update and every head received (`mergeMap`) read the snapshot, await, and
  replace whatever snapshot there is when they end; the ruleset even writes into the object it was given
  (`ruleset.ts:56`). Two PUTs that point to the same record are both accepted (`document.service.ts:67`).
- **Errors are answers**: a lookup for a party's signature that fails is taken for a signature that does not fit
  (`ruleset.ts:18`), so one record may be an agreement on one node and a draft on another.
- **A head that does not continue the log** (a sibling) throws, and the error ends the subscription.
- **Messages are published once**; a restarted node starts at the genesis record again.
- **Anchors come late**, when the log has often gone on, and are siblings by then.
- **Loads race**: two loads of a document may both miss the cache (`document.repository.ts:61`).
- **One Subject for all documents**: the error of one GET ends what every document hears.
- **Answers of polls come in any order**, and a canonical form is fetched for each of them, while a
  mutation of the same document is under way.
- **The chain is reorganised** between the two calls that a proof's number and time come from.
- **Keys change**: signatures are checked against the DID document of the moment.

What makes each part correct: the tables, the chain and the announcements agree whatever runs overlap
(`AnchoringService`); every request is settled and the last state of every document anchored; a call's
answer fits the tables it races (`AnchoringApi`); the loop computes what it should (`SeparationLoop`); the
log on every node is a lawful chain, whatever the checks of the parties' signatures find, a head stands for one
log, and, where the jobs of a node do not overlap, nothing it has shown is taken back and nodes catch up with
each other (`DocumentSync`); a record is polled once, and whoever asked
hears the outcome (`NodeProcess`); a patch changes what its author changed and a client comes to show
what the node has (`RemoteClients`); a path leads to its record, a proof names a block that held the root, and
what a node says of a leaf follows from the block of its transaction (`AnchorProofs`); only what was signed gets in, and the state is what the log leads to (`SignedDocument`).

## Modules

### The anchoring service

- `RequestLifecycle`: the life of a request as `docs/assets/lifecycle.puml` draws it; the abstract
  specification of the status column.
- `SeparateByTime`: the result of `separateRecordsByTime` in one expression, for any records and scan
  order. `SeparationLoop` is the loop itself, one record a step.
- `AnchoringService`: a run is split at every `await`, its place kept in `pc`: `ReadRequests`,
  `MarkProcessing`, `SeparateAndMarkOutdated`, `SendTransaction` (or `TransactionRejected`),
  `SaveTransaction`, and for each response `SaveAnchor` and `SaveRequest`, whose save calls the subscriber
  (`DidAnchor`). `RunThrows`, `RequestRolledBack` and `Restart` are the failures. `Accept` is the arrival
  of a request. The variables are the columns that the code reads again: `status`, `docId`, `createdAt`
  of the requests; request and transaction of the anchors; the chain is a sequence of leaf sets.
- `AnchoringApi` composes the service with the REST calls, each split at its queries: POST is `PostFind`,
  `PostInsert` or `PostConflict`, and then the two queries of GET, `ReadRow` and `LookUpAnchor`. A page of
  requests is `ListPage`, `ListCount` and `ListAnswer`; pages of anchors and of transactions are two
  queries, the page and the count, between which runs add rows (`AnchorPage`, `AnchorCount`,
  `TransactionPage`, `TransactionCount`); `GetMany` is the list of a document. Here the clock stamps rows; a
  call may be slower than others, so rows are committed out of the order of their times, as `Accept`
  allows. The steps of the runs are those of `AnchoringService`, so the composition implements it by construction,
  and no property says so.

### Anchor proofs

- `MerkleTree`: levels are grown pair by pair from the sorted cids (`MergeAt`, `Carried`), `PathOf` notes the
  turns on the way up and `OriginalRecord` follows them down. A leaf's id is a text, an inner node's a link;
  a link is represented by the pair of ids it was stored with, as IPFS addresses by content.
- `ConnectionStrings`: a connection string split into the parts of its scheme, endpoint and options: what
  `isValid` accepts, what the configuration makes of one that is not (`Configured`: `null`, which ends the program
  when it comes to parse it), what `fromString` makes of it, which writer and readers the two programs build.
- `AnchorProofs`: `Anchoring.create` in one program (`StartCreation`, `MergePair`, `SendTransaction`,
  `WaitForTransaction`, `GetBlock`, `PutLeaves`, `CreationFails`) and `BlockchainReader.verify` in
  another (`Verify`, `GetTransaction`, `CompareWithBlock`, `VerificationFails`), one action per await, over a
  chain (external) that mines (`MineBlock`) and is reorganised (`Reorganise`) at any time; blocks that have been
  replaced do not come back. `StartApi` and `StartNode` are the two programs' checks of `BLOCKCHAIN_URL`, which may
  name two chains: the other one holds nothing of ours. `Agrees` is the comparison of a transaction's data with
  the root as the code makes it: a test for a beginning.

### Documents

- `TwoPartyAgreement`: a view is the number and the stage. What an update's patch leads to is the constant
  `Content`, since two records with the same parent and patch are one record: the number, and which parties
  have signed. What the checks of these signatures find, at each application of the record anew, is any subset of
  those who signed (`Checks`), as every error is taken for "does not fit". `CanApply` and `Stage` are the ruleset's.
- `DocumentSync`: one document on several nodes. `prev` is IPFS (what each stored record points to),
  `doc` the snapshot of each node (log and view), `stream` its subscription, `jobs` what the nodes are
  awaiting, `inbox` and `asked` the messages under way, `polls` what a node polls for. A client's update
  (`PutUpdate`) and a head or anchor (`ReceiveHead`, `ObserveAnchor`) begin a job with the snapshot of the
  moment; `Walk` is one turn of `tail`, `ApplyRecord` one of `applyLog`; `Finish` puts the job's snapshot in
  place of the node's and publishes the head (`FrozenSubject.next`, `handleUpdate`); `Throw` and `CallFails`
  end the job, and a head's error also ends the stream; a lookup for a party's signature that fails does not. A
  snapshot notes which of its updates its node took for agreements (`agreed`). `ObserveStatus`, `ObserveOutdated` and `PollFails`
  are the other outcomes of a poll, `LoseMessage` and `Restart` what the world does.

What is abstracted there: names of jobs come from a pool `Jobs` that all nodes share, and a message may wait
until one is free; the record of a refused update is left out, as nothing refers to it; the steps of a job
between two awaits that touch no shared state are one step; the merge of siblings always throws, because it
applies the whole local log and a doctype refuses the genesis record
(`document-update.service.ts:71`, `vessel-document-alpha-doctype.ts:195`), so it is `Throw`; the
anchoring service makes a leaf (`Anchor`) only while some node asks for it. FAILED is never observed
because no code writes it. The view's anchor proof and the move from `current` to `freight` are left
to `SignedDocument`: what reads the content takes whichever is there.

### One process, one client, one object

- `ReplicatedDocument`: what a document on several nodes promises: records are written once, histories are
  only continued (or begun anew), and a closed one goes on with anchors only; each replica closes for itself,
  and only at an update that both parties signed. `DocumentSync` implements it
  where the jobs of a node do not overlap (`ImplementsReplicated`).
- `NodeProcess`: the cache of `DocumentRepository` and the `AnchoringHttpClient` that all documents of a
  process share. A load is `Load` (it misses the cache) and `Construct` (the document replaces what the
  cache holds), so loads may race (`raced`). `RequestAnchor` sends a POST; its answer (`PostAnswered`)
  tells the Subject and starts a loop of GETs (`poll`) unless the record's name is in `tasks`. Answering a
  call (`ServePost`, `ServePoll`) and hearing the answer are separate steps. The service behind is what
  `RequestLifecycle` promises (`Progress`).
- `RemoteClients`: clients of a node that show its document by version: `AnswerPoll` and `HearPoll` are
  separate, so that answers overtake each other; every answer shown fetches a canonical form (`deriving`,
  `Derived`), also in any order; `change` is `BeginChange` (the mutation starts from the canonical form),
  `Send` (the patch is compared with the canonical form of then), on the node `BeginUpdate` (the snapshot is read),
  `EndUpdate` (what became of it replaces whatever snapshot there is) and `AnswerUpdate` (with the state of then),
  and `EndChange`. `BeginExternal` and `EndExternal` are a job of someone else, another PUT or a head, split in the
  same way, so that it may overlap with the PUT. A client may begin several changes and change what it has closed.
  `overtook` and `replaced` only record what has happened, for the properties.
- `Signatures`: JWS attached and detached, DID URLs, the choice of the keys that may verify
  (`Selected`, `ExtractPublicKeys`), did:key documents, whose key type comes from the prefix of the fingerprint, and
  the forms of a link at each place where a record is signed, normalised or asserted.
- `SignedDocument`: one document of a process down to the objects its state is kept in. A snapshot and a job
  refer to an object of `heap`; a tile makes a new one at every record, the ruleset of the agreement writes
  an anchor into the one it was given (`ApplyAnchor`), whoever else refers to it. `TakeHead` has the merge of
  a fork apply the local records once more before it fails. `Rotate` changes the DID document that
  signatures are checked against.

Operators marked "mistake" are used by no definition. Each is the operator that follows it with a
plausible mistake in the code; `PROJECT.json` ("mutants") pairs it with the property that notices.

## Runs

| Run | Instance | Shows |
|---|---|---|
| `separation_loop` | all arrays of 4 records, 2 documents, 3 times | the loop computes `SeparateByTime`, and the newest record is never given up |
| `service_overlap` | 3 requests, 2 documents, 2 times, 2 overlapping runs, 2 transactions, 1 failure | what tables, chain and announcements say about each other |
| `service_one_run` | the same requests, one run at a time, 4 transactions, 1 failure; liveness | the drawn lifecycle, settling, the last state anchored, no anchor paid for twice without a failure |
| `api` | 2 calls racing and 2 runs over one cid posted for 2 documents, 2 times, 1 failure | answers and pages fit the tables |
| `anchor_proofs` | 2 creations, of 1 or 3 leaves and of the same 3 in another order; 5 values of `BLOCKCHAIN_URL`, of which 2 name chains; 1 reorganisation, 1 failure; liveness | paths lead to their records, proofs name one block, what is refused and why, creations end; paths of trees of up to nine leaves |
| `sync_overlap` | 2 nodes, one of which takes updates, 2 jobs at a time, a draft and an agreement | chain, law and head under every interleaving and every outcome of the signature checks |
| `sync_order` | 2 nodes, one job at a time, an anchor, one fault | the document only grows, by what the ruleset allows, and is a replicated document that an agreement closes; when all is still and nothing was lost, a node that listens has what any node has |
| `sync_catch_up` | 2 nodes, one of which takes updates, 2 jobs, one at a time on each node, one fault; liveness | nodes come to the same records, or stop listening at what they can not take over, unless a message is lost |
| `node_process` | 1 document, 2 objects of it, 1 record, 2 requests for its anchor, 2 failures; liveness | one loop per record, what was asked for is pursued until its end is heard, statuses in order, loops end, whoever asked hears the end where nothing fails |
| `remote_client` | 1 client that edits one of 2 fields, 1 change at a time and 1 job of others, 3 versions, 2 answers and 2 canonical forms under way, 1 failure; liveness | what a patch changes, when an edit is lost, what client and canonical form come to |
| `signed_document` | 4 updates (by the owner's key, by the owner's encryption key, by a did:key, one moved to another place in the log after signing) and a leaf, of which 3 are stored; 2 jobs; 2 versions of the DID document | who gets into a log and who does not, and that the state is what the log leads to |
| `sync_agreement` | 2 jobs of one node | *violation*: a snapshot in agreement stage is replaced |

Why these bounds: two runs are the fewest that overlap, and two saves of one row or two transactions with
one request already make every conflict between them; three requests give a document two versions and a
second document in one batch; two times give both a tie and an order. A second job is the fewest for a
stale snapshot, two updates for a sibling, and two nodes for a message. In `sync_order`
the pool holds one job, so that the jobs of the two nodes come one after the other as well; in `sync_catch_up`
each node has one. The theorems below need no such bound. Three leaves are the fewest of which one is carried up; deeper trees
are checked by `EveryPathLeadsDown`, an assumption of `MCAnchorProofs` that TLC evaluates. One
reorganisation parts any two calls of a creation or a verification; `CreationEnds` is checked for one, the other
properties of `AnchorProofs` are proved for any number. A change of the client and a job of others overlap on the
node as two changes would; the theorems are about any number of changes. Two objects make a race of loads, two
requests one for each of them, and the second failure may end the loop that the first has left. Two answers
and two canonical forms are the fewest that overtake each other, and in three versions a client may have
missed one between the one it shows and the one it patches. Three stored records make a fork with a log
of two. `MaxFaults`, `MaxTransactions` (what the wallet can pay for), `MaxBlocks` (blocks without any of the
transactions), `MaxReorgs`, `MaxObjects`, `MaxRequests`, `MaxVersions`, `MaxAnswers`, `MaxDeriving`, `MaxRecords`
and the sets (`Jobs`, `Changes` and the like) are all the bounds there are.

Symmetry is used only in runs of invariants and of a safety refinement, over sets whose members no
definition tells apart. The VIEW of `signed_document` keeps of the objects what each holds and who refers to it, not which
one it is, and leaves out those that nobody refers to: an action asks only whether an object is unused, and
overwrites it before reading it.

No run checks a type invariant: those of `AnchoringService`, `AnchoringApi`, `AnchorProofs`, `DocumentSync`,
`NodeProcess` and `RemoteClients` are proved, for every value of the constants. The types
of `SignedDocument` follow from its records' constructors and have no formula.

`CHECK_DEADLOCK FALSE` is set in the runs of `DocumentSync`, `AnchorProofs`, `NodeProcess`, `RemoteClients` and
`SignedDocument`, where all may rest for ever: every record is written and known, every creation has ended,
every document is closed. The cron job never rests.

Fairness. `AnchoringService!FairSpec`: the cron job ticks for ever and every await settles, so each run's
next step is weakly fair; failures are not. `DocumentSync!FairSpec`: a message that is not lost arrives
and a job goes on (awaits settle), so answers and job steps are weakly fair; a head is worked on as
soon as it arrives, but in the model it may have to wait for a free name of a job, which others take again and
again, hence strong fairness of `Hear`. Nothing is assumed of clients, loads, polls and faults.
`CatchesUp` and `QuietNodesAgree` carry two assumptions in their formulas: no message was lost (`faults.lost`:
messages are published once and never repeated), and the jobs of a node do not overlap (`~Overlap`). Without either
they are false of the code: heads are merged concurrently (`document.service.ts:114`), and an older job that ends
last takes a node back. `QuietNodesAgree` is what catching up comes to when nothing goes on any more, and needs no
fairness; whatever else has failed.
`AnchorProofs!FairSpec`: some creation goes on when the call it awaits has settled (one event loop runs them all, and each has a bounded
number of steps), and the network mines what it was sent; nobody need start, verify or fail. `NodeProcess!FairSpec`: calls are answered and heard, timers fire, and the service gets
on with its requests, which `service_one_run` shows of the service. `RemoteClients!FairSpec`: the timer of an
open document ticks and the node answers, an answer that is there is heard, forms come in, and a change goes
on. The name of a pending answer is immaterial, so the fairness of `HearPoll` is of hearing any of them.

## Where documents and code disagree

Checked by a run:

- `README.md:76` says that a document can not be changed after it is in agreement stage; of two
  overlapping jobs with the same snapshot the later one replaces it (`sync_agreement`). With one job at a
  time it is final (`AgreementIsFinalWithoutOverlap`, for every instance).

Met while modelling, and in the modules as the code has it:

- `lifecycle.puml` draws no arrow out of ANCHORED and OUTDATED; overlapping runs write PROCESSING over both
  (`anchoring.service.ts:40`): `ImplementsLifecycle` holds of one run at a time and of no more.
- `docs/anchoring.md:158` says that any request but the most recent one becomes OUTDATED; one that comes
  after the newer one in the array is in neither list (`anchoring.service.ts:90`), stays PROCESSING and is
  anchored by the next run.
- `docs/anchoring.md:157` says that a failed request is FAILED; no code writes that, and the row stays
  PROCESSING. The next run takes it up again, which `EveryRequestSettles` rests on.
- A leaf of a tree of several requests can not be verified: the leaves' ids are texts (`anchoring.ts:75`),
  `verifyPrev` calls `equals` of what it finds at the end of the path (`blockchain-reader.ts:88`), and a text has
  none. `docs/anchoring.md:181` says that left and right hold links. In `AnchorProofs` this is the verdict
  "not a link", which only the leaf of a batch of one escapes; `LeafLeadsToRecord` is about where the path
  leads and takes both forms.
- `EthereumReader` compares only the bytes that the transaction data has (`ethereum-reader.ts:42`): data that are a
  beginning of the root, and no data at all, agree with it. `Agrees` has the test; what the service sends is a
  whole root (`Bytes`). That an accepted root is in the transaction is therefore not stated.
- A party's signature that can not be checked counts as none (`ruleset.ts:18`): nodes with the same log may show a
  draft and an agreement, so `SameHeadSameLog` is about log and number and not about the stage, `LogIsLawful` and
  `ImplementsReplicated` about what each node itself took for an agreement.
- Two PUTs of one `prev` are both accepted, and the one that ends last takes the edit of the other back
  (`document.service.ts:67` and `:74`). `LosesOnlyWhatWasHeard` names this among the ways to lose an edit.
- An invalid `BLOCKCHAIN_URL` is not refused: the check makes `null` of it (`config.service.ts:42` of the anchoring
  API, `:32` of the wheel API), and the program ends when it parses that.
- The list of a document's requests is queried by the bare cid, while rows hold `vessel://` and the cid, so it is
  always empty (`GetMany`).
- `applyAnchor` of the ruleset writes into the state it is given, and a fork applies the local records to the
  present one once more, so that content that no anchor has covered may become freight; a frozen snapshot
  does not prevent it, since only the outermost object is frozen. `ViewFitsLog` states what remains: the
  content, and that it was anchored.
- `VesselRulesetAlpha.apply` always throws: a ruleset document takes no record, which is `JobFails`.
- `knead` of a tile checks the signature of the first record and that of an agreement does not, so a tile
  can not be loaded any more once its signing key has been changed (`Kneads`).
- lodash `isEqual` tells no two Histories apart as equal, so that a client takes every answer for new (`News`).
- A second object of a document, left by loads that race, does not hear the heads that its own process
  publishes, and `close` does not reach it; `OneObjectUnlessRaced` says that nothing else makes one.
- `KeyIdentity` returns a compact JWS, of which `Context.sign` reads `signatures[0]`: it can not sign a record
  that way. The signers of `MCSignedDocument` are those that can.
- `EthereumReader` chooses its network by the namespace and not by the reference of the chain, so it always
  uses the endpoint it was given (`BlocksWith`).
- `DocumentRepository.history` always returns an empty list, and the live gateway sends a field that no update
  record has; neither changes any state.

## Proofs

All for every value of the constants, from the named assumptions of the modules only.

- `SeparateByTimeProofs`, `SeparationProofs`: every finite set of records has a latest one per document;
  the loop invariant `LoopInv` (the map and the array are those of the records scanned so far) gives
  `LoopComputesSeparation` and `LatestIsNewest`.
- `AnchoringProofs`, about the service: type correctness (with `MinedInChain`, because a run carries its chain
  position over an await), `AnchorIsProven`, `OneVersionPerTransaction`, `AnchoredHasAnchor` and
  `AnchoredWasAnnounced` for any number of overlapping runs. They hold because anchors are only ever
  added: a run in its loop has saved the anchor before the row. `OutdatedIsSuperseded` comes through
  `StaleIsSuperseded` (the record that took the place may itself be OUTDATED by now, but among the newer
  records there is a newest, which is not) and `SeparatesMarked`. For one run at a time, `AloneInv` (the rows
  of a run under way are still as it left them) gives that the service implements `RequestLifecycle`, and
  with `Unrecorded` (the transaction of a run is in no anchor of what the run has still to save) and `RepeatInv`
  (a request that is not done has at most as many anchors as there were failures) `RepeatedOnlyAfterFault`.
- `AnchoringProofs`, about the API: its types and the two properties of the answers, of which that of the pages rests
  on the tables of anchors and transactions only growing (`LedgerGrows`).
- `DocumentSyncProofs`: the inductive invariant `SyncInv` says of every snapshot, a node's or a job's, that
  its log is a lawful chain and that its view is what the last update in the log has led to, with the stage that the
  job's own checks found (`agreed`). The view has to be in it, since the ruleset looks at the view and the law speaks
  of the log; nothing is assumed of the checks but that they find only signatures that were made. The jobs'
  snapshots, since they become the nodes'. It is stated of an explicit map of links, so that storing a new
  record is one lemma (`StoringKeepsGood`: a chain holds stored records only, and those never change).
  From it come `TypeOK`, `LogIsChain`, `LogIsLawful`, and `SameHeadSameLog`: two chains that end in
  the same record are equal from the end back (by the least place where they differ), none is longer
  because the genesis record has no predecessor, and the log tells the number. With `~Overlap`, the
  invariant `Alone` (a node's only job continues the node's snapshot) gives `LogOnlyGrows` and
  `AgreementIsFinal`; it is exactly what overlapping jobs break. As long as no message is lost, `ComingInv` gives
  `NothingIsForgotten`: of any two loaded nodes, one that listens has the other's head in its log, or in its
  inbox, or in a job (as the record to look for, to apply, or already in the job's snapshot), or the other has
  still to answer a REQUEST. A restart and a late load are covered by the REQUEST, a new head by its publication
  (`NewHeadIsPublished`), and a job that fails takes the node's stream with it, which is why the claim is
  only of nodes that listen. The head brings its whole log, as logs are chains (`HeadThenAll`). With overlapping
  jobs the claim is false: a job that began earlier ends last and takes the node back, and nobody publishes
  the newer head to it again. `ReplicatedWithoutOverlap` is the refinement
  of `ReplicatedDocument`, action by action, from the same two invariants.
- `NodeProcessProofs`: `LoopInv` (a request whose POST is not answered has no loop yet, so its place for one is
  free when the name is) gives `OneLoop`; `ObjectInv` (while the one load of a document is under way the cache
  has nothing of it, and then nobody else has) gives `OneObject`; `HearInv` gives `HeardInOrderAlways`: of a
  record that was asked for once, what is on its way is never behind what was heard (`NotBehind`) nor ahead
  of what the service has (`NotAhead`). `PursueInv` (an object that was asked for a record is one of its
  document, and whoever listens does so on an open Subject) gives `AskedIsPursued`, the part of
  `RequestedIsHeard` that needs no fairness: nothing that was asked for is dropped between a POST, its answer, the
  name in `tasks` and a loop that ends, unless a POST for that very record failed.
- `RemoteClientsProofs`: one inductive invariant `Inv`. `FollowInv` (without overtaking and failures the last
  form asked for is that of the version shown) gives `CanonicalIsOfShown`; `ChangeInv` (while no other form
  comes in, the mutation, the comparison and the base of the patch are of one version, and the node applies a record
  to the snapshot its prev was the last of) gives `OwnFieldOnly` and `LosesHeardOnly`, for any number of changes under
  way on any clients. `HistoryInv` and `StartedInv` say that clients know versions that the node has had.
- `AnchorProofsTheorems`, about the tree: `PathsLeadToRecords` takes any tree that stands as `grow` leaves it, of any
  size and shape. The recursive functions and folds of `MerkleTree` are shown to exist and to be what
  their equations say by the least place where two computations differ (`DownExists`, `RecursionExists`,
  `ResolveLast`); a turn noted on the way up is undone on the way down, level by level (`UplinkLeadsBack`,
  `PathLeadsDown`). `TreeInv` (a creation's levels are such a tree, grown as far as its place
  says, and its proof is of that tree) and `LeafInv` (each stored leaf leads to its record) give
  `LeafLeadsToRecord`. `SameBatchSameRoot`: the sort puts a request where the number of smaller ones says (`Ranks`; it
  rests on `BatchConstants`, one request of each document in a batch, which `separateRecordsByTime` gives), so two
  orders of one set are sorted to one list (`AscendingPlace`), and one list grows one tree (`TreesSame`).
- `AnchorProofsTheorems`, about the chain: `BlockInv` (a hash stands for one mined block, whatever the chain has
  become) gives `ProofNamesOneBlock`: the block that is asked for by the receipt's hash is the one that held the
  root, even when it was replaced meanwhile. `VerdictsFollowChain` rests on `ChainInv` (what is sent and mined are
  roots of creations that have come that far, a block is in the place its number says, and a transaction waits or is
  in one block of the chain: `OnceOnChain`, through every reorganisation), `ReceiptInv` (a proof is of the block that
  its transaction was reported in), `UrlInv` (every connection that a program starts with names the network
  `eip155`, as the proofs do) and `VerifyInv` (as long as that block is on the chain, the verification meets it).
  `TypeInv` adds the types.
- `SignedDocumentProofs`, about signatures: `Authentic` says of a record, by its signer alone, that it is untampered
  and that the signer's key was listed in a DID document up to the present version; it only ever becomes true.
  What passes `assertSignature` is authentic (`AssertedIsAuthentic`), and `SignedInv` carries this through every
  job's log and the await between the check and the patch to the snapshot's log: `AcceptedIsSigned`. The other
  direction is `RefusedIsNotListed`: normalising and denormalising bring every link back in the form it was signed in
  (`LinksComeBack`, `CheckedAsSigned`), and a key that is listed is selected by every form of `kid` (`ListedIsSelected`),
  so a genuine record whose key is listed passes (`ListedIsAsserted`); `RefusedInv` keeps the version at which one
  that did not pass was unlisted. It assumes `SignersSign`, the forms of `kid` that the repository's own signers
  write, with keys of the types that the code knows. TLC evaluates it for the signers of `MCSignedDocument`.
- `SignedDocumentProofs`, about the state: `ViewInv` says of the snapshot and of every job that the object it refers to
  fits its log (`Fits`): the content is that of the log's last update, and anchored if a leaf came after it; a tile's
  object is what its log gives record by record. The jobs have to be in it because they hand their objects over,
  and because an agreement's anchor is written into an object that other jobs hold: `SharedFits` says that this never
  unfits a log, which is why it is harmless for an agreement, and a tile always takes a new object, which
  is free because there are more objects than holders (`UnusedIsFree`, by counting).

Only model-checked: liveness (`EveryRequestSettles`, `LastStateAnchored`, `CatchesUp`, `CreationEnds`, `PollingEnds`,
`RequestedIsHeard`, `ClientsSettle`), because neither fairness nor `ENABLED` is within the prover's reach. Every
invariant and every action property of the passing runs is stated by a theorem. No module uses recursive
operators.

## Not modelled, and the plan

Left out for good:

- the statistics, which are three counts of different moments (the pending ones may exceed the total), GraphQL
  delivery, dependency injection, the user interfaces: they read state and pass it on, and promise nothing
  of two moments;
- wording, the text form of a path, of keys and of DIDs, the conversions between wire and memory: functions of
  one value, without state, that their tests cover better;
- the evaluation of a ruleset's code and cryptography: a content is allowed or not, and a signature is known by
  the key that made it and what it was made over.

Not modelled yet: two loads of one document by one client (`client.ts:78`, the same pattern as in
`DocumentRepository.load`) and `requestAnchor` of a remote client, which forwards to the node.

What could come next:

1. `NodeProcess` composed with `DocumentSync`: a document with two objects, of which one hears only foreign
   heads, on top of the messages between nodes.
2. The race of two loads in `RemoteClients`.
3. Proofs: what remains of `NothingIsForgotten` where jobs overlap (a node that was taken back is behind until the
   next head), and what a document's own object hears once 1. is modelled.
