# A TLA+ model of the SubQuery indexer for Stellar

The repository is the Stellar flavour of the SubQuery indexer: a Node.js process that fetches
ledgers from a Horizon server, fetches the contract (Soroban) events of a ledger from a Soroban RPC
server, joins them to a block, and calls the handlers of a user's project for every ledger,
transaction, operation, effect and event that passes their filters. This directory holds TLA+
modules of its core, configurations for the model checker TLC and proofs for the proof system TLAPS.
Paths below are relative to `packages/node/src/` unless they begin with `packages/`.

## The system

The dispatcher that decides which heights to fetch and index, the handler sandbox, the store, the
list of dynamic data sources and the connection pool are `@subql/node-core`, an npm package. They
are not in the repository; what the code here relies on is modelled as an environment that may do
anything the calls allow.

| Part | State | Operations | Used by |
|---|---|---|---|
| Soroban RPC client, `stellar/soroban.server.ts` | `eventsCache`: events by ledger | `getEvents` | block fetch; handlers, as `unsafeSorobanApi` |
| Horizon client and block fetch, `stellar/api.stellar.ts` | `chainId`, `pageLimit`; per fetch the lists read so far | `fetchBlocks`, finalized and best height | API service |
| Block wrapping, `stellar/api.stellar.ts`, `stellar/utils.stellar.ts` | none | joins transactions, operations, effects, events; makes headers | block fetch |
| API service, `stellar/api.service.stellar.ts` | the shared Soroban client, connections | `create`, `safeApi`, `fetchBlockBatches` | everything |
| Connections, `stellar/api.connection.ts` | `networkMeta` | `fetchBlocks`, `handleError` | node-core's pool |
| Safe API, `stellar/safe-api.ts` | the block height | `getEvents`; the rest is not implemented | handlers (not handed out at present) |
| Filter processors, `stellar/block.stellar.ts` | none | one predicate for each kind of datum | indexer manager |
| Indexer manager, `indexer/indexer.manager.ts` | none | order of handler calls within a block | dispatcher, workers |
| Dictionary, `indexer/dictionary/` | list of dictionaries | query entries of a project | dispatcher |
| Blockchain service, `blockchain.service.ts` | none | headers, heights, dynamic data sources | dispatcher |
| Worker service, `indexer/worker/` | none | fetch and index in a worker thread | dispatcher |
| Project manifest, `packages/common-stellar/src`, `configure/` | the project | validation, overrides | start-up |
| Start-up, `init.ts` | none | project, data sources, dictionaries, in this order; any error stops it | the process |

How they interact:

1. At start-up `StellarApiService.create` reads the project, makes one Soroban client (or none) and
   one connection per Horizon endpoint. All connections share the Soroban client.
2. `StellarDictionaryService.initDictionaries` finds the dictionaries;
   `buildDictionaryQueryEntries` turns the project's filters into queries, whose answer tells the
   dispatcher which heights it may skip.
3. The dispatcher polls the finalized and the best height, picks the next heights, and hands them to
   `fetchBlocks` or to workers. A fetch reads the ledger and its three lists from Horizon at once,
   then the events from the Soroban client if an operation may have emitted some, and joins all.
4. Blocks go in order to `indexBlockData`, which offers every datum to every data source, applies
   the filter processors and awaits the handlers. A handler may create another data source. In
   unsafe mode it may call the shared Horizon and Soroban clients itself.
5. The header of an indexed block goes to node-core's service for unfinalized blocks, which compares
   hashes to find forks. Stellar has none; heights stand for hashes.

All of this runs in one event loop (workers have their own): between two `await`s a call is alone,
at every `await` any other call may run. Hard to get right, and to test, are therefore:

* many `getEvents` calls are in flight at once and share a cache that each of them fills with what
  its last page happened to bring along;
* pages may be cut by the server, the chain grows between two pages, and requests fail at any point;
* the first error of a batch rejects it, but cancels nothing: fetches of the given-up attempt go on
  next to those of the new one;
* the queries sent to a dictionary and the filters applied to blocks are separate code that has to
  agree, or blocks are skipped without an error;
* a block is joined from four lists and an event list that are fetched independently;
* the best height runs ahead of the chain, the servers lag behind each other, answers are late and
  the node is restarted between any two steps;
* a handler creates a data source while heights are queued that were looked up without it, and the
  node may stop before, while or after that is stored;
* what a manifest and the arguments of a handler may hold is decided by decorators, far from the
  filters and the query builder that rely on it;
* the kind of an error is told by its text, and a connection that is taken for lost never comes back.

What makes each part correct:

| Part | It is correct if |
|---|---|
| Soroban RPC client | an answer is the events of one closed ledger, each once, whatever else is in flight; a cached ledger is whole; every call ends |
| Block fetch | a batch that succeeds is the blocks of the chain in the order asked for; ledgers without contract calls do not wait for the RPC server; every attempt and every fetch ends |
| Wrapping and indexing | each datum of the ledger is offered exactly once to each data source, in the order of the ledger |
| Dictionary query builder | nothing is skipped that a handler would have got |
| Manifest, data sources | what is accepted is fit for the filters; a created data source has the options asked for, in time, also after a restart |
| Indexer as a whole | what is stored in the end are exactly the calls the project asks for, whatever dictionaries, crashes and created data sources there were |
| Dictionary service | one dictionary that does not answer costs no other; start-up does not wait for it |
| API service, safe API | a safe call behaves like one call, with all its attempts; what is optional in a project is optional |
| Headers, heights, errors, workers | no fork is ever seen, nothing is fetched far ahead of the chain, every ledger is indexed (or skipped) once and in order, in the end |

## Modules

`Proofs` modules extend the module they prove about (`SorobanServerProofs` is about `FetchSoroban`
too), `SequenceLemmas` holds what they need of sequences; `MC` modules hold the values of the
constants for TLC. Definitions named `Fault...` are not part of any specification: each is a plausible
mistake in the definition that follows it, kept to show that the properties notice it.

| Module | Models | Composes |
|---|---|---|
| `EventSource` | what a caller of `getEvents` may count on: one call, one outcome | |
| `SorobanServer` | `getEvents` with its paging and its cache | implements `EventSource` |
| `BlockSource` | what the dispatcher may count on: one attempt, all blocks or an error | |
| `BlockFetch` | `fetchBlocks`, `fetchAndWrapLedger`, and the lists of a ledger | uses `EventSource`, implements `BlockSource` |
| `FetchSoroban` | one Soroban client under all fetches of blocks | `BlockFetch` on `SorobanServer`; implements `BlockFetch` on `EventSource` |
| `ChainFollower` | headers, heights, errors, workers, restarts | takes a fetch as one step |
| `ListFilter` | `Array.prototype.filter`, with a set for the test | |
| `BlockWrap` | the join of the lists | uses `ListFilter` |
| `IndexBlock` | `indexBlockData` and the loops below it | extends `BlockWrap` |
| `Filters` | the filter processors and which kinds of handlers a datum is offered to | |
| `DictionaryQuery` | the entry of each handler, the whole query, the rows it matches | extends `Filters` |
| `Dictionary` | the loop of `buildDictionaryQueryEntries` | extends `DictionaryQuery` |
| `DictionaryService` | the steps of `initDictionaries` | uses `ListFilter` |
| `Manifest` | which manifests are accepted, and what becomes of them | extends `Filters` |
| `Indexer` | start-up, heights, blocks, created data sources, crashes and restarts | `Manifest`, `DictionaryQuery`, `DictionaryService`, `ListFilter` |
| `ApiService` | `create`, the connections, `safeApi`, the safe API's `getEvents` | uses and implements `EventSource` |

### SorobanServer

A call of `getEvents` is split at its `await`s: `AskCached` is the whole call when the cache has the
ledger; otherwise `AskServer`, then for each page `RpcReply` (the server's side) and `NextPage` or
`LastPage` (the continuation in `fetchEventsForSequence`), then `UpdateEventCache` and the return,
after the `await` of the caller. `RpcFail` may end it at every request. `Return` makes the caller
available again, so that calls follow each other. `cache` is `eventsCache`, `acc` the `accEvents` of
a call, `toCache` the events its last page brought along. Lists of events are bags, so that loss and
duplication are visible; their order is the subject of `InOrder`. An event is its position in the
stream of events, which is what its paging cursor is to the server. Fetchers ask for one ledger,
without an end and without filters, as `getAndWrapEvents` does; sandboxes may pass an end and
filters, or no ledger at all.

The RPC server is external: it gives a gapless run of what was asked for, at most the page limit of
the client and of its own (`ServerLimit`), refuses ledgers it does not have, and ingests ledgers at
any time.

### BlockFetch

The fetch of height `Heights[i]` in attempt `a` is a task `<<a, i>>`: `LedgerRead`, `NextPage` and
`LastPage` of each list run in any order, as the four promises of the `Promise.all` do, until
`SkipEvents` or `GetEvents`; then `WrapEvents`, or `EventsFail` and `Explain`. `FetchBlocks` begins
an attempt, `Fulfil` and `Reject` settle its promise. `Reject` leaves the other tasks running, and
`FetchBlocks` may begin the next attempt while they do. `hasInvokeHostFunctionOp` looks at the
operations read, not at those of the chain.

Two things are left out because they touch nothing shared: the lists that a failed `Promise.all` is
still reading, and the fetch without a Soroban client. Horizon is assumed to answer "not found", not
with an empty page, for a ledger it does not have: the code takes an empty page for the end of a list.

### FetchSoroban

`SorobanServer` has the callers `Fetchers` and `Sandboxes`; here the fetchers are the tasks of
`BlockFetch`, and the variables that belong to the client in `BlockFetch` (`status`, `asked`,
`answer`) are those of `SorobanServer` restricted to them. Where a fetch meets the client, a step of
the composition is a step of both (`GetEvents`, `WrapEvents`, `EventsFail`); all others are steps of
one. So `ImplementsFetch` says that nothing of paging and caching can be seen above the client: not
the page one fetch reads and another is answered from, not what the fetches of a given-up attempt
leave behind.

### ChainFollower

The headers made by `stellarBlockToHeader`, the two polls of `BlockchainService`, `handleError`, and
as much of the dispatcher as they serve. A slot is a worker or a place in a batch; it goes from
`queued` to `asked` to `fetched`, and back to `queued` with an error. `Forks` compares headers the
way node-core does: against the finalized header, against the parent of the next block, and by
looking the hash up again. A `Restart` keeps what is in the database, `processed`. An error message
is the set of phrases found in it. Poll answers wait in `polls`, so that they may be old on arrival.

### BlockWrap and IndexBlock

`Lists` are the lists the servers give of a `ledger`; `WrapTransactionsForLedger` joins them like
`wrapTransactionsForLedger`, by transaction hash, operation id and operation index. `IndexBlock`
walks through the block like the nested loops of `indexBlockData`: `at` is the datum, `kind` the
kind of handler, `ds` the place in the array of data sources. While it is at a call it may create a
data source at the end of that array, which the running loop then reaches. `IndexDataFail` is a handler that
throws. The properties speak of the ledger and not of the block, so that a datum lost in the join is
noticed.

### Filters, DictionaryQuery and Dictionary

`FilterBlock`, `FilterTransaction`, `FilterOperation`, `FilterEffect` and `FilterEvent` are the processors of
`StellarBlockWrapped`; `Handles(h, d)` says whether the indexer manager calls handler `h` for datum
`d`. `Dictionary` is the loop of `buildDictionaryQueryEntries` over the handlers of a project
(`AddEntry`, `GiveUp`, `Ignore`, `Return`). `QueryEntries` in `DictionaryQuery` is the same without
the loop, for the modules that use the query; `BuildsQueryEntries` says that they agree. `Matches` is
the meaning of an entry for a row of the dictionary. Strings are values with a lower-case form, since the rules for case differ between the
two sides.

### DictionaryService

One action per step of the loop of `initDictionaries`; servers go up and down between its steps.
`alwaysUp` is a history variable for the property. It runs as a part of `Indexer`.

### Manifest and Indexer

An object of a manifest is a function of its keys, `IllTyped` any value of the wrong type, and a
class-validator decorator a conjunct of the operator named after its class. `ValidFilter` does what
the decorators do, not what they look like: only the filter of event handlers has `@ValidateNested`,
so that the types of all other filter fields go unchecked.

`Indexer` is the life of a node. `Parse`, `Load`, `InitDictionaries` and `Start` are start-up
(`bootstrap`), each of which may stop it. `EnqueueListed` and `EnqueueNext` are node-core's fetch
service with a dictionary that answers and without one; a dictionary may answer for any part of what
is left. `IndexDatum` calls the handlers of one datum, and `CreateDynamicDs` does too, with a handler
that creates a data source, which `Updated` makes of the template and the arguments and `IsInvalid`
may refuse (`updateDynamicDs`). `Commit` stores calls, height and created data sources together, and
makes the dictionaries look again from the next height. `Crash` and `Restart` leave only the database.
`called` is what the handlers stored, so that a repeated or missing call can be told.

### ApiService

`create` with the look at the data sources and templates for handlers of Soroban events; connections
that are made and dropped (a dropped one never comes back: `connect` throws "Not implemented"); and the proxy
`safeApi`, which takes a new API object after each failed attempt. `project` is what the node is
started with.

## The runs

| Run | Shows |
|---|---|
| `soroban_cache` | a cached ledger is whole (`CacheComplete`), block fetches get the exact events of their ledger (`AnswersExact`), lists grow in stream order (`InOrder`), an entry leaves the cache with one answer only (`TakenByAsker`), and the inductive invariant holds; every call ends (`EveryCallSettles`); the client implements `EventSource`, liveness included (`SourceSpec`) |
| `soroban_short_pages` | **violated**: `CacheComplete`, when the server's page limit is below the client's |
| `soroban_filtered` | **violated**: `AnswersExact`, when a handler filters through `unsafeSorobanApi` |
| `block_fetch` | a batch that succeeds is exact (`BlocksExact`); ledgers without contract calls do not depend on the RPC server (`AsksWhenNeeded`); every attempt and every fetch ends (`BatchSettles`, `TasksSettle`); the fetch implements `BlockSource`, liveness included (`SourceSpec`) |
| `fetch_soroban` | each step of the fetch on the real client is one of the fetch on an ideal one, or invisible (`ImplementsFetch`); together they implement `BlockSource`, liveness included (`ImplementsBlockSource`) |
| `chain_follower` | no forks (`NoFork`), at most one ledger ahead of the newest (`NeverFarAhead`), blocks once and in order (`IndexedInOrder`), every ledger in the end (`CatchesUp`) |
| `index_block` | every datum once to every data source (`EveryDatumOnce`), in the order of the ledger (`CallsInLedgerOrder`), Soroban transaction handlers right after transaction handlers (`SorobanAfterTransaction`) |
| `dictionary` | the queries match whatever a handler would get (`Coverage`); a handler that restricts nothing switches the dictionary off (`NoFiltersNoDictionary`); the loop gives an entry for each handler or none at all (`BuildsQueryEntries`) |
| `dictionary_soroban` | **violated**: `NoFiltersNoDictionary`, with a handler of Soroban transactions |
| `indexer` | the stored calls are exactly those due, skipped ledgers, created data sources and restarts included (`ExactlyTheDueCalls`); no filter of a running node throws (`NoFilterThrows`); dictionaries that answer are kept, in order (`GoodOnesAreKept`); the node gets to the end of the chain or stops (`ReachesTheEnd`) |
| `api_service` | a call gives up after all its attempts and not before (`AllAttemptsMade`); a safe call behaves like one call of `EventSource` (`SafeCallsAreCalls`) |
| `api_service_no_soroban` | **violated**: `SorobanEndpointIsOptional` |

`TypeOK` is checked with each passing model.

### What the violations say

* **A server with shorter pages** (`stellar/soroban.server.ts:41`). The client takes a page for cut
  if it has as many events as the client asked for. The comment at line 55 knows that "the server
  may have a pageLimit below ours"; the full pages of such a server are shorter, their last ledger
  is cached although it is cut, and a later call gets it as complete: events are lost.
* **A handler that filters** (`stellar/soroban.server.ts:109`). The cache is keyed by ledger alone.
  A handler that asks the shared client with filters and a wide range leaves filtered ledgers in the
  cache, and the block fetch of such a ledger takes them for all its events.
* **Soroban transactions and the dictionary** (`indexer/dictionary/v1/stellarDictionaryV1.ts:213`). A
  handler of this kind falls into the empty `default` of the switch: no entry, and no end to the use
  of the dictionary. Next to another, filtered handler, its blocks are skipped.
* **No Soroban endpoint** (`stellar/api.service.stellar.ts:91`). The URL is parsed before the test
  whether there is one, so that a project without Soroban handlers and without the endpoint, which
  the type and the next lines allow, does not start.

### The bounds, and why they are enough

| Model | Instance | Why |
|---|---|---|
| `SorobanServer` | two fetchers and one sandbox; three ledgers with 4, 1 and 2 events; pages of 3 for the fetchers and of 2 for the handler, server pages of 4; no symmetry (it is not sound for liveness) | ledger 1 needs two pages; the second brings along ledger 2 whole and ledger 3 cut; an end past the last ledger; two fetches and a handler meet in the cache |
| `BlockFetch` | two heights, in descending order; two attempts; one list (`operations`) besides the ledger; two, and one, records; pages of 1; two events | a ledger that needs the RPC server, by its second operation only, and one that does not; the tasks of the first attempt overlap with those of the second. More lists only repeat the list; the proofs cover any number |
| `FetchSoroban` | two heights, two attempts; one event in each ledger, both on one page; no handler | the fetch of ledger 1 caches ledger 2, while two fetches of each height may run; a handler takes another part of the same cache, as in `SorobanServer` |
| `ChainFollower` | two servers, of which one may be disconnected for good; two slots; two ledgers (heights up to three are asked for); one restart; messages with "Timeout", "disconnected from", both or neither | lag needs two servers, order two slots; the restart may come between any two steps |
| `IndexBlock` | up to two transactions of up to two of three kinds of operations; two data sources and one template | each join is by at least two keys, each loop runs twice; events without and with a successful transaction |
| `Dictionary` | all projects of one handler and of two of the kinds the switch knows; three strings, two of which differ in case only; topics up to five filters | each condition present, absent and wrong; a filter longer than an event has topics |
| `Indexer` | six manifests that are accepted and thirteen that are not; three ledgers; two created data sources from arguments that are missing, good and ill-typed, and from an unknown template; two restarts; two dictionaries in the project and one in the registry, one of them in both lists | each way of being refused once; a ledger no filter asks for; an event whose contract differs from the address in case; restarts before, between and after created data sources; failures before, between and after good dictionaries |
| `ApiService` | two endpoints, two callers, three attempts where the code has five | first, middle and last attempt; the last connection is lost in between |

`Many`, in `SorobanServer`, stands for "more than once". `MaxAttempts`, `MaxRestarts`, `LastLedger`
and the sizes in the table are the only bounds on what would go on for ever.

Deadlock is checked for `SorobanServer`, where calls never stop coming. In the other models the
system may stop: the function returns, the batch is settled, or the chain of the instance has ended.

### Fairness

* A request is answered or fails: the HTTP clients have a timeout. Whatever promise has settled, the
  event loop runs its continuation. These are the weak fairness conditions on the steps of a call
  (`SorobanServer`), a task (`BlockFetch`, `FetchSoroban`), the node (`Indexer`), and a safe call
  (`ApiService`). Ledgers need not close, nobody needs to ask, and no attempt needs to be repeated.
* `Indexer` has one weak fairness condition: the node does something as long as it can. Nobody needs
  to restart it, and dictionaries may stop answering for ever.
* `ChainFollower` also has a dispatcher that polls, hands out, asks again and indexes for ever (weak
  fairness), and requests that, made again and again, succeed again and again if the ledger is there
  (strong fairness of `FetchSucceeds`, `GetFinalizedHeader` and `GetBestHeight`). Without the
  latter, a server that never answers stops any indexer. Servers need not close ledgers, nobody
  needs to restart the node, and one server that stays connected is enough.

## What is proved

For every value of the constants that meets the assumptions named in the modules:

| Module | Theorems |
|---|---|
| `SorobanServerProofs` | `TypeCorrect`, `InvariantHolds`, `CacheIsComplete`, `AnswersAreExact`, `EntriesGoToAskers`, `ListsGrowInOrder`, `ImplementsSource`; `CompositionRefines`, `BatchesAreExact`, `CompositionIsSource` |
| `BlockFetchProofs` | `TypeCorrect`, `InvariantHolds`, `BatchesAreExact`, `ClassicIsIndependent`, `ImplementsSource` |
| `ChainFollowerProofs` | `InvariantHolds`, `TypeCorrect`, `NoRewinds`, `OneAheadAtMost`, `OnceAndInOrder` |
| `IndexBlockProofs` | `InvariantHolds`, `TypeCorrect`, `CompleteAndOnce`, `LedgerOrder`, `SorobanOffered` |
| `DictionaryProofs` | `TypeCorrect`, `EntriesCoverHandlers`, `LoopBuilds`, `EveryBlockIsFetched` |
| `IndexerProofs` | `TypeCorrect`, `DueCallsOnce`, `NoFilterEverThrows`, `DictionariesKept` |
| `ApiServiceProofs` | `TypeCorrect`, `NoAttemptLost`, `SafeCallsRefine` |

* **`SorobanServer`.** `CacheComplete` is not inductive: that a whole ledger goes to the cache
  depends on the page it came on, and that on the requests before. `IInv` says for each call, by
  where it is: while it reads, its events are those of the ledger up to its cursor (`AccUpToCursor`);
  a response is a gapless run, and unless it is full it ends with a ledger (`PageGapless`); what is
  about to be cached is whole ledgers (`WholeLedgers`); what it has in the end is the answer
  (`Answered`). The theorems on completeness and exactness assume `PageLimit[c] <= ServerLimit` of each
  caller and `Filters = {Events}`, exactly what the two violated runs do without. `EntriesGoToAskers`
  needs neither. From the invariant every step is one of `EventSource` or invisible.
* **`BlockFetch`.** `IInv`: in every attempt, live or given up, what a task has read is a prefix of
  the server's lists up to its cursor, and all of them when the list is done (`ListsUpToCursor`); a
  task waits for its own call with everything read (`TasksInStep`); its events are those the client
  returned for its height (`EventsOfTasks`). So any set of finished tasks may become the batch, and
  the attempts cannot mix. The assumption `EventsNeedInvoke` is the protocol's: only contract calls
  emit events.
* **`ChainFollower`.** `IInv`: the heights known are those of some server (`HeightsAreClosed`),
  fetches differ from each other and are below the next height (`SlotsInStep`), and what is indexed
  is below all of these (`ProcessedBelow`). A header is a function of its height, so no two misfit.
* **`Dictionary`.** `Coverage` holds for the handlers the loop is through with, for projects of the
  kinds the switch knows (`CaseKindsOnly`, which `dictionary_soroban` does without), and each case of
  the switch preserves it. For `LoopBuilds` the entries are those of the known handlers before `i`,
  and none of these gives up. `EveryBlockIsFetched` follows: such a handler gives up.
* **`FetchSoroban`.** Each step of the composition is a step of `BlockFetch` or invisible to it, by the
  invariant of `SorobanServer`, and with its two assumptions (`ServerKeepsLimit`, `NobodyFilters`):
  what `Return` hands to a fetch are the events `EventSource` promises for its height. So the theorems
  of `BlockFetchProofs`, whose assumptions `FetchSoroban` meets, hold of the whole: from pages and cache
  up to the batch, all blocks are exact (`BatchesAreExact`), and the dispatcher sees `BlockSource`
  (`CompositionIsSource`).
* **`IndexBlock`.** First the join: for every ledger the block holds each transaction, operation, effect
  and event exactly where it belongs, although the lists are only keyed by hash, id and index, so that
  the flattened visits of the nested loops are the data of the ledger, each once and in its order. Then
  the walk. The calls made are those for the positions (datum, data source, kind) passed so far
  (`Made`, `NothingMissed`, `NothingTwice`), the array of data sources is the project's, with the
  templates in the order in which they were used (`Sources`, `BornHere`), and the last call tells
  whether its transaction is about to be offered again (`LastCall`). `EveryDatumOnce` alone is not
  inductive: it says nothing before the end of the walk. That the loops reach a data source created
  under way, for the present datum too, is a case of `NothingMissed`.
* **`Indexer`.** `ExactlyTheDueCalls` speaks of the database and is kept by all steps but `Commit`, which
  adds the calls of a block and forgets the ledgers below it that were passed over. So the invariant has
  to say what the node is going to store. `Past` is the property for the ledgers done, calls in the
  database being distinct. `Present`: the calls made for the block so far are those due up to its
  present datum, data sources created in it included. `Future`: of the ledgers from the last one
  done to the next height each is in the queue, in order, or in work, or nothing in it is due; and the
  queries, if there are any, find whatever is due. The latter is kept because of `EntriesCover`: that
  queries match what filters let pass is `EntryMatches` of `DictionaryProofs`, and the data sources
  are not those of the manifest only, but also those `Updated` made, whose options are valid because
  `IsInvalid` refused the others. These facts need `Types`, `Loaded` (past the manifest stage it was
  accepted, and the data sources in memory are those that were asked for, in this life of the node or
  in an earlier one) and `Resolved` (of the servers tried, those that answered are kept). Nothing is
  assumed about when the node stops. `NoFilterEverThrows` follows from `Loaded`, `DictionariesKept` from
  `Resolved`.
* **`ApiService`.** `IInv`: a call has an attempt at the client exactly while it waits, for the height
  of its API (`AttemptInStep`); an answer is exact (`AnswerIsExact`); a call under way has attempts left
  and no result (`CallInStep`). Retries are then stutters of `EventSource`, a success is its `Answer`.

Every safety property the passing runs check is stated by one of these theorems. Facts about sequences
of any length (flattened, filtered and sorted ones) are needed for `IndexBlock` and `Indexer`. The
library's theorems on induction take an operator as a parameter, which none of the provers can
instantiate. `SequenceLemmas` does without: a set of sequences that holds the empty one and is closed
under `Append` holds all of them, because the lengths of those it lacks would have a least element
(`SequenceInduction`, `LeastElement`). Its sets, `{t \in Seq(S) : ...}`, take the place of the operator.

What the assumptions on constants leave out: strings stand for all topics in a filter (`DataSourcesType`:
the decorators let through an array of anything), and `None` stands for what is missing and is neither a
string nor an object (`NoneIsNoString`, `NoneIsNoObject`).

Only model-checked are the liveness properties (`EveryCallSettles`, `BatchSettles`, `TasksSettle`,
`CatchesUp`, `ReachesTheEnd`) and the liveness halves of the refinements (`SourceSpec`,
`ImplementsBlockSource`, `SafeCallsAreCalls`), whose safety halves are `ImplementsSource`,
`CompositionIsSource` and `SafeCallsRefine`: fairness and ENABLED are out of the proof system's reach.

## What is not modelled

* **node-core**: dispatcher, handler sandbox, store, dynamic data sources, connection pool, worker
  threads and their messages. They are a dependency. What is modelled of them, because the code here
  makes no sense without it, is marked external in the map of definitions.
* **`getBlockTimestamp` and `getBlockSize`** of the blockchain service: what node-core does with them
  has no effect on what is indexed.
* **The `timestamp` of the block filter**: node-core's, a cron schedule. Its `modulo` is modelled.
* **The array form of `dsOptions`** in `eventFilterToQueryEntry`: no caller passes it.
* **Back references** of wrapped data (an operation's transaction, and so on): copies, without state.
* **A `request.limit` that changes**: it is a constant of each caller, in all its calls. Block fetches
  give the connection's `pageLimit`, the API of sandboxed handlers none, so that the default holds, and
  a handler in unsafe mode what it likes.
* **What a dictionary stores**: an external service. `Coverage` and `ExactlyTheDueCalls` are about one
  that has the ledgers of all data the queries ask for. A comment (`stellarDictionaryV1.ts:202`) says
  that today's schema has no events: a query for an entity that is not there fails, and no ledger is
  skipped for its answer.
* **Options of custom data sources** in the manifest: that they are an object, and no more.
* **Eviction**: entries of the cache that nobody asks for stay for ever. The code has nothing to
  check here; the table of hazards in `PROJECT.json` lists it.
* **Wiring**: NestJS modules, command line and subcommands have no state of their own.

## Plan

Done, in this order: the Soroban client with its abstract specification; filters and dictionary
queries; block fetch; join and indexing; API service; headers, heights and restarts; the dictionary
service; the fetch over the real client; manifest and created data sources; the node from end to end,
with dictionaries, crashes and restarts; the proofs. Left:

* **Blocks from `BlockSource` in `Indexer`.** There a block is the data of its ledger;
  `CompositionIsSource` and `CompleteAndOnce` show separately that it is fetched and walked through as
  such.

## Running it

    tlc -config MCBlockFetch.cfg MCBlockFetch
    tlapm BlockFetchProofs.tla

`PROJECT.json` lists the runs, the lines each definition stands for, the hazards of the code with
the properties that cover them, and for each property a seeded mistake that it notices.
