------------------------------ MODULE Indexer ------------------------------
(***************************************************************************)
(* A node from its start to the end of the chain: the manifest is parsed,  *)
(* the data sources created by handlers are loaded, dictionaries are asked *)
(* for heights, and blocks are indexed; handlers create data sources, and  *)
(* the node crashes and starts again.  It puts together Manifest,          *)
(* DictionaryService, DictionaryQuery, Filters and updateDynamicDs         *)
(* (packages/node/src/init.ts, configure/, blockchain.service.ts, indexer/). *)
(*                                                                         *)
(* Fetching (BlockFetch, ChainFollower) and the order of the calls for a   *)
(* datum (IndexBlock) are modelled elsewhere: here a block is fetched when *)
(* it is taken from the queue, and a datum goes to all data sources in one *)
(* step.  Queue, database and created data sources are node-core's.        *)
(***************************************************************************)
EXTENDS DictionaryQuery, Manifest, ListFilter, FiniteSets, SequencesExt

CONSTANTS
    Manifests,        \* the manifests tried, with the dictionaries they name
    Registry,         \* the dictionaries the registry may know
    Endpoints,        \* URLs of dictionaries
    Chain,            \* the data of each ledger, in order
    BaseHandlerKinds, \* the handler processors of custom data sources: kind -> baseHandlerKind
    Creations,        \* what handlers ask for: [templateName, args]
    MaxCreated,       \* data sources created in a run
    MaxRestarts

LastLedger == Len(Chain)

ASSUME ChainType     == Chain \in Seq(Seq(Data))
ASSUME ManifestsType ==
    \A m \in Manifests : /\ m.dictionary \in Seq(Endpoints)
                         /\ m.dataSources \in Seq(Range(m.dataSources))
                         /\ m.templates \in Seq(Range(m.templates))
ASSUME DataSourcesType ==
    \A m \in Manifests : \A ds \in Range(m.dataSources) \union Range(m.templates) :
        /\ {"kind", "handlers"} \subseteq DOMAIN ds
        /\ ds.handlers \in Seq(Range(ds.handlers))
        /\ \A h \in Range(ds.handlers) :
              IsRuntimeDs(ds) /\ h.kind = "Event" /\ IsTyped(Get(h, "filter")) =>
                  Get(h.filter, "topics") \in Seq(Strings \union {None}) \union {None, IllTyped}
ASSUME RegistryType  == Registry \subseteq Seq(Endpoints)
ASSUME BoundsType    == MaxCreated \in Nat /\ MaxRestarts \in Nat

VARIABLES
    stage,      \* parsing, loading, dictionaries, running, stopped
    raw,        \* the manifest
    saved,      \* in the database: the data sources that were created
    processed,  \* in the database: the last indexed height
    called,     \* in the database: the calls of handlers, by what they stored
    dynamicDs,  \* the data sources made of `saved` and of `created`
    created,    \* those of the present block
    entries,    \* what the dictionaries are asked for
    nextHeight, \* the next height to look for
    queue,      \* the heights to index
    block,      \* the height that is being indexed, or 0
    at,         \* how many of its data are through
    calls,      \* the calls of handlers for it
    restarts,
    dict,           \* initDictionaries: see DictionaryService
    endpoints, tried, dictionaries, up, alwaysUp

Dict == INSTANCE DictionaryService WITH
            Own <- {m.dictionary : m \in Manifests}, project <- raw.dictionary,
            stage <- dict, at <- tried

database   == <<saved, processed, called>>
heights    == <<nextHeight, queue, block, at, calls>>
sources    == <<dynamicDs, created, entries>>
startUp    == <<dict, endpoints, tried, dictionaries, up, alwaysUp>>
vars       == <<stage, raw, database, heights, sources, restarts, startUp>>

-----------------------------------------------------------------------------
(* Data sources. *)

\* {...options, ...args}
Merge(options, args) ==
    [key \in DOMAIN options \union DOMAIN args |->
        IF key \in DOMAIN args THEN args[key] ELSE options[key]]

ASSUME NoneIsNoObject ==
    \A m \in Manifests : \A t \in Range(m.templates), c \in Creations :
        Merge(Options(t), c.args) # None

\* Seeded fault: the options of the template win.
FaultUpdated(ds, args) ==
    Merge(ds, IF IsCustomDs(ds)
              THEN [processor |-> Merge(ds.processor, [options |-> Merge(args, Options(ds.processor))])]
              ELSE [options |-> Merge(args, Options(ds))])

Updated(ds, args) ==
    Merge(ds, IF IsCustomDs(ds)
              THEN [processor |-> Merge(ds.processor, [options |-> Merge(Options(ds.processor), args)])]
              ELSE [options |-> Merge(Options(ds), args)])

\* Seeded fault: the data source is validated before it has its options.
FaultIsInvalid(ds, args) == IsRuntimeDs(ds) /\ ~ValidRuntimeDs(ds)

\* updateDynamicDs throws; a custom data source is not validated.
IsInvalid(ds, args) ==
    LET updated == Updated(ds, args) IN IsRuntimeDs(updated) /\ ~ValidRuntimeDs(updated)

Templates(name) == Keep(raw.templates, {t \in Range(raw.templates) : t.name = name})

\* A data source can be made of the first template of that name.
Creatable(c) == Templates(c.templateName) # <<>> /\ ~IsInvalid(Head(Templates(c.templateName)), c.args)
Create(c)    == Updated(Head(Templates(c.templateName)), c.args)

DataSources == raw.dataSources \o dynamicDs

AllHandlers(dss) == FlattenSeq([i \in 1..Len(dss) |-> HandlersOf(dss[i])])

-----------------------------------------------------------------------------
(* Calls of handlers. *)

\* stringNormalizedEq calls toLowerCase.
FilterThrows(h, d) == h.kind = "Event" /\ d.entity = "events" /\ h.address = IllTyped

\* A handler of a custom data source gets the data of its processor's base kind.
IsHandlerProcessor(kind, d) == kind \in DOMAIN BaseHandlerKinds /\ Offered(BaseHandlerKinds[kind], d)

IsCalled(ds, h, d) ==
    IF IsCustomDs(ds) THEN IsHandlerProcessor(h.kind, d) ELSE ~FilterThrows(h, d) /\ Handles(h, d)

Call(i, n, h, p) == [ds |-> i, handler |-> n, height |-> h, at |-> p]

\* The calls for the p-th datum of ledger h: those of the i-th data source, and all.
CallsOf(i, ds, h, p) ==
    LET hs  == HandlersOf(ds)
        all == [n \in 1..Len(hs) |-> Call(i, n, h, p)]
    IN  Keep(all, {c \in Range(all) : IsCalled(ds, hs[c.handler], Chain[h][p])})

CallsFor(dss, h, p) == FlattenSeq([i \in 1..Len(dss) |-> CallsOf(i, dss[i], h, p)])

\* The strings that are turned to lower case for the entry of a handler.
Lowered(h) ==
    CASE h.kind = "Transaction" -> {h.filter.account}
      [] h.kind = "Operation"   -> {h.filter.type, h.filter.sourceAccount}
      [] h.kind = "Effects"     -> {h.filter.type, h.filter.account}
      [] h.kind = "Event"       -> {h.address}
      [] OTHER -> {}

BuilderThrows(hs) ==
    \E n \in 1..Len(hs) : /\ \A m \in 1..n : ~GivesUp(hs[m])
                          /\ IllTyped \in Lowered(hs[n])

\* The block has a row for one of the entries.
Listed(h) == \E p \in 1..Len(Chain[h]), e \in entries : Matches(e, Chain[h][p])

-----------------------------------------------------------------------------
(* Start-up. *)

Init ==
    /\ stage = "parsing"
    /\ raw \in Manifests
    /\ saved = <<>> /\ processed = 0 /\ called = <<>>
    /\ dynamicDs = <<>> /\ created = <<>> /\ entries = {}
    /\ nextHeight = 1 /\ queue = <<>> /\ block = 0 /\ at = 0 /\ calls = <<>>
    /\ restarts = 0
    /\ dict = "resolving" /\ endpoints = <<>> /\ tried = 0 /\ dictionaries = <<>>
    /\ up \in SUBSET Endpoints
    /\ alwaysUp = up

\* createSubQueryProject, parseStellarProjectManifest.
Parse ==
    /\ stage = "parsing"
    /\ stage' = IF Accepted(raw) THEN "loading" ELSE "stopped"
    /\ UNCHANGED <<raw, database, heights, sources, restarts, startUp>>

\* projectService.init: the created data sources are made again.
Load ==
    /\ stage = "loading"
    /\ IF \A k \in 1..Len(saved) : Creatable(saved[k])
       THEN /\ dynamicDs' = [k \in 1..Len(saved) |-> Create(saved[k])]
            /\ stage' = "dictionaries"
       ELSE /\ stage' = "stopped"
            /\ UNCHANGED dynamicDs
    /\ nextHeight' = processed + 1
    /\ UNCHANGED <<raw, database, queue, block, at, calls, created, entries, restarts, startUp>>

\* fetchService.init: first the dictionaries.
InitDictionaries ==
    /\ stage = "dictionaries"
    /\ UNCHANGED <<stage, raw, database, heights, sources, restarts>>
    /\ Dict!Loop

Switch(e) ==
    /\ stage = "dictionaries"
    /\ UNCHANGED <<stage, raw, database, heights, sources, restarts>>
    /\ Dict!Switch(e)

\* Then their entries; what is asked of the servers is forgotten.  bootstrap stops the
\* node when anything throws.
Start ==
    /\ stage = "dictionaries"
    /\ dict \in {"initialised", "rejected"}
    /\ IF dict = "rejected" \/ (dictionaries # <<>> /\ BuilderThrows(AllHandlers(DataSources)))
       THEN stage' = "stopped" /\ UNCHANGED entries
       ELSE /\ stage' = "running"
            /\ entries' = IF dictionaries = <<>> THEN {} ELSE QueryEntries(AllHandlers(DataSources))
    /\ dict' = "resolving" /\ endpoints' = <<>> /\ tried' = 0 /\ up' = {} /\ alwaysUp' = {}
    /\ UNCHANGED <<raw, database, heights, dynamicDs, created, restarts, dictionaries>>

-----------------------------------------------------------------------------
(* Heights. *)

Heights(first, last) == [i \in 1..last - first + 1 |-> first + i - 1]

\* A dictionary that has got to ledger h answers; the ledgers it does not list are skipped.
EnqueueListed(h) ==
    /\ stage = "running"
    /\ entries # {}
    /\ h \in nextHeight..LastLedger
    /\ queue' = queue \o Keep(Heights(nextHeight, h), {n \in nextHeight..h : Listed(n)})
    /\ nextHeight' = h + 1
    /\ UNCHANGED <<stage, raw, database, block, at, calls, sources, restarts, startUp>>

\* No dictionary, none that is of use, or none that answers or is far enough.
EnqueueNext ==
    /\ stage = "running"
    /\ nextHeight <= LastLedger
    /\ queue' = Append(queue, nextHeight)
    /\ nextHeight' = nextHeight + 1
    /\ UNCHANGED <<stage, raw, database, block, at, calls, sources, restarts, startUp>>

TakeBlock ==
    /\ stage = "running"
    /\ block = 0 /\ queue # <<>>
    /\ block' = Head(queue)
    /\ queue' = Tail(queue)
    /\ UNCHANGED <<stage, raw, database, nextHeight, at, calls, sources, restarts, startUp>>

-----------------------------------------------------------------------------
(* Blocks. *)

Indexing == stage = "running" /\ block # 0 /\ at < Len(Chain[block])

Throws ==
    \E i \in 1..Len(DataSources) :
        \E n \in 1..Len(DataSources[i].handlers) :
            /\ IsRuntimeDs(DataSources[i])
            /\ FilterThrows(HandlersOf(DataSources[i])[n], Chain[block][at + 1])

IndexDatum ==
    /\ Indexing
    /\ ~Throws
    /\ calls' = calls \o CallsFor(DataSources, block, at + 1)
    /\ at' = at + 1
    /\ UNCHANGED <<stage, raw, database, nextHeight, queue, block, sources, restarts, startUp>>

\* A handler creates a data source, which gets the datum at once.
CreateDynamicDs(c) ==
    /\ Indexing
    /\ ~Throws
    /\ CallsFor(DataSources, block, at + 1) # <<>>
    /\ Len(dynamicDs) < MaxCreated
    /\ Creatable(c)
    /\ dynamicDs' = Append(dynamicDs, Create(c))
    /\ created' = Append(created, [templateName |-> c.templateName, args |-> c.args,
                                   height |-> block, at |-> at + 1])
    /\ calls' = calls \o CallsFor(raw.dataSources \o dynamicDs', block, at + 1)
    /\ at' = at + 1
    /\ UNCHANGED <<stage, raw, database, nextHeight, queue, block, entries, restarts, startUp>>

\* A filter or a handler throws, or asks for a data source that cannot be made.
IndexFails ==
    /\ Indexing
    /\ Throws \/ CallsFor(DataSources, block, at + 1) # <<>>
    /\ stage' = "stopped"
    /\ UNCHANGED <<raw, database, heights, sources, restarts, startUp>>

\* Calls, created data sources and the height are stored together.  New data sources make
\* the node forget the heights it has looked for with the old entries.
Commit ==
    /\ stage = "running"
    /\ block # 0 /\ at = Len(Chain[block])
    /\ called' = called \o calls
    /\ saved' = saved \o created
    /\ processed' = block
    /\ IF created = <<>>
       THEN UNCHANGED <<nextHeight, queue, entries, stage>>
       ELSE /\ nextHeight' = block + 1
            /\ queue' = <<>>
            /\ IF dictionaries # <<>> /\ BuilderThrows(AllHandlers(DataSources))
               THEN stage' = "stopped" /\ UNCHANGED entries
               ELSE /\ entries' = IF dictionaries = <<>> THEN {}
                                  ELSE QueryEntries(AllHandlers(DataSources))
                    /\ UNCHANGED stage
    /\ block' = 0 /\ at' = 0 /\ calls' = <<>> /\ created' = <<>>
    /\ UNCHANGED <<raw, dynamicDs, restarts, startUp>>

-----------------------------------------------------------------------------

Crash ==
    /\ stage # "stopped"
    /\ restarts < MaxRestarts
    /\ stage' = "stopped"
    /\ UNCHANGED <<raw, database, heights, sources, restarts, startUp>>

\* Only the database is left; the servers are in any state.
Restart ==
    /\ stage = "stopped"
    /\ restarts < MaxRestarts
    /\ stage' = "parsing"
    /\ restarts' = restarts + 1
    /\ dynamicDs' = <<>> /\ created' = <<>> /\ entries' = {}
    /\ nextHeight' = 1 /\ queue' = <<>> /\ block' = 0 /\ at' = 0 /\ calls' = <<>>
    /\ dict' = "resolving" /\ endpoints' = <<>> /\ tried' = 0 /\ dictionaries' = <<>>
    /\ up' \in SUBSET Endpoints
    /\ alwaysUp' = up'
    /\ UNCHANGED <<raw, database>>

NodeStep ==
    \/ Parse \/ Load \/ InitDictionaries \/ Start
    \/ EnqueueNext \/ \E h \in 1..LastLedger : EnqueueListed(h)
    \/ TakeBlock \/ IndexDatum \/ Commit

Next ==
    \/ NodeStep
    \/ \E e \in Endpoints : Switch(e)
    \/ \E c \in Creations : CreateDynamicDs(c)
    \/ IndexFails \/ Crash \/ Restart

Spec == Init /\ [][Next]_vars

\* The node goes on; nothing makes it start again.
FairSpec == Spec /\ WF_vars(NodeStep)

-----------------------------------------------------------------------------
(* Properties. *)

TypeOK ==
    /\ stage \in {"parsing", "loading", "dictionaries", "running", "stopped"}
    /\ raw \in Manifests
    /\ processed \in 0..LastLedger
    /\ nextHeight \in 1..LastLedger + 1
    /\ queue \in Seq(1..LastLedger)
    /\ block \in 0..LastLedger
    /\ at \in 0..(IF block = 0 THEN 0 ELSE Len(Chain[block]))
    /\ Len(dynamicDs) <= MaxCreated
    /\ restarts \in 0..MaxRestarts
    /\ Dict!TypeOK

\* Start-up with several dictionaries, of which some do not answer: see DictionaryService.
GoodOnesAreKept == Dict!GoodOnesAreKept

\* No filter of a running node throws, whatever the blocks hold: an ill-typed address is
\* refused with the manifest or, if a handler gives it, before the data source is used,
\* although updateDynamicDs assigns the options first and validates them afterwards.
NoFilterThrows ==
    stage = "running" =>
        \A i \in 1..Len(DataSources), d \in Data :
            IsRuntimeDs(DataSources[i]) =>
                \A n \in 1..Len(DataSources[i].handlers) :
                    ~FilterThrows(HandlersOf(DataSources[i])[n], d)

\* The data source with number i as it was asked for, and from which datum on.
IsSaved(i)     == i > Len(raw.dataSources)
Asked(i)       == saved[i - Len(raw.dataSources)]
AskedFrom(i)   == IF IsSaved(i) THEN Head(Templates(Asked(i).templateName)) ELSE raw.dataSources[i]
AskedAddress(i) ==
    IF IsSaved(i) /\ "address" \in DOMAIN Asked(i).args
    THEN Asked(i).args.address
    ELSE Get(Options(AskedFrom(i)), "address")
IsActive(i, h, p) ==
    IsSaved(i) => Asked(i).height < h \/ (Asked(i).height = h /\ Asked(i).at <= p)

IsDue(i, n, d) ==
    Handles([HandlersOf(AskedFrom(i))[n] EXCEPT !.address = AskedAddress(i)], d)

Times(c) == Cardinality({k \in 1..Len(called) : called[k] = c})

\* Whatever dictionaries, crashes and created data sources there were: of each ledger the
\* node is through with, skipped ledgers included, each handler has got the data its
\* filter and the address of its data source ask for, once, from the datum on at which
\* the data source was made, and nothing else; no data source comes of an ill-typed
\* address.  Handlers the dictionary is not asked for (on Soroban transactions, of custom
\* data sources) may miss data, but get none twice.
ExactlyTheDueCalls ==
    /\ \A i \in 1..Len(raw.dataSources \o saved) :
        IsSaved(i) /\ IsRuntimeDs(AskedFrom(i)) => IsOptional(AskedAddress(i))
    /\ \A i \in 1..Len(raw.dataSources \o saved) : \A n \in 1..Len(AskedFrom(i).handlers) :
        \A h \in 1..processed : \A p \in 1..Len(Chain[h]) :
            LET times == Times(Call(i, n, h, p))
                kind  == AskedFrom(i).handlers[n].kind
            IN  IF IsRuntimeDs(AskedFrom(i)) /\ kind \in CaseKinds
                THEN times = IF IsActive(i, h, p) /\ IsDue(i, n, Chain[h][p]) THEN 1 ELSE 0
                ELSE times <= IF IsActive(i, h, p) THEN 1 ELSE 0
    /\ \A k \in 1..Len(called) :
        called[k].height <= processed /\ called[k].ds <= Len(raw.dataSources \o saved)

\* A started node does not wait for a dictionary or for a block for ever: in the end it has
\* got through the chain, or it has stopped.
ReachesTheEnd ==
    <>[](stage = "stopped" \/ (nextHeight > LastLedger /\ queue = <<>> /\ block = 0))

=============================================================================
