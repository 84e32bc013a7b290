---------------------------- MODULE FetchSoroban ----------------------------
(***************************************************************************)
(* The fetch of blocks on top of the Soroban RPC client: BlockFetch, in    *)
(* which the client is EventSource, put together with SorobanServer as it  *)
(* is.  One SorobanServer serves all fetches (packages/node/src/stellar/   *)
(* api.stellar.ts, sorobanClient): those of a batch, those that were left  *)
(* running when an earlier attempt at the batch was given up, and the      *)
(* handlers that ask it themselves.  They meet in its cache, where the     *)
(* page one of them reads becomes the answer to another.                   *)
(*                                                                         *)
(* A getEvents call of a fetch is named by its task, so Fetchers are the   *)
(* tasks of BlockFetch.  Its variables are those of BlockFetch without the *)
(* client, and those of SorobanServer.                                     *)
(***************************************************************************)
EXTENDS SorobanServer, Sequences

CONSTANTS
    Heights, MaxAttempts, Lists, Record, Records, Invokes,
    ListLimit       \* this.pageLimit; the code gives its calls of getEvents the same limit

ASSUME HeightsInChain   == Heights \in Seq(Ledgers)
ASSUME FetchersAreTasks == Fetchers = (1..MaxAttempts) \X (1..Len(Heights))
ASSUME AttemptsType     == MaxAttempts \in Nat
ASSUME ListsType        == "operations" \in Lists /\ "ledger" \notin Lists
ASSUME RecordsType      == Records \in [Lists -> [Ledgers -> Seq(Record)]]
ASSUME ListLimitType    == ListLimit \in Nat \ {0}
\* Only contract calls emit events.
ASSUME EventsNeedInvoke ==
    \A e \in Events : \E n \in 1..Len(Records["operations"][LedgerOf[e]]) :
        Records["operations"][LedgerOf[e]][n] \in Invokes

VARIABLES ingested, attempt, batch, blocks, stage, read, list, cursor, events

\* BlockFetch knows the calls of the fetches and not those of the handlers.
OfFetchers(f) == [t \in Fetchers |-> f[t]]

Fetch == INSTANCE BlockFetch WITH
            PageLimit <- ListLimit,
            status    <- OfFetchers(status),
            asked     <- OfFetchers(seq),
            answer    <- OfFetchers(answer)

fetch   == <<ingested, attempt, batch, blocks, stage, read, list, cursor, events>>
allVars == <<vars, fetch>>

SystemInit ==
    /\ Init
    /\ ingested = 0
    /\ attempt = 0
    /\ batch = "idle"
    /\ blocks = <<>>
    /\ stage = [t \in Fetchers |-> "idle"]
    /\ read = [t \in Fetchers |-> {}]
    /\ list = [t \in Fetchers |-> Fetch!Unread]
    /\ cursor = [t \in Fetchers |-> Fetch!Start]
    /\ events = [t \in Fetchers |-> Nothing]

-----------------------------------------------------------------------------
(* The steps in which a fetch meets the client. *)

\* Seeded fault: the fetch asks for the events of the batch's first ledger.
FaultAskedFor(t) == Heights[1]

AskedFor(t) == Heights[t[2]]

\* getAndWrapEvents: getEvents, up to its first await.
GetEvents(t) ==
    /\ AskCached(t, AskedFor(t), Events) \/ AskServer(t, AskedFor(t), None, Events)
    /\ Fetch!AskForEvents(t)

WrapEvents(t) == Return(t) /\ Fetch!TakeEvents(t)
EventsFail(t) == Return(t) /\ Fetch!TakeError(t)

-----------------------------------------------------------------------------
(* All other steps are steps of one of the two. *)

ClientStep ==
    /\ \/ CloseLedger
       \/ \E c \in Sandboxes : SandboxAsks(c) \/ Return(c)
       \/ \E c \in Callers : Rpc(c) \/ Loop(c)
    /\ UNCHANGED fetch

FetchStep ==
    /\ UNCHANGED vars
    /\ \/ Fetch!IngestLedger
       \/ Fetch!FetchBlocks \/ Fetch!Fulfil \/ Fetch!Reject
       \/ \E t \in Fetchers : Fetch!OwnStep(t)

TaskStep(t) ==
    \/ GetEvents(t) \/ WrapEvents(t) \/ EventsFail(t)
    \/ UNCHANGED vars /\ Fetch!OwnStep(t)

SystemNext ==
    \/ ClientStep
    \/ FetchStep
    \/ \E t \in Fetchers : GetEvents(t) \/ WrapEvents(t) \/ EventsFail(t)

SystemSpec == SystemInit /\ [][SystemNext]_allVars

\* Requests are answered or time out and the event loop runs what is ready, as in
\* SorobanServer and BlockFetch; ledgers need not close, and nobody tries again.
FairSystem ==
    /\ SystemSpec
    /\ WF_allVars(UNCHANGED vars /\ (Fetch!Fulfil \/ Fetch!Reject))
    /\ \A t \in Fetchers : WF_allVars(TaskStep(t))
    /\ \A c \in Callers : /\ WF_allVars(Rpc(c) /\ UNCHANGED fetch)
                          /\ WF_allVars(Loop(c) /\ UNCHANGED fetch)

-----------------------------------------------------------------------------
(* Properties. *)

\* The composition behaves as BlockFetch on an ideal source of events: which pages
\* were read, what other fetches or abandoned attempts left in the cache and who took
\* it is invisible to the fetches and to the blocks (fetchAndWrapLedger, getEvents).
ImplementsFetch == Fetch!Spec

\* What the dispatcher sees through both layers: a batch is delivered with all events
\* of its ledgers or fails as a whole, and always one or the other (fetchBlocks).
ImplementsBlockSource == Fetch!SourceSpec

=============================================================================
