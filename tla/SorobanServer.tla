--------------------------- MODULE SorobanServer ---------------------------
(***************************************************************************)
(* The Soroban RPC client of the indexer                                   *)
(* (packages/node/src/stellar/soroban.server.ts).                          *)
(*                                                                         *)
(* getEvents(startLedger) answers with the contract events of one ledger.  *)
(* It reads the RPC server page by page.  The last page usually runs past  *)
(* the ledger; the events of later ledgers on it go to a cache, and the    *)
(* next call for one of these ledgers takes them from there.  Every await  *)
(* of the code is a place where another call may run: a call that misses   *)
(* the cache is the sequence of steps                                      *)
(*                                                                         *)
(*   AskServer, (RpcReply, NextPage)*, RpcReply, LastPage, UpdateEventCache *)
(*                                                                         *)
(* and RpcFail ends it at any request.                                     *)
(*                                                                         *)
(* An event is its position in the stream of all contract events of the    *)
(* chain; this is its id and its paging cursor too.  A list of events is a *)
(* bag, how often each event is in it (0, 1 or Many): loss and duplication *)
(* stay visible, the order is the subject of InOrder.                      *)
(***************************************************************************)
EXTENDS Integers, FiniteSets

CONSTANTS
    Fetchers,     \* getEvents calls made while a block is fetched
    Sandboxes,    \* getEvents calls made by handlers through unsafeSorobanApi
    LastLedger,   \* the chain of the instance has ledgers 1..LastLedger
    LastEvent,    \* ... and events 1..LastEvent
    LedgerOf,     \* event.ledger
    PageLimit,    \* request.limit ?? DEFAULT_PAGE_SIZE, of each call
    ServerLimit,  \* the largest page the RPC server gives
    Ends,         \* the request.endLedger a handler may give (None: left out)
    Filters       \* the request.filters a handler may give, as the events they let through

Callers == Fetchers \union Sandboxes
Ledgers == 1..LastLedger
Events  == 1..LastEvent
None    == 0           \* undefined: no ledger, no cursor
Many    == 2           \* "more than once"
Bags    == [Events -> 0..Many]

ASSUME CallersDisjoint == Fetchers \intersect Sandboxes = {}
ASSUME ChainSize       == LastLedger \in Nat /\ LastEvent \in Nat
ASSUME LedgerOfType    == LedgerOf \in [Events -> Ledgers]
ASSUME LedgerOfGrows   == \A d, e \in Events : d <= e => LedgerOf[d] <= LedgerOf[e]
ASSUME LimitsPositive  == PageLimit \in [Callers -> Nat \ {0}] /\ ServerLimit \in Nat \ {0}
ASSUME EndsType        == Ends \subseteq {None} \union (1..LastLedger + 1)
ASSUME FiltersType     == Filters \subseteq SUBSET Events

VARIABLES
    newest,   \* the newest ledger the RPC server has ingested
    cache,    \* this.eventsCache: a ledger has an entry iff an event of it is here
    pc,       \* where each call is
    seq,      \* its `sequence`: the ledger asked for
    req,      \* its next request to the RPC server
    filter,   \* the events request.filters lets through
    acc,      \* accEvents; when the call is fulfilled, its answer
    reply,    \* the response of the RPC server, not handled yet
    toCache   \* eventsToCache, not yet in the cache

vars == <<newest, cache, pc, seq, req, filter, acc, reply, toCache>>

NoRequest == [startLedger |-> None, endLedger |-> None, cursor |-> None]
NoReply   == [events |-> {}, cursor |-> None]
Nothing   == [e \in Events |-> 0]

(* idle: no call; waiting: the request is with the RPC server; replied: its *)
(* response is there; collected: fetchEventsForSequence has returned and    *)
(* getEvents has not resumed; fulfilled, rejected: the promise is settled.  *)
Stages == {"idle", "waiting", "replied", "collected", "fulfilled", "rejected"}

TypeOK ==
    /\ newest \in 0..LastLedger
    /\ cache \in Bags
    /\ pc \in [Callers -> Stages]
    /\ seq \in [Callers -> Ledgers \union {None}]
    /\ req \in [Callers -> [startLedger : Ledgers \union {None},
                            endLedger   : 0..LastLedger + 1,
                            cursor      : Events \union {None}]]
    /\ filter \in [Callers -> SUBSET Events]
    /\ acc \in [Callers -> Bags]
    /\ reply \in [Callers -> [events : SUBSET Events, cursor : Events \union {None}]]
    /\ toCache \in [Callers -> SUBSET Events]

Init ==
    /\ newest = 0
    /\ cache = Nothing
    /\ pc = [c \in Callers |-> "idle"]
    /\ seq = [c \in Callers |-> None]
    /\ req = [c \in Callers |-> NoRequest]
    /\ filter = [c \in Callers |-> Events]
    /\ acc = [c \in Callers |-> Nothing]
    /\ reply = [c \in Callers |-> NoReply]
    /\ toCache = [c \in Callers |-> {}]

-----------------------------------------------------------------------------
(* The RPC server. *)

\* The next ledger closes and the RPC server ingests it, events and all.
CloseLedger ==
    /\ newest < LastLedger
    /\ newest' = newest + 1
    /\ UNCHANGED <<cache, pc, seq, req, filter, acc, reply, toCache>>

\* A request names its events by a range of ledgers, the end exclusive, or by a
\* cursor: everything after it.
Requested(r) ==
    {e \in Events : \/ r.cursor = None /\ r.startLedger <= LedgerOf[e] /\ LedgerOf[e] < r.endLedger
                    \/ r.cursor # None /\ r.cursor < e}

Matching(c) == {e \in Requested(req[c]) \intersect filter[c] : LedgerOf[e] <= newest}

\* The first events of S, as many as a page of call c holds, and the cursor of the last.
Page(c, S) ==
    LET Limit == IF ServerLimit < PageLimit[c] THEN ServerLimit ELSE PageLimit[c]
        Size  == IF Cardinality(S) < Limit THEN Cardinality(S) ELSE Limit
        UpTo(e) == [events |-> {d \in S : d <= e}, cursor |-> e]
    IN  IF S = {} THEN {NoReply}
                  ELSE {p \in {UpTo(e) : e \in S} : Cardinality(p.events) = Size}

\* A range that is empty or starts after the newest ledger is refused.
Acceptable(r) ==
    \/ r.cursor # None
    \/ r.startLedger <= newest /\ r.startLedger < r.endLedger

RpcReply(c) ==
    /\ pc[c] = "waiting"
    /\ Acceptable(req[c])
    /\ \E p \in Page(c, Matching(c)) : reply' = [reply EXCEPT ![c] = p]
    /\ pc' = [pc EXCEPT ![c] = "replied"]
    /\ UNCHANGED <<newest, cache, seq, req, filter, acc, toCache>>

\* Seeded fault: an error is swallowed and the events so far are returned.
FaultRpcFail(c) ==
    /\ pc[c] = "waiting"
    /\ pc' = [pc EXCEPT ![c] = "fulfilled"]
    /\ req' = [req EXCEPT ![c] = NoRequest]
    /\ UNCHANGED <<newest, cache, seq, filter, acc, reply, toCache>>

\* The server refuses, the connection breaks or the request times out.  Nothing
\* catches the error: the accumulated events are lost with the call.
RpcFail(c) ==
    /\ pc[c] = "waiting"
    /\ pc' = [pc EXCEPT ![c] = "rejected"]
    /\ req' = [req EXCEPT ![c] = NoRequest]
    /\ acc' = [acc EXCEPT ![c] = Nothing]
    /\ UNCHANGED <<newest, cache, seq, filter, reply, toCache>>

-----------------------------------------------------------------------------
(* getEvents, up to its first await. *)

CachedEvents(s) == {e \in Events : LedgerOf[e] = s /\ cache[e] > 0}

\* The answer is the entry as it is: neither the filters nor the end of the
\* request play a part.
AskCached(c, s, f) ==
    /\ pc[c] = "idle"
    /\ CachedEvents(s) # {}
    /\ acc' = [acc EXCEPT ![c] = [e \in Events |-> IF e \in CachedEvents(s) THEN cache[e] ELSE 0]]
    /\ cache' = [e \in Events |-> IF e \in CachedEvents(s) THEN 0 ELSE cache[e]]
    /\ pc' = [pc EXCEPT ![c] = "fulfilled"]
    /\ seq' = [seq EXCEPT ![c] = s]
    /\ filter' = [filter EXCEPT ![c] = f]
    /\ UNCHANGED <<newest, req, reply, toCache>>

AskServer(c, s, end, f) ==
    /\ pc[c] = "idle"
    /\ CachedEvents(s) = {}
    /\ req' = [req EXCEPT ![c] = [startLedger |-> s,
                                  endLedger   |-> IF end = None THEN s + 1 ELSE end,
                                  cursor      |-> None]]
    /\ pc' = [pc EXCEPT ![c] = "waiting"]
    /\ seq' = [seq EXCEPT ![c] = s]
    /\ filter' = [filter EXCEPT ![c] = f]
    /\ UNCHANGED <<newest, cache, acc, reply, toCache>>

\* A request without startLedger is refused on the spot.
AskWithoutSequence(c) ==
    /\ pc[c] = "idle"
    /\ pc' = [pc EXCEPT ![c] = "rejected"]
    /\ UNCHANGED <<newest, cache, seq, req, filter, acc, reply, toCache>>

\* Fetching a block asks for one ledger, all of its events.
FetcherAsks(c) ==
    \E s \in Ledgers : AskCached(c, s, Events) \/ AskServer(c, s, None, Events)

SandboxAsks(c) ==
    \/ \E s \in Ledgers, end \in Ends, f \in Filters :
           AskCached(c, s, f) \/ AskServer(c, s, end, f)
    \/ AskWithoutSequence(c)

-----------------------------------------------------------------------------
(* fetchEventsForSequence, from a response to the next await or its return. *)

OfSequence(c) == {e \in reply[c].events : LedgerOf[e] = seq[c]}
OfOthers(c)   == reply[c].events \ OfSequence(c)

Added(bag, S) ==
    [e \in Events |-> IF e \in S /\ bag[e] < Many THEN bag[e] + 1 ELSE bag[e]]

\* Seeded fault: accEvents is dropped, only the last page is returned.
FaultNewEvents(c) == Added(Nothing, OfSequence(c))

\* const newEvents = accEvents.concat(events)
NewEvents(c) == Added(acc[c], OfSequence(c))

\* Seeded fault: the cut last ledger is cached too.
FaultEventsToCache(c) == OfOthers(c)

\* The last ledger of a full page may go on after it.
EventsToCache(c) ==
    IF Cardinality(reply[c].events) = PageLimit[c]
    THEN {e \in OfOthers(c) : LedgerOf[e] # LedgerOf[reply[c].cursor]}
    ELSE OfOthers(c)

\* The page runs past the ledger, or is empty: the ledger is complete.
LastPage(c) ==
    /\ pc[c] = "replied"
    /\ OfOthers(c) # {} \/ reply[c].events = {}
    /\ acc' = [acc EXCEPT ![c] = NewEvents(c)]
    /\ toCache' = [toCache EXCEPT ![c] = EventsToCache(c)]
    /\ pc' = [pc EXCEPT ![c] = "collected"]
    /\ req' = [req EXCEPT ![c] = NoRequest]
    /\ reply' = [reply EXCEPT ![c] = NoReply]
    /\ UNCHANGED <<newest, cache, seq, filter>>

\* Seeded faults: the cursor is not taken from the response, or is off by one.
FaultSameRequest(c) == req[c]
FaultCursorPlusOne(c) ==
    [startLedger |-> None, endLedger |-> None, cursor |-> reply[c].cursor + 1]

NextRequest(c) ==
    [startLedger |-> None, endLedger |-> None, cursor |-> reply[c].cursor]

NextPage(c) ==
    /\ pc[c] = "replied"
    /\ OfOthers(c) = {} /\ reply[c].events # {}
    /\ acc' = [acc EXCEPT ![c] = NewEvents(c)]
    /\ req' = [req EXCEPT ![c] = NextRequest(c)]
    /\ pc' = [pc EXCEPT ![c] = "waiting"]
    /\ reply' = [reply EXCEPT ![c] = NoReply]
    /\ UNCHANGED <<newest, cache, seq, filter, toCache>>

-----------------------------------------------------------------------------
(* getEvents, from its await to its return. *)

\* Seeded fault: events are cached again without a look at their id.
FaultUncached(c) == {e \in toCache[c] : LedgerOf[e] # seq[c]}

\* The events of the ledger asked for (ignoreHeight) and the events that are in
\* the cache already are skipped, one by one.
Uncached(c) == {e \in toCache[c] : LedgerOf[e] # seq[c] /\ cache[e] = 0}

\* Seeded fault: the cache keeps the last page only.
FaultUpdateEventCache(c) ==
    /\ pc[c] = "collected"
    /\ cache' = Added(Nothing, Uncached(c))
    /\ toCache' = [toCache EXCEPT ![c] = {}]
    /\ pc' = [pc EXCEPT ![c] = "fulfilled"]
    /\ UNCHANGED <<newest, seq, req, filter, acc, reply>>

UpdateEventCache(c) ==
    /\ pc[c] = "collected"
    /\ cache' = Added(cache, Uncached(c))
    /\ toCache' = [toCache EXCEPT ![c] = {}]
    /\ pc' = [pc EXCEPT ![c] = "fulfilled"]
    /\ UNCHANGED <<newest, seq, req, filter, acc, reply>>

\* The caller takes the answer, or the error, and may call again.
Return(c) ==
    /\ pc[c] \in {"fulfilled", "rejected"}
    /\ pc' = [pc EXCEPT ![c] = "idle"]
    /\ seq' = [seq EXCEPT ![c] = None]
    /\ filter' = [filter EXCEPT ![c] = Events]
    /\ acc' = [acc EXCEPT ![c] = Nothing]
    /\ UNCHANGED <<newest, cache, req, reply, toCache>>

-----------------------------------------------------------------------------

Rpc(c)  == RpcReply(c) \/ RpcFail(c)
Loop(c) == LastPage(c) \/ NextPage(c) \/ UpdateEventCache(c)

Next ==
    \/ CloseLedger
    \/ \E c \in Fetchers : FetcherAsks(c)
    \/ \E c \in Sandboxes : SandboxAsks(c)
    \/ \E c \in Callers : Rpc(c) \/ Loop(c) \/ Return(c)

Spec == Init /\ [][Next]_vars

(* A request ends, with a reply or an error: the HTTP client has a timeout.   *)
(* The event loop runs the continuation of every settled promise.  Nothing    *)
(* makes ledgers close or callers call.                                       *)
FairSpec == Spec /\ \A c \in Callers : WF_vars(Rpc(c)) /\ WF_vars(Loop(c))

-----------------------------------------------------------------------------
(* Properties. *)

Whole(bag, s) == \A e \in Events : LedgerOf[e] = s => bag[e] = 1

\* An entry of the cache holds every event of its ledger once: getEvents gives it
\* out as the complete answer without another look at the server, so an entry that
\* misses the tail of a ledger (the page was full) or doubles an event (two calls
\* met on the same page) becomes a wrong block.
CacheComplete ==
    \A s \in Ledgers : CachedEvents(s) # {} => Whole(cache, s)

\* The answer to a block fetch is the events of the ledger asked for, each once and
\* no other, whoever filled the cache before, whatever was in flight, and only for
\* a ledger the server has: the block is wrong for good if an event is missing.
Answered(c) ==
    /\ seq[c] \in Ledgers /\ seq[c] <= newest
    /\ \A e \in Events : acc[c][e] = IF LedgerOf[e] = seq[c] THEN 1 ELSE 0

AnswersExact ==
    \A c \in Fetchers : pc[c] = "fulfilled" => Answered(c)

\* Pages are appended in stream order, to the events of a call and to the entries of
\* the cache: an event that is added comes after all events of its ledger that are
\* there already (concat in fetchEventsForSequence, push in updateEventCache).
Extends(old, new) ==
    \A d, e \in Events :
        LedgerOf[d] = LedgerOf[e] /\ old[d] > 0 /\ new[e] > old[e] => d < e

InOrder ==
    [][Extends(cache, cache') /\ \A c \in Callers : Extends(acc[c], acc'[c])]_vars

\* An event leaves the cache only into the answer of the one call that asked for its
\* ledger (delete this.eventsCache[sequence]; return cachedEvents): a call that fails
\* or a page handled later cannot take it away, and no two calls share an entry.
TakenByAsker ==
    [][\A e \in Events : cache'[e] < cache[e] =>
           \E c \in Callers : /\ pc[c] = "idle" /\ pc'[c] = "fulfilled"
                              /\ seq'[c] = LedgerOf[e]
                              /\ acc'[c][e] = cache[e]]_vars

\* Every call settles: the paging ends although the server may cut pages shorter than
\* asked, so that no short page can be taken for the last one, and although the chain
\* grows meanwhile (fetchEventsForSequence stops at an empty page or past the ledger).
InFlight == {"waiting", "replied", "collected"}

EveryCallSettles ==
    \A c \in Callers : pc[c] \in InFlight ~> pc[c] \in {"fulfilled", "rejected"}

(* The inductive invariant behind CacheComplete and AnswersExact.  It needs     *)
(* pages as long as the client asks for and handlers that do not filter.        *)

\* While pages are read, accEvents are the events of the ledger up to the cursor: the
\* next request begins right behind them.
AccUpToCursor(c) ==
    /\ seq[c] \in Ledgers
    /\ \A e \in Events :
          acc[c][e] = IF LedgerOf[e] = seq[c] /\ e <= req[c].cursor THEN 1 ELSE 0
    /\ req[c].cursor = None => req[c].startLedger = seq[c]
    /\ req[c].cursor # None => LedgerOf[req[c].cursor] = seq[c] /\ seq[c] <= newest

\* A response is a gapless run of what was requested; unless it is full, it ends with a
\* ledger, and unless it goes on to another ledger or has to be continued, none of the
\* ledger is left behind it.
PageGapless(c) ==
    LET page == reply[c].events
        want == Requested(req[c])
    IN  /\ seq[c] <= newest
        /\ req[c].cursor = None => req[c].startLedger < req[c].endLedger
        /\ page \subseteq want
        /\ \A e \in page : LedgerOf[e] <= newest /\ e <= reply[c].cursor
        /\ page = {} => \A e \in want : LedgerOf[e] # seq[c]
        /\ page # {} => /\ reply[c].cursor \in page
                        /\ \A e \in want : e <= reply[c].cursor => e \in page
        /\ Cardinality(page) # PageLimit[c] =>
              \A e \in page, d \in want : LedgerOf[d] = LedgerOf[e] => d \in page

\* Only whole ledgers go to the cache.
WholeLedgers(c) ==
    \A e \in toCache[c] :
        /\ LedgerOf[e] <= newest
        /\ \A d \in Events : LedgerOf[d] = LedgerOf[e] => d \in toCache[c]

CallInv(c) ==
    /\ filter[c] = Events
    /\ pc[c] \in {"idle", "rejected"} => \A e \in Events : acc[c][e] = 0
    /\ pc[c] \in {"waiting", "replied"} => AccUpToCursor(c)
    /\ pc[c] = "replied" => PageGapless(c)
    /\ pc[c] \in {"collected", "fulfilled"} => Answered(c)
    /\ pc[c] = "collected" => WholeLedgers(c)

CacheInv ==
    \A e \in Events : cache[e] > 0 => LedgerOf[e] <= newest /\ Whole(cache, LedgerOf[e])

IInv == CacheInv /\ \A c \in Callers : CallInv(c)

\* Pages, cache and concurrent calls are invisible: each call behaves as the single
\* step of EventSource, that answers with all events of a closed ledger.
status == [c \in Callers |-> IF pc[c] \in InFlight THEN "asked" ELSE pc[c]]
answer == [c \in Callers |-> IF pc[c] = "fulfilled" THEN acc[c] ELSE Nothing]

Source == INSTANCE EventSource WITH asked <- seq

SourceSpec == Source!Spec

=============================================================================
