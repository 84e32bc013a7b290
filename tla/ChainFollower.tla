--------------------------- MODULE ChainFollower ---------------------------
(***************************************************************************)
(* Following the chain: the headers and heights BlockchainService          *)
(* (packages/node/src/blockchain.service.ts) and the workers               *)
(* (indexer/worker/worker.service.ts) give to node-core, and the errors a  *)
(* connection reports (stellar/api.connection.ts).                         *)
(*                                                                         *)
(* Ledgers of Stellar are final when they close and cannot be looked up by *)
(* hash, so heights stand for hashes (stellar/utils.stellar.ts).  The      *)
(* Horizon servers may be behind each other, and an answer may be old when *)
(* it arrives.                                                             *)
(*                                                                         *)
(* The dispatcher is node-core's and modelled as far as the code here      *)
(* serves it: it polls the two heights, gives the heights up to one of     *)
(* them to a few slots (workers, or places in a batch), skips heights the  *)
(* dictionary rules out, tries a failed fetch again, indexes in order, and *)
(* looks for forks by comparing hashes.  A fetch is one step here;         *)
(* BlockFetch refines it.                                                  *)
(***************************************************************************)
EXTENDS Integers, Sequences

CONSTANTS
    Endpoints,    \* the Horizon servers of the pool
    NoEndpoint,   \* stands for none of them
    Slots,        \* heights fetched at a time
    LastLedger,   \* the chain of the instance has ledgers 1..LastLedger
    ClosedAt,     \* ledger.closed_at
    Messages,     \* the errors of a request, see Phrases
    Unsteady,     \* the servers whose errors may be disconnections
    MaxRestarts   \* how often the node is started again

Ledgers == 1..LastLedger
None    == 0

ASSUME ChainType    == LastLedger \in Nat
ASSUME RestartsType == MaxRestarts \in Nat
ASSUME NoEndpointIsNone == NoEndpoint \notin Endpoints

VARIABLES
    closed,             \* the newest ledger of each server
    unfinalizedBlocks,  \* does the node follow the best or the finalized height
    finalized,          \* the newest header node-core was given
    bestHeight,         \* the newest height node-core was given
    polls,              \* the ledger a server answered an open poll with
    nextHeight,         \* the next height to hand out
    slot,               \* the fetches
    processed,          \* the headers of the indexed blocks
    forked,             \* has a comparison of hashes failed
    lost,               \* the connections that are down
    restarts            \* how often the node was started again

fetching == <<nextHeight, slot>>
heads    == <<finalized, bestHeight, polls>>
fixed    == <<unfinalizedBlocks, restarts>>
vars     == <<closed, fixed, heads, fetching, processed, forked, lost>>

Polls == {"getFinalizedHeader", "getBestHeight"}

-----------------------------------------------------------------------------
(* Headers. *)

\* The string of a number, and back.
ToString(n)  == [digits |-> n]
ParseInt(s)  == s.digits

\* Seeded fault: the ledger is named as its own parent.
FaultOwnParent(n) ==
    [blockHeight |-> n, blockHash |-> ToString(n), parentHash |-> ToString(n), timestamp |-> ClosedAt[n]]

\* Seeded fault: the header has the height of the ledger before.
FaultHeight(n) ==
    [blockHeight |-> n - 1, blockHash |-> ToString(n), parentHash |-> ToString(n - 1), timestamp |-> ClosedAt[n]]

StellarBlockToHeader(n) ==
    [blockHeight |-> n, blockHash |-> ToString(n), parentHash |-> ToString(n - 1), timestamp |-> ClosedAt[n]]

NoHeader == [blockHeight |-> 0, blockHash |-> ToString(0), parentHash |-> ToString(0), timestamp |-> 0]

GetHeaderForHeight(n) == StellarBlockToHeader(n)
GetHeaderForHash(hash) == GetHeaderForHeight(ParseInt(hash))

Headers == {StellarBlockToHeader(n) : n \in Ledgers}

\* Seeded fault: the finalized height is counted up twice.
FaultGetBestBlockHeight(newest) == newest + 2

\* The ledger after the newest one.
GetBestBlockHeight(newest) == newest + 1

\* The heights that may be fetched.
Limit == IF unfinalizedBlocks THEN bestHeight ELSE finalized.blockHeight

\* How node-core tells a fork: the finalized header, or the header of the next block,
\* does not fit the blocks it has indexed, or the chain has another block by now.
Misfit(header, p) ==
    \/ p.blockHeight = header.blockHeight /\ p.blockHash # header.blockHash
    \/ p.blockHeight = header.blockHeight - 1 /\ p.blockHash # header.parentHash
    \/ GetHeaderForHash(p.blockHash) # p

Forks(header) == \E i \in DOMAIN processed : Misfit(header, processed[i])

-----------------------------------------------------------------------------
(* Errors. *)

\* What an error's message has in it; "disconnected from " is what it starts with.
Phrases ==
    {"Timeout", "disconnected from ", "Rate Limit Exceeded", "Too Many Requests",
     "limit must not exceed"}

ASSUME MessagesType == Messages \subseteq SUBSET Phrases

\* Seeded fault: whatever is not known counts as a lost connection.
FaultHandleError(message) ==
    IF "Timeout" \in message THEN "Timeout"
    ELSE IF message \intersect {"Rate Limit Exceeded", "Too Many Requests"} # {} THEN "RateLimit"
    ELSE IF "limit must not exceed" \in message THEN "LargeResponse"
    ELSE "Connection"

\* The first phrase that is found in the message decides.
HandleError(message) ==
    IF "Timeout" \in message THEN "Timeout"
    ELSE IF "disconnected from " \in message THEN "Connection"
    ELSE IF message \intersect {"Rate Limit Exceeded", "Too Many Requests"} # {} THEN "RateLimit"
    ELSE IF "limit must not exceed" \in message THEN "LargeResponse"
    ELSE "Default"

\* A request for a ledger the server does not have is answered with "Not Found".
NotFound == {}

-----------------------------------------------------------------------------

Fetch(stage, h, e, header) == [stage |-> stage, height |-> h, endpoint |-> e, header |-> header]

Idle == Fetch("idle", None, NoEndpoint, NoHeader)

TypeOK ==
    /\ closed \in [Endpoints -> 0..LastLedger]
    /\ unfinalizedBlocks \in BOOLEAN
    /\ finalized \in Headers \union {NoHeader}
    /\ bestHeight \in 0..LastLedger + 1
    /\ polls \in [Polls -> 0..LastLedger]
    /\ nextHeight \in 1..LastLedger + 2
    /\ slot \in [Slots -> [stage : {"idle", "queued", "asked", "fetched"}, height : 0..LastLedger + 1,
                           endpoint : Endpoints \union {NoEndpoint}, header : Headers \union {NoHeader}]]
    /\ processed \in Seq(Headers)
    /\ forked \in BOOLEAN
    /\ lost \subseteq Endpoints
    /\ restarts \in 0..MaxRestarts

Init ==
    /\ closed \in [Endpoints -> 0..LastLedger]
    /\ unfinalizedBlocks \in BOOLEAN
    /\ finalized = NoHeader
    /\ bestHeight = 0
    /\ polls = [k \in Polls |-> None]
    /\ nextHeight = 1
    /\ slot = [s \in Slots |-> Idle]
    /\ processed = <<>>
    /\ forked = FALSE
    /\ lost = {}
    /\ restarts = 0

CloseLedger(e) ==
    /\ closed[e] < LastLedger
    /\ closed' = [closed EXCEPT ![e] = @ + 1]
    /\ UNCHANGED <<fixed, heads, fetching, processed, forked, lost>>

\* A server answers with its newest ledger, when it has one.
GetFinalizedBlock(k, e) ==
    /\ polls[k] = None
    /\ e \notin lost
    /\ closed[e] > 0
    /\ polls' = [polls EXCEPT ![k] = closed[e]]
    /\ UNCHANGED <<closed, fixed, finalized, bestHeight, fetching, processed, forked, lost>>

GetFinalizedHeader ==
    LET header == StellarBlockToHeader(polls["getFinalizedHeader"])
    IN  /\ polls["getFinalizedHeader"] # None
        /\ finalized' = header
        /\ forked' = (forked \/ Forks(header))
        /\ polls' = [polls EXCEPT !["getFinalizedHeader"] = None]
        /\ UNCHANGED <<closed, fixed, bestHeight, fetching, processed, lost>>

GetBestHeight ==
    /\ polls["getBestHeight"] # None
    /\ bestHeight' = GetBestBlockHeight(polls["getBestHeight"])
    /\ polls' = [polls EXCEPT !["getBestHeight"] = None]
    /\ UNCHANGED <<closed, fixed, finalized, fetching, processed, forked, lost>>

\* The answer does not arrive.
PollFails(k) ==
    /\ polls[k] # None
    /\ polls' = [polls EXCEPT ![k] = None]
    /\ UNCHANGED <<closed, fixed, finalized, bestHeight, fetching, processed, forked, lost>>

\* The dispatcher hands out a height; those below it are skipped.
Enqueue(s, h) ==
    /\ slot[s].stage = "idle"
    /\ h \in nextHeight..Limit
    /\ nextHeight' = h + 1
    /\ slot' = [slot EXCEPT ![s] = Fetch("queued", h, NoEndpoint, NoHeader)]
    /\ UNCHANGED <<closed, fixed, heads, processed, forked, lost>>

\* fetchChainBlock of a worker, fetchBlocks of the connection.
FetchBlock(s, e) ==
    /\ slot[s].stage = "queued"
    /\ e \notin lost
    /\ slot' = [slot EXCEPT ![s] = Fetch("asked", slot[s].height, e, NoHeader)]
    /\ UNCHANGED <<closed, fixed, heads, nextHeight, processed, forked, lost>>

FetchSucceeds(s) ==
    /\ slot[s].stage = "asked"
    /\ slot[s].height <= closed[slot[s].endpoint]
    /\ slot' = [slot EXCEPT ![s] =
                  Fetch("fetched", slot[s].height, NoEndpoint, StellarBlockToHeader(slot[s].height))]
    /\ UNCHANGED <<closed, fixed, heads, nextHeight, processed, forked, lost>>

\* A lost connection is never made again: apiConnect is not implemented.
Reject(s, message) ==
    /\ slot' = [slot EXCEPT ![s] = Fetch("queued", slot[s].height, NoEndpoint, NoHeader)]
    /\ lost' = IF HandleError(message) = "Connection" THEN lost \union {slot[s].endpoint} ELSE lost
    /\ UNCHANGED <<closed, fixed, heads, nextHeight, processed, forked>>

FetchNotFound(s) ==
    /\ slot[s].stage = "asked"
    /\ slot[s].height > closed[slot[s].endpoint]
    /\ Reject(s, NotFound)

FetchFails(s, message) ==
    /\ slot[s].stage = "asked"
    /\ "disconnected from " \in message => slot[s].endpoint \in Unsteady
    /\ Reject(s, message)

\* Seeded fault: the block stays with the fetched ones when it has been indexed.
FaultIndexBlock(s) ==
    /\ slot[s].stage = "fetched"
    /\ \A t \in Slots : slot[t].stage # "idle" => slot[s].height <= slot[t].height
    /\ processed' = Append(processed, slot[s].header)
    /\ forked' = (forked \/ Forks(slot[s].header))
    /\ UNCHANGED <<closed, fixed, heads, fetching, lost>>

\* Blocks are indexed in the order of their heights; the header goes to the check for forks.
IndexBlock(s) ==
    /\ slot[s].stage = "fetched"
    /\ \A t \in Slots : slot[t].stage # "idle" => slot[s].height <= slot[t].height
    /\ processed' = Append(processed, slot[s].header)
    /\ forked' = (forked \/ Forks(slot[s].header))
    /\ slot' = [slot EXCEPT ![s] = Idle]
    /\ UNCHANGED <<closed, fixed, heads, nextHeight, lost>>

\* The node is started again: what is left is in the database.
Restart ==
    /\ restarts < MaxRestarts
    /\ restarts' = restarts + 1
    /\ finalized' = NoHeader
    /\ bestHeight' = 0
    /\ polls' = [k \in Polls |-> None]
    /\ nextHeight' = IF processed = <<>> THEN 1 ELSE processed[Len(processed)].blockHeight + 1
    /\ slot' = [s \in Slots |-> Idle]
    /\ lost' = {}
    /\ UNCHANGED <<closed, unfinalizedBlocks, processed, forked>>

-----------------------------------------------------------------------------

Poll(k) == \E e \in Endpoints : GetFinalizedBlock(k, e)
HandOut == \E s \in Slots, h \in 1..LastLedger + 1 : Enqueue(s, h)
Ask(s)  == \E e \in Endpoints : FetchBlock(s, e)

Next ==
    \/ \E e \in Endpoints : CloseLedger(e)
    \/ \E k \in Polls : Poll(k) \/ PollFails(k)
    \/ GetFinalizedHeader \/ GetBestHeight
    \/ HandOut
    \/ \E s \in Slots :
          \/ Ask(s) \/ FetchSucceeds(s) \/ FetchNotFound(s) \/ IndexBlock(s)
          \/ \E message \in Messages : FetchFails(s, message)
    \/ Restart

Spec == Init /\ [][Next]_vars

\* The dispatcher polls, hands out, asks again and indexes for ever; a request that is
\* made again and again succeeds again and again, if its ledger is there.
FairSpec ==
    /\ Spec
    /\ \A k \in Polls : WF_vars(Poll(k))
    /\ SF_vars(GetFinalizedHeader) /\ SF_vars(GetBestHeight)
    /\ WF_vars(HandOut)
    /\ \A s \in Slots : WF_vars(Ask(s)) /\ SF_vars(FetchSucceeds(s)) /\ WF_vars(IndexBlock(s))

-----------------------------------------------------------------------------
(* Properties. *)

\* Heights in the place of hashes are enough for node-core's handling of unfinalized
\* blocks ("we use the block numbers for hashes so that unfinalized blocks works",
\* stellarBlockToHeader): whatever headers arrive, from whichever server and however
\* late, no fork is seen where there is none, and no rewind begins.
NoFork == ~forked

\* Nothing is asked for beyond the ledger after the newest one of all servers
\* (getBestBlockHeight), and what is indexed has closed.
NeverFarAhead ==
    \A s \in Slots : slot[s].stage # "idle" =>
        \E e \in Endpoints : IF slot[s].stage = "fetched" THEN slot[s].height <= closed[e]
                                                          ELSE slot[s].height <= closed[e] + 1

\* Blocks are indexed once and in order, also if the node is restarted while others
\* are being fetched.
IndexedInOrder ==
    \A i, j \in DOMAIN processed : i < j => processed[i].blockHeight < processed[j].blockHeight

\* The inductive invariant: the heights known are those of some server, and a fetch
\* never overlaps with another one or with what has been indexed.
HeightsAreClosed ==
    /\ bestHeight # 0 => \E e \in Endpoints : bestHeight <= closed[e] + 1
    /\ finalized # NoHeader => \E e \in Endpoints : finalized.blockHeight <= closed[e]
    /\ \A k \in Polls : polls[k] # None => \E e \in Endpoints : polls[k] <= closed[e]

SlotsInStep ==
    /\ \A s \in Slots :
          /\ slot[s].stage # "idle" => slot[s].height \in 1..(nextHeight - 1)
          /\ slot[s].stage = "asked" => slot[s].endpoint \in Endpoints
          /\ slot[s].stage = "fetched" =>
                slot[s].height <= LastLedger /\ slot[s].header = StellarBlockToHeader(slot[s].height)
    /\ \A s, t \in Slots :
          slot[s].stage # "idle" /\ slot[t].stage # "idle" /\ s # t => slot[s].height # slot[t].height

ProcessedBelow ==
    \A i \in DOMAIN processed :
        /\ processed[i].blockHeight < nextHeight
        /\ \A s \in Slots : slot[s].stage # "idle" => processed[i].blockHeight < slot[s].height

IInv ==
    /\ TypeOK /\ HeightsAreClosed /\ SlotsInStep /\ ProcessedBelow
    /\ NeverFarAhead /\ IndexedInOrder /\ NoFork

\* Height n has been indexed, or skipped.
Followed(n) == nextHeight > n /\ \A s \in Slots : slot[s].stage # "idle" => slot[s].height > n

\* A ledger that every server has is indexed or skipped in the end, though servers lag
\* behind each other, requests fail, the node is restarted, a server is disconnected for
\* good and the best height runs ahead of the chain: asking for the ledger that is not
\* there yet must not cost the connection, which never comes back (getBestBlockHeight,
\* handleError, apiConnect).  One server that stays connected is enough.
CatchesUp ==
    Endpoints \ Unsteady # {} =>
        \A n \in Ledgers : (\A e \in Endpoints : closed[e] >= n) ~> Followed(n)

=============================================================================
