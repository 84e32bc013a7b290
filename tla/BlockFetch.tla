----------------------------- MODULE BlockFetch -----------------------------
(***************************************************************************)
(* The fetch of a batch of blocks (packages/node/src/stellar/              *)
(* api.stellar.ts): fetchBlocks starts one fetchAndWrapLedger per height;  *)
(* each of them reads the ledger and its lists from the Horizon server, all *)
(* at once and each list page by page, and then, if an operation of the    *)
(* ledger may have emitted events, asks the Soroban RPC client for them.   *)
(*                                                                         *)
(* The first error rejects the batch.  Nothing is cancelled: the other     *)
(* fetches go on, asking the shared client for events, while the           *)
(* dispatcher tries the batch again.  The fetch of height Heights[i] in    *)
(* attempt a is the task <<a, i>>.                                         *)
(*                                                                         *)
(* The Soroban RPC client is EventSource here; SorobanServer implements    *)
(* it.  The lists a failed Promise.all is still reading are dropped: what  *)
(* they read reaches nobody.                                               *)
(***************************************************************************)
EXTENDS Integers, Sequences

CONSTANTS
    Heights,        \* bufferBlocks
    MaxAttempts,    \* how often the dispatcher tries a batch
    LastLedger,     \* the chain of the instance has ledgers 1..LastLedger
    Lists,          \* the lists of a ledger, "operations" among them
    Record,         \* the records on them
    Records,        \* Records[l][s]: the list l of ledger s
    Invokes,        \* the operations of type invoke_host_function
    PageLimit,      \* this.pageLimit
    Events,         \* the contract events
    LedgerOf        \* event.ledger

Ledgers == 1..LastLedger
None    == 0
Batch   == 1..Len(Heights)
Tasks   == (1..MaxAttempts) \X Batch
Parts   == Lists \union {"ledger"}
Height(t) == Heights[t[2]]

ASSUME HeightsType   == LastLedger \in Nat /\ Heights \in Seq(Ledgers)
ASSUME AttemptsType  == MaxAttempts \in Nat
ASSUME ListsType     == "operations" \in Lists /\ "ledger" \notin Lists
ASSUME RecordsType   == Records \in [Lists -> [Ledgers -> Seq(Record)]]
ASSUME PageLimitType == PageLimit \in Nat \ {0}
ASSUME EventsType    == LedgerOf \in [Events -> Ledgers]
\* Only contract calls emit events.
ASSUME EventsNeedInvoke ==
    \A e \in Events : \E n \in 1..Len(Records["operations"][LedgerOf[e]]) :
        Records["operations"][LedgerOf[e]][n] \in Invokes

VARIABLES
    ingested,   \* the newest ledger the Horizon server has ingested
    attempt,    \* the attempt the dispatcher waits for
    batch,      \* the state of its promise
    blocks,     \* what it resolves to
    stage,      \* where each task is
    read,       \* the parts of the Promise.all of a task that have resolved
    list,       \* txs, operations, effects: the records read so far
    cursor,     \* where the next page of a list starts
    events,     \* eventsForSequence
    newest, status, asked, answer   \* the Soroban RPC client, see EventSource

Source == INSTANCE EventSource WITH Callers <- Tasks

client == <<newest, status, asked, answer>>
vars   == <<ingested, attempt, batch, blocks, stage, read, list, cursor, events, client>>

Unread == [l \in Lists |-> <<>>]
Start  == [l \in Lists |-> 0]

(* idle: not started; reading: in the Promise.all; waiting: in              *)
(* getAndWrapEvents; explaining: in getLatestLedger, to word an error.      *)
Stages == {"idle", "reading", "waiting", "explaining", "fulfilled", "rejected"}

Block(t) == [height |-> Height(t), lists |-> list[t], events |-> events[t]]

Blocks == [height : Ledgers, lists : [Lists -> Seq(Record)], events : [Events -> Nat]]

TypeOK ==
    /\ ingested \in 0..LastLedger
    /\ batch \in {"idle", "pending", "fulfilled", "rejected"}
    /\ attempt \in IF batch = "idle" THEN {0} ELSE 1..MaxAttempts
    /\ blocks = <<>> \/ blocks \in [Batch -> Blocks]
    /\ stage \in [Tasks -> Stages]
    /\ read \in [Tasks -> SUBSET Parts]
    /\ list \in [Tasks -> [Lists -> Seq(Record)]]
    /\ cursor \in [Tasks -> [Lists -> Nat]]
    /\ events \in [Tasks -> [Events -> Nat]]
    /\ newest \in 0..LastLedger
    /\ status \in [Tasks -> {"idle", "asked", "fulfilled", "rejected"}]
    /\ asked \in [Tasks -> Ledgers \union {None}]
    /\ answer \in [Tasks -> [Events -> Nat]]

Init ==
    /\ ingested = 0
    /\ attempt = 0
    /\ batch = "idle"
    /\ blocks = <<>>
    /\ stage = [t \in Tasks |-> "idle"]
    /\ read = [t \in Tasks |-> {}]
    /\ list = [t \in Tasks |-> Unread]
    /\ cursor = [t \in Tasks |-> Start]
    /\ events = [t \in Tasks |-> Source!Nothing]
    /\ Source!Init

-----------------------------------------------------------------------------
(* The Horizon server. *)

IngestLedger ==
    /\ ingested < LastLedger
    /\ ingested' = ingested + 1
    /\ UNCHANGED <<attempt, batch, blocks, stage, read, list, cursor, events, client>>

\* A page of list l of ledger s: the records behind the cursor, PageLimit of them
\* at most.  It is empty when there are none.
Page(l, s, c) ==
    LET All  == Records[l][s]
        Last == IF c + PageLimit < Len(All) THEN c + PageLimit ELSE Len(All)
    IN  SubSeq(All, c + 1, Last)

-----------------------------------------------------------------------------
(* fetchAndWrapLedger: the ledger and its lists.  A ledger that the server *)
(* does not have is not found; there is no empty page for it.              *)

Reading(t, p) == stage[t] = "reading" /\ p \notin read[t]

LedgerRead(t) ==
    /\ Reading(t, "ledger")
    /\ Height(t) <= ingested
    /\ read' = [read EXCEPT ![t] = @ \union {"ledger"}]
    /\ UNCHANGED <<ingested, attempt, batch, blocks, stage, list, cursor, events, client>>

\* Seeded fault: the page replaces the records read before it.
FaultNextPage(t, l) ==
    LET page == Page(l, Height(t), cursor[t][l])
    IN  /\ Reading(t, l)
        /\ Height(t) <= ingested
        /\ page # <<>>
        /\ list' = [list EXCEPT ![t][l] = page]
        /\ cursor' = [cursor EXCEPT ![t][l] = @ + Len(page)]
        /\ UNCHANGED <<ingested, attempt, batch, blocks, stage, read, events, client>>

NextPage(t, l) ==
    LET page == Page(l, Height(t), cursor[t][l])
    IN  /\ Reading(t, l)
        /\ Height(t) <= ingested
        /\ page # <<>>
        /\ list' = [list EXCEPT ![t][l] = @ \o page]
        /\ cursor' = [cursor EXCEPT ![t][l] = @ + Len(page)]
        /\ UNCHANGED <<ingested, attempt, batch, blocks, stage, read, events, client>>

\* Only an empty page ends a list.
LastPage(t, l) ==
    /\ Reading(t, l)
    /\ Height(t) <= ingested
    /\ Page(l, Height(t), cursor[t][l]) = <<>>
    /\ read' = [read EXCEPT ![t] = @ \union {l}]
    /\ UNCHANGED <<ingested, attempt, batch, blocks, stage, list, cursor, events, client>>

\* The server does not have the ledger, the connection breaks, a request times out.
ReadFail(t) ==
    /\ stage[t] = "reading"
    /\ read[t] # Parts
    /\ stage' = [stage EXCEPT ![t] = "rejected"]
    /\ UNCHANGED <<ingested, attempt, batch, blocks, read, list, cursor, events, client>>

-----------------------------------------------------------------------------
(* fetchAndWrapLedger: the events. *)

\* Seeded fault: only the first operation is looked at.
FaultHasInvokeHostFunctionOp(t) ==
    list[t]["operations"] # <<>> /\ list[t]["operations"][1] \in Invokes

HasInvokeHostFunctionOp(t) ==
    \E n \in 1..Len(list[t]["operations"]) : list[t]["operations"][n] \in Invokes

\* All parts are there and no events are needed: the block is complete.
SkipEvents(t) ==
    /\ stage[t] = "reading"
    /\ read[t] = Parts
    /\ ~HasInvokeHostFunctionOp(t)
    /\ stage' = [stage EXCEPT ![t] = "fulfilled"]
    /\ UNCHANGED <<ingested, attempt, batch, blocks, read, list, cursor, events, client>>

\* What the task does of the three steps in which it meets the client: it asks, it
\* takes the answer, it takes the error.
AskForEvents(t) ==
    /\ stage[t] = "reading"
    /\ read[t] = Parts
    /\ HasInvokeHostFunctionOp(t)
    /\ stage' = [stage EXCEPT ![t] = "waiting"]
    /\ UNCHANGED <<ingested, attempt, batch, blocks, read, list, cursor, events>>

TakeEvents(t) ==
    /\ stage[t] = "waiting"
    /\ status[t] = "fulfilled"
    /\ events' = [events EXCEPT ![t] = answer[t]]
    /\ stage' = [stage EXCEPT ![t] = "fulfilled"]
    /\ UNCHANGED <<ingested, attempt, batch, blocks, read, list, cursor>>

\* Seeded fault: the error is written to the log and not thrown.
FaultTakeError(t) ==
    /\ stage[t] = "waiting"
    /\ status[t] = "rejected"
    /\ UNCHANGED <<ingested, attempt, batch, blocks, stage, read, list, cursor, events>>

\* "start is after newest ledger" is looked into; all other errors are thrown on.
TakeError(t) ==
    /\ stage[t] = "waiting"
    /\ status[t] = "rejected"
    /\ \E next \in {"rejected", "explaining"} : stage' = [stage EXCEPT ![t] = next]
    /\ UNCHANGED <<ingested, attempt, batch, blocks, read, list, cursor, events>>

GetEvents(t)  == AskForEvents(t) /\ Source!Ask(t, Height(t))
WrapEvents(t) == TakeEvents(t) /\ Source!Return(t)
EventsFail(t) == TakeError(t) /\ Source!Return(t)

\* getLatestLedger returns or fails: either way there is an error to throw.
Explain(t) ==
    /\ stage[t] = "explaining"
    /\ stage' = [stage EXCEPT ![t] = "rejected"]
    /\ UNCHANGED <<ingested, attempt, batch, blocks, read, list, cursor, events, client>>

\* A step of the Soroban RPC client and its server.
ClientStep ==
    /\ \/ Source!CloseLedger
       \/ \E t \in Tasks : Source!Answer(t) \/ Source!Fail(t)
    /\ UNCHANGED <<ingested, attempt, batch, blocks, stage, read, list, cursor, events>>

-----------------------------------------------------------------------------
(* fetchBlocks. *)

FetchBlocks ==
    /\ batch \in {"idle", "rejected"}
    /\ attempt < MaxAttempts
    /\ attempt' = attempt + 1
    /\ batch' = "pending"
    /\ stage' = [t \in Tasks |-> IF t[1] = attempt + 1 THEN "reading" ELSE stage[t]]
    /\ UNCHANGED <<ingested, blocks, read, list, cursor, events, client>>

\* Seeded fault: the first fetch to finish finishes the batch.
FaultFulfil ==
    /\ batch = "pending"
    /\ \E i \in Batch : stage[<<attempt, i>>] = "fulfilled"
    /\ batch' = "fulfilled"
    /\ blocks' = [i \in Batch |-> Block(<<attempt, i>>)]
    /\ UNCHANGED <<ingested, attempt, stage, read, list, cursor, events, client>>

Fulfil ==
    /\ batch = "pending"
    /\ \A i \in Batch : stage[<<attempt, i>>] = "fulfilled"
    /\ batch' = "fulfilled"
    /\ blocks' = [i \in Batch |-> Block(<<attempt, i>>)]
    /\ UNCHANGED <<ingested, attempt, stage, read, list, cursor, events, client>>

\* Seeded fault: a rejected batch hands out the blocks it has.
FaultReject ==
    /\ batch = "pending"
    /\ \E i \in Batch : stage[<<attempt, i>>] = "rejected"
    /\ batch' = "rejected"
    /\ blocks' = [i \in {k \in Batch : stage[<<attempt, k>>] = "fulfilled"} |-> Block(<<attempt, i>>)]
    /\ UNCHANGED <<ingested, attempt, stage, read, list, cursor, events, client>>

\* Seeded fault: one error is not enough to give up the batch.
FaultRejectAll ==
    /\ batch = "pending"
    /\ \A i \in Batch : stage[<<attempt, i>>] = "rejected"
    /\ batch' = "rejected"
    /\ UNCHANGED <<ingested, attempt, blocks, stage, read, list, cursor, events, client>>

Reject ==
    /\ batch = "pending"
    /\ \E i \in Batch : stage[<<attempt, i>>] = "rejected"
    /\ batch' = "rejected"
    /\ UNCHANGED <<ingested, attempt, blocks, stage, read, list, cursor, events, client>>

-----------------------------------------------------------------------------

\* The steps of a task that leave the client alone, and those that do not.
OwnStep(t) ==
    \/ LedgerRead(t)
    \/ \E l \in Lists : NextPage(t, l) \/ LastPage(t, l)
    \/ ReadFail(t) \/ SkipEvents(t) \/ Explain(t)

TaskStep(t) == OwnStep(t) \/ GetEvents(t) \/ WrapEvents(t) \/ EventsFail(t)

Next ==
    \/ IngestLedger
    \/ ClientStep
    \/ FetchBlocks \/ Fulfil \/ Reject
    \/ \E t \in Tasks : TaskStep(t)

Spec == Init /\ [][Next]_vars

ClientSettles(t) == (Source!Answer(t) \/ Source!Fail(t)) /\ UNCHANGED <<ingested, attempt, batch, blocks, stage, read, list, cursor, events>>

\* Requests are answered or time out, and the event loop runs what is ready.
\* Ledgers need not close, and nobody has to try again.
FairSpec ==
    /\ Spec
    /\ WF_vars(Fulfil \/ Reject)
    /\ \A t \in Tasks : WF_vars(TaskStep(t)) /\ WF_vars(ClientSettles(t))

-----------------------------------------------------------------------------
(* Properties. *)

TheBlock == [s \in Ledgers |-> [height |-> s,
                                lists  |-> [l \in Lists |-> Records[l][s]],
                                events |-> Source!EventsOf(s)]]

\* The ledgers that need the Soroban RPC server.
SorobanLedgers ==
    {s \in Ledgers : \E n \in 1..Len(Records["operations"][s]) : Records["operations"][s][n] \in Invokes}

\* An attempt that succeeds returns the blocks of the chain: one per height and in
\* that order, every list complete, in order and free of repetitions, all events of
\* the ledger and none of another, whatever failed, was repeated or is still
\* running from earlier attempts (fetchBlocks, fetchAndWrapLedger).
BlocksExact ==
    batch = "fulfilled" => blocks = [i \in Batch |-> TheBlock[Heights[i]]]

\* A ledger without contract calls does not depend on the Soroban RPC server: no
\* task asks for its events, and none misses the events of another ledger
\* (fetchAndWrapLedger, hasInvokeHostFunctionOp).
AsksWhenNeeded ==
    \A t \in Tasks :
       /\ status[t] # "idle" => Height(t) \in SorobanLedgers
       /\ stage[t] = "fulfilled" => events[t] = Source!EventsOf(Height(t))

\* The parts of the inductive invariant.  A list is a prefix of the server's, up to
\* its cursor, and all of it once it is read.
ListsUpToCursor ==
    \A t \in Tasks : \A l \in Lists :
       /\ cursor[t][l] <= Len(Records[l][Height(t)])
       /\ list[t][l] = SubSeq(Records[l][Height(t)], 1, cursor[t][l])
       /\ l \in read[t] => cursor[t][l] = Len(Records[l][Height(t)])

\* A task waits for its own call to the client, with everything read.
TasksInStep ==
    \A t \in Tasks :
       /\ read[t] # {} => Height(t) <= ingested
       /\ stage[t] \in {"waiting", "fulfilled"} => read[t] = Parts
       /\ stage[t] = "waiting" <=> status[t] # "idle"
       /\ stage[t] = "waiting" => asked[t] = Height(t) /\ Height(t) \in SorobanLedgers
       /\ t[1] > attempt => stage[t] = "idle"

\* The client keeps its promise, and the events of a block are those it returned.
EventsOfTasks ==
    \A t \in Tasks :
       /\ status[t] = "fulfilled" => answer[t] = Source!EventsOf(asked[t]) /\ asked[t] <= newest
       /\ stage[t] # "fulfilled" => events[t] = Source!Nothing
       /\ stage[t] = "fulfilled" =>
             /\ events[t] = Source!EventsOf(Height(t))
             /\ Height(t) \in SorobanLedgers => Height(t) <= newest

\* The inductive invariant: what every task of every attempt has read is a prefix
\* of the truth, so any set of finished tasks may become the batch.
IInv ==
    /\ TypeOK
    /\ ListsUpToCursor
    /\ TasksInStep
    /\ EventsOfTasks
    /\ BlocksExact

\* Every attempt ends, with the blocks or with an error (fetchBlocks).
BatchSettles == batch = "pending" ~> batch \in {"fulfilled", "rejected"}

\* No fetch goes on for ever, not even one whose batch was given up: paging ends
\* and no error is lost (fetchAndWrapLedger).
TasksSettle == \A t \in Tasks : stage[t] = "reading" ~> stage[t] \in {"fulfilled", "rejected"}

-----------------------------------------------------------------------------
(* BlockFetch implements BlockSource. *)

Ready(i, n) ==
    \A k \in Batch : /\ Heights[k] <= i
                     /\ Heights[k] \in SorobanLedgers => Heights[k] <= n

Abstract   == INSTANCE BlockSource
SourceSpec == Abstract!Spec

=============================================================================
