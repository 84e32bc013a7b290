---------------------------- MODULE EventSource ----------------------------
(***************************************************************************)
(* What a caller of SorobanServer.getEvents may count on: one call, one    *)
(* outcome.  Either the call fails, or it returns all events of the ledger *)
(* that was asked for, each once, and then the ledger had closed.  There   *)
(* are no pages, no cache and no other callers.                            *)
(***************************************************************************)
EXTENDS Integers

CONSTANTS Callers, Ledgers, Events, LedgerOf, None

VARIABLES
    newest,   \* the newest closed ledger
    status,   \* of each call: idle, asked, fulfilled, rejected
    asked,    \* the ledger it is about
    answer    \* how often each event is in its answer

vars == <<newest, status, asked, answer>>

Nothing == [e \in Events |-> 0]
EventsOf(s) == [e \in Events |-> IF LedgerOf[e] = s THEN 1 ELSE 0]

Init ==
    /\ newest = 0
    /\ status = [c \in Callers |-> "idle"]
    /\ asked = [c \in Callers |-> None]
    /\ answer = [c \in Callers |-> Nothing]

CloseLedger ==
    /\ newest + 1 \in Ledgers
    /\ newest' = newest + 1
    /\ UNCHANGED <<status, asked, answer>>

\* A call for ledger s begins and may be answered at once.
Ask(c, s) ==
    /\ status[c] = "idle"
    /\ asked' = [asked EXCEPT ![c] = s]
    /\ \/ /\ status' = [status EXCEPT ![c] = "asked"]
          /\ UNCHANGED answer
       \/ /\ s <= newest
          /\ status' = [status EXCEPT ![c] = "fulfilled"]
          /\ answer' = [answer EXCEPT ![c] = EventsOf(s)]
    /\ UNCHANGED newest

\* A call without a ledger is refused.
AskForNothing(c) ==
    /\ status[c] = "idle"
    /\ status' = [status EXCEPT ![c] = "rejected"]
    /\ UNCHANGED <<newest, asked, answer>>

Answer(c) ==
    /\ status[c] = "asked"
    /\ asked[c] <= newest
    /\ status' = [status EXCEPT ![c] = "fulfilled"]
    /\ answer' = [answer EXCEPT ![c] = EventsOf(asked[c])]
    /\ UNCHANGED <<newest, asked>>

Fail(c) ==
    /\ status[c] = "asked"
    /\ status' = [status EXCEPT ![c] = "rejected"]
    /\ UNCHANGED <<newest, asked, answer>>

Return(c) ==
    /\ status[c] \in {"fulfilled", "rejected"}
    /\ status' = [status EXCEPT ![c] = "idle"]
    /\ asked' = [asked EXCEPT ![c] = None]
    /\ answer' = [answer EXCEPT ![c] = Nothing]
    /\ UNCHANGED newest

Next ==
    \/ CloseLedger
    \/ \E c \in Callers :
          \/ \E s \in Ledgers : Ask(c, s)
          \/ AskForNothing(c) \/ Answer(c) \/ Fail(c) \/ Return(c)

SafeSpec == Init /\ [][Next]_vars

\* Every call is answered or fails.
Spec == SafeSpec /\ \A c \in Callers : WF_vars(Answer(c) \/ Fail(c))

=============================================================================
