---------------------------- MODULE BlockSource ----------------------------
(***************************************************************************)
(* What the dispatcher may count on when it fetches a batch of blocks: an  *)
(* attempt either fails as a whole, or it returns one block per height, in *)
(* the order of the heights, every block the one of the chain.  A failed   *)
(* attempt leaves nothing behind that a later one could trip over.         *)
(***************************************************************************)
EXTENDS Integers, Sequences

CONSTANTS
    Heights,      \* the heights of the batch
    MaxAttempts,  \* how often the dispatcher tries
    Ready(_, _),  \* Ready(ingested, newest): the servers have what the batch needs
    TheBlock,     \* the block of a height
    LastLedger    \* the chain ends there

VARIABLES
    ingested,   \* the newest ledger of the Horizon server
    newest,     \* the newest ledger of the Soroban RPC server
    attempt,    \* the number of the current attempt
    batch,      \* idle, pending, fulfilled, rejected
    blocks      \* what the fulfilled attempt returned

vars == <<ingested, newest, attempt, batch, blocks>>

Init ==
    /\ ingested = 0
    /\ newest = 0
    /\ attempt = 0
    /\ batch = "idle"
    /\ blocks = <<>>

Grow ==
    /\ \/ ingested < LastLedger /\ ingested' = ingested + 1 /\ UNCHANGED newest
       \/ newest < LastLedger /\ newest' = newest + 1 /\ UNCHANGED ingested
    /\ UNCHANGED <<attempt, batch, blocks>>

Try ==
    /\ batch \in {"idle", "rejected"}
    /\ attempt < MaxAttempts
    /\ attempt' = attempt + 1
    /\ batch' = "pending"
    /\ UNCHANGED <<ingested, newest, blocks>>

Deliver ==
    /\ batch = "pending"
    /\ Ready(ingested, newest)
    /\ batch' = "fulfilled"
    /\ blocks' = [i \in 1..Len(Heights) |-> TheBlock[Heights[i]]]
    /\ UNCHANGED <<ingested, newest, attempt>>

GiveUp ==
    /\ batch = "pending"
    /\ batch' = "rejected"
    /\ UNCHANGED <<ingested, newest, attempt, blocks>>

Next == Grow \/ Try \/ Deliver \/ GiveUp

SafeSpec == Init /\ [][Next]_vars

\* An attempt ends.
Spec == SafeSpec /\ WF_vars(Deliver \/ GiveUp)

=============================================================================
