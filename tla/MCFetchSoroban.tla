--------------------------- MODULE MCFetchSoroban ---------------------------
(* An instance of FetchSoroban. *)
EXTENDS FetchSoroban

MCHeights == <<1, 2>>
MCTasks   == (1..MaxAttempts) \X (1..Len(MCHeights))
MCLists   == {"operations"}
MCRecords == [l \in Lists |-> [s \in 1..LastLedger |-> <<10 + s>>]]
MCInvokes == {11, 12}

\* One page holds both ledgers: what is read for one is kept for the other.
MCLedgerOf == <<1, 2>>

MCPageLimit == [c \in Callers |-> ListLimit]

AllEvents == {Events}
=============================================================================
