-------------------------- MODULE MCSorobanServer --------------------------
(* Instances of SorobanServer for TLC. *)
EXTENDS SorobanServer

\* With pages of three, the events of ledger 1 need two pages, the second brings along
\* ledger 2 and cuts ledger 3; where there is a ledger 4, it has no events.
MCLedgerOf == <<1, 1, 1, 1, 2, 3, 3>>

\* Block fetches ask for three events, the handler for two.
MCPageLimit == [c \in Callers |-> IF c \in Fetchers THEN 3 ELSE 2]

AllEvents == {Events}

\* A handler that filters by contract sees every second event.
SomeEvents == {Events, {e \in Events : e % 2 = 1}}

=============================================================================
