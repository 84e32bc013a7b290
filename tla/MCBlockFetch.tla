---------------------------- MODULE MCBlockFetch ----------------------------
(* Instances of BlockFetch.  Ledger 1 has two operations and only the second  *)
(* is a contract call, so that the decision to ask for events needs all pages;*)
(* ledger 2 has no contract call.                                             *)
EXTENDS BlockFetch

MCLists   == {"operations"}
MCInvokes == {12}
MCRecords ==
    [l \in Lists |-> IF l = "operations" THEN <<<<11, 12>>, <<21>>>> ELSE <<<<>>, <<31>>>>]
MCLedgerOf == <<1, 1>>
MCHeights  == <<1, 2>>
MCDownward == <<2, 1>>
=============================================================================
