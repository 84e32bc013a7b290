---------------------------- MODULE MCIndexBlock ----------------------------
(* An instance of IndexBlock: operations with and without a contract call, an *)
(* effect and an event.                                                       *)
EXTENDS IndexBlock

MCOperations ==
    {[invoke |-> FALSE, effects |-> 1, events |-> 0],
     [invoke |-> TRUE,  effects |-> 1, events |-> 1],
     [invoke |-> TRUE,  effects |-> 0, events |-> 2]}
MCDataSources == <<"a", "b">>
MCTemplates   == <<"t">>
=============================================================================
