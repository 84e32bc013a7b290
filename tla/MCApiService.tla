---------------------------- MODULE MCApiService ----------------------------
(* Instances of ApiService: one project that starts, one that must not, one that *)
(* is started with an endpoint on the command line, and one without handlers of   *)
(* Soroban events.                                                                *)
EXTENDS ApiService

MCLedgerOf == <<1, 2>>

Soroban == [kind |-> "Runtime", handlers |-> {"Event", "other"}]
Classic == [kind |-> "Runtime", handlers |-> {"other"}]

MCProjects ==
    {[dataSources |-> {Soroban}, templates |-> {}, sorobanEndpoint |-> TRUE, argv |-> FALSE],
     [dataSources |-> {Classic}, templates |-> {Soroban}, sorobanEndpoint |-> FALSE, argv |-> FALSE],
     [dataSources |-> {Classic}, templates |-> {Soroban}, sorobanEndpoint |-> FALSE, argv |-> TRUE],
     [dataSources |-> {Classic}, templates |-> {}, sorobanEndpoint |-> FALSE, argv |-> FALSE]}
=============================================================================
