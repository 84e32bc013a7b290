---------------------------- MODULE MCDictionary ----------------------------
(* Projects and data for TLC. *)
EXTENDS Dictionary

\* "A" and "a" differ in case only.
MCStrings == {"A", "a", "b"}
MCLower   == [s \in MCStrings |-> IF s = "A" THEN "a" ELSE s]

Datum(entity, account, type, contractId, topics) ==
    [entity |-> entity, sequence |-> 1, account |-> account, type |-> type, invokes |-> account = "b",
     contractId |-> contractId, topics |-> topics]

MCData ==
    {Datum(entity, account, type, None, <<>>) :
        entity \in {"transactions", "operations", "effects"},
        account \in MCStrings, type \in {"a", "b"}}
    \union
    {Datum("events", "b", "b", contractId, topics) :
        contractId \in {"A", "b", None},
        topics \in {<<>>, <<"a">>, <<"b", "A">>, <<"a", "b", "b", "A">>}}

NoFields == [account |-> None, sourceAccount |-> None, type |-> None,
             contractId |-> None, modulo |-> None, topics |-> None]

Handler(kind, filter) == [kind |-> kind, address |-> None, filter |-> filter]

BlockHandlers == {Handler("Block", NoFields)}

TransactionFilters == {None} \union {[NoFields EXCEPT !.account = v] : v \in {"A", "b", None}}
TransactionHandlers == {Handler("Transaction", f) : f \in TransactionFilters}
SorobanTransactionHandlers == {Handler("SorobanTransaction", f) : f \in TransactionFilters}

OperationHandlers ==
    {Handler("Operation", [NoFields EXCEPT !.sourceAccount = v, !.type = w]) :
        v \in {"A", None}, w \in {"b", None}}

EffectHandlers ==
    {Handler("Effects", [NoFields EXCEPT !.account = v, !.type = w]) :
        v \in {"A", None}, w \in {"b", None}}

EventHandlers ==
    {[kind |-> "Event", address |-> v,
      filter |-> [NoFields EXCEPT !.contractId = w, !.topics = t]] :
        v \in {"a", None}, w \in {"A", None},
        t \in {None, <<>>, <<"a">>, <<None, "A">>, <<"a", "b", None, "A", "b">>}}

CaseHandlers ==
    BlockHandlers \union TransactionHandlers \union OperationHandlers
        \union EffectHandlers \union EventHandlers

\* Any handler, and any two; a handler on Soroban transactions alone or with one on
\* blocks.
MCProjects ==
    {<<h>> : h \in CaseHandlers \union SorobanTransactionHandlers}
        \union {<<g, h>> : g, h \in CaseHandlers}
        \union {<<g, h>> : g \in SorobanTransactionHandlers, h \in BlockHandlers}

\* Projects with a handler on Soroban transactions.
MCSorobanProjects ==
    {<<g, h>> : g \in TransactionHandlers \union OperationHandlers,
                h \in SorobanTransactionHandlers}

=============================================================================
