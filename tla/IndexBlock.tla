----------------------------- MODULE IndexBlock -----------------------------
(***************************************************************************)
(* How a block is indexed (packages/node/src/indexer/indexer.manager.ts,   *)
(* indexBlockData): its data are visited in the order of the ledger, every *)
(* data source is offered every datum, and every call is awaited.  While a *)
(* handler runs it may create a data source; node-core appends it to the   *)
(* array the loops of indexBlockData walk through, so it joins in at once. *)
(*                                                                         *)
(* The ledger is given as what it is, a sequence of transactions that are  *)
(* sequences of operations [invoke, effects, events] (the last two say how *)
(* many); the servers list it and the block is joined from the lists, see  *)
(* BlockWrap.  A datum is named by its path in the ledger: <<>> the ledger, *)
(* <<2>> a transaction, <<2, 1>> its first operation, <<2, 1, 0, 1>> the   *)
(* first effect of that and <<2, 1, 1, 1>> its first event.                *)
(***************************************************************************)
EXTENDS BlockWrap

CONSTANTS
    Operations,    \* the operations a transaction may have
    MaxOperations, \* the most operations of a transaction
    MaxTransactions,
    DataSources,   \* the project's data sources, in order
    Templates      \* what handlers may create, in order

\* Data sources are objects, told apart even if they are equal.
ASSUME ObjectsDiffer ==
    /\ DataSources \in Seq(Range(DataSources)) /\ DataSources # <<>>
    /\ Templates \in Seq(Range(Templates))
    /\ IsInjective(DataSources \o Templates)
ASSUME LedgersType ==
    /\ \A op \in Operations : op.invoke \in BOOLEAN /\ op.effects \in Nat /\ op.events \in Nat
    /\ MaxOperations \in Nat /\ MaxTransactions \in Nat

VARIABLES
    ledger,       \* the ledger
    block,        \* the wrapped block
    dataSources,  \* the array of indexBlockData
    born,         \* the datum at which the created ones were created
    stage,        \* fetched, indexing, done, failed
    at, ds, kind, \* where the loops are: datum, data source, kind of handler
    calls         \* the calls of indexData so far

vars == <<ledger, block, dataSources, born, stage, at, ds, kind, calls>>

Ledgers ==
    LET Transactions == UNION {[1..n -> Operations] : n \in 1..MaxOperations}
    IN  UNION {[1..n -> Transactions] : n \in 0..MaxTransactions}

-----------------------------------------------------------------------------
(* The lists of a ledger as the servers give them, in the order of the ledger. *)

Paths(p, count) == [i \in 1..count |-> Append(p, i)]

OperationRecords(k, tx) ==
    [n \in 1..Len(tx) |-> [id |-> <<k, n>>, transaction_hash |-> <<k>>, invoke |-> tx[n].invoke]]
EffectRecords(k, n, op) ==
    [i \in 1..op.effects |-> [id |-> <<k, n, 0, i>>, operation |-> <<k, n>>]]
EventRecords(k, n, op) ==
    [i \in 1..op.events |-> [id |-> <<k, n, 1, i>>, txHash |-> <<k>>, operationIndex |-> n - 1]]

EachOperation(L, Records(_, _, _)) ==
    FlattenSeq([k \in 1..Len(L) |-> FlattenSeq([n \in 1..Len(L[k]) |-> Records(k, n, L[k][n])])])

\* A failed transaction is not on the lists of the Horizon server; the RPC server
\* may report events of it.
Stray == [id |-> <<0, 1, 1, 1>>, txHash |-> <<0>>, operationIndex |-> 0]

Lists(L, strays) ==
    [transactions |-> [k \in 1..Len(L) |-> [hash |-> <<k>>]],
     operations   |-> FlattenSeq([k \in 1..Len(L) |-> OperationRecords(k, L[k])]),
     effects      |-> EachOperation(L, EffectRecords),
     events       |-> strays \o EachOperation(L, EventRecords)]

-----------------------------------------------------------------------------
(* indexBlockData: what is visited, and the kinds of handlers each visit is *)
(* for.                                                                     *)

Visit(datum, kinds) == [datum |-> datum, kinds |-> kinds]

VisitsOfOperation(op) ==
    <<Visit(op.id, <<"Operation">>)>>
      \o [i \in 1..Len(op.effects) |-> Visit(op.effects[i].id, <<"Effects">>)]
      \o [i \in 1..Len(op.events) |-> Visit(op.events[i].id, <<"Event">>)]

\* Seeded fault: a transaction is a Soroban transaction if its first operation calls a contract.
FaultTransactionKinds(tx) ==
    IF tx.operations[1].invoke THEN <<"Transaction", "SorobanTransaction">> ELSE <<"Transaction">>

TransactionKinds(tx) ==
    IF \E n \in DOMAIN tx.operations : tx.operations[n].invoke
    THEN <<"Transaction", "SorobanTransaction">>
    ELSE <<"Transaction">>

\* Seeded fault: all operations of a transaction, then all it did.
FaultVisitsOfTransaction(tx) ==
    <<Visit(tx.hash, TransactionKinds(tx))>>
      \o [n \in DOMAIN tx.operations |-> Head(VisitsOfOperation(tx.operations[n]))]
      \o FlattenSeq([n \in DOMAIN tx.operations |-> Tail(VisitsOfOperation(tx.operations[n]))])

VisitsOfTransaction(tx) ==
    <<Visit(tx.hash, TransactionKinds(tx))>>
      \o FlattenSeq([n \in DOMAIN tx.operations |-> VisitsOfOperation(tx.operations[n])])

Visits ==
    <<Visit(<<>>, <<"Block">>)>>
      \o FlattenSeq([k \in DOMAIN block.transactions |-> VisitsOfTransaction(block.transactions[k])])

-----------------------------------------------------------------------------

NoBlock == [transactions |-> <<>>, operations |-> <<>>, effects |-> <<>>, events |-> <<>>]

Init ==
    /\ ledger \in Ledgers
    /\ block = NoBlock
    /\ dataSources = DataSources
    /\ born = <<>>
    /\ stage = "fetched"
    /\ at = 1 /\ ds = 1 /\ kind = 1
    /\ calls = <<>>

IndexBlockData ==
    /\ stage = "fetched"
    /\ \E strays \in {<<>>, <<Stray>>} : block' = WrapLedger(Lists(ledger, strays))
    /\ stage' = "indexing"
    /\ UNCHANGED <<ledger, dataSources, born, at, ds, kind, calls>>

\* Seeded fault: the loop over the data sources runs one time too often.
FaultAdvance(count) ==
    \/ /\ kind < Len(Visits[at].kinds)
       /\ kind' = kind + 1
       /\ UNCHANGED <<at, ds, stage>>
    \/ /\ kind = Len(Visits[at].kinds)
       /\ ds <= count
       /\ ds' = ds + 1 /\ kind' = 1
       /\ UNCHANGED <<at, stage>>
    \/ /\ kind = Len(Visits[at].kinds)
       /\ ds = count + 1
       /\ at < Len(Visits)
       /\ at' = at + 1 /\ ds' = 1 /\ kind' = 1
       /\ UNCHANGED stage
    \/ /\ kind = Len(Visits[at].kinds)
       /\ ds = count + 1
       /\ at = Len(Visits)
       /\ stage' = "done"
       /\ UNCHANGED <<at, ds, kind>>

\* The loops go on, in an array of data sources that now has `count` elements.
Advance(count) ==
    \/ /\ kind < Len(Visits[at].kinds)
       /\ kind' = kind + 1
       /\ UNCHANGED <<at, ds, stage>>
    \/ /\ kind = Len(Visits[at].kinds)
       /\ ds < count
       /\ ds' = ds + 1 /\ kind' = 1
       /\ UNCHANGED <<at, stage>>
    \/ /\ kind = Len(Visits[at].kinds)
       /\ ds = count
       /\ at < Len(Visits)
       /\ at' = at + 1 /\ ds' = 1 /\ kind' = 1
       /\ UNCHANGED stage
    \/ /\ kind = Len(Visits[at].kinds)
       /\ ds = count
       /\ at = Len(Visits)
       /\ stage' = "done"
       /\ UNCHANGED <<at, ds, kind>>

Call == [ds |-> dataSources[ds], kind |-> Visits[at].kinds[kind], datum |-> Visits[at].datum]

IndexData ==
    /\ stage = "indexing"
    /\ calls' = Append(calls, Call)
    /\ Advance(Len(dataSources))
    /\ UNCHANGED <<ledger, block, dataSources, born>>

\* A handler creates a data source while it runs.
CreateDynamicDatasource ==
    /\ stage = "indexing"
    /\ Len(born) < Len(Templates)
    /\ calls' = Append(calls, Call)
    /\ dataSources' = Append(dataSources, Templates[Len(born) + 1])
    /\ born' = Append(born, Visits[at].datum)
    /\ Advance(Len(dataSources) + 1)
    /\ UNCHANGED <<ledger, block>>

\* A handler throws.
IndexDataFail ==
    /\ stage = "indexing"
    /\ calls' = Append(calls, Call)
    /\ stage' = "failed"
    /\ UNCHANGED <<ledger, block, dataSources, born, at, ds, kind>>

Next == IndexBlockData \/ IndexData \/ CreateDynamicDatasource \/ IndexDataFail

Spec == Init /\ [][Next]_vars

-----------------------------------------------------------------------------
(* Properties.  They speak of the ledger, not of the block made of it. *)

Indices(s) == 1..Len(s)

TypeOK ==
    /\ ledger \in Ledgers
    /\ stage \in {"fetched", "indexing", "done", "failed"}
    /\ stage # "fetched" => at \in Indices(Visits) /\ kind \in Indices(Visits[at].kinds)
    /\ ds \in Indices(dataSources)
    /\ Len(dataSources) = Len(DataSources) + Len(born)

IsInvoke(k) == \E n \in Indices(ledger[k]) : ledger[k][n].invoke

\* All <<kind, datum>> of the ledger.
Data ==
    {<<"Block", <<>>>>}
    \union {<<"Transaction", <<k>>>> : k \in Indices(ledger)}
    \union {<<"SorobanTransaction", <<k>>>> : k \in {j \in Indices(ledger) : IsInvoke(j)}}
    \union UNION {UNION {
              {<<"Operation", <<k, n>>>>}
              \union {<<"Effects", <<k, n, 0, i>>>> : i \in 1..ledger[k][n].effects}
              \union {<<"Event", <<k, n, 1, i>>>> : i \in 1..ledger[k][n].events}
           : n \in Indices(ledger[k])} : k \in Indices(ledger)}

\* The order of the ledger: a datum comes after what contains it, and after all of
\* an earlier sibling.  Where the paths part, the first has ended or has the lower number.
Before(p, q) ==
    \E i \in Indices(q) :
        /\ \A j \in 1..i - 1 : j <= Len(p) /\ p[j] = q[j]
        /\ i <= Len(p) => p[i] < q[i]

\* What the d-th data source has to be offered.
Due(d) ==
    IF d <= Len(DataSources) THEN Data
    ELSE {x \in Data : ~Before(x[2], born[d - Len(DataSources)])}

DueCalls ==
    UNION {{[ds |-> dataSources[d], kind |-> x[1], datum |-> x[2]] : x \in Due(d)} :
           d \in Indices(dataSources)}

\* A block that is indexed was offered to its data sources completely: each datum of
\* the ledger exactly once to each data source, for its kind and for no other, and to
\* one created on the way from the datum on during which it was created.  Nothing of
\* the ledger is lost in the join of the lists, and events of failed transactions
\* are not offered (wrapTransactionsForLedger, indexBlockData).
EveryDatumOnce ==
    stage = "done" => Range(calls) = DueCalls /\ IsInjective(calls)

\* No data source sees a datum before what contains it or what happened earlier in
\* the ledger, also when the indexing fails half way (indexBlockData).
CallsInLedgerOrder ==
    \A i, j \in Indices(calls) : i < j =>
        \/ Before(calls[i].datum, calls[j].datum)
        \/ calls[i].datum = calls[j].datum

\* A transaction is offered as a Soroban transaction iff it calls a contract, and
\* right after the same data source has had it as a transaction (indexTransaction).
SorobanAfterTransaction ==
    \A i \in Indices(calls) :
        /\ calls[i].kind = "SorobanTransaction" =>
              /\ IsInvoke(calls[i].datum[1])
              /\ i > 1 /\ calls[i - 1] = [calls[i] EXCEPT !.kind = "Transaction"]
        /\ calls[i].kind = "Transaction" /\ IsInvoke(calls[i].datum[1]) /\ i < Len(calls) =>
              calls[i + 1] = [calls[i] EXCEPT !.kind = "SorobanTransaction"]

=============================================================================
