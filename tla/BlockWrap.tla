----------------------------- MODULE BlockWrap -----------------------------
(***************************************************************************)
(* How a block is joined from the lists of its ledger                      *)
(* (packages/node/src/stellar/api.stellar.ts, wrap...).  The lists come    *)
(* from two servers and hold records of                                    *)
(*                                                                         *)
(*   transactions   [hash]                                                 *)
(*   operations     [id, transaction_hash, invoke]                         *)
(*   effects        [id, operation]: the id of an effect begins with the   *)
(*                  id of its operation                                    *)
(*   events         [id, txHash, operationIndex]                           *)
(*                                                                         *)
(* An event names its operation by its place in the transaction, so the    *)
(* join depends on the order of the list of operations.                    *)
(***************************************************************************)
EXTENDS ListFilter

EffectsOf(effects, id) == Keep(effects, {f \in Range(effects) : f.operation = id})
EventsOf(events, n)    == Keep(events, {e \in Range(events) : e.operationIndex = n})

\* Seeded fault: an event goes to the operation behind its own.
FaultWrapOperationsForTx(operations, effects, events) ==
    [n \in 1..Len(operations) |->
        [id      |-> operations[n].id,
         invoke  |-> operations[n].invoke,
         effects |-> EffectsOf(effects, operations[n].id),
         events  |-> EventsOf(events, n)]]

WrapOperationsForTx(operations, effects, events) ==
    [n \in 1..Len(operations) |->
        [id      |-> operations[n].id,
         invoke  |-> operations[n].invoke,
         effects |-> EffectsOf(effects, operations[n].id),
         events  |-> EventsOf(events, n - 1)]]

WrapTransaction(hash, lists) ==
    [hash       |-> hash,
     operations |-> WrapOperationsForTx(
                        Keep(lists.operations,
                             {o \in Range(lists.operations) : o.transaction_hash = hash}),
                        lists.effects,
                        Keep(lists.events, {e \in Range(lists.events) : e.txHash = hash}))]

WrapTransactionsForLedger(lists) ==
    [k \in 1..Len(lists.transactions) |-> WrapTransaction(lists.transactions[k].hash, lists)]

\* The block handlers see: the tree, and its operations, effects and events in a row.
WrapLedger(lists) ==
    LET transactions == WrapTransactionsForLedger(lists)
        operations   == FlattenSeq([k \in DOMAIN transactions |-> transactions[k].operations])
    IN  [transactions |-> transactions,
         operations   |-> operations,
         effects      |-> FlattenSeq([n \in DOMAIN operations |-> operations[n].effects]),
         events       |-> lists.events]

=============================================================================
