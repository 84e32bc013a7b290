------------------------------ MODULE Filters ------------------------------
(***************************************************************************)
(* Which data a handler of the project gets: the filter processors of      *)
(* packages/node/src/stellar/block.stellar.ts and the kinds of data        *)
(* IndexerManager offers to a handler.                                     *)
(*                                                                         *)
(* A handler is a record of its kind, its filter (None: it has none) and   *)
(* options.address of its data source.  A field of a filter that is        *)
(* missing or empty is None; the code treats both as false.                *)
(***************************************************************************)
EXTENDS Integers, Sequences

CONSTANTS
    Strings,   \* accounts, types, contract ids and topics
    Lower,     \* String.prototype.toLowerCase
    None,      \* undefined, null or ""
    Data       \* what blocks are made of

ASSUME NoneIsNoString == None \notin Strings
ASSUME LowerType      == Lower \in [Strings -> Strings]

Kinds == {"Block", "Transaction", "SorobanTransaction", "Operation", "Effects", "Event"}

(* A block, or a transaction, an operation, an effect or an event of it.       *)
(* sequence is the number of the ledger, account the source account (of an     *)
(* effect: its account), type that of an operation or an effect, invokes tells *)
(* that an operation of the transaction is an invoke_host_function.            *)
Entities == {"blocks", "transactions", "operations", "effects", "events"}

ASSUME DataType ==
    Data \subseteq [entity : Entities, sequence : Nat, account : Strings, type : Strings,
                    invokes : BOOLEAN, contractId : Strings \union {None}, topics : Seq(Strings)]

Least(m, n) == IF m < n THEN m ELSE n

-----------------------------------------------------------------------------

\* A field that the filter leaves out lets everything through.
FieldAllows(field, value) == field = None \/ field = value

StringNormalizedEq(a, b) == b # None /\ Lower[a] = Lower[b]

\* Every modulo-th block.  The schedule of a filter (timestamp) is node-core's and
\* left out: the filters here have none.
FilterBlock(d, filter) ==
    filter # None /\ filter.modulo # None => d.sequence % filter.modulo = 0

FilterTransaction(d, filter) ==
    filter # None => FieldAllows(filter.account, d.account)

FilterOperation(d, filter) ==
    filter # None => /\ FieldAllows(filter.sourceAccount, d.account)
                     /\ FieldAllows(filter.type, d.type)

FilterEffect(d, filter) ==
    filter # None => /\ FieldAllows(filter.account, d.account)
                     /\ FieldAllows(filter.type, d.type)

\* Four topics count; a topic the filter leaves out is any topic, or none.
TopicsAllow(topics, d) ==
    \A i \in 1..Least(Len(topics), 4) :
        topics[i] # None => i <= Len(d.topics) /\ d.topics[i] = topics[i]

FilterEvent(d, filter, address) ==
    /\ address # None => StringNormalizedEq(address, d.contractId)
    /\ filter # None =>
          /\ FieldAllows(filter.contractId, d.contractId)
          /\ filter.topics # None => TopicsAllow(filter.topics, d)

\* The filter of a handler by its kind; address belongs to events only.
FilterTypeMap(h, d) ==
    /\ h.kind = "Block" => FilterBlock(d, h.filter)
    /\ h.kind \in {"Transaction", "SorobanTransaction"} => FilterTransaction(d, h.filter)
    /\ h.kind = "Operation" => FilterOperation(d, h.filter)
    /\ h.kind = "Effects" => FilterEffect(d, h.filter)
    /\ h.kind = "Event" => FilterEvent(d, h.filter, h.address)

\* The data of a block that are offered to handlers of a kind.
Offered(kind, d) ==
    \/ kind = "Block" /\ d.entity = "blocks"
    \/ kind = "Transaction" /\ d.entity = "transactions"
    \/ kind = "SorobanTransaction" /\ d.entity = "transactions" /\ d.invokes
    \/ kind = "Operation" /\ d.entity = "operations"
    \/ kind = "Effects" /\ d.entity = "effects"
    \/ kind = "Event" /\ d.entity = "events"

\* The handler is called for this datum of a block.
Handles(h, d) == Offered(h.kind, d) /\ FilterTypeMap(h, d)

=============================================================================
