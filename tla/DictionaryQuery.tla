-------------------------- MODULE DictionaryQuery --------------------------
(***************************************************************************)
(* What a dictionary is asked for, and what it answers: the query entries  *)
(* of packages/node/src/indexer/dictionary/v1/stellarDictionaryV1.ts, one  *)
(* for a handler, and the rows of the dictionary they match.               *)
(***************************************************************************)
EXTENDS Filters

HandlerFilters ==
    [account : Strings \union {None}, sourceAccount : Strings \union {None},
     type : Strings \union {None}, contractId : Strings \union {None},
     modulo : (Nat \ {0}) \union {None},
     topics : Seq(Strings \union {None}) \union {None}]

Handlers == [kind : Kinds, address : Strings \union {None},
             filter : HandlerFilters \union {None}]

TopicFields == <<"topics0", "topics1", "topics2", "topics3">>
Fields      == {"account", "sourceAccount", "type", "address"} \union {TopicFields[n] : n \in 1..4}
Conditions  == [field : Fields, value : Strings]
Entries     == [entity : Entities, conditions : SUBSET Conditions]

-----------------------------------------------------------------------------
(* The entry of a handler. *)

\* Seeded fault: a condition without a value for a field the filter leaves out.
FaultEquals(field, value) ==
    {[field |-> field, value |-> IF value = None THEN None ELSE Lower[value]]}

Equals(field, value) == {[field |-> field, value |-> Lower[v]] : v \in {value} \ {None}}

TransactionEntry(filter) ==
    [entity |-> "transactions", conditions |-> Equals("account", filter.account)]

OperationEntry(filter) ==
    [entity |-> "operations",
     conditions |-> Equals("type", filter.type) \union Equals("sourceAccount", filter.sourceAccount)]

EffectEntry(filter) ==
    [entity |-> "effects",
     conditions |-> Equals("type", filter.type) \union Equals("account", filter.account)]

\* Seeded fault: topics are numbered from the second on.
FaultTopicConditions(topics) ==
    {[field |-> TopicFields[n + 1], value |-> topics[n]] :
        n \in {m \in 1..Least(Len(topics), 3) : topics[m] # None}}

\* Topics are compared as they are.
TopicConditions(topics) ==
    {[field |-> TopicFields[n], value |-> topics[n]] :
        n \in {m \in 1..Least(Len(topics), 4) : topics[m] # None}}

EventEntry(filter, address) ==
    [entity |-> "events",
     conditions |-> Equals("address", address) \union
                    (IF filter.topics = None THEN {} ELSE TopicConditions(filter.topics))]

Entry(h) ==
    CASE h.kind = "Transaction" -> TransactionEntry(h.filter)
      [] h.kind = "Operation"   -> OperationEntry(h.filter)
      [] h.kind = "Effects"     -> EffectEntry(h.filter)
      [] h.kind = "Event"       -> EventEntry(h.filter, h.address)

-----------------------------------------------------------------------------
(* Which handlers the dictionary can be asked for. *)

\* Kinds the switch has a case for, and those its default ignores.
CaseKinds    == {"Block", "Transaction", "Operation", "Effects", "Event"}
IgnoredKinds == Kinds \ CaseKinds

\* The filter of h has a field the dictionary knows.
Usable(h) ==
    \/ h.kind = "Transaction" /\ h.filter.account # None
    \/ h.kind = "Operation" /\ (h.filter.sourceAccount # None \/ h.filter.type # None)
    \/ h.kind = "Effects" /\ (h.filter.account # None \/ h.filter.type # None)
    \/ h.kind = "Event" /\ (h.address # None \/ h.filter.topics # None)

\* A handler without filter, on blocks or with a filter of no use to the dictionary.
GivesUp(h) == h.filter # None => h.kind \in CaseKinds /\ ~Usable(h)

\* The entries for a list of handlers, without the loop; Dictionary has the loop.
QueryEntries(hs) ==
    IF \E n \in 1..Len(hs) : GivesUp(hs[n]) THEN {}
    ELSE {Entry(hs[n]) : n \in {m \in 1..Len(hs) : hs[m].kind \in CaseKinds}}

-----------------------------------------------------------------------------
(* The dictionary: a row per datum, strings in lower case, except topics. *)

LowerOf(value) == IF value = None THEN None ELSE Lower[value]

Column(d, field) ==
    CASE field \in {"account", "sourceAccount"} -> Lower[d.account]
      [] field = "type"    -> Lower[d.type]
      [] field = "address" -> LowerOf(d.contractId)
      [] OTHER -> LET n == CHOOSE m \in 1..4 : TopicFields[m] = field
                  IN  IF n <= Len(d.topics) THEN d.topics[n] ELSE None

Matches(entry, d) ==
    /\ entry.entity = d.entity
    /\ \A c \in entry.conditions : Column(d, c.field) = c.value

=============================================================================
