-------------------------- MODULE DictionaryProofs --------------------------
(* The query entries cover the handlers, for every project whose handlers are  *)
(* of the kinds the switch of buildDictionaryQueryEntries has a case for.      *)
EXTENDS Dictionary, TLAPS

CaseKindsOnly == \A p \in Projects : \A n \in 1..Len(p) : p[n].kind \in CaseKinds

-----------------------------------------------------------------------------
(* The entry of a handler matches what the handler is called for. *)

LEMMA HandlerTypes ==
    ASSUME TypeOK, NEW n \in 1..Len(handlers)
    PROVE  handlers[n] \in Handlers
BY ProjectsType DEF TypeOK

LEMMA EqualsMatches ==
    ASSUME NEW field, NEW value, NEW d, NEW c \in Equals(field, value),
           Column(d, field) = Lower[value]
    PROVE  Column(d, c.field) = c.value
BY DEF Equals

LEMMA EqualsEmpty ==
    ASSUME NEW field PROVE Equals(field, None) = {}
BY DEF Equals

LEMMA PlainColumns ==
    ASSUME NEW d
    PROVE  /\ Column(d, "account") = Lower[d.account]
           /\ Column(d, "sourceAccount") = Lower[d.account]
           /\ Column(d, "type") = Lower[d.type]
           /\ Column(d, "address") = LowerOf(d.contractId)
BY DEF Column

LEMMA TopicColumn ==
    ASSUME NEW d, NEW n \in 1..4
    PROVE  Column(d, TopicFields[n]) = IF n <= Len(d.topics) THEN d.topics[n] ELSE None
<1>1. \A m, k \in 1..4 : TopicFields[m] = TopicFields[k] => m = k
  BY DEF TopicFields
<1>2. /\ TopicFields[n] \notin {"account", "sourceAccount"}
      /\ TopicFields[n] # "type" /\ TopicFields[n] # "address"
  BY DEF TopicFields
<1>3. (CHOOSE m \in 1..4 : TopicFields[m] = TopicFields[n]) = n
  BY <1>1
<1> QED BY <1>2, <1>3 DEF Column

LEMMA TopicsMatch ==
    ASSUME NEW topics \in Seq(Strings \union {None}), NEW d \in Data, TopicsAllow(topics, d),
           NEW c \in TopicConditions(topics)
    PROVE  Column(d, c.field) = c.value
<1>1. PICK n \in 1..Least(Len(topics), 4) :
         topics[n] # None /\ c = [field |-> TopicFields[n], value |-> topics[n]]
  BY DEF TopicConditions
<1>2. n \in 1..4
  BY DEF Least
<1>3. n <= Len(d.topics) /\ d.topics[n] = topics[n]
  BY <1>1 DEF TopicsAllow
<1> QED BY <1>1, <1>2, <1>3, TopicColumn

\* A filter that lets a datum through at run time matches its row of the dictionary.
LEMMA EntryMatches ==
    ASSUME NEW h, h.filter # None, Usable(h),
           h.kind = "Event" => h.filter.topics \in Seq(Strings \union {None}) \union {None},
           NEW d \in Data, Handles(h, d)
    PROVE  Matches(Entry(h), d)
<1>2. CASE h.kind = "Transaction"
  <2>1. d.entity = "transactions" /\ FieldAllows(h.filter.account, d.account)
    BY <1>2 DEF Handles, Offered, FilterTypeMap, FilterTransaction
  <2>2. \A c \in Equals("account", h.filter.account) : Column(d, c.field) = c.value
    BY <2>1, EqualsMatches, EqualsEmpty, PlainColumns DEF FieldAllows
  <2>3. Entry(h) = TransactionEntry(h.filter)
    BY <1>2 DEF Entry
  <2> QED BY <2>1, <2>2, <2>3 DEF Matches, TransactionEntry
<1>3. CASE h.kind = "Operation"
  <2>1. /\ d.entity = "operations" /\ FieldAllows(h.filter.type, d.type)
        /\ FieldAllows(h.filter.sourceAccount, d.account)
    BY <1>3 DEF Handles, Offered, FilterTypeMap, FilterOperation
  <2>2. \A c \in Equals("type", h.filter.type) : Column(d, c.field) = c.value
    BY <2>1, EqualsMatches, EqualsEmpty, PlainColumns DEF FieldAllows
  <2>3. \A c \in Equals("sourceAccount", h.filter.sourceAccount) : Column(d, c.field) = c.value
    BY <2>1, EqualsMatches, EqualsEmpty, PlainColumns DEF FieldAllows
  <2>4. Entry(h) = OperationEntry(h.filter)
    BY <1>3 DEF Entry
  <2> QED BY <2>1, <2>2, <2>3, <2>4 DEF Matches, OperationEntry
<1>4. CASE h.kind = "Effects"
  <2>1. /\ d.entity = "effects" /\ FieldAllows(h.filter.type, d.type)
        /\ FieldAllows(h.filter.account, d.account)
    BY <1>4 DEF Handles, Offered, FilterTypeMap, FilterEffect
  <2>2. \A c \in Equals("type", h.filter.type) : Column(d, c.field) = c.value
    BY <2>1, EqualsMatches, EqualsEmpty, PlainColumns DEF FieldAllows
  <2>3. \A c \in Equals("account", h.filter.account) : Column(d, c.field) = c.value
    BY <2>1, EqualsMatches, EqualsEmpty, PlainColumns DEF FieldAllows
  <2>4. Entry(h) = EffectEntry(h.filter)
    BY <1>4 DEF Entry
  <2> QED BY <2>1, <2>2, <2>3, <2>4 DEF Matches, EffectEntry
<1>5. CASE h.kind = "Event"
  <2>1. /\ d.entity = "events"
        /\ h.address # None => StringNormalizedEq(h.address, d.contractId)
        /\ h.filter.topics # None => TopicsAllow(h.filter.topics, d)
    BY <1>5 DEF Handles, Offered, FilterTypeMap, FilterEvent
  <2>2. \A c \in Equals("address", h.address) : Column(d, c.field) = c.value
    BY <2>1, EqualsMatches, EqualsEmpty, PlainColumns DEF StringNormalizedEq, LowerOf
  <2>3. h.filter.topics # None =>
           \A c \in TopicConditions(h.filter.topics) : Column(d, c.field) = c.value
    BY <1>5, <2>1, TopicsMatch
  <2>4. Entry(h) = EventEntry(h.filter, h.address)
    BY <1>5 DEF Entry
  <2> QED BY <2>1, <2>2, <2>3, <2>4 DEF Matches, EventEntry
<1> QED BY <1>2, <1>3, <1>4, <1>5 DEF Usable

-----------------------------------------------------------------------------

LEMMA EntryTypes ==
    ASSUME NEW h \in Handlers, h.filter # None, Usable(h)
    PROVE  Entry(h) \in Entries
<1>1. h.filter \in HandlerFilters /\ h.address \in Strings \union {None}
  BY DEF Handlers
<1>2. ASSUME NEW field \in {"account", "sourceAccount", "type", "address"},
             NEW value \in Strings \union {None}
      PROVE  Equals(field, value) \subseteq Conditions
  BY LowerType DEF Equals, Conditions, Fields
<1>3. ASSUME NEW topics \in Seq(Strings \union {None})
      PROVE  TopicConditions(topics) \subseteq Conditions
  BY DEF TopicConditions, Conditions, Fields, Least
<1>4. CASE h.kind = "Transaction"
  BY <1>1, <1>2, <1>4 DEF Entry, TransactionEntry, Entries, Entities, HandlerFilters
<1>5. CASE h.kind = "Operation"
  BY <1>1, <1>2, <1>5 DEF Entry, OperationEntry, Entries, Entities, HandlerFilters
<1>6. CASE h.kind = "Effects"
  BY <1>1, <1>2, <1>6 DEF Entry, EffectEntry, Entries, Entities, HandlerFilters
<1>7. CASE h.kind = "Event"
  BY <1>1, <1>2, <1>3, <1>7 DEF Entry, EventEntry, Entries, Entities, HandlerFilters
<1> QED BY <1>4, <1>5, <1>6, <1>7 DEF Usable

\* The loop stays within the handlers and builds well-formed entries.
THEOREM TypeCorrect == Spec => []TypeOK
<1>1. Init => TypeOK
  BY ProjectsType DEF Init, TypeOK
<1>2. TypeOK /\ [Next]_vars => TypeOK'
  <2> SUFFICES ASSUME TypeOK, [Next]_vars PROVE TypeOK'
    OBVIOUS
  <2>1. Len(handlers) \in Nat
    BY ProjectsType DEF TypeOK
  <2>2. CASE AddEntry
    <3>1. handlers[i] \in Handlers
      BY <2>1, <2>2, HandlerTypes DEF AddEntry, TypeOK
    <3>2. Entry(handlers[i]) \in Entries
      BY <2>2, <3>1, EntryTypes DEF AddEntry
    <3> QED BY <2>1, <2>2, <3>2 DEF AddEntry, TypeOK
  <2>3. CASE GiveUp
    BY <2>3 DEF GiveUp, TypeOK
  <2>4. CASE Ignore
    BY <2>1, <2>4 DEF Ignore, TypeOK
  <2>5. CASE Return
    BY <2>5 DEF Return, TypeOK
  <2>6. CASE UNCHANGED vars
    BY <2>6 DEF vars, TypeOK
  <2> QED BY <2>2, <2>3, <2>4, <2>5, <2>6 DEF Next
<1> QED BY <1>1, <1>2, PTL DEF Spec

\* The handlers the loop is through with are covered, unless it gave up.
Covered ==
    \/ pc = "returned" /\ queryEntries = {}
    \/ \A n \in 1..Len(handlers) : n < i => CoversHandler(handlers[n])

\* No block that has data for a handler is skipped: the queries of the dictionary are
\* never narrower than the filters of the handlers.
THEOREM EntriesCoverHandlers ==
    ASSUME CaseKindsOnly
    PROVE  Spec => []Coverage
<1> DEFINE Inv == Covered /\ (pc = "returned" => queryEntries = {} \/ i > Len(handlers))
<1>1. Init => Inv
  BY ProjectsType DEF Init, Covered
<1>2. TypeOK /\ Inv /\ [Next]_vars => Inv'
  <2> SUFFICES ASSUME TypeOK, Inv, [Next]_vars PROVE Inv'
    OBVIOUS
  <2>1. Len(handlers) \in Nat /\ i \in Nat
    BY ProjectsType DEF TypeOK
  <2>2. CASE AddEntry
    <3>1. \A n \in 1..Len(handlers) : n < i => CoversHandler(handlers[n])
      BY <2>2 DEF AddEntry, Covered
    <3>2. queryEntries' = queryEntries \union {Entry(handlers[i])} /\ handlers' = handlers
          /\ i' = i + 1 /\ pc' = "loop"
      BY <2>2 DEF AddEntry
    <3>3. \A n \in 1..Len(handlers) : CoversHandler(handlers[n]) => CoversHandler(handlers[n])'
      BY <3>2 DEF CoversHandler
    <3>4. ASSUME NEW n \in 1..Len(handlers), n = i PROVE CoversHandler(handlers[n])'
      <4>1. handlers[n].filter # None /\ Usable(handlers[n])
        BY <2>2, <3>4 DEF AddEntry
      <4>2. handlers[n].filter.topics \in Seq(Strings \union {None}) \union {None}
        BY <4>1, HandlerTypes DEF Handlers, HandlerFilters
      <4>3. \A d \in Data : Handles(handlers[n], d) => Matches(Entry(handlers[n]), d)
        BY <4>1, <4>2, EntryMatches
      <4> QED BY <3>2, <3>4, <4>3 DEF CoversHandler
    <3>5. ASSUME NEW n \in 1..Len(handlers'), n < i' PROVE CoversHandler(handlers[n])'
      <4>1. n < i \/ n = i
        BY <2>1, <3>2, <3>5
      <4> QED BY <3>1, <3>2, <3>3, <3>4, <3>5, <4>1
    <3> QED BY <3>2, <3>5 DEF Covered
  <2>3. CASE GiveUp
    BY <2>3 DEF GiveUp, Covered
  <2>4. CASE Ignore
    <3>1. i \in 1..Len(handlers)
      BY <2>1, <2>4 DEF Ignore, TypeOK
    <3>2. handlers[i].kind \in CaseKinds
      BY <3>1 DEF CaseKindsOnly, TypeOK
    <3> QED BY <2>4, <3>2 DEF Ignore, IgnoredKinds
  <2>5. CASE Return
    <3>1. Covered'
      BY <2>5 DEF Return, Covered, CoversHandler
    <3> QED BY <2>5, <3>1 DEF Return
  <2>6. CASE UNCHANGED vars
    BY <2>6 DEF vars, Covered, CoversHandler
  <2> QED BY <2>2, <2>3, <2>4, <2>5, <2>6 DEF Next
<1>3. TypeOK /\ Inv => Coverage
  BY ProjectsType DEF Covered, Coverage, TypeOK
<1> QED BY <1>1, <1>2, <1>3, TypeCorrect, PTL DEF Spec

\* The loop returns what QueryEntries says: an early return leaves no entries, and a
\* handler that is ignored adds none.
THEOREM LoopBuilds == Spec => []BuildsQueryEntries
<1> DEFINE Known == {m \in 1..Len(handlers) : m < i /\ handlers[m].kind \in CaseKinds}
           Built == /\ \A n \in 1..Len(handlers) : n < i => ~GivesUp(handlers[n])
                    /\ queryEntries = {Entry(handlers[m]) : m \in Known}
           Inv   == (pc = "loop" => Built) /\ BuildsQueryEntries
<1>1. Init => Inv
  BY ProjectsType DEF Init, BuildsQueryEntries
<1>2. TypeOK /\ Inv /\ [Next]_vars => Inv'
  <2> SUFFICES ASSUME TypeOK, Inv, [Next]_vars PROVE Inv'
    OBVIOUS
  <2>1. Len(handlers) \in Nat /\ i \in Nat
    BY ProjectsType DEF TypeOK
  <2>2. CASE AddEntry
    <3>1. i \in 1..Len(handlers) /\ handlers[i].kind \in CaseKinds /\ ~GivesUp(handlers[i])
      BY <2>1, <2>2 DEF AddEntry, TypeOK, GivesUp, Usable, CaseKinds
    <3>2. Known' = Known \union {i}
      BY <2>1, <2>2, <3>1 DEF AddEntry
    <3>3. queryEntries' = {Entry(handlers'[m]) : m \in Known'}
      BY <2>2, <3>2 DEF AddEntry
    <3>4. \A n \in 1..Len(handlers') : n < i' => ~GivesUp(handlers'[n])
      BY <2>1, <2>2, <3>1 DEF AddEntry
    <3> QED BY <2>2, <3>3, <3>4 DEF AddEntry, BuildsQueryEntries
  <2>3. CASE GiveUp
    BY <2>1, <2>3 DEF GiveUp, BuildsQueryEntries, QueryEntries, TypeOK
  <2>4. CASE Ignore
    <3>1. i \in 1..Len(handlers) /\ handlers[i].kind \notin CaseKinds /\ ~GivesUp(handlers[i])
      BY <2>1, <2>4 DEF Ignore, TypeOK, GivesUp, IgnoredKinds
    <3>2. Known' = Known
      BY <2>1, <2>4, <3>1 DEF Ignore
    <3>3. \A n \in 1..Len(handlers') : n < i' => ~GivesUp(handlers'[n])
      BY <2>1, <2>4, <3>1 DEF Ignore
    <3> QED BY <2>4, <3>2, <3>3 DEF Ignore, BuildsQueryEntries
  <2>5. CASE Return
    <3>1. Known = {m \in 1..Len(handlers) : handlers[m].kind \in CaseKinds}
      BY <2>1, <2>5 DEF Return
    <3> QED BY <2>1, <2>5, <3>1 DEF Return, BuildsQueryEntries, QueryEntries
  <2>6. CASE UNCHANGED vars
    BY <2>6 DEF vars, BuildsQueryEntries
  <2> QED BY <2>2, <2>3, <2>4, <2>5, <2>6 DEF Next
<1> QED BY <1>1, <1>2, TypeCorrect, PTL DEF Spec

\* A handler that restricts nothing leaves no entries, filter or no filter.
THEOREM EveryBlockIsFetched ==
    ASSUME CaseKindsOnly PROVE Spec => []NoFiltersNoDictionary
<1>1. TypeOK /\ BuildsQueryEntries => NoFiltersNoDictionary
  <2> SUFFICES ASSUME TypeOK, BuildsQueryEntries, pc = "returned",
                      NEW n \in 1..Len(handlers), RestrictsNothing(handlers[n])
               PROVE  queryEntries = {}
    BY DEF NoFiltersNoDictionary
  <2>1. handlers[n] \in Handlers /\ handlers[n].kind \in CaseKinds
    BY HandlerTypes DEF CaseKindsOnly, TypeOK
  <2>2. ASSUME handlers[n].filter # None PROVE ~Usable(handlers[n])
    <3>1. DOMAIN handlers[n].filter
            = {"account", "sourceAccount", "type", "contractId", "modulo", "topics"}
      BY <2>1, <2>2 DEF Handlers, HandlerFilters
    <3> QED
      BY <2>2, <3>1 DEF RestrictsNothing, Usable
  <2>3. GivesUp(handlers[n])
    BY <2>1, <2>2 DEF GivesUp
  <2> QED
    BY <2>3 DEF BuildsQueryEntries, QueryEntries
<1> QED BY <1>1, TypeCorrect, LoopBuilds, PTL

=============================================================================
