-------------------------- MODULE BlockFetchProofs --------------------------
(* Proofs about BlockFetch, for every batch, every chain, every page size and *)
(* any number of attempts.                                                    *)
EXTENDS BlockFetch, SequenceTheorems, TLAPS

-----------------------------------------------------------------------------
(* Heights, pages and events. *)

LEMMA TaskTypes ==
    ASSUME NEW t \in Tasks
    PROVE  /\ t[1] \in 1..MaxAttempts /\ t[2] \in Batch
           /\ Height(t) \in Ledgers
           /\ t = <<t[1], t[2]>>
BY HeightsType DEF Tasks, Batch, Height

LEMMA BatchTasks ==
    ASSUME NEW a \in 1..MaxAttempts, NEW i \in Batch
    PROVE  <<a, i>> \in Tasks /\ Height(<<a, i>>) = Heights[i] /\ Heights[i] \in Ledgers
BY HeightsType DEF Tasks, Batch, Height

\* A page is the piece of the list right behind the cursor; it is empty at the end
\* of the list only.
LEMMA PageTypes ==
    ASSUME NEW l \in Lists, NEW s \in Ledgers, NEW c \in Nat
    PROVE  Page(l, s, c) \in Seq(Record)
<1> DEFINE All  == Records[l][s]
           Last == IF c + PageLimit < Len(All) THEN c + PageLimit ELSE Len(All)
<1>1. All \in Seq(Record) /\ Len(All) \in Nat
  BY RecordsType
<1>2. Last \in Nat /\ Last <= Len(All)
  BY <1>1, PageLimitType
<1>3. \A i \in c + 1..Last : All[i] \in Record
  BY <1>1, <1>2
<1>4. SubSeq(All, c + 1, Last) \in Seq(Record)
  BY <1>2, <1>3, SubSeqProperties
<1> QED BY <1>4 DEF Page

LEMMA PageIsNext ==
    ASSUME NEW l \in Lists, NEW s \in Ledgers, NEW c \in Nat, c <= Len(Records[l][s])
    PROVE  /\ Page(l, s, c) \in Seq(Record)
           /\ c + Len(Page(l, s, c)) <= Len(Records[l][s])
           /\ SubSeq(Records[l][s], 1, c) \o Page(l, s, c)
                = SubSeq(Records[l][s], 1, c + Len(Page(l, s, c)))
           /\ Page(l, s, c) = <<>> => c = Len(Records[l][s])
<1> DEFINE All  == Records[l][s]
           Last == IF c + PageLimit < Len(All) THEN c + PageLimit ELSE Len(All)
<1>1. All \in Seq(Record) /\ Len(All) \in Nat
  BY RecordsType
<1>2. Last \in Nat /\ c <= Last /\ Last <= Len(All) /\ (c = Last => c = Len(All))
  BY <1>1, PageLimitType
<1>3. Page(l, s, c) = SubSeq(All, c + 1, Last)
  BY DEF Page
<1> DEFINE P == Page(l, s, c)
<1> HIDE DEF All, Last, P
<1>4. SubSeq(All, c + 1, Last) \in Seq(Record) /\ Len(SubSeq(All, c + 1, Last)) = Last - c
  BY <1>1, <1>2, SubSeqProperties
<1>5. SubSeq(All, 1, c) \o SubSeq(All, c + 1, Last) = SubSeq(All, 1, Last)
  BY <1>1, <1>2, ConcatAdjacentSubSeq
<1>6. P = SubSeq(All, c + 1, Last)
  BY <1>3 DEF P
<1>7. P \in Seq(Record) /\ Len(P) = Last - c /\ SubSeq(All, 1, c) \o P = SubSeq(All, 1, Last)
  BY <1>4, <1>5, <1>6
<1>8. c + Len(P) = Last
  BY <1>2, <1>7
<1>9. P = <<>> => c = Len(All)
  BY <1>2, <1>7
<1> QED BY <1>1, <1>2, <1>7, <1>8, <1>9 DEF All, P

\* A ledger without contract calls has no events.
LEMMA ClassicHasNoEvents ==
    ASSUME NEW s \in Ledgers, s \notin SorobanLedgers
    PROVE  Source!EventsOf(s) = Source!Nothing
BY EventsNeedInvoke, EventsType DEF SorobanLedgers, Source!EventsOf, Source!Nothing

LEMMA EventsTypes ==
    /\ Source!Nothing \in [Events -> Nat]
    /\ \A s \in Ledgers : Source!EventsOf(s) \in [Events -> Nat]
BY DEF Source!EventsOf, Source!Nothing

-----------------------------------------------------------------------------
(* Type correctness. *)

THEOREM TypeCorrect == Spec => []TypeOK
<1>1. Init => TypeOK
  BY HeightsType, AttemptsType, EventsTypes
  DEF Init, TypeOK, Stages, Unread, Start, Source!Init, None
<1>2. TypeOK /\ [Next]_vars => TypeOK'
  <2> SUFFICES ASSUME TypeOK, [Next]_vars PROVE TypeOK'
    OBVIOUS
  <2> USE DEF TypeOK
  <2>1. CASE IngestLedger
    BY <2>1, HeightsType DEF IngestLedger, client
  <2>2. CASE ClientStep
    <3>1. CASE Source!CloseLedger
      BY <2>2, <3>1, HeightsType DEF ClientStep, Source!CloseLedger, Ledgers
    <3>2. ASSUME NEW t \in Tasks, Source!Answer(t) PROVE TypeOK'
      <4>1. Source!EventsOf(asked[t]) \in [Events -> Nat]
        BY DEF Source!EventsOf
      <4> QED BY <2>2, <3>2, <4>1 DEF ClientStep, Source!Answer
    <3>3. ASSUME NEW t \in Tasks, Source!Fail(t) PROVE TypeOK'
      BY <2>2, <3>3 DEF ClientStep, Source!Fail
    <3> QED BY <2>2, <3>1, <3>2, <3>3 DEF ClientStep
  <2>3. CASE FetchBlocks
    BY <2>3, AttemptsType DEF FetchBlocks, Stages, client
  <2>4. CASE Fulfil
    <3>1. \A i \in Batch : Block(<<attempt, i>>) \in Blocks
      BY <2>4, BatchTasks DEF Fulfil, Block, Blocks
    <3> QED BY <2>4, <3>1 DEF Fulfil, client
  <2>5. CASE Reject
    BY <2>5 DEF Reject, client
  <2>6. ASSUME NEW t \in Tasks, TaskStep(t) PROVE TypeOK'
    <3>1. CASE LedgerRead(t)
      BY <3>1 DEF LedgerRead, Parts, client
    <3>2. ASSUME NEW l \in Lists, NextPage(t, l) PROVE TypeOK'
      <4>1. Page(l, Height(t), cursor[t][l]) \in Seq(Record)
        BY RecordsType, TaskTypes, PageTypes
      <4>2. list' \in [Tasks -> [Lists -> Seq(Record)]]
        BY <3>2, <4>1 DEF NextPage
      <4>3. cursor' \in [Tasks -> [Lists -> Nat]]
        BY <3>2, <4>1 DEF NextPage
      <4> QED BY <3>2, <4>2, <4>3 DEF NextPage, client
    <3>3. ASSUME NEW l \in Lists, LastPage(t, l) PROVE TypeOK'
      BY <3>3 DEF LastPage, Parts, client
    <3>4. CASE ReadFail(t)
      BY <3>4 DEF ReadFail, Stages, client
    <3>5. CASE SkipEvents(t)
      BY <3>5 DEF SkipEvents, Stages, client
    <3>6. CASE GetEvents(t)
      <4>1. Height(t) \in Ledgers /\ Source!EventsOf(Height(t)) \in [Events -> Nat]
        BY TaskTypes, EventsTypes
      <4>2. asked' \in [Tasks -> Ledgers \union {None}]
        BY <3>6, <4>1 DEF GetEvents, AskForEvents, Source!Ask
      <4>3. status' \in [Tasks -> {"idle", "asked", "fulfilled", "rejected"}]
        BY <3>6 DEF GetEvents, AskForEvents, Source!Ask
      <4>4. answer' \in [Tasks -> [Events -> Nat]]
        BY <3>6, <4>1 DEF GetEvents, AskForEvents, Source!Ask
      <4> QED BY <3>6, <4>2, <4>3, <4>4 DEF GetEvents, AskForEvents, Stages, Source!Ask
    <3>7. CASE WrapEvents(t)
      BY <3>7, EventsTypes DEF WrapEvents, TakeEvents, Stages, Source!Return, None
    <3>8. CASE EventsFail(t)
      BY <3>8, EventsTypes DEF EventsFail, TakeError, Stages, Source!Return, None
    <3>9. CASE Explain(t)
      BY <3>9 DEF Explain, Stages, client
    <3> QED BY <2>6, <3>1, <3>2, <3>3, <3>4, <3>5, <3>6, <3>7, <3>8, <3>9 DEF TaskStep, OwnStep
  <2>7. CASE UNCHANGED vars
    BY <2>7 DEF vars, client
  <2> QED BY <2>1, <2>2, <2>3, <2>4, <2>5, <2>6, <2>7 DEF Next
<1> QED BY <1>1, <1>2, PTL DEF Spec

-----------------------------------------------------------------------------
(* The inductive invariant. *)

LEMMA InvariantInit == Init => IInv
<1> SUFFICES ASSUME Init PROVE IInv
  OBVIOUS
<1>1. TypeOK
  BY HeightsType, AttemptsType, EventsTypes
  DEF Init, TypeOK, Stages, Unread, Start, Source!Init, None
<1>2. ListsUpToCursor
  <2> SUFFICES ASSUME NEW t \in Tasks, NEW l \in Lists
               PROVE  /\ 0 <= Len(Records[l][Height(t)])
                      /\ <<>> = SubSeq(Records[l][Height(t)], 1, 0)
    BY DEF Init, ListsUpToCursor, Unread, Start
  <2>1. Records[l][Height(t)] \in Seq(Record)
    BY TaskTypes, RecordsType
  <2> QED BY <2>1, SubSeqEmpty
<1>3. TasksInStep
  BY DEF Init, TasksInStep, Source!Init
<1>4. EventsOfTasks
  BY DEF Init, EventsOfTasks, Source!Init
<1>5. BlocksExact
  BY DEF Init, BlocksExact
<1> QED BY <1>1, <1>2, <1>3, <1>4, <1>5 DEF IInv

\* A step that leaves the lists alone keeps what is known of them.
LEMMA ListsFrame ==
    ASSUME ListsUpToCursor, UNCHANGED <<read, list, cursor>>
    PROVE  ListsUpToCursor'
BY DEF ListsUpToCursor

LEMMA ListsStep ==
    ASSUME IInv, NEW t \in Tasks, NEW l \in Lists, NextPage(t, l) \/ LastPage(t, l)
    PROVE  ListsUpToCursor'
<1> DEFINE All(u, k) == Records[k][Height(u)]
           page == Page(l, Height(t), cursor[t][l])
<1>1. Height(t) \in Ledgers /\ cursor[t][l] \in Nat /\ cursor[t][l] <= Len(All(t, l))
  BY TaskTypes DEF IInv, TypeOK, ListsUpToCursor
<1>2. /\ page \in Seq(Record)
      /\ cursor[t][l] + Len(page) <= Len(All(t, l))
      /\ SubSeq(All(t, l), 1, cursor[t][l]) \o page = SubSeq(All(t, l), 1, cursor[t][l] + Len(page))
      /\ page = <<>> => cursor[t][l] = Len(All(t, l))
  BY <1>1, PageIsNext
<1> HIDE DEF page
<1>3. SUFFICES ASSUME NEW u \in Tasks, NEW k \in Lists
               PROVE  /\ cursor'[u][k] <= Len(All(u, k))
                      /\ list'[u][k] = SubSeq(All(u, k), 1, cursor'[u][k])
                      /\ k \in read'[u] => cursor'[u][k] = Len(All(u, k))
  BY DEF ListsUpToCursor
<1>4. /\ cursor[u][k] <= Len(All(u, k))
      /\ list[u][k] = SubSeq(All(u, k), 1, cursor[u][k])
      /\ k \in read[u] => cursor[u][k] = Len(All(u, k))
  BY DEF IInv, ListsUpToCursor
<1>5. CASE NextPage(t, l)
  <2>1. /\ list' = [list EXCEPT ![t][l] = @ \o page]
        /\ cursor' = [cursor EXCEPT ![t][l] = @ + Len(page)]
        /\ read' = read /\ l \notin read[t]
    BY <1>5 DEF NextPage, Reading, page
  <2>2. CASE u = t /\ k = l
    <3>1. list'[u][k] = list[t][l] \o page /\ cursor'[u][k] = cursor[t][l] + Len(page)
      BY <2>1, <2>2 DEF IInv, TypeOK
    <3> QED BY <1>2, <1>4, <2>1, <2>2, <3>1
  <2>3. CASE ~(u = t /\ k = l)
    <3>1. list'[u][k] = list[u][k] /\ cursor'[u][k] = cursor[u][k]
      BY <2>1, <2>3 DEF IInv, TypeOK
    <3> QED BY <1>4, <2>1, <3>1
  <2> QED BY <2>2, <2>3
<1>6. CASE LastPage(t, l)
  <2>1. /\ page = <<>> /\ UNCHANGED <<list, cursor>>
        /\ read' = [read EXCEPT ![t] = @ \union {l}]
    BY <1>6 DEF LastPage, page
  <2>2. k \in read'[u] => k \in read[u] \/ (u = t /\ k = l)
    BY <2>1 DEF IInv, TypeOK
  <2> QED BY <1>2, <1>4, <2>1, <2>2
<1> QED BY <1>5, <1>6

\* What a task has read when everything is read.
LEMMA ReadAll ==
    ASSUME IInv, NEW t \in Tasks, read[t] = Parts
    PROVE  /\ \A l \in Lists : list[t][l] = Records[l][Height(t)]
           /\ HasInvokeHostFunctionOp(t) <=> Height(t) \in SorobanLedgers
           /\ Height(t) <= ingested
<1>1. ASSUME NEW l \in Lists PROVE list[t][l] = Records[l][Height(t)]
  <2>1. Records[l][Height(t)] \in Seq(Record)
    BY TaskTypes, RecordsType
  <2>2. cursor[t][l] = Len(Records[l][Height(t)])
    BY DEF IInv, ListsUpToCursor, Parts
  <2> QED BY <2>1, <2>2, SubSeqFull DEF IInv, ListsUpToCursor
<1>2. HasInvokeHostFunctionOp(t) <=> Height(t) \in SorobanLedgers
  BY <1>1, ListsType, TaskTypes DEF HasInvokeHostFunctionOp, SorobanLedgers
<1>3. Height(t) <= ingested
  BY DEF IInv, TasksInStep, Parts
<1> QED BY <1>1, <1>2, <1>3

LEMMA InvariantStep == IInv /\ TypeOK' /\ [Next]_vars => IInv'
<1> SUFFICES ASSUME IInv, TypeOK', [Next]_vars
             PROVE  ListsUpToCursor' /\ TasksInStep' /\ EventsOfTasks' /\ BlocksExact'
  BY DEF IInv
<1> USE DEF IInv
<1> DEFINE Goal == TasksInStep' /\ EventsOfTasks' /\ BlocksExact'
<1>1. ListsUpToCursor'
  <2>1. ASSUME NEW t \in Tasks, LedgerRead(t) PROVE ListsUpToCursor'
    BY <2>1, ListsType DEF LedgerRead, ListsUpToCursor, TypeOK
  <2>2. UNCHANGED <<read, list, cursor>>
        \/ \E t \in Tasks : LedgerRead(t) \/ \E l \in Lists : NextPage(t, l) \/ LastPage(t, l)
    BY DEF Next, TaskStep, OwnStep, IngestLedger, ClientStep, FetchBlocks, Fulfil, Reject, ReadFail,
           SkipEvents, GetEvents, AskForEvents, WrapEvents, TakeEvents, EventsFail, TakeError, Explain, vars
  <2> QED BY <2>1, <2>2, ListsFrame, ListsStep
<1>2. ASSUME IngestLedger PROVE Goal
  <2>1. EventsOfTasks' /\ BlocksExact'
    BY <1>2 DEF IngestLedger, client, EventsOfTasks, BlocksExact
  <2>2. \A t \in Tasks : Height(t) \in Int /\ ingested \in Int
    BY TaskTypes, HeightsType DEF TypeOK, Ledgers
  <2>3. \A t \in Tasks : Height(t) <= ingested => Height(t) <= ingested + 1
    BY <2>2
  <2>4. TasksInStep'
    BY <1>2, <2>3 DEF IngestLedger, client, TasksInStep
  <2> QED BY <2>1, <2>4
<1>3. ASSUME ClientStep PROVE Goal
  <2>1. UNCHANGED <<ingested, attempt, batch, blocks, stage, read, list, cursor, events>>
    BY <1>3 DEF ClientStep
  <2>2. BlocksExact'
    BY <2>1 DEF BlocksExact
  <2>3. CASE Source!CloseLedger
    BY <2>1, <2>2, <2>3, TaskTypes DEF Source!CloseLedger, TasksInStep, EventsOfTasks, TypeOK, Ledgers
  <2>4. ASSUME NEW t \in Tasks, Source!Answer(t) PROVE Goal
    BY <2>1, <2>2, <2>4 DEF Source!Answer, TasksInStep, EventsOfTasks, TypeOK
  <2>5. ASSUME NEW t \in Tasks, Source!Fail(t) PROVE Goal
    BY <2>1, <2>2, <2>5 DEF Source!Fail, TasksInStep, EventsOfTasks, TypeOK
  <2> QED BY <1>3, <2>3, <2>4, <2>5 DEF ClientStep
<1>4. ASSUME FetchBlocks PROVE Goal
  BY <1>4, TaskTypes DEF FetchBlocks, client, TasksInStep, EventsOfTasks, BlocksExact, TypeOK
<1>5. ASSUME Fulfil PROVE Goal
  <2>1. ASSUME NEW i \in Batch PROVE Block(<<attempt, i>>) = TheBlock[Heights[i]]
    <3>1. /\ <<attempt, i>> \in Tasks /\ Height(<<attempt, i>>) = Heights[i]
          /\ Heights[i] \in Ledgers /\ stage[<<attempt, i>>] = "fulfilled"
      BY <1>5, BatchTasks DEF Fulfil, TypeOK
    <3>2. read[<<attempt, i>>] = Parts
      BY <3>1 DEF TasksInStep
    <3>3. list[<<attempt, i>>] = [l \in Lists |-> Records[l][Heights[i]]]
      BY <3>1, <3>2, ReadAll DEF TypeOK
    <3>4. events[<<attempt, i>>] = Source!EventsOf(Heights[i])
      BY <3>1 DEF EventsOfTasks
    <3> QED BY <3>1, <3>3, <3>4 DEF Block, TheBlock
  <2>2. BlocksExact'
    BY <1>5, <2>1 DEF Fulfil, BlocksExact
  <2> QED BY <1>5, <2>2 DEF Fulfil, client, TasksInStep, EventsOfTasks
<1>6. ASSUME Reject PROVE Goal
  BY <1>6 DEF Reject, client, TasksInStep, EventsOfTasks, BlocksExact
<1>7. ASSUME NEW t \in Tasks, LedgerRead(t) PROVE Goal
  BY <1>7 DEF LedgerRead, Reading, client, TasksInStep, EventsOfTasks, BlocksExact, TypeOK
<1>8. ASSUME NEW t \in Tasks, NEW l \in Lists, NextPage(t, l) PROVE Goal
  BY <1>8 DEF NextPage, client, TasksInStep, EventsOfTasks, BlocksExact, TypeOK
<1>9. ASSUME NEW t \in Tasks, NEW l \in Lists, LastPage(t, l) PROVE Goal
  BY <1>9 DEF LastPage, Reading, client, TasksInStep, EventsOfTasks, BlocksExact, TypeOK
<1>10. ASSUME NEW t \in Tasks, ReadFail(t) PROVE Goal
  BY <1>10 DEF ReadFail, client, TasksInStep, EventsOfTasks, BlocksExact, TypeOK
<1>11. ASSUME NEW t \in Tasks, SkipEvents(t) PROVE Goal
  <2>1. Height(t) \in Ledgers /\ Height(t) \notin SorobanLedgers
    BY <1>11, ReadAll, TaskTypes DEF SkipEvents
  <2>2. events[t] = Source!EventsOf(Height(t))
    BY <1>11, <2>1, ClassicHasNoEvents DEF SkipEvents, EventsOfTasks
  <2> QED BY <1>11, <2>1, <2>2 DEF SkipEvents, client, TasksInStep, EventsOfTasks, BlocksExact, TypeOK
<1>12. ASSUME NEW t \in Tasks, GetEvents(t) PROVE Goal
  <2>1. Height(t) \in SorobanLedgers
    BY <1>12, ReadAll DEF GetEvents, AskForEvents
  <2>2. TasksInStep'
    BY <1>12, <2>1 DEF GetEvents, AskForEvents, Source!Ask, TasksInStep, TypeOK
  <2>3. EventsOfTasks'
    BY <1>12 DEF GetEvents, AskForEvents, Source!Ask, EventsOfTasks, TypeOK
  <2> QED BY <1>12, <2>2, <2>3 DEF GetEvents, AskForEvents, BlocksExact
<1>13. ASSUME NEW t \in Tasks, WrapEvents(t) PROVE Goal
  <2>1. asked[t] = Height(t) /\ Height(t) \in SorobanLedgers
    BY <1>13 DEF WrapEvents, TakeEvents, TasksInStep
  <2>2. answer[t] = Source!EventsOf(Height(t)) /\ Height(t) <= newest
    BY <1>13, <2>1 DEF WrapEvents, TakeEvents, EventsOfTasks
  <2>3. TasksInStep'
    BY <1>13 DEF WrapEvents, TakeEvents, Source!Return, TasksInStep, TypeOK
  <2>4. EventsOfTasks'
    BY <1>13, <2>2 DEF WrapEvents, TakeEvents, Source!Return, EventsOfTasks, TypeOK
  <2> QED BY <1>13, <2>3, <2>4 DEF WrapEvents, TakeEvents, BlocksExact
<1>14. ASSUME NEW t \in Tasks, EventsFail(t) PROVE Goal
  BY <1>14 DEF EventsFail, TakeError, Source!Return, TasksInStep, EventsOfTasks, BlocksExact, TypeOK
<1>15. ASSUME NEW t \in Tasks, Explain(t) PROVE Goal
  BY <1>15 DEF Explain, client, TasksInStep, EventsOfTasks, BlocksExact, TypeOK
<1>16. ASSUME UNCHANGED vars PROVE Goal
  BY <1>16 DEF vars, client, TasksInStep, EventsOfTasks, BlocksExact
<1> QED BY <1>1, <1>2, <1>3, <1>4, <1>5, <1>6, <1>7, <1>8, <1>9, <1>10, <1>11, <1>12,
           <1>13, <1>14, <1>15, <1>16 DEF Next, TaskStep, OwnStep

\* Whatever the tasks of this and of earlier attempts have read is a prefix of the
\* truth, and what they finished with is the truth.
THEOREM InvariantHolds == Spec => []IInv
BY InvariantInit, InvariantStep, TypeCorrect, PTL DEF Spec

\* A fulfilled batch holds the blocks of the chain.
THEOREM BatchesAreExact == Spec => []BlocksExact
<1>1. IInv => BlocksExact
  BY DEF IInv
<1> QED BY <1>1, InvariantHolds, PTL

\* Only ledgers with contract calls depend on the Soroban RPC server.
THEOREM ClassicIsIndependent == Spec => []AsksWhenNeeded
<1>1. IInv => AsksWhenNeeded
  BY DEF IInv, TasksInStep, EventsOfTasks, AsksWhenNeeded
<1> QED BY <1>1, InvariantHolds, PTL

-----------------------------------------------------------------------------
(* Refinement: the tasks are invisible, only the promise of the batch shows. *)

LEMMA StepRefines == IInv /\ IInv' /\ [Next]_vars => [Abstract!Next]_Abstract!vars
<1> SUFFICES ASSUME IInv, IInv', [Next]_vars PROVE [Abstract!Next]_Abstract!vars
  OBVIOUS
<1> USE DEF Abstract!Next, Abstract!vars
<1>1. CASE IngestLedger
  BY <1>1 DEF IngestLedger, client, Abstract!Grow
<1>2. CASE ClientStep
  <2>1. CASE Source!CloseLedger
    BY <1>2, <2>1, HeightsType DEF ClientStep, Source!CloseLedger, Abstract!Grow, Ledgers, IInv, TypeOK
  <2>2. ASSUME NEW t \in Tasks, Source!Answer(t) \/ Source!Fail(t) PROVE UNCHANGED Abstract!vars
    BY <1>2, <2>2 DEF ClientStep, Source!Answer, Source!Fail
  <2> QED BY <1>2, <2>1, <2>2 DEF ClientStep
<1>3. CASE FetchBlocks
  BY <1>3 DEF FetchBlocks, client, Abstract!Try
<1>4. CASE Fulfil
  <2>1. blocks' = [i \in 1..Len(Heights) |-> TheBlock[Heights[i]]]
    BY <1>4 DEF Fulfil, IInv, BlocksExact, Batch
  <2>2. ASSUME NEW i \in Batch
        PROVE  Heights[i] <= ingested /\ (Heights[i] \in SorobanLedgers => Heights[i] <= newest)
    <3>1. /\ <<attempt, i>> \in Tasks /\ Height(<<attempt, i>>) = Heights[i]
          /\ stage[<<attempt, i>>] = "fulfilled"
      BY <1>4, BatchTasks DEF Fulfil, IInv, TypeOK
    <3>2. read[<<attempt, i>>] = Parts
      BY <3>1 DEF IInv, TasksInStep
    <3> QED BY <3>1, <3>2, ReadAll DEF IInv, EventsOfTasks
  <2> QED BY <1>4, <2>1, <2>2 DEF Fulfil, client, Abstract!Deliver, Ready
<1>5. CASE Reject
  BY <1>5 DEF Reject, client, Abstract!GiveUp
<1>6. ASSUME NEW t \in Tasks, TaskStep(t) PROVE UNCHANGED Abstract!vars
  BY <1>6 DEF TaskStep, OwnStep, LedgerRead, NextPage, LastPage, ReadFail, SkipEvents, GetEvents, AskForEvents, WrapEvents, TakeEvents,
              EventsFail, TakeError, Explain, client, Source!Ask, Source!Return
<1>7. CASE UNCHANGED vars
  BY <1>7 DEF vars, client
<1> QED BY <1>1, <1>2, <1>3, <1>4, <1>5, <1>6, <1>7 DEF Next

\* The dispatcher sees one step per attempt: all blocks, or an error.
THEOREM ImplementsSource == Spec => Abstract!SafeSpec
<1>1. Init => Abstract!Init
  BY DEF Init, Source!Init, Abstract!Init
<1> QED BY <1>1, StepRefines, InvariantHolds, PTL DEF Spec, Abstract!SafeSpec

=============================================================================
