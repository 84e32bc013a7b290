-------------------------- MODULE ApiServiceProofs --------------------------
(***************************************************************************)
(* A call of the safe API is one call: it implements EventSource whatever  *)
(* the pool of connections does, for any number of callers, endpoints and  *)
(* retries.                                                                *)
(***************************************************************************)
EXTENDS ApiService, TLAPS

Stages   == {"idle", "trying", "waiting", "fulfilled", "rejected"}
Statuses == {"idle", "asked", "fulfilled", "rejected"}

ClientTypeOK ==
    /\ newest \in Nat
    /\ status \in [Callers -> Statuses]
    /\ asked \in [Callers -> Ledgers \union {None}]
    /\ answer \in [Callers -> [Events -> Nat]]

\* The client works on the attempt of a call, and on nothing else.
AttemptInStep(c) ==
    IF stage[c] = "waiting"
    THEN /\ status[c] # "idle"
         /\ asked[c] = height[c]
    ELSE status[c] = "idle"

\* What the client has for an attempt is what EventSource promises.
AnswerIsExact(c) ==
    status[c] = "fulfilled" => asked[c] <= newest /\ answer[c] = Source!EventsOf(asked[c])

\* A call that is under way has a ledger, no result yet and attempts left.
CallInStep(c) ==
    /\ stage[c] \in {"trying", "waiting"} => height[c] \in Ledgers /\ retries[c] < MaxRetries
    /\ stage[c] # "fulfilled" => result[c] = Source!Nothing
    /\ stage[c] = "idle" => retries[c] = 0

InStep(c) == AttemptInStep(c) /\ AnswerIsExact(c) /\ CallInStep(c)

IInv ==
    /\ TypeOK /\ ClientTypeOK
    /\ \A c \in Callers : InStep(c)

-----------------------------------------------------------------------------
(* The client. *)

LEMMA AnswersAreTyped ==
    /\ Source!Nothing \in [Events -> Nat]
    /\ \A s : Source!EventsOf(s) \in [Events -> Nat]
BY DEF Source!Nothing, Source!EventsOf

\* What a step of the client for c leaves as it is.
LEMMA ClientStep ==
    ASSUME ClientTypeOK, NEW c \in Callers,
           \/ \E h \in Ledgers : Source!Ask(c, h)
           \/ Source!Answer(c) \/ Source!Fail(c) \/ Source!Return(c)
    PROVE  /\ ClientTypeOK'
           /\ newest' = newest
           /\ \A d \in Callers \ {c} :
                 status'[d] = status[d] /\ asked'[d] = asked[d] /\ answer'[d] = answer[d]
<1>1. CASE \E h \in Ledgers : Source!Ask(c, h)
  <2>1. PICK h \in Ledgers : Source!Ask(c, h)
    BY <1>1
  <2>2. status' \in [Callers -> Statuses] /\ asked' \in [Callers -> Ledgers \union {None}]
    BY <2>1 DEF ClientTypeOK, Statuses, Source!Ask
  <2>3. answer' \in [Callers -> [Events -> Nat]]
    BY <2>1, AnswersAreTyped DEF ClientTypeOK, Source!Ask
  <2> QED
    BY <2>1, <2>2, <2>3 DEF ClientTypeOK, Source!Ask
<1>2. CASE Source!Answer(c)
  BY <1>2, AnswersAreTyped DEF ClientTypeOK, Statuses, Source!Answer
<1>3. CASE Source!Fail(c)
  BY <1>3 DEF ClientTypeOK, Statuses, Source!Fail
<1>4. CASE Source!Return(c)
  BY <1>4, AnswersAreTyped DEF ClientTypeOK, Statuses, Source!Return
<1> QED
  BY <1>1, <1>2, <1>3, <1>4

\* What is left alone stays in step.
LEMMA Frame ==
    ASSUME NEW d, InStep(d), newest' = newest,
           status'[d] = status[d], asked'[d] = asked[d], answer'[d] = answer[d],
           stage'[d] = stage[d], height'[d] = height[d], retries'[d] = retries[d],
           result'[d] = result[d]
    PROVE  InStep(d)'
BY DEF InStep, AttemptInStep, AnswerIsExact, CallInStep, Source!EventsOf, Source!Nothing

-----------------------------------------------------------------------------
(* The invariant. *)

LEMMA InitInv == ASSUME Init PROVE IInv
<1>1. TypeOK
  BY RetriesType, AnswersAreTyped DEF Init, TypeOK, None
<1>2. ClientTypeOK
  BY AnswersAreTyped DEF Init, Source!Init, ClientTypeOK, Statuses
<1>3. \A c \in Callers : InStep(c)
  BY DEF Init, Source!Init, InStep, AttemptInStep, AnswerIsExact, CallInStep
<1> QED
  BY <1>1, <1>2, <1>3 DEF IInv

\* The catch clause, with the client at rest afterwards.
LEMMA CatchInv ==
    ASSUME IInv, NEW c \in Callers, stage[c] \in {"trying", "waiting"}, Catch(c),
           ClientTypeOK', newest' = newest, status'[c] = "idle",
           \A d \in Callers \ {c} :
                 status'[d] = status[d] /\ asked'[d] = asked[d] /\ answer'[d] = answer[d]
    PROVE  IInv'
<1>1. retries[c] \in Nat /\ retries[c] < MaxRetries /\ MaxRetries \in Nat
  BY RetriesType DEF IInv, TypeOK, InStep, CallInStep
<1>2. /\ stage' \in [Callers -> Stages] /\ retries' \in [Callers -> 0..MaxRetries]
      /\ stage'[c] \in {"trying", "rejected"}
      /\ stage'[c] = "trying" => retries'[c] < MaxRetries
      /\ \A d \in Callers \ {c} : stage'[d] = stage[d] /\ retries'[d] = retries[d]
      /\ UNCHANGED <<pool, height, method, result>>
  <2>0. stage \in [Callers -> Stages] /\ retries \in [Callers -> 0..MaxRetries]
    BY DEF IInv, TypeOK, Stages
  <2>1. CASE stage' = [stage EXCEPT ![c] = "rejected"] /\ UNCHANGED retries
    BY <2>0, <2>1 DEF Catch, Stages
  <2>2. CASE /\ retries' = [retries EXCEPT ![c] = @ + 1]
             /\ stage' = [stage EXCEPT ![c] = IF retries[c] + 1 < MaxRetries THEN "trying" ELSE "rejected"]
    <3>1. retries[c] + 1 \in 0..MaxRetries
      BY <1>1
    <3> QED
      BY <1>1, <2>0, <2>2, <3>1 DEF Catch, Stages
  <2> QED
    BY <2>1, <2>2 DEF Catch
<1>3. TypeOK'
  BY <1>2 DEF IInv, TypeOK, pool, Stages
<1>4. InStep(c)'
  BY <1>2 DEF IInv, InStep, AttemptInStep, AnswerIsExact, CallInStep
<1>5. ASSUME NEW d \in Callers \ {c} PROVE InStep(d)'
  BY <1>2, Frame DEF IInv
<1> QED
  BY <1>3, <1>4, <1>5 DEF IInv

LEMMA StepInv == ASSUME IInv, [Next]_vars PROVE IInv'
<1>1. CASE /\ UNCHANGED <<local, client>>
           /\ TypeOK'
  BY <1>1 DEF IInv, ClientTypeOK, InStep, AttemptInStep, AnswerIsExact, CallInStep, local, client,
              Source!EventsOf, Source!Nothing
<1>2. CASE Refuse \/ ParseNothing \/ CreateConnections
  <2>1. UNCHANGED <<local, client>> /\ TypeOK'
    BY <1>2 DEF Refuse, ParseNothing, CreateConnections, IInv, TypeOK, local
  <2> QED
    BY <1>1, <2>1
<1>3. ASSUME NEW e \in Endpoints, Connect(e) \/ ConnectFail(e) \/ Disconnect(e) PROVE IInv'
  <2>1. UNCHANGED <<local, client>> /\ TypeOK'
    BY <1>3 DEF Connect, ConnectFail, Disconnect, IInv, TypeOK, local
  <2> QED
    BY <1>1, <2>1
<1>4. ASSUME NEW c \in Callers, NEW h \in Ledgers, NEW m \in {"getEvents", "other"}, SafeApi(c, h, m)
      PROVE  IInv'
  <2>1. retries[c] = 0 /\ MaxRetries > 0
    BY <1>4, RetriesType DEF SafeApi, IInv, InStep, CallInStep
  <2>2. TypeOK'
    BY <1>4 DEF SafeApi, IInv, TypeOK, pool
  <2>3. ClientTypeOK'
    BY <1>4 DEF SafeApi, client, IInv, ClientTypeOK
  <2>4. ASSUME NEW d \in Callers
        PROVE  InStep(d)'
    BY <1>4, <2>1
    DEF SafeApi, client, IInv, TypeOK, InStep, AttemptInStep, AnswerIsExact, CallInStep,
        Source!EventsOf, Source!Nothing
  <2> QED
    BY <2>2, <2>3, <2>4 DEF IInv
<1>5. ASSUME NEW c \in Callers, Attempt(c) PROVE IInv'
  <2>1. /\ stage[c] = "trying" /\ Source!Ask(c, height[c]) /\ height[c] \in Ledgers
        /\ stage' = [stage EXCEPT ![c] = "waiting"]
        /\ UNCHANGED <<pool, height, method, retries, result>>
    BY <1>5 DEF Attempt, IInv, InStep, CallInStep
  <2>2. /\ ClientTypeOK' /\ newest' = newest
        /\ \A d \in Callers \ {c} :
              status'[d] = status[d] /\ asked'[d] = asked[d] /\ answer'[d] = answer[d]
    BY <2>1, ClientStep DEF IInv
  <2>3. TypeOK'
    BY <2>1 DEF IInv, TypeOK, pool
  <2>4. /\ status'[c] # "idle" /\ asked'[c] = height[c]
        /\ status'[c] = "fulfilled" =>
              height[c] <= newest /\ answer'[c] = Source!EventsOf(height[c])
    BY <2>1 DEF Source!Ask, IInv, ClientTypeOK
  <2>5. /\ stage'[c] = "waiting" /\ height'[c] = height[c] /\ retries'[c] = retries[c]
        /\ result'[c] = result[c]
    BY <2>1 DEF IInv, TypeOK
  <2>6. AttemptInStep(c)' /\ CallInStep(c)'
    BY <2>1, <2>4, <2>5 DEF IInv, InStep, AttemptInStep, CallInStep, Source!Nothing
  <2>7. AnswerIsExact(c)'
    BY <2>2, <2>4 DEF AnswerIsExact, Source!EventsOf
  <2>8. ASSUME NEW d \in Callers \ {c} PROVE InStep(d)'
    BY <2>1, <2>2, Frame DEF IInv, TypeOK
  <2> QED
    BY <2>2, <2>3, <2>6, <2>7, <2>8 DEF IInv, InStep
<1>6. ASSUME NEW c \in Callers, AttemptOther(c) PROVE IInv'
  <2>1. stage[c] = "trying" /\ Catch(c) /\ UNCHANGED client /\ status[c] = "idle"
    BY <1>6 DEF AttemptOther, IInv, InStep, AttemptInStep
  <2>2. ClientTypeOK' /\ newest' = newest /\ status'[c] = "idle"
    BY <2>1 DEF client, IInv, ClientTypeOK
  <2> QED
    BY <2>1, <2>2, CatchInv DEF client
<1>7. ASSUME NEW c \in Callers, AttemptFails(c) PROVE IInv'
  <2>1. stage[c] = "waiting" /\ Catch(c) /\ Source!Return(c)
    BY <1>7 DEF AttemptFails
  <2>2. status'[c] = "idle"
    BY <2>1 DEF Source!Return, IInv, ClientTypeOK
  <2> QED
    BY <2>1, <2>2, ClientStep, CatchInv DEF IInv
<1>8. ASSUME NEW c \in Callers, AttemptSucceeds(c) PROVE IInv'
  <2>1. /\ stage[c] = "waiting" /\ Source!Return(c)
        /\ stage' = [stage EXCEPT ![c] = "fulfilled"]
        /\ result' = [result EXCEPT ![c] = answer[c]]
        /\ UNCHANGED <<pool, height, method, retries>>
    BY <1>8 DEF AttemptSucceeds
  <2>2. /\ ClientTypeOK' /\ newest' = newest /\ status'[c] = "idle"
        /\ \A d \in Callers \ {c} :
              status'[d] = status[d] /\ asked'[d] = asked[d] /\ answer'[d] = answer[d]
    BY <2>1, ClientStep DEF IInv, Source!Return, ClientTypeOK
  <2>3. TypeOK'
    BY <2>1 DEF IInv, TypeOK, ClientTypeOK, pool
  <2>4. InStep(c)'
    BY <2>1, <2>2 DEF IInv, TypeOK, InStep, AttemptInStep, AnswerIsExact, CallInStep
  <2>5. ASSUME NEW d \in Callers \ {c} PROVE InStep(d)'
    BY <2>1, <2>2, Frame DEF IInv, TypeOK
  <2> QED
    BY <2>2, <2>3, <2>4, <2>5 DEF IInv
<1>9. ASSUME NEW c \in Callers, Done(c) PROVE IInv'
  <2>1. TypeOK'
    BY <1>9, RetriesType, AnswersAreTyped DEF Done, IInv, TypeOK, pool, None
  <2>2. ClientTypeOK' /\ newest' = newest /\ UNCHANGED <<status, asked, answer>>
    BY <1>9 DEF Done, client, IInv, ClientTypeOK
  <2>3. /\ stage[c] \in {"fulfilled", "rejected"}
        /\ stage'[c] = "idle" /\ retries'[c] = 0 /\ result'[c] = Source!Nothing
    BY <1>9 DEF Done, IInv, TypeOK
  <2>4. AttemptInStep(c)' /\ CallInStep(c)'
    BY <2>2, <2>3 DEF IInv, InStep, AttemptInStep, CallInStep, Source!Nothing
  <2>5. status'[c] = "idle"
    BY <2>2, <2>3 DEF IInv, InStep, AttemptInStep
  <2>6. AnswerIsExact(c)'
    BY <2>5 DEF AnswerIsExact
  <2>7. ASSUME NEW d \in Callers \ {c} PROVE InStep(d)'
    <3>1. /\ stage'[d] = stage[d] /\ height'[d] = height[d] /\ retries'[d] = retries[d]
          /\ result'[d] = result[d]
      BY <1>9, <2>7 DEF Done, IInv, TypeOK
    <3> QED
      BY <2>2, <2>7, <3>1, Frame DEF IInv
  <2> QED
    BY <2>1, <2>2, <2>4, <2>6, <2>7 DEF IInv, InStep
<1>10. ASSUME NEW c \in Callers, ClientSettles(c) PROVE IInv'
  <2>1. (Source!Answer(c) \/ Source!Fail(c)) /\ UNCHANGED <<pool, local>>
    BY <1>10 DEF ClientSettles
  <2>2. /\ ClientTypeOK' /\ newest' = newest
        /\ \A d \in Callers \ {c} :
              status'[d] = status[d] /\ asked'[d] = asked[d] /\ answer'[d] = answer[d]
    BY <2>1, ClientStep DEF IInv
  <2>3. TypeOK'
    BY <2>1 DEF IInv, TypeOK, pool, local
  <2>4. /\ status[c] = "asked" /\ status'[c] \in {"fulfilled", "rejected"} /\ asked'[c] = asked[c]
        /\ status'[c] = "fulfilled" =>
              asked[c] <= newest /\ answer'[c] = Source!EventsOf(asked[c])
    BY <2>1 DEF Source!Answer, Source!Fail, IInv, ClientTypeOK
  <2>5. InStep(c)'
    BY <2>1, <2>2, <2>4 DEF IInv, local, InStep, AttemptInStep, AnswerIsExact, CallInStep, Source!EventsOf, Source!Nothing
  <2>6. ASSUME NEW d \in Callers \ {c} PROVE InStep(d)'
    BY <2>1, <2>2, Frame DEF IInv, local
  <2> QED
    BY <2>2, <2>3, <2>5, <2>6 DEF IInv
<1>11. CASE LedgerCloses
  <2>1. UNCHANGED <<pool, local, status, asked, answer>> /\ newest' = newest + 1
    BY <1>11 DEF LedgerCloses, Source!CloseLedger
  <2>2. TypeOK' /\ ClientTypeOK'
    BY <2>1 DEF IInv, TypeOK, ClientTypeOK, pool, local
  <2>3. ASSUME NEW d \in Callers PROVE InStep(d)'
    <3>1. asked[d] \in Int /\ newest \in Int
      BY <2>3 DEF IInv, ClientTypeOK, Ledgers, None
    <3> QED
      BY <2>1, <2>3, <3>1
      DEF IInv, local, InStep, AttemptInStep, AnswerIsExact, CallInStep, Source!EventsOf, Source!Nothing
  <2> QED
    BY <2>2, <2>3 DEF IInv
<1>12. CASE UNCHANGED vars
  BY <1>1, <1>12 DEF vars, pool, local, IInv, TypeOK
<1> QED
  BY <1>2, <1>3, <1>4, <1>5, <1>6, <1>7, <1>8, <1>9, <1>10, <1>11, <1>12 DEF Next, SafeStep

LEMMA Invariant == Spec => []IInv
BY InitInv, StepInv, PTL DEF Spec

-----------------------------------------------------------------------------
(* Theorems. *)

\* Every variable of the API service keeps its type.
THEOREM TypeCorrect == Spec => []TypeOK
<1>1. IInv => TypeOK
  BY DEF IInv
<1> QED
  BY <1>1, Invariant, PTL

\* A call is tried MaxRetries times, unless there is no connection, and not once more.
THEOREM NoAttemptLost == Spec => AllAttemptsMade
<1> DEFINE Step == \A c \in Callers : stage[c] \in {"trying", "waiting"} =>
                     /\ stage'[c] = "trying" => retries'[c] < MaxRetries
                     /\ stage'[c] = "rejected" => connected = {} \/ retries'[c] = MaxRetries
<1>1. IInv /\ IInv' /\ [Next]_vars => [Step]_vars
  <2> SUFFICES ASSUME IInv, IInv', Next, NEW c \in Callers, stage[c] \in {"trying", "waiting"}
               PROVE  /\ stage'[c] = "trying" => retries'[c] < MaxRetries
                      /\ stage'[c] = "rejected" => connected = {} \/ retries'[c] = MaxRetries
    OBVIOUS
  <2>1. stage'[c] = "trying" => retries'[c] < MaxRetries
    BY DEF IInv, InStep, CallInStep
  <2>2. retries[c] \in Nat /\ retries[c] < MaxRetries /\ MaxRetries \in Nat
    BY RetriesType DEF IInv, TypeOK, InStep, CallInStep
  <2>3. ASSUME stage'[c] = "rejected" PROVE Catch(c)
    BY <2>3
    DEF Next, SafeStep, Refuse, ParseNothing, CreateConnections, Connect, ConnectFail, Disconnect,
        SafeApi, Attempt, AttemptOther, AttemptFails, AttemptSucceeds, Done, ClientSettles,
        LedgerCloses, local, pool, IInv, TypeOK, Catch
  <2>4. ASSUME stage'[c] = "rejected" PROVE connected = {} \/ retries'[c] = MaxRetries
    BY <2>2, <2>3, <2>4 DEF Catch, IInv, TypeOK
  <2> QED
    BY <2>1, <2>4
<1> QED
  BY <1>1, Invariant, PTL DEF Spec, AllAttemptsMade

\* The safety half of SafeCallsAreCalls: each step of a call, retries included, is a step
\* of one call of EventSource or invisible.
THEOREM SafeCallsRefine == Spec => Abstract!SafeSpec
<1> DEFINE seen == [c \in Callers |-> IF stage[c] \in {"trying", "waiting"} THEN "asked" ELSE stage[c]]
<1>1. Init => Abstract!Init
  BY DEF Init, Source!Init, Abstract!Init, Source!Nothing, Abstract!Nothing
<1>2. IInv /\ [Next]_vars => [Abstract!Next]_(Abstract!vars)
  <2> SUFFICES ASSUME IInv, [Next]_vars PROVE [Abstract!Next]_(Abstract!vars)
    OBVIOUS
  <2>1. CASE UNCHANGED <<newest, local>>
    BY <2>1 DEF local, Abstract!vars
  <2>2. CASE Refuse \/ ParseNothing \/ CreateConnections \/ UNCHANGED vars
    BY <2>1, <2>2 DEF Refuse, ParseNothing, CreateConnections, vars, client
  <2>3. ASSUME NEW e \in Endpoints, Connect(e) \/ ConnectFail(e) \/ Disconnect(e)
        PROVE  UNCHANGED <<newest, local>>
    BY <2>3 DEF Connect, ConnectFail, Disconnect, client
  <2>4. ASSUME NEW c \in Callers, NEW h \in Ledgers, NEW m \in {"getEvents", "other"}, SafeApi(c, h, m)
        PROVE  Abstract!Ask(c, h) \/ Abstract!AskForNothing(c)
    <3>1. CASE connected # {}
      BY <2>4, <3>1 DEF SafeApi, Abstract!Ask, client, IInv, TypeOK
    <3>2. CASE connected = {}
      BY <2>4, <3>2 DEF SafeApi, Abstract!AskForNothing, client, IInv, TypeOK
    <3> QED
      BY <3>1, <3>2
  <2>5. ASSUME NEW c \in Callers, Attempt(c) PROVE UNCHANGED Abstract!vars
    <3>1. newest' = newest /\ seen' = seen /\ UNCHANGED <<height, result>>
      BY <2>5 DEF Attempt, Source!Ask, IInv, TypeOK
    <3> QED
      BY <3>1 DEF Abstract!vars
  <2>6. ASSUME NEW c \in Callers, AttemptOther(c) \/ AttemptFails(c)
        PROVE  Abstract!Fail(c) \/ UNCHANGED Abstract!vars
    <3>1. stage[c] \in {"trying", "waiting"} /\ newest' = newest /\ Catch(c)
      BY <2>6 DEF AttemptOther, AttemptFails, client, Source!Return
    <3>2. CASE stage' = [stage EXCEPT ![c] = "trying"]
      <4>1. seen' = seen /\ UNCHANGED <<height, result>>
        BY <3>1, <3>2 DEF Catch, IInv, TypeOK
      <4> QED
        BY <3>1, <4>1 DEF Abstract!vars
    <3>3. CASE stage' = [stage EXCEPT ![c] = "rejected"]
      <4>1. seen[c] = "asked" /\ seen' = [seen EXCEPT ![c] = "rejected"] /\ UNCHANGED <<height, result>>
        BY <3>1, <3>3 DEF Catch, IInv, TypeOK
      <4> QED
        BY <3>1, <4>1 DEF Abstract!Fail
    <3> QED
      BY <3>1, <3>2, <3>3 DEF Catch
  <2>7. ASSUME NEW c \in Callers, AttemptSucceeds(c) PROVE Abstract!Answer(c)
    <3>1. /\ height[c] <= newest /\ answer[c] = Source!EventsOf(height[c])
      BY <2>7 DEF AttemptSucceeds, IInv, InStep, AttemptInStep, AnswerIsExact
    <3>2. seen[c] = "asked" /\ seen' = [seen EXCEPT ![c] = "fulfilled"]
      BY <2>7 DEF AttemptSucceeds, IInv, TypeOK
    <3> QED
      BY <2>7, <3>1, <3>2
      DEF AttemptSucceeds, Abstract!Answer, Source!Return, Source!EventsOf, Abstract!EventsOf
  <2>8. ASSUME NEW c \in Callers, Done(c) PROVE Abstract!Return(c)
    <3>1. seen[c] \in {"fulfilled", "rejected"} /\ seen' = [seen EXCEPT ![c] = "idle"]
      BY <2>8 DEF Done, IInv, TypeOK
    <3> QED
      BY <2>8, <3>1 DEF Done, Abstract!Return, Source!Nothing, Abstract!Nothing, client
  <2>9. ASSUME NEW c \in Callers, ClientSettles(c) PROVE UNCHANGED <<newest, local>>
    BY <2>9 DEF ClientSettles, Source!Answer, Source!Fail
  <2>10. CASE LedgerCloses
    <3>1. Abstract!CloseLedger
      BY <2>10 DEF LedgerCloses, Source!CloseLedger, Abstract!CloseLedger, local
    <3> QED
      BY <3>1 DEF Abstract!Next
  <2> QED
    BY <2>1, <2>2, <2>3, <2>4, <2>5, <2>6, <2>7, <2>8, <2>9, <2>10
    DEF Next, SafeStep, Abstract!Next
<1> QED
  BY <1>1, <1>2, Invariant, PTL DEF Spec, Abstract!SafeSpec

=============================================================================
