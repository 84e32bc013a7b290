------------------------ MODULE ChainFollowerProofs ------------------------
(* Proofs about ChainFollower, for any number of servers, slots, ledgers and  *)
(* restarts.                                                                  *)
EXTENDS ChainFollower, SequenceTheorems, TLAPS

-----------------------------------------------------------------------------
(* Headers. *)

LEMMA HeaderFacts ==
    ASSUME NEW n \in Ledgers
    PROVE  /\ StellarBlockToHeader(n) \in Headers
           /\ StellarBlockToHeader(n).blockHeight = n
           /\ StellarBlockToHeader(n) # NoHeader
BY ChainType DEF Headers, Ledgers, StellarBlockToHeader, NoHeader

LEMMA HeaderHeights ==
    /\ \A h \in Headers : h.blockHeight \in Ledgers /\ h # NoHeader
    /\ NoHeader.blockHeight = 0
BY ChainType DEF Headers, Ledgers, StellarBlockToHeader, NoHeader

\* Headers of one chain never look like a fork.
LEMMA HeadersFit ==
    ASSUME NEW header \in Headers, NEW p \in Headers
    PROVE  ~Misfit(header, p)
<1>1. PICK n \in Ledgers : header = StellarBlockToHeader(n)
  BY DEF Headers
<1>2. PICK k \in Ledgers : p = StellarBlockToHeader(k)
  BY DEF Headers
<1>3. GetHeaderForHash(p.blockHash) = p
  BY <1>2 DEF GetHeaderForHash, GetHeaderForHeight, ParseInt, ToString, StellarBlockToHeader
<1>4. p.blockHeight = header.blockHeight => p.blockHash = header.blockHash
  BY <1>1, <1>2 DEF StellarBlockToHeader
<1>5. p.blockHeight = header.blockHeight - 1 => p.blockHash = header.parentHash
  BY <1>1, <1>2 DEF StellarBlockToHeader
<1> QED BY <1>3, <1>4, <1>5 DEF Misfit

LEMMA NothingForks ==
    ASSUME NEW header \in Headers, processed \in Seq(Headers)
    PROVE  ~Forks(header)
<1>1. \A i \in DOMAIN processed : processed[i] \in Headers
  OBVIOUS
<1> QED BY <1>1, HeadersFit DEF Forks

-----------------------------------------------------------------------------
(* The initial states. *)

LEMMA InitIInv == Init => IInv
<1> SUFFICES ASSUME Init PROVE IInv
  OBVIOUS
<1> USE DEF Init, Idle, Fetch, None
<1>1. TypeOK
  <2>1. <<>> \in Seq(Headers)
    OBVIOUS
  <2>2. [k \in Polls |-> None] \in [Polls -> 0..LastLedger] /\ 0 \in 0..LastLedger + 1 /\ 1 \in 1..LastLedger + 2
    BY ChainType
  <2>3. restarts \in 0..MaxRestarts
    BY RestartsType
  <2> QED BY <2>1, <2>2, <2>3, ChainType DEF TypeOK
<1>2. HeightsAreClosed
  BY DEF HeightsAreClosed
<1>3. SlotsInStep /\ ProcessedBelow /\ NeverFarAhead /\ IndexedInOrder /\ NoFork
  BY DEF SlotsInStep, ProcessedBelow, NeverFarAhead, IndexedInOrder, NoFork
<1> QED BY <1>1, <1>2, <1>3 DEF IInv

-----------------------------------------------------------------------------
(* The steps. *)

\* A server only gets ahead.
LEMMA CloseLedgerKeeps ==
    ASSUME IInv, NEW e \in Endpoints, CloseLedger(e)
    PROVE  IInv'
<1> USE DEF CloseLedger, fixed, heads, fetching
<1>1. TypeOK
  BY DEF IInv
<1>2. closed' \in [Endpoints -> 0..LastLedger] /\ \A f \in Endpoints : closed[f] <= closed'[f]
  BY <1>1, ChainType DEF TypeOK
<1>3. /\ bestHeight' = bestHeight /\ finalized' = finalized /\ polls' = polls
      /\ slot' = slot /\ nextHeight' = nextHeight /\ processed' = processed
  OBVIOUS
<1>4. TypeOK'
  BY <1>1, <1>2 DEF TypeOK
<1>5. \A n \in Int, f \in Endpoints :
         /\ n <= closed[f] => n <= closed'[f]
         /\ n <= closed[f] + 1 => n <= closed'[f] + 1
  BY <1>1, <1>2, ChainType DEF TypeOK
<1>6. /\ bestHeight \in Int /\ finalized.blockHeight \in Int
      /\ \A k \in Polls : polls[k] \in Int
      /\ \A s \in Slots : slot[s].height \in Int
  BY <1>1, HeaderHeights, ChainType DEF TypeOK, Ledgers
<1>7. HeightsAreClosed'
  BY <1>3, <1>5, <1>6 DEF HeightsAreClosed, IInv
<1>8. NeverFarAhead'
  BY <1>3, <1>5, <1>6 DEF NeverFarAhead, IInv
<1>9. SlotsInStep' /\ ProcessedBelow' /\ IndexedInOrder' /\ NoFork'
  BY <1>3 DEF IInv, SlotsInStep, ProcessedBelow, IndexedInOrder, NoFork
<1> QED BY <1>4, <1>7, <1>8, <1>9 DEF IInv

\* A poll, its answer and its failure touch the known heights only.
LEMMA PollsKeep ==
    ASSUME IInv,
           \/ \E k \in Polls : Poll(k) \/ PollFails(k)
           \/ GetFinalizedHeader \/ GetBestHeight
    PROVE  IInv'
<1> USE DEF fixed, heads, fetching
<1>1. TypeOK /\ HeightsAreClosed /\ NoFork /\ Polls = {"getFinalizedHeader", "getBestHeight"}
  BY DEF IInv, Polls
<1> DEFINE Rest == /\ closed' = closed /\ slot' = slot /\ nextHeight' = nextHeight
                   /\ processed' = processed /\ lost' = lost
                   /\ unfinalizedBlocks' = unfinalizedBlocks /\ restarts' = restarts
           Goal == Rest /\ TypeOK' /\ HeightsAreClosed' /\ NoFork'
<1>2. ASSUME NEW k \in Polls, NEW e \in Endpoints, GetFinalizedBlock(k, e) PROVE Goal
  <2>1. Rest /\ finalized' = finalized /\ bestHeight' = bestHeight /\ forked' = forked
    BY <1>2 DEF GetFinalizedBlock
  <2>2. polls' = [polls EXCEPT ![k] = closed[e]] /\ closed[e] \in 0..LastLedger
    BY <1>1, <1>2 DEF GetFinalizedBlock, TypeOK
  <2>3. TypeOK'
    BY <1>1, <2>1, <2>2 DEF TypeOK
  <2>4. \A j \in Polls : polls'[j] # None => \E f \in Endpoints : polls'[j] <= closed[f]
    BY <1>1, <2>2, ChainType DEF TypeOK, HeightsAreClosed
  <2> QED BY <1>1, <2>1, <2>3, <2>4 DEF HeightsAreClosed, NoFork
<1>3. ASSUME NEW k \in Polls, PollFails(k) PROVE Goal
  <2>1. Rest /\ finalized' = finalized /\ bestHeight' = bestHeight /\ forked' = forked
    BY <1>3 DEF PollFails
  <2>2. polls' = [polls EXCEPT ![k] = None]
    BY <1>3 DEF PollFails
  <2>3. TypeOK'
    BY <1>1, <2>1, <2>2, ChainType DEF TypeOK, None
  <2>4. \A j \in Polls : polls'[j] # None => \E f \in Endpoints : polls'[j] <= closed[f]
    BY <1>1, <2>2 DEF TypeOK, HeightsAreClosed
  <2> QED BY <1>1, <2>1, <2>3, <2>4 DEF HeightsAreClosed, NoFork
<1>4. ASSUME GetFinalizedHeader PROVE Goal
  <2> DEFINE n == polls["getFinalizedHeader"]
  <2>1. Rest /\ bestHeight' = bestHeight /\ finalized' = StellarBlockToHeader(n)
    BY <1>4 DEF GetFinalizedHeader
  <2>2. polls' = [polls EXCEPT !["getFinalizedHeader"] = None] /\ n # None
    BY <1>4 DEF GetFinalizedHeader
  <2>3. n \in Ledgers /\ \E e \in Endpoints : n <= closed[e]
    BY <1>1, <2>2, ChainType DEF TypeOK, HeightsAreClosed, Ledgers, None
  <2>4. finalized' \in Headers /\ finalized'.blockHeight = n
    BY <2>1, <2>3, HeaderFacts
  <2>5. ~forked'
    BY <1>1, <1>4, <2>1, <2>4, NothingForks DEF GetFinalizedHeader, NoFork, TypeOK
  <2>6. TypeOK'
    <3>1. forked' \in BOOLEAN
      BY <1>4 DEF GetFinalizedHeader
    <3>2. polls' \in [Polls -> 0..LastLedger]
      BY <1>1, <2>2, ChainType DEF TypeOK, None
    <3> QED BY <1>1, <2>1, <2>4, <3>1, <3>2 DEF TypeOK
  <2>7. \A j \in Polls : polls'[j] # None => \E f \in Endpoints : polls'[j] <= closed[f]
    BY <1>1, <2>2 DEF TypeOK, HeightsAreClosed
  <2> QED BY <1>1, <2>1, <2>3, <2>4, <2>5, <2>6, <2>7 DEF HeightsAreClosed, NoFork
<1>5. ASSUME GetBestHeight PROVE Goal
  <2> DEFINE n == polls["getBestHeight"]
  <2>1. Rest /\ bestHeight' = n + 1 /\ finalized' = finalized /\ forked' = forked
    BY <1>5 DEF GetBestHeight, GetBestBlockHeight
  <2>2. polls' = [polls EXCEPT !["getBestHeight"] = None] /\ n # None
    BY <1>5 DEF GetBestHeight
  <2>3. n \in 0..LastLedger
    BY <1>1 DEF TypeOK
  <2>4. \E e \in Endpoints : n + 1 <= closed[e] + 1
    <3>1. PICK e \in Endpoints : n <= closed[e]
      BY <1>1, <2>2 DEF HeightsAreClosed
    <3>2. closed[e] \in 0..LastLedger
      BY <1>1 DEF TypeOK
    <3> QED BY <3>1, <3>2, <2>3, ChainType
  <2>5. TypeOK'
    BY <1>1, <2>1, <2>2, <2>3, ChainType DEF TypeOK, None
  <2>6. \A j \in Polls : polls'[j] # None => \E f \in Endpoints : polls'[j] <= closed[f]
    BY <1>1, <2>2 DEF TypeOK, HeightsAreClosed
  <2> QED BY <1>1, <2>1, <2>4, <2>5, <2>6 DEF HeightsAreClosed, NoFork
<1>6. Goal
  BY <1>2, <1>3, <1>4, <1>5 DEF Poll
<1>7. SlotsInStep' /\ ProcessedBelow' /\ NeverFarAhead' /\ IndexedInOrder'
  BY <1>6 DEF IInv, SlotsInStep, ProcessedBelow, NeverFarAhead, IndexedInOrder
<1> QED BY <1>6, <1>7 DEF IInv

\* A height that is handed out is above all others and at most one above a server.
LEMMA EnqueueKeeps ==
    ASSUME IInv, NEW s \in Slots, NEW h \in 1..LastLedger + 1, Enqueue(s, h)
    PROVE  IInv'
<1> USE DEF fixed, heads, fetching
<1>1. TypeOK /\ HeightsAreClosed /\ SlotsInStep /\ ProcessedBelow /\ NeverFarAhead
  BY DEF IInv
<1> DEFINE task == [stage |-> "queued", height |-> h, endpoint |-> NoEndpoint, header |-> NoHeader]
<1>2. /\ closed' = closed /\ finalized' = finalized /\ bestHeight' = bestHeight /\ polls' = polls
      /\ processed' = processed /\ forked' = forked /\ lost' = lost
      /\ unfinalizedBlocks' = unfinalizedBlocks /\ restarts' = restarts
      /\ slot[s].stage = "idle" /\ nextHeight' = h + 1
  BY DEF Enqueue
<1>3. slot' = [slot EXCEPT ![s] = task]
  BY DEF Enqueue, Fetch
<1>4. h \in nextHeight..Limit /\ nextHeight \in 1..LastLedger + 2
  BY <1>1 DEF Enqueue, TypeOK
<1>5. Limit \in Int
  BY <1>1, HeaderHeights, ChainType DEF TypeOK, Limit, Ledgers
<1>6. h \in Int /\ 1 <= h /\ h <= LastLedger + 1 /\ nextHeight <= h /\ h <= Limit
  BY <1>4, <1>5, ChainType
<1>7. \E e \in Endpoints : h <= closed[e] + 1
  <2>1. CASE unfinalizedBlocks
    <3>1. bestHeight # 0 /\ h <= bestHeight /\ bestHeight \in Int
      BY <1>1, <1>6, <2>1, ChainType DEF Limit, TypeOK
    <3>2. PICK e \in Endpoints : bestHeight <= closed[e] + 1
      BY <1>1, <3>1 DEF HeightsAreClosed
    <3>3. closed[e] \in Int
      BY <1>1, ChainType DEF TypeOK
    <3> QED BY <1>6, <3>1, <3>2, <3>3
  <2>2. CASE ~unfinalizedBlocks
    <3>1. h <= finalized.blockHeight
      BY <1>6, <2>2 DEF Limit
    <3>2. finalized # NoHeader
      BY <1>6, <3>1, HeaderHeights
    <3>3. finalized.blockHeight \in Int
      BY <1>1, <3>2, HeaderHeights, ChainType DEF TypeOK, Ledgers
    <3>4. PICK e \in Endpoints : finalized.blockHeight <= closed[e]
      BY <1>1, <3>2 DEF HeightsAreClosed
    <3>5. closed[e] \in Int
      BY <1>1, ChainType DEF TypeOK
    <3> QED BY <1>6, <3>1, <3>3, <3>4, <3>5
  <2> QED BY <2>1, <2>2
<1>8. /\ slot'[s] = task
      /\ \A t \in Slots : t # s => slot'[t] = slot[t]
  BY <1>1, <1>3 DEF TypeOK
<1>9. TypeOK'
  <2>1. task \in [stage : {"idle", "queued", "asked", "fetched"}, height : 0..LastLedger + 1,
                  endpoint : Endpoints \union {NoEndpoint}, header : Headers \union {NoHeader}]
    BY <1>6, ChainType
  <2>2. h + 1 \in 1..LastLedger + 2
    BY <1>6, ChainType
  <2> QED BY <1>1, <1>2, <1>3, <2>1, <2>2 DEF TypeOK
<1>10. \A t \in Slots : t # s /\ slot[t].stage # "idle" => slot[t].height < h
  <2> SUFFICES ASSUME NEW t \in Slots, slot[t].stage # "idle" PROVE slot[t].height < h
    OBVIOUS
  <2>1. slot[t].height \in 1..(nextHeight - 1)
    BY <1>1 DEF SlotsInStep
  <2> QED BY <2>1, <1>4, <1>6, ChainType
<1>11. SlotsInStep'
  <2>1. \A t \in Slots :
          /\ slot'[t].stage # "idle" => slot'[t].height \in 1..(nextHeight' - 1)
          /\ slot'[t].stage = "asked" => slot'[t].endpoint \in Endpoints
          /\ slot'[t].stage = "fetched" =>
                slot'[t].height <= LastLedger /\ slot'[t].header = StellarBlockToHeader(slot'[t].height)
    <3> SUFFICES ASSUME NEW t \in Slots
                 PROVE  /\ slot'[t].stage # "idle" => slot'[t].height \in 1..(nextHeight' - 1)
                        /\ slot'[t].stage = "asked" => slot'[t].endpoint \in Endpoints
                        /\ slot'[t].stage = "fetched" =>
                              /\ slot'[t].height <= LastLedger
                              /\ slot'[t].header = StellarBlockToHeader(slot'[t].height)
      OBVIOUS
    <3>1. CASE t = s
      BY <1>2, <1>6, <1>8, <3>1
    <3>2. CASE t # s
      <4>1. slot[t].stage # "idle" => slot[t].height \in 1..(nextHeight' - 1)
        BY <1>1, <1>2, <1>4, <1>6, ChainType DEF SlotsInStep
      <4> QED BY <1>1, <1>8, <3>2, <4>1 DEF SlotsInStep
    <3> QED BY <3>1, <3>2
  <2>2. \A t, u \in Slots :
          slot'[t].stage # "idle" /\ slot'[u].stage # "idle" /\ t # u => slot'[t].height # slot'[u].height
    <3> SUFFICES ASSUME NEW t \in Slots, NEW u \in Slots,
                        slot'[t].stage # "idle", slot'[u].stage # "idle", t # u
                 PROVE  slot'[t].height # slot'[u].height
      OBVIOUS
    <3>1. CASE t = s
      BY <1>6, <1>8, <1>10, <3>1
    <3>2. CASE u = s
      BY <1>6, <1>8, <1>10, <3>2
    <3>3. CASE t # s /\ u # s
      BY <1>1, <1>8, <3>3 DEF SlotsInStep
    <3> QED BY <3>1, <3>2, <3>3
  <2> QED BY <2>1, <2>2 DEF SlotsInStep
<1>12. ProcessedBelow'
  <2> SUFFICES ASSUME NEW i \in DOMAIN processed
               PROVE  /\ processed[i].blockHeight < nextHeight'
                      /\ \A t \in Slots : slot'[t].stage # "idle" => processed[i].blockHeight < slot'[t].height
    BY <1>2 DEF ProcessedBelow
  <2>1. processed[i].blockHeight \in Int
    BY <1>1, HeaderHeights, ChainType DEF TypeOK, Ledgers
  <2>2. processed[i].blockHeight < nextHeight
    BY <1>1 DEF ProcessedBelow
  <2>3. processed[i].blockHeight < h /\ processed[i].blockHeight < nextHeight'
    BY <2>1, <2>2, <1>2, <1>4, <1>6
  <2>4. \A t \in Slots : slot'[t].stage # "idle" => processed[i].blockHeight < slot'[t].height
    BY <2>3, <1>1, <1>8 DEF ProcessedBelow
  <2> QED BY <2>3, <2>4
<1>13. NeverFarAhead'
  <2> SUFFICES ASSUME NEW t \in Slots, slot'[t].stage # "idle"
               PROVE  \E e \in Endpoints : IF slot'[t].stage = "fetched" THEN slot'[t].height <= closed[e]
                                                                          ELSE slot'[t].height <= closed[e] + 1
    BY <1>2 DEF NeverFarAhead
  <2>1. CASE t = s
    BY <1>7, <1>8, <2>1
  <2>2. CASE t # s
    BY <1>1, <1>8, <2>2 DEF NeverFarAhead
  <2> QED BY <2>1, <2>2
<1>14. HeightsAreClosed' /\ IndexedInOrder' /\ NoFork'
  BY <1>2 DEF IInv, HeightsAreClosed, IndexedInOrder, NoFork
<1> QED BY <1>9, <1>11, <1>12, <1>13, <1>14 DEF IInv

\* A fetch that goes on keeps its height.
LEMMA FetchKeeps ==
    ASSUME IInv, NEW s \in Slots, NEW stage \in {"queued", "asked", "fetched"},
           NEW e \in Endpoints \union {NoEndpoint}, NEW header \in Headers \union {NoHeader},
           slot[s].stage # "idle",
           slot' = [slot EXCEPT ![s] = Fetch(stage, slot[s].height, e, header)],
           stage = "asked" => e \in Endpoints /\ slot[s].stage # "fetched",
           stage = "queued" => slot[s].stage # "fetched",
           stage = "fetched" => /\ slot[s].height <= LastLedger
                                /\ header = StellarBlockToHeader(slot[s].height)
                                /\ \E f \in Endpoints : slot[s].height <= closed[f],
           lost' \subseteq Endpoints,
           UNCHANGED <<closed, fixed, heads, nextHeight, processed, forked>>
    PROVE  IInv'
<1> USE DEF fixed, heads, fetching
<1> DEFINE h == slot[s].height
           task == [stage |-> stage, height |-> h, endpoint |-> e, header |-> header]
<1>1. TypeOK /\ HeightsAreClosed /\ SlotsInStep /\ ProcessedBelow /\ NeverFarAhead
  BY DEF IInv
<1>2. /\ closed' = closed /\ finalized' = finalized /\ bestHeight' = bestHeight /\ polls' = polls
      /\ processed' = processed /\ forked' = forked /\ nextHeight' = nextHeight
      /\ unfinalizedBlocks' = unfinalizedBlocks /\ restarts' = restarts
  OBVIOUS
<1>3. /\ slot' = [slot EXCEPT ![s] = task]
      /\ slot'[s] = task
      /\ \A t \in Slots : t # s => slot'[t] = slot[t]
  BY <1>1 DEF TypeOK, Fetch
<1>4. /\ \A t \in Slots : slot'[t].height = slot[t].height
      /\ \A t \in Slots : slot'[t].stage # "idle" <=> slot[t].stage # "idle"
  BY <1>3
<1>5. TypeOK'
  <2>1. h \in 0..LastLedger + 1
    BY <1>1 DEF TypeOK
  <2>2. task \in [stage : {"idle", "queued", "asked", "fetched"}, height : 0..LastLedger + 1,
                  endpoint : Endpoints \union {NoEndpoint}, header : Headers \union {NoHeader}]
    BY <2>1
  <2> QED BY <1>1, <1>2, <1>3, <2>2 DEF TypeOK
<1>6. SlotsInStep'
  <2>1. \A t \in Slots :
          /\ slot'[t].stage # "idle" => slot'[t].height \in 1..(nextHeight' - 1)
          /\ slot'[t].stage = "asked" => slot'[t].endpoint \in Endpoints
          /\ slot'[t].stage = "fetched" =>
                slot'[t].height <= LastLedger /\ slot'[t].header = StellarBlockToHeader(slot'[t].height)
    <3> SUFFICES ASSUME NEW t \in Slots
                 PROVE  /\ slot'[t].stage # "idle" => slot'[t].height \in 1..(nextHeight' - 1)
                        /\ slot'[t].stage = "asked" => slot'[t].endpoint \in Endpoints
                        /\ slot'[t].stage = "fetched" =>
                              /\ slot'[t].height <= LastLedger
                              /\ slot'[t].header = StellarBlockToHeader(slot'[t].height)
      OBVIOUS
    <3>1. slot'[t].stage # "idle" => slot'[t].height \in 1..(nextHeight' - 1)
      BY <1>1, <1>2, <1>4 DEF SlotsInStep
    <3>2. CASE t = s
      BY <1>3, <3>1, <3>2
    <3>3. CASE t # s
      BY <1>1, <1>3, <3>1, <3>3 DEF SlotsInStep
    <3> QED BY <3>2, <3>3
  <2>2. \A t, u \in Slots :
          slot'[t].stage # "idle" /\ slot'[u].stage # "idle" /\ t # u => slot'[t].height # slot'[u].height
    BY <1>1, <1>4 DEF SlotsInStep
  <2> QED BY <2>1, <2>2 DEF SlotsInStep
<1>7. ProcessedBelow'
  BY <1>1, <1>2, <1>4 DEF ProcessedBelow
<1>8. NeverFarAhead'
  <2> SUFFICES ASSUME NEW t \in Slots, slot'[t].stage # "idle"
               PROVE  \E f \in Endpoints : IF slot'[t].stage = "fetched" THEN slot'[t].height <= closed[f]
                                                                          ELSE slot'[t].height <= closed[f] + 1
    BY <1>2 DEF NeverFarAhead
  <2>1. CASE t = s
    BY <1>1, <1>3, <2>1 DEF NeverFarAhead
  <2>2. CASE t # s
    BY <1>1, <1>3, <2>2 DEF NeverFarAhead
  <2> QED BY <2>1, <2>2
<1>9. HeightsAreClosed' /\ IndexedInOrder' /\ NoFork'
  BY <1>2 DEF IInv, HeightsAreClosed, IndexedInOrder, NoFork
<1> QED BY <1>5, <1>6, <1>7, <1>8, <1>9 DEF IInv

\* The four outcomes and the beginning of a request.
LEMMA FetchStepsKeep ==
    ASSUME IInv, NEW s \in Slots,
           \/ Ask(s) \/ FetchSucceeds(s) \/ FetchNotFound(s)
           \/ \E message \in Messages : FetchFails(s, message)
    PROVE  IInv'
<1>1. TypeOK /\ SlotsInStep
  BY DEF IInv
<1>2. ASSUME NEW e \in Endpoints, FetchBlock(s, e) PROVE IInv'
  <2>1. lost' \subseteq Endpoints
    BY <1>1, <1>2 DEF FetchBlock, TypeOK
  <2> QED BY <1>2, <2>1, FetchKeeps DEF FetchBlock
<1>3. ASSUME FetchSucceeds(s) PROVE IInv'
  <2>1. lost' \subseteq Endpoints
    BY <1>1, <1>3 DEF FetchSucceeds, TypeOK
  <2>2. slot[s].endpoint \in Endpoints /\ slot[s].height >= 1 /\ slot[s].height \in Int
    BY <1>1, <1>3 DEF FetchSucceeds, SlotsInStep, TypeOK
  <2>3. slot[s].height <= closed[slot[s].endpoint] /\ closed[slot[s].endpoint] \in 0..LastLedger
    BY <1>1, <1>3, <2>2 DEF FetchSucceeds, TypeOK
  <2>4. slot[s].height \in Ledgers /\ slot[s].height <= LastLedger
    BY <2>2, <2>3, ChainType DEF Ledgers
  <2>5. StellarBlockToHeader(slot[s].height) \in Headers
    BY <2>4, HeaderFacts
  <2>6. /\ slot' = [slot EXCEPT ![s] = Fetch("fetched", slot[s].height, NoEndpoint,
                                             StellarBlockToHeader(slot[s].height))]
        /\ slot[s].stage # "idle"
        /\ UNCHANGED <<closed, fixed, heads, nextHeight, processed, forked>>
    BY <1>3 DEF FetchSucceeds
  <2> QED BY <2>1, <2>2, <2>3, <2>4, <2>5, <2>6, FetchKeeps
<1>4. ASSUME NEW message, slot[s].stage = "asked", Reject(s, message) PROVE IInv'
  <2>1. slot[s].endpoint \in Endpoints
    BY <1>1, <1>4 DEF SlotsInStep
  <2>2. lost' \subseteq Endpoints
    BY <1>1, <1>4, <2>1 DEF Reject, TypeOK
  <2>3. /\ slot' = [slot EXCEPT ![s] = Fetch("queued", slot[s].height, NoEndpoint, NoHeader)]
        /\ UNCHANGED <<closed, fixed, heads, nextHeight, processed, forked>>
    BY <1>4 DEF Reject
  <2> QED BY <1>4, <2>2, <2>3, FetchKeeps
<1> QED BY <1>2, <1>3, <1>4 DEF Ask, FetchNotFound, FetchFails

\* What is indexed is above what was indexed and below what is still being fetched.
LEMMA IndexBlockKeeps ==
    ASSUME IInv, NEW s \in Slots, IndexBlock(s)
    PROVE  IInv'
<1> USE DEF fixed, heads, fetching
<1>1. TypeOK /\ HeightsAreClosed /\ SlotsInStep /\ ProcessedBelow /\ NeverFarAhead /\ IndexedInOrder /\ NoFork
  BY DEF IInv
<1> DEFINE h == slot[s].height
           header == StellarBlockToHeader(h)
<1>2. /\ closed' = closed /\ finalized' = finalized /\ bestHeight' = bestHeight /\ polls' = polls
      /\ nextHeight' = nextHeight /\ lost' = lost
      /\ unfinalizedBlocks' = unfinalizedBlocks /\ restarts' = restarts
  BY DEF IndexBlock
<1>3. h \in 1..(nextHeight - 1) /\ h <= LastLedger /\ slot[s].header = header
  BY <1>1 DEF IndexBlock, SlotsInStep
<1>4. nextHeight \in Int /\ h \in Int /\ h \in Ledgers /\ h < nextHeight
  BY <1>1, <1>3, ChainType DEF TypeOK, Ledgers
<1>5. header \in Headers /\ header.blockHeight = h
  BY <1>4, HeaderFacts
<1>6. slot'[s].stage = "idle" /\ \A t \in Slots : t # s => slot'[t] = slot[t]
  BY <1>1 DEF IndexBlock, TypeOK, Idle, Fetch
<1>7. processed \in Seq(Headers) /\ processed' = Append(processed, header)
  BY <1>1, <1>3 DEF IndexBlock, TypeOK
<1>8. /\ processed' \in Seq(Headers)
      /\ DOMAIN processed' = 1..Len(processed) + 1 /\ DOMAIN processed = 1..Len(processed)
      /\ processed'[Len(processed) + 1] = header
      /\ \A i \in DOMAIN processed : processed'[i] = processed[i]
  BY <1>5, <1>7
<1> HIDE DEF header
<1>9. \A i \in DOMAIN processed : processed[i].blockHeight \in Int /\ processed[i].blockHeight < h
  <2> SUFFICES ASSUME NEW i \in DOMAIN processed
               PROVE  processed[i].blockHeight \in Int /\ processed[i].blockHeight < h
    OBVIOUS
  <2>1. processed[i] \in Headers
    BY <1>7
  <2>2. processed[i].blockHeight \in Int
    BY <2>1, HeaderHeights, ChainType DEF Ledgers
  <2> QED BY <1>1, <2>2 DEF ProcessedBelow, IndexBlock
<1>10. \A t \in Slots : t # s /\ slot[t].stage # "idle" => h < slot[t].height
  <2> SUFFICES ASSUME NEW t \in Slots, t # s, slot[t].stage # "idle" PROVE h < slot[t].height
    OBVIOUS
  <2>1. h <= slot[t].height /\ slot[s].stage # "idle"
    BY DEF IndexBlock
  <2>2. h # slot[t].height
    BY <1>1, <2>1 DEF SlotsInStep
  <2>3. slot[t].height \in Int
    BY <1>1, ChainType DEF TypeOK
  <2> QED BY <1>4, <2>1, <2>2, <2>3
<1>11. ~forked'
  BY <1>1, <1>3, <1>5, <1>7, NothingForks DEF IndexBlock, NoFork
<1>12. TypeOK'
  <2>1. slot' = [slot EXCEPT ![s] = [stage |-> "idle", height |-> 0, endpoint |-> NoEndpoint, header |-> NoHeader]]
    BY DEF IndexBlock, Idle, Fetch, None
  <2>2. slot' \in [Slots -> [stage : {"idle", "queued", "asked", "fetched"}, height : 0..LastLedger + 1,
                            endpoint : Endpoints \union {NoEndpoint}, header : Headers \union {NoHeader}]]
    BY <1>1, <2>1, ChainType DEF TypeOK
  <2>3. forked' \in BOOLEAN
    BY DEF IndexBlock
  <2> QED BY <1>1, <1>2, <1>8, <2>2, <2>3 DEF TypeOK
<1>13. SlotsInStep'
  BY <1>1, <1>2, <1>6 DEF SlotsInStep
<1>14. ProcessedBelow'
  <2> SUFFICES ASSUME NEW i \in DOMAIN processed'
               PROVE  /\ processed'[i].blockHeight < nextHeight
                      /\ \A t \in Slots : slot'[t].stage # "idle" => processed'[i].blockHeight < slot'[t].height
    BY <1>2 DEF ProcessedBelow
  <2>1. CASE i \in DOMAIN processed
    BY <1>1, <1>6, <1>8, <2>1 DEF ProcessedBelow
  <2>2. CASE i = Len(processed) + 1
    BY <1>4, <1>5, <1>6, <1>8, <1>10, <2>2
  <2> QED BY <1>8, <2>1, <2>2
<1>15. IndexedInOrder'
  <2> SUFFICES ASSUME NEW i \in DOMAIN processed', NEW j \in DOMAIN processed', i < j
               PROVE  processed'[i].blockHeight < processed'[j].blockHeight
    BY DEF IndexedInOrder
  <2>1. Len(processed) \in Nat
    BY <1>7
  <2>2. CASE j \in DOMAIN processed
    <3>1. i \in DOMAIN processed
      BY <1>8, <2>1, <2>2
    <3> QED BY <1>1, <1>8, <2>2, <3>1 DEF IndexedInOrder
  <2>3. CASE j = Len(processed) + 1
    <3>1. i \in DOMAIN processed
      BY <1>8, <2>1, <2>3
    <3> QED BY <1>5, <1>8, <1>9, <2>3, <3>1
  <2> QED BY <1>8, <2>1, <2>2, <2>3
<1>16. NeverFarAhead'
  BY <1>1, <1>2, <1>6 DEF NeverFarAhead
<1>17. HeightsAreClosed' /\ NoFork'
  BY <1>1, <1>2, <1>11 DEF HeightsAreClosed, NoFork
<1> QED BY <1>12, <1>13, <1>14, <1>15, <1>16, <1>17 DEF IInv

\* A new start begins above what has been indexed.
LEMMA RestartKeeps ==
    ASSUME IInv, Restart
    PROVE  IInv'
<1>1. TypeOK /\ ProcessedBelow /\ IndexedInOrder /\ NoFork
  BY DEF IInv
<1>2. /\ closed' = closed /\ unfinalizedBlocks' = unfinalizedBlocks /\ processed' = processed /\ forked' = forked
      /\ finalized' = NoHeader /\ bestHeight' = 0 /\ lost' = {}
      /\ polls' = [k \in Polls |-> 0] /\ restarts' = restarts + 1 /\ restarts < MaxRestarts
      /\ slot' = [s \in Slots |-> [stage |-> "idle", height |-> 0, endpoint |-> NoEndpoint, header |-> NoHeader]]
  BY DEF Restart, Idle, Fetch, None
<1>3. nextHeight' = IF processed = <<>> THEN 1 ELSE processed[Len(processed)].blockHeight + 1
  BY DEF Restart
<1>4. processed \in Seq(Headers) /\ Len(processed) \in Nat /\ DOMAIN processed = 1..Len(processed)
  BY <1>1 DEF TypeOK
<1>5. \A i \in DOMAIN processed : processed[i].blockHeight \in Ledgers
  BY <1>4, HeaderHeights
<1>6. nextHeight' \in 1..LastLedger + 2 /\ \A i \in DOMAIN processed : processed[i].blockHeight < nextHeight'
  <2>1. CASE processed = <<>>
    BY <1>3, <1>4, <2>1, ChainType
  <2>2. CASE processed # <<>>
    <3> DEFINE n == Len(processed)
    <3>1. n \in DOMAIN processed
      BY <1>4, <2>2
    <3>2. processed[n].blockHeight \in 1..LastLedger
      BY <1>5, <3>1 DEF Ledgers
    <3>3. \A i \in DOMAIN processed : processed[i].blockHeight <= processed[n].blockHeight
      <4> SUFFICES ASSUME NEW i \in DOMAIN processed PROVE processed[i].blockHeight <= processed[n].blockHeight
        OBVIOUS
      <4>1. CASE i = n
        BY <3>2, <4>1, ChainType
      <4>2. CASE i # n
        <5>1. i < n
          BY <1>4, <4>2
        <5>2. processed[i].blockHeight < processed[n].blockHeight
          BY <1>1, <3>1, <5>1 DEF IndexedInOrder
        <5> QED BY <1>5, <3>2, <5>2, ChainType DEF Ledgers
      <4> QED BY <4>1, <4>2
    <3>4. nextHeight' = processed[n].blockHeight + 1
      BY <1>3, <2>2
    <3> QED BY <1>5, <3>2, <3>3, <3>4, ChainType DEF Ledgers
  <2> QED BY <2>1, <2>2
<1>7. TypeOK'
  BY <1>1, <1>2, <1>6, ChainType, RestartsType DEF TypeOK
<1>8. HeightsAreClosed' /\ SlotsInStep' /\ NeverFarAhead'
  BY <1>2 DEF HeightsAreClosed, SlotsInStep, NeverFarAhead, None
<1>9. ProcessedBelow'
  BY <1>2, <1>6 DEF ProcessedBelow
<1>10. IndexedInOrder' /\ NoFork'
  BY <1>1, <1>2 DEF IndexedInOrder, NoFork
<1> QED BY <1>7, <1>8, <1>9, <1>10 DEF IInv

-----------------------------------------------------------------------------
(* The theorems. *)

LEMMA StepIInv == IInv /\ [Next]_vars => IInv'
<1> SUFFICES ASSUME IInv, [Next]_vars PROVE IInv'
  OBVIOUS
<1>1. CASE UNCHANGED vars
  BY <1>1 DEF vars, fixed, heads, fetching, IInv, TypeOK, HeightsAreClosed, SlotsInStep, ProcessedBelow,
              NeverFarAhead, IndexedInOrder, NoFork
<1>2. ASSUME NEW e \in Endpoints, CloseLedger(e) PROVE IInv'
  BY <1>2, CloseLedgerKeeps
<1>3. CASE (\E k \in Polls : Poll(k) \/ PollFails(k)) \/ GetFinalizedHeader \/ GetBestHeight
  BY <1>3, PollsKeep
<1>4. CASE HandOut
  BY <1>4, EnqueueKeeps DEF HandOut
<1>5. ASSUME NEW s \in Slots,
             \/ Ask(s) \/ FetchSucceeds(s) \/ FetchNotFound(s)
             \/ \E message \in Messages : FetchFails(s, message)
      PROVE  IInv'
  BY <1>5, FetchStepsKeep
<1>6. ASSUME NEW s \in Slots, IndexBlock(s) PROVE IInv'
  BY <1>6, IndexBlockKeeps
<1>7. CASE Restart
  BY <1>7, RestartKeeps
<1> QED BY <1>1, <1>2, <1>3, <1>4, <1>5, <1>6, <1>7 DEF Next

\* The inductive invariant.
THEOREM InvariantHolds == Spec => []IInv
BY InitIInv, StepIInv, PTL DEF Spec

\* Every variable of the follower keeps its type.
THEOREM TypeCorrect == Spec => []TypeOK
<1>1. IInv => TypeOK
  BY DEF IInv
<1> QED BY <1>1, InvariantHolds, PTL

\* Heights in the place of hashes never make node-core see a fork, however many
\* servers there are, however far they lag and however often the node is restarted.
THEOREM NoRewinds == Spec => []NoFork
<1>1. IInv => NoFork
  BY DEF IInv
<1> QED BY <1>1, InvariantHolds, PTL

\* At most the ledger after the newest one is asked for.
THEOREM OneAheadAtMost == Spec => []NeverFarAhead
<1>1. IInv => NeverFarAhead
  BY DEF IInv
<1> QED BY <1>1, InvariantHolds, PTL

\* No block is indexed twice or after a later one, restarts included.
THEOREM OnceAndInOrder == Spec => []IndexedInOrder
<1>1. IInv => IndexedInOrder
  BY DEF IInv
<1> QED BY <1>1, InvariantHolds, PTL

=============================================================================
