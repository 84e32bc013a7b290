------------------------ MODULE SorobanServerProofs ------------------------
(***************************************************************************)
(* Proofs about SorobanServer, for every chain, every set of callers and   *)
(* every page size; and, in the last parts, about FetchSoroban: putting    *)
(* the client as it is in the place of EventSource changes nothing a fetch *)
(* can observe, for every batch and any number of attempts, so that what   *)
(* BlockFetchProofs shows of the fetch holds there too.  The assumptions   *)
(* of FetchSoroban are used there only.                                    *)
(***************************************************************************)
EXTENDS FetchSoroban, FiniteSetTheorems, TLAPS

-----------------------------------------------------------------------------
(* Type correctness, one lemma per step that needs an argument. *)

LEMMA EventsArePositive == \A e \in Events : e \in Nat /\ e # None
BY ChainSize DEF Events, None

LEMMA BagTypes ==
    /\ Nothing \in Bags
    /\ \A bag \in Bags : \A S : Added(bag, S) \in Bags
BY DEF Bags, Nothing, Added, Many

LEMMA PageTypes ==
    ASSUME NEW c \in Callers, NEW S \in SUBSET Events, NEW p \in Page(c, S)
    PROVE  p \in [events : SUBSET Events, cursor : Events \union {None}]
<1>1. CASE S = {}
  BY <1>1 DEF Page, NoReply
<1>2. CASE S # {}
  <2>1. PICK e \in S : p = [events |-> {d \in S : d <= e}, cursor |-> e]
    BY <1>2 DEF Page
  <2> QED BY <2>1
<1> QED BY <1>1, <1>2

\* Every variable keeps its type, in every step of every caller.
THEOREM TypeCorrect == Spec => []TypeOK
<1>1. Init => TypeOK
  BY ChainSize, BagTypes DEF Init, TypeOK, Stages, NoRequest, NoReply, None
<1>2. TypeOK /\ [Next]_vars => TypeOK'
  <2> SUFFICES ASSUME TypeOK, [Next]_vars PROVE TypeOK'
    OBVIOUS
  <2> USE DEF TypeOK
  <2>1. CASE CloseLedger
    BY <2>1, ChainSize DEF CloseLedger
  <2>2. ASSUME NEW c \in Callers, RpcReply(c) PROVE TypeOK'
    <3>1. Matching(c) \in SUBSET Events
      BY DEF Matching, Requested
    <3>2. reply' \in [Callers -> [events : SUBSET Events, cursor : Events \union {None}]]
      BY <2>2, <3>1, PageTypes DEF RpcReply
    <3>3. pc' \in [Callers -> Stages]
      BY <2>2 DEF RpcReply, Stages
    <3> QED BY <2>2, <3>2, <3>3 DEF RpcReply
  <2>3. ASSUME NEW c \in Callers, RpcFail(c) PROVE TypeOK'
    BY <2>3, ChainSize, BagTypes DEF RpcFail, Stages, NoRequest, None
  <2>4. ASSUME NEW c \in Callers, NEW s \in Ledgers, NEW f \in SUBSET Events, AskCached(c, s, f)
        PROVE  TypeOK'
    <3>1. cache' \in Bags /\ acc' \in [Callers -> Bags]
      BY <2>4 DEF AskCached, Bags, Many
    <3> QED BY <2>4, <3>1 DEF AskCached, Stages
  <2>5. ASSUME NEW c \in Callers, NEW s \in Ledgers, NEW end \in Ends \union {None},
               NEW f \in SUBSET Events, AskServer(c, s, end, f)
        PROVE  TypeOK'
    <3>1. (IF end = None THEN s + 1 ELSE end) \in 0..LastLedger + 1
      BY ChainSize, EndsType DEF Ledgers, None
    <3>2. req' \in [Callers -> [startLedger : Ledgers \union {None},
                                endLedger   : 0..LastLedger + 1,
                                cursor      : Events \union {None}]]
      BY <2>5, <3>1 DEF AskServer
    <3> QED BY <2>5, <3>2 DEF AskServer, Stages
  <2>6. ASSUME NEW c \in Callers, AskWithoutSequence(c) PROVE TypeOK'
    BY <2>6 DEF AskWithoutSequence, Stages
  <2>7. ASSUME NEW c \in Callers, LastPage(c) PROVE TypeOK'
    <3>1. acc' \in [Callers -> Bags]
      BY <2>7, BagTypes DEF LastPage, NewEvents
    <3>2. toCache' \in [Callers -> SUBSET Events]
      BY <2>7 DEF LastPage, EventsToCache, OfOthers
    <3>3. req' \in [Callers -> [startLedger : Ledgers \union {None},
                                endLedger   : 0..LastLedger + 1,
                                cursor      : Events \union {None}]]
      BY <2>7, ChainSize DEF LastPage, NoRequest, None
    <3> QED BY <2>7, <3>1, <3>2, <3>3 DEF LastPage, Stages, NoReply
  <2>8. ASSUME NEW c \in Callers, NextPage(c) PROVE TypeOK'
    <3>1. acc' \in [Callers -> Bags]
      BY <2>8, BagTypes DEF NextPage, NewEvents
    <3>2. req' \in [Callers -> [startLedger : Ledgers \union {None},
                                endLedger   : 0..LastLedger + 1,
                                cursor      : Events \union {None}]]
      BY <2>8, ChainSize DEF NextPage, NextRequest, None
    <3> QED BY <2>8, <3>1, <3>2 DEF NextPage, Stages, NoReply
  <2>9. ASSUME NEW c \in Callers, UpdateEventCache(c) PROVE TypeOK'
    BY <2>9, BagTypes DEF UpdateEventCache, Stages
  <2>10. ASSUME NEW c \in Callers, Return(c) PROVE TypeOK'
    BY <2>10, BagTypes DEF Return, Stages
  <2>11. CASE UNCHANGED vars
    BY <2>11 DEF vars
  <2>12. ASSUME NEW c \in Fetchers, FetcherAsks(c) PROVE TypeOK'
    BY <2>4, <2>5, <2>12 DEF FetcherAsks, Callers
  <2>13. ASSUME NEW c \in Sandboxes, SandboxAsks(c) PROVE TypeOK'
    BY <2>4, <2>5, <2>6, <2>13, FiltersType DEF SandboxAsks, Callers
  <2> QED
    BY <2>1, <2>2, <2>3, <2>7, <2>8, <2>9, <2>10, <2>11, <2>12, <2>13 DEF Next, Rpc, Loop
<1> QED BY <1>1, <1>2, PTL DEF Spec

-----------------------------------------------------------------------------
(* The cache and the answers. *)

\* No page is cut shorter than the call asked for.
ServerKeepsLimit == \A c \in Callers : PageLimit[c] <= ServerLimit

\* No handler restricts the events it asks for.
NobodyFilters == \A f \in Filters : f = Events

LEMMA EventOrder ==
    \A d, e \in Events : /\ LedgerOf[e] \in Nat /\ LedgerOf[e] # 0
                         /\ LedgerOf[d] < LedgerOf[e] => d < e
BY LedgerOfType, LedgerOfGrows DEF Events, Ledgers

\* A page is a beginning of the events it is taken from, all of them if it is short.
LEMMA PageIsPrefix ==
    ASSUME NEW c \in Callers, NEW S \in SUBSET Events, NEW p \in Page(c, S), ServerKeepsLimit
    PROVE  /\ p.events \subseteq S
           /\ p.events = {} => S = {}
           /\ S # {} => /\ p.cursor \in p.events
                        /\ p.events = {d \in S : d <= p.cursor}
           /\ Cardinality(p.events) # PageLimit[c] => p.events = S
<1>1. CASE S = {}
  BY <1>1 DEF Page, NoReply
<1>2. CASE S # {}
  <2>1. PICK e \in S : p = [events |-> {d \in S : d <= e}, cursor |-> e]
    BY <1>2 DEF Page
  <2>2. IsFiniteSet(S)
    <3>1. IsFiniteSet(Events)
      BY FS_Interval, ChainSize DEF Events
    <3> QED BY <3>1, FS_Subset
  <2>3. Cardinality(p.events) = IF Cardinality(S) < PageLimit[c] THEN Cardinality(S) ELSE PageLimit[c]
    <3>1. (IF ServerLimit < PageLimit[c] THEN ServerLimit ELSE PageLimit[c]) = PageLimit[c]
      BY LimitsPositive DEF ServerKeepsLimit
    <3> QED BY <1>2, <3>1 DEF Page
  <2>4. Cardinality(p.events) = Cardinality(S) => p.events = S
    <3>1. p.events \subseteq S
      BY <2>1
    <3> QED BY <2>2, <3>1, FS_Subset
  <2>5. e \in p.events /\ p.cursor = e
    BY <2>1 DEF Events
  <2> QED BY <1>2, <2>1, <2>3, <2>4, <2>5
<1> QED BY <1>1, <1>2

\* A step that leaves a caller alone keeps its part of the invariant, also if the
\* server has ingested a ledger.
LEMMA CallFrame ==
    ASSUME TypeOK, NEW c \in Callers, CallInv(c), newest' \in Nat, newest <= newest',
           pc'[c] = pc[c], seq'[c] = seq[c], req'[c] = req[c], filter'[c] = filter[c],
           acc'[c] = acc[c], reply'[c] = reply[c], toCache'[c] = toCache[c]
    PROVE  CallInv(c)'
<1> USE EventOrder DEF TypeOK
<1>1. AccUpToCursor(c) => AccUpToCursor(c)'
  BY DEF AccUpToCursor, Ledgers, None
<1>2. PageGapless(c) => PageGapless(c)'
  <2>1. \A e \in reply[c].events : LedgerOf[e] \in Nat
    OBVIOUS
  <2>2. seq[c] \in Nat /\ newest \in Nat
    BY ChainSize DEF Ledgers, None
  <2> HIDE DEF TypeOK
  <2> QED BY <2>1, <2>2 DEF PageGapless
<1>3. Answered(c) => Answered(c)'
  BY DEF Answered, Ledgers
<1>4. WholeLedgers(c) => WholeLedgers(c)'
  BY DEF WholeLedgers
<1> QED BY <1>1, <1>2, <1>3, <1>4 DEF CallInv

LEMMA CacheFrame ==
    ASSUME TypeOK, CacheInv, newest' \in Nat, newest <= newest', cache' = cache
    PROVE  CacheInv'
BY EventOrder DEF TypeOK, CacheInv, Whole

\* What was requested begins right behind the accumulated events and goes on with
\* whole ledgers.
LEMMA RequestGoesOn ==
    ASSUME TypeOK, NEW c \in Callers, AccUpToCursor(c), PageGapless(c), NEW e \in Events
    PROVE  /\ LedgerOf[e] = seq[c] => (e \in Requested(req[c]) <=> ~(e <= req[c].cursor))
           /\ e \in Requested(req[c]) => seq[c] <= LedgerOf[e]
           /\ e \in Requested(req[c]) /\ LedgerOf[e] # seq[c] =>
                 \A d \in Events : LedgerOf[d] = LedgerOf[e] => d \in Requested(req[c])
<1> DEFINE r == req[c]
<1>1. /\ r.startLedger \in Nat /\ r.endLedger \in Nat /\ r.cursor \in Nat
      /\ seq[c] \in Nat /\ e \in Nat /\ e # 0
      /\ r.cursor # None => r.cursor \in Events
  BY ChainSize DEF TypeOK, Ledgers, Events, None
<1>2. CASE r.cursor = None
  <2>1. r.startLedger = seq[c] /\ seq[c] < r.endLedger
    BY <1>2 DEF AccUpToCursor, PageGapless
  <2> QED BY <1>1, <1>2, <2>1, EventOrder DEF Requested, None
<1>3. CASE r.cursor # None
  <2>1. LedgerOf[r.cursor] = seq[c]
    BY <1>3 DEF AccUpToCursor
  <2>2. r.cursor < e => seq[c] <= LedgerOf[e]
    BY <1>1, <1>3, <2>1, LedgerOfGrows
  <2>3. ASSUME r.cursor < e, LedgerOf[e] # seq[c], NEW d \in Events, LedgerOf[d] = LedgerOf[e]
        PROVE  r.cursor < d
    BY <1>1, <1>3, <2>1, <2>2, <2>3, EventOrder
  <2> QED BY <1>1, <1>3, <2>2, <2>3 DEF Requested
<1> QED BY <1>2, <1>3

LEMMA ReplyKeepsInv ==
    ASSUME TypeOK, NEW c \in Callers, CallInv(c), RpcReply(c), ServerKeepsLimit
    PROVE  CallInv(c)'
<1> DEFINE want == Requested(req[c])
<1>1. PICK p \in Page(c, Matching(c)) : reply' = [reply EXCEPT ![c] = p]
  BY DEF RpcReply
<1>2. reply'[c] = p /\ UNCHANGED <<newest, seq, req, acc, filter>> /\ pc'[c] = "replied"
  BY <1>1 DEF RpcReply, TypeOK
<1>3. AccUpToCursor(c)
  BY DEF CallInv, RpcReply
<1>4. AccUpToCursor(c)'
  BY <1>2, <1>3 DEF AccUpToCursor
<1>5. Matching(c) = {e \in want : LedgerOf[e] <= newest} /\ want \subseteq Events
  BY DEF Matching, CallInv, Requested
<1>6. seq[c] <= newest /\ (req[c].cursor = None => req[c].startLedger < req[c].endLedger)
  BY <1>3 DEF RpcReply, Acceptable, AccUpToCursor
<1>7. /\ p.events \subseteq Matching(c)
      /\ p.events = {} => Matching(c) = {}
      /\ p.events # {} => /\ p.cursor \in p.events
                          /\ p.events = {d \in Matching(c) : d <= p.cursor}
      /\ Cardinality(p.events) # PageLimit[c] => p.events = Matching(c)
  BY <1>5, PageIsPrefix
<1>8. \A e \in want : e <= p.cursor /\ p.events # {} => e \in p.events
  <2> SUFFICES ASSUME NEW e \in want, e <= p.cursor, p.events # {}
               PROVE  LedgerOf[e] <= newest
    BY <1>5, <1>7
  <2>1. p.cursor \in Events /\ LedgerOf[p.cursor] <= newest
    BY <1>5, <1>7
  <2>2. LedgerOf[e] <= LedgerOf[p.cursor]
    BY <1>5, <2>1, LedgerOfGrows
  <2> QED BY <1>5, <2>1, <2>2, EventOrder DEF TypeOK
<1>9. \A e \in p.events : LedgerOf[e] <= newest /\ e <= p.cursor
  BY <1>5, <1>7
<1>10. p.events = {} => \A e \in want : LedgerOf[e] # seq[c]
  BY <1>5, <1>6, <1>7
<1>11. Cardinality(p.events) # PageLimit[c] =>
          \A e \in p.events, d \in want : LedgerOf[d] = LedgerOf[e] => d \in p.events
  BY <1>5, <1>7
<1>12. PageGapless(c)'
  <2>1. Requested(req[c])' = want
    BY <1>2
  <2> QED BY <1>2, <1>5, <1>6, <1>7, <1>8, <1>9, <1>10, <1>11, <2>1 DEF PageGapless
<1> QED BY <1>2, <1>4, <1>12 DEF CallInv

LEMMA NextPageKeepsInv ==
    ASSUME TypeOK, NEW c \in Callers, CallInv(c), NextPage(c)
    PROVE  CallInv(c)'
<1> DEFINE page == reply[c].events
           last == reply[c].cursor
<1>1. AccUpToCursor(c) /\ PageGapless(c) /\ filter[c] = Events
  BY DEF CallInv, NextPage
<1>2. page # {} /\ \A e \in page : LedgerOf[e] = seq[c]
  BY DEF NextPage, OfOthers, OfSequence
<1>3. last \in page /\ page \subseteq Events
  BY <1>1, <1>2 DEF PageGapless, TypeOK
<1>4. /\ UNCHANGED <<newest, seq, filter>> /\ pc'[c] = "waiting"
      /\ acc'[c] = NewEvents(c) /\ req'[c] = NextRequest(c)
  BY DEF NextPage, TypeOK
<1>5. req'[c].cursor = last
  BY <1>4 DEF NextRequest
<1>6. ASSUME NEW e \in Events
      PROVE  acc'[c][e] = IF LedgerOf[e] = seq[c] /\ e <= last THEN 1 ELSE 0
  <2>1. acc'[c][e] = IF e \in page /\ acc[c][e] < Many THEN acc[c][e] + 1 ELSE acc[c][e]
    BY <1>2, <1>4, <1>3 DEF NewEvents, Added, OfSequence
  <2>2. acc[c][e] = IF LedgerOf[e] = seq[c] /\ e <= req[c].cursor THEN 1 ELSE 0
    BY <1>1 DEF AccUpToCursor
  <2>3. e \in page => e <= last /\ LedgerOf[e] = seq[c] /\ ~(e <= req[c].cursor)
    BY <1>1, <1>2, RequestGoesOn DEF PageGapless
  <2>4. LedgerOf[e] = seq[c] /\ e <= last => e \in page \/ e <= req[c].cursor
    BY <1>1, <1>2, RequestGoesOn DEF PageGapless
  <2>5. e <= req[c].cursor => e <= last
    <3>1. ~(last <= req[c].cursor)
      BY <1>1, <1>2, <1>3, RequestGoesOn DEF PageGapless
    <3>2. last \in Int /\ e \in Int /\ req[c].cursor \in Int
      BY <1>3 DEF TypeOK, Events, None
    <3> QED BY <3>1, <3>2
  <2> QED BY <2>1, <2>2, <2>3, <2>4, <2>5 DEF Many
<1>7. LedgerOf[last] = seq[c] /\ last # None /\ seq[c] <= newest /\ seq[c] \in Ledgers
  BY <1>1, <1>2, <1>3, EventsArePositive DEF PageGapless, AccUpToCursor
<1>8. AccUpToCursor(c)'
  BY <1>4, <1>5, <1>6, <1>7 DEF AccUpToCursor
<1> QED BY <1>1, <1>4, <1>8 DEF CallInv

\* The heart of the matter: a page that runs past the ledger, or is empty, completes
\* the ledger, and what goes to the cache is whole ledgers.
LEMMA LastPageKeepsInv ==
    ASSUME TypeOK, NEW c \in Callers, CallInv(c), LastPage(c)
    PROVE  CallInv(c)'
<1> DEFINE page == reply[c].events
           last == reply[c].cursor
           want == Requested(req[c])
<1>1. AccUpToCursor(c) /\ PageGapless(c) /\ filter[c] = Events
  BY DEF CallInv, LastPage
<1>2. page \subseteq want /\ want \subseteq Events
  BY <1>1 DEF PageGapless, Requested
<1>3. /\ UNCHANGED <<newest, seq, filter>> /\ pc'[c] = "collected"
      /\ acc'[c] = NewEvents(c) /\ toCache'[c] = EventsToCache(c)
  BY DEF LastPage, TypeOK
<1>4. OfOthers(c) # {} \/ page = {}
  BY DEF LastPage
<1>5. ASSUME NEW e \in Events, LedgerOf[e] = seq[c], e \in want PROVE e \in page
  <2>1. CASE page = {}
    BY <1>1, <1>5, <2>1 DEF PageGapless
  <2>2. CASE page # {}
    <3>1. PICK x \in page : LedgerOf[x] # seq[c]
      BY <1>4, <2>2 DEF OfOthers, OfSequence
    <3>2. seq[c] < LedgerOf[x]
      <4>1. x \in Events /\ x \in want
        BY <1>2, <3>1
      <4>2. seq[c] <= LedgerOf[x]
        BY <1>1, <4>1, RequestGoesOn
      <4>3. seq[c] \in Nat /\ LedgerOf[x] \in Nat
        BY <4>1, EventOrder DEF TypeOK, Ledgers, None
      <4> QED BY <3>1, <4>2, <4>3
    <3>3. e < x /\ x <= last /\ last \in page
      BY <1>1, <1>2, <1>5, <2>2, <3>1, <3>2, EventOrder DEF PageGapless
    <3>4. e <= last
      BY <1>2, <3>3 DEF Events
    <3> QED BY <1>1, <1>5, <2>2, <3>4 DEF PageGapless
  <2> QED BY <2>1, <2>2
<1>6. ASSUME NEW e \in Events
      PROVE  acc'[c][e] = IF LedgerOf[e] = seq[c] THEN 1 ELSE 0
  <2>1. acc'[c][e] = IF e \in page /\ LedgerOf[e] = seq[c] /\ acc[c][e] < Many
                     THEN acc[c][e] + 1 ELSE acc[c][e]
    BY <1>3, <1>2 DEF NewEvents, Added, OfSequence
  <2>2. acc[c][e] = IF LedgerOf[e] = seq[c] /\ e <= req[c].cursor THEN 1 ELSE 0
    BY <1>1 DEF AccUpToCursor
  <2>3. LedgerOf[e] = seq[c] => (e \in page <=> ~(e <= req[c].cursor))
    BY <1>1, <1>2, <1>5, RequestGoesOn
  <2> QED BY <2>1, <2>2, <2>3 DEF Many
<1>7. Answered(c)'
  BY <1>1, <1>3, <1>6 DEF Answered, AccUpToCursor, PageGapless
<1>8. ASSUME NEW e \in EventsToCache(c)
      PROVE  /\ LedgerOf[e] <= newest
             /\ \A d \in Events : LedgerOf[d] = LedgerOf[e] => d \in EventsToCache(c)
  <2>1. e \in page /\ e \in Events /\ LedgerOf[e] # seq[c]
    BY <1>2, <1>8 DEF EventsToCache, OfOthers, OfSequence
  <2>2. LedgerOf[e] <= newest /\ e <= last /\ last \in page
    BY <1>1, <2>1 DEF PageGapless
  <2>3. ASSUME NEW d \in Events, LedgerOf[d] = LedgerOf[e] PROVE d \in EventsToCache(c)
    <3>1. d \in want
      BY <1>1, <1>2, <2>1, <2>3, RequestGoesOn
    <3>2. d \in page
      <4>1. CASE Cardinality(page) = PageLimit[c]
        <5>1. LedgerOf[e] # LedgerOf[last]
          BY <1>8, <4>1 DEF EventsToCache
        <5>2. LedgerOf[e] <= LedgerOf[last]
          BY <1>2, <2>1, <2>2, LedgerOfGrows
        <5>3. d < last
          BY <1>2, <2>1, <2>2, <2>3, <5>1, <5>2, EventOrder
        <5>4. d <= last
          BY <1>2, <2>2, <5>3 DEF Events
        <5> QED BY <1>1, <2>1, <3>1, <5>4 DEF PageGapless
      <4>2. CASE Cardinality(page) # PageLimit[c]
        BY <1>1, <2>1, <2>3, <3>1, <4>2 DEF PageGapless
      <4> QED BY <4>1, <4>2
    <3> QED BY <1>8, <2>1, <2>3, <3>2 DEF EventsToCache, OfOthers, OfSequence
  <2> QED BY <2>2, <2>3
<1>9. WholeLedgers(c)'
  BY <1>3, <1>8 DEF WholeLedgers
<1> QED BY <1>1, <1>3, <1>7, <1>9 DEF CallInv

LEMMA UpdateKeepsInv ==
    ASSUME TypeOK, CacheInv, NEW c \in Callers, CallInv(c), UpdateEventCache(c)
    PROVE  CacheInv' /\ CallInv(c)'
<1>1. WholeLedgers(c) /\ Answered(c)
  BY DEF CallInv, UpdateEventCache
<1>2. \A e \in Events : cache'[e] = IF e \in Uncached(c) THEN 1 ELSE cache[e]
  BY DEF UpdateEventCache, Added, Uncached, Many
<1>3. newest' = newest
  BY DEF UpdateEventCache
<1>4. ASSUME NEW e \in Events, cache'[e] > 0
      PROVE  LedgerOf[e] <= newest /\ \A d \in Events : LedgerOf[d] = LedgerOf[e] => cache'[d] = 1
  <2>1. CASE cache[e] > 0
    BY <1>2, <2>1 DEF CacheInv, Whole, Uncached
  <2>2. CASE ~(cache[e] > 0)
    <3>1. e \in toCache[c] /\ LedgerOf[e] # seq[c]
      BY <1>2, <1>4, <2>2 DEF Uncached
    <3>2. LedgerOf[e] <= newest /\ \A d \in Events : LedgerOf[d] = LedgerOf[e] => d \in toCache[c]
      BY <1>1, <3>1 DEF WholeLedgers
    <3>3. ASSUME NEW d \in Events, LedgerOf[d] = LedgerOf[e] PROVE cache'[d] = 1
      <4>1. CASE cache[d] = 0
        BY <1>2, <3>1, <3>2, <3>3, <4>1 DEF Uncached
      <4>2. CASE cache[d] # 0
        <5>0. cache[d] \in 0..2
          BY DEF TypeOK, Bags, Many
        <5>1. cache[d] > 0
          BY <4>2, <5>0
        <5> QED BY <2>2, <3>3, <5>1, <1>2 DEF CacheInv, Whole, Uncached
      <4> QED BY <4>1, <4>2
    <3> QED BY <3>2, <3>3
  <2> QED BY <2>1, <2>2
<1>5. CacheInv'
  BY <1>3, <1>4 DEF CacheInv, Whole
<1>6. CallInv(c)'
  BY <1>1 DEF UpdateEventCache, CallInv, Answered, TypeOK
<1> QED BY <1>5, <1>6

LEMMA AskCachedKeepsInv ==
    ASSUME TypeOK, CacheInv, NEW c \in Callers, CallInv(c), NEW s \in Ledgers,
           AskCached(c, s, Events)
    PROVE  CacheInv' /\ CallInv(c)'
<1>1. /\ newest' = newest /\ seq'[c] = s /\ filter'[c] = Events /\ pc'[c] = "fulfilled"
      /\ acc'[c] = [e \in Events |-> IF e \in CachedEvents(s) THEN cache[e] ELSE 0]
      /\ cache' = [e \in Events |-> IF e \in CachedEvents(s) THEN 0 ELSE cache[e]]
  BY DEF AskCached, TypeOK
<1>2. s <= newest /\ Whole(cache, s)
  BY DEF AskCached, CachedEvents, CacheInv
<1>3. \A e \in Events : e \in CachedEvents(s) <=> LedgerOf[e] = s
  BY <1>2 DEF Whole, CachedEvents
<1>4. CacheInv'
  BY <1>1, <1>3 DEF CacheInv, Whole
<1>5. Answered(c)'
  BY <1>1, <1>2, <1>3 DEF Answered, Whole
<1> QED BY <1>1, <1>4, <1>5 DEF CallInv

LEMMA AskServerKeepsInv ==
    ASSUME TypeOK, NEW c \in Callers, CallInv(c), NEW s \in Ledgers, NEW end,
           AskServer(c, s, end, Events)
    PROVE  CallInv(c)'
<1>1. /\ seq'[c] = s /\ filter'[c] = Events /\ pc'[c] = "waiting" /\ acc' = acc
      /\ req'[c].startLedger = s /\ req'[c].cursor = None
  BY DEF AskServer, TypeOK
<1>2. \A e \in Events : acc[c][e] = 0
  BY DEF CallInv, AskServer
<1>3. AccUpToCursor(c)'
  BY <1>1, <1>2, EventsArePositive DEF AccUpToCursor, None
<1> QED BY <1>1, <1>3 DEF CallInv

-----------------------------------------------------------------------------

\* If nobody filters and the server keeps to the page size, IInv is an invariant of
\* the client, under any interleaving of any number of calls.
THEOREM InvariantHolds ==
    ASSUME ServerKeepsLimit, NobodyFilters
    PROVE  Spec => []IInv
<1>1. Init => IInv
  BY DEF Init, IInv, CacheInv, CallInv, Nothing
<1>2. TypeOK /\ TypeOK' /\ IInv /\ [Next]_vars => IInv'
  <2> SUFFICES ASSUME TypeOK, TypeOK', IInv, [Next]_vars PROVE IInv'
    OBVIOUS
  <2>1. CacheInv /\ \A c \in Callers : CallInv(c)
    BY DEF IInv
  <2>2. newest \in Nat /\ newest' \in Nat
    BY ChainSize DEF TypeOK
  <2>3. ASSUME NEW c \in Callers, newest' = newest, CallInv(c)', CacheInv',
               \A d \in Callers \ {c} :
                  /\ pc'[d] = pc[d] /\ seq'[d] = seq[d] /\ req'[d] = req[d]
                  /\ filter'[d] = filter[d] /\ acc'[d] = acc[d]
                  /\ reply'[d] = reply[d] /\ toCache'[d] = toCache[d]
        PROVE  IInv'
    <3>1. \A d \in Callers \ {c} : CallInv(d)'
      BY <2>1, <2>2, <2>3, CallFrame
    <3> QED BY <2>3, <3>1 DEF IInv
  <2>4. newest' = newest /\ cache' = cache => CacheInv'
    BY <2>1, <2>2, CacheFrame
  <2>5. CASE CloseLedger
    <3>1. newest <= newest' /\ UNCHANGED <<cache, pc, seq, req, filter, acc, reply, toCache>>
      BY <2>2, <2>5 DEF CloseLedger
    <3>2. CacheInv'
      BY <2>1, <2>2, <3>1, CacheFrame
    <3>3. \A c \in Callers : CallInv(c)'
      BY <2>1, <2>2, <3>1, CallFrame
    <3> QED BY <3>2, <3>3 DEF IInv
  <2>6. ASSUME NEW c \in Callers, RpcReply(c) PROVE IInv'
    <3>1. CallInv(c)'
      BY <2>1, <2>6, ReplyKeepsInv
    <3> QED BY <2>3, <2>4, <2>6, <3>1 DEF RpcReply, TypeOK
  <2>7. ASSUME NEW c \in Callers, RpcFail(c) PROVE IInv'
    <3>1. CallInv(c)'
      BY <2>1, <2>7 DEF CallInv, RpcFail, Nothing, TypeOK
    <3> QED BY <2>3, <2>4, <2>7, <3>1 DEF RpcFail, TypeOK
  <2>8. ASSUME NEW c \in Callers, LastPage(c) PROVE IInv'
    <3>1. CallInv(c)'
      BY <2>1, <2>8, LastPageKeepsInv
    <3> QED BY <2>3, <2>4, <2>8, <3>1 DEF LastPage, TypeOK
  <2>9. ASSUME NEW c \in Callers, NextPage(c) PROVE IInv'
    <3>1. CallInv(c)'
      BY <2>1, <2>9, NextPageKeepsInv
    <3> QED BY <2>3, <2>4, <2>9, <3>1 DEF NextPage, TypeOK
  <2>10. ASSUME NEW c \in Callers, UpdateEventCache(c) PROVE IInv'
    <3>1. CacheInv' /\ CallInv(c)'
      BY <2>1, <2>10, UpdateKeepsInv
    <3> QED BY <2>3, <2>10, <3>1 DEF UpdateEventCache, TypeOK
  <2>11. ASSUME NEW c \in Callers, Return(c) PROVE IInv'
    <3>1. CallInv(c)'
      BY <2>1, <2>11 DEF CallInv, Return, Nothing, TypeOK
    <3> QED BY <2>3, <2>4, <2>11, <3>1 DEF Return, TypeOK
  <2>12. ASSUME NEW c \in Callers, NEW s \in Ledgers, AskCached(c, s, Events) PROVE IInv'
    <3>1. CacheInv' /\ CallInv(c)'
      BY <2>1, <2>12, AskCachedKeepsInv
    <3> QED BY <2>3, <2>12, <3>1 DEF AskCached, TypeOK
  <2>13. ASSUME NEW c \in Callers, NEW s \in Ledgers, NEW end, AskServer(c, s, end, Events)
         PROVE  IInv'
    <3>1. CallInv(c)'
      BY <2>1, <2>13, AskServerKeepsInv
    <3> QED BY <2>3, <2>4, <2>13, <3>1 DEF AskServer, TypeOK
  <2>14. ASSUME NEW c \in Callers, AskWithoutSequence(c) PROVE IInv'
    <3>1. CallInv(c)'
      BY <2>1, <2>14 DEF CallInv, AskWithoutSequence, TypeOK
    <3> QED BY <2>3, <2>4, <2>14, <3>1 DEF AskWithoutSequence, TypeOK
  <2>15. CASE UNCHANGED vars
    <3>1. CacheInv' /\ \A c \in Callers : CallInv(c)'
      BY <2>1, <2>2, <2>15, CacheFrame, CallFrame DEF vars
    <3> QED BY <3>1 DEF IInv
  <2>16. ASSUME NEW c \in Fetchers, FetcherAsks(c) PROVE IInv'
    BY <2>12, <2>13, <2>16 DEF FetcherAsks, Callers
  <2>17. ASSUME NEW c \in Sandboxes, SandboxAsks(c) PROVE IInv'
    BY <2>12, <2>13, <2>14, <2>17, NobodyFilters DEF SandboxAsks, Callers, NobodyFilters
  <2> QED
    BY <2>5, <2>6, <2>7, <2>8, <2>9, <2>10, <2>11, <2>15, <2>16, <2>17 DEF Next, Rpc, Loop
<1> QED BY <1>1, <1>2, TypeCorrect, PTL DEF Spec

\* An entry of the cache is the whole ledger, each event once: no fetch, failed,
\* interrupted or concurrent, leaves a part of a ledger behind.
THEOREM CacheIsComplete ==
    ASSUME ServerKeepsLimit, NobodyFilters
    PROVE  Spec => []CacheComplete
<1>1. IInv => CacheComplete
  BY DEF IInv, CacheInv, CacheComplete, CachedEvents
<1> QED BY <1>1, InvariantHolds, PTL

\* The events of a fetched block are all events of its ledger, each once.
THEOREM AnswersAreExact ==
    ASSUME ServerKeepsLimit, NobodyFilters
    PROVE  Spec => []AnswersExact
<1>1. IInv => AnswersExact
  BY DEF IInv, CallInv, AnswersExact, Callers
<1> QED BY <1>1, InvariantHolds, PTL

-----------------------------------------------------------------------------
(* Properties of steps. *)

\* Nothing but a call for its ledger takes an event out of the cache, and that call
\* has it in its answer; this needs no assumption about the server or the handlers.
THEOREM EntriesGoToAskers == Spec => TakenByAsker
<1> DEFINE Taken ==
       \A e \in Events : cache'[e] < cache[e] =>
          \E c \in Callers : /\ pc[c] = "idle" /\ pc'[c] = "fulfilled"
                             /\ seq'[c] = LedgerOf[e]
                             /\ acc'[c][e] = cache[e]
<1>1. TypeOK /\ [Next]_vars => [Taken]_vars
  <2> SUFFICES ASSUME TypeOK, Next, NEW e \in Events, cache'[e] < cache[e]
               PROVE  \E c \in Callers : /\ pc[c] = "idle" /\ pc'[c] = "fulfilled"
                                         /\ seq'[c] = LedgerOf[e]
                                         /\ acc'[c][e] = cache[e]
    OBVIOUS
  <2>1. cache[e] \in Nat
    BY DEF TypeOK, Bags, Many
  <2>2. cache' # cache
    BY <2>1
  <2>3. ASSUME NEW c \in Callers PROVE ~UpdateEventCache(c)
    BY <2>1 DEF UpdateEventCache, Added
  <2>4. \E c \in Callers, s \in Ledgers, f \in SUBSET Events : AskCached(c, s, f)
    BY <2>2, <2>3, FiltersType
       DEF Next, CloseLedger, FetcherAsks, SandboxAsks, AskServer, AskWithoutSequence,
           Rpc, RpcReply, RpcFail, Loop, LastPage, NextPage, Return, Callers
  <2>5. PICK c \in Callers, s \in Ledgers, f \in SUBSET Events : AskCached(c, s, f)
    BY <2>4
  <2>6. e \in CachedEvents(s)
    BY <2>1, <2>5 DEF AskCached
  <2> QED BY <2>5, <2>6 DEF AskCached, CachedEvents, TypeOK
<1> QED BY <1>1, TypeCorrect, PTL DEF Spec, TakenByAsker

\* Lists of events only grow at their end.
THEOREM ListsGrowInOrder ==
    ASSUME ServerKeepsLimit, NobodyFilters
    PROVE  Spec => InOrder
<1> DEFINE Grows == Extends(cache, cache') /\ \A c \in Callers : Extends(acc[c], acc'[c])
<1>1. TypeOK /\ IInv /\ [Next]_vars => [Grows]_vars
  <2> SUFFICES ASSUME TypeOK, IInv, Next PROVE Grows
    OBVIOUS
  <2>1. \A e \in Events : cache[e] \in Nat /\ \A c \in Callers : acc[c][e] \in Nat
    BY DEF TypeOK, Bags, Many
  <2>2. cache' = cache => Extends(cache, cache')
    BY <2>1 DEF Extends
  <2>3. ASSUME NEW c \in Callers, \A d \in Callers \ {c} : acc'[d] = acc[d], Extends(acc[c], acc'[c])
        PROVE  \A d \in Callers : Extends(acc[d], acc'[d])
    BY <2>1, <2>3 DEF Extends
  <2>4. acc' = acc => \A c \in Callers : Extends(acc[c], acc'[c])
    BY <2>1 DEF Extends
  <2>5. ASSUME NEW c \in Callers, pc[c] = "replied", acc'[c] = NewEvents(c)
        PROVE  Extends(acc[c], acc'[c])
    <3>1. AccUpToCursor(c) /\ PageGapless(c)
      BY <2>5 DEF IInv, CallInv
    <3>2. SUFFICES ASSUME NEW d \in Events, NEW e \in Events, LedgerOf[d] = LedgerOf[e],
                          acc[c][d] > 0, acc'[c][e] > acc[c][e]
                   PROVE  d < e
      BY DEF Extends
    <3>3. d <= req[c].cursor
      BY <3>1, <3>2 DEF AccUpToCursor
    <3>4. e \in Requested(req[c]) /\ LedgerOf[e] = seq[c]
      BY <2>1, <2>5, <3>1, <3>2 DEF NewEvents, Added, OfSequence, PageGapless
    <3>5. ~(e <= req[c].cursor)
      BY <3>1, <3>4, RequestGoesOn
    <3>6. d \in Int /\ e \in Int /\ req[c].cursor \in Int
      BY DEF TypeOK, Events, None
    <3> QED BY <3>3, <3>5, <3>6
  <2>6. ASSUME NEW c \in Callers, UpdateEventCache(c) PROVE Grows
    <3>1. SUFFICES ASSUME NEW d \in Events, NEW e \in Events, LedgerOf[d] = LedgerOf[e],
                          cache[d] > 0, cache'[e] > cache[e]
                   PROVE  FALSE
      BY <2>4, <2>6 DEF UpdateEventCache, Extends
    <3>2. cache[e] = 1
      BY <3>1 DEF IInv, CacheInv, Whole
    <3>3. cache[e] = 0
      BY <2>1, <2>6, <3>1 DEF UpdateEventCache, Added, Uncached
    <3> QED BY <3>2, <3>3
  <2>7. ASSUME NEW c \in Callers, NEW s \in Ledgers, NEW f, AskCached(c, s, f) PROVE Grows
    <3>1. Extends(cache, cache')
      BY <2>1, <2>7 DEF AskCached, Extends
    <3>2. \A e \in Events : acc[c][e] = 0
      BY <2>7 DEF AskCached, IInv, CallInv
    <3>3. Extends(acc[c], acc'[c])
      BY <2>1, <3>2 DEF Extends
    <3> QED BY <2>3, <2>7, <3>1, <3>3 DEF AskCached, TypeOK
  <2>8. ASSUME NEW c \in Callers, LastPage(c) \/ NextPage(c) PROVE Grows
    BY <2>2, <2>3, <2>5, <2>8 DEF LastPage, NextPage, TypeOK
  <2>9. ASSUME NEW c \in Callers, RpcFail(c) \/ Return(c) PROVE Grows
    <3>1. acc'[c] = Nothing
      BY <2>9 DEF RpcFail, Return, TypeOK
    <3>2. Extends(acc[c], acc'[c])
      BY <2>1, <3>1 DEF Extends, Nothing
    <3> QED BY <2>2, <2>3, <2>9, <3>2 DEF RpcFail, Return, TypeOK
  <2>10. CASE cache' = cache /\ acc' = acc
    BY <2>2, <2>4, <2>10
  <2> QED
    BY <2>6, <2>7, <2>8, <2>9, <2>10
       DEF Next, CloseLedger, FetcherAsks, SandboxAsks, AskServer, AskWithoutSequence,
           Rpc, RpcReply, Loop, Callers
<1> QED BY <1>1, TypeCorrect, InvariantHolds, PTL DEF Spec, InOrder

-----------------------------------------------------------------------------
(* Refinement of EventSource: its status, asked and answer are read off pc, seq *)
(* and acc.                                                                    *)

\* A step of a caller that is neither its first nor its last is invisible.
LEMMA InnerStep ==
    ASSUME TypeOK, TypeOK', NEW c \in Callers, newest' = newest, seq' = seq,
           pc[c] \in InFlight, pc'[c] \in InFlight,
           \A d \in Callers \ {c} : pc'[d] = pc[d] /\ acc'[d] = acc[d]
    PROVE  UNCHANGED <<newest, status, seq, answer>>
<1>1. status' = status
  BY DEF status, InFlight
<1>2. answer' = answer
  BY DEF answer, InFlight
<1> QED BY <1>1, <1>2

\* A step that settles a call, or takes its outcome back, changes it alone.
LEMMA OuterStep ==
    ASSUME TypeOK, TypeOK', NEW c \in Callers,
           pc'[c] \notin InFlight,
           \A d \in Callers \ {c} : pc'[d] = pc[d] /\ acc'[d] = acc[d]
    PROVE  /\ status' = [status EXCEPT ![c] = pc'[c]]
           /\ answer' = [answer EXCEPT ![c] = IF pc'[c] = "fulfilled" THEN acc'[c] ELSE Nothing]
BY DEF status, answer

\* An answer that is exact is the answer EventSource gives.
LEMMA ExactIsEventsOf ==
    ASSUME TypeOK, NEW c \in Callers, Answered(c)
    PROVE  acc[c] = Source!EventsOf(seq[c])
BY DEF TypeOK, Bags, Answered, Source!EventsOf

\* Step by step: what EventSource makes of each step of a call.
LEMMA SourceVars ==
    /\ Source!vars = <<newest, status, seq, answer>>
    /\ Source!Nothing = Nothing
BY DEF Source!vars, Source!Nothing, Nothing, status, answer

LEMMA PagesAreInvisible ==
    ASSUME TypeOK, TypeOK', NEW c \in Callers, RpcReply(c) \/ NextPage(c) \/ LastPage(c)
    PROVE  UNCHANGED <<newest, status, seq, answer>>
<1>1. CASE RpcReply(c)
  BY <1>1, InnerStep DEF RpcReply, InFlight, TypeOK
<1>2. CASE NextPage(c)
  BY <1>2, InnerStep DEF NextPage, InFlight, TypeOK
<1>3. CASE LastPage(c)
  BY <1>3, InnerStep DEF LastPage, InFlight, TypeOK
<1> QED BY <1>1, <1>2, <1>3

LEMMA RpcFailFails ==
    ASSUME TypeOK, TypeOK', NEW c \in Callers, RpcFail(c)
    PROVE  Source!Fail(c)
<1>1. /\ status' = [status EXCEPT ![c] = "rejected"]
      /\ answer' = [answer EXCEPT ![c] = Nothing]
  BY OuterStep DEF RpcFail, InFlight, TypeOK
<1>2. status[c] = "asked" /\ answer[c] = Nothing
  BY DEF RpcFail, InFlight, status, answer
<1>3. answer' = answer
  BY <1>1, <1>2 DEF answer
<1>4. newest' = newest /\ seq' = seq
  BY DEF RpcFail
<1> QED BY <1>1, <1>2, <1>3, <1>4 DEF Source!Fail, status, answer

LEMMA UpdateAnswers ==
    ASSUME TypeOK, TypeOK', IInv, NEW c \in Callers, UpdateEventCache(c)
    PROVE  Source!Answer(c)
<1>1. /\ status' = [status EXCEPT ![c] = "fulfilled"]
      /\ answer' = [answer EXCEPT ![c] = acc'[c]]
  BY OuterStep DEF UpdateEventCache, InFlight, TypeOK
<1>2. status[c] = "asked" /\ newest' = newest /\ seq' = seq /\ acc' = acc
  BY DEF UpdateEventCache, InFlight, status
<1>3. Answered(c)
  BY DEF IInv, CallInv, UpdateEventCache
<1>4. acc[c] = Source!EventsOf(seq[c]) /\ seq[c] <= newest
  BY <1>3, ExactIsEventsOf DEF Answered
<1> QED BY <1>1, <1>2, <1>4 DEF Source!Answer, status, answer

LEMMA ReturnReturns ==
    ASSUME TypeOK, TypeOK', NEW c \in Callers, Return(c)
    PROVE  Source!Return(c)
<1>1. /\ status' = [status EXCEPT ![c] = "idle"]
      /\ answer' = [answer EXCEPT ![c] = Nothing]
  BY OuterStep DEF Return, InFlight, TypeOK
<1>2. status[c] \in {"fulfilled", "rejected"}
  BY DEF Return, InFlight, status
<1>3. newest' = newest /\ seq' = [seq EXCEPT ![c] = None]
  BY DEF Return
<1> QED BY SourceVars, <1>1, <1>2, <1>3 DEF Source!Return, status, answer

LEMMA AskCachedAsks ==
    ASSUME TypeOK, TypeOK', IInv', NEW c \in Callers, NEW s \in Ledgers, NEW f, AskCached(c, s, f)
    PROVE  Source!Ask(c, s)
<1>1. /\ status' = [status EXCEPT ![c] = "fulfilled"]
      /\ answer' = [answer EXCEPT ![c] = acc'[c]]
  BY OuterStep DEF AskCached, InFlight, TypeOK
<1>2. status[c] = "idle" /\ newest' = newest /\ seq' = [seq EXCEPT ![c] = s]
  BY DEF AskCached, InFlight, status
<1>3. seq'[c] = s /\ Answered(c)'
  BY DEF IInv, CallInv, AskCached, TypeOK
<1>4. acc'[c] = Source!EventsOf(s)
  BY <1>3 DEF TypeOK, Bags, Answered, Source!EventsOf
<1>5. s <= newest
  BY <1>2, <1>3 DEF Answered
<1> QED BY <1>1, <1>2, <1>4, <1>5 DEF Source!Ask, status, answer

LEMMA AskServerAsks ==
    ASSUME TypeOK, TypeOK', NEW c \in Callers, NEW s \in Ledgers, NEW end, NEW f,
           AskServer(c, s, end, f)
    PROVE  Source!Ask(c, s)
<1>1. /\ pc' = [pc EXCEPT ![c] = "waiting"] /\ acc' = acc /\ pc[c] = "idle"
      /\ newest' = newest /\ seq' = [seq EXCEPT ![c] = s]
  BY DEF AskServer
<1>2. status' = [status EXCEPT ![c] = "asked"] /\ status[c] = "idle"
  BY <1>1 DEF status, InFlight, TypeOK
<1>3. answer' = answer
  BY <1>1 DEF answer, TypeOK
<1> QED BY <1>1, <1>2, <1>3 DEF Source!Ask, status, answer

LEMMA NoSequenceIsRefused ==
    ASSUME TypeOK, TypeOK', NEW c \in Callers, AskWithoutSequence(c)
    PROVE  Source!AskForNothing(c)
<1>1. /\ pc' = [pc EXCEPT ![c] = "rejected"] /\ acc' = acc /\ pc[c] = "idle"
      /\ newest' = newest /\ seq' = seq
  BY DEF AskWithoutSequence
<1>2. status' = [status EXCEPT ![c] = "rejected"] /\ status[c] = "idle"
  BY <1>1 DEF status, InFlight, TypeOK
<1>3. answer' = answer
  BY <1>1 DEF answer, TypeOK
<1> QED BY <1>1, <1>2, <1>3 DEF Source!AskForNothing, status, answer

\* The client implements EventSource: paging, caching and the interleaving of calls
\* are invisible to each caller (the liveness half is left to TLC).
THEOREM ImplementsSource ==
    ASSUME ServerKeepsLimit, NobodyFilters
    PROVE  Spec => Source!SafeSpec
<1>1. Init => Source!Init
  BY DEF Init, Source!Init, Source!Nothing, Nothing, InFlight, status, answer
<1>2. TypeOK /\ TypeOK' /\ IInv /\ IInv' /\ [Next]_vars => [Source!Next]_(Source!vars)
  <2> SUFFICES ASSUME TypeOK, TypeOK', IInv, IInv', [Next]_vars
               PROVE  [Source!Next]_(Source!vars)
    OBVIOUS
  <2>0. Source!vars' = <<newest', status', seq', answer'>>
    BY DEF Source!vars, status, answer
  <2>1. CASE CloseLedger
    <3>1. status' = status /\ answer' = answer
      BY <2>1 DEF CloseLedger, status, answer
    <3>2. Source!CloseLedger
      BY <2>1, <3>1, ChainSize DEF CloseLedger, Source!CloseLedger, Ledgers, TypeOK, status, answer
    <3> QED BY <3>2 DEF Source!Next
  <2>2. ASSUME NEW c \in Callers, RpcReply(c) \/ NextPage(c) \/ LastPage(c)
        PROVE  UNCHANGED Source!vars
    BY <2>0, <2>2, PagesAreInvisible, SourceVars
  <2>3. ASSUME NEW c \in Callers, RpcFail(c) \/ UpdateEventCache(c) \/ Return(c)
        PROVE  Source!Next
    BY <2>3, RpcFailFails, UpdateAnswers, ReturnReturns DEF Source!Next
  <2>4. CASE UNCHANGED vars
    BY <2>0, <2>4, SourceVars DEF vars, status, answer
  <2>5. ASSUME NEW c \in Fetchers, FetcherAsks(c) PROVE Source!Next
    BY <2>5, AskCachedAsks, AskServerAsks DEF FetcherAsks, Callers, Source!Next
  <2>6. ASSUME NEW c \in Sandboxes, SandboxAsks(c) PROVE Source!Next
    BY <2>6, AskCachedAsks, AskServerAsks, NoSequenceIsRefused DEF SandboxAsks, Callers, Source!Next
  <2> QED
    BY <2>1, <2>2, <2>3, <2>4, <2>5, <2>6 DEF Next, Rpc, Loop
<1> QED
  BY <1>1, <1>2, TypeCorrect, InvariantHolds, PTL DEF Spec, Source!SafeSpec


-----------------------------------------------------------------------------
(* The client does not notice that its callers are fetches. *)

LEMMA TasksAreFetchers ==
    /\ Fetch!Tasks = Fetchers
    /\ \A t \in Fetchers : /\ Fetch!Height(t) = AskedFor(t)
                           /\ AskedFor(t) \in Ledgers
                           /\ t \in Callers
BY HeightsInChain, FetchersAreTasks
   DEF Fetch!Tasks, Fetch!Batch, Fetch!Height, AskedFor, Callers

LEMMA ClientRuns == SystemSpec => Spec
<1>1. SystemInit => Init
  BY DEF SystemInit
<1>2. [SystemNext]_allVars => [Next]_vars
  <2> SUFFICES ASSUME [SystemNext]_allVars PROVE [Next]_vars
    OBVIOUS
  <2>1. CASE ClientStep
    BY <2>1 DEF ClientStep, Next, Callers
  <2>2. CASE FetchStep
    BY <2>2 DEF FetchStep
  <2>3. ASSUME NEW t \in Fetchers, GetEvents(t) PROVE Next
    BY <2>3, TasksAreFetchers DEF GetEvents, FetcherAsks, Next
  <2>4. ASSUME NEW t \in Fetchers, WrapEvents(t) \/ EventsFail(t) PROVE Next
    BY <2>4, TasksAreFetchers DEF WrapEvents, EventsFail, Next
  <2>5. CASE UNCHANGED allVars
    BY <2>5 DEF allVars
  <2> QED BY <2>1, <2>2, <2>3, <2>4, <2>5 DEF SystemNext
<1> QED BY <1>1, <1>2, PTL DEF SystemSpec, Spec

-----------------------------------------------------------------------------
(* A step of EventSource is, for the fetches, a step of their EventSource: it   *)
(* is about one of them, or about a handler and invisible.                      *)

LEMMA AskSeen ==
    ASSUME TypeOK, NEW t \in Fetchers, NEW s, Source!Ask(t, s)
    PROVE  Fetch!Source!Ask(t, s)
BY TasksAreFetchers
   DEF TypeOK, Source!Ask, Fetch!Source!Ask, OfFetchers, status, answer,
       Source!EventsOf, Fetch!Source!EventsOf

LEMMA AnswerSeen ==
    ASSUME TypeOK, NEW t \in Fetchers, Source!Answer(t)
    PROVE  Fetch!Source!Answer(t)
BY TasksAreFetchers
   DEF TypeOK, Source!Answer, Fetch!Source!Answer, OfFetchers, status, answer,
       Source!EventsOf, Fetch!Source!EventsOf

LEMMA FailSeen ==
    ASSUME TypeOK, NEW t \in Fetchers, Source!Fail(t)
    PROVE  Fetch!Source!Fail(t)
BY TasksAreFetchers
   DEF TypeOK, Source!Fail, Fetch!Source!Fail, OfFetchers, status, answer

LEMMA ReturnSeen ==
    ASSUME TypeOK, NEW t \in Fetchers, Source!Return(t)
    PROVE  Fetch!Source!Return(t)
BY TasksAreFetchers
   DEF TypeOK, Source!Return, Fetch!Source!Return, OfFetchers, status, answer,
       Source!Nothing, Fetch!Source!Nothing, Nothing, None, Fetch!None

LEMMA HandlersUnseen ==
    ASSUME newest' = newest,
           \A t \in Fetchers : pc'[t] = pc[t] /\ seq'[t] = seq[t] /\ acc'[t] = acc[t]
    PROVE  UNCHANGED Fetch!client
BY DEF Fetch!client, OfFetchers, status, answer, Callers

-----------------------------------------------------------------------------
(* The composition implements BlockFetch. *)

LEMMA InitRefines == SystemInit => Fetch!Init
BY TasksAreFetchers
   DEF SystemInit, Init, Fetch!Init, Fetch!Source!Init, OfFetchers, status, answer, InFlight,
       Callers, Nothing, Fetch!Source!Nothing, None, Fetch!None

\* A step of the client is a step of EventSource for the fetches, or invisible.
LEMMA ClientStepRefines ==
    ASSUME TypeOK, TypeOK', IInv, IInv', ClientStep
    PROVE  Fetch!ClientStep \/ UNCHANGED Fetch!vars
<1> DEFINE Unseen == UNCHANGED Fetch!client
           Seen   == \/ Fetch!Source!CloseLedger
                     \/ \E t \in Fetch!Tasks : Fetch!Source!Answer(t) \/ Fetch!Source!Fail(t)
<1>1. ASSUME CloseLedger PROVE Seen
  BY <1>1, ChainSize
     DEF CloseLedger, Fetch!Source!CloseLedger, Fetch!Ledgers, TypeOK, OfFetchers, status, answer
<1>2. ASSUME NEW c \in Callers, RpcReply(c) \/ NextPage(c) \/ LastPage(c) PROVE Unseen
  BY <1>2, PagesAreInvisible DEF Fetch!client, OfFetchers
<1>3. ASSUME NEW c \in Callers, RpcFail(c) PROVE Unseen \/ Seen
  <2>1. CASE c \in Fetchers
    BY <1>3, <2>1, RpcFailFails, FailSeen, TasksAreFetchers
  <2>2. CASE c \in Sandboxes
    BY <1>3, <2>2, HandlersUnseen, CallersDisjoint DEF RpcFail, TypeOK, Callers
  <2> QED BY <2>1, <2>2 DEF Callers
<1>4. ASSUME NEW c \in Callers, UpdateEventCache(c) PROVE Unseen \/ Seen
  <2>1. CASE c \in Fetchers
    BY <1>4, <2>1, UpdateAnswers, AnswerSeen, TasksAreFetchers
  <2>2. CASE c \in Sandboxes
    BY <1>4, <2>2, HandlersUnseen, CallersDisjoint DEF UpdateEventCache, TypeOK, Callers
  <2> QED BY <2>1, <2>2 DEF Callers
<1>5. ASSUME NEW c \in Sandboxes, SandboxAsks(c) \/ Return(c) PROVE Unseen
  BY <1>5, HandlersUnseen, CallersDisjoint
     DEF SandboxAsks, AskCached, AskServer, AskWithoutSequence, Return, TypeOK, Callers
<1> HIDE DEF Unseen, Seen
<1>6. Unseen \/ Seen
  BY <1>1, <1>2, <1>3, <1>4, <1>5 DEF ClientStep, Rpc, Loop
<1> QED
  BY <1>6 DEF Unseen, Seen, ClientStep, fetch, Fetch!ClientStep, Fetch!vars

LEMMA FetchStepRefines ==
    ASSUME FetchStep
    PROVE  Fetch!Next
<1>1. \A t \in Fetchers : Fetch!OwnStep(t) => Fetch!TaskStep(t)
  BY DEF Fetch!TaskStep
<1> QED BY <1>1, TasksAreFetchers DEF FetchStep, Fetch!Next

LEMMA MeetingsRefine ==
    ASSUME TypeOK, TypeOK', IInv, IInv', NEW t \in Fetchers,
           GetEvents(t) \/ WrapEvents(t) \/ EventsFail(t)
    PROVE  Fetch!Next
<1>1. CASE GetEvents(t)
  <2>1. Source!Ask(t, AskedFor(t))
    BY <1>1, AskCachedAsks, AskServerAsks, TasksAreFetchers DEF GetEvents
  <2>2. Fetch!GetEvents(t)
    BY <1>1, <2>1, AskSeen, TasksAreFetchers DEF GetEvents, Fetch!GetEvents
  <2> QED BY <2>2, TasksAreFetchers DEF Fetch!Next, Fetch!TaskStep
<1>2. CASE WrapEvents(t)
  <2>1. Fetch!WrapEvents(t)
    BY <1>2, ReturnReturns, ReturnSeen, TasksAreFetchers DEF WrapEvents, Fetch!WrapEvents
  <2> QED BY <2>1, TasksAreFetchers DEF Fetch!Next, Fetch!TaskStep
<1>3. CASE EventsFail(t)
  <2>1. Fetch!EventsFail(t)
    BY <1>3, ReturnReturns, ReturnSeen, TasksAreFetchers DEF EventsFail, Fetch!EventsFail
  <2> QED BY <2>1, TasksAreFetchers DEF Fetch!Next, Fetch!TaskStep
<1> QED BY <1>1, <1>2, <1>3

\* Over the client as it is, the fetch is the BlockFetch the other proofs are about:
\* pages, cache, other fetches, abandoned attempts and handlers make no difference.
THEOREM CompositionRefines ==
    ASSUME ServerKeepsLimit, NobodyFilters
    PROVE  SystemSpec => ImplementsFetch
<1>1. TypeOK /\ TypeOK' /\ IInv /\ IInv' /\ [SystemNext]_allVars => [Fetch!Next]_(Fetch!vars)
  <2> SUFFICES ASSUME TypeOK, TypeOK', IInv, IInv', [SystemNext]_allVars
               PROVE  [Fetch!Next]_(Fetch!vars)
    OBVIOUS
  <2>1. CASE ClientStep
    BY <2>1, ClientStepRefines DEF Fetch!Next
  <2>2. CASE FetchStep
    BY <2>2, FetchStepRefines
  <2>3. ASSUME NEW t \in Fetchers, GetEvents(t) \/ WrapEvents(t) \/ EventsFail(t)
        PROVE  Fetch!Next
    BY <2>3, MeetingsRefine
  <2>4. CASE UNCHANGED allVars
    BY <2>4 DEF allVars, vars, fetch, Fetch!vars, Fetch!client, OfFetchers, status, answer
  <2> QED BY <2>1, <2>2, <2>3, <2>4 DEF SystemNext
<1> QED
  BY <1>1, InitRefines, ClientRuns, TypeCorrect, InvariantHolds, PTL
     DEF SystemSpec, ImplementsFetch, Fetch!Spec

-----------------------------------------------------------------------------
(* What is proved about BlockFetch on an ideal client holds on the real one.   *)

Fetched == INSTANCE BlockFetchProofs WITH
              PageLimit <- ListLimit,
              status    <- OfFetchers(status),
              asked     <- OfFetchers(seq),
              answer    <- OfFetchers(answer)

\* The assumptions of BlockFetch.
LEMMA FetchedAssumptions ==
    /\ \A e \in Events : \E n \in 1..Len(Records["operations"][LedgerOf[e]]) :
          Records["operations"][LedgerOf[e]][n] \in Invokes
    /\ LedgerOf \in [Events -> Fetched!Ledgers]
    /\ ListLimit \in Nat \ {0}
    /\ Records \in [Lists -> [Fetched!Ledgers -> Seq(Record)]]
    /\ "operations" \in Lists /\ "ledger" \notin Lists
    /\ MaxAttempts \in Nat
    /\ LastLedger \in Nat /\ Heights \in Seq(Fetched!Ledgers)
BY HeightsInChain, AttemptsType, ListsType, RecordsType, ListLimitType, EventsNeedInvoke,
   LedgerOfType, ChainSize
   DEF Fetched!Ledgers, Ledgers

\* Fetched and Fetch are the same instance of BlockFetch.
LEMMA FetchedIsFetch == Fetch!Spec => Fetched!Spec
<1>1. Fetch!Init => Fetched!Init
  BY DEF Fetch!Init, Fetched!Init, Fetch!Unread, Fetched!Unread, Fetch!Start, Fetched!Start,
         Fetch!Tasks, Fetched!Tasks, Fetch!Batch, Fetched!Batch, Fetch!None, Fetched!None,
         Fetch!Source!Init, Fetched!Source!Init, Fetch!Source!Nothing,
         Fetched!Source!Nothing
<1>2. [Fetch!Next]_(Fetch!vars) => [Fetched!Next]_(Fetched!vars)
  BY DEF Fetch!Next, Fetched!Next, Fetch!IngestLedger, Fetched!IngestLedger,
         Fetch!ClientStep, Fetched!ClientStep, Fetch!FetchBlocks, Fetched!FetchBlocks,
         Fetch!Fulfil, Fetched!Fulfil, Fetch!Reject, Fetched!Reject, Fetch!TaskStep,
         Fetched!TaskStep, Fetch!OwnStep, Fetched!OwnStep, Fetch!LedgerRead,
         Fetched!LedgerRead, Fetch!NextPage, Fetched!NextPage, Fetch!LastPage,
         Fetched!LastPage, Fetch!ReadFail, Fetched!ReadFail, Fetch!SkipEvents,
         Fetched!SkipEvents, Fetch!Explain, Fetched!Explain, Fetch!GetEvents,
         Fetched!GetEvents, Fetch!WrapEvents, Fetched!WrapEvents, Fetch!EventsFail,
         Fetched!EventsFail, Fetch!AskForEvents, Fetched!AskForEvents, Fetch!TakeEvents,
         Fetched!TakeEvents, Fetch!TakeError, Fetched!TakeError, Fetch!Reading,
         Fetched!Reading, Fetch!Page, Fetched!Page, Fetch!HasInvokeHostFunctionOp,
         Fetched!HasInvokeHostFunctionOp, Fetch!Height, Fetched!Height, Fetch!Tasks,
         Fetched!Tasks, Fetch!Batch, Fetched!Batch, Fetch!Parts, Fetched!Parts, Fetch!Block,
         Fetched!Block, Fetch!client, Fetched!client, Fetch!vars, Fetched!vars, Fetch!None,
         Fetched!None, Fetch!Ledgers, Fetched!Ledgers, Fetch!Source!CloseLedger,
         Fetched!Source!CloseLedger, Fetch!Source!Ask, Fetched!Source!Ask,
         Fetch!Source!Answer, Fetched!Source!Answer, Fetch!Source!Fail, Fetched!Source!Fail,
         Fetch!Source!Return, Fetched!Source!Return, Fetch!Source!EventsOf,
         Fetched!Source!EventsOf, Fetch!Source!Nothing, Fetched!Source!Nothing
<1> QED BY <1>1, <1>2, PTL DEF Fetch!Spec, Fetched!Spec

\* A batch fetched over the client as it is, with its cache shared by all attempts and
\* handlers, holds the blocks of the chain with all their events (fetchBlocks, getEvents).
THEOREM BatchesAreExact ==
    ASSUME ServerKeepsLimit, NobodyFilters
    PROVE  SystemSpec => []Fetch!BlocksExact
<1>1. Fetched!Spec => []Fetched!BlocksExact
  BY FetchedAssumptions, Fetched!BatchesAreExact, PTL
<1>2. Fetched!BlocksExact => Fetch!BlocksExact
  BY DEF Fetch!BlocksExact, Fetched!BlocksExact, Fetch!TheBlock, Fetched!TheBlock,
         Fetch!Batch, Fetched!Batch, Fetch!Ledgers, Fetched!Ledgers, Fetch!Source!EventsOf,
         Fetched!Source!EventsOf
<1> QED
  BY <1>1, <1>2, CompositionRefines, FetchedIsFetch, PTL DEF ImplementsFetch

\* To the dispatcher the fetch over the client as it is is BlockSource: the safety half
\* of ImplementsBlockSource.
THEOREM CompositionIsSource ==
    ASSUME ServerKeepsLimit, NobodyFilters
    PROVE  SystemSpec => Fetch!Abstract!SafeSpec
<1>1. Fetched!Spec => Fetched!Abstract!SafeSpec
  BY FetchedAssumptions, Fetched!ImplementsSource, PTL
<1>2. Fetched!Abstract!Init => Fetch!Abstract!Init
  BY DEF Fetch!Abstract!Init, Fetched!Abstract!Init
<1>3. [Fetched!Abstract!Next]_(Fetched!Abstract!vars) => [Fetch!Abstract!Next]_(Fetch!Abstract!vars)
  BY DEF Fetch!Abstract!Next, Fetched!Abstract!Next, Fetch!Abstract!Grow,
         Fetched!Abstract!Grow, Fetch!Abstract!Try, Fetched!Abstract!Try,
         Fetch!Abstract!Deliver, Fetched!Abstract!Deliver, Fetch!Abstract!GiveUp,
         Fetched!Abstract!GiveUp, Fetch!Abstract!vars, Fetched!Abstract!vars, Fetch!Ready,
         Fetched!Ready, Fetch!SorobanLedgers, Fetched!SorobanLedgers, Fetch!TheBlock,
         Fetched!TheBlock, Fetch!Batch, Fetched!Batch, Fetch!Ledgers, Fetched!Ledgers,
         Fetch!Source!EventsOf, Fetched!Source!EventsOf
<1>4. Fetched!Abstract!SafeSpec => Fetch!Abstract!SafeSpec
  BY <1>2, <1>3, PTL DEF Fetched!Abstract!SafeSpec, Fetch!Abstract!SafeSpec
<1> QED
  BY <1>1, <1>4, CompositionRefines, FetchedIsFetch, PTL DEF ImplementsFetch

=============================================================================
