--------------------------- MODULE IndexerProofs ---------------------------
(***************************************************************************)
(* A node from its start to the end of the chain, for all manifests,       *)
(* chains, dictionaries and arguments that handlers may give for new data  *)
(* sources: its state is well-formed, start-up keeps every dictionary that *)
(* answers, no filter of a running node throws, and each handler gets the  *)
(* data that are due to it, once.                                          *)
(***************************************************************************)
EXTENDS Indexer, SequenceLemmas, FiniteSetTheorems

-----------------------------------------------------------------------------
(* What the database holds, and the data sources that are made of it: the  *)
(* definitions of Indexer with the manifest m and the list of the created  *)
(* data sources as arguments.                                              *)

CreatedSet == [templateName : {c.templateName : c \in Creations},
               args : {c.args : c \in Creations}, height : 1..LastLedger, at : Nat]

CallSet == [ds : Nat, handler : Nat, height : Nat, at : Nat]

TemplatesOf(m, name) == Keep(m.templates, {t \in Range(m.templates) : t.name = name})
TemplateOf(m, c)     == Head(TemplatesOf(m, c.templateName))
MadeOf(m, c)         == Updated(TemplateOf(m, c), c.args)
CanBeMade(m, c)      == TemplatesOf(m, c.templateName) # <<>> /\ ~IsInvalid(TemplateOf(m, c), c.args)
AllCanBeMade(m, list) == \A c \in Range(list) : CanBeMade(m, c)
Made(m, list)        == [k \in 1..Len(list) |-> MadeOf(m, list[k])]
Sources(m, list)     == m.dataSources \o Made(m, list)
Size(m, list)        == Len(m.dataSources) + Len(list)

\* AskedFrom and AskedAddress.
From(m, list, i) ==
    IF i > Len(m.dataSources) THEN TemplateOf(m, list[i - Len(m.dataSources)]) ELSE m.dataSources[i]
GivenAddress(template, args) ==
    IF "address" \in DOMAIN args THEN args.address ELSE Get(Options(template), "address")
Address(m, list, i) ==
    IF i > Len(m.dataSources)
    THEN GivenAddress(From(m, list, i), list[i - Len(m.dataSources)].args)
    ELSE Get(Options(From(m, list, i)), "address")

\* IsActive and IsDue, and the handlers the dictionary is asked for.
Active(m, list, i, h, p) ==
    i > Len(m.dataSources) =>
        LET c == list[i - Len(m.dataSources)] IN c.height < h \/ (c.height = h /\ c.at <= p)
Due(m, list, i, n, d) ==
    Handles([HandlersOf(From(m, list, i))[n] EXCEPT !.address = Address(m, list, i)], d)
IsListed(m, list, i, n) ==
    IsRuntimeDs(From(m, list, i)) /\ From(m, list, i).handlers[n].kind \in CaseKinds

\* Of the calls for the p-th datum of ledger h, cs has the due ones and no others.
RightFor(m, list, cs, h, p, i, n) ==
    IF IsListed(m, list, i, n)
    THEN Call(i, n, h, p) \in Range(cs) <=>
            Active(m, list, i, h, p) /\ Due(m, list, i, n, Chain[h][p])
    ELSE Call(i, n, h, p) \in Range(cs) => Active(m, list, i, h, p)
Right(m, list, cs, h, p) ==
    \A i \in 1..Size(m, list) : \A n \in 1..Len(From(m, list, i).handlers) :
        RightFor(m, list, cs, h, p, i, n)

\* A ledger that may be skipped, and entries that find all the others.
NothingDue(m, list, h) ==
    \A i \in 1..Size(m, list) : \A n \in 1..Len(From(m, list, i).handlers) :
        IsListed(m, list, i, n) =>
            \A p \in 1..Len(Chain[h]) : ~Due(m, list, i, n, Chain[h][p])
Covers(m, list, es) ==
    \A i \in 1..Size(m, list) : \A n \in 1..Len(From(m, list, i).handlers) :
        IsListed(m, list, i, n) =>
            \A d \in Data : Due(m, list, i, n, d) => \E e \in es : Matches(e, d)

\* The calls for the first k data of ledger h are the due ones, each once.
RightSoFar(m, list, cs, h, k) ==
    /\ IsInjective(cs)
    /\ \A c \in Range(cs) : c.height = h /\ c.at \in 1..k /\ c.ds \in 1..Size(m, list)
    /\ \A p \in 1..k : Right(m, list, cs, h, p)

\* The ledgers from the last one that is done up to the next height are in the queue q,
\* in order, or in work (b), or nothing in them is due.
Earlier == {pair \in (1..LastLedger) \X (1..LastLedger) : pair[1] < pair[2]}
Ahead(m, list, done, b, q, next) ==
    /\ done < next
    /\ b # 0 => b \in done + 1..next - 1
    /\ \A h \in Range(q) : h \in done + 1..next - 1 /\ b < h
    /\ Sorted(q, Earlier)
    /\ \A h \in done + 1..next - 1 : h \in Range(q) \/ h = b \/ NothingDue(m, list, h)

-----------------------------------------------------------------------------
(* The invariant. *)

\* Types, the bounds of the lists, and what is left of a block when there is none.
Types ==
    /\ TypeOK
    /\ saved \in Seq(CreatedSet) /\ created \in Seq(CreatedSet)
    /\ called \in Seq(CallSet) /\ calls \in Seq(CallSet)
    /\ Len(saved) + Len(created) <= MaxCreated
    /\ block = 0 => created = <<>> /\ calls = <<>>
    /\ stage \in {"parsing", "loading", "dictionaries"} => block = 0 /\ queue = <<>>
    /\ stage \in {"parsing", "loading"} => dynamicDs = <<>>

\* A node that is past the manifest has an accepted one, and its data sources are those
\* that were asked for, the present block included.
Loaded ==
    /\ AllCanBeMade(raw, saved \o created)
    /\ stage \in {"loading", "dictionaries", "running"} => Accepted(raw)
    /\ stage \in {"dictionaries", "running"} => dynamicDs = Made(raw, saved \o created)

\* Of the servers tried so far, those that have answered all the time are kept.
Resolved ==
    /\ stage \in {"parsing", "loading"} => dict = "resolving"
    /\ dict = "resolving" /\ stage \in {"parsing", "loading", "dictionaries"} =>
          tried = 0 /\ dictionaries = <<>>
    /\ dict \in {"creating", "initialised"} =>
          /\ \E rest \in Seq(Endpoints) : endpoints = raw.dictionary \o rest
          /\ \A A \in SUBSET alwaysUp :
                Keep(dictionaries, A) = Keep(SubSeq(endpoints, 1, tried), A)
    /\ dict = "initialised" => tried = Len(endpoints)

\* The database: the ledgers the node is through with.
Past ==
    /\ IsInjective(called)
    /\ \A c \in Range(called) : c.height \in 1..processed /\ c.ds \in 1..Size(raw, saved)
    /\ \A c \in Range(saved) : c.height <= processed
    /\ \A h \in 1..processed : \A p \in 1..Len(Chain[h]) : Right(raw, saved, called, h, p)

\* The block that is being indexed, up to its present datum.
Present ==
    block # 0 =>
        /\ RightSoFar(raw, saved \o created, calls, block, at)
        /\ \A c \in Range(created) : c.height = block /\ c.at \in 1..at

\* The heights to come.  The data sources made in the present block are not considered:
\* with them the heights are looked for again.
Future ==
    stage \in {"dictionaries", "running"} =>
        /\ Ahead(raw, saved, processed, block, queue, nextHeight)
        /\ stage = "running" /\ entries # {} => Covers(raw, saved, entries)

-----------------------------------------------------------------------------
(* Sequences. *)

LEMMA SubSeqAppend ==
    ASSUME NEW S, NEW s \in Seq(S), NEW n \in Nat, n < Len(s)
    PROVE  /\ SubSeq(s, 1, n) \in Seq(S) /\ s[n + 1] \in S
           /\ SubSeq(s, 1, n + 1) = Append(SubSeq(s, 1, n), s[n + 1])
<1>1. SubSeq(s, 1, n) \in Seq(S) /\ Len(SubSeq(s, 1, n)) = n
      /\ \A i \in 1..n : SubSeq(s, 1, n)[i] = s[i]
  OBVIOUS
<1>2. SubSeq(s, 1, n + 1) \in Seq(S) /\ Len(SubSeq(s, 1, n + 1)) = n + 1
      /\ \A i \in 1..n + 1 : SubSeq(s, 1, n + 1)[i] = s[i]
  OBVIOUS
<1>3. s[n + 1] \in S
  OBVIOUS
<1> DEFINE t == SubSeq(s, 1, n)
           u == SubSeq(s, 1, n + 1)
<1>4. /\ Append(t, s[n + 1]) \in Seq(S) /\ Len(Append(t, s[n + 1])) = n + 1
      /\ \A i \in 1..n + 1 : Append(t, s[n + 1])[i] = s[i]
  <2> HIDE DEF t
  <2> QED
    BY <1>1, <1>3 DEF t
<1>5. u = Append(t, s[n + 1])
  <2> HIDE DEF t, u
  <2> QED
    BY <1>2, <1>4, SeqEqual DEF u
<1> QED
  BY <1>1, <1>3, <1>5

LEMMA PrefixOfConcat ==
    ASSUME NEW S, NEW s \in Seq(S), NEW t \in Seq(S)
    PROVE  IsPrefix(s, s \o t)
<1>1. SubSeq(s, 1, Len(s)) = SubSeq(s \o t, 1, Len(s))
  OBVIOUS
<1> QED
  BY <1>1 DEF IsPrefix

-----------------------------------------------------------------------------
(* Start-up with dictionaries. *)

\* DictionaryService filters with the same Keep.
LEMMA DictKeep == ASSUME NEW s, NEW A PROVE Dict!Keep(s, A) = Keep(s, A)
<1>1. \A t : Dict!FlattenSeq(t) = FlattenSeq(t)
  BY DEF FlattenSeq, Dict!FlattenSeq
<1> QED
  BY <1>1 DEF Keep, Dict!Keep

\* What TypeOK says of DictionaryService.
DictType == Dict!TypeOK

LEMMA DictTypes ==
    ASSUME DictType, Resolved, raw \in Manifests,
           InitDictionaries \/ \E e \in Endpoints : Switch(e)
    PROVE  DictType'
<1> USE DEF DictType, Dict!TypeOK
<1>1. Len(endpoints) \in Nat /\ raw' = raw
  BY DEF InitDictionaries, Switch
<1>2. CASE Dict!ResolveDictionary
  <2>1. PICK rest \in Registry : endpoints' = raw.dictionary \o rest
    BY <1>2 DEF Dict!ResolveDictionary
  <2>2. endpoints' \in Seq(Endpoints) /\ Len(endpoints') = Len(raw.dictionary) + Len(rest)
        /\ Len(raw.dictionary) \in Nat /\ Len(rest) \in Nat
    BY <2>1, ManifestsType, RegistryType
  <2>3. tried = 0
    BY <1>2 DEF Dict!ResolveDictionary, Resolved, InitDictionaries, Switch
  <2> QED
    BY <1>1, <1>2, <2>2, <2>3 DEF Dict!ResolveDictionary
<1>3. CASE Dict!ResolveFails
  BY <1>1, <1>3 DEF Dict!ResolveFails
<1>4. CASE Dict!Create
  <2>1. endpoints[tried + 1] \in Endpoints /\ tried + 1 \in 0..Len(endpoints)
    BY <1>1, <1>4 DEF Dict!Create
  <2> QED
    BY <1>1, <1>4, <2>1 DEF Dict!Create
<1>5. CASE Dict!Skip
  BY <1>1, <1>5 DEF Dict!Skip
<1>6. CASE Dict!Initialise
  BY <1>1, <1>6 DEF Dict!Initialise
<1>7. ASSUME NEW e \in Endpoints, Switch(e) PROVE DictType'
  BY <1>1, <1>7 DEF Switch, Dict!Switch
<1> QED
  BY <1>2, <1>3, <1>4, <1>5, <1>6, <1>7 DEF InitDictionaries, Dict!Loop

LEMMA ResolvedInit == ASSUME Init PROVE Resolved
BY DEF Init, Resolved

\* The lists of the dictionaries and of the tried servers grow together.
LEMMA ResolvedStep ==
    ASSUME DictType, Resolved, raw \in Manifests, [Next]_vars
    PROVE  Resolved'
<1> USE DEF Resolved
<1>1. Len(endpoints) \in Nat /\ tried \in 0..Len(endpoints)
      /\ endpoints \in Seq(Endpoints) /\ dictionaries \in Seq(Endpoints) /\ alwaysUp \subseteq up
  BY DEF DictType, Dict!TypeOK
<1>2. CASE UNCHANGED <<raw, startUp>> /\ stage' \in {stage, "stopped"}
  BY <1>2 DEF startUp
<1>3. CASE Parse \/ Load
  BY <1>3 DEF Parse, Load, startUp
<1>4. CASE InitDictionaries
  <2>1. stage' = stage /\ stage = "dictionaries" /\ raw' = raw
    BY <1>4 DEF InitDictionaries
  <2>2. CASE Dict!ResolveDictionary
    <3>1. PICK rest \in Registry : endpoints' = raw.dictionary \o rest
      BY <2>2 DEF Dict!ResolveDictionary
    <3>2. rest \in Seq(Endpoints) /\ endpoints' \in Seq(Endpoints)
      BY <3>1, ManifestsType, RegistryType
    <3>3. tried' = 0 /\ dictionaries' = <<>> /\ dict' = "creating"
      BY <2>1, <2>2 DEF Dict!ResolveDictionary
    <3>4. SubSeq(endpoints', 1, 0) = <<>>
      BY <3>2
    <3> QED
      BY <2>1, <3>1, <3>2, <3>3, <3>4
  <2>3. CASE Dict!ResolveFails
    BY <2>1, <2>3 DEF Dict!ResolveFails
  <2>4. CASE Dict!Create
    <3> DEFINE e == endpoints[tried + 1]
    <3>1. /\ tried' = tried + 1 /\ dictionaries' = Append(dictionaries, e)
          /\ dict' = "creating" /\ dict = "creating" /\ tried < Len(endpoints) /\ tried \in Nat
          /\ endpoints' = endpoints /\ alwaysUp' = alwaysUp
      BY <1>1, <2>4 DEF Dict!Create
    <3>2. /\ SubSeq(endpoints, 1, tried) \in Seq(Endpoints) /\ e \in Endpoints
          /\ SubSeq(endpoints, 1, tried + 1) = Append(SubSeq(endpoints, 1, tried), e)
      BY <1>1, <3>1, SubSeqAppend
    <3> HIDE DEF e
    <3>3. ASSUME NEW A \in SUBSET alwaysUp
          PROVE  Keep(dictionaries', A) = Keep(SubSeq(endpoints, 1, tried'), A)
      <4>1. Keep(dictionaries, A) = Keep(SubSeq(endpoints, 1, tried), A)
        BY <3>1
      <4>2. \A s \in Seq(Endpoints) :
               Keep(Append(s, e), A) = IF e \in A THEN Append(Keep(s, A), e) ELSE Keep(s, A)
        BY <3>2, KeepAppend
      <4> QED
        BY <1>1, <3>1, <3>2, <4>1, <4>2
    <3> QED
      BY <2>1, <3>1, <3>3
  <2>5. CASE Dict!Skip
    <3> DEFINE e == endpoints[tried + 1]
    <3>1. /\ tried' = tried + 1 /\ dictionaries' = dictionaries /\ e \notin up
          /\ dict' = "creating" /\ dict = "creating" /\ tried < Len(endpoints) /\ tried \in Nat
          /\ endpoints' = endpoints /\ alwaysUp' = alwaysUp
      BY <1>1, <2>5 DEF Dict!Skip
    <3>2. /\ SubSeq(endpoints, 1, tried) \in Seq(Endpoints) /\ e \in Endpoints
          /\ SubSeq(endpoints, 1, tried + 1) = Append(SubSeq(endpoints, 1, tried), e)
      BY <1>1, <3>1, SubSeqAppend
    <3> HIDE DEF e
    <3>3. ASSUME NEW A \in SUBSET alwaysUp
          PROVE  Keep(dictionaries', A) = Keep(SubSeq(endpoints, 1, tried'), A)
      <4>1. Keep(dictionaries, A) = Keep(SubSeq(endpoints, 1, tried), A) /\ e \notin A
        BY <1>1, <3>1
      <4>2. \A s \in Seq(Endpoints) : Keep(Append(s, e), A) = Keep(s, A)
        BY <3>2, <4>1, KeepAppend
      <4> QED
        BY <3>1, <3>2, <4>1, <4>2
    <3> QED
      BY <2>1, <3>1, <3>3
  <2>6. CASE Dict!Initialise
    BY <2>1, <2>6 DEF Dict!Initialise
  <2> QED
    BY <1>4, <2>2, <2>3, <2>4, <2>5, <2>6 DEF InitDictionaries, Dict!Loop
<1>5. ASSUME NEW e \in Endpoints, Switch(e) PROVE Resolved'
  <2>1. /\ stage' = stage /\ raw' = raw /\ dict' = dict /\ endpoints' = endpoints
        /\ tried' = tried /\ dictionaries' = dictionaries /\ alwaysUp' = alwaysUp \ {e}
    BY <1>5 DEF Switch, Dict!Switch
  <2> QED
    BY <2>1
<1>6. CASE Start
  BY <1>6 DEF Start
<1>7. CASE Restart
  BY <1>7 DEF Restart
<1>8. CASE UNCHANGED vars
  BY <1>2, <1>8 DEF vars
<1>9. CASE Commit
  BY <1>2, <1>9 DEF Commit
<1>10. CASE \/ EnqueueNext \/ \E h \in 1..LastLedger : EnqueueListed(h)
            \/ TakeBlock \/ IndexDatum \/ \E c \in Creations : CreateDynamicDs(c)
            \/ IndexFails \/ Crash
  BY <1>2, <1>10
  DEF EnqueueNext, EnqueueListed, TakeBlock, IndexDatum, CreateDynamicDs, IndexFails, Crash
<1> QED
  BY <1>3, <1>4, <1>5, <1>6, <1>7, <1>8, <1>9, <1>10 DEF Next, NodeStep

LEMMA ResolvedIsGood ==
    ASSUME DictType, Resolved, raw \in Manifests
    PROVE  GoodOnesAreKept
<1> SUFFICES ASSUME dict = "initialised"
             PROVE  /\ Keep(dictionaries, alwaysUp) = Keep(endpoints, alwaysUp)
                    /\ IsPrefix(Keep(raw.dictionary, alwaysUp), Keep(dictionaries, alwaysUp))
  <2>1. \A s, t : Dict!IsPrefix(s, t) = IsPrefix(s, t)
    BY DEF IsPrefix, Dict!IsPrefix
  <2> QED
    BY <2>1, DictKeep DEF GoodOnesAreKept, Dict!GoodOnesAreKept
<1>1. PICK rest \in Seq(Endpoints) : endpoints = raw.dictionary \o rest
  BY DEF Resolved
<1>2. raw.dictionary \in Seq(Endpoints) /\ endpoints \in Seq(Endpoints)
  BY <1>1, ManifestsType
<1>3. tried = Len(endpoints) /\ SubSeq(endpoints, 1, Len(endpoints)) = endpoints
  BY <1>2 DEF Resolved
<1>4. Keep(dictionaries, alwaysUp) = Keep(endpoints, alwaysUp)
  BY <1>3 DEF Resolved
<1>5. Keep(endpoints, alwaysUp) = Keep(raw.dictionary, alwaysUp) \o Keep(rest, alwaysUp)
  BY <1>1, <1>2, KeepConcat
<1>6. Keep(raw.dictionary, alwaysUp) \in Seq(Endpoints) /\ Keep(rest, alwaysUp) \in Seq(Endpoints)
  BY <1>2, KeepType
<1> QED
  BY <1>4, <1>5, <1>6, PrefixOfConcat

-----------------------------------------------------------------------------
(* Data sources. *)

\* The options of a valid data source hold no ill-typed address.
LEMMA ValidAddress ==
    ASSUME NEW ds, ValidRuntimeDs(ds)
    PROVE  Get(Options(ds), "address") # IllTyped
<1>1. CASE Get(ds, "options") = None
  BY <1>1, IllTypedIsNoValue DEF Options, Get
<1>2. CASE Get(ds, "options") # None
  <2>1. Get(ds, "options") = ds.options
    BY <1>2 DEF Get
  <2> QED
    BY <1>2, <2>1 DEF ValidRuntimeDs, ValidOptions, IsOptional, Options
<1> QED
  BY <1>1, <1>2

LEMMA MergeKeys ==
    ASSUME NEW options, NEW args, NEW key
    PROVE  /\ key \in DOMAIN Merge(options, args) <=> key \in DOMAIN options \/ key \in DOMAIN args
           /\ key \in DOMAIN args => Merge(options, args)[key] = args[key]
           /\ key \in DOMAIN options /\ key \notin DOMAIN args =>
                 Merge(options, args)[key] = options[key]
BY DEF Merge

\* What a data source has of its template and of the arguments of the handler.
LEMMA MadeFromTemplate ==
    ASSUME NEW m \in Manifests, NEW c \in CreatedSet, CanBeMade(m, c)
    PROVE  LET t == TemplateOf(m, c)
               u == MadeOf(m, c)
           IN  /\ t \in Range(m.templates)
               /\ u.kind = t.kind /\ u.handlers = t.handlers
               /\ IsRuntimeDs(t) => /\ Get(Options(u), "address") = GivenAddress(t, c.args)
                                    /\ ValidRuntimeDs(u)
<1> DEFINE named == {t \in Range(m.templates) : t.name = c.templateName}
           t == TemplateOf(m, c)
           u == MadeOf(m, c)
<1>1. t \in Range(m.templates)
  <2>1. Keep(m.templates, named) # <<>>
    BY DEF CanBeMade, TemplatesOf
  <2>2. m.templates \in Seq(Range(m.templates))
    BY ManifestsType
  <2> HIDE DEF named
  <2>3. Keep(m.templates, named) \in Seq(Range(m.templates))
    BY <2>2, KeepType
  <2>4. Head(Keep(m.templates, named)) \in Range(m.templates)
    BY <2>1, <2>3
  <2> QED
    BY <2>4 DEF TemplateOf, TemplatesOf, named
<1>2. "kind" \in DOMAIN t /\ "handlers" \in DOMAIN t
  BY <1>1, DataSourcesType
<1> HIDE DEF t
<1>3. \A x, key : key \in {"kind", "handlers"} =>
         /\ Merge(t, [options |-> x])[key] = t[key]
         /\ Merge(t, [processor |-> x])[key] = t[key]
  <2> TAKE x, key
  <2>1. DOMAIN [options |-> x] = {"options"} /\ DOMAIN [processor |-> x] = {"processor"}
    OBVIOUS
  <2> QED
    BY <1>2, <2>1, MergeKeys
<1>4. u = Updated(t, c.args)
  BY DEF MadeOf, t
<1>5. u["kind"] = t["kind"] /\ u["handlers"] = t["handlers"]
  BY <1>3, <1>4 DEF Updated
<1>6. ASSUME IsRuntimeDs(t) PROVE Get(Options(u), "address") = GivenAddress(t, c.args)
  <2> DEFINE options == Merge(Options(t), c.args)
  <2>1. u = Merge(t, [options |-> options])
    BY <1>4, <1>6 DEF Updated, IsCustomDs
  <2>2. options # None
    <3>1. PICK creation \in Creations : c.args = creation.args
      BY DEF CreatedSet
    <3> QED
      BY <1>1, <3>1, NoneIsNoObject
  <2> HIDE DEF options
  <2>3. DOMAIN [options |-> options] = {"options"} /\ [options |-> options]["options"] = options
    OBVIOUS
  <2>4. "options" \in DOMAIN u /\ u["options"] = options
    BY <2>1, <2>3, MergeKeys
  <2>5. Options(u) = options
    BY <2>2, <2>4 DEF Options, Get
  <2>6. Get(options, "address") = GivenAddress(t, c.args)
    <3> USE DEF options
    <3> QED
      BY MergeKeys DEF Get, GivenAddress
  <2> QED
    BY <2>5, <2>6
<1>7. ASSUME IsRuntimeDs(t) PROVE ValidRuntimeDs(u)
  <2>1. ~IsInvalid(t, c.args)
    BY DEF CanBeMade, t
  <2>2. IsRuntimeDs(u)
    BY <1>5, <1>7 DEF IsRuntimeDs
  <2> QED
    BY <1>4, <2>1, <2>2 DEF IsInvalid
<1> QED
  BY <1>1, <1>5, <1>6, <1>7 DEF t

\* The data sources of the node: those of the manifest, then those that handlers made.
LEMMA SourcesInOrder ==
    ASSUME NEW m \in Manifests, NEW list \in Seq(CreatedSet)
    PROVE  /\ Len(m.dataSources) \in Nat /\ Len(list) \in Nat
           /\ Len(Made(m, list)) = Len(list)
           /\ Len(Sources(m, list)) = Size(m, list)
           /\ \A i \in 1..Len(m.dataSources) : Sources(m, list)[i] = m.dataSources[i]
           /\ \A k \in 1..Len(list) :
                 Sources(m, list)[Len(m.dataSources) + k] = MadeOf(m, list[k])
<1> DEFINE S == {MadeOf(m, list[k]) : k \in 1..Len(list)} \union Range(m.dataSources)
<1>1. Len(list) \in Nat
  OBVIOUS
<1>2. m.dataSources \in Seq(Range(m.dataSources))
  BY ManifestsType
<1>3. m.dataSources \in Seq(S)
  BY <1>2
<1>4. Made(m, list) \in [1..Len(list) -> S]
  BY DEF Made
<1>5. \A k \in 1..Len(list) : Made(m, list)[k] = MadeOf(m, list[k])
  BY DEF Made
<1> HIDE DEF S
<1>6. Made(m, list) \in Seq(S) /\ Len(Made(m, list)) = Len(list)
  BY <1>1, <1>4, ListIsSequence
<1>7. Len(m.dataSources) \in Nat
  BY <1>2
<1>8. /\ Len(Sources(m, list)) = Len(m.dataSources) + Len(list)
      /\ \A i \in 1..Len(m.dataSources) : Sources(m, list)[i] = m.dataSources[i]
      /\ \A k \in 1..Len(list) : Sources(m, list)[Len(m.dataSources) + k] = Made(m, list)[k]
  BY <1>3, <1>6, <1>7 DEF Sources
<1> QED
  BY <1>1, <1>5, <1>6, <1>7, <1>8 DEF Size

\* A data source as the node has it and as it was asked for.
LEMMA SourceAsAsked ==
    ASSUME NEW m \in Manifests, NEW list \in Seq(CreatedSet), AllCanBeMade(m, list),
           NEW i \in 1..Size(m, list)
    PROVE  LET ds == Sources(m, list)[i]
               t  == From(m, list, i)
           IN  /\ t \in Range(m.dataSources) \union Range(m.templates)
               /\ ds.kind = t.kind /\ ds.handlers = t.handlers
               /\ IsRuntimeDs(t) => Get(Options(ds), "address") = Address(m, list, i)
               /\ IsRuntimeDs(t) /\ Accepted(m) => ValidRuntimeDs(ds)
<1>1. Len(m.dataSources) \in Nat /\ Len(list) \in Nat
  BY SourcesInOrder
<1>2. CASE i <= Len(m.dataSources)
  <2>1. i \in 1..Len(m.dataSources)
    BY <1>1, <1>2 DEF Size
  <2>2. Sources(m, list)[i] = m.dataSources[i] /\ From(m, list, i) = m.dataSources[i]
    BY <1>2, <2>1, SourcesInOrder DEF From
  <2>3. m.dataSources[i] \in Range(m.dataSources)
    BY <2>1, ManifestsType
  <2>4. IsRuntimeDs(m.dataSources[i]) /\ Accepted(m) => ValidRuntimeDs(m.dataSources[i])
    BY <2>1 DEF Accepted, ValidDeployment, AllOf, ValidDataSource
  <2>5. Address(m, list, i) = Get(Options(m.dataSources[i]), "address")
    BY <1>1, <1>2, <2>1, <2>2 DEF Address
  <2> QED
    BY <2>2, <2>3, <2>4, <2>5
<1>3. CASE ~(i <= Len(m.dataSources))
  <2> DEFINE k == i - Len(m.dataSources)
  <2>1. k \in 1..Len(list) /\ i > Len(m.dataSources) /\ Len(m.dataSources) + k = i
    BY <1>1, <1>3 DEF Size
  <2>2. Sources(m, list)[i] = MadeOf(m, list[k]) /\ From(m, list, i) = TemplateOf(m, list[k])
    BY <2>1, SourcesInOrder DEF From
  <2>3. list[k] \in CreatedSet /\ CanBeMade(m, list[k])
    BY <2>1 DEF AllCanBeMade, Range
  <2>4. Address(m, list, i) = GivenAddress(From(m, list, i), list[k].args)
    BY <2>1 DEF Address
  <2> HIDE DEF k
  <2> QED
    BY <2>2, <2>3, <2>4, MadeFromTemplate
<1> QED
  BY <1>2, <1>3

-----------------------------------------------------------------------------
(* Calls. *)

\* The order of the calls for a datum.
CallOrder ==
    {pair \in CallSet \X CallSet :
        \/ pair[1].ds < pair[2].ds
        \/ pair[1].ds = pair[2].ds /\ pair[1].handler < pair[2].handler}

LEMMA SortedIsInjective ==
    ASSUME NEW s \in Seq(CallSet), Sorted(s, CallOrder)
    PROVE  IsInjective(s)
<1>1. \A c \in CallSet : <<c, c>> \notin CallOrder
  BY DEF CallOrder, CallSet
<1>2. ASSUME NEW i \in 1..Len(s), NEW j \in 1..Len(s), s[i] = s[j] PROVE i = j
  <2>1. s[i] \in CallSet /\ s[j] \in CallSet
    OBVIOUS
  <2>2. ~(i < j) /\ ~(j < i)
    BY <1>1, <1>2, <2>1 DEF Sorted
  <2> QED
    BY <2>2
<1> QED
  BY <1>2 DEF IsInjective

LEMMA CallsOfSource ==
    ASSUME NEW i \in Nat, NEW ds, Len(ds.handlers) \in Nat, NEW h \in Nat, NEW p \in Nat
    PROVE  /\ CallsOf(i, ds, h, p) \in Seq(CallSet)
           /\ Sorted(CallsOf(i, ds, h, p), CallOrder)
           /\ \A c : c \in Range(CallsOf(i, ds, h, p)) <=>
                 \E n \in 1..Len(ds.handlers) :
                    c = Call(i, n, h, p) /\ IsCalled(ds, HandlersOf(ds)[n], Chain[h][p])
<1> DEFINE hs     == HandlersOf(ds)
           all    == [n \in 1..Len(hs) |-> Call(i, n, h, p)]
           called1 == {c \in Range(all) : IsCalled(ds, hs[c.handler], Chain[h][p])}
<1>1. Len(hs) = Len(ds.handlers)
  BY DEF HandlersOf
<1>2. \A n \in 1..Len(hs) :
         /\ Call(i, n, h, p) \in CallSet
         /\ Call(i, n, h, p).ds = i /\ Call(i, n, h, p).handler = n
  <2> TAKE n \in 1..Len(hs)
  <2>1. n \in Nat
    BY <1>1
  <2> QED
    BY <2>1 DEF Call, CallSet
<1> HIDE DEF hs
<1>3. all \in [1..Len(hs) -> CallSet]
  BY <1>2
<1>4. all \in Seq(CallSet) /\ Len(all) = Len(hs) /\ \A n \in 1..Len(hs) : all[n] = Call(i, n, h, p)
  BY <1>1, <1>3, ListIsSequence
<1>5. Sorted(all, CallOrder)
  <2> SUFFICES ASSUME NEW k \in 1..Len(all), NEW n \in 1..Len(all), k < n
               PROVE  <<all[k], all[n]>> \in CallOrder
    BY DEF Sorted
  <2> HIDE DEF all
  <2> QED
    BY <1>2, <1>4 DEF CallOrder
<1>6. CallsOf(i, ds, h, p) = Keep(all, called1)
  BY DEF CallsOf, hs
<1>7. \A c : c \in Range(all) <=> \E n \in 1..Len(hs) : c = Call(i, n, h, p)
  BY <1>4 DEF Range
<1> HIDE DEF all
<1>8. Range(Keep(all, called1)) = Range(all) \intersect called1
  <2> HIDE DEF called1
  <2> QED
    BY <1>4, KeepRange
<1>9. ASSUME NEW c
      PROVE  c \in Range(CallsOf(i, ds, h, p)) <=>
                \E n \in 1..Len(ds.handlers) :
                    c = Call(i, n, h, p) /\ IsCalled(ds, HandlersOf(ds)[n], Chain[h][p])
  BY <1>1, <1>2, <1>6, <1>7, <1>8 DEF hs
<1>10. Keep(all, called1) \in Seq(CallSet) /\ Sorted(Keep(all, called1), CallOrder)
  <2> HIDE DEF called1
  <2> QED
    BY <1>4, <1>5, KeepType, KeepSorted
<1> QED
  BY <1>6, <1>9, <1>10

\* Each handler that is called for a datum is called once.
LEMMA CallsForDatum ==
    ASSUME NEW dss, Len(dss) \in Nat, \A i \in 1..Len(dss) : Len(dss[i].handlers) \in Nat,
           NEW h \in Nat, NEW p \in Nat
    PROVE  /\ CallsFor(dss, h, p) \in Seq(CallSet)
           /\ IsInjective(CallsFor(dss, h, p))
           /\ \A c \in Range(CallsFor(dss, h, p)) :
                 c.ds \in 1..Len(dss) /\ c.height = h /\ c.at = p
           /\ \A i \in 1..Len(dss) : \A n \in 1..Len(dss[i].handlers) :
                 Call(i, n, h, p) \in Range(CallsFor(dss, h, p)) <=>
                    IsCalled(dss[i], HandlersOf(dss[i])[n], Chain[h][p])
<1> DEFINE rows == [i \in 1..Len(dss) |-> CallsOf(i, dss[i], h, p)]
<1>1. CallsFor(dss, h, p) = FlattenSeq(rows)
  BY DEF CallsFor
<1>2. \A i \in 1..Len(dss) :
         /\ rows[i] \in Seq(CallSet)
         /\ Sorted(rows[i], CallOrder)
         /\ \A c : c \in Range(rows[i]) <=>
               \E n \in 1..Len(dss[i].handlers) :
                  c = Call(i, n, h, p) /\ IsCalled(dss[i], HandlersOf(dss[i])[n], Chain[h][p])
  <2> TAKE i \in 1..Len(dss)
  <2>1. rows[i] = CallsOf(i, dss[i], h, p) /\ Len(dss[i].handlers) \in Nat /\ i \in Nat
    OBVIOUS
  <2> HIDE DEF rows
  <2>2. /\ CallsOf(i, dss[i], h, p) \in Seq(CallSet)
        /\ Sorted(CallsOf(i, dss[i], h, p), CallOrder)
        /\ \A c : c \in Range(CallsOf(i, dss[i], h, p)) <=>
              \E n \in 1..Len(dss[i].handlers) :
                 c = Call(i, n, h, p) /\ IsCalled(dss[i], HandlersOf(dss[i])[n], Chain[h][p])
    BY <2>1, CallsOfSource
  <2> QED
    BY <2>1, <2>2
<1>3. rows \in [1..Len(dss) -> Seq(CallSet)]
  BY <1>2
<1>4. rows \in Seq(Seq(CallSet)) /\ Len(rows) = Len(dss)
  BY <1>3, ListIsSequence
<1> HIDE DEF rows
<1>5. \A i \in 1..Len(dss) : \A c \in Range(rows[i]) :
         c \in CallSet /\ c.ds = i /\ c.height = h /\ c.at = p
  <2> SUFFICES ASSUME NEW i \in 1..Len(dss), NEW c \in Range(rows[i])
               PROVE  c \in CallSet /\ c.ds = i /\ c.height = h /\ c.at = p
    OBVIOUS
  <2>1. PICK n \in 1..Len(dss[i].handlers) : c = Call(i, n, h, p)
    BY <1>2
  <2>2. n \in Nat /\ i \in Nat
    OBVIOUS
  <2> QED
    BY <2>1, <2>2 DEF Call, CallSet
<1>6. Sorted(FlattenSeq(rows), CallOrder)
  <2>1. \A i, j \in 1..Len(rows) : i < j =>
           \A x \in Range(rows[i]), y \in Range(rows[j]) : <<x, y>> \in CallOrder
    BY <1>4, <1>5 DEF CallOrder
  <2> QED
    BY <1>2, <1>4, <2>1, FlattenSorted
<1>7. \A c : c \in Range(FlattenSeq(rows)) <=> \E i \in 1..Len(rows) : c \in Range(rows[i])
  <2> TAKE c
  <2> QED
    BY <1>4, FlattenRange
<1>8. FlattenSeq(rows) \in Seq(CallSet)
  BY <1>4, FlattenType
<1>9. ASSUME NEW i \in 1..Len(dss), NEW n \in 1..Len(dss[i].handlers)
      PROVE  Call(i, n, h, p) \in Range(FlattenSeq(rows)) <=>
                IsCalled(dss[i], HandlersOf(dss[i])[n], Chain[h][p])
  <2>1. n \in Nat /\ i \in Nat
    BY <1>9
  <2>2. Call(i, n, h, p).ds = i /\ Call(i, n, h, p).handler = n
    BY <2>1 DEF Call
  <2>3. Call(i, n, h, p) \in Range(FlattenSeq(rows)) <=> Call(i, n, h, p) \in Range(rows[i])
    BY <1>4, <1>5, <1>7, <1>9, <2>2
  <2>4. \A k \in 1..Len(dss[i].handlers) : Call(i, n, h, p) = Call(i, k, h, p) => k = n
    <3> TAKE k \in 1..Len(dss[i].handlers)
    <3>1. k \in Nat
      OBVIOUS
    <3>2. Call(i, k, h, p).handler = k
      BY <2>1, <3>1 DEF Call
    <3> QED
      BY <2>2, <3>2
  <2> QED
    BY <1>2, <1>9, <2>3, <2>4
<1> QED
  BY <1>1, <1>4, <1>5, <1>6, <1>7, <1>8, <1>9, SortedIsInjective

-----------------------------------------------------------------------------
(* Types, and the data sources of a node that is past the manifest. *)

LEMMA ChainFacts ==
    /\ LastLedger \in Nat
    /\ \A h \in 1..LastLedger : Chain[h] \in Seq(Data) /\ Len(Chain[h]) \in Nat
BY ChainType DEF LastLedger

LEMMA SourcesCount ==
    ASSUME NEW m \in Manifests, NEW list \in Seq(CreatedSet), AllCanBeMade(m, list)
    PROVE  /\ Len(Sources(m, list)) = Size(m, list) /\ Size(m, list) \in Nat
           /\ \A i \in 1..Size(m, list) :
                 /\ Len(Sources(m, list)[i].handlers) \in Nat
                 /\ Sources(m, list)[i].handlers = From(m, list, i).handlers
<1>1. Len(Sources(m, list)) = Size(m, list) /\ Size(m, list) \in Nat
  BY SourcesInOrder DEF Size
<1>2. ASSUME NEW i \in 1..Size(m, list)
      PROVE  /\ Len(Sources(m, list)[i].handlers) \in Nat
             /\ Sources(m, list)[i].handlers = From(m, list, i).handlers
  <2>1. /\ From(m, list, i) \in Range(m.dataSources) \union Range(m.templates)
        /\ Sources(m, list)[i].handlers = From(m, list, i).handlers
    BY <1>2, SourceAsAsked
  <2>2. \A ds \in Range(m.dataSources) \union Range(m.templates) : Len(ds.handlers) \in Nat
    BY DataSourcesType
  <2> QED
    BY <2>1, <2>2
<1> QED
  BY <1>1, <1>2

LEMMA MadeAppend ==
    ASSUME NEW m, NEW list \in Seq(CreatedSet), NEW c \in CreatedSet
    PROVE  Made(m, Append(list, c)) = Append(Made(m, list), MadeOf(m, c))
<1> DEFINE S == {MadeOf(m, x) : x \in CreatedSet}
           longer == Append(list, c)
<1>1. /\ longer \in Seq(CreatedSet) /\ Len(list) \in Nat /\ Len(longer) = Len(list) + 1
      /\ \A k \in 1..Len(list) : longer[k] = list[k]
      /\ longer[Len(list) + 1] = c
  BY AppendProperties
<1> HIDE DEF longer
<1>2. \A l \in Seq(CreatedSet) :
         /\ Made(m, l) \in Seq(S) /\ Len(Made(m, l)) = Len(l)
         /\ \A k \in 1..Len(l) : Made(m, l)[k] = MadeOf(m, l[k])
  <2> TAKE l \in Seq(CreatedSet)
  <2>1. Made(m, l) \in [1..Len(l) -> S]
    BY DEF Made
  <2>2. Len(l) \in Nat
    OBVIOUS
  <2> HIDE DEF S
  <2>3. Made(m, l) \in Seq(S) /\ Len(Made(m, l)) = Len(l)
    BY <2>1, <2>2, ListIsSequence
  <2> QED
    BY <2>3 DEF Made
<1>3. MadeOf(m, c) \in S
  OBVIOUS
<1> HIDE DEF S
<1> DEFINE u == Made(m, list)
<1>4. u \in Seq(S) /\ Len(u) = Len(list)
  BY <1>2
<1> HIDE DEF u
<1> DEFINE v == Append(u, MadeOf(m, c))
<1>5. /\ v \in Seq(S) /\ Len(v) = Len(u) + 1
      /\ \A k \in 1..Len(u) : v[k] = u[k]
      /\ v[Len(u) + 1] = MadeOf(m, c)
  BY <1>3, <1>4, AppendProperties
<1> HIDE DEF v
<1>6. \A k \in 1..Len(longer) : Made(m, longer)[k] = v[k]
  BY <1>1, <1>2, <1>4, <1>5 DEF u
<1>7. Made(m, longer) \in Seq(S) /\ Len(Made(m, longer)) = Len(longer) /\ Len(v) = Len(longer)
  BY <1>1, <1>2, <1>4, <1>5
<1>8. Made(m, longer) = v
  BY <1>5, <1>6, <1>7, SeqEqual
<1> QED
  BY <1>8 DEF longer, u, v

\* What a handler asks for, as the database has it.
Asking(c, h, p) == [templateName |-> c.templateName, args |-> c.args, height |-> h, at |-> p]

LEMMA AskedFor ==
    ASSUME NEW c \in Creations, NEW h \in 1..LastLedger, NEW p \in Nat
    PROVE  /\ Asking(c, h, p) \in CreatedSet
           /\ Creatable(c) => CanBeMade(raw, Asking(c, h, p))
           /\ Create(c) = MadeOf(raw, Asking(c, h, p))
           /\ Asking(c, h, p).height = h /\ Asking(c, h, p).at = p
<1>1. Asking(c, h, p) \in CreatedSet
  BY DEF Asking, CreatedSet
<1>2. /\ Asking(c, h, p).templateName = c.templateName /\ Asking(c, h, p).args = c.args
      /\ Asking(c, h, p).height = h /\ Asking(c, h, p).at = p
  BY DEF Asking
<1>3. TemplatesOf(raw, c.templateName) = Templates(c.templateName)
  BY DEF TemplatesOf, Templates
<1> QED
  BY <1>1, <1>2, <1>3 DEF Creatable, CanBeMade, Create, MadeOf, TemplateOf

LEMMA LoadedAgain ==
    ASSUME NEW list \in Seq(CreatedSet)
    PROVE  /\ (\A k \in 1..Len(list) : Creatable(list[k])) <=> AllCanBeMade(raw, list)
           /\ [k \in 1..Len(list) |-> Create(list[k])] = Made(raw, list)
<1>1. \A c : (Creatable(c) <=> CanBeMade(raw, c)) /\ Create(c) = MadeOf(raw, c)
  BY DEF Creatable, CanBeMade, Create, MadeOf, TemplateOf, TemplatesOf, Templates
<1> QED
  BY <1>1 DEF AllCanBeMade, Made, Range

LEMMA TypesInit == ASSUME Init PROVE Types
<1>1. /\ LastLedger \in Nat /\ MaxRestarts \in Nat /\ MaxCreated \in Nat
  BY ChainFacts, BoundsType
<1>2. Dict!TypeOK
  BY DEF Init, Dict!TypeOK
<1>3. <<>> \in Seq(1..LastLedger) /\ <<>> \in Seq(CreatedSet) /\ <<>> \in Seq(CallSet)
  OBVIOUS
<1> QED
  BY <1>1, <1>2, <1>3 DEF Init, Types, TypeOK

LEMMA LoadedInit == ASSUME Init PROVE Loaded
<1>1. <<>> \o <<>> = <<>>
  OBVIOUS
<1> QED
  BY <1>1 DEF Init, Loaded, AllCanBeMade, Range

\* The data sources of the node grow with the list of those that were asked for.
LEMMA LoadedStep == ASSUME Types, Loaded, [Next]_vars PROVE Loaded'
<1>1. /\ raw \in Manifests /\ saved \in Seq(CreatedSet) /\ created \in Seq(CreatedSet)
      /\ saved \o created \in Seq(CreatedSet) /\ saved \o <<>> = saved
      /\ block \in 0..LastLedger /\ LastLedger \in Nat
  BY ChainFacts DEF Types, TypeOK
<1> USE DEF Loaded
<1>2. CASE UNCHANGED <<raw, saved, dynamicDs, created>> /\ stage' \in {stage, "stopped"}
  BY <1>2
<1>3. CASE Parse
  BY <1>3 DEF Parse, database, sources
<1>4. CASE Load
  <2>1. raw' = raw /\ saved' = saved /\ created' = created /\ stage = "loading"
    BY <1>4 DEF Load, database
  <2>2. created = <<>> /\ dynamicDs = <<>>
    BY <2>1 DEF Types
  <2>3. CASE \A k \in 1..Len(saved) : Creatable(saved[k])
    BY <1>1, <1>4, <2>1, <2>2, <2>3, LoadedAgain DEF Load
  <2>4. CASE ~\A k \in 1..Len(saved) : Creatable(saved[k])
    BY <1>4, <2>1, <2>2, <2>4 DEF Load
  <2> QED
    BY <2>3, <2>4
<1>5. CASE Start
  BY <1>5 DEF Start, database
<1>6. ASSUME NEW c \in Creations, CreateDynamicDs(c) PROVE Loaded'
  <2> DEFINE r == Asking(c, block, at + 1)
             list == saved \o created
  <2>1. /\ raw' = raw /\ saved' = saved /\ stage' = stage /\ stage = "running"
        /\ created' = Append(created, r) /\ dynamicDs' = Append(dynamicDs, Create(c))
        /\ Creatable(c) /\ block # 0
    BY <1>6 DEF CreateDynamicDs, Indexing, database, Asking
  <2>2. block \in 1..LastLedger /\ at + 1 \in Nat
    BY <1>1, <2>1, ChainFacts DEF Types, TypeOK
  <2>3. r \in CreatedSet /\ CanBeMade(raw, r) /\ Create(c) = MadeOf(raw, r)
    BY <1>6, <2>1, <2>2, AskedFor
  <2> HIDE DEF r
  <2>4. saved' \o created' = Append(list, r)
    BY <1>1, <2>1, <2>3
  <2>5. list \in Seq(CreatedSet)
    BY <1>1
  <2>6. AllCanBeMade(raw, list) /\ dynamicDs = Made(raw, list)
    BY <2>1
  <2> HIDE DEF list
  <2>7. \A x \in Range(Append(list, r)) : x \in Range(list) \/ x = r
    BY <2>3, <2>5, AppendProperties DEF Range
  <2>8. AllCanBeMade(raw, Append(list, r))
    BY <2>3, <2>6, <2>7 DEF AllCanBeMade
  <2>9. dynamicDs' = Made(raw, Append(list, r))
    BY <2>1, <2>3, <2>5, <2>6, MadeAppend
  <2> QED
    BY <2>1, <2>4, <2>8, <2>9
<1>7. CASE Commit
  <2>1. /\ raw' = raw /\ saved' = saved \o created /\ created' = <<>> /\ dynamicDs' = dynamicDs
        /\ stage = "running" /\ stage' \in {stage, "stopped"}
    BY <1>7 DEF Commit
  <2>2. (saved \o created) \o <<>> = saved \o created
    BY <1>1
  <2> QED
    BY <2>1, <2>2
<1>8. CASE Restart
  <2>1. raw' = raw /\ saved' = saved /\ created' = <<>> /\ stage' = "parsing"
    BY <1>8 DEF Restart, database
  <2>2. \A x \in Range(saved) : x \in Range(saved \o created)
    <3>1. Range(saved \o created) = Range(saved) \union Range(created)
      BY <1>1, RangeConcatenation
    <3> QED
      BY <3>1
  <2>3. AllCanBeMade(raw, saved)
    BY <2>2 DEF AllCanBeMade
  <2> QED
    BY <1>1, <2>1, <2>3
<1>9. CASE UNCHANGED vars
  BY <1>2, <1>9 DEF vars, database, sources
<1>10. CASE \/ InitDictionaries \/ \E e \in Endpoints : Switch(e)
            \/ EnqueueNext \/ \E h \in 1..LastLedger : EnqueueListed(h)
            \/ TakeBlock \/ IndexDatum \/ IndexFails \/ Crash
  BY <1>2, <1>10 DEF InitDictionaries, Switch, EnqueueNext, EnqueueListed, TakeBlock, IndexDatum,
                     IndexFails, Crash, database, sources
<1> QED
  BY <1>3, <1>4, <1>5, <1>6, <1>7, <1>8, <1>9, <1>10 DEF Next, NodeStep

LEMMA CallsForSources ==
    ASSUME NEW m \in Manifests, NEW list \in Seq(CreatedSet), AllCanBeMade(m, list),
           NEW h \in Nat, NEW p \in Nat
    PROVE  /\ CallsFor(Sources(m, list), h, p) \in Seq(CallSet)
           /\ IsInjective(CallsFor(Sources(m, list), h, p))
           /\ \A c \in Range(CallsFor(Sources(m, list), h, p)) :
                 c.ds \in 1..Size(m, list) /\ c.height = h /\ c.at = p
           /\ \A i \in 1..Size(m, list) : \A n \in 1..Len(Sources(m, list)[i].handlers) :
                 Call(i, n, h, p) \in Range(CallsFor(Sources(m, list), h, p)) <=>
                    IsCalled(Sources(m, list)[i], HandlersOf(Sources(m, list)[i])[n], Chain[h][p])
<1> DEFINE dss == Sources(m, list)
<1>1. /\ Len(dss) = Size(m, list) /\ Len(dss) \in Nat
      /\ \A i \in 1..Len(dss) : Len(dss[i].handlers) \in Nat
  BY SourcesCount
<1> HIDE DEF dss
<1>2. /\ CallsFor(dss, h, p) \in Seq(CallSet)
      /\ IsInjective(CallsFor(dss, h, p))
      /\ \A c \in Range(CallsFor(dss, h, p)) :
            c.ds \in 1..Len(dss) /\ c.height = h /\ c.at = p
      /\ \A i \in 1..Len(dss) : \A n \in 1..Len(dss[i].handlers) :
            Call(i, n, h, p) \in Range(CallsFor(dss, h, p)) <=>
               IsCalled(dss[i], HandlersOf(dss[i])[n], Chain[h][p])
  BY <1>1, CallsForDatum
<1> QED
  BY <1>1, <1>2 DEF dss

LEMMA HeightsType ==
    ASSUME NEW S, NEW first \in Nat, NEW last \in Nat, first <= last + 1, first..last \subseteq S
    PROVE  /\ Heights(first, last) \in Seq(S)
           /\ Len(Heights(first, last)) = last - first + 1
           /\ \A i \in 1..last - first + 1 : Heights(first, last)[i] = first + i - 1
<1>1. last - first + 1 \in Nat
  OBVIOUS
<1>2. Heights(first, last) \in [1..last - first + 1 -> S]
  BY DEF Heights
<1>3. Heights(first, last) \in Seq(S) /\ Len(Heights(first, last)) = last - first + 1
  BY <1>1, <1>2, ListIsSequence
<1> QED
  BY <1>3 DEF Heights

LEMMA TypesStep ==
    ASSUME Types, Loaded, Resolved, Loaded', [Next]_vars
    PROVE  Types'
<1>1. /\ raw \in Manifests /\ processed \in 0..LastLedger
      /\ nextHeight \in 1..LastLedger + 1 /\ queue \in Seq(1..LastLedger)
      /\ block \in 0..LastLedger /\ at \in 0..(IF block = 0 THEN 0 ELSE Len(Chain[block]))
      /\ Len(dynamicDs) <= MaxCreated /\ restarts \in 0..MaxRestarts /\ DictType
      /\ saved \in Seq(CreatedSet) /\ created \in Seq(CreatedSet)
      /\ called \in Seq(CallSet) /\ calls \in Seq(CallSet)
      /\ Len(saved) + Len(created) <= MaxCreated
      /\ block = 0 => created = <<>> /\ calls = <<>>
  BY DEF Types, TypeOK, DictType
<1>2. /\ LastLedger \in Nat /\ MaxRestarts \in Nat /\ MaxCreated \in Nat
      /\ \A h \in 1..LastLedger : Len(Chain[h]) \in Nat
      /\ Len(saved) \in Nat /\ Len(created) \in Nat /\ at \in Nat
  BY <1>1, ChainFacts, BoundsType
<1>3. saved \o created \in Seq(CreatedSet)
  BY <1>1
<1>4. UNCHANGED <<raw, startUp>> => DictType'
  BY <1>1 DEF startUp, DictType, Dict!TypeOK
<1>5. SUFFICES /\ stage' \in {"parsing", "loading", "dictionaries", "running", "stopped"}
               /\ raw' \in Manifests /\ processed' \in 0..LastLedger
               /\ nextHeight' \in 1..LastLedger + 1 /\ queue' \in Seq(1..LastLedger)
               /\ block' \in 0..LastLedger
               /\ at' \in 0..(IF block' = 0 THEN 0 ELSE Len(Chain[block']))
               /\ Len(dynamicDs') <= MaxCreated /\ restarts' \in 0..MaxRestarts /\ DictType'
               /\ saved' \in Seq(CreatedSet) /\ created' \in Seq(CreatedSet)
               /\ called' \in Seq(CallSet) /\ calls' \in Seq(CallSet)
               /\ Len(saved') + Len(created') <= MaxCreated
               /\ block' = 0 => created' = <<>> /\ calls' = <<>>
               /\ stage' \in {"parsing", "loading", "dictionaries"} => block' = 0 /\ queue' = <<>>
               /\ stage' \in {"parsing", "loading"} => dynamicDs' = <<>>
  BY DEF Types, TypeOK, DictType
<1>6. CASE Parse
  BY <1>1, <1>4, <1>6 DEF Parse, database, heights, sources, Types
<1>7. CASE Load
  <2>1. Len(dynamicDs') <= MaxCreated
    <3>1. CASE \A k \in 1..Len(saved) : Creatable(saved[k])
      <4>1. dynamicDs' = Made(raw, saved)
        BY <1>1, <1>7, <3>1, LoadedAgain DEF Load
      <4> QED
        BY <1>1, <1>2, <4>1, SourcesInOrder
    <3>2. CASE ~\A k \in 1..Len(saved) : Creatable(saved[k])
      BY <1>1, <1>7, <3>2 DEF Load
    <3> QED
      BY <3>1, <3>2
  <2>2. stage' \in {"dictionaries", "stopped"} /\ nextHeight' \in 1..LastLedger + 1
    BY <1>1, <1>2, <1>7 DEF Load
  <2>3. block = 0 /\ queue = <<>>
    BY <1>7 DEF Load, Types
  <2> QED
    BY <1>1, <1>4, <1>7, <2>1, <2>2, <2>3 DEF Load, database
<1>8. CASE InitDictionaries \/ \E e \in Endpoints : Switch(e)
  <2>1. DictType'
    BY <1>1, <1>8, DictTypes
  <2> QED
    BY <1>1, <1>8, <2>1 DEF InitDictionaries, Switch, database, heights, sources, Types
<1>9. CASE Start
  <2>1. DictType'
    <3>1. <<>> \in Seq(Endpoints) /\ 0 \in 0..Len(<<>>)
      OBVIOUS
    <3> QED
      BY <1>1, <1>9, <3>1 DEF Start, DictType, Dict!TypeOK
  <2> QED
    BY <1>1, <1>9, <2>1 DEF Start, database, heights, Types
<1>10. ASSUME NEW h \in 1..LastLedger, EnqueueListed(h)
       PROVE  /\ queue' \in Seq(1..LastLedger) /\ nextHeight' \in 1..LastLedger + 1
  <2> DEFINE listed == {n \in nextHeight..h : Listed(n)}
  <2>1. /\ h \in nextHeight..LastLedger /\ nextHeight' = h + 1
        /\ queue' = queue \o Keep(Heights(nextHeight, h), listed)
    BY <1>10 DEF EnqueueListed
  <2> HIDE DEF listed
  <2>2. nextHeight..h \subseteq 1..LastLedger
    BY <1>1, <1>2, <2>1
  <2>3. nextHeight \in Nat /\ h \in Nat /\ nextHeight <= h + 1
    BY <1>1, <1>2, <2>1
  <2>4. Heights(nextHeight, h) \in Seq(1..LastLedger)
    BY <2>2, <2>3, HeightsType
  <2>5. Keep(Heights(nextHeight, h), listed) \in Seq(1..LastLedger)
    BY <2>4, KeepType
  <2> QED
    BY <1>1, <1>2, <2>1, <2>5
<1>11. CASE EnqueueNext \/ \E h \in 1..LastLedger : EnqueueListed(h)
  <2>1. queue' \in Seq(1..LastLedger) /\ nextHeight' \in 1..LastLedger + 1
    <3>1. CASE EnqueueNext
      <4>1. nextHeight \in 1..LastLedger /\ queue' = Append(queue, nextHeight)
            /\ nextHeight' = nextHeight + 1
        BY <1>1, <1>2, <3>1 DEF EnqueueNext
      <4>2. Append(queue, nextHeight) \in Seq(1..LastLedger)
        BY <1>1, <4>1, AppendProperties
      <4> QED
        BY <1>2, <4>1, <4>2
    <3> QED
      BY <1>10, <1>11, <3>1
  <2> QED
    BY <1>1, <1>4, <1>11, <2>1 DEF EnqueueNext, EnqueueListed, database, sources
<1>12. CASE TakeBlock
  <2>1. Head(queue) \in 1..LastLedger /\ Tail(queue) \in Seq(1..LastLedger)
    BY <1>1, <1>12, HeadTailProperties DEF TakeBlock
  <2>2. at = 0 /\ 0 \in 0..Len(Chain[Head(queue)])
    BY <1>1, <1>2, <1>12, <2>1 DEF TakeBlock
  <2> QED
    BY <1>1, <1>2, <1>4, <1>12, <2>1, <2>2 DEF TakeBlock, database, sources
<1>13. CASE IndexDatum
  <2>1. /\ stage = "running" /\ block # 0 /\ at < Len(Chain[block])
        /\ calls' = calls \o CallsFor(DataSources, block, at + 1) /\ at' = at + 1
        /\ block' = block
    BY <1>13 DEF IndexDatum, Indexing
  <2>2. DataSources = Sources(raw, saved \o created) /\ AllCanBeMade(raw, saved \o created)
    BY <2>1 DEF Loaded, DataSources, Sources
  <2>3. CallsFor(DataSources, block, at + 1) \in Seq(CallSet)
    <3>1. block \in Nat /\ at + 1 \in Nat
      BY <1>1, <1>2
    <3> QED
      BY <1>1, <1>3, <2>2, <3>1, CallsForSources
  <2>4. calls' \in Seq(CallSet) /\ at' \in 0..(IF block' = 0 THEN 0 ELSE Len(Chain[block']))
    BY <1>1, <1>2, <2>1, <2>3
  <2> QED
    BY <1>1, <1>4, <1>13, <2>1, <2>4 DEF IndexDatum, database, sources
<1>14. ASSUME NEW c \in Creations, CreateDynamicDs(c)
       PROVE  /\ created' \in Seq(CreatedSet) /\ Len(created') = Len(created) + 1
              /\ calls' \in Seq(CallSet) /\ Len(dynamicDs') <= MaxCreated
              /\ Len(saved) + Len(created) < MaxCreated
              /\ at' \in 0..(IF block' = 0 THEN 0 ELSE Len(Chain[block']))
  <2> DEFINE r == Asking(c, block, at + 1)
             dss == raw.dataSources \o dynamicDs'
  <2>1. /\ stage = "running" /\ stage' = stage /\ block # 0 /\ at < Len(Chain[block])
        /\ raw' = raw /\ saved' = saved /\ block' = block /\ at' = at + 1
        /\ created' = Append(created, r)
        /\ calls' = calls \o CallsFor(dss, block, at + 1)
        /\ Len(dynamicDs) < MaxCreated
    BY <1>14 DEF CreateDynamicDs, Indexing, database, Asking
  <2>2. r \in CreatedSet
    <3>1. block \in 1..LastLedger /\ at + 1 \in Nat
      BY <1>1, <1>2, <2>1
    <3> QED
      BY <1>14, <3>1, AskedFor
  <2> HIDE DEF r
  <2>3. created' \in Seq(CreatedSet) /\ Len(created') = Len(created) + 1
    BY <1>1, <2>1, <2>2
  <2>4. saved' \o created' \in Seq(CreatedSet) /\ Len(saved' \o created') = Len(saved) + Len(created')
    BY <1>1, <2>1, <2>3
  <2>5. dss = Sources(raw, saved' \o created') /\ AllCanBeMade(raw, saved' \o created')
    BY <2>1 DEF Loaded, Sources
  <2>6. CallsFor(dss, block, at + 1) \in Seq(CallSet)
    <3>1. block \in Nat /\ at + 1 \in Nat
      BY <1>1, <1>2
    <3> HIDE DEF dss
    <3>2. PICK list \in Seq(CreatedSet) : dss = Sources(raw, list) /\ AllCanBeMade(raw, list)
      BY <2>4, <2>5
    <3> QED
      BY <1>1, <3>1, <3>2, CallsForSources
  <2> HIDE DEF dss
  <2>7. Len(dynamicDs) = Len(saved) + Len(created)
    <3>1. dynamicDs = Made(raw, saved \o created)
      BY <2>1 DEF Loaded
    <3>2. Len(saved \o created) = Len(saved) + Len(created)
      BY <1>1
    <3> QED
      BY <1>1, <1>3, <3>1, <3>2, SourcesInOrder
  <2>8. Len(dynamicDs') = Len(saved) + Len(created) + 1
    <3>1. dynamicDs' = Made(raw, saved' \o created')
      BY <2>1 DEF Loaded
    <3>2. PICK list \in Seq(CreatedSet) : list = saved' \o created'
      BY <2>4
    <3>3. Len(Made(raw, list)) = Len(list)
      BY <1>1, SourcesInOrder
    <3> QED
      BY <1>2, <2>3, <2>4, <3>1, <3>2, <3>3
  <2> QED
    BY <1>1, <1>2, <2>1, <2>3, <2>6, <2>7, <2>8
<1>15. CASE \E c \in Creations : CreateDynamicDs(c)
  <2>1. PICK c \in Creations : CreateDynamicDs(c)
    BY <1>15
  <2>2. /\ stage = "running" /\ stage' = stage /\ block' = block /\ block # 0
    BY <2>1 DEF CreateDynamicDs, Indexing
  <2>3. UNCHANGED <<raw, saved, processed, called, nextHeight, queue, restarts, startUp>>
    BY <2>1 DEF CreateDynamicDs, database
  <2> QED
    BY <1>1, <1>2, <1>4, <1>14, <2>1, <2>2, <2>3
<1>16. CASE IndexFails \/ Crash
  BY <1>1, <1>4, <1>16 DEF IndexFails, Crash, database, heights, sources
<1>17. CASE Commit
  <2>1. /\ stage = "running" /\ stage' \in {"running", "stopped"}
        /\ called' = called \o calls /\ saved' = saved \o created /\ processed' = block /\ block # 0
        /\ block' = 0 /\ at' = 0 /\ calls' = <<>> /\ created' = <<>>
        /\ raw' = raw /\ dynamicDs' = dynamicDs /\ restarts' = restarts
    BY <1>17 DEF Commit
  <2>2. queue' \in Seq(1..LastLedger) /\ nextHeight' \in 1..LastLedger + 1
    <3>1. block + 1 \in 1..LastLedger + 1 /\ <<>> \in Seq(1..LastLedger)
      BY <1>1, <1>2, <2>1
    <3>2. CASE created = <<>>
      BY <1>1, <1>17, <3>2 DEF Commit
    <3>3. CASE created # <<>>
      BY <1>17, <3>1, <3>3 DEF Commit
    <3> QED
      BY <3>2, <3>3
  <2>3. DictType'
    BY <1>4, <1>17 DEF Commit
  <2>4. called' \in Seq(CallSet) /\ Len(saved') = Len(saved) + Len(created)
    BY <1>1, <2>1
  <2> QED
    BY <1>1, <1>2, <1>3, <2>1, <2>2, <2>3, <2>4
<1>18. CASE Restart
  <2>1. DictType'
    <3>1. <<>> \in Seq(Endpoints) /\ 0 \in 0..Len(<<>>)
      OBVIOUS
    <3> QED
      BY <1>1, <1>18, <3>1 DEF Restart, DictType, Dict!TypeOK
  <2> QED
    BY <1>1, <1>2, <1>18, <2>1 DEF Restart, database
<1>19. CASE UNCHANGED vars
  BY <1>1, <1>4, <1>19 DEF vars, database, heights, sources, Types, TypeOK
<1> QED
  BY <1>6, <1>7, <1>8, <1>9, <1>11, <1>12, <1>13, <1>15, <1>16, <1>17, <1>18, <1>19
  DEF Next, NodeStep

-----------------------------------------------------------------------------
(* What follows for types, dictionaries and filters. *)

StartInv == Types /\ Loaded /\ Resolved

LEMMA StartInvInit == Init => StartInv
BY TypesInit, LoadedInit, ResolvedInit DEF StartInv

LEMMA StartInvStep == StartInv /\ [Next]_vars => StartInv'
<1> SUFFICES ASSUME StartInv, [Next]_vars PROVE StartInv'
  OBVIOUS
<1>1. raw \in Manifests /\ DictType
  BY DEF StartInv, Types, TypeOK, DictType
<1>2. Loaded' /\ Resolved'
  BY <1>1, LoadedStep, ResolvedStep DEF StartInv
<1>3. Types'
  BY <1>2, TypesStep DEF StartInv
<1> QED
  BY <1>2, <1>3 DEF StartInv

\* Whatever happens to start-up, dictionaries, blocks and handlers, the state is
\* well-formed: heights stay within the chain, the position within the block, and the
\* data sources made by handlers within their bound, over all crashes and restarts.
THEOREM TypeCorrect == Spec => []TypeOK
<1>1. StartInv => TypeOK
  BY DEF StartInv, Types
<1> QED
  BY <1>1, StartInvInit, StartInvStep, PTL DEF Spec

\* Start-up keeps every dictionary that answers all the time, in the order of the
\* lists, however many others do not answer, whatever the manifest and the registry.
THEOREM DictionariesKept == Spec => []GoodOnesAreKept
<1>1. StartInv => GoodOnesAreKept
  BY ResolvedIsGood DEF StartInv, Types, TypeOK, DictType
<1> QED
  BY <1>1, StartInvInit, StartInvStep, PTL DEF Spec

LEMMA NoSourceThrows ==
    ASSUME NEW m \in Manifests, Accepted(m), NEW list \in Seq(CreatedSet), AllCanBeMade(m, list),
           NEW i \in 1..Size(m, list), IsRuntimeDs(Sources(m, list)[i]),
           NEW n \in 1..Len(Sources(m, list)[i].handlers), NEW d
    PROVE  ~FilterThrows(HandlersOf(Sources(m, list)[i])[n], d)
<1> DEFINE ds == Sources(m, list)[i]
<1>1. ValidRuntimeDs(ds)
  BY SourceAsAsked DEF IsRuntimeDs
<1> HIDE DEF ds
<1>2. Get(Options(ds), "address") # IllTyped
  BY <1>1, ValidAddress
<1>3. HandlersOf(ds)[n].address = Get(Options(ds), "address")
  BY DEF HandlersOf, ds
<1> QED
  BY <1>2, <1>3 DEF FilterThrows, ds

\* No filter of a running node throws: what updateDynamicDs and the manifest let through
\* is fit for the filters, for every manifest, every chain, every argument a handler
\* gives and any number of crashes and restarts.
THEOREM NoFilterEverThrows == Spec => []NoFilterThrows
<1>1. StartInv => NoFilterThrows
  <2> SUFFICES ASSUME StartInv, stage = "running" PROVE NoFilterThrows
    BY DEF NoFilterThrows
  <2> DEFINE list == saved \o created
  <2>1. raw \in Manifests /\ Accepted(raw) /\ list \in Seq(CreatedSet) /\ AllCanBeMade(raw, list)
    BY DEF StartInv, Types, TypeOK, Loaded
  <2>2. DataSources = Sources(raw, list)
    BY DEF StartInv, Loaded, DataSources, Sources
  <2> HIDE DEF list
  <2>3. Len(DataSources) = Size(raw, list)
    BY <2>1, <2>2, SourcesInOrder
  <2> QED
    BY <2>1, <2>2, <2>3, NoSourceThrows DEF NoFilterThrows
<1> QED
  BY <1>1, StartInvInit, StartInvStep, PTL DEF Spec

-----------------------------------------------------------------------------
(* Lists of created data sources that get longer. *)

LEMMA SameSource ==
    ASSUME NEW m \in Manifests, NEW list \in Seq(CreatedSet), NEW more \in Seq(CreatedSet),
           NEW i \in 1..Size(m, list)
    PROVE  /\ From(m, list \o more, i) = From(m, list, i)
           /\ Address(m, list \o more, i) = Address(m, list, i)
           /\ \A h, p : Active(m, list \o more, i, h, p) = Active(m, list, i, h, p)
           /\ \A n, d : Due(m, list \o more, i, n, d) = Due(m, list, i, n, d)
           /\ \A n : IsListed(m, list \o more, i, n) = IsListed(m, list, i, n)
<1> DEFINE longer == list \o more
           k      == i - Len(m.dataSources)
<1>1. Len(m.dataSources) \in Nat /\ Len(list) \in Nat
  BY SourcesInOrder
<1>2. i > Len(m.dataSources) => longer[k] = list[k]
  <2> SUFFICES ASSUME i > Len(m.dataSources) PROVE longer[k] = list[k]
    OBVIOUS
  <2>1. k \in 1..Len(list)
    BY <1>1 DEF Size
  <2> QED
    BY <2>1
<1> HIDE DEF longer
<1>3. From(m, longer, i) = From(m, list, i)
  BY <1>2 DEF From
<1>4. Address(m, longer, i) = Address(m, list, i)
  BY <1>2, <1>3 DEF Address
<1>5. \A h, p : Active(m, longer, i, h, p) = Active(m, list, i, h, p)
  BY <1>2 DEF Active
<1> QED
  BY <1>3, <1>4, <1>5 DEF Due, IsListed, longer

LEMMA LaterSource ==
    ASSUME NEW m \in Manifests, NEW list \in Seq(CreatedSet), NEW more \in Seq(CreatedSet)
    PROVE  /\ list \o more \in Seq(CreatedSet)
           /\ Size(m, list) \in Nat /\ Len(more) \in Nat
           /\ Size(m, list \o more) = Size(m, list) + Len(more)
           /\ \A i \in Size(m, list) + 1..Size(m, list \o more) :
                 \E c \in Range(more) : \A h, p :
                    Active(m, list \o more, i, h, p) <=>
                       c.height < h \/ (c.height = h /\ c.at <= p)
<1> DEFINE concat == list \o more
<1>0. /\ concat \in Seq(CreatedSet) /\ Len(concat) = Len(list) + Len(more)
      /\ \A j \in 1..Len(more) : concat[Len(list) + j] = more[j]
  OBVIOUS
<1> HIDE DEF concat
<1>1. PICK longer \in Seq(CreatedSet) :
         /\ longer = concat /\ Len(longer) = Len(list) + Len(more)
         /\ \A j \in 1..Len(more) : longer[Len(list) + j] = more[j]
  BY <1>0
<1>2. Len(m.dataSources) \in Nat /\ Len(list) \in Nat /\ Len(more) \in Nat
  BY SourcesInOrder
<1>3. Size(m, list) = Len(m.dataSources) + Len(list) /\ Size(m, longer) = Len(m.dataSources) + Len(longer)
  BY DEF Size
<1>4. Size(m, list) \in Nat /\ Size(m, longer) = Size(m, list) + Len(more)
  <2>1. \A x, y, z \in Nat : x + y \in Nat /\ x + (y + z) = (x + y) + z
    OBVIOUS
  <2>2. Size(m, longer) = Len(m.dataSources) + (Len(list) + Len(more))
    BY <1>1, <1>3
  <2> QED
    BY <1>2, <1>3, <2>1, <2>2
<1>5. ASSUME NEW i \in Size(m, list) + 1..Size(m, longer)
      PROVE  \E c \in Range(more) : \A h, p :
                Active(m, longer, i, h, p) <=>
                   c.height < h \/ (c.height = h /\ c.at <= p)
  <2>1. PICK j \in 1..Len(more) : i = Len(m.dataSources) + Len(list) + j
    <3>1. \A x, y \in Nat : \A k \in x + 1..x + y : k - x \in 1..y /\ k = x + (k - x)
      OBVIOUS
    <3>2. i - Size(m, list) \in 1..Len(more) /\ i = Size(m, list) + (i - Size(m, list))
      BY <1>2, <1>4, <1>5, <3>1
    <3> QED
      BY <1>3, <3>2
  <2>2. PICK k \in Nat : k = Len(list) + j /\ i - Len(m.dataSources) = k /\ i > Len(m.dataSources)
    BY <1>2, <2>1
  <2>3. longer[k] = more[j] /\ more[j] \in Range(more)
    BY <1>1, <2>1, <2>2 DEF Range
  <2>4. \A h, p : Active(m, longer, i, h, p) <=>
                     more[j].height < h \/ (more[j].height = h /\ more[j].at <= p)
    BY <2>2, <2>3 DEF Active
  <2> QED
    BY <2>3, <2>4
<1> QED
  BY <1>1, <1>2, <1>4, <1>5 DEF concat

\* The data sources of the list get everything after the datum they were made with.
LEMMA AllActive ==
    ASSUME NEW m \in Manifests, NEW list \in Seq(CreatedSet), NEW h \in Nat, NEW p \in Nat,
           \A c \in Range(list) : c.height < h \/ (c.height = h /\ c.at <= p),
           NEW i \in 1..Size(m, list)
    PROVE  Active(m, list, i, h, p)
<1>1. Len(m.dataSources) \in Nat /\ Len(list) \in Nat
  BY SourcesInOrder
<1>2. CASE i > Len(m.dataSources)
  <2> DEFINE k == i - Len(m.dataSources)
  <2>1. k \in 1..Len(list)
    BY <1>1, <1>2 DEF Size
  <2>2. list[k] \in Range(list)
    BY <2>1 DEF Range
  <2> QED
    BY <2>2 DEF Active
<1>3. CASE ~(i > Len(m.dataSources))
  BY <1>3 DEF Active
<1> QED
  BY <1>2, <1>3

-----------------------------------------------------------------------------
(* The calls for a datum are the due ones. *)

\* The handler of a made data source is that of its template, with the new address.
LEMMA CalledIfDue ==
    ASSUME NEW m \in Manifests, Accepted(m), NEW list \in Seq(CreatedSet), AllCanBeMade(m, list),
           NEW i \in 1..Size(m, list), NEW n \in 1..Len(From(m, list, i).handlers),
           IsListed(m, list, i, n), NEW d
    PROVE  LET ds == Sources(m, list)[i]
           IN  /\ HandlersOf(ds)[n] =
                     [HandlersOf(From(m, list, i))[n] EXCEPT !.address = Address(m, list, i)]
               /\ IsCalled(ds, HandlersOf(ds)[n], d) <=> Due(m, list, i, n, d)
<1> DEFINE ds == Sources(m, list)[i]
           t  == From(m, list, i)
<1>1. /\ IsRuntimeDs(t) /\ ds.kind = t.kind /\ ds.handlers = t.handlers
      /\ Get(Options(ds), "address") = Address(m, list, i)
  BY SourceAsAsked DEF IsListed
<1>2. IsRuntimeDs(ds) /\ n \in 1..Len(ds.handlers)
  BY <1>1 DEF IsRuntimeDs
<1>3. ~FilterThrows(HandlersOf(ds)[n], d)
  BY <1>2, NoSourceThrows
<1> HIDE DEF ds, t
<1>4. HandlersOf(ds)[n] = [HandlersOf(t)[n] EXCEPT !.address = Address(m, list, i)]
  BY <1>1, <1>2 DEF HandlersOf
<1>5. IsCalled(ds, HandlersOf(ds)[n], d) <=> Handles(HandlersOf(ds)[n], d)
  BY <1>2, <1>3 DEF IsCalled, IsCustomDs
<1> QED
  BY <1>4, <1>5 DEF Due, ds, t

LEMMA RangeConcat ==
    ASSUME NEW S, NEW s \in Seq(S), NEW t \in Seq(S), NEW x
    PROVE  x \in Range(s \o t) <=> x \in Range(s) \/ x \in Range(t)
<1>1. Range(s \o t) = Range(s) \union Range(t)
  BY RangeConcatenation
<1> QED
  BY <1>1

\* Once all data sources are active, the calls for a datum are right.
LEMMA DatumRight ==
    ASSUME NEW m \in Manifests, Accepted(m), NEW list \in Seq(CreatedSet), AllCanBeMade(m, list),
           NEW h \in 1..LastLedger, NEW p \in Nat,
           \A c \in Range(list) : c.height < h \/ (c.height = h /\ c.at <= p),
           NEW cs,
           \A c : c.at = p => (c \in Range(cs) <=> c \in Range(CallsFor(Sources(m, list), h, p)))
    PROVE  Right(m, list, cs, h, p)
<1> SUFFICES ASSUME NEW i \in 1..Size(m, list), NEW n \in 1..Len(From(m, list, i).handlers)
             PROVE  RightFor(m, list, cs, h, p, i, n)
  BY DEF Right
<1>1. h \in Nat
  BY ChainFacts
<1>2. Active(m, list, i, h, p)
  BY <1>1, AllActive
<1>3. Sources(m, list)[i].handlers = From(m, list, i).handlers
  BY SourcesCount
<1>4. Call(i, n, h, p) \in Range(CallsFor(Sources(m, list), h, p)) <=>
         IsCalled(Sources(m, list)[i], HandlersOf(Sources(m, list)[i])[n], Chain[h][p])
  BY <1>1, <1>3, CallsForSources
<1>5. Call(i, n, h, p) \in Range(cs) <=> Call(i, n, h, p) \in Range(CallsFor(Sources(m, list), h, p))
  BY DEF Call
<1>6. IsListed(m, list, i, n) =>
         (IsCalled(Sources(m, list)[i], HandlersOf(Sources(m, list)[i])[n], Chain[h][p])
            <=> Due(m, list, i, n, Chain[h][p]))
  BY CalledIfDue
<1> QED
  BY <1>2, <1>4, <1>5, <1>6 DEF RightFor

\* Calls for other data do not matter.
LEMMA RightAgain ==
    ASSUME NEW m, NEW list, NEW cs, NEW more, NEW h, NEW p, Right(m, list, cs, h, p),
           \A c : c.height = h /\ c.at = p => (c \in Range(cs) <=> c \in Range(more))
    PROVE  Right(m, list, more, h, p)
<1>1. \A i, n : Call(i, n, h, p) \in Range(cs) <=> Call(i, n, h, p) \in Range(more)
  BY DEF Call
<1> QED
  BY <1>1 DEF Right, RightFor

\* Data sources that are made later have got nothing.
LEMMA RightLonger ==
    ASSUME NEW m \in Manifests, NEW list \in Seq(CreatedSet), NEW more \in Seq(CreatedSet),
           NEW cs, NEW h, NEW p, Right(m, list, cs, h, p),
           \A c \in Range(cs) : c.height = h /\ c.at = p => c.ds <= Size(m, list),
           \A c \in Range(more) : ~(c.height < h \/ (c.height = h /\ c.at <= p))
    PROVE  Right(m, list \o more, cs, h, p)
<1> SUFFICES ASSUME NEW i \in 1..Size(m, list \o more),
                    NEW n \in 1..Len(From(m, list \o more, i).handlers)
             PROVE  RightFor(m, list \o more, cs, h, p, i, n)
  BY DEF Right
<1>1. /\ Size(m, list) \in Nat /\ Len(more) \in Nat
      /\ Size(m, list \o more) = Size(m, list) + Len(more)
  BY LaterSource
<1>2. CASE i \in 1..Size(m, list)
  <2>1. n \in 1..Len(From(m, list, i).handlers)
    BY <1>2, SameSource
  <2>2. RightFor(m, list, cs, h, p, i, n)
    BY <1>2, <2>1 DEF Right
  <2> QED
    BY <1>2, <2>2, SameSource DEF RightFor
<1>3. CASE i \notin 1..Size(m, list)
  <2>1. i \in Size(m, list) + 1..Size(m, list \o more)
    BY <1>1, <1>3
  <2>2. ~Active(m, list \o more, i, h, p)
    BY <2>1, LaterSource
  <2>3. /\ Call(i, n, h, p).height = h /\ Call(i, n, h, p).at = p
        /\ Call(i, n, h, p).ds = i
    BY DEF Call
  <2>4. Call(i, n, h, p) \notin Range(cs)
    BY <1>1, <2>1, <2>3
  <2> QED
    BY <2>2, <2>4 DEF RightFor
<1> QED
  BY <1>2, <1>3

-----------------------------------------------------------------------------
(* The entries find every ledger with something due.                       *)

\* The lemmas about the entry of a handler; the variables of the loop do not matter.
Query == INSTANCE DictionaryProofs WITH
             Projects <- {}, handlers <- <<>>, i <- 1, queryEntries <- {}, pc <- "loop"

LEMMA EntryFinds ==
    ASSUME NEW h, h.filter # None, Usable(h),
           h.kind = "Event" => h.filter.topics \in Seq(Strings \union {None}) \union {None},
           NEW d \in Data, Handles(h, d)
    PROVE  Matches(Entry(h), d)
<1>1. Query!Handles(h, d)
  BY DEF Handles, Query!Handles, Offered, Query!Offered, FilterTypeMap, Query!FilterTypeMap,
         FilterBlock, Query!FilterBlock, FilterTransaction, Query!FilterTransaction,
         FilterOperation, Query!FilterOperation, FilterEffect, Query!FilterEffect,
         FilterEvent, Query!FilterEvent, FieldAllows, Query!FieldAllows,
         TopicsAllow, Query!TopicsAllow, Least, Query!Least,
         StringNormalizedEq, Query!StringNormalizedEq
<1>2. Query!Usable(h)
  BY DEF Usable, Query!Usable
<1>3. Query!Matches(Query!Entry(h), d)
  <2>1. Query!Entities = Entities
    BY DEF Entities, Query!Entities
  <2> QED
    BY <1>1, <1>2, <2>1, NoneIsNoString, LowerType, DataType, Query!EntryMatches
<1>4. \A field, value : Query!Equals(field, value) = Equals(field, value)
  BY DEF Equals, Query!Equals
<1>5. \A topics : Query!TopicConditions(topics) = TopicConditions(topics)
  BY DEF TopicConditions, Query!TopicConditions, TopicFields, Query!TopicFields,
         Least, Query!Least
<1>6. Query!Entry(h) = Entry(h)
  BY <1>4, <1>5 DEF Entry, Query!Entry, TransactionEntry, Query!TransactionEntry,
         OperationEntry, Query!OperationEntry, EffectEntry, Query!EffectEntry,
         EventEntry, Query!EventEntry
<1>7. \A field : Query!Column(d, field) = Column(d, field)
  BY DEF Column, Query!Column, LowerOf, Query!LowerOf, TopicFields, Query!TopicFields
<1> QED
  BY <1>3, <1>6, <1>7 DEF Matches, Query!Matches

LEMMA AllHandlersRange ==
    ASSUME NEW dss, Len(dss) \in Nat, \A i \in 1..Len(dss) : Len(dss[i].handlers) \in Nat,
           NEW i \in 1..Len(dss), NEW n \in 1..Len(dss[i].handlers)
    PROVE  \E k \in 1..Len(AllHandlers(dss)) : AllHandlers(dss)[k] = HandlersOf(dss[i])[n]
<1> DEFINE S    == UNION {Range(HandlersOf(dss[j])) : j \in 1..Len(dss)}
           rows == [j \in 1..Len(dss) |-> HandlersOf(dss[j])]
<1>1. \A j \in 1..Len(dss) :
         HandlersOf(dss[j]) \in Seq(S) /\ Len(HandlersOf(dss[j])) = Len(dss[j].handlers)
  <2> TAKE j \in 1..Len(dss)
  <2>1. PICK f : f = HandlersOf(dss[j])
    OBVIOUS
  <2>2. f \in [1..Len(dss[j].handlers) -> Range(f)]
    BY <2>1 DEF HandlersOf, Range
  <2>3. Range(f) \subseteq S
    BY <2>1
  <2> HIDE DEF S
  <2>4. f \in [1..Len(dss[j].handlers) -> S]
    BY <2>2, <2>3
  <2>5. Len(dss[j].handlers) \in Nat
    OBVIOUS
  <2> QED
    BY <2>1, <2>4, <2>5, ListIsSequence
<1> HIDE DEF S
<1>2. rows \in [1..Len(dss) -> Seq(S)]
  BY <1>1
<1>3. rows \in Seq(Seq(S)) /\ Len(rows) = Len(dss) /\ rows[i] = HandlersOf(dss[i])
  BY <1>2, ListIsSequence
<1>4. AllHandlers(dss) = FlattenSeq(rows)
  BY DEF AllHandlers
<1> HIDE DEF rows
<1>5. HandlersOf(dss[i])[n] \in Range(rows[i])
  BY <1>1, <1>3 DEF Range, HandlersOf
<1>6. HandlersOf(dss[i])[n] \in Range(FlattenSeq(rows))
  BY <1>3, <1>5, FlattenRange
<1>7. FlattenSeq(rows) \in Seq(S)
  BY <1>3, FlattenType
<1>8. DOMAIN FlattenSeq(rows) = 1..Len(FlattenSeq(rows))
  BY <1>7
<1> QED
  BY <1>4, <1>6, <1>8 DEF Range

\* What a valid manifest says of the topics of a handler on events.
LEMMA TopicsTyped ==
    ASSUME NEW m \in Manifests, NEW ds,
           \E t \in Range(m.dataSources) \union Range(m.templates) :
              IsRuntimeDs(t) /\ ds.handlers = t.handlers,
           ValidRuntimeDs(ds), NEW n \in 1..Len(ds.handlers),
           HandlersOf(ds)[n].kind = "Event", HandlersOf(ds)[n].filter # None
    PROVE  HandlersOf(ds)[n].filter.topics \in Seq(Strings \union {None}) \union {None}
<1> DEFINE h == ds.handlers[n]
           f == Get(h, "filter")
<1>1. /\ HandlersOf(ds)[n].filter = Filter(f) /\ HandlersOf(ds)[n].kind = h.kind
  BY DEF HandlersOf
<1>2. h.kind = "Event" /\ f # None
  BY <1>1 DEF Filter
<1>3. ValidFilter("Event", f)
  <2>1. ValidHandler(h)
    BY DEF ValidRuntimeDs, AllOf
  <2> QED
    BY <1>2, <2>1 DEF ValidHandler
<1>4. IsTyped(f) /\ f = h.filter /\ \A key \in DOMAIN f : f[key] # IllTyped
  BY <1>2, <1>3 DEF ValidFilter, IsOptional, Get
<1>5. h \in Range(ds.handlers) /\ ds.handlers \in Seq(Range(ds.handlers))
  <2>1. ds.handlers \in Seq(Range(ds.handlers))
    BY DataSourcesType
  <2> QED
    BY <2>1 DEF Range
<1>6. Get(f, "topics") \in Seq(Strings \union {None}) \union {None, IllTyped}
  <2>1. \A x \in Range(ds.handlers) :
           x.kind = "Event" /\ IsTyped(Get(x, "filter")) =>
              Get(x.filter, "topics") \in Seq(Strings \union {None}) \union {None, IllTyped}
    BY DataSourcesType
  <2> QED
    BY <1>2, <1>4, <1>5, <2>1
<1> HIDE DEF h, f
<1>7. Get(f, "topics") # IllTyped
  BY <1>4, IllTypedIsNoValue DEF Get
<1>8. Filter(f).topics = Get(f, "topics")
  BY <1>2 DEF Filter, FilterFields
<1> QED
  BY <1>1, <1>6, <1>7, <1>8

\* If the dictionary is asked at all, it is asked for everything that is due.
LEMMA EntriesCover ==
    ASSUME NEW m \in Manifests, Accepted(m), NEW list \in Seq(CreatedSet), AllCanBeMade(m, list),
           QueryEntries(AllHandlers(Sources(m, list))) # {}
    PROVE  Covers(m, list, QueryEntries(AllHandlers(Sources(m, list))))
<1> DEFINE dss == Sources(m, list)
           hs  == AllHandlers(dss)
<1>1. SUFFICES ASSUME NEW i \in 1..Size(m, list), NEW n \in 1..Len(From(m, list, i).handlers),
                      IsListed(m, list, i, n), NEW d \in Data, Due(m, list, i, n, d)
               PROVE  \E e \in QueryEntries(hs) : Matches(e, d)
  BY DEF Covers
<1>2. /\ Len(dss) = Size(m, list) /\ Len(dss) \in Nat
      /\ \A j \in 1..Len(dss) : Len(dss[j].handlers) \in Nat
      /\ dss[i].handlers = From(m, list, i).handlers
  BY SourcesCount
<1>3. /\ From(m, list, i) \in Range(m.dataSources) \union Range(m.templates)
      /\ IsRuntimeDs(From(m, list, i)) /\ ValidRuntimeDs(dss[i])
  BY <1>1, SourceAsAsked DEF IsListed
<1>4. /\ HandlersOf(dss[i])[n] =
             [HandlersOf(From(m, list, i))[n] EXCEPT !.address = Address(m, list, i)]
      /\ HandlersOf(dss[i])[n].kind \in CaseKinds
  <2>1. HandlersOf(dss[i])[n] =
             [HandlersOf(From(m, list, i))[n] EXCEPT !.address = Address(m, list, i)]
    BY <1>1, CalledIfDue
  <2>2. HandlersOf(dss[i])[n].kind = dss[i].handlers[n].kind
    BY <1>2 DEF HandlersOf
  <2> QED
    BY <1>1, <1>2, <2>1, <2>2 DEF IsListed
<1> HIDE DEF dss
<1>5. PICK k \in 1..Len(hs) : hs[k] = HandlersOf(dss[i])[n]
  <2>1. i \in 1..Len(dss) /\ n \in 1..Len(dss[i].handlers)
    BY <1>2
  <2>2. \A j \in 1..Len(dss) : Len(dss[j].handlers) \in Nat
    BY <1>2
  <2> HIDE DEF hs
  <2>3. \E k \in 1..Len(AllHandlers(dss)) : AllHandlers(dss)[k] = HandlersOf(dss[i])[n]
    BY <1>2, <2>1, <2>2, AllHandlersRange
  <2> QED
    BY <2>3 DEF hs
<1> HIDE DEF hs
<1>6. QueryEntries(hs) # {}
  BY DEF hs, dss
<1>7. /\ ~GivesUp(hs[k]) /\ hs[k].kind \in CaseKinds
      /\ Entry(hs[k]) \in QueryEntries(hs)
  BY <1>4, <1>5, <1>6 DEF QueryEntries
<1>8. hs[k].filter # None /\ Usable(hs[k])
  BY <1>7 DEF GivesUp
<1>9. Handles(hs[k], d)
  BY <1>1, <1>4, <1>5 DEF Due
<1>10. hs[k].kind = "Event" => hs[k].filter.topics \in Seq(Strings \union {None}) \union {None}
  BY <1>2, <1>3, <1>5, <1>8, TopicsTyped
<1>11. Matches(Entry(hs[k]), d)
  BY <1>8, <1>9, <1>10, EntryFinds
<1> QED
  BY <1>7, <1>11

-----------------------------------------------------------------------------
(* From one datum to the next, and from one ledger to the next. *)

LEMMA InjectiveConcat ==
    ASSUME NEW S, NEW s \in Seq(S), NEW t \in Seq(S), IsInjective(s), IsInjective(t),
           \A x \in Range(s), y \in Range(t) : x # y
    PROVE  IsInjective(s \o t)
<1> DEFINE u == s \o t
<1>1. /\ u \in Seq(S) /\ Len(u) = Len(s) + Len(t) /\ Len(s) \in Nat /\ Len(t) \in Nat
      /\ \A i \in 1..Len(u) : u[i] = IF i <= Len(s) THEN s[i] ELSE t[i - Len(s)]
  OBVIOUS
<1> HIDE DEF u
<1>2. ASSUME NEW i \in 1..Len(u), NEW j \in 1..Len(u), u[i] = u[j] PROVE i = j
  <2>1. CASE i <= Len(s) /\ j <= Len(s)
    <3>1. i \in 1..Len(s) /\ j \in 1..Len(s) /\ s[i] = s[j]
      BY <1>1, <1>2, <2>1
    <3> QED
      BY <3>1 DEF IsInjective
  <2>2. CASE ~(i <= Len(s)) /\ ~(j <= Len(s))
    <3>1. i - Len(s) \in 1..Len(t) /\ j - Len(s) \in 1..Len(t) /\ t[i - Len(s)] = t[j - Len(s)]
      BY <1>1, <1>2, <2>2
    <3>2. i - Len(s) = j - Len(s)
      BY <3>1 DEF IsInjective
    <3> QED
      BY <1>1, <1>2, <3>2
  <2>3. CASE i <= Len(s) /\ ~(j <= Len(s))
    <3>1. i \in 1..Len(s) /\ j - Len(s) \in 1..Len(t) /\ s[i] = t[j - Len(s)]
      BY <1>1, <1>2, <2>3
    <3> QED
      BY <3>1 DEF Range
  <2>4. CASE ~(i <= Len(s)) /\ j <= Len(s)
    <3>1. j \in 1..Len(s) /\ i - Len(s) \in 1..Len(t) /\ s[j] = t[i - Len(s)]
      BY <1>1, <1>2, <2>4
    <3> QED
      BY <3>1 DEF Range
  <2> QED
    BY <2>1, <2>2, <2>3, <2>4
<1>3. IsInjective(u)
  BY <1>1, <1>2 DEF IsInjective
<1> QED
  BY <1>3 DEF u

LEMMA RangeType ==
    ASSUME NEW S, NEW s \in Seq(S), NEW x \in Range(s)
    PROVE  x \in S
BY DEF Range

LEMMA HeadAndTail ==
    ASSUME NEW S, NEW s \in Seq(S), s # <<>>
    PROVE  /\ Head(s) \in S /\ Tail(s) \in Seq(S)
           /\ Len(Tail(s)) \in Nat /\ Len(s) = Len(Tail(s)) + 1
           /\ Head(s) = s[1] /\ \A i \in 1..Len(Tail(s)) : Tail(s)[i] = s[i + 1]
           /\ \A x : x \in Range(s) <=> x = Head(s) \/ x \in Range(Tail(s))
<1>1. PICK t : t = Tail(s)
  OBVIOUS
<1>2. /\ Head(s) \in S /\ t \in Seq(S) /\ Len(s) = Len(t) + 1 /\ Len(t) \in Nat
      /\ Head(s) = s[1] /\ \A i \in 1..Len(t) : t[i] = s[i + 1]
  BY <1>1, HeadTailProperties
<1>3. ASSUME NEW x PROVE x \in Range(s) <=> x = Head(s) \/ x \in Range(t)
  <2>1. x \in Range(s) <=> \E i \in 1..Len(s) : x = s[i]
    BY DEF Range
  <2>2. x \in Range(t) <=> \E i \in 1..Len(t) : x = t[i]
    BY <1>2 DEF Range
  <2>3. \A i \in 1..Len(s) : i = 1 \/ (i - 1 \in 1..Len(t) /\ (i - 1) + 1 = i)
    BY <1>2
  <2>4. 1 \in 1..Len(s) /\ \A i \in 1..Len(t) : i + 1 \in 1..Len(s)
    BY <1>2
  <2> QED
    BY <1>2, <2>1, <2>2, <2>3, <2>4
<1> QED
  BY <1>1, <1>2, <1>3

\* The next datum goes to all data sources, those that are made at it included.
LEMMA NextDatum ==
    ASSUME NEW m \in Manifests, Accepted(m), NEW list \in Seq(CreatedSet),
           NEW more \in Seq(CreatedSet), AllCanBeMade(m, list \o more),
           NEW h \in 1..LastLedger, NEW k \in Nat, NEW cs \in Seq(CallSet),
           RightSoFar(m, list, cs, h, k),
           \A c \in Range(list) : c.height < h \/ (c.height = h /\ c.at <= k),
           \A c \in Range(more) : c.height = h /\ c.at = k + 1
    PROVE  RightSoFar(m, list \o more,
                      cs \o CallsFor(Sources(m, list \o more), h, k + 1), h, k + 1)
<1>1. PICK longer \in Seq(CreatedSet) : longer = list \o more
  BY LaterSource
<1>2. /\ Size(m, list) \in Nat /\ Len(more) \in Nat /\ Size(m, longer) = Size(m, list) + Len(more)
      /\ AllCanBeMade(m, longer)
  BY <1>1, LaterSource
<1>3. h \in Nat /\ k + 1 \in Nat
  BY ChainFacts
<1> DEFINE new == CallsFor(Sources(m, longer), h, k + 1)
<1>4. /\ new \in Seq(CallSet) /\ IsInjective(new)
      /\ \A c \in Range(new) : c.ds \in 1..Size(m, longer) /\ c.height = h /\ c.at = k + 1
  <2>1. PICK p \in Nat : p = k + 1
    BY <1>3
  <2>2. AllCanBeMade(m, longer) /\ h \in Nat
    BY <1>2, <1>3
  <2>3. CallsFor(Sources(m, longer), h, p) \in Seq(CallSet)
    BY <2>2, CallsForSources
  <2>4. IsInjective(CallsFor(Sources(m, longer), h, p))
    BY <2>2, CallsForSources
  <2>5. \A c \in Range(CallsFor(Sources(m, longer), h, p)) :
           c.ds \in 1..Size(m, longer) /\ c.height = h /\ c.at = p
    BY <2>2, CallsForSources
  <2> QED
    BY <2>1, <2>3, <2>4, <2>5
<1>5. \A c \in Range(cs) : c.height = h /\ c.at \in 1..k /\ c.ds \in 1..Size(m, list)
  BY DEF RightSoFar
<1> HIDE DEF new
<1>6. \A x \in Range(cs), y \in Range(new) : x # y
  BY <1>3, <1>4, <1>5
<1>7. PICK all \in Seq(CallSet) : all = cs \o new
  <2>1. new \in Seq(CallSet)
    BY <1>4
  <2>2. cs \o new \in Seq(CallSet)
    BY <2>1
  <2> QED
    BY <2>2
<1>8. IsInjective(all)
  BY <1>4, <1>6, <1>7, InjectiveConcat DEF RightSoFar
<1>9. \A c : c \in Range(all) <=> c \in Range(cs) \/ c \in Range(new)
  BY <1>4, <1>7, RangeConcat
<1>10. \A c \in Range(all) : c.height = h /\ c.at \in 1..k + 1 /\ c.ds \in 1..Size(m, longer)
  <2> TAKE c \in Range(all)
  <2>1. CASE c \in Range(cs)
    <3>1. c.height = h /\ c.at \in 1..k /\ c.ds \in 1..Size(m, list)
      BY <1>5, <2>1
    <3> QED
      BY <1>2, <3>1
  <2>2. CASE c \in Range(new)
    BY <1>3, <1>4, <2>2
  <2> QED
    BY <1>9, <2>1, <2>2
<1>11. ASSUME NEW p \in 1..k PROVE Right(m, longer, all, h, p)
  <2>1. p \in Nat /\ p < k + 1
    OBVIOUS
  <2>2. Right(m, list, cs, h, p)
    BY <1>11 DEF RightSoFar
  <2>3. \A c \in Range(cs) : c.height = h /\ c.at = p => c.ds <= Size(m, list)
    BY <1>5
  <2>4. \A c \in Range(more) : ~(c.height < h \/ (c.height = h /\ c.at <= p))
    BY <1>3, <2>1
  <2>5. Right(m, longer, cs, h, p)
    BY <1>1, <2>2, <2>3, <2>4, RightLonger
  <2>6. \A c : c.height = h /\ c.at = p => (c \in Range(cs) <=> c \in Range(all))
    BY <1>4, <1>9, <2>1
  <2> QED
    BY <2>5, <2>6, RightAgain
<1>12. Right(m, longer, all, h, k + 1)
  <2>1. \A c \in Range(longer) : c.height < h \/ (c.height = h /\ c.at <= k + 1)
    <3> TAKE c \in Range(longer)
    <3>1. CASE c \in Range(list)
      <4>1. c \in CreatedSet
        BY <3>1 DEF Range
      <4>2. c.at \in Nat
        BY <4>1 DEF CreatedSet
      <4> QED
        BY <3>1, <4>2
    <3>2. CASE c \in Range(more)
      BY <3>2, <1>3
    <3> QED
      BY <1>1, <3>1, <3>2, RangeConcat
  <2>2. \A c : c.at = k + 1 => (c \in Range(all) <=> c \in Range(new))
    <3>1. \A c \in Range(cs) : c.at # k + 1
      BY <1>5
    <3> QED
      BY <1>9, <3>1
  <2> QED
    BY <1>2, <1>3, <2>1, <2>2, DatumRight DEF new
<1>13. \A p \in 1..k + 1 : Right(m, longer, all, h, p)
  <2> TAKE p \in 1..k + 1
  <2>1. p \in 1..k \/ p = k + 1
    OBVIOUS
  <2> QED
    BY <1>11, <1>12, <2>1
<1>14. RightSoFar(m, longer, all, h, k + 1)
  BY <1>8, <1>10, <1>13 DEF RightSoFar
<1> QED
  BY <1>1, <1>7, <1>14 DEF new

\* A ledger that is skipped.
LEMMA RightIfNothingDue ==
    ASSUME NEW m, NEW list, NEW cs, NEW h, NEW p \in 1..Len(Chain[h]), NothingDue(m, list, h),
           \A c \in Range(cs) : c.height # h
    PROVE  Right(m, list, cs, h, p)
<1>1. \A i, n : Call(i, n, h, p) \notin Range(cs)
  BY DEF Call
<1> QED
  BY <1>1 DEF Right, RightFor, NothingDue

LEMMA AheadEmpty ==
    ASSUME NEW m, NEW list, NEW done \in Nat
    PROVE  Ahead(m, list, done, 0, <<>>, done + 1)
<1>1. Range(<<>>) = {} /\ Sorted(<<>>, Earlier)
  BY DEF Range, Sorted
<1>2. done + 1..done + 1 - 1 = {} /\ done < done + 1
  OBVIOUS
<1> QED
  BY <1>1, <1>2 DEF Ahead

LEMMA AheadLonger ==
    ASSUME NEW m, NEW list, NEW done \in 0..LastLedger, NEW b \in 0..LastLedger,
           NEW q \in Seq(1..LastLedger), NEW next \in 1..LastLedger + 1,
           Ahead(m, list, done, b, q, next),
           NEW more \in Seq(1..LastLedger), NEW last \in next..LastLedger,
           Sorted(more, Earlier), \A h \in Range(more) : h \in next..last,
           \A h \in next..last : h \in Range(more) \/ NothingDue(m, list, h)
    PROVE  Ahead(m, list, done, b, q \o more, last + 1)
<1>1. LastLedger \in Nat
  BY ChainFacts
<1>2. /\ done < next /\ b < next
      /\ \A h \in Range(q) : h \in done + 1..next - 1 /\ b < h
      /\ \A h \in done + 1..next - 1 : h \in Range(q) \/ h = b \/ NothingDue(m, list, h)
  BY <1>1 DEF Ahead
<1>3. \A h : h \in Range(q \o more) <=> h \in Range(q) \/ h \in Range(more)
  BY RangeConcat
<1>4. Sorted(q \o more, Earlier)
  <2>1. \A x \in Range(q), y \in Range(more) : <<x, y>> \in Earlier
    <3> TAKE x \in Range(q), y \in Range(more)
    <3>1. x \in 1..LastLedger /\ y \in 1..LastLedger
      BY RangeType
    <3>2. x < y
      BY <1>1, <1>2
    <3> QED
      BY <3>1, <3>2 DEF Earlier
  <2> QED
    BY <2>1, SortedConcat DEF Ahead
<1>5. last + 1 - 1 = last /\ next <= last
  BY <1>1
<1>6. done < last + 1 /\ (b # 0 => b \in done + 1..last)
  BY <1>1, <1>2, <1>5 DEF Ahead
<1>7. \A h \in Range(q \o more) : h \in done + 1..last /\ b < h
  BY <1>1, <1>2, <1>3, <1>5
<1>8. \A h \in done + 1..last : h \in Range(q \o more) \/ h = b \/ NothingDue(m, list, h)
  <2> TAKE h \in done + 1..last
  <2>1. h \in done + 1..next - 1 \/ h \in next..last
    BY <1>1
  <2> QED
    BY <1>2, <1>3, <2>1
<1> QED
  BY <1>4, <1>5, <1>6, <1>7, <1>8 DEF Ahead

LEMMA AheadTaken ==
    ASSUME NEW m, NEW list, NEW done \in 0..LastLedger, NEW q \in Seq(1..LastLedger),
           NEW next \in 1..LastLedger + 1, Ahead(m, list, done, 0, q, next), q # <<>>
    PROVE  Ahead(m, list, done, Head(q), Tail(q), next)
<1>1. LastLedger \in Nat
  BY ChainFacts
<1>2. PICK b \in 1..LastLedger : b = Head(q)
  BY HeadAndTail
<1>3. PICK t \in Seq(1..LastLedger) : t = Tail(q)
  BY HeadAndTail
<1>4. /\ b = q[1] /\ Len(q) = Len(t) + 1 /\ Len(t) \in Nat
      /\ \A i \in 1..Len(t) : t[i] = q[i + 1]
      /\ \A h : h \in Range(q) <=> h = b \/ h \in Range(t)
  BY <1>2, <1>3, HeadAndTail
<1>5. \A i, j \in 1..Len(q) : i < j => q[i] < q[j]
  BY DEF Ahead, Sorted, Earlier
<1>6. Sorted(t, Earlier) /\ \A h \in Range(t) : b < h
  <2>1. \A i \in 1..Len(t) : i + 1 \in 1..Len(q) /\ 1 < i + 1
    BY <1>4
  <2>2. 1 \in 1..Len(q)
    BY <1>4
  <2>3. \A h \in Range(t) : b < h
    BY <1>4, <1>5, <2>1, <2>2 DEF Range
  <2>4. \A i, j \in 1..Len(t) : i < j => <<t[i], t[j]>> \in Earlier
    <3> TAKE i, j \in 1..Len(t)
    <3>1. t[i] = q[i + 1] /\ t[j] = q[j + 1] /\ i + 1 \in 1..Len(q) /\ j + 1 \in 1..Len(q)
      BY <1>4, <2>1
    <3>2. i < j => i + 1 < j + 1
      BY <1>4
    <3> QED
      BY <3>1, <3>2 DEF Ahead, Sorted
  <2> QED
    BY <2>3, <2>4 DEF Sorted
<1>7. /\ b \in done + 1..next - 1
      /\ \A h \in Range(t) : h \in done + 1..next - 1 /\ b < h
  BY <1>4, <1>6 DEF Ahead
<1>8. \A h \in done + 1..next - 1 : h \in Range(t) \/ h = b \/ NothingDue(m, list, h)
  <2>1. \A h \in done + 1..next - 1 : h \in Range(q) \/ h = 0 \/ NothingDue(m, list, h)
    BY DEF Ahead
  <2>2. \A h \in done + 1..next - 1 : h # 0
    BY <1>1
  <2> QED
    BY <1>4, <2>1, <2>2
<1>9. Ahead(m, list, done, b, t, next)
  BY <1>6, <1>7, <1>8 DEF Ahead
<1> QED
  BY <1>2, <1>3, <1>9

LEMMA AheadDone ==
    ASSUME NEW m, NEW list, NEW done \in 0..LastLedger, NEW b \in 1..LastLedger,
           NEW q \in Seq(1..LastLedger), NEW next \in 1..LastLedger + 1,
           Ahead(m, list, done, b, q, next)
    PROVE  Ahead(m, list, b, 0, q, next)
<1>1. LastLedger \in Nat
  BY ChainFacts
<1>2. /\ b \in done + 1..next - 1
      /\ \A h \in Range(q) : h \in done + 1..next - 1 /\ b < h
      /\ Sorted(q, Earlier)
      /\ \A h \in done + 1..next - 1 : h \in Range(q) \/ h = b \/ NothingDue(m, list, h)
  BY <1>1 DEF Ahead
<1>3. b < next /\ \A h \in b + 1..next - 1 : h \in done + 1..next - 1 /\ h # b
  BY <1>1, <1>2
<1>4. \A h \in Range(q) : h \in b + 1..next - 1 /\ 0 < h
  BY <1>1, <1>2
<1> QED
  BY <1>2, <1>3, <1>4 DEF Ahead

-----------------------------------------------------------------------------
(* The invariant is inductive. *)

LEMMA CallsInit == ASSUME Init PROVE Past /\ Present /\ Future
<1>1. Range(<<>>) = {} /\ IsInjective(<<>>) /\ 1..0 = {}
  BY DEF Range, IsInjective
<1> QED
  BY <1>1 DEF Init, Past, Present, Future

\* A committed block: its calls are added to those of the ledgers before it.
LEMMA PastStep ==
    ASSUME Types, Past, Present, Future, [Next]_vars
    PROVE  Past'
<1>1. CASE UNCHANGED <<raw, saved, processed, called>>
  BY <1>1 DEF Past
<1>2. CASE Commit
  <2>1. /\ stage = "running" /\ block # 0 /\ at = Len(Chain[block])
        /\ raw' = raw /\ called' = called \o calls /\ saved' = saved \o created
        /\ processed' = block
    BY <1>2 DEF Commit
  <2>2. /\ raw \in Manifests /\ processed \in 0..LastLedger /\ block \in 1..LastLedger
        /\ saved \in Seq(CreatedSet) /\ created \in Seq(CreatedSet)
        /\ called \in Seq(CallSet) /\ calls \in Seq(CallSet)
        /\ nextHeight \in 1..LastLedger + 1
    BY <2>1, ChainFacts DEF Types, TypeOK
  <2>3. PICK longer \in Seq(CreatedSet) : longer = saved \o created
    BY <2>2, LaterSource
  <2>4. PICK all \in Seq(CallSet) : all = called \o calls
    <3>1. called \o calls \in Seq(CallSet)
      BY <2>2
    <3> QED
      BY <3>1
  <2>5. /\ Size(raw, saved) \in Nat /\ Len(created) \in Nat
        /\ Size(raw, longer) = Size(raw, saved) + Len(created)
    BY <2>2, <2>3, LaterSource
  <2>6. /\ IsInjective(calls)
        /\ \A c \in Range(calls) :
              c.height = block /\ c.at \in 1..at /\ c.ds \in 1..Size(raw, longer)
        /\ \A p \in 1..at : Right(raw, longer, calls, block, p)
        /\ \A c \in Range(created) : c.height = block /\ c.at \in 1..at
    BY <2>1, <2>3 DEF Present, RightSoFar
  <2>7. /\ block \in processed + 1..nextHeight - 1
        /\ \A h \in Range(queue) : block < h
        /\ \A h \in processed + 1..nextHeight - 1 :
              h \in Range(queue) \/ h = block \/ NothingDue(raw, saved, h)
    BY <2>1 DEF Future, Ahead
  <2>8. processed \in Nat /\ block \in Nat /\ processed < block
    BY <2>2, <2>7, ChainFacts
  <2>9. \A c \in Range(called) : c.height \in 1..processed /\ c.ds \in 1..Size(raw, saved)
    BY DEF Past
  <2>10. \A c : c \in Range(all) <=> c \in Range(called) \/ c \in Range(calls)
    BY <2>2, <2>4, RangeConcat
  <2>11. IsInjective(all)
    <3>1. \A x \in Range(called), y \in Range(calls) : x # y
      BY <2>6, <2>8, <2>9
    <3>2. IsInjective(called)
      BY DEF Past
    <3> QED
      BY <2>2, <2>4, <2>6, <3>1, <3>2, InjectiveConcat
  <2>12. \A c \in Range(all) : c.height \in 1..block /\ c.ds \in 1..Size(raw, longer)
    <3> TAKE c \in Range(all)
    <3>1. CASE c \in Range(called)
      BY <2>5, <2>8, <2>9, <3>1
    <3>2. CASE c \in Range(calls)
      BY <2>2, <2>6, <3>2
    <3> QED
      BY <2>10, <3>1, <3>2
  <2>13. \A c \in Range(longer) : c.height <= block
    <3> TAKE c \in Range(longer)
    <3>1. CASE c \in Range(saved)
      <4>1. c.height <= processed
        BY <3>1 DEF Past
      <4>2. c \in CreatedSet
        BY <2>2, <3>1, RangeType
      <4>3. c.height \in Nat
        BY <4>2, ChainFacts DEF CreatedSet
      <4> QED
        BY <2>8, <4>1, <4>3
    <3>2. CASE c \in Range(created)
      BY <2>6, <2>8, <3>2
    <3> QED
      BY <2>2, <2>3, <3>1, <3>2, RangeConcat
  <2>14. ASSUME NEW h \in 1..block, NEW p \in 1..Len(Chain[h])
         PROVE  Right(raw, longer, all, h, p)
    <3>1. h \in Nat
      BY <2>8
    <3>2. CASE h = block
      <4>1. Right(raw, longer, calls, h, p)
        BY <2>1, <2>6, <2>14, <3>2
      <4>2. \A c : c.height = h /\ c.at = p => (c \in Range(calls) <=> c \in Range(all))
        BY <2>8, <2>9, <2>10, <3>2
      <4> QED
        BY <4>1, <4>2, RightAgain
    <3>3. CASE h # block
      <4>1. h < block
        BY <2>8, <3>1, <3>3
      <4>2. \A c \in Range(created) : ~(c.height < h \/ (c.height = h /\ c.at <= p))
        BY <2>6, <2>8, <3>1, <4>1
      <4>3. Right(raw, saved, called, h, p)
        <5>1. CASE h \in 1..processed
          BY <2>14, <5>1 DEF Past
        <5>2. CASE h \notin 1..processed
          <6>1. h \in processed + 1..nextHeight - 1 /\ ~(block < h)
            BY <2>2, <2>7, <2>8, <3>1, <4>1, <5>2
          <6>2. NothingDue(raw, saved, h)
            BY <2>7, <3>3, <6>1
          <6>3. \A c \in Range(called) : c.height # h
            BY <2>9, <5>2
          <6> QED
            BY <2>14, <6>2, <6>3, RightIfNothingDue
        <5> QED
          BY <5>1, <5>2
      <4>4. \A c \in Range(called) : c.height = h /\ c.at = p => c.ds <= Size(raw, saved)
        BY <2>9
      <4>5. Right(raw, longer, called, h, p)
        BY <2>2, <2>3, <4>2, <4>3, <4>4, RightLonger
      <4>6. \A c : c.height = h /\ c.at = p => (c \in Range(called) <=> c \in Range(all))
        BY <2>6, <2>10, <3>3
      <4> QED
        BY <4>5, <4>6, RightAgain
    <3> QED
      BY <3>2, <3>3
  <2>15. raw' = raw /\ saved' = longer /\ called' = all /\ processed' = block
    BY <2>1, <2>3, <2>4
  <2> QED
    BY <2>11, <2>12, <2>13, <2>14, <2>15 DEF Past
<1> QED
  BY <1>1, <1>2
  DEF Next, NodeStep, Parse, Load, InitDictionaries, Switch, Start, EnqueueListed, EnqueueNext,
      TakeBlock, IndexDatum, CreateDynamicDs, IndexFails, Crash, Restart, vars, database

\* A datum goes to the data sources, and to the one a handler makes at it.
LEMMA PresentStep ==
    ASSUME Types, Loaded, Past, Present, Future, Loaded', [Next]_vars
    PROVE  Present'
<1>1. CASE UNCHANGED <<raw, saved, created, calls, block, at>>
  BY <1>1 DEF Present
<1>2. CASE Commit \/ Restart
  BY <1>2 DEF Commit, Restart, Present
<1>3. CASE TakeBlock
  <2>1. /\ created' = <<>> /\ calls' = <<>> /\ at' = 0
    BY <1>3 DEF TakeBlock, Types, TypeOK, database, sources
  <2>2. Range(<<>>) = {} /\ IsInjective(<<>>) /\ 1..0 = {}
    BY DEF Range, IsInjective
  <2> QED
    BY <2>1, <2>2 DEF Present, RightSoFar
<1>4. ASSUME Indexing
      PROVE  /\ raw \in Manifests /\ Accepted(raw) /\ block \in 1..LastLedger /\ at \in Nat
             /\ calls \in Seq(CallSet) /\ RightSoFar(raw, saved \o created, calls, block, at)
             /\ saved \in Seq(CreatedSet) /\ created \in Seq(CreatedSet)
             /\ saved \o created \in Seq(CreatedSet)
             /\ \A c \in Range(saved \o created) :
                   c.height < block \/ (c.height = block /\ c.at <= at)
             /\ \A c \in Range(created) : c.height = block /\ c.at \in 1..at
  <2>1. /\ raw \in Manifests /\ processed \in 0..LastLedger /\ block \in 1..LastLedger
        /\ at \in 0..Len(Chain[block])
        /\ saved \in Seq(CreatedSet) /\ created \in Seq(CreatedSet) /\ calls \in Seq(CallSet)
    BY <1>4, ChainFacts DEF Types, TypeOK, Indexing
  <2>2. at \in Nat
    BY <2>1, ChainFacts
  <2>3. /\ Accepted(raw) /\ RightSoFar(raw, saved \o created, calls, block, at)
        /\ \A c \in Range(created) : c.height = block /\ c.at \in 1..at
    BY <1>4 DEF Indexing, Loaded, Present
  <2>4. processed < block /\ processed \in Nat /\ block \in Nat
    <3>1. block \in processed + 1..nextHeight - 1
      BY <1>4 DEF Indexing, Future, Ahead
    <3> QED
      BY <2>1, <3>1, ChainFacts
  <2>5. ASSUME NEW c \in Range(saved) PROVE c.height < block
    <3>1. c.height <= processed
      BY <2>5 DEF Past
    <3>2. c \in CreatedSet
      BY <2>1, <2>5, RangeType
    <3>3. c.height \in Nat
      BY <3>2, ChainFacts DEF CreatedSet
    <3> QED
      BY <2>4, <3>1, <3>3
  <2>6. \A c : c \in Range(saved \o created) <=> c \in Range(saved) \/ c \in Range(created)
    BY <2>1, RangeConcat
  <2>7. \A c \in Range(saved \o created) : c.height < block \/ (c.height = block /\ c.at <= at)
    BY <2>2, <2>3, <2>5, <2>6
  <2>8. saved \o created \in Seq(CreatedSet)
    BY <2>1
  <2> QED
    BY <2>1, <2>2, <2>3, <2>7, <2>8
<1>5. CASE IndexDatum
  <2>1. /\ Indexing /\ calls' = calls \o CallsFor(DataSources, block, at + 1)
        /\ at' = at + 1 /\ block' = block
        /\ raw' = raw /\ saved' = saved /\ created' = created
    BY <1>5 DEF IndexDatum, database, sources
  <2>2. /\ DataSources = Sources(raw, saved \o created) /\ AllCanBeMade(raw, saved \o created)
    BY <2>1 DEF Indexing, Loaded, DataSources, Sources
  <2>3. PICK list \in Seq(CreatedSet) : list = saved \o created
    BY <1>4, <2>1
  <2>4. list \o <<>> = list /\ <<>> \in Seq(CreatedSet) /\ Range(<<>>) = {}
    BY DEF Range
  <2>5. RightSoFar(raw, list \o <<>>,
                   calls \o CallsFor(Sources(raw, list \o <<>>), block, at + 1), block, at + 1)
    <3>1. AllCanBeMade(raw, list \o <<>>)
      BY <2>2, <2>3, <2>4
    <3>2. /\ raw \in Manifests /\ Accepted(raw) /\ block \in 1..LastLedger /\ at \in Nat
          /\ calls \in Seq(CallSet) /\ RightSoFar(raw, list, calls, block, at)
          /\ \A c \in Range(list) : c.height < block \/ (c.height = block /\ c.at <= at)
      BY <1>4, <2>1, <2>3
    <3>3. \A c \in Range(<<>>) : c.height = block /\ c.at = at + 1
      BY <2>4
    <3> QED
      BY <2>4, <3>1, <3>2, <3>3, NextDatum
  <2>6. RightSoFar(raw, saved \o created, calls', block, at + 1)
    BY <2>1, <2>2, <2>3, <2>4, <2>5
  <2>7. \A c \in Range(created) : c.height = block /\ c.at \in 1..at + 1
    BY <1>4, <2>1
  <2> QED
    BY <2>1, <2>6, <2>7 DEF Present
<1>6. ASSUME NEW c \in Creations, CreateDynamicDs(c) PROVE Present'
  <2> DEFINE r == Asking(c, block, at + 1)
             dss == raw.dataSources \o dynamicDs'
  <2>1. /\ Indexing /\ stage' = stage /\ raw' = raw /\ saved' = saved
        /\ block' = block /\ at' = at + 1
        /\ created' = Append(created, r)
        /\ calls' = calls \o CallsFor(dss, block, at + 1)
    BY <1>6 DEF CreateDynamicDs, Indexing, database, Asking
  <2>2. r \in CreatedSet /\ r.height = block /\ r.at = at + 1
    <3>1. block \in 1..LastLedger /\ at + 1 \in Nat
      BY <1>4, <2>1
    <3> QED
      BY <1>6, <3>1, AskedFor
  <2> HIDE DEF r
  <2>3. /\ <<r>> \in Seq(CreatedSet) /\ \A x : x \in Range(<<r>>) <=> x = r
    BY <2>2 DEF Range
  <2>4. created' = created \o <<r>>
    BY <1>4, <2>1, <2>2
  <2>5. PICK list \in Seq(CreatedSet) : list = saved \o created
    BY <1>4, <2>1
  <2>6. saved' \o created' = list \o <<r>>
    <3>1. saved \in Seq(CreatedSet) /\ created \in Seq(CreatedSet)
      BY <1>4, <2>1
    <3>2. saved \o (created \o <<r>>) = (saved \o created) \o <<r>>
      BY <2>3, <3>1
    <3> QED
      BY <2>1, <2>4, <2>5, <3>2
  <2>7. dss = Sources(raw, saved' \o created') /\ AllCanBeMade(raw, saved' \o created')
    BY <2>1 DEF Indexing, Loaded, Sources
  <2> HIDE DEF dss
  <2>8. RightSoFar(raw, list \o <<r>>,
                   calls \o CallsFor(Sources(raw, list \o <<r>>), block, at + 1), block, at + 1)
    <3>1. AllCanBeMade(raw, list \o <<r>>)
      BY <2>6, <2>7
    <3>2. /\ raw \in Manifests /\ Accepted(raw) /\ block \in 1..LastLedger /\ at \in Nat
          /\ calls \in Seq(CallSet) /\ RightSoFar(raw, list, calls, block, at)
          /\ \A x \in Range(list) : x.height < block \/ (x.height = block /\ x.at <= at)
      BY <1>4, <2>1, <2>5
    <3>3. \A x \in Range(<<r>>) : x.height = block /\ x.at = at + 1
      BY <2>2, <2>3
    <3> QED
      BY <2>3, <3>1, <3>2, <3>3, NextDatum
  <2>9. RightSoFar(raw, saved' \o created', calls', block, at + 1)
    BY <2>1, <2>6, <2>7, <2>8
  <2>10. \A x \in Range(created') : x.height = block /\ x.at \in 1..at + 1
    <3>1. created \in Seq(CreatedSet) /\ at \in Nat
      BY <1>4, <2>1
    <3>2. \A x : x \in Range(created \o <<r>>) <=> x \in Range(created) \/ x \in Range(<<r>>)
      BY <2>3, <3>1, RangeConcat
    <3>3. \A x \in Range(created) : x.height = block /\ x.at \in 1..at
      BY <1>4, <2>1
    <3> QED
      BY <2>2, <2>3, <2>4, <3>1, <3>2, <3>3
  <2> QED
    BY <2>1, <2>9, <2>10 DEF Present
<1>7. CASE \/ Parse \/ Load \/ InitDictionaries \/ (\E e \in Endpoints : Switch(e)) \/ Start
           \/ EnqueueNext \/ (\E h \in 1..LastLedger : EnqueueListed(h))
           \/ IndexFails \/ Crash
  <2>1. UNCHANGED <<raw, saved, created, calls, block, at>>
    BY <1>7
    DEF Parse, Load, InitDictionaries, Switch, Start, EnqueueListed, EnqueueNext, IndexFails,
        Crash, database, heights, sources
  <2> QED
    BY <2>1 DEF Present
<1>8. CASE UNCHANGED vars
  BY <1>1, <1>8 DEF vars, database, heights, sources
<1> QED
  BY <1>2, <1>3, <1>5, <1>6, <1>7, <1>8 DEF Next, NodeStep

\* Entries made anew are those for the data sources in the database.
LEMMA EntriesOfSources ==
    ASSUME NEW m \in Manifests, Accepted(m), NEW list \in Seq(CreatedSet), AllCanBeMade(m, list),
           NEW dss, dss = Sources(m, list), NEW es, es # {},
           es \in {{}, QueryEntries(AllHandlers(dss))}
    PROVE  Covers(m, list, es)
BY EntriesCover

\* Heights are looked for in order, and none with something due is passed over.
LEMMA FutureStep ==
    ASSUME Types, Loaded, Future, [Next]_vars
    PROVE  Future'
<1>1. /\ raw \in Manifests /\ processed \in 0..LastLedger /\ block \in 0..LastLedger
      /\ queue \in Seq(1..LastLedger) /\ nextHeight \in 1..LastLedger + 1
      /\ saved \in Seq(CreatedSet) /\ created \in Seq(CreatedSet)
      /\ saved \o created \in Seq(CreatedSet) /\ saved \o <<>> = saved
      /\ LastLedger \in Nat /\ processed \in Nat
  BY ChainFacts DEF Types, TypeOK
<1> DEFINE Goes == Ahead(raw, saved, processed, block, queue, nextHeight)
           Asks == entries # {} => Covers(raw, saved, entries)
<1>2. CASE /\ UNCHANGED <<raw, saved, processed, block, queue, nextHeight, entries>>
           /\ stage' \in {stage, "stopped"}
  BY <1>2 DEF Future
<1>3. CASE Parse \/ IndexFails \/ Crash \/ Restart
  BY <1>3 DEF Parse, IndexFails, Crash, Restart, Future
<1>4. CASE Load
  <2>1. /\ stage' \in {"dictionaries", "stopped"} /\ raw' = raw /\ saved' = saved
        /\ processed' = processed /\ nextHeight' = processed + 1
        /\ block' = 0 /\ queue' = <<>>
    BY <1>4 DEF Load, database, Types
  <2>2. Ahead(raw, saved, processed, 0, <<>>, processed + 1)
    BY <1>1, AheadEmpty
  <2> QED
    BY <2>1, <2>2 DEF Future
<1>5. CASE InitDictionaries \/ \E e \in Endpoints : Switch(e)
  BY <1>2, <1>5 DEF InitDictionaries, Switch, database, heights, sources
<1>6. CASE Start
  <2>1. /\ stage = "dictionaries" /\ raw' = raw /\ saved' = saved /\ processed' = processed
        /\ block' = block /\ queue' = queue /\ nextHeight' = nextHeight
        /\ created = <<>>
    BY <1>6 DEF Start, database, heights, Types
  <2>2. stage' = "running" => entries' \in {{}, QueryEntries(AllHandlers(DataSources))}
    BY <1>6 DEF Start
  <2>3. /\ Accepted(raw) /\ AllCanBeMade(raw, saved) /\ DataSources = Sources(raw, saved)
    BY <1>1, <2>1 DEF Loaded, DataSources, Sources
  <2>4. stage' = "running" /\ entries' # {} => Covers(raw, saved, entries')
    BY <1>1, <2>2, <2>3, EntriesOfSources
  <2> QED
    BY <2>1, <2>4 DEF Future
<1>7. ASSUME NEW h \in 1..LastLedger, EnqueueListed(h) PROVE Future'
  <2> DEFINE listed == {n \in nextHeight..h : Listed(n)}
             all    == Heights(nextHeight, h)
             more   == Keep(all, listed)
  <2>1. /\ stage = "running" /\ entries # {} /\ h \in nextHeight..LastLedger
        /\ queue' = queue \o more /\ nextHeight' = h + 1
        /\ stage' = stage /\ raw' = raw /\ saved' = saved /\ processed' = processed
        /\ block' = block /\ entries' = entries
    BY <1>7 DEF EnqueueListed, database, sources
  <2>2. Ahead(raw, saved, processed, block, queue, nextHeight) /\ Covers(raw, saved, entries)
    BY <2>1 DEF Future
  <2>3. /\ all \in Seq(nextHeight..h) /\ Len(all) = h - nextHeight + 1
        /\ \A i \in 1..h - nextHeight + 1 : all[i] = nextHeight + i - 1
    BY <1>1, <2>1, HeightsType
  <2>4. nextHeight..h \subseteq 1..LastLedger
    BY <1>1, <2>1
  <2>5. all \in Seq(1..LastLedger)
    BY <1>1, <2>1, <2>4, HeightsType
  <2>6. \A x \in nextHeight..h : ~Listed(x) => NothingDue(raw, saved, x)
    <3> SUFFICES ASSUME NEW x \in nextHeight..h, ~Listed(x),
                        NEW i \in 1..Size(raw, saved),
                        NEW n \in 1..Len(From(raw, saved, i).handlers),
                        IsListed(raw, saved, i, n), NEW p \in 1..Len(Chain[x])
                 PROVE  ~Due(raw, saved, i, n, Chain[x][p])
      BY DEF NothingDue
    <3>1. Chain[x][p] \in Data
      BY <2>4, ChainFacts
    <3>2. \A e \in entries : ~Matches(e, Chain[x][p])
      BY DEF Listed
    <3> QED
      BY <2>2, <3>1, <3>2 DEF Covers
  <2>7. \A x \in nextHeight..h : x \in Range(all)
    <3> TAKE x \in nextHeight..h
    <3>1. x - nextHeight + 1 \in 1..h - nextHeight + 1 /\ nextHeight + (x - nextHeight + 1) - 1 = x
      BY <1>1, <2>1
    <3>2. all[x - nextHeight + 1] = x
      BY <2>3, <3>1
    <3> HIDE DEF all
    <3>3. x - nextHeight + 1 \in DOMAIN all
      BY <2>3, <3>1
    <3> QED
      BY <3>2, <3>3 DEF Range
  <2>8. Sorted(all, Earlier)
    <3> HIDE DEF all
    <3> SUFFICES ASSUME NEW i \in 1..Len(all), NEW j \in 1..Len(all), i < j
                 PROVE  <<all[i], all[j]>> \in Earlier
      BY DEF Sorted
    <3>1. i \in 1..h - nextHeight + 1 /\ j \in 1..h - nextHeight + 1
      BY <2>3
    <3>2. all[i] = nextHeight + i - 1 /\ all[j] = nextHeight + j - 1
      BY <2>3, <3>1
    <3>3. all[i] < all[j] /\ all[i] \in 1..LastLedger /\ all[j] \in 1..LastLedger
      BY <1>1, <2>1, <3>1, <3>2
    <3> QED
      BY <3>3 DEF Earlier
  <2> HIDE DEF all, listed
  <2>9. more \in Seq(nextHeight..h) /\ Sorted(more, Earlier)
    BY <2>3, <2>8, KeepType, KeepSorted
  <2>10. Range(more) = Range(all) \intersect listed
    BY <2>3, KeepRange
  <2> HIDE DEF more
  <2>11. \A x \in Range(more) : x \in nextHeight..h
    BY <2>9, RangeType
  <2>12. \A x \in nextHeight..h : x \in Range(more) \/ NothingDue(raw, saved, x)
    BY <2>6, <2>7, <2>10 DEF listed
  <2>13. more \in Seq(1..LastLedger)
    BY <2>5, KeepType DEF more
  <2>14. Ahead(raw, saved, processed, block, queue \o more, h + 1)
    BY <1>1, <2>1, <2>2, <2>9, <2>11, <2>12, <2>13, AheadLonger
  <2> QED
    BY <2>1, <2>2, <2>14 DEF Future
<1>8. CASE EnqueueNext
  <2> DEFINE more == <<nextHeight>>
  <2>1. /\ stage = "running" /\ nextHeight \in nextHeight..LastLedger
        /\ queue' = Append(queue, nextHeight) /\ nextHeight' = nextHeight + 1
        /\ stage' = stage /\ raw' = raw /\ saved' = saved /\ processed' = processed
        /\ block' = block /\ entries' = entries
    BY <1>1, <1>8 DEF EnqueueNext, database, sources
  <2>2. /\ Ahead(raw, saved, processed, block, queue, nextHeight)
        /\ entries # {} => Covers(raw, saved, entries)
    BY <2>1 DEF Future
  <2>3. /\ more \in Seq(1..LastLedger) /\ Sorted(more, Earlier)
        /\ \A x : x \in Range(more) <=> x = nextHeight
    BY <1>1, <2>1 DEF Sorted, Range
  <2>4. queue' = queue \o more
    BY <1>1, <2>1
  <2> HIDE DEF more
  <2>5. \A x \in Range(more) : x \in nextHeight..nextHeight
    BY <1>1, <2>3
  <2>6. \A x \in nextHeight..nextHeight : x \in Range(more) \/ NothingDue(raw, saved, x)
    BY <1>1, <2>3
  <2>7. Ahead(raw, saved, processed, block, queue \o more, nextHeight + 1)
    BY <1>1, <2>1, <2>2, <2>3, <2>5, <2>6, AheadLonger
  <2> QED
    BY <2>1, <2>2, <2>4, <2>7 DEF Future
<1>9. CASE TakeBlock
  <2>1. /\ stage = "running" /\ block = 0 /\ queue # <<>>
        /\ block' = Head(queue) /\ queue' = Tail(queue) /\ nextHeight' = nextHeight
        /\ stage' = stage /\ raw' = raw /\ saved' = saved /\ processed' = processed
        /\ entries' = entries
    BY <1>9 DEF TakeBlock, database, sources
  <2>2. /\ Ahead(raw, saved, processed, 0, queue, nextHeight)
        /\ entries # {} => Covers(raw, saved, entries)
    BY <2>1 DEF Future
  <2>3. Ahead(raw, saved, processed, Head(queue), Tail(queue), nextHeight)
    BY <1>1, <2>1, <2>2, AheadTaken
  <2> QED
    BY <2>1, <2>2, <2>3 DEF Future
<1>10. CASE IndexDatum \/ \E c \in Creations : CreateDynamicDs(c)
  BY <1>2, <1>10 DEF IndexDatum, CreateDynamicDs, database, sources
<1>11. CASE Commit
  <2>1. /\ stage = "running" /\ stage' \in {"running", "stopped"} /\ raw' = raw
        /\ saved' = saved \o created /\ processed' = block /\ block' = 0 /\ block # 0
        /\ block \in 1..LastLedger
    BY <1>1, <1>11 DEF Commit
  <2>2. /\ Ahead(raw, saved, processed, block, queue, nextHeight)
        /\ entries # {} => Covers(raw, saved, entries)
    BY <2>1 DEF Future
  <2>3. CASE created = <<>>
    <3>1. /\ nextHeight' = nextHeight /\ queue' = queue /\ entries' = entries /\ saved' = saved
      BY <1>1, <1>11, <2>1, <2>3 DEF Commit
    <3>2. Ahead(raw, saved, block, 0, queue, nextHeight)
      BY <1>1, <2>1, <2>2, AheadDone
    <3> QED
      BY <2>1, <2>2, <3>1, <3>2 DEF Future
  <2>4. CASE created # <<>>
    <3>1. nextHeight' = block + 1 /\ queue' = <<>>
      BY <1>11, <2>4 DEF Commit
    <3>2. stage' = "running" => entries' \in {{}, QueryEntries(AllHandlers(DataSources))}
      BY <1>11, <2>1, <2>4 DEF Commit
    <3>3. PICK list \in Seq(CreatedSet) : list = saved \o created
      BY <1>1
    <3>4. Accepted(raw) /\ AllCanBeMade(raw, list) /\ DataSources = Sources(raw, list)
      BY <2>1, <3>3 DEF Loaded, DataSources, Sources
    <3>5. stage' = "running" /\ entries' # {} => Covers(raw, list, entries')
      BY <1>1, <3>2, <3>4, EntriesOfSources
    <3>6. Ahead(raw, list, block, 0, <<>>, block + 1)
      <4>1. block \in Nat
        BY <2>1
      <4> QED
        BY <4>1, AheadEmpty
    <3> QED
      BY <2>1, <3>1, <3>3, <3>5, <3>6 DEF Future
  <2> QED
    BY <2>3, <2>4
<1>12. CASE UNCHANGED vars
  BY <1>2, <1>12 DEF vars, database, heights, sources
<1> QED
  BY <1>3, <1>4, <1>5, <1>6, <1>7, <1>8, <1>9, <1>10, <1>11, <1>12 DEF Next, NodeStep

-----------------------------------------------------------------------------
(* Each handler gets the data that are due to it, once. *)

Inv == StartInv /\ Past /\ Present /\ Future

LEMMA InvInit == Init => Inv
BY StartInvInit, CallsInit DEF Inv

LEMMA InvStep == Inv /\ [Next]_vars => Inv'
<1> SUFFICES ASSUME Inv, [Next]_vars PROVE Inv'
  OBVIOUS
<1>1. StartInv'
  BY StartInvStep DEF Inv
<1>2. Types /\ Loaded /\ Loaded'
  BY <1>1 DEF Inv, StartInv
<1>3. Past' /\ Present' /\ Future'
  BY <1>2, PastStep, PresentStep, FutureStep DEF Inv
<1> QED
  BY <1>1, <1>3 DEF Inv

LEMMA CountOnce ==
    ASSUME called \in Seq(CallSet), IsInjective(called), NEW c
    PROVE  Times(c) = IF c \in Range(called) THEN 1 ELSE 0
<1> DEFINE places == {k \in 1..Len(called) : called[k] = c}
<1>1. CASE c \in Range(called)
  <2>1. PICK k \in 1..Len(called) : called[k] = c
    BY <1>1 DEF Range
  <2>2. \A j \in 1..Len(called) : called[j] = c => j = k
    BY <2>1 DEF IsInjective
  <2>3. places = {k}
    BY <2>1, <2>2
  <2> QED
    BY <1>1, <2>3, FS_Singleton DEF Times
<1>2. CASE c \notin Range(called)
  <2>1. places = {}
    BY <1>2 DEF Range
  <2> QED
    BY <1>2, <2>1, FS_EmptySet DEF Times
<1> QED
  BY <1>1, <1>2

LEMMA InTermsOfTheDatabase ==
    ASSUME NEW i
    PROVE  /\ AskedFrom(i) = From(raw, saved, i)
           /\ AskedAddress(i) = Address(raw, saved, i)
           /\ \A h, p : IsActive(i, h, p) <=> Active(raw, saved, i, h, p)
           /\ \A n, d : IsDue(i, n, d) <=> Due(raw, saved, i, n, d)
<1>1. \A name : Templates(name) = TemplatesOf(raw, name)
  BY DEF Templates, TemplatesOf
<1>2. AskedFrom(i) = From(raw, saved, i)
  BY <1>1 DEF AskedFrom, From, IsSaved, Asked, TemplateOf
<1>3. AskedAddress(i) = Address(raw, saved, i)
  BY <1>2 DEF AskedAddress, Address, GivenAddress, IsSaved, Asked
<1>4. \A h, p : IsActive(i, h, p) <=> Active(raw, saved, i, h, p)
  BY DEF IsActive, Active, IsSaved, Asked
<1> QED
  BY <1>2, <1>3, <1>4 DEF IsDue, Due

LEMMA InvIsExact == Inv => ExactlyTheDueCalls
<1> SUFFICES ASSUME Inv PROVE ExactlyTheDueCalls
  OBVIOUS
<1>1. /\ raw \in Manifests /\ saved \in Seq(CreatedSet) /\ created \in Seq(CreatedSet)
      /\ called \in Seq(CallSet) /\ processed \in 0..LastLedger
      /\ AllCanBeMade(raw, saved \o created)
  BY DEF Inv, StartInv, Types, TypeOK, Loaded
<1>2. AllCanBeMade(raw, saved)
  <2>1. \A c : c \in Range(saved \o created) <=> c \in Range(saved) \/ c \in Range(created)
    BY <1>1, RangeConcat
  <2> QED
    BY <1>1, <2>1 DEF AllCanBeMade
<1>3. Len(raw.dataSources \o saved) = Size(raw, saved) /\ Size(raw, saved) \in Nat
      /\ Len(raw.dataSources) \in Nat /\ Len(saved) \in Nat
  <2>1. raw.dataSources \in Seq(Range(raw.dataSources))
    BY <1>1, ManifestsType
  <2>2. Len(raw.dataSources \o saved) = Len(raw.dataSources) + Len(saved)
    BY <1>1, <2>1
  <2> QED
    BY <1>1, <2>1, <2>2 DEF Size
<1>4. ASSUME NEW i \in 1..Size(raw, saved), IsSaved(i), IsRuntimeDs(From(raw, saved, i))
      PROVE  IsOptional(Address(raw, saved, i))
  <2>1. PICK k \in 1..Len(saved) : k = i - Len(raw.dataSources)
    <3>1. \A x, y \in Nat : \A j \in 1..x + y : j > x => j - x \in 1..y
      OBVIOUS
    <3>2. i > Len(raw.dataSources) /\ i \in 1..Len(raw.dataSources) + Len(saved)
      BY <1>4 DEF IsSaved, Size
    <3> QED
      BY <1>3, <3>1, <3>2
  <2>2. saved[k] \in CreatedSet /\ CanBeMade(raw, saved[k])
    BY <1>1, <1>2 DEF AllCanBeMade, Range
  <2>3. /\ From(raw, saved, i) = TemplateOf(raw, saved[k])
        /\ Address(raw, saved, i) = GivenAddress(TemplateOf(raw, saved[k]), saved[k].args)
    BY <1>4, <2>1 DEF IsSaved, From, Address
  <2>4. /\ Get(Options(MadeOf(raw, saved[k])), "address") = Address(raw, saved, i)
        /\ ValidRuntimeDs(MadeOf(raw, saved[k]))
    BY <1>1, <1>4, <2>2, <2>3, MadeFromTemplate
  <2> QED
    BY <2>4, ValidAddress DEF IsOptional
<1>5. ASSUME NEW i \in 1..Size(raw, saved), NEW n \in 1..Len(From(raw, saved, i).handlers),
             NEW h \in 1..processed, NEW p \in 1..Len(Chain[h])
      PROVE  LET times == Times(Call(i, n, h, p))
             IN  IF IsListed(raw, saved, i, n)
                 THEN times = IF Active(raw, saved, i, h, p) /\ Due(raw, saved, i, n, Chain[h][p])
                              THEN 1 ELSE 0
                 ELSE times <= IF Active(raw, saved, i, h, p) THEN 1 ELSE 0
  <2>1. RightFor(raw, saved, called, h, p, i, n)
    BY <1>5 DEF Inv, Past, Right
  <2>2. Times(Call(i, n, h, p)) = IF Call(i, n, h, p) \in Range(called) THEN 1 ELSE 0
    BY <1>1, CountOnce DEF Inv, Past
  <2> QED
    BY <2>1, <2>2 DEF RightFor
<1>6. ASSUME NEW k \in 1..Len(called)
      PROVE  called[k].height <= processed /\ called[k].ds <= Size(raw, saved)
  <2>1. called[k] \in Range(called)
    BY <1>1 DEF Range
  <2>2. called[k].height \in 1..processed /\ called[k].ds \in 1..Size(raw, saved)
    BY <2>1 DEF Inv, Past
  <2> QED
    BY <2>2
<1>7. \A i \in 1..Len(raw.dataSources \o saved) :
         IsSaved(i) /\ IsRuntimeDs(AskedFrom(i)) => IsOptional(AskedAddress(i))
  BY <1>3, <1>4, InTermsOfTheDatabase
<1>8. ASSUME NEW i \in 1..Len(raw.dataSources \o saved), NEW n \in 1..Len(AskedFrom(i).handlers),
             NEW h \in 1..processed, NEW p \in 1..Len(Chain[h])
      PROVE  LET times == Times(Call(i, n, h, p))
                 kind  == AskedFrom(i).handlers[n].kind
             IN  IF IsRuntimeDs(AskedFrom(i)) /\ kind \in CaseKinds
                 THEN times = IF IsActive(i, h, p) /\ IsDue(i, n, Chain[h][p]) THEN 1 ELSE 0
                 ELSE times <= IF IsActive(i, h, p) THEN 1 ELSE 0
  <2>1. i \in 1..Size(raw, saved) /\ AskedFrom(i) = From(raw, saved, i)
    BY <1>3, <1>8, InTermsOfTheDatabase
  <2>2. /\ IsActive(i, h, p) <=> Active(raw, saved, i, h, p)
        /\ IsDue(i, n, Chain[h][p]) <=> Due(raw, saved, i, n, Chain[h][p])
    BY InTermsOfTheDatabase
  <2> QED
    BY <1>5, <1>8, <2>1, <2>2 DEF IsListed
<1> QED
  BY <1>3, <1>6, <1>7, <1>8 DEF ExactlyTheDueCalls

\* Whatever the manifest, the chain, the dictionaries, the data sources that handlers ask
\* for and the crashes: of the ledgers a node is through with, skipped ones included, each
\* handler has got exactly the data its filter asks for, once, from the datum on at which
\* its data source was made, and no data source comes of an ill-typed address.
THEOREM DueCallsOnce == Spec => []ExactlyTheDueCalls
BY InvInit, InvStep, InvIsExact, PTL DEF Spec

=============================================================================
