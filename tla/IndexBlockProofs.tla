-------------------------- MODULE IndexBlockProofs --------------------------
(***************************************************************************)
(* Proofs about IndexBlock, for every ledger, any data sources of the      *)
(* project and any number of data sources created on the way.              *)
(***************************************************************************)
EXTENDS IndexBlock, SequenceLemmas

-----------------------------------------------------------------------------
(* What the join of the lists has to come to: the visits, read off the ledger. *)

Row(k, n, a, count, kinds) == [i \in 1..count |-> Visit(<<k, n, a, i>>, kinds)]

WalkOfOperation(k, n, op) ==
    <<Visit(<<k, n>>, <<"Operation">>)>>
      \o Row(k, n, 0, op.effects, <<"Effects">>)
      \o Row(k, n, 1, op.events, <<"Event">>)

KindsOf(tx) ==
    IF \E n \in 1..Len(tx) : tx[n].invoke
    THEN <<"Transaction", "SorobanTransaction">>
    ELSE <<"Transaction">>

WalkOfTransaction(k, tx) ==
    <<Visit(<<k>>, KindsOf(tx))>> \o FlattenSeq([n \in 1..Len(tx) |-> WalkOfOperation(k, n, tx[n])])

Walk(L) ==
    <<Visit(<<>>, <<"Block">>)>> \o FlattenSeq([k \in 1..Len(L) |-> WalkOfTransaction(k, L[k])])

-----------------------------------------------------------------------------
(* The order of data. *)

LEMMA BeforeIsStrict ==
    ASSUME NEW p \in Seq(Nat), NEW q \in Seq(Nat), Before(p, q)
    PROVE  p # q /\ ~Before(q, p)
<1>1. PICK i \in 1..Len(q) :
         /\ \A j \in 1..i - 1 : j <= Len(p) /\ p[j] = q[j]
         /\ i <= Len(p) => p[i] < q[i]
  BY DEF Before, Indices
<1>2. Len(p) \in Nat /\ Len(q) \in Nat
  OBVIOUS
<1>3. i <= Len(p) => p[i] \in Nat /\ q[i] \in Nat
  BY <1>2
<1>4. p # q
  BY <1>1, <1>2, <1>3
<1>5. ASSUME Before(q, p) PROVE FALSE
  <2>1. PICK h \in 1..Len(p) :
           /\ \A j \in 1..h - 1 : j <= Len(q) /\ q[j] = p[j]
           /\ h <= Len(q) => q[h] < p[h]
    BY <1>5 DEF Before, Indices
  <2>2. CASE h < i
    <3>1. h \in 1..i - 1 /\ h <= Len(q) /\ p[h] \in Nat
      BY <1>2, <2>2
    <3> QED
      BY <1>1, <2>1, <3>1
  <2>3. CASE h = i
    BY <1>1, <1>2, <1>3, <2>1, <2>3
  <2>4. CASE h > i
    <3>1. i \in 1..h - 1 /\ i <= Len(p) /\ q[i] \in Nat
      BY <1>2, <2>4
    <3> QED
      BY <1>1, <2>1, <3>1
  <2> QED
    BY <2>2, <2>3, <2>4
<1> QED
  BY <1>4, <1>5

\* What contains a datum comes before it.
LEMMA ContainerFirst ==
    ASSUME NEW k \in Nat, NEW n \in Nat, NEW a \in Nat, NEW i \in Nat
    PROVE  /\ Before(<<>>, <<k>>) /\ Before(<<>>, <<k, n>>) /\ Before(<<>>, <<k, n, a, i>>)
           /\ Before(<<k>>, <<k, n>>) /\ Before(<<k>>, <<k, n, a, i>>)
           /\ Before(<<k, n>>, <<k, n, a, i>>)
<1>1. Before(<<>>, <<k>>) /\ Before(<<>>, <<k, n>>) /\ Before(<<>>, <<k, n, a, i>>)
  <2>1. 1 \in Indices(<<k>>) /\ 1 \in Indices(<<k, n>>) /\ 1 \in Indices(<<k, n, a, i>>)
    BY DEF Indices
  <2>2. Len(<<>>) = 0
    OBVIOUS
  <2> QED
    BY <2>1, <2>2 DEF Before
<1>2. Before(<<k>>, <<k, n>>) /\ Before(<<k>>, <<k, n, a, i>>)
  <2>1. 2 \in Indices(<<k, n>>) /\ 2 \in Indices(<<k, n, a, i>>)
    BY DEF Indices
  <2>2. Len(<<k>>) = 1
    OBVIOUS
  <2>3. \A h \in 1..2 - 1 : h <= 1 /\ <<k>>[h] = <<k, n>>[h] /\ <<k>>[h] = <<k, n, a, i>>[h]
    OBVIOUS
  <2> QED
    BY <2>1, <2>2, <2>3 DEF Before
<1>3. Before(<<k, n>>, <<k, n, a, i>>)
  <2>1. 3 \in Indices(<<k, n, a, i>>)
    BY DEF Indices
  <2>2. Len(<<k, n>>) = 2
    OBVIOUS
  <2>3. \A h \in 1..3 - 1 : h <= 2 /\ <<k, n>>[h] = <<k, n, a, i>>[h]
    OBVIOUS
  <2> QED
    BY <2>1, <2>2, <2>3 DEF Before
<1> QED
  BY <1>1, <1>2, <1>3

\* So does what is in an earlier transaction, or in an earlier operation of the same one.
LEMMA EarlierTransaction ==
    ASSUME NEW p, NEW q, Len(q) \in Nat \ {0}, p[1] < q[1]
    PROVE  Before(p, q)
BY DEF Before, Indices

LEMMA EarlierOperation ==
    ASSUME NEW p, NEW q, Len(p) >= 1, Len(q) \in Nat, Len(q) >= 2, p[1] = q[1], p[2] < q[2]
    PROVE  Before(p, q)
<1>1. 2 \in Indices(q)
  BY DEF Indices
<1> QED
  BY <1>1 DEF Before

\* An operation's effects come before its events, and each in their own order.
LEMMA EarlierOfOperation ==
    ASSUME NEW k \in Nat, NEW n \in Nat, NEW a \in Nat, NEW i \in Nat, NEW b \in Nat, NEW j \in Nat,
           a < b \/ (a = b /\ i < j)
    PROVE  Before(<<k, n, a, i>>, <<k, n, b, j>>)
<1>1. CASE a < b
  <2>1. 3 \in Indices(<<k, n, b, j>>)
    BY DEF Indices
  <2>2. \A h \in 1..3 - 1 : h <= Len(<<k, n, a, i>>) /\ <<k, n, a, i>>[h] = <<k, n, b, j>>[h]
    OBVIOUS
  <2> QED
    BY <1>1, <2>1, <2>2 DEF Before
<1>2. CASE a = b /\ i < j
  <2>1. 4 \in Indices(<<k, n, a, j>>)
    BY DEF Indices
  <2>2. \A h \in 1..4 - 1 : h <= Len(<<k, n, a, i>>) /\ <<k, n, a, i>>[h] = <<k, n, a, j>>[h]
    OBVIOUS
  <2> QED
    BY <1>2, <2>1, <2>2 DEF Before
<1> QED
  BY <1>1, <1>2

-----------------------------------------------------------------------------
(* The visits of a ledger: what they are, and in which order. *)

Kinds == {"Block", "Transaction", "SorobanTransaction", "Operation", "Effects", "Event"}

KindLists ==
    {<<"Block">>, <<"Transaction">>, <<"Transaction", "SorobanTransaction">>,
     <<"Operation">>, <<"Effects">>, <<"Event">>}

SomeVisits == [datum : Seq(Nat), kinds : KindLists]

InOrder == {x \in SomeVisits \X SomeVisits : Before(x[1].datum, x[2].datum)}

RowVisits(k, n, a, count, kinds) == {Visit(<<k, n, a, i>>, kinds) : i \in 1..count}

OperationVisits(k, n, op) ==
    {Visit(<<k, n>>, <<"Operation">>)}
    \union RowVisits(k, n, 0, op.effects, <<"Effects">>)
    \union RowVisits(k, n, 1, op.events, <<"Event">>)

TransactionVisits(k, tx) ==
    {Visit(<<k>>, KindsOf(tx))} \union UNION {OperationVisits(k, n, tx[n]) : n \in 1..Len(tx)}

LedgerVisits(L) ==
    {Visit(<<>>, <<"Block">>)} \union UNION {TransactionVisits(k, L[k]) : k \in 1..Len(L)}

\* A sequence of visits that are all of V, in order.
Covers(w, V) == w \in Seq(SomeVisits) /\ Range(w) = V /\ Sorted(w, InOrder)

LEMMA OrderOfVisits ==
    ASSUME NEW u \in SomeVisits, NEW v \in SomeVisits
    PROVE  <<u, v>> \in InOrder <=> Before(u.datum, v.datum)
BY DEF InOrder

LEMMA CoversOne ==
    ASSUME NEW v \in SomeVisits
    PROVE  Covers(<<v>>, {v})
BY DEF Covers, Sorted, Range

LEMMA CoversConcat ==
    ASSUME NEW u, NEW w, NEW U, NEW W, Covers(u, U), Covers(w, W),
           \A x \in U, y \in W : Before(x.datum, y.datum)
    PROVE  Covers(u \o w, U \union W)
<1>1. u \in Seq(SomeVisits) /\ w \in Seq(SomeVisits) /\ Range(u) = U /\ Range(w) = W
  BY DEF Covers
<1>2. U \subseteq SomeVisits /\ W \subseteq SomeVisits
  BY <1>1, RangeOfSeq
<1>3. Range(u \o w) = U \union W /\ u \o w \in Seq(SomeVisits)
  BY <1>1, RangeConcatenation, ConcatProperties
<1>4. \A x \in Range(u), y \in Range(w) : <<x, y>> \in InOrder
  BY <1>1, <1>2, OrderOfVisits
<1>5. Sorted(u \o w, InOrder)
  BY <1>1, <1>4, SortedConcat DEF Covers
<1> QED
  BY <1>3, <1>5 DEF Covers

Joined(Sets, n) == UNION {Sets[i] : i \in 1..n}

LEMMA CoversFlatten ==
    ASSUME NEW n \in Nat, NEW parts, NEW Sets,
           parts = [i \in 1..n |-> parts[i]],
           \A i \in 1..n : Covers(parts[i], Sets[i]),
           \A i, j \in 1..n : i < j => \A x \in Sets[i], y \in Sets[j] : Before(x.datum, y.datum)
    PROVE  Covers(FlattenSeq(parts), Joined(Sets, n))
<1>1. parts \in Seq(Seq(SomeVisits)) /\ Len(parts) = n
  BY DEF Covers
<1>2. \A i \in 1..n : Range(parts[i]) = Sets[i] /\ Sorted(parts[i], InOrder) /\ Sets[i] \subseteq SomeVisits
  BY RangeOfSeq DEF Covers
<1>3. FlattenSeq(parts) \in Seq(SomeVisits)
  BY <1>1, FlattenType
<1>4. Range(FlattenSeq(parts)) = Joined(Sets, n)
  <2>1. \A x : x \in Range(FlattenSeq(parts)) <=> \E i \in 1..n : x \in Range(parts[i])
    <3> TAKE x
    <3> QED
      BY <1>1, FlattenRange
  <2> QED
    BY <1>2, <2>1 DEF Joined
<1>5. \A i, j \in 1..n : i < j => \A x \in Range(parts[i]), y \in Range(parts[j]) : <<x, y>> \in InOrder
  BY <1>2, OrderOfVisits
<1>6. Sorted(FlattenSeq(parts), InOrder)
  BY <1>1, <1>2, <1>5, FlattenSorted
<1> QED
  BY <1>3, <1>4, <1>6 DEF Covers

\* The effects, or the events, of an operation.
LEMMA RowWalk ==
    ASSUME NEW k \in Nat, NEW n \in Nat, NEW a \in Nat, NEW count \in Nat, NEW kinds \in KindLists
    PROVE  Covers(Row(k, n, a, count, kinds), RowVisits(k, n, a, count, kinds))
<1> DEFINE row == Row(k, n, a, count, kinds)
<1>1. \A i \in 1..count : row[i] \in SomeVisits /\ row[i].datum = <<k, n, a, i>>
  BY DEF SomeVisits, Visit, Row
<1>2. row \in [1..count -> SomeVisits]
  BY <1>1 DEF Row
<1>3. Range(row) = RowVisits(k, n, a, count, kinds)
  BY DEF Range, Row, RowVisits
<1> HIDE DEF row
<1>4. row \in Seq(SomeVisits) /\ Len(row) = count
  BY <1>2
<1>5. Sorted(row, InOrder)
  <2> SUFFICES ASSUME NEW i \in 1..count, NEW j \in 1..count, i < j PROVE <<row[i], row[j]>> \in InOrder
    BY <1>4 DEF Sorted
  <2>1. Before(<<k, n, a, i>>, <<k, n, a, j>>)
    BY EarlierOfOperation
  <2> QED
    BY <1>1, <2>1, OrderOfVisits
<1> QED
  BY <1>3, <1>4, <1>5 DEF Covers, row

LEMMA OperationWalk ==
    ASSUME NEW k \in Nat, NEW n \in Nat, NEW op, op.effects \in Nat, op.events \in Nat
    PROVE  Covers(WalkOfOperation(k, n, op), OperationVisits(k, n, op))
<1> DEFINE first   == Visit(<<k, n>>, <<"Operation">>)
           effects == Row(k, n, 0, op.effects, <<"Effects">>)
           events  == Row(k, n, 1, op.events, <<"Event">>)
           Effects == RowVisits(k, n, 0, op.effects, <<"Effects">>)
           Events  == RowVisits(k, n, 1, op.events, <<"Event">>)
<1>1. first \in SomeVisits /\ first.datum = <<k, n>>
  BY DEF SomeVisits, KindLists, Visit
<1>2. /\ <<"Effects">> \in KindLists /\ <<"Event">> \in KindLists
      /\ 0 \in Nat /\ 1 \in Nat /\ op.effects \in Nat /\ op.events \in Nat
  BY DEF KindLists
<1>3. Covers(effects, Effects) /\ \A y \in Effects : \E i \in Nat : y.datum = <<k, n, 0, i>>
  <2>1. Covers(effects, Effects)
    BY <1>2, RowWalk
  <2>2. \A y \in Effects : \E i \in Nat : y.datum = <<k, n, 0, i>>
    BY DEF RowVisits, Visit
  <2> QED
    BY <2>1, <2>2
<1>4. Covers(events, Events) /\ \A y \in Events : \E i \in Nat : y.datum = <<k, n, 1, i>>
  <2>1. Covers(events, Events)
    BY <1>2, RowWalk
  <2>2. \A y \in Events : \E i \in Nat : y.datum = <<k, n, 1, i>>
    BY DEF RowVisits, Visit
  <2> QED
    BY <2>1, <2>2
<1> HIDE DEF first, effects, events, Effects, Events
<1>5. Covers(<<first>>, {first})
  BY <1>1, CoversOne
<1>6. Covers(<<first>> \o effects, {first} \union Effects)
  <2>1. ASSUME NEW y \in Effects PROVE Before(first.datum, y.datum)
    BY <1>1, <1>3, ContainerFirst
  <2> QED
    BY <1>3, <1>5, <2>1, CoversConcat
<1>7. Covers((<<first>> \o effects) \o events, ({first} \union Effects) \union Events)
  <2>1. ASSUME NEW y \in Events PROVE Before(first.datum, y.datum)
    BY <1>1, <1>4, ContainerFirst
  <2>2. ASSUME NEW x \in Effects, NEW y \in Events PROVE Before(x.datum, y.datum)
    <3>1. PICK i \in Nat : x.datum = <<k, n, 0, i>>
      BY <1>3, <2>2
    <3>2. PICK j \in Nat : y.datum = <<k, n, 1, j>>
      BY <1>4, <2>2
    <3> QED
      BY <3>1, <3>2, EarlierOfOperation
  <2> QED
    BY <1>4, <1>6, <2>1, <2>2, CoversConcat
<1> QED
  BY <1>7 DEF WalkOfOperation, OperationVisits, first, effects, events, Effects, Events

\* The data of an operation begin with its path.
IsOfOperation(p, k, n) ==
    /\ Len(p) \in Nat /\ Len(p) >= 2 /\ p[1] = k /\ p[2] = n
    /\ Before(<<k>>, p) /\ Before(<<>>, p)

LEMMA OperationData ==
    ASSUME NEW k \in Nat, NEW n \in Nat, NEW op, NEW x \in OperationVisits(k, n, op)
    PROVE  IsOfOperation(x.datum, k, n)
<1>1. x.datum = <<k, n>> \/ \E a, i \in Nat : x.datum = <<k, n, a, i>>
  BY DEF OperationVisits, RowVisits, Visit
<1>2. CASE x.datum = <<k, n>>
  <2>1. Before(<<k>>, <<k, n>>) /\ Before(<<>>, <<k, n>>)
    BY ContainerFirst
  <2>2. Len(<<k, n>>) = 2 /\ <<k, n>>[1] = k /\ <<k, n>>[2] = n
    OBVIOUS
  <2> QED
    BY <1>2, <2>1, <2>2 DEF IsOfOperation
<1>3. CASE \E a, i \in Nat : x.datum = <<k, n, a, i>>
  <2>1. PICK a \in Nat, i \in Nat : x.datum = <<k, n, a, i>>
    BY <1>3
  <2>2. Before(<<k>>, <<k, n, a, i>>) /\ Before(<<>>, <<k, n, a, i>>)
    BY ContainerFirst
  <2>3. Len(<<k, n, a, i>>) = 4 /\ <<k, n, a, i>>[1] = k /\ <<k, n, a, i>>[2] = n
    OBVIOUS
  <2> QED
    BY <2>1, <2>2, <2>3 DEF IsOfOperation
<1> QED
  BY <1>1, <1>2, <1>3

LEMMA TransactionWalk ==
    ASSUME NEW k \in Nat, NEW tx \in Seq(Operations)
    PROVE  Covers(WalkOfTransaction(k, tx), TransactionVisits(k, tx))
<1> DEFINE first == Visit(<<k>>, KindsOf(tx))
           parts == [n \in 1..Len(tx) |-> WalkOfOperation(k, n, tx[n])]
           Sets  == [n \in 1..Len(tx) |-> OperationVisits(k, n, tx[n])]
<1>1. first \in SomeVisits /\ first.datum = <<k>>
  BY DEF SomeVisits, KindLists, Visit, KindsOf
<1>2. \A n \in 1..Len(tx) : Covers(parts[n], Sets[n])
  <2> TAKE n \in 1..Len(tx)
  <2>1. tx[n].effects \in Nat /\ tx[n].events \in Nat
    BY LedgersType
  <2> QED
    BY <2>1, OperationWalk
<1>3. \A m, n \in 1..Len(tx) : m < n => \A x \in Sets[m], y \in Sets[n] : Before(x.datum, y.datum)
  <2> SUFFICES ASSUME NEW m \in 1..Len(tx), NEW n \in 1..Len(tx), m < n,
                      NEW x \in Sets[m], NEW y \in Sets[n]
               PROVE  Before(x.datum, y.datum)
    OBVIOUS
  <2>1. x \in OperationVisits(k, m, tx[m]) /\ y \in OperationVisits(k, n, tx[n]) /\ m \in Nat /\ n \in Nat
    OBVIOUS
  <2>2. IsOfOperation(x.datum, k, m) /\ IsOfOperation(y.datum, k, n)
    BY <2>1, OperationData
  <2> QED
    BY <2>2, EarlierOperation DEF IsOfOperation
<1>4. ASSUME NEW n \in 1..Len(tx), NEW y \in Sets[n] PROVE Before(<<k>>, y.datum)
  <2>1. y \in OperationVisits(k, n, tx[n]) /\ n \in Nat
    BY <1>4
  <2> QED
    BY <2>1, OperationData DEF IsOfOperation
<1>5. Len(tx) \in Nat /\ parts = [n \in 1..Len(tx) |-> parts[n]]
  OBVIOUS
<1>6. Joined(Sets, Len(tx)) = UNION {OperationVisits(k, n, tx[n]) : n \in 1..Len(tx)}
  BY DEF Joined
<1>7. WalkOfTransaction(k, tx) = <<first>> \o FlattenSeq(parts)
  BY DEF WalkOfTransaction
<1> HIDE DEF first, parts, Sets
<1>8. Covers(FlattenSeq(parts), Joined(Sets, Len(tx)))
  BY <1>2, <1>3, <1>5, CoversFlatten
<1>9. Covers(<<first>> \o FlattenSeq(parts), {first} \union Joined(Sets, Len(tx)))
  <2>1. \A y \in Joined(Sets, Len(tx)) : Before(first.datum, y.datum)
    BY <1>1, <1>4 DEF Joined
  <2>2. Covers(<<first>>, {first})
    BY <1>1, CoversOne
  <2> QED
    BY <1>8, <2>1, <2>2, CoversConcat
<1> QED
  BY <1>6, <1>7, <1>9 DEF TransactionVisits, first

\* The data of a transaction begin with its number.
LEMMA TransactionData ==
    ASSUME NEW k \in Nat, NEW tx, Len(tx) \in Nat, NEW x \in TransactionVisits(k, tx)
    PROVE  /\ Len(x.datum) \in Nat \ {0} /\ x.datum[1] = k
           /\ Before(<<>>, x.datum)
<1>1. CASE x.datum = <<k>>
  <2>1. Before(<<>>, <<k>>)
    BY ContainerFirst
  <2>2. Len(<<k>>) = 1 /\ <<k>>[1] = k
    OBVIOUS
  <2> QED
    BY <1>1, <2>1, <2>2
<1>2. CASE \E n \in 1..Len(tx) : x \in OperationVisits(k, n, tx[n])
  <2>1. PICK n \in 1..Len(tx) : x \in OperationVisits(k, n, tx[n])
    BY <1>2
  <2>2. n \in Nat
    OBVIOUS
  <2>3. IsOfOperation(x.datum, k, n)
    BY <2>1, <2>2, OperationData
  <2> QED
    BY <2>3 DEF IsOfOperation
<1> QED
  BY <1>1, <1>2 DEF TransactionVisits, Visit

LEMMA LedgerWalk ==
    ASSUME NEW L \in Seq(Seq(Operations))
    PROVE  Covers(Walk(L), LedgerVisits(L))
<1> DEFINE first == Visit(<<>>, <<"Block">>)
           parts == [k \in 1..Len(L) |-> WalkOfTransaction(k, L[k])]
           Sets  == [k \in 1..Len(L) |-> TransactionVisits(k, L[k])]
<1>1. first \in SomeVisits /\ first.datum = <<>>
  BY DEF SomeVisits, KindLists, Visit
<1>2. \A k \in 1..Len(L) : Covers(parts[k], Sets[k])
  <2> TAKE k \in 1..Len(L)
  <2>1. L[k] \in Seq(Operations) /\ k \in Nat
    OBVIOUS
  <2> QED
    BY <2>1, TransactionWalk
<1>3. \A i, j \in 1..Len(L) : i < j => \A x \in Sets[i], y \in Sets[j] : Before(x.datum, y.datum)
  <2> SUFFICES ASSUME NEW j \in 1..Len(L), NEW k \in 1..Len(L), j < k,
                      NEW x \in Sets[j], NEW y \in Sets[k]
               PROVE  Before(x.datum, y.datum)
    OBVIOUS
  <2>1. Len(L[j]) \in Nat /\ Len(L[k]) \in Nat /\ j \in Nat /\ k \in Nat
    OBVIOUS
  <2>2. x \in TransactionVisits(j, L[j]) /\ y \in TransactionVisits(k, L[k])
    OBVIOUS
  <2>3. x.datum[1] = j
    BY <2>1, <2>2, TransactionData
  <2>4. Len(y.datum) \in Nat \ {0} /\ y.datum[1] = k
    BY <2>1, <2>2, TransactionData
  <2> QED
    BY <2>3, <2>4, EarlierTransaction
<1>4. ASSUME NEW k \in 1..Len(L), NEW y \in Sets[k] PROVE Before(<<>>, y.datum)
  <2>1. Len(L[k]) \in Nat /\ k \in Nat /\ y \in TransactionVisits(k, L[k])
    BY <1>4
  <2> QED
    BY <2>1, TransactionData
<1>5. Len(L) \in Nat /\ parts = [k \in 1..Len(L) |-> parts[k]]
  OBVIOUS
<1>6. Joined(Sets, Len(L)) = UNION {TransactionVisits(k, L[k]) : k \in 1..Len(L)}
  BY DEF Joined
<1>7. Walk(L) = <<first>> \o FlattenSeq(parts)
  BY DEF Walk
<1> HIDE DEF first, parts, Sets
<1>8. Covers(FlattenSeq(parts), Joined(Sets, Len(L)))
  BY <1>2, <1>3, <1>5, CoversFlatten
<1>9. Covers(<<first>> \o FlattenSeq(parts), {first} \union Joined(Sets, Len(L)))
  <2>1. \A y \in Joined(Sets, Len(L)) : Before(first.datum, y.datum)
    BY <1>1, <1>4 DEF Joined
  <2>2. Covers(<<first>>, {first})
    BY <1>1, CoversOne
  <2> QED
    BY <1>8, <2>1, <2>2, CoversConcat
<1> QED
  BY <1>6, <1>7, <1>9 DEF LedgerVisits, first

-----------------------------------------------------------------------------
(* The join of the lists. *)

JoinedOperation(k, n, op) ==
    [id |-> <<k, n>>, invoke |-> op.invoke,
     effects |-> EffectRecords(k, n, op), events |-> EventRecords(k, n, op)]

JoinedTransaction(k, tx) ==
    [hash |-> <<k>>, operations |-> [n \in 1..Len(tx) |-> JoinedOperation(k, n, tx[n])]]

SomeOperations == [id : Seq(Nat), transaction_hash : Seq(Nat), invoke : BOOLEAN]
SomeEffects    == [id : Seq(Nat), operation : Seq(Nat)]
SomeEvents     == [id : Seq(Nat), txHash : Seq(Nat), operationIndex : Nat]

EffectTable(L) == [k \in 1..Len(L) |-> [n \in 1..Len(L[k]) |-> EffectRecords(k, n, L[k][n])]]
EventTable(L)  == [k \in 1..Len(L) |-> [n \in 1..Len(L[k]) |-> EventRecords(k, n, L[k][n])]]

\* The operations with the hash of a transaction are those of the transaction.
LEMMA JoinOperations ==
    ASSUME NEW L \in Seq(Seq(Operations)), NEW strays, NEW k \in 1..Len(L)
    PROVE  LET operations == Lists(L, strays).operations
           IN  Keep(operations, {o \in Range(operations) : o.transaction_hash = <<k>>})
                  = OperationRecords(k, L[k])
<1> DEFINE parts == [i \in 1..Len(L) |-> OperationRecords(i, L[i])]
           flat  == FlattenSeq(parts)
           A     == {o \in Range(flat) : o.transaction_hash = <<k>>}
<1>1. parts \in Seq(Seq(SomeOperations)) /\ Len(parts) = Len(L)
  <2>1. \A i \in 1..Len(L) : OperationRecords(i, L[i]) \in Seq(SomeOperations)
    <3> TAKE i \in 1..Len(L)
    <3>1. \A n \in 1..Len(L[i]) : L[i][n].invoke \in BOOLEAN
      BY LedgersType
    <3> QED
      BY <3>1 DEF OperationRecords, SomeOperations
  <2> QED
    BY <2>1
<1>2. \A i \in 1..Len(L) : \A x \in Range(parts[i]) : x.transaction_hash = <<i>>
  <2> SUFFICES ASSUME NEW i \in 1..Len(L), NEW x \in Range(OperationRecords(i, L[i]))
               PROVE  x.transaction_hash = <<i>>
    OBVIOUS
  <2>1. PICK n \in 1..Len(L[i]) : x = OperationRecords(i, L[i])[n]
    BY DEF Range, OperationRecords
  <2> QED
    BY <2>1 DEF OperationRecords
<1>3. Lists(L, strays).operations = flat
  BY DEF Lists
<1>4. parts[k] = OperationRecords(k, L[k])
  OBVIOUS
<1> HIDE DEF parts
<1>5. \A i \in 1..Len(parts) : \A x \in Range(parts[i]) : x \in A <=> i = k
  <2> SUFFICES ASSUME NEW i \in 1..Len(parts), NEW x \in Range(parts[i]) PROVE x \in A <=> i = k
    OBVIOUS
  <2>1. x \in Range(flat)
    BY <1>1, FlattenRange
  <2>2. x.transaction_hash = <<i>>
    BY <1>1, <1>2
  <2>3. <<i>> = <<k>> <=> i = k
    OBVIOUS
  <2> QED
    BY <2>1, <2>2, <2>3
<1> HIDE DEF A
<1>6. Keep(flat, A) = parts[k]
  BY <1>1, <1>5, KeepOnly
<1> QED
  BY <1>3, <1>4, <1>6 DEF A

LEMMA EffectTableType ==
    ASSUME NEW L \in Seq(Seq(Operations))
    PROVE  /\ EffectTable(L) \in Seq(Seq(Seq(SomeEffects)))
           /\ Len(EffectTable(L)) = Len(L)
           /\ \A k \in 1..Len(L) :
                 /\ Len(EffectTable(L)[k]) = Len(L[k])
                 /\ \A n \in 1..Len(L[k]) : EffectTable(L)[k][n] = EffectRecords(k, n, L[k][n])
<1>1. ASSUME NEW k \in 1..Len(L), NEW n \in 1..Len(L[k])
      PROVE  EffectRecords(k, n, L[k][n]) \in Seq(SomeEffects)
  <2>1. L[k][n].effects \in Nat
    BY <1>1, LedgersType
  <2>2. \A i \in 1..L[k][n].effects : EffectRecords(k, n, L[k][n])[i] \in SomeEffects
    BY <1>1, <2>1 DEF EffectRecords, SomeEffects
  <2>3. EffectRecords(k, n, L[k][n]) \in [1..L[k][n].effects -> SomeEffects]
    BY <2>2 DEF EffectRecords
  <2> QED
    BY <2>1, <2>3, ListIsSequence
<1>2. ASSUME NEW k \in 1..Len(L)
      PROVE  /\ [n \in 1..Len(L[k]) |-> EffectRecords(k, n, L[k][n])] \in Seq(Seq(SomeEffects))
             /\ Len([n \in 1..Len(L[k]) |-> EffectRecords(k, n, L[k][n])]) = Len(L[k])
  BY <1>1, <1>2
<1> QED
  BY <1>2 DEF EffectTable

LEMMA EventTableType ==
    ASSUME NEW L \in Seq(Seq(Operations))
    PROVE  /\ EventTable(L) \in Seq(Seq(Seq(SomeEvents)))
           /\ Len(EventTable(L)) = Len(L)
           /\ \A k \in 1..Len(L) :
                 /\ Len(EventTable(L)[k]) = Len(L[k])
                 /\ \A n \in 1..Len(L[k]) : EventTable(L)[k][n] = EventRecords(k, n, L[k][n])
<1>1. ASSUME NEW k \in 1..Len(L), NEW n \in 1..Len(L[k])
      PROVE  EventRecords(k, n, L[k][n]) \in Seq(SomeEvents)
  <2>1. L[k][n].events \in Nat
    BY <1>1, LedgersType
  <2>2. \A i \in 1..L[k][n].events : EventRecords(k, n, L[k][n])[i] \in SomeEvents
    <3>1. n - 1 \in Nat /\ <<k>> \in Seq(Nat)
      BY <1>1
    <3> QED
      BY <1>1, <2>1, <3>1 DEF EventRecords, SomeEvents
  <2>3. EventRecords(k, n, L[k][n]) \in [1..L[k][n].events -> SomeEvents]
    BY <2>2 DEF EventRecords
  <2> QED
    BY <2>1, <2>3, ListIsSequence
<1>2. ASSUME NEW k \in 1..Len(L)
      PROVE  /\ [n \in 1..Len(L[k]) |-> EventRecords(k, n, L[k][n])] \in Seq(Seq(SomeEvents))
             /\ Len([n \in 1..Len(L[k]) |-> EventRecords(k, n, L[k][n])]) = Len(L[k])
  BY <1>1, <1>2
<1> QED
  BY <1>2 DEF EventTable

LEMMA NamesOfEffects ==
    ASSUME NEW k, NEW n, NEW op, NEW x \in Range(EffectRecords(k, n, op))
    PROVE  x.operation = <<k, n>>
<1>1. PICK i \in 1..op.effects : x = EffectRecords(k, n, op)[i]
  BY DEF Range, EffectRecords
<1> QED
  BY <1>1 DEF EffectRecords

LEMMA NamesOfEvents ==
    ASSUME NEW k, NEW n, NEW op, NEW x \in Range(EventRecords(k, n, op))
    PROVE  x.txHash = <<k>> /\ x.operationIndex = n - 1
<1>1. PICK i \in 1..op.events : x = EventRecords(k, n, op)[i]
  BY DEF Range, EventRecords
<1> QED
  BY <1>1 DEF EventRecords

LEMMA ListedEffects ==
    ASSUME NEW L \in Seq(Seq(Operations)), NEW strays
    PROVE  Lists(L, strays).effects = FlattenTable(EffectTable(L))
<1>1. Lists(L, strays).effects =
         FlattenSeq([k \in 1..Len(L) |->
            FlattenSeq([n \in 1..Len(L[k]) |-> EffectRecords(k, n, L[k][n])])])
  BY DEF Lists, EachOperation
<1>2. Len(EffectTable(L)) = Len(L)
  BY EffectTableType
<1>3. \A k \in 1..Len(L) :
         EffectTable(L)[k] = [n \in 1..Len(L[k]) |-> EffectRecords(k, n, L[k][n])]
  BY DEF EffectTable
<1>4. [k \in 1..Len(L) |-> FlattenSeq([n \in 1..Len(L[k]) |-> EffectRecords(k, n, L[k][n])])]
         = [k \in 1..Len(EffectTable(L)) |-> FlattenSeq(EffectTable(L)[k])]
  BY <1>2, <1>3
<1> QED
  BY <1>1, <1>4 DEF FlattenTable

LEMMA ListedEvents ==
    ASSUME NEW L \in Seq(Seq(Operations)), NEW strays
    PROVE  Lists(L, strays).events = strays \o FlattenTable(EventTable(L))
<1>1. Lists(L, strays).events = strays \o
         FlattenSeq([k \in 1..Len(L) |->
            FlattenSeq([n \in 1..Len(L[k]) |-> EventRecords(k, n, L[k][n])])])
  BY DEF Lists, EachOperation
<1>2. Len(EventTable(L)) = Len(L)
  BY EventTableType
<1>3. \A k \in 1..Len(L) :
         EventTable(L)[k] = [n \in 1..Len(L[k]) |-> EventRecords(k, n, L[k][n])]
  BY DEF EventTable
<1>4. [k \in 1..Len(L) |-> FlattenSeq([n \in 1..Len(L[k]) |-> EventRecords(k, n, L[k][n])])]
         = [k \in 1..Len(EventTable(L)) |-> FlattenSeq(EventTable(L)[k])]
  BY <1>2, <1>3
<1> QED
  BY <1>1, <1>4 DEF FlattenTable

\* The effects of an operation are found by its id.
LEMMA JoinEffects ==
    ASSUME NEW L \in Seq(Seq(Operations)), NEW strays, NEW k \in 1..Len(L), NEW n \in 1..Len(L[k])
    PROVE  EffectsOf(Lists(L, strays).effects, <<k, n>>) = EffectRecords(k, n, L[k][n])
<1> DEFINE table == EffectTable(L)
           flat  == FlattenTable(table)
           A     == {f \in Range(flat) : f.operation = <<k, n>>}
<1>1. /\ table \in Seq(Seq(Seq(SomeEffects))) /\ Len(table) = Len(L)
      /\ \A i \in 1..Len(L) : Len(table[i]) = Len(L[i])
  BY EffectTableType
<1>2. \A i \in 1..Len(L) : \A m \in 1..Len(L[i]) : table[i][m] = EffectRecords(i, m, L[i][m])
  BY EffectTableType
<1> HIDE DEF table
<1>3. OnlyCell(table, A, k, n)
  <2> SUFFICES ASSUME NEW i \in 1..Len(table), NEW m \in 1..Len(table[i]),
                      NEW x \in Range(table[i][m])
               PROVE  x \in A <=> i = k /\ m = n
    BY DEF OnlyCell
  <2>1. i \in 1..Len(L) /\ m \in 1..Len(L[i])
    BY <1>1
  <2>2. x \in Range(EffectRecords(i, m, L[i][m]))
    BY <1>2, <2>1
  <2>3. x.operation = <<i, m>>
    BY <2>2, NamesOfEffects
  <2>4. x \in Range(flat)
    BY <1>1, TableRange
  <2>5. <<i, m>> = <<k, n>> <=> i = k /\ m = n
    OBVIOUS
  <2> QED
    BY <2>3, <2>4, <2>5
<1> HIDE DEF A
<1>4. k \in 1..Len(table) /\ n \in 1..Len(table[k])
  BY <1>1
<1>5. Keep(flat, A) = table[k][n]
  BY <1>1, <1>3, <1>4, KeepCell
<1>6. Lists(L, strays).effects = flat
  BY ListedEffects DEF table
<1> QED
  BY <1>2, <1>5, <1>6 DEF EffectsOf, A

\* The events of a transaction are found by its hash, whatever the failed transactions left.
LEMMA JoinTransactionEvents ==
    ASSUME NEW L \in Seq(Seq(Operations)), NEW strays \in {<<>>, <<Stray>>}, NEW k \in 1..Len(L)
    PROVE  LET events == Lists(L, strays).events
           IN  Keep(events, {e \in Range(events) : e.txHash = <<k>>}) = FlattenSeq(EventTable(L)[k])
<1> DEFINE table == EventTable(L)
           flat  == FlattenTable(table)
           A     == {e \in Range(strays \o flat) : e.txHash = <<k>>}
<1>1. /\ table \in Seq(Seq(Seq(SomeEvents))) /\ Len(table) = Len(L)
      /\ \A i \in 1..Len(L) : Len(table[i]) = Len(L[i])
  BY EventTableType
<1>2. \A i \in 1..Len(L) : \A m \in 1..Len(L[i]) : table[i][m] = EventRecords(i, m, L[i][m])
  BY EventTableType
<1> HIDE DEF table
<1>3. flat \in Seq(SomeEvents)
  BY <1>1, TableRange
<1>4. strays \in Seq(SomeEvents) /\ \A e \in Range(strays) : e.txHash = <<0>>
  <2>1. Stray \in SomeEvents /\ Stray.txHash = <<0>>
    BY DEF Stray, SomeEvents
  <2>2. Range(<<>>) = {} /\ Range(<<Stray>>) = {Stray}
    BY DEF Range
  <2> HIDE DEF flat
  <2>3. <<>> \in Seq(SomeEvents) /\ <<Stray>> \in Seq(SomeEvents)
    BY <2>1
  <2>4. CASE strays = <<>>
    BY <2>2, <2>3, <2>4
  <2>5. CASE strays = <<Stray>>
    BY <2>1, <2>2, <2>3, <2>5
  <2> QED
    BY <2>4, <2>5
<1>5. Range(strays \o flat) = Range(strays) \union Range(flat)
  BY <1>3, <1>4, RangeConcatenation
<1>6. OnlyRow(table, A, k)
  <2> SUFFICES ASSUME NEW i \in 1..Len(table), NEW m \in 1..Len(table[i]),
                      NEW x \in Range(table[i][m])
               PROVE  x \in A <=> i = k
    BY DEF OnlyRow
  <2>1. i \in 1..Len(L) /\ m \in 1..Len(L[i])
    BY <1>1
  <2>2. x \in Range(EventRecords(i, m, L[i][m]))
    BY <1>2, <2>1
  <2>3. x.txHash = <<i>>
    BY <2>2, NamesOfEvents
  <2>4. x \in Range(flat)
    BY <1>1, TableRange
  <2>5. <<i>> = <<k>> <=> i = k
    OBVIOUS
  <2> QED
    BY <1>5, <2>3, <2>4, <2>5
<1>7. Range(strays) \intersect A = {}
  <2>1. <<0>> # <<k>>
    OBVIOUS
  <2> QED
    BY <1>4, <2>1
<1>8. Lists(L, strays).events = strays \o flat
  BY ListedEvents DEF table
<1> HIDE DEF A
<1>9. Keep(flat, A) = FlattenSeq(table[k])
  BY <1>1, <1>6, KeepRow
<1>10. Keep(strays, A) = <<>>
  BY <1>4, <1>7, KeepNone
<1>11. Keep(strays \o flat, A) = Keep(strays, A) \o Keep(flat, A)
  BY <1>3, <1>4, KeepConcat
<1>12. Keep(flat, A) \in Seq(SomeEvents)
  BY <1>3, KeepType
<1>13. Keep(strays \o flat, A) = FlattenSeq(table[k])
  BY <1>9, <1>10, <1>11, <1>12, ConcatEmptySeq
<1> QED
  BY <1>8, <1>13 DEF A, table

\* Those of an operation among them are found by its place.
LEMMA JoinOperationEvents ==
    ASSUME NEW L \in Seq(Seq(Operations)), NEW k \in 1..Len(L), NEW n \in 1..Len(L[k])
    PROVE  EventsOf(FlattenSeq(EventTable(L)[k]), n - 1) = EventRecords(k, n, L[k][n])
<1> DEFINE row  == EventTable(L)[k]
           flat == FlattenSeq(row)
           A    == {e \in Range(flat) : e.operationIndex = n - 1}
<1>1. row \in Seq(Seq(SomeEvents)) /\ Len(row) = Len(L[k])
  BY EventTableType
<1>2. \A m \in 1..Len(L[k]) : row[m] = EventRecords(k, m, L[k][m])
  BY EventTableType
<1> HIDE DEF row
<1>3. ASSUME NEW m \in 1..Len(row), NEW x \in Range(row[m]) PROVE x \in A <=> m = n
  <2>1. m \in 1..Len(L[k])
    BY <1>1, <1>3
  <2>2. x \in Range(EventRecords(k, m, L[k][m]))
    BY <1>2, <1>3, <2>1
  <2>3. x.operationIndex = m - 1
    BY <2>2, NamesOfEvents
  <2>4. x \in Range(flat)
    BY <1>1, <1>3, FlattenRange
  <2>5. m - 1 = n - 1 <=> m = n
    BY <2>1
  <2> QED
    BY <2>3, <2>4, <2>5
<1> HIDE DEF A
<1>4. n \in 1..Len(row)
  BY <1>1
<1>5. Keep(flat, A) = row[n]
  BY <1>1, <1>3, <1>4, KeepOnly
<1> QED
  BY <1>2, <1>5 DEF EventsOf, A, row

JoinedLedger(L) == [k \in 1..Len(L) |-> JoinedTransaction(k, L[k])]

LEMMA JoinTransaction ==
    ASSUME NEW L \in Seq(Seq(Operations)), NEW strays \in {<<>>, <<Stray>>}, NEW k \in 1..Len(L)
    PROVE  WrapTransaction(<<k>>, Lists(L, strays)) = JoinedTransaction(k, L[k])
<1> DEFINE lists      == Lists(L, strays)
           operations == Keep(lists.operations,
                              {o \in Range(lists.operations) : o.transaction_hash = <<k>>})
           events     == Keep(lists.events, {e \in Range(lists.events) : e.txHash = <<k>>})
<1>1. operations = OperationRecords(k, L[k])
  BY JoinOperations
<1>2. events = FlattenSeq(EventTable(L)[k])
  BY JoinTransactionEvents
<1>3. WrapTransaction(<<k>>, lists)
         = [hash |-> <<k>>, operations |-> WrapOperationsForTx(operations, lists.effects, events)]
  BY DEF WrapTransaction
<1>4. \A n \in 1..Len(L[k]) : EffectsOf(lists.effects, <<k, n>>) = EffectRecords(k, n, L[k][n])
  <2> TAKE n \in 1..Len(L[k])
  <2> QED
    BY JoinEffects
<1> HIDE DEF lists, operations, events
<1>5. \A n \in 1..Len(L[k]) : EventsOf(events, n - 1) = EventRecords(k, n, L[k][n])
  <2> TAKE n \in 1..Len(L[k])
  <2> QED
    BY <1>2, JoinOperationEvents
<1>6. /\ Len(operations) = Len(L[k])
      /\ \A n \in 1..Len(L[k]) : operations[n].id = <<k, n>> /\ operations[n].invoke = L[k][n].invoke
  BY <1>1 DEF OperationRecords
<1>7. WrapOperationsForTx(operations, lists.effects, events)
         = [n \in 1..Len(L[k]) |-> JoinedOperation(k, n, L[k][n])]
  BY <1>4, <1>5, <1>6 DEF WrapOperationsForTx, JoinedOperation
<1> QED
  BY <1>3, <1>7 DEF JoinedTransaction, lists

\* The lists are joined to the ledger they are of: nothing of it is lost, and nothing
\* of a failed transaction gets in.
LEMMA JoinLedger ==
    ASSUME NEW L \in Seq(Seq(Operations)), NEW strays \in {<<>>, <<Stray>>}
    PROVE  WrapLedger(Lists(L, strays)).transactions = JoinedLedger(L)
<1> DEFINE lists == Lists(L, strays)
<1>1. /\ Len(lists.transactions) = Len(L)
      /\ \A k \in 1..Len(L) : lists.transactions[k].hash = <<k>>
  BY DEF Lists
<1>2. \A k \in 1..Len(L) : WrapTransaction(<<k>>, lists) = JoinedTransaction(k, L[k])
  <2> TAKE k \in 1..Len(L)
  <2> QED
    BY JoinTransaction
<1> HIDE DEF lists
<1>3. WrapTransactionsForLedger(lists) = JoinedLedger(L)
  BY <1>1, <1>2 DEF WrapTransactionsForLedger, JoinedLedger
<1> QED
  BY <1>3 DEF WrapLedger, lists

LEMMA VisitsOfJoinedOperation ==
    ASSUME NEW k, NEW n, NEW op \in Operations
    PROVE  VisitsOfOperation(JoinedOperation(k, n, op)) = WalkOfOperation(k, n, op)
<1> DEFINE joined == JoinedOperation(k, n, op)
<1>1. op.effects \in Nat /\ op.events \in Nat
  BY LedgersType
<1>2. /\ joined.id = <<k, n>>
      /\ joined.effects = EffectRecords(k, n, op) /\ joined.events = EventRecords(k, n, op)
  BY DEF JoinedOperation
<1> HIDE DEF joined
<1>3. /\ Len(joined.effects) = op.effects
      /\ \A i \in 1..op.effects : joined.effects[i].id = <<k, n, 0, i>>
  BY <1>1, <1>2 DEF EffectRecords
<1>4. /\ Len(joined.events) = op.events
      /\ \A i \in 1..op.events : joined.events[i].id = <<k, n, 1, i>>
  BY <1>1, <1>2 DEF EventRecords
<1>5. [i \in 1..Len(joined.effects) |-> Visit(joined.effects[i].id, <<"Effects">>)]
         = Row(k, n, 0, op.effects, <<"Effects">>)
  BY <1>3 DEF Row
<1>6. [i \in 1..Len(joined.events) |-> Visit(joined.events[i].id, <<"Event">>)]
         = Row(k, n, 1, op.events, <<"Event">>)
  BY <1>4 DEF Row
<1> QED
  BY <1>2, <1>5, <1>6 DEF VisitsOfOperation, WalkOfOperation, joined

LEMMA VisitsOfJoinedTransaction ==
    ASSUME NEW k, NEW tx \in Seq(Operations)
    PROVE  VisitsOfTransaction(JoinedTransaction(k, tx)) = WalkOfTransaction(k, tx)
<1> DEFINE joined == JoinedTransaction(k, tx)
<1>1. /\ joined.hash = <<k>> /\ DOMAIN joined.operations = 1..Len(tx)
      /\ \A n \in 1..Len(tx) : joined.operations[n] = JoinedOperation(k, n, tx[n])
  BY DEF JoinedTransaction
<1> HIDE DEF joined
<1>2. \A n \in 1..Len(tx) : joined.operations[n].invoke = tx[n].invoke
  <2> TAKE n \in 1..Len(tx)
  <2>1. JoinedOperation(k, n, tx[n]).invoke = tx[n].invoke
    BY DEF JoinedOperation
  <2> QED
    BY <1>1, <2>1
<1>3. TransactionKinds(joined) = KindsOf(tx)
  BY <1>1, <1>2 DEF TransactionKinds, KindsOf
<1>4. \A n \in 1..Len(tx) : VisitsOfOperation(joined.operations[n]) = WalkOfOperation(k, n, tx[n])
  <2> TAKE n \in 1..Len(tx)
  <2>1. tx[n] \in Operations
    OBVIOUS
  <2> QED
    BY <1>1, <2>1, VisitsOfJoinedOperation
<1>5. [n \in DOMAIN joined.operations |-> VisitsOfOperation(joined.operations[n])]
         = [n \in 1..Len(tx) |-> WalkOfOperation(k, n, tx[n])]
  BY <1>1, <1>4
<1> QED
  BY <1>1, <1>3, <1>5 DEF VisitsOfTransaction, WalkOfTransaction, joined

LEMMA VisitsOfJoinedLedger ==
    ASSUME ledger \in Seq(Seq(Operations)), block.transactions = JoinedLedger(ledger)
    PROVE  Visits = Walk(ledger)
<1>1. /\ DOMAIN block.transactions = 1..Len(ledger)
      /\ \A k \in 1..Len(ledger) : block.transactions[k] = JoinedTransaction(k, ledger[k])
  BY DEF JoinedLedger
<1>2. \A k \in 1..Len(ledger) :
         VisitsOfTransaction(block.transactions[k]) = WalkOfTransaction(k, ledger[k])
  <2> TAKE k \in 1..Len(ledger)
  <2>1. ledger[k] \in Seq(Operations)
    OBVIOUS
  <2> QED
    BY <1>1, <2>1, VisitsOfJoinedTransaction
<1>3. [k \in DOMAIN block.transactions |-> VisitsOfTransaction(block.transactions[k])]
         = [k \in 1..Len(ledger) |-> WalkOfTransaction(k, ledger[k])]
  BY <1>1, <1>2
<1> QED
  BY <1>3 DEF Visits, Walk

-----------------------------------------------------------------------------
(* The inductive invariant. *)

\* The data source d is offered the datum of the visit v.
TakesPart(v, d) ==
    d > Len(DataSources) => ~Before(Visits[v].datum, born[d - Len(DataSources)])

\* What the loops have behind them.
Passed(v, d, m) ==
    \/ stage = "done"
    \/ v < at
    \/ v = at /\ d < ds
    \/ v = at /\ d = ds /\ m < kind

CallAt(v, d, m) == [ds |-> dataSources[d], kind |-> Visits[v].kinds[m], datum |-> Visits[v].datum]

NotYet ==
    stage = "fetched" =>
        /\ block = NoBlock /\ dataSources = DataSources /\ born = <<>>
        /\ at = 1 /\ ds = 1 /\ kind = 1 /\ calls = <<>>

Join == stage # "fetched" => block.transactions = JoinedLedger(ledger)

Sources ==
    /\ dataSources \in Seq(Range(DataSources \o Templates))
    /\ born \in Seq(Seq(Nat)) /\ Len(born) <= Len(Templates)
    /\ \A d \in 1..Len(dataSources) : dataSources[d] = (DataSources \o Templates)[d]

CallsType == calls \in Seq([ds : Range(DataSources \o Templates), kind : Kinds, datum : Seq(Nat)])

\* Data sources are created at what is being visited.
BornHere ==
    stage # "fetched" =>
        \A j \in 1..Len(born) : \E w \in 1..at : w <= Len(Visits) /\ born[j] = Visits[w].datum

Made ==
    stage \in {"indexing", "done"} =>
        \A i \in 1..Len(calls) :
           \E v \in 1..Len(Visits), d \in 1..Len(dataSources) : \E m \in 1..Len(Visits[v].kinds) :
              TakesPart(v, d) /\ Passed(v, d, m) /\ calls[i] = CallAt(v, d, m)

NothingMissed ==
    stage \in {"indexing", "done"} =>
        \A v \in 1..Len(Visits), d \in 1..Len(dataSources) : \A m \in 1..Len(Visits[v].kinds) :
           TakesPart(v, d) /\ Passed(v, d, m) => \E i \in 1..Len(calls) : calls[i] = CallAt(v, d, m)

NothingTwice == stage \in {"indexing", "done"} => IsInjective(calls)

\* The last call, if its transaction is to be offered again, and if not.
LastCall ==
    stage = "indexing" =>
        /\ kind = 2 => /\ calls # <<>>
                       /\ calls[Len(calls)] = [CallAt(at, ds, 2) EXCEPT !.kind = "Transaction"]
        /\ kind = 1 /\ calls # <<>> =>
              ~(calls[Len(calls)].kind = "Transaction" /\ IsInvoke(calls[Len(calls)].datum[1]))

IInv ==
    /\ TypeOK /\ NotYet /\ Join /\ Sources /\ CallsType /\ BornHere
    /\ Made /\ NothingMissed /\ NothingTwice
    /\ CallsInLedgerOrder
    /\ LastCall /\ SorobanAfterTransaction

-----------------------------------------------------------------------------
(* The visits, once the block is joined. *)

LEMMA LedgerType == ASSUME ledger \in Ledgers PROVE ledger \in Seq(Seq(Operations))
<1> DEFINE Transactions == UNION {[1..n -> Operations] : n \in 1..MaxOperations}
<1>1. Transactions \subseteq Seq(Operations)
  BY LedgersType
<1>2. PICK n \in 0..MaxTransactions : ledger \in [1..n -> Transactions]
  BY DEF Ledgers
<1> HIDE DEF Transactions
<1>3. ledger \in [1..n -> Seq(Operations)] /\ n \in Nat
  BY <1>1, <1>2, LedgersType
<1> QED
  BY <1>3, ListIsSequence

KindsFit(v) ==
    /\ Len(v.kinds) \in 1..2
    /\ \A m \in 1..Len(v.kinds) : v.kinds[m] \in Kinds
    /\ v.kinds[1] # "SorobanTransaction"
    /\ Len(v.kinds) = 2 => v.kinds[1] = "Transaction" /\ v.kinds[2] = "SorobanTransaction"
    /\ v.kinds[1] = "Transaction" => (IsInvoke(v.datum[1]) <=> Len(v.kinds) = 2)

LEMMA KindsOfVisits ==
    ASSUME ledger \in Seq(Seq(Operations)), NEW v \in LedgerVisits(ledger)
    PROVE  KindsFit(v)
<1>1. \/ \E kinds \in {<<"Block">>, <<"Operation">>, <<"Effects">>, <<"Event">>} : v.kinds = kinds
      \/ \E k \in 1..Len(ledger) : v = Visit(<<k>>, KindsOf(ledger[k]))
  <2>1. v = Visit(<<>>, <<"Block">>) \/ \E k \in 1..Len(ledger) : v \in TransactionVisits(k, ledger[k])
    BY DEF LedgerVisits
  <2>2. CASE v = Visit(<<>>, <<"Block">>)
    BY <2>2 DEF Visit
  <2>3. CASE \E k \in 1..Len(ledger) : v \in TransactionVisits(k, ledger[k])
    <3>1. PICK k \in 1..Len(ledger) : v \in TransactionVisits(k, ledger[k])
      BY <2>3
    <3>2. CASE v = Visit(<<k>>, KindsOf(ledger[k]))
      BY <3>2
    <3>3. CASE \E n \in 1..Len(ledger[k]) : v \in OperationVisits(k, n, ledger[k][n])
      <4>1. PICK n \in 1..Len(ledger[k]) : v \in OperationVisits(k, n, ledger[k][n])
        BY <3>3
      <4>2. v.kinds \in {<<"Operation">>, <<"Effects">>, <<"Event">>}
        BY <4>1 DEF OperationVisits, RowVisits, Visit
      <4> QED
        BY <4>2
    <3> QED
      BY <3>1, <3>2, <3>3 DEF TransactionVisits
  <2> QED
    BY <2>1, <2>2, <2>3
<1>2. CASE \E kinds \in {<<"Block">>, <<"Operation">>, <<"Effects">>, <<"Event">>} : v.kinds = kinds
  <2>1. PICK name \in {"Block", "Operation", "Effects", "Event"} : v.kinds = <<name>>
    BY <1>2
  <2>2. Len(v.kinds) = 1 /\ v.kinds[1] = name
    BY <2>1
  <2>3. name \in Kinds /\ name # "Transaction" /\ name # "SorobanTransaction"
    BY DEF Kinds
  <2> QED
    BY <2>2, <2>3 DEF KindsFit
<1>3. CASE \E k \in 1..Len(ledger) : v = Visit(<<k>>, KindsOf(ledger[k]))
  <2>1. PICK k \in 1..Len(ledger) : v = Visit(<<k>>, KindsOf(ledger[k]))
    BY <1>3
  <2>2. v.datum[1] = k /\ v.kinds = KindsOf(ledger[k])
    BY <2>1 DEF Visit
  <2>3. CASE IsInvoke(k)
    <3>1. v.kinds = <<"Transaction", "SorobanTransaction">>
      BY <2>2, <2>3 DEF KindsOf, IsInvoke, Indices
    <3>2. Len(v.kinds) = 2 /\ v.kinds[1] = "Transaction" /\ v.kinds[2] = "SorobanTransaction"
      BY <3>1
    <3>3. \A m \in 1..Len(v.kinds) : v.kinds[m] \in Kinds
      BY <3>2 DEF Kinds
    <3> QED
      BY <2>2, <2>3, <3>2, <3>3 DEF KindsFit
  <2>4. CASE ~IsInvoke(k)
    <3>1. v.kinds = <<"Transaction">>
      BY <2>2, <2>4 DEF KindsOf, IsInvoke, Indices
    <3>2. Len(v.kinds) = 1 /\ v.kinds[1] = "Transaction"
      BY <3>1
    <3>3. \A m \in 1..Len(v.kinds) : v.kinds[m] \in Kinds
      BY <3>2 DEF Kinds
    <3> QED
      BY <2>2, <2>4, <3>2, <3>3 DEF KindsFit
  <2> QED
    BY <2>3, <2>4
<1> QED
  BY <1>1, <1>2, <1>3

VisitsFit ==
    /\ Visits \in Seq(SomeVisits) /\ Len(Visits) \in Nat \ {0}
    /\ \A v \in 1..Len(Visits) : Visits[v].datum \in Seq(Nat) /\ KindsFit(Visits[v])
    /\ \A v, w \in 1..Len(Visits) : Before(Visits[v].datum, Visits[w].datum) <=> v < w
    /\ \A v, w \in 1..Len(Visits) : Visits[v].datum = Visits[w].datum => v = w
    /\ Range(Visits) = LedgerVisits(ledger)

LEMMA VisitsOfLedger ==
    ASSUME ledger \in Ledgers, Join, stage # "fetched"
    PROVE  VisitsFit
<1>1. ledger \in Seq(Seq(Operations))
  BY LedgerType
<1>2. Visits = Walk(ledger)
  BY <1>1, VisitsOfJoinedLedger DEF Join
<1>3. Covers(Visits, LedgerVisits(ledger))
  BY <1>1, <1>2, LedgerWalk
<1> DEFINE V == Visits
<1>4. V \in Seq(SomeVisits) /\ Range(V) = LedgerVisits(ledger) /\ Sorted(V, InOrder)
  BY <1>3 DEF Covers
<1> HIDE DEF V
<1>5. Len(V) \in Nat \ {0}
  <2>1. Visit(<<>>, <<"Block">>) \in Range(V)
    BY <1>4 DEF LedgerVisits
  <2>2. PICK v \in 1..Len(V) : V[v] = Visit(<<>>, <<"Block">>)
    BY <1>4, <2>1 DEF Range
  <2> QED
    BY <1>4, <2>2
<1>6. \A v \in 1..Len(V) : V[v] \in SomeVisits /\ V[v].datum \in Seq(Nat)
  <2>1. \A v \in 1..Len(V) : V[v] \in SomeVisits
    BY <1>4
  <2>2. \A y \in SomeVisits : y.datum \in Seq(Nat)
    BY DEF SomeVisits
  <2> QED
    BY <2>1, <2>2
<1>7. \A v \in 1..Len(V) : KindsFit(V[v])
  <2> TAKE v \in 1..Len(V)
  <2>1. V[v] \in LedgerVisits(ledger)
    BY <1>4 DEF Range
  <2> QED
    BY <1>1, <2>1, KindsOfVisits
<1>8. \A v, w \in 1..Len(V) : v < w => Before(V[v].datum, V[w].datum)
  <2> SUFFICES ASSUME NEW v \in 1..Len(V), NEW w \in 1..Len(V), v < w
               PROVE  Before(V[v].datum, V[w].datum)
    OBVIOUS
  <2>1. <<V[v], V[w]>> \in InOrder
    BY <1>4 DEF Sorted
  <2> QED
    BY <1>6, <2>1, OrderOfVisits
<1>9. \A v, w \in 1..Len(V) :
         /\ Before(V[v].datum, V[w].datum) <=> v < w
         /\ V[v].datum = V[w].datum => v = w
  <2> SUFFICES ASSUME NEW v \in 1..Len(V), NEW w \in 1..Len(V)
               PROVE  /\ Before(V[v].datum, V[w].datum) <=> v < w
                      /\ V[v].datum = V[w].datum => v = w
    OBVIOUS
  <2>1. V[v].datum \in Seq(Nat) /\ V[w].datum \in Seq(Nat) /\ v \in Nat /\ w \in Nat
    BY <1>6
  <2>2. CASE v < w
    <3>1. Before(V[v].datum, V[w].datum)
      BY <1>8, <2>2
    <3> QED
      BY <2>1, <2>2, <3>1, BeforeIsStrict
  <2>3. CASE w < v
    <3>1. Before(V[w].datum, V[v].datum)
      BY <1>8, <2>3
    <3>2. ~(v < w)
      BY <2>1, <2>3
    <3> QED
      BY <2>1, <3>1, <3>2, BeforeIsStrict
  <2>4. CASE v = w
    <3>1. ~(v < w)
      BY <2>1, <2>4
    <3> QED
      BY <2>1, <2>4, <3>1, BeforeIsStrict
  <2> QED
    BY <2>1, <2>2, <2>3, <2>4
<1> QED
  BY <1>4, <1>5, <1>6, <1>7, <1>9 DEF VisitsFit, V

\* The data of the ledger are what is visited, for the kinds it is visited for.
LEMMA DataOfVisits ==
    ASSUME ledger \in Seq(Seq(Operations)), NEW x
    PROVE  x \in Data <=>
              \E v \in LedgerVisits(ledger) : \E m \in 1..Len(v.kinds) : x = <<v.kinds[m], v.datum>>
<1> DEFINE OfOperation(k, n) ==
              {<<"Operation", <<k, n>>>>}
              \union {<<"Effects", <<k, n, 0, i>>>> : i \in 1..ledger[k][n].effects}
              \union {<<"Event", <<k, n, 1, i>>>> : i \in 1..ledger[k][n].events}
           Offered(V) == \E v \in V : \E m \in 1..Len(v.kinds) : x = <<v.kinds[m], v.datum>>
           One(v) == \E m \in 1..Len(v.kinds) : x = <<v.kinds[m], v.datum>>
<1>1. \A k \in 1..Len(ledger) : \A n \in 1..Len(ledger[k]) :
         x \in OfOperation(k, n) <=> Offered(OperationVisits(k, n, ledger[k][n]))
  <2> SUFFICES ASSUME NEW k \in 1..Len(ledger), NEW n \in 1..Len(ledger[k])
               PROVE  x \in OfOperation(k, n) <=> Offered(OperationVisits(k, n, ledger[k][n]))
    OBVIOUS
  <2>1. One(Visit(<<k, n>>, <<"Operation">>)) <=> x = <<"Operation", <<k, n>>>>
    BY DEF Visit
  <2>2. \A i : One(Visit(<<k, n, 0, i>>, <<"Effects">>)) <=> x = <<"Effects", <<k, n, 0, i>>>>
    BY DEF Visit
  <2>3. \A i : One(Visit(<<k, n, 1, i>>, <<"Event">>)) <=> x = <<"Event", <<k, n, 1, i>>>>
    BY DEF Visit
  <2>4. Offered(OperationVisits(k, n, ledger[k][n])) <=>
           \/ One(Visit(<<k, n>>, <<"Operation">>))
           \/ \E i \in 1..ledger[k][n].effects : One(Visit(<<k, n, 0, i>>, <<"Effects">>))
           \/ \E i \in 1..ledger[k][n].events : One(Visit(<<k, n, 1, i>>, <<"Event">>))
    <3> HIDE DEF One
    <3>1. Offered(OperationVisits(k, n, ledger[k][n])) <=>
             \E v \in OperationVisits(k, n, ledger[k][n]) : One(v)
      BY DEF One
    <3> QED
      BY <3>1 DEF OperationVisits, RowVisits
  <2> HIDE DEF One, Offered
  <2> QED
    BY <2>1, <2>2, <2>3, <2>4
<1>2. \A k \in 1..Len(ledger) :
         One(Visit(<<k>>, KindsOf(ledger[k]))) <=>
            \/ x = <<"Transaction", <<k>>>>
            \/ IsInvoke(k) /\ x = <<"SorobanTransaction", <<k>>>>
  <2> TAKE k \in 1..Len(ledger)
  <2>1. CASE IsInvoke(k)
    <3>1. KindsOf(ledger[k]) = <<"Transaction", "SorobanTransaction">>
      BY <2>1 DEF KindsOf, IsInvoke, Indices
    <3> QED
      BY <2>1, <3>1 DEF Visit
  <2>2. CASE ~IsInvoke(k)
    <3>1. KindsOf(ledger[k]) = <<"Transaction">>
      BY <2>2 DEF KindsOf, IsInvoke, Indices
    <3> QED
      BY <2>2, <3>1 DEF Visit
  <2> QED
    BY <2>1, <2>2
<1>3. One(Visit(<<>>, <<"Block">>)) <=> x = <<"Block", <<>>>>
  BY DEF Visit
<1>4. Offered(LedgerVisits(ledger)) <=>
         \/ One(Visit(<<>>, <<"Block">>))
         \/ \E k \in 1..Len(ledger) :
               \/ One(Visit(<<k>>, KindsOf(ledger[k])))
               \/ \E n \in 1..Len(ledger[k]) : Offered(OperationVisits(k, n, ledger[k][n]))
  <2>1. \A V : Offered(V) <=> \E v \in V : One(v)
    BY DEF One
  <2> HIDE DEF One, Offered
  <2>2. \A k \in 1..Len(ledger) : Offered(TransactionVisits(k, ledger[k])) <=>
           \/ One(Visit(<<k>>, KindsOf(ledger[k])))
           \/ \E n \in 1..Len(ledger[k]) : Offered(OperationVisits(k, n, ledger[k][n]))
    <3> TAKE k \in 1..Len(ledger)
    <3> QED
      BY <2>1 DEF TransactionVisits
  <2>3. Offered(LedgerVisits(ledger)) <=>
           \/ One(Visit(<<>>, <<"Block">>))
           \/ \E k \in 1..Len(ledger) : Offered(TransactionVisits(k, ledger[k]))
    BY <2>1 DEF LedgerVisits
  <2> QED
    BY <2>2, <2>3
<1>5. x \in Data <=>
         \/ x = <<"Block", <<>>>>
         \/ \E k \in 1..Len(ledger) :
               \/ x = <<"Transaction", <<k>>>>
               \/ IsInvoke(k) /\ x = <<"SorobanTransaction", <<k>>>>
               \/ \E n \in 1..Len(ledger[k]) : x \in OfOperation(k, n)
  <2>1. Data = {<<"Block", <<>>>>}
               \union {<<"Transaction", <<k>>>> : k \in 1..Len(ledger)}
               \union {<<"SorobanTransaction", <<k>>>> : k \in {j \in 1..Len(ledger) : IsInvoke(j)}}
               \union UNION {UNION {OfOperation(k, n) : n \in 1..Len(ledger[k])} : k \in 1..Len(ledger)}
    BY DEF Data, Indices
  <2> HIDE DEF OfOperation, Offered, One
  <2>2. x \in UNION {UNION {OfOperation(k, n) : n \in 1..Len(ledger[k])} : k \in 1..Len(ledger)}
           <=> \E k \in 1..Len(ledger) : \E n \in 1..Len(ledger[k]) : x \in OfOperation(k, n)
    OBVIOUS
  <2> QED
    BY <2>1, <2>2
<1> HIDE DEF One, OfOperation, Offered
<1>6. x \in Data <=> Offered(LedgerVisits(ledger))
  BY <1>1, <1>2, <1>3, <1>4, <1>5
<1> QED
  BY <1>6 DEF Offered

-----------------------------------------------------------------------------
(* One call of indexData, whether or not it creates a data source. *)

Grown ==
    \/ UNCHANGED <<dataSources, born>>
    \/ /\ Len(born) < Len(Templates)
       /\ dataSources' = Append(dataSources, Templates[Len(born) + 1])
       /\ born' = Append(born, Visits[at].datum)

Offer ==
    /\ stage = "indexing"
    /\ calls' = Append(calls, Call)
    /\ UNCHANGED <<ledger, block>>
    /\ Grown
    /\ Advance(Len(dataSources'))

LEMMA AllSources ==
    /\ DataSources \in Seq(Range(DataSources)) /\ Templates \in Seq(Range(Templates))
    /\ Range(DataSources \o Templates) = Range(DataSources) \union Range(Templates)
    /\ DataSources \o Templates \in Seq(Range(DataSources \o Templates))
    /\ Len(DataSources \o Templates) = Len(DataSources) + Len(Templates)
<1> DEFINE All == Range(DataSources) \union Range(Templates)
<1>1. DataSources \in Seq(Range(DataSources)) /\ Templates \in Seq(Range(Templates))
  BY ObjectsDiffer
<1>2. DataSources \in [1..Len(DataSources) -> All] /\ Len(DataSources) \in Nat
  BY <1>1
<1>3. Templates \in [1..Len(Templates) -> All] /\ Len(Templates) \in Nat
  BY <1>1
<1> HIDE DEF All
<1>4. DataSources \in Seq(All) /\ Templates \in Seq(All)
  BY <1>2, <1>3, ListIsSequence
<1>5. /\ DataSources \o Templates \in Seq(All)
      /\ Len(DataSources \o Templates) = Len(DataSources) + Len(Templates)
  BY <1>4, ConcatProperties
<1>6. Range(DataSources \o Templates) = Range(DataSources) \union Range(Templates)
  BY <1>4, RangeConcatenation
<1>7. DataSources \o Templates \in Seq(Range(DataSources \o Templates))
  BY <1>5, <1>6 DEF All
<1> QED
  BY <1>1, <1>5, <1>6, <1>7

LEMMA StepIsOffer ==
    ASSUME Sources, IndexData \/ CreateDynamicDatasource
    PROVE  Offer
<1>1. CASE IndexData
  BY <1>1 DEF IndexData, Offer, Grown
<1>2. CASE CreateDynamicDatasource
  <2>1. dataSources \in Seq(Range(DataSources \o Templates)) /\ Len(born) \in Nat
    BY DEF Sources
  <2>2. Templates[Len(born) + 1] \in Range(DataSources \o Templates)
    <3>1. Len(born) + 1 \in 1..Len(Templates) /\ Templates \in Seq(Range(Templates))
      BY <1>2, <2>1, ObjectsDiffer DEF CreateDynamicDatasource
    <3>2. Range(DataSources \o Templates) = Range(DataSources) \union Range(Templates)
      BY AllSources
    <3> QED
      BY <3>1, <3>2
  <2>3. Len(Append(dataSources, Templates[Len(born) + 1])) = Len(dataSources) + 1
    BY <2>1, <2>2, AppendProperties
  <2> QED
    BY <1>2, <2>3 DEF CreateDynamicDatasource, Offer, Grown
<1> QED
  BY <1>1, <1>2

\* What is known of the arrays of data sources before and after.
Growth ==
    /\ Len(dataSources) \in Nat /\ Len(dataSources') \in Nat /\ Len(dataSources) <= Len(dataSources')
    /\ Len(born) \in Nat /\ Len(born') \in Nat /\ Len(DataSources) \in Nat
    /\ Len(dataSources) = Len(DataSources) + Len(born)
    /\ Len(dataSources') = Len(DataSources) + Len(born')
    /\ \A d \in 1..Len(dataSources) : dataSources'[d] = dataSources[d]
    /\ \A j \in 1..Len(born) : born'[j] = born[j]
    /\ \A j \in 1..Len(born') : j > Len(born) => born'[j] = Visits[at].datum

LEMMA GrowthOfSources ==
    ASSUME TypeOK, Sources, VisitsFit, Offer
    PROVE  Growth /\ Sources'
<1> DEFINE All == Range(DataSources \o Templates)
           datum == Visits[at].datum
<1>1. /\ DataSources \in Seq(Range(DataSources)) /\ Templates \in Seq(Range(Templates))
      /\ Range(DataSources \o Templates) = Range(DataSources) \union Range(Templates)
  BY AllSources
<1>2. /\ dataSources \in Seq(All) /\ born \in Seq(Seq(Nat))
      /\ Len(dataSources) = Len(DataSources) + Len(born)
      /\ Len(born) <= Len(Templates)
      /\ \A d \in 1..Len(dataSources) : dataSources[d] = (DataSources \o Templates)[d]
  BY DEF Sources, TypeOK
<1>3. datum \in Seq(Nat)
  BY DEF TypeOK, Offer, Indices, VisitsFit
<1>4. CASE UNCHANGED <<dataSources, born>>
  BY <1>1, <1>2, <1>4 DEF Growth, Sources
<1>5. CASE /\ Len(born) < Len(Templates)
           /\ dataSources' = Append(dataSources, Templates[Len(born) + 1])
           /\ born' = Append(born, datum)
  <2> HIDE DEF datum
  <2>1. Templates[Len(born) + 1] \in All
    BY <1>1, <1>2, <1>5
  <2>2. /\ dataSources' \in Seq(All) /\ Len(dataSources') = Len(dataSources) + 1
        /\ \A d \in 1..Len(dataSources) : dataSources'[d] = dataSources[d]
        /\ dataSources'[Len(dataSources) + 1] = Templates[Len(born) + 1]
    <3> HIDE DEF All
    <3> PICK e : e = Templates[Len(born) + 1]
      OBVIOUS
    <3>1. e \in All /\ dataSources' = Append(dataSources, e) /\ dataSources \in Seq(All)
      BY <1>2, <1>5, <2>1
    <3>2. /\ Append(dataSources, e) \in Seq(All)
          /\ Len(Append(dataSources, e)) = Len(dataSources) + 1
          /\ \A d \in 1..Len(dataSources) : Append(dataSources, e)[d] = dataSources[d]
          /\ Append(dataSources, e)[Len(dataSources) + 1] = e
      BY <3>1, AppendProperties
    <3> QED
      BY <3>1, <3>2
  <2>3. /\ born' \in Seq(Seq(Nat)) /\ Len(born') = Len(born) + 1
        /\ \A j \in 1..Len(born) : born'[j] = born[j]
        /\ born'[Len(born) + 1] = datum
    BY <1>2, <1>3, <1>5, AppendProperties
  <2>4. (DataSources \o Templates)[Len(dataSources) + 1] = Templates[Len(born) + 1]
    BY <1>1, <1>2, <1>5
  <2>5. \A d \in 1..Len(dataSources') : d \in 1..Len(dataSources) \/ d = Len(dataSources) + 1
    BY <1>2, <2>2
  <2>6. Sources'
    <3> HIDE DEF All
    <3>1. \A d \in 1..Len(dataSources') : dataSources'[d] = (DataSources \o Templates)[d]
      BY <1>2, <2>2, <2>4, <2>5
    <3>2. Len(born') <= Len(Templates)
      BY <1>1, <1>2, <1>5, <2>3
    <3> QED
      BY <2>2, <2>3, <3>1, <3>2 DEF Sources, All
  <2>7. Growth
    <3>1. Len(dataSources) \in Nat /\ Len(born) \in Nat /\ Len(DataSources) \in Nat
      BY <1>1, <1>2
    <3>2. \A j \in 1..Len(born') : j > Len(born) => j = Len(born) + 1
      BY <2>3, <3>1
    <3> HIDE DEF All
    <3> QED
      BY <1>2, <2>2, <2>3, <3>1, <3>2 DEF Growth, datum
  <2> QED
    BY <2>6, <2>7
<1> QED
  BY <1>4, <1>5 DEF Offer, Grown

\* The visits do not change while they are made.
LEMMA SameVisits == ASSUME UNCHANGED block PROVE Visits' = Visits
BY DEF Visits

\* The loops get past exactly the call that is made.
LEMMA PassedNext ==
    ASSUME TypeOK, VisitsFit, Offer, Growth,
           NEW v \in 1..Len(Visits), NEW d \in 1..Len(dataSources'), NEW m \in 1..Len(Visits[v].kinds)
    PROVE  Passed(v, d, m)' <=> Passed(v, d, m) \/ (v = at /\ d = ds /\ m = kind)
<1> DEFINE count == Len(dataSources')
           last  == Len(Visits)
<1>1. /\ stage = "indexing" /\ Advance(count)
      /\ at \in 1..last /\ ds \in 1..count /\ last \in Nat /\ count \in Nat
      /\ kind \in 1..Len(Visits[at].kinds) /\ Len(Visits[at].kinds) \in Nat
  BY DEF TypeOK, VisitsFit, Offer, Growth, Indices, KindsFit
<1>2. m \in Nat /\ m <= Len(Visits[v].kinds)
  BY DEF VisitsFit, KindsFit
<1> HIDE DEF count, last
<1>3. CASE kind < Len(Visits[at].kinds) /\ kind' = kind + 1 /\ UNCHANGED <<at, ds, stage>>
  BY <1>1, <1>2, <1>3 DEF Passed
<1>4. CASE /\ kind = Len(Visits[at].kinds) /\ ds < count
           /\ ds' = ds + 1 /\ kind' = 1 /\ UNCHANGED <<at, stage>>
  BY <1>1, <1>2, <1>4 DEF Passed
<1>5. CASE /\ kind = Len(Visits[at].kinds) /\ ds = count /\ at < last
           /\ at' = at + 1 /\ ds' = 1 /\ kind' = 1 /\ UNCHANGED stage
  BY <1>1, <1>2, <1>5 DEF Passed, count
<1>6. CASE /\ kind = Len(Visits[at].kinds) /\ ds = count /\ at = last
           /\ stage' = "done" /\ UNCHANGED <<at, ds, kind>>
  BY <1>1, <1>2, <1>6 DEF Passed, count, last
<1> QED
  BY <1>1, <1>3, <1>4, <1>5, <1>6 DEF Advance, last

\* Who takes part where does not change, and the created one takes part from here on.
LEMMA TakesPartNext ==
    ASSUME VisitsFit, Offer, Growth, at \in 1..Len(Visits),
           NEW v \in 1..Len(Visits), NEW d \in 1..Len(dataSources')
    PROVE  /\ d <= Len(dataSources) => (TakesPart(v, d)' <=> TakesPart(v, d))
           /\ d > Len(dataSources) => (TakesPart(v, d)' <=> ~(v < at))
<1>1. Visits' = Visits
  BY SameVisits DEF Offer
<1>2. CASE d <= Len(dataSources)
  <2>1. d > Len(DataSources) => d - Len(DataSources) \in 1..Len(born)
    BY <1>2 DEF Growth
  <2> QED
    BY <1>1, <1>2, <2>1 DEF Growth, TakesPart
<1>3. CASE d > Len(dataSources)
  <2>1. /\ d > Len(DataSources) /\ d - Len(DataSources) \in 1..Len(born')
        /\ d - Len(DataSources) > Len(born)
    BY <1>3 DEF Growth
  <2>2. born'[d - Len(DataSources)] = Visits[at].datum
    BY <2>1 DEF Growth
  <2>3. TakesPart(v, d)' <=> ~Before(Visits[v].datum, Visits[at].datum)
    BY <1>1, <2>1, <2>2 DEF TakesPart
  <2> QED
    BY <1>3, <2>3 DEF VisitsFit, Growth
<1> QED
  BY <1>2, <1>3 DEF Growth

\* The call that is made is one of a data source that takes part.
LEMMA TakesPartHere ==
    ASSUME TypeOK, VisitsFit, BornHere, stage = "indexing", Len(born) \in Nat, Len(DataSources) \in Nat
    PROVE  TakesPart(at, ds)
<1> SUFFICES ASSUME ds > Len(DataSources)
             PROVE  ~Before(Visits[at].datum, born[ds - Len(DataSources)])
  BY DEF TakesPart
<1>1. ds - Len(DataSources) \in 1..Len(born) /\ at \in 1..Len(Visits)
  BY DEF TypeOK, Indices
<1>2. PICK w \in 1..at : w <= Len(Visits) /\ born[ds - Len(DataSources)] = Visits[w].datum
  BY <1>1 DEF BornHere
<1>3. w \in 1..Len(Visits) /\ ~(at < w)
  BY <1>1, <1>2 DEF VisitsFit
<1> QED
  BY <1>1, <1>2, <1>3 DEF VisitsFit

\* A call tells where it was made.
LEMMA CallAtInjective ==
    ASSUME VisitsFit, Sources, Len(dataSources) = Len(DataSources) + Len(born),
           NEW v \in 1..Len(Visits), NEW d \in 1..Len(dataSources), NEW m \in 1..Len(Visits[v].kinds),
           NEW w \in 1..Len(Visits), NEW e \in 1..Len(dataSources), NEW n \in 1..Len(Visits[w].kinds),
           CallAt(v, d, m) = CallAt(w, e, n)
    PROVE  v = w /\ d = e /\ m = n
<1>1. /\ dataSources[d] = dataSources[e] /\ Visits[v].kinds[m] = Visits[w].kinds[n]
      /\ Visits[v].datum = Visits[w].datum
  BY DEF CallAt
<1>2. v = w
  BY <1>1 DEF VisitsFit
<1>3. d = e
  <2>1. /\ DataSources \o Templates \in Seq(Range(DataSources \o Templates))
        /\ Len(DataSources \o Templates) = Len(DataSources) + Len(Templates)
        /\ Len(DataSources) \in Nat /\ Len(Templates) \in Nat
    BY AllSources
  <2>2. d \in 1..Len(DataSources \o Templates) /\ e \in 1..Len(DataSources \o Templates)
    BY <2>1 DEF Sources
  <2>3. (DataSources \o Templates)[d] = (DataSources \o Templates)[e]
    BY <1>1 DEF Sources
  <2>4. DOMAIN (DataSources \o Templates) = 1..Len(DataSources \o Templates)
    BY <2>1
  <2> QED
    BY <2>2, <2>3, <2>4, ObjectsDiffer DEF IsInjective
<1>4. m = n
  <2> DEFINE kinds == Visits[v].kinds
  <2>1. /\ Len(kinds) \in 1..2 /\ kinds[1] # "SorobanTransaction"
        /\ Len(kinds) = 2 => kinds[2] = "SorobanTransaction"
    BY DEF VisitsFit, KindsFit
  <2>2. m \in 1..Len(kinds) /\ n \in 1..Len(kinds) /\ kinds[m] = kinds[n]
    BY <1>1, <1>2
  <2> HIDE DEF kinds
  <2>3. CASE Len(kinds) = 1
    BY <2>2, <2>3
  <2>4. CASE Len(kinds) = 2
    <3>1. (m = 1 \/ m = 2) /\ (n = 1 \/ n = 2)
      BY <2>2, <2>4
    <3> QED
      BY <2>1, <2>2, <2>4, <3>1
  <2> QED
    BY <2>1, <2>3, <2>4
<1> QED
  BY <1>2, <1>3, <1>4

\* What the call is, and where.
LEMMA TheCall ==
    ASSUME TypeOK, VisitsFit, Sources, CallsType, Offer
    PROVE  /\ Call = CallAt(at, ds, kind)
           /\ Call \in [ds : Range(DataSources \o Templates), kind : Kinds, datum : Seq(Nat)]
           /\ calls' \in Seq([ds : Range(DataSources \o Templates), kind : Kinds, datum : Seq(Nat)])
           /\ Len(calls) \in Nat /\ Len(calls') = Len(calls) + 1
           /\ calls'[Len(calls) + 1] = Call /\ \A i \in 1..Len(calls) : calls'[i] = calls[i]
           /\ at \in 1..Len(Visits) /\ ds \in 1..Len(dataSources)
           /\ kind \in 1..Len(Visits[at].kinds)
<1> DEFINE S == [ds : Range(DataSources \o Templates), kind : Kinds, datum : Seq(Nat)]
<1>1. at \in 1..Len(Visits) /\ ds \in 1..Len(dataSources) /\ kind \in 1..Len(Visits[at].kinds)
  BY DEF TypeOK, Offer, Indices
<1>2. Call = CallAt(at, ds, kind)
  BY DEF Call, CallAt
<1>3. Call \in S
  <2>1. Visits[at].kinds[kind] \in Kinds /\ Visits[at].datum \in Seq(Nat)
    BY <1>1 DEF VisitsFit, KindsFit
  <2>2. dataSources[ds] \in Range(DataSources \o Templates)
    BY <1>1 DEF Sources
  <2> QED
    BY <2>1, <2>2 DEF Call
<1>4. calls \in Seq(S) /\ calls' = Append(calls, Call)
  BY DEF CallsType, Offer
<1> HIDE DEF S
<1>5. /\ calls' \in Seq(S) /\ Len(calls) \in Nat /\ Len(calls') = Len(calls) + 1
      /\ calls'[Len(calls) + 1] = Call /\ \A i \in 1..Len(calls) : calls'[i] = calls[i]
  BY <1>3, <1>4, AppendProperties
<1> QED
  BY <1>1, <1>2, <1>3, <1>5 DEF S

LEMMA CallAtNext ==
    ASSUME Offer, Growth, NEW v, NEW d \in 1..Len(dataSources), NEW m
    PROVE  CallAt(v, d, m)' = CallAt(v, d, m)
<1>1. Visits' = Visits /\ dataSources'[d] = dataSources[d]
  BY SameVisits DEF Offer, Growth
<1> QED
  BY <1>1 DEF CallAt

LEMMA OneOrTwo ==
    ASSUME NEW n \in 1..2
    PROVE  n \in Nat /\ 1 \in 1..n /\ \A k \in 1..n : k \in Nat /\ k <= n /\ (k = 1 \/ (k = 2 /\ n = 2))
OBVIOUS

LEMMA TypeStep ==
    ASSUME TypeOK, VisitsFit, Growth, Offer
    PROVE  TypeOK'
<1>1. Visits' = Visits /\ Ledgers' = Ledgers
  BY SameVisits DEF Offer, Ledgers
<1>2. \A v \in 1..Len(Visits) : Len(Visits[v].kinds) \in 1..2
  BY DEF VisitsFit, KindsFit
<1> DEFINE V == Visits
<1> HIDE DEF V
<1>3. /\ at \in 1..Len(V) /\ kind \in 1..Len(V[at].kinds) /\ ds \in 1..Len(dataSources)
      /\ Len(V) \in Nat
  BY DEF TypeOK, Offer, Indices, VisitsFit, V
<1>4. stage' \in {"indexing", "done"} /\ at' \in 1..Len(V) /\ kind' \in 1..Len(V[at'].kinds)
  <2>1. stage = "indexing" /\ Advance(Len(dataSources'))
    BY DEF Offer
  <2>2. CASE at' = at /\ kind < Len(V[at].kinds) /\ kind' = kind + 1 /\ stage' = stage
    BY <1>2, <1>3, <2>1, <2>2 DEF V
  <2>3. CASE at' = at /\ kind' = 1 /\ stage' = stage
    BY <1>2, <1>3, <2>1, <2>3 DEF V
  <2>4. CASE at < Len(V) /\ at' = at + 1 /\ kind' = 1 /\ stage' = stage
    <3>1. at + 1 \in 1..Len(V)
      BY <1>3, <2>4
    <3>2. Len(V[at + 1].kinds) \in 1..2
      BY <1>2, <3>1 DEF V
    <3>3. 1 \in 1..Len(V[at + 1].kinds)
      BY <3>2, OneOrTwo
    <3> QED
      BY <2>1, <2>4, <3>1, <3>3
  <2>5. CASE at' = at /\ kind' = kind /\ stage' = "done"
    BY <1>3, <2>5
  <2> QED
    BY <2>1, <2>2, <2>3, <2>4, <2>5 DEF Advance, V
<1>5. ds' \in 1..Len(dataSources')
  BY <1>3 DEF Advance, Offer, Growth
<1> QED
  BY <1>1, <1>4, <1>5 DEF TypeOK, Offer, Growth, Indices, V

LEMMA BornHereStep ==
    ASSUME TypeOK, VisitsFit, Growth, Offer, BornHere
    PROVE  BornHere'
<1>1. Visits' = Visits /\ stage # "fetched" /\ at \in 1..Len(Visits) /\ Len(Visits) \in Nat
  BY SameVisits DEF Offer, TypeOK, VisitsFit, Indices
<1>2. at' \in Nat /\ at <= at'
  BY <1>1 DEF Offer, Advance
<1> SUFFICES ASSUME NEW j \in 1..Len(born')
             PROVE  \E w \in 1..at' : w <= Len(Visits) /\ born'[j] = Visits[w].datum
  BY <1>1 DEF BornHere
<1>3. CASE j \in 1..Len(born)
  <2>1. PICK w \in 1..at : w <= Len(Visits) /\ born[j] = Visits[w].datum
    BY <1>1, <1>3 DEF BornHere
  <2> QED
    BY <1>1, <1>2, <1>3, <2>1 DEF Growth
<1>4. CASE j > Len(born)
  BY <1>1, <1>2, <1>4 DEF Growth
<1> QED
  BY <1>3, <1>4 DEF Growth

LEMMA MadeStep ==
    ASSUME TypeOK, VisitsFit, Sources, CallsType, Growth, Offer, BornHere, Made
    PROVE  Made'
<1>1. Visits' = Visits /\ stage = "indexing"
  BY SameVisits DEF Offer
<1>2. Len(dataSources) \in Nat /\ Len(dataSources') \in Nat /\ Len(dataSources) <= Len(dataSources')
  BY DEF Growth
<1>3. ASSUME NEW v \in 1..Len(Visits), NEW d \in 1..Len(dataSources), NEW m \in 1..Len(Visits[v].kinds),
             TakesPart(v, d), Passed(v, d, m) \/ (v = at /\ d = ds /\ m = kind)
      PROVE  d \in 1..Len(dataSources') /\ TakesPart(v, d)' /\ Passed(v, d, m)'
  <2>1. d \in 1..Len(dataSources') /\ d <= Len(dataSources)
    BY <1>2
  <2>2. at \in 1..Len(Visits)
    BY TheCall
  <2>3. TakesPart(v, d)'
    BY <1>3, <2>1, <2>2, TakesPartNext
  <2>4. Passed(v, d, m)'
    BY <1>3, <2>1, PassedNext
  <2> QED
    BY <2>1, <2>3, <2>4
<1>4. ASSUME NEW i \in 1..Len(calls')
      PROVE  \E v \in 1..Len(Visits), d \in 1..Len(dataSources') : \E m \in 1..Len(Visits[v].kinds) :
                TakesPart(v, d)' /\ Passed(v, d, m)' /\ calls'[i] = CallAt(v, d, m)'
  <2>1. CASE i \in 1..Len(calls)
    <3>1. PICK v \in 1..Len(Visits), d \in 1..Len(dataSources) : \E m \in 1..Len(Visits[v].kinds) :
             TakesPart(v, d) /\ Passed(v, d, m) /\ calls[i] = CallAt(v, d, m)
      BY <1>1, <2>1 DEF Made
    <3>2. PICK m \in 1..Len(Visits[v].kinds) :
             TakesPart(v, d) /\ Passed(v, d, m) /\ calls[i] = CallAt(v, d, m)
      BY <3>1
    <3>3. calls'[i] = CallAt(v, d, m)'
      <4>1. calls'[i] = calls[i]
        BY <2>1, TheCall
      <4> QED
        BY <3>2, <4>1, CallAtNext
    <3>4. d \in 1..Len(dataSources') /\ TakesPart(v, d)' /\ Passed(v, d, m)'
      BY <1>3, <3>2
    <3> QED
      BY <3>3, <3>4
  <2>2. CASE i = Len(calls) + 1
    <3>1. PICK v \in 1..Len(Visits), d \in 1..Len(dataSources) : v = at /\ d = ds
      BY TheCall
    <3>2. PICK m \in 1..Len(Visits[v].kinds) : m = kind
      BY <3>1, TheCall
    <3>3. TakesPart(v, d)
      BY <1>1, <3>1, TakesPartHere DEF Growth
    <3>4. calls'[i] = CallAt(v, d, m)'
      <4>1. calls'[i] = CallAt(v, d, m)
        BY <2>2, <3>1, <3>2, TheCall
      <4> QED
        BY <4>1, CallAtNext
    <3>5. d \in 1..Len(dataSources') /\ TakesPart(v, d)' /\ Passed(v, d, m)'
      BY <1>3, <3>1, <3>2, <3>3
    <3> QED
      BY <3>4, <3>5
  <2> QED
    BY <2>1, <2>2, TheCall
<1> QED
  BY <1>1, <1>4 DEF Made

LEMMA NothingMissedStep ==
    ASSUME TypeOK, VisitsFit, Sources, CallsType, Growth, Offer, NothingMissed
    PROVE  NothingMissed'
<1>1. Visits' = Visits /\ stage = "indexing"
  BY SameVisits DEF Offer
<1>2. /\ Len(dataSources) \in Nat /\ at \in 1..Len(Visits) /\ ds \in 1..Len(dataSources)
      /\ Len(calls) \in Nat /\ Len(calls') = Len(calls) + 1
  BY TheCall DEF Growth
<1>3. ASSUME NEW v \in 1..Len(Visits), NEW d \in 1..Len(dataSources'), NEW m \in 1..Len(Visits[v].kinds),
             TakesPart(v, d)', Passed(v, d, m)'
      PROVE  \E i \in 1..Len(calls') : calls'[i] = CallAt(v, d, m)'
  <2>1. Passed(v, d, m) \/ (v = at /\ d = ds /\ m = kind)
    BY <1>3, PassedNext
  <2>2. d \in 1..Len(dataSources)
    <3>1. CASE d > Len(dataSources)
      <4>1. ~(v < at)
        BY <1>2, <1>3, <3>1, TakesPartNext
      <4>2. ~Passed(v, d, m)
        BY <1>1, <1>2, <3>1, <4>1 DEF Passed
      <4> QED
        BY <1>2, <2>1, <3>1, <4>2
    <3> QED
      BY <1>2, <3>1
  <2>3. TakesPart(v, d)
    <3>1. d <= Len(dataSources)
      BY <1>2, <2>2
    <3> QED
      BY <1>2, <1>3, <3>1, TakesPartNext
  <2>4. CallAt(v, d, m)' = CallAt(v, d, m)
    BY <2>2, CallAtNext
  <2>5. CASE Passed(v, d, m)
    <3>1. PICK i \in 1..Len(calls) : calls[i] = CallAt(v, d, m)
      BY <1>1, <2>2, <2>3, <2>5 DEF NothingMissed
    <3>2. i \in 1..Len(calls') /\ calls'[i] = calls[i]
      BY <1>2, TheCall
    <3> QED
      BY <2>4, <3>1, <3>2
  <2>6. CASE v = at /\ d = ds /\ m = kind
    <3>1. Len(calls) + 1 \in 1..Len(calls') /\ calls'[Len(calls) + 1] = CallAt(at, ds, kind)
      BY <1>2, TheCall
    <3> QED
      BY <2>4, <2>6, <3>1
  <2> QED
    BY <2>1, <2>5, <2>6
<1> QED
  BY <1>1, <1>3 DEF NothingMissed

LEMMA NothingTwiceStep ==
    ASSUME TypeOK, VisitsFit, Sources, CallsType, Growth, Offer, Made, NothingTwice
    PROVE  NothingTwice'
<1>1. stage = "indexing" /\ IsInjective(calls)
  BY DEF Offer, NothingTwice
<1>2. /\ at \in 1..Len(Visits) /\ ds \in 1..Len(dataSources) /\ kind \in 1..Len(Visits[at].kinds)
      /\ Len(calls) \in Nat /\ Len(calls') = Len(calls) + 1
      /\ DOMAIN calls = 1..Len(calls) /\ DOMAIN calls' = 1..Len(calls')
  <2>1. calls \in Seq([ds : Range(DataSources \o Templates), kind : Kinds, datum : Seq(Nat)])
    BY DEF CallsType
  <2> QED
    BY <2>1, TheCall
<1>3. ASSUME NEW i \in 1..Len(calls) PROVE calls[i] # Call
  <2>1. PICK v \in 1..Len(Visits), d \in 1..Len(dataSources) : \E m \in 1..Len(Visits[v].kinds) :
           TakesPart(v, d) /\ Passed(v, d, m) /\ calls[i] = CallAt(v, d, m)
    BY <1>1, <1>3 DEF Made
  <2>2. PICK m \in 1..Len(Visits[v].kinds) : Passed(v, d, m) /\ calls[i] = CallAt(v, d, m)
    BY <2>1
  <2>3. ~(v = at /\ d = ds /\ m = kind)
    <3>1. KindsFit(Visits[at])
      BY <1>2 DEF VisitsFit
    <3> QED
      BY <1>1, <1>2, <2>2, <3>1 DEF Passed, Growth, VisitsFit, KindsFit
  <2>4. Call = CallAt(at, ds, kind)
    BY TheCall
  <2> QED
    BY <1>2, <2>2, <2>3, <2>4, CallAtInjective DEF Growth
<1>4. \A i \in 1..Len(calls) : calls'[i] = calls[i]
  BY TheCall
<1>5. calls'[Len(calls) + 1] = Call
  BY TheCall
<1>6. IsInjective(calls')
  <2> SUFFICES ASSUME NEW i \in 1..Len(calls'), NEW j \in 1..Len(calls'), calls'[i] = calls'[j]
               PROVE  i = j
    BY <1>2 DEF IsInjective
  <2>1. (i \in 1..Len(calls) \/ i = Len(calls) + 1) /\ (j \in 1..Len(calls) \/ j = Len(calls) + 1)
    BY <1>2
  <2>2. CASE i \in 1..Len(calls) /\ j \in 1..Len(calls)
    BY <1>1, <1>2, <1>4, <2>2 DEF IsInjective
  <2>3. CASE i \in 1..Len(calls) /\ j = Len(calls) + 1
    BY <1>3, <1>4, <1>5, <2>3
  <2>4. CASE j \in 1..Len(calls) /\ i = Len(calls) + 1
    BY <1>3, <1>4, <1>5, <2>4
  <2> QED
    BY <2>1, <2>2, <2>3, <2>4
<1> QED
  BY <1>6 DEF NothingTwice

\* The datum of a call was visited before, or is the one that is visited now.
LEMMA OrderOfCalls ==
    ASSUME TypeOK, VisitsFit, Made, stage = "indexing", NEW i \in 1..Len(calls)
    PROVE  Before(calls[i].datum, Visits[at].datum) \/ calls[i].datum = Visits[at].datum
<1>1. PICK v \in 1..Len(Visits), d \in 1..Len(dataSources) : \E m \in 1..Len(Visits[v].kinds) :
         TakesPart(v, d) /\ Passed(v, d, m) /\ calls[i] = CallAt(v, d, m)
  BY DEF Made
<1>2. at \in 1..Len(Visits) /\ calls[i].datum = Visits[v].datum /\ (v < at \/ v = at)
  BY <1>1 DEF TypeOK, Indices, CallAt, Passed
<1> QED
  BY <1>1, <1>2 DEF VisitsFit

LEMMA OrderStep ==
    ASSUME TypeOK, VisitsFit, Made, CallsInLedgerOrder, stage = "indexing",
           Len(calls) \in Nat, Len(calls') = Len(calls) + 1, calls'[Len(calls) + 1] = Call,
           \A i \in 1..Len(calls) : calls'[i] = calls[i]
    PROVE  CallsInLedgerOrder'
<1> SUFFICES ASSUME NEW i \in 1..Len(calls'), NEW j \in 1..Len(calls'), i < j
             PROVE  \/ Before(calls'[i].datum, calls'[j].datum)
                    \/ calls'[i].datum = calls'[j].datum
  BY DEF CallsInLedgerOrder, Indices
<1>1. i \in 1..Len(calls) /\ (j \in 1..Len(calls) \/ j = Len(calls) + 1)
  OBVIOUS
<1>2. CASE j \in 1..Len(calls)
  <2>1. calls'[i] = calls[i] /\ calls'[j] = calls[j]
    BY <1>1, <1>2
  <2> QED
    BY <1>1, <1>2, <2>1 DEF CallsInLedgerOrder, Indices
<1>3. CASE j = Len(calls) + 1
  <2>1. calls'[i] = calls[i] /\ calls'[j].datum = Visits[at].datum
    BY <1>1, <1>3 DEF Call
  <2> QED
    BY <1>1, <2>1, OrderOfCalls
<1> QED
  BY <1>1, <1>2, <1>3

\* A call belongs to the last one as LastCall says.
LEMMA SorobanStep ==
    ASSUME TypeOK, VisitsFit, Sources, CallsType, LastCall, SorobanAfterTransaction, stage = "indexing",
           UNCHANGED ledger,
           Call = CallAt(at, ds, kind), at \in 1..Len(Visits), kind \in 1..Len(Visits[at].kinds),
           Len(calls) \in Nat, Len(calls') = Len(calls) + 1, calls'[Len(calls) + 1] = Call,
           \A i \in 1..Len(calls) : calls'[i] = calls[i]
    PROVE  SorobanAfterTransaction'
<1> DEFINE last  == Len(calls)
           kinds == Visits[at].kinds
<1>1. \A k : IsInvoke(k)' = IsInvoke(k)
  BY DEF IsInvoke, Indices
<1>2. /\ Len(kinds) \in 1..2 /\ kinds[1] # "SorobanTransaction"
      /\ Len(kinds) = 2 => kinds[1] = "Transaction" /\ kinds[2] = "SorobanTransaction"
      /\ kinds[1] = "Transaction" => (IsInvoke(Visits[at].datum[1]) <=> Len(kinds) = 2)
  BY DEF VisitsFit, KindsFit
<1>3. (kind = 1 \/ kind = 2) /\ kind <= Len(kinds)
  BY <1>2, OneOrTwo
<1>4. Call.kind = kinds[kind] /\ Call.datum = Visits[at].datum /\ Call.ds = dataSources[ds]
  BY DEF Call
<1>5. Call.kind = "SorobanTransaction" <=> kind = 2
  BY <1>2, <1>3, <1>4
<1>6. kind = 2 => /\ IsInvoke(Call.datum[1]) /\ last > 0
                  /\ calls[last] = [Call EXCEPT !.kind = "Transaction"]
                  /\ Call = [calls[last] EXCEPT !.kind = "SorobanTransaction"]
  <2> SUFFICES ASSUME kind = 2
               PROVE  /\ IsInvoke(Call.datum[1]) /\ last > 0
                      /\ calls[last] = [Call EXCEPT !.kind = "Transaction"]
                      /\ Call = [calls[last] EXCEPT !.kind = "SorobanTransaction"]
    OBVIOUS
  <2>1. IsInvoke(Call.datum[1])
    BY <1>2, <1>3, <1>4
  <2>2. calls # <<>> /\ calls[last] = [CallAt(at, ds, 2) EXCEPT !.kind = "Transaction"]
    BY DEF LastCall
  <2>3. last > 0
    BY <2>2 DEF CallsType
  <2>4. Call = [ds |-> dataSources[ds], kind |-> "SorobanTransaction", datum |-> Visits[at].datum]
    BY <1>2, <1>3 DEF Call
  <2>5. calls[last] = [Call EXCEPT !.kind = "Transaction"]
    BY <2>2
  <2>6. calls[last] = [ds |-> dataSources[ds], kind |-> "Transaction", datum |-> Visits[at].datum]
    BY <2>4, <2>5
  <2>7. Call = [calls[last] EXCEPT !.kind = "SorobanTransaction"]
    BY <2>4, <2>6
  <2> QED
    BY <2>1, <2>3, <2>5, <2>7
<1>7. kind = 1 /\ last > 0 => ~(calls[last].kind = "Transaction" /\ IsInvoke(calls[last].datum[1]))
  BY DEF LastCall
<1> SUFFICES ASSUME NEW i \in 1..Len(calls')
             PROVE  /\ calls'[i].kind = "SorobanTransaction" =>
                          /\ IsInvoke(calls'[i].datum[1])
                          /\ i > 1 /\ calls'[i - 1] = [calls'[i] EXCEPT !.kind = "Transaction"]
                    /\ calls'[i].kind = "Transaction" /\ IsInvoke(calls'[i].datum[1]) /\ i < Len(calls') =>
                          calls'[i + 1] = [calls'[i] EXCEPT !.kind = "SorobanTransaction"]
  BY <1>1 DEF SorobanAfterTransaction, Indices
<1> HIDE DEF kinds, last
<1>8. CASE i = last + 1
  <2>1. calls'[i] = Call /\ ~(i < Len(calls'))
    BY <1>8 DEF last
  <2>2. kind = 2 => i - 1 \in 1..Len(calls) /\ i - 1 = last /\ calls'[i - 1] = calls[last] /\ i > 1
    BY <1>6, <1>8 DEF last
  <2> QED
    BY <1>5, <1>6, <2>1, <2>2
<1>9. CASE i \in 1..last
  <2>1. calls'[i] = calls[i] /\ i \in Indices(calls)
    BY <1>9 DEF Indices, last
  <2>2. calls'[i].kind = "SorobanTransaction" =>
           /\ IsInvoke(calls'[i].datum[1])
           /\ i > 1 /\ calls'[i - 1] = [calls'[i] EXCEPT !.kind = "Transaction"]
    <3> SUFFICES ASSUME calls'[i].kind = "SorobanTransaction"
                 PROVE  /\ IsInvoke(calls'[i].datum[1])
                        /\ i > 1 /\ calls'[i - 1] = [calls'[i] EXCEPT !.kind = "Transaction"]
      OBVIOUS
    <3>1. IsInvoke(calls[i].datum[1]) /\ i > 1 /\ calls[i - 1] = [calls[i] EXCEPT !.kind = "Transaction"]
      BY <2>1 DEF SorobanAfterTransaction
    <3>2. calls'[i - 1] = calls[i - 1]
      BY <1>9, <3>1 DEF last
    <3> QED
      BY <2>1, <3>1, <3>2
  <2>3. CASE i < last
    <3>1. calls'[i + 1] = calls[i + 1]
      BY <1>9, <2>3 DEF last
    <3> QED
      BY <2>1, <2>2, <2>3, <3>1 DEF SorobanAfterTransaction, last
  <2>4. CASE i = last
    <3>1. calls'[i + 1] = Call /\ last > 0
      BY <1>9, <2>4 DEF last
    <3> QED
      BY <1>3, <1>6, <1>7, <2>1, <2>2, <2>4, <3>1
  <2> QED
    BY <1>9, <2>3, <2>4 DEF last
<1> QED
  BY <1>8, <1>9 DEF last

LEMMA LastCallStep ==
    ASSUME TypeOK, VisitsFit, Sources, CallsType, Growth, Offer
    PROVE  LastCall'
<1> DEFINE kinds == Visits[at].kinds
<1>1. \A k : IsInvoke(k)' = IsInvoke(k)
  BY DEF IsInvoke, Indices, Offer
<1>2. /\ Len(kinds) \in 1..2 /\ kinds[1] # "SorobanTransaction"
      /\ Len(kinds) = 2 => kinds[1] = "Transaction" /\ kinds[2] = "SorobanTransaction"
      /\ kinds[1] = "Transaction" => (IsInvoke(Visits[at].datum[1]) <=> Len(kinds) = 2)
      /\ kind \in 1..Len(kinds)
  BY TheCall DEF VisitsFit, KindsFit
<1>3. Call.kind = kinds[kind] /\ Call.datum = Visits[at].datum /\ Call.ds = dataSources[ds]
  BY DEF Call
<1>4. calls'[Len(calls')] = Call /\ Len(calls') \in Nat \ {0} /\ calls' # <<>>
  BY TheCall
<1>5. Visits' = Visits /\ ds \in 1..Len(dataSources) /\ dataSources'[ds] = dataSources[ds]
  BY TheCall, SameVisits DEF Offer, Growth
<1> SUFFICES ASSUME stage' = "indexing"
             PROVE  /\ kind' = 2 => Call = [CallAt(at, ds, 2)' EXCEPT !.kind = "Transaction"]
                    /\ kind' = 1 => ~(Call.kind = "Transaction" /\ IsInvoke(Call.datum[1]))
  BY <1>1, <1>4 DEF LastCall
<1>6. CASE kind < Len(kinds) /\ kind' = kind + 1 /\ UNCHANGED <<at, ds>>
  <2>1. kind = 1 /\ kind' = 2 /\ Len(kinds) = 2
    <3> HIDE DEF kinds
    <3>1. \A n \in 1..2 : \A k \in 1..n : k < n => k = 1 /\ k + 1 = 2 /\ n = 2
      OBVIOUS
    <3>2. kind = 1 /\ kind + 1 = 2 /\ Len(kinds) = 2
      BY <1>2, <1>6, <3>1
    <3> QED
      BY <1>6, <3>2
  <2>2. CallAt(at, ds, 2)' = [ds |-> dataSources[ds], kind |-> kinds[2], datum |-> Visits[at].datum]
    BY <1>5, <1>6 DEF CallAt
  <2>3. Call = [ds |-> dataSources[ds], kind |-> "Transaction", datum |-> Visits[at].datum]
    BY <1>2, <2>1 DEF Call
  <2> HIDE DEF kinds
  <2> QED
    BY <2>1, <2>2, <2>3
<1>7. CASE kind = Len(kinds) /\ kind' = 1
  BY <1>2, <1>3, <1>7
<1>8. stage' = "indexing" => \/ kind < Len(kinds) /\ kind' = kind + 1 /\ UNCHANGED <<at, ds>>
                             \/ kind = Len(kinds) /\ kind' = 1
  BY DEF Offer, Advance
<1> QED
  BY <1>6, <1>7, <1>8

LEMMA OfferStep ==
    ASSUME IInv, Offer
    PROVE  IInv'
<1>1. ledger \in Ledgers /\ stage = "indexing"
  BY DEF IInv, TypeOK, Offer
<1>2. VisitsFit
  BY <1>1, VisitsOfLedger DEF IInv
<1>3. /\ TypeOK /\ Sources /\ CallsType /\ BornHere /\ Made /\ NothingMissed /\ NothingTwice
      /\ CallsInLedgerOrder /\ LastCall /\ SorobanAfterTransaction
  BY DEF IInv
<1>4. Growth /\ Sources'
  BY <1>2, <1>3, GrowthOfSources
<1>5. TypeOK'
  BY <1>2, <1>3, <1>4, TypeStep
<1>6. stage' # "fetched"
  BY <1>1 DEF Offer, Advance
<1>7. NotYet' /\ Join'
  BY <1>1, <1>6 DEF NotYet, Join, IInv, Offer
<1>8. CallsType'
  BY <1>2, <1>3, TheCall DEF CallsType
<1>9. BornHere'
  BY <1>2, <1>3, <1>4, BornHereStep
<1>10. Made'
  BY <1>2, <1>3, <1>4, MadeStep
<1>11. NothingMissed'
  BY <1>2, <1>3, <1>4, NothingMissedStep
<1>12. NothingTwice'
  BY <1>2, <1>3, <1>4, NothingTwiceStep
<1>13. /\ Call = CallAt(at, ds, kind) /\ at \in 1..Len(Visits) /\ kind \in 1..Len(Visits[at].kinds)
       /\ Len(calls) \in Nat /\ Len(calls') = Len(calls) + 1 /\ calls'[Len(calls) + 1] = Call
       /\ \A i \in 1..Len(calls) : calls'[i] = calls[i]
  BY <1>2, <1>3, TheCall
<1>14. CallsInLedgerOrder'
  BY <1>1, <1>2, <1>3, <1>13, OrderStep
<1>15. LastCall'
  BY <1>2, <1>3, <1>4, LastCallStep
<1>16. SorobanAfterTransaction'
  <2>1. UNCHANGED ledger
    BY DEF Offer
  <2> QED
    BY <1>1, <1>2, <1>3, <1>13, <2>1, SorobanStep
<1> QED
  BY <1>4, <1>5, <1>7, <1>8, <1>9, <1>10, <1>11, <1>12, <1>14, <1>15, <1>16 DEF IInv

LEMMA IndexBlockDataStep ==
    ASSUME IInv, IndexBlockData
    PROVE  IInv'
<1>1. /\ stage = "fetched" /\ stage' = "indexing"
      /\ UNCHANGED <<ledger, dataSources, born, at, ds, kind, calls>>
  BY DEF IndexBlockData
<1>2. /\ dataSources = DataSources /\ born = <<>> /\ calls = <<>>
      /\ at = 1 /\ ds = 1 /\ kind = 1
  BY <1>1 DEF IInv, NotYet
<1>3. ledger \in Ledgers /\ Ledgers' = Ledgers
  BY DEF IInv, TypeOK, Ledgers
<1>4. PICK strays \in {<<>>, <<Stray>>} : block' = WrapLedger(Lists(ledger, strays))
  BY DEF IndexBlockData
<1>5. block'.transactions = JoinedLedger(ledger)
  <2>1. ledger \in Seq(Seq(Operations))
    BY <1>3, LedgerType
  <2> QED
    BY <1>4, <2>1, JoinLedger
<1>6. Join' /\ NotYet'
  BY <1>1, <1>5 DEF Join, NotYet
<1>7. VisitsFit'
  <2>1. (ledger \in Ledgers)' /\ (stage # "fetched")'
    BY <1>1, <1>3
  <2> QED
    BY <1>6, <2>1, VisitsOfLedger, PTL
<1>8. TypeOK'
  <2>1. at' \in Indices(Visits') /\ kind' \in Indices(Visits'[at'].kinds)
    <3>1. 1 \in 1..Len(Visits') /\ KindsFit(Visits[1])'
      BY <1>7 DEF VisitsFit
    <3>2. Len(Visits'[1].kinds) \in 1..2
      BY <3>1 DEF KindsFit
    <3>3. 1 \in 1..Len(Visits'[1].kinds)
      BY <3>2, OneOrTwo
    <3> QED
      BY <1>1, <1>2, <3>1, <3>3 DEF Indices
  <2> QED
    BY <1>1, <1>3, <2>1 DEF TypeOK, IInv
<1>9. Sources' /\ CallsType' /\ BornHere'
  BY <1>1, <1>2 DEF Sources, CallsType, BornHere, IInv
<1>10. Made' /\ NothingTwice' /\ CallsInLedgerOrder' /\ LastCall' /\ SorobanAfterTransaction'
  BY <1>1, <1>2 DEF Made, NothingTwice, IsInjective, CallsInLedgerOrder, LastCall,
                    SorobanAfterTransaction, Indices
<1>11. NothingMissed'
  <2>1. \A v \in 1..Len(Visits'), d \in 1..Len(dataSources') : \A m \in 1..Len(Visits'[v].kinds) :
           ~Passed(v, d, m)'
    BY <1>1, <1>2, <1>7 DEF Passed, VisitsFit, KindsFit
  <2> QED
    BY <2>1 DEF NothingMissed
<1> QED
  BY <1>6, <1>8, <1>9, <1>10, <1>11 DEF IInv

LEMMA FailStep ==
    ASSUME IInv, IndexDataFail
    PROVE  IInv'
<1>1. /\ stage = "indexing" /\ stage' = "failed" /\ calls' = Append(calls, Call)
      /\ UNCHANGED <<ledger, block, dataSources, born, at, ds, kind>>
  BY DEF IndexDataFail
<1>2. ledger \in Ledgers
  BY DEF IInv, TypeOK
<1>3. VisitsFit
  BY <1>1, <1>2, VisitsOfLedger DEF IInv
<1>4. Visits' = Visits /\ Ledgers' = Ledgers
  BY <1>1, SameVisits DEF Ledgers
<1>5. /\ TypeOK /\ Sources /\ CallsType /\ BornHere /\ Made
      /\ CallsInLedgerOrder /\ LastCall /\ SorobanAfterTransaction
  BY DEF IInv
<1>6. TypeOK' /\ NotYet' /\ Join' /\ Sources' /\ BornHere'
  BY <1>1, <1>4, <1>5 DEF TypeOK, NotYet, Join, Sources, BornHere, IInv
<1>7. Made' /\ NothingMissed' /\ NothingTwice' /\ LastCall'
  BY <1>1 DEF Made, NothingMissed, NothingTwice, LastCall
<1>8. /\ at \in 1..Len(Visits) /\ ds \in 1..Len(dataSources) /\ kind \in 1..Len(Visits[at].kinds)
  BY <1>1, <1>5 DEF TypeOK, Indices
<1>9. Call = CallAt(at, ds, kind)
  BY DEF Call, CallAt
<1>10. Call \in [ds : Range(DataSources \o Templates), kind : Kinds, datum : Seq(Nat)]
  <2>1. Visits[at].kinds[kind] \in Kinds /\ Visits[at].datum \in Seq(Nat)
    BY <1>3, <1>8 DEF VisitsFit, KindsFit
  <2>2. dataSources[ds] \in Range(DataSources \o Templates)
    BY <1>5, <1>8 DEF Sources
  <2> QED
    BY <2>1, <2>2 DEF Call
<1>11. /\ CallsType' /\ Len(calls) \in Nat /\ Len(calls') = Len(calls) + 1
       /\ calls'[Len(calls) + 1] = Call
       /\ \A i \in 1..Len(calls) : calls'[i] = calls[i]
  <2> DEFINE S == [ds : Range(DataSources \o Templates), kind : Kinds, datum : Seq(Nat)]
  <2>1. calls \in Seq(S) /\ Call \in S
    BY <1>5, <1>10 DEF CallsType
  <2> HIDE DEF S
  <2>2. /\ calls' \in Seq(S) /\ Len(calls) \in Nat /\ Len(calls') = Len(calls) + 1
        /\ calls'[Len(calls) + 1] = Call /\ \A i \in 1..Len(calls) : calls'[i] = calls[i]
    BY <1>1, <2>1, AppendProperties
  <2> QED
    BY <2>2 DEF CallsType, S
<1>12. CallsInLedgerOrder'
  BY <1>1, <1>3, <1>5, <1>11, OrderStep
<1>13. SorobanAfterTransaction'
  BY <1>1, <1>3, <1>5, <1>8, <1>9, <1>11, SorobanStep
<1> QED
  BY <1>6, <1>7, <1>11, <1>12, <1>13 DEF IInv

LEMMA InitInvariant == Init => IInv
<1> SUFFICES ASSUME Init PROVE IInv
  OBVIOUS
<1>1. /\ ledger \in Ledgers /\ stage = "fetched" /\ block = NoBlock
      /\ dataSources = DataSources /\ born = <<>> /\ calls = <<>>
      /\ at = 1 /\ ds = 1 /\ kind = 1
  BY DEF Init
<1>2. DataSources \in Seq(Range(DataSources)) /\ DataSources # <<>>
  BY ObjectsDiffer
<1>3. Len(DataSources) \in Nat \ {0}
  BY <1>2, EmptySeq
<1>4. TypeOK
  BY <1>1, <1>3 DEF TypeOK, Indices
<1>5. Sources
  <2>1. /\ Len(DataSources \o Templates) = Len(DataSources) + Len(Templates)
        /\ \A d \in 1..Len(DataSources) : DataSources[d] = (DataSources \o Templates)[d]
        /\ Len(Templates) \in Nat
    BY AllSources
  <2>2. DataSources \in Seq(Range(DataSources \o Templates))
    <3> DEFINE All == Range(DataSources \o Templates)
    <3>1. DataSources \in [1..Len(DataSources) -> All]
      BY <1>2, AllSources
    <3> HIDE DEF All
    <3>2. DataSources \in Seq(All)
      BY <1>3, <3>1, ListIsSequence
    <3> QED
      BY <3>2 DEF All
  <2> QED
    BY <1>1, <2>1, <2>2 DEF Sources
<1>6. NotYet /\ Join /\ CallsType /\ BornHere /\ Made /\ NothingMissed /\ NothingTwice /\ LastCall
  BY <1>1 DEF NotYet, Join, CallsType, BornHere, Made, NothingMissed, NothingTwice, LastCall
<1>7. CallsInLedgerOrder /\ SorobanAfterTransaction
  BY <1>1 DEF CallsInLedgerOrder, SorobanAfterTransaction, Indices
<1> QED
  BY <1>4, <1>5, <1>6, <1>7 DEF IInv

\* The invariant holds of every reachable state: of IndexBlock as a whole.
THEOREM InvariantHolds == Spec => []IInv
<1>1. IInv /\ [Next]_vars => IInv'
  <2> SUFFICES ASSUME IInv, [Next]_vars PROVE IInv'
    OBVIOUS
  <2>1. CASE IndexBlockData
    BY <2>1, IndexBlockDataStep
  <2>2. CASE IndexData
    <3>1. Sources
      BY DEF IInv
    <3>2. Offer
      BY <2>2, <3>1, StepIsOffer
    <3> QED
      BY <3>2, OfferStep
  <2>3. CASE CreateDynamicDatasource
    <3>1. Sources
      BY DEF IInv
    <3>2. Offer
      BY <2>3, <3>1, StepIsOffer
    <3> QED
      BY <3>2, OfferStep
  <2>4. CASE IndexDataFail
    BY <2>4, FailStep
  <2>5. CASE UNCHANGED vars
    <3>1. /\ UNCHANGED <<ledger, block, dataSources, born, stage, at, ds, kind, calls>>
          /\ Visits' = Visits /\ Ledgers' = Ledgers
      BY <2>5, SameVisits DEF vars, Ledgers
    <3>2. TypeOK' /\ NotYet' /\ Join' /\ Sources' /\ CallsType' /\ BornHere'
      BY <3>1 DEF IInv, TypeOK, NotYet, Join, Sources, CallsType, BornHere
    <3>3. \A v, d, m : /\ TakesPart(v, d)' = TakesPart(v, d) /\ Passed(v, d, m)' = Passed(v, d, m)
                      /\ CallAt(v, d, m)' = CallAt(v, d, m)
      BY <3>1 DEF TakesPart, Passed, CallAt
    <3>4. Made'
      BY <3>1, <3>3 DEF IInv, Made
    <3>5. NothingMissed'
      BY <3>1, <3>3 DEF IInv, NothingMissed
    <3>6. NothingTwice' /\ CallsInLedgerOrder'
      BY <3>1 DEF IInv, NothingTwice, CallsInLedgerOrder
    <3>7. \A k : IsInvoke(k)' = IsInvoke(k)
      BY <3>1 DEF IsInvoke
    <3>8. LastCall'
      BY <3>1, <3>7 DEF IInv, LastCall, CallAt
    <3>9. SorobanAfterTransaction'
      BY <3>1, <3>7 DEF IInv, SorobanAfterTransaction
    <3> QED
      BY <3>2, <3>4, <3>5, <3>6, <3>8, <3>9 DEF IInv
  <2> QED
    BY <2>1, <2>2, <2>3, <2>4, <2>5 DEF Next
<1> QED
  BY <1>1, InitInvariant, PTL DEF Spec

\* The loops of indexBlockData never leave their arrays, which may grow under them.
THEOREM TypeCorrect == Spec => []TypeOK
<1>1. IInv => TypeOK
  BY DEF IInv
<1> QED
  BY <1>1, InvariantHolds, PTL

\* No data source is ever offered the ledger out of order (indexBlockData).
THEOREM LedgerOrder == Spec => []CallsInLedgerOrder
<1>1. IInv => CallsInLedgerOrder
  BY DEF IInv
<1> QED
  BY <1>1, InvariantHolds, PTL

\* A contract call is offered as a Soroban transaction, right behind the transaction,
\* and nothing else is (indexTransaction).
THEOREM SorobanOffered == Spec => []SorobanAfterTransaction
<1>1. IInv => SorobanAfterTransaction
  BY DEF IInv
<1> QED
  BY <1>1, InvariantHolds, PTL

\* When the loops have ended, each data source was offered what it was due, once: for
\* every ledger, whatever events of failed transactions the RPC server reports, and
\* however many data sources the handlers create.
LEMMA InvariantImpliesOnce == IInv => EveryDatumOnce
<1> SUFFICES ASSUME IInv, stage = "done"
             PROVE  Range(calls) = DueCalls /\ IsInjective(calls)
  BY DEF EveryDatumOnce
<1>1. ledger \in Ledgers /\ ledger \in Seq(Seq(Operations))
  BY LedgerType DEF IInv, TypeOK
<1>2. VisitsFit
  BY <1>1, VisitsOfLedger DEF IInv
<1>3. /\ Made /\ NothingMissed /\ NothingTwice /\ CallsType /\ TypeOK
      /\ \A v, d, m : Passed(v, d, m)
  BY DEF IInv, Passed
<1>4. \A x : x \in Data <=>
         \E v \in 1..Len(Visits) : \E m \in 1..Len(Visits[v].kinds) :
            x = <<Visits[v].kinds[m], Visits[v].datum>>
  <2> TAKE x
  <2>1. x \in Data <=>
           \E v \in LedgerVisits(ledger) : \E m \in 1..Len(v.kinds) : x = <<v.kinds[m], v.datum>>
    BY <1>1, DataOfVisits
  <2>2. Range(Visits) = LedgerVisits(ledger) /\ DOMAIN Visits = 1..Len(Visits)
    BY <1>2 DEF VisitsFit
  <2>3. \A y : y \in LedgerVisits(ledger) <=> \E v \in 1..Len(Visits) : y = Visits[v]
    BY <2>2 DEF Range
  <2> QED
    BY <2>1, <2>3
<1>5. \A c : c \in DueCalls <=>
         \E d \in 1..Len(dataSources) : \E x \in Due(d) :
            c = [ds |-> dataSources[d], kind |-> x[1], datum |-> x[2]]
  BY DEF DueCalls, Indices
<1>6. \A d \in 1..Len(dataSources) : \A x :
         x \in Due(d) <=>
            /\ x \in Data
            /\ d > Len(DataSources) => ~Before(x[2], born[d - Len(DataSources)])
  <2>1. Len(DataSources) \in Nat
    BY AllSources
  <2> QED
    BY <2>1 DEF Due
<1>7. \A d \in 1..Len(dataSources) : \A x : x \in Due(d) <=>
         \E v \in 1..Len(Visits) : \E m \in 1..Len(Visits[v].kinds) :
            x = <<Visits[v].kinds[m], Visits[v].datum>> /\ TakesPart(v, d)
  BY <1>4, <1>6 DEF TakesPart
<1>8. \A c : c \in DueCalls <=>
         \E v \in 1..Len(Visits), d \in 1..Len(dataSources) : \E m \in 1..Len(Visits[v].kinds) :
            TakesPart(v, d) /\ c = CallAt(v, d, m)
  <2> TAKE c
  <2>1. ASSUME NEW v \in 1..Len(Visits), NEW d \in 1..Len(dataSources),
               NEW m \in 1..Len(Visits[v].kinds), TakesPart(v, d), c = CallAt(v, d, m)
        PROVE  c \in DueCalls
    <3>1. <<Visits[v].kinds[m], Visits[v].datum>> \in Due(d)
      BY <1>7, <2>1
    <3> QED
      BY <1>5, <2>1, <3>1 DEF CallAt
  <2>2. ASSUME c \in DueCalls
        PROVE  \E v \in 1..Len(Visits), d \in 1..Len(dataSources) : \E m \in 1..Len(Visits[v].kinds) :
                  TakesPart(v, d) /\ c = CallAt(v, d, m)
    <3>1. PICK d \in 1..Len(dataSources) : \E x \in Due(d) :
             c = [ds |-> dataSources[d], kind |-> x[1], datum |-> x[2]]
      BY <1>5, <2>2
    <3>2. PICK x \in Due(d) : c = [ds |-> dataSources[d], kind |-> x[1], datum |-> x[2]]
      BY <3>1
    <3>3. PICK v \in 1..Len(Visits) : \E m \in 1..Len(Visits[v].kinds) :
             x = <<Visits[v].kinds[m], Visits[v].datum>> /\ TakesPart(v, d)
      BY <1>7, <3>2
    <3>4. PICK m \in 1..Len(Visits[v].kinds) :
             x = <<Visits[v].kinds[m], Visits[v].datum>> /\ TakesPart(v, d)
      BY <3>3
    <3>5. c = CallAt(v, d, m)
      BY <3>2, <3>4 DEF CallAt
    <3> QED
      BY <3>4, <3>5
  <2> QED
    BY <2>1, <2>2
<1>9. \A c : c \in Range(calls) <=> \E i \in 1..Len(calls) : c = calls[i]
  <2>1. DOMAIN calls = 1..Len(calls)
    BY <1>3 DEF CallsType
  <2> QED
    BY <2>1 DEF Range
<1>10. ASSUME NEW c \in Range(calls) PROVE c \in DueCalls
  <2>1. PICK i \in 1..Len(calls) : c = calls[i]
    BY <1>9, <1>10
  <2> QED
    BY <1>3, <1>8, <2>1 DEF Made
<1>11. ASSUME NEW c \in DueCalls PROVE c \in Range(calls)
  <2>1. PICK v \in 1..Len(Visits), d \in 1..Len(dataSources) : \E m \in 1..Len(Visits[v].kinds) :
           TakesPart(v, d) /\ c = CallAt(v, d, m)
    BY <1>8, <1>11
  <2> QED
    BY <1>3, <1>9, <2>1 DEF NothingMissed
<1> QED
  BY <1>3, <1>10, <1>11 DEF NothingTwice

\* A block that is indexed was offered to its data sources completely and once.
THEOREM CompleteAndOnce == Spec => []EveryDatumOnce
BY InvariantImpliesOnce, InvariantHolds, PTL

=============================================================================
