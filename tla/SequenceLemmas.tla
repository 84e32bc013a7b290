--------------------------- MODULE SequenceLemmas ---------------------------
(***************************************************************************)
(* Lemmas about the sequences the models are built from: induction over    *)
(* them, FlattenSeq of the community modules and Keep of ListFilter.       *)
(*                                                                         *)
(* The induction theorems of the library take a predicate.  Those here     *)
(* take a set, the set of what has the property.                           *)
(***************************************************************************)
EXTENDS ListFilter, SequenceTheorems, WellFoundedInduction, TLAPS

-----------------------------------------------------------------------------
(* Induction. *)

LEMMA LeastElement ==
    ASSUME NEW S \in SUBSET Nat, S # {}
    PROVE  \E m \in S : \A k \in S : m <= k
<1> DEFINE R == OpToRel(<, Nat)
<1>1. IsWellFoundedOn(R, Nat)
  BY NatLessThanWellFounded
<1>2. \A x, y \in Nat : y < x => <<y, x>> \in R
  BY DEF R, OpToRel
<1> HIDE DEF R
<1>3. PICK m \in S : \A k \in S : ~(<<k, m>> \in R)
  BY <1>1, WFMin
<1>4. \A k \in S : m <= k
  <2> TAKE k \in S
  <2>1. ~(k < m)
    BY <1>2, <1>3
  <2> QED
    BY <2>1
<1> QED
  BY <1>4

LEMMA Induction ==
    ASSUME NEW S, 0 \in S, \A n \in Nat : n \in S => n + 1 \in S
    PROVE  \A n \in Nat : n \in S
<1> SUFFICES ASSUME NEW n \in Nat, n \notin S PROVE FALSE
  OBVIOUS
<1> DEFINE T == Nat \ S
<1>1. T \in SUBSET Nat /\ T # {}
  OBVIOUS
<1>2. PICK m \in T : \A k \in T : m <= k
  <2> HIDE DEF T
  <2> QED
    BY <1>1, LeastElement
<1>3. m - 1 \in Nat /\ m - 1 \in S
  BY <1>2
<1> QED
  BY <1>2, <1>3

\* What holds of <<>> and is kept by Append holds of all sequences.
LEMMA SequenceInduction ==
    ASSUME NEW S, NEW T, <<>> \in T,
           \A s \in Seq(S), e \in S : s \in T => Append(s, e) \in T
    PROVE  \A s \in Seq(S) : s \in T
<1> DEFINE N == {n \in Nat : \A s \in Seq(S) : Len(s) = n => s \in T}
<1>1. 0 \in N
  <2>1. \A s \in Seq(S) : Len(s) = 0 => s = <<>>
    BY EmptySeq
  <2> QED
    BY <2>1
<1>2. ASSUME NEW n \in Nat, n \in N PROVE n + 1 \in N
  <2> SUFFICES ASSUME NEW s \in Seq(S), Len(s) = n + 1 PROVE s \in T
    BY <1>2
  <2>1. s # <<>>
    OBVIOUS
  <2>2. PICK t \in Seq(S), e \in S : s = Append(t, e)
    BY <2>1, SequenceEmptyOrAppend
  <2>3. Len(t) = n
    BY <2>2
  <2> QED
    BY <1>2, <2>2, <2>3
<1>3. \A n \in Nat : n \in N
  <2> HIDE DEF N
  <2> QED
    BY <1>1, <1>2, Induction
<1> QED
  BY <1>3

LEMMA ListIsSequence ==
    ASSUME NEW S, NEW n \in Nat, NEW f \in [1..n -> S]
    PROVE  f \in Seq(S) /\ Len(f) = n
OBVIOUS

-----------------------------------------------------------------------------
(* FlattenSeq, by the length of the outer sequence. *)

LEMMA FlattenEmpty == FlattenSeq(<<>>) = <<>>
BY DEF FlattenSeq

\* The function FlattenSeq is defined by exists.
LEMMA FlattenExists ==
    ASSUME NEW S, NEW ss \in Seq(Seq(S))
    PROVE  \E f \in [1..Len(ss) -> Seq(S)] :
              \A i \in 1..Len(ss) : f[i] = IF i = 1 THEN ss[i] ELSE f[i - 1] \o ss[i]
<1> DEFINE Fits(f, m) == \A i \in 1..m : f[i] = IF i = 1 THEN ss[i] ELSE f[i - 1] \o ss[i]
           N == {m \in Nat : m <= Len(ss) => \E f \in [1..m -> Seq(S)] : Fits(f, m)}
<1>1. 0 \in N
  <2>1. [i \in 1..0 |-> <<>>] \in [1..0 -> Seq(S)] /\ Fits([i \in 1..0 |-> <<>>], 0)
    OBVIOUS
  <2> QED
    BY <2>1
<1>2. ASSUME NEW m \in Nat, m \in N PROVE m + 1 \in N
  <2> SUFFICES ASSUME m + 1 <= Len(ss)
               PROVE  \E f \in [1..m + 1 -> Seq(S)] : Fits(f, m + 1)
    <3> HIDE DEF Fits
    <3> QED
      OBVIOUS
  <2>1. PICK f \in [1..m -> Seq(S)] : Fits(f, m)
    <3>1. m <= Len(ss)
      OBVIOUS
    <3> HIDE DEF Fits
    <3> QED
      BY <1>2, <3>1
  <2>2. \A i \in 1..m + 1 : ss[i] \in Seq(S)
    OBVIOUS
  <2> DEFINE g == [i \in 1..m + 1 |->
                      IF i \in 1..m THEN f[i] ELSE IF i = 1 THEN ss[i] ELSE f[i - 1] \o ss[i]]
  <2>3. g \in [1..m + 1 -> Seq(S)]
    <3> SUFFICES ASSUME NEW i \in 1..m + 1 PROVE g[i] \in Seq(S)
      OBVIOUS
    <3>1. CASE i \in 1..m
      BY <3>1
    <3>2. CASE i \notin 1..m /\ i # 1
      <4>1. f[i - 1] \in Seq(S) /\ ss[i] \in Seq(S)
        BY <2>2, <3>2
      <4>2. f[i - 1] \o ss[i] \in Seq(S)
        BY <4>1, ConcatProperties
      <4> QED
        BY <3>2, <4>2
    <3>3. CASE i \notin 1..m /\ i = 1
      BY <2>2, <3>3
    <3> QED
      BY <3>1, <3>2, <3>3
  <2>4. Fits(g, m + 1)
    <3> TAKE i \in 1..m + 1
    <3>1. i # 1 => i - 1 \in 1..m /\ g[i - 1] = f[i - 1]
      OBVIOUS
    <3>2. CASE i \in 1..m
      BY <2>1, <3>1, <3>2
    <3>3. CASE i \notin 1..m
      BY <3>1, <3>3
    <3> QED
      BY <3>2, <3>3
  <2> HIDE DEF g, Fits
  <2> QED
    BY <2>3, <2>4
<1>3. \A m \in Nat : m \in N
  <2> HIDE DEF N
  <2> QED
    BY <1>1, <1>2, Induction
<1>4. Len(ss) \in N /\ Len(ss) <= Len(ss)
  <2> HIDE DEF N
  <2>1. Len(ss) \in Nat
    OBVIOUS
  <2> QED
    BY <1>3, <2>1
<1>5. \E f \in [1..Len(ss) -> Seq(S)] : Fits(f, Len(ss))
  <2> HIDE DEF Fits
  <2> QED
    BY <1>4
<1> QED
  BY <1>5

LEMMA FlattenDef ==
    ASSUME NEW S, NEW ss \in Seq(Seq(S)), ss # <<>>
    PROVE  \E f \in [1..Len(ss) -> Seq(S)] :
              /\ FlattenSeq(ss) = f[Len(ss)]
              /\ \A i \in 1..Len(ss) : f[i] = IF i = 1 THEN ss[i] ELSE f[i - 1] \o ss[i]
<1> DEFINE Equation(f) == f = [i \in 1..Len(ss) |-> IF i = 1 THEN ss[i] ELSE f[i - 1] \o ss[i]]
           F == CHOOSE f : Equation(f)
<1>1. Len(ss) \in Nat /\ Len(ss) # 0
  BY EmptySeq
<1>2. FlattenSeq(ss) = F[Len(ss)]
  BY <1>1 DEF FlattenSeq
<1>3. PICK f \in [1..Len(ss) -> Seq(S)] :
         \A i \in 1..Len(ss) : f[i] = IF i = 1 THEN ss[i] ELSE f[i - 1] \o ss[i]
  <2> HIDE DEF Equation, F
  <2> QED
    BY FlattenExists
<1>4. Equation(f)
  BY <1>3
<1>5. \A i \in 1..Len(ss) : F[i] = IF i = 1 THEN ss[i] ELSE F[i - 1] \o ss[i]
  <2>1. Equation(F)
    <3> HIDE DEF Equation
    <3> QED
      BY <1>4
  <2> HIDE DEF F
  <2> QED
    BY <2>1
<1>6. \A n \in Nat : n \in 1..Len(ss) => F[n] = f[n]
  <2> DEFINE N == {n \in Nat : n \in 1..Len(ss) => F[n] = f[n]}
  <2> HIDE DEF F, Equation
  <2>1. 0 \in N
    OBVIOUS
  <2>2. ASSUME NEW n \in Nat, n \in N PROVE n + 1 \in N
    <3> SUFFICES ASSUME n + 1 \in 1..Len(ss) PROVE F[n + 1] = f[n + 1]
      OBVIOUS
    <3> (n + 1) - 1 = n
      OBVIOUS
    <3>1. F[n + 1] = IF n + 1 = 1 THEN ss[n + 1] ELSE F[n] \o ss[n + 1]
      BY <1>5
    <3>2. f[n + 1] = IF n + 1 = 1 THEN ss[n + 1] ELSE f[n] \o ss[n + 1]
      BY <1>3
    <3>3. n + 1 # 1 => F[n] = f[n]
      BY <2>2, <1>1
    <3> QED
      BY <3>1, <3>2, <3>3
  <2>3. \A n \in Nat : n \in N
    <3> HIDE DEF N
    <3> QED
      BY <2>1, <2>2, Induction
  <2> QED
    BY <2>3
<1>7. F[Len(ss)] = f[Len(ss)]
  <2> HIDE DEF F
  <2> QED
    BY <1>1, <1>6
<1> QED
  BY <1>2, <1>3, <1>7

LEMMA FlattenType ==
    ASSUME NEW S, NEW ss \in Seq(Seq(S))
    PROVE  FlattenSeq(ss) \in Seq(S)
<1>1. CASE ss = <<>>
  BY <1>1, FlattenEmpty, EmptySeq
<1>2. CASE ss # <<>>
  <2>1. Len(ss) \in 1..Len(ss)
    BY <1>2, EmptySeq
  <2> QED
    BY <1>2, <2>1, FlattenDef
<1> QED
  BY <1>1, <1>2

LEMMA FlattenAppend ==
    ASSUME NEW S, NEW ss \in Seq(Seq(S)), NEW s \in Seq(S)
    PROVE  FlattenSeq(Append(ss, s)) = FlattenSeq(ss) \o s
<1> DEFINE tt == Append(ss, s)
           n  == Len(ss)
<1>1. tt \in Seq(Seq(S)) /\ n \in Nat /\ Len(tt) = n + 1 /\ tt # <<>>
  BY AppendProperties
<1>2. tt[n + 1] = s /\ \A i \in 1..n : tt[i] = ss[i]
  BY AppendProperties
<1> HIDE DEF tt
<1>3. PICK g \in [1..n + 1 -> Seq(S)] :
         /\ FlattenSeq(tt) = g[n + 1]
         /\ \A i \in 1..n + 1 : g[i] = IF i = 1 THEN tt[i] ELSE g[i - 1] \o tt[i]
  <2>1. \E g \in [1..Len(tt) -> Seq(S)] :
           /\ FlattenSeq(tt) = g[Len(tt)]
           /\ \A i \in 1..Len(tt) : g[i] = IF i = 1 THEN tt[i] ELSE g[i - 1] \o tt[i]
    BY <1>1, FlattenDef
  <2> QED
    BY <1>1, <2>1
<1>4. CASE ss = <<>>
  <2>1. n = 0
    BY <1>4
  <2>2. FlattenSeq(tt) = s
    BY <1>2, <1>3, <2>1
  <2>3. <<>> \o s = s
    BY ConcatEmptySeq
  <2> QED
    BY <1>4, <2>2, <2>3, FlattenEmpty DEF tt
<1>5. CASE ss # <<>>
  <2>1. n \in 1..n
    BY <1>1, <1>5, EmptySeq
  <2>2. PICK f \in [1..n -> Seq(S)] :
           /\ FlattenSeq(ss) = f[n]
           /\ \A i \in 1..n : f[i] = IF i = 1 THEN ss[i] ELSE f[i - 1] \o ss[i]
    BY <1>5, FlattenDef
  <2>3. \A m \in Nat : m \in 1..n => g[m] = f[m]
    <3> DEFINE M == {m \in Nat : m \in 1..n => g[m] = f[m]}
    <3>1. 0 \in M
      OBVIOUS
    <3>2. ASSUME NEW m \in Nat, m \in M PROVE m + 1 \in M
      <4> SUFFICES ASSUME m + 1 \in 1..n PROVE g[m + 1] = f[m + 1]
        OBVIOUS
      <4> (m + 1) - 1 = m /\ m + 1 \in 1..n + 1
        BY <1>1
      <4>1. g[m + 1] = IF m + 1 = 1 THEN ss[m + 1] ELSE g[m] \o ss[m + 1]
        BY <1>1, <1>2, <1>3
      <4>2. f[m + 1] = IF m + 1 = 1 THEN ss[m + 1] ELSE f[m] \o ss[m + 1]
        BY <1>1, <2>2
      <4>3. m + 1 # 1 => g[m] = f[m]
        BY <1>1, <3>2
      <4> QED
        BY <4>1, <4>2, <4>3
    <3>3. \A m \in Nat : m \in M
      <4> HIDE DEF M
      <4> QED
        BY <3>1, <3>2, Induction
    <3> QED
      BY <3>3
  <2>4. FlattenSeq(tt) = g[n] \o s
    <3> (n + 1) - 1 = n /\ n + 1 # 1 /\ n + 1 \in 1..n + 1
      BY <1>1, <2>1
    <3> QED
      BY <1>2, <1>3
  <2>5. g[n] = f[n]
    BY <1>1, <2>1, <2>3
  <2> QED
    BY <2>2, <2>4, <2>5 DEF tt
<1> QED
  BY <1>4, <1>5

\* What a flattened sequence holds is what its parts hold.
LEMMA FlattenRange ==
    ASSUME NEW S, NEW ss \in Seq(Seq(S)), NEW x
    PROVE  x \in Range(FlattenSeq(ss)) <=> \E i \in 1..Len(ss) : x \in Range(ss[i])
<1> DEFINE Holds(tt) == x \in Range(FlattenSeq(tt)) <=> \E i \in 1..Len(tt) : x \in Range(tt[i])
           T == {tt \in Seq(Seq(S)) : Holds(tt)}
<1>1. <<>> \in T
  <2>1. Range(FlattenSeq(<<>>)) = {}
    BY FlattenEmpty DEF Range
  <2> QED
    BY <2>1
<1>2. ASSUME NEW tt \in Seq(Seq(S)), NEW s \in Seq(S), tt \in T PROVE Append(tt, s) \in T
  <2> DEFINE uu == Append(tt, s)
  <2>1. /\ uu \in Seq(Seq(S)) /\ Len(tt) \in Nat /\ Len(uu) = Len(tt) + 1
        /\ uu[Len(tt) + 1] = s /\ \A i \in 1..Len(tt) : uu[i] = tt[i]
    BY AppendProperties
  <2>2. FlattenSeq(tt) \in Seq(S) /\ FlattenSeq(uu) = FlattenSeq(tt) \o s
    BY FlattenType, FlattenAppend
  <2> HIDE DEF uu
  <2>3. Range(FlattenSeq(uu)) = Range(FlattenSeq(tt)) \union Range(s)
    BY <2>2, RangeConcatenation
  <2>4. (\E i \in 1..Len(uu) : x \in Range(uu[i]))
           <=> (\E i \in 1..Len(tt) : x \in Range(tt[i])) \/ x \in Range(s)
    <3>1. \A i \in 1..Len(uu) : i \in 1..Len(tt) \/ i = Len(tt) + 1
      BY <2>1
    <3>2. \A i \in 1..Len(tt) : i \in 1..Len(uu)
      BY <2>1
    <3>3. Len(tt) + 1 \in 1..Len(uu)
      BY <2>1
    <3> QED
      BY <2>1, <3>1, <3>2, <3>3
  <2>5. Holds(tt)
    BY <1>2
  <2>6. Holds(uu)
    BY <2>3, <2>4, <2>5
  <2> QED
    BY <2>1, <2>6 DEF uu
<1>3. \A tt \in Seq(Seq(S)) : tt \in T
  <2> HIDE DEF T
  <2> QED
    BY <1>1, <1>2, SequenceInduction
<1> QED
  BY <1>3

-----------------------------------------------------------------------------
(* Order. *)

\* R, a set of pairs, orders the elements of s.
Sorted(s, R) == \A i, j \in 1..Len(s) : i < j => <<s[i], s[j]>> \in R

LEMMA SortedConcat ==
    ASSUME NEW S, NEW R, NEW s \in Seq(S), NEW t \in Seq(S), Sorted(s, R), Sorted(t, R),
           \A x \in Range(s), y \in Range(t) : <<x, y>> \in R
    PROVE  Sorted(s \o t, R)
<1> SUFFICES ASSUME NEW i \in 1..Len(s \o t), NEW j \in 1..Len(s \o t), i < j
             PROVE  <<(s \o t)[i], (s \o t)[j]>> \in R
  BY DEF Sorted
<1>1. Len(s \o t) = Len(s) + Len(t) /\ Len(s) \in Nat /\ Len(t) \in Nat
  OBVIOUS
<1>2. \A k \in 1..Len(s \o t) :
         /\ k <= Len(s) => k \in 1..Len(s) /\ (s \o t)[k] = s[k] /\ s[k] \in Range(s)
         /\ k > Len(s) => /\ k - Len(s) \in 1..Len(t)
                          /\ (s \o t)[k] = t[k - Len(s)]
                          /\ t[k - Len(s)] \in Range(t)
  BY DEF Range
<1>3. CASE j <= Len(s)
  BY <1>1, <1>2, <1>3 DEF Sorted
<1>4. CASE i <= Len(s) /\ j > Len(s)
  BY <1>1, <1>2, <1>4
<1>5. CASE i > Len(s)
  <2>1. i - Len(s) < j - Len(s)
    BY <1>1
  <2> QED
    BY <1>1, <1>2, <1>5, <2>1 DEF Sorted
<1>6. j <= Len(s) \/ (i <= Len(s) /\ j > Len(s)) \/ i > Len(s)
  BY <1>1
<1> QED
  BY <1>3, <1>4, <1>5, <1>6

LEMMA FlattenSorted ==
    ASSUME NEW S, NEW R, NEW ss \in Seq(Seq(S)),
           \A i \in 1..Len(ss) : Sorted(ss[i], R),
           \A i, j \in 1..Len(ss) : i < j =>
              \A x \in Range(ss[i]), y \in Range(ss[j]) : <<x, y>> \in R
    PROVE  Sorted(FlattenSeq(ss), R)
<1> DEFINE Ordered(tt) ==
             /\ \A i \in 1..Len(tt) : Sorted(tt[i], R)
             /\ \A i, j \in 1..Len(tt) : i < j =>
                   \A x \in Range(tt[i]), y \in Range(tt[j]) : <<x, y>> \in R
           T == {tt \in Seq(Seq(S)) : Ordered(tt) => Sorted(FlattenSeq(tt), R)}
<1>1. <<>> \in T
  BY FlattenEmpty DEF Sorted
<1>2. ASSUME NEW tt \in Seq(Seq(S)), NEW s \in Seq(S), tt \in T PROVE Append(tt, s) \in T
  <2> DEFINE uu == Append(tt, s)
  <2> SUFFICES ASSUME Ordered(uu) PROVE Sorted(FlattenSeq(uu), R)
    BY AppendProperties
  <2>1. /\ uu \in Seq(Seq(S)) /\ Len(tt) \in Nat /\ Len(uu) = Len(tt) + 1
        /\ uu[Len(tt) + 1] = s /\ \A i \in 1..Len(tt) : uu[i] = tt[i]
    BY AppendProperties
  <2>2. FlattenSeq(tt) \in Seq(S) /\ FlattenSeq(uu) = FlattenSeq(tt) \o s
    BY FlattenType, FlattenAppend
  <2> HIDE DEF uu
  <2>3. Len(tt) + 1 \in 1..Len(uu) /\ \A i \in 1..Len(tt) : i \in 1..Len(uu) /\ i < Len(tt) + 1
    BY <2>1
  <2>4. Ordered(tt) /\ Sorted(s, R)
    BY <2>1, <2>3
  <2>5. \A x \in Range(FlattenSeq(tt)), y \in Range(s) : <<x, y>> \in R
    <3> SUFFICES ASSUME NEW x \in Range(FlattenSeq(tt)), NEW y \in Range(s)
                 PROVE  <<x, y>> \in R
      OBVIOUS
    <3>1. PICK i \in 1..Len(tt) : x \in Range(tt[i])
      BY FlattenRange
    <3> QED
      BY <2>1, <2>3, <3>1
  <2>6. Sorted(FlattenSeq(tt), R)
    BY <1>2, <2>4
  <2> QED
    BY <2>2, <2>4, <2>5, <2>6, SortedConcat
<1>3. \A tt \in Seq(Seq(S)) : tt \in T
  <2> HIDE DEF T
  <2> QED
    BY <1>1, <1>2, SequenceInduction
<1>4. Ordered(ss)
  OBVIOUS
<1> QED
  BY <1>3, <1>4

-----------------------------------------------------------------------------
(* Keep. *)

LEMMA KeepEmpty == ASSUME NEW A PROVE Keep(<<>>, A) = <<>>
<1>1. [i \in 1..Len(<<>>) |-> IF <<>>[i] \in A THEN <<<<>>[i]>> ELSE <<>>] = <<>>
  OBVIOUS
<1> QED
  BY <1>1, FlattenEmpty DEF Keep

LEMMA KeepAppend ==
    ASSUME NEW S, NEW A, NEW s \in Seq(S), NEW e \in S
    PROVE  Keep(Append(s, e), A) = IF e \in A THEN Append(Keep(s, A), e) ELSE Keep(s, A)
<1> DEFINE Parts(t) == [i \in 1..Len(t) |-> IF t[i] \in A THEN <<t[i]>> ELSE <<>>]
           part == IF e \in A THEN <<e>> ELSE <<>>
<1>1. /\ Append(s, e) \in Seq(S) /\ Len(s) \in Nat /\ Len(Append(s, e)) = Len(s) + 1
      /\ Append(s, e)[Len(s) + 1] = e /\ \A i \in 1..Len(s) : Append(s, e)[i] = s[i]
  BY AppendProperties
<1>2. Parts(s) \in Seq(Seq(S)) /\ part \in Seq(S) /\ Len(Parts(s)) = Len(s)
  OBVIOUS
<1>3. Parts(Append(s, e)) = Append(Parts(s), part)
  OBVIOUS
<1>4. FlattenSeq(Parts(s)) \in Seq(S)
  <2> HIDE DEF Parts
  <2> QED
    BY <1>2, FlattenType
<1>5. FlattenSeq(Append(Parts(s), part)) = FlattenSeq(Parts(s)) \o part
  <2> HIDE DEF Parts, part
  <2> QED
    BY <1>2, FlattenAppend
<1>6. Keep(Append(s, e), A) = Keep(s, A) \o part
  BY <1>3, <1>5 DEF Keep
<1>7. Keep(s, A) \in Seq(S)
  BY <1>4 DEF Keep
<1>8. CASE e \in A
  BY <1>6, <1>7, <1>8, AppendIsConcat
<1>9. CASE e \notin A
  BY <1>6, <1>7, <1>9, ConcatEmptySeq
<1> QED
  BY <1>8, <1>9

LEMMA KeepType ==
    ASSUME NEW S, NEW A, NEW s \in Seq(S)
    PROVE  Keep(s, A) \in Seq(S)
<1> DEFINE T == {t \in Seq(S) : Keep(t, A) \in Seq(S)}
<1>1. <<>> \in T
  BY KeepEmpty, EmptySeq
<1>2. ASSUME NEW t \in Seq(S), NEW e \in S, t \in T PROVE Append(t, e) \in T
  <2>1. Keep(Append(t, e), A) = IF e \in A THEN Append(Keep(t, A), e) ELSE Keep(t, A)
    BY KeepAppend
  <2>2. Keep(t, A) \in Seq(S) /\ Append(Keep(t, A), e) \in Seq(S) /\ Append(t, e) \in Seq(S)
    BY <1>2, AppendProperties
  <2> QED
    BY <2>1, <2>2
<1>3. \A t \in Seq(S) : t \in T
  <2> HIDE DEF T
  <2> QED
    BY <1>1, <1>2, SequenceInduction
<1> QED
  BY <1>3

LEMMA KeepConcat ==
    ASSUME NEW S, NEW A, NEW s \in Seq(S), NEW t \in Seq(S)
    PROVE  Keep(s \o t, A) = Keep(s, A) \o Keep(t, A)
<1> DEFINE T == {u \in Seq(S) : Keep(s \o u, A) = Keep(s, A) \o Keep(u, A)}
<1>1. <<>> \in T
  BY KeepEmpty, KeepType, EmptySeq, ConcatEmptySeq
<1>2. ASSUME NEW u \in Seq(S), NEW e \in S, u \in T PROVE Append(u, e) \in T
  <2>1. s \o Append(u, e) = Append(s \o u, e) /\ s \o u \in Seq(S) /\ Append(u, e) \in Seq(S)
    OBVIOUS
  <2>2. Keep(s, A) \in Seq(S) /\ Keep(u, A) \in Seq(S)
    BY KeepType
  <2>3. Keep(s \o u, A) = Keep(s, A) \o Keep(u, A)
    BY <1>2
  <2> DEFINE v == Keep(s, A)
             w == Keep(u, A)
             part == IF e \in A THEN <<e>> ELSE <<>>
  <2>4. part \in Seq(S)
    BY <1>2
  <2>5. \A x \in Seq(S) : Keep(Append(x, e), A) = Keep(x, A) \o part
    <3> TAKE x \in Seq(S)
    <3>1. Keep(x, A) \in Seq(S) /\ Keep(Append(x, e), A) = IF e \in A THEN Append(Keep(x, A), e) ELSE Keep(x, A)
      BY <1>2, KeepAppend, KeepType
    <3>2. CASE e \in A
      BY <3>1, <3>2, AppendIsConcat
    <3>3. CASE e \notin A
      BY <3>1, <3>3, ConcatEmptySeq
    <3> QED
      BY <3>2, <3>3
  <2>6. Keep(s \o Append(u, e), A) = (v \o w) \o part
    BY <2>1, <2>3, <2>5
  <2>7. Keep(Append(u, e), A) = w \o part
    BY <1>2, <2>5
  <2> HIDE DEF v, w, part
  <2>8. (v \o w) \o part = v \o (w \o part)
    BY <2>2, <2>4, ConcatAssociative DEF v, w
  <2> QED
    BY <2>1, <2>6, <2>7, <2>8 DEF v
<1>3. \A u \in Seq(S) : u \in T
  <2> HIDE DEF T
  <2> QED
    BY <1>1, <1>2, SequenceInduction
<1> QED
  BY <1>3

LEMMA KeepRange ==
    ASSUME NEW S, NEW A, NEW s \in Seq(S)
    PROVE  Range(Keep(s, A)) = Range(s) \intersect A
<1> DEFINE T == {t \in Seq(S) : Range(Keep(t, A)) = Range(t) \intersect A}
<1>1. <<>> \in T
  BY KeepEmpty DEF Range
<1>2. ASSUME NEW t \in Seq(S), NEW e \in S, t \in T PROVE Append(t, e) \in T
  <2> HIDE DEF T
  <2>1. \A u \in Seq(S) : Append(u, e) \in Seq(S) /\ Range(Append(u, e)) = Range(u) \union {e}
    <3> TAKE u \in Seq(S)
    <3> PICK v : v = Append(u, e)
      OBVIOUS
    <3>1. /\ v \in Seq(S) /\ Len(v) = Len(u) + 1 /\ Len(u) \in Nat
          /\ v[Len(u) + 1] = e /\ \A i \in 1..Len(u) : v[i] = u[i]
      BY <1>2, AppendProperties
    <3>2. \A x : x \in Range(v) <=> \E i \in 1..Len(v) : x = v[i]
      BY <3>1 DEF Range
    <3>3. \A x : x \in Range(u) <=> \E i \in 1..Len(u) : x = u[i]
      BY DEF Range
    <3>4. \A i : i \in 1..Len(v) <=> i \in 1..Len(u) \/ i = Len(u) + 1
      BY <3>1
    <3>5. ASSUME NEW x PROVE x \in Range(v) <=> x \in Range(u) \/ x = e
      BY <3>1, <3>2, <3>3, <3>4
    <3>6. Range(v) = Range(u) \union {e}
      BY <3>5
    <3> QED
      BY <3>1, <3>6
  <2>2. Keep(t, A) \in Seq(S) /\ Range(Keep(t, A)) = Range(t) \intersect A
    BY <1>2, KeepType DEF T
  <2>3. Keep(Append(t, e), A) = IF e \in A THEN Append(Keep(t, A), e) ELSE Keep(t, A)
    BY KeepAppend
  <2>4. Range(Keep(Append(t, e), A)) = Range(Append(t, e)) \intersect A
    BY <2>1, <2>2, <2>3
  <2> QED
    BY <2>1, <2>4 DEF T
<1>3. \A t \in Seq(S) : t \in T
  <2> HIDE DEF T
  <2> QED
    BY <1>1, <1>2, SequenceInduction
<1> QED
  BY <1>3

LEMMA KeepSorted ==
    ASSUME NEW S, NEW A, NEW R, NEW s \in Seq(S), Sorted(s, R)
    PROVE  Sorted(Keep(s, A), R)
<1> DEFINE T == {t \in Seq(S) : Sorted(t, R) => Sorted(Keep(t, A), R)}
<1>1. <<>> \in T
  BY KeepEmpty DEF Sorted
<1>2. ASSUME NEW t \in Seq(S), NEW e \in S, t \in T PROVE Append(t, e) \in T
  <2> DEFINE u == Append(t, e)
  <2> SUFFICES ASSUME Sorted(u, R) PROVE Sorted(Keep(u, A), R)
    BY AppendProperties
  <2>1. /\ Len(t) \in Nat /\ Len(u) = Len(t) + 1
        /\ u[Len(t) + 1] = e /\ \A i \in 1..Len(t) : u[i] = t[i]
    BY AppendProperties
  <2> HIDE DEF u
  <2>2. Sorted(t, R)
    BY <2>1 DEF Sorted
  <2>3. \A x \in Range(t) : <<x, e>> \in R
    BY <2>1 DEF Sorted, Range
  <2>4. Keep(t, A) \in Seq(S) /\ Sorted(Keep(t, A), R) /\ Range(Keep(t, A)) \subseteq Range(t)
    BY <1>2, <2>2, KeepType, KeepRange
  <2>5. <<e>> \in Seq(S) /\ Sorted(<<e>>, R) /\ Range(<<e>>) = {e}
    BY <1>2 DEF Sorted, Range
  <2>6. Sorted(Keep(t, A) \o <<e>>, R)
    BY <2>3, <2>4, <2>5, SortedConcat
  <2>7. Append(Keep(t, A), e) = Keep(t, A) \o <<e>>
    BY <1>2, <2>4, AppendIsConcat
  <2>8. Keep(u, A) = IF e \in A THEN Append(Keep(t, A), e) ELSE Keep(t, A)
    BY <1>2, KeepAppend DEF u
  <2> QED
    BY <2>4, <2>6, <2>7, <2>8
<1>3. \A t \in Seq(S) : t \in T
  <2> HIDE DEF T
  <2> QED
    BY <1>1, <1>2, SequenceInduction
<1> QED
  BY <1>3

LEMMA KeepAll ==
    ASSUME NEW S, NEW A, NEW s \in Seq(S), Range(s) \subseteq A
    PROVE  Keep(s, A) = s
<1> DEFINE T == {t \in Seq(S) : Range(t) \subseteq A => Keep(t, A) = t}
<1>1. <<>> \in T
  BY KeepEmpty
<1>2. ASSUME NEW t \in Seq(S), NEW e \in S, t \in T PROVE Append(t, e) \in T
  <2>1. Append(t, e) \in Seq(S) /\ Range(Append(t, e)) = Range(t) \union {e}
    BY AppendProperties DEF Range
  <2> QED
    BY <1>2, <2>1, KeepAppend
<1>3. \A t \in Seq(S) : t \in T
  <2> HIDE DEF T
  <2> QED
    BY <1>1, <1>2, SequenceInduction
<1> QED
  BY <1>3

LEMMA KeepNone ==
    ASSUME NEW S, NEW A, NEW s \in Seq(S), Range(s) \intersect A = {}
    PROVE  Keep(s, A) = <<>>
<1> DEFINE T == {t \in Seq(S) : Range(t) \intersect A = {} => Keep(t, A) = <<>>}
<1>1. <<>> \in T
  BY KeepEmpty
<1>2. ASSUME NEW t \in Seq(S), NEW e \in S, t \in T PROVE Append(t, e) \in T
  <2>1. Append(t, e) \in Seq(S) /\ Range(Append(t, e)) = Range(t) \union {e}
    BY AppendProperties DEF Range
  <2> QED
    BY <1>2, <2>1, KeepAppend
<1>3. \A t \in Seq(S) : t \in T
  <2> HIDE DEF T
  <2> QED
    BY <1>1, <1>2, SequenceInduction
<1> QED
  BY <1>3

\* If only one part of a flattened sequence has elements in A, these are kept.
LEMMA KeepPart ==
    ASSUME NEW S, NEW A, NEW ss \in Seq(Seq(S)), NEW k \in 1..Len(ss),
           \A i \in 1..Len(ss) : i # k => Range(ss[i]) \intersect A = {}
    PROVE  Keep(FlattenSeq(ss), A) = Keep(ss[k], A)
<1> DEFINE Alone(tt) == \A i \in 1..Len(tt) : i # k => Range(tt[i]) \intersect A = {}
           T == {tt \in Seq(Seq(S)) : k \in 1..Len(tt) /\ Alone(tt)
                                        => Keep(FlattenSeq(tt), A) = Keep(tt[k], A)}
<1>1. <<>> \in T
  OBVIOUS
<1>2. ASSUME NEW tt \in Seq(Seq(S)), NEW s \in Seq(S), tt \in T PROVE Append(tt, s) \in T
  <2> DEFINE uu == Append(tt, s)
  <2> SUFFICES ASSUME k \in 1..Len(uu), Alone(uu) PROVE Keep(FlattenSeq(uu), A) = Keep(uu[k], A)
    BY AppendProperties
  <2>1. /\ uu \in Seq(Seq(S)) /\ Len(tt) \in Nat /\ Len(uu) = Len(tt) + 1
        /\ uu[Len(tt) + 1] = s /\ \A i \in 1..Len(tt) : uu[i] = tt[i]
    BY AppendProperties
  <2>2. FlattenSeq(tt) \in Seq(S) /\ FlattenSeq(uu) = FlattenSeq(tt) \o s
    BY FlattenType, FlattenAppend
  <2> HIDE DEF uu
  <2>3. Len(tt) + 1 \in 1..Len(uu) /\ \A i \in 1..Len(tt) : i \in 1..Len(uu) /\ i < Len(tt) + 1
    BY <2>1
  <2>4. Keep(FlattenSeq(uu), A) = Keep(FlattenSeq(tt), A) \o Keep(s, A)
    <3>1. \A v \in Seq(S) : Keep(v \o s, A) = Keep(v, A) \o Keep(s, A)
      <4> TAKE v \in Seq(S)
      <4> HIDE DEF T, Alone
      <4> QED
        BY <1>2, KeepConcat
    <3> QED
      BY <2>2, <3>1
  <2>5. Keep(s, A) \in Seq(S) /\ Keep(FlattenSeq(tt), A) \in Seq(S)
    BY <2>2, KeepType
  <2>6. CASE k \in 1..Len(tt)
    <3>1. Alone(tt)
      BY <2>1, <2>3
    <3>2. Keep(FlattenSeq(tt), A) = Keep(tt[k], A)
      BY <1>2, <2>6, <3>1
    <3>3. Keep(s, A) = <<>>
      <4>1. Range(s) \intersect A = {}
        <5> Len(tt) + 1 # k
          BY <2>1, <2>6
        <5> QED
          BY <2>1, <2>3
      <4> QED
        BY <4>1, KeepNone
    <3>4. Keep(FlattenSeq(uu), A) = Keep(tt[k], A)
      BY <2>4, <2>5, <3>2, <3>3, ConcatEmptySeq
    <3> QED
      BY <2>1, <2>6, <3>4
  <2>7. CASE k = Len(tt) + 1
    <3>1. \A x \in Range(FlattenSeq(tt)) : x \notin A
      <4> SUFFICES ASSUME NEW x \in Range(FlattenSeq(tt)) PROVE x \notin A
        OBVIOUS
      <4>1. PICK i \in 1..Len(tt) : x \in Range(tt[i])
        BY FlattenRange
      <4>2. i # k /\ i \in 1..Len(uu) /\ uu[i] = tt[i]
        BY <2>1, <2>3, <2>7, <4>1
      <4>3. Range(uu[i]) \intersect A = {}
        BY <4>2
      <4> QED
        BY <4>1, <4>2, <4>3
    <3>2. Keep(FlattenSeq(tt), A) = <<>>
      BY <2>2, <3>1, KeepNone
    <3> QED
      BY <2>1, <2>4, <2>5, <2>7, <3>2, ConcatEmptySeq
  <2> QED
    BY <2>1, <2>6, <2>7
<1>3. \A tt \in Seq(Seq(S)) : tt \in T
  <2> HIDE DEF T
  <2> QED
    BY <1>1, <1>2, SequenceInduction
<1> QED
  BY <1>3

\* If A holds just the elements of one part, that part is kept.
LEMMA KeepOnly ==
    ASSUME NEW S, NEW A, NEW ss \in Seq(Seq(S)), NEW k \in 1..Len(ss),
           \A i \in 1..Len(ss) : \A x \in Range(ss[i]) : x \in A <=> i = k
    PROVE  Keep(FlattenSeq(ss), A) = ss[k]
<1>1. \A i \in 1..Len(ss) : i # k => Range(ss[i]) \intersect A = {}
  OBVIOUS
<1>2. Keep(FlattenSeq(ss), A) = Keep(ss[k], A)
  BY <1>1, KeepPart
<1>3. ss[k] \in Seq(S) /\ Range(ss[k]) \subseteq A
  OBVIOUS
<1>4. Keep(ss[k], A) = ss[k]
  BY <1>3, KeepAll
<1> QED
  BY <1>2, <1>4

-----------------------------------------------------------------------------
(* Tables: sequences of rows, which are sequences of cells, which are sequences. *)

FlattenTable(table) == FlattenSeq([i \in 1..Len(table) |-> FlattenSeq(table[i])])

LEMMA RowsType ==
    ASSUME NEW S, NEW table \in Seq(Seq(Seq(S)))
    PROVE  /\ [i \in 1..Len(table) |-> FlattenSeq(table[i])] \in Seq(Seq(S))
           /\ Len([i \in 1..Len(table) |-> FlattenSeq(table[i])]) = Len(table)
<1>1. \A i \in 1..Len(table) : FlattenSeq(table[i]) \in Seq(S)
  <2> TAKE i \in 1..Len(table)
  <2>1. table[i] \in Seq(Seq(S))
    OBVIOUS
  <2> QED
    BY <2>1, FlattenType
<1> QED
  BY <1>1

LEMMA TableRange ==
    ASSUME NEW S, NEW table \in Seq(Seq(Seq(S))), NEW x
    PROVE  /\ FlattenTable(table) \in Seq(S)
           /\ x \in Range(FlattenTable(table)) <=>
                 \E i \in 1..Len(table) : \E m \in 1..Len(table[i]) : x \in Range(table[i][m])
<1> DEFINE rows == [i \in 1..Len(table) |-> FlattenSeq(table[i])]
<1>1. rows \in Seq(Seq(S)) /\ Len(rows) = Len(table)
  BY RowsType
<1>2. \A i \in 1..Len(table) : rows[i] = FlattenSeq(table[i]) /\ table[i] \in Seq(Seq(S))
  OBVIOUS
<1>3. FlattenTable(table) = FlattenSeq(rows)
  BY DEF FlattenTable
<1> HIDE DEF rows
<1>4. FlattenSeq(rows) \in Seq(S)
  BY <1>1, FlattenType
<1>5. x \in Range(FlattenSeq(rows)) <=> \E i \in 1..Len(table) : x \in Range(rows[i])
  BY <1>1, FlattenRange
<1>6. \A i \in 1..Len(table) : x \in Range(rows[i]) <=> \E m \in 1..Len(table[i]) : x \in Range(table[i][m])
  <2> TAKE i \in 1..Len(table)
  <2>1. table[i] \in Seq(Seq(S))
    BY <1>2
  <2>2. x \in Range(FlattenSeq(table[i])) <=> \E m \in 1..Len(table[i]) : x \in Range(table[i][m])
    BY <2>1, FlattenRange
  <2> QED
    BY <1>2, <2>2
<1> QED
  BY <1>3, <1>4, <1>5, <1>6

\* A holds just the elements of one row, or of one cell.
OnlyRow(table, A, k) ==
    \A i \in 1..Len(table) : \A m \in 1..Len(table[i]) :
       \A x \in Range(table[i][m]) : x \in A <=> i = k
OnlyCell(table, A, k, n) ==
    \A i \in 1..Len(table) : \A m \in 1..Len(table[i]) :
       \A x \in Range(table[i][m]) : x \in A <=> i = k /\ m = n

LEMMA KeepRow ==
    ASSUME NEW S, NEW A, NEW table \in Seq(Seq(Seq(S))), NEW k \in 1..Len(table), OnlyRow(table, A, k)
    PROVE  Keep(FlattenTable(table), A) = FlattenSeq(table[k])
<1> DEFINE rows == [i \in 1..Len(table) |-> FlattenSeq(table[i])]
<1>1. rows \in Seq(Seq(S)) /\ Len(rows) = Len(table)
  BY RowsType
<1>2. \A i \in 1..Len(table) : rows[i] = FlattenSeq(table[i]) /\ table[i] \in Seq(Seq(S))
  OBVIOUS
<1>3. FlattenTable(table) = FlattenSeq(rows)
  BY DEF FlattenTable
<1> HIDE DEF rows
<1>4. \A i \in 1..Len(rows) : \A x \in Range(rows[i]) : x \in A <=> i = k
  <2> SUFFICES ASSUME NEW i \in 1..Len(table), NEW x \in Range(rows[i]) PROVE x \in A <=> i = k
    BY <1>1
  <2>1. table[i] \in Seq(Seq(S)) /\ x \in Range(FlattenSeq(table[i]))
    BY <1>2
  <2>2. PICK m \in 1..Len(table[i]) : x \in Range(table[i][m])
    BY <2>1, FlattenRange
  <2> QED
    BY <2>2 DEF OnlyRow
<1>5. Keep(FlattenSeq(rows), A) = rows[k]
  BY <1>1, <1>4, KeepOnly
<1> QED
  BY <1>2, <1>3, <1>5

LEMMA KeepCell ==
    ASSUME NEW S, NEW A, NEW table \in Seq(Seq(Seq(S))),
           NEW k \in 1..Len(table), NEW n \in 1..Len(table[k]), OnlyCell(table, A, k, n)
    PROVE  Keep(FlattenTable(table), A) = table[k][n]
<1> DEFINE rows == [i \in 1..Len(table) |-> FlattenSeq(table[i])]
<1>1. rows \in Seq(Seq(S)) /\ Len(rows) = Len(table)
  BY RowsType
<1>2. \A i \in 1..Len(table) : rows[i] = FlattenSeq(table[i]) /\ table[i] \in Seq(Seq(S))
  OBVIOUS
<1>3. FlattenTable(table) = FlattenSeq(rows)
  BY DEF FlattenTable
<1> HIDE DEF rows
<1>4. \A i \in 1..Len(rows) : i # k => Range(rows[i]) \intersect A = {}
  <2> SUFFICES ASSUME NEW i \in 1..Len(table), i # k, NEW x \in Range(rows[i]) PROVE x \notin A
    BY <1>1
  <2>1. table[i] \in Seq(Seq(S)) /\ x \in Range(FlattenSeq(table[i]))
    BY <1>2
  <2>2. PICK m \in 1..Len(table[i]) : x \in Range(table[i][m])
    BY <2>1, FlattenRange
  <2> QED
    BY <2>2 DEF OnlyCell
<1>5. Keep(FlattenSeq(rows), A) = Keep(rows[k], A)
  BY <1>1, <1>4, KeepPart
<1>6. \A m \in 1..Len(table[k]) : \A x \in Range(table[k][m]) : x \in A <=> m = n
  BY DEF OnlyCell
<1>7. Keep(FlattenSeq(table[k]), A) = table[k][n]
  <2> DEFINE row == table[k]
  <2>1. row \in Seq(Seq(S)) /\ n \in 1..Len(row)
    OBVIOUS
  <2>2. \A m \in 1..Len(row) : \A x \in Range(row[m]) : x \in A <=> m = n
    BY <1>6
  <2> HIDE DEF row
  <2>3. Keep(FlattenSeq(row), A) = row[n]
    BY <2>1, <2>2, KeepOnly
  <2> QED
    BY <2>3 DEF row
<1> QED
  BY <1>2, <1>3, <1>5, <1>7

=============================================================================
