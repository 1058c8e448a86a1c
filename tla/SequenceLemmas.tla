--------------------------- MODULE SequenceLemmas ---------------------------
(***************************************************************************)
(* Lemmas about numbers and sequences that other proofs cite: induction,   *)
(* FlattenSeq, and the operators of SequenceOperators.                     *)
(*                                                                         *)
(* Induction is a lemma about a set: one that holds 0, and with a number   *)
(* the next, holds every number.                                           *)
(***************************************************************************)
EXTENDS SequenceOperators, SequenceTheorems, FiniteSetTheorems, NaturalsInduction,
        WellFoundedInduction, TLAPS

\* A set of numbers that is not empty has a least one.
LEMMA LeastNumber ==
    ASSUME NEW S \in SUBSET Nat, S # {}
    PROVE  \E m \in S : \A n \in S : m <= n
<1> DEFINE R == OpToRel(<, Nat)
<1>1. \A a, b \in Nat : a < b => <<a, b>> \in R
    BY DEF OpToRel
<1>2. IsWellFoundedOn(R, Nat)
    BY NatLessThanWellFounded
<1> HIDE DEF R
<1>3. PICK m \in S : \A n \in S : <<n, m>> \notin R
    BY <1>2, WFMin
<1>4. ASSUME NEW n \in S PROVE m <= n
  <2>1. ~(n < m)
      BY <1>1, <1>3
  <2> QED
      BY <2>1
<1> QED
    BY <1>4

LEMMA NumberInduction ==
    ASSUME NEW P, 0 \in P, \A n \in Nat : n \in P => n + 1 \in P
    PROVE  \A n \in Nat : n \in P
<1> DEFINE Bad == {n \in Nat : n \notin P}
<1> SUFFICES ASSUME Bad # {} PROVE FALSE
    OBVIOUS
<1>1. PICK m \in Bad : \A n \in Bad : m <= n
    BY LeastNumber
<1>2. m \in Nat /\ m # 0 /\ m - 1 \in Nat
    BY <1>1
<1>3. m - 1 \in P
    BY <1>1, <1>2
<1>4. (m - 1) + 1 \in P
    BY <1>2, <1>3
<1> QED
    BY <1>1, <1>2, <1>4

\* A set of sequences that is closed under one more element holds every sequence.
LEMMA SequenceInduction ==
    ASSUME NEW S, NEW P, <<>> \in P,
           \A s \in Seq(S) : s \in P => \A c \in S : Append(s, c) \in P
    PROVE  \A s \in Seq(S) : s \in P
<1> DEFINE Q == {n \in Nat : \A s \in Seq(S) : Len(s) = n => s \in P}
<1>1. 0 \in Q
  <2>1. \A s \in Seq(S) : Len(s) = 0 => s = <<>>
      BY EmptySeq
  <2> QED
      BY <2>1
<1>2. ASSUME NEW n \in Nat, n \in Q PROVE n + 1 \in Q
  <2> SUFFICES ASSUME NEW s \in Seq(S), Len(s) = n + 1 PROVE s \in P
      OBVIOUS
  <2>1. s # <<>>
      BY EmptySeq
  <2>2. PICK t \in Seq(S), c \in S : s = Append(t, c)
      BY <2>1, SequenceEmptyOrAppend
  <2>3. Len(t) \in Nat /\ Len(s) = Len(t) + 1
      BY <2>2, AppendProperties, LenProperties
  <2>4. Len(t) = n
      BY <2>3
  <2> QED
      BY <1>2, <2>2, <2>4
<1>3. \A n \in Nat : n \in Q
    <2> HIDE DEF Q
    <2> QED
        BY <1>1, <1>2, NumberInduction
<1> QED
    BY <1>3, LenProperties

-----------------------------------------------------------------------------
(* FlattenSeq.                                                             *)

\* f is the function of which FlattenSeq(ss) is the last value.
IsFlat(f, ss, n) == f = [i \in 1..n |-> IF i = 1 THEN ss[i] ELSE f[i - 1] \o ss[i]]

LEMMA FlatExists == \A ss : \A n \in Nat : \E f : IsFlat(f, ss, n)
<1> TAKE ss
<1> DEFINE P == {n \in Nat : \E f : IsFlat(f, ss, n)}
<1>1. 0 \in P
  <2>1. IsFlat([i \in {} |-> i], ss, 0)
      BY 1..0 = {} DEF IsFlat
  <2> QED
      BY <2>1
<1>2. ASSUME NEW n \in Nat, n \in P PROVE n + 1 \in P
  <2>1. PICK f : IsFlat(f, ss, n)
      BY <1>2
  <2> DEFINE g == [i \in 1..(n + 1) |-> IF i <= n THEN f[i]
                                       ELSE IF i = 1 THEN ss[i] ELSE f[i - 1] \o ss[i]]
  <2>2. ASSUME NEW i \in 1..(n + 1)
        PROVE  g[i] = IF i = 1 THEN ss[i] ELSE g[i - 1] \o ss[i]
    <3>1. CASE i <= n
      <4>1. i \in 1..n /\ g[i] = f[i] /\ (i # 1 => g[i - 1] = f[i - 1])
          BY <3>1
      <4>2. f[i] = IF i = 1 THEN ss[i] ELSE f[i - 1] \o ss[i]
          BY <2>1, <4>1 DEF IsFlat
      <4> QED
          BY <4>1, <4>2
    <3>2. CASE ~(i <= n)
      <4>1. i # 1 => i - 1 \in 1..n /\ g[i - 1] = f[i - 1]
          BY <3>2
      <4> QED
          BY <3>2, <4>1
    <3> QED
        BY <3>1, <3>2
  <2>3. g = [i \in 1..(n + 1) |-> g[i]]
      OBVIOUS
  <2>4. g = [i \in 1..(n + 1) |-> IF i = 1 THEN ss[i] ELSE g[i - 1] \o ss[i]]
    <3> HIDE DEF g
    <3> QED
        BY <2>2, <2>3, Zenon
  <2>5. IsFlat(g, ss, n + 1)
      BY <2>4 DEF IsFlat
  <2> HIDE DEF g
  <2> QED
      BY <2>5
<1> QED
  <2> HIDE DEF P
  <2>1. \A n \in Nat : n \in P
      BY <1>1, <1>2, NumberInduction
  <2> QED
      BY <2>1 DEF P

\* Sequences that begin alike are flattened alike.
Agree(f, g, n) == \A i \in 1..n : f[i] = g[i]

LEMMA FlatAgree ==
    \A n \in Nat, k \in Nat : \A ss, tt, f, g :
        n <= k /\ Agree(ss, tt, n) /\ IsFlat(f, ss, n) /\ IsFlat(g, tt, k) => Agree(f, g, n)
<1> SUFFICES ASSUME NEW n \in Nat, NEW k \in Nat, NEW ss, NEW tt, NEW f, NEW g,
                    n <= k, Agree(ss, tt, n), IsFlat(f, ss, n), IsFlat(g, tt, k)
             PROVE  Agree(f, g, n)
    OBVIOUS
<1> DEFINE P == {i \in Nat : i \in 1..n => f[i] = g[i]}
<1>1. 0 \in P
    OBVIOUS
<1>2. ASSUME NEW i \in Nat, i \in P PROVE i + 1 \in P
  <2> SUFFICES ASSUME i + 1 \in 1..n PROVE f[i + 1] = g[i + 1]
      OBVIOUS
  <2> DEFINE j == i + 1
  <2>1. j \in 1..n /\ j \in 1..k /\ j - 1 = i
      OBVIOUS
  <2> HIDE DEF j
  <2>2. f[j] = (IF j = 1 THEN ss[j] ELSE f[j - 1] \o ss[j])
      BY <2>1 DEF IsFlat
  <2>3. g[j] = (IF j = 1 THEN tt[j] ELSE g[j - 1] \o tt[j])
      BY <2>1 DEF IsFlat
  <2>4. j # 1 => f[i] = g[i]
      BY <1>2, <2>1 DEF j
  <2>5. f[j] = g[j]
      BY <2>1, <2>2, <2>3, <2>4 DEF Agree
  <2> QED
      BY <2>5 DEF j
<1> QED
  <2> HIDE DEF P
  <2>1. \A i \in Nat : i \in P
      BY <1>1, <1>2, NumberInduction
  <2> QED
      BY <2>1 DEF P, Agree

LEMMA FlattenIsFlat ==
    ASSUME NEW ss, Len(ss) \in Nat \ {0}
    PROVE  \E f : IsFlat(f, ss, Len(ss)) /\ FlattenSeq(ss) = f[Len(ss)]
<1> DEFINE f == CHOOSE g : IsFlat(g, ss, Len(ss))
<1>1. IsFlat(f, ss, Len(ss))
    BY FlatExists
<1>2. FlattenSeq(ss) = f[Len(ss)]
    BY DEF FlattenSeq, IsFlat
<1> QED
    BY <1>1, <1>2

LEMMA FlattenNone == FlattenSeq(<<>>) = <<>>
BY EmptySeq DEF FlattenSeq

\* One more sequence is flattened at the end.
LEMMA FlattenOneMore ==
    ASSUME NEW S, NEW ss, NEW tt, Len(ss) \in Nat, Len(tt) = Len(ss) + 1,
           \A i \in 1..Len(ss) : tt[i] = ss[i],
           NEW t \in Seq(S), tt[Len(ss) + 1] = t,
           Len(ss) = 0 => ss = <<>>
    PROVE  FlattenSeq(tt) = FlattenSeq(ss) \o t
<1> PICK n : n = Len(ss)
    OBVIOUS
<1>1. /\ n \in Nat /\ Len(tt) = n + 1 /\ n + 1 \in Nat \ {0} /\ n <= n + 1
      /\ n + 1 \in 1..(n + 1) /\ tt[n + 1] = t
    OBVIOUS
<1>2. PICK g : IsFlat(g, tt, n + 1) /\ FlattenSeq(tt) = g[n + 1]
    BY <1>1, FlattenIsFlat
<1>3. g[n + 1] = IF n + 1 = 1 THEN t ELSE g[(n + 1) - 1] \o t
    BY <1>1, <1>2 DEF IsFlat
<1>4. CASE n = 0
  <2>1. FlattenSeq(ss) = <<>>
      BY <1>4, FlattenNone
  <2>2. <<>> \o t = t
      BY ConcatEmptySeq
  <2> QED
      BY <1>2, <1>3, <1>4, <2>1, <2>2
<1>5. CASE n # 0
  <2>1. PICK f : IsFlat(f, ss, n) /\ FlattenSeq(ss) = f[n]
      BY <1>1, <1>5, FlattenIsFlat
  <2>2. \A i \in 1..n : f[i] = g[i]
    <3>1. Agree(ss, tt, n)
        BY DEF Agree
    <3>2. PICK k : k = n + 1
        OBVIOUS
    <3>3. k \in Nat /\ n \in Nat /\ n <= k
        BY <1>1, <3>2
    <3>4. IsFlat(f, ss, n) /\ IsFlat(g, tt, k)
        BY <1>2, <2>1, <3>2
    <3> QED
        BY <3>1, <3>3, <3>4, FlatAgree DEF Agree
  <2>3. n \in 1..n /\ (n + 1) - 1 = n /\ n + 1 # 1
      BY <1>1, <1>5
  <2> QED
      BY <1>2, <1>3, <2>1, <2>2, <2>3
<1> QED
    BY <1>4, <1>5

-----------------------------------------------------------------------------
(* What FlattenSeq makes of empty sequences.                               *)

LEMMA FlattenLast ==
    ASSUME NEW S, NEW n \in Nat, NEW f \in [1..(n + 1) -> Seq(S)]
    PROVE  FlattenSeq(f) = FlattenSeq([k \in 1..n |-> f[k]]) \o f[n + 1]
<1> DEFINE t == f[n + 1]
           ss == [k \in 1..n |-> f[k]]
           tt == f
<1>1. Len(ss) \in Nat /\ Len(tt) = Len(ss) + 1
    OBVIOUS
<1>2. (\A i \in 1..Len(ss) : tt[i] = ss[i]) /\ (Len(ss) = 0 => ss = <<>>)
    OBVIOUS
<1>3. tt[Len(ss) + 1] = t /\ t \in Seq(S)
    OBVIOUS
<1> HIDE DEF t, ss, tt
<1>4. FlattenSeq(tt) = FlattenSeq(ss) \o t
    BY <1>1, <1>2, <1>3, FlattenOneMore
<1> QED
    BY <1>4 DEF t, ss, tt

LEMMA FlattenIsSequence ==
    ASSUME NEW S
    PROVE  \A n \in Nat : \A f \in [1..n -> Seq(S)] :
              /\ FlattenSeq(f) \in Seq(S)
              /\ FlattenSeq(f) = <<>> <=> \A k \in 1..n : f[k] = <<>>
<1> DEFINE P == {n \in Nat : \A f \in [1..n -> Seq(S)] :
                    /\ FlattenSeq(f) \in Seq(S)
                    /\ FlattenSeq(f) = <<>> <=> \A k \in 1..n : f[k] = <<>>}
<1>1. 0 \in P
  <2> SUFFICES ASSUME NEW f \in [1..0 -> Seq(S)]
               PROVE  FlattenSeq(f) \in Seq(S) /\ FlattenSeq(f) = <<>>
      OBVIOUS
  <2>1. f = <<>>
      OBVIOUS
  <2> QED
      BY <2>1, FlattenNone, EmptySeq
<1>2. ASSUME NEW n \in Nat, n \in P PROVE n + 1 \in P
  <2> SUFFICES ASSUME NEW f \in [1..(n + 1) -> Seq(S)]
               PROVE  /\ FlattenSeq(f) \in Seq(S)
                      /\ FlattenSeq(f) = <<>> <=> \A k \in 1..(n + 1) : f[k] = <<>>
      OBVIOUS
  <2> DEFINE h == [k \in 1..n |-> f[k]]
  <2>1. /\ h \in [1..n -> Seq(S)] /\ Len(h) = n /\ Len(f) = n + 1
        /\ \A k \in 1..n : f[k] = h[k]
        /\ n = 0 => h = <<>>
      OBVIOUS
  <2>2. f[n + 1] \in Seq(S)
      OBVIOUS
  <2> HIDE DEF h
  <2>3. FlattenSeq(h) \in Seq(S) /\ (FlattenSeq(h) = <<>> <=> \A k \in 1..n : h[k] = <<>>)
      BY <1>2, <2>1
  <2> HIDE DEF P
  <2>4. FlattenSeq(f) = FlattenSeq(h) \o f[n + 1]
      BY FlattenLast DEF h
  <2>5. FlattenSeq(f) \in Seq(S) /\ (FlattenSeq(f) = <<>> <=> FlattenSeq(h) = <<>> /\ f[n + 1] = <<>>)
    <3> PICK a, b : a = FlattenSeq(h) /\ b = f[n + 1]
        OBVIOUS
    <3>1. a \in Seq(S) /\ b \in Seq(S)
        BY <2>2, <2>3
    <3>2. a \o b \in Seq(S) /\ Len(a \o b) = Len(a) + Len(b) /\ Len(a) \in Nat /\ Len(b) \in Nat
        BY <3>1, ConcatProperties, LenProperties
    <3>3. a \o b = <<>> <=> a = <<>> /\ b = <<>>
        BY <3>1, <3>2, EmptySeq
    <3> QED
        BY <2>4, <3>2, <3>3
  <2>6. (\A k \in 1..(n + 1) : f[k] = <<>>) <=> (\A k \in 1..n : h[k] = <<>>) /\ f[n + 1] = <<>>
    <3>1. \A k \in 1..(n + 1) : k \in 1..n \/ k = n + 1
        OBVIOUS
    <3>2. n + 1 \in 1..(n + 1) /\ \A k \in 1..n : k \in 1..(n + 1)
        OBVIOUS
    <3> QED
        BY <2>1, <3>1, <3>2
  <2> QED
      BY <2>3, <2>5, <2>6
<1> HIDE DEF P
<1>3. \A n \in Nat : n \in P
    BY <1>1, <1>2, NumberInduction
<1> QED
    BY <1>3 DEF P

-----------------------------------------------------------------------------
(* Those.                                                                  *)

\* Of the first n elements of s, those whose places are in T.
Picked(s, n, T) == FlattenSeq([k \in 1..n |-> IF k \in T THEN <<s[k]>> ELSE <<>>])

LEMMA PickedNone == \A s, T : Picked(s, 0, T) = <<>>
<1> TAKE s, T
<1>1. [k \in 1..0 |-> IF k \in T THEN <<s[k]>> ELSE <<>>] = <<>>
    OBVIOUS
<1> QED
    BY <1>1, FlattenNone DEF Picked

LEMMA PickedOneMore ==
    ASSUME NEW s, NEW T, NEW n \in Nat
    PROVE  Picked(s, n + 1, T) = Picked(s, n, T) \o (IF n + 1 \in T THEN <<s[n + 1]>> ELSE <<>>)
<1> DEFINE t == IF n + 1 \in T THEN <<s[n + 1]>> ELSE <<>>
           ss == [k \in 1..n |-> IF k \in T THEN <<s[k]>> ELSE <<>>]
           tt == [k \in 1..(n + 1) |-> IF k \in T THEN <<s[k]>> ELSE <<>>]
<1>1. Len(ss) \in Nat /\ Len(ss) = n /\ Len(tt) = Len(ss) + 1
    OBVIOUS
<1>2. (\A i \in 1..Len(ss) : tt[i] = ss[i]) /\ (Len(ss) = 0 => ss = <<>>)
    OBVIOUS
<1>3. tt[Len(ss) + 1] = t
    OBVIOUS
<1>4. t \in Seq({s[n + 1]})
  <2>1. <<s[n + 1]>> \in Seq({s[n + 1]}) /\ <<>> \in Seq({s[n + 1]})
      OBVIOUS
  <2> QED
      BY <2>1
<1>5. Picked(s, n, T) = FlattenSeq(ss) /\ Picked(s, n + 1, T) = FlattenSeq(tt)
    BY DEF Picked
<1> HIDE DEF t, ss, tt
<1>6. FlattenSeq(tt) = FlattenSeq(ss) \o t
    BY <1>1, <1>2, <1>3, <1>4, FlattenOneMore
<1> QED
    BY <1>5, <1>6 DEF t

\* One element more, picked or not.
LEMMA PickedStep ==
    ASSUME NEW S, NEW s, NEW T, NEW n \in Nat, Picked(s, n, T) \in Seq(S), s[n + 1] \in S
    PROVE  Picked(s, n + 1, T) =
             IF n + 1 \in T THEN Append(Picked(s, n, T), s[n + 1]) ELSE Picked(s, n, T)
<1> PICK p, e : p = Picked(s, n, T) /\ e = s[n + 1]
    OBVIOUS
<1>1. p \in Seq(S) /\ e \in S
    OBVIOUS
<1>2. p \o <<e>> = Append(p, e) /\ p \o <<>> = p
    BY <1>1, AppendIsConcat, ConcatEmptySeq
<1>3. CASE n + 1 \in T
    BY <1>2, <1>3, PickedOneMore
<1>4. CASE n + 1 \notin T
  <2>1. (IF n + 1 \in T THEN <<s[n + 1]>> ELSE <<>>) = <<>>
      BY <1>4
  <2>2. Picked(s, n + 1, T) = p \o (IF n + 1 \in T THEN <<s[n + 1]>> ELSE <<>>)
      BY PickedOneMore
  <2> QED
      BY <1>2, <1>4, <2>1, <2>2
<1> QED
    BY <1>3, <1>4

LEMMA PickedIsSequence ==
    ASSUME NEW S, NEW s, NEW T
    PROVE  \A n \in Nat : (\A k \in 1..n : s[k] \in S) => Picked(s, n, T) \in Seq(S)
<1> DEFINE P == {n \in Nat : (\A k \in 1..n : s[k] \in S) => Picked(s, n, T) \in Seq(S)}
<1>1. 0 \in P
    BY PickedNone, EmptySeq
<1>2. ASSUME NEW n \in Nat, n \in P PROVE n + 1 \in P
  <2> SUFFICES ASSUME \A k \in 1..(n + 1) : s[k] \in S PROVE Picked(s, n + 1, T) \in Seq(S)
      OBVIOUS
  <2>1. s[n + 1] \in S /\ \A k \in 1..n : s[k] \in S
      OBVIOUS
  <2>2. Picked(s, n, T) \in Seq(S)
      BY <1>2, <2>1
  <2> PICK p, e : p = Picked(s, n, T) /\ e = s[n + 1]
      OBVIOUS
  <2>3. p \in Seq(S) /\ e \in S
      BY <2>1, <2>2
  <2>4. Append(p, e) \in Seq(S)
      BY <2>3, AppendProperties
  <2>5. Picked(s, n + 1, T) = IF n + 1 \in T THEN Append(p, e) ELSE p
      BY <2>1, <2>2, PickedStep
  <2> QED
      BY <2>3, <2>4, <2>5
<1> HIDE DEF P
<1>3. \A n \in Nat : n \in P
    BY <1>1, <1>2, NumberInduction
<1> QED
    BY <1>3 DEF P

LEMMA PickedEmpty ==
    ASSUME NEW s, NEW T, NEW n \in Nat
    PROVE  Picked(s, n, T) = <<>> <=> \A k \in 1..n : k \notin T
<1> DEFINE S == {s[k] : k \in 1..n}
           f == [k \in 1..n |-> IF k \in T THEN <<s[k]>> ELSE <<>>]
<1>1. f \in [1..n -> Seq(S)]
  <2>1. ASSUME NEW k \in 1..n PROVE <<s[k]>> \in Seq(S) /\ <<>> \in Seq(S)
    <3>1. s[k] \in S
        OBVIOUS
    <3> HIDE DEF S
    <3> QED
        BY <3>1
  <2> HIDE DEF S
  <2> QED
      BY <2>1
<1>2. \A k \in 1..n : f[k] = <<>> <=> k \notin T
    OBVIOUS
<1>3. Picked(s, n, T) = FlattenSeq(f)
    BY DEF Picked
<1> HIDE DEF f, S
<1>4. FlattenSeq(f) = <<>> <=> \A k \in 1..n : f[k] = <<>>
    BY <1>1, FlattenIsSequence
<1> QED
    BY <1>2, <1>3, <1>4

\* What is picked stands at a place in T, the same one whatever the elements are.
PlacedIn(p, q, s, t, n, T) ==
    /\ Len(p) = Len(q)
    /\ \A k \in 1..Len(p) : \E j \in 1..n : j \in T /\ p[k] = s[j] /\ q[k] = t[j]

LEMMA PickedPlaces ==
    ASSUME NEW s, NEW t, NEW T
    PROVE  \A n \in Nat : PlacedIn(Picked(s, n, T), Picked(t, n, T), s, t, n, T)
<1> DEFINE P == {n \in Nat : PlacedIn(Picked(s, n, T), Picked(t, n, T), s, t, n, T)}
<1>1. 0 \in P
  <2>1. Picked(s, 0, T) = <<>> /\ Picked(t, 0, T) = <<>>
      BY PickedNone
  <2> QED
      BY <2>1, EmptySeq DEF PlacedIn
<1>2. ASSUME NEW n \in Nat, n \in P PROVE n + 1 \in P
  <2> DEFINE S == {s[k] : k \in 1..(n + 1)} \union {t[k] : k \in 1..(n + 1)}
  <2>1. s[n + 1] \in S /\ t[n + 1] \in S /\ \A k \in 1..n : s[k] \in S /\ t[k] \in S
    <3>1. \A k \in 1..(n + 1) : s[k] \in S /\ t[k] \in S
        OBVIOUS
    <3>2. \A k \in 1..n : k \in 1..(n + 1)
        OBVIOUS
    <3> QED
        BY <3>1, <3>2
  <2> HIDE DEF S
  <2> PICK p, q : p = Picked(s, n, T) /\ q = Picked(t, n, T)
      OBVIOUS
  <2>2. p \in Seq(S) /\ q \in Seq(S)
      BY <2>1, PickedIsSequence
  <2>3. Len(p) = Len(q) /\ \A k \in 1..Len(p) : \E j \in 1..n : j \in T /\ p[k] = s[j] /\ q[k] = t[j]
      BY <1>2 DEF PlacedIn
  <2>4. CASE n + 1 \notin T
    <3>1. Picked(s, n + 1, T) = p /\ Picked(t, n + 1, T) = q
        BY <2>1, <2>2, <2>4, PickedStep
    <3>2. \A j \in 1..n : j \in 1..(n + 1)
        OBVIOUS
    <3>3. PlacedIn(p, q, s, t, n + 1, T)
        BY <2>3, <3>2 DEF PlacedIn
    <3> QED
        BY <3>1, <3>3
  <2>5. CASE n + 1 \in T
    <3>1. Picked(s, n + 1, T) = Append(p, s[n + 1]) /\ Picked(t, n + 1, T) = Append(q, t[n + 1])
        BY <2>1, <2>2, <2>5, PickedStep
    <3> PICK pp, qq : pp = Append(p, s[n + 1]) /\ qq = Append(q, t[n + 1])
        OBVIOUS
    <3>2. /\ Len(p) \in Nat /\ Len(pp) = Len(p) + 1 /\ Len(qq) = Len(p) + 1
          /\ pp[Len(p) + 1] = s[n + 1] /\ qq[Len(p) + 1] = t[n + 1]
          /\ \A k \in 1..Len(p) : pp[k] = p[k] /\ qq[k] = q[k]
        BY <2>1, <2>2, <2>3, AppendProperties, LenProperties
    <3>3. ASSUME NEW k \in 1..Len(pp)
          PROVE  \E j \in 1..(n + 1) : j \in T /\ pp[k] = s[j] /\ qq[k] = t[j]
      <4>1. CASE k \in 1..Len(p)
        <5>1. PICK j \in 1..n : j \in T /\ p[k] = s[j] /\ q[k] = t[j]
            BY <2>3, <4>1
        <5>2. j \in 1..(n + 1)
            OBVIOUS
        <5> QED
            BY <3>2, <4>1, <5>1, <5>2
      <4>2. CASE k = Len(p) + 1
        <5>1. n + 1 \in 1..(n + 1)
            OBVIOUS
        <5> QED
            BY <2>5, <3>2, <4>2, <5>1
      <4> QED
          BY <3>2, <4>1, <4>2
    <3>4. pp = Picked(s, n + 1, T) /\ qq = Picked(t, n + 1, T)
        BY <3>1
    <3>5. Len(pp) = Len(qq)
        BY <3>2
    <3>6. PlacedIn(pp, qq, s, t, n + 1, T)
        BY <3>3, <3>5 DEF PlacedIn
    <3> QED
        BY <3>4, <3>6
  <2> QED
      BY <2>4, <2>5
<1> HIDE DEF P
<1>3. \A n \in Nat : n \in P
    BY <1>1, <1>2, NumberInduction
<1> QED
    BY <1>3 DEF P

\* q begins with p.
Begins(p, q) == Len(p) <= Len(q) /\ \A k \in 1..Len(p) : q[k] = p[k]

LEMMA PickedBegins ==
    ASSUME NEW S, NEW s, NEW T, NEW n \in Nat, NEW m \in Nat, n <= m, \A k \in 1..m : s[k] \in S
    PROVE  Begins(Picked(s, n, T), Picked(s, m, T))
<1> DEFINE P == {j \in Nat : n <= j /\ j <= m => Begins(Picked(s, n, T), Picked(s, j, T))}
<1>1. ASSUME NEW j \in Nat, j <= m PROVE Picked(s, j, T) \in Seq(S) /\ Len(Picked(s, j, T)) \in Nat
  <2>1. \A k \in 1..j : s[k] \in S
      BY <1>1
  <2> QED
      BY <2>1, PickedIsSequence, LenProperties
<1>2. Begins(Picked(s, n, T), Picked(s, n, T))
    BY <1>1 DEF Begins
<1>3. 0 \in P
    BY <1>2
<1>4. ASSUME NEW j \in Nat, j \in P PROVE j + 1 \in P
  <2> SUFFICES ASSUME n <= j + 1, j + 1 <= m PROVE Begins(Picked(s, n, T), Picked(s, j + 1, T))
      OBVIOUS
  <2>1. CASE n = j + 1
      BY <1>2, <2>1
  <2>2. CASE n <= j
    <3>1. Begins(Picked(s, n, T), Picked(s, j, T)) /\ s[j + 1] \in S
        BY <1>4, <2>2
    <3>2. Picked(s, j, T) \in Seq(S)
        BY <1>1
    <3>3. Picked(s, j + 1, T) =
            IF j + 1 \in T THEN Append(Picked(s, j, T), s[j + 1]) ELSE Picked(s, j, T)
        BY <3>1, <3>2, PickedStep
    <3> PICK p, q, e : p = Picked(s, n, T) /\ q = Picked(s, j, T) /\ e = s[j + 1]
        OBVIOUS
    <3>4. q \in Seq(S) /\ e \in S /\ Begins(p, q) /\ Len(p) \in Nat /\ Len(q) \in Nat
        BY <1>1, <3>1, <3>2
    <3>5. /\ Len(Append(q, e)) = Len(q) + 1
          /\ \A k \in 1..Len(q) : Append(q, e)[k] = q[k]
        BY <3>4, AppendProperties
    <3>6. Begins(p, Append(q, e))
        BY <3>4, <3>5 DEF Begins
    <3> QED
        BY <3>3, <3>4, <3>6
  <2> QED
      BY <2>1, <2>2
<1> HIDE DEF P
<1>5. \A j \in Nat : j \in P
    BY <1>3, <1>4, NumberInduction
<1> QED
    BY <1>5 DEF P

-----------------------------------------------------------------------------
(* Total.                                                                  *)

\* f is the function of which Total(ns) is the last value.
IsSum(f, ns, n) ==
    f = [T \in SUBSET (1..n) |-> IF T = {} THEN 0 ELSE f[T \ {Max(T)}] + ns[Max(T)]]

LEMMA MaxIs == ASSUME NEW n \in Nat, NEW T \in SUBSET (1..n), n \in T PROVE Max(T) = n
<1>1. n \in T /\ \A y \in T : n >= y
    OBVIOUS
<1>2. ASSUME NEW x \in T, \A y \in T : x >= y PROVE x = n
    BY <1>1, <1>2
<1> QED
    BY <1>1, <1>2 DEF Max

LEMMA SumExists == \A ns : \A n \in Nat : \E f : IsSum(f, ns, n)
<1> TAKE ns
<1> DEFINE P == {n \in Nat : \E f : IsSum(f, ns, n)}
<1>1. 0 \in P
  <2> DEFINE f == [T \in SUBSET (1..0) |-> 0]
  <2>1. \A T \in SUBSET (1..0) : T = {}
      OBVIOUS
  <2>2. f = [T \in SUBSET (1..0) |-> IF T = {} THEN 0 ELSE f[T \ {Max(T)}] + ns[Max(T)]]
      BY <2>1
  <2>3. IsSum(f, ns, 0)
      BY <2>2 DEF IsSum
  <2> HIDE DEF f
  <2> QED
      BY <2>3
<1>2. ASSUME NEW n \in Nat, n \in P PROVE n + 1 \in P
  <2>1. PICK f : IsSum(f, ns, n)
      BY <1>2
  <2> DEFINE g == [T \in SUBSET (1..(n + 1)) |->
                     IF n + 1 \in T THEN f[T \ {n + 1}] + ns[n + 1] ELSE f[T]]
  <2>2. ASSUME NEW T \in SUBSET (1..(n + 1))
        PROVE  g[T] = IF T = {} THEN 0 ELSE g[T \ {Max(T)}] + ns[Max(T)]
    <3>1. CASE n + 1 \in T
      <4>1. Max(T) = n + 1
          BY <3>1, MaxIs
      <4>2. T \ {n + 1} \in SUBSET (1..(n + 1)) /\ n + 1 \notin T \ {n + 1}
          OBVIOUS
      <4> QED
          BY <3>1, <4>1, <4>2
    <3>2. CASE n + 1 \notin T
      <4>1. T \in SUBSET (1..n)
          BY <3>2
      <4>2. f[T] = IF T = {} THEN 0 ELSE f[T \ {Max(T)}] + ns[Max(T)]
          BY <2>1, <4>1 DEF IsSum
      <4>3. /\ g[T] = f[T]
            /\ T \ {Max(T)} \in SUBSET (1..(n + 1)) /\ n + 1 \notin T \ {Max(T)}
          BY <3>2
      <4>4. g[T \ {Max(T)}] = f[T \ {Max(T)}]
          BY <4>3
      <4> HIDE DEF g
      <4> QED
          BY <4>2, <4>3, <4>4
    <3> QED
        BY <3>1, <3>2
  <2>3. g = [T \in SUBSET (1..(n + 1)) |-> g[T]]
      OBVIOUS
  <2>4. g = [T \in SUBSET (1..(n + 1)) |-> IF T = {} THEN 0 ELSE g[T \ {Max(T)}] + ns[Max(T)]]
    <3> HIDE DEF g
    <3> QED
        BY <2>2, <2>3, Zenon
  <2>5. IsSum(g, ns, n + 1)
      BY <2>4 DEF IsSum
  <2> HIDE DEF g
  <2> QED
      BY <2>5
<1> QED
  <2> HIDE DEF P
  <2>1. \A n \in Nat : n \in P
      BY <1>1, <1>2, NumberInduction
  <2> QED
      BY <2>1 DEF P

LEMMA TotalIsSum ==
    ASSUME NEW n \in Nat, NEW ns, DOMAIN ns = 1..n
    PROVE  \E f : IsSum(f, ns, n) /\ Total(ns) = f[1..n]
<1> DEFINE f == CHOOSE g : IsSum(g, ns, n)
<1>1. IsSum(f, ns, n)
    BY SumExists
<1>2. Total(ns) = f[1..n]
    BY DEF Total, FoldLeft, MapThenFoldSet, IsSum
<1> QED
    BY <1>1, <1>2

\* Sequences that begin alike have the same sums.
LEMMA SumsAgree ==
    ASSUME NEW n \in Nat, NEW k \in Nat, n <= k, NEW ss, NEW tt, NEW f, NEW g,
           Agree(ss, tt, n), IsSum(f, ss, n), IsSum(g, tt, k)
    PROVE  f[1..n] = g[1..n]
<1> DEFINE P == {i \in Nat : i <= n => f[1..i] = g[1..i]}
<1>1. 0 \in P
  <2>1. 1..0 = {} /\ {} \in SUBSET (1..n) /\ {} \in SUBSET (1..k)
      OBVIOUS
  <2>2. f[{}] = 0 /\ g[{}] = 0
      BY <2>1 DEF IsSum
  <2> QED
      BY <2>1, <2>2
<1>2. ASSUME NEW i \in Nat, i \in P PROVE i + 1 \in P
  <2> SUFFICES ASSUME i + 1 <= n PROVE f[1..(i + 1)] = g[1..(i + 1)]
      OBVIOUS
  <2> DEFINE T == 1..(i + 1)
  <2>1. /\ T \in SUBSET (1..n) /\ T \in SUBSET (1..k) /\ T \in SUBSET (1..(i + 1)) /\ T # {}
        /\ i + 1 \in T /\ T \ {i + 1} = 1..i /\ i + 1 \in 1..n
      OBVIOUS
  <2> HIDE DEF T
  <2>2. Max(T) = i + 1
      BY <2>1, MaxIs
  <2>3. f[T] = f[1..i] + ss[i + 1]
    <3>1. f[T] = f[T \ {Max(T)}] + ss[Max(T)]
        BY <2>1 DEF IsSum
    <3> QED
        BY <2>1, <2>2, <3>1
  <2>4. g[T] = g[1..i] + tt[i + 1]
    <3>1. g[T] = g[T \ {Max(T)}] + tt[Max(T)]
        BY <2>1 DEF IsSum
    <3> QED
        BY <2>1, <2>2, <3>1
  <2>5. f[1..i] = g[1..i]
      BY <1>2
  <2>6. ss[i + 1] = tt[i + 1]
      BY <2>1 DEF Agree
  <2> QED
      BY <2>3, <2>4, <2>5, <2>6 DEF T
<1> HIDE DEF P
<1>3. \A i \in Nat : i \in P
    BY <1>1, <1>2, NumberInduction
<1> QED
    BY <1>3 DEF P

LEMMA TotalNone == Total(<<>>) = 0
<1>1. DOMAIN <<>> = 1..0 /\ 1..0 = {} /\ {} \in SUBSET (1..0)
    OBVIOUS
<1>2. PICK f : IsSum(f, <<>>, 0) /\ Total(<<>>) = f[1..0]
    BY <1>1, TotalIsSum
<1> QED
    BY <1>1, <1>2 DEF IsSum

LEMMA TotalOneMore ==
    ASSUME NEW n \in Nat, NEW f, DOMAIN f = 1..(n + 1)
    PROVE  Total(f) = Total([k \in 1..n |-> f[k]]) + f[n + 1]
<1> DEFINE h == [k \in 1..n |-> f[k]]
           T == 1..(n + 1)
<1>1. DOMAIN h = 1..n /\ Agree(h, f, n)
    BY DEF Agree
<1> HIDE DEF h
<1>2. PICK a : IsSum(a, h, n) /\ Total(h) = a[1..n]
    BY <1>1, TotalIsSum
<1>3. PICK m : m = n + 1
    OBVIOUS
<1>4. m \in Nat /\ n <= m /\ DOMAIN f = 1..m
    BY <1>3
<1>5. PICK b : IsSum(b, f, m) /\ Total(f) = b[1..m]
    BY <1>4, TotalIsSum
<1>6. a[1..n] = b[1..n]
    BY <1>1, <1>2, <1>4, <1>5, SumsAgree
<1>7. T = 1..m /\ T \in SUBSET (1..m) /\ T # {} /\ m \in T /\ T \ {m} = 1..n
    BY <1>3
<1> HIDE DEF T
<1>8. Max(T) = m
    BY <1>4, <1>7, MaxIs
<1>9. b[T] = b[1..n] + f[m]
    BY <1>5, <1>7, <1>8 DEF IsSum
<1> QED
    BY <1>2, <1>3, <1>5, <1>6, <1>7, <1>9 DEF h

\* A sum of numbers, none of them negative.
LEMMA TotalIsNumber == \A n \in Nat : \A f \in [1..n -> Nat] : Total(f) \in Nat
<1> DEFINE P == {n \in Nat : \A f \in [1..n -> Nat] : Total(f) \in Nat}
<1>1. 0 \in P
  <2>1. \A f \in [1..0 -> Nat] : f = <<>>
      BY EmptySeq
  <2> QED
      BY <2>1, TotalNone
<1>2. ASSUME NEW n \in Nat, n \in P PROVE n + 1 \in P
  <2> SUFFICES ASSUME NEW f \in [1..(n + 1) -> Nat] PROVE Total(f) \in Nat
      OBVIOUS
  <2> DEFINE g == [k \in 1..n |-> f[k]]
  <2>1. g \in [1..n -> Nat] /\ f[n + 1] \in Nat
      OBVIOUS
  <2>2. Total(f) = Total(g) + f[n + 1]
      BY TotalOneMore
  <2> HIDE DEF g
  <2>3. Total(g) \in Nat
      BY <1>2, <2>1
  <2> QED
      BY <2>1, <2>2, <2>3
<1> HIDE DEF P
<1>3. \A n \in Nat : n \in P
    BY <1>1, <1>2, NumberInduction
<1> QED
    BY <1>3 DEF P

\* A sum grows with what is summed.
LEMMA TotalGrows ==
    \A n \in Nat : \A f, g \in [1..n -> Nat] : (\A k \in 1..n : f[k] <= g[k]) => Total(f) <= Total(g)
<1> DEFINE P == {n \in Nat : \A f, g \in [1..n -> Nat] : (\A k \in 1..n : f[k] <= g[k]) => Total(f) <= Total(g)}
<1>1. 0 \in P
  <2>1. \A f \in [1..0 -> Nat] : f = <<>>
      BY EmptySeq
  <2> QED
      BY <2>1, TotalNone
<1>2. ASSUME NEW n \in Nat, n \in P PROVE n + 1 \in P
  <2> SUFFICES ASSUME NEW f \in [1..(n + 1) -> Nat], NEW g \in [1..(n + 1) -> Nat],
                      \A k \in 1..(n + 1) : f[k] <= g[k]
               PROVE  Total(f) <= Total(g)
      OBVIOUS
  <2> DEFINE d == [k \in 1..n |-> f[k]]
             e == [k \in 1..n |-> g[k]]
  <2>1. d \in [1..n -> Nat] /\ e \in [1..n -> Nat] /\ f[n + 1] \in Nat /\ g[n + 1] \in Nat
      OBVIOUS
  <2>2. (\A k \in 1..n : d[k] <= e[k]) /\ f[n + 1] <= g[n + 1]
      OBVIOUS
  <2>3. Total(f) = Total(d) + f[n + 1] /\ Total(g) = Total(e) + g[n + 1]
      BY TotalOneMore
  <2> HIDE DEF d, e
  <2>4. Total(d) <= Total(e)
      BY <1>2, <2>1, <2>2
  <2>5. Total(d) \in Nat /\ Total(e) \in Nat
      BY <2>1, TotalIsNumber
  <2> QED
      BY <2>1, <2>2, <2>3, <2>4, <2>5
<1> HIDE DEF P
<1>3. \A n \in Nat : n \in P
    BY <1>1, <1>2, NumberInduction
<1> QED
    BY <1>3 DEF P

\* Zeros do not count, at the beginning or at the end.
LEMMA TotalOfZeros == \A n \in Nat : \A f \in [1..n -> {0}] : Total(f) = 0
<1> DEFINE P == {n \in Nat : \A f \in [1..n -> {0}] : Total(f) = 0}
<1>1. 0 \in P
  <2>1. \A f \in [1..0 -> {0}] : f = <<>>
      BY EmptySeq
  <2> QED
      BY <2>1, TotalNone
<1>2. ASSUME NEW n \in Nat, n \in P PROVE n + 1 \in P
  <2> SUFFICES ASSUME NEW f \in [1..(n + 1) -> {0}] PROVE Total(f) = 0
      OBVIOUS
  <2> DEFINE g == [k \in 1..n |-> f[k]]
  <2>1. g \in [1..n -> {0}] /\ f[n + 1] = 0
      OBVIOUS
  <2>2. Total(f) = Total(g) + f[n + 1]
      BY TotalOneMore
  <2> HIDE DEF g
  <2> QED
      BY <1>2, <2>1, <2>2
<1> HIDE DEF P
<1>3. \A n \in Nat : n \in P
    BY <1>1, <1>2, NumberInduction
<1> QED
    BY <1>3 DEF P

LEMMA TotalZerosAfter ==
    ASSUME NEW f, NEW b \in Nat, NEW n \in Nat, b <= n,
           \A k \in 1..n : f[k] \in Nat, \A k \in (b + 1)..n : f[k] = 0
    PROVE  Total([k \in 1..n |-> f[k]]) = Total([k \in 1..b |-> f[k]])
<1> DEFINE P == {m \in Nat : b <= m /\ m <= n => Total([k \in 1..m |-> f[k]]) = Total([k \in 1..b |-> f[k]])}
<1>1. 0 \in P
  <2>1. b <= 0 => b = 0
      OBVIOUS
  <2> QED
      BY <2>1
<1>2. ASSUME NEW m \in Nat, m \in P PROVE m + 1 \in P
  <2>1. CASE m + 1 = b
      BY <2>1
  <2>2. CASE m + 1 # b
    <3> SUFFICES ASSUME b <= m + 1, m + 1 <= n
                 PROVE  Total([k \in 1..(m + 1) |-> f[k]]) = Total([k \in 1..b |-> f[k]])
        OBVIOUS
    <3> DEFINE g == [k \in 1..(m + 1) |-> f[k]]
               h == [k \in 1..m |-> f[k]]
    <3>1. Total(g) = Total([k \in 1..m |-> g[k]]) + g[m + 1]
        BY TotalOneMore
    <3>2. [k \in 1..m |-> g[k]] = h
        OBVIOUS
    <3>3. g[m + 1] = 0 /\ b <= m /\ m <= n
        BY <2>2
    <3>4. Total(h) = Total([k \in 1..b |-> f[k]])
        BY <1>2, <3>3
    <3>5. h \in [1..m -> Nat]
        BY <3>3
    <3> HIDE DEF g, h
    <3>6. Total(h) \in Nat
        BY <3>5, TotalIsNumber
    <3>7. Total(g) = Total([k \in 1..b |-> f[k]])
        BY <3>1, <3>2, <3>3, <3>4, <3>6
    <3> QED
        BY <3>7 DEF g
  <2> QED
      BY <2>1, <2>2
<1> HIDE DEF P
<1>3. n \in P
    BY <1>1, <1>2, NumberInduction
<1> QED
    BY <1>3 DEF P

LEMMA TotalZerosBefore ==
    ASSUME NEW f, NEW c \in Nat, NEW n \in Nat,
           \A k \in 1..(c + n) : f[k] \in Nat, \A k \in 1..c : f[k] = 0
    PROVE  Total([k \in 1..(c + n) |-> f[k]]) = Total([j \in 1..n |-> f[c + j]])
<1> DEFINE P == {m \in Nat : m <= n => Total([k \in 1..(c + m) |-> f[k]]) = Total([j \in 1..m |-> f[c + j]])}
<1>1. 0 \in P
  <2> DEFINE z == [k \in 1..(c + 0) |-> f[k]]
             e == [j \in 1..0 |-> f[c + j]]
  <2>1. c + 0 = c /\ z \in [1..c -> {0}]
      OBVIOUS
  <2>2. e = <<>>
      BY EmptySeq
  <2> HIDE DEF z, e
  <2>3. Total(z) = 0 /\ Total(e) = 0
      BY <2>1, <2>2, TotalOfZeros, TotalNone
  <2> QED
      BY <2>3 DEF z, e
<1>2. ASSUME NEW m \in Nat, m \in P PROVE m + 1 \in P
  <2> SUFFICES ASSUME m + 1 <= n
               PROVE  Total([k \in 1..(c + (m + 1)) |-> f[k]]) = Total([j \in 1..(m + 1) |-> f[c + j]])
      OBVIOUS
  <2> PICK d : d = c + m
      OBVIOUS
  <2>0. d \in Nat /\ c + (m + 1) = d + 1
      OBVIOUS
  <2> DEFINE g == [k \in 1..(d + 1) |-> f[k]]
             h == [j \in 1..(m + 1) |-> f[c + j]]
             gg == [k \in 1..d |-> f[k]]
             hh == [j \in 1..m |-> f[c + j]]
  <2>1. Total(g) = Total([k \in 1..d |-> g[k]]) + g[d + 1]
      BY <2>0, TotalOneMore
  <2>2. Total(h) = Total([k \in 1..m |-> h[k]]) + h[m + 1]
      BY TotalOneMore
  <2>3. [k \in 1..d |-> g[k]] = gg /\ [k \in 1..m |-> h[k]] = hh
      BY <2>0
  <2>4. g[d + 1] = h[m + 1]
    <3>1. d + 1 \in 1..(d + 1) /\ m + 1 \in 1..(m + 1)
        BY <2>0
    <3>2. g[d + 1] = f[d + 1] /\ h[m + 1] = f[c + (m + 1)]
        BY <3>1
    <3> QED
        BY <2>0, <3>2
  <2>5. Total(gg) = Total(hh)
      BY <1>2
  <2> HIDE DEF g, h, gg, hh
  <2>6. Total(g) = Total(h)
      BY <2>1, <2>2, <2>3, <2>4, <2>5
  <2> QED
      BY <2>0, <2>6 DEF g, h
<1> HIDE DEF P
<1>3. n \in P
    BY <1>1, <1>2, NumberInduction
<1> QED
    BY <1>3 DEF P

\* One more for each number.
LEMMA TotalWithOnes ==
    \A n \in Nat : \A f \in [1..n -> Nat] : Total([k \in 1..n |-> f[k] + 1]) = Total(f) + n
<1> DEFINE P == {n \in Nat : \A f \in [1..n -> Nat] : Total([k \in 1..n |-> f[k] + 1]) = Total(f) + n}
<1>1. 0 \in P
  <2>1. \A f \in [1..0 -> Nat] : f = <<>> /\ [k \in 1..0 |-> f[k] + 1] = <<>>
      BY EmptySeq
  <2> QED
      BY <2>1, TotalNone
<1>2. ASSUME NEW n \in Nat, n \in P PROVE n + 1 \in P
  <2> SUFFICES ASSUME NEW f \in [1..(n + 1) -> Nat]
               PROVE  Total([k \in 1..(n + 1) |-> f[k] + 1]) = Total(f) + (n + 1)
      OBVIOUS
  <2> DEFINE g == [k \in 1..(n + 1) |-> f[k] + 1]
             ff == [k \in 1..n |-> f[k]]
             gg == [k \in 1..n |-> ff[k] + 1]
  <2>1. Total(f) = Total(ff) + f[n + 1]
      BY TotalOneMore
  <2>2. Total(g) = Total([k \in 1..n |-> g[k]]) + g[n + 1]
      BY TotalOneMore
  <2>3. [k \in 1..n |-> g[k]] = gg /\ g[n + 1] = f[n + 1] + 1 /\ f[n + 1] \in Nat
      OBVIOUS
  <2>4. ff \in [1..n -> Nat]
      OBVIOUS
  <2> HIDE DEF g, ff
  <2>5. Total(gg) = Total(ff) + n
      BY <1>2, <2>4
  <2>6. Total(ff) \in Nat
      BY <2>4, TotalIsNumber
  <2> HIDE DEF gg
  <2>7. Total(g) = Total(f) + (n + 1)
    <3>1. Total(g) = Total(gg) + (f[n + 1] + 1)
        BY <2>2, <2>3
    <3> PICK a, x, z : a = Total(ff) /\ x = f[n + 1] /\ z = Total(gg)
        OBVIOUS
    <3>2. a \in Nat /\ x \in Nat /\ z = a + n /\ Total(g) = z + (x + 1) /\ Total(f) = a + x
        BY <2>1, <2>3, <2>5, <2>6, <3>1
    <3> QED
        BY <3>2
  <2> QED
      BY <2>7 DEF g
<1> HIDE DEF P
<1>3. \A n \in Nat : n \in P
    BY <1>1, <1>2, NumberInduction
<1> QED
    BY <1>3 DEF P

\* The sum of the numbers that are picked.
LEMMA TotalPicked ==
    ASSUME NEW w, NEW T
    PROVE  \A n \in Nat : (\A k \in 1..n : w[k] \in Nat) =>
              Total(Picked(w, n, T)) = Total([k \in 1..n |-> IF k \in T THEN w[k] ELSE 0])
<1> DEFINE v(n) == [k \in 1..n |-> IF k \in T THEN w[k] ELSE 0]
           P == {n \in Nat : (\A k \in 1..n : w[k] \in Nat) => Total(Picked(w, n, T)) = Total(v(n))}
<1>1. 0 \in P
  <2>1. Picked(w, 0, T) = <<>>
      BY PickedNone
  <2>2. v(0) = <<>>
      BY EmptySeq
  <2> QED
      BY <2>1, <2>2
<1>2. ASSUME NEW n \in Nat, n \in P PROVE n + 1 \in P
  <2> SUFFICES ASSUME \A k \in 1..(n + 1) : w[k] \in Nat
               PROVE  Total(Picked(w, n + 1, T)) = Total(v(n + 1))
      OBVIOUS
  <2>1. w[n + 1] \in Nat /\ \A k \in 1..n : w[k] \in Nat
      OBVIOUS
  <2> PICK p, x, y : p = Picked(w, n, T) /\ x = v(n) /\ y = v(n + 1)
      OBVIOUS
  <2>2. p \in Seq(Nat)
      BY <2>1, PickedIsSequence
  <2>3. Picked(w, n + 1, T) = IF n + 1 \in T THEN Append(p, w[n + 1]) ELSE p
      BY <2>1, <2>2, PickedStep
  <2>4. Total(p) = Total(x) /\ x \in [1..n -> Nat]
      BY <1>2, <2>1
  <2>5. Total(y) = Total(x) + (IF n + 1 \in T THEN w[n + 1] ELSE 0)
    <3>0. DOMAIN y = 1..(n + 1)
        OBVIOUS
    <3>1. y[n + 1] = IF n + 1 \in T THEN w[n + 1] ELSE 0
        OBVIOUS
    <3>2. [k \in 1..n |-> y[k]] = x
        OBVIOUS
    <3> HIDE DEF v
    <3>3. Total(y) = Total([k \in 1..n |-> y[k]]) + y[n + 1]
        BY <3>0, TotalOneMore
    <3> QED
        BY <3>1, <3>2, <3>3
  <2>6. Total(x) \in Nat
      BY <2>4, TotalIsNumber
  <2> HIDE DEF v
  <2>7. CASE n + 1 \notin T
      BY <2>3, <2>4, <2>5, <2>6, <2>7
  <2>8. CASE n + 1 \in T
    <3> PICK q, m : q = Append(p, w[n + 1]) /\ m = Len(p)
        OBVIOUS
    <3>1. m \in Nat /\ DOMAIN q = 1..(m + 1) /\ q[m + 1] = w[n + 1] /\ \A k \in 1..m : q[k] = p[k]
      <4>1. q \in Seq(Nat) /\ Len(q) = Len(p) + 1 /\ q[Len(p) + 1] = w[n + 1]
            /\ \A k \in 1..Len(p) : q[k] = p[k]
          BY <2>1, <2>2, AppendProperties
      <4> QED
          BY <2>2, <4>1, LenProperties
    <3>2. [k \in 1..m |-> q[k]] = p
        BY <2>2, <3>1
    <3>3. Total(q) = Total([k \in 1..m |-> q[k]]) + q[m + 1]
        BY <3>1, TotalOneMore
    <3>4. Total(q) = Total(p) + w[n + 1]
        BY <3>1, <3>2, <3>3
    <3> QED
        BY <2>3, <2>4, <2>5, <2>8, <3>4
  <2> QED
      BY <2>7, <2>8
<1> HIDE DEF P
<1>3. \A n \in Nat : n \in P
    BY <1>1, <1>2, NumberInduction
<1> QED
    BY <1>3 DEF P

\* z measures what is picked as w measures the elements of s.
LEMMA TotalOfPicked ==
    ASSUME NEW s, NEW w, NEW T, NEW n \in Nat, \A k \in 1..n : w[k] \in Nat,
           NEW z, DOMAIN z = 1..Len(Picked(s, n, T)),
           \A j \in 1..Len(Picked(s, n, T)) : \A k \in T \intersect 1..n :
              Picked(s, n, T)[j] = s[k] => z[j] = w[k],
           z = [j \in 1..Len(Picked(s, n, T)) |-> z[j]]
    PROVE  Total(z) = Total([k \in 1..n |-> IF k \in T THEN w[k] ELSE 0])
<1> PICK p, q : p = Picked(s, n, T) /\ q = Picked(w, n, T)
    OBVIOUS
<1>1. PlacedIn(p, q, s, w, n, T)
    BY PickedPlaces
<1>2. q \in Seq(Nat)
    BY PickedIsSequence
<1>3. Len(q) = Len(p) /\ Len(q) \in Nat /\ q = [j \in 1..Len(p) |-> q[j]]
    BY <1>1, <1>2 DEF PlacedIn
<1>4. \A j \in 1..Len(p) : z[j] = q[j]
  <2> SUFFICES ASSUME NEW j \in 1..Len(p) PROVE z[j] = q[j]
      OBVIOUS
  <2>1. PICK k \in 1..n : k \in T /\ p[j] = s[k] /\ q[j] = w[k]
      BY <1>1 DEF PlacedIn
  <2> QED
      BY <2>1
<1>5. z = q
    BY <1>3, <1>4
<1> QED
    BY <1>5, TotalPicked

\* A sum is what is left of it without one of its numbers, and that number.
LEMMA TotalWithout ==
    \A n \in Nat : \A f \in [1..n -> Nat] : \A x \in 1..n : Total(f) = Total([f EXCEPT ![x] = 0]) + f[x]
<1> DEFINE P == {n \in Nat : \A f \in [1..n -> Nat] : \A x \in 1..n :
                               Total(f) = Total([f EXCEPT ![x] = 0]) + f[x]}
<1>1. 0 \in P
    OBVIOUS
<1>2. ASSUME NEW n \in Nat, n \in P PROVE n + 1 \in P
  <2> SUFFICES ASSUME NEW f \in [1..(n + 1) -> Nat], NEW x \in 1..(n + 1)
               PROVE  Total(f) = Total([f EXCEPT ![x] = 0]) + f[x]
      OBVIOUS
  <2> DEFINE e == [f EXCEPT ![x] = 0]
             g == [k \in 1..n |-> f[k]]
             h == [k \in 1..n |-> e[k]]
  <2>1. /\ e \in [1..(n + 1) -> Nat] /\ g \in [1..n -> Nat] /\ h \in [1..n -> Nat]
        /\ f[n + 1] \in Nat /\ e[n + 1] \in Nat
      OBVIOUS
  <2>2. e[n + 1] = IF x = n + 1 THEN 0 ELSE f[n + 1]
      OBVIOUS
  <2>3. ASSUME x # n + 1 PROVE x \in 1..n /\ h = [g EXCEPT ![x] = 0] /\ g[x] = f[x]
    <3>1. x \in 1..n
        BY <2>3
    <3>2. \A k \in 1..n : h[k] = [g EXCEPT ![x] = 0][k]
        BY <3>1
    <3>3. DOMAIN h = 1..n /\ DOMAIN [g EXCEPT ![x] = 0] = 1..n
        OBVIOUS
    <3> QED
        BY <3>1, <3>2, <3>3
  <2>4. x = n + 1 => h = g
      OBVIOUS
  <2>5. Total(f) = Total(g) + f[n + 1] /\ Total(e) = Total(h) + e[n + 1]
      BY <2>1, TotalOneMore
  <2> HIDE DEF e, g, h
  <2>6. Total(g) \in Nat /\ Total(h) \in Nat
      BY <2>1, TotalIsNumber
  <2>7. CASE x = n + 1
      BY <2>1, <2>2, <2>4, <2>5, <2>6, <2>7 DEF e
  <2>8. CASE x # n + 1
    <3>1. Total(g) = Total(h) + g[x] /\ g[x] \in Nat
        BY <1>2, <2>1, <2>3, <2>8
    <3> QED
        BY <2>1, <2>2, <2>3, <2>5, <2>6, <2>8, <3>1 DEF e
  <2> QED
      BY <2>7, <2>8
<1> HIDE DEF P
<1>3. \A n \in Nat : n \in P
    BY <1>1, <1>2, NumberInduction
<1> QED
    BY <1>3 DEF P

\* The place in f that is given to each number of g that counts, no place twice.
Covers(g, m, f, n, place) ==
    /\ \A j \in 1..m : g[j] # 0 => place[j] \in 1..n /\ g[j] <= f[place[j]]
    /\ \A i, j \in 1..m : g[i] # 0 /\ g[j] # 0 /\ place[i] = place[j] => i = j

\* The sum of some numbers is not more than that of others which cover them.
LEMMA TotalCovers ==
    \A m \in Nat : \A n \in Nat : \A f \in [1..n -> Nat] : \A g \in [1..m -> Nat] : \A place :
        Covers(g, m, f, n, place) => Total(g) <= Total(f)
<1> DEFINE P == {m \in Nat : \A n \in Nat : \A f \in [1..n -> Nat] : \A g \in [1..m -> Nat] : \A place :
                               Covers(g, m, f, n, place) => Total(g) <= Total(f)}
<1>1. 0 \in P
  <2>1. \A g \in [1..0 -> Nat] : Total(g) = 0
    <3>1. \A g \in [1..0 -> Nat] : g = <<>>
        BY EmptySeq
    <3> QED
        BY <3>1, TotalNone
  <2>2. \A n \in Nat : \A f \in [1..n -> Nat] : Total(f) \in Nat
      BY TotalIsNumber
  <2> QED
      BY <2>1, <2>2
<1>2. ASSUME NEW m \in Nat, m \in P PROVE m + 1 \in P
  <2> SUFFICES ASSUME NEW n \in Nat, NEW f \in [1..n -> Nat], NEW g \in [1..(m + 1) -> Nat], NEW place,
                      Covers(g, m + 1, f, n, place)
               PROVE  Total(g) <= Total(f)
      OBVIOUS
  <2> DEFINE h == [k \in 1..m |-> g[k]]
  <2>1. h \in [1..m -> Nat] /\ g[m + 1] \in Nat
      OBVIOUS
  <2>2. Total(g) = Total(h) + g[m + 1]
      BY TotalOneMore
  <2>3. CASE g[m + 1] = 0
    <3>1. Covers(h, m, f, n, place)
        BY DEF Covers
    <3> HIDE DEF h
    <3>2. Total(h) <= Total(f) /\ Total(h) \in Nat
        BY <1>2, <2>1, <3>1, TotalIsNumber
    <3> QED
        BY <2>2, <2>3, <3>2
  <2>4. CASE g[m + 1] # 0
    <3> DEFINE x == place[m + 1]
               e == [f EXCEPT ![x] = 0]
    <3>1. x \in 1..n /\ g[m + 1] <= f[x] /\ e \in [1..n -> Nat] /\ f[x] \in Nat
        BY <2>4 DEF Covers
    <3>2. ASSUME NEW j \in 1..m, g[j] # 0
          PROVE  place[j] \in 1..n /\ g[j] <= e[place[j]]
      <4>1. place[j] \in 1..n /\ g[j] <= f[place[j]] /\ place[j] # x
          BY <2>4, <3>2 DEF Covers
      <4> QED
          BY <4>1
    <3>3. Covers(h, m, e, n, place)
      <4>1. \A i, j \in 1..m : g[i] # 0 /\ g[j] # 0 /\ place[i] = place[j] => i = j
          BY DEF Covers
      <4> HIDE DEF e, x
      <4> QED
          BY <3>2, <4>1 DEF Covers
    <3>4. Total(f) = Total(e) + f[x]
        BY <3>1, TotalWithout
    <3> HIDE DEF e, x, h
    <3>5. Total(h) <= Total(e) /\ Total(h) \in Nat /\ Total(e) \in Nat
        BY <1>2, <2>1, <3>1, <3>3, TotalIsNumber
    <3> QED
        BY <2>1, <2>2, <3>1, <3>4, <3>5
  <2> QED
      BY <2>3, <2>4
<1> HIDE DEF P
<1>3. \A m \in Nat : m \in P
    BY <1>1, <1>2, NumberInduction
<1> QED
    BY <1>3 DEF P

\* No number is more than a sum it is in.
LEMMA TotalBounds ==
    ASSUME NEW n \in Nat, NEW f \in [1..n -> Nat], NEW x \in 1..n
    PROVE  f[x] <= Total(f)
<1> DEFINE e == [f EXCEPT ![x] = 0]
<1>1. e \in [1..n -> Nat]
    OBVIOUS
<1>2. Total(f) = Total(e) + f[x]
    BY TotalWithout
<1> HIDE DEF e
<1>3. Total(e) \in Nat
    BY <1>1, TotalIsNumber
<1> QED
    BY <1>2, <1>3

LEMMA TailIs ==
    ASSUME NEW S, NEW s \in Seq(S), s # <<>>
    PROVE  /\ Tail(s) \in Seq(S) /\ Len(Tail(s)) = Len(s) - 1 /\ Len(s) \in Nat \ {0}
           /\ Head(s) = s[1] /\ s[1] \in S
           /\ \A k \in 1..Len(Tail(s)) : k + 1 \in 1..Len(s) /\ Tail(s)[k] = s[k + 1]
           /\ \A k \in 1..Len(s) : k = 1 \/ (k - 1 \in 1..Len(Tail(s)) /\ s[k] = Tail(s)[k - 1])
<1>1. /\ Tail(s) \in Seq(S) /\ Len(Tail(s)) = Len(s) - 1 /\ Len(s) \in Nat \ {0}
      /\ Head(s) = s[1] /\ s[1] \in S
    BY EmptySeq
<1>2. \A k \in 1..Len(Tail(s)) : k + 1 \in 1..Len(s) /\ Tail(s)[k] = s[k + 1]
    BY <1>1
<1>3. ASSUME NEW k \in 1..Len(s), k # 1 PROVE k - 1 \in 1..Len(Tail(s)) /\ s[k] = Tail(s)[k - 1]
  <2>1. k - 1 \in 1..Len(Tail(s)) /\ (k - 1) + 1 = k
      BY <1>1, <1>3
  <2> QED
      BY <1>2, <2>1
<1> QED
    BY <1>1, <1>2, <1>3

-----------------------------------------------------------------------------
(* Sequences that hold the elements of a set, each once.                   *)

Enumerates(s, S) ==
    /\ s \in Seq(S)
    /\ \A j, k \in 1..Len(s) : s[j] = s[k] => j = k
    /\ \A x \in S : \E k \in 1..Len(s) : s[k] = x

LEMMA EnumeratesMore ==
    ASSUME NEW s, NEW S, Enumerates(s, S), NEW x, x \notin S
    PROVE  Enumerates(Append(s, x), S \union {x})
<1> PICK t : t = Append(s, x)
    OBVIOUS
<1>1. s \in Seq(S \union {x})
  <2>1. s \in Seq(S)
      BY DEF Enumerates
  <2> QED
      BY <2>1
<1>2. /\ t \in Seq(S \union {x}) /\ Len(t) = Len(s) + 1 /\ Len(s) \in Nat
      /\ \A k \in 1..Len(s) : t[k] = s[k] /\ s[k] \in S
      /\ t[Len(s) + 1] = x
  <2>1. \A k \in 1..Len(s) : s[k] \in S
      BY ElementOfSeq DEF Enumerates
  <2> QED
      BY <1>1, <2>1, AppendProperties, LenProperties
<1>3. \A k \in 1..Len(t) : k = Len(s) + 1 \/ k \in 1..Len(s)
    BY <1>2
<1>4. \A j, k \in 1..Len(t) : t[j] = t[k] => j = k
    BY <1>2, <1>3 DEF Enumerates
<1>5. ASSUME NEW y \in S \union {x} PROVE \E k \in 1..Len(t) : t[k] = y
  <2>1. CASE y = x
    <3>1. Len(s) + 1 \in 1..Len(t)
        BY <1>2
    <3> QED
        BY <1>2, <2>1, <3>1
  <2>2. CASE y \in S
    <3>1. PICK k \in 1..Len(s) : s[k] = y
        BY <2>2 DEF Enumerates
    <3>2. k \in 1..Len(t)
        BY <1>2
    <3> QED
        BY <1>2, <3>1, <3>2
  <2> QED
      BY <2>1, <2>2
<1> QED
    BY <1>2, <1>4, <1>5 DEF Enumerates

LEMMA PickedEnumerates ==
    ASSUME NEW s, NEW K, NEW m \in Nat, \A j, k \in 1..m : s[j] = s[k] => j = k
    PROVE  \A n \in Nat : n <= m => Enumerates(Picked(s, n, K), {s[k] : k \in K \intersect 1..n})
<1> DEFINE P == {n \in Nat : n <= m => Enumerates(Picked(s, n, K), {s[k] : k \in K \intersect 1..n})}
<1>1. 0 \in P
  <2>1. {s[k] : k \in K \intersect 1..0} = {}
      OBVIOUS
  <2>2. Enumerates(<<>>, {})
      BY EmptySeq DEF Enumerates
  <2> QED
      BY <2>1, <2>2, PickedNone
<1>2. ASSUME NEW n \in Nat, n \in P PROVE n + 1 \in P
  <2> SUFFICES ASSUME n + 1 <= m
               PROVE  Enumerates(Picked(s, n + 1, K), {s[k] : k \in K \intersect 1..(n + 1)})
      OBVIOUS
  <2> DEFINE A == {s[k] : k \in K \intersect 1..n}
             B == {s[k] : k \in K \intersect 1..(n + 1)}
             S == A \union {s[n + 1]}
  <2>1. Enumerates(Picked(s, n, K), A)
      BY <1>2
  <2>2. n + 1 \in K => B = A \union {s[n + 1]} /\ s[n + 1] \notin A
    <3>1. 1..(n + 1) = 1..n \union {n + 1}
        OBVIOUS
    <3>2. \A k \in 1..n : k \in 1..m /\ n + 1 \in 1..m /\ k # n + 1
        OBVIOUS
    <3> QED
        BY <3>1, <3>2
  <2>3. n + 1 \notin K => B = A
    <3>1. 1..(n + 1) = 1..n \union {n + 1}
        OBVIOUS
    <3> QED
        BY <3>1
  <2> HIDE DEF A, B
  <2>4. Picked(s, n, K) \in Seq(S) /\ s[n + 1] \in S
    <3>1. Picked(s, n, K) \in Seq(A)
        BY <2>1 DEF Enumerates
    <3> PICK p : p = Picked(s, n, K)
        OBVIOUS
    <3> QED
        BY <3>1
  <2> HIDE DEF S
  <2>5. Picked(s, n + 1, K) = IF n + 1 \in K THEN Append(Picked(s, n, K), s[n + 1]) ELSE Picked(s, n, K)
      BY <2>4, PickedStep
  <2>6. Enumerates(Picked(s, n + 1, K), B)
      BY <2>1, <2>2, <2>3, <2>5, EnumeratesMore
  <2> QED
      BY <2>6 DEF B
<1> HIDE DEF P
<1>3. \A n \in Nat : n \in P
    BY <1>1, <1>2, NumberInduction
<1> QED
    BY <1>3 DEF P

LEMMA ThoseEnumerate ==
    ASSUME NEW s, NEW S, Enumerates(s, S), NEW T, T \subseteq S
    PROVE  Enumerates(Those(s, LAMBDA x : x \in T), T)
<1> DEFINE n == Len(s)
           K == {k \in 1..n : s[k] \in T}
           f == [k \in 1..n |-> IF s[k] \in T THEN <<s[k]>> ELSE <<>>]
           g == [k \in 1..n |-> IF k \in K THEN <<s[k]>> ELSE <<>>]
<1>1. f = g
    OBVIOUS
<1>2. Those(s, LAMBDA x : x \in T) = FlattenSeq(f)
    BY DEF Those
<1>3. Picked(s, n, K) = FlattenSeq(g)
    BY DEF Picked
<1>4. {s[k] : k \in K \intersect 1..n} = T
    BY DEF Enumerates
<1>5. n \in Nat /\ \A j, k \in 1..n : s[j] = s[k] => j = k
    BY LenProperties DEF Enumerates
<1> HIDE DEF n, K, f, g
<1>6. Enumerates(Picked(s, n, K), {s[k] : k \in K \intersect 1..n})
  <2>1. n <= n
      BY <1>5
  <2> QED
      BY <1>5, <2>1, PickedEnumerates
<1> QED
    BY <1>1, <1>2, <1>3, <1>4, <1>6

LEMMA EnumeratesCounts ==
    ASSUME NEW s, NEW S, Enumerates(s, S)
    PROVE  IsFiniteSet(S) /\ Cardinality(S) = Len(s)
<1> DEFINE f == [k \in 1..Len(s) |-> s[k]]
<1>1. Len(s) \in Nat /\ \A k \in 1..Len(s) : s[k] \in S
    BY LenProperties, ElementOfSeq DEF Enumerates
<1>2. f \in Bijection(1..Len(s), S)
  <2>1. f \in [1..Len(s) -> S]
      BY <1>1
  <2>2. \A a, b \in 1..Len(s) : f[a] = f[b] => a = b
      BY DEF Enumerates
  <2>3. \A x \in S : \E a \in 1..Len(s) : f[a] = x
      BY DEF Enumerates
  <2> HIDE DEF f
  <2> QED
      BY <2>1, <2>2, <2>3 DEF Bijection, Injection, Surjection, IsInjective
<1>3. IsFiniteSet(1..Len(s)) /\ Cardinality(1..Len(s)) = Len(s)
    BY <1>1, FS_Interval
<1> QED
    BY <1>2, <1>3, FS_Bijection DEF ExistsBijection

-----------------------------------------------------------------------------
(* Finite sets.                                                            *)

\* A finite set of numbers has a least and a greatest one.
LEMMA FiniteExtremes ==
    ASSUME NEW S \in SUBSET Nat, IsFiniteSet(S), S # {}
    PROVE  /\ Min(S) \in S /\ \A x \in S : Min(S) <= x
           /\ Max(S) \in S /\ \A x \in S : x <= Max(S)
<1> PICK n : n = Cardinality(S)
    OBVIOUS
<1>1. n \in Nat /\ ExistsBijection(1..n, S)
    BY FS_CardinalityType
<1>2. PICK f \in [1..n -> S] : \A x \in S : \E k \in 1..n : f[k] = x
    BY <1>1 DEF ExistsBijection, Bijection, Injection, Surjection
<1>3. f \in [1..n -> Nat]
    BY <1>2
<1>4. PICK m : m = Total(f)
    OBVIOUS
<1>5. m \in Nat /\ \A x \in S : x <= m
    BY <1>1, <1>2, <1>3, <1>4, TotalIsNumber, TotalBounds
<1>6. \E x \in S : \A y \in S : x <= y
    BY LeastNumber
<1>7. \E x \in S : \A y \in S : y <= x
  <2> DEFINE T == {m - x : x \in S}
  <2>0. \A x \in S : m - x \in Nat
      BY <1>5
  <2>1. T \in SUBSET Nat /\ T # {}
      BY <2>0
  <2>2. PICK t \in T : \A u \in T : t <= u
      BY <2>1, LeastNumber
  <2>3. PICK x \in S : t = m - x
      BY <2>2
  <2>4. \A y \in S : m - x <= m - y
      BY <2>2, <2>3
  <2>5. \A y \in S : y <= x
      BY <1>5, <2>4
  <2> QED
      BY <2>5
<1>8. Min(S) \in S /\ \A x \in S : Min(S) <= x
    BY <1>6 DEF Min
<1>9. Max(S) \in S /\ \A x \in S : x <= Max(S)
    BY <1>7 DEF Max
<1> QED
    BY <1>8, <1>9

\* Elements that are told apart by f are as many as their values.
LEMMA ImageCounts ==
    ASSUME NEW K, IsFiniteSet(K), NEW T, NEW f \in [K -> T], \A j, k \in K : f[j] = f[k] => j = k,
           \A x \in T : \E k \in K : f[k] = x
    PROVE  IsFiniteSet(T) /\ Cardinality(T) = Cardinality(K)
<1>1. f \in Bijection(K, T)
    BY DEF Bijection, Injection, Surjection, IsInjective
<1> QED
    BY <1>1, FS_Bijection DEF ExistsBijection

LEMMA ImageIsFinite ==
    ASSUME NEW S, IsFiniteSet(S), NEW f
    PROVE  IsFiniteSet({f[x] : x \in S}) /\ Cardinality({f[x] : x \in S}) <= Cardinality(S)
<1> DEFINE T == {f[x] : x \in S}
           g == [x \in S |-> f[x]]
<1>1. g \in Surjection(S, T)
    BY DEF Surjection
<1> QED
    BY <1>1, FS_Surjection

LEMMA OneElementMore ==
    ASSUME NEW S, IsFiniteSet(S), NEW x
    PROVE  /\ IsFiniteSet(S \union {x}) /\ Cardinality(S \union {x}) \in Nat /\ Cardinality(S) \in Nat
           /\ Cardinality(S \union {x}) <= Cardinality(S) + 1
<1>1. IsFiniteSet(S \union {x})
    BY FS_AddElement
<1>2. Cardinality(S \union {x}) \in Nat /\ Cardinality(S) \in Nat
    BY <1>1, FS_CardinalityType
<1>3. Cardinality(S \union {x}) = IF x \in S THEN Cardinality(S) ELSE Cardinality(S) + 1
    BY FS_AddElement
<1> QED
    BY <1>1, <1>2, <1>3

\* No more elements than numbers, if no two have the same.
LEMMA Pigeons ==
    ASSUME NEW K, IsFiniteSet(K), NEW n \in Nat, NEW f, DOMAIN f = K, f = [k \in K |-> f[k]],
           \A k \in K : f[k] \in Nat /\ f[k] < n, \A j, k \in K : f[j] = f[k] => j = k
    PROVE  Cardinality(K) <= n
<1> PICK b : b = n - 1
    OBVIOUS
<1>1. b \in Int /\ 0 \in Int /\ (0 > b => n = 0) /\ b - 0 + 1 = n
    OBVIOUS
<1>2. IsFiniteSet(0..b) /\ Cardinality(0..b) = IF 0 > b THEN 0 ELSE b - 0 + 1
    BY <1>1, FS_Interval
<1>3. f \in Injection(K, 0..b)
  <2>1. \A k \in K : f[k] \in 0..b
      BY <1>1
  <2> QED
      BY <2>1 DEF Injection, IsInjective
<1>4. Cardinality(K) <= Cardinality(0..b)
    BY <1>2, <1>3, FS_Injection
<1> QED
    BY <1>1, <1>2, <1>4
=============================================================================
