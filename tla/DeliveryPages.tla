--------------------------- MODULE DeliveryPages ----------------------------
(***************************************************************************)
(* What a page of module Delivery holds, for any inventory, queries and    *)
(* leads: the three properties of the replies.                             *)
(*                                                                         *)
(* Times(s, T) counts the entries of a sequence that are in T.  The lemmas *)
(* follow it from the sequences the evaluation builds (the schedules left  *)
(* by the filter, their entries, their order, the slots one after the      *)
(* other) to the page, and the invariant Served says that a slot whose     *)
(* goroutine ended holds the evaluation of its own placement, whichever    *)
(* goroutines ended before.                                                *)
(***************************************************************************)
EXTENDS DeliveryProofs, Recursion

-----------------------------------------------------------------------------
(* Sequences: how often they hold a member of a set *)

Times(s, T) == Cardinality({n \in DOMAIN s : s[n] \in T})

\* A sequence holds a number of members of any set.
LEMMA TimesType ==
  ASSUME NEW S, NEW s \in Seq(S), NEW T
  PROVE  /\ IsFiniteSet({n \in DOMAIN s : s[n] \in T})
         /\ Times(s, T) \in Nat
<1>1. IsFiniteSet(1..Len(s)) /\ {n \in DOMAIN s : s[n] \in T} \subseteq 1..Len(s)
  BY FS_Interval
<1>2. IsFiniteSet({n \in DOMAIN s : s[n] \in T})
  BY <1>1, FS_Subset
<1> QED BY <1>2, FS_CardinalityType DEF Times

\* Sets between which there is a bijection are of the same size.
LEMMA SameSize ==
  ASSUME NEW A, NEW B, IsFiniteSet(A), NEW f \in [A -> B],
         \A x, y \in A : f[x] = f[y] => x = y,
         \A y \in B : \E x \in A : f[x] = y
  PROVE  Cardinality(A) = Cardinality(B)
<1>1. f \in Bijection(A, B)
  BY DEF Bijection, Injection, Surjection, IsInjective
<1> QED BY <1>1, FS_Bijection DEF ExistsBijection

\* A concatenation holds what its parts hold together.
LEMMA TimesConcat ==
  ASSUME NEW S, NEW s \in Seq(S), NEW t \in Seq(S), NEW T
  PROVE  Times(s \o t, T) = Times(s, T) + Times(t, T)
<1> DEFINE N == Len(s)
           A == {n \in DOMAIN s : s[n] \in T}
           B == {n \in DOMAIN t : t[n] \in T}
           C == {n \in DOMAIN (s \o t) : (s \o t)[n] \in T}
           shift == [n \in B |-> N + n]
           D == {N + n : n \in B}
<1>1. IsFiniteSet(A) /\ IsFiniteSet(B) /\ Cardinality(A) \in Nat /\ Cardinality(B) \in Nat
  BY TimesType DEF Times
<1>2. Cardinality(B) = Cardinality(D) /\ IsFiniteSet(D)
  <2>1. shift \in [B -> D] /\ \A y \in D : \E x \in B : shift[x] = y
    OBVIOUS
  <2>2. \A x, y \in B : shift[x] = shift[y] => x = y
    OBVIOUS
  <2>3. shift \in Surjection(B, D)
    BY <2>1 DEF Surjection
  <2> HIDE DEF B, D, shift
  <2> QED BY <1>1, <2>1, <2>2, <2>3, SameSize, FS_Surjection
<1>3. C = A \cup D
  OBVIOUS
<1>4. A \cap D = {}
  OBVIOUS
<1>5. Times(s, T) = Cardinality(A) /\ Times(t, T) = Cardinality(B) /\ Times(s \o t, T) = Cardinality(C)
  BY DEF Times
<1> HIDE DEF A, B, C, D
<1>6. Cardinality(C) = Cardinality(A) + Cardinality(D) - Cardinality(A \cap D)
  BY <1>1, <1>2, <1>3, FS_Union
<1>7. Cardinality(A \cap D) = 0
  BY <1>4, FS_EmptySet
<1> QED BY <1>1, <1>2, <1>5, <1>6, <1>7

\* The empty sequence adds nothing.
LEMMA EmptyFirst ==
  ASSUME NEW S, NEW s \in Seq(S)
  PROVE  <<>> \o s = s
<1>1. Len(<<>> \o s) = Len(s) /\ \A i \in 1..Len(s) : (<<>> \o s)[i] = s[i]
  OBVIOUS
<1> QED BY <1>1

\* FlattenSeq concatenates one sequence after the other.
LEMMA FlattenRuns ==
  ASSUME NEW S, NEW ss \in Seq(Seq(S))
  PROVE  \E f \in [0..Len(ss) -> Seq(S)] :
           /\ f[0] = <<>>
           /\ \A i \in 1..Len(ss) : f[i] = f[i - 1] \o ss[i]
           /\ FlattenSeq(ss) = f[Len(ss)]
<1> DEFINE N == Len(ss)
           Q == Seq(S)
           step == [p \in (1..N) \X Q |-> p[2] \o ss[p[1]]]
           Body(g) == [i \in 1..N |-> IF i = 1 THEN ss[i] ELSE g[i - 1] \o ss[i]]
<1>1. N \in Nat /\ <<>> \in Q /\ \A i \in 1..N : ss[i] \in Seq(S)
  OBVIOUS
<1>2. step \in [(1..N) \X Q -> Q]
  BY <1>1
<1>3. PICK f \in [0..N -> Q] : IsRun(f, N, <<>>, step)
  <2> HIDE DEF N, Q, step
  <2> QED BY <1>1, <1>2, RunsUpTo
<1>4. ASSUME NEW i \in 1..N
      PROVE  f[i] = f[i - 1] \o ss[i]
  <2> HIDE DEF N, Q
  <2>1. i - 1 \in 0..N
    BY <1>1
  <2>2. <<i, f[i - 1]>> \in (1..N) \X Q
    BY <2>1
  <2> QED BY <1>3, <2>2 DEF IsRun
<1>5. f[0] = <<>>
  BY <1>3 DEF IsRun
<1>6. CASE N = 0
  <2>1. FlattenSeq(ss) = ss /\ ss = <<>>
    BY <1>6 DEF FlattenSeq
  <2> QED BY <1>3, <1>4, <1>5, <1>6, <2>1
<1>7. CASE N # 0
  <2> DEFINE g == [i \in 1..N |-> f[i]]
  <2>1. g = Body(g)
    <3>1. ASSUME NEW i \in 1..N
          PROVE  f[i] = IF i = 1 THEN ss[i] ELSE g[i - 1] \o ss[i]
      <4>1. CASE i = 1
        <5>1. f[1] = <<>> \o ss[1]
          <6>1. f[i] = f[i - 1] \o ss[i]
            BY <1>4
          <6>2. i - 1 = 0
            BY <4>1
          <6> QED BY <1>5, <4>1, <6>1, <6>2
        <5> QED BY <1>1, <4>1, <5>1, EmptyFirst
      <4>2. CASE i # 1
        <5>1. i - 1 \in 1..N
          BY <1>1, <4>2
        <5> QED BY <1>4, <4>2, <5>1
      <4> QED BY <4>1, <4>2
    <3> QED BY <3>1
  <2> DEFINE h == CHOOSE h : h = Body(h)
  <2>2. h = Body(h)
    <3> HIDE DEF Body, g
    <3> QED BY <2>1
  <2>3. FlattenSeq(ss) = h[N]
    BY <1>7 DEF FlattenSeq
  <2> HIDE DEF h
  <2> DEFINE k == [i \in 0..N |-> IF i = 0 THEN <<>> ELSE h[i]]
  <2>4. k[0] = f[0] /\ \A i \in 1..N : k[i] = h[i]
    BY <1>1, <1>5
  <2>5. ASSUME NEW i \in 1..N, k[i - 1] = f[i - 1]
        PROVE  k[i] = f[i]
    <3>1. h[i] = IF i = 1 THEN ss[i] ELSE h[i - 1] \o ss[i]
      BY <2>2
    <3>2. f[i] = f[i - 1] \o ss[i]
      BY <1>4
    <3>3. CASE i = 1
      <4>1. i - 1 = 0
        BY <3>3
      <4>2. f[i] = <<>> \o ss[i]
        BY <1>5, <3>2, <4>1
      <4> QED BY <1>1, <2>4, <3>1, <3>3, <4>2, EmptyFirst
    <3>4. CASE i # 1
      <4>1. i - 1 \in 1..N
        BY <1>1, <3>4
      <4>2. h[i - 1] = f[i - 1]
        BY <2>4, <2>5, <4>1
      <4> QED BY <2>4, <3>1, <3>2, <3>4, <4>2
    <3> QED BY <3>3, <3>4
  <2>6. k[N] = f[N]
    <3>1. \A i \in 1..N : k[i - 1] = f[i - 1] => k[i] = f[i]
      BY <2>5
    <3>2. k[0] = f[0] /\ N \in Nat
      BY <1>1, <2>4
    <3> HIDE DEF k, g, N, Q, step, Body
    <3> QED BY <3>1, <3>2, AlikeUpTo
  <2>7. h[N] = f[N]
    BY <1>1, <1>7, <2>4, <2>6
  <2> QED BY <1>3, <1>4, <1>5, <2>3, <2>7
<1> QED BY <1>6, <1>7

\* Sift takes one element after the other.
LEMMA SiftRuns ==
  ASSUME NEW S, NEW s \in Seq(S), NEW kept \in SUBSET DOMAIN s
  PROVE  \E f \in [0..Len(s) -> Seq(S)] :
           /\ f[0] = <<>>
           /\ \A i \in 1..Len(s) : /\ i \in kept => f[i] = Append(f[i - 1], s[i])
                                   /\ i \notin kept => f[i] = f[i - 1]
           /\ Sift(s, kept) = f[Len(s)]
<1> DEFINE N == Len(s)
           Q == Seq(S)
           step == [p \in (1..N) \X Q |-> IF p[1] \in kept THEN Append(p[2], s[p[1]]) ELSE p[2]]
           Body(g) == [i \in 0..N |-> IF i = 0 THEN <<>>
                                      ELSE IF i \in kept THEN Append(g[i - 1], s[i]) ELSE g[i - 1]]
<1>1. N \in Nat /\ <<>> \in Q /\ \A i \in 1..N : s[i] \in S
  OBVIOUS
<1>2. step \in [(1..N) \X Q -> Q]
  BY <1>1
<1>3. PICK f \in [0..N -> Q] : IsRun(f, N, <<>>, step)
  <2> HIDE DEF N, Q, step
  <2> QED BY <1>1, <1>2, RunsUpTo
<1>4. ASSUME NEW i \in 1..N
      PROVE  f[i] = IF i \in kept THEN Append(f[i - 1], s[i]) ELSE f[i - 1]
  <2> HIDE DEF N, Q
  <2>1. i - 1 \in 0..N
    BY <1>1
  <2>2. <<i, f[i - 1]>> \in (1..N) \X Q
    BY <2>1
  <2> QED BY <1>3, <2>2 DEF IsRun
<1>5. f[0] = <<>>
  BY <1>3 DEF IsRun
<1> DEFINE h == CHOOSE h : h = Body(h)
<1>6. h = Body(h)
  <2>1. f = Body(f)
    <3> HIDE DEF N, Q
    <3>1. \A i \in 0..N : i # 0 => i \in 1..N
      BY <1>1
    <3> QED BY <1>3, <1>4, <1>5, <3>1
  <2> HIDE DEF Body
  <2> QED BY <2>1
<1>7. Sift(s, kept) = h[N]
  BY DEF Sift
<1> HIDE DEF h
<1>8. h[0] = <<>> /\ \A i \in 1..N : h[i] = IF i \in kept THEN Append(h[i - 1], s[i]) ELSE h[i - 1]
  <2> HIDE DEF N
  <2>1. 0 \in 0..N /\ \A i \in 1..N : i \in 0..N /\ i # 0
    BY <1>1
  <2> QED BY <1>6, <2>1
<1>9. h[N] = f[N]
  <2> HIDE DEF N
  <2>1. \A i \in 1..N : h[i - 1] = f[i - 1] => h[i] = f[i]
    BY <1>4, <1>8
  <2>2. h[0] = f[0]
    BY <1>5, <1>8
  <2> QED BY <1>1, <2>1, <2>2, AlikeUpTo
<1> QED BY <1>3, <1>4, <1>5, <1>7, <1>9

\* Nothing is held by the empty sequence.
LEMMA TimesEmpty == \A T : Times(<<>>, T) = 0
<1>1. \A T : {n \in DOMAIN <<>> : <<>>[n] \in T} = {}
  OBVIOUS
<1> QED BY <1>1, FS_EmptySet DEF Times

\* One more entry counts if it is in the set.
LEMMA TimesAppend ==
  ASSUME NEW S, NEW s \in Seq(S), NEW e \in S, NEW T
  PROVE  Times(Append(s, e), T) = IF e \in T THEN Times(s, T) + 1 ELSE Times(s, T)
<1> DEFINE A == {n \in DOMAIN s : s[n] \in T}
           B == {n \in DOMAIN Append(s, e) : Append(s, e)[n] \in T}
           N == Len(s) + 1
<1>1. IsFiniteSet(A) /\ Times(s, T) = Cardinality(A) /\ Times(Append(s, e), T) = Cardinality(B)
  BY TimesType DEF Times
<1>2. N \notin A
  OBVIOUS
<1>3. B = IF e \in T THEN A \cup {N} ELSE A
  OBVIOUS
<1> HIDE DEF A, B, N
<1> QED BY <1>1, <1>2, <1>3, FS_AddElement

\* Sift keeps the members of a set as often as they are at the kept positions.
LEMMA SiftTimes ==
  ASSUME NEW S, NEW s \in Seq(S), NEW kept \in SUBSET DOMAIN s, NEW T
  PROVE  /\ Sift(s, kept) \in Seq(S)
         /\ Times(Sift(s, kept), T) = Cardinality({k \in kept : s[k] \in T})
<1> DEFINE N == Len(s)
           upTo(i) == {k \in 1..i : k \in kept /\ s[k] \in T}
           Good(f) == {i \in 0..N : Times(f[i], T) = Cardinality(upTo(i))}
<1>1. PICK f \in [0..N -> Seq(S)] :
        /\ f[0] = <<>>
        /\ \A i \in 1..N : /\ i \in kept => f[i] = Append(f[i - 1], s[i])
                           /\ i \notin kept => f[i] = f[i - 1]
        /\ Sift(s, kept) = f[N]
  <2> HIDE DEF N, upTo, Good
  <2> QED BY SiftRuns DEF N
<1>2. N \in Nat /\ \A i \in 1..N : s[i] \in S
  OBVIOUS
<1>3. 0 \in Good(f)
  <2>1. upTo(0) = {}
    OBVIOUS
  <2>2. Times(f[0], T) = Cardinality(upTo(0))
    <3> HIDE DEF upTo
    <3> QED BY <1>1, <2>1, TimesEmpty, FS_EmptySet
  <2> QED BY <1>2, <2>2
<1>4. ASSUME NEW i \in 0..N, i \in Good(f), i < N
      PROVE  i + 1 \in Good(f)
  <2>1. i + 1 \in 1..N /\ i + 1 \in 0..N /\ (i + 1) - 1 = i
    BY <1>2, <1>4
  <2>2. upTo(i + 1) = IF i + 1 \in kept /\ s[i + 1] \in T THEN upTo(i) \cup {i + 1} ELSE upTo(i)
    BY <1>2, <1>4
  <2>3. IsFiniteSet(upTo(i)) /\ i + 1 \notin upTo(i)
    <3>1. upTo(i) \subseteq 1..i /\ i + 1 \notin upTo(i) /\ i \in Int
      BY <1>2
    <3> HIDE DEF upTo
    <3>2. IsFiniteSet(1..i)
      BY <3>1, FS_Interval
    <3> QED BY <3>1, <3>2, FS_Subset
  <2>4. Cardinality(upTo(i + 1)) = IF i + 1 \in kept /\ s[i + 1] \in T
                                  THEN Cardinality(upTo(i)) + 1 ELSE Cardinality(upTo(i))
    <3> HIDE DEF upTo
    <3> QED BY <2>2, <2>3, FS_AddElement
  <2>5. f[i + 1] = IF i + 1 \in kept THEN Append(f[i], s[i + 1]) ELSE f[i]
    BY <1>1, <2>1
  <2>6. f[i] \in Seq(S) /\ s[i + 1] \in S /\ Times(f[i], T) = Cardinality(upTo(i))
    BY <1>1, <1>2, <1>4, <2>1
  <2>7. Times(f[i + 1], T) = Cardinality(upTo(i + 1))
    <3> HIDE DEF upTo
    <3> QED BY <2>4, <2>5, <2>6, TimesAppend
  <2> QED BY <2>1, <2>7
<1>5. N \in Good(f)
  <2>1. 0..N \subseteq Good(f)
    <3> HIDE DEF Good, N
    <3> QED BY <1>2, <1>3, <1>4, IntervalInd
  <2> QED BY <1>2, <2>1
<1>6. f[N] \in Seq(S)
  BY <1>1, <1>2
<1>7. upTo(N) = {k \in kept : s[k] \in T}
  OBVIOUS
<1> QED BY <1>1, <1>5, <1>6, <1>7

\* Sequences some of which hold c members of a set, and the others none.
Shares(ss, T, K, c) == \A i \in DOMAIN ss : Times(ss[i], T) = IF i \in K THEN c ELSE 0

\* What their concatenation holds.
LEMMA FlattenTimes ==
  ASSUME NEW S, NEW ss \in Seq(Seq(S)), NEW T, NEW K \in SUBSET DOMAIN ss, NEW c \in Nat,
         Shares(ss, T, K, c)
  PROVE  Times(FlattenSeq(ss), T) = Cardinality(K) * c
<1> DEFINE N == Len(ss)
           upTo(i) == {k \in 1..i : k \in K}
           Good(f) == {i \in 0..N : Times(f[i], T) = Cardinality(upTo(i)) * c}
<1>1. PICK f \in [0..N -> Seq(S)] :
        /\ f[0] = <<>>
        /\ \A i \in 1..N : f[i] = f[i - 1] \o ss[i]
        /\ FlattenSeq(ss) = f[N]
  BY FlattenRuns
<1>2. N \in Nat /\ DOMAIN ss = 1..N /\ \A i \in 1..N : ss[i] \in Seq(S)
  OBVIOUS
<1>3. 0 \in Good(f)
  <2>1. upTo(0) = {}
    OBVIOUS
  <2>2. Times(f[0], T) = Cardinality(upTo(0)) * c
    <3> HIDE DEF upTo
    <3>1. Cardinality(upTo(0)) = 0 /\ Times(f[0], T) = 0
      BY <1>1, <2>1, TimesEmpty, FS_EmptySet
    <3> QED BY <3>1
  <2> QED BY <1>2, <2>2
<1>4. ASSUME NEW i \in 0..N, i \in Good(f), i < N
      PROVE  i + 1 \in Good(f)
  <2>1. i + 1 \in 1..N /\ i + 1 \in 0..N /\ (i + 1) - 1 = i
    BY <1>2, <1>4
  <2>2. upTo(i + 1) = IF i + 1 \in K THEN upTo(i) \cup {i + 1} ELSE upTo(i)
    BY <1>2, <1>4
  <2>3. IsFiniteSet(upTo(i)) /\ i + 1 \notin upTo(i)
    <3>1. upTo(i) \subseteq 1..i /\ i + 1 \notin upTo(i) /\ i \in Int
      BY <1>2
    <3> HIDE DEF upTo
    <3>2. IsFiniteSet(1..i)
      BY <3>1, FS_Interval
    <3> QED BY <3>1, <3>2, FS_Subset
  <2>4. /\ Cardinality(upTo(i)) \in Nat
        /\ Cardinality(upTo(i + 1)) = IF i + 1 \in K THEN Cardinality(upTo(i)) + 1 ELSE Cardinality(upTo(i))
    <3> HIDE DEF upTo
    <3>1. Cardinality(upTo(i)) \in Nat
      BY <2>3, FS_CardinalityType
    <3>2. Cardinality(upTo(i) \cup {i + 1}) = Cardinality(upTo(i)) + 1
      BY <2>3, FS_AddElement
    <3> QED BY <2>2, <3>1, <3>2
  <2>5. f[i + 1] = f[i] \o ss[i + 1]
    BY <1>1, <2>1
  <2>6. f[i] \in Seq(S) /\ ss[i + 1] \in Seq(S) /\ Times(f[i], T) = Cardinality(upTo(i)) * c
    BY <1>1, <1>2, <1>4, <2>1
  <2>7. Times(f[i + 1], T) = Cardinality(upTo(i)) * c + (IF i + 1 \in K THEN c ELSE 0)
    <3>1. Times(f[i + 1], T) = Times(f[i], T) + Times(ss[i + 1], T)
      BY <2>5, <2>6, TimesConcat
    <3> QED BY <1>2, <2>1, <2>6, <3>1 DEF Shares
  <2>8. \A x \in Nat : (x + 1) * c = x * c + c /\ x * c + 0 = x * c
    OBVIOUS
  <2>9. Times(f[i + 1], T) = Cardinality(upTo(i + 1)) * c
    <3> HIDE DEF upTo
    <3> QED BY <2>4, <2>7, <2>8
  <2> QED BY <2>1, <2>9
<1>5. N \in Good(f)
  <2>1. 0..N \subseteq Good(f)
    <3> HIDE DEF Good, N
    <3> QED BY <1>2, <1>3, <1>4, IntervalInd
  <2>2. N \in 0..N
    BY <1>2
  <2> HIDE DEF Good
  <2> QED BY <2>1, <2>2
<1>6. upTo(N) = K
  BY <1>2
<1> QED BY <1>1, <1>5, <1>6

\* A sequence is as long as the number of members it has of a set that has all.
LEMMA TimesAll ==
  ASSUME NEW S, NEW s \in Seq(S)
  PROVE  Times(s, S) = Len(s)
<1>1. {n \in DOMAIN s : s[n] \in S} = 1..Len(s) /\ Len(s) \in Nat
  OBVIOUS
<1>2. Cardinality(1..Len(s)) = IF 1 > Len(s) THEN 0 ELSE Len(s) - 1 + 1
  BY <1>1, FS_Interval
<1>3. Times(s, S) = Cardinality(1..Len(s))
  BY <1>1 DEF Times
<1> QED BY <1>1, <1>2, <1>3

\* A sequence that holds no member of a set has none at any position.
LEMMA TimesNone ==
  ASSUME NEW S, NEW s \in Seq(S), NEW T, Times(s, T) = 0
  PROVE  \A n \in DOMAIN s : s[n] \notin T
<1> DEFINE A == {n \in DOMAIN s : s[n] \in T}
<1>1. IsFiniteSet(A) /\ Cardinality(A) = 0
  BY TimesType DEF Times
<1>2. A = {}
  <2> HIDE DEF A
  <2> QED BY <1>1, FS_EmptySet
<1> QED BY <1>2

\* Sift leaves what is at the kept positions, and all of it.
LEMMA Sifted ==
  ASSUME NEW S, NEW s \in Seq(S), NEW kept \in SUBSET DOMAIN s
  PROVE  /\ Sift(s, kept) \in Seq({s[k] : k \in kept})
         /\ Len(Sift(s, kept)) = Cardinality(kept)
<1> DEFINE R == {s[k] : k \in kept}
           o == Sift(s, kept)
<1>1. o \in Seq(S) /\ R \subseteq S
  <2>1. Sift(s, kept) \in Seq(S) /\ Times(Sift(s, kept), S) = Cardinality({k \in kept : s[k] \in S})
    BY SiftTimes
  <2> QED BY <2>1
<1>2. Times(o, S \ R) = 0
  <2>1. Times(o, S \ R) = Cardinality({k \in kept : s[k] \in S \ R})
    BY SiftTimes
  <2>2. {k \in kept : s[k] \in S \ R} = {}
    OBVIOUS
  <2> QED BY <2>1, <2>2, FS_EmptySet
<1>3. \A n \in DOMAIN o : o[n] \notin S \ R
  <2> HIDE DEF o, R
  <2> QED BY <1>1, <1>2, TimesNone
<1>4. o \in Seq(R)
  <2> HIDE DEF o, R
  <2> QED BY <1>1, <1>3
<1>5. Len(o) = Cardinality(kept)
  <2>1. Times(o, S) = Cardinality({k \in kept : s[k] \in S})
    BY SiftTimes
  <2>2. {k \in kept : s[k] \in S} = kept
    OBVIOUS
  <2>3. Times(o, S) = Len(o)
    <3> HIDE DEF o
    <3> QED BY <1>1, TimesAll
  <2> QED BY <2>1, <2>2, <2>3
<1> QED BY <1>4, <1>5

\* A concatenation of sequences over a set is one.
LEMMA FlattenType ==
  ASSUME NEW S, NEW ss \in Seq(Seq(S))
  PROVE  FlattenSeq(ss) \in Seq(S)
<1>1. PICK f \in [0..Len(ss) -> Seq(S)] : FlattenSeq(ss) = f[Len(ss)]
  BY FlattenRuns
<1> QED BY <1>1

\* A concatenation is in order if its parts are, and each part precedes the next.
LEMMA FlattenOrdered ==
  ASSUME NEW S, NEW ss \in Seq(Seq(S)), NEW R,
         \A i \in DOMAIN ss : \A m, n \in DOMAIN ss[i] : m < n => <<ss[i][m], ss[i][n]>> \in R,
         \A i, j \in DOMAIN ss : i < j =>
           \A m \in DOMAIN ss[i] : \A n \in DOMAIN ss[j] : <<ss[i][m], ss[j][n]>> \in R
  PROVE  \A m, n \in DOMAIN FlattenSeq(ss) : m < n => <<FlattenSeq(ss)[m], FlattenSeq(ss)[n]>> \in R
<1> DEFINE N == Len(ss)
           From(g, i) == \A n \in DOMAIN g : \E j \in 1..i : \E m \in DOMAIN ss[j] : g[n] = ss[j][m]
           InOrder(g) == \A m, n \in DOMAIN g : m < n => <<g[m], g[n]>> \in R
           Good(f) == {i \in 0..N : From(f[i], i) /\ InOrder(f[i])}
<1>1. PICK f \in [0..N -> Seq(S)] :
        /\ f[0] = <<>>
        /\ \A i \in 1..N : f[i] = f[i - 1] \o ss[i]
        /\ FlattenSeq(ss) = f[N]
  BY FlattenRuns
<1>2. N \in Nat /\ DOMAIN ss = 1..N /\ \A i \in 1..N : ss[i] \in Seq(S)
  OBVIOUS
<1>3. 0 \in Good(f)
  BY <1>1, <1>2
<1>4. ASSUME NEW i \in 0..N, i \in Good(f), i < N
      PROVE  i + 1 \in Good(f)
  <2>1. i + 1 \in 1..N /\ i + 1 \in 0..N /\ (i + 1) - 1 = i /\ i \in Nat
    <3> HIDE DEF Good
    <3> QED BY <1>2, <1>4
  <2> DEFINE g == f[i]
             t == ss[i + 1]
             h == f[i + 1]
  <2>2. h = g \o t /\ g \in Seq(S) /\ t \in Seq(S) /\ From(g, i) /\ InOrder(g)
    BY <1>1, <1>2, <1>4, <2>1
  <2>3. ASSUME NEW n \in DOMAIN g
        PROVE  \E j \in 1..i : \E m \in DOMAIN ss[j] : g[n] = ss[j][m]
    BY <2>2
  <2>4. \A m, n \in DOMAIN t : m < n => <<t[m], t[n]>> \in R
    BY <1>2, <2>1
  <2>5. \A m \in DOMAIN g : \A n \in DOMAIN t : <<g[m], t[n]>> \in R
    <3> SUFFICES ASSUME NEW m \in DOMAIN g, NEW n \in DOMAIN t
                 PROVE  <<g[m], t[n]>> \in R
      OBVIOUS
    <3>1. PICK j \in 1..i : \E k \in DOMAIN ss[j] : g[m] = ss[j][k]
      BY <2>3
    <3>2. PICK k \in DOMAIN ss[j] : g[m] = ss[j][k]
      BY <3>1
    <3>3. j \in DOMAIN ss /\ i + 1 \in DOMAIN ss /\ j < i + 1
      BY <1>2, <2>1
    <3> QED BY <3>2, <3>3
  <2> HIDE DEF g, t, h
  <2>6. /\ DOMAIN h = 1..(Len(g) + Len(t)) /\ Len(g) \in Nat /\ Len(t) \in Nat
        /\ DOMAIN g = 1..Len(g) /\ DOMAIN t = 1..Len(t)
        /\ \A n \in 1..Len(g) : h[n] = g[n]
        /\ \A n \in (Len(g) + 1)..(Len(g) + Len(t)) : h[n] = t[n - Len(g)] /\ n - Len(g) \in 1..Len(t)
    BY <2>2
  <2>7. From(h, i + 1)
    <3> SUFFICES ASSUME NEW n \in DOMAIN h
                 PROVE  \E j \in 1..(i + 1) : \E m \in DOMAIN ss[j] : h[n] = ss[j][m]
      OBVIOUS
    <3>1. CASE n \in 1..Len(g)
      <4>1. PICK j \in 1..i : \E m \in DOMAIN ss[j] : g[n] = ss[j][m]
        BY <2>3, <2>6, <3>1
      <4>2. j \in 1..(i + 1)
        BY <2>1
      <4> QED BY <2>6, <3>1, <4>1, <4>2
    <3>2. CASE n \notin 1..Len(g)
      <4>1. n \in (Len(g) + 1)..(Len(g) + Len(t))
        BY <2>6, <3>2
      <4>2. h[n] = t[n - Len(g)] /\ n - Len(g) \in DOMAIN t
        BY <2>6, <4>1
      <4>3. i + 1 \in 1..(i + 1)
        BY <2>1
      <4> QED BY <4>2, <4>3 DEF t
    <3> QED BY <3>1, <3>2
  <2>8. InOrder(h)
    <3> SUFFICES ASSUME NEW m \in DOMAIN h, NEW n \in DOMAIN h, m < n
                 PROVE  <<h[m], h[n]>> \in R
      OBVIOUS
    <3>1. CASE n \in 1..Len(g)
      <4>1. m \in 1..Len(g)
        BY <2>6, <3>1
      <4> QED BY <2>2, <2>6, <3>1, <4>1
    <3>2. CASE n \notin 1..Len(g) /\ m \in 1..Len(g)
      <4>1. n \in (Len(g) + 1)..(Len(g) + Len(t))
        BY <2>6, <3>2
      <4> QED BY <2>5, <2>6, <3>2, <4>1
    <3>3. CASE m \notin 1..Len(g)
      <4> DEFINE a == m - Len(g)
                 b == n - Len(g)
      <4>1. m \in (Len(g) + 1)..(Len(g) + Len(t)) /\ n \in (Len(g) + 1)..(Len(g) + Len(t))
        BY <2>6, <3>3
      <4>2. a \in DOMAIN t /\ b \in DOMAIN t /\ h[m] = t[a] /\ h[n] = t[b]
        BY <2>6, <4>1
      <4>3. a < b
        BY <2>6, <4>1
      <4> HIDE DEF a, b
      <4> QED BY <2>4, <4>2, <4>3
    <3> QED BY <3>1, <3>2, <3>3
  <2> QED BY <2>1, <2>7, <2>8 DEF h
<1>5. N \in Good(f)
  <2>1. 0..N \subseteq Good(f)
    <3> HIDE DEF Good, N
    <3> QED BY <1>2, <1>3, <1>4, IntervalInd
  <2>2. N \in 0..N
    BY <1>2
  <2> HIDE DEF Good
  <2> QED BY <2>1, <2>2
<1> QED BY <1>1, <1>5

-----------------------------------------------------------------------------
(* Ranking *)

\* Ranking loses and adds nothing, and ranks by falling score.
LEMMA Ranked ==
  ASSUME NEW S, NEW entries \in Seq(S), NEW o \in Rank(entries)
  PROVE  /\ o \in Seq(S)
         /\ \A T : Times(o, T) = Times(entries, T)
         /\ (\A e \in S : e.score \in Int) =>
              \A m, n \in DOMAIN o : m < n => o[m].score >= o[n].score
<1> DEFINE D == DOMAIN entries
<1>1. PICK p \in Bijection(D, D) : o = [n \in D |-> entries[p[n]]]
  BY DEF Rank
<1>2. /\ p \in [D -> D]
      /\ \A x, y \in D : p[x] = p[y] => x = y
      /\ \A y \in D : \E x \in D : p[x] = y
  BY DEF Bijection, Injection, Surjection, IsInjective
<1>3. D = 1..Len(entries) /\ Len(entries) \in Nat /\ \A n \in D : entries[n] \in S
  OBVIOUS
<1>4. o \in Seq(S) /\ DOMAIN o = D /\ Len(o) = Len(entries) /\ \A n \in D : o[n] = entries[p[n]]
  <2> HIDE DEF D
  <2> QED BY <1>1, <1>2, <1>3
<1>5. ASSUME NEW T
      PROVE  Times(o, T) = Times(entries, T)
  <2> DEFINE A == {n \in DOMAIN o : o[n] \in T}
             B == {n \in DOMAIN entries : entries[n] \in T}
             f == [n \in A |-> p[n]]
  <2>1. IsFiniteSet(A)
    BY <1>4, TimesType
  <2>2. f \in [A -> B] /\ \A x, y \in A : f[x] = f[y] => x = y
    BY <1>2, <1>4
  <2>3. ASSUME NEW y \in B
        PROVE  \E x \in A : f[x] = y
    <3>1. PICK x \in D : p[x] = y
      BY <1>2
    <3>2. x \in A
      BY <1>4, <3>1
    <3> QED BY <3>1, <3>2
  <2>4. Cardinality(A) = Cardinality(B)
    <3> HIDE DEF A, B, f
    <3> QED BY <2>1, <2>2, <2>3, SameSize
  <2> QED BY <2>4 DEF Times
<1>6. ASSUME \A e \in S : e.score \in Int
      PROVE  \A m, n \in DOMAIN o : m < n => o[m].score >= o[n].score
  <2>1. \A n \in DOMAIN o : o[n].score \in Int /\ o[n].score # NaN
    BY <1>4, <1>6, DeliveryAssumption
  <2>2. \A n \in 1..(Len(o) - 1) : o[n].score >= o[n + 1].score
    <3> SUFFICES ASSUME NEW n \in 1..(Len(o) - 1)
                 PROVE  o[n].score >= o[n + 1].score
      OBVIOUS
    <3>1. n \in DOMAIN o /\ n + 1 \in DOMAIN o
      BY <1>3, <1>4
    <3>2. \A k \in D : entries[k].score # NaN
      BY <1>3, <1>6, DeliveryAssumption
    <3>3. ~Beats(o[n + 1], o[n])
      BY <3>2 DEF Rank
    <3> QED BY <2>1, <3>1, <3>3 DEF Beats
  <2> SUFFICES ASSUME NEW m \in DOMAIN o, NEW n \in DOMAIN o, m < n
               PROVE  o[m].score >= o[n].score
    OBVIOUS
  <2> DEFINE K == n - m
             T == {k \in 0..K : o[m].score >= o[m + k].score}
  <2>3. K \in Nat /\ m + K = n /\ m \in Nat /\ n \in Nat /\ m >= 1 /\ n <= Len(o)
    BY <1>3, <1>4
  <2>4. 0 \in T
    BY <2>1, <2>3
  <2>5. ASSUME NEW k \in 0..K, k \in T, k < K
        PROVE  k + 1 \in T
    <3>1. m + k \in 1..(Len(o) - 1) /\ m + (k + 1) = (m + k) + 1 /\ k + 1 \in 0..K
      BY <1>3, <1>4, <2>3, <2>5
    <3>2. m + k \in DOMAIN o /\ (m + k) + 1 \in DOMAIN o
      BY <1>3, <1>4, <3>1
    <3>3. o[m + k].score >= o[(m + k) + 1].score /\ o[m].score >= o[m + k].score
      BY <2>2, <2>5, <3>1
    <3>4. o[m].score >= o[(m + k) + 1].score
      BY <2>1, <3>2, <3>3
    <3> QED BY <3>1, <3>4
  <2>6. K \in T
    <3>1. 0..K \subseteq T
      <4> HIDE DEF K, T
      <4> QED BY <2>3, <2>4, <2>5, IntervalInd
    <3> QED BY <2>3, <3>1
  <2> QED BY <2>3, <2>6
<1> QED BY <1>4, <1>5, <1>6

-----------------------------------------------------------------------------
(* What the evaluation of a placement reads *)

\* The leads of an answer for a placement, and the variations that pass.
Matching(offered, name) == {n \in DOMAIN offered : name \in offered[n].placements}
Ways(sched) == IF sched.variations = <<>> THEN <<sched.bare>> ELSE sched.variations
Passed(q, sched) == {v \in DOMAIN Ways(sched) : q.attrs \in Ways(sched)[v]}

\* What an entry of a schedule, and what its offer for a placement, may be.
Entry(offered, name, sched) ==
  [rule : {sched.id},
   content : IF sched.type = "SALES_TARGET" THEN {offered[n].content : n \in Matching(offered, name)}
             ELSE {sched.id},
   score : {sched.score} \cup ({offered[n].score : n \in DOMAIN offered} \ {Blank})]

Offer(q, offered, i, sched) ==
  [rule : {sched.id},
   content : IF sched.type = "SALES_TARGET" THEN {offered[n].content : n \in Matching(offered, q.names[i])}
             ELSE {sched.id},
   score : {sched.score} \cup ({offered[n].score : n \in DOMAIN offered} \ {Blank}),
   source : {q.names[i]}, at : {i}]

PerCopy(q, offered, name, sched) ==
  Cardinality(Passed(q, sched)) * (IF sched.type = "SALES_TARGET" THEN Cardinality(Matching(offered, name)) ELSE 1)

\* The number of variations that pass.
LEMMA PassedFinite ==
  ASSUME NEW q, NEW name \in DOMAIN Inventory, NEW sched \in Range(Inventory[name])
  PROVE  Cardinality(Passed(q, sched)) \in Nat
<1>1. sched.variations \in Seq(Range(sched.variations))
  BY DeliveryAssumption
<1>2. Ways(sched) \in Seq(Range(sched.variations) \cup {sched.bare})
  <2>1. <<sched.bare>> \in Seq(Range(sched.variations) \cup {sched.bare})
    OBVIOUS
  <2>2. sched.variations \in Seq(Range(sched.variations) \cup {sched.bare})
    BY <1>1
  <2> QED BY <2>1, <2>2 DEF Ways
<1>3. Len(Ways(sched)) \in Nat /\ DOMAIN Ways(sched) = 1..Len(Ways(sched))
  BY <1>2
<1>4. IsFiniteSet(1..Len(Ways(sched))) /\ Passed(q, sched) \subseteq 1..Len(Ways(sched))
  BY <1>3, FS_Interval DEF Passed
<1>5. IsFiniteSet(Passed(q, sched))
  BY <1>4, FS_Subset
<1> QED BY <1>5, FS_CardinalityType

\* The number of leads for a placement.
LEMMA MatchingFinite ==
  ASSUME NEW L, NEW offered \in Seq(L), NEW name
  PROVE  Cardinality(Matching(offered, name)) \in Nat
<1>1. IsFiniteSet(1..Len(offered)) /\ Matching(offered, name) \subseteq 1..Len(offered)
  BY FS_Interval DEF Matching
<1>2. IsFiniteSet(Matching(offered, name))
  BY <1>1, FS_Subset
<1> QED BY <1>2, FS_CardinalityType

\* One entry per variation that passes.
LEMMA EntriesRead ==
  ASSUME NEW q, NEW name \in DOMAIN Inventory, NEW sched \in Range(Inventory[name])
  PROVE  /\ Entries(sched, q) \in Seq({[rule |-> sched.id, content |-> sched.id, score |-> sched.score]})
         /\ Len(Entries(sched, q)) = Cardinality(Passed(q, sched))
<1>1. Entries(sched, q) = [n \in 1..Cardinality(Passed(q, sched)) |->
                            [rule |-> sched.id, content |-> sched.id, score |-> sched.score]]
  BY DEF Entries, Passed, Ways
<1> QED BY <1>1, PassedFinite

\* One offer per lead of the placement.
LEMMA LeadsRead ==
  ASSUME NEW L, NEW offered \in Seq(L), NEW name \in DOMAIN Inventory, NEW sched \in Range(Inventory[name]),
         sched.type = "SALES_TARGET"
  PROVE  LET entry == [rule |-> sched.id, content |-> sched.id, score |-> sched.score]
         IN  /\ ExpandWithLeads(entry, offered, name) \in Seq(Entry(offered, name, sched))
             /\ Len(ExpandWithLeads(entry, offered, name)) = Cardinality(Matching(offered, name))
<1> DEFINE entry == [rule |-> sched.id, content |-> sched.id, score |-> sched.score]
           kept == Matching(offered, name)
           m == Sift(offered, kept)
           R == {offered[k] : k \in kept}
           offer(n) == [entry EXCEPT !.content = m[n].content,
                          !.score = IF m[n].score = Blank THEN @ ELSE m[n].score]
<1>1. kept \in SUBSET DOMAIN offered
  BY DEF Matching
<1>2. m \in Seq(R) /\ Len(m) = Cardinality(kept)
  <2> HIDE DEF kept
  <2> QED BY <1>1, Sifted
<1>3. ExpandWithLeads(entry, offered, name) = [n \in DOMAIN m |-> offer(n)]
  BY DEF ExpandWithLeads, Matching
<1>4. ASSUME NEW n \in DOMAIN m
      PROVE  offer(n) \in Entry(offered, name, sched)
  <2>1. m[n] \in R
    <3> HIDE DEF m, R
    <3> QED BY <1>2
  <2>2. PICK k \in kept : m[n] = offered[k]
    BY <2>1
  <2>3. k \in DOMAIN offered /\ k \in Matching(offered, name)
    BY <1>1
  <2> HIDE DEF m, kept
  <2> QED BY <2>2, <2>3 DEF Entry
<1>5. Len(m) \in Nat /\ DOMAIN m = 1..Len(m) /\ Len(m) = Cardinality(Matching(offered, name))
  BY <1>2
<1> HIDE DEF m, R, kept
<1>6. /\ ExpandWithLeads(entry, offered, name) \in Seq(Entry(offered, name, sched))
      /\ Len(ExpandWithLeads(entry, offered, name)) = Len(m)
  <2> HIDE DEF entry, offer
  <2> QED BY <1>3, <1>4, <1>5
<1> QED BY <1>5, <1>6

\* A concatenation of equally long sequences.
LEMMA FlattenLength ==
  ASSUME NEW S, NEW ss \in Seq(Seq(S)), NEW c \in Nat, \A i \in DOMAIN ss : Len(ss[i]) = c
  PROVE  /\ FlattenSeq(ss) \in Seq(S)
         /\ Len(FlattenSeq(ss)) = Len(ss) * c
<1>1. FlattenSeq(ss) \in Seq(S)
  BY FlattenType
<1>2. \A i \in DOMAIN ss : ss[i] \in Seq(S) /\ Times(ss[i], S) = c
  BY TimesAll
<1>3. Times(FlattenSeq(ss), S) = Cardinality(DOMAIN ss) * c
  <2> DEFINE K == DOMAIN ss
  <2>1. K \in SUBSET DOMAIN ss /\ Shares(ss, S, K, c)
    BY <1>2 DEF Shares
  <2> HIDE DEF K
  <2>2. Times(FlattenSeq(ss), S) = Cardinality(K) * c
    BY <2>1, FlattenTimes
  <2> QED BY <2>2 DEF K
<1>4. Cardinality(DOMAIN ss) = Len(ss)
  <2>1. DOMAIN ss = 1..Len(ss) /\ Len(ss) \in Nat
    OBVIOUS
  <2>2. Cardinality(1..Len(ss)) = IF 1 > Len(ss) THEN 0 ELSE Len(ss) - 1 + 1
    BY <2>1, FS_Interval
  <2> QED BY <2>1, <2>2
<1>5. Times(FlattenSeq(ss), S) = Len(FlattenSeq(ss))
  BY <1>1, TimesAll
<1> QED BY <1>1, <1>3, <1>4, <1>5

\* The entries of a schedule for a placement.
LEMMA OffersRead ==
  ASSUME NEW L, NEW offered \in Seq(L), NEW q, NEW i, q.names[i] \in DOMAIN Inventory,
         NEW sched \in Range(Inventory[q.names[i]])
  PROVE  /\ Offers(q, offered, i, sched) \in Seq(Offer(q, offered, i, sched))
         /\ PerCopy(q, offered, q.names[i], sched) \in Nat
         /\ Len(Offers(q, offered, i, sched)) = PerCopy(q, offered, q.names[i], sched)
<1> DEFINE name == q.names[i]
           entry == [rule |-> sched.id, content |-> sched.id, score |-> sched.score]
           own == Entries(sched, q)
           sales == FlattenSeq([n \in DOMAIN own |-> ExpandWithLeads(own[n], offered, name)])
           all == IF sched.type # "SALES_TARGET" THEN own ELSE sales
           p == Cardinality(Passed(q, sched))
           c == Cardinality(Matching(offered, name))
           E == Entry(offered, name, sched)
<1>1. own \in Seq({entry}) /\ Len(own) = p /\ p \in Nat /\ c \in Nat
  BY EntriesRead, PassedFinite, MatchingFinite
<1>2. PerCopy(q, offered, name, sched) = p * (IF sched.type = "SALES_TARGET" THEN c ELSE 1)
  BY DEF PerCopy
<1>3. PerCopy(q, offered, name, sched) \in Nat
  <2>1. p * c \in Nat /\ p * 1 = p
    BY <1>1
  <2> HIDE DEF p, c
  <2> QED BY <1>1, <1>2, <2>1
<1>4. all \in Seq(E) /\ Len(all) = PerCopy(q, offered, name, sched)
  <2>1. CASE sched.type # "SALES_TARGET"
    <3>1. entry \in E
      BY <2>1 DEF Entry
    <3>2. own \in Seq(E) /\ Len(own) = p
      <4> HIDE DEF own, E, entry, p
      <4> QED BY <1>1, <3>1
    <3> HIDE DEF own, E, p, c, sales, entry
    <3> QED BY <1>1, <1>2, <2>1, <3>2
  <2>2. CASE sched.type = "SALES_TARGET"
    <3> DEFINE ss == [n \in DOMAIN own |-> ExpandWithLeads(own[n], offered, name)]
    <3>1. ExpandWithLeads(entry, offered, name) \in Seq(E) /\ Len(ExpandWithLeads(entry, offered, name)) = c
      BY <2>2, LeadsRead
    <3>2. ss \in Seq(Seq(E)) /\ Len(ss) = p /\ \A n \in DOMAIN ss : Len(ss[n]) = c
      <4> HIDE DEF own, E, entry, p, c
      <4> QED BY <1>1, <3>1
    <3>3. FlattenSeq(ss) \in Seq(E) /\ Len(FlattenSeq(ss)) = p * c
      <4> HIDE DEF ss, E, p, c
      <4> QED BY <1>1, <3>2, FlattenLength
    <3>4. all = FlattenSeq(ss)
      BY <2>2
    <3> HIDE DEF all, ss, E, p, c
    <3> QED BY <1>2, <2>2, <3>3, <3>4
  <2> QED BY <2>1, <2>2
<1> DEFINE stamped(n) == [rule |-> all[n].rule, content |-> all[n].content, score |-> all[n].score,
                          source |-> name, at |-> i]
<1>5. Offers(q, offered, i, sched) = [n \in DOMAIN all |-> stamped(n)]
  BY DEF Offers
<1>6. ASSUME NEW n \in DOMAIN all
      PROVE  stamped(n) \in Offer(q, offered, i, sched)
  <2>1. all[n] \in E
    <3> HIDE DEF all, E
    <3> QED BY <1>4
  <2> HIDE DEF all
  <2> QED BY <2>1 DEF Entry, Offer
<1> HIDE DEF all, stamped, E
<1> QED BY <1>3, <1>4, <1>5, <1>6

\* How often a schedule was loaded.
One(sched) == {sched}
CopiesOf(sched, times, gone) == IF sched.id \in gone THEN 0 ELSE times

\* What was loaded of a placement: its schedules that have a rule, each as
\* often as it was appended.
LEMMA LoadedReads ==
  ASSUME NEW name \in DOMAIN Inventory, NEW times \in Nat, NEW gone
  PROVE  /\ Loaded(name, times, gone) \in Seq(Range(Inventory[name]))
         /\ \A sched \in Range(Inventory[name]) :
              Times(Loaded(name, times, gone), One(sched)) = CopiesOf(sched, times, gone)
<1> DEFINE held == Inventory[name]
           S == Range(held)
           kept == {k \in DOMAIN held : held[k].id \notin gone}
           one == Sift(held, kept)
           ss == [n \in 1..times |-> one]
<1>1. held \in Seq(S) /\ \A j, k \in DOMAIN held : held[j].id = held[k].id => j = k
  BY DeliveryAssumption
<1>2. Loaded(name, times, gone) = FlattenSeq(ss)
  BY DEF Loaded
<1>3. kept \in SUBSET DOMAIN held
  OBVIOUS
<1>4. one \in Seq(S)
  <2>1. one \in Seq(S) /\ Times(one, S) = Cardinality({k \in kept : held[k] \in S})
    <3> HIDE DEF kept, held, S
    <3> QED BY <1>1, <1>3, SiftTimes
  <2> QED BY <2>1
<1>5. ss \in Seq(Seq(S)) /\ Len(ss) = times /\ DOMAIN ss = 1..times
  <2> HIDE DEF one, S
  <2> QED BY <1>4
<1>6. FlattenSeq(ss) \in Seq(S)
  <2> HIDE DEF ss, S
  <2> QED BY <1>5, FlattenType
<1>7. ASSUME NEW sched \in S
      PROVE  Times(FlattenSeq(ss), {sched}) = IF sched.id \in gone THEN 0 ELSE times
  <2>1. PICK j \in DOMAIN held : held[j] = sched
    BY DEF Range
  <2> DEFINE c == IF sched.id \in gone THEN 0 ELSE 1
  <2>2. {k \in kept : held[k] \in {sched}} = IF sched.id \in gone THEN {} ELSE {j}
    BY <1>1, <2>1
  <2>3. Times(one, {sched}) = c
    <3>1. Times(one, {sched}) = Cardinality({k \in kept : held[k] \in {sched}})
      <4> HIDE DEF kept, held, S
      <4> QED BY <1>1, <1>3, SiftTimes
    <3>2. Cardinality({j}) = 1 /\ Cardinality({}) = 0
      BY FS_Singleton, FS_EmptySet
    <3> HIDE DEF one, kept, held
    <3> QED BY <2>2, <3>1, <3>2
  <2>4. Times(FlattenSeq(ss), {sched}) = Cardinality(1..times) * c
    <3> DEFINE K == 1..times
               T == {sched}
    <3>1. K \in SUBSET DOMAIN ss /\ c \in Nat
      BY <1>5
    <3>2. Shares(ss, T, K, c)
      <4> HIDE DEF one, c
      <4> QED BY <1>5, <2>3 DEF Shares
    <3> HIDE DEF ss, S, c, K, T
    <3>3. Times(FlattenSeq(ss), T) = Cardinality(K) * c
      BY <1>5, <3>1, <3>2, FlattenTimes
    <3> QED BY <3>3 DEF K, T
  <2>5. Cardinality(1..times) = times
    <3>1. Cardinality(1..times) = IF 1 > times THEN 0 ELSE times - 1 + 1
      BY FS_Interval
    <3> QED BY <3>1
  <2> HIDE DEF ss
  <2> QED BY <2>4, <2>5
<1> HIDE DEF ss, S
<1> QED BY <1>2, <1>6, <1>7 DEF S, One, CopiesOf

\* T tells the entries of a schedule from the others of S.
Tells(T, S, name, sched) == \A e \in S : e \in T <=> e.source = name /\ e.rule = sched.id

Possible(q, offered, i) == UNION {Offer(q, offered, i, sched) : sched \in Range(Inventory[q.names[i]])}

\* Two schedules of a placement with the same id are the same.
LEMMA OneSchedule ==
  ASSUME NEW name \in DOMAIN Inventory, NEW a \in Range(Inventory[name]), NEW b \in Range(Inventory[name]),
         a.id = b.id
  PROVE  a = b
<1>1. \A j, k \in DOMAIN Inventory[name] : Inventory[name][j].id = Inventory[name][k].id => j = k
  BY DeliveryAssumption
<1>2. PICK j \in DOMAIN Inventory[name] : Inventory[name][j] = a
  BY DEF Range
<1>3. PICK k \in DOMAIN Inventory[name] : Inventory[name][k] = b
  BY DEF Range
<1> QED BY <1>1, <1>2, <1>3

\* A sequence over a set holds nothing outside of it ...
LEMMA TimesOutside ==
  ASSUME NEW S, NEW s \in Seq(S), NEW T, S \cap T = {}
  PROVE  Times(s, T) = 0
<1>1. {n \in DOMAIN s : s[n] \in T} = {}
  OBVIOUS
<1> QED BY <1>1, FS_EmptySet DEF Times

\* ... and only what is within it.
LEMMA TimesWithin ==
  ASSUME NEW S, NEW s \in Seq(S), NEW T, S \subseteq T
  PROVE  Times(s, T) = Len(s)
<1>1. s \in Seq(T)
  OBVIOUS
<1> QED BY <1>1, TimesAll

\* The entries of the copies loaded of a placement.
LEMMA PassingType ==
  ASSUME NEW L, NEW offered \in Seq(L), NEW q, NEW i, q.names[i] \in DOMAIN Inventory,
         NEW scheds \in Seq(Range(Inventory[q.names[i]]))
  PROVE  LET ss == [n \in DOMAIN scheds |-> Offers(q, offered, i, scheds[n])]
         IN  /\ ss \in Seq(Seq(Possible(q, offered, i))) /\ DOMAIN ss = DOMAIN scheds
             /\ Passing(q, offered, i, scheds) = FlattenSeq(ss)
             /\ Passing(q, offered, i, scheds) \in Seq(Possible(q, offered, i))
<1> DEFINE name == q.names[i]
           S == Range(Inventory[name])
           P == Possible(q, offered, i)
           ss == [n \in DOMAIN scheds |-> Offers(q, offered, i, scheds[n])]
<1>1. Passing(q, offered, i, scheds) = FlattenSeq(ss)
  BY DEF Passing
<1>2. ASSUME NEW x \in S
      PROVE  Offers(q, offered, i, x) \in Seq(P)
  <2>1. Offers(q, offered, i, x) \in Seq(Offer(q, offered, i, x))
    BY OffersRead
  <2>2. Offer(q, offered, i, x) \subseteq P
    BY DEF Possible
  <2> HIDE DEF P
  <2> QED BY <2>1, <2>2
<1>3. DOMAIN scheds = 1..Len(scheds) /\ Len(scheds) \in Nat /\ \A n \in DOMAIN scheds : scheds[n] \in S
  OBVIOUS
<1>4. ss \in Seq(Seq(P)) /\ DOMAIN ss = DOMAIN scheds
  <2> HIDE DEF P, S
  <2> QED BY <1>2, <1>3
<1>5. FlattenSeq(ss) \in Seq(P)
  <2> HIDE DEF P, ss
  <2> QED BY <1>4, FlattenType
<1> QED BY <1>1, <1>4, <1>5

\* How many of them are of one schedule.
LEMMA PassingTimes ==
  ASSUME NEW L, NEW offered \in Seq(L), NEW q, NEW i, q.names[i] \in DOMAIN Inventory,
         NEW scheds \in Seq(Range(Inventory[q.names[i]])),
         NEW sched \in Range(Inventory[q.names[i]]),
         NEW T, Tells(T, Possible(q, offered, i), q.names[i], sched)
  PROVE  Times(Passing(q, offered, i, scheds), T)
           = Times(scheds, One(sched)) * PerCopy(q, offered, q.names[i], sched)
<1> DEFINE name == q.names[i]
           S == Range(Inventory[name])
           P == Possible(q, offered, i)
           ss == [n \in DOMAIN scheds |-> Offers(q, offered, i, scheds[n])]
           K == {n \in DOMAIN scheds : scheds[n] \in {sched}}
           c == PerCopy(q, offered, name, sched)
<1>1. ss \in Seq(Seq(P)) /\ DOMAIN ss = DOMAIN scheds /\ Passing(q, offered, i, scheds) = FlattenSeq(ss)
  BY PassingType
<1>2. K \in SUBSET DOMAIN ss /\ c \in Nat
  BY <1>1, OffersRead
<1>3. ASSUME NEW n \in DOMAIN ss
      PROVE  Times(ss[n], T) = IF n \in K THEN c ELSE 0
  <2> DEFINE x == scheds[n]
             O == Offer(q, offered, i, x)
  <2>1. x \in S /\ ss[n] = Offers(q, offered, i, x)
    BY <1>1
  <2>2. ss[n] \in Seq(O) /\ Len(ss[n]) = PerCopy(q, offered, name, x)
    BY <2>1, OffersRead
  <2>3. \A e \in O : e.rule = x.id /\ e.source = name
    BY DEF Offer
  <2>4. \A e \in O : e \in T <=> x.id = sched.id
    <3>1. O \subseteq P
      BY <2>1 DEF Possible
    <3> HIDE DEF O, P
    <3> QED BY <2>3, <3>1 DEF Tells, P
  <2>5. CASE n \in K
    <3>1. x = sched
      BY <2>5
    <3>2. O \subseteq T
      <4> HIDE DEF O
      <4> QED BY <2>4, <3>1
    <3>3. Times(ss[n], T) = Len(ss[n])
      <4> HIDE DEF O, ss
      <4> QED BY <2>2, <3>2, TimesWithin
    <3> QED BY <2>2, <2>5, <3>1, <3>3
  <2>6. CASE n \notin K
    <3>1. x # sched
      BY <1>1, <2>6
    <3>2. x.id # sched.id
      BY <2>1, <3>1, OneSchedule
    <3>3. O \cap T = {}
      <4> HIDE DEF O
      <4> QED BY <2>4, <3>2
    <3>4. Times(ss[n], T) = 0
      <4> HIDE DEF O, ss
      <4> QED BY <2>2, <3>3, TimesOutside
    <3> QED BY <2>6, <3>4
  <2> QED BY <2>5, <2>6
<1>4. Times(FlattenSeq(ss), T) = Cardinality(K) * c
  <2>1. ss \in Seq(Seq(P))
    BY <1>1
  <2>2. Shares(ss, T, K, c)
    <3> HIDE DEF ss, K, c, P
    <3> QED BY <1>3 DEF Shares
  <2> HIDE DEF ss, K, c, P
  <2> QED BY <1>2, <2>1, <2>2, FlattenTimes
<1> QED BY <1>1, <1>4 DEF Times, One

\* What an evaluation returns.
LEMMA EvaluationReads ==
  ASSUME NEW L, NEW offered \in Seq(L), NEW q, NEW i, q.names[i] \in DOMAIN Inventory,
         NEW times \in Nat, NEW gone,
         NEW o \in Rank(Passing(q, offered, i, Loaded(q.names[i], times, gone)))
  PROVE  /\ o \in Seq(Possible(q, offered, i))
         /\ (\A e \in Possible(q, offered, i) : e.score \in Int) =>
              \A m, n \in DOMAIN o : m < n => o[m].score >= o[n].score
<1> DEFINE P == Possible(q, offered, i)
           scheds == Loaded(q.names[i], times, gone)
           entries == Passing(q, offered, i, scheds)
<1>1. scheds \in Seq(Range(Inventory[q.names[i]]))
  BY LoadedReads
<1>2. entries \in Seq(P)
  <2> HIDE DEF scheds
  <2> QED BY <1>1, PassingType
<1>3. o \in Rank(entries)
  OBVIOUS
<1> HIDE DEF entries
<1>4. /\ o \in Seq(P)
      /\ (\A e \in P : e.score \in Int) => \A m, n \in DOMAIN o : m < n => o[m].score >= o[n].score
  <2> HIDE DEF P
  <2> QED BY <1>2, <1>3, Ranked
<1> QED BY <1>4

\* How many of its entries are of one schedule: ranking changes no count.
LEMMA EvaluationTimes ==
  ASSUME NEW L, NEW offered \in Seq(L), NEW q, NEW i, q.names[i] \in DOMAIN Inventory,
         NEW times \in Nat, NEW gone,
         NEW o \in Rank(Passing(q, offered, i, Loaded(q.names[i], times, gone))),
         NEW sched \in Range(Inventory[q.names[i]]),
         NEW T, Tells(T, Possible(q, offered, i), q.names[i], sched)
  PROVE  Times(o, T) = CopiesOf(sched, times, gone) * PerCopy(q, offered, q.names[i], sched)
<1> DEFINE P == Possible(q, offered, i)
           scheds == Loaded(q.names[i], times, gone)
           entries == Passing(q, offered, i, scheds)
           per == PerCopy(q, offered, q.names[i], sched)
<1>1. /\ scheds \in Seq(Range(Inventory[q.names[i]]))
      /\ Times(scheds, One(sched)) = CopiesOf(sched, times, gone)
  BY LoadedReads
<1>2. entries \in Seq(P) /\ Times(entries, T) = Times(scheds, One(sched)) * per
  <2> HIDE DEF scheds
  <2>1. entries \in Seq(P)
    BY <1>1, PassingType
  <2>2. Times(entries, T) = Times(scheds, One(sched)) * per
    BY <1>1, PassingTimes
  <2> QED BY <2>1, <2>2
<1>3. o \in Rank(entries)
  OBVIOUS
<1> HIDE DEF entries
<1>4. Times(o, T) = Times(entries, T)
  <2> HIDE DEF P
  <2> QED BY <1>2, <1>3, Ranked
<1> HIDE DEF scheds, per
<1>5. Times(o, T) = CopiesOf(sched, times, gone) * per
  BY <1>1, <1>2, <1>4
<1> QED BY <1>5 DEF per

-----------------------------------------------------------------------------
(* The page *)

\* What the goroutines leave in the slots of a request.
Evaluated(q, offered, times, gone, slot) ==
  /\ slot = [i \in DOMAIN q.names |-> slot[i]]
  /\ \A i \in DOMAIN q.names :
       slot[i] \in Rank(Passing(q, offered, i, Loaded(q.names[i], times[q.names[i]], gone)))

Listable(q, offered) == UNION {Possible(q, offered, i) : i \in DOMAIN q.names}

\* A valid query names placements that exist.
LEMMA QueryType ==
  ASSUME NEW q \in Queries, Valid(q)
  PROVE  /\ q.names \in Seq(DOMAIN Inventory) /\ Len(q.names) \in Nat
         /\ DOMAIN q.names = 1..Len(q.names)
         /\ \A i \in DOMAIN q.names : q.names[i] \in DOMAIN Inventory /\ q.names[i] \in Named(q)
         /\ Named(q) \subseteq DOMAIN Inventory
<1>1. q.names \in Seq(DOMAIN Inventory \cup {Blank}) /\ \A i \in DOMAIN q.names : q.names[i] # Blank
  BY DeliveryAssumption DEF Valid
<1>2. \A i \in DOMAIN q.names : q.names[i] \in DOMAIN Inventory
  BY <1>1
<1>3. q.names \in Seq(DOMAIN Inventory)
  BY <1>1, <1>2
<1> QED BY <1>2, <1>3 DEF Named

\* A cut page is a beginning of the page.
LEMMA PageCut ==
  ASSUME NEW S, NEW s \in Seq(S), NEW p, NEW n \in Int,
         p = s \/ (n \in 1..Len(s) /\ p = SubSeq(s, 1, n))
  PROVE  /\ p \in Seq(S)
         /\ \A k \in DOMAIN p : k \in DOMAIN s /\ p[k] = s[k]
         /\ \A T : Times(p, T) \in Nat /\ Times(s, T) \in Nat /\ Times(p, T) <= Times(s, T)
<1>1. /\ p \in Seq(S)
      /\ \A k \in DOMAIN p : k \in DOMAIN s /\ p[k] = s[k]
  OBVIOUS
<1>2. ASSUME NEW T
      PROVE  Times(p, T) \in Nat /\ Times(s, T) \in Nat /\ Times(p, T) <= Times(s, T)
  <2> DEFINE A == {k \in DOMAIN p : p[k] \in T}
             B == {k \in DOMAIN s : s[k] \in T}
  <2>1. A \subseteq B
    BY <1>1
  <2>2. IsFiniteSet(B) /\ Times(s, T) \in Nat /\ Times(p, T) \in Nat
    BY <1>1, TimesType
  <2>3. Cardinality(A) <= Cardinality(B)
    <3> HIDE DEF A, B
    <3> QED BY <2>1, <2>2, FS_Subset
  <2> QED BY <2>2, <2>3 DEF Times
<1> QED BY <1>1, <1>2

\* The slots hold what the evaluations of their placements may return.
LEMMA SlotsRead ==
  ASSUME NEW L, NEW offered \in Seq(L), NEW q \in Queries, Valid(q),
         NEW times \in [Named(q) -> Nat], NEW gone, NEW slot, Evaluated(q, offered, times, gone, slot)
  PROVE  /\ slot \in Seq(Seq(Listable(q, offered))) /\ DOMAIN slot = DOMAIN q.names
         /\ \A i \in DOMAIN slot : slot[i] \in Seq(Possible(q, offered, i))
<1>1. \A i \in DOMAIN q.names : slot[i] \in Seq(Possible(q, offered, i))
  BY EvaluationReads, QueryType DEF Evaluated
<1>2. ASSUME NEW i \in DOMAIN q.names
      PROVE  slot[i] \in Seq(Listable(q, offered))
  <2>1. Possible(q, offered, i) \subseteq Listable(q, offered)
    BY DEF Listable
  <2> QED BY <1>1, <2>1
<1> DEFINE D == DOMAIN q.names
           Q == Seq(Listable(q, offered))
           g == [i \in D |-> slot[i]]
<1>3. slot = g
  BY DEF Evaluated
<1>4. g \in Seq(Q) /\ DOMAIN g = D
  <2>1. D = 1..Len(q.names) /\ Len(q.names) \in Nat /\ \A i \in D : slot[i] \in Q
    BY <1>2, QueryType
  <2> HIDE DEF D, Q
  <2> QED BY <2>1
<1>5. slot \in Seq(Q) /\ DOMAIN slot = D
  <2> HIDE DEF g
  <2> QED BY <1>3, <1>4
<1> QED BY <1>1, <1>5

\* The slots one after the other hold the entries of a schedule as often as
\* they are due.
LEMMA SlotsComplete ==
  ASSUME NEW L, NEW offered \in Seq(L), NEW q \in Queries, Valid(q),
         NEW times \in [Named(q) -> Nat], NEW gone, NEW slot, Evaluated(q, offered, times, gone, slot),
         NEW name \in Named(q), NEW sched \in Range(Inventory[name]),
         NEW T, Tells(T, Listable(q, offered), name, sched)
  PROVE  Times(FlattenSeq(slot), T) =
           IF sched.id \in gone THEN 0
           ELSE Occurrences(q, name) * times[name] * PerCopy(q, offered, name, sched)
<1> DEFINE K == {i \in DOMAIN q.names : q.names[i] = name}
           per == PerCopy(q, offered, name, sched)
           c == CopiesOf(sched, times[name], gone) * per
           P(i) == Possible(q, offered, i)
           A == Listable(q, offered)
<1>1. slot \in Seq(Seq(A)) /\ DOMAIN slot = DOMAIN q.names /\ \A i \in DOMAIN slot : slot[i] \in Seq(P(i))
  BY SlotsRead
<1>2. \A i \in DOMAIN q.names : P(i) \subseteq A /\ \A e \in P(i) : e.source = q.names[i]
  BY DEF Listable, Possible, Offer
<1>3. per \in Nat /\ times[name] \in Nat /\ c \in Nat
  <2>1. \E i \in DOMAIN q.names : q.names[i] = name
    BY DEF Named
  <2>2. per \in Nat
    BY <2>1, OffersRead, QueryType
  <2>3. times[name] \in Nat /\ \A x, y \in Nat : x * y \in Nat
    OBVIOUS
  <2> HIDE DEF per
  <2> QED BY <2>2, <2>3 DEF CopiesOf
<1>4. ASSUME NEW i \in DOMAIN slot
      PROVE  Times(slot[i], T) = IF i \in K THEN c ELSE 0
  <2>1. CASE i \in K
    <3>1. i \in DOMAIN q.names /\ q.names[i] = name /\ name \in DOMAIN Inventory
      BY <2>1, QueryType
    <3>2. Tells(T, Possible(q, offered, i), q.names[i], sched)
      <4> HIDE DEF A
      <4> QED BY <1>2, <3>1 DEF Tells, A
    <3>3. slot[i] \in Rank(Passing(q, offered, i, Loaded(q.names[i], times[name], gone)))
      BY <3>1 DEF Evaluated
    <3>4. q.names[i] \in DOMAIN Inventory /\ sched \in Range(Inventory[q.names[i]])
      BY <3>1
    <3>5. Times(slot[i], T) = CopiesOf(sched, times[name], gone) * PerCopy(q, offered, q.names[i], sched)
      <4> HIDE DEF K, P, c, per, A
      <4> QED BY <1>3, <3>2, <3>3, <3>4, EvaluationTimes
    <3> QED BY <2>1, <3>1, <3>5
  <2>2. CASE i \notin K
    <3>1. q.names[i] # name /\ slot[i] \in Seq(P(i))
      BY <1>1, <2>2
    <3>2. P(i) \cap T = {}
      <4> HIDE DEF P, A
      <4> QED BY <1>1, <1>2, <3>1 DEF A, Tells
    <3>3. Times(slot[i], T) = 0
      <4> HIDE DEF P
      <4> QED BY <3>1, <3>2, TimesOutside
    <3> QED BY <2>2, <3>3
  <2> QED BY <2>1, <2>2
<1>5. Times(FlattenSeq(slot), T) = Cardinality(K) * c
  <2>1. K \in SUBSET DOMAIN slot
    BY <1>1
  <2>2. slot \in Seq(Seq(A)) /\ c \in Nat
    BY <1>1, <1>3
  <2> HIDE DEF K, c, A, P, per
  <2>3. Shares(slot, T, K, c)
    BY <1>4 DEF Shares
  <2> QED BY <2>1, <2>2, <2>3, FlattenTimes
<1>6. Cardinality(K) = Occurrences(q, name) /\ Cardinality(K) \in Nat
  <2>1. K \subseteq 1..Len(q.names) /\ Len(q.names) \in Int /\ 1 \in Int
    BY QueryType
  <2>2. IsFiniteSet(1..Len(q.names))
    <3> HIDE DEF K, c, A, P, per
    <3> QED BY <2>1, FS_Interval
  <2>3. IsFiniteSet(K)
    <3> HIDE DEF K
    <3> QED BY <2>1, <2>2, FS_Subset
  <2>4. Cardinality(K) \in Nat
    <3> HIDE DEF K
    <3> QED BY <2>3, FS_CardinalityType
  <2> QED BY <2>4 DEF Occurrences
<1>7. \A x, y, z \in Nat : x * (y * z) = x * y * z /\ x * (0 * z) = 0
  OBVIOUS
<1> HIDE DEF K, per
<1> QED BY <1>3, <1>5, <1>6, <1>7 DEF per, CopiesOf

\* The slots one after the other list the placements in the order of the
\* names, and each by falling score.
LEMMA SlotsInOrder ==
  ASSUME NEW L, NEW offered \in Seq(L), NEW q \in Queries, Valid(q),
         \A n \in DOMAIN offered : offered[n].score \in Int \cup {Blank},
         NEW times \in [Named(q) -> Nat], NEW gone, NEW slot, Evaluated(q, offered, times, gone, slot)
  PROVE  \A m, n \in DOMAIN FlattenSeq(slot) : m < n =>
           /\ FlattenSeq(slot)[m].at <= FlattenSeq(slot)[n].at
           /\ FlattenSeq(slot)[m].at = FlattenSeq(slot)[n].at =>
                FlattenSeq(slot)[m].score >= FlattenSeq(slot)[n].score
<1> DEFINE A == Listable(q, offered)
           R == {p \in A \X A : /\ p[1].at <= p[2].at
                                /\ p[1].at = p[2].at => p[1].score >= p[2].score}
<1>1. /\ slot \in Seq(Seq(A)) /\ DOMAIN slot = DOMAIN q.names
      /\ \A i \in DOMAIN slot : slot[i] \in Seq(Possible(q, offered, i))
  BY SlotsRead
<1>2. ASSUME NEW i \in DOMAIN q.names, NEW e \in Possible(q, offered, i)
      PROVE  e.at = i /\ e.score \in Int /\ e \in A
  <2>1. PICK sched \in Range(Inventory[q.names[i]]) : e \in Offer(q, offered, i, sched)
    BY DEF Possible
  <2>2. e.at = i /\ e.score \in {sched.score} \cup ({offered[n].score : n \in DOMAIN offered} \ {Blank})
    BY <2>1 DEF Offer
  <2>3. sched.score \in Int
    BY QueryType, DeliveryAssumption
  <2> QED BY <2>2, <2>3 DEF Listable
<1>3. ASSUME NEW i \in DOMAIN slot, NEW m \in DOMAIN slot[i], NEW n \in DOMAIN slot[i], m < n
      PROVE  <<slot[i][m], slot[i][n]>> \in R
  <2>1. i \in DOMAIN q.names /\ q.names[i] \in DOMAIN Inventory /\ q.names[i] \in Named(q)
    BY <1>1, QueryType
  <2>2. slot[i] \in Rank(Passing(q, offered, i, Loaded(q.names[i], times[q.names[i]], gone)))
    BY <2>1 DEF Evaluated
  <2>3. times[q.names[i]] \in Nat
    BY <2>1
  <2>4. \A e \in Possible(q, offered, i) : e.score \in Int
    BY <1>2, <2>1
  <2>5. slot[i][m].score >= slot[i][n].score
    <3> HIDE DEF R
    <3> QED BY <1>3, <2>1, <2>2, <2>3, <2>4, EvaluationReads
  <2>6. slot[i][m] \in Possible(q, offered, i) /\ slot[i][n] \in Possible(q, offered, i)
    BY <1>1
  <2>7. /\ slot[i][m].at = i /\ slot[i][n].at = i /\ slot[i][m] \in A /\ slot[i][n] \in A
        /\ i \in Int
    BY <1>2, <2>1, <2>6, QueryType
  <2> HIDE DEF A
  <2> QED BY <2>5, <2>7
<1>4. ASSUME NEW i \in DOMAIN slot, NEW j \in DOMAIN slot, i < j, NEW m \in DOMAIN slot[i], NEW n \in DOMAIN slot[j]
      PROVE  <<slot[i][m], slot[j][n]>> \in R
  <2>1. slot[i][m] \in Possible(q, offered, i) /\ slot[j][n] \in Possible(q, offered, j)
    BY <1>1
  <2>2. slot[i][m].at = i /\ slot[j][n].at = j /\ slot[i][m] \in A /\ slot[j][n] \in A
    BY <1>1, <1>2, <2>1
  <2>3. i \in Int /\ j \in Int
    BY <1>1, QueryType
  <2> HIDE DEF A
  <2> QED BY <1>4, <2>2, <2>3
<1>5. \A m, n \in DOMAIN FlattenSeq(slot) : m < n => <<FlattenSeq(slot)[m], FlattenSeq(slot)[n]>> \in R
  <2> HIDE DEF A, R
  <2> QED BY <1>1, <1>3, <1>4, FlattenOrdered
<1> HIDE DEF A
<1> QED BY <1>5

\* What the customer was offered: nothing, or the leads of the customer in an
\* answer of CLEN.
LeadsKnown(q, offered) ==
  \/ offered = <<>>
  \/ q.idType = "CIS_ID" /\ \E groups \in Answers : offered = LeadsOf(groups, q.customer)

\* The group the leads were taken from.
LEMMA LeadsGroup ==
  ASSUME NEW groups \in Answers, NEW customer, LeadsOf(groups, customer) # <<>>
  PROVE  \E g \in DOMAIN groups : groups[g].ip = customer /\ LeadsOf(groups, customer) = groups[g].leads
<1> DEFINE own == {g \in DOMAIN groups : groups[g].ip = customer}
<1>1. own # {}
  BY DEF LeadsOf
<1>2. groups \in Seq(Range(groups))
  BY DeliveryAssumption
<1>3. own \subseteq Nat
  BY <1>2
<1>4. \E g \in own : \A h \in own : g <= h
  <2> HIDE DEF own
  <2> QED BY <1>1, <1>3, LeastNat
<1>5. PICK g \in own : g = CHOOSE h \in own : \A k \in own : h <= k
  BY <1>4
<1>6. LeadsOf(groups, customer) = groups[g].leads
  BY <1>1, <1>5 DEF LeadsOf
<1> QED BY <1>6

\* Leads are scored by a number, by NaN or not at all.
LEMMA LeadsType ==
  ASSUME NEW q, NEW offered, LeadsKnown(q, offered)
  PROVE  /\ offered \in Seq(Range(offered))
         /\ \A n \in DOMAIN offered : offered[n].score \in Int \cup {Blank, NaN}
<1>1. CASE offered = <<>>
  BY <1>1
<1>2. CASE offered # <<>>
  <2>1. PICK groups \in Answers : offered = LeadsOf(groups, q.customer)
    BY <1>2 DEF LeadsKnown
  <2>2. PICK g \in DOMAIN groups : offered = groups[g].leads
    BY <1>2, <2>1, LeadsGroup
  <2>3. groups[g] \in Range(groups)
    BY DEF Range
  <2>4. offered \in Seq(Range(offered)) /\ \A lead \in Range(offered) : lead.score \in Int \cup {Blank, NaN}
    BY <2>2, <2>3, DeliveryAssumption
  <2>5. \A n \in DOMAIN offered : offered[n] \in Range(offered)
    BY DEF Range
  <2> QED BY <2>4, <2>5
<1> QED BY <1>1, <1>2

\* A sales entry is an offer of CLEN to the customer.
LEMMA SlotsSales ==
  ASSUME NEW q \in Queries, Valid(q), NEW offered, LeadsKnown(q, offered),
         NEW e \in Listable(q, offered), Sales(e)
  PROVE  Offered(e, q, offered)
<1>1. PICK i \in DOMAIN q.names : e \in Possible(q, offered, i)
  BY DEF Listable
<1> DEFINE name == q.names[i]
<1>2. name \in DOMAIN Inventory
  BY QueryType
<1>3. PICK sched \in Range(Inventory[name]) : e \in Offer(q, offered, i, sched)
  BY <1>1 DEF Possible
<1>4. e.source = name /\ e.rule = sched.id
  BY <1>3 DEF Offer
<1>5. PICK k \in DOMAIN Inventory[name] : Inventory[name][k].id = e.rule /\ Inventory[name][k].type = "SALES_TARGET"
  BY <1>4 DEF Sales
<1>6. sched.type = "SALES_TARGET"
  <2>1. Inventory[name][k] \in Range(Inventory[name])
    BY DEF Range
  <2> QED BY <1>2, <1>4, <1>5, <2>1, OneSchedule
<1>7. PICK n \in Matching(offered, name) : e.content = offered[n].content
  BY <1>3, <1>6 DEF Offer
<1>8. n \in DOMAIN offered /\ name \in offered[n].placements
  BY DEF Matching
<1>9. offered # <<>>
  BY <1>8
<1>10. q.idType = "CIS_ID" /\ \E groups \in Answers : offered = LeadsOf(groups, q.customer)
  BY <1>9 DEF LeadsKnown
<1>11. PICK groups \in Answers : offered = LeadsOf(groups, q.customer)
  BY <1>10
<1>12. PICK g \in DOMAIN groups : groups[g].ip = q.customer /\ offered = groups[g].leads
  BY <1>9, <1>11, LeadsGroup
<1> QED BY <1>4, <1>7, <1>8, <1>10, <1>12 DEF Offered

-----------------------------------------------------------------------------
(* The invariant *)

\* What a request holds at each of its stages; at the last one, every slot
\* whose goroutine ended has what the evaluation of its own placement returns.
Working(r) ==
  /\ pc[r] # "evaluate" => worker[r] = <<>>
  /\ pc[r] \in {"load", "leads", "evaluate"} =>
       query[r] \in Queries /\ query[r].page \in Int /\ Valid(query[r])
  /\ pc[r] \in {"leads", "evaluate"} => copies[r] \in [Named(query[r]) -> Nat]
  /\ pc[r] = "evaluate" =>
       /\ LeadsKnown(query[r], leads[r])
       /\ results[r] = [i \in DOMAIN query[r].names |-> results[r][i]]
       /\ Len(worker[r]) <= Len(query[r].names)
       /\ \A i \in DOMAIN worker[r] : worker[r][i] = "done" => results[r][i] \in Evaluate(r, i)

Served ==
  /\ DOMAIN copies = Req /\ DOMAIN lost = Req /\ DOMAIN leads = Req /\ DOMAIN results = Req
  /\ \A r \in Req : Working(r)

\* The invariant holds in the initial state ...
LEMMA InitServed == Init => Served
  BY DEF Init, Served, Working

\* A request that a step leaves alone, or moves between the stages before the
\* query is bound.
LEMMA Aside ==
  ASSUME NEW p \in Req, Working(p),
         UNCHANGED <<query[p], copies[p], lost[p], leads[p], worker[p], results[p]>>,
         \/ pc'[p] = pc[p]
         \/ pc[p] \notin {"load", "leads", "evaluate"} /\ pc'[p] \notin {"load", "leads", "evaluate"}
  PROVE  Working(p)'
<1>1. ASSUME NEW i
      PROVE  Evaluate(p, i)' = Evaluate(p, i)
  BY DEF Evaluate, Filtered
<1> QED BY <1>1 DEF Working

\* A step that moves requests only between those stages.
LEMMA AllAside ==
  ASSUME Served, UNCHANGED request,
         \A p \in Req :
           \/ pc'[p] = pc[p]
           \/ pc[p] \notin {"load", "leads", "evaluate"} /\ pc'[p] \notin {"load", "leads", "evaluate"}
  PROVE  Served'
<1>1. \A p \in Req : Working(p)'
  BY Aside DEF Served, request
<1> QED BY <1>1 DEF Served, request

\* The one whose semaphore slot is taken over had none of all this.
LEMMA ReleaseMoves ==
  ASSUME Semaphore, NEW r \in Req, pc[r] \in Holding, Release(r)
  PROVE  /\ pc'[r] = "idle"
         /\ \A p \in Req \ {r} : \/ pc'[p] = pc[p]
                                 \/ pc[p] = "waiting" /\ pc'[p] = "bind"
<1>1. CASE waiting = <<>>
  BY <1>1 DEF Release, Semaphore
<1>2. CASE waiting # <<>>
  <2> DEFINE h == Head(waiting)
  <2>1. pc' = [pc EXCEPT ![r] = "idle", ![h] = "bind"]
    BY <1>2 DEF Release
  <2>2. h \in Range(waiting)
    <3>1. h = waiting[1] /\ 1 \in DOMAIN waiting
      BY <1>2 DEF Semaphore
    <3> QED BY <3>1 DEF Range
  <2>3. h \in Req /\ pc[h] = "waiting"
    BY <2>2 DEF Semaphore, SlotsAccounted
  <2>4. h # r
    BY <2>3 DEF Holding
  <2> HIDE DEF h
  <2> QED BY <2>1, <2>3, <2>4 DEF Semaphore
<1> QED BY <1>1, <1>2

\* A request that is answered drops all it has.
LEMMA Answering ==
  ASSUME Semaphore, Types, Served, NEW r \in Req, pc[r] \in Holding, NEW status, NEW page,
         Answer(r, status, page)
  PROVE  Served'
<1>1. /\ query' = [query EXCEPT ![r] = NoQuery] /\ copies' = [copies EXCEPT ![r] = <<>>]
      /\ lost' = [lost EXCEPT ![r] = {}] /\ leads' = [leads EXCEPT ![r] = <<>>]
      /\ worker' = [worker EXCEPT ![r] = <<>>] /\ results' = [results EXCEPT ![r] = <<>>]
      /\ Release(r)
  BY DEF Answer
<1>2. DOMAIN query = Req /\ DOMAIN worker = Req
  BY DEF Types
<1>3. Working(r)'
  BY <1>1, <1>2, ReleaseMoves DEF Working
<1>4. ASSUME NEW p \in Req \ {r}
      PROVE  Working(p)'
  <2>1. UNCHANGED <<query[p], copies[p], lost[p], leads[p], worker[p], results[p]>>
    BY <1>1, <1>2 DEF Served
  <2>2. \/ pc'[p] = pc[p]
        \/ pc[p] \notin {"load", "leads", "evaluate"} /\ pc'[p] \notin {"load", "leads", "evaluate"}
    BY <1>1, ReleaseMoves
  <2> QED BY <2>1, <2>2, Aside DEF Served
<1> QED BY <1>1, <1>3, <1>4 DEF Served

\* A step of one request.
LEMMA Alone ==
  ASSUME Served, NEW r \in Req, Working(r)',
         UNCHANGED <<DOMAIN copies, DOMAIN lost, DOMAIN leads, DOMAIN results>>,
         \A p \in Req \ {r} :
           UNCHANGED <<pc[p], query[p], copies[p], lost[p], leads[p], worker[p], results[p]>>
  PROVE  Served'
<1>1. ASSUME NEW p \in Req \ {r}
      PROVE  Working(p)'
  BY Aside DEF Served
<1> QED BY <1>1 DEF Served

\* ShouldBindQuery lets only a valid query on.
LEMMA Binding ==
  ASSUME Semaphore, Types, Served, NEW r \in Req, Bind(r)
  PROVE  Served'
<1>1. pc[r] = "bind"
  BY DEF Bind
<1>2. PICK q \in Queries :
        IF q.page = Blank THEN Answer(r, 200, <<>>)
        ELSE IF ~Valid(q) THEN Answer(r, 400, <<>>)
        ELSE /\ query' = [query EXCEPT ![r] = q]
             /\ pc' = [pc EXCEPT ![r] = "load"]
             /\ reply' = NoReply
             /\ UNCHANGED <<admission, copies, lost, leads, worker, results>>
  BY DEF Bind
<1>3. CASE Answer(r, 200, <<>>) \/ Answer(r, 400, <<>>)
  BY <1>1, <1>3, Answering DEF Holding
<1>4. CASE ~(Answer(r, 200, <<>>) \/ Answer(r, 400, <<>>))
  <2>1. /\ query' = [query EXCEPT ![r] = q] /\ pc' = [pc EXCEPT ![r] = "load"]
        /\ UNCHANGED <<copies, lost, leads, worker, results>>
        /\ Valid(q) /\ q.page # Blank
    BY <1>2, <1>4
  <2>2. q.page \in Int
    BY <2>1, DeliveryAssumption
  <2>3. Working(r)'
    BY <1>1, <2>1, <2>2 DEF Working, Served, Types, Semaphore, Valid
  <2> QED BY <2>1, <2>3, Alone DEF Types, Semaphore
<1> QED BY <1>3, <1>4

\* Loading fixes how often each placement is appended.
LEMMA Loading ==
  ASSUME Semaphore, Types, Served, NEW r \in Req, Load(r)
  PROVE  Served'
<1>1. pc[r] = "load"
  BY DEF Load
<1>2. CASE Answer(r, 500, <<>>)
  BY <1>1, <1>2, Answering DEF Holding
<1>3. CASE ~Answer(r, 500, <<>>)
  <2>1. PICK c \in [Named(query[r]) -> 0..Len(query[r].names)] : copies' = [copies EXCEPT ![r] = c]
    BY <1>3 DEF Load
  <2>2. PICK l \in Losses : lost' = [lost EXCEPT ![r] = l]
    BY <1>3 DEF Load
  <2>3. pc' = [pc EXCEPT ![r] = "leads"] /\ UNCHANGED <<query, leads, worker, results>>
    BY <1>3 DEF Load
  <2>4. c \in [Named(query[r]) -> Nat]
    OBVIOUS
  <2>5. query[r] \in Queries /\ Valid(query[r]) /\ query[r].page \in Int /\ worker[r] = <<>>
    BY <1>1 DEF Served, Working
  <2>6. pc'[r] = "leads" /\ copies'[r] = c /\ query'[r] = query[r] /\ worker'[r] = <<>>
    BY <2>1, <2>3, <2>5 DEF Served, Semaphore
  <2>7. Working(r)'
    BY <2>4, <2>5, <2>6 DEF Working, Valid, Named
  <2> QED BY <2>1, <2>2, <2>3, <2>7, Alone DEF Types, Semaphore, Served
<1> QED BY <1>2, <1>3

\* The leads are none, or those CLEN has for the customer.
LEMMA Fetching ==
  ASSUME Semaphore, Types, Served, NEW r \in Req, FetchLeads(r)
  PROVE  Served'
<1>1. /\ pc[r] = "leads" /\ pc' = [pc EXCEPT ![r] = "evaluate"]
      /\ results' = [results EXCEPT ![r] = [i \in DOMAIN query[r].names |-> <<>>]]
      /\ UNCHANGED <<query, copies, lost, worker>>
  BY DEF FetchLeads
<1>2. PICK offered : leads' = [leads EXCEPT ![r] = offered] /\ LeadsKnown(query[r], offered)
  BY DEF FetchLeads, LeadsKnown
<1>3. query[r] \in Queries /\ Valid(query[r]) /\ query[r].page \in Int
      /\ copies[r] \in [Named(query[r]) -> Nat] /\ worker[r] = <<>>
  BY <1>1 DEF Served, Working
<1>4. Len(worker[r]) <= Len(query[r].names)
  BY <1>3, QueryType
<1>5. /\ pc'[r] = "evaluate" /\ leads'[r] = offered /\ query'[r] = query[r] /\ copies'[r] = copies[r]
      /\ worker'[r] = <<>> /\ results'[r] = [i \in DOMAIN query[r].names |-> <<>>]
  BY <1>1, <1>2, <1>3 DEF Served, Semaphore
<1>6. results'[r] = [i \in DOMAIN query[r].names |-> results'[r][i]]
  <2> DEFINE D == DOMAIN query[r].names
             s == [i \in D |-> <<>>]
  <2>1. s = [i \in D |-> s[i]]
    <3> HIDE DEF D
    <3> QED OBVIOUS
  <2> QED BY <1>5, <2>1
<1>7. Working(r)'
  BY <1>2, <1>3, <1>4, <1>5, <1>6 DEF Working, Valid, Named, LeadsKnown
<1> QED BY <1>1, <1>2, <1>7, Alone DEF Types, Semaphore, Served

\* A goroutine that starts has not ended.
LEMMA Launching ==
  ASSUME Semaphore, Types, Served, NEW r \in Req, Launch(r)
  PROVE  Served'
<1>1. /\ pc[r] = "evaluate" /\ Len(worker[r]) < Len(query[r].names)
      /\ worker' = [worker EXCEPT ![r] = Append(worker[r], "running")]
      /\ UNCHANGED <<pc, query, copies, lost, leads, results>>
  BY DEF Launch
<1>2. \A i : Evaluate(r, i)' = Evaluate(r, i)
  BY <1>1 DEF Evaluate, Filtered
<1>3. worker[r] \in Seq({"running", "done"})
  BY DEF Types
<1>4. worker'[r] = Append(worker[r], "running")
  BY <1>1 DEF Types
<1>5. Working(r) /\ Len(query[r].names) \in Nat
  BY <1>1, QueryType DEF Served, Working
<1>6. /\ Len(worker'[r]) <= Len(query[r].names)
      /\ \A i \in DOMAIN worker'[r] : worker'[r][i] = "done" => i \in DOMAIN worker[r] /\ worker[r][i] = "done"
  BY <1>1, <1>3, <1>4, <1>5
<1>7. Working(r)'
  BY <1>1, <1>2, <1>5, <1>6 DEF Working
<1> QED BY <1>1, <1>7, Alone DEF Types, Served

\* A goroutine that ends has written its own slot, and no other.
LEMMA Finishing ==
  ASSUME Semaphore, Types, Served, NEW r \in Req, NEW i \in DOMAIN worker[r], Finish(r, i)
  PROVE  Served'
<1>1. /\ worker[r][i] = "running"
      /\ worker' = [worker EXCEPT ![r] = [worker[r] EXCEPT ![i] = "done"]]
      /\ UNCHANGED <<pc, query, copies, lost, leads>>
  BY DEF Finish, Running
<1>2. PICK o \in Evaluate(r, i) : results' = [results EXCEPT ![r] = [results[r] EXCEPT ![i] = o]]
  BY DEF Finish
<1>3. \A j : Evaluate(r, j)' = Evaluate(r, j)
  BY <1>1 DEF Evaluate, Filtered
<1>4. worker[r] \in Seq({"running", "done"}) /\ worker[r] # <<>>
  BY DEF Types
<1>5. pc[r] = "evaluate" /\ Working(r)
  BY <1>4 DEF Served, Working
<1>6. /\ Len(worker[r]) <= Len(query[r].names) /\ Len(query[r].names) \in Nat
      /\ DOMAIN query[r].names = 1..Len(query[r].names)
      /\ results[r] = [j \in DOMAIN query[r].names |-> results[r][j]]
  BY <1>5, QueryType DEF Working
<1>7. i \in DOMAIN query[r].names /\ DOMAIN worker[r] \subseteq DOMAIN query[r].names
  BY <1>4, <1>6
<1>8. /\ worker'[r] = [worker[r] EXCEPT ![i] = "done"]
      /\ results'[r] = [results[r] EXCEPT ![i] = o]
  BY <1>1, <1>2 DEF Types, Served
<1>9. /\ Len(worker'[r]) = Len(worker[r]) /\ DOMAIN worker'[r] = DOMAIN worker[r]
      /\ \A j \in DOMAIN worker[r] : j # i => worker'[r][j] = worker[r][j]
  BY <1>4, <1>8
<1>10. /\ results'[r] = [j \in DOMAIN query[r].names |-> results'[r][j]]
       /\ results'[r][i] = o
       /\ \A j \in DOMAIN query[r].names : j # i => results'[r][j] = results[r][j]
  <2> DEFINE D == DOMAIN query[r].names
             s == [j \in D |-> IF j = i THEN o ELSE results[r][j]]
  <2>1. results'[r] = s
    <3>1. DOMAIN results[r] = D
      BY <1>6
    <3> HIDE DEF D
    <3> QED BY <1>8, <3>1
  <2>2. s = [j \in D |-> s[j]] /\ s[i] = o /\ \A j \in D : j # i => s[j] = results[r][j]
    <3> HIDE DEF D
    <3> QED BY <1>7 DEF D
  <2> HIDE DEF s
  <2> QED BY <2>1, <2>2
<1>11. \A j \in DOMAIN worker'[r] : worker'[r][j] = "done" => results'[r][j] \in Evaluate(r, j)
  BY <1>2, <1>5, <1>7, <1>9, <1>10 DEF Working
<1>12. Working(r)'
  BY <1>1, <1>3, <1>5, <1>6, <1>9, <1>10, <1>11 DEF Working
<1> QED BY <1>1, <1>2, <1>12, Alone DEF Types, Served

\* ... and every step keeps it.
LEMMA NextServed == Semaphore /\ Types /\ Served /\ [Next]_vars => Served'
<1> SUFFICES ASSUME Semaphore, Types, Served, [Next]_vars PROVE Served'
  OBVIOUS
<1>1. CASE Refill
  BY <1>1, AllAside DEF Refill
<1>2. ASSUME NEW r \in Req, Arrive(r)
      PROVE  Served'
  <2>1. UNCHANGED request /\ pc[r] = "idle" /\ (pc' = pc \/ pc' = [pc EXCEPT ![r] = "arrived"])
    BY <1>2 DEF Arrive
  <2> QED BY <2>1, AllAside DEF Semaphore
<1>3. ASSUME NEW r \in Req, Acquire(r)
      PROVE  Served'
  <2>1. /\ UNCHANGED request /\ pc[r] = "arrived"
        /\ pc' = [pc EXCEPT ![r] = "bind"] \/ pc' = [pc EXCEPT ![r] = "waiting"]
    BY <1>3 DEF Acquire
  <2> QED BY <2>1, AllAside DEF Semaphore
<1>4. ASSUME NEW r \in Req, Collect(r)
      PROVE  Served'
  <2>1. pc[r] = "evaluate" /\ \E page : Answer(r, 200, page)
    BY <1>4 DEF Collect
  <2> QED BY <2>1, Answering DEF Holding
<1>5. ASSUME NEW r \in Req, Serve(r)
      PROVE  Served'
  BY <1>3, <1>4, <1>5, Binding, Loading, Fetching, Launching, Finishing DEF Serve
<1>6. CASE UNCHANGED vars
  BY <1>6, AllAside DEF vars
<1> QED BY <1>1, <1>2, <1>5, <1>6 DEF Next

\* Only Collect answers with a page, and it does so when every goroutine ended.
LEMMA OnlyCollect ==
  ASSUME Next, NEW r \in Req, Pages(r)
  PROVE  Collect(r)
<1>1. ASSUME reply' = NoReply
      PROVE  FALSE
  BY <1>1 DEF Pages, NoReply
<1>2. ASSUME NEW p \in Req, NEW status, NEW page, Answer(p, status, page)
      PROVE  p = r /\ page # <<>>
  BY <1>2 DEF Answer, Pages
<1>3. ~Refill
  BY <1>1 DEF Refill
<1>4. PICK p \in Req : Arrive(p) \/ Serve(p)
  BY <1>3 DEF Next
<1>5. ~Arrive(p)
  BY <1>1 DEF Arrive, Pages
<1>6. ~Acquire(p) /\ ~FetchLeads(p) /\ ~Launch(p) /\ ~\E i \in DOMAIN worker[p] : Finish(p, i)
  BY <1>1 DEF Acquire, FetchLeads, Launch, Finish
<1>7. ~Bind(p)
  BY <1>1, <1>2 DEF Bind
<1>8. ~Load(p)
  BY <1>1, <1>2 DEF Load
<1>9. Collect(p)
  BY <1>4, <1>5, <1>6, <1>7, <1>8 DEF Serve
<1>10. \E page : Answer(p, 200, page)
  BY <1>9 DEF Collect
<1> QED BY <1>2, <1>9, <1>10

\* The evaluation of a placement, without its bound sets.
LEMMA EvaluateIs ==
  ASSUME NEW r, NEW i
  PROVE  Evaluate(r, i) = Rank(Passing(query[r], leads[r], i,
                            Loaded(query[r].names[i], copies[r][query[r].names[i]], lost[r])))
<1> DEFINE S == {Filtered(r, query[r].names[i])}
           E == {Passing(query[r], leads[r], i, scheds) : scheds \in S}
<1>1. E = {Passing(query[r], leads[r], i, Filtered(r, query[r].names[i]))}
  OBVIOUS
<1>2. Evaluate(r, i) = UNION {Rank(entries) : entries \in E}
  BY DEF Evaluate
<1> HIDE DEF E
<1>3. Evaluate(r, i) = Rank(Passing(query[r], leads[r], i, Filtered(r, query[r].names[i])))
  BY <1>1, <1>2
<1> QED BY <1>3 DEF Filtered

\* What there is when a page is written.
LEMMA Collected ==
  ASSUME Semaphore, Types, Served, Next, NEW r \in Req, Pages(r)
  PROVE  /\ query[r] \in Queries /\ query[r].page \in Int /\ Valid(query[r])
         /\ copies[r] \in [Named(query[r]) -> Nat]
         /\ LeadsKnown(query[r], leads[r])
         /\ Evaluated(query[r], leads[r], copies[r], lost[r], results[r])
         /\ PageOf(r) = Page(r)
<1>1. Collect(r)
  BY OnlyCollect
<1>2. /\ query[r] \in Queries /\ query[r].page \in Int /\ Valid(query[r])
      /\ copies[r] \in [Named(query[r]) -> Nat]
      /\ LeadsKnown(query[r], leads[r])
      /\ results[r] = [i \in DOMAIN query[r].names |-> results[r][i]]
      /\ \A i \in DOMAIN worker[r] : worker[r][i] = "done" => results[r][i] \in Evaluate(r, i)
  BY <1>1 DEF Collect, Served, Working
<1>3. \A i \in DOMAIN query[r].names : i \in DOMAIN worker[r] /\ worker[r][i] = "done"
  <2>1. /\ Len(worker[r]) = Len(query[r].names)
        /\ \A i \in DOMAIN worker[r] : worker[r][i] # "running"
    BY <1>1 DEF Collect, Running
  <2>2. worker[r] \in Seq({"running", "done"}) /\ DOMAIN query[r].names = 1..Len(query[r].names)
    BY <1>2, QueryType DEF Types
  <2> QED BY <2>1, <2>2
<1>4. Evaluated(query[r], leads[r], copies[r], lost[r], results[r])
  BY <1>2, <1>3, EvaluateIs DEF Evaluated
<1>5. PageOf(r) = Page(r)
  <2>1. \E page \in {Page(r)} : reply'.page = (IF \E n \in DOMAIN page : page[n].score = NaN THEN <<>> ELSE page)
    BY <1>1 DEF Collect, Answer
  <2> QED BY <2>1 DEF PageOf, Pages
<1> QED BY <1>2, <1>4, <1>5

\* The page against the slots.
LEMMA Paged ==
  ASSUME Semaphore, Types, Served, Next, NEW r \in Req, Pages(r)
  PROVE  LET all == FlattenSeq(results[r])
             page == PageOf(r)
         IN  /\ page \in Seq(Listable(query[r], leads[r]))
             /\ \A n \in DOMAIN page : n \in DOMAIN all /\ page[n] = all[n]
             /\ \A T : Times(page, T) \in Nat /\ Times(all, T) \in Nat /\ Times(page, T) <= Times(all, T)
             /\ page = all \/ (query[r].page > 0 /\ Len(page) = query[r].page)
             /\ DOMAIN page \subseteq Int
<1> DEFINE all == FlattenSeq(results[r])
           page == PageOf(r)
           S == Listable(query[r], leads[r])
           size == query[r].page
<1>1. all \in Seq(S)
  <2>1. results[r] \in Seq(Seq(S))
    <3>1. leads[r] \in Seq(Range(leads[r]))
      BY Collected, LeadsType
    <3> QED BY <3>1, Collected, SlotsRead
  <2> HIDE DEF S
  <2> QED BY <2>1, FlattenType
<1>2. page = IF size > 0 /\ Len(all) > size THEN SubSeq(all, 1, size) ELSE all
  BY Collected DEF Page
<1>3. size \in Int
  BY Collected
<1> HIDE DEF all, page, S, size
<1>4. /\ page = all \/ (size \in 1..Len(all) /\ page = SubSeq(all, 1, size))
      /\ page = all \/ (size > 0 /\ Len(page) = size)
  <2>1. CASE size > 0 /\ Len(all) > size
    <3>1. page = SubSeq(all, 1, size) /\ size \in 1..Len(all)
      BY <1>1, <1>2, <1>3, <2>1
    <3>2. Len(SubSeq(all, 1, size)) = size
      BY <1>1, <3>1
    <3> QED BY <2>1, <3>1, <3>2
  <2>2. CASE ~(size > 0 /\ Len(all) > size)
    <3>1. page = all
      BY <1>2, <2>2
    <3> QED BY <3>1
  <2> QED BY <2>1, <2>2
<1>5. /\ page \in Seq(S)
      /\ \A n \in DOMAIN page : n \in DOMAIN all /\ page[n] = all[n]
      /\ \A T : Times(page, T) \in Nat /\ Times(all, T) \in Nat /\ Times(page, T) <= Times(all, T)
  BY <1>1, <1>3, <1>4, PageCut
<1>6. DOMAIN page \subseteq Int
  BY <1>5
<1> QED BY <1>4, <1>5, <1>6 DEF all, page, S, size

\* The page is in order: a cut keeps the order of the slots.
LEMMA PageOrdered ==
  ASSUME Semaphore, Types, Served, Next, NEW r \in Req, Pages(r),
         \A n \in DOMAIN leads[r] : leads[r][n].score # NaN
  PROVE  Ordered(r)
<1> DEFINE all == FlattenSeq(results[r])
           page == PageOf(r)
           q == query[r]
<1>1. /\ page \in Seq(Listable(q, leads[r]))
      /\ \A n \in DOMAIN page : n \in DOMAIN all /\ page[n] = all[n]
  BY Paged
<1>2. \A m, n \in DOMAIN all : m < n =>
        /\ all[m].at <= all[n].at
        /\ all[m].at = all[n].at => all[m].score >= all[n].score
  <2>1. leads[r] \in Seq(Range(leads[r])) /\ \A n \in DOMAIN leads[r] : leads[r][n].score \in Int \cup {Blank}
    BY Collected, LeadsType
  <2> QED BY <2>1, Collected, SlotsInOrder
<1>3. ASSUME NEW n \in DOMAIN page
      PROVE  page[n].source = q.names[page[n].at]
  <2>1. page[n] \in Listable(q, leads[r])
    <3> HIDE DEF page
    <3> QED BY <1>1
  <2>2. PICK i \in DOMAIN q.names : page[n] \in Possible(q, leads[r], i)
    BY <2>1 DEF Listable
  <2> HIDE DEF page
  <2> QED BY <2>2 DEF Possible, Offer
<1> HIDE DEF all, page, q
<1>4. \A m, n \in DOMAIN page : m < n =>
        /\ page[m].at <= page[n].at
        /\ page[m].at = page[n].at => page[m].score >= page[n].score
        /\ page[n].source = q.names[page[n].at]
  BY <1>1, <1>2, <1>3
<1> QED BY <1>4 DEF Ordered, page, q

\* The page is complete: what it lists of a schedule is what is due.
LEMMA PageComplete ==
  ASSUME Semaphore, Types, Served, Next, NEW r \in Req, Pages(r)
  PROVE  Complete(r)
<1> DEFINE all == FlattenSeq(results[r])
           page == PageOf(r)
           q == query[r]
           S == Listable(q, leads[r])
<1> SUFFICES ASSUME NEW name \in Named(q), NEW k \in DOMAIN Inventory[name]
             PROVE  LET sched == Inventory[name][k]
                    IN  IF q.page > 0 /\ Len(page) = q.page
                        THEN Listed(r, name, sched) <= Due(r, name, sched)
                        ELSE Listed(r, name, sched) = Due(r, name, sched)
  BY DEF Complete
<1> DEFINE sched == Inventory[name][k]
           T == {e \in S : e.source = name /\ e.rule = sched.id}
<1>1. /\ page \in Seq(S)
      /\ Times(page, T) \in Nat /\ Times(all, T) \in Nat /\ Times(page, T) <= Times(all, T)
      /\ page = all \/ (q.page > 0 /\ Len(page) = q.page)
  BY Paged
<1>2. Listed(r, name, sched) = Times(page, T)
  <2>1. \A n \in DOMAIN page : page[n] \in T <=> page[n].source = name /\ page[n].rule = sched.id
    <3> HIDE DEF page, S, sched
    <3> QED BY <1>1
  <2>2. {n \in DOMAIN page : page[n] \in T} = {n \in DOMAIN page : page[n].source = name /\ page[n].rule = sched.id}
    <3> HIDE DEF page, T
    <3> QED BY <2>1
  <2> QED BY <2>2 DEF Listed, Times
<1>3. sched \in Range(Inventory[name])
  BY DEF Range
<1>4. Tells(T, S, name, sched)
  BY DEF Tells
<1>5. leads[r] \in Seq(Range(leads[r]))
  BY Collected, LeadsType
<1>6. Times(all, T) = IF sched.id \in lost[r] THEN 0
                      ELSE Occurrences(q, name) * copies[r][name] * PerCopy(q, leads[r], name, sched)
  <2>1. /\ q \in Queries /\ Valid(q) /\ copies[r] \in [Named(q) -> Nat]
        /\ Evaluated(q, leads[r], copies[r], lost[r], results[r])
    BY Collected
  <2> HIDE DEF T, sched, q
  <2> QED BY <1>3, <1>4, <1>5, <2>1, SlotsComplete
<1>7. Due(r, name, sched) = IF sched.id \in lost[r] THEN 0
                            ELSE Occurrences(q, name) * copies[r][name] * PerCopy(q, leads[r], name, sched)
  <2> DEFINE p == Cardinality(Passed(q, sched))
             o == Cardinality(Matching(leads[r], name))
             a == Occurrences(q, name) * copies[r][name]
             b == IF sched.type = "SALES_TARGET" THEN o ELSE 1
  <2>1. Due(r, name, sched) = IF sched.id \in lost[r] THEN 0 ELSE a * p * b
    BY DEF Due, Passed, Ways, Matching
  <2>2. PerCopy(q, leads[r], name, sched) = p * b
    BY DEF PerCopy
  <2>3. p \in Nat /\ b \in Nat
    BY <1>3, <1>5, Collected, QueryType, PassedFinite, MatchingFinite
  <2>4. a \in Nat
    <3>1. copies[r][name] \in Nat
      BY Collected
    <3>2. Occurrences(q, name) \in Nat
      <4>1. {i \in DOMAIN q.names : q.names[i] = name} \subseteq 1..Len(q.names) /\ Len(q.names) \in Nat
        BY Collected, QueryType
      <4>2. IsFiniteSet(1..Len(q.names))
        BY <4>1, FS_Interval
      <4>3. IsFiniteSet({i \in DOMAIN q.names : q.names[i] = name})
        BY <4>1, <4>2, FS_Subset
      <4> QED BY <4>3, FS_CardinalityType DEF Occurrences
    <3>3. \A x, y \in Nat : x * y \in Nat
      OBVIOUS
    <3> QED BY <3>1, <3>2, <3>3
  <2>5. a * p * b = a * (p * b)
    <3> HIDE DEF a, p, b
    <3> QED BY <2>3, <2>4
  <2> HIDE DEF p, b
  <2> QED BY <2>1, <2>2, <2>5
<1> HIDE DEF all, page, q, sched, T
<1>8. IF q.page > 0 /\ Len(page) = q.page
      THEN Listed(r, name, sched) <= Due(r, name, sched)
      ELSE Listed(r, name, sched) = Due(r, name, sched)
  BY <1>1, <1>2, <1>6, <1>7
<1> QED BY <1>8 DEF sched

\* A sales entry of the page is an offer to the customer.
LEMMA PageSales ==
  ASSUME Semaphore, Types, Served, Next, NEW r \in Req, Pages(r),
         NEW n \in DOMAIN PageOf(r), Sales(PageOf(r)[n])
  PROVE  Offered(PageOf(r)[n], query[r], leads[r])
<1>1. PageOf(r)[n] \in Listable(query[r], leads[r])
  BY Paged
<1> QED BY <1>1, Collected, SlotsSales

\* Every page lists the placements in the order of the query, and the entries
\* of each by falling score, in whatever order the goroutines ended.
THEOREM PagesAreRanked == Spec => RepliesRanked
<1>1. Semaphore /\ Types /\ Served /\ [Next]_vars =>
        [\A r \in Req : Pages(r) /\ (\A n \in DOMAIN leads[r] : leads[r][n].score # NaN) => Ordered(r)]_vars
  BY PageOrdered
<1> QED BY <1>1, InitSemaphore, NextSemaphore, InitTypes, NextTypes, InitServed, NextServed, PTL
        DEF Spec, RepliesRanked

\* Every page holds the entries of each schedule as often as they are due, a
\* page cut at pageSize no more often: no slot is lost, overwritten or read
\* before it is written.
THEOREM PagesAreComplete == Spec => RepliesComplete
<1>1. Semaphore /\ Types /\ Served /\ [Next]_vars => [\A r \in Req : Pages(r) => Complete(r)]_vars
  BY PageComplete
<1> QED BY <1>1, InitSemaphore, NextSemaphore, InitTypes, NextTypes, InitServed, NextServed, PTL
        DEF Spec, RepliesComplete

\* A SALES_TARGET entry of a page is one of the leads the request fetched for
\* that placement, and those are the customer's own in one answer of CLEN.
THEOREM SalesAreOffers == Spec => SalesNeedLead
<1>1. Semaphore /\ Types /\ Served /\ [Next]_vars =>
        [\A r \in Req : Pages(r) =>
           \A n \in DOMAIN PageOf(r) : Sales(PageOf(r)[n]) => Offered(PageOf(r)[n], query[r], leads[r])]_vars
  BY PageSales
<1> QED BY <1>1, InitSemaphore, NextSemaphore, InitTypes, NextTypes, InitServed, NextServed, PTL
        DEF Spec, SalesNeedLead
=============================================================================
