----------------------------- MODULE Recursion ------------------------------
(***************************************************************************)
(* Induction over the natural numbers, and the functions it defines.  The  *)
(* library's theorems take the property, or the definition, as an operator *)
(* parameter; these take a set of numbers and a function, and rest on the  *)
(* library's theorem that a set of natural numbers has a least element.    *)
(***************************************************************************)
EXTENDS Integers, WellFoundedInduction, TLAPS

\* Every set of natural numbers has a least one.
LEMMA LeastNat ==
  ASSUME NEW T \in SUBSET Nat, T # {}
  PROVE  \E x \in T : \A y \in T : x <= y
<1> DEFINE R == OpToRel(<, Nat)
<1>1. IsWellFoundedOn(R, Nat)
  BY NatLessThanWellFounded
<1>2. \A x, y \in Nat : x < y => <<x, y>> \in R
  BY DEF OpToRel
<1> HIDE DEF R
<1>3. PICK x \in T : \A y \in T : ~(<<y, x>> \in R)
  BY <1>1, WFMin
<1>4. ASSUME NEW y \in T
      PROVE  x <= y
  <2>1. SUFFICES ASSUME y < x PROVE FALSE
    OBVIOUS
  <2>2. <<y, x>> \in R
    BY <1>2, <2>1
  <2> QED BY <1>3, <2>2
<1> QED BY <1>3, <1>4

\* A set of natural numbers that has 0, and the successor of each of its
\* members, has all of them.
LEMMA NatInd ==
  ASSUME NEW T \in SUBSET Nat, 0 \in T, \A n \in T : n + 1 \in T
  PROVE  T = Nat
<1>1. SUFFICES ASSUME Nat \ T # {} PROVE FALSE
  OBVIOUS
<1>2. PICK x \in Nat \ T : \A y \in Nat \ T : x <= y
  BY <1>1, LeastNat
<1>3. x # 0 /\ x - 1 \in Nat /\ ~(x <= x - 1) /\ (x - 1) + 1 = x
  BY <1>2
<1>4. x - 1 \in T
  BY <1>2, <1>3
<1> QED BY <1>2, <1>3, <1>4

\* The same from 0 up to N.
LEMMA IntervalInd ==
  ASSUME NEW N \in Nat, NEW T, 0 \in T, \A n \in 0..N : n \in T /\ n < N => n + 1 \in T
  PROVE  0..N \subseteq T
<1> DEFINE U == {n \in Nat : n <= N => n \in T}
<1>1. U = Nat
  <2>1. U \in SUBSET Nat /\ 0 \in U
    OBVIOUS
  <2>2. \A n \in U : n + 1 \in U
    OBVIOUS
  <2> HIDE DEF U
  <2> QED BY <2>1, <2>2, NatInd
<1> QED BY <1>1

\* Values of S, each computed from its index and the one before.
IsRun(f, N, first, step) ==
  f[0] = first /\ \A i \in 1..N : f[i] = step[<<i, f[i - 1]>>]

LEMMA RunsUpTo ==
  ASSUME NEW S, NEW first \in S, NEW N \in Nat, NEW step \in [(1..N) \X S -> S]
  PROVE  \E f \in [0..N -> S] : IsRun(f, N, first, step)
<1> DEFINE T == {n \in 0..N : \E f \in [0..n -> S] : IsRun(f, n, first, step)}
<1>1. 0 \in T
  <2>1. [i \in 0..0 |-> first] \in [0..0 -> S] /\ IsRun([i \in 0..0 |-> first], 0, first, step)
    BY DEF IsRun
  <2> QED BY <2>1
<1>2. ASSUME NEW n \in 0..N, n \in T, n < N
      PROVE  n + 1 \in T
  <2>1. PICK f \in [0..n -> S] : IsRun(f, n, first, step)
    BY <1>2
  <2> DEFINE g == [i \in 0..(n + 1) |-> IF i = n + 1 THEN step[<<n + 1, f[n]>>] ELSE f[i]]
  <2>2. step[<<n + 1, f[n]>>] \in S
    BY <1>2
  <2>3. g \in [0..(n + 1) -> S]
    BY <2>2
  <2>4. g[0] = first
    BY <2>1 DEF IsRun
  <2>5. ASSUME NEW i \in 1..(n + 1)
        PROVE  g[i] = step[<<i, g[i - 1]>>]
    <3>1. CASE i = n + 1
      <4>1. n \in Nat /\ i - 1 = n /\ n # n + 1 /\ n \in 0..(n + 1) /\ n + 1 \in 0..(n + 1)
        BY <3>1
      <4>2. g[i - 1] = f[n] /\ g[i] = step[<<n + 1, f[n]>>]
        BY <3>1, <4>1
      <4> QED BY <3>1, <4>2
    <3>2. CASE i # n + 1
      <4>1. i \in 1..n /\ i - 1 \in 0..n /\ i - 1 # n + 1 /\ i \in 0..(n + 1) /\ i - 1 \in 0..(n + 1)
        BY <3>2
      <4>2. g[i] = f[i] /\ g[i - 1] = f[i - 1]
        BY <3>2, <4>1
      <4> QED BY <2>1, <4>1, <4>2 DEF IsRun
    <3> QED BY <3>1, <3>2
  <2>6. IsRun(g, n + 1, first, step)
    <3> HIDE DEF g
    <3> QED BY <2>4, <2>5 DEF IsRun
  <2> QED BY <1>2, <2>3, <2>6
<1>3. 0..N \subseteq T
  <2> HIDE DEF T
  <2> QED BY <1>1, <1>2, IntervalInd
<1> QED BY <1>3

\* Two runs agree.
LEMMA RunsAgree ==
  ASSUME NEW first, NEW step, NEW M \in Nat, NEW N \in Nat, M <= N, NEW f, NEW g,
         IsRun(f, M, first, step), IsRun(g, N, first, step)
  PROVE  \A i \in 0..M : f[i] = g[i]
<1> DEFINE T == {i \in 0..M : f[i] = g[i]}
<1>1. 0 \in T
  BY DEF IsRun
<1>2. ASSUME NEW i \in 0..M, i \in T, i < M
      PROVE  i + 1 \in T
  <2>1. i + 1 \in 0..M /\ i + 1 \in 1..M /\ i + 1 \in 1..N /\ (i + 1) - 1 = i
    BY <1>2
  <2>2. f[i + 1] = step[<<i + 1, f[i]>>]
    BY <2>1 DEF IsRun
  <2>3. g[i + 1] = step[<<i + 1, g[i]>>]
    BY <2>1 DEF IsRun
  <2> QED BY <1>2, <2>1, <2>2, <2>3
<1>3. 0..M \subseteq T
  <2> HIDE DEF T
  <2> QED BY <1>1, <1>2, IntervalInd
<1> QED BY <1>3

\* A run without end.
IsEndless(f, first, step) ==
  f[0] = first /\ \A i \in Nat \ {0} : f[i] = step[<<i, f[i - 1]>>]

LEMMA RunsForever ==
  ASSUME NEW S, NEW first \in S, NEW step \in [(Nat \ {0}) \X S -> S]
  PROVE  \E f \in [Nat -> S] : IsEndless(f, first, step)
<1> DEFINE upTo(n) == [p \in (1..n) \X S |-> step[p]]
           run(n) == CHOOSE f \in [0..n -> S] : IsRun(f, n, first, step)
           f == [n \in Nat |-> run(n)[n]]
<1>1. ASSUME NEW n \in Nat
      PROVE  run(n) \in [0..n -> S] /\ IsRun(run(n), n, first, step)
  <2>1. upTo(n) \in [(1..n) \X S -> S]
    OBVIOUS
  <2>2. PICK g \in [0..n -> S] : IsRun(g, n, first, upTo(n))
    <3> HIDE DEF upTo
    <3> QED BY <2>1, RunsUpTo
  <2>3. ASSUME NEW i \in 1..n
        PROVE  g[i] = step[<<i, g[i - 1]>>]
    <3>1. <<i, g[i - 1]>> \in (1..n) \X S
      OBVIOUS
    <3> QED BY <2>2, <3>1 DEF IsRun
  <2>4. IsRun(g, n, first, step)
    BY <2>2, <2>3 DEF IsRun
  <2> QED BY <2>4
<1> HIDE DEF run
<1>2. f \in [Nat -> S]
  BY <1>1
<1>3. f[0] = first
  BY <1>1 DEF IsRun
<1>4. ASSUME NEW i \in Nat \ {0}
      PROVE  f[i] = step[<<i, f[i - 1]>>]
  <2>1. i \in Nat /\ i - 1 \in Nat /\ i - 1 <= i /\ i - 1 \in 0..(i - 1) /\ i \in 1..i
    OBVIOUS
  <2>2. run(i - 1)[i - 1] = run(i)[i - 1]
    BY <1>1, <2>1, RunsAgree
  <2>3. run(i)[i] = step[<<i, run(i)[i - 1]>>]
    BY <1>1, <2>1 DEF IsRun
  <2> QED BY <2>1, <2>2, <2>3
<1>5. IsEndless(f, first, step)
  <2> HIDE DEF f
  <2> QED BY <1>3, <1>4 DEF IsEndless
<1> QED BY <1>2, <1>5

\* Functions that start alike, and each of whose values follows from the one
\* before, are alike.
LEMMA AlikeUpTo ==
  ASSUME NEW f, NEW g, NEW N \in Nat, f[0] = g[0],
         \A i \in 1..N : f[i - 1] = g[i - 1] => f[i] = g[i]
  PROVE  f[N] = g[N]
<1> DEFINE T == {i \in 0..N : f[i] = g[i]}
<1>1. 0 \in T
  OBVIOUS
<1>2. ASSUME NEW i \in 0..N, i \in T, i < N
      PROVE  i + 1 \in T
  <2>1. i + 1 \in 1..N /\ (i + 1) - 1 = i
    BY <1>2
  <2> QED BY <1>2, <2>1
<1>3. 0..N \subseteq T
  <2> HIDE DEF T
  <2> QED BY <1>1, <1>2, IntervalInd
<1> QED BY <1>3
=============================================================================
