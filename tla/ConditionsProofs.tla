-------------------------- MODULE ConditionsProofs --------------------------
(***************************************************************************)
(* Proofs about the conditions of a rule.                                  *)
(*                                                                         *)
(* That a rule decides what is written, DecidesWhatIsWritten, is shown in  *)
(* every state in which its conditions are of the types that are stored:   *)
(*  - siblings of distinct sequences are listed by their places            *)
(*    (Sorted), so that the conditions the loop of evalSiblings joins to   *)
(*    one another are those with no OR in between (JoinedByPlace);         *)
(*  - the loop holds, after each sibling, whether a run that an OR has     *)
(*    ended holds and whether the run it is in does (RunsReads), so its    *)
(*    result is whether some run holds (ChainReads);                       *)
(*  - no condition is at two depths (LevelsApart), so a tree of n          *)
(*    conditions is at most n deep (LevelsBounded) and it does not matter  *)
(*    how much further one looks;                                          *)
(*  - from the deepest level up, evalNode gives each condition the value   *)
(*    it is read with (NodeReads, ValuesRead).                             *)
(* The recursive definitions of the model are functions, that they satisfy *)
(* their equations is shown first.  The theorems about a single condition  *)
(* go through the forms a value may have.                                  *)
(***************************************************************************)
EXTENDS Conditions, Recursion, FiniteSetTheorems

\* The type invariant: every id holds a condition that may be stored there.
Kept ==
  /\ conditions \in [Node -> (UNION {Stored(n) : n \in Node}) \cup {None}]
  /\ \A n \in Node : conditions[n] \in Stored(n) \cup {None}
  /\ expected \in [Attr -> Expected \cup {Plain}]

\* Both edits keep to the types.
LEMMA AlwaysKept == Spec => []Kept
<1>1. Init => Kept
  BY DEF Init, Kept
<1>2. Kept /\ [Next]_vars => Kept'
  <2> SUFFICES ASSUME Kept, [Next]_vars PROVE Kept'
    OBVIOUS
  <2>1. ASSUME NEW changed \in SUBSET Node, SaveConditions(changed)
        PROVE  Kept'
    <3>1. PICK saved :
            /\ \A n \in changed : saved[n] \in Stored(n) \cup {None}
            /\ conditions' = [n \in Node |-> IF n \in changed THEN saved[n] ELSE conditions[n]]
      BY <2>1 DEF SaveConditions
    <3>2. \A n \in Node : conditions'[n] \in Stored(n) \cup {None}
      BY <3>1 DEF Kept
    <3>3. expected' = expected
      BY <2>1 DEF SaveConditions
    <3> QED BY <3>1, <3>2, <3>3 DEF Kept
  <2>2. ASSUME NEW attr \in Attr, EditExpected(attr)
        PROVE  Kept'
    BY <2>2 DEF EditExpected, Kept
  <2>3. CASE UNCHANGED vars
    BY <2>3 DEF vars, Kept
  <2> QED BY <2>1, <2>2, <2>3 DEF Next
<1> QED BY <1>1, <1>2, PTL DEF Spec

-----------------------------------------------------------------------------
(* Recursive definitions *)

\* The loop of evalSiblings computes what it says.
LEMMA RunsEquation ==
  ASSUME NEW siblings, NEW value, Len(siblings) \in Nat,
         \A i \in 1..Len(siblings) : value[siblings[i]] \in BOOLEAN
  PROVE  /\ Runs(siblings, value)[0] = [or |-> FALSE, run |-> FALSE]
         /\ \A i \in 1..Len(siblings) :
              Runs(siblings, value)[i] = Joins(siblings, value, i, Runs(siblings, value)[i - 1])
<1> DEFINE N == Len(siblings)
           S == [or : BOOLEAN, run : BOOLEAN]
           first == [or |-> FALSE, run |-> FALSE]
           step == [p \in (1..N) \X S |-> Joins(siblings, value, p[1], p[2])]
           Body(f) == [i \in 0..N |-> IF i = 0 THEN first ELSE Joins(siblings, value, i, f[i - 1])]
<1>1. step \in [(1..N) \X S -> S]
  BY DEF Joins
<1>2. first \in S
  OBVIOUS
<1>3. PICK f \in [0..N -> S] : IsRun(f, N, first, step)
  <2> HIDE DEF S, first, step
  <2> QED BY <1>1, <1>2, RunsUpTo
<1>4. f = Body(f)
  <2>1. ASSUME NEW i \in 1..N
        PROVE  f[i] = Joins(siblings, value, i, f[i - 1])
    <3> HIDE DEF N, S
    <3>1. i - 1 \in 0..N
      BY DEF N
    <3>2. <<i, f[i - 1]>> \in (1..N) \X S
      BY <3>1
    <3> QED BY <1>3, <3>2 DEF IsRun
  <2> HIDE DEF S
  <2> QED BY <1>3, <2>1 DEF IsRun
<1>5. Runs(siblings, value) = Body(Runs(siblings, value))
  <2>1. Runs(siblings, value) = CHOOSE g : g = Body(g)
    BY DEF Runs
  <2> HIDE DEF Body
  <2> QED BY <1>4, <2>1
<1>6. ASSUME NEW R, R = Body(R)
      PROVE  R[0] = first /\ \A i \in 1..N : R[i] = Joins(siblings, value, i, R[i - 1])
  <2>1. 0 \in 0..N /\ \A i \in 1..N : i \in 0..N /\ i # 0
    OBVIOUS
  <2> QED BY <1>6, <2>1
<1> QED BY <1>5, <1>6

\* Whatever the values below, a condition gives a verdict or an error.
LEMMA NodeValueType ==
  ASSUME NEW n \in Rule, NEW depth, NEW own, NEW below,
         conditions[n].leaf # None => own[n] \in BOOLEAN
  PROVE  NodeValue(n, depth, own, below) \in BOOLEAN \cup {Error}
<1> DEFINE children == IF depth < maxConditionDepth THEN Children(n) ELSE {}
           theirs == Chain(Siblings(children), below)
<1>1. theirs \in BOOLEAN \cup {Error}
  BY DEF Chain
<1> HIDE DEF children, theirs
<1>2. NodeValue(n, depth, own, below) =
        CASE children = {} -> IF conditions[n].leaf = None THEN TRUE ELSE own[n]
          [] children # {} /\ conditions[n].leaf = None -> theirs
          [] OTHER -> IF theirs = Error \/ own[n] = Error THEN Error
                      ELSE IF conditions[n].child = "OR" THEN own[n] \/ theirs ELSE own[n] /\ theirs
  BY DEF NodeValue, children, theirs
<1>3. CASE children = {}
  BY <1>2, <1>3
<1>4. CASE children # {} /\ conditions[n].leaf = None
  BY <1>1, <1>2, <1>4
<1>5. CASE children # {} /\ conditions[n].leaf # None
  BY <1>1, <1>2, <1>5
<1> QED BY <1>3, <1>4, <1>5

\* The values of the conditions at each depth are those of the equations.
LEMMA ValuesEquation ==
  ASSUME NEW own, \A n \in Rule : conditions[n].leaf # None => own[n] \in BOOLEAN
  PROVE  /\ Values(own)[0] = [n \in Rule |-> NodeValue(n, maxConditionDepth - 0, own, own)]
         /\ \A d \in Nat \ {0} : Values(own)[d] =
              [n \in Rule |-> NodeValue(n, maxConditionDepth - d, own, Values(own)[d - 1])]
<1> DEFINE S == [Rule -> BOOLEAN \cup {Error}]
           At(d, below) == [n \in Rule |-> NodeValue(n, maxConditionDepth - d, own, below)]
           first == At(0, own)
           step == [p \in (Nat \ {0}) \X S |-> At(p[1], p[2])]
           Body(f) == [d \in Nat |-> [n \in Rule |-> NodeValue(n, maxConditionDepth - d, own, IF d = 0 THEN own ELSE f[d - 1])]]
<1>1. \A d \in Nat : \A below : At(d, below) \in S
  BY NodeValueType
<1>2. step \in [(Nat \ {0}) \X S -> S] /\ first \in S
  <2> HIDE DEF At, S
  <2> QED BY <1>1
<1>3. PICK f \in [Nat -> S] : IsEndless(f, first, step)
  <2> HIDE DEF S, first, step
  <2> QED BY <1>2, RunsForever
<1>4. f = Body(f)
  <2>1. ASSUME NEW d \in Nat \ {0}
        PROVE  f[d] = At(d, f[d - 1])
    <3>1. <<d, f[d - 1]>> \in (Nat \ {0}) \X S
      OBVIOUS
    <3> QED BY <1>3, <3>1 DEF IsEndless
  <2> HIDE DEF S
  <2>2. \A d \in Nat : f[d] = At(d, IF d = 0 THEN own ELSE f[d - 1])
    BY <1>3, <2>1 DEF IsEndless
  <2> QED BY <2>2
<1>5. Values(own) = Body(Values(own))
  <2>1. Values(own) = CHOOSE g : g = Body(g)
    BY DEF Values
  <2> HIDE DEF Body
  <2> QED BY <1>4, <2>1
<1>6. ASSUME NEW V, V = Body(V)
      PROVE  V[0] = first /\ \A d \in Nat \ {0} : V[d] = At(d, V[d - 1])
  BY <1>6
<1> QED BY <1>5, <1>6

\* The conditions that hold, looking one level further down each time.
LEMMA HoldsEquation ==
  ASSUME NEW own
  PROVE  /\ HoldsWithin(own)[0] = {}
         /\ \A d \in Nat \ {0} :
              HoldsWithin(own)[d] = {n \in Rule : NodeHolds(n, own, HoldsWithin(own)[d - 1])}
<1> DEFINE S == SUBSET Rule
           At(below) == {n \in Rule : NodeHolds(n, own, below)}
           step == [p \in (Nat \ {0}) \X S |-> At(p[2])]
           Body(f) == [d \in Nat |-> IF d = 0 THEN {} ELSE {n \in Rule : NodeHolds(n, own, f[d - 1])}]
<1>1. step \in [(Nat \ {0}) \X S -> S] /\ {} \in S
  OBVIOUS
<1>2. PICK f \in [Nat -> S] : IsEndless(f, {}, step)
  <2> HIDE DEF S, step
  <2> QED BY <1>1, RunsForever
<1>3. f = Body(f)
  <2>1. ASSUME NEW d \in Nat \ {0}
        PROVE  f[d] = At(f[d - 1])
    <3>1. <<d, f[d - 1]>> \in (Nat \ {0}) \X S
      OBVIOUS
    <3> QED BY <1>2, <3>1 DEF IsEndless
  <2> HIDE DEF S
  <2> QED BY <1>2, <2>1 DEF IsEndless
<1>4. HoldsWithin(own) = Body(HoldsWithin(own))
  <2>1. HoldsWithin(own) = CHOOSE g : g = Body(g)
    BY DEF HoldsWithin
  <2> HIDE DEF Body
  <2> QED BY <1>3, <2>1
<1>5. ASSUME NEW V, V = Body(V)
      PROVE  V[0] = {} /\ \A d \in Nat \ {0} : V[d] = At(V[d - 1])
  BY <1>5
<1> QED BY <1>4, <1>5

\* Each level is the children of the one above, from the parent of the roots.
LEMMA LevelsEquation ==
  /\ Levels[0] = {None}
  /\ \A d \in Nat \ {0} : Levels[d] = UNION {Children(n) : n \in Levels[d - 1]}
<1> DEFINE S == SUBSET (Rule \cup {None})
           At(above) == UNION {Children(n) : n \in above}
           step == [p \in (Nat \ {0}) \X S |-> At(p[2])]
           Body(f) == [d \in Nat |-> IF d = 0 THEN {None} ELSE UNION {Children(n) : n \in f[d - 1]}]
<1>1. step \in [(Nat \ {0}) \X S -> S] /\ {None} \in S
  BY DEF Children
<1>2. PICK f \in [Nat -> S] : IsEndless(f, {None}, step)
  <2> HIDE DEF S, step
  <2> QED BY <1>1, RunsForever
<1>3. f = Body(f)
  <2>1. ASSUME NEW d \in Nat \ {0}
        PROVE  f[d] = At(f[d - 1])
    <3>1. <<d, f[d - 1]>> \in (Nat \ {0}) \X S
      OBVIOUS
    <3> QED BY <1>2, <3>1 DEF IsEndless
  <2> HIDE DEF S
  <2> QED BY <1>2, <2>1 DEF IsEndless
<1>4. Levels = Body(Levels)
  <2>1. Levels = CHOOSE g : g = Body(g)
    BY DEF Levels
  <2> HIDE DEF Body
  <2> QED BY <1>3, <2>1
<1>5. ASSUME NEW V, V = Body(V)
      PROVE  V[0] = {None} /\ \A d \in Nat \ {0} : V[d] = At(V[d - 1])
  BY <1>5
<1> QED BY <1>4, <1>5

-----------------------------------------------------------------------------
(* Siblings in order *)

\* The order of siblings is total on the conditions of a rule.
LEMMA Order ==
  ASSUME Kept
  PROVE  /\ Rule \in SUBSET Node /\ IsFiniteSet(Rule) /\ None \notin Rule
         /\ \A m \in Rule : m \in Nat /\ conditions[m].sequence \in Int
         /\ \A m \in Rule : ~Precedes(m, m)
         /\ \A m, n \in Rule : m = n \/ Precedes(m, n) \/ Precedes(n, m)
         /\ \A k, m, n \in Rule : Precedes(k, m) /\ Precedes(m, n) => Precedes(k, n)
<1>1. Rule \in SUBSET Node /\ IsFiniteSet(Rule) /\ None \notin Rule
  BY ConditionsAssumption, FS_Subset DEF Rule
<1>2. \A m \in Rule : m \in Nat /\ conditions[m].sequence \in Int
  BY ConditionsAssumption DEF Rule, Kept
<1> QED BY <1>1, <1>2 DEF Precedes

\* The places of siblings are the numbers from 1 to how many there are.
LEMMA Places ==
  ASSUME Kept, NEW members \in SUBSET Rule
  PROVE  /\ Cardinality(members) \in Nat
         /\ \A m \in members : Place(m, members) \in 1..Cardinality(members)
         /\ \A m, n \in members : Precedes(m, n) => Place(m, members) < Place(n, members)
         /\ \A i \in 1..Cardinality(members) : \E m \in members : Place(m, members) = i
<1> DEFINE N == Cardinality(members)
           Upto(m) == {k \in members : k = m \/ Precedes(k, m)}
<1>1. IsFiniteSet(members) /\ N \in Nat
  BY Order, FS_Subset, FS_CardinalityType
<1>2. ASSUME NEW m \in members
      PROVE  /\ IsFiniteSet(Upto(m)) /\ Place(m, members) = Cardinality(Upto(m))
             /\ Place(m, members) \in Nat /\ Place(m, members) \in 1..N
  <2>1. IsFiniteSet(Upto(m)) /\ Cardinality(Upto(m)) <= N
    BY <1>1, FS_Subset
  <2>2. Cardinality(Upto(m)) \in Nat /\ Cardinality(Upto(m)) # 0
    BY <2>1, FS_CardinalityType, FS_EmptySet
  <2>3. Place(m, members) = Cardinality(Upto(m))
    BY DEF Place
  <2>4. ASSUME NEW c \in Nat, c # 0, c <= N
        PROVE  c \in 1..N
    BY <1>1, <2>4
  <2> HIDE DEF Upto, N
  <2> QED BY <2>1, <2>2, <2>3, <2>4
<1>3. ASSUME NEW m \in members, NEW n \in members, Precedes(m, n)
      PROVE  Place(m, members) < Place(n, members)
  <2>1. Upto(m) \in SUBSET Upto(n) /\ n \in Upto(n) /\ n \notin Upto(m)
    BY <1>3, Order
  <2>2. Cardinality(Upto(m)) <= Cardinality(Upto(n)) /\ Cardinality(Upto(m)) # Cardinality(Upto(n))
    <3> HIDE DEF Upto
    <3> QED BY <1>2, <2>1, FS_Subset
  <2> HIDE DEF Upto
  <2> QED BY <1>2, <2>2
<1>4. ASSUME NEW i \in 1..N
      PROVE  \E m \in members : Place(m, members) = i
  <2> DEFINE place == [m \in members |-> Place(m, members)]
  <2>1. place \in Injection(members, 1..N)
    <3>1. ASSUME NEW m \in members, NEW n \in members, m # n
          PROVE  place[m] # place[n]
      <4>1. Precedes(m, n) \/ Precedes(n, m)
        BY <3>1, Order
      <4>2. Place(m, members) < Place(n, members) \/ Place(n, members) < Place(m, members)
        BY <1>3, <4>1
      <4>3. Place(m, members) \in Nat /\ Place(n, members) \in Nat
        BY <1>2
      <4> QED BY <4>2, <4>3
    <3>2. place \in [members -> 1..N]
      BY <1>2
    <3> HIDE DEF place
    <3> QED BY <3>1, <3>2 DEF Injection, IsInjective
  <2>2. IsFiniteSet(1..N) /\ Cardinality(1..N) = N
    BY <1>1, FS_Interval
  <2>3. place \in Surjection(members, 1..N)
    <3> HIDE DEF place
    <3> QED BY <2>1, <2>2, FS_Injection
  <2> QED BY <2>3 DEF Surjection
<1> QED BY <1>1, <1>2, <1>3, <1>4

\* Siblings are listed once each, in their order.
LEMMA Sorted ==
  ASSUME Kept, NEW members \in SUBSET Rule
  PROVE  LET siblings == Siblings(members)
             N == Cardinality(members)
         IN /\ N \in Nat /\ siblings \in [1..N -> members] /\ Len(siblings) = N
            /\ \A m \in members : \E i \in 1..N : siblings[i] = m
            /\ \A i, j \in 1..N : i < j => Precedes(siblings[i], siblings[j])
<1> DEFINE N == Cardinality(members)
           siblings == Siblings(members)
<1>1. N \in Nat
  BY Places
<1>2. ASSUME NEW i \in 1..N
      PROVE  siblings[i] \in members /\ Place(siblings[i], members) = i
  <2>1. siblings[i] = CHOOSE m \in members : Place(m, members) = i
    BY DEF Siblings
  <2> QED BY <2>1, Places
<1>3. siblings \in [1..N -> members]
  <2>1. siblings = [i \in 1..N |-> siblings[i]]
    BY DEF Siblings
  <2> HIDE DEF siblings
  <2> QED BY <1>2, <2>1
<1> HIDE DEF siblings
<1>4. Len(siblings) = N
  BY <1>1, <1>3
<1>5. ASSUME NEW m \in members
      PROVE  \E i \in 1..N : siblings[i] = m
  <2> DEFINE i == Place(m, members)
  <2>1. i \in 1..N /\ Place(siblings[i], members) = i /\ siblings[i] \in members
    BY <1>2, Places
  <2>2. ~Precedes(m, siblings[i]) /\ ~Precedes(siblings[i], m)
    BY <2>1, Places
  <2>3. siblings[i] = m
    BY <2>1, <2>2, Order
  <2> QED BY <2>1, <2>3
<1>6. ASSUME NEW i \in 1..N, NEW j \in 1..N, i < j
      PROVE  Precedes(siblings[i], siblings[j])
  <2>1. siblings[i] # siblings[j] /\ ~Precedes(siblings[j], siblings[i])
    BY <1>2, <1>6, Places
  <2> QED BY <1>2, <2>1, Order
<1> QED BY <1>1, <1>3, <1>4, <1>5, <1>6 DEF siblings

-----------------------------------------------------------------------------
(* A chain of siblings *)

\* By the positions of siblings in their order: an OR after the j-th, no OR
\* from the i-th up to the k-th, the run that the i-th is in holds up to it,
\* and a run that ended before the i-th holds.
Ends(s, j) == conditions[s[j]].connector = "OR"
Clear(s, i, k) == \A j \in i..(k - 1) : ~Ends(s, j)
RunHolds(s, held, i) == \A k \in 1..i : Clear(s, k, i) => s[k] \in held
PastHolds(s, held, i) == \E m \in 1..(i - 1) : Ends(s, m) /\ RunHolds(s, held, m)

\* No OR lies before the next sibling: none before this one, nor after it.
LEMMA ClearOneMore ==
  ASSUME NEW s, NEW i \in Nat, NEW k \in 1..i
  PROVE  Clear(s, k, i + 1) <=> Clear(s, k, i) /\ ~Ends(s, i)
<1>1. \A j \in k..((i + 1) - 1) : j \in k..(i - 1) \/ j = i
  OBVIOUS
<1>2. i \in k..((i + 1) - 1) /\ \A j \in k..(i - 1) : j \in k..((i + 1) - 1)
  OBVIOUS
<1> QED BY <1>1, <1>2 DEF Clear

\* What one more sibling adds to the run it is in and to the runs that ended.
LEMMA OneMore ==
  ASSUME NEW s, NEW held, NEW i \in Nat
  PROVE  /\ RunHolds(s, held, i + 1) <=>
              /\ s[i + 1] \in held
              /\ i >= 1 /\ ~Ends(s, i) => RunHolds(s, held, i)
         /\ PastHolds(s, held, i + 1) <=>
              \/ PastHolds(s, held, i)
              \/ i >= 1 /\ Ends(s, i) /\ RunHolds(s, held, i)
<1>1. /\ i + 1 \in 1..(i + 1) /\ \A k \in 1..i : k \in 1..(i + 1)
      /\ \A k \in 1..(i + 1) : k \in 1..i \/ k = i + 1
  OBVIOUS
<1>2. Clear(s, i + 1, i + 1)
  BY DEF Clear
<1>3. \A k \in 1..i : Clear(s, k, i + 1) <=> Clear(s, k, i) /\ ~Ends(s, i)
  BY ClearOneMore
<1>4. RunHolds(s, held, i + 1) <=>
        s[i + 1] \in held /\ \A k \in 1..i : Clear(s, k, i) /\ ~Ends(s, i) => s[k] \in held
  BY <1>1, <1>2, <1>3 DEF RunHolds
<1>5. (\A k \in 1..i : Clear(s, k, i) /\ ~Ends(s, i) => s[k] \in held) <=>
        (i >= 1 /\ ~Ends(s, i) => RunHolds(s, held, i))
  BY DEF RunHolds
<1>6. PastHolds(s, held, i + 1) <=> \E m \in 1..i : Ends(s, m) /\ RunHolds(s, held, m)
  <2>1. (i + 1) - 1 = i
    OBVIOUS
  <2> QED BY <2>1 DEF PastHolds
<1>7. (i >= 1 => i \in 1..i) /\ \A m \in 1..i : i >= 1 /\ (m = i \/ m \in 1..(i - 1))
  OBVIOUS
<1>8. \A m \in 1..(i - 1) : m \in 1..i
  OBVIOUS
<1> QED BY <1>4, <1>5, <1>6, <1>7, <1>8 DEF PastHolds

\* What the loop of evalSiblings has computed after each sibling.
LEMMA RunsReads ==
  ASSUME NEW s, NEW value, NEW held, Len(s) \in Nat,
         \A i \in 1..Len(s) : value[s[i]] \in BOOLEAN /\ (value[s[i]] <=> s[i] \in held)
  PROVE  \A i \in 0..Len(s) :
           /\ Runs(s, value)[i].or \in BOOLEAN /\ Runs(s, value)[i].run \in BOOLEAN
           /\ Runs(s, value)[i].or <=> PastHolds(s, held, i)
           /\ Runs(s, value)[i].run <=> i >= 1 /\ RunHolds(s, held, i)
<1> DEFINE R == Runs(s, value)
           P(i) == /\ R[i].or \in BOOLEAN /\ R[i].run \in BOOLEAN
                   /\ R[i].or <=> PastHolds(s, held, i)
                   /\ R[i].run <=> i >= 1 /\ RunHolds(s, held, i)
           T == {i \in 0..Len(s) : P(i)}
<1>1. /\ R[0] = [or |-> FALSE, run |-> FALSE]
      /\ \A i \in 1..Len(s) : R[i] = Joins(s, value, i, R[i - 1])
  BY RunsEquation
<1> HIDE DEF R
<1>2. P(0)
  <2>1. R[0].or = FALSE /\ R[0].run = FALSE
    BY <1>1
  <2>2. ~PastHolds(s, held, 0)
    BY DEF PastHolds
  <2>3. /\ R[0].or \in BOOLEAN /\ R[0].run \in BOOLEAN
        /\ ~R[0].or /\ ~R[0].run
    BY <2>1
  <2>4. ~(0 >= 1)
    OBVIOUS
  <2> QED BY <2>2, <2>3, <2>4, Zenon
<1>3. ASSUME NEW i \in 0..Len(s), P(i), i < Len(s)
      PROVE  P(i + 1)
  <2>1. i + 1 \in 1..Len(s) /\ (i + 1) - 1 = i /\ i \in Nat /\ (i + 1 > 1 <=> i >= 1)
    BY <1>3
  <2>2. R[i + 1] = Joins(s, value, i + 1, R[i])
    BY <1>1, <2>1
  <2>3. value[s[i + 1]] \in BOOLEAN /\ (value[s[i + 1]] <=> s[i + 1] \in held)
    BY <2>1
  <2>4. CASE i >= 1 /\ ~Ends(s, i)
    <3> DEFINE v == R[i].run /\ value[s[i + 1]]
    <3>0. v \in BOOLEAN /\ (v <=> R[i].run /\ value[s[i + 1]])
      OBVIOUS
    <3>1. R[i + 1] = [or |-> R[i].or, run |-> v]
      BY <2>1, <2>2, <2>4 DEF Joins, Ends
    <3>2. /\ RunHolds(s, held, i + 1) <=> s[i + 1] \in held /\ RunHolds(s, held, i)
          /\ PastHolds(s, held, i + 1) <=> PastHolds(s, held, i)
      BY <2>1, <2>4, OneMore
    <3> HIDE DEF v
    <3>3. R[i + 1].or = R[i].or /\ R[i + 1].run = v
      BY <3>1
    <3> QED BY <1>3, <2>1, <2>3, <2>4, <3>0, <3>2, <3>3
  <2>5. CASE ~(i >= 1 /\ ~Ends(s, i))
    <3> DEFINE v == R[i].or \/ R[i].run
    <3>0. v \in BOOLEAN /\ (v <=> R[i].or \/ R[i].run)
      OBVIOUS
    <3>1. R[i + 1] = [or |-> v, run |-> value[s[i + 1]]]
      BY <2>1, <2>2, <2>5 DEF Joins, Ends
    <3>2. /\ RunHolds(s, held, i + 1) <=> s[i + 1] \in held
          /\ PastHolds(s, held, i + 1) <=> PastHolds(s, held, i) \/ (i >= 1 /\ RunHolds(s, held, i))
      BY <2>1, <2>5, OneMore
    <3> HIDE DEF v
    <3>3. R[i + 1].or = v /\ R[i + 1].run = value[s[i + 1]]
      BY <3>1
    <3> QED BY <1>3, <2>1, <2>3, <2>5, <3>0, <3>2, <3>3
  <2> QED BY <2>4, <2>5
<1>4. 0..Len(s) \subseteq T
  <2>1. 0 \in T
    BY <1>2
  <2>2. \A i \in 0..Len(s) : i \in T /\ i < Len(s) => i + 1 \in T
    BY <1>3
  <2> HIDE DEF T
  <2> QED BY <2>1, <2>2, IntervalInd
<1> QED BY <1>4 DEF R

\* With distinct sequences, what a chain of ANDs joins to a sibling is what no
\* OR separates from it in their order.
LEMMA JoinedByPlace ==
  ASSUME Kept, NEW members \in SUBSET Rule,
         \A m, n \in members : m # n => conditions[m].sequence # conditions[n].sequence,
         NEW i \in 1..Cardinality(members), NEW k \in 1..Cardinality(members)
  PROVE  LET s == Siblings(members)
         IN s[k] \in Joined(s[i], members) <=>
              (i <= k => Clear(s, i, k)) /\ (k <= i => Clear(s, k, i))
<1> DEFINE s == Siblings(members)
           N == Cardinality(members)
           seq(m) == conditions[m].sequence
<1>1. /\ N \in Nat /\ \A j \in 1..N : s[j] \in members
      /\ \A m \in members : \E j \in 1..N : s[j] = m
      /\ \A p, q \in 1..N : p < q => Precedes(s[p], s[q])
  BY Sorted
<1> HIDE DEF s
<1>2. \A m \in members : seq(m) \in Int
  BY Order
<1>3. \A p, q \in 1..N : p < q => seq(s[p]) < seq(s[q])
  <2>1. ASSUME NEW p \in 1..N, NEW q \in 1..N, p < q
        PROVE  seq(s[p]) < seq(s[q])
    <3>1. Precedes(s[p], s[q]) /\ s[p] \in members /\ s[q] \in members
      BY <1>1, <2>1
    <3>2. s[p] # s[q]
      BY <3>1, Order
    <3> QED BY <1>2, <3>1, <3>2 DEF Precedes
  <2> QED BY <2>1
<1>4. \A p, q \in 1..N : (p < q <=> seq(s[p]) < seq(s[q])) /\ (p <= q <=> seq(s[p]) <= seq(s[q]))
  <2>1. ASSUME NEW p \in 1..N, NEW q \in 1..N
        PROVE  (p < q <=> seq(s[p]) < seq(s[q])) /\ (p <= q <=> seq(s[p]) <= seq(s[q]))
    <3>1. seq(s[p]) \in Int /\ seq(s[q]) \in Int
      BY <1>1, <1>2
    <3>2. p < q \/ q < p \/ p = q
      BY <1>1
    <3>3. /\ p < q => seq(s[p]) < seq(s[q])
          /\ q < p => seq(s[q]) < seq(s[p])
      BY <1>3
    <3> HIDE DEF seq
    <3> QED BY <1>1, <3>1, <3>2, <3>3
  <2> QED BY <2>1
<1>5. ASSUME NEW p \in members, NEW q \in members
      PROVE  q \in Joined(p, members) <=>
               \A m \in members :
                 (seq(p) <= seq(m) /\ seq(m) < seq(q)) \/ (seq(q) <= seq(m) /\ seq(m) < seq(p))
                 => conditions[m].connector # "OR"
  BY DEF Joined
<1> HIDE DEF seq
<1>6. s[k] \in Joined(s[i], members) <=>
        \A j \in 1..N :
          (seq(s[i]) <= seq(s[j]) /\ seq(s[j]) < seq(s[k])) \/ (seq(s[k]) <= seq(s[j]) /\ seq(s[j]) < seq(s[i]))
          => ~Ends(s, j)
  <2>1. s[i] \in members /\ s[k] \in members
    BY <1>1
  <2>2. s[k] \in Joined(s[i], members) <=>
          \A m \in members :
            (seq(s[i]) <= seq(m) /\ seq(m) < seq(s[k])) \/ (seq(s[k]) <= seq(m) /\ seq(m) < seq(s[i]))
            => conditions[m].connector # "OR"
    BY <1>5, <2>1
  <2> QED BY <1>1, <2>2 DEF Ends
<1>7. s[k] \in Joined(s[i], members) <=>
        \A j \in 1..N : (i <= j /\ j < k) \/ (k <= j /\ j < i) => ~Ends(s, j)
  <2>1. ASSUME NEW j \in 1..N
        PROVE  (seq(s[i]) <= seq(s[j]) /\ seq(s[j]) < seq(s[k])) \/ (seq(s[k]) <= seq(s[j]) /\ seq(s[j]) < seq(s[i]))
               <=> (i <= j /\ j < k) \/ (k <= j /\ j < i)
    BY <1>4
  <2> QED BY <1>6, <2>1, Zenon
<1>8. /\ (i <= k => Clear(s, i, k)) <=> \A j \in 1..N : i <= j /\ j < k => ~Ends(s, j)
      /\ (k <= i => Clear(s, k, i)) <=> \A j \in 1..N : k <= j /\ j < i => ~Ends(s, j)
  BY <1>1 DEF Clear
<1> QED BY <1>7, <1>8 DEF s

\* The run that ends at or after the i-th sibling.
LEMMA NextEnd ==
  ASSUME NEW s, NEW N \in Nat, NEW i \in 1..N
  PROVE  \E m \in i..N : (Ends(s, m) \/ m = N) /\ Clear(s, i, m)
<1> DEFINE T == {m \in i..N : Ends(s, m) \/ m = N}
<1>1. T \in SUBSET Nat /\ N \in T
  OBVIOUS
<1>2. PICK m \in T : \A j \in T : m <= j
  <2> HIDE DEF T
  <2> QED BY <1>1, LeastNat
<1>3. \A j \in i..(m - 1) : j \in i..N /\ ~(m <= j)
  BY <1>2
<1>4. Clear(s, i, m)
  BY <1>2, <1>3 DEF Clear
<1> QED BY <1>2, <1>4

\* Some run of the chain holds exactly when some sibling has everything that is
\* joined to it hold.
LEMMA RunsAreRead ==
  ASSUME Kept, NEW members \in SUBSET Rule, NEW held,
         \A m, n \in members : m # n => conditions[m].sequence # conditions[n].sequence
  PROVE  LET s == Siblings(members)
             N == Cardinality(members)
         IN SomeRunHolds(members, held) <=>
              \E m \in 1..N : (Ends(s, m) \/ m = N) /\ RunHolds(s, held, m)
<1> DEFINE s == Siblings(members)
           N == Cardinality(members)
<1>1. /\ N \in Nat /\ \A j \in 1..N : s[j] \in members
      /\ \A m \in members : \E j \in 1..N : s[j] = m
  BY Sorted
<1>2. \A i, k \in 1..N : s[k] \in Joined(s[i], members) <=>
                         (i <= k => Clear(s, i, k)) /\ (k <= i => Clear(s, k, i))
  BY JoinedByPlace
<1>3. \A i \in 1..N : Joined(s[i], members) \subseteq members
  BY DEF Joined
<1> HIDE DEF s, N
<1>4. ASSUME NEW i \in 1..N, Joined(s[i], members) \subseteq held
      PROVE  \E m \in 1..N : (Ends(s, m) \/ m = N) /\ RunHolds(s, held, m)
  <2>1. PICK m \in i..N : (Ends(s, m) \/ m = N) /\ Clear(s, i, m)
    BY <1>1, NextEnd
  <2>2. ASSUME NEW k \in 1..m, Clear(s, k, m)
        PROVE  s[k] \in held
    <3>1. k \in 1..N /\ m \in Nat
      BY <1>1
    <3>2. i <= k => Clear(s, i, k)
      BY <1>1, <2>1, <3>1 DEF Clear
    <3>3. k <= i => Clear(s, k, i)
      BY <1>1, <2>2, <3>1 DEF Clear
    <3> QED BY <1>2, <1>4, <3>1, <3>2, <3>3
  <2>3. m \in 1..N
    BY <1>1
  <2> QED BY <2>1, <2>2, <2>3 DEF RunHolds
<1>5. ASSUME NEW m \in 1..N, Ends(s, m) \/ m = N, RunHolds(s, held, m)
      PROVE  Joined(s[m], members) \subseteq held
  <2>1. ASSUME NEW k \in 1..N, s[k] \in Joined(s[m], members)
        PROVE  s[k] \in held
    <3>1. CASE k <= m
      <4>1. Clear(s, k, m) /\ k \in 1..m
        BY <1>2, <2>1, <3>1
      <4> QED BY <1>5, <4>1 DEF RunHolds
    <3>2. CASE ~(k <= m)
      <4>1. m <= k /\ Clear(s, m, k) /\ m \in m..(k - 1) /\ m # N
        BY <1>1, <1>2, <2>1, <3>2
      <4> QED BY <1>5, <4>1 DEF Clear
    <3> QED BY <3>1, <3>2
  <2> QED BY <1>1, <1>3, <2>1
<1>6. SomeRunHolds(members, held) <=> \E i \in 1..N : Joined(s[i], members) \subseteq held
  BY <1>1 DEF SomeRunHolds
<1> QED BY <1>4, <1>5, <1>6 DEF s, N

\* evalSiblings decides what the chain says: AND binds tighter than OR.
LEMMA ChainReads ==
  ASSUME Kept, NEW members \in SUBSET Rule, NEW value, NEW held,
         \A m, n \in members : m # n => conditions[m].sequence # conditions[n].sequence,
         \A m \in members : value[m] \in BOOLEAN /\ (value[m] <=> m \in held)
  PROVE  /\ Chain(Siblings(members), value) \in BOOLEAN
         /\ Chain(Siblings(members), value) <=> SomeRunHolds(members, held)
<1> DEFINE s == Siblings(members)
           N == Cardinality(members)
           R == Runs(s, value)
<1>1. N \in Nat /\ s \in [1..N -> members] /\ Len(s) = N
  BY Sorted
<1>2. SomeRunHolds(members, held) <=>
        \E m \in 1..N : (Ends(s, m) \/ m = N) /\ RunHolds(s, held, m)
  BY RunsAreRead
<1> HIDE DEF s, N
<1>3. \A i \in 1..Len(s) : value[s[i]] \in BOOLEAN /\ (value[s[i]] <=> s[i] \in held)
  BY <1>1
<1>4. /\ R[N].or \in BOOLEAN /\ R[N].run \in BOOLEAN
      /\ R[N].or <=> PastHolds(s, held, N)
      /\ R[N].run <=> N >= 1 /\ RunHolds(s, held, N)
  <2>1. N \in 0..Len(s)
    BY <1>1
  <2> QED BY <1>1, <1>3, <2>1, RunsReads
<1>5. ~\E i \in DOMAIN s : value[s[i]] = Error
  BY <1>1, <1>3, ConditionsAssumption
<1> HIDE DEF R
<1>6. Chain(s, value) = (R[N].or \/ R[N].run)
  BY <1>1, <1>5 DEF Chain, R
<1>7. PastHolds(s, held, N) \/ (N >= 1 /\ RunHolds(s, held, N)) <=>
        \E m \in 1..N : (Ends(s, m) \/ m = N) /\ RunHolds(s, held, m)
  <2>1. \A m \in 1..N : m = N \/ m \in 1..(N - 1)
    BY <1>1
  <2>2. (\A m \in 1..(N - 1) : m \in 1..N) /\ (N >= 1 <=> N \in 1..N)
    BY <1>1
  <2> QED BY <2>1, <2>2 DEF PastHolds
<1>8. /\ Chain(s, value) \in BOOLEAN
      /\ Chain(s, value) <=> SomeRunHolds(members, held)
  <2> DEFINE verdict == R[N].or \/ R[N].run
  <2>1. verdict \in BOOLEAN /\ (verdict <=> SomeRunHolds(members, held))
    BY <1>2, <1>4, <1>7
  <2>2. Chain(s, value) = verdict
    BY <1>6
  <2> HIDE DEF verdict
  <2> QED BY <2>1, <2>2
<1> QED BY <1>8 DEF s

-----------------------------------------------------------------------------
(* Levels *)

\* The roots are at depth 1.
LEMMA FirstLevel == Levels[1] = Children(None)
<1>1. 1 \in Nat \ {0} /\ 1 - 1 = 0
  OBVIOUS
<1>2. Levels[1] = UNION {Children(n) : n \in {None}}
  BY <1>1, LevelsEquation
<1> QED BY <1>2

\* A level has conditions only, whose children are at the next level.
LEMMA NextLevel ==
  ASSUME NEW d \in Nat \ {0}
  PROVE  /\ Levels[d] \in SUBSET Rule
         /\ \A n \in Levels[d] : Children(n) \subseteq Levels[d + 1]
         /\ \A n \in Levels[d + 1] : conditions[n].parent \in Levels[d]
<1>1. Levels[d] = UNION {Children(n) : n \in Levels[d - 1]}
  BY LevelsEquation
<1>2. Levels[d + 1] = UNION {Children(n) : n \in Levels[d]}
  <2>1. d + 1 \in Nat \ {0} /\ (d + 1) - 1 = d
    OBVIOUS
  <2> QED BY <2>1, LevelsEquation
<1> QED BY <1>1, <1>2 DEF Children

\* A condition is at one level only.
LEMMA LevelsApart ==
  ASSUME Kept, NEW i \in Nat \ {0}, NEW g \in Nat \ {0}
  PROVE  Levels[i] \cap Levels[i + g] = {}
<1> DEFINE T == {d \in Nat : Levels[d + 1] \cap Levels[(d + 1) + g] = {}}
<1>1. 0 \in T
  <2>1. 0 + 1 = 1 /\ (0 + 1) + g = g + 1
    OBVIOUS
  <2>2. \A n \in Levels[g + 1] : conditions[n].parent \in Rule
    BY NextLevel
  <2>3. \A n \in Levels[1] : conditions[n].parent = None
    BY FirstLevel DEF Children
  <2> QED BY <2>1, <2>2, <2>3, Order
<1>2. ASSUME NEW d \in T
      PROVE  d + 1 \in T
  <2>1. /\ d + 1 \in Nat \ {0} /\ (d + 1) + g \in Nat \ {0}
        /\ ((d + 1) + 1) + g = ((d + 1) + g) + 1
    OBVIOUS
  <2>2. \A n \in Levels[(d + 1) + 1] : conditions[n].parent \in Levels[d + 1]
    BY <2>1, NextLevel
  <2>3. \A n \in Levels[((d + 1) + g) + 1] : conditions[n].parent \in Levels[(d + 1) + g]
    BY <2>1, NextLevel
  <2>4. Levels[(d + 1) + 1] \cap Levels[((d + 1) + 1) + g] = {}
    BY <2>1, <2>2, <2>3
  <2> QED BY <2>1, <2>4
<1>3. T = Nat
  <2>1. T \in SUBSET Nat
    OBVIOUS
  <2> HIDE DEF T
  <2> QED BY <1>1, <1>2, <2>1, NatInd
<1>4. i - 1 \in T /\ (i - 1) + 1 = i
  <2> HIDE DEF T
  <2> QED BY <1>3
<1> QED BY <1>4

\* A level that is not empty has at least as many conditions at it and above it
\* as its depth, so no tree is deeper than the number of its conditions.
LEMMA LevelsBounded ==
  ASSUME Kept
  PROVE  Levels[Cardinality(Rule) + 1] = {}
<1> DEFINE Above(d) == UNION {Levels[k] : k \in 1..d}
           T == {d \in Nat : Levels[d] # {} => Cardinality(Above(d)) >= d}
<1>1. ASSUME NEW d \in Nat
      PROVE  /\ Above(d) \in SUBSET Rule /\ IsFiniteSet(Above(d)) /\ Cardinality(Above(d)) \in Nat
             /\ Cardinality(Above(d)) <= Cardinality(Rule) /\ Cardinality(Rule) \in Nat
  <2>1. \A k \in 1..d : Levels[k] \in SUBSET Rule
    BY NextLevel
  <2>2. Above(d) \in SUBSET Rule
    BY <2>1
  <2> HIDE DEF Above
  <2> QED BY <2>2, Order, FS_Subset, FS_CardinalityType
<1>2. 0 \in T
  BY <1>1
<1>3. ASSUME NEW d \in T
      PROVE  d + 1 \in T
  <2>1. SUFFICES ASSUME Levels[d + 1] # {} PROVE Cardinality(Above(d + 1)) >= d + 1
    OBVIOUS
  <2>2. PICK n : n \in Levels[d + 1]
    BY <2>1
  <2>3. d = 0 \/ Levels[d] # {}
    BY <2>2, NextLevel
  <2>4. Cardinality(Above(d)) >= d
    <3>1. d \in Nat /\ (Levels[d] # {} => Cardinality(Above(d)) >= d)
      OBVIOUS
    <3>2. Cardinality(Above(d)) \in Nat
      BY <1>1, <3>1
    <3> HIDE DEF Above
    <3> QED BY <2>3, <3>1, <3>2
  <2>5. n \notin Above(d)
    <3>1. ASSUME NEW k \in 1..d
          PROVE  n \notin Levels[k]
      <4>1. k \in Nat \ {0} /\ (d + 1) - k \in Nat \ {0} /\ k + ((d + 1) - k) = d + 1
        OBVIOUS
      <4>2. Levels[k] \cap Levels[k + ((d + 1) - k)] = {}
        BY <4>1, LevelsApart
      <4> QED BY <2>2, <4>1, <4>2
    <3> QED BY <3>1
  <2>6. Above(d) \in SUBSET Above(d + 1) /\ n \in Above(d + 1)
    <3>1. d + 1 \in 1..(d + 1) /\ \A k \in 1..d : k \in 1..(d + 1)
      OBVIOUS
    <3> QED BY <2>2, <3>1
  <2>7. Cardinality(Above(d)) <= Cardinality(Above(d + 1)) /\ Cardinality(Above(d)) # Cardinality(Above(d + 1))
    <3>1. d \in Nat /\ d + 1 \in Nat
      OBVIOUS
    <3>2. IsFiniteSet(Above(d + 1))
      BY <1>1, <3>1
    <3> HIDE DEF Above
    <3> QED BY <2>5, <2>6, <3>2, FS_Subset
  <2>8. Cardinality(Above(d)) \in Nat /\ Cardinality(Above(d + 1)) \in Nat /\ d \in Nat
    <3>1. d \in Nat /\ d + 1 \in Nat
      OBVIOUS
    <3> HIDE DEF Above
    <3> QED BY <1>1, <3>1
  <2> HIDE DEF Above
  <2> QED BY <2>4, <2>7, <2>8
<1>4. T = Nat
  <2>1. T \in SUBSET Nat
    OBVIOUS
  <2> HIDE DEF T
  <2> QED BY <1>2, <1>3, <2>1, NatInd
<1>5. Cardinality(Rule) \in Nat /\ Cardinality(Rule) + 1 \in Nat
  BY Order, FS_CardinalityType
<1>6. Cardinality(Above(Cardinality(Rule) + 1)) <= Cardinality(Rule)
  BY <1>1, <1>5
<1>7. Cardinality(Rule) + 1 \in T
  BY <1>4, <1>5
<1>8. Cardinality(Above(Cardinality(Rule) + 1)) \in Nat
  BY <1>1, <1>5
<1>9. ~(Cardinality(Above(Cardinality(Rule) + 1)) >= Cardinality(Rule) + 1)
  <2> HIDE DEF Above
  <2> QED BY <1>5, <1>6, <1>8
<1> QED BY <1>7, <1>9

-----------------------------------------------------------------------------
(* The tree *)

\* A condition's own check of Text by =, with the plain value.
LEMMA CheckReads ==
  ASSUME Kept, IsPlain, NEW attrs \in Customers, NEW n \in Rule, conditions[n].leaf # None
  PROVE  /\ Checks(attrs)[n] \in BOOLEAN
         /\ Checks(attrs)[n] <=> n \in Matching(attrs)
<1> DEFINE leaf == conditions[n].leaf
           a == attrs[leaf.attr]
<1>1. leaf.type = "Text" /\ leaf.op = "=" /\ expected[leaf.attr] = Plain
  BY DEF IsPlain
<1>2. leaf.attr \in Attr
  <2>1. leaf \in Leaf
    BY ConditionsAssumption DEF Kept, Rule
  <2> QED BY <2>1 DEF Leaf
<1>3. a \in {0, 1} /\ a # Absent /\ a # Null /\ a # Garbage /\ a # Error
  BY <1>2, ConditionsAssumption DEF Customers
<1>4. Checks(attrs)[n] = Single(leaf, Plain, a)
  BY <1>1 DEF Checks
<1> HIDE DEF a
<1>5. Single(leaf, Plain, a) = CompareValues("Text", "=", Plain, a)
  BY <1>1, <1>3, ConditionsAssumption DEF Single, HasSentinel
<1>6. Decoded("Text", a) = a /\ Trim(a) = a
  BY <1>3 DEF Decoded, Trim, Blank
<1>7. CompareValues("Text", "=", Plain, a) = Compare("=", Trim(a), Plain.values)
  BY <1>3, <1>6, ConditionsAssumption DEF CompareValues, Needs
<1>8. Compare("=", Trim(a), Plain.values) = (a = Plain.values[1])
  BY <1>6 DEF Compare
<1>9. Checks(attrs)[n] = (a = Plain.values[1])
  BY <1>4, <1>5, <1>7, <1>8
<1>10. n \in Matching(attrs) <=> a = Plain.values[1]
  BY DEF Matching, a
<1> QED BY <1>9, <1>10

\* evalNode decides what the condition and its children say.
LEMMA NodeReads ==
  ASSUME Kept, Distinct, NEW n \in Rule, NEW depth, NEW own, NEW held, NEW below, NEW under,
         depth < maxConditionDepth \/ Children(n) = {},
         conditions[n].leaf # None => own[n] \in BOOLEAN /\ (own[n] <=> n \in held),
         \A m \in Children(n) : below[m] \in BOOLEAN /\ (below[m] <=> m \in under)
  PROVE  /\ NodeValue(n, depth, own, below) \in BOOLEAN
         /\ NodeValue(n, depth, own, below) <=> NodeHolds(n, held, under)
<1> DEFINE children == IF depth < maxConditionDepth THEN Children(n) ELSE {}
           theirs == Chain(Siblings(Children(n)), below)
           said == SomeRunHolds(Children(n), under)
           value == NodeValue(n, depth, own, below)
<1>1. children = Children(n)
  OBVIOUS
<1>2. theirs \in BOOLEAN /\ (theirs <=> said)
  <2>1. Children(n) \in SUBSET Rule
    BY DEF Children
  <2>2. \A m, k \in Children(n) : m # k => conditions[m].sequence # conditions[k].sequence
    BY DEF Distinct, Children
  <2> QED BY <2>1, <2>2, ChainReads
<1>3. value =
        CASE children = {} -> IF conditions[n].leaf = None THEN TRUE ELSE own[n]
          [] children # {} /\ conditions[n].leaf = None -> Chain(Siblings(children), below)
          [] OTHER -> IF Chain(Siblings(children), below) = Error \/ own[n] = Error THEN Error
                      ELSE IF conditions[n].child = "OR" THEN own[n] \/ Chain(Siblings(children), below)
                      ELSE own[n] /\ Chain(Siblings(children), below)
  BY DEF NodeValue
<1>4. NodeHolds(n, held, under) <=>
        CASE Children(n) = {} -> conditions[n].leaf # None => n \in held
          [] Children(n) # {} /\ ~(conditions[n].leaf # None) -> said
          [] OTHER -> IF conditions[n].child = "OR" THEN n \in held \/ said ELSE n \in held /\ said
  BY DEF NodeHolds
<1> HIDE DEF children, theirs, said, value
<1>5. CASE Children(n) = {}
  <2>1. value = IF conditions[n].leaf = None THEN TRUE ELSE own[n]
    BY <1>1, <1>3, <1>5
  <2>2. NodeHolds(n, held, under) <=> (conditions[n].leaf # None => n \in held)
    BY <1>4, <1>5
  <2> QED BY <2>1, <2>2 DEF value
<1>6. CASE Children(n) # {} /\ conditions[n].leaf = None
  <2>1. value = theirs
    BY <1>1, <1>3, <1>6 DEF theirs
  <2>2. NodeHolds(n, held, under) <=> said
    BY <1>4, <1>6
  <2> QED BY <1>2, <2>1, <2>2 DEF value
<1>7. CASE Children(n) # {} /\ conditions[n].leaf # None
  <2>1. theirs # Error /\ own[n] # Error
    BY <1>2, <1>7, ConditionsAssumption
  <2>2. value = IF conditions[n].child = "OR" THEN own[n] \/ theirs ELSE own[n] /\ theirs
    BY <1>1, <1>3, <1>7, <2>1 DEF theirs
  <2>3. NodeHolds(n, held, under) <=>
          IF conditions[n].child = "OR" THEN n \in held \/ said ELSE n \in held /\ said
    BY <1>4, <1>7
  <2>4. CASE conditions[n].child = "OR"
    <3> DEFINE both == own[n] \/ theirs
    <3>1. both \in BOOLEAN /\ (both <=> n \in held \/ said)
      BY <1>2, <1>7
    <3>2. value = both
      BY <2>2, <2>4
    <3> HIDE DEF both
    <3> QED BY <2>3, <2>4, <3>1, <3>2 DEF value
  <2>5. CASE conditions[n].child # "OR"
    <3> DEFINE both == own[n] /\ theirs
    <3>1. both \in BOOLEAN /\ (both <=> n \in held /\ said)
      BY <1>2, <1>7
    <3>2. value = both
      BY <2>2, <2>5
    <3> HIDE DEF both
    <3> QED BY <2>3, <2>5, <3>1, <3>2 DEF value
  <2> QED BY <2>4, <2>5
<1> QED BY <1>5, <1>6, <1>7

\* Every value evalNode computes, from the deepest level up, is what the
\* condition says, however many levels are looked at below it.
LEMMA ValuesRead ==
  ASSUME Kept, IsPlain, Distinct, NEW attrs \in Customers,
         NEW h \in Nat \ {0}, h <= maxConditionDepth, Levels[h + 1] = {}
  PROVE  \A n \in Levels[1] : \A j \in Nat : j >= h =>
           /\ Values(Checks(attrs))[maxConditionDepth - 1][n] \in BOOLEAN
           /\ Values(Checks(attrs))[maxConditionDepth - 1][n] <=> n \in HoldsWithin(Matching(attrs))[j]
<1> DEFINE C == maxConditionDepth
           own == Checks(attrs)
           held == Matching(attrs)
           V == Values(own)
           H == HoldsWithin(held)
           P(e) == \A n \in Levels[h - e] : \A j \in Nat : j >= e + 1 =>
                     V[C - (h - e)][n] \in BOOLEAN /\ (V[C - (h - e)][n] <=> n \in H[j])
           T == {e \in 0..(h - 1) : P(e)}
<1>0. C \in Nat \ {0}
  BY ConditionsAssumption
<1>1. \A n \in Rule : conditions[n].leaf # None => own[n] \in BOOLEAN /\ (own[n] <=> n \in held)
  BY CheckReads
<1>2. /\ V[0] = [n \in Rule |-> NodeValue(n, C - 0, own, own)]
      /\ \A d \in Nat \ {0} : V[d] = [n \in Rule |-> NodeValue(n, C - d, own, V[d - 1])]
  BY <1>1, ValuesEquation
<1>3. \A j \in Nat \ {0} : H[j] = {n \in Rule : NodeHolds(n, held, H[j - 1])}
  BY HoldsEquation
<1> HIDE DEF C, own, held, V, H
<1>a. \A n \in Rule : V[0][n] = NodeValue(n, C - 0, own, own)
  BY <1>2
<1>b. ASSUME NEW d \in Nat \ {0}, NEW n \in Rule
      PROVE  V[d][n] = NodeValue(n, C - d, own, V[d - 1])
  BY <1>2
<1>4. P(0)
  <2>1. SUFFICES ASSUME NEW n \in Levels[h], NEW j \in Nat, j >= 1
                 PROVE  V[C - h][n] \in BOOLEAN /\ (V[C - h][n] <=> n \in H[j])
    OBVIOUS
  <2>2. n \in Rule /\ Children(n) = {}
    BY NextLevel
  <2>3. C - h \in Nat
    BY <1>0 DEF C
  <2>4. PICK depth, below : V[C - h][n] = NodeValue(n, depth, own, below)
    <3>1. CASE C - h = 0
      BY <1>a, <2>2, <3>1
    <3>2. CASE C - h # 0
      BY <1>b, <2>2, <2>3, <3>2
    <3> QED BY <3>1, <3>2
  <2>5. /\ V[C - h][n] \in BOOLEAN
        /\ V[C - h][n] <=> NodeHolds(n, held, H[j - 1])
    BY <1>1, <2>2, <2>4, NodeReads
  <2>6. n \in H[j] <=> NodeHolds(n, held, H[j - 1])
    BY <1>3, <2>1, <2>2
  <2> QED BY <2>5, <2>6
<1>5. ASSUME NEW e \in 0..(h - 1), P(e), e < h - 1
      PROVE  P(e + 1)
  <2> DEFINE k == h - (e + 1)
  <2>1. SUFFICES ASSUME NEW n \in Levels[k], NEW j \in Nat, j >= (e + 1) + 1
                 PROVE  V[C - k][n] \in BOOLEAN /\ (V[C - k][n] <=> n \in H[j])
    OBVIOUS
  <2>2. /\ k \in Nat \ {0} /\ h - e = k + 1 /\ C - k \in Nat \ {0} /\ (C - k) - 1 = C - (h - e)
        /\ C - (C - k) = k /\ k < C
    BY <1>0, <1>5 DEF C
  <2>3. j \in Nat \ {0} /\ j - 1 \in Nat /\ j - 1 >= e + 1
    BY <2>1
  <2> HIDE DEF k
  <2>4. n \in Rule /\ Children(n) \subseteq Levels[h - e]
    BY <2>2, NextLevel
  <2> DEFINE below == V[(C - k) - 1]
             under == H[j - 1]
  <2>5. \A m \in Children(n) : below[m] \in BOOLEAN /\ (below[m] <=> m \in under)
    BY <1>5, <2>2, <2>3, <2>4
  <2>6. V[C - k][n] = NodeValue(n, k, own, V[(C - k) - 1])
    <3>1. V[C - k][n] = NodeValue(n, C - (C - k), own, V[(C - k) - 1])
      BY <1>b, <2>2, <2>4
    <3> QED BY <2>2, <3>1
  <2>7. V[C - k][n] \in BOOLEAN /\ (V[C - k][n] <=> NodeHolds(n, held, H[j - 1]))
    <3>1. k < maxConditionDepth
      BY <2>2 DEF C
    <3>2. /\ n \in Rule /\ (conditions[n].leaf # None => own[n] \in BOOLEAN /\ (own[n] <=> n \in held))
          /\ \A m \in Children(n) : below[m] \in BOOLEAN /\ (below[m] <=> m \in under)
      <4>1. conditions[n].leaf # None => own[n] \in BOOLEAN /\ (own[n] <=> n \in held)
        BY <1>1, <2>4
      <4> HIDE DEF below, under
      <4> QED BY <2>4, <2>5, <4>1
    <3> HIDE DEF below, under
    <3>3. /\ NodeValue(n, k, own, below) \in BOOLEAN
          /\ NodeValue(n, k, own, below) <=> NodeHolds(n, held, under)
      BY <3>1, <3>2, NodeReads
    <3> QED BY <2>6, <3>3 DEF below, under
  <2>8. n \in H[j] <=> NodeHolds(n, held, H[j - 1])
    BY <1>3, <2>3, <2>4
  <2> QED BY <2>7, <2>8
<1>6. h - 1 \in T
  <2>1. 0 \in T
    BY <1>4
  <2>2. \A e \in 0..(h - 1) : e \in T /\ e < h - 1 => e + 1 \in T
    BY <1>5
  <2>3. h - 1 \in Nat /\ h - 1 \in 0..(h - 1)
    OBVIOUS
  <2> HIDE DEF T
  <2> QED BY <2>1, <2>2, <2>3, IntervalInd
<1>7. P(h - 1)
  BY <1>6
<1>8. h - (h - 1) = 1 /\ (h - 1) + 1 = h
  OBVIOUS
<1> QED BY <1>7, <1>8 DEF C, V, H, own, held

\* What the types alone give: every such state decides what is written.
LEMMA DecidesInState == Kept => DecidesAsWritten
<1> SUFFICES ASSUME Kept, IsPlain, Valid, Shallow, Distinct, Children(None) # {},
                    NEW attrs \in Customers
             PROVE  Evaluate(attrs) = SomeRunHolds(Children(None), Holding(Matching(attrs)))
  BY DEF DecidesAsWritten
<1> DEFINE C == maxConditionDepth
           N == Cardinality(Rule)
           h == IF C <= N THEN C ELSE N
           roots == Children(None)
           V == Values(Checks(attrs))
           H == HoldsWithin(Matching(attrs))
<1>1. C \in Nat \ {0} /\ roots \in SUBSET Rule /\ Rule # {}
  BY ConditionsAssumption DEF Children
<1>2. N \in Nat \ {0}
  BY <1>1, Order, FS_CardinalityType, FS_EmptySet
<1>3. h \in Nat \ {0} /\ h <= C /\ h <= N
  BY <1>1, <1>2
<1>4. Levels[h + 1] = {}
  BY LevelsBounded DEF Shallow
<1> HIDE DEF h, H, V
<1>5. \A n \in roots : V[C - 1][n] \in BOOLEAN /\ (V[C - 1][n] <=> n \in H[N])
  BY <1>2, <1>3, <1>4, ValuesRead, FirstLevel DEF V, H
<1>6. \A m, n \in roots : m # n => conditions[m].sequence # conditions[n].sequence
  BY DEF Distinct, Children
<1>7. /\ Chain(Siblings(roots), V[C - 1]) \in BOOLEAN
      /\ Chain(Siblings(roots), V[C - 1]) <=> SomeRunHolds(roots, H[N])
  BY <1>1, <1>5, <1>6, ChainReads
<1>8. Evaluate(attrs) = Chain(Siblings(roots), V[C - 1])
  BY <1>1 DEF Evaluate, Group, V
<1>9. SomeRunHolds(roots, H[N]) \in BOOLEAN
  BY DEF SomeRunHolds
<1> QED BY <1>7, <1>8, <1>9 DEF Holding, H

\* However many conditions a rule has, and however many levels the code
\* evaluates: a valid rule within the depth cap whose siblings have distinct
\* sequences decides what its tree says (evalSiblings, evalNode).
THEOREM DecidesWhatIsWritten == Spec => []DecidesAsWritten
<1>1. Kept => DecidesAsWritten
  BY DecidesInState
<1> QED BY <1>1, AlwaysKept, PTL

-----------------------------------------------------------------------------
(* A rule of one condition *)

\* For every value a variation may expect, only ANY and = NULL match a customer
\* without the attribute, and evaluateSingleCondition never fails for one.
THEOREM AbsentNeverMatchesAnything == Spec => []AbsentNeverMatches
<1>1. AbsentNeverMatches
  <2>1. SUFFICES ASSUME NEW leaf, NEW e
                 PROVE  Single(leaf, e, Absent) =
                          (/\ e # None /\ leaf.type \in {"Text", "Number"}
                           /\ e.form = "ANY" \/ (e.form = "NULL" /\ leaf.op = "="))
    BY DEF AbsentNeverMatches, Verdict
  <2>2. CASE e = None
    BY <2>2 DEF Single
  <2>3. CASE e # None /\ ~HasSentinel(leaf.type, e)
    BY <2>3 DEF Single, HasSentinel
  <2>4. CASE e # None /\ HasSentinel(leaf.type, e)
    <3>1. Single(leaf, e, Absent) = Sentinel(leaf.type, leaf.op, e, Absent)
      BY <2>4 DEF Single
    <3>2. leaf.type \in {"Text", "Number"} /\ e.form \in {"ANY", "NULL", "list"}
      BY <2>4 DEF HasSentinel
    <3>3. CASE e.form = "ANY"
      BY <2>4, <3>1, <3>2, <3>3 DEF Sentinel
    <3>4. CASE e.form = "NULL"
      BY <2>4, <3>1, <3>2, <3>4 DEF Sentinel, IsNull
    <3>5. CASE e.form = "list"
      BY <2>4, <3>1, <3>2, <3>5 DEF Sentinel, MatchList
    <3> QED BY <3>2, <3>3, <3>4, <3>5
  <2> QED BY <2>2, <2>3, <2>4
<1> QED BY <1>1, PTL

\* A list of any length is matched as the array of its tokens (applySentinel
\* against compareValuesParsed), for values without blanks around them.
THEOREM ListsDecideAsTheirArrays == Spec => []ListsDecideAsArrays
<1>1. ASSUME Kept
      PROVE  ListsDecideAsArrays
  <2>1. SUFFICES ASSUME NEW n \in Rule, Alone(n),
                        NEW leaf, leaf = conditions[n].leaf,
                        NEW e, e = expected[leaf.attr], e # None,
                        NEW array, array = [form |-> "many", values |-> e.values],
                        leaf.type \in {"Text", "Number"}, e.form = "list",
                        leaf.op \in {"=", "!=", "IN", "NIN"}, Garbage \notin Range(e.values), e.values # <<>>,
                        NEW a \in Actual \ {Absent}, Legal(leaf.type, a),
                        Decoded(leaf.type, a) # Error, a \in Int => a < Blank
                 PROVE  Single(leaf, e, a) = (Single([leaf EXCEPT !.op = "IN"], array, a) = (leaf.op \in {"=", "IN"}))
    BY DEF ListsDecideAsArrays, Verdict
  <2>2. PICK x : x = Decoded(leaf.type, a) /\ x \in Nat /\ x < Blank
    <3>1. a # Garbage
      BY <2>1, ConditionsAssumption DEF Decoded
    <3>2. a = Null \/ a \in Nat
      BY <2>1, <3>1, ConditionsAssumption
    <3>3. CASE a = Null
      BY <2>1, <3>1, <3>3 DEF Decoded, Blank
    <3>4. CASE a \in Nat /\ a # Null
      BY <2>1, <3>1, <3>4 DEF Decoded, Blank
    <3> QED BY <3>2, <3>3, <3>4
  <2>3. Trim(x) = x
    BY <2>2 DEF Trim, Blank
  <2>a. leaf \in Leaf
    BY <1>1, <2>1, ConditionsAssumption DEF Kept, Alone, Rule
  <2>4. leaf.attr \in Attr /\ e # Plain /\ e.values \in Seq(Nat \cup {Garbage})
    <3>1. leaf.attr \in Attr /\ expected \in [Attr -> Expected \cup {Plain}]
      BY <1>1, <2>a DEF Kept, Leaf
    <3>2. Plain.form = "one"
      BY ConditionsAssumption
    <3> QED BY <2>1, <3>1, <3>2, ConditionsAssumption
  <2>5. Range(e.values) # {}
    <3>1. e.values[1] \in Range(e.values)
      BY <2>1, <2>4 DEF Range
    <3> QED BY <3>1
  <2>6. Single(leaf, e, a) = (\/ leaf.op \in {"=", "IN"} /\ x \in Range(e.values)
                              \/ leaf.op \in {"!=", "NIN"} /\ x \notin Range(e.values))
    <3>1. Single(leaf, e, a) = MatchList(leaf.type, leaf.op, Range(e.values), a)
      BY <2>1 DEF Single, HasSentinel, Sentinel
    <3> QED BY <2>1, <2>2, <2>5, <3>1, ConditionsAssumption DEF MatchList
  <2>7. Single([leaf EXCEPT !.op = "IN"], array, a) = (x \in Range(e.values))
    <3>1. array # None /\ array.form = "many" /\ array.values = e.values
      BY <2>1, <2>4, ConditionsAssumption
    <3>2. ASSUME NEW in, in.type = leaf.type, in.op = "IN"
          PROVE  Single(in, array, a) = (x \in Range(e.values))
      <4>1. Single(in, array, a) = CompareValues(leaf.type, "IN", array, a)
        BY <2>1, <3>1, <3>2 DEF Single, HasSentinel
      <4>2. Needs(leaf.type, "IN") = "many"
        BY <2>1 DEF Needs
      <4>3. CompareValues(leaf.type, "IN", array, a) = Compare("IN", x, e.values)
        BY <2>1, <2>2, <2>3, <3>1, <4>2, ConditionsAssumption DEF CompareValues
      <4>4. Compare("IN", x, e.values) = (x \in Range(e.values))
        BY DEF Compare
      <4> QED BY <4>1, <4>3, <4>4
    <3>3. [leaf EXCEPT !.op = "IN"].type = leaf.type /\ [leaf EXCEPT !.op = "IN"].op = "IN"
      BY <2>a DEF Leaf
    <3> QED BY <3>2, <3>3
  <2>8. /\ leaf.op \in {"=", "IN"} => leaf.op \notin {"!=", "NIN"}
        /\ leaf.op \notin {"=", "IN"} => leaf.op \in {"!=", "NIN"}
    BY <2>1
  <2> DEFINE among == x \in Range(e.values)
             is == leaf.op \in {"=", "IN"}
             isNot == leaf.op \in {"!=", "NIN"}
  <2>9. Single(leaf, e, a) = ((is /\ among) \/ (isNot /\ ~among)) /\ (is => ~isNot) /\ (~is => isNot)
    BY <2>6, <2>8
  <2>10. among \in BOOLEAN /\ is \in BOOLEAN /\ isNot \in BOOLEAN
    OBVIOUS
  <2>11. Single([leaf EXCEPT !.op = "IN"], array, a) = among
    BY <2>7
  <2> HIDE DEF among, is, isNot
  <2>12. Single(leaf, e, a) = (among = is)
    BY <2>9, <2>10
  <2> QED BY <2>1, <2>11, <2>12 DEF is
<1> QED BY <1>1, AlwaysKept, PTL

\* = and != of any expected value but ANY never both match a customer, and one
\* of them does when the value decodes and is not compared with a list.
THEOREM NegationExcludesItsCondition == Spec => []NegationExcludes
<1>1. ASSUME NEW leaf \in Leaf, leaf.op = "=", NEW e, e # None, NEW a,
             ~(HasSentinel(leaf.type, e) /\ e.form = "ANY")
      PROVE  /\ ~(Single(leaf, e, a) = TRUE /\ Single([leaf EXCEPT !.op = "!="], e, a) = TRUE)
             /\ a # Absent /\ e.form # "list" /\ Single(leaf, e, a) # Error
                  => Single(leaf, e, a) # Single([leaf EXCEPT !.op = "!="], e, a)
  <2> DEFINE type == leaf.type
             not == [leaf EXCEPT !.op = "!="]
  <2>1. leaf.type = type /\ leaf.op = "=" /\ e # None /\ ~(HasSentinel(type, e) /\ e.form = "ANY")
    BY <1>1
  <2>2. not.type = type /\ not.op = "!="
    BY DEF Leaf
  <2> HIDE DEF type, not
  <2>3. SUFFICES /\ ~(Single(leaf, e, a) = TRUE /\ Single(not, e, a) = TRUE)
                 /\ a # Absent /\ e.form # "list" /\ Single(leaf, e, a) # Error
                    => Single(leaf, e, a) # Single(not, e, a)
    BY DEF not
  <2>4. CASE HasSentinel(type, e)
    <3>1. Single(leaf, e, a) = Sentinel(type, "=", e, a) /\ Single(not, e, a) = Sentinel(type, "!=", e, a)
      BY <2>1, <2>2, <2>4 DEF Single
    <3>2. e.form \in {"NULL", "list"}
      BY <2>1, <2>4 DEF HasSentinel
    <3>3. CASE e.form = "NULL"
      <4>1. Sentinel(type, "=", e, a) = IsNull(a) /\ Sentinel(type, "!=", e, a) = ~IsNull(a)
        BY <3>3 DEF Sentinel, IsNull
      <4>2. IsNull(a) \in BOOLEAN
        BY DEF IsNull
      <4> QED BY <3>1, <3>3, <4>1, <4>2
    <3>4. CASE e.form = "list"
      <4>1. /\ Sentinel(type, "=", e, a) = MatchList(type, "=", Range(e.values), a)
            /\ Sentinel(type, "!=", e, a) = MatchList(type, "!=", Range(e.values), a)
        BY <3>4 DEF Sentinel
      <4>2. ~(MatchList(type, "=", Range(e.values), a) = TRUE /\ MatchList(type, "!=", Range(e.values), a) = TRUE)
        BY DEF MatchList
      <4> QED BY <3>1, <3>4, <4>1, <4>2
    <3> QED BY <3>2, <3>3, <3>4
  <2>5. CASE ~HasSentinel(type, e) /\ a = Absent
    BY <2>1, <2>2, <2>5 DEF Single
  <2>6. CASE ~HasSentinel(type, e) /\ a # Absent
    <3>1. /\ Single(leaf, e, a) = CompareValues(type, "=", e, a)
          /\ Single(not, e, a) = CompareValues(type, "!=", e, a)
      BY <2>1, <2>2, <2>6 DEF Single
    <3>2. Needs(type, "=") = "one" /\ Needs(type, "!=") = "one"
      BY DEF Needs
    <3>3. CASE Decoded(type, a) = Error \/ e.form # "one" \/ Garbage \in Range(e.values)
      <4>1. CompareValues(type, "=", e, a) = Error
        BY <3>2, <3>3 DEF CompareValues
      <4> QED BY <3>1, <4>1, ConditionsAssumption
    <3>4. CASE Decoded(type, a) # Error /\ e.form = "one" /\ Garbage \notin Range(e.values)
      <4>1. PICK x : /\ CompareValues(type, "=", e, a) = Compare("=", x, e.values)
                     /\ CompareValues(type, "!=", e, a) = Compare("!=", x, e.values)
        BY <3>2, <3>4 DEF CompareValues
      <4>2. Compare("=", x, e.values) = (x = e.values[1]) /\ Compare("!=", x, e.values) = (x # e.values[1])
        BY DEF Compare
      <4> QED BY <3>1, <4>1, <4>2
    <3> QED BY <3>3, <3>4
  <2> QED BY <2>4, <2>5, <2>6
<1>2. ASSUME Kept
      PROVE  NegationExcludes
  <2>1. \A n \in Rule : conditions[n].leaf # None => conditions[n].leaf \in Leaf
    BY <1>2, ConditionsAssumption DEF Kept, Rule
  <2>2. SUFFICES ASSUME NEW n \in Rule, NEW a \in Actual, Alone(n), conditions[n].leaf.op = "=",
                        expected[conditions[n].leaf.attr] # None,
                        ~(HasSentinel(conditions[n].leaf.type, expected[conditions[n].leaf.attr])
                          /\ expected[conditions[n].leaf.attr].form = "ANY")
                 PROVE  LET leaf == conditions[n].leaf
                            e == expected[leaf.attr]
                            is(b) == Verdict(leaf, b)
                            isNot(b) == Verdict([leaf EXCEPT !.op = "!="], b)
                        IN /\ ~(is(a) = TRUE /\ isNot(a) = TRUE)
                           /\ a # Absent /\ e.form # "list" /\ is(a) # Error => is(a) # isNot(a)
    BY DEF NegationExcludes
  <2>3. conditions[n].leaf \in Leaf
    BY <2>1, <2>2 DEF Alone
  <2> DEFINE leaf == conditions[n].leaf
             not == [leaf EXCEPT !.op = "!="]
             e == expected[leaf.attr]
  <2>4. Verdict(leaf, a) = Single(leaf, e, a) /\ Verdict(not, a) = Single(not, e, a)
    <3>1. not.attr = leaf.attr
      BY <2>3 DEF Leaf
    <3> QED BY <3>1 DEF Verdict
  <2>5. /\ ~(Single(leaf, e, a) = TRUE /\ Single(not, e, a) = TRUE)
        /\ a # Absent /\ e.form # "list" /\ Single(leaf, e, a) # Error
             => Single(leaf, e, a) # Single(not, e, a)
    BY <1>1, <2>2, <2>3
  <2> QED BY <2>4, <2>5
<1> QED BY <1>2, AlwaysKept, PTL
=============================================================================
