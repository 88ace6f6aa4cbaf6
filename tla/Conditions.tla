----------------------------- MODULE Conditions -----------------------------
(***************************************************************************)
(* What the conditions of a decision rule decide about a customer, and the *)
(* expression they are identified by (cmd/server/internal/evaluator:       *)
(* condition_evaluator.go, condition_sentinels.go, condition_validation.go *)
(* and condition_normalization.go).                                        *)
(*                                                                         *)
(* The back office saves a rule with some conditions changed, or the value *)
(* a variation expects; every state is a rule that may be evaluated.  A row *)
(* of conditions is at the position of its id, as the database returns it. *)
(* Values are numbers: 0 is what a JSON null is decoded to, and v + Blank  *)
(* is the text v with blanks around it.                                    *)
(***************************************************************************)
EXTENDS Integers, FiniteSets, SequencesExt

CONSTANTS
  Node,               \* condition ids, numbers from 1
  Attr,               \* attribute ids
  maxConditionDepth,  \* 4 in the code
  Stored(_),          \* the conditions that may be stored under an id
  MaxChanged,         \* bound: conditions changed by one save of the rule
  Expected,           \* values a variation may expect, and None
  Actual,             \* values a customer may have: numbers, Null, Garbage, Absent
  Plain,              \* the expected value of the rules with several conditions, all of Text =
  None, Null, Garbage, Absent,
  Error               \* an evaluation that fails: the entry is skipped

Blank == 10

\* A check: an attribute, its data type (enums.AttributeDataType) and an
\* operator (enums.LogicalOperator).
Leaf ==
  [attr : Attr,
   type : {"Text", "Number", "Date", "Boolean"},
   op : {"=", "!=", "<", "<=", ">", ">=", "IN", "NIN", "BETWEEN", "CONTAINS"}]

ASSUME ConditionsAssumption ==
  /\ IsFiniteSet(Node) /\ Node \subseteq Nat /\ None \notin Node
  /\ maxConditionDepth \in Nat \ {0}
  /\ \A n \in Node : \A condition \in Stored(n) :
       condition.sequence \in Int /\ condition.leaf \in Leaf \cup {None}
  /\ MaxChanged \in Nat
  /\ Plain # None /\ Plain.form = "one" /\ Garbage \notin Range(Plain.values)
  /\ \A e \in Expected : e = None \/ e.values \in Seq(Nat \cup {Garbage})
  /\ Actual \subseteq Nat \cup {Null, Garbage, Absent}
  /\ Null \notin Nat /\ Garbage \notin Nat /\ Absent \notin Nat
  /\ Null # Garbage /\ Null # Absent /\ Garbage # Absent
  /\ Error \notin Nat \cup BOOLEAN \cup {Null, Garbage, Absent}
  /\ None \notin [form : {"many"}, values : Seq(Nat \cup {Garbage})]

VARIABLES
  conditions,  \* the rule's conditions by id, None where there is none
  expected     \* the value the variation expects of each attribute

vars == <<conditions, expected>>

Rule == {n \in Node : conditions[n] # None}

-----------------------------------------------------------------------------
(* One condition: condition_sentinels.go and the comparators *)

Trim(v) == v % Blank

\* The value of a customer as its data type decodes it; Error if it does not.
Decoded(dt, a) ==
  CASE a = Garbage -> Error
    [] a = Null -> IF dt = "Date" THEN Error ELSE 0
    [] OTHER -> a

IsNull(a) == a \in {Null, Absent}

\* MUTANT: != of a list is promoted to IN, as = is.
MatchListPromoted(dt, op, tokens, a) ==
  IF tokens = {} \/ (dt = "Number" /\ Garbage \in tokens) \/ a = Absent \/ Decoded(dt, a) = Error
  THEN FALSE
  ELSE \/ op \in {"=", "!=", "IN"} /\ Decoded(dt, a) \in tokens
       \/ op = "NIN" /\ Decoded(dt, a) \notin tokens

\* matchTextList and matchNumberList: = and IN, != and NIN.
MatchList(dt, op, tokens, a) ==
  IF tokens = {} \/ (dt = "Number" /\ Garbage \in tokens) \/ a = Absent \/ Decoded(dt, a) = Error
  THEN FALSE
  ELSE \/ op \in {"=", "IN"} /\ Decoded(dt, a) \in tokens
       \/ op \in {"!=", "NIN"} /\ Decoded(dt, a) \notin tokens

HasSentinel(dt, e) == dt \in {"Text", "Number"} /\ e.form \in {"ANY", "NULL", "list"}

\* applySentinel
Sentinel(dt, op, e, a) ==
  CASE e.form = "ANY" -> TRUE
    [] e.form = "NULL" -> (op = "=" /\ IsNull(a)) \/ (op = "!=" /\ ~IsNull(a))
    [] e.form = "list" -> MatchList(dt, op, Range(e.values), a)

\* The form each operator of each data type needs the expected value to have.
Needs(dt, op) ==
  CASE op \in {"=", "!="} -> "one"
    [] op \in {"<", "<=", ">", ">="} /\ dt \in {"Number", "Date"} -> "one"
    [] op = "CONTAINS" /\ dt = "Text" -> "one"
    [] op = "IN" /\ dt \in {"Text", "Number"} -> "many"
    [] op = "NIN" /\ dt = "Text" -> "many"
    [] op = "BETWEEN" /\ dt \in {"Number", "Date"} -> "many"
    [] OTHER -> "none"

\* compareTextParsed, compareNumberParsed, compareDateParsed and
\* compareBooleanParsed, over values that have the form they need.
Compare(op, x, e) ==
  CASE op = "=" -> x = e[1]
    [] op = "!=" -> x # e[1]
    [] op = "<" -> x < e[1]
    [] op = "<=" -> x <= e[1]
    [] op = ">" -> x > e[1]
    [] op = ">=" -> x >= e[1]
    [] op = "CONTAINS" -> e[1] \in {0, x}
    [] op = "IN" -> x \in Range(e)
    [] op = "NIN" -> x \notin Range(e)
    [] op = "BETWEEN" -> e[1] <= x /\ x <= e[2]

\* compareValuesParsed: a value that cannot be decoded, of the customer or of the
\* rule, or does not have the form the operator needs, is an error.  A NULL or a list is an ordinary
\* string to Date and Boolean, which cannot decode it.
CompareValues(dt, op, e, a) ==
  IF \/ Decoded(dt, a) = Error
     \/ e.form # Needs(dt, op) \/ Garbage \in Range(e.values)
     \/ op = "BETWEEN" /\ Len(e.values) # 2
  THEN Error
  ELSE Compare(op, IF dt = "Text" THEN Trim(Decoded(dt, a)) ELSE Decoded(dt, a), e.values)

\* MUTANT: the attribute is looked for before the sentinel.
PresentFirst(leaf, e, a) ==
  CASE e = None -> FALSE
    [] a = Absent -> FALSE
    [] OTHER -> IF HasSentinel(leaf.type, e) THEN Sentinel(leaf.type, leaf.op, e, a)
                ELSE CompareValues(leaf.type, leaf.op, e, a)

\* MUTANT: the list forms of = and != are left to the comparators.
ListsUnhandled(leaf, e, a) ==
  CASE e = None -> FALSE
    [] OTHER -> IF HasSentinel(leaf.type, e) /\ ~(e.form = "list" /\ leaf.op \in {"=", "!="})
                THEN Sentinel(leaf.type, leaf.op, e, a)
                ELSE IF a = Absent THEN FALSE ELSE CompareValues(leaf.type, leaf.op, e, a)

\* evaluateSingleCondition
Single(leaf, e, a) ==
  CASE e = None -> FALSE
    [] OTHER -> IF HasSentinel(leaf.type, e) THEN Sentinel(leaf.type, leaf.op, e, a)
                ELSE IF a = Absent THEN FALSE
                ELSE CompareValues(leaf.type, leaf.op, e, a)
-----------------------------------------------------------------------------
(* The tree of conditions: condition_evaluator.go *)

\* Siblings in the order of their sequence, rows of equal sequence as they come.
Precedes(m, n) ==
  \/ conditions[m].sequence < conditions[n].sequence
  \/ conditions[m].sequence = conditions[n].sequence /\ m < n

Place(m, members) == Cardinality({k \in members : k = m \/ Precedes(k, m)})

Siblings(members) == [i \in 1..Cardinality(members) |-> CHOOSE m \in members : Place(m, members) = i]

\* byParent: the children of a condition, and the roots, whose parent is None.
Children(n) == {m \in Rule : conditions[m].parent = n}

\* MUTANT: the chain is folded from left to right without precedence.
ChainFromLeft(siblings, value) ==
  IF \E i \in DOMAIN siblings : value[siblings[i]] = Error THEN Error
  ELSE FoldLeftDomain(LAMBDA acc, i :
         CASE i = 1 -> value[siblings[1]]
           [] conditions[siblings[i - 1]].connector = "OR" -> acc \/ value[siblings[i]]
           [] OTHER -> acc /\ value[siblings[i]],
         TRUE, siblings)

\* The loop of evalSiblings: the runs that an OR has ended, or-ed together, and
\* the run of ANDs that the i-th sibling is in, up to it.
Joins(siblings, value, i, before) ==
  IF i > 1 /\ conditions[siblings[i - 1]].connector # "OR"
  THEN [or |-> before.or, run |-> before.run /\ value[siblings[i]]]
  ELSE [or |-> before.or \/ before.run, run |-> value[siblings[i]]]

Runs(siblings, value) ==
  LET after[i \in 0..Len(siblings)] ==
        IF i = 0 THEN [or |-> FALSE, run |-> FALSE] ELSE Joins(siblings, value, i, after[i - 1])
  IN after

\* evalSiblings: the first error is the result.
Chain(siblings, value) ==
  IF \E i \in DOMAIN siblings : value[siblings[i]] = Error THEN Error
  ELSE LET ended == Runs(siblings, value)[Len(siblings)] IN ended.or \/ ended.run

\* evalNode, with the values of the children one level down.  Children below
\* the depth cap are not looked at.
NodeValue(n, depth, own, below) ==
  LET leaf == conditions[n].leaf
      children == IF depth < maxConditionDepth THEN Children(n) ELSE {}
      theirs == Chain(Siblings(children), below)
  IN CASE children = {} -> IF leaf = None THEN TRUE ELSE own[n]
       [] children # {} /\ leaf = None -> theirs
       [] OTHER -> IF theirs = Error \/ own[n] = Error THEN Error
                   ELSE IF conditions[n].child = "OR" THEN own[n] \/ theirs ELSE own[n] /\ theirs

\* The values of the conditions at each depth, from the cap up.
Values(own) ==
  LET value[d \in Nat] ==
        [n \in Rule |-> NodeValue(n, maxConditionDepth - d, own, IF d = 0 THEN own ELSE value[d - 1])]
  IN value

\* evaluateConditionGroup: the roots, at depth 1, decide.  A tree without roots
\* is true.
Group(own) ==
  LET roots == Children(None)
  IN IF roots = {} THEN TRUE ELSE Chain(Siblings(roots), Values(own)[maxConditionDepth - 1])

\* validateSiblingChain: every sibling but the last has a connector.
Linked(siblings) ==
  \A i \in DOMAIN siblings : (conditions[siblings[i]].connector = None) <=> (i = Len(siblings))

\* ValidateConditionTree, which looks at every condition, reachable or not.
Valid ==
  /\ \A n \in Rule : conditions[n].leaf # None /\ Children(n) # {} => conditions[n].child # None
  /\ \A parent \in {conditions[n].parent : n \in Rule} : Linked(Siblings(Children(parent)))

\* What each condition's own check gives for a customer with the attributes attrs.
Checks(attrs) ==
  [n \in Rule |-> IF conditions[n].leaf = None THEN None
                  ELSE Single(conditions[n].leaf, expected[conditions[n].leaf.attr],
                              attrs[conditions[n].leaf.attr])]

\* EvaluateLogicConditions
Evaluate(attrs) == IF Rule = {} THEN TRUE ELSE IF ~Valid THEN FALSE ELSE Group(Checks(attrs))

-----------------------------------------------------------------------------
(* The expression of a rule: condition_normalization.go *)

\* The text of an expression is a sequence of tokens.
Mark(mark) == <<[mark |-> mark, leaf |-> None, of |-> None]>>
Link(connector) == Mark(IF connector = None THEN "AND" ELSE connector)
Check(leaf) == <<[mark |-> "check", leaf |-> leaf, of |-> expected[leaf.attr]]>>

\* renderValueCanonicalNode: its own check, its children in parentheses, and
\* its connector between the two.
NodeText(n, below) ==
  LET condition == conditions[n]
      leaf == IF condition.leaf = None THEN <<>> ELSE Check(condition.leaf)
      join == IF leaf = <<>> THEN <<>> ELSE Link(condition.child)
  IN IF Children(n) = {} THEN (IF leaf = <<>> THEN Mark("()") ELSE leaf)
     ELSE leaf \o join \o Mark("(") \o below \o Mark(")")

\* buildValueCanonicalString: the nodes with the connectors between them.
ChainText(siblings, text) ==
  FoldLeftDomain(LAMBDA acc, i :
    acc \o text[siblings[i]]
        \o (IF i = Len(siblings) THEN <<>> ELSE Link(conditions[siblings[i]].connector)),
    <<>>, siblings)

\* BuildLogicExpression, of which GenerateLogicHash is the SHA-256 hash.  Rows
\* of equal sequence are in the order of their ids; all levels are rendered.
BuildLogicExpression ==
  LET text[d \in Nat] ==
        [n \in Rule |->
           IF d = 0 THEN <<>> ELSE NodeText(n, ChainText(Siblings(Children(n)), text[d - 1]))]
  IN ChainText(Siblings(Children(None)), text[Cardinality(Rule)])

-----------------------------------------------------------------------------
(* The back office *)

\* Bound: a rule of several conditions compares Text by =, with the plain value;
\* another value is expected of the attribute of a rule's only condition.
Manageable(rule, exp) ==
  LET leaves == {rule[n].leaf : n \in {m \in Node : rule[m] # None}} \ {None}
      alone == Cardinality({n \in Node : rule[n] # None}) = 1
  IN /\ alone \/ \A leaf \in leaves : leaf.type = "Text" /\ leaf.op = "="
     /\ \A attr \in Attr : exp[attr] # Plain => alone /\ attr \in {leaf.attr : leaf \in leaves}

Init ==
  /\ conditions = [n \in Node |-> None]
  /\ expected = [attr \in Attr |-> Plain]

SaveConditions(changed) ==
  /\ Cardinality(changed) <= MaxChanged
  /\ \E saved \in [changed -> UNION {Stored(n) \cup {None} : n \in changed}] :
       /\ \A n \in changed : saved[n] \in Stored(n) \cup {None}
       /\ conditions' = [n \in Node |-> IF n \in changed THEN saved[n] ELSE conditions[n]]
  /\ Manageable(conditions', expected)
  /\ UNCHANGED expected

EditExpected(attr) ==
  /\ \E n \in Rule : conditions[n].leaf # None /\ conditions[n].leaf.attr = attr
  /\ \E e \in Expected : expected' = [expected EXCEPT ![attr] = e]
  /\ Manageable(conditions, expected')
  /\ UNCHANGED conditions

Next == (\E changed \in SUBSET Node : SaveConditions(changed)) \/ (\E attr \in Attr : EditExpected(attr))

Spec == Init /\ [][Next]_vars

-----------------------------------------------------------------------------
(* What a rule says, read without folds, order of evaluation or depth cap *)

\* The customers that have the plain value for some attributes, and another
\* one for the others.
Customers == [Attr -> {0, 1}]

Distinct == \A m, n \in Rule : m # n /\ conditions[m].parent = conditions[n].parent
                               => conditions[m].sequence # conditions[n].sequence

\* The conditions that a chain of ANDs joins to m: no OR in between.
Joined(m, members) ==
  LET ends(k) == conditions[k].connector = "OR"
      seq(k) == conditions[k].sequence
  IN {k \in members : \A j \in members :
        (seq(m) <= seq(j) /\ seq(j) < seq(k)) \/ (seq(k) <= seq(j) /\ seq(j) < seq(m)) => ~ends(j)}

SomeRunHolds(members, held) == \E m \in members : Joined(m, members) \subseteq held

\* Whether a condition holds, for a customer whose own checks are true at the
\* conditions in own, when the conditions in below are those below it that hold.
NodeHolds(n, own, below) ==
  LET leaf == conditions[n].leaf # None
      theirs == SomeRunHolds(Children(n), below)
  IN CASE Children(n) = {} -> leaf => n \in own
       [] Children(n) # {} /\ ~leaf -> theirs
       [] OTHER -> IF conditions[n].child = "OR" THEN n \in own \/ theirs ELSE n \in own /\ theirs

\* The conditions that hold, looking d levels down; and all the way.
HoldsWithin(own) ==
  LET holds[d \in Nat] == IF d = 0 THEN {} ELSE {n \in Rule : NodeHolds(n, own, holds[d - 1])}
  IN holds

Holding(own) == HoldsWithin(own)[Cardinality(Rule)]

Matching(attrs) == {n \in Rule : conditions[n].leaf # None /\ attrs[conditions[n].leaf.attr] = Plain.values[1]}

\* The conditions at each depth, and whether none lies below the cap.
Levels ==
  LET level[d \in Nat] == IF d = 0 THEN {None} ELSE UNION {Children(n) : n \in level[d - 1]}
  IN level

Shallow == Levels[maxConditionDepth + 1] = {}
IsPlain == \A n \in Rule : conditions[n].leaf # None =>
             conditions[n].leaf.type = "Text" /\ conditions[n].leaf.op = "=" /\ expected[conditions[n].leaf.attr] = Plain

\* A rule that passes validation and is no deeper than the cap decides what its
\* tree says: AND binds tighter than OR at every level, a group stands for its
\* children, and a condition with children joins its own check to them.
\* (ID ties and conditions below the cap are what the hypotheses leave out: a
\* group at the cap counts as true whatever its children are.)
DecidesAsWritten ==
  IsPlain /\ Valid /\ Shallow /\ Distinct /\ Children(None) # {} =>
    \A attrs \in Customers :
      Evaluate(attrs) = SomeRunHolds(Children(None), Holding(Matching(attrs)))

\* A rule of one condition, and the values a customer can have for it.
Alone(n) == Rule = {n} /\ conditions[n].leaf # None /\ conditions[n].parent = None /\ Valid
Legal(type, a) == a \in Int => (type = "Boolean" => a \in {0, 1}) /\ (type # "Text" => a < Blank)
Verdict(leaf, a) == Single(leaf, expected[leaf.attr], a)

\* "Returns false (not an error) when a required attribute is absent": only a
\* Text or Number condition that expects ANY, or = NULL, matches a customer
\* without the attribute, and none fails.
AbsentNeverMatches ==
  \A n \in Rule : Alone(n) =>
    LET leaf == conditions[n].leaf
        e == expected[leaf.attr]
    IN Verdict(leaf, Absent) =
         (/\ e # None /\ leaf.type \in {"Text", "Number"}
          /\ e.form = "ANY" \/ (e.form = "NULL" /\ leaf.op = "="))

\* "EQ promotes to IN, NEQ promotes to NOT IN": a list decides as the array of
\* its tokens would, for every value without blanks around it (the list does
\* not trim the customer's text, the array does).
ListsDecideAsArrays ==
  \A n \in Rule : Alone(n) /\ expected[conditions[n].leaf.attr] # None =>
    LET leaf == conditions[n].leaf
        e == expected[leaf.attr]
        array == [form |-> "many", values |-> e.values]
    IN /\ leaf.type \in {"Text", "Number"} /\ e.form = "list"
       /\ leaf.op \in {"=", "!=", "IN", "NIN"} /\ Garbage \notin Range(e.values) /\ e.values # <<>>
       => \A a \in Actual \ {Absent} : Legal(leaf.type, a) /\ Decoded(leaf.type, a) # Error /\ (a \in Int => a < Blank) =>
            Verdict(leaf, a) = (Single([leaf EXCEPT !.op = "IN"], array, a) = (leaf.op \in {"=", "IN"}))

\* A condition and its negation never both match a customer, unless ANY is
\* expected, and one of them does when the customer has a value that decodes.
NegationExcludes ==
  \A n \in Rule : Alone(n) /\ conditions[n].leaf.op = "=" /\ expected[conditions[n].leaf.attr] # None =>
    LET leaf == conditions[n].leaf
        e == expected[leaf.attr]
        is(a) == Verdict(leaf, a)
        isNot(a) == Verdict([leaf EXCEPT !.op = "!="], a)
    IN \A a \in Actual : Legal(leaf.type, a) /\ ~(HasSentinel(leaf.type, e) /\ e.form = "ANY") =>
         /\ ~(is(a) = TRUE /\ isNot(a) = TRUE)
         /\ a # Absent /\ e.form # "list" /\ is(a) # Error => is(a) # isNot(a)

\* "A stable hash that identifies both the logic structure AND the expected
\* attribute values": a rule that is saved with another tree and still has the
\* expression, and so the LogicHash, that it had before decides what it decided
\* before.  (Trees that validation refuses, that the depth cap cuts or that order
\* siblings by their ids are left out.)
ExpressionIdentifies ==
  [][ /\ Valid /\ Shallow /\ Distinct
      /\ Valid' /\ Shallow' /\ Distinct'
      /\ BuildLogicExpression' = BuildLogicExpression
      => \A attrs \in Customers : Evaluate(attrs)' = Evaluate(attrs) ]_vars
=============================================================================
