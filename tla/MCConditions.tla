---------------------------- MODULE MCConditions ----------------------------
(* Instances of Conditions for TLC. *)
EXTENDS Conditions

MCPlain == [form |-> "one", values |-> <<1>>]

MCExpected ==
  {MCPlain, None,
   [form |-> "one", values |-> <<0>>],
   [form |-> "many", values |-> <<1>>],
   [form |-> "many", values |-> <<1, 2>>],
   [form |-> "list", values |-> <<>>],
   [form |-> "list", values |-> <<1, 2>>],
   [form |-> "list", values |-> <<1, Garbage>>],
   [form |-> "ANY", values |-> <<>>],
   [form |-> "NULL", values |-> <<>>]}

MCActual == {0, 1, 2, 1 + Blank, Null, Garbage, Absent}

Is(attr) == [attr |-> attr, type |-> "Text", op |-> "="]

Leaves(attr) == {leaf \in Leaf : leaf.attr = attr}

Condition(parents, sequences, leaves, connectors, children) ==
  [parent : parents, sequence : sequences, leaf : leaves, connector : connectors, child : children]

\* Any check on 1, which 2 may precede; 3 and 4 may lie under any id before
\* them, and 4 under one that is never stored.
MCStored(n) ==
  CASE n = 1 -> Condition({None}, {1}, Leaves(1), {None}, {None})
                \cup Condition({None}, {1}, {Is(1), None}, {None, "AND", "OR"}, {None, "OR"})
    [] n = 2 -> Condition({None, 1}, {0, 2}, {Is(2), None}, {None, "AND", "OR"}, {None})
    [] n = 3 -> Condition({None, 1, 2}, {3}, {Is(3)}, {None, "AND", "OR"}, {"AND"})
    [] n = 4 -> Condition({None, 2, 3, 9}, {4}, {Is(4)}, {None, "AND", "OR"}, {None})

\* A root, a group, a root after them, and a condition under the root or the group.
ClashStored(n) ==
  CASE n = 1 -> Condition({None}, {1}, {Is(1)}, {"AND", "OR"}, {"AND", "OR"})
    [] n = 2 -> Condition({None}, {2}, {None}, {"AND", "OR"}, {None})
    [] n = 3 -> Condition({None}, {3}, {Is(3)}, {None}, {None})
    [] n = 4 -> Condition({1, 2}, {4}, {Is(2)}, {None}, {None})
=============================================================================
