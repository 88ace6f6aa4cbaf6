------------------------- MODULE MCCustomerProfile -------------------------
(* Instances of CustomerProfile for TLC. *)
EXTENDS CustomerProfile, TLC

CONSTANTS r1, r2, acc, card, a, b, c

MCFact == {acc, card} \X {a, b, c}

\* acc has the fields a, b, c and card only a; CLEN offers all of them.
MCOffered == {<<acc, a>>, <<acc, b>>, <<acc, c>>, <<card, a>>}

MCBefore ==
  [row \in {"schema", "attrs"} \X {acc, card} |-> {field \in {a, b, c} : <<row[2], field>> \in MCOffered}]

\* An edit takes c away from the attributes of acc, or b from its schema.
MCAfter == [MCBefore EXCEPT ![<<"schema", acc>>] = @ \ {b}, ![<<"attrs", acc>>] = @ \ {c}]

MCEditable == {<<"schema", acc>>, <<"attrs", acc>>}

\* Rules that reference one field of acc, another one, or a field of each.
MCScopes == {{<<acc, a>>}, {<<acc, b>>, <<card, a>>}}

Symmetry == Permutations({r1, r2})
=============================================================================
