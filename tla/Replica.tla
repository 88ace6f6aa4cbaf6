------------------------------- MODULE Replica -------------------------------
(***************************************************************************)
(* What the delivery pod promises about the items it keeps a copy of: the  *)
(* copies come and go with what the pulls saw.  A pull looks at the source *)
(* twice, first at what is listed, then at which of these are deleted, and *)
(* writes once.  Its write takes on nothing that it did not see, drops     *)
(* whatever else it pulls, keeps what it saw, and touches nothing outside  *)
(* what it pulls; a pull that could not look gives up.  Several pulls run  *)
(* at once, and each writes what it saw, however old that is by then.      *)
(***************************************************************************)
CONSTANTS
  Item,
  Puller,  \* who may pull
  None     \* no pull under way

VARIABLES
  listed,   \* the items the source lists at the moment
  deleted,  \* the items deleted from the source
  kept,     \* the items the pod has a copy of
  sight     \* sight[g]: what the pull of g has seen, None if it is not pulling

vars == <<listed, deleted, kept, sight>>

\* A pull is over some items; it has seen some of them; it is sure of them once
\* it knows which are deleted.
Sight == [over : SUBSET Item, seen : SUBSET Item, sure : BOOLEAN]

Init ==
  /\ listed \in SUBSET Item
  /\ deleted = {}
  /\ kept = {}
  /\ sight = [g \in Puller |-> None]

\* The source changes as it likes, but what is deleted stays deleted.
Change ==
  /\ listed' \in SUBSET Item
  /\ deleted' \in SUBSET Item
  /\ deleted \subseteq deleted'
  /\ UNCHANGED <<kept, sight>>

\* When nothing is listed there is nothing to be unsure of.
Look(g, over) ==
  /\ sight[g] = None
  /\ sight' = [sight EXCEPT ![g] =
                 [over |-> over, seen |-> over \cap listed, sure |-> over \cap listed = {}]]
  /\ UNCHANGED <<listed, deleted, kept>>

LookAgain(g) ==
  /\ sight[g] # None
  /\ sight' = [sight EXCEPT ![g] =
                 [over |-> @.over, seen |-> @.seen \ deleted, sure |-> TRUE]]
  /\ UNCHANGED <<listed, deleted, kept>>

\* A write may fail to take on what is new (memory), never to keep what is kept.
Write(g) ==
  /\ sight[g] # None
  /\ sight[g].sure
  /\ kept' \in SUBSET Item
  /\ kept \cap sight[g].seen \subseteq kept'
  /\ kept' \cap sight[g].over \subseteq sight[g].seen
  /\ kept' \ sight[g].over = kept \ sight[g].over
  /\ sight' = [sight EXCEPT ![g] = None]
  /\ UNCHANGED <<listed, deleted>>

\* A query failed; a pull that is sure does write.
GiveUp(g) ==
  /\ sight[g] # None
  /\ ~sight[g].sure
  /\ sight' = [sight EXCEPT ![g] = None]
  /\ UNCHANGED <<listed, deleted, kept>>

\* Copies are dropped at any time: they expire, are flushed or invalidated.
Forget ==
  /\ kept' \in SUBSET kept
  /\ UNCHANGED <<listed, deleted, sight>>

Next ==
  \/ Change
  \/ Forget
  \/ \E g \in Puller :
       \/ \E over \in SUBSET Item : Look(g, over)
       \/ LookAgain(g)
       \/ Write(g)
       \/ GiveUp(g)

Spec == Init /\ [][Next]_vars

==============================================================================
