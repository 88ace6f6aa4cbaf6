------------------------------ MODULE MCMirror ------------------------------
(***************************************************************************)
(* Small instances of Mirror for TLC.                                      *)
(***************************************************************************)
EXTENDS Mirror

CONSTANTS p1, p2, s1, s2, r1, r2, g1, g2, g3

\* One schedule on each of two placements, both of the same decision rule.
OneRule == [s \in Schedule |-> r1]
OneEach == [s \in Schedule |-> IF s = s1 THEN p1 ELSE p2]

\* Everything the service does, one thing after the other.
OneAtATime == [g \in Proc |-> {"tick", "ping", "request", "flush"}]

\* Any two of the ticker, the subscriber and a content request at the same time.
TwoAtATime ==
  [g \in Proc |-> IF g = g1 THEN {"tick", "ping"} ELSE {"ping", "request"}]

\* The subscriber against whatever callers do.
PingAgainstCalls ==
  [g \in Proc |-> IF g = g1 THEN {"ping"} ELSE {"request", "flush"}]

Batches3 == 1..3
Batches4 == 1..4
Batches5 == 1..5
Batches6 == 1..6

=============================================================================
