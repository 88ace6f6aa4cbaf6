SPECIFICATION FairSpec
CONSTANTS
  p1 = p1  p2 = p2  s1 = s1  s2 = s2  r1 = r1  r2 = r2  g1 = g1  g2 = g2  g3 = g3
  Placement = {p1}
  Schedule = {s1}
  Rule = {r1}
  PlacementOf <- OneEach
  RuleOf <- OneRule
  Proc = {g1, g2}
  Duties <- TwoAtATime
  Gen <- Batches4
  None = None
  All = All
  Faults = {"softdelete"}
  MaxEdits = 1
  MaxFails = 0
  MaxPings = 1
  InboxCap = 1
PROPERTIES MirrorConverges MirrorIsReplica MissIsRetried SkipsLoseNothing
CHECK_DEADLOCK FALSE
