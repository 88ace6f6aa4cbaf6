SPECIFICATION Spec
CONSTANTS
  p1 = p1  p2 = p2  s1 = s1  s2 = s2  r1 = r1  r2 = r2  g1 = g1  g2 = g2  g3 = g3
  Placement = {p1, p2}
  Schedule = {s1, s2}
  Rule = {r1}
  PlacementOf <- OneEach
  RuleOf <- OneRule
  Proc = {g1}
  Duties <- OneAtATime
  Gen <- Batches3
  None = None
  All = All
  Faults = {}
  MaxEdits = 1
  MaxFails = 0
  MaxPings = 1
  InboxCap = 1
PROPERTIES PingDropsStaleRule
CHECK_DEADLOCK FALSE
