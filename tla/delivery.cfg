SPECIFICATION Spec
CONSTANTS
  r1 = r1
  r2 = r2
  r3 = r3
  None = None
  Req = {r1, r2, r3}
  Burst = 2
  MCR = 1
  Limit = 2
  MaxPage = 20
  Blank = Blank
  NaN = NaN
  Queries <- MCQueries
  Inventory <- MCInventory
  Losses <- MCLosses
  Answers <- MCAnswers
INVARIANTS TypeOK SlotsAccounted
PROPERTIES RepliesRanked RepliesComplete SalesNeedLead RequestsAnswered
