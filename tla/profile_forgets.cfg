CONSTANTS
  r1 = r1
  r2 = r2
  acc = acc
  card = card
  a = a
  b = b
  c = c
  None = None
  Req = {r1}
  DS = {acc, card}
  Field = {a, b, c}
  Scopes <- MCScopes
  Offered <- MCOffered
  Before <- MCBefore
  After <- MCAfter
  Editable = {}
  MaxEdits = 0
  MaxFaults = 0
  MaxCalls = 3
SPECIFICATION Spec
INVARIANT RefetchesOmitted
