CONSTANTS
  r1 = r1
  r2 = r2
  acc = acc
  card = card
  a = a
  b = b
  c = c
  None = None
  Req = {r1, r2}
  DS = {acc, card}
  Field = {a, b, c}
  Scopes <- MCScopes
  Offered <- MCOffered
  Before <- MCBefore
  After <- MCAfter
  Editable <- MCEditable
  MaxEdits = 1
  MaxFaults = 1
  MaxCalls = 3
SYMMETRY Symmetry
SPECIFICATION Spec
INVARIANTS TypeOK NothingDropped ExtrasResolved MemoReal CallsBounded
