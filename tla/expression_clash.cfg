CONSTANTS
  None = None
  Null = Null
  Garbage = Garbage
  Absent = Absent
  Error = Error
  Node = {1, 2, 3, 4}
  Attr = {1, 2, 3, 4}
  maxConditionDepth = 3
  Stored <- ClashStored
  MaxChanged = 4
  Expected <- MCExpected
  Actual <- MCActual
  Plain <- MCPlain
SPECIFICATION Spec
PROPERTIES ExpressionIdentifies
