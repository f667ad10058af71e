SPECIFICATION Spec
CONSTANTS
  c1 = c1
  c2 = c2
  c3 = c3
  c4 = c4
  p1 = p1
  Calls = {c1, c2, c3, c4}
  Keys = {c1, c2, c3}
  Prints = {p1}
  KeyOf <- MCKeyOf
  PrintOf <- MCPrintOf
  Approvals = {a1}
  None = None
  WindowsCalls = {}
  MaxDisturbances = 0
SYMMETRY CallSymmetry
INVARIANTS
  TypeOK
  RowsHaveDistinctWarrants
  AnswersHold
PROPERTIES
  SettledForGood
CHECK_DEADLOCK FALSE
