SPECIFICATION FairSpec
CONSTANTS
  c1 = c1
  c2 = c2
  c3 = c3
  c4 = c4
  p1 = p1
  Calls = {c1, c2}
  Keys = {c1, c2}
  Prints = {p1}
  KeyOf <- MCKeyOf
  PrintOf <- MCPrintOf
  Approvals = {a1}
  None = None
  WindowsCalls = {c2}
  MaxDisturbances = 1
INVARIANTS
  ExecutingIsOwned
  ResponseMatchesRecords
  NoForgottenLease
  TraceAgrees
PROPERTIES
  ImplementsLease
  EverythingEnds
CHECK_DEADLOCK FALSE
