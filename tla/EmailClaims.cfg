SPECIFICATION Spec
CONSTANTS
  Deliveries = {d1}
  Workers = {w1, w2}
  Addresses = {x1, x2}
  NoAddress = NoAddress
  FirstAddress = x1
  MaxAttempts = 2
  BatchSize = 1
  MaxResends = 1
  MaxEdits = 0
  MaxDisturbances = 2
SYMMETRY OutboxSymmetry
INVARIANTS
  TypeOK
  SubmissionsBounded
  SentWasAccepted
  OnceUnlessDisturbed
PROPERTIES
  TerminalUntilResend
CHECK_DEADLOCK FALSE
