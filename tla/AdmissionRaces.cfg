SPECIFICATION Spec
CONSTANTS
  t1 = t1
  t2 = t2
  h1 = h1
  h2 = h2
  None = None
  Procs = {a, b}
  Requests = {r1, r2, r3}
  Keys = {k1, k2}
  Tokens = {t1, t2}
  Hashes = {h1, h2}
  TokenHash <- MCTokenHash
  Bodies <- MCBodies
  QuotaLimit = 1
  MaxDisturbances = 2
SYMMETRY AdmissionSymmetry
INVARIANTS
  TypeOK
  PendingHasOwner
  TokenPaysOneJob
  RegistryAgrees
PROPERTIES
  ImplementsLedger
  RetryReturnsOriginal
CHECK_DEADLOCK FALSE
