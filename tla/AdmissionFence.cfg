SPECIFICATION Spec
CONSTANTS
  t1 = t1
  t2 = t2
  h1 = h1
  h2 = h2
  None = None
  Procs = {a, b}
  Requests = {r1, r2}
  Keys = {k1, k2}
  Tokens = {t1, t2}
  Hashes = {h1, h2}
  TokenHash <- MCTokenHash
  Bodies <- MCBodies
  QuotaLimit = 1
  MaxDisturbances = 1
SYMMETRY AdmissionSymmetry
PROPERTIES
  InProgressIsTrue
CHECK_DEADLOCK FALSE
