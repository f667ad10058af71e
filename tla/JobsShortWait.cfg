SPECIFICATION Spec
CONSTANTS
  p1 = p1
  p2 = p2
  q1 = q1
  d1 = d1
  d2 = d2
  NoJob = NoJob
  ParseJobs = {p1, p2}
  DirectJobs = {q1}
  DemoJobs = {p2}
  DriftJobs = {q1}
  Dispatchers = {d1, d2}
  MaxConcurrency = 1
  MaxMessages = 2
  WaitOutlastsLease = FALSE
  MaxCrashes = 1
  MaxFaults = 1
SYMMETRY DispatcherSymmetry
INVARIANTS
  TypeOK
  SlotConservation
  QueuedIsRecoverable
  DeliveredIsTerminal
  RunAtMostOnce
  NoStrandedRunning
  ResultMeansFinished
PROPERTIES
  TerminalIsFinal
