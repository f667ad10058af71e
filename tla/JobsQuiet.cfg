SPECIFICATION QuietSpec
CONSTANTS
  p1 = p1
  d1 = d1
  d2 = d2
  NoJob = NoJob
  ParseJobs = {p1}
  DirectJobs = {}
  DemoJobs = {}
  DriftJobs = {}
  Dispatchers = {d1, d2}
  MaxConcurrency = 1
  MaxMessages = 2
  WaitOutlastsLease = FALSE
  MaxCrashes = 1
  MaxFaults = 0
PROPERTIES
  QueuedEventuallyLeaves
