SPECIFICATION TrafficSpec
CONSTANTS
  p1 = p1
  q1 = q1
  d1 = d1
  d2 = d2
  NoJob = NoJob
  ParseJobs = {p1}
  DirectJobs = {q1}
  DemoJobs = {}
  DriftJobs = {}
  Dispatchers = {d1, d2}
  MaxConcurrency = 1
  MaxMessages = 2
  WaitOutlastsLease = TRUE
  MaxCrashes = 1
  MaxFaults = 1
PROPERTIES
  EventuallySettled
  QueuedEventuallyLeaves
