SPECIFICATION FairSpec
CONSTANTS
  j1 = j1
  Jobs = {j1}
  Tasks = {t1, t2}
  JobOf <- RunJob
  WaitOutlastsLease = TRUE
  Readers = {r1, r2}
  Follows <- FollowJob
  MaxEvents = 2
  MaxPublished = 4
  MaxCuts = 2
INVARIANTS
  ReaderMissesOnlyTrimmed
PROPERTIES
  DoneMeansEverything
  ReadersReleased
CHECK_DEADLOCK FALSE
