SPECIFICATION FairSpec
CONSTANTS
  j1 = j1
  j2 = j2
  N = 3
  Maxes <- One
  Jobs <- TwoJobs
  MaxOpen = 3
INVARIANTS OnlyOpenJobsRun OneThreadEach
PROPERTIES PoolCallsReturn JobsRun
