SPECIFICATION Spec
CONSTANTS
  SubBucketBits = 1
  Octaves = 2
  Threads = {loop, other}
  Sizes = {1, 2}
  RtThread = loop
  Requests <- MCRequests
  Period = 2
  CycleLimits = {0, 2}
  Delays = {0, 5}
  MaxClock = 9
  GuardClock = 4
  MaxRuns = 2
  MaxAllocs = 2
  Quantiles = {0, 500, 900, 990, 1000, 1500}
INVARIANTS
  Cadence
  StopWithinOneCycle
  AllocationReportIsExact
  PercentileIsConservative
  ThreadReportIsTrue
CHECK_DEADLOCK FALSE
