CONSTANTS
  plain = plain
  long = long
  huge = huge
  Content = {plain, long}
  Size <- MCSize
  Compressible <- MCCompressible
  Requests = {r1, r2}
  Ops = {"call", "expand", "list", "forward"}
  AskedRefs <- MCOneRef
  Stamps = {0}
  MaxCalls = 2
  MaxRestarts = 0
  ClockReads <- MCClockReads
  MaxEntries = 1
  MaxBytes = 5
  MaxPuts = 2
  Configs <- MCConfigs
SPECIFICATION FairProxySpec
INVARIANT AnswersAreUpstreams
INVARIANT CancelReachesUpstream
PROPERTY EveryRequestEnds
CHECK_DEADLOCK FALSE
