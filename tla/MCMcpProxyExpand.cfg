CONSTANTS
  plain = plain
  long = long
  huge = huge
  Content = {long, huge}
  Size <- MCSize
  Compressible <- MCCompressible
  Requests = {r1, r2, r3}
  Ops = {"taskResult", "expand"}
  AskedRefs <- MCRefs
  Stamps = {0, 1}
  MaxCalls = 2
  MaxRestarts = 1
  ClockReads <- MCClockReads
  MaxEntries = 1
  MaxBytes = 5
  MaxPuts = 2
  Configs <- MCUsual
SYMMETRY RequestSymmetry
SPECIFICATION ProxySpec
INVARIANT ExpandIsOriginal
INVARIANT PutsAreQuoted
CHECK_DEADLOCK FALSE
