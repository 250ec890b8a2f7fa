CONSTANTS
  Width <- MCWidth
  Spans <- MCSpans
  Guarded <- MCGuarded
  Modes <- MCModes
SPECIFICATION FairSelfSpec
CHECK_DEADLOCK FALSE
INVARIANT FallbackIsWhole
INVARIANT InTurn
PROPERTY NoLateWrites
PROPERTY CompressionEnds
