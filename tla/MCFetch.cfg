CONSTANTS
  Members <- MCMembers
  MaxMembers = 3
  Condense <- MCCondense
  Rounded <- MCRounded
SPECIFICATION FetchSpec
CHECK_DEADLOCK FALSE
INVARIANT SpliceIsSurgical
INVARIANT UpstreamReadsCompressed
INVARIANT AnswerIsIntact
