CONSTANTS
  Pages = 1
  Loads <- MCLoads
SPECIFICATION FairSessionSpec
CHECK_DEADLOCK FALSE
INVARIANT NoChangeIsLost
INVARIANT CompletionsMatch
INVARIANT WithdrawnTogether
PROPERTY ViewsCatchUp
