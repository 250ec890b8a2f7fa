CONSTANTS
  Texts <- MCTexts
  Ratios = {0, 500, 900}
  RedundancyPct = 60
  MinSpan = 4
  MinSentences = 3
  Slack = 1
SPECIFICATION ExtractSpec
CHECK_DEADLOCK FALSE
INVARIANT ProhibitionsSurvive
INVARIANT AntecedentsSurvive
INVARIANT DroppedForAReason
INVARIANT BudgetIsKept
INVARIANT NoTwins
INVARIANT PortsKeepTheSame
