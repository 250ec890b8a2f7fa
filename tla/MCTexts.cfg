CONSTANTS
  MinSentenceChars = 3
  Abbreviations <- MCAbbreviations
  Alphabet <- MCAlphabet
  MaxText <- MCMaxText
  JsonTokens <- MCJsonTokens
  MaxTokens = 5
  Escapes <- MCEscapes
SPECIFICATION TextSpec
CHECK_DEADLOCK FALSE
INVARIANT EscapesGo
INVARIANT VariantsAgree
INVARIANT BlankRunsOnly
INVARIANT MinifyIsLossless
INVARIANT SentencesSurvive
INVARIANT CountsAddUp
