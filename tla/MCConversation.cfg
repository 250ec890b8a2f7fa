CONSTANTS
  prompt = prompt
  tidyPrompt = tidyPrompt
  prose = prose
  proseCrlf = proseCrlf
  gist = gist
  question = question
  error = error
  oops = oops
  hidden = hidden
  records = records
  spacedRecords = spacedRecords
  call = call
  line = line
  empty = empty
  image1 = image1
  image2 = image2
  Images = {image1, image2}
  placeholder = placeholder
  Text <- MCText
  Blank = {empty}
  Erred = {error, oops}
  CodeLines <- MCCodeLines
  Hundreds <- MCHundreds
  Keys <- MCKeys
  Plain <- MCPlain
  Tidied <- MCTidied
  Minified <- MCMinified
  Extracted <- MCExtracted
  Tokens <- MCTokens
  EmptyText = empty
  Placeholder = placeholder
  Messages <- MCMessages
  Threshold = 9
  LastTurns = 2
  AfterTurns = 4
  MaxLength = 7
  Usize = 65536
SPECIFICATION ConversationSpec
CHECK_DEADLOCK FALSE
INVARIANT BlocksIntact
INVARIANT NothingOrphaned
INVARIANT DroppedIsRepeat
INVARIANT OnlyProseIsCondensed
INVARIANT PortsSendTheSame
INVARIANT DistinctKeepPlaces
PROPERTY StablePrefix
