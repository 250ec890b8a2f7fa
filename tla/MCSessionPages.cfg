CONSTANTS
  Pages = 2
  Loads <- MCOneChange
SPECIFICATION SessionSpec
CHECK_DEADLOCK FALSE
INVARIANT PagesAreUpstreams
