CONSTANTS
  c1 = c1
  c2 = c2
  c4 = c4
  c7 = c7
  Content = {c1, c2, c4, c7}
  Size <- MCSize
  MaxEntries = 2
  MaxBytes = 5
  Stamps = {0, 1}
  MaxPuts = 4
SPECIFICATION StoreSpec
INVARIANT TypeOK
INVARIANT Truthful
INVARIANT WithinCaps
PROPERTY KeepsWhatFits
PROPERTY ImplementsCache
