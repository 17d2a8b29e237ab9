CONSTANTS
  Nothing = Nothing
  Given <- MCGiven
  Hashes <- MCHashes
  Canonical <- MCCanonical
  Lengths <- MCLengths
  Still = Still
  t1 = t1
  t2 = t2
  B = B
  Q = Q
  R = R
  Threads <- MCThreads
  P3s <- MCElements
  Others <- MCOthers
  Single = 2
  Double = 2
  Calls = 3
SPECIFICATION MCSpec
INVARIANTS
  DecodesDocumented
  Migrates
  HashesPaddedMessage
  NoNullRead
  TablesWhole
PROPERTIES
  NeverRebuilt
  Completes
CHECK_DEADLOCK FALSE
