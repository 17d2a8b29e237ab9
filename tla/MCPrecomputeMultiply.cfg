CONSTANTS
  t1 = t1
  t2 = t2
  B = B
  Q = Q
  R = R
  Threads <- MCThreads
  P3s <- MCElements
  Others <- MCOthers
  Single = 2
  Double = 2
  Calls = 3
SPECIFICATION Spec
INVARIANT DocumentedMultiply
CHECK_DEADLOCK FALSE
