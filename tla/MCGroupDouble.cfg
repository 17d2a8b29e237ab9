CONSTANTS
  NumBits = 16
  Word = 65536
  BaseScalars <- MCBaseScalars
  ScalarPairs <- MCScalarPairs
  Prime = 29
  CurveD = 2
  SqrtM1 = 12
  Scales = {11}
  Ys <- MCYs
  Idle = Idle
SPECIFICATION MCSpec
INVARIANT DocumentedDouble
CHECK_DEADLOCK FALSE
