CONSTANTS
  NumBits = 16
  Word = 65536
  BaseScalars <- MCBaseScalars
  ScalarPairs <- MCScalarPairs
  Prime = 29
  CurveD = 2
  SqrtM1 = 12
  Scales = {11}
  Ys <- MCYs
  Functions = {"fe_tobytes"}
  Idle = Idle
SPECIFICATION AllSpec
INVARIANT DocumentedIsNonzero
CHECK_DEADLOCK FALSE
