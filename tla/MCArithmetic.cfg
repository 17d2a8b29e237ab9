CONSTANTS
  NumBits = 16
  Word = 65536
  BaseScalars <- MCBaseScalars
  ScalarPairs <- MCScalarPairs
  Prime = 29
  CurveD = 2
  SqrtM1 = 12
  Scales = {11}
  Ys <- MCYs
  Functions = {"fe_add", "fe_sub", "fe_neg", "fe_cmov", "fe_mul", "fe_sq", "fe_sq2", "multiply", "square", "squareAndDouble", "fe_tobytes", "encode", "fe_frombytes", "decode"}
  Idle = Idle
SPECIFICATION AllSpec
INVARIANTS
  Congruent
  Canonical
  Tests
  ScalarCongruent
  ScalarCanonical
  NoStaleLimb
  RaisesToPower
  FormulasComplete
  DecodesExactly
  LimbsBounded
  Digits
  LadderInvariant
  Computes
CHECK_DEADLOCK FALSE
