SPECIFICATION Spec
CONSTANTS
  ByteBits = 2
  FloatMax = 8
  FloatPrecision = 4
  Families <- MCNarrowUnsigned
INVARIANT VerdictsMean
