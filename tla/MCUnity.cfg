SPECIFICATION Spec
CONSTANTS
  ByteBits = 2
  FloatMax = 8
  FloatPrecision = 4
  Families <- MCFamilies
INVARIANTS TypeOK CountsMatchReport OneVerdict ReportShowsMismatch
PROPERTIES TearDownRuns ImplementsTestSuite
