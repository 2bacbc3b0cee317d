CONSTANTS
  MinAsset = 5
  MaxAmount = 30
  HalfWord = 64
  Amounts <- AllAmounts
SPECIFICATION Spec
INVARIANTS TypeOK AbortsOnlyOutOfRange
PROPERTY ExactArithmetic
