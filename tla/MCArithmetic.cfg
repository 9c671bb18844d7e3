SPECIFICATION MCSpec
CONSTANTS
  WordBits = 4
  FieldBits = 2
  BitAnd <- MCAnd
  BitOr <- MCOr
  BitXor <- MCXor
  MemSize = 12
  Asserting = TRUE
  Images <- MCImages
  Budgets <- MCBudgets
  MayFail = FALSE
INVARIANTS
  DoubleWordArithmetic
  WideArithmetic
PROPERTIES
  CompareDecidesConditions
  FlagsDescribeExactResult
  ShifterMovesBits
  LongProductExact
\* One call of run(), which returns.
CHECK_DEADLOCK FALSE
