SPECIFICATION Spec
CONSTANTS
  WordBits = 8
  FieldBits = 6
  BitAnd <- MCAnd
  BitOr <- MCOr
  BitXor <- MCXor
  MemSize = 32
  Asserting = TRUE
  Images <- MCImages
  Budgets <- MCBudgets
  MayFail = FALSE
PROPERTY EachIsAlone
\* A process whose machine aborts or is lost stops.
CHECK_DEADLOCK FALSE
