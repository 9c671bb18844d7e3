SPECIFICATION MCSpec
CONSTANTS
  WordBits = 4
  FieldBits = 2
  BitAnd <- MCAnd
  BitOr <- MCOr
  BitXor <- MCXor
  MemSize = 12
  Asserting = TRUE
  Images <- MCImages
  Budgets <- MCBudgets
  MayFail = FALSE
PROPERTY
  SignedAccumulates
\* One call of run(), which returns.
CHECK_DEADLOCK FALSE
