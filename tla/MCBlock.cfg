SPECIFICATION MCSpec
CONSTANTS
  WordBits = 8
  FieldBits = 6
  BitAnd <- MCAnd
  BitOr <- MCOr
  BitXor <- MCXor
  MemSize = 128
  Asserting = TRUE
  Images <- MCImages
  Budgets <- MCBudgets
  MayFail = FALSE
INVARIANT
  StoreThenLoadRestores
PROPERTY ImplementsMultipleTransfer
\* One call of run(), which returns or is lost.
CHECK_DEADLOCK FALSE
