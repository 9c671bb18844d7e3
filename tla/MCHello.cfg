SPECIFICATION SliceSpec
CONSTANTS
  WordBits = 8
  FieldBits = 6
  BitAnd <- MCAnd
  BitOr <- MCOr
  BitXor <- MCXor
  MemSize = 124
  Asserting = TRUE
  Images <- HelloImages
  Budgets <- HelloBudgets
  MayFail = FALSE
  Uart = 120
PROPERTIES
  DeliversMessage
  DeliversAll
  SlicesAreInvisible
