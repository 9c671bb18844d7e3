SPECIFICATION SliceSpec
CONSTANTS
  WordBits = 8
  FieldBits = 6
  BitAnd <- MCAnd
  BitOr <- MCOr
  BitXor <- MCXor
  MemSize = 124
  Asserting = TRUE
  Images <- HelloImages
  Budgets <- HelloBudgets
  MayFail = TRUE
  Uart = 120
INVARIANT RunsOnlyLoadedProgram
