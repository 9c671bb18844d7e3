SPECIFICATION SliceSpec
CONSTANTS
  WordBits = 8
  FieldBits = 6
  BitAnd <- MCAnd
  BitOr <- MCOr
  BitXor <- MCXor
  MemSize = 124
  Asserting = TRUE
  Images <- GuestImages
  Budgets <- GuestBudgets
  MayFail = FALSE
  Uart = 123
INVARIANT
  GuestsCompute
PROPERTIES
  HostTerminates
  EvaluatesWhatWasAsked
