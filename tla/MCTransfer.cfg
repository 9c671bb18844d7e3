SPECIFICATION MCSpec
CONSTANTS
  WordBits = 8
  FieldBits = 6
  BitAnd <- MCAnd
  BitOr <- MCOr
  BitXor <- MCXor
  MemSize = 64
  Asserting = FALSE
  Images <- MCImages
  Budgets <- MCBudgets
  MayFail = FALSE
INVARIANTS
  TransferInSteps
  HalfwordViews
  HalfwordWalk
  RegisterOffsetAgrees
PROPERTIES
  HostStaysInside
  StoresOnlyItsHalfword
\* One call of run(), which returns or is lost.
CHECK_DEADLOCK FALSE
