SPECIFICATION FairSpec
CONSTANTS
  WordBits = 8
  FieldBits = 6
  BitAnd <- MCAnd
  BitOr <- MCOr
  BitXor <- MCXor
  MemSize = 48
  Asserting = TRUE
  Images <- MCImages
  Budgets <- MCBudgets
  MayFail = TRUE
INVARIANT
  TypeOK
PROPERTIES
  NearBranchReachesTarget
  BoundedRunReturns
\* A machine that is lost stops.
CHECK_DEADLOCK FALSE
