SPECIFICATION Spec
CONSTANTS
  FetchedWords <- Swept
  Asserting = FALSE
INVARIANTS
  FormatAgrees
  FieldsReadBack
\* One word is decoded.
CHECK_DEADLOCK FALSE
