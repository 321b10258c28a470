\* The audit trail against the comments on it.
SPECIFICATION Spec
CONSTANTS
  N = 1
  Sources <- MCSources
  ReadOnly <- MCReadOnly
  Tokens <- MCTokens
  WriteTokens <- MCWriteTokens
  Requests <- MCRequests
INVARIANTS
  ChangesAreAudited
\* Every request may be over.
CHECK_DEADLOCK FALSE
