\* Requests of three clients on two sources: what the guards and the shared
\* transaction let through.
SPECIFICATION Spec
CONSTANTS
  N = 3
  Sources <- MCSources
  ReadOnly <- MCReadOnly
  Tokens <- MCTokens
  WriteTokens <- MCWriteTokens
  Requests <- MCRequests
INVARIANTS
  TypeOK
  AnswerIsAudited
  ChangesAreAuthorised
  AcknowledgedInsertStays
\* Every request may be over.
CHECK_DEADLOCK FALSE
