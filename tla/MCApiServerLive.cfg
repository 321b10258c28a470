\* Requests of two clients, one of which may panic with the lock of the source.
SPECIFICATION FairSpec
CONSTANTS
  N = 2
  Sources <- MCSources
  ReadOnly <- MCReadOnly
  Tokens <- MCTokens
  WriteTokens <- MCWriteTokens
  Requests <- MCRequests
PROPERTIES
  EveryRequestAnswered
\* Every request may be over.
CHECK_DEADLOCK FALSE
