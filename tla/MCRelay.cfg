\* One forwarded connection: safety, liveness, and that it implements a pair
\* of pipes.
SPECIFICATION FairSpec
CONSTANTS
  Cap = 2
  SockCap = 2
  Total <- MCTotal
INVARIANTS
  TypeOK
  InOrder
  BufferIsTheGap
  EofAfterLastByte
PROPERTIES
  ImplementsPipe
  EveryByteDelivered
  ShutdownEndsRelay
  CancelEndsRelay
\* A forwarded connection ends.
CHECK_DEADLOCK FALSE
