\* Accept loop and connection tasks, safety and liveness.
SPECIFICATION ForwarderFairSpec
CONSTANTS
  c1 = c1
  c2 = c2
  c3 = c3
  Conns <- MCConns
  PoolSize = 2
INVARIANTS
  ForwarderTypeOK
  EndsTogether
PROPERTIES
  CancelStops
  EveryClientAnswered
  LeaverReleasesTunnel
\* A forwarder that was cancelled stops.
CHECK_DEADLOCK FALSE
