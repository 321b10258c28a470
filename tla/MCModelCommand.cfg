\* Pipes between the process and the program it runs as a model.
SPECIFICATION FairSpec
CONSTANTS
  PipeCap = 1
  Prompt = 2
  MaxOut = 2
  MaxErr = 2
INVARIANTS
  TypeOK
  OkIsWholeAnswer
  StuckOnlyOnOutput
PROPERTIES
  CompleteReturns
  ChatReturns
\* The command has returned, or the two processes wait for each other.
CHECK_DEADLOCK FALSE
