\* Is what a failing child says on stderr always surfaced?
SPECIFICATION Spec
CONSTANTS
  PipeCap = 1
  Prompt = 2
  MaxOut = 1
  MaxErr = 1
PROPERTIES
  StderrIsSurfaced
CHECK_DEADLOCK FALSE
