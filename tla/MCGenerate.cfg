\* Planning questions and verifying what a model may answer.
SPECIFICATION GenerateSpec
CONSTANTS
  Absent = Absent
  MaxRelevant = 3
  ScopeThreshold = 3
  MaxContext = 2
  MaxAttempts = {0, 2}
  Names <- MCNames
  NamedBy <- MCNamedBy
  Seeds <- MCSeeds
  Schemas <- MCSchemas
  Questions <- MCQuestions
  Statements <- MCStatements
  Wrappings <- MCWrappings
INVARIANTS
  VerdictIsTheDatabases
  PlanIsAccepted
\* The loop ends.
CHECK_DEADLOCK FALSE
