\* Exporting every kind of result in every format, and importing it again.
SPECIFICATION Spec
CONSTANTS
  Absent = Absent
  ProgressEvery = 2
  MaxRows = 2
  SampleRows = 2
  Tokens <- MCTokens
  Formats <- MCFormats
  Results <- MCResults
INVARIANTS
  OutputIsTheRows
  PreviewReadsBack
  InsertsFitTheSchema
  CancelStopsSoon
\* A job ends.
CHECK_DEADLOCK FALSE
