\* Exporting, importing and linking every kind of profile.
SPECIFICATION Spec
CONSTANTS
  Absent = Absent
  MaxIdLen = 6
  MaxCalls = 2
  ProfileLists <- MCProfileLists
  Edits <- MCEdits
  Values <- MCValues
  OwnSecrets <- MCOwnSecrets
INVARIANTS
  SlotsAreTheSecrets
  ExportRefusesForAReason
  SecretsReadBack
\* A transfer ends.
CHECK_DEADLOCK FALSE
