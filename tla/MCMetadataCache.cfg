\* A schema that changes under a cache, with loads that fail or are overtaken.
SPECIFICATION FairSpec
CONSTANTS
  Absent = Absent
  Connections = {c1}
  Schemas = {"public", "other"}
  Names = {"t"}
  Databases <- MCDatabases
  Manual <- MCManual
  StaleAfter = 1
  MaxBack = 1
  MaxChanges = 1
  MaxInvalidations = 1
  MaxQueue = 1
  MaxLoads = 2
INVARIANTS
  GapsAreAskedFor
PROPERTIES
  CacheConverges
