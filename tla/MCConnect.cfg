\* Planning, dialling and probing every kind of transport.
SPECIFICATION Spec
CONSTANTS
  Absent = Absent
  MaxIdLen = 6
  MaxField = 2
  MaxHeader = 5
  MaxEarly = 2
  MaxAddresses = 2
  Profiles <- MCProfiles
  Transports <- ProfileTransports
  CredentialLength <- MCCredentialLength
INVARIANTS
  TypeOK
  SessionIsTheChannels
  TunnelBytesIntact
  PlanNamesTheRoute
  ProbeTellsTheTruth
PROPERTIES
  ImplementsTunnel
\* An attempt ends.
CHECK_DEADLOCK FALSE
