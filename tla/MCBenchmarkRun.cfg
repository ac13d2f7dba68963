SPECIFICATION DrainSpec
CONSTANTS
  Messages = 3
  AuditPoints = 2
  MaxReports = 2
  Capacity = 2
  DrainBatch = 2
CHECK_DEADLOCK FALSE
INVARIANTS
  TypeOK
  AllCollected
  AuditSound
  NoLateKill
PROPERTIES
  CarriesReports
  SpinEnds
  RunEnds
