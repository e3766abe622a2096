SPECIFICATION FairSpec

CONSTANTS
  c1 = c1
  c2 = c2
  Nil = Nil
  Clients <- OneClient
  Fds <- ThreeFds
  RecordUnits = 2
  Capacity = 1
  BufUnits = 2
  MaxRecords = 2
  MaxUnits = 3
  Failures <- CloseAndReset

INVARIANTS
  TypeOK
  InterestFollowsBacklog
  ClientStreamIntact
  BackendStreamIntact

PROPERTIES
  ImplementsPipes
  EndOfBackendDelivered
  BackendReachesClient
