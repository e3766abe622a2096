SPECIFICATION FairSpec

CONSTANTS
  c1 = c1
  c2 = c2
  Nil = Nil
  Clients <- OneClient
  Fds <- ThreeFds
  RecordUnits = 1
  Capacity = 2
  BufUnits = 2
  MaxRecords = 2
  MaxUnits = 0
  Failures <- NoFailures

PROPERTY ClientReachesBackend
