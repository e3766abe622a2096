SPECIFICATION Spec

CONSTANTS
  c1 = c1
  c2 = c2
  Nil = Nil
  Clients <- TwoClients
  Fds <- FiveFds
  RecordUnits = 1
  Capacity = 1
  BufUnits = 2
  MaxRecords = 0
  MaxUnits = 1
  Failures <- CloseOnly

INVARIANT TearDownIsSafe
