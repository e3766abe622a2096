SPECIFICATION Spec

CONSTANTS
  a = a
  b = b
  c = c
  Nil = Nil
  Fds <- MCFds
  Handles <- MCHandles
  Masks <- MCMasks
  Conditions <- MCConditions
  MaxEvents = 2
  MaxImmediates = 1

INVARIANTS
  TypeOK
  SizeCountsRegistrations
  TablesAgree
  ExitsOnlyWhenIdle
  EventsReachTheirHandle
  RegistrationsKept

PROPERTY ImplementsHandleLoop

SYMMETRY HandleSymmetry
