SPECIFICATION FairSpec

CONSTANTS
  v = v
  w = w
  Nil = Nil
  Handles <- MCHandles
  Tids <- MCTids
  MaxRuns = 3

INVARIANTS
  TypeOK
  NoUseAfterFree
  TellsTheTruth
  ThreadsAccounted

PROPERTIES
  WaitReturns
