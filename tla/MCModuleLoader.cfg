SPECIFICATION FairSpec

CONSTANTS
  a = a
  b = b
  d = d
  Nil = Nil
  Modules <- MCModules
  Requests <- MCRequests
  Dynamic <- MCDynamic
  Hooked <- MCHooked
  Local <- MCLocal
  MayAwait <- MCMayAwait
  MayThrow <- MCMayThrow
  MaxImports = 2

INVARIANTS
  TypeOK
  OneInstance
  NoReentrantEvaluation
  ImportsSeeFinishedModules
  ImportersAgree

PROPERTY ImportsSettle
