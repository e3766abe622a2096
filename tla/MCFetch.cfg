SPECIFICATION FairSpec

CONSTANTS
  f = f
  g = g
  Nil = Nil
  Fetches <- MCFetches
  MaxCopies = 2
  MaxUnits = 2

INVARIANTS
  TypeOK
  LookupsSpeakOnce
  AnswersReachTheirFetch
  PooledIsIdle

PROPERTIES
  CalmFetchCompletes
