SPECIFICATION FairSpec

CONSTANTS
  a = a
  b = b
  c = c
  Nil = Nil
  Fds <- MCFdsOne
  Handles <- MCHandlesTwo
  Masks <- MCMasksOne
  Conditions <- MCConditionsIn
  MaxEvents = 1
  MaxImmediates = 3

INVARIANT ImmediatesInOrder

PROPERTIES
  ImmediatesDeferred
  ImmediatesRun
