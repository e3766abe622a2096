SPECIFICATION FairSpec

CONSTANTS
  Nil = Nil
  Fds <- MCFds
  MaxTimers = 2
  Kinds <- MCKinds

INVARIANTS
  TypeOK
  LiveTimersHeld
  ExitLosesOnlyLateTimers

PROPERTIES
  CallbacksEarned
  ExpirationsAnswered
  SettledWhenTimersRunOut
