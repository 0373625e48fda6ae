SPECIFICATION FairSpec
CONSTANTS
  Keys = {k1, k2}
  Timers = {t1, t2, t3}
  Caller = caller
  None = none
INVARIANTS
  TypeOK
  NoStrandedKey
  TrackedTimerAlive
PROPERTIES
  DeliveredOnceQuiet
  ImplementsBatcher
CHECK_DEADLOCK TRUE
