SPECIFICATION ListFairSpec
CONSTANTS
  main_wake_lock = main
  unknown_wakeup = unknown
  suspend_backoff_lock = backoff
  Locks = {main, unknown, backoff, user1, idle1}
  SuspendLocks = {main, unknown, backoff, user1}
  Workers = {cpu0}
  MaxTimeout = 2
  SUSPEND_BACKOFF_THRESHOLD = 1
  SUSPEND_BACKOFF_INTERVAL = 2
  UNKNOWN_WAKEUP_TIMEOUT = 1
  CountWidth = 2
INVARIANTS
  ListMatchesFlags
  TimerCovers
  NoLostSuspend
  BackoffNotMissed
  ListsConsistent
PROPERTIES
  ExpiresOnlyWhenDue
  KeepsTrying
