SPECIFICATION Spec
CONSTANTS
  main_wake_lock = main
  unknown_wakeup = unknown
  suspend_backoff_lock = backoff
  Locks = {main, unknown, backoff, user1}
  SuspendLocks = {main, unknown, backoff, user1}
  Workers = {cpu0}
  MaxTimeout = 1
  SUSPEND_BACKOFF_THRESHOLD = 1
  SUSPEND_BACKOFF_INTERVAL = 1
  UNKNOWN_WAKEUP_TIMEOUT = 1
  CountWidth = 1
  Handlers = {fb}
  level <- MCLevel
  EarlyWorkers = {es0}
  LateWorkers = {lr0}
VIEW View
INVARIANTS
  SleepsOnlyOnRequest
PROPERTIES
  ImplementsWakeLock
  ImplementsEarlySuspend
  ImplementsSuspendCore
