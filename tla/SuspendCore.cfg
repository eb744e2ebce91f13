SPECIFICATION FairSpec
CONSTANTS
  task = task
  kthread = kthread
  irq = irq
  work = work
  Owners = {task, kthread, irq, work}
  context <- MCContext
  Callers = {cpu0, cpu1}
INVARIANTS
  TakenInOrder
  Unwound
  AsleepWithoutLocks
PROPERTIES
  AttemptEnds
