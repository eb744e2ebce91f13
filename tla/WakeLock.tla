------------------------------ MODULE WakeLock ------------------------------
(***************************************************************************)
(* The Android wake lock core, kernel/power/wakelock.c: the wake locks,    *)
(* the expire timer, and the suspend work that runs when the last lock of  *)
(* type WAKE_LOCK_SUSPEND goes away.                                       *)
(*                                                                         *)
(* Time.  The code only ever looks at lock->expires - jiffies, so          *)
(* expires[l] is that difference, and Tick counts it down (0 stands for    *)
(* every difference <= 0, which the code treats alike).  expire_timer is   *)
(* the jiffies left on the timer, or NOT_PENDING.                          *)
(*                                                                         *)
(* Lists.  link[l] says on which list a lock is linked: inactive_locks,    *)
(* active_wake_locks[type], or none (before wake_lock_init and after       *)
(* wake_lock_destroy).  The order inside the active lists, and the loop    *)
(* over them, are in WakeLockList.                                         *)
(*                                                                         *)
(* suspend_work_queue is allocated with WQ_HIGHPRI only, so a work item    *)
(* that is queued again while it runs may run on a second CPU at the same  *)
(* time: Workers are the CPUs whose kworkers can run suspend().            *)
(***************************************************************************)
EXTENDS Integers, FiniteSetsExt

CONSTANTS
  Locks,                 \* every struct wake_lock in the system
  SuspendLocks,          \* those initialised with WAKE_LOCK_SUSPEND; the rest are WAKE_LOCK_IDLE
  main_wake_lock,        \* held while the user visible state is on
  unknown_wakeup,        \* taken for HZ / 2 when a suspend ends without an event
  suspend_backoff_lock,  \* taken for 10 s after too many short suspends
  Workers,               \* CPUs that can run suspend()
  MaxTimeout,            \* longest timeout, in jiffies
  SUSPEND_BACKOFF_THRESHOLD,
  SUSPEND_BACKOFF_INTERVAL,
  UNKNOWN_WAKEUP_TIMEOUT,
  CountWidth             \* bits of the unsigned suspend_short_count

KernelLocks == {main_wake_lock, unknown_wakeup, suspend_backoff_lock}
ClientLocks == Locks \ KernelLocks

ASSUME LocksAssumption ==
  /\ SuspendLocks \subseteq Locks
  /\ KernelLocks \subseteq SuspendLocks
  /\ main_wake_lock # unknown_wakeup
  /\ main_wake_lock # suspend_backoff_lock

ASSUME TimeoutAssumption ==
  /\ MaxTimeout \in Nat
  /\ SUSPEND_BACKOFF_INTERVAL \in 1 .. MaxTimeout
  /\ UNKNOWN_WAKEUP_TIMEOUT \in 1 .. MaxTimeout

ASSUME CountAssumption ==
  /\ SUSPEND_BACKOFF_THRESHOLD \in Nat \ {0}
  /\ CountWidth \in Nat
  /\ 2 ^ CountWidth \in Nat \ {0}

VARIABLES
  flags,                \* lock |-> its WAKE_LOCK_* flag bits
  link,                 \* lock |-> the list it is on
  expires,              \* lock |-> lock->expires - jiffies
  expire_timer,         \* jiffies until expire_timer fires, or NOT_PENDING
  timer_running,        \* the timer was detached, expire_wake_locks waits for list_lock
  suspend_work,         \* the PENDING bit of suspend_work
  pc,                   \* worker |-> where it is in suspend()
  new_event,            \* worker |-> current_event_num # its entry_event_num
  suspend_short_count

lock_vars == <<flags, link, expires>>
timer_vars == <<expire_timer, timer_running>>
worker_vars == <<pc, suspend_short_count>>
vars == <<flags, link, expires, expire_timer, timer_running, suspend_work,
          pc, new_event, suspend_short_count>>

INITIALIZED == "WAKE_LOCK_INITIALIZED"
ACTIVE == "WAKE_LOCK_ACTIVE"
AUTO_EXPIRE == "WAKE_LOCK_AUTO_EXPIRE"
Flag == {INITIALIZED, ACTIVE, AUTO_EXPIRE}

NOT_PENDING == -1
LONG_MAX == -1           \* expires of a lock without timeout: never compared

Label == {"idle", "has_wake_lock", "entry", "pm_suspend", "count",
          "compare", "backoff", "reset", "event", "unknown"}

TypeOK ==
  /\ flags \in [Locks -> SUBSET Flag]
  /\ link \in [Locks -> {"none", "inactive", "active"}]
  /\ expires \in [Locks -> -1 .. MaxTimeout]
  /\ expire_timer \in -1 .. MaxTimeout
  /\ timer_running \in BOOLEAN
  /\ suspend_work \in BOOLEAN
  /\ pc \in [Workers -> Label]
  /\ new_event \in [Workers -> BOOLEAN]
  /\ suspend_short_count \in 0 .. 2 ^ CountWidth - 1

-----------------------------------------------------------------------------
(* has_wake_lock_locked and expire_wake_lock.  The operators take the      *)
(* locks' state as arguments because the callers change a lock first and   *)
(* walk the list afterwards, under one list_lock.                          *)

Active(ln, S) == {l \in S : ln[l] = "active"}
Permanent(fl, ln, S) == {l \in Active(ln, S) : AUTO_EXPIRE \notin fl[l]}

\* Mutant: one jiffy early.
Due_Early(ex, l) == ex[l] <= 1

\* The timeout of lock l is over.
Due(ex, l) == ex[l] <= 0

\* The locks one walk of has_wake_lock_locked expires.  Locks without a
\* timeout are at the head of the list, so with one of them the walk
\* returns before it reaches a lock it could expire.
Expired(fl, ln, ex, S) ==
  IF Permanent(fl, ln, S) # {} THEN {} ELSE {l \in Active(ln, S) : Due(ex, l)}

\* Mutant: AUTO_EXPIRE stays set.
ExpireFlags_KeepAuto(fl, D) ==
  [l \in Locks |-> IF l \in D THEN fl[l] \ {ACTIVE} ELSE fl[l]]

\* expire_wake_lock for every lock of D.
ExpireFlags(fl, D) ==
  [l \in Locks |-> IF l \in D THEN fl[l] \ {ACTIVE, AUTO_EXPIRE} ELSE fl[l]]
ExpireLink(ln, D) ==
  [l \in Locks |-> IF l \in D THEN "inactive" ELSE ln[l]]

\* Mutant: the first timeout instead of the last.
HasWakeLock_First(fl, ln, ex, S) ==
  IF Permanent(fl, ln, S) # {} THEN -1
  ELSE IF Active(ln, S) = Expired(fl, ln, ex, S) THEN 0
  ELSE Min({ex[l] : l \in Active(ln, S) \ Expired(fl, ln, ex, S)})

\* What has_wake_lock_locked returns: -1, or the jiffies until the last
\* active lock times out.
HasWakeLock(fl, ln, ex, S) ==
  IF Permanent(fl, ln, S) # {} THEN -1
  ELSE Max({0} \cup {ex[l] : l \in Active(ln, S) \ Expired(fl, ln, ex, S)})

\* The state after the walk.
Walk(fl, ln, ex, S) ==
  LET D == Expired(fl, ln, ex, S)
  IN  /\ flags' = ExpireFlags(fl, D)
      /\ link' = ExpireLink(ln, D)
      /\ expires' = ex

\* Mutant: the work is not queued.
Rearm_NoQueue(has_lock) ==
  /\ expire_timer' = IF has_lock > 0 THEN has_lock ELSE NOT_PENDING
  /\ UNCHANGED suspend_work

\* mod_timer, or del_timer and queue_work: how wake_lock_internal and
\* wake_unlock end, with has_lock what the walk returned.
Rearm(has_lock) ==
  /\ expire_timer' = IF has_lock > 0 THEN has_lock ELSE NOT_PENDING
  /\ suspend_work' = (suspend_work \/ has_lock = 0)

-----------------------------------------------------------------------------
(* The wake lock interface; each operation is atomic under list_lock.      *)

wake_lock_init(l) ==
  /\ INITIALIZED \notin flags[l]
  /\ flags' = [flags EXCEPT ![l] = {INITIALIZED}]
  /\ link' = [link EXCEPT ![l] = "inactive"]
  /\ UNCHANGED <<expires, timer_vars, suspend_work, worker_vars, new_event>>

\* The lock leaves its list but keeps its ACTIVE bit; neither the timer nor
\* the suspend work is touched.
wake_lock_destroy(l) ==
  /\ INITIALIZED \in flags[l]
  /\ flags' = [flags EXCEPT ![l] = @ \ {INITIALIZED}]
  /\ link' = [link EXCEPT ![l] = "none"]
  /\ UNCHANGED <<expires, timer_vars, suspend_work, worker_vars, new_event>>

\* The new event number differs from the one any worker has saved.
Event(l) ==
  new_event' = IF l \in SuspendLocks THEN [w \in Workers |-> TRUE] ELSE new_event

\* wake_lock_internal without a timeout: no walk, the timer is stopped.
wake_lock(l) ==
  /\ INITIALIZED \in flags[l]
  /\ flags' = [flags EXCEPT ![l] = (@ \cup {ACTIVE}) \ {AUTO_EXPIRE}]
  /\ link' = [link EXCEPT ![l] = "active"]
  /\ expires' = [expires EXCEPT ![l] = LONG_MAX]
  /\ Event(l)
  /\ IF l \in SuspendLocks THEN Rearm(-1) ELSE UNCHANGED <<expire_timer, suspend_work>>
  /\ UNCHANGED <<timer_running, worker_vars>>

\* wake_lock_internal with a timeout: the walk may expire locks, this one
\* included.
LockTimeout(l, timeout) ==
  LET fl == [flags EXCEPT ![l] = @ \cup {ACTIVE, AUTO_EXPIRE}]
      ln == [link EXCEPT ![l] = "active"]
      ex == [expires EXCEPT ![l] = timeout]
  IN  /\ INITIALIZED \in flags[l]
      /\ Event(l)
      /\ \/ /\ l \in SuspendLocks
            /\ Walk(fl, ln, ex, SuspendLocks)
            /\ Rearm(HasWakeLock(fl, ln, ex, SuspendLocks))
         \/ /\ l \notin SuspendLocks
            /\ flags' = fl /\ link' = ln /\ expires' = ex
            /\ UNCHANGED <<expire_timer, suspend_work>>

wake_lock_timeout(l, timeout) ==
  LockTimeout(l, timeout) /\ UNCHANGED <<timer_running, worker_vars>>

wake_unlock(l) ==
  LET fl == [flags EXCEPT ![l] = @ \ {ACTIVE, AUTO_EXPIRE}]
      ln == [link EXCEPT ![l] = "inactive"]
  IN  /\ INITIALIZED \in flags[l]
      /\ \/ /\ l \in SuspendLocks
            /\ Walk(fl, ln, expires, SuspendLocks)
            /\ Rearm(HasWakeLock(fl, ln, expires, SuspendLocks))
         \/ /\ l \notin SuspendLocks
            /\ flags' = fl /\ link' = ln
            /\ UNCHANGED <<expires, expire_timer, suspend_work>>
      /\ UNCHANGED <<timer_running, worker_vars, new_event>>

\* has_wake_lock called from outside: the freezer and power_suspend_late
\* while a suspend is under way, the idle loop for WAKE_LOCK_IDLE.
has_wake_lock(S) ==
  /\ Walk(flags, link, expires, S)
  /\ UNCHANGED <<timer_vars, suspend_work, worker_vars, new_event>>

-----------------------------------------------------------------------------
(* Time and the expire timer.                                              *)

CountDown(n) == IF n > 0 THEN n - 1 ELSE n

Tick ==
  /\ expires' = [l \in Locks |-> CountDown(expires[l])]
  /\ expire_timer' = CountDown(expire_timer)
  /\ UNCHANGED <<flags, link, timer_running, suspend_work, worker_vars, new_event>>

\* The timer softirq detaches the timer; the handler then competes for
\* list_lock with every other operation.
TimerFires ==
  /\ expire_timer = 0
  /\ ~timer_running
  /\ expire_timer' = NOT_PENDING
  /\ timer_running' = TRUE
  /\ UNCHANGED <<lock_vars, suspend_work, worker_vars, new_event>>

expire_wake_locks ==
  /\ timer_running
  /\ timer_running' = FALSE
  /\ Walk(flags, link, expires, SuspendLocks)
  /\ suspend_work' = (suspend_work \/ HasWakeLock(flags, link, expires, SuspendLocks) = 0)
  /\ UNCHANGED <<expire_timer, worker_vars, new_event>>

-----------------------------------------------------------------------------
(* suspend(), the function of suspend_work, one step per access to shared  *)
(* state.  pm_suspend is a phase of any length here; SuspendCore refines   *)
(* what happens in it.                                                     *)

Goto(w, from, to) == pc[w] = from /\ pc' = [pc EXCEPT ![w] = to]

\* The kworker clears the PENDING bit before it calls the function.
SuspendStart(w) ==
  /\ suspend_work
  /\ suspend_work' = FALSE
  /\ Goto(w, "idle", "has_wake_lock")
  /\ UNCHANGED <<lock_vars, timer_vars, new_event, suspend_short_count>>

SuspendCheck(w) ==
  /\ \/ /\ HasWakeLock(flags, link, expires, SuspendLocks) # 0
        /\ Goto(w, "has_wake_lock", "idle")
     \/ /\ HasWakeLock(flags, link, expires, SuspendLocks) = 0
        /\ Goto(w, "has_wake_lock", "entry")
  /\ Walk(flags, link, expires, SuspendLocks)
  /\ UNCHANGED <<timer_vars, suspend_work, new_event, suspend_short_count>>

\* Mutant: an attempt that follows an unknown wakeup is left out.
SuspendEntry_NotAfterUnknown(w) ==
  /\ Goto(w, "entry", IF expires[unknown_wakeup] = LONG_MAX THEN "pm_suspend" ELSE "event")
  /\ new_event' = [new_event EXCEPT ![w] = FALSE]
  /\ UNCHANGED <<lock_vars, timer_vars, suspend_work, suspend_short_count>>

SuspendEntry(w) ==
  /\ Goto(w, "entry", "pm_suspend")
  /\ new_event' = [new_event EXCEPT ![w] = FALSE]
  /\ UNCHANGED <<lock_vars, timer_vars, suspend_work, suspend_short_count>>

\* pm_suspend returned; was it away for more than a second?
SuspendReturn(w) ==
  /\ \/ Goto(w, "pm_suspend", "count") /\ UNCHANGED suspend_short_count
     \/ Goto(w, "pm_suspend", "event") /\ suspend_short_count' = 0
  /\ UNCHANGED <<lock_vars, timer_vars, suspend_work, new_event>>

\* ++suspend_short_count loads and stores: with a second worker the value that
\* was loaded may be an old one, of any age.
Loaded(w) == IF Workers = {w} THEN {suspend_short_count} ELSE 0 .. 2 ^ CountWidth - 1

SuspendCount(w) ==
  /\ Goto(w, "count", "compare")
  /\ \E n \in Loaded(w) : suspend_short_count' = (n + 1) % (2 ^ CountWidth)
  /\ UNCHANGED <<lock_vars, timer_vars, suspend_work, new_event>>

SuspendCompare(w) ==
  /\ Goto(w, "compare",
          IF suspend_short_count = SUSPEND_BACKOFF_THRESHOLD THEN "backoff" ELSE "event")
  /\ UNCHANGED <<lock_vars, timer_vars, suspend_work, new_event, suspend_short_count>>

suspend_backoff(w) ==
  /\ Goto(w, "backoff", "reset")
  /\ LockTimeout(suspend_backoff_lock, SUSPEND_BACKOFF_INTERVAL)
  /\ UNCHANGED <<timer_running, suspend_short_count>>

\* Mutant: the count is not reset after the back-off.
SuspendReset_Keep(w) ==
  /\ Goto(w, "reset", "event")
  /\ UNCHANGED <<lock_vars, timer_vars, suspend_work, new_event, suspend_short_count>>

SuspendReset(w) ==
  /\ Goto(w, "reset", "event")
  /\ suspend_short_count' = 0
  /\ UNCHANGED <<lock_vars, timer_vars, suspend_work, new_event>>

SuspendEvent(w) ==
  /\ Goto(w, "event", IF new_event[w] THEN "idle" ELSE "unknown")
  /\ UNCHANGED <<lock_vars, timer_vars, suspend_work, new_event, suspend_short_count>>

SuspendUnknown(w) ==
  /\ Goto(w, "unknown", "idle")
  /\ LockTimeout(unknown_wakeup, UNKNOWN_WAKEUP_TIMEOUT)
  /\ UNCHANGED <<timer_running, suspend_short_count>>

suspend(w) ==
  \/ SuspendCheck(w) \/ SuspendEntry(w) \/ SuspendReturn(w) \/ SuspendCount(w)
  \/ SuspendCompare(w) \/ suspend_backoff(w) \/ SuspendReset(w) \/ SuspendEvent(w)
  \/ SuspendUnknown(w)

-----------------------------------------------------------------------------
\* wakelocks_init: the kernel's three locks exist, the main lock is held.
Init ==
  /\ flags = [l \in Locks |->
       CASE l = main_wake_lock -> {INITIALIZED, ACTIVE}
         [] l \in KernelLocks \ {main_wake_lock} -> {INITIALIZED}
         [] OTHER -> {}]
  /\ link = [l \in Locks |->
       CASE l = main_wake_lock -> "active"
         [] l \in KernelLocks \ {main_wake_lock} -> "inactive"
         [] OTHER -> "none"]
  /\ expires = [l \in Locks |-> LONG_MAX]
  /\ expire_timer = NOT_PENDING
  /\ timer_running = FALSE
  /\ suspend_work = FALSE
  /\ pc = [w \in Workers |-> "idle"]
  /\ new_event = [w \in Workers |-> FALSE]
  /\ suspend_short_count = 0

\* The callers' side.  earlysuspend.c takes and drops the main lock, drivers
\* and user space use the others.  Nobody destroys a lock that is held
\* without a timeout: wake_lock_destroy would neither arm the timer nor
\* queue the suspend work.
Client ==
  \/ \E l \in ClientLocks :
       \/ wake_lock_init(l)
       \/ l \notin Permanent(flags, link, Locks) /\ wake_lock_destroy(l)
       \/ \E t \in 0 .. MaxTimeout : wake_lock_timeout(l, t)
  \/ \E l \in ClientLocks \cup {main_wake_lock} : wake_lock(l) \/ wake_unlock(l)
  \/ \E S \in {SuspendLocks, Locks \ SuspendLocks} : has_wake_lock(S)

Timer == Tick \/ TimerFires \/ expire_wake_locks

Worker == \E w \in Workers : SuspendStart(w) \/ suspend(w)

Next == Timer \/ Worker \/ Client

\* The clock advances, a due timer fires and its handler runs, and a queued
\* work item is run to its end.  Nothing is assumed of the lock's users.
Fairness ==
  /\ WF_vars(Tick) /\ WF_vars(TimerFires) /\ WF_vars(expire_wake_locks)
  /\ WF_vars(\E w \in Workers : SuspendStart(w))
  /\ \A w \in Workers : WF_vars(suspend(w))

Spec == Init /\ [][Next]_vars
FairSpec == Spec /\ Fairness

-----------------------------------------------------------------------------
(* Properties.                                                             *)

ActiveSuspend == Active(link, SuspendLocks)
PermanentSuspend == Permanent(flags, link, SuspendLocks)

\* A lock is on the active list exactly when it is initialised and carries
\* WAKE_LOCK_ACTIVE, on no list exactly when it is not initialised, and only
\* an active lock can carry WAKE_LOCK_AUTO_EXPIRE: the walks of wakelock.c,
\* which look at the lists, and wake_lock_active(), which looks at the flag,
\* agree through init, lock, expiry, unlock and destroy.
ListMatchesFlags ==
  \A l \in Locks :
    /\ link[l] = "active" <=> {INITIALIZED, ACTIVE} \subseteq flags[l]
    /\ link[l] = "none" <=> INITIALIZED \notin flags[l]
    /\ AUTO_EXPIRE \in flags[l] => ACTIVE \in flags[l]

\* While only locks with a timeout keep the system awake, expire_timer is
\* pending and does not fire before the last of them is due; or it fired,
\* and all of them are due when expire_wake_locks gets list_lock.  This is
\* what lets expire_wake_locks leave the timer alone when a lock is left.
TimerCovers ==
  ActiveSuspend # {} /\ PermanentSuspend = {} =>
    \/ expire_timer >= 0 /\ \A l \in ActiveSuspend : expires[l] <= expire_timer
    \/ timer_running /\ \A l \in ActiveSuspend : expires[l] <= 0

\* A worker that will find the locks gone, or will take unknown_wakeup.
WillRetry(w) ==
  \/ pc[w] \in {"has_wake_lock", "entry", "unknown"}
  \/ pc[w] \in {"pm_suspend", "count", "compare", "backoff", "reset", "event"} /\ ~new_event[w]

\* When no suspend lock is active the system is never left awake for good:
\* the suspend work is queued, or a worker is in suspend() and has not seen a
\* new event (so it suspends, or takes unknown_wakeup whose expiry starts the
\* next attempt), or the expire timer is still to come.
NoLostSuspend ==
  ActiveSuspend = {} =>
    \/ suspend_work
    \/ \E w \in Workers : WillRetry(w)
    \/ expire_timer >= 0
    \/ timer_running

\* A lock leaves the active list only through a call that names it, or when
\* its own timeout is over: no walk of has_wake_lock_locked, whoever starts
\* it and whichever other locks it meets, drops a lock somebody still counts
\* on.
ExpiresOnlyWhenDue ==
  [][\A l \in Locks :
       link[l] = "active" /\ link'[l] # "active" =>
         \/ AUTO_EXPIRE \in flags[l] /\ expires[l] <= 0
         \/ wake_unlock(l) \/ wake_lock_destroy(l) \/ wake_lock_timeout(l, 0)]_vars

\* The back-off is not forgotten, on however many CPUs suspend() runs: while
\* suspend_short_count is at SUSPEND_BACKOFF_THRESHOLD some worker is between
\* its increment and its reset, so that suspend_backoff_lock is taken and the
\* counting starts again, or another worker counts on.  (It may count past the
\* threshold then: with two workers the code does not rule that out.)
BackoffNotMissed ==
  suspend_short_count = SUSPEND_BACKOFF_THRESHOLD =>
    \E w \in Workers : pc[w] \in {"compare", "backoff", "reset"}

\* If from some time on nobody but the suspend code itself holds a suspend
\* lock, the system goes on trying to suspend: unknown_wakeup and
\* suspend_backoff_lock expire, and each expiry leads to another attempt.
KeepsTrying ==
  <>[](ActiveSuspend \subseteq {unknown_wakeup, suspend_backoff_lock})
    => []<>(\E w \in Workers : pc[w] = "pm_suspend")

=============================================================================
