---------------------------- MODULE AndroidPower ----------------------------
(***************************************************************************)
(* The three parts of Android power management together: WakeLock,         *)
(* EarlySuspend and SuspendCore share the main wake lock, the requested    *)
(* state, and the call of pm_suspend in suspend().                         *)
(*                                                                         *)
(* What they share is written once.  EarlySuspend's main_wake_lock is      *)
(* membership of the main lock in the active list, SuspendCore's held is   *)
(* the set of locks that count for has_wake_lock, and suspend() is in its  *)
(* pm_suspend phase exactly while the worker is in SuspendCore.  A task    *)
(* that SuspendCore has stopped takes no step of the other two.            *)
(***************************************************************************)
EXTENDS Integers, Sequences

CONSTANTS
  Locks, SuspendLocks, main_wake_lock, unknown_wakeup, suspend_backoff_lock,
  Workers, MaxTimeout, SUSPEND_BACKOFF_THRESHOLD, SUSPEND_BACKOFF_INTERVAL,
  UNKNOWN_WAKEUP_TIMEOUT, CountWidth,
  Handlers, level, EarlyWorkers, LateWorkers

\* What the parts assume; there are handlers, for fbearlysuspend.c is built
\* in and has one.
ASSUME LocksAssumption ==
  /\ SuspendLocks \subseteq Locks
  /\ {main_wake_lock, unknown_wakeup, suspend_backoff_lock} \subseteq SuspendLocks
  /\ main_wake_lock \notin {unknown_wakeup, suspend_backoff_lock}

ASSUME TimeoutAssumption ==
  /\ MaxTimeout \in Nat
  /\ {SUSPEND_BACKOFF_INTERVAL, UNKNOWN_WAKEUP_TIMEOUT} \subseteq 1 .. MaxTimeout

ASSUME CountAssumption ==
  /\ SUSPEND_BACKOFF_THRESHOLD \in Nat \ {0}
  /\ CountWidth \in Nat /\ 2 ^ CountWidth \in Nat \ {0}

ASSUME HandlersAssumption == Handlers # {} /\ level \in [Handlers -> Nat]

ASSUME ThreadsAssumption ==
  /\ EarlyWorkers \cap LateWorkers = {}
  /\ (EarlyWorkers \cup LateWorkers) \cap Handlers = {}

VARIABLES
  flags, link, expires, expire_timer, timer_running, suspend_work, suspend_pc,
  new_event, suspend_short_count,
  state, requested_suspend_state, early_suspend_work, late_resume_work,
  early_suspend_lock, early_suspend_handlers, off, early_pc, pos,
  pm_mutex, at, down

lock_vars == <<flags, link, expires, expire_timer, timer_running, suspend_work,
               suspend_pc, new_event, suspend_short_count>>
early_vars == <<state, requested_suspend_state, early_suspend_work, late_resume_work,
                early_suspend_lock, early_suspend_handlers, off, early_pc, pos>>
core_vars == <<pm_mutex, at, down>>
vars == <<lock_vars, early_vars, core_vars>>

WL == INSTANCE WakeLock WITH pc <- suspend_pc

\* The suspend locks that has_wake_lock counts: active, and not due.
Held == {l \in SuspendLocks :
           link[l] = "active" /\ (WL!AUTO_EXPIRE \in flags[l] => expires[l] > 0)}

\* suspend() takes its two locks in a kworker of a queue that is not
\* freezable; the other locks belong to user space.
Context == [l \in SuspendLocks |->
              IF l \in {unknown_wakeup, suspend_backoff_lock} THEN "nofreeze" ELSE "user"]

ES == INSTANCE EarlySuspend WITH
        main_wake_lock <- link[main_wake_lock] = "active", pc <- early_pc
SC == INSTANCE SuspendCore WITH
        Callers <- Workers, Owners <- SuspendLocks, context <- Context, held <- Held

-----------------------------------------------------------------------------
(* Who can run.                                                            *)

\* Mutant: user space runs through a suspend.
UserRuns_Always == TRUE

\* User space, until it is frozen.
UserRuns == "user" \notin down

\* Timers and the kworkers of suspend_work_queue, until interrupts are off.
KernelRuns == "irqs" \notin down

-----------------------------------------------------------------------------
(* suspend() and pm_suspend.                                               *)

\* requested_suspend_state is read without state_lock.
CallPmSuspend(w) ==
  /\ suspend_pc[w] = "pm_suspend"
  /\ UNCHANGED <<lock_vars, early_vars>>
  /\ SC!pm_suspend(w, requested_suspend_state)

\* A task is frozen on its way back to user space, so not in the middle of
\* register_early_suspend.
FreezeUser(w) ==
  /\ at[w] = "freeze_user"
  /\ UNCHANGED <<lock_vars, early_vars>>
  /\ SC!FreezeUser(w)
  /\ "user" \in down' => early_suspend_lock \cap Handlers = {}

\* While tasks are left the freezer looks at the wake locks, and expires some.
FreezerLooks(w) ==
  /\ at[w] \in {"freeze_user", "freeze_tasks"}
  /\ WL!has_wake_lock(SuspendLocks)
  /\ UNCHANGED <<early_vars, core_vars>>

\* Mutant: the late check is not made.
power_suspend_late_NoCheck(w) ==
  /\ at[w] = "power_suspend_late"
  /\ at' = [at EXCEPT ![w] = "noirq_rest"]
  /\ UNCHANGED <<lock_vars, early_vars, pm_mutex, down>>

power_suspend_late(w) ==
  /\ at[w] = "power_suspend_late"
  /\ WL!has_wake_lock(SuspendLocks)
  /\ UNCHANGED early_vars
  /\ SC!power_suspend_late(w)

\* Every other step of the way down and back.
InPmSuspend(w) ==
  /\ UNCHANGED <<lock_vars, early_vars>>
  /\ \/ SC!TryLock(w) \/ SC!PrepareConsole(w) \/ SC!NotifyPrepare(w)
     \/ SC!UsermodehelperDisable(w) \/ SC!FreezeTasks(w) \/ SC!SuspendDevices(w)
     \/ SC!PlatformPrepare(w) \/ SC!SuspendDeviceIrqs(w) \/ SC!SuspendNoirq(w)
     \/ SC!SuspendNoirqRest(w) \/ SC!DisableCpus(w) \/ SC!DisableIrqs(w)
     \/ SC!SyscoreSuspend(w) \/ SC!EnterSleep(w) \/ SC!Wake(w) \/ SC!resume(w)

\* Mutant: suspend() returns at once when pm_suspend is done.
ReturnToSuspend_EarlyReturn(w) ==
  /\ suspend_pc[w] = "pm_suspend"
  /\ suspend_pc' = [suspend_pc EXCEPT ![w] = "idle"]
  /\ UNCHANGED <<flags, link, expires, expire_timer, timer_running, suspend_work,
                 new_event, suspend_short_count, early_vars>>
  /\ SC!Return(w)

ReturnToSuspend(w) ==
  /\ WL!SuspendReturn(w)
  /\ UNCHANGED early_vars
  /\ SC!Return(w)

\* The kworker outside pm_suspend; it stops while another one has
\* interrupts off.
Suspend(w) ==
  /\ \/ KernelRuns
        /\ \/ CallPmSuspend(w) \/ ReturnToSuspend(w)
           \/ /\ \/ WL!SuspendStart(w) \/ WL!SuspendCheck(w) \/ WL!SuspendEntry(w)
                 \/ WL!SuspendCount(w) \/ WL!SuspendCompare(w) \/ WL!suspend_backoff(w)
                 \/ WL!SuspendReset(w)
                 \/ WL!SuspendEvent(w) \/ WL!SuspendUnknown(w)
              /\ UNCHANGED <<early_vars, core_vars>>
     \/ at[w] # "out" /\ (KernelRuns \/ pm_mutex = {w})
        /\ (FreezeUser(w) \/ FreezerLooks(w) \/ power_suspend_late(w) \/ InPmSuspend(w))

-----------------------------------------------------------------------------
(* earlysuspend.c and the main wake lock.                                  *)

\* What request_suspend_state does to the main lock.
RequestMain(new_state) ==
  \/ /\ new_state = "on" /\ ES!SUSPEND_REQUESTED \in state
     /\ WL!wake_lock(main_wake_lock)
  \/ /\ new_state # "on" \/ ES!SUSPEND_REQUESTED \notin state
     /\ UNCHANGED lock_vars

Request(new_state) ==
  /\ UserRuns
  /\ RequestMain(new_state)
  /\ ES!request_suspend_state(new_state)
  /\ UNCHANGED core_vars

\* Mutant: the state is not looked at again after sys_sync.
EarlyUnlock_NoTest(w) ==
  /\ early_pc[w] = "unlock"
  /\ early_pc' = [early_pc EXCEPT ![w] = "idle"]
  /\ WL!wake_unlock(main_wake_lock)
  /\ UNCHANGED <<state, requested_suspend_state, early_suspend_work, late_resume_work,
                 early_suspend_lock, early_suspend_handlers, off, pos, core_vars>>

EarlyUnlock(w) ==
  /\ \/ /\ state = ES!SUSPEND_REQUESTED_AND_SUSPENDED
        /\ WL!wake_unlock(main_wake_lock)
     \/ /\ state # ES!SUSPEND_REQUESTED_AND_SUSPENDED
        /\ UNCHANGED lock_vars
  /\ ES!EarlyUnlock(w)
  /\ UNCHANGED core_vars

EarlyWork ==
  /\ KernelRuns
  /\ UNCHANGED <<lock_vars, core_vars>>
  /\ \/ \E w \in EarlyWorkers :
          ES!EarlyStart(w) \/ ES!EarlyLock(w) \/ ES!EarlyCall(w) \/ ES!EarlyDone(w)
     \/ \E w \in LateWorkers : ES!LateStart(w) \/ ES!late_resume(w)

Drivers ==
  /\ UserRuns
  /\ UNCHANGED <<lock_vars, core_vars>>
  /\ ES!Drivers

-----------------------------------------------------------------------------
\* The other users of wake locks, all of them in user space here.
Client ==
  /\ UserRuns
  /\ \E l \in WL!ClientLocks :
       \/ WL!wake_lock_init(l)
       \/ l \notin WL!Permanent(flags, link, Locks) /\ WL!wake_lock_destroy(l)
       \/ WL!wake_lock(l) \/ WL!wake_unlock(l)
       \/ \E t \in 0 .. MaxTimeout : WL!wake_lock_timeout(l, t)
  /\ UNCHANGED <<early_vars, core_vars>>

Timer ==
  /\ KernelRuns
  /\ WL!Tick \/ WL!TimerFires \/ WL!expire_wake_locks
  /\ UNCHANGED <<early_vars, core_vars>>

Init ==
  /\ WL!Init
  /\ ES!Init
  /\ pm_mutex = {}
  /\ at = [w \in Workers |-> "out"]
  /\ down = {}

Next ==
  \/ \E w \in Workers : Suspend(w)
  \/ \E s \in {"on", "mem"} : Request(s)
  \/ KernelRuns /\ \E w \in EarlyWorkers : EarlyUnlock(w)
  \/ EarlyWork \/ Drivers \/ Client \/ Timer

Spec == Init /\ [][Next]_vars

-----------------------------------------------------------------------------
(* Properties.                                                             *)

\* The system sleeps only when user space asked for it and every early
\* suspend handler was called: an "on" written at any moment before user
\* space is frozen is seen by power_suspend_late, and after that moment none
\* can be written.  That the handlers are done is so with one CPU for
\* early_suspend(): of two instances one may drop the main lock while the
\* other still calls them.
SleepsOnlyOnRequest ==
  "asleep" \in down =>
    /\ requested_suspend_state = "mem"
    /\ state = ES!SUSPEND_REQUESTED_AND_SUSPENDED
    /\ (\A v, w \in EarlyWorkers : v = w) => ES!Registered \subseteq off

\* The composed system is a wake lock core, an early suspend and a suspend
\* core: what is shown of the parts holds of the whole.  These are WL!Spec,
\* ES!Spec and SC!Spec with the stuttering step, which TLC decides at once,
\* written first.
ImplementsWakeLock == WL!Init /\ [][UNCHANGED WL!vars \/ WL!Next]_(WL!vars)
ImplementsEarlySuspend == ES!Init /\ [][UNCHANGED ES!vars \/ ES!Next]_(ES!vars)
ImplementsSuspendCore == SC!Init /\ [][UNCHANGED SC!vars \/ SC!Next]_(SC!vars)

\* include/linux/wakelock.h says of a wake lock: "A wake_lock prevents the
\* system from entering suspend or other low power states when active."
WakeLockPreventsSuspend == "asleep" \in down => Held = {}

=============================================================================
