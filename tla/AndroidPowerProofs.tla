------------------------- MODULE AndroidPowerProofs -------------------------
(***************************************************************************)
(* AndroidPower implements its three parts, for any locks, handlers, CPUs  *)
(* and timeouts, and sleeps only on request.                               *)
(*                                                                         *)
(* The wake lock core is implemented step by step.  Early suspend and the  *)
(* suspend core see it through the main lock and through Held, so that     *)
(* every step of the lock core has to be shown to do to them what their    *)
(* specifications allow: no walk of has_wake_lock_locked touches the main  *)
(* lock or takes a lock out of Held, and whoever adds one can still run.   *)
(* The invariants of the parts are those of their own proofs, instantiated *)
(* with the shared state.                                                  *)
(***************************************************************************)
EXTENDS AndroidPower, TLAPS

\* The proofs about the parts.  What they say of the linked lists and of the
\* handler that stops the drawing is not used: their variables may be
\* anything here.
WLP == INSTANCE WakeLockProofs WITH pc <- suspend_pc, active_wake_locks <- link
ESP == INSTANCE EarlySuspendProofs WITH
         main_wake_lock <- link[main_wake_lock] = "active", pc <- early_pc,
         stop_drawing <- CHOOSE h \in Handlers : TRUE,
         fb_state <- state, asleep <- state, handler <- state, user <- state
SCP == INSTANCE SuspendCoreProofs WITH
        Callers <- Workers, Owners <- SuspendLocks, context <- Context, held <- Held

-----------------------------------------------------------------------------
(* The wake lock core.                                                     *)

LEMMA StepsWakeLock ==
  ASSUME [Next]_vars
  PROVE  [WL!Next]_(WL!vars)
<1>1. ASSUME NEW w \in Workers, Suspend(w) PROVE [WL!Next]_(WL!vars)
  <2>1. CASE CallPmSuspend(w) \/ FreezeUser(w) \/ InPmSuspend(w)
    BY <2>1 DEF CallPmSuspend, FreezeUser, InPmSuspend, lock_vars, WL!vars
  <2>2. CASE ReturnToSuspend(w)
    BY <2>2 DEF ReturnToSuspend, WL!Next, WL!Worker, WL!suspend
  <2>3. CASE FreezerLooks(w) \/ power_suspend_late(w)
    BY <2>3 DEF FreezerLooks, power_suspend_late, WL!Next, WL!Client
  <2>4. CASE \/ WL!SuspendStart(w) \/ WL!SuspendCheck(w) \/ WL!SuspendEntry(w)
             \/ WL!SuspendCount(w) \/ WL!SuspendCompare(w) \/ WL!suspend_backoff(w)
             \/ WL!SuspendReset(w)
             \/ WL!SuspendEvent(w) \/ WL!SuspendUnknown(w)
    BY <2>4 DEF WL!Next, WL!Worker, WL!suspend
  <2> QED
    BY <1>1, <2>1, <2>2, <2>3, <2>4 DEF Suspend
<1>2. CASE (\E s \in {"on", "mem"} : Request(s)) \/ \E w \in EarlyWorkers : EarlyUnlock(w)
  BY <1>2 DEF Request, RequestMain, EarlyUnlock, WL!Next, WL!Client, lock_vars, WL!vars
<1>3. CASE EarlyWork \/ Drivers
  BY <1>3 DEF EarlyWork, Drivers, lock_vars, WL!vars
<1>4. CASE Client
  BY <1>4 DEF Client, WL!Next, WL!Client
<1>5. CASE Timer
  BY <1>5 DEF Timer, WL!Next, WL!Timer
<1>6. CASE UNCHANGED vars
  BY <1>6 DEF vars, lock_vars, WL!vars
<1> QED
  BY <1>1, <1>2, <1>3, <1>4, <1>5, <1>6 DEF Next

\* Whoever drives it, the composed system is a wake lock core.
THEOREM RefinesWakeLock == Spec => ImplementsWakeLock
<1>1. Init => WL!Init
  BY DEF Init
<1>2. [Next]_vars => [UNCHANGED WL!vars \/ WL!Next]_(WL!vars)
  BY StepsWakeLock
<1> QED
  BY <1>1, <1>2, PTL DEF Spec, ImplementsWakeLock

\* Both instances of WakeLock are the same module.
LEMMA SameWakeLock ==
  /\ WL!Init <=> WLP!Init
  /\ [WL!Next]_(WL!vars) <=> [WLP!Next]_(WLP!vars)
  BY DEF
    WL!Init, WL!KernelLocks, WL!INITIALIZED, WL!ACTIVE, WL!AUTO_EXPIRE, WL!NOT_PENDING, WL!LONG_MAX,
    WL!vars, WL!Next, WL!Timer, WL!Worker, WL!Client, WL!ClientLocks, WL!Tick, WL!CountDown, WL!TimerFires,
    WL!expire_wake_locks, WL!wake_lock_init, WL!wake_lock_destroy, WL!Event, WL!wake_lock, WL!LockTimeout,
    WL!wake_lock_timeout, WL!wake_unlock, WL!has_wake_lock, WL!Walk, WL!Rearm, WL!HasWakeLock, WL!ExpireLink,
    WL!ExpireFlags, WL!Expired, WL!Due, WL!Permanent, WL!Active, WL!lock_vars, WL!timer_vars, WL!worker_vars,
    WL!Goto, WL!SuspendStart, WL!suspend, WL!SuspendCheck, WL!SuspendEntry, WL!SuspendReturn, WL!SuspendCount,
    WL!Loaded, WL!SuspendCompare, WL!suspend_backoff, WL!SuspendReset, WL!SuspendEvent, WL!SuspendUnknown, WL!Max,
    WLP!Init, WLP!KernelLocks, WLP!INITIALIZED, WLP!ACTIVE, WLP!AUTO_EXPIRE, WLP!NOT_PENDING, WLP!LONG_MAX,
    WLP!vars, WLP!Next, WLP!Timer, WLP!Worker, WLP!Client, WLP!ClientLocks, WLP!Tick, WLP!CountDown, WLP!TimerFires,
    WLP!expire_wake_locks, WLP!wake_lock_init, WLP!wake_lock_destroy, WLP!Event, WLP!wake_lock, WLP!LockTimeout,
    WLP!wake_lock_timeout, WLP!wake_unlock, WLP!has_wake_lock, WLP!Walk, WLP!Rearm, WLP!HasWakeLock, WLP!ExpireLink,
    WLP!ExpireFlags, WLP!Expired, WLP!Due, WLP!Permanent, WLP!Active, WLP!lock_vars, WLP!timer_vars, WLP!worker_vars,
    WLP!Goto, WLP!SuspendStart, WLP!suspend, WLP!SuspendCheck, WLP!SuspendEntry, WLP!SuspendReturn, WLP!SuspendCount,
    WLP!Loaded, WLP!SuspendCompare, WLP!suspend_backoff, WLP!SuspendReset, WLP!SuspendEvent, WLP!SuspendUnknown, WLP!Max

\* The lock table: types, and a lock on the active list is initialised.
LockOK ==
  /\ flags \in [Locks -> SUBSET WL!Flag]
  /\ link \in [Locks -> {"none", "inactive", "active"}]
  /\ expires \in [Locks -> -1 .. MaxTimeout]
  /\ \A l \in Locks : link[l] = "active" => WL!INITIALIZED \in flags[l]

\* Nobody takes the main lock with a timeout.
MainOK == WL!AUTO_EXPIRE \notin flags[main_wake_lock]

LEMMA LocksTyped == Spec => []LockOK
<1>1. /\ SuspendLocks \subseteq Locks /\ WLP!KernelLocks \subseteq SuspendLocks
      /\ main_wake_lock # unknown_wakeup /\ main_wake_lock # suspend_backoff_lock
      /\ MaxTimeout \in Nat /\ SUSPEND_BACKOFF_INTERVAL \in 1 .. MaxTimeout
      /\ UNKNOWN_WAKEUP_TIMEOUT \in 1 .. MaxTimeout
      /\ SUSPEND_BACKOFF_THRESHOLD \in Nat \ {0}
      /\ CountWidth \in Nat /\ 2 ^ CountWidth \in Nat \ {0}
  BY LocksAssumption, TimeoutAssumption, CountAssumption DEF WLP!KernelLocks
<1>2. Init => WLP!Inv
  BY <1>1, SameWakeLock, WLP!InitInv DEF Init
<1>3. WLP!Inv /\ [Next]_vars => WLP!Inv'
  BY <1>1, SameWakeLock, StepsWakeLock, WLP!NextInv
<1>4. WLP!Inv => LockOK
  BY DEF WLP!Inv, WLP!TypeOK, WLP!ListMatchesFlags, WLP!INITIALIZED, WLP!ACTIVE, WLP!AUTO_EXPIRE, WLP!Flag,
         LockOK, WL!Flag, WL!INITIALIZED, WL!ACTIVE, WL!AUTO_EXPIRE
<1> QED
  BY <1>2, <1>3, <1>4, PTL DEF Spec

-----------------------------------------------------------------------------
(* What the operations of the wake lock core do to the main lock and to    *)
(* the set of locks that count.                                            *)

\* Held in a lock table an operation has changed but not yet stored.
HeldIn(fl, ln, ex) ==
  {l \in SuspendLocks : ln[l] = "active" /\ (WL!AUTO_EXPIRE \in fl[l] => ex[l] > 0)}

MainSame == link'[main_wake_lock] = "active" <=> link[main_wake_lock] = "active"

\* A walk takes away only locks that are due, and never the main lock.
LEMMA WalkEffect ==
  ASSUME NEW fl \in [Locks -> SUBSET WL!Flag],
         NEW ln \in [Locks -> {"none", "inactive", "active"}],
         NEW ex \in [Locks -> -1 .. MaxTimeout],
         NEW S \in SUBSET Locks,
         WL!AUTO_EXPIRE \notin fl[main_wake_lock],
         WL!Walk(fl, ln, ex, S)
  PROVE  /\ Held' = HeldIn(fl, ln, ex)
         /\ MainOK'
         /\ link'[main_wake_lock] = "active" <=> ln[main_wake_lock] = "active"
<1> DEFINE D == WL!Expired(fl, ln, ex, S)
<1>1. /\ flags' = [l \in Locks |-> IF l \in D THEN fl[l] \ {WL!ACTIVE, WL!AUTO_EXPIRE} ELSE fl[l]]
      /\ link' = [l \in Locks |-> IF l \in D THEN "inactive" ELSE ln[l]]
      /\ expires' = ex
  BY DEF WL!Walk, WL!ExpireFlags, WL!ExpireLink
<1>2. \A l \in D : l \in Locks /\ ln[l] = "active" /\ WL!AUTO_EXPIRE \in fl[l] /\ ex[l] <= 0
  BY DEF WL!Expired, WL!Active, WL!Permanent, WL!Due
<1> HIDE DEF D
<1>3. main_wake_lock \notin D /\ main_wake_lock \in Locks /\ SuspendLocks \subseteq Locks
  BY <1>2, LocksAssumption
<1>4. MainOK' /\ link'[main_wake_lock] = ln[main_wake_lock]
  BY <1>1, <1>3 DEF MainOK
<1>5. ASSUME NEW l \in SuspendLocks
      PROVE  l \in Held' <=> l \in HeldIn(fl, ln, ex)
  <2>1. l \in Locks /\ ex[l] \in Int
    BY <1>3
  <2>2. CASE l \in D
    BY <1>1, <1>2, <2>1, <2>2 DEF Held, HeldIn
  <2>3. CASE l \notin D
    BY <1>1, <2>1, <2>3 DEF Held, HeldIn
  <2> QED
    BY <2>2, <2>3
<1>6. Held' = HeldIn(fl, ln, ex)
  BY <1>5 DEF Held, HeldIn
<1> QED
  BY <1>4, <1>6

LEMMA LookEffect ==
  ASSUME LockOK, MainOK, NEW S \in SUBSET Locks, WL!Walk(flags, link, expires, S)
  PROVE  Held' = Held /\ MainOK' /\ MainSame
<1>1. HeldIn(flags, link, expires) = Held
  BY DEF HeldIn, Held
<1> QED
  BY <1>1, WalkEffect DEF LockOK, MainOK, MainSame

LEMMA TimeoutEffect ==
  ASSUME LockOK, MainOK, NEW l \in Locks \ {main_wake_lock}, NEW t \in 0 .. MaxTimeout,
         WL!LockTimeout(l, t)
  PROVE  /\ Held' = IF l \in SuspendLocks /\ t > 0 THEN Held \cup {l} ELSE Held \ {l}
         /\ MainOK' /\ MainSame
<1> DEFINE fl == [flags EXCEPT ![l] = @ \cup {WL!ACTIVE, WL!AUTO_EXPIRE}]
           ln == [link EXCEPT ![l] = "active"]
           ex == [expires EXCEPT ![l] = t]
<1>1. MaxTimeout \in Nat /\ SuspendLocks \subseteq Locks /\ main_wake_lock \in Locks
  BY LocksAssumption, TimeoutAssumption
<1>2. /\ fl \in [Locks -> SUBSET WL!Flag]
      /\ ln \in [Locks -> {"none", "inactive", "active"}]
      /\ ex \in [Locks -> -1 .. MaxTimeout]
  BY <1>1 DEF LockOK, WL!Flag
<1>3. WL!AUTO_EXPIRE \notin fl[main_wake_lock] /\ ln[main_wake_lock] = link[main_wake_lock]
  BY <1>1 DEF LockOK, MainOK
<1>4. CASE l \in SuspendLocks
  <2>1. WL!Walk(fl, ln, ex, SuspendLocks)
    BY <1>4 DEF WL!LockTimeout
  <2>2. HeldIn(fl, ln, ex) = IF t > 0 THEN Held \cup {l} ELSE Held \ {l}
    <3>1. l \in HeldIn(fl, ln, ex) <=> t > 0
      BY <1>1, <1>4 DEF HeldIn, LockOK
    <3>2. \A m \in SuspendLocks \ {l} : m \in HeldIn(fl, ln, ex) <=> m \in Held
      BY <1>1 DEF HeldIn, Held, LockOK
    <3>3. HeldIn(fl, ln, ex) \subseteq SuspendLocks /\ Held \subseteq SuspendLocks
      BY DEF HeldIn, Held
    <3> HIDE DEF fl, ln, ex
    <3> QED
      BY <1>4, <3>1, <3>2, <3>3
  <2> HIDE DEF fl, ln, ex
  <2> QED
    BY <1>1, <1>2, <1>3, <1>4, <2>1, <2>2, WalkEffect DEF MainSame
<1>5. CASE l \notin SuspendLocks
  <2>1. flags' = fl /\ link' = ln /\ expires' = ex
    BY <1>5 DEF WL!LockTimeout
  <2>2. Held' = Held /\ Held \subseteq SuspendLocks
    <3>1. \A m \in SuspendLocks : fl[m] = flags[m] /\ ln[m] = link[m] /\ ex[m] = expires[m]
      BY <1>1, <1>5 DEF LockOK
    <3> HIDE DEF fl, ln, ex
    <3> QED
      BY <2>1, <3>1 DEF Held
  <2>3. MainOK' /\ MainSame
    <3> HIDE DEF fl, ln, ex
    <3> QED
      BY <1>3, <2>1 DEF MainOK, MainSame
  <2> QED
    BY <1>5, <2>2, <2>3
<1> QED
  BY <1>4, <1>5

LEMMA UnlockEffect ==
  ASSUME LockOK, MainOK, NEW l \in Locks, WL!wake_unlock(l)
  PROVE  /\ Held' = Held \ {l}
         /\ MainOK'
         /\ l # main_wake_lock => MainSame
<1> DEFINE fl == [flags EXCEPT ![l] = @ \ {WL!ACTIVE, WL!AUTO_EXPIRE}]
           ln == [link EXCEPT ![l] = "inactive"]
<1>1. SuspendLocks \subseteq Locks /\ main_wake_lock \in Locks
  BY LocksAssumption
<1>2. /\ fl \in [Locks -> SUBSET WL!Flag]
      /\ ln \in [Locks -> {"none", "inactive", "active"}]
  BY <1>1 DEF LockOK
<1>3. /\ WL!AUTO_EXPIRE \notin fl[main_wake_lock]
      /\ l # main_wake_lock => ln[main_wake_lock] = link[main_wake_lock]
  BY <1>1 DEF LockOK, MainOK
<1>4. HeldIn(fl, ln, expires) = Held \ {l}
  <2>1. \A m \in SuspendLocks \ {l} : fl[m] = flags[m] /\ ln[m] = link[m]
    BY <1>1 DEF LockOK
  <2>2. ln[l] = "inactive"
    BY DEF LockOK
  <2> HIDE DEF fl, ln
  <2> QED
    BY <2>1, <2>2 DEF HeldIn, Held
<1>5. CASE l \in SuspendLocks
  <2>1. WL!Walk(fl, ln, expires, SuspendLocks)
    BY <1>5 DEF WL!wake_unlock
  <2> HIDE DEF fl, ln
  <2> QED
    BY <1>1, <1>2, <1>3, <1>4, <2>1, WalkEffect DEF MainSame, LockOK
<1>6. CASE l \notin SuspendLocks
  <2>1. flags' = fl /\ link' = ln /\ expires' = expires
    BY <1>6 DEF WL!wake_unlock
  <2> HIDE DEF fl, ln
  <2> QED
    BY <1>3, <1>4, <2>1 DEF HeldIn, Held, MainOK, MainSame
<1> QED
  BY <1>5, <1>6

LEMMA LockEffect ==
  ASSUME LockOK, MainOK, NEW l \in Locks, WL!wake_lock(l)
  PROVE  /\ Held' = Held \cup ({l} \cap SuspendLocks)
         /\ MainOK'
         /\ l # main_wake_lock => MainSame
<1>1. SuspendLocks \subseteq Locks /\ main_wake_lock \in Locks
  BY LocksAssumption
<1>2. /\ flags' = [flags EXCEPT ![l] = (@ \cup {WL!ACTIVE}) \ {WL!AUTO_EXPIRE}]
      /\ link' = [link EXCEPT ![l] = "active"]
      /\ expires' = [expires EXCEPT ![l] = WL!LONG_MAX]
  BY DEF WL!wake_lock
<1>3. /\ WL!AUTO_EXPIRE \notin flags'[l] /\ link'[l] = "active"
      /\ \A m \in Locks \ {l} : flags'[m] = flags[m] /\ link'[m] = link[m] /\ expires'[m] = expires[m]
  BY <1>2 DEF LockOK
<1>4. Held' = Held \cup ({l} \cap SuspendLocks)
  BY <1>1, <1>3 DEF Held
<1> QED
  BY <1>1, <1>3, <1>4 DEF MainOK, MainSame

LEMMA LifeEffect ==
  ASSUME LockOK, MainOK, NEW l \in Locks \ {main_wake_lock}, WL!wake_lock_init(l) \/ WL!wake_lock_destroy(l)
  PROVE  Held' \subseteq Held /\ MainOK' /\ MainSame
<1>1. SuspendLocks \subseteq Locks /\ main_wake_lock \in Locks
  BY LocksAssumption
<1>2. /\ link'[l] # "active"
      /\ \A m \in Locks \ {l} : flags'[m] = flags[m] /\ link'[m] = link[m]
      /\ expires' = expires
  BY DEF WL!wake_lock_init, WL!wake_lock_destroy, LockOK
<1>3. Held' \subseteq Held
  BY <1>1, <1>2 DEF Held
<1> QED
  BY <1>1, <1>2, <1>3 DEF MainOK, MainSame

LEMMA TickEffect ==
  ASSUME LockOK, MainOK, WL!Tick
  PROVE  Held' \subseteq Held /\ MainOK' /\ MainSame
<1>1. /\ flags' = flags /\ link' = link
      /\ expires' = [l \in Locks |-> WL!CountDown(expires[l])]
  BY DEF WL!Tick
<1>2. ASSUME NEW l \in SuspendLocks, expires'[l] > 0 PROVE expires[l] > 0
  <2>1. l \in Locks /\ expires[l] \in Int
    BY LocksAssumption, TimeoutAssumption DEF LockOK
  <2> QED
    BY <1>1, <1>2, <2>1 DEF WL!CountDown
<1>3. Held' \subseteq Held
  BY <1>1, <1>2 DEF Held
<1> QED
  BY <1>1, <1>3 DEF MainOK, MainSame

LEMMA NoEffect ==
  ASSUME UNCHANGED <<flags, link, expires>>, MainOK
  PROVE  Held' = Held /\ MainOK' /\ MainSame
  BY DEF Held, MainOK, MainSame

-----------------------------------------------------------------------------
(* What the steps of the composed system do to them.                       *)

LEMMA SuspendEffect ==
  ASSUME LockOK, MainOK, NEW w \in Workers,
         \/ WL!SuspendStart(w) \/ WL!SuspendCheck(w) \/ WL!SuspendEntry(w)
         \/ WL!SuspendCount(w) \/ WL!SuspendCompare(w) \/ WL!suspend_backoff(w)
         \/ WL!SuspendReset(w)
         \/ WL!SuspendEvent(w) \/ WL!SuspendUnknown(w)
  PROVE  /\ MainOK' /\ MainSame
         /\ \/ Held' = Held
            \/ \E l \in {unknown_wakeup, suspend_backoff_lock} : Held' = Held \cup {l}
<1>1. /\ SuspendLocks \in SUBSET Locks
      /\ \A l \in {unknown_wakeup, suspend_backoff_lock} :
           l \in SuspendLocks /\ l \in Locks \ {main_wake_lock}
  BY LocksAssumption
<1>2. \A t \in {SUSPEND_BACKOFF_INTERVAL, UNKNOWN_WAKEUP_TIMEOUT} : t \in 0 .. MaxTimeout /\ t > 0
  BY TimeoutAssumption
<1>3. CASE WL!SuspendCheck(w)
  BY <1>1, <1>3, LookEffect DEF WL!SuspendCheck
<1>4. CASE WL!SuspendUnknown(w)
  <2>1. WL!LockTimeout(unknown_wakeup, UNKNOWN_WAKEUP_TIMEOUT)
    BY <1>4 DEF WL!SuspendUnknown
  <2> QED
    BY <1>1, <1>2, <2>1, TimeoutEffect
<1>5. CASE WL!suspend_backoff(w)
  <2>1. WL!LockTimeout(suspend_backoff_lock, SUSPEND_BACKOFF_INTERVAL)
    BY <1>5 DEF WL!suspend_backoff
  <2> QED
    BY <1>1, <1>2, <2>1, TimeoutEffect
<1>6. CASE \/ WL!SuspendStart(w) \/ WL!SuspendEntry(w) \/ WL!SuspendCount(w)
           \/ WL!SuspendCompare(w) \/ WL!SuspendReset(w) \/ WL!SuspendEvent(w)
  <2>1. UNCHANGED <<flags, link, expires>>
    BY <1>6 DEF WL!SuspendStart, WL!SuspendEntry, WL!SuspendCount, WL!SuspendReset, WL!SuspendEvent,
                WL!SuspendCompare, WL!lock_vars
  <2> QED
    BY <2>1, NoEffect
<1> QED
  BY <1>3, <1>4, <1>5, <1>6

LEMMA ClientEffect ==
  ASSUME LockOK, MainOK, Client
  PROVE  /\ MainOK' /\ MainSame
         /\ \/ Held' \subseteq Held
            \/ \E l \in WL!ClientLocks \cap SuspendLocks : Held' = Held \cup {l}
<1>1. PICK l \in WL!ClientLocks :
        \/ WL!wake_lock_init(l) \/ WL!wake_lock_destroy(l)
        \/ WL!wake_lock(l) \/ WL!wake_unlock(l)
        \/ \E t \in 0 .. MaxTimeout : WL!wake_lock_timeout(l, t)
  BY DEF Client
<1>2. l \in Locks \ {main_wake_lock} /\ l \in Locks /\ l # main_wake_lock
  BY DEF WL!ClientLocks, WL!KernelLocks
<1>3. CASE WL!wake_lock_init(l) \/ WL!wake_lock_destroy(l)
  BY <1>2, <1>3, LifeEffect
<1>4. CASE WL!wake_lock(l)
  <2>1. Held' = Held \cup ({l} \cap SuspendLocks) /\ MainOK' /\ MainSame
    BY <1>2, <1>4, LockEffect
  <2>2. CASE l \in SuspendLocks
    <3>1. Held' = Held \cup {l}
      BY <2>1, <2>2
    <3> QED
      BY <2>1, <2>2, <3>1
  <2>3. CASE l \notin SuspendLocks
    <3>1. Held' \subseteq Held
      BY <2>1, <2>3
    <3> QED
      BY <2>1, <3>1
  <2> QED
    BY <2>2, <2>3
<1>5. CASE WL!wake_unlock(l)
  <2>1. Held' = Held \ {l} /\ MainOK' /\ MainSame
    BY <1>2, <1>5, UnlockEffect
  <2> QED
    BY <2>1
<1>6. ASSUME NEW t \in 0 .. MaxTimeout, WL!wake_lock_timeout(l, t)
      PROVE  /\ MainOK' /\ MainSame
             /\ \/ Held' \subseteq Held
                \/ \E m \in WL!ClientLocks \cap SuspendLocks : Held' = Held \cup {m}
  <2>1. WL!LockTimeout(l, t)
    BY <1>6 DEF WL!wake_lock_timeout
  <2>2. /\ Held' = IF l \in SuspendLocks /\ t > 0 THEN Held \cup {l} ELSE Held \ {l}
        /\ MainOK' /\ MainSame
    BY <1>2, <2>1, TimeoutEffect
  <2>3. CASE l \in SuspendLocks /\ t > 0
    BY <2>2, <2>3
  <2>4. CASE ~ (l \in SuspendLocks /\ t > 0)
    <3>1. Held' \subseteq Held
      BY <2>2, <2>4
    <3> QED
      BY <2>2, <3>1
  <2> QED
    BY <2>3, <2>4
<1> QED
  BY <1>1, <1>3, <1>4, <1>5, <1>6

LEMMA TimerEffect ==
  ASSUME LockOK, MainOK, Timer
  PROVE  Held' \subseteq Held /\ MainOK' /\ MainSame
<1>1. CASE WL!Tick
  BY <1>1, TickEffect
<1>2. CASE WL!TimerFires
  <2>1. UNCHANGED <<flags, link, expires>>
    BY <1>2 DEF WL!TimerFires, WL!lock_vars
  <2> QED
    BY <2>1, NoEffect
<1>3. CASE WL!expire_wake_locks
  <2>1. WL!Walk(flags, link, expires, SuspendLocks) /\ SuspendLocks \in SUBSET Locks
    BY <1>3, LocksAssumption DEF WL!expire_wake_locks
  <2>2. Held' = Held /\ MainOK' /\ MainSame
    BY <2>1, LookEffect
  <2> QED
    BY <2>2
<1> QED
  BY <1>1, <1>2, <1>3 DEF Timer

LEMMA RequestEffect ==
  ASSUME LockOK, MainOK, NEW s, Request(s)
  PROVE  MainOK' /\ (Held' = Held \/ Held' = Held \cup {main_wake_lock})
<1>1. main_wake_lock \in Locks /\ main_wake_lock \in SuspendLocks
  BY LocksAssumption
<1>2. CASE WL!wake_lock(main_wake_lock)
  <2>1. Held' = Held \cup ({main_wake_lock} \cap SuspendLocks) /\ MainOK'
    BY <1>1, <1>2, LockEffect
  <2>2. {main_wake_lock} \cap SuspendLocks = {main_wake_lock}
    BY <1>1
  <2> QED
    BY <2>1, <2>2
<1>3. CASE UNCHANGED lock_vars
  BY <1>3, NoEffect DEF lock_vars
<1> QED
  BY <1>2, <1>3 DEF Request, RequestMain

LEMMA EarlyUnlockEffect ==
  ASSUME LockOK, MainOK, NEW w, EarlyUnlock(w)
  PROVE  MainOK' /\ Held' \subseteq Held
<1>1. CASE WL!wake_unlock(main_wake_lock)
  <2>1. Held' = Held \ {main_wake_lock} /\ MainOK'
    BY <1>1, LocksAssumption, UnlockEffect
  <2> QED
    BY <2>1
<1>2. CASE UNCHANGED lock_vars
  BY <1>2, NoEffect DEF lock_vars
<1> QED
  BY <1>1, <1>2 DEF EarlyUnlock

\* has_wake_lock, called by the freezer and by power_suspend_late.
LEMMA CheckEffect ==
  ASSUME LockOK, MainOK, NEW w, FreezerLooks(w) \/ power_suspend_late(w)
  PROVE  Held' = Held /\ MainOK' /\ MainSame
<1>1. WL!Walk(flags, link, expires, SuspendLocks) /\ SuspendLocks \in SUBSET Locks
  BY LocksAssumption DEF FreezerLooks, power_suspend_late, WL!has_wake_lock
<1> QED
  BY <1>1, LookEffect

\* Everything else leaves the locks alone.
LEMMA OtherEffect ==
  ASSUME MainOK,
         \/ \E w \in Workers :
              CallPmSuspend(w) \/ ReturnToSuspend(w) \/ FreezeUser(w) \/ InPmSuspend(w)
         \/ EarlyWork \/ Drivers \/ UNCHANGED vars
  PROVE  Held' = Held /\ MainOK' /\ MainSame
<1>1. UNCHANGED <<flags, link, expires>>
  BY DEF CallPmSuspend, ReturnToSuspend, FreezeUser, InPmSuspend, EarlyWork, Drivers, vars, lock_vars,
         WL!SuspendReturn, WL!lock_vars
<1> QED
  BY <1>1, NoEffect

LEMMA NextMainOK ==
  ASSUME LockOK, MainOK, [Next]_vars
  PROVE  MainOK'
<1>1. ASSUME NEW w \in Workers, Suspend(w) PROVE MainOK'
  BY <1>1, SuspendEffect, CheckEffect, OtherEffect DEF Suspend
<1> QED
  BY <1>1, RequestEffect, EarlyUnlockEffect, ClientEffect, TimerEffect, OtherEffect DEF Next

\* The main lock has no timeout, whatever else happens.
LEMMA MainNeverTimed == Spec => []MainOK
<1>1. Init => MainOK
  BY LocksAssumption DEF Init, WL!Init, MainOK, WL!INITIALIZED, WL!ACTIVE, WL!AUTO_EXPIRE
<1>2. LockOK /\ MainOK /\ [Next]_vars => MainOK'
  BY NextMainOK
<1> QED
  BY <1>1, <1>2, LocksTyped, PTL DEF Spec

-----------------------------------------------------------------------------
(* Early suspend.                                                          *)

LEMMA StepsEarlySuspend ==
  ASSUME LockOK, MainOK, [Next]_vars
  PROVE  [ES!Next]_(ES!vars)
<1>1. ASSUME UNCHANGED early_vars, MainSame PROVE UNCHANGED ES!vars
  BY <1>1 DEF early_vars, MainSame, ES!vars
<1>2. ASSUME NEW w \in Workers, Suspend(w) PROVE [ES!Next]_(ES!vars)
  <2>1. UNCHANGED early_vars
    BY <1>2 DEF Suspend, CallPmSuspend, ReturnToSuspend, FreezeUser, FreezerLooks, power_suspend_late, InPmSuspend
  <2>2. MainSame
    BY <1>2, SuspendEffect, CheckEffect, OtherEffect DEF Suspend
  <2> QED
    BY <1>1, <2>1, <2>2
<1>3. CASE Client \/ Timer \/ UNCHANGED vars
  <2>1. UNCHANGED early_vars
    BY <1>3 DEF Client, Timer, vars
  <2>2. MainSame
    BY <1>3, ClientEffect, TimerEffect, OtherEffect
  <2> QED
    BY <1>1, <2>1, <2>2
<1>4. CASE \E s \in {"on", "mem"} : Request(s)
  BY <1>4 DEF Request, ES!Next, ES!User
<1>5. CASE \E w \in EarlyWorkers : EarlyUnlock(w)
  BY <1>5 DEF EarlyUnlock, ES!Next, ES!Early, ES!early_suspend
<1>6. CASE EarlyWork
  BY <1>6 DEF EarlyWork, ES!Next, ES!Early, ES!early_suspend, ES!Late
<1>7. CASE Drivers
  BY <1>7 DEF Drivers, ES!Next
<1> QED
  BY <1>2, <1>3, <1>4, <1>5, <1>6, <1>7 DEF Next

\* The main lock of early suspend is the one in the lock table: no walk and no
\* timer takes it away, and the composed system is an early suspend.
THEOREM RefinesEarlySuspend == Spec => ImplementsEarlySuspend
<1>1. Init => ES!Init
  BY DEF Init
<1>2. LockOK /\ MainOK /\ [Next]_vars => [UNCHANGED ES!vars \/ ES!Next]_(ES!vars)
  BY StepsEarlySuspend
<1> QED
  BY <1>1, <1>2, LocksTyped, MainNeverTimed, PTL DEF Spec, ImplementsEarlySuspend

\* Both instances of EarlySuspend are the same module.
LEMMA SameEarlySuspend ==
  /\ ES!Init <=> ESP!Init
  /\ [ES!Next]_(ES!vars) <=> [ESP!Next]_(ESP!vars)
  BY DEF
    ES!vars, ES!Init, ES!Threads, ES!Next, ES!Early, ES!Late, ES!User, ES!Drivers,
    ES!EarlyStart, ES!early_suspend, ES!EarlyLock, ES!EarlyCall, ES!EarlyDone, ES!EarlyUnlock,
    ES!LateStart, ES!late_resume, ES!LateLock, ES!LateCall, ES!LateDone,
    ES!request_suspend_state, ES!register_early_suspend, ES!RegisterCall,
    ES!unregister_early_suspend, ES!StopsAt, ES!Inserted, ES!Registered, ES!Goto, ES!SUSPENDED,
    ES!SUSPEND_REQUESTED, ES!SUSPEND_REQUESTED_AND_SUSPENDED, ES!request_vars, ES!list_vars,
    ESP!vars, ESP!Init, ESP!Threads, ESP!Next, ESP!Early, ESP!Late, ESP!User, ESP!Drivers,
    ESP!EarlyStart, ESP!early_suspend, ESP!EarlyLock, ESP!EarlyCall, ESP!EarlyDone,
    ESP!EarlyUnlock, ESP!LateStart, ESP!late_resume, ESP!LateLock, ESP!LateCall, ESP!LateDone,
    ESP!request_suspend_state, ESP!register_early_suspend, ESP!RegisterCall,
    ESP!unregister_early_suspend, ESP!StopsAt, ESP!Inserted, ESP!Registered, ESP!Goto,
    ESP!SUSPENDED, ESP!SUSPEND_REQUESTED, ESP!SUSPEND_REQUESTED_AND_SUSPENDED, ESP!request_vars,
    ESP!list_vars

EarlyInv == ESP!IInv /\ ESP!WalkHoldsMain

\* What EarlySuspendProofs shows of early suspend holds of the whole.
LEMMA EarlyInvariance == Spec => []EarlyInv
<1>1. /\ level \in [Handlers -> Nat]
      /\ EarlyWorkers \cap LateWorkers = {} /\ ESP!Threads \cap Handlers = {}
      /\ (CHOOSE h \in Handlers : TRUE) \in Handlers
  BY HandlersAssumption, ThreadsAssumption DEF ESP!Threads
<1>2. Init => EarlyInv
  BY <1>1, SameEarlySuspend, ESP!InitIInv, ESP!InitWalkHoldsMain DEF Init, EarlyInv
<1>3. LockOK /\ MainOK /\ EarlyInv /\ [Next]_vars => EarlyInv'
  <2> SUFFICES ASSUME LockOK, MainOK, EarlyInv, [Next]_vars PROVE EarlyInv'
    OBVIOUS
  <2>1. [ESP!Next]_(ESP!vars)
    BY StepsEarlySuspend, SameEarlySuspend
  <2>2. ESP!IInv'
    BY <1>1, <2>1, ESP!NextIInv DEF EarlyInv
  <2>3. ESP!WalkHoldsMain'
    BY <1>1, <2>1, ESP!NextWalkHoldsMain DEF EarlyInv
  <2> QED
    BY <2>2, <2>3 DEF EarlyInv
<1> QED
  BY <1>2, <1>3, LocksTyped, MainNeverTimed, PTL DEF Spec

-----------------------------------------------------------------------------
(* The suspend core.                                                       *)

\* Both instances of SuspendCore are the same module.
LEMMA SameSuspendCore ==
  /\ SC!Init <=> SCP!Init
  /\ [SC!Next]_(SC!vars) <=> [SCP!Next]_(SCP!vars)
  BY DEF
    SC!vars, SC!Init, SC!Next, SC!Caller, SC!Acquire, SC!Release, SC!CanRun, SC!StoppedBy,
    SC!pm_suspend, SC!enter_state, SC!Wake, SC!Return, SC!TryLock, SC!suspend_prepare,
    SC!suspend_devices_and_enter, SC!resume, SC!PrepareConsole, SC!NotifyPrepare,
    SC!UsermodehelperDisable, SC!FreezeUser, SC!FreezeTasks, SC!SuspendDevices,
    SC!PlatformPrepare, SC!SuspendDeviceIrqs, SC!SuspendNoirq, SC!power_suspend_late,
    SC!SuspendNoirqRest, SC!DisableCpus, SC!DisableIrqs, SC!SyscoreSuspend, SC!EnterSleep,
    SC!SyscoreResume, SC!EnableIrqs, SC!EnableCpus, SC!ResumeNoirq, SC!PlatformFinish,
    SC!ResumeDevices, SC!ResumeConsole, SC!RestoreGfp, SC!ThawTasks, SC!ThawUser,
    SC!UsermodehelperEnable, SC!NotifyPost, SC!RestoreConsole, SC!Unlock, SC!Goto, SC!Take,
    SC!Give, SC!locking, SCP!vars, SCP!Init, SCP!Next, SCP!Caller, SCP!Acquire, SCP!Release,
    SCP!CanRun, SCP!StoppedBy, SCP!pm_suspend, SCP!enter_state, SCP!Wake, SCP!Return,
    SCP!TryLock, SCP!suspend_prepare, SCP!suspend_devices_and_enter, SCP!resume,
    SCP!PrepareConsole, SCP!NotifyPrepare, SCP!UsermodehelperDisable, SCP!FreezeUser,
    SCP!FreezeTasks, SCP!SuspendDevices, SCP!PlatformPrepare, SCP!SuspendDeviceIrqs,
    SCP!SuspendNoirq, SCP!power_suspend_late, SCP!SuspendNoirqRest, SCP!DisableCpus,
    SCP!DisableIrqs, SCP!SyscoreSuspend, SCP!EnterSleep, SCP!SyscoreResume, SCP!EnableIrqs,
    SCP!EnableCpus, SCP!ResumeNoirq, SCP!PlatformFinish, SCP!ResumeDevices, SCP!ResumeConsole,
    SCP!RestoreGfp, SCP!ThawTasks, SCP!ThawUser, SCP!UsermodehelperEnable, SCP!NotifyPost,
    SCP!RestoreConsole, SCP!Unlock, SCP!Goto, SCP!Take, SCP!Give, SCP!locking

\* A step outside pm_suspend: nothing happens to Held, or somebody who can
\* run takes a lock, or locks go away before interrupts are off.
LEMMA HeldStep ==
  ASSUME UNCHANGED core_vars,
         \/ Held' = Held
         \/ \E l \in SuspendLocks : SC!CanRun(l) /\ Held' = Held \cup {l}
         \/ "irqs" \notin down /\ Held' \subseteq Held
  PROVE  [SC!Next]_(SC!vars)
<1>1. UNCHANGED <<pm_mutex, at, down>>
  BY DEF core_vars
<1>2. CASE Held' = Held
  BY <1>1, <1>2 DEF SC!vars
<1>3. CASE \E l \in SuspendLocks : SC!CanRun(l) /\ Held' = Held \cup {l}
  BY <1>1, <1>3 DEF SC!Next, SC!Acquire
<1>4. CASE "irqs" \notin down /\ Held' \subseteq Held /\ Held' # Held
  <2> DEFINE R == Held \ Held'
  <2>1. R \in (SUBSET Held) \ {{}} /\ Held' = Held \ R
    BY <1>4
  <2>2. SC!Release(R)
    BY <1>1, <1>4, <2>1 DEF SC!Release
  <2> QED
    BY <2>1, <2>2 DEF SC!Next
<1> QED
  BY <1>2, <1>3, <1>4

\* Who can run, by the lock it takes.
LEMMA WhoCanRun ==
  /\ KernelRuns => \A l \in {unknown_wakeup, suspend_backoff_lock} : SC!CanRun(l)
  /\ UserRuns => SC!CanRun(main_wake_lock) /\ \A l \in WL!ClientLocks \cap SuspendLocks : SC!CanRun(l)
<1>1. \A l \in {unknown_wakeup, suspend_backoff_lock} : Context[l] = "nofreeze"
  BY LocksAssumption DEF Context
<1>2. Context[main_wake_lock] = "user" /\ \A l \in WL!ClientLocks \cap SuspendLocks : Context[l] = "user"
  BY LocksAssumption DEF Context, WL!ClientLocks, WL!KernelLocks
<1>3. SC!StoppedBy("user") = "user" /\ SC!StoppedBy("nofreeze") = "irqs"
  BY DEF SC!StoppedBy
<1> QED
  BY <1>1, <1>2, <1>3 DEF KernelRuns, UserRuns, SC!CanRun

LEMMA StepsSuspendCore ==
  ASSUME LockOK, MainOK, EarlyInv, SCP!IInv, [Next]_vars
  PROVE  [SC!Next]_(SC!vars)
<1>1. requested_suspend_state \in {"on", "mem"}
  BY DEF EarlyInv, ESP!IInv, ESP!TypeOK
<1>2. Context \in [SuspendLocks -> SCP!Contexts]
  BY DEF Context, SCP!Contexts
<1>3. UserRuns => "irqs" \notin down
  <2>1. "irqs" \in down => "user" \in down
    BY <1>2, SCP!UserDownFirst
  <2> QED
    BY <2>1 DEF UserRuns
<1>4. ASSUME NEW w \in Workers, Suspend(w) PROVE [SC!Next]_(SC!vars)
  <2>1. CASE CallPmSuspend(w)
    BY <1>1, <2>1 DEF CallPmSuspend, SC!Next, SC!Caller
  <2>2. CASE ReturnToSuspend(w)
    BY <2>2 DEF ReturnToSuspend, SC!Next, SC!Caller
  <2>3. CASE FreezeUser(w)
    BY <2>3 DEF FreezeUser, SC!Next, SC!Caller, SC!enter_state, SC!suspend_prepare
  <2>4. CASE FreezerLooks(w)
    <3>1. Held' = Held /\ UNCHANGED core_vars
      BY <2>4, CheckEffect DEF FreezerLooks
    <3> QED
      BY <3>1, HeldStep
  <2>5. CASE power_suspend_late(w)
    BY <2>5 DEF power_suspend_late, SC!Next, SC!Caller, SC!enter_state, SC!suspend_devices_and_enter
  <2>6. CASE InPmSuspend(w)
    BY <2>6 DEF InPmSuspend, SC!Next, SC!Caller, SC!enter_state, SC!suspend_prepare,
                SC!suspend_devices_and_enter
  <2>7. CASE /\ KernelRuns
             /\ \/ WL!SuspendStart(w) \/ WL!SuspendCheck(w) \/ WL!SuspendEntry(w)
                \/ WL!SuspendCount(w) \/ WL!SuspendCompare(w) \/ WL!suspend_backoff(w)
                \/ WL!SuspendReset(w)
                \/ WL!SuspendEvent(w) \/ WL!SuspendUnknown(w)
             /\ UNCHANGED <<early_vars, core_vars>>
    <3>1. \/ Held' = Held
          \/ \E l \in {unknown_wakeup, suspend_backoff_lock} : Held' = Held \cup {l}
      BY <2>7, SuspendEffect
    <3>2. {unknown_wakeup, suspend_backoff_lock} \subseteq SuspendLocks
      BY LocksAssumption
    <3>3. \/ Held' = Held
          \/ \E l \in SuspendLocks : SC!CanRun(l) /\ Held' = Held \cup {l}
      BY <2>7, <3>1, <3>2, WhoCanRun
    <3> QED
      BY <2>7, <3>3, HeldStep
  <2> QED
    BY <1>4, <2>1, <2>2, <2>3, <2>4, <2>5, <2>6, <2>7 DEF Suspend
<1>5. CASE \E s \in {"on", "mem"} : Request(s)
  <2>1. UserRuns /\ UNCHANGED core_vars /\ (Held' = Held \/ Held' = Held \cup {main_wake_lock})
    BY <1>5, RequestEffect DEF Request
  <2>2. main_wake_lock \in SuspendLocks
    BY LocksAssumption
  <2> QED
    BY <2>1, <2>2, WhoCanRun, HeldStep
<1>6. CASE KernelRuns /\ \E w \in EarlyWorkers : EarlyUnlock(w)
  <2>1. UNCHANGED core_vars /\ Held' \subseteq Held
    BY <1>6, EarlyUnlockEffect DEF EarlyUnlock
  <2> QED
    BY <1>6, <2>1, HeldStep DEF KernelRuns
<1>7. CASE EarlyWork \/ Drivers \/ UNCHANGED vars
  <2>1. UNCHANGED core_vars /\ Held' = Held
    BY <1>7, OtherEffect DEF EarlyWork, Drivers, vars
  <2> QED
    BY <2>1, HeldStep
<1>8. CASE Client
  <2>1. UserRuns /\ UNCHANGED core_vars
    BY <1>8 DEF Client
  <2>2. \/ Held' \subseteq Held
        \/ \E l \in WL!ClientLocks \cap SuspendLocks : Held' = Held \cup {l}
    BY <1>8, ClientEffect
  <2>3. \/ "irqs" \notin down /\ Held' \subseteq Held
        \/ \E l \in SuspendLocks : SC!CanRun(l) /\ Held' = Held \cup {l}
    BY <1>3, <2>1, <2>2, WhoCanRun
  <2> QED
    BY <2>1, <2>3, HeldStep
<1>9. CASE Timer
  <2>1. KernelRuns /\ UNCHANGED core_vars /\ Held' \subseteq Held
    BY <1>9, TimerEffect DEF Timer
  <2> QED
    BY <2>1, HeldStep DEF KernelRuns
<1> QED
  BY <1>4, <1>5, <1>6, <1>7, <1>8, <1>9 DEF Next

\* What SuspendCoreProofs shows of pm_suspend holds of the whole.
LEMMA CoreInvariance == Spec => []SCP!IInv
<1>1. Context \in [SuspendLocks -> SCP!Contexts]
  BY DEF Context, SCP!Contexts
<1>2. Init => SCP!IInv
  <2>1. Held \in SUBSET SuspendLocks
    BY DEF Held
  <2> QED
    BY <1>1, <2>1, SameSuspendCore, SCP!InitInv DEF Init, SC!Init
<1>3. LockOK /\ MainOK /\ EarlyInv /\ SCP!IInv /\ [Next]_vars => SCP!IInv'
  BY <1>1, StepsSuspendCore, SameSuspendCore, SCP!NextInv
<1> QED
  BY <1>2, <1>3, LocksTyped, MainNeverTimed, EarlyInvariance, PTL DEF Spec

\* The wake locks that pm_suspend meets change only as SuspendCore allows: a
\* lock is added by somebody who can still run, and none goes away once
\* interrupts are off.
THEOREM RefinesSuspendCore == Spec => ImplementsSuspendCore
<1>1. Init => SC!Init
  BY DEF Init, SC!Init, Held
<1>2. LockOK /\ MainOK /\ EarlyInv /\ SCP!IInv /\ [Next]_vars =>
        [UNCHANGED SC!vars \/ SC!Next]_(SC!vars)
  BY StepsSuspendCore
<1> QED
  BY <1>1, <1>2, LocksTyped, MainNeverTimed, EarlyInvariance, CoreInvariance, PTL
  DEF Spec, ImplementsSuspendCore

-----------------------------------------------------------------------------
(* Asleep only on request.                                                 *)

\* SUSPEND_REQUESTED is set only for a request to sleep.
RequestOK == ES!SUSPEND_REQUESTED \in state => requested_suspend_state = "mem"

LEMMA NextRequestOK ==
  ASSUME RequestOK, [ES!Next]_(ES!vars)
  PROVE  RequestOK'
<1> USE DEF ES!SUSPEND_REQUESTED, ES!SUSPENDED, ES!SUSPEND_REQUESTED_AND_SUSPENDED
<1>1. CASE ES!User
  BY <1>1 DEF ES!User, ES!request_suspend_state, RequestOK
<1>2. CASE ES!Drivers \/ UNCHANGED ES!vars
  <2>1. UNCHANGED <<state, requested_suspend_state>>
    BY <1>2 DEF ES!Drivers, ES!register_early_suspend, ES!RegisterCall, ES!unregister_early_suspend,
                ES!request_vars, ES!vars
  <2> QED
    BY <2>1 DEF RequestOK
<1>3. CASE ES!Early
  <2>1. /\ UNCHANGED requested_suspend_state
        /\ \/ UNCHANGED state
           \/ state = {ES!SUSPEND_REQUESTED}
    BY <1>3 DEF ES!Early, ES!EarlyStart, ES!early_suspend, ES!EarlyLock, ES!EarlyCall, ES!EarlyDone,
                ES!EarlyUnlock, ES!request_vars
  <2> QED
    BY <2>1 DEF RequestOK
<1>4. CASE ES!Late
  <2>1. /\ UNCHANGED requested_suspend_state
        /\ UNCHANGED state \/ state' = {}
    BY <1>4 DEF ES!Late, ES!LateStart, ES!late_resume, ES!LateLock, ES!LateCall, ES!LateDone,
                ES!request_vars
  <2> QED
    BY <2>1 DEF RequestOK
<1> QED
  BY <1>1, <1>2, <1>3, <1>4 DEF ES!Next

\* A frozen user space is not in the middle of register_early_suspend.
FrozenOK == "user" \in down => early_suspend_lock \cap Handlers = {}

\* Only the freezer stops user space.
LEMMA OnlyFreezerStops ==
  ASSUME NEW w, CallPmSuspend(w) \/ ReturnToSuspend(w) \/ power_suspend_late(w) \/ InPmSuspend(w)
  PROVE  /\ "user" \in down' => "user" \in down
         /\ UNCHANGED early_vars
<1>1. CASE CallPmSuspend(w)
  BY <1>1 DEF CallPmSuspend, SC!pm_suspend
<1>2. CASE ReturnToSuspend(w)
  BY <1>2 DEF ReturnToSuspend, SC!Return
<1>3. CASE power_suspend_late(w)
  BY <1>3 DEF power_suspend_late, SC!power_suspend_late
<1>4. CASE InPmSuspend(w)
  <2>1. CASE SC!resume(w)
    BY <1>4, <2>1 DEF InPmSuspend, SC!resume, SC!SyscoreResume, SC!EnableIrqs, SC!EnableCpus,
       SC!ResumeNoirq, SC!PlatformFinish, SC!ResumeDevices, SC!ResumeConsole, SC!RestoreGfp,
       SC!ThawTasks, SC!ThawUser, SC!UsermodehelperEnable, SC!NotifyPost, SC!RestoreConsole,
       SC!Unlock, SC!Give
  <2>2. CASE ~ SC!resume(w)
    BY <1>4, <2>2 DEF InPmSuspend, SC!TryLock, SC!PrepareConsole, SC!NotifyPrepare,
       SC!UsermodehelperDisable, SC!FreezeTasks, SC!SuspendDevices, SC!PlatformPrepare,
       SC!SuspendDeviceIrqs, SC!SuspendNoirq, SC!SuspendNoirqRest, SC!DisableCpus, SC!DisableIrqs,
       SC!SyscoreSuspend, SC!EnterSleep, SC!Wake, SC!Take, SC!Give
  <2> QED
    BY <2>1, <2>2
<1> QED
  BY <1>1, <1>2, <1>3, <1>4

LEMMA NextFrozenOK ==
  ASSUME FrozenOK, [Next]_vars
  PROVE  FrozenOK'
<1>1. ASSUME UNCHANGED early_vars, "user" \in down' => "user" \in down PROVE FrozenOK'
  BY <1>1 DEF FrozenOK, early_vars
<1>2. ASSUME NEW w \in Workers, Suspend(w) PROVE FrozenOK'
  <2>1. CASE FreezeUser(w)
    BY <2>1 DEF FreezeUser, FrozenOK, early_vars
  <2>2. CASE CallPmSuspend(w) \/ ReturnToSuspend(w) \/ power_suspend_late(w) \/ InPmSuspend(w)
    BY <1>1, <2>2, OnlyFreezerStops
  <2>3. CASE UNCHANGED <<early_vars, core_vars>>
    BY <1>1, <2>3 DEF core_vars
  <2> QED
    BY <1>2, <2>1, <2>2, <2>3 DEF Suspend, FreezerLooks
<1>3. CASE Client \/ Timer \/ UNCHANGED vars
  BY <1>1, <1>3 DEF Client, Timer, vars, core_vars
<1>4. CASE Drivers
  BY <1>4 DEF Drivers, UserRuns, core_vars, FrozenOK
<1>5. CASE (\E s \in {"on", "mem"} : Request(s)) \/ \E w \in EarlyWorkers : EarlyUnlock(w)
  <2>1. UNCHANGED <<down, early_suspend_lock>>
    BY <1>5 DEF Request, ES!request_suspend_state, EarlyUnlock, ES!EarlyUnlock, core_vars
  <2> QED
    BY <2>1 DEF FrozenOK
<1>6. CASE EarlyWork
  <2>1. /\ UNCHANGED down
        /\ \/ UNCHANGED early_suspend_lock
           \/ early_suspend_lock' = {}
           \/ \E w \in EarlyWorkers \cup LateWorkers : early_suspend_lock' = {w}
    BY <1>6 DEF EarlyWork, ES!EarlyStart, ES!EarlyLock, ES!EarlyCall, ES!EarlyDone, ES!LateStart,
                ES!late_resume, ES!LateLock, ES!LateCall, ES!LateDone, core_vars
  <2> QED
    BY <2>1, ThreadsAssumption DEF FrozenOK
<1> QED
  BY <1>2, <1>3, <1>4, <1>5, <1>6 DEF Next

\* A sleeping system was past power_suspend_late, so the main lock is free;
\* early suspend says what that means.
LEMMA AsleepRequested ==
  ASSUME LockOK, MainOK, EarlyInv, SCP!IInv, SCP!AsleepWithoutLocks, RequestOK, FrozenOK
  PROVE  SleepsOnlyOnRequest
<1> SUFFICES ASSUME "asleep" \in down
             PROVE  /\ requested_suspend_state = "mem"
                    /\ state = ES!SUSPEND_REQUESTED_AND_SUSPENDED
                    /\ (\A v, w \in EarlyWorkers : v = w) => ES!Registered \subseteq off
  BY DEF SleepsOnlyOnRequest
<1>1. \A l \in Held : Context[l] = "nofreeze"
  BY DEF SCP!AsleepWithoutLocks
<1>2. main_wake_lock \in SuspendLocks /\ Context[main_wake_lock] = "user"
  BY LocksAssumption DEF Context
<1>3. link[main_wake_lock] # "active"
  BY <1>1, <1>2 DEF Held, MainOK
<1>4. state = ES!SUSPEND_REQUESTED_AND_SUSPENDED
  BY <1>3 DEF EarlyInv, ESP!IInv, ESP!MainHeldUnlessSuspended, ESP!SUSPEND_REQUESTED_AND_SUSPENDED,
     ESP!SUSPEND_REQUESTED, ESP!SUSPENDED, ES!SUSPEND_REQUESTED_AND_SUSPENDED, ES!SUSPEND_REQUESTED,
     ES!SUSPENDED
<1>5. requested_suspend_state = "mem"
  BY <1>4 DEF RequestOK, ES!SUSPEND_REQUESTED_AND_SUSPENDED
<1>6. ASSUME \A v, w \in EarlyWorkers : v = w PROVE ES!Registered \subseteq off
  <2>1. /\ level \in [Handlers -> Nat]
        /\ EarlyWorkers \cap LateWorkers = {} /\ ESP!Threads \cap Handlers = {}
        /\ (CHOOSE h \in Handlers : TRUE) \in Handlers
    BY HandlersAssumption, ThreadsAssumption DEF ESP!Threads
  <2>2. ESP!HandlersBeforeUnlock
    BY <2>1, ESP!InvHandlersBeforeUnlock DEF EarlyInv
  <2>3. \A h \in ES!Registered : h \in off \/ early_suspend_lock = {h}
    BY <1>3, <1>6, <2>2 DEF ESP!HandlersBeforeUnlock, ESP!Registered, ES!Registered
  <2>4. ES!Registered \subseteq Handlers
    BY DEF EarlyInv, ESP!IInv, ESP!TypeOK, ES!Registered
  <2>5. early_suspend_lock \cap Handlers = {}
    <3>1. Context \in [SuspendLocks -> SCP!Contexts]
      BY DEF Context, SCP!Contexts
    <3>2. "user" \in down
      BY <3>1, SCP!UserDownFirst
    <3> QED
      BY <3>2 DEF FrozenOK
  <2> QED
    BY <2>3, <2>4, <2>5
<1> QED
  BY <1>4, <1>5, <1>6

\* The system sleeps only when user space asked for it and every early
\* suspend handler was called, for any locks, handlers and number of CPUs.
THEOREM AsleepOnRequest == Spec => []SleepsOnlyOnRequest
<1>1. Init => RequestOK /\ FrozenOK
  BY DEF Init, ES!Init, RequestOK, FrozenOK
<1>2. LockOK /\ MainOK /\ RequestOK /\ [Next]_vars => RequestOK'
  BY StepsEarlySuspend, NextRequestOK
<1>3. FrozenOK /\ [Next]_vars => FrozenOK'
  BY NextFrozenOK
<1>4. SCP!IInv => SCP!AsleepWithoutLocks
  <2>1. Context \in [SuspendLocks -> SCP!Contexts]
    BY DEF Context, SCP!Contexts
  <2> QED
    BY <2>1, SCP!AsleepHolders
<1>5. LockOK /\ MainOK /\ EarlyInv /\ SCP!IInv /\ RequestOK /\ FrozenOK => SleepsOnlyOnRequest
  BY <1>4, AsleepRequested
<1> QED
  BY <1>1, <1>2, <1>3, <1>5, LocksTyped, MainNeverTimed, EarlyInvariance, CoreInvariance, PTL DEF Spec

=============================================================================
