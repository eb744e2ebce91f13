--------------------------- MODULE WakeLockProofs ---------------------------
(***************************************************************************)
(* Proofs about WakeLock for any set of locks, any number of workers and   *)
(* any timeouts.  The inductive invariant is the conjunction of TypeOK,    *)
(* ListMatchesFlags, TimerCovers and NoLostSuspend: NoLostSuspend needs    *)
(* TimerCovers in every step that expires or destroys the last lock        *)
(* without queueing the suspend work, and TimerCovers needs                *)
(* ListMatchesFlags where a lock is initialised or destroyed.              *)
(***************************************************************************)
EXTENDS WakeLockList, WellFoundedInduction, TLAPS

Inv == TypeOK /\ ListMatchesFlags /\ TimerCovers /\ NoLostSuspend

\* ListMatchesFlags of a lock table an operation has changed but not yet stored.
Matches(fl, ln) ==
  \A l \in Locks :
    /\ ln[l] = "active" <=> {INITIALIZED, ACTIVE} \subseteq fl[l]
    /\ ln[l] = "none" <=> INITIALIZED \notin fl[l]
    /\ AUTO_EXPIRE \in fl[l] => ACTIVE \in fl[l]

Table(fl, ln, ex) ==
  /\ fl \in [Locks -> SUBSET Flag]
  /\ ln \in [Locks -> {"none", "inactive", "active"}]
  /\ ex \in [Locks -> -1 .. MaxTimeout]

-----------------------------------------------------------------------------
\* A non-empty set of timeouts has a largest one, and Max picks it: what the
\* loop of has_wake_lock_locked keeps in max_timeout.
LEMMA MaxOfTimeouts ==
  ASSUME NEW S, S \subseteq 0 .. MaxTimeout, S # {}
  PROVE  Max(S) \in S /\ \A y \in S : y <= Max(S)
<1> DEFINE T == {MaxTimeout - x : x \in S}
<1>1. MaxTimeout \in Nat
  BY TimeoutAssumption
<1>2. T \subseteq Nat /\ T # {}
  <2>1. \A x \in S : x \in 0 .. MaxTimeout
    OBVIOUS
  <2>2. \A x \in S : MaxTimeout - x \in Nat
    BY <1>1, <2>1
  <2>3. PICK x \in S : TRUE
    OBVIOUS
  <2>4. MaxTimeout - x \in T
    BY <2>3
  <2> QED
    BY <2>2, <2>4
<1>3. PICK t \in T : \A u \in T : ~ (<<u, t>> \in OpToRel(<, Nat))
  <2> HIDE DEF T
  <2> QED
    BY <1>2, NatLessThanWellFounded, WFMin, Zenon
<1>4. \A u \in T : t <= u
  <2>1. SUFFICES ASSUME NEW u \in T PROVE t <= u
    OBVIOUS
  <2>2. u \in Nat /\ t \in Nat
    BY <1>2
  <2>3. ~ (u < t)
    <3> HIDE DEF T
    <3> QED
      BY <1>3, <2>2 DEF OpToRel
  <2> QED
    BY <2>2, <2>3
<1>5. PICK x \in S : t = MaxTimeout - x
  OBVIOUS
<1>6. \A y \in S : x >= y
  <2>1. SUFFICES ASSUME NEW y \in S PROVE x >= y
    OBVIOUS
  <2>2. t <= MaxTimeout - y
    BY <1>4
  <2> QED
    BY <1>1, <1>5, <2>2
<1>7. \E z \in S : \A y \in S : z >= y
  BY <1>6
<1>8. Max(S) \in S /\ \A y \in S : Max(S) >= y
  BY <1>7 DEF Max
<1> QED
  BY <1>1, <1>8

\* What has_wake_lock_locked returns, as wakelock.h promises it: -1 exactly
\* when a lock without timeout is active, otherwise a bound on the time every
\* active lock has left, which is 0 only if the walk has expired them all.
LEMMA HasWakeLockValue ==
  ASSUME NEW fl, NEW ln, NEW ex \in [Locks -> -1 .. MaxTimeout],
         NEW S \in SUBSET Locks
  PROVE  LET h == HasWakeLock(fl, ln, ex, S)
         IN  /\ h \in -1 .. MaxTimeout
             /\ h = -1 <=> Permanent(fl, ln, S) # {}
             /\ h # -1 => \A l \in Active(ln, S) : ex[l] <= h
             /\ h # -1 => (h = 0 <=> Active(ln, S) = Expired(fl, ln, ex, S))
<1> DEFINE h == HasWakeLock(fl, ln, ex, S)
           A == Active(ln, S)
           D == Expired(fl, ln, ex, S)
           V == {0} \cup {ex[l] : l \in A \ D}
<1>1. MaxTimeout \in Nat
  BY TimeoutAssumption
<1>2. CASE Permanent(fl, ln, S) # {}
  <2>1. h = -1
    BY <1>2 DEF HasWakeLock
  <2> QED
    BY <1>1, <1>2, <2>1
<1>3. CASE Permanent(fl, ln, S) = {}
  <2>1. h = Max(V)
    BY <1>3 DEF HasWakeLock
  <2>2. A \subseteq Locks /\ D = {l \in A : ex[l] <= 0}
    BY <1>3 DEF Active, Expired, Due
  <2>3. V \subseteq 0 .. MaxTimeout
    BY <1>1, <2>2
  <2>4. Max(V) \in V /\ \A y \in V : y <= Max(V)
    <3> HIDE DEF V
    <3>1. 0 \in V
      BY DEF V
    <3> QED
      BY <2>3, <3>1, MaxOfTimeouts
  <2>5. h \in 0 .. MaxTimeout
    BY <2>1, <2>3, <2>4
  <2>6. \A l \in A : ex[l] <= h
    <3>1. SUFFICES ASSUME NEW l \in A PROVE ex[l] <= h
      OBVIOUS
    <3>2. CASE l \in D
      BY <1>1, <2>2, <2>5, <3>2
    <3>3. CASE l \notin D
      BY <2>1, <2>4, <3>3
    <3> QED
      BY <3>2, <3>3
  <2>7. h = 0 => A = D
    BY <2>2, <2>6
  <2>8. A = D => h = 0
    BY <2>1, <2>4
  <2> HIDE DEF h, A, D
  <2> QED
    BY <1>1, <1>3, <2>5, <2>6, <2>7, <2>8 DEF h, A, D
<1> QED
  BY <1>2, <1>3

\* A walk only moves due locks with a timeout from an active list to the
\* inactive one.
LEMMA WalkTable ==
  ASSUME NEW fl, NEW ln, NEW ex, Table(fl, ln, ex), Matches(fl, ln),
         NEW S \in SUBSET Locks,
         Walk(fl, ln, ex, S)
  PROVE  /\ Table(flags', link', expires')
         /\ Matches(flags', link')
         /\ expires' = ex
         /\ \A T \in SUBSET Locks :
              /\ Active(link', T) = Active(ln, T) \ Expired(fl, ln, ex, S)
              /\ Permanent(flags', link', T) = Permanent(fl, ln, T)
<1> DEFINE D == Expired(fl, ln, ex, S)
<1>1. /\ flags' = [l \in Locks |-> IF l \in D THEN fl[l] \ {ACTIVE, AUTO_EXPIRE} ELSE fl[l]]
      /\ link' = [l \in Locks |-> IF l \in D THEN "inactive" ELSE ln[l]]
      /\ expires' = ex
  BY DEF Walk, ExpireFlags, ExpireLink
<1>2. \A l \in D : l \in Locks /\ ln[l] = "active" /\ AUTO_EXPIRE \in fl[l]
  BY DEF Expired, Due, Active, Permanent
<1> HIDE DEF D
<1>3. Table(flags', link', expires')
  BY <1>1 DEF Table
<1>4. Matches(flags', link')
  BY <1>1, <1>2 DEF Matches, Table, INITIALIZED, ACTIVE, AUTO_EXPIRE
<1>5. ASSUME NEW T \in SUBSET Locks
      PROVE  /\ Active(link', T) = Active(ln, T) \ D
             /\ Permanent(flags', link', T) = Permanent(fl, ln, T)
  <2>1. Active(link', T) = Active(ln, T) \ D
    BY <1>1 DEF Active
  <2>2. Permanent(flags', link', T) = Permanent(fl, ln, T)
    BY <1>1, <1>2, <2>1 DEF Permanent, Active
  <2> QED
    BY <2>1, <2>2
<1> QED
  BY <1>1, <1>3, <1>4, <1>5 DEF D

\* An operation that ends with a walk and re-arms the timer leaves
\* everything in order, whatever it did to the locks before.
LEMMA WalkAndRearm ==
  ASSUME TypeOK,
         NEW fl, NEW ln, NEW ex, Table(fl, ln, ex), Matches(fl, ln),
         Walk(fl, ln, ex, SuspendLocks),
         Rearm(HasWakeLock(fl, ln, ex, SuspendLocks))
  PROVE  /\ Table(flags', link', expires')
         /\ expire_timer' \in -1 .. MaxTimeout
         /\ suspend_work' \in BOOLEAN
         /\ ListMatchesFlags'
         /\ TimerCovers'
         /\ ActiveSuspend' = {} => suspend_work'
<1> DEFINE h == HasWakeLock(fl, ln, ex, SuspendLocks)
           A == Active(ln, SuspendLocks)
           D == Expired(fl, ln, ex, SuspendLocks)
<1>1. SuspendLocks \in SUBSET Locks
  BY LocksAssumption
<1>2. /\ Table(flags', link', expires')
      /\ Matches(flags', link')
      /\ expires' = ex
      /\ ActiveSuspend' = A \ D
      /\ PermanentSuspend' = Permanent(fl, ln, SuspendLocks)
  BY <1>1, WalkTable DEF ActiveSuspend, PermanentSuspend
<1>3. /\ h \in -1 .. MaxTimeout
      /\ h = -1 <=> Permanent(fl, ln, SuspendLocks) # {}
      /\ h # -1 => \A l \in A : ex[l] <= h
      /\ h # -1 => (h = 0 <=> A = D)
  BY <1>1, HasWakeLockValue DEF Table
<1>4. /\ expire_timer' = IF h > 0 THEN h ELSE -1
      /\ suspend_work' = (suspend_work \/ h = 0)
  BY DEF Rearm, NOT_PENDING
<1>5. h = -1 => A \ D # {}
  BY <1>3 DEF Permanent, Expired, Due
<1>6. MaxTimeout \in Nat
  BY TimeoutAssumption
<1> HIDE DEF h, A, D
<1>7. expire_timer' \in -1 .. MaxTimeout
  BY <1>3, <1>4, <1>6
<1>8. suspend_work' \in BOOLEAN
  BY <1>4 DEF TypeOK
<1>9. ListMatchesFlags'
  BY <1>2 DEF ListMatchesFlags, Matches
<1>10. TimerCovers'
  <2>1. SUFFICES ASSUME A \ D # {}, Permanent(fl, ln, SuspendLocks) = {}
                 PROVE  expire_timer' >= 0 /\ \A l \in A \ D : expires'[l] <= expire_timer'
    BY <1>2 DEF TimerCovers
  <2>2. h > 0
    BY <1>3, <1>6, <2>1
  <2> QED
    BY <1>2, <1>3, <1>4, <1>6, <2>2
<1>11. ASSUME A \ D = {} PROVE suspend_work'
  <2>1. h # -1
    BY <1>5, <1>11
  <2>2. A = D
    BY <1>11 DEF A, D, Expired, Due
  <2> QED
    BY <1>3, <1>4, <2>1, <2>2
<1> QED
  BY <1>2, <1>7, <1>8, <1>9, <1>10, <1>11

\* A walk by has_wake_lock, which leaves the timer alone, keeps TimerCovers;
\* if it expires the last suspend lock, the timer is still to come.
LEMMA WalkKeepsTimer ==
  ASSUME Inv, NEW S \in {SuspendLocks, Locks \ SuspendLocks},
         Walk(flags, link, expires, S), UNCHANGED timer_vars
  PROVE  /\ Table(flags', link', expires')
         /\ ListMatchesFlags'
         /\ TimerCovers'
         /\ ActiveSuspend' = {} =>
              ActiveSuspend = {} \/ expire_timer >= 0 \/ timer_running
         /\ ActiveSuspend' = ActiveSuspend \ Expired(flags, link, expires, S)
<1>1. SuspendLocks \in SUBSET Locks /\ S \in SUBSET Locks
  BY LocksAssumption
<1>2. Table(flags, link, expires) /\ Matches(flags, link)
  BY DEF Inv, TypeOK, ListMatchesFlags, Table, Matches
<1>3. /\ Table(flags', link', expires')
      /\ Matches(flags', link')
      /\ expires' = expires
      /\ ActiveSuspend' = ActiveSuspend \ Expired(flags, link, expires, S)
      /\ PermanentSuspend' = PermanentSuspend
  BY <1>1, <1>2, WalkTable DEF ActiveSuspend, PermanentSuspend
<1>4. PermanentSuspend \cap Expired(flags, link, expires, S) = {}
  BY DEF PermanentSuspend, Permanent, Active, Expired, Due
<1>5. PermanentSuspend \subseteq ActiveSuspend
  BY DEF PermanentSuspend, Permanent, ActiveSuspend
<1>6. ListMatchesFlags'
  BY <1>3 DEF ListMatchesFlags, Matches
<1>7. TimerCovers'
  BY <1>3 DEF TimerCovers, Inv, timer_vars
<1>8. ActiveSuspend' = {} =>
        ActiveSuspend = {} \/ expire_timer >= 0 \/ timer_running
  BY <1>3, <1>4, <1>5 DEF Inv, TimerCovers
<1> QED
  BY <1>3, <1>6, <1>7, <1>8

\* Steps that change neither the locks nor the timer keep three parts of Inv.
LEMMA LocksUnchanged ==
  ASSUME Inv, UNCHANGED <<lock_vars, timer_vars>>
  PROVE  /\ Table(flags', link', expires')
         /\ ListMatchesFlags'
         /\ TimerCovers'
         /\ ActiveSuspend' = ActiveSuspend
  BY DEF Inv, TypeOK, Table, ListMatchesFlags, TimerCovers, ActiveSuspend,
         PermanentSuspend, Active, Permanent, lock_vars, timer_vars

\* wake_lock_internal with a timeout, whoever calls it.
LEMMA LockTimeoutStep ==
  ASSUME Inv, NEW l \in Locks, NEW t \in 0 .. MaxTimeout,
         LockTimeout(l, t), UNCHANGED timer_running
  PROVE  /\ Table(flags', link', expires')
         /\ expire_timer' \in -1 .. MaxTimeout
         /\ suspend_work' \in BOOLEAN
         /\ new_event' \in [Workers -> BOOLEAN]
         /\ ListMatchesFlags'
         /\ TimerCovers'
         /\ l \in SuspendLocks => (ActiveSuspend' = {} => suspend_work')
         /\ l \notin SuspendLocks =>
              /\ ActiveSuspend' = ActiveSuspend
              /\ UNCHANGED <<expire_timer, suspend_work, new_event>>
<1> DEFINE fl == [flags EXCEPT ![l] = @ \cup {ACTIVE, AUTO_EXPIRE}]
           ln == [link EXCEPT ![l] = "active"]
           ex == [expires EXCEPT ![l] = t]
<1>1. Table(fl, ln, ex) /\ Matches(fl, ln)
  <2>1. MaxTimeout \in Nat /\ t \in -1 .. MaxTimeout
    BY TimeoutAssumption
  <2>2. Table(fl, ln, ex)
    BY <2>1 DEF Inv, TypeOK, Table, Flag
  <2>3. INITIALIZED \in flags[l]
    BY DEF LockTimeout
  <2>4. Matches(fl, ln)
    BY <2>3 DEF Inv, TypeOK, ListMatchesFlags, Matches, INITIALIZED, ACTIVE, AUTO_EXPIRE
  <2> QED
    BY <2>2, <2>4
<1>2. new_event' \in [Workers -> BOOLEAN]
  BY DEF LockTimeout, Event, Inv, TypeOK
<1>3. CASE l \in SuspendLocks
  <2>1. /\ Walk(fl, ln, ex, SuspendLocks)
        /\ Rearm(HasWakeLock(fl, ln, ex, SuspendLocks))
    BY <1>3 DEF LockTimeout
  <2> HIDE DEF fl, ln, ex
  <2> QED
    BY <1>1, <1>2, <1>3, <2>1, WalkAndRearm DEF Inv
<1>4. CASE l \notin SuspendLocks
  <2>1. /\ flags' = fl /\ link' = ln /\ expires' = ex
        /\ UNCHANGED <<expire_timer, suspend_work, new_event>>
    BY <1>4 DEF LockTimeout, Event
  <2>2. /\ ActiveSuspend' = ActiveSuspend
        /\ PermanentSuspend' = PermanentSuspend
        /\ \A k \in ActiveSuspend : expires'[k] = expires[k]
    BY <1>4, <2>1, LocksAssumption
    DEF ActiveSuspend, PermanentSuspend, Active, Permanent, Inv, TypeOK
  <2>3. TimerCovers'
    BY <2>1, <2>2 DEF Inv, TimerCovers
  <2>4. ListMatchesFlags'
    BY <1>1, <2>1 DEF ListMatchesFlags, Matches
  <2> HIDE DEF fl, ln, ex
  <2>5. Table(flags', link', expires')
    BY <1>1, <2>1
  <2> QED
    BY <1>2, <1>4, <2>1, <2>2, <2>3, <2>4, <2>5 DEF Inv, TypeOK
<1> QED
  BY <1>3, <1>4

\* Inv' from its parts: the typed variables, and for NoLostSuspend what is
\* there to start the next attempt.
LEMMA InvFromParts ==
  ASSUME Table(flags', link', expires'),
         expire_timer' \in -1 .. MaxTimeout,
         timer_running' \in BOOLEAN,
         suspend_work' \in BOOLEAN,
         pc' \in [Workers -> Label],
         new_event' \in [Workers -> BOOLEAN],
         suspend_short_count' \in 0 .. 2 ^ CountWidth - 1,
         ListMatchesFlags', TimerCovers', NoLostSuspend'
  PROVE  Inv'
  BY DEF Inv, TypeOK, Table

-----------------------------------------------------------------------------
(* One lemma for each group of actions. *)

\* The initial state of wakelocks_init.
LEMMA InitInv == Init => Inv
<1> SUFFICES ASSUME Init PROVE Inv
  OBVIOUS
<1>1. MaxTimeout \in Nat /\ 2 ^ CountWidth \in Nat \ {0}
  BY TimeoutAssumption, CountAssumption
<1>2. \A l \in Locks :
        /\ flags[l] = IF l = main_wake_lock THEN {INITIALIZED, ACTIVE}
                      ELSE IF l \in KernelLocks THEN {INITIALIZED} ELSE {}
        /\ link[l] = IF l = main_wake_lock THEN "active"
                     ELSE IF l \in KernelLocks THEN "inactive" ELSE "none"
  BY DEF Init
<1>3. flags \in [Locks -> SUBSET Flag]
  BY <1>2 DEF Init, Flag
<1>4. link \in [Locks -> {"none", "inactive", "active"}]
  BY <1>2 DEF Init
<1>5. TypeOK
  <2>1. 0 \in 0 .. 2 ^ CountWidth - 1
    BY <1>1
  <2>2. expires \in [Locks -> -1 .. MaxTimeout] /\ expire_timer \in -1 .. MaxTimeout
    BY <1>1 DEF Init, LONG_MAX, NOT_PENDING
  <2>3. /\ timer_running \in BOOLEAN
        /\ suspend_work \in BOOLEAN
        /\ pc \in [Workers -> Label]
        /\ new_event \in [Workers -> BOOLEAN]
    BY DEF Init, Label
  <2>4. suspend_short_count = 0
    BY DEF Init
  <2> QED
    BY <1>3, <1>4, <2>1, <2>2, <2>3, <2>4 DEF TypeOK
<1>6. ListMatchesFlags
  BY <1>2 DEF ListMatchesFlags, INITIALIZED, ACTIVE, AUTO_EXPIRE, KernelLocks
<1>7. main_wake_lock \in PermanentSuspend
  BY <1>2, LocksAssumption
  DEF PermanentSuspend, Permanent, Active, KernelLocks, INITIALIZED, ACTIVE, AUTO_EXPIRE
<1>8. TimerCovers /\ NoLostSuspend
  BY <1>7 DEF TimerCovers, NoLostSuspend, ActiveSuspend, PermanentSuspend, Permanent
<1> QED
  BY <1>5, <1>6, <1>8 DEF Inv

\* wake_lock_init links a lock that was on no list.
LEMMA InitStep ==
  ASSUME Inv, NEW l \in Locks, wake_lock_init(l)
  PROVE  Inv'
<1> USE DEF Inv
<1>1. /\ flags' = [flags EXCEPT ![l] = {INITIALIZED}]
      /\ link' = [link EXCEPT ![l] = "inactive"]
      /\ INITIALIZED \notin flags[l]
      /\ UNCHANGED <<expires, timer_vars, suspend_work, worker_vars, new_event>>
  BY DEF wake_lock_init
<1>2. link[l] = "none"
  BY <1>1 DEF ListMatchesFlags
<1>3. TypeOK'
  BY <1>1 DEF TypeOK, Flag, timer_vars, worker_vars
<1>4. ListMatchesFlags'
  BY <1>1 DEF TypeOK, ListMatchesFlags, INITIALIZED, ACTIVE, AUTO_EXPIRE
<1>5. ActiveSuspend' = ActiveSuspend
  BY <1>1, <1>2, LocksAssumption DEF ActiveSuspend, Active, TypeOK
<1>6. PermanentSuspend' = PermanentSuspend
  BY <1>1, <1>2, <1>5, LocksAssumption
  DEF PermanentSuspend, Permanent, ActiveSuspend, Active, TypeOK
<1>7. TimerCovers'
  BY <1>1, <1>5, <1>6 DEF TimerCovers, timer_vars
<1>8. NoLostSuspend'
  BY <1>1, <1>5 DEF NoLostSuspend, WillRetry, timer_vars, worker_vars
<1> QED
  BY <1>3, <1>4, <1>7, <1>8

\* wake_lock_destroy of a lock that is not held without a timeout: if it was
\* the last active lock, the timer is still to come.
LEMMA DestroyStep ==
  ASSUME Inv, NEW l \in Locks, l \notin Permanent(flags, link, Locks),
         wake_lock_destroy(l)
  PROVE  Inv'
<1> USE DEF Inv
<1>1. /\ flags' = [flags EXCEPT ![l] = @ \ {INITIALIZED}]
      /\ link' = [link EXCEPT ![l] = "none"]
      /\ UNCHANGED <<expires, timer_vars, suspend_work, worker_vars, new_event>>
  BY DEF wake_lock_destroy
<1>2. TypeOK'
  BY <1>1 DEF TypeOK, timer_vars, worker_vars
<1>3. ListMatchesFlags'
  BY <1>1 DEF TypeOK, ListMatchesFlags, INITIALIZED, ACTIVE, AUTO_EXPIRE
<1>4. ActiveSuspend' = ActiveSuspend \ {l}
  BY <1>1, LocksAssumption DEF ActiveSuspend, Active, TypeOK
<1>5. PermanentSuspend' = PermanentSuspend
  BY <1>1, LocksAssumption
  DEF PermanentSuspend, Permanent, Active, TypeOK, AUTO_EXPIRE, INITIALIZED
<1>6. TimerCovers'
  BY <1>1, <1>4, <1>5 DEF TimerCovers, timer_vars
<1>7. ActiveSuspend' = {} => ActiveSuspend = {} \/ expire_timer >= 0 \/ timer_running
  <2>1. SUFFICES ASSUME ActiveSuspend' = {}, ActiveSuspend # {}
                 PROVE  expire_timer >= 0 \/ timer_running
    OBVIOUS
  <2>2. PermanentSuspend = {}
    BY <1>4, <1>5, <2>1, LocksAssumption
    DEF PermanentSuspend, Permanent, ActiveSuspend, Active
  <2> QED
    BY <2>1, <2>2 DEF TimerCovers
<1>8. NoLostSuspend'
  BY <1>1, <1>7 DEF NoLostSuspend, WillRetry, timer_vars, worker_vars
<1> QED
  BY <1>2, <1>3, <1>6, <1>8

\* wake_lock: the lock is now active without a timeout, so the timer may be
\* stopped and no attempt needs to be under way.
LEMMA LockStep ==
  ASSUME Inv, NEW l \in Locks, wake_lock(l)
  PROVE  Inv'
<1> USE DEF Inv
<1>1. /\ INITIALIZED \in flags[l]
      /\ flags' = [flags EXCEPT ![l] = (@ \cup {ACTIVE}) \ {AUTO_EXPIRE}]
      /\ link' = [link EXCEPT ![l] = "active"]
      /\ expires' = [expires EXCEPT ![l] = -1]
      /\ UNCHANGED <<timer_running, worker_vars>>
  BY DEF wake_lock, LONG_MAX
<1>2. /\ l \in SuspendLocks => expire_timer' = -1 /\ suspend_work' = suspend_work
      /\ l \notin SuspendLocks => UNCHANGED <<expire_timer, suspend_work, new_event>>
  BY DEF wake_lock, Rearm, NOT_PENDING, TypeOK, Event
<1>3. MaxTimeout \in Nat
  BY TimeoutAssumption
<1>4. TypeOK'
  <2>1. new_event' \in [Workers -> BOOLEAN]
    BY DEF wake_lock, Event, TypeOK
  <2>2. expire_timer' \in -1 .. MaxTimeout /\ suspend_work' \in BOOLEAN
    BY <1>2, <1>3 DEF TypeOK
  <2>3. flags' \in [Locks -> SUBSET Flag] /\ link' \in [Locks -> {"none", "inactive", "active"}]
    BY <1>1 DEF TypeOK, Flag
  <2>4. expires' \in [Locks -> -1 .. MaxTimeout]
    BY <1>1, <1>3 DEF TypeOK
  <2> QED
    BY <1>1, <2>1, <2>2, <2>3, <2>4 DEF TypeOK, worker_vars
<1>5. ListMatchesFlags'
  BY <1>1 DEF TypeOK, ListMatchesFlags, INITIALIZED, ACTIVE, AUTO_EXPIRE
<1>6. CASE l \in SuspendLocks
  <2>1. l \in PermanentSuspend'
    BY <1>1, <1>6 DEF PermanentSuspend, Permanent, Active, TypeOK, ACTIVE, AUTO_EXPIRE
  <2>2. TimerCovers' /\ NoLostSuspend'
    BY <2>1 DEF TimerCovers, NoLostSuspend, ActiveSuspend, PermanentSuspend, Permanent
  <2> QED
    BY <1>4, <1>5, <2>2
<1>7. CASE l \notin SuspendLocks
  <2>1. /\ ActiveSuspend' = ActiveSuspend
        /\ PermanentSuspend' = PermanentSuspend
        /\ \A k \in ActiveSuspend : expires'[k] = expires[k]
    BY <1>1, <1>7, LocksAssumption
    DEF ActiveSuspend, PermanentSuspend, Active, Permanent, TypeOK
  <2>2. TimerCovers'
    BY <1>1, <1>2, <1>7, <2>1 DEF TimerCovers
  <2>3. NoLostSuspend'
    BY <1>1, <1>2, <1>7, <2>1 DEF NoLostSuspend, WillRetry, worker_vars
  <2> QED
    BY <1>4, <1>5, <2>2, <2>3
<1> QED
  BY <1>6, <1>7

\* wake_unlock: the timer is armed for what is left, or the work is queued.
LEMMA UnlockStep ==
  ASSUME Inv, NEW l \in Locks, wake_unlock(l)
  PROVE  Inv'
<1> DEFINE fl == [flags EXCEPT ![l] = @ \ {ACTIVE, AUTO_EXPIRE}]
           ln == [link EXCEPT ![l] = "inactive"]
<1>1. Table(fl, ln, expires) /\ Matches(fl, ln)
  <2>1. Table(fl, ln, expires)
    BY DEF Inv, TypeOK, Table
  <2>2. Matches(fl, ln)
    BY DEF Inv, TypeOK, ListMatchesFlags, Matches, INITIALIZED, ACTIVE, AUTO_EXPIRE, wake_unlock
  <2> QED
    BY <2>1, <2>2
<1>2. UNCHANGED <<timer_running, worker_vars, new_event>>
  BY DEF wake_unlock
<1>3. /\ timer_running' \in BOOLEAN
      /\ pc' \in [Workers -> Label]
      /\ new_event' \in [Workers -> BOOLEAN]
      /\ suspend_short_count' \in 0 .. 2 ^ CountWidth - 1
  BY <1>2 DEF Inv, TypeOK, worker_vars
<1>4. CASE l \in SuspendLocks
  <2>1. /\ Walk(fl, ln, expires, SuspendLocks)
        /\ Rearm(HasWakeLock(fl, ln, expires, SuspendLocks))
    BY <1>4 DEF wake_unlock
  <2> HIDE DEF fl, ln
  <2>2. /\ Table(flags', link', expires')
        /\ expire_timer' \in -1 .. MaxTimeout
        /\ suspend_work' \in BOOLEAN
        /\ ListMatchesFlags'
        /\ TimerCovers'
        /\ ActiveSuspend' = {} => suspend_work'
    BY <1>1, <2>1, WalkAndRearm DEF Inv
  <2>3. NoLostSuspend'
    BY <2>2 DEF NoLostSuspend
  <2> QED
    BY <1>3, <2>2, <2>3, InvFromParts
<1>5. CASE l \notin SuspendLocks
  <2>1. /\ flags' = fl /\ link' = ln
        /\ UNCHANGED <<expires, expire_timer, suspend_work>>
    BY <1>5 DEF wake_unlock
  <2>2. ActiveSuspend' = ActiveSuspend /\ PermanentSuspend' = PermanentSuspend
    BY <1>5, <2>1, LocksAssumption
    DEF ActiveSuspend, PermanentSuspend, Active, Permanent, Inv, TypeOK
  <2>3. TimerCovers'
    BY <1>2, <2>1, <2>2 DEF Inv, TimerCovers
  <2>4. NoLostSuspend'
    BY <1>2, <2>1, <2>2 DEF Inv, NoLostSuspend, WillRetry, worker_vars
  <2>5. ListMatchesFlags'
    BY <1>1, <2>1 DEF ListMatchesFlags, Matches
  <2> HIDE DEF fl, ln
  <2>6. Table(flags', link', expires')
    BY <1>1, <2>1
  <2>7. expire_timer' \in -1 .. MaxTimeout /\ suspend_work' \in BOOLEAN
    BY <2>1 DEF Inv, TypeOK
  <2> QED
    BY <1>3, <2>3, <2>4, <2>5, <2>6, <2>7, InvFromParts
<1> QED
  BY <1>4, <1>5

\* wake_lock_timeout by a client, and by a worker that moves on: the workers
\* stay typed, and the locks are as LockTimeoutStep says.
LEMMA TimeoutStep ==
  ASSUME Inv, NEW l \in Locks, NEW t \in 0 .. MaxTimeout,
         LockTimeout(l, t), UNCHANGED <<timer_running, suspend_short_count>>,
         pc' \in [Workers -> Label],
         l \in SuspendLocks \/ UNCHANGED pc
  PROVE  Inv'
<1>1. /\ Table(flags', link', expires')
      /\ expire_timer' \in -1 .. MaxTimeout
      /\ suspend_work' \in BOOLEAN
      /\ new_event' \in [Workers -> BOOLEAN]
      /\ ListMatchesFlags'
      /\ TimerCovers'
      /\ l \in SuspendLocks => (ActiveSuspend' = {} => suspend_work')
      /\ l \notin SuspendLocks =>
           /\ ActiveSuspend' = ActiveSuspend
           /\ UNCHANGED <<expire_timer, suspend_work, new_event>>
  BY LockTimeoutStep
<1>2. NoLostSuspend'
  <2>1. CASE l \in SuspendLocks
    BY <1>1, <2>1 DEF NoLostSuspend
  <2>2. CASE l \notin SuspendLocks
    BY <1>1, <2>2 DEF Inv, NoLostSuspend, WillRetry
  <2> QED
    BY <2>1, <2>2
<1>3. timer_running' \in BOOLEAN /\ suspend_short_count' \in 0 .. 2 ^ CountWidth - 1
  BY DEF Inv, TypeOK
<1> QED
  BY <1>1, <1>2, <1>3, InvFromParts

\* A step that keeps the typed variables it does not mention.
LEMMA HasStep ==
  ASSUME Inv, NEW S \in {SuspendLocks, Locks \ SuspendLocks}, has_wake_lock(S)
  PROVE  Inv'
<1>1. /\ Walk(flags, link, expires, S)
      /\ UNCHANGED <<timer_vars, suspend_work, worker_vars, new_event>>
  BY DEF has_wake_lock
<1>2. /\ Table(flags', link', expires')
      /\ ListMatchesFlags'
      /\ TimerCovers'
      /\ ActiveSuspend' = {} => ActiveSuspend = {} \/ expire_timer >= 0 \/ timer_running
  BY <1>1, WalkKeepsTimer
<1>3. NoLostSuspend'
  BY <1>1, <1>2 DEF Inv, NoLostSuspend, WillRetry, timer_vars, worker_vars
<1>4. /\ expire_timer' \in -1 .. MaxTimeout
      /\ timer_running' \in BOOLEAN
      /\ suspend_work' \in BOOLEAN
      /\ pc' \in [Workers -> Label]
      /\ new_event' \in [Workers -> BOOLEAN]
      /\ suspend_short_count' \in 0 .. 2 ^ CountWidth - 1
  BY <1>1 DEF Inv, TypeOK, timer_vars, worker_vars
<1> QED
  BY <1>2, <1>3, <1>4, InvFromParts

\* The clock counts every expiry and the timer down together.
LEMMA TickStep ==
  ASSUME Inv, Tick
  PROVE  Inv'
<1> USE DEF Inv
<1>1. /\ expires' = [l \in Locks |-> CountDown(expires[l])]
      /\ expire_timer' = CountDown(expire_timer)
      /\ UNCHANGED <<flags, link, timer_running, suspend_work, worker_vars, new_event>>
  BY DEF Tick
<1>2. MaxTimeout \in Nat
  BY TimeoutAssumption
<1>3. \A n \in -1 .. MaxTimeout : CountDown(n) \in -1 .. MaxTimeout
  BY <1>2 DEF CountDown
<1>4. TypeOK'
  BY <1>1, <1>3 DEF TypeOK, worker_vars
<1>5. ListMatchesFlags'
  BY <1>1 DEF ListMatchesFlags
<1>6. ActiveSuspend' = ActiveSuspend /\ PermanentSuspend' = PermanentSuspend
  BY <1>1 DEF ActiveSuspend, PermanentSuspend, Active, Permanent
<1>7. \A m, n \in -1 .. MaxTimeout :
        /\ m <= n /\ n >= 0 => CountDown(m) <= CountDown(n)
        /\ n >= 0 => CountDown(n) >= 0
        /\ m <= 0 => CountDown(m) <= 0
  BY <1>2 DEF CountDown
<1>8. \A l \in ActiveSuspend : l \in Locks
  BY LocksAssumption DEF ActiveSuspend, Active
<1>9. TimerCovers'
  BY <1>1, <1>6, <1>7, <1>8 DEF TypeOK, TimerCovers
<1>10. NoLostSuspend'
  BY <1>1, <1>6, <1>7 DEF TypeOK, NoLostSuspend, WillRetry, worker_vars
<1> QED
  BY <1>4, <1>5, <1>9, <1>10

\* A due timer is detached: every timeout it covered is over.
LEMMA TimerFiresStep ==
  ASSUME Inv, TimerFires
  PROVE  Inv'
<1> USE DEF Inv
<1>1. /\ expire_timer = 0 /\ expire_timer' = -1 /\ timer_running'
      /\ UNCHANGED <<lock_vars, suspend_work, worker_vars, new_event>>
  BY DEF TimerFires, NOT_PENDING
<1>2. TypeOK'
  <2>1. -1 \in -1 .. MaxTimeout
    BY TimeoutAssumption
  <2>2. timer_running' \in BOOLEAN
    BY DEF TimerFires
  <2> QED
    BY <1>1, <2>1, <2>2 DEF TypeOK, lock_vars, worker_vars
<1>3. ListMatchesFlags'
  BY <1>1 DEF ListMatchesFlags, lock_vars
<1>4. TimerCovers'
  BY <1>1 DEF TimerCovers, ActiveSuspend, PermanentSuspend, Active, Permanent, lock_vars
<1>5. NoLostSuspend'
  BY <1>1 DEF NoLostSuspend
<1> QED
  BY <1>2, <1>3, <1>4, <1>5

\* expire_wake_locks does not re-arm the timer, and need not.
LEMMA ExpireStep ==
  ASSUME Inv, expire_wake_locks
  PROVE  Inv'
<1> DEFINE h == HasWakeLock(flags, link, expires, SuspendLocks)
           D == Expired(flags, link, expires, SuspendLocks)
<1>1. /\ timer_running /\ ~timer_running' /\ timer_running' \in BOOLEAN
      /\ Walk(flags, link, expires, SuspendLocks)
      /\ suspend_work' = (suspend_work \/ h = 0)
      /\ UNCHANGED <<expire_timer, worker_vars, new_event>>
  BY DEF expire_wake_locks
<1>2. SuspendLocks \in SUBSET Locks
  BY LocksAssumption
<1>3. Table(flags, link, expires) /\ Matches(flags, link)
  BY DEF Inv, TypeOK, ListMatchesFlags, Table, Matches
<1>4. /\ Table(flags', link', expires')
      /\ Matches(flags', link')
      /\ expires' = expires
      /\ ActiveSuspend' = ActiveSuspend \ D
      /\ PermanentSuspend' = PermanentSuspend
  BY <1>1, <1>2, <1>3, WalkTable DEF ActiveSuspend, PermanentSuspend
<1>5. /\ h = -1 <=> PermanentSuspend # {}
      /\ h # -1 => (h = 0 <=> ActiveSuspend = D)
  BY <1>2, <1>3, HasWakeLockValue DEF Table, ActiveSuspend, PermanentSuspend
<1>6. /\ D \subseteq ActiveSuspend
      /\ PermanentSuspend \subseteq ActiveSuspend \ D
      /\ PermanentSuspend = {} => D = {l \in ActiveSuspend : expires[l] <= 0}
  BY DEF Expired, Due, ActiveSuspend, PermanentSuspend, Permanent
<1> HIDE DEF h, D
<1>7. TimerCovers'
  BY <1>1, <1>4, <1>6 DEF Inv, TimerCovers
<1>8. NoLostSuspend'
  <2>1. SUFFICES ASSUME ActiveSuspend' = {} PROVE suspend_work'
    BY DEF NoLostSuspend
  <2>2. h = 0
    BY <1>4, <1>5, <1>6, <2>1
  <2> QED
    BY <1>1, <2>2
<1>9. ListMatchesFlags'
  BY <1>4 DEF ListMatchesFlags, Matches
<1>10. /\ expire_timer' \in -1 .. MaxTimeout
       /\ suspend_work' \in BOOLEAN
       /\ pc' \in [Workers -> Label]
       /\ new_event' \in [Workers -> BOOLEAN]
       /\ suspend_short_count' \in 0 .. 2 ^ CountWidth - 1
  BY <1>1 DEF Inv, TypeOK, worker_vars
<1> QED
  BY <1>1, <1>4, <1>7, <1>8, <1>9, <1>10, InvFromParts

\* A worker's step that touches neither the locks nor the timer, and after
\* which an attempt is still to come if one was before.
LEMMA WorkerOnlyStep ==
  ASSUME Inv, UNCHANGED <<lock_vars, timer_vars>>,
         suspend_work' \in BOOLEAN,
         pc' \in [Workers -> Label],
         new_event' \in [Workers -> BOOLEAN],
         suspend_short_count' \in 0 .. 2 ^ CountWidth - 1,
         suspend_work \/ (\E v \in Workers : WillRetry(v)) =>
           suspend_work' \/ (\E v \in Workers : WillRetry(v)')
  PROVE  Inv'
<1>1. /\ Table(flags', link', expires')
      /\ ListMatchesFlags'
      /\ TimerCovers'
      /\ ActiveSuspend' = ActiveSuspend
  BY LocksUnchanged
<1>2. NoLostSuspend'
  BY <1>1 DEF Inv, NoLostSuspend, timer_vars
<1>3. expire_timer' \in -1 .. MaxTimeout /\ timer_running' \in BOOLEAN
  BY DEF Inv, TypeOK, timer_vars
<1> QED
  BY <1>1, <1>2, <1>3, InvFromParts

\* Every step of suspend() on some CPU.
LEMMA WorkerStep ==
  ASSUME Inv, NEW w \in Workers, SuspendStart(w) \/ suspend(w)
  PROVE  Inv'
<1>1. ASSUME NEW from, NEW to \in Label, Goto(w, from, to)
      PROVE  /\ pc' \in [Workers -> Label]
             /\ pc[w] = from /\ pc'[w] = to
             /\ \A v \in Workers \ {w} : pc'[v] = pc[v]
  BY <1>1 DEF Goto, Inv, TypeOK
<1>2. CASE SuspendStart(w)
  <2>1. Goto(w, "idle", "has_wake_lock") /\ "has_wake_lock" \in Label
    BY <1>2 DEF SuspendStart, Label
  <2>2. WillRetry(w)'
    BY <1>1, <2>1 DEF WillRetry
  <2> QED
    BY <1>1, <1>2, <2>1, <2>2, WorkerOnlyStep DEF SuspendStart, Inv, TypeOK
<1>3. CASE SuspendCheck(w)
  <2>1. /\ Walk(flags, link, expires, SuspendLocks)
        /\ UNCHANGED <<timer_vars, suspend_work, new_event, suspend_short_count>>
    BY <1>3 DEF SuspendCheck
  <2>2. /\ Table(flags', link', expires')
        /\ ListMatchesFlags'
        /\ TimerCovers'
        /\ ActiveSuspend' = ActiveSuspend \ Expired(flags, link, expires, SuspendLocks)
    BY <2>1, WalkKeepsTimer
  <2>3. "idle" \in Label /\ "entry" \in Label
    BY DEF Label
  <2>4. pc' \in [Workers -> Label]
    BY <1>1, <1>3, <2>3 DEF SuspendCheck
  <2>5. NoLostSuspend'
    <3>1. CASE HasWakeLock(flags, link, expires, SuspendLocks) = 0
      <4>1. pc'[w] = "entry"
        BY <1>1, <1>3, <2>3, <3>1 DEF SuspendCheck
      <4> QED
        BY <4>1 DEF NoLostSuspend, WillRetry
    <3>2. CASE HasWakeLock(flags, link, expires, SuspendLocks) # 0
      <4>1. ActiveSuspend' # {}
        <5>1. SuspendLocks \in SUBSET Locks /\ expires \in [Locks -> -1 .. MaxTimeout]
          BY LocksAssumption DEF Inv, TypeOK
        <5>2. \/ PermanentSuspend # {}
              \/ ActiveSuspend # Expired(flags, link, expires, SuspendLocks)
          BY <3>2, <5>1, HasWakeLockValue DEF ActiveSuspend, PermanentSuspend
        <5>3. /\ Expired(flags, link, expires, SuspendLocks) \subseteq ActiveSuspend
              /\ PermanentSuspend \subseteq
                   ActiveSuspend \ Expired(flags, link, expires, SuspendLocks)
          BY DEF Expired, Due, ActiveSuspend, PermanentSuspend, Permanent
        <5> QED
          BY <2>2, <5>2, <5>3
      <4> QED
        BY <4>1 DEF NoLostSuspend
    <3> QED
      BY <3>1, <3>2
  <2> QED
    BY <2>1, <2>2, <2>4, <2>5, InvFromParts DEF Inv, TypeOK, timer_vars
<1>4. CASE SuspendEntry(w)
  <2>1. Goto(w, "entry", "pm_suspend") /\ "pm_suspend" \in Label
    BY <1>4 DEF SuspendEntry, Label
  <2>2. new_event' \in [Workers -> BOOLEAN] /\ ~new_event'[w]
    BY <1>4 DEF SuspendEntry, Inv, TypeOK
  <2>3. WillRetry(w)'
    BY <1>1, <2>1, <2>2 DEF WillRetry
  <2> QED
    BY <1>1, <1>4, <2>1, <2>2, <2>3, WorkerOnlyStep DEF SuspendEntry, Inv, TypeOK
<1>5. ASSUME NEW from \in {"pm_suspend", "count", "compare", "backoff", "reset", "event"},
             NEW to \in {"count", "compare", "backoff", "reset", "event", "unknown"},
             Goto(w, from, to),
             UNCHANGED <<lock_vars, timer_vars, suspend_work, new_event>>,
             suspend_short_count' \in 0 .. 2 ^ CountWidth - 1
      PROVE  Inv'
  <2>1. to \in Label /\ from \in Label
    BY DEF Label
  <2>2. \A v \in Workers : WillRetry(v) => WillRetry(v)'
    BY <1>1, <1>5, <2>1 DEF WillRetry
  <2> QED
    BY <1>1, <1>5, <2>1, <2>2, WorkerOnlyStep DEF Inv, TypeOK
<1>6. CASE SuspendReturn(w)
  <2>1. 0 \in 0 .. 2 ^ CountWidth - 1
    BY CountAssumption
  <2> QED
    BY <1>5, <1>6, <2>1 DEF SuspendReturn, Inv, TypeOK
<1>7. CASE SuspendCount(w)
  <2>1. suspend_short_count' \in 0 .. 2 ^ CountWidth - 1
    <3> DEFINE K == 2 ^ CountWidth
    <3>1. K \in Nat \ {0} /\ suspend_short_count \in 0 .. K - 1
      BY CountAssumption DEF Inv, TypeOK
    <3>2. PICK n \in Loaded(w) : suspend_short_count' = (n + 1) % K
      BY <1>7 DEF SuspendCount
    <3>4. n \in 0 .. K - 1
      BY <3>1, <3>2 DEF Loaded
    <3> HIDE DEF K
    <3>3. suspend_short_count' \in 0 .. K - 1
      BY <3>1, <3>2, <3>4
    <3> QED
      BY <3>3 DEF K
  <2> QED
    BY <1>5, <1>7, <2>1 DEF SuspendCount
<1>12. CASE SuspendCompare(w)
  BY <1>5, <1>12 DEF SuspendCompare, Inv, TypeOK
<1>8. CASE suspend_backoff(w)
  <2>1. /\ LockTimeout(suspend_backoff_lock, SUSPEND_BACKOFF_INTERVAL)
        /\ Goto(w, "backoff", "reset")
        /\ UNCHANGED <<timer_running, suspend_short_count>>
    BY <1>8 DEF suspend_backoff
  <2>2. /\ suspend_backoff_lock \in SuspendLocks /\ suspend_backoff_lock \in Locks
        /\ SUSPEND_BACKOFF_INTERVAL \in 0 .. MaxTimeout
    BY LocksAssumption, TimeoutAssumption DEF KernelLocks
  <2>3. pc' \in [Workers -> Label]
    BY <1>1, <2>1 DEF Label
  <2> QED
    BY <2>1, <2>2, <2>3, TimeoutStep
<1>9. CASE SuspendReset(w)
  <2>1. 0 \in 0 .. 2 ^ CountWidth - 1
    BY CountAssumption
  <2> QED
    BY <1>5, <1>9, <2>1 DEF SuspendReset
<1>10. CASE SuspendEvent(w)
  <2>1. CASE new_event[w]
    <3>1. Goto(w, "event", "idle") /\ "idle" \in Label
      BY <1>10, <2>1 DEF SuspendEvent, Label
    <3>2. UNCHANGED <<lock_vars, timer_vars, suspend_work, new_event, suspend_short_count>>
      BY <1>10 DEF SuspendEvent
    <3>3. \A v \in Workers : WillRetry(v) => WillRetry(v)'
      BY <1>1, <2>1, <3>1, <3>2 DEF WillRetry
    <3> QED
      BY <1>1, <3>1, <3>2, <3>3, WorkerOnlyStep DEF Inv, TypeOK
  <2>2. CASE ~new_event[w]
    BY <1>5, <1>10, <2>2 DEF SuspendEvent, Inv, TypeOK
  <2> QED
    BY <2>1, <2>2
<1>11. CASE SuspendUnknown(w)
  <2>1. /\ LockTimeout(unknown_wakeup, UNKNOWN_WAKEUP_TIMEOUT)
        /\ Goto(w, "unknown", "idle")
        /\ UNCHANGED <<timer_running, suspend_short_count>>
    BY <1>11 DEF SuspendUnknown
  <2>2. /\ unknown_wakeup \in SuspendLocks /\ unknown_wakeup \in Locks
        /\ UNKNOWN_WAKEUP_TIMEOUT \in 0 .. MaxTimeout
    BY LocksAssumption, TimeoutAssumption DEF KernelLocks
  <2>3. pc' \in [Workers -> Label]
    BY <1>1, <2>1 DEF Label
  <2> QED
    BY <2>1, <2>2, <2>3, TimeoutStep
<1> QED
  BY <1>2, <1>3, <1>4, <1>6, <1>7, <1>8, <1>9, <1>10, <1>11, <1>12 DEF suspend

-----------------------------------------------------------------------------
\* Every step of the wake lock core preserves Inv.
LEMMA NextInv == Inv /\ [Next]_vars => Inv'
<1> SUFFICES ASSUME Inv, [Next]_vars PROVE Inv'
  OBVIOUS
<1>1. CASE Client
  <2>1. ClientLocks \subseteq Locks /\ main_wake_lock \in Locks
    BY LocksAssumption DEF ClientLocks, KernelLocks
  <2>2. CASE \E l \in ClientLocks : wake_lock_init(l)
    BY <2>1, <2>2, InitStep
  <2>3. CASE \E l \in ClientLocks : l \notin Permanent(flags, link, Locks) /\ wake_lock_destroy(l)
    BY <2>1, <2>3, DestroyStep
  <2>4. CASE \E l \in ClientLocks : \E t \in 0 .. MaxTimeout : wake_lock_timeout(l, t)
    <3>1. PICK l \in ClientLocks, t \in 0 .. MaxTimeout : wake_lock_timeout(l, t)
      BY <2>4
    <3>2. LockTimeout(l, t) /\ UNCHANGED <<timer_running, pc, suspend_short_count>>
      BY <3>1 DEF wake_lock_timeout, worker_vars
    <3>3. pc' \in [Workers -> Label]
      BY <3>2 DEF Inv, TypeOK
    <3> QED
      BY <2>1, <3>2, <3>3, TimeoutStep
  <2>5. CASE \E l \in ClientLocks \cup {main_wake_lock} : wake_lock(l)
    BY <2>1, <2>5, LockStep
  <2>6. CASE \E l \in ClientLocks \cup {main_wake_lock} : wake_unlock(l)
    BY <2>1, <2>6, UnlockStep
  <2>7. CASE \E S \in {SuspendLocks, Locks \ SuspendLocks} : has_wake_lock(S)
    BY <2>7, HasStep
  <2> QED
    BY <1>1, <2>2, <2>3, <2>4, <2>5, <2>6, <2>7 DEF Client
<1>2. CASE Timer
  BY <1>2, TickStep, TimerFiresStep, ExpireStep DEF Timer
<1>3. CASE Worker
  BY <1>3, WorkerStep DEF Worker
<1>4. CASE UNCHANGED vars
  BY <1>4 DEF Inv, TypeOK, ListMatchesFlags, TimerCovers, NoLostSuspend, WillRetry,
     ActiveSuspend, PermanentSuspend, Active, Permanent, vars
<1> QED
  BY <1>1, <1>2, <1>3, <1>4 DEF Next

\* The lists and the flags of wakelock.c stay typed.
THEOREM TypeCorrect == Spec => []TypeOK
<1>1. Inv => TypeOK
  BY DEF Inv
<1> QED
  BY <1>1, InitInv, NextInv, PTL DEF Spec

\* The lists has_wake_lock_locked walks agree with the flags
\* wake_lock_active reads, for any number of locks and CPUs.
THEOREM ListsAgree == Spec => []ListMatchesFlags
<1>1. Inv => ListMatchesFlags
  BY DEF Inv
<1> QED
  BY <1>1, InitInv, NextInv, PTL DEF Spec

\* expire_timer covers the last timeout, although expire_wake_locks never
\* re-arms it.
THEOREM TimerIsEnough == Spec => []TimerCovers
<1>1. Inv => TimerCovers
  BY DEF Inv
<1> QED
  BY <1>1, InitInv, NextInv, PTL DEF Spec

\* With no suspend lock active, a suspend attempt is queued, running or due.
THEOREM SuspendNotLost == Spec => []NoLostSuspend
<1>1. Inv => NoLostSuspend
  BY DEF Inv
<1> QED
  BY <1>1, InitInv, NextInv, PTL DEF Spec

-----------------------------------------------------------------------------
(* Expiry. *)

\* The locks of a table that a walk takes off the active list have a timeout
\* and are due.
LEMMA WalkDropsDue ==
  ASSUME NEW fl, NEW ln, NEW ex, NEW S \in SUBSET Locks,
         Walk(fl, ln, ex, S),
         NEW l \in Locks, ln[l] = "active", link'[l] # "active"
  PROVE  AUTO_EXPIRE \in fl[l] /\ ex[l] <= 0
  BY DEF Walk, ExpireLink, Expired, Due, Active, Permanent

\* A call of wake_lock_internal with a timeout drops no other lock early, and
\* its own lock only for a timeout of zero.
LEMMA LockTimeoutDropsDue ==
  ASSUME TypeOK, NEW k \in Locks, NEW t \in 0 .. MaxTimeout, LockTimeout(k, t),
         NEW l \in Locks, link[l] = "active", link'[l] # "active"
  PROVE  \/ AUTO_EXPIRE \in flags[l] /\ expires[l] <= 0
         \/ l = k /\ t = 0
<1> DEFINE fl == [flags EXCEPT ![k] = @ \cup {ACTIVE, AUTO_EXPIRE}]
           ln == [link EXCEPT ![k] = "active"]
           ex == [expires EXCEPT ![k] = t]
<1>1. ln[l] = "active"
  BY DEF TypeOK
<1>2. Walk(fl, ln, ex, SuspendLocks)
  <2>1. link' # ln
    BY <1>1
  <2> QED
    BY <2>1 DEF LockTimeout
<1>3. SuspendLocks \in SUBSET Locks
  BY LocksAssumption
<1>4. AUTO_EXPIRE \in fl[l] /\ ex[l] <= 0
  <2> HIDE DEF fl, ln, ex
  <2> QED
    BY <1>1, <1>2, <1>3, WalkDropsDue
<1>5. MaxTimeout \in Nat
  BY TimeoutAssumption
<1> QED
  BY <1>4, <1>5 DEF TypeOK

\* No step of any actor drops a lock that is not due, unless it names it.
LEMMA NextDropsDue ==
  ASSUME TypeOK, ListMatchesFlags, Next, NEW l \in Locks, link[l] = "active", link'[l] # "active"
  PROVE  \/ AUTO_EXPIRE \in flags[l] /\ expires[l] <= 0
         \/ wake_unlock(l) \/ wake_lock_destroy(l) \/ wake_lock_timeout(l, 0)
<1>1. SuspendLocks \in SUBSET Locks /\ MaxTimeout \in Nat
  BY LocksAssumption, TimeoutAssumption
<1>2. ClientLocks \subseteq Locks /\ KernelLocks \subseteq Locks /\ main_wake_lock \in Locks
  BY LocksAssumption DEF ClientLocks, KernelLocks
<1>3. ASSUME NEW S \in SUBSET Locks, Walk(flags, link, expires, S)
      PROVE  AUTO_EXPIRE \in flags[l] /\ expires[l] <= 0
  BY <1>3, WalkDropsDue
<1>4. ASSUME NEW k \in KernelLocks, NEW t \in 1 .. MaxTimeout, LockTimeout(k, t)
      PROVE  AUTO_EXPIRE \in flags[l] /\ expires[l] <= 0
  <2>1. t \in 0 .. MaxTimeout /\ t # 0
    BY <1>1
  <2> QED
    BY <1>2, <1>4, <2>1, LockTimeoutDropsDue
<1>5. CASE Client
  <2>1. CASE \E k \in ClientLocks : wake_lock_init(k)
    BY <1>2, <2>1 DEF wake_lock_init, TypeOK, ListMatchesFlags
  <2>2. CASE \E k \in ClientLocks : wake_lock_destroy(k)
    BY <1>2, <2>2 DEF wake_lock_destroy, TypeOK
  <2>3. CASE \E k \in ClientLocks : \E t \in 0 .. MaxTimeout : wake_lock_timeout(k, t)
    <3>1. PICK k \in ClientLocks, t \in 0 .. MaxTimeout : wake_lock_timeout(k, t)
      BY <2>3
    <3>2. LockTimeout(k, t)
      BY <3>1 DEF wake_lock_timeout
    <3> QED
      BY <1>2, <3>1, <3>2, LockTimeoutDropsDue
  <2>4. CASE \E k \in ClientLocks \cup {main_wake_lock} : wake_lock(k)
    BY <1>2, <2>4 DEF wake_lock, TypeOK
  <2>5. CASE \E k \in ClientLocks \cup {main_wake_lock} : wake_unlock(k)
    <3>1. PICK k \in Locks : wake_unlock(k)
      BY <1>2, <2>5
    <3>2. CASE k = l
      BY <3>1, <3>2
    <3>3. CASE k # l
      <4> DEFINE fl == [flags EXCEPT ![k] = @ \ {ACTIVE, AUTO_EXPIRE}]
                 ln == [link EXCEPT ![k] = "inactive"]
      <4>1. ln[l] = "active" /\ fl[l] = flags[l]
        BY <3>3 DEF TypeOK
      <4>2. Walk(fl, ln, expires, SuspendLocks)
        <5>1. link' # ln
          BY <4>1
        <5> QED
          BY <3>1, <5>1 DEF wake_unlock
      <4> HIDE DEF fl, ln
      <4> QED
        BY <1>1, <4>1, <4>2, WalkDropsDue
    <3> QED
      BY <3>2, <3>3
  <2>6. CASE \E S \in {SuspendLocks, Locks \ SuspendLocks} : has_wake_lock(S)
    <3>1. PICK S \in SUBSET Locks : has_wake_lock(S)
      BY <1>1, <2>6
    <3> QED
      BY <1>3, <3>1 DEF has_wake_lock
  <2> QED
    BY <1>5, <2>1, <2>2, <2>3, <2>4, <2>5, <2>6 DEF Client
<1>6. CASE Timer
  <2>1. expire_wake_locks
    BY <1>6 DEF Timer, Tick, TimerFires, lock_vars
  <2> QED
    BY <1>1, <1>3, <2>1 DEF expire_wake_locks
<1>7. CASE Worker
  <2>1. PICK w \in Workers : SuspendStart(w) \/ suspend(w)
    BY <1>7 DEF Worker
  <2>2. SuspendCheck(w) \/ suspend_backoff(w) \/ SuspendUnknown(w)
    BY <2>1 DEF suspend, SuspendStart, SuspendEntry, SuspendReturn, SuspendCount,
                SuspendCompare, SuspendReset, SuspendEvent, lock_vars
  <2>3. CASE SuspendCheck(w)
    BY <1>1, <1>3, <2>3 DEF SuspendCheck
  <2>4. CASE suspend_backoff(w)
    <3>1. LockTimeout(suspend_backoff_lock, SUSPEND_BACKOFF_INTERVAL)
      BY <2>4 DEF suspend_backoff
    <3> QED
      BY <1>4, <3>1, TimeoutAssumption DEF KernelLocks
  <2>5. CASE SuspendUnknown(w)
    <3>1. LockTimeout(unknown_wakeup, UNKNOWN_WAKEUP_TIMEOUT)
      BY <2>5 DEF SuspendUnknown
    <3> QED
      BY <1>4, <3>1, TimeoutAssumption DEF KernelLocks
  <2> QED
    BY <2>2, <2>3, <2>4, <2>5
<1> QED
  BY <1>5, <1>6, <1>7 DEF Next

\* A lock leaves the active list only through a call that names it or when
\* its timeout is over, whatever the other locks and the walks do.
THEOREM NoEarlyExpiry == Spec => ExpiresOnlyWhenDue
<1>1. TypeOK /\ ListMatchesFlags /\ [Next]_vars =>
        [\A l \in Locks :
           link[l] = "active" /\ link'[l] # "active" =>
             \/ AUTO_EXPIRE \in flags[l] /\ expires[l] <= 0
             \/ wake_unlock(l) \/ wake_lock_destroy(l) \/ wake_lock_timeout(l, 0)]_vars
  BY NextDropsDue
<1> QED
  BY <1>1, TypeCorrect, ListsAgree, PTL DEF Spec, ExpiresOnlyWhenDue
-----------------------------------------------------------------------------
(* The back-off.                                                           *)

\* BackoffNotMissed looks at suspend_short_count and pc only.
LEMMA BackoffUntouched ==
  ASSUME BackoffNotMissed, UNCHANGED worker_vars
  PROVE  BackoffNotMissed'
  BY DEF BackoffNotMissed, worker_vars

\* The worker that brings the count to the threshold stays in the window until
\* it resets it, or finds it changed.
LEMMA WorkerBackoff ==
  ASSUME TypeOK, BackoffNotMissed, NEW w \in Workers, SuspendStart(w) \/ suspend(w)
  PROVE  BackoffNotMissed'
<1> DEFINE T == SUSPEND_BACKOFF_THRESHOLD
           c == suspend_short_count
           Window == {"compare", "backoff", "reset"}
<1>1. pc \in [Workers -> Label]
  BY DEF TypeOK
<1>2. ASSUME NEW from, NEW to, Goto(w, from, to)
      PROVE  pc[w] = from /\ pc'[w] = to /\ \A v \in Workers \ {w} : pc'[v] = pc[v]
  BY <1>1, <1>2 DEF Goto
<1>3. CASE SuspendCount(w)
  <2>1. pc'[w] \in Window
    BY <1>2, <1>3 DEF SuspendCount
  <2> QED
    BY <2>1 DEF BackoffNotMissed
<1>4. CASE SuspendReset(w) \/ (SuspendReturn(w) /\ c' = 0)
  <2>1. c' = 0
    BY <1>4 DEF SuspendReset
  <2> QED
    BY <2>1, CountAssumption DEF BackoffNotMissed
<1>5. CASE SuspendCompare(w) \/ suspend_backoff(w)
  <2>1. c' = c /\ (c = T => pc'[w] \in Window)
    BY <1>2, <1>5 DEF SuspendCompare, suspend_backoff
  <2> QED
    BY <2>1 DEF BackoffNotMissed
<1>6. CASE \/ SuspendStart(w) \/ SuspendCheck(w) \/ SuspendEntry(w)
           \/ SuspendReturn(w) /\ c' = c
           \/ SuspendEvent(w) \/ SuspendUnknown(w)
  <2>1. c' = c /\ pc[w] \notin Window /\ \A v \in Workers \ {w} : pc'[v] = pc[v]
    BY <1>2, <1>6 DEF SuspendStart, SuspendCheck, SuspendEntry, SuspendReturn, SuspendEvent,
       SuspendUnknown
  <2> QED
    BY <2>1 DEF BackoffNotMissed
<1>7. SuspendReturn(w) => c' = c \/ c' = 0
  BY DEF SuspendReturn
<1> QED
  BY <1>3, <1>4, <1>5, <1>6, <1>7 DEF suspend

LEMMA NextBackoff ==
  ASSUME TypeOK, BackoffNotMissed, [Next]_vars
  PROVE  BackoffNotMissed'
<1>1. CASE Client
  <2>1. UNCHANGED worker_vars
    BY <1>1 DEF Client, wake_lock_init, wake_lock_destroy, wake_lock_timeout, wake_lock, wake_unlock,
       has_wake_lock, worker_vars
  <2> QED
    BY <2>1, BackoffUntouched
<1>2. CASE Timer
  <2>1. UNCHANGED worker_vars
    BY <1>2 DEF Timer, Tick, TimerFires, expire_wake_locks
  <2> QED
    BY <2>1, BackoffUntouched
<1>3. CASE Worker
  BY <1>3, WorkerBackoff DEF Worker
<1>4. CASE UNCHANGED vars
  BY <1>4, BackoffUntouched DEF vars, worker_vars
<1> QED
  BY <1>1, <1>2, <1>3, <1>4 DEF Next

\* On however many CPUs suspend() runs, and whatever increments they lose:
\* a count that is at the threshold has a worker on its way to the reset.
THEOREM BackoffTaken == Spec => []BackoffNotMissed
<1>1. Init => BackoffNotMissed
  BY CountAssumption DEF Init, BackoffNotMissed
<1>2. TypeOK /\ BackoffNotMissed /\ [Next]_vars => BackoffNotMissed'
  BY NextBackoff
<1> QED
  BY <1>1, <1>2, TypeCorrect, PTL DEF Spec

-----------------------------------------------------------------------------
(* The lists.                                                              *)

\* Every step with the linked lists is a step of WakeLock.
LEMMA ListStepsWakeLock ==
  ASSUME [ListNext]_<<vars, active_wake_locks>>
  PROVE  [Next]_vars
<1>1. CASE ListClient
  <2>1. \A type \in Type : LocksOf(type) \in {SuspendLocks, Locks \ SuspendLocks}
    BY DEF Type, LocksOf
  <2> QED
    BY <1>1, <2>1 DEF ListClient, Client, Next
<1>2. CASE ListTimer
  BY <1>2 DEF ListTimer, Timer, Next
<1>3. CASE \E w \in Workers : ListWorker(w)
  BY <1>3 DEF ListWorker, suspend, Worker, Next
<1> QED
  BY <1>1, <1>2, <1>3 DEF ListNext

\* With the linked lists the wake lock core still implements WakeLock, so
\* that all of the above holds of the code's data structure, too.
THEOREM ListsImplementWakeLock == ListSpec => Spec
<1>1. ListInit => Init
  BY DEF ListInit
<1> QED
  BY <1>1, ListStepsWakeLock, PTL DEF ListSpec, Spec

-----------------------------------------------------------------------------
(* The loop of has_wake_lock_locked.  It is a recursive function; what it  *)
(* computes is proved by taking a least counterexample.                    *)

LEMMA Least ==
  ASSUME NEW T \in SUBSET Nat, T # {}
  PROVE  \E x \in T : \A y \in T : x <= y
<1>1. PICK x \in T : \A y \in T : ~ (<<y, x>> \in OpToRel(<, Nat))
  BY NatLessThanWellFounded, WFMin, Zenon
<1>2. ASSUME NEW y \in T PROVE x <= y
  <2>1. x \in Nat /\ y \in Nat
    OBVIOUS
  <2>2. ~ (y < x)
    BY <1>1, <1>2, <2>1 DEF OpToRel
  <2> QED
    BY <2>1, <2>2
<1> QED
  BY <1>2

\* A set that has the place behind the list and, with a place, the one before
\* it, has all places of the list.
LEMMA FromTheEnd ==
  ASSUME NEW n \in Nat, NEW T,
         n + 1 \in T, \A i \in 1 .. n : i + 1 \in T => i \in T
  PROVE  \A i \in 1 .. n + 1 : i \in T
<1> DEFINE U == {k \in 0 .. n : n + 1 - k \notin T}
<1>1. U \in SUBSET Nat
  OBVIOUS
<1>2. U = {}
  <2>1. SUFFICES ASSUME U # {} PROVE FALSE
    OBVIOUS
  <2>2. PICK k \in U : \A j \in U : k <= j
    <3> HIDE DEF U
    <3> QED
      BY <1>1, <2>1, Least
  <2>3. k \in 0 .. n /\ n + 1 - k \notin T
    OBVIOUS
  <2>4. k # 0
    BY <2>3
  <2>5. k - 1 \in 0 .. n /\ k - 1 \notin U
    BY <2>2, <2>3, <2>4
  <2>6. n + 1 - (k - 1) \in T
    BY <2>5
  <2>7. n + 1 - k \in 1 .. n /\ (n + 1 - k) + 1 = n + 1 - (k - 1)
    BY <2>3, <2>4
  <2> QED
    BY <2>3, <2>6, <2>7
<1>3. ASSUME NEW i \in 1 .. n + 1 PROVE i \in T
  <2>1. n + 1 - i \in 0 .. n /\ n + 1 - (n + 1 - i) = i
    OBVIOUS
  <2>2. n + 1 - i \notin U
    BY <1>2
  <2>3. n + 1 - (n + 1 - i) \in T
    BY <2>1, <2>2
  <2> QED
    BY <2>1, <2>3
<1> QED
  BY <1>3

\* One round of the loop, with r what the rounds after it do.
Round(list, fl, ex, i, r) ==
  IF i > Len(list) THEN [ret |-> 0, expired |-> {}, left |-> <<>>]
  ELSE IF AUTO_EXPIRE \notin fl[list[i]]
    THEN [ret |-> -1, expired |-> {}, left |-> SubSeq(list, i, Len(list))]
  ELSE IF Due(ex, list[i])
    THEN [r EXCEPT !.expired = @ \cup {list[i]}]
    ELSE [r EXCEPT !.ret = IF @ = -1 THEN -1 ELSE Max({@, ex[list[i]]}),
                   !.left = <<list[i]>> \o @]

IsLoop(f, list, fl, ex) ==
  f = [i \in 1 .. Len(list) + 1 |-> Round(list, fl, ex, i, f[i + 1])]

LEMMA RoundBehind ==
  ASSUME NEW list, Len(list) \in Nat, NEW fl, NEW ex, NEW r
  PROVE  Round(list, fl, ex, Len(list) + 1, r) = [ret |-> 0, expired |-> {}, left |-> <<>>]
<1>1. Len(list) + 1 > Len(list)
  OBVIOUS
<1> QED
  BY <1>1 DEF Round

\* The loop is well-defined.
LEMMA LoopExists ==
  ASSUME NEW list, Len(list) \in Nat, NEW fl, NEW ex
  PROVE  \E f : IsLoop(f, list, fl, ex)
<1> DEFINE n == Len(list)
           Part(f, i) == f = [j \in i .. n + 1 |-> Round(list, fl, ex, j, f[j + 1])]
           T == {i \in 1 .. n + 1 : \E f : Part(f, i)}
<1>0. n \in Nat
  OBVIOUS
<1>1. n + 1 \in T
  <2> DEFINE f == [j \in n + 1 .. n + 1 |-> [ret |-> 0, expired |-> {}, left |-> <<>>]]
  <2>1. \A j \in n + 1 .. n + 1 : Round(list, fl, ex, j, f[j + 1]) = [ret |-> 0, expired |-> {}, left |-> <<>>]
    BY <1>0, RoundBehind
  <2>2. Part(f, n + 1)
    BY <2>1
  <2>3. \E h : Part(h, n + 1)
    <3> HIDE DEF f, Part
    <3> QED
      BY <2>2
  <2> QED
    BY <1>0, <2>3
<1>2. ASSUME NEW i \in 1 .. n, i + 1 \in T PROVE i \in T
  <2>1. PICK f : Part(f, i + 1)
    BY <1>2
  <2> DEFINE g == [j \in i .. n + 1 |-> IF j = i THEN Round(list, fl, ex, i, f[i + 1]) ELSE f[j]]
  <2>2. \A j \in i + 1 .. n + 1 : f[j] = Round(list, fl, ex, j, f[j + 1])
    BY <2>1
  <2>3. \A j \in i .. n : g[j + 1] = f[j + 1]
    BY <1>0
  <2>4. Round(list, fl, ex, n + 1, g[n + 2]) = Round(list, fl, ex, n + 1, f[n + 2])
    BY <1>0, RoundBehind
  <2>5. ASSUME NEW j \in i .. n + 1
        PROVE  g[j] = Round(list, fl, ex, j, g[j + 1])
    <3>1. CASE j = i
      BY <1>0, <2>3, <3>1
    <3>2. CASE j # i /\ j # n + 1
      <4>1. j \in i + 1 .. n + 1 /\ j \in i .. n
        BY <1>0, <3>2
      <4> QED
        BY <4>1, <3>2, <2>2, <2>3
    <3>3. CASE j # i /\ j = n + 1
      <4>1. j \in i + 1 .. n + 1 /\ j + 1 = n + 2
        BY <1>0, <3>3
      <4> QED
        BY <4>1, <3>3, <2>2, <2>4
    <3> QED
      BY <3>1, <3>2, <3>3
  <2>6. Part(g, i)
    <3>1. g = [j \in i .. n + 1 |-> g[j]]
      OBVIOUS
    <3> HIDE DEF g
    <3> QED
      BY <3>1, <2>5
  <2>7. \E h : Part(h, i)
    <3> HIDE DEF g, Part
    <3> QED
      BY <2>6
  <2> QED
    BY <1>0, <2>7
<1>3. 1 \in T
  <2> HIDE DEF T
  <2> QED
    BY <1>0, <1>1, <1>2, FromTheEnd
<1> QED
  BY <1>3 DEF IsLoop

LEMMA LoopIs ==
  ASSUME NEW list, Len(list) \in Nat, NEW fl, NEW ex
  PROVE  \E f : IsLoop(f, list, fl, ex) /\ has_wake_lock_locked(list, fl, ex) = f[1]
<1>1. \E f : IsLoop(f, list, fl, ex)
  BY LoopExists
<1> DEFINE g == CHOOSE f : IsLoop(f, list, fl, ex)
<1>2. IsLoop(g, list, fl, ex)
  BY <1>1, Zenon
<1>3. has_wake_lock_locked(list, fl, ex) = g[1]
  BY DEF has_wake_lock_locked, IsLoop, Round
<1> QED
  BY <1>2, <1>3, Zenon

\* At a lock without a timeout the loop returns at once.
LEMMA LoopStops ==
  ASSUME NEW list \in Seq(Locks), list # <<>>, NEW fl, NEW ex, AUTO_EXPIRE \notin fl[list[1]]
  PROVE  has_wake_lock_locked(list, fl, ex) = [ret |-> -1, expired |-> {}, left |-> list]
<1>0. Len(list) \in Nat /\ 1 \in 1 .. Len(list) + 1 /\ ~ (1 > Len(list))
  OBVIOUS
<1>1. PICK f : IsLoop(f, list, fl, ex) /\ has_wake_lock_locked(list, fl, ex) = f[1]
  BY <1>0, LoopIs
<1>2. f[1] = Round(list, fl, ex, 1, f[2])
  BY <1>0, <1>1 DEF IsLoop
<1>3. Round(list, fl, ex, 1, f[2]) = [ret |-> -1, expired |-> {}, left |-> SubSeq(list, 1, Len(list))]
  BY <1>0 DEF Round
<1>4. SubSeq(list, 1, Len(list)) = list
  BY <1>0
<1> QED
  BY <1>1, <1>2, <1>3, <1>4

LEMMA MaxOfPair ==
  ASSUME NEW x \in 0 .. MaxTimeout, NEW y \in 0 .. MaxTimeout
  PROVE  Max({x, y}) = IF x <= y THEN y ELSE x
<1>1. MaxTimeout \in Nat
  BY TimeoutAssumption
<1>2. Max({x, y}) \in {x, y} /\ x <= Max({x, y}) /\ y <= Max({x, y})
  BY MaxOfTimeouts
<1> QED
  BY <1>1, <1>2

\* What the rounds from i on have done when every lock has a timeout: r.ret is
\* the largest time left, and the locks that are due have left the list.
RoundsDone(list, ex, i, r) ==
  /\ r \in [ret : 0 .. MaxTimeout, expired : SUBSET Locks, left : Seq(Locks)]
  /\ r.ret = 0 \/ \E j \in i .. Len(list) : ~Due(ex, list[j]) /\ r.ret = ex[list[j]]
  /\ \A j \in i .. Len(list) : ex[list[j]] <= r.ret
  /\ r.expired = {l \in Locks : \E j \in i .. Len(list) : l = list[j] /\ Due(ex, list[j])}
  /\ ToSet(r.left) = {l \in Locks : \E j \in i .. Len(list) : l = list[j] /\ ~Due(ex, list[j])}
  /\ IsInjective(r.left)

\* A lock linked at the head.
LEMMA Prepend ==
  ASSUME NEW s \in Seq(Locks), NEW l \in Locks
  PROVE  /\ <<l>> \o s \in Seq(Locks) /\ Len(<<l>> \o s) = Len(s) + 1
         /\ (<<l>> \o s)[1] = l /\ \A k \in 1 .. Len(s) : (<<l>> \o s)[k + 1] = s[k]
         /\ ToSet(<<l>> \o s) = ToSet(s) \cup {l}
         /\ IsInjective(s) /\ l \notin ToSet(s) => IsInjective(<<l>> \o s)
<1> DEFINE t == <<l>> \o s
<1>0. Len(s) \in Nat /\ DOMAIN s = 1 .. Len(s)
  OBVIOUS
<1>1. /\ t \in Seq(Locks) /\ Len(t) = Len(s) + 1 /\ t[1] = l
      /\ DOMAIN t = 1 .. Len(s) + 1 /\ \A k \in 1 .. Len(s) : t[k + 1] = s[k]
  BY <1>0
<1> HIDE DEF t
<1>2. \A j \in DOMAIN t : j = 1 \/ (j - 1 \in 1 .. Len(s) /\ t[j] = s[j - 1])
  <2>1. SUFFICES ASSUME NEW j \in DOMAIN t, j # 1 PROVE j - 1 \in 1 .. Len(s) /\ t[j] = s[j - 1]
    OBVIOUS
  <2>2. j - 1 \in 1 .. Len(s) /\ (j - 1) + 1 = j
    BY <1>0, <1>1, <2>1
  <2> QED
    BY <1>1, <2>2
<1>3. ToSet(t) = ToSet(s) \cup {l}
  <2>1. ToSet(t) \subseteq ToSet(s) \cup {l}
    BY <1>0, <1>1, <1>2 DEF ToSet
  <2>2. l \in ToSet(t)
    <3>1. 1 \in DOMAIN t
      BY <1>0, <1>1
    <3> QED
      BY <3>1, <1>1 DEF ToSet
  <2>3. ASSUME NEW k \in DOMAIN s PROVE s[k] \in ToSet(t)
    <3>1. k + 1 \in DOMAIN t
      BY <1>0, <1>1
    <3> QED
      BY <3>1, <1>0, <1>1 DEF ToSet
  <2> QED
    BY <2>1, <2>2, <2>3 DEF ToSet
<1>4. ASSUME IsInjective(s), l \notin ToSet(s) PROVE IsInjective(t)
  <2>1. \A k \in 1 .. Len(s) : s[k] # l
    BY <1>0, <1>4 DEF ToSet
  <2>2. SUFFICES ASSUME NEW a \in DOMAIN t, NEW b \in DOMAIN t, t[a] = t[b] PROVE a = b
    BY DEF IsInjective
  <2>3. CASE a = 1 \/ b = 1
    BY <1>1, <1>2, <2>1, <2>2, <2>3
  <2>4. CASE a # 1 /\ b # 1
    <3>1. a - 1 \in DOMAIN s /\ b - 1 \in DOMAIN s /\ s[a - 1] = s[b - 1]
      BY <1>0, <1>2, <2>2, <2>4
    <3>2. a - 1 = b - 1
      BY <1>4, <3>1 DEF IsInjective
    <3> QED
      BY <3>2, <1>0, <1>1
  <2> QED
    BY <2>3, <2>4
<1> QED
  BY <1>1, <1>3, <1>4 DEF t

\* The induction step.
LEMMA OneRound ==
  ASSUME NEW list \in Seq(Locks), NEW fl, NEW ex \in [Locks -> -1 .. MaxTimeout],
         IsInjective(list),
         NEW i \in 1 .. Len(list), AUTO_EXPIRE \in fl[list[i]],
         NEW r, RoundsDone(list, ex, i + 1, r)
  PROVE  RoundsDone(list, ex, i, Round(list, fl, ex, i, r))
<1> DEFINE n == Len(list)
           l == list[i]
           q == Round(list, fl, ex, i, r)
<1>0. n \in Nat /\ MaxTimeout \in Nat /\ i \in Nat /\ DOMAIN list = 1 .. n
  BY TimeoutAssumption
<1>1. l \in Locks /\ ex[l] \in -1 .. MaxTimeout /\ \A j \in 1 .. n : ex[list[j]] \in -1 .. MaxTimeout
  BY <1>0
<1>2. i .. n = (i + 1 .. n) \cup {i}
  BY <1>0
<1>3. /\ r \in [ret : 0 .. MaxTimeout, expired : SUBSET Locks, left : Seq(Locks)]
      /\ r.ret = 0 \/ \E j \in i + 1 .. n : ~Due(ex, list[j]) /\ r.ret = ex[list[j]]
      /\ \A j \in i + 1 .. n : ex[list[j]] <= r.ret
      /\ r.expired = {k \in Locks : \E j \in i + 1 .. n : k = list[j] /\ Due(ex, list[j])}
      /\ ToSet(r.left) = {k \in Locks : \E j \in i + 1 .. n : k = list[j] /\ ~Due(ex, list[j])}
      /\ IsInjective(r.left)
  BY DEF RoundsDone
<1>4. ~ (i > n)
  BY <1>0
<1>5. CASE Due(ex, l)
  <2>1. q = [r EXCEPT !.expired = @ \cup {l}]
    BY <1>4, <1>5 DEF Round
  <2> HIDE DEF q
  <2>2. /\ q \in [ret : 0 .. MaxTimeout, expired : SUBSET Locks, left : Seq(Locks)]
        /\ q.ret = r.ret /\ q.expired = r.expired \cup {l} /\ q.left = r.left
    BY <1>1, <1>3, <2>1
  <2>3. \A j \in i .. n : ex[list[j]] <= q.ret
    BY <1>0, <1>1, <1>2, <1>3, <1>5, <2>2 DEF Due
  <2>4. q.expired = {k \in Locks : \E j \in i .. n : k = list[j] /\ Due(ex, list[j])}
    BY <1>1, <1>2, <1>3, <1>5, <2>2
  <2>5. ToSet(q.left) = {k \in Locks : \E j \in i .. n : k = list[j] /\ ~Due(ex, list[j])}
    BY <1>2, <1>3, <1>5, <2>2
  <2>6. q.ret = 0 \/ \E j \in i .. n : ~Due(ex, list[j]) /\ q.ret = ex[list[j]]
    BY <1>2, <1>3, <2>2
  <2> QED
    BY <1>3, <2>2, <2>3, <2>4, <2>5, <2>6 DEF RoundsDone, q
<1>6. CASE ~Due(ex, l)
  <2>0. ex[l] \in 0 .. MaxTimeout /\ r.ret \in 0 .. MaxTimeout /\ r.ret # -1
    BY <1>0, <1>1, <1>3, <1>6 DEF Due
  <2>1. q = [r EXCEPT !.ret = Max({@, ex[l]}), !.left = <<l>> \o @]
    BY <1>4, <1>6, <2>0 DEF Round
  <2>2. Max({r.ret, ex[l]}) = IF r.ret <= ex[l] THEN ex[l] ELSE r.ret
    BY <2>0, MaxOfPair
  <2>3. l \notin ToSet(r.left)
    <3>1. \A j \in i + 1 .. n : list[j] # l
      <4>1. SUFFICES ASSUME NEW j \in i + 1 .. n, list[j] = l PROVE FALSE
        OBVIOUS
      <4>2. j \in DOMAIN list /\ j # i
        BY <1>0
      <4> QED
        BY <1>0, <4>1, <4>2 DEF IsInjective
    <3> QED
      BY <3>1, <1>3
  <2>4. /\ <<l>> \o r.left \in Seq(Locks) /\ ToSet(<<l>> \o r.left) = ToSet(r.left) \cup {l}
        /\ IsInjective(<<l>> \o r.left)
    <3>1. r.left \in Seq(Locks)
      BY <1>3
    <3> QED
      BY <3>1, <1>1, <1>3, <2>3, Prepend
  <2> HIDE DEF q
  <2>5. /\ q \in [ret : 0 .. MaxTimeout, expired : SUBSET Locks, left : Seq(Locks)]
        /\ q.ret = (IF r.ret <= ex[l] THEN ex[l] ELSE r.ret)
        /\ q.expired = r.expired /\ q.left = <<l>> \o r.left
    <3> DEFINE m == Max({r.ret, ex[l]})
               u == <<l>> \o r.left
    <3>1. m \in 0 .. MaxTimeout /\ m = (IF r.ret <= ex[l] THEN ex[l] ELSE r.ret) /\ u \in Seq(Locks)
      BY <2>0, <2>2, <2>4
    <3>2. q = [r EXCEPT !.ret = m, !.left = u]
      BY <2>1
    <3> HIDE DEF m, u
    <3>3. /\ q \in [ret : 0 .. MaxTimeout, expired : SUBSET Locks, left : Seq(Locks)]
          /\ q.ret = m /\ q.expired = r.expired /\ q.left = u
      BY <3>1, <3>2, <1>3
    <3> QED
      BY <3>1, <3>3 DEF u
  <2>6. \A j \in i .. n : ex[list[j]] <= q.ret
    <3>1. SUFFICES ASSUME NEW j \in i .. n PROVE ex[list[j]] <= q.ret
      OBVIOUS
    <3>2. r.ret <= q.ret /\ ex[l] <= q.ret /\ q.ret \in Int
      BY <2>0, <2>5, <1>0
    <3>3. j = i \/ ex[list[j]] <= r.ret
      BY <1>2, <1>3
    <3>4. ex[list[j]] \in Int
      BY <1>0, <1>1
    <3> QED
      BY <3>2, <3>3, <3>4, <2>0, <1>0
  <2>7. q.expired = {k \in Locks : \E j \in i .. n : k = list[j] /\ Due(ex, list[j])}
    BY <1>2, <1>3, <1>6, <2>5
  <2>8. ToSet(q.left) = {k \in Locks : \E j \in i .. n : k = list[j] /\ ~Due(ex, list[j])}
    <3>1. ToSet(q.left) = ToSet(r.left) \cup {l}
      BY <2>4, <2>5
    <3> QED
      BY <3>1, <1>1, <1>2, <1>3, <1>6
  <2>9. q.ret = 0 \/ \E j \in i .. n : ~Due(ex, list[j]) /\ q.ret = ex[list[j]]
    BY <1>2, <1>3, <1>6, <2>5
  <2> QED
    BY <2>4, <2>5, <2>6, <2>7, <2>8, <2>9 DEF RoundsDone, q
<1> QED
  BY <1>5, <1>6

\* The loop over a list of locks with a timeout.
LEMMA LoopRunsThrough ==
  ASSUME NEW list \in Seq(Locks), NEW fl, NEW ex \in [Locks -> -1 .. MaxTimeout],
         IsInjective(list), \A i \in 1 .. Len(list) : AUTO_EXPIRE \in fl[list[i]]
  PROVE  RoundsDone(list, ex, 1, has_wake_lock_locked(list, fl, ex))
<1>0. Len(list) \in Nat /\ MaxTimeout \in Nat
  BY TimeoutAssumption
<1>1. PICK f : IsLoop(f, list, fl, ex) /\ has_wake_lock_locked(list, fl, ex) = f[1]
  BY <1>0, LoopIs
<1> DEFINE n == Len(list)
           T == {i \in 1 .. n + 1 : RoundsDone(list, ex, i, f[i])}
<1>2. \A i \in 1 .. n + 1 : f[i] = Round(list, fl, ex, i, f[i + 1])
  BY <1>1 DEF IsLoop
<1>3. n + 1 \in T
  <2> DEFINE r == [ret |-> 0, expired |-> {}, left |-> <<>>]
  <2>1. f[n + 1] = r
    BY <1>0, <1>2, RoundBehind
  <2>2. n + 1 .. n = {}
    BY <1>0
  <2>3. /\ r \in [ret : 0 .. MaxTimeout, expired : SUBSET Locks, left : Seq(Locks)]
        /\ r.ret = 0 /\ r.expired = {} /\ r.left = <<>>
    BY <1>0
  <2>4. ToSet(r.left) = {} /\ IsInjective(r.left)
    BY <2>3 DEF ToSet, IsInjective
  <2> HIDE DEF r
  <2>5. RoundsDone(list, ex, n + 1, r)
    BY <2>2, <2>3, <2>4 DEF RoundsDone
  <2> QED
    BY <1>0, <2>1, <2>5
<1>4. ASSUME NEW i \in 1 .. n, i + 1 \in T PROVE i \in T
  <2>1. RoundsDone(list, ex, i, Round(list, fl, ex, i, f[i + 1]))
    BY <1>4, OneRound
  <2> QED
    BY <2>1, <1>0, <1>2
<1>5. 1 \in T
  <2> HIDE DEF T
  <2> QED
    <3>1. \A i \in 1 .. n : i + 1 \in T => i \in T
      BY <1>4
    <3>2. \A i \in 1 .. n + 1 : i \in T
      BY <1>0, <1>3, <3>1, FromTheEnd
    <3> QED
      BY <1>0, <3>2
<1> QED
  BY <1>1, <1>5

-----------------------------------------------------------------------------
(* The lists that the operations keep.                                     *)

\* The list has the active locks of its type once each, those without a
\* timeout before those with one.
ListOK(list, fl, ln, S) ==
  /\ list \in Seq(Locks)
  /\ ToSet(list) = Active(ln, S)
  /\ IsInjective(list)
  /\ \A i, j \in 1 .. Len(list) :
       i < j /\ AUTO_EXPIRE \in fl[list[i]] => AUTO_EXPIRE \in fl[list[j]]

Lists ==
  /\ active_wake_locks \in [Type -> Seq(Locks)]
  /\ \A type \in Type : ListOK(active_wake_locks[type], flags, link, LocksOf(type))

\* A list without locks of no timeout: the loop computes what WakeLock says.
LEMMA WalkOfTimeouts ==
  ASSUME NEW fl, NEW ln, NEW ex, Table(fl, ln, ex), NEW S \in SUBSET Locks,
         NEW list, ListOK(list, fl, ln, S), Permanent(fl, ln, S) = {}
  PROVE  LET w == has_wake_lock_locked(list, fl, ex)
             D == Expired(fl, ln, ex, S)
         IN  /\ w.ret = HasWakeLock(fl, ln, ex, S) /\ w.expired = D
             /\ w.left \in Seq(Locks) /\ ToSet(w.left) = Active(ln, S) \ D /\ IsInjective(w.left)
<1> DEFINE w == has_wake_lock_locked(list, fl, ex)
           A == Active(ln, S)
           D == Expired(fl, ln, ex, S)
           V == {0} \cup {ex[l] : l \in A \ D}
<1>0. /\ list \in Seq(Locks) /\ Len(list) \in Nat /\ DOMAIN list = 1 .. Len(list)
      /\ IsInjective(list) /\ ex \in [Locks -> -1 .. MaxTimeout] /\ MaxTimeout \in Nat
  BY TimeoutAssumption DEF ListOK, Table
<1>1. A \subseteq Locks /\ D = {l \in A : Due(ex, l)}
  BY DEF Active, Expired
<1>2. \A l : l \in A <=> \E j \in 1 .. Len(list) : l = list[j]
  BY <1>0 DEF ListOK, ToSet
<1>3. \A j \in 1 .. Len(list) : AUTO_EXPIRE \in fl[list[j]]
  BY <1>2 DEF Permanent
<1>4. RoundsDone(list, ex, 1, w)
  BY <1>0, <1>3, LoopRunsThrough
<1> HIDE DEF w, A
<1>5. w.expired = D
  BY <1>1, <1>2, <1>4 DEF RoundsDone
<1>6. ToSet(w.left) = A \ D
  BY <1>1, <1>2, <1>4 DEF RoundsDone
<1>7. V \subseteq 0 .. MaxTimeout
  <2>1. ASSUME NEW l \in A \ D PROVE ex[l] \in 0 .. MaxTimeout
    <3>1. l \in Locks /\ ~ (ex[l] <= 0)
      BY <1>1, <2>1 DEF Due
    <3>2. ex[l] \in -1 .. MaxTimeout
      BY <3>1, <1>0
    <3> QED
      BY <3>1, <3>2, <1>0
  <2> QED
    BY <2>1, <1>0
<1>8. Max(V) \in V /\ \A y \in V : y <= Max(V)
  <2> HIDE DEF V
  <2>1. 0 \in V
    BY DEF V
  <2> QED
    BY <2>1, <1>7, MaxOfTimeouts
<1>9. w.ret \in V /\ \A y \in V : y <= w.ret
  <2>1. w.ret \in 0 .. MaxTimeout /\ \A j \in 1 .. Len(list) : ex[list[j]] <= w.ret
    BY <1>4 DEF RoundsDone
  <2>2. \A l \in A : ex[l] <= w.ret
    BY <2>1, <1>2
  <2>3. w.ret = 0 \/ \E l \in A \ D : w.ret = ex[l]
    BY <1>1, <1>2, <1>4 DEF RoundsDone
  <2> QED
    BY <2>1, <2>2, <2>3, <1>0
<1>10. w.ret = Max(V)
  <2> DEFINE m == Max(V)
             r == w.ret
  <2>1. m \in 0 .. MaxTimeout /\ r \in 0 .. MaxTimeout /\ m <= r /\ r <= m
    BY <1>7, <1>8, <1>9
  <2> HIDE DEF m, r
  <2>2. m = r
    BY <2>1, <1>0
  <2> QED
    BY <2>2 DEF m, r
<1>11. HasWakeLock(fl, ln, ex, S) = Max(V)
  BY DEF HasWakeLock, A
<1>12. w.left \in Seq(Locks) /\ IsInjective(w.left)
  BY <1>4 DEF RoundsDone
<1> QED
  BY <1>5, <1>6, <1>10, <1>11, <1>12 DEF w, A

\* The loop over a list in order returns and expires what WakeLock says, and
\* leaves a list in order.
LEMMA WalkOfList ==
  ASSUME NEW fl, NEW ln, NEW ex, Table(fl, ln, ex), NEW S \in SUBSET Locks,
         NEW list, ListOK(list, fl, ln, S)
  PROVE  LET w == has_wake_lock_locked(list, fl, ex)
             D == Expired(fl, ln, ex, S)
         IN  /\ w.ret = HasWakeLock(fl, ln, ex, S) /\ w.expired = D
             /\ ListOK(w.left, ExpireFlags(fl, D), ExpireLink(ln, D), S)
<1> DEFINE w == has_wake_lock_locked(list, fl, ex)
           A == Active(ln, S)
           D == Expired(fl, ln, ex, S)
<1>0. list \in Seq(Locks) /\ Len(list) \in Nat /\ DOMAIN list = 1 .. Len(list) /\ ToSet(list) = A
  BY DEF ListOK
<1>1. CASE Permanent(fl, ln, S) # {}
  <2>1. PICK p \in A : AUTO_EXPIRE \notin fl[p]
    BY <1>1 DEF Permanent
  <2>2. PICK k \in 1 .. Len(list) : p = list[k]
    BY <1>0, <2>1 DEF ToSet
  <2>3. 1 \in 1 .. Len(list) /\ (k = 1 \/ 1 < k) /\ list # <<>>
    BY <1>0, <2>2
  <2>4. AUTO_EXPIRE \notin fl[list[1]]
    BY <2>1, <2>2, <2>3 DEF ListOK
  <2>5. w = [ret |-> -1, expired |-> {}, left |-> list]
    BY <1>0, <2>3, <2>4, LoopStops
  <2>6. D = {} /\ HasWakeLock(fl, ln, ex, S) = -1
    BY <1>1 DEF Expired, HasWakeLock
  <2>7. ExpireFlags(fl, {}) = fl /\ ExpireLink(ln, {}) = ln
    BY DEF ExpireFlags, ExpireLink, Table
  <2> HIDE DEF w, D
  <2>8. w.ret = -1 /\ w.expired = {} /\ w.left = list
    BY <2>5
  <2> QED
    BY <2>6, <2>7, <2>8 DEF w, D
<1>2. CASE Permanent(fl, ln, S) = {}
  <2>1. /\ w.ret = HasWakeLock(fl, ln, ex, S) /\ w.expired = D
        /\ w.left \in Seq(Locks) /\ ToSet(w.left) = A \ D /\ IsInjective(w.left)
    BY <1>2, WalkOfTimeouts
  <2> HIDE DEF w, D
  <2>2. A \ D \subseteq Locks /\ \A l \in A : AUTO_EXPIRE \in fl[l]
    BY <1>2 DEF Active, Permanent
  <2>3. Active(ExpireLink(ln, D), S) = A \ D
    BY DEF ExpireLink, Active
  <2>4. \A l \in A \ D : AUTO_EXPIRE \in ExpireFlags(fl, D)[l]
    BY <2>2 DEF ExpireFlags
  <2>5. \A i \in 1 .. Len(w.left) : w.left[i] \in A \ D
    BY <2>1 DEF ToSet
  <2>6. ListOK(w.left, ExpireFlags(fl, D), ExpireLink(ln, D), S)
    BY <2>1, <2>3, <2>4, <2>5 DEF ListOK
  <2> QED
    BY <2>1, <2>6 DEF w, D
<1> QED
  BY <1>1, <1>2

\* Locks outside the list do not matter to it.
LEMMA ListKept ==
  ASSUME NEW fl, NEW ln, NEW fl2, NEW ln2, NEW S \in SUBSET Locks,
         NEW list, ListOK(list, fl, ln, S),
         Active(ln2, S) = Active(ln, S), \A l \in Active(ln, S) : fl2[l] = fl[l]
  PROVE  ListOK(list, fl2, ln2, S)
<1>1. \A i \in 1 .. Len(list) : list[i] \in Active(ln, S)
  BY DEF ListOK, ToSet
<1> QED
  BY <1>1 DEF ListOK

\* list_del
Removed(list, l) ==
  LET I == {i \in DOMAIN list : list[i] = l}
  IN  IF I = {} THEN list ELSE RemoveAt(list, CHOOSE i \in I : TRUE)

LEMMA Joined ==
  ASSUME NEW a \in Seq(Locks), NEW b \in Seq(Locks)
  PROVE  /\ a \o b \in Seq(Locks) /\ Len(a \o b) = Len(a) + Len(b)
         /\ \A k \in 1 .. Len(a) : (a \o b)[k] = a[k]
         /\ \A k \in Len(a) + 1 .. Len(a) + Len(b) : (a \o b)[k] = b[k - Len(a)]
<1>1. a \o b \in Seq(Locks) /\ Len(a \o b) = Len(a) + Len(b)
  OBVIOUS
<1>2. Len(a) \in Nat /\ Len(b) \in Nat
  OBVIOUS
<1>3. \A k \in 1 .. Len(a) : (a \o b)[k] = a[k]
  BY <1>2
<1>4. \A k \in Len(a) + 1 .. Len(a) + Len(b) : (a \o b)[k] = b[k - Len(a)]
  BY <1>2
<1> QED
  BY <1>1, <1>3, <1>4

LEMMA RemovedPlace ==
  ASSUME NEW list \in Seq(Locks), NEW p \in 1 .. Len(list)
  PROVE  /\ RemoveAt(list, p) \in Seq(Locks) /\ Len(RemoveAt(list, p)) = Len(list) - 1
         /\ \A k \in 1 .. Len(list) - 1 : RemoveAt(list, p)[k] = IF k < p THEN list[k] ELSE list[k + 1]
<1>0. Len(list) \in Nat /\ p \in Nat
  OBVIOUS
<1> DEFINE a == SubSeq(list, 1, p - 1)
           b == SubSeq(list, p + 1, Len(list))
<1>1. a \in Seq(Locks) /\ Len(a) = p - 1 /\ \A k \in 1 .. p - 1 : a[k] = list[k]
  BY <1>0
<1>2. b \in Seq(Locks) /\ Len(b) = Len(list) - p /\ \A k \in 1 .. Len(list) - p : b[k] = list[k + p]
  BY <1>0
<1>3. RemoveAt(list, p) = a \o b
  BY DEF RemoveAt
<1> HIDE DEF a, b
<1>4. /\ a \o b \in Seq(Locks) /\ Len(a \o b) = Len(list) - 1
      /\ \A k \in 1 .. p - 1 : (a \o b)[k] = a[k]
      /\ \A k \in p .. Len(list) - 1 : (a \o b)[k] = b[k - (p - 1)]
  <2>1. Len(a) \in Nat /\ Len(b) \in Nat /\ Len(a) + Len(b) = Len(list) - 1
    <3>1. Len(a) \in Nat /\ Len(b) \in Nat
      BY <1>1, <1>2
    <3>2. Len(a) = p - 1 /\ Len(b) = Len(list) - p
      BY <1>1, <1>2
    <3> QED
      BY <1>0, <3>1, <3>2
  <2>2. /\ a \o b \in Seq(Locks) /\ Len(a \o b) = Len(a) + Len(b)
        /\ \A k \in 1 .. Len(a) : (a \o b)[k] = a[k]
        /\ \A k \in Len(a) + 1 .. Len(a) + Len(b) : (a \o b)[k] = b[k - Len(a)]
    BY <1>1, <1>2, Joined
  <2>3. Len(a) = p - 1 /\ Len(a) + 1 = p
    BY <1>0, <1>1
  <2> QED
    BY <1>0, <2>1, <2>2, <2>3
<1>5. ASSUME NEW k \in 1 .. Len(list) - 1
      PROVE  (a \o b)[k] = IF k < p THEN list[k] ELSE list[k + 1]
  <2>1. CASE k < p
    <3>1. k \in 1 .. p - 1
      BY <1>0, <2>1
    <3> QED
      BY <3>1, <2>1, <1>1, <1>4
  <2>2. CASE ~ (k < p)
    <3>1. k \in p .. Len(list) - 1 /\ k - (p - 1) \in 1 .. Len(list) - p /\ (k - (p - 1)) + p = k + 1
      BY <1>0, <2>2
    <3> QED
      BY <3>1, <2>2, <1>2, <1>4
  <2> QED
    BY <2>1, <2>2
<1> QED
  BY <1>3, <1>4, <1>5

\* What is left of a list is in the same order.
LEMMA RemovedList ==
  ASSUME NEW list \in Seq(Locks), IsInjective(list), NEW l
  PROVE  LET u == Removed(list, l)
         IN  /\ u \in Seq(Locks) /\ ToSet(u) = ToSet(list) \ {l} /\ IsInjective(u)
             /\ \A i, j \in 1 .. Len(u) : i < j =>
                  \E a, b \in 1 .. Len(list) : a < b /\ u[i] = list[a] /\ u[j] = list[b]
<1> DEFINE u == Removed(list, l)
           I == {i \in DOMAIN list : list[i] = l}
<1>0. Len(list) \in Nat /\ DOMAIN list = 1 .. Len(list)
  OBVIOUS
<1>1. CASE I = {}
  <2>1. u = list
    BY <1>1 DEF Removed
  <2>2. l \notin ToSet(list)
    BY <1>1 DEF ToSet
  <2> QED
    BY <2>1, <2>2
<1>2. CASE I # {}
  <2> DEFINE p == CHOOSE i \in I : TRUE
  <2>1. p \in I
    BY <1>2
  <2>2. u = RemoveAt(list, p)
    BY <1>2 DEF Removed
  <2> HIDE DEF p
  <2>3. p \in 1 .. Len(list) /\ list[p] = l
    BY <2>1, <1>0
  <2>4. /\ u \in Seq(Locks) /\ Len(u) = Len(list) - 1
        /\ \A k \in 1 .. Len(list) - 1 : u[k] = IF k < p THEN list[k] ELSE list[k + 1]
    <3> HIDE DEF u
    <3> QED
      BY <2>2, <2>3, RemovedPlace
  <2> HIDE DEF u
  <2> DEFINE at(k) == IF k < p THEN k ELSE k + 1
  <2>5. \A k \in 1 .. Len(u) : at(k) \in 1 .. Len(list) /\ at(k) # p /\ u[k] = list[at(k)]
    BY <1>0, <2>3, <2>4
  <2>6. \A i, j \in 1 .. Len(u) : i < j => at(i) < at(j)
    BY <1>0, <2>3, <2>4
  <2>7. DOMAIN u = 1 .. Len(u) /\ Len(u) \in Nat
    BY <2>4
  <2>8. \A k \in 1 .. Len(list) : k = p \/ \E m \in 1 .. Len(u) : at(m) = k
    <3>1. SUFFICES ASSUME NEW k \in 1 .. Len(list), k # p
                   PROVE  \E m \in 1 .. Len(u) : at(m) = k
      OBVIOUS
    <3>2. CASE k < p
      <4>1. k \in 1 .. Len(u) /\ at(k) = k
        BY <1>0, <2>3, <2>4, <3>2
      <4> QED
        BY <4>1
    <3>3. CASE k > p
      <4>1. k - 1 \in 1 .. Len(u) /\ at(k - 1) = k
        BY <1>0, <2>3, <2>4, <3>3
      <4> QED
        BY <4>1
    <3> QED
      BY <3>1, <3>2, <3>3, <1>0, <2>3
  <2>9. \A k \in 1 .. Len(list) : list[k] = l => k = p
    BY <1>0, <2>3 DEF IsInjective
  <2> HIDE DEF at
  <2>10. ToSet(u) \subseteq ToSet(list) \ {l}
    BY <1>0, <2>5, <2>7, <2>9 DEF ToSet
  <2>11. ToSet(list) \ {l} \subseteq ToSet(u)
    BY <1>0, <2>3, <2>5, <2>7, <2>8 DEF ToSet
  <2>12. IsInjective(u)
    <3>1. SUFFICES ASSUME NEW a \in 1 .. Len(u), NEW b \in 1 .. Len(u), u[a] = u[b] PROVE a = b
      BY <2>7 DEF IsInjective
    <3>2. at(a) = at(b) /\ at(a) \in Int
      BY <3>1, <2>5, <1>0 DEF IsInjective
    <3>3. ~ (a < b) /\ ~ (b < a)
      BY <3>2, <2>6
    <3> QED
      BY <3>3, <2>7
  <2>13. \A i, j \in 1 .. Len(u) : i < j =>
           \E a, b \in 1 .. Len(list) : a < b /\ u[i] = list[a] /\ u[j] = list[b]
    BY <2>5, <2>6
  <2> QED
    BY <2>4, <2>10, <2>11, <2>12, <2>13 DEF u
<1> QED
  BY <1>1, <1>2

-----------------------------------------------------------------------------
(* What each operation does to the lists.                                  *)

LEMMA TypeFacts ==
  /\ \A type \in Type : LocksOf(type) \in SUBSET Locks
  /\ \A l \in Locks : TypeOf(l) \in Type
  /\ \A l \in Locks, type \in Type : l \in LocksOf(type) <=> type = TypeOf(l)
  /\ \A l \in SuspendLocks : l \in Locks /\ TypeOf(l) = "WAKE_LOCK_SUSPEND"
  /\ LocksOf("WAKE_LOCK_SUSPEND") = SuspendLocks /\ "WAKE_LOCK_SUSPEND" \in Type
BY LocksAssumption DEF Type, TypeOf, LocksOf

\* The lists after an operation that does not walk.
LEMMA StoreList ==
  ASSUME Lists, NEW type \in Type, NEW list, SetList(type, list),
         ListOK(list, flags', link', LocksOf(type)),
         \A other \in Type \ {type} : ListOK(active_wake_locks[other], flags', link', LocksOf(other))
  PROVE  Lists'
<1>1. active_wake_locks' = [active_wake_locks EXCEPT ![type] = list]
  BY DEF SetList
<1>2. list \in Seq(Locks) /\ active_wake_locks \in [Type -> Seq(Locks)]
  BY DEF ListOK, Lists
<1>3. active_wake_locks' \in [Type -> Seq(Locks)]
  BY <1>1, <1>2
<1>4. \A other \in Type : active_wake_locks'[other] = IF other = type THEN list ELSE active_wake_locks[other]
  BY <1>1, <1>2
<1>5. \A other \in Type : ListOK(active_wake_locks'[other], flags', link', LocksOf(other))
  BY <1>4
<1> QED
  BY <1>3, <1>5 DEF Lists

\* The lists after an operation that walks the list it has changed.
LEMMA StoreWalked ==
  ASSUME Lists, NEW fl, NEW ln, NEW ex, Table(fl, ln, ex), NEW type \in Type, NEW list,
         ListOK(list, fl, ln, LocksOf(type)),
         \A other \in Type \ {type} : ListOK(active_wake_locks[other], fl, ln, LocksOf(other)),
         Walk(fl, ln, ex, LocksOf(type)), SetList(type, Walked(list, fl, ex))
  PROVE  Lists'
<1> DEFINE D == Expired(fl, ln, ex, LocksOf(type))
<1>0. LocksOf(type) \in SUBSET Locks
  BY TypeFacts
<1>1. flags' = ExpireFlags(fl, D) /\ link' = ExpireLink(ln, D)
  BY DEF Walk
<1>2. ListOK(Walked(list, fl, ex), flags', link', LocksOf(type))
  <2> HIDE DEF D
  <2>1. ListOK(has_wake_lock_locked(list, fl, ex).left, ExpireFlags(fl, D), ExpireLink(ln, D), LocksOf(type))
    BY <1>0, WalkOfList DEF D
  <2> QED
    BY <2>1, <1>1 DEF Walked
<1>3. D \subseteq LocksOf(type)
  BY DEF Expired, Active
<1> HIDE DEF D
<1>4. ASSUME NEW other \in Type \ {type}
      PROVE  ListOK(active_wake_locks[other], flags', link', LocksOf(other))
  <2>1. LocksOf(other) \in SUBSET Locks /\ LocksOf(other) \cap D = {}
    BY <1>3, TypeFacts
  <2>2. \A l \in LocksOf(other) : flags'[l] = fl[l] /\ link'[l] = ln[l]
    BY <1>1, <2>1 DEF ExpireFlags, ExpireLink
  <2>3. Active(link', LocksOf(other)) = Active(ln, LocksOf(other))
    BY <2>2 DEF Active
  <2>4. \A l \in Active(ln, LocksOf(other)) : flags'[l] = fl[l]
    BY <2>2 DEF Active
  <2>5. ListOK(active_wake_locks[other], fl, ln, LocksOf(other))
    OBVIOUS
  <2> HIDE DEF ListOK
  <2> QED
    BY <2>1, <2>3, <2>4, <2>5, ListKept
<1> QED
  BY <1>2, <1>4, StoreList

\* A change of lock l leaves the lists of the other types alone.
LEMMA OthersKept ==
  ASSUME Lists, Table(flags, link, expires), NEW l \in Locks, NEW x, NEW y,
         NEW other \in Type \ {TypeOf(l)}
  PROVE  ListOK(active_wake_locks[other], [flags EXCEPT ![l] = x], [link EXCEPT ![l] = y], LocksOf(other))
<1> DEFINE fl == [flags EXCEPT ![l] = x]
           ln == [link EXCEPT ![l] = y]
           S == LocksOf(other)
<1>1. S \in SUBSET Locks /\ l \notin S
  BY TypeFacts
<1>2. \A k \in S : fl[k] = flags[k] /\ ln[k] = link[k]
  BY <1>1 DEF Table
<1>3. ListOK(active_wake_locks[other], flags, link, S)
  BY DEF Lists
<1> HIDE DEF fl, ln
<1>4. Active(ln, S) = Active(link, S) /\ \A k \in Active(link, S) : fl[k] = flags[k]
  BY <1>2 DEF Active
<1>5. ListOK(active_wake_locks[other], fl, ln, S)
  BY <1>1, <1>3, <1>4, ListKept
<1> QED
  BY <1>5 DEF fl, ln

\* The list of lock l without it, and without what it was.
LEMMA UnlinkedFacts ==
  ASSUME Lists, Table(flags, link, expires), NEW l \in Locks, NEW x, NEW y
  PROVE  LET fl == [flags EXCEPT ![l] = x]
             ln == [link EXCEPT ![l] = y]
             u == Unlinked(l)
             S == LocksOf(TypeOf(l))
         IN  /\ u \in Seq(Locks) /\ IsInjective(u) /\ l \notin ToSet(u)
             /\ Active(ln, S) = IF y = "active" THEN ToSet(u) \cup {l} ELSE ToSet(u)
             /\ \A i, j \in 1 .. Len(u) :
                  i < j /\ AUTO_EXPIRE \in fl[u[i]] => AUTO_EXPIRE \in fl[u[j]]
<1> DEFINE fl == [flags EXCEPT ![l] = x]
           ln == [link EXCEPT ![l] = y]
           S == LocksOf(TypeOf(l))
           list == active_wake_locks[TypeOf(l)]
           u == Removed(list, l)
<1>1. S \in SUBSET Locks /\ l \in S /\ TypeOf(l) \in Type
  BY TypeFacts
<1>2. ListOK(list, flags, link, S)
  BY <1>1 DEF Lists
<1>3. Unlinked(l) = u
  BY DEF Unlinked, Removed
<1> HIDE DEF list, u
<1>4. /\ u \in Seq(Locks) /\ ToSet(u) = ToSet(list) \ {l} /\ IsInjective(u)
      /\ \A i, j \in 1 .. Len(u) : i < j =>
           \E a, b \in 1 .. Len(list) : a < b /\ u[i] = list[a] /\ u[j] = list[b]
  BY <1>2, RemovedList DEF ListOK, u
<1>5. \A k \in S : k # l => fl[k] = flags[k] /\ ln[k] = link[k]
  BY <1>1 DEF Table
<1>6. ln[l] = y
  BY DEF Table
<1>7. ToSet(u) = Active(link, S) \ {l}
  BY <1>2, <1>4 DEF ListOK
<1> HIDE DEF fl, ln
<1>8. Active(ln, S) = IF y = "active" THEN ToSet(u) \cup {l} ELSE ToSet(u)
  BY <1>1, <1>5, <1>6, <1>7 DEF Active
<1>9. \A i \in 1 .. Len(u) : u[i] # l /\ u[i] \in S
  <2>1. \A i \in 1 .. Len(u) : u[i] \in ToSet(u)
    BY <1>4 DEF ToSet
  <2> QED
    BY <2>1, <1>7 DEF Active
<1>10. ASSUME NEW i \in 1 .. Len(u), NEW j \in 1 .. Len(u), i < j, AUTO_EXPIRE \in fl[u[i]]
       PROVE  AUTO_EXPIRE \in fl[u[j]]
  <2>1. fl[u[i]] = flags[u[i]] /\ fl[u[j]] = flags[u[j]]
    BY <1>5, <1>9
  <2>2. PICK a, b \in 1 .. Len(list) : a < b /\ u[i] = list[a] /\ u[j] = list[b]
    BY <1>4, <1>10
  <2> QED
    BY <2>1, <2>2, <1>2, <1>10 DEF ListOK
<1> QED
  BY <1>3, <1>4, <1>8, <1>10 DEF fl, ln

\* list_del
LEMMA UnlinkedOK ==
  ASSUME Lists, Table(flags, link, expires), NEW l \in Locks, NEW x, NEW y, y # "active"
  PROVE  ListOK(Unlinked(l), [flags EXCEPT ![l] = x], [link EXCEPT ![l] = y], LocksOf(TypeOf(l)))
BY UnlinkedFacts DEF ListOK

\* list_add, of a lock without a timeout.
LEMMA HeadOK ==
  ASSUME Lists, Table(flags, link, expires), NEW l \in Locks, NEW x, AUTO_EXPIRE \notin x
  PROVE  ListOK(<<l>> \o Unlinked(l), [flags EXCEPT ![l] = x], [link EXCEPT ![l] = "active"],
                LocksOf(TypeOf(l)))
<1> DEFINE fl == [flags EXCEPT ![l] = x]
           ln == [link EXCEPT ![l] = "active"]
           u == Unlinked(l)
           S == LocksOf(TypeOf(l))
           t == <<l>> \o u
<1>1. /\ u \in Seq(Locks) /\ IsInjective(u) /\ l \notin ToSet(u)
      /\ Active(ln, S) = ToSet(u) \cup {l}
      /\ \A i, j \in 1 .. Len(u) : i < j /\ AUTO_EXPIRE \in fl[u[i]] => AUTO_EXPIRE \in fl[u[j]]
  BY UnlinkedFacts
<1>2. fl[l] = x
  BY DEF Table
<1> HIDE DEF fl, ln, u, S
<1>3. /\ t \in Seq(Locks) /\ Len(t) = Len(u) + 1
      /\ t[1] = l /\ \A k \in 1 .. Len(u) : t[k + 1] = u[k]
      /\ ToSet(t) = ToSet(u) \cup {l} /\ IsInjective(t)
  BY <1>1, Prepend
<1> HIDE DEF t
<1>4. Len(u) \in Nat
  BY <1>1
<1>5. ASSUME NEW i \in 1 .. Len(t), NEW j \in 1 .. Len(t), i < j, AUTO_EXPIRE \in fl[t[i]]
      PROVE  AUTO_EXPIRE \in fl[t[j]]
  <2>1. i # 1
    BY <1>2, <1>3, <1>5
  <2>2. /\ i - 1 \in 1 .. Len(u) /\ j - 1 \in 1 .. Len(u) /\ i - 1 < j - 1
        /\ (i - 1) + 1 = i /\ (j - 1) + 1 = j
    BY <1>3, <1>4, <1>5, <2>1
  <2>3. t[i] = u[i - 1] /\ t[j] = u[j - 1]
    BY <1>3, <2>2
  <2> QED
    BY <1>1, <1>5, <2>2, <2>3
<1>6. ListOK(t, fl, ln, S)
  BY <1>1, <1>3, <1>5 DEF ListOK
<1> QED
  BY <1>6 DEF t, fl, ln, u, S

\* list_add_tail, of a lock with a timeout.
LEMMA TailOK ==
  ASSUME Lists, Table(flags, link, expires), NEW l \in Locks, NEW x, AUTO_EXPIRE \in x
  PROVE  ListOK(Append(Unlinked(l), l), [flags EXCEPT ![l] = x], [link EXCEPT ![l] = "active"],
                LocksOf(TypeOf(l)))
<1> DEFINE fl == [flags EXCEPT ![l] = x]
           ln == [link EXCEPT ![l] = "active"]
           u == Unlinked(l)
           S == LocksOf(TypeOf(l))
           t == Append(u, l)
<1>1. /\ u \in Seq(Locks) /\ IsInjective(u) /\ l \notin ToSet(u)
      /\ Active(ln, S) = ToSet(u) \cup {l}
      /\ \A i, j \in 1 .. Len(u) : i < j /\ AUTO_EXPIRE \in fl[u[i]] => AUTO_EXPIRE \in fl[u[j]]
  BY UnlinkedFacts
<1>2. fl[l] = x
  BY DEF Table
<1> HIDE DEF fl, ln, u, S
<1>3. Len(u) \in Nat /\ DOMAIN u = 1 .. Len(u)
  BY <1>1
<1>4. /\ t \in Seq(Locks) /\ Len(t) = Len(u) + 1 /\ DOMAIN t = 1 .. Len(u) + 1
      /\ t[Len(u) + 1] = l /\ \A k \in 1 .. Len(u) : t[k] = u[k]
  BY <1>1, <1>3
<1> HIDE DEF t
<1>5. \A k \in 1 .. Len(u) + 1 : k \in 1 .. Len(u) \/ k = Len(u) + 1
  BY <1>3
<1>6. \A k \in 1 .. Len(u) : k \in DOMAIN t /\ u[k] # l
  BY <1>1, <1>3, <1>4 DEF ToSet
<1>7. ToSet(t) = ToSet(u) \cup {l}
  <2>1. Len(u) + 1 \in DOMAIN t
    BY <1>3, <1>4
  <2> QED
    BY <2>1, <1>3, <1>4, <1>5, <1>6 DEF ToSet
<1>8. IsInjective(t)
  <2>1. SUFFICES ASSUME NEW a \in 1 .. Len(u) + 1, NEW b \in 1 .. Len(u) + 1, t[a] = t[b] PROVE a = b
    BY <1>4 DEF IsInjective
  <2>2. CASE a = Len(u) + 1 \/ b = Len(u) + 1
    BY <1>4, <1>5, <1>6, <2>1, <2>2
  <2>3. CASE a \in 1 .. Len(u) /\ b \in 1 .. Len(u)
    BY <1>1, <1>3, <1>4, <2>1, <2>3 DEF IsInjective
  <2> QED
    BY <1>5, <2>2, <2>3
<1>9. ASSUME NEW i \in 1 .. Len(t), NEW j \in 1 .. Len(t), i < j, AUTO_EXPIRE \in fl[t[i]]
      PROVE  AUTO_EXPIRE \in fl[t[j]]
  <2>1. CASE j = Len(u) + 1
    BY <1>2, <1>4, <2>1
  <2>2. CASE j # Len(u) + 1
    <3>1. i \in 1 .. Len(u) /\ j \in 1 .. Len(u)
      BY <1>3, <1>4, <1>9, <2>2
    <3> QED
      BY <3>1, <1>1, <1>4, <1>9
  <2> QED
    BY <2>1, <2>2
<1>10. ListOK(t, fl, ln, S)
  BY <1>1, <1>4, <1>7, <1>8, <1>9 DEF ListOK
<1> QED
  BY <1>10 DEF t, fl, ln, u, S

LEMMA TableOfInv ==
  ASSUME Inv
  PROVE  Table(flags, link, expires)
BY DEF Inv, TypeOK, Table

\* Steps that change no flag and no list.
LEMMA ListsUntouched ==
  ASSUME Lists, UNCHANGED <<flags, link, active_wake_locks>>
  PROVE  Lists'
BY DEF Lists

LEMMA ListInitStep ==
  ASSUME Inv, Lists, NEW l \in Locks, wake_lock_init(l), UNCHANGED active_wake_locks
  PROVE  Lists'
<1>1. /\ flags' = [flags EXCEPT ![l] = {INITIALIZED}] /\ link' = [link EXCEPT ![l] = "inactive"]
      /\ INITIALIZED \notin flags[l]
  BY DEF wake_lock_init
<1>2. link[l] # "active"
  BY <1>1 DEF Inv, ListMatchesFlags
<1>3. ASSUME NEW type \in Type
      PROVE  ListOK(active_wake_locks[type], flags', link', LocksOf(type))
  <2>1. LocksOf(type) \in SUBSET Locks
    BY TypeFacts
  <2>2. Active(link', LocksOf(type)) = Active(link, LocksOf(type))
    BY <1>1, <1>2, <2>1, TableOfInv DEF Active, Table
  <2>3. \A k \in Active(link, LocksOf(type)) : flags'[k] = flags[k]
    BY <1>1, <1>2, <2>1, TableOfInv DEF Active, Table
  <2>4. ListOK(active_wake_locks[type], flags, link, LocksOf(type))
    BY DEF Lists
  <2> QED
    BY <2>1, <2>2, <2>3, <2>4, ListKept
<1> QED
  BY <1>3 DEF Lists

LEMMA ListDestroyStep ==
  ASSUME Inv, Lists, NEW l \in Locks, wake_lock_destroy(l), ListDestroy(l)
  PROVE  Lists'
<1>0. Table(flags, link, expires) /\ TypeOf(l) \in Type
  BY TableOfInv, TypeFacts
<1> DEFINE x == flags[l] \ {INITIALIZED}
<1>1. flags' = [flags EXCEPT ![l] = x] /\ link' = [link EXCEPT ![l] = "none"]
  BY DEF wake_lock_destroy
<1>2. SetList(TypeOf(l), Unlinked(l))
  BY DEF ListDestroy
<1> HIDE DEF x
<1>3. ListOK(Unlinked(l), flags', link', LocksOf(TypeOf(l)))
  BY <1>0, <1>1, UnlinkedOK
<1>4. \A other \in Type \ {TypeOf(l)} : ListOK(active_wake_locks[other], flags', link', LocksOf(other))
  BY <1>0, <1>1, OthersKept
<1> QED
  BY <1>0, <1>2, <1>3, <1>4, StoreList

LEMMA ListLockStep ==
  ASSUME Inv, Lists, NEW l \in Locks, wake_lock(l), ListLock(l)
  PROVE  Lists'
<1>0. Table(flags, link, expires) /\ TypeOf(l) \in Type
  BY TableOfInv, TypeFacts
<1> DEFINE x == (flags[l] \cup {ACTIVE}) \ {AUTO_EXPIRE}
<1>1. flags' = [flags EXCEPT ![l] = x] /\ link' = [link EXCEPT ![l] = "active"]
  BY DEF wake_lock
<1>2. SetList(TypeOf(l), <<l>> \o Unlinked(l))
  BY DEF ListLock
<1>3. AUTO_EXPIRE \notin x
  OBVIOUS
<1> HIDE DEF x
<1>4. ListOK(<<l>> \o Unlinked(l), flags', link', LocksOf(TypeOf(l)))
  BY <1>0, <1>1, <1>3, HeadOK
<1>5. \A other \in Type \ {TypeOf(l)} : ListOK(active_wake_locks[other], flags', link', LocksOf(other))
  BY <1>0, <1>1, OthersKept
<1> QED
  BY <1>0, <1>2, <1>4, <1>5, StoreList

LEMMA ListTimeoutStep ==
  ASSUME Inv, Lists, NEW l \in Locks, NEW t \in 0 .. MaxTimeout,
         LockTimeout(l, t), ListLockTimeout(l, t)
  PROVE  Lists'
<1>0. Table(flags, link, expires) /\ TypeOf(l) \in Type
  BY TableOfInv, TypeFacts
<1> DEFINE x == flags[l] \cup {ACTIVE, AUTO_EXPIRE}
           fl == [flags EXCEPT ![l] = x]
           ln == [link EXCEPT ![l] = "active"]
           ex == [expires EXCEPT ![l] = t]
           list == Append(Unlinked(l), l)
<1>1. /\ l \in SuspendLocks => Walk(fl, ln, ex, SuspendLocks)
      /\ l \notin SuspendLocks => flags' = fl /\ link' = ln
  BY DEF LockTimeout
<1>2. SetList(TypeOf(l), IF l \in SuspendLocks THEN Walked(list, fl, ex) ELSE list)
  BY DEF ListLockTimeout
<1>3. Table(fl, ln, ex)
  <2>1. MaxTimeout \in Nat /\ t \in -1 .. MaxTimeout
    BY TimeoutAssumption
  <2> QED
    BY <2>1, <1>0 DEF Table, Flag
<1>4. AUTO_EXPIRE \in x
  OBVIOUS
<1> HIDE DEF x, list
<1>5. ListOK(list, fl, ln, LocksOf(TypeOf(l)))
  BY <1>0, <1>4, TailOK DEF list
<1>6. \A other \in Type \ {TypeOf(l)} : ListOK(active_wake_locks[other], fl, ln, LocksOf(other))
  BY <1>0, OthersKept
<1> HIDE DEF fl, ln, ex
<1>7. CASE l \in SuspendLocks
  <2>1. LocksOf(TypeOf(l)) = SuspendLocks
    BY <1>7, TypeFacts
  <2> QED
    BY <1>0, <1>1, <1>2, <1>3, <1>5, <1>6, <1>7, <2>1, StoreWalked
<1>8. CASE l \notin SuspendLocks
  BY <1>0, <1>1, <1>2, <1>5, <1>6, <1>8, StoreList
<1> QED
  BY <1>7, <1>8

LEMMA ListUnlockStep ==
  ASSUME Inv, Lists, NEW l \in Locks, wake_unlock(l), ListUnlock(l)
  PROVE  Lists'
<1>0. Table(flags, link, expires) /\ TypeOf(l) \in Type
  BY TableOfInv, TypeFacts
<1> DEFINE x == flags[l] \ {ACTIVE, AUTO_EXPIRE}
           fl == [flags EXCEPT ![l] = x]
           ln == [link EXCEPT ![l] = "inactive"]
           list == Unlinked(l)
<1>1. /\ l \in SuspendLocks => Walk(fl, ln, expires, SuspendLocks)
      /\ l \notin SuspendLocks => flags' = fl /\ link' = ln
  BY DEF wake_unlock
<1>2. /\ l \in SuspendLocks => SetList(TypeOf(l), Walked(list, fl, expires))
      /\ l \notin SuspendLocks => SetList(TypeOf(l), list)
  BY DEF ListUnlock
<1>3. Table(fl, ln, expires)
  BY <1>0 DEF Table, Flag
<1> HIDE DEF x
<1>5. ListOK(list, fl, ln, LocksOf(TypeOf(l)))
  BY <1>0, UnlinkedOK
<1>6. \A other \in Type \ {TypeOf(l)} : ListOK(active_wake_locks[other], fl, ln, LocksOf(other))
  BY <1>0, OthersKept
<1> HIDE DEF fl, ln, list
<1>7. CASE l \in SuspendLocks
  <2>1. LocksOf(TypeOf(l)) = SuspendLocks
    BY <1>7, TypeFacts
  <2> QED
    BY <1>0, <1>1, <1>2, <1>3, <1>5, <1>6, <1>7, <2>1, StoreWalked
<1>8. CASE l \notin SuspendLocks
  BY <1>0, <1>1, <1>2, <1>5, <1>6, <1>8, StoreList
<1> QED
  BY <1>7, <1>8

LEMMA ListWalkStep ==
  ASSUME Inv, Lists, NEW type \in Type, Walk(flags, link, expires, LocksOf(type)), ListWalk(type)
  PROVE  Lists'
<1>1. Table(flags, link, expires)
  BY TableOfInv
<1>2. \A other \in Type : ListOK(active_wake_locks[other], flags, link, LocksOf(other))
  BY DEF Lists
<1>3. SetList(type, Walked(active_wake_locks[type], flags, expires))
  BY DEF ListWalk
<1> QED
  BY <1>1, <1>2, <1>3, StoreWalked

LEMMA ListInitLists == ListInit => Lists
<1> SUFFICES ASSUME ListInit PROVE Lists
  OBVIOUS
<1>0. Init /\ main_wake_lock \in SuspendLocks /\ main_wake_lock \in Locks
  BY LocksAssumption DEF ListInit, KernelLocks
<1>1. Inv
  BY <1>0, InitInv
<1>2. link = [l \in Locks |->
        IF l = main_wake_lock THEN "active" ELSE IF l \in KernelLocks THEN "inactive" ELSE "none"]
  BY <1>0 DEF Init
<1>3. \A l \in Locks : link[l] = "active" <=> l = main_wake_lock
  BY <1>2
<1>4. active_wake_locks = [type \in Type |->
        IF type = "WAKE_LOCK_SUSPEND" THEN <<main_wake_lock>> ELSE <<>>]
  BY DEF ListInit
<1>5. active_wake_locks \in [Type -> Seq(Locks)]
  BY <1>0, <1>4
<1>6. ASSUME NEW type \in Type
      PROVE  ListOK(active_wake_locks[type], flags, link, LocksOf(type))
  <2>0. LocksOf(type) \in SUBSET Locks
    BY TypeFacts
  <2>1. CASE type = "WAKE_LOCK_SUSPEND"
    <3> DEFINE s == <<main_wake_lock>>
    <3>1. active_wake_locks[type] = s
      BY <1>4, <2>1
    <3>2. Active(link, LocksOf(type)) = {main_wake_lock}
      BY <1>0, <1>3, <2>0, <2>1 DEF Active, LocksOf
    <3>3. s \in Seq(Locks) /\ Len(s) = 1 /\ DOMAIN s = {1} /\ s[1] = main_wake_lock
      BY <1>0
    <3> HIDE DEF s
    <3>4. ToSet(s) = {main_wake_lock} /\ IsInjective(s)
      BY <3>3 DEF ToSet, IsInjective
    <3>5. \A i, j \in 1 .. Len(s) : ~ (i < j)
      BY <3>3
    <3> QED
      BY <3>1, <3>2, <3>3, <3>4, <3>5 DEF ListOK
  <2>2. CASE type # "WAKE_LOCK_SUSPEND"
    <3> DEFINE s == <<>>
    <3>1. active_wake_locks[type] = s
      BY <1>4, <2>2
    <3>2. Active(link, LocksOf(type)) = {}
      BY <1>0, <1>3, <2>0, <2>2 DEF Active, LocksOf
    <3>3. s \in Seq(Locks) /\ Len(s) = 0 /\ DOMAIN s = {}
      OBVIOUS
    <3> HIDE DEF s
    <3>4. ToSet(s) = {} /\ IsInjective(s)
      BY <3>3 DEF ToSet, IsInjective
    <3> QED
      BY <3>1, <3>2, <3>3, <3>4 DEF ListOK
  <2> QED
    BY <2>1, <2>2
<1> QED
  BY <1>5, <1>6 DEF Lists

LEMMA ListClientStep ==
  ASSUME Inv, Lists, ListClient
  PROVE  Lists'
<1>0. ClientLocks \cup {main_wake_lock} \subseteq Locks
  BY LocksAssumption DEF ClientLocks, KernelLocks
<1>1. CASE \E l \in ClientLocks :
             \/ wake_lock_init(l) /\ UNCHANGED active_wake_locks
             \/ wake_lock_destroy(l) /\ ListDestroy(l)
  BY <1>0, <1>1, ListInitStep, ListDestroyStep
<1>2. CASE \E l \in ClientLocks : \E t \in 0 .. MaxTimeout : wake_lock_timeout(l, t) /\ ListLockTimeout(l, t)
  BY <1>0, <1>2, ListTimeoutStep DEF wake_lock_timeout
<1>3. CASE \E l \in ClientLocks \cup {main_wake_lock} :
             (wake_lock(l) /\ ListLock(l)) \/ (wake_unlock(l) /\ ListUnlock(l))
  BY <1>0, <1>3, ListLockStep, ListUnlockStep
<1>4. CASE \E type \in Type : has_wake_lock(LocksOf(type)) /\ ListWalk(type)
  BY <1>4, ListWalkStep DEF has_wake_lock
<1> QED
  BY <1>1, <1>2, <1>3, <1>4 DEF ListClient

LEMMA ListTimerStep ==
  ASSUME Inv, Lists, ListTimer
  PROVE  Lists'
<1>1. CASE (Tick \/ TimerFires) /\ UNCHANGED active_wake_locks
  BY <1>1, ListsUntouched DEF Tick, TimerFires, lock_vars
<1>2. CASE expire_wake_locks /\ ListWalk("WAKE_LOCK_SUSPEND")
  BY <1>2, TypeFacts, ListWalkStep DEF expire_wake_locks
<1> QED
  BY <1>1, <1>2 DEF ListTimer

LEMMA ListWorkerStep ==
  ASSUME Inv, Lists, NEW w \in Workers, ListWorker(w)
  PROVE  Lists'
<1>0. /\ suspend_backoff_lock \in Locks /\ unknown_wakeup \in Locks
      /\ SUSPEND_BACKOFF_INTERVAL \in 0 .. MaxTimeout /\ UNKNOWN_WAKEUP_TIMEOUT \in 0 .. MaxTimeout
  BY LocksAssumption, TimeoutAssumption DEF KernelLocks
<1>1. CASE /\ \/ SuspendStart(w) \/ SuspendEntry(w) \/ SuspendReturn(w) \/ SuspendCount(w)
              \/ SuspendCompare(w) \/ SuspendReset(w) \/ SuspendEvent(w)
           /\ UNCHANGED active_wake_locks
  BY <1>1, ListsUntouched DEF SuspendStart, SuspendEntry, SuspendReturn, SuspendCount, SuspendCompare,
     SuspendReset, SuspendEvent, lock_vars
<1>2. CASE SuspendCheck(w) /\ ListWalk("WAKE_LOCK_SUSPEND")
  BY <1>2, TypeFacts, ListWalkStep DEF SuspendCheck
<1>3. CASE suspend_backoff(w) /\ ListLockTimeout(suspend_backoff_lock, SUSPEND_BACKOFF_INTERVAL)
  BY <1>0, <1>3, ListTimeoutStep DEF suspend_backoff
<1>4. CASE SuspendUnknown(w) /\ ListLockTimeout(unknown_wakeup, UNKNOWN_WAKEUP_TIMEOUT)
  BY <1>0, <1>4, ListTimeoutStep DEF SuspendUnknown
<1> QED
  BY <1>1, <1>2, <1>3, <1>4 DEF ListWorker

LEMMA ListNextInv ==
  ASSUME Inv, Lists, [ListNext]_<<vars, active_wake_locks>>
  PROVE  Inv' /\ Lists'
<1>1. Inv'
  BY ListStepsWakeLock, NextInv
<1>2. CASE UNCHANGED <<vars, active_wake_locks>>
  <2>1. UNCHANGED vars /\ UNCHANGED active_wake_locks
    BY <1>2
  <2>2. UNCHANGED <<flags, link>>
    BY <2>1 DEF vars
  <2>3. Lists'
    BY <2>1, <2>2, ListsUntouched
  <2> QED
    BY <1>1, <2>3
<1>3. CASE ListNext
  <2>1. CASE \E w \in Workers : ListWorker(w)
    BY <1>1, <2>1, ListWorkerStep
  <2>2. CASE ListClient
    BY <1>1, <2>2, ListClientStep
  <2>3. CASE ListTimer
    BY <1>1, <2>3, ListTimerStep
  <2> QED
    BY <1>3, <2>1, <2>2, <2>3 DEF ListNext
<1> QED
  BY <1>1, <1>2, <1>3

\* ListsConsistent, for any locks and timeouts: list_add, list_add_tail and
\* list_del keep locks without a timeout in front, so that the loop of
\* has_wake_lock_locked, which returns at the first of them, still returns
\* and expires exactly what the set of active locks says.
THEOREM LoopIsExact == ListSpec => []ListsConsistent
<1>1. ListInit => Inv /\ Lists
  BY InitInv, ListInitLists DEF ListInit
<1>2. Inv /\ Lists /\ [ListNext]_<<vars, active_wake_locks>> => Inv' /\ Lists'
  BY ListNextInv
<1>3. Inv /\ Lists => ListsConsistent
  <2> SUFFICES ASSUME Inv, Lists PROVE ListsConsistent
    OBVIOUS
  <2>1. TypeOK
    BY DEF Inv
  <2>2. ListsAreLinked
    BY DEF Lists, ListOK, ListsAreLinked
  <2>3. WalkAgrees
    BY TableOfInv, TypeFacts, WalkOfList DEF Lists, WalkAgrees
  <2> QED
    BY <2>1, <2>2, <2>3 DEF ListsConsistent
<1> QED
  BY <1>1, <1>2, <1>3, PTL DEF ListSpec
=============================================================================
