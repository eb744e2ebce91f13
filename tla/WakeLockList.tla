---------------------------- MODULE WakeLockList ----------------------------
(***************************************************************************)
(* WakeLock with the linked lists it leaves out: active_wake_locks[type]   *)
(* in the order in which wakelock.c links the locks, and the loop of       *)
(* has_wake_lock_locked over it.  WakeLock says what a walk expires and    *)
(* returns in terms of sets; here the loop decides what leaves the list,   *)
(* and WalkAgrees says that the two are the same.                          *)
(***************************************************************************)
EXTENDS WakeLock, SequencesExt

VARIABLE active_wake_locks     \* type |-> the list, a sequence

Type == {"WAKE_LOCK_SUSPEND", "WAKE_LOCK_IDLE"}
LocksOf(type) == IF type = "WAKE_LOCK_SUSPEND" THEN SuspendLocks ELSE Locks \ SuspendLocks
TypeOf(l) == IF l \in SuspendLocks THEN "WAKE_LOCK_SUSPEND" ELSE "WAKE_LOCK_IDLE"

\* has_wake_lock_locked, the loop from entry i on: what it returns, which
\* locks it expires before that, and what it leaves of the list.
has_wake_lock_locked(list, fl, ex) ==
  LET from[i \in 1 .. Len(list) + 1] ==
        IF i > Len(list) THEN [ret |-> 0, expired |-> {}, left |-> <<>>]
        ELSE IF AUTO_EXPIRE \notin fl[list[i]]
          THEN [ret |-> -1, expired |-> {}, left |-> SubSeq(list, i, Len(list))]
        ELSE IF Due(ex, list[i])
          THEN [from[i + 1] EXCEPT !.expired = @ \cup {list[i]}]
          ELSE [from[i + 1] EXCEPT !.ret = IF @ = -1 THEN -1 ELSE Max({@, ex[list[i]]}),
                                   !.left = <<list[i]>> \o @]
  IN  from[1]

Walked(list, fl, ex) == has_wake_lock_locked(list, fl, ex).left

SetList(type, list) == active_wake_locks' = [active_wake_locks EXCEPT ![type] = list]

\* list_del; a lock on inactive_locks is on none of these lists.
Unlinked(l) ==
  LET list == active_wake_locks[TypeOf(l)]
      I == {i \in DOMAIN list : list[i] = l}
  IN  IF I = {} THEN list ELSE RemoveAt(list, CHOOSE i \in I : TRUE)

-----------------------------------------------------------------------------
(* What the operations of WakeLock do to the lists.                        *)

\* Mutant: list_add_tail.
ListLock_Tail(l) == SetList(TypeOf(l), Append(Unlinked(l), l))

\* wake_lock_internal without a timeout: list_add, at the head.
ListLock(l) == SetList(TypeOf(l), <<l>> \o Unlinked(l))

\* wake_lock_internal with a timeout: list_add_tail, and the walk.
ListLockTimeout(l, timeout) ==
  LET list == Append(Unlinked(l), l)
      fl == [flags EXCEPT ![l] = @ \cup {ACTIVE, AUTO_EXPIRE}]
      ex == [expires EXCEPT ![l] = timeout]
  IN  SetList(TypeOf(l), IF l \in SuspendLocks THEN Walked(list, fl, ex) ELSE list)

\* wake_unlock: list_del, and the walk.
ListUnlock(l) ==
  LET fl == [flags EXCEPT ![l] = @ \ {ACTIVE, AUTO_EXPIRE}]
  IN  SetList(TypeOf(l), IF l \in SuspendLocks THEN Walked(Unlinked(l), fl, expires)
                                               ELSE Unlinked(l))

\* wake_lock_destroy: list_del.
ListDestroy(l) == SetList(TypeOf(l), Unlinked(l))

\* has_wake_lock
ListWalk(type) == SetList(type, Walked(active_wake_locks[type], flags, expires))

-----------------------------------------------------------------------------
ListInit ==
  /\ Init
  /\ active_wake_locks = [type \in Type |->
       IF type = "WAKE_LOCK_SUSPEND" THEN <<main_wake_lock>> ELSE <<>>]

ListClient ==
  \/ \E l \in ClientLocks :
       \/ wake_lock_init(l) /\ UNCHANGED active_wake_locks
       \/ l \notin Permanent(flags, link, Locks) /\ wake_lock_destroy(l) /\ ListDestroy(l)
       \/ \E t \in 0 .. MaxTimeout : wake_lock_timeout(l, t) /\ ListLockTimeout(l, t)
  \/ \E l \in ClientLocks \cup {main_wake_lock} :
       (wake_lock(l) /\ ListLock(l)) \/ (wake_unlock(l) /\ ListUnlock(l))
  \/ \E type \in Type : has_wake_lock(LocksOf(type)) /\ ListWalk(type)

ListTimer ==
  \/ (Tick \/ TimerFires) /\ UNCHANGED active_wake_locks
  \/ expire_wake_locks /\ ListWalk("WAKE_LOCK_SUSPEND")

ListWorker(w) ==
  \/ /\ \/ SuspendStart(w) \/ SuspendEntry(w) \/ SuspendReturn(w) \/ SuspendCount(w)
        \/ SuspendCompare(w) \/ SuspendReset(w) \/ SuspendEvent(w)
     /\ UNCHANGED active_wake_locks
  \/ SuspendCheck(w) /\ ListWalk("WAKE_LOCK_SUSPEND")
  \/ suspend_backoff(w) /\ ListLockTimeout(suspend_backoff_lock, SUSPEND_BACKOFF_INTERVAL)
  \/ SuspendUnknown(w) /\ ListLockTimeout(unknown_wakeup, UNKNOWN_WAKEUP_TIMEOUT)

ListNext == ListClient \/ ListTimer \/ \E w \in Workers : ListWorker(w)

ListSpec == ListInit /\ [][ListNext]_<<vars, active_wake_locks>>

\* What WakeLock says of the scheduling; the lists follow its steps.
ListFairSpec == ListSpec /\ Fairness

-----------------------------------------------------------------------------
(* Properties.                                                             *)

\* The lists hold each active lock of their type once, and nothing else: no
\* lock is left on a list, or dropped from one, by a walk that stops early
\* at a lock without a timeout.
ListsAreLinked ==
  \A type \in Type :
    /\ ToSet(active_wake_locks[type]) = Active(link, LocksOf(type))
    /\ IsInjective(active_wake_locks[type])

\* The loop over the list returns and expires what HasWakeLock and Expired of
\* WakeLock say.  It may stop at the first lock without a timeout only
\* because such locks are linked at the head and the others at the tail.
WalkAgrees ==
  \A type \in Type :
    LET walk == has_wake_lock_locked(active_wake_locks[type], flags, expires)
    IN  /\ walk.ret = HasWakeLock(flags, link, expires, LocksOf(type))
        /\ walk.expired = Expired(flags, link, expires, LocksOf(type))

\* The state is well-formed and the lists are what the sets of WakeLock say.
ListsConsistent == TypeOK /\ ListsAreLinked /\ WalkAgrees

=============================================================================
