------------------------------ MODULE CpuFreq ------------------------------
(***************************************************************************)
(* The frequency driver of the Exynos, arch/arm/mach-exynos/cpufreq.c: the *)
(* levels that devices lock (a floor) and limit (a ceiling), the target of *)
(* the governor, and the notifiers for sleep and for a new governor.       *)
(*                                                                         *)
(* A level is an index into the frequency table: the smaller the faster.   *)
(* A section under set_cpu_freq_lock or set_freq_lock is one step, only    *)
(* exynos_target, which reads the levels under the wrong one of the two,   *)
(* is split; what is read without either is a step of its own.  Each id    *)
(* has one caller, and id PM is the driver's own notifier.                 *)
(*                                                                         *)
(* The clock itself is not modelled, only the frequency the cpufreq core   *)
(* believes in: the boot loader sets the clock anew at every wake, and     *)
(* from then on the two agree only by luck, until the core looks.          *)
(* exynos_cpufreq_level_fix has no caller in the tree and is left out.     *)
(***************************************************************************)
EXTENDS Integers, FiniteSetsExt

CONSTANTS
  Lockers,              \* ids whose callers lock levels
  Limiters,             \* ids whose callers limit levels
  PM, TMU,              \* DVFS_LOCK_ID_PM, DVFS_LOCK_ID_TMU
  max_support_idx,      \* the fastest level
  min_support_idx,      \* the slowest level
  pm_lock_idx,          \* the level for going to sleep
  Governors             \* kinds of governors in use, as values of lock_disable

Ids == Lockers \cup Limiters \cup {PM}
Levels == max_support_idx .. min_support_idx
None == -1
Unlisted == -2          \* a frequency that is not in the table

ASSUME LevelAssumption ==
  /\ max_support_idx \in Nat /\ min_support_idx \in Nat /\ pm_lock_idx \in Levels
  /\ Governors \subseteq BOOLEAN /\ Governors # {}
  /\ PM \notin Lockers \cup Limiters
  /\ IsFiniteSet(Ids)

VARIABLES
  cur,                  \* policy->cur
  lock_id, lock_val, lock_level,
  limit_id, limit_val, limit_level,
  cpufreq_disable,      \* exynos_cpufreq_disable
  lock_disable,         \* exynos_cpufreq_lock_disable
  target,               \* the level exynos_target is about to set, or None
  pc,                   \* id |-> where its caller is
  level                 \* id |-> the level it asked for

locks == <<lock_id, lock_val, lock_level>>
limits == <<limit_id, limit_val, limit_level>>
flags == <<cpufreq_disable, lock_disable>>
vars == <<cur, locks, limits, flags, target, pc, level>>

Step == {"idle", "lock", "lockRead", "lockSet", "limit", "limitSet",
         "disable", "asleep", "bad", "post", "enable"}

TypeOK ==
  /\ cur \in Levels \cup {Unlisted}
  /\ lock_id \subseteq Ids /\ lock_val \in [Ids -> Levels] /\ lock_level \in Levels
  /\ limit_id \subseteq Ids /\ limit_val \in [Ids -> Levels] /\ limit_level \in Levels
  /\ cpufreq_disable \in BOOLEAN /\ lock_disable \in BOOLEAN
  /\ target \in Levels \cup {None}
  /\ pc \in [Ids -> Step] /\ level \in [Ids -> Levels]

Goto(n, from, to) == pc[n] = from /\ pc' = [pc EXCEPT ![n] = to]

\* set_freq_lock is free: exynos_target is the one holder between two steps.
SetFreqUnlocked == target = None

\* set_freq and the two calls of cpufreq_notify_transition around it: from
\* POSTCHANGE on, the cpufreq core takes the new frequency for the current.
SetFreq(to) == cur' = to

-----------------------------------------------------------------------------
(* exynos_target.                                                          *)

Clamped(index) ==
  LET floored == IF ~lock_disable /\ index > lock_level THEN lock_level ELSE index
  IN  IF floored < limit_level THEN limit_level ELSE floored

Governor(index) ==
  /\ SetFreqUnlocked /\ ~cpufreq_disable
  /\ target' = Clamped(index)
  /\ UNCHANGED <<cur, locks, limits, flags, pc, level>>

TargetSet ==
  /\ target # None
  /\ SetFreq(target)
  /\ target' = None
  /\ UNCHANGED <<locks, limits, flags, pc, level>>

-----------------------------------------------------------------------------
(* exynos_cpufreq_lock.                                                    *)

\* The checks that come before a mutex is taken.
LockEnter(n, l) ==
  /\ cpufreq_disable => n = TMU
  /\ n \notin lock_id
  /\ Goto(n, "idle", "lock")
  /\ level' = [level EXCEPT ![n] = l]
  /\ UNCHANGED <<cur, locks, limits, flags, target>>

\* Mutant: the last lock decides.
LockRegister_Last(n) ==
  /\ Goto(n, "lock", "lockRead")
  /\ lock_id' = lock_id \cup {n}
  /\ lock_val' = [lock_val EXCEPT ![n] = level[n]]
  /\ lock_level' = level[n]
  /\ UNCHANGED <<cur, limits, flags, target, level>>

LockRegister(n) ==
  /\ Goto(n, "lock", "lockRead")
  /\ lock_id' = lock_id \cup {n}
  /\ lock_val' = [lock_val EXCEPT ![n] = level[n]]
  /\ lock_level' = IF level[n] < lock_level THEN level[n] ELSE lock_level
  /\ UNCHANGED <<cur, limits, flags, target, level>>

\* Is there a reason to leave the frequency alone?  Read without a mutex.
LockRead(n) ==
  /\ Goto(n, "lockRead", IF n # PM /\ (lock_level < limit_level \/ lock_disable)
                         THEN "idle" ELSE "lockSet")
  /\ UNCHANGED <<cur, locks, limits, flags, target, level>>

\* A current frequency that is not in the table may be slower than the one
\* locked: then the answer is -EINVAL, which only the notifier looks at.
LockSet(n) ==
  /\ SetFreqUnlocked
  /\ \/ Goto(n, "lockSet", IF n = PM THEN "disable" ELSE "idle")
     \/ cur = Unlisted /\ n = PM /\ Goto(n, "lockSet", "bad")
  /\ IF cur \in Levels /\ cur > level[n] THEN SetFreq(level[n]) ELSE UNCHANGED cur
  /\ UNCHANGED <<locks, limits, flags, target, level>>

Unlocked(n) ==
  /\ lock_id' = lock_id \ {n}
  /\ lock_val' = [lock_val EXCEPT ![n] = min_support_idx]
  /\ lock_level' = IF lock_id' = {} THEN min_support_idx
                   ELSE Min({lock_val'[i] : i \in Ids})

exynos_cpufreq_lock_free(n) ==
  /\ pc[n] = "idle"
  /\ Unlocked(n)
  /\ UNCHANGED <<cur, limits, flags, target, pc, level>>

-----------------------------------------------------------------------------
(* exynos_cpufreq_upper_limit.                                             *)

LimitEnter(n, l) ==
  /\ ~cpufreq_disable
  /\ n \notin limit_id
  /\ Goto(n, "idle", "limit")
  /\ level' = [level EXCEPT ![n] = l]
  /\ UNCHANGED <<cur, locks, limits, flags, target>>

LimitRegister(n) ==
  /\ Goto(n, "limit", "limitSet")
  /\ limit_id' = limit_id \cup {n}
  /\ limit_val' = [limit_val EXCEPT ![n] = level[n]]
  /\ limit_level' = IF level[n] > limit_level THEN level[n] ELSE limit_level
  /\ UNCHANGED <<cur, locks, flags, target, level>>

\* The same -EINVAL here is lost on every caller.
LimitSet(n) ==
  /\ SetFreqUnlocked
  /\ Goto(n, "limitSet", "idle")
  /\ IF cur \in Levels /\ cur < level[n] THEN SetFreq(level[n]) ELSE UNCHANGED cur
  /\ UNCHANGED <<locks, limits, flags, target, level>>

exynos_cpufreq_upper_limit_free(n) ==
  /\ pc[n] = "idle"
  /\ limit_id' = limit_id \ {n}
  /\ limit_val' = [limit_val EXCEPT ![n] = max_support_idx]
  /\ limit_level' = IF limit_id' = {} THEN max_support_idx
                    ELSE Max({limit_val'[i] : i \in Ids})
  /\ UNCHANGED <<cur, locks, flags, target, pc, level>>

-----------------------------------------------------------------------------
(* The notifiers.                                                          *)

\* PM_SUSPEND_PREPARE.  Only the notifier itself sets the flag that would
\* turn it away with -EPERM.
PMPrepare == LockEnter(PM, pm_lock_idx)

PMDisable ==
  /\ Goto(PM, "disable", "asleep")
  /\ cpufreq_disable' = TRUE
  /\ UNCHANGED <<cur, locks, limits, lock_disable, target, level>>

\* PM_POST_SUSPEND, in three steps.  It comes after a sleep, after an
\* attempt this notifier has ended with NOTIFY_BAD, and also, unpaired, after
\* one that a notifier called earlier has ended.
PMUnlock ==
  /\ \E from \in {"asleep", "bad", "idle"} :
       Goto(PM, from, IF lock_disable THEN "post" ELSE "enable")
  /\ Unlocked(PM)
  /\ UNCHANGED <<cur, limits, flags, target, level>>

\* The clock is set to the maximum, but what is announced is whatever the
\* static freqs still holds: the last transition, or 0.
PMMaxLevel ==
  /\ SetFreqUnlocked
  /\ Goto(PM, "post", "enable")
  /\ cur' \in Levels \cup {Unlisted}
  /\ UNCHANGED <<locks, limits, flags, target, level>>

PMEnable ==
  /\ Goto(PM, "enable", "idle")
  /\ cpufreq_disable' = FALSE
  /\ UNCHANGED <<cur, locks, limits, lock_disable, target, level>>

\* CPUFREQ_ADJUST: a governor that keeps to one frequency, or another one.
exynos_cpufreq_policy_notifier_call ==
  /\ lock_disable' \in Governors
  /\ UNCHANGED <<cur, locks, limits, cpufreq_disable, target, pc, level>>

\* The core compares the clock with policy->cur, in the update it queues when
\* the system wakes or when user space reads cpuinfo_cur_freq, and announces
\* what it finds.  It holds neither mutex.
cpufreq_out_of_sync ==
  /\ cur' \in Levels \cup {Unlisted}
  /\ UNCHANGED <<locks, limits, flags, target, pc, level>>

-----------------------------------------------------------------------------
\* The boot loader's frequency need not be in the table.
Init ==
  /\ cur \in Levels \cup {Unlisted}
  /\ lock_id = {} /\ limit_id = {}
  /\ lock_val = [n \in Ids |-> min_support_idx] /\ lock_level = min_support_idx
  /\ limit_val = [n \in Ids |-> max_support_idx] /\ limit_level = max_support_idx
  /\ cpufreq_disable = FALSE /\ lock_disable \in Governors
  /\ target = None
  /\ pc = [n \in Ids |-> "idle"]
  /\ level = [n \in Ids |-> min_support_idx]

Lock(n) ==
  \/ \E l \in Levels : LockEnter(n, l)
  \/ LockRegister(n) \/ LockRead(n) \/ LockSet(n) \/ exynos_cpufreq_lock_free(n)

Limit(n) ==
  \/ \E l \in Levels : LimitEnter(n, l)
  \/ LimitRegister(n) \/ LimitSet(n) \/ exynos_cpufreq_upper_limit_free(n)

Sleep ==
  \/ PMPrepare \/ LockRegister(PM) \/ LockRead(PM) \/ LockSet(PM)
  \/ PMDisable \/ PMUnlock \/ PMMaxLevel \/ PMEnable

Next ==
  \/ \E l \in Levels : Governor(l)
  \/ TargetSet
  \/ \E n \in Lockers : Lock(n)
  \/ \E n \in Limiters : Limit(n)
  \/ Sleep
  \/ exynos_cpufreq_policy_notifier_call
  \/ cpufreq_out_of_sync

Spec == Init /\ [][Next]_vars

-----------------------------------------------------------------------------
(* Properties.                                                             *)

\* The floor is the fastest level anybody locks and the ceiling the slowest
\* anybody limits to, although both are kept up incrementally and computed
\* anew only when somebody frees: no lock is forgotten and none outlives its
\* holder, whatever locks, frees, sleeps, failed and unpaired sleeps
\* interleave.  It speaks of the levels, not of the frequency, which can be
\* outside of them for a while.
LevelsExact ==
  /\ lock_level = Min({lock_val[n] : n \in Ids})
  /\ limit_level = Max({limit_val[n] : n \in Ids})
  /\ \A n \in Ids : (n \notin lock_id => lock_val[n] = min_support_idx)
                    /\ (n \notin limit_id => limit_val[n] = max_support_idx)

=============================================================================
