----------------------------- MODULE CpuProofs -----------------------------
(***************************************************************************)
(* Proofs about the processor: the frequency driver and the thermal unit,  *)
(* for any ids, levels, thresholds and governors, and the hotplug          *)
(* governor, for streaks of any length.  The two parts are independent.    *)
(*                                                                         *)
(* The invariant of the driver, FreqInv, says of the floor and the ceiling *)
(* that somebody has asked for them and nobody for more, and that an id is *)
(* not registered while its caller is about to register it.  The steps of  *)
(* the thermal unit are steps of the driver or leave it alone, so that     *)
(* FreqInv holds of both specifications.                                   *)
(*                                                                         *)
(* The invariant of the governor, HInv, says that no frequency counter has *)
(* counted more transitions than there were since a core last came up or   *)
(* went down, or since the last sleep, and that a counter of the run queue *)
(* stands for so many of the latest run queues, sleep or no sleep.         *)
(***************************************************************************)
EXTENDS Tmu, Hotplug, WellFoundedInduction, TLAPS

Floor ==
  /\ \E n \in Ids : lock_level = lock_val[n]
  /\ \A n \in Ids : lock_level <= lock_val[n]
  /\ \A n \in Ids \ lock_id : lock_val[n] = min_support_idx

Ceiling ==
  /\ \E n \in Ids : limit_level = limit_val[n]
  /\ \A n \in Ids : limit_level >= limit_val[n]
  /\ \A n \in Ids \ limit_id : limit_val[n] = max_support_idx

Callers ==
  \A n \in Ids : (pc[n] = "lock" => n \notin lock_id) /\ (pc[n] = "limit" => n \notin limit_id)

FreqInv == TypeOK /\ Floor /\ Ceiling /\ Callers

-----------------------------------------------------------------------------
(* Min and Max of a set of levels, as the loops of the two free functions  *)
(* compute them.                                                           *)

LEMMA MinOfNat ==
  ASSUME NEW S, S \subseteq Nat, S # {}
  PROVE  Min(S) \in S /\ \A y \in S : Min(S) <= y
<1>1. PICK t \in S : \A u \in S : ~ (<<u, t>> \in OpToRel(<, Nat))
  BY NatLessThanWellFounded, WFMin, Zenon
<1>2. \A u \in S : t <= u
  <2>1. SUFFICES ASSUME NEW u \in S PROVE t <= u
    OBVIOUS
  <2>2. u \in Nat /\ t \in Nat
    OBVIOUS
  <2>3. ~ (u < t)
    BY <1>1, <2>2 DEF OpToRel
  <2> QED
    BY <2>2, <2>3
<1>3. \E z \in S : \A y \in S : z =< y
  BY <1>2
<1> QED
  BY <1>3 DEF Min

LEMMA MaxOfNat ==
  ASSUME NEW b \in Nat, NEW S, S \subseteq 0 .. b, S # {}
  PROVE  Max(S) \in S /\ \A y \in S : y <= Max(S)
<1> DEFINE T == {b - x : x \in S}
<1>1. T \subseteq Nat /\ T # {}
  <2>1. \A x \in S : b - x \in Nat
    OBVIOUS
  <2>2. PICK x \in S : TRUE
    OBVIOUS
  <2>3. b - x \in T
    BY <2>2
  <2> QED
    BY <2>1, <2>3
<1>2. Min(T) \in T /\ \A u \in T : Min(T) <= u
  <2> HIDE DEF T
  <2> QED
    BY <1>1, MinOfNat
<1>3. PICK x \in S : Min(T) = b - x
  BY <1>2
<1>4. \A y \in S : x >= y
  <2>1. SUFFICES ASSUME NEW y \in S PROVE x >= y
    OBVIOUS
  <2>2. b - y \in T
    OBVIOUS
  <2>3. b - x <= b - y
    BY <1>2, <1>3, <2>2
  <2>4. x \in Nat /\ y \in Nat
    OBVIOUS
  <2> QED
    BY <2>3, <2>4
<1>5. \E z \in S : \A y \in S : z >= y
  BY <1>4
<1>6. Max(S) \in S /\ \A y \in S : Max(S) >= y
  BY <1>5 DEF Max
<1> QED
  BY <1>6

\* The fastest of the levels that a table of ids holds.
LEMMA MinOfTable ==
  ASSUME NEW f \in [Ids -> Levels]
  PROVE  LET m == Min({f[n] : n \in Ids})
         IN  /\ m \in Levels
             /\ \E n \in Ids : m = f[n]
             /\ \A n \in Ids : m <= f[n]
<1> DEFINE S == {f[n] : n \in Ids}
<1>1. S \subseteq Levels /\ S # {} /\ S \subseteq Nat
  <2>1. PM \in Ids
    BY DEF Ids
  <2>2. f[PM] \in S
    BY <2>1
  <2>3. Levels \subseteq Nat
    BY LevelAssumption DEF Levels
  <2> QED
    BY <2>2, <2>3
<1>2. Min(S) \in S /\ \A y \in S : Min(S) <= y
  <2> HIDE DEF S
  <2> QED
    BY <1>1, MinOfNat
<1> QED
  BY <1>1, <1>2

LEMMA MaxOfTable ==
  ASSUME NEW f \in [Ids -> Levels]
  PROVE  LET m == Max({f[n] : n \in Ids})
         IN  /\ m \in Levels
             /\ \E n \in Ids : m = f[n]
             /\ \A n \in Ids : m >= f[n]
<1> DEFINE S == {f[n] : n \in Ids}
<1>1. S \subseteq Levels /\ S # {} /\ S \subseteq 0 .. min_support_idx
  <2>1. PM \in Ids
    BY DEF Ids
  <2>2. f[PM] \in S
    BY <2>1
  <2>3. Levels \subseteq 0 .. min_support_idx
    BY LevelAssumption DEF Levels
  <2> QED
    BY <2>2, <2>3
<1>2. Max(S) \in S /\ \A y \in S : y <= Max(S)
  <2> HIDE DEF S
  <2> QED
    BY <1>1, MaxOfNat, LevelAssumption
<1>3. \A n \in Ids : Max(S) >= f[n]
  <2>1. SUFFICES ASSUME NEW n \in Ids PROVE Max(S) >= f[n]
    OBVIOUS
  <2>2. f[n] \in Nat /\ Max(S) \in Nat /\ f[n] <= Max(S)
    BY <1>1, <1>2
  <2> QED
    BY <2>2
<1> QED
  BY <1>1, <1>2, <1>3

\* A level that somebody asks for, with nobody asking for a faster one, is
\* the least; and the same for the greatest.
LEMMA ExactFloor ==
  ASSUME TypeOK, Floor
  PROVE  lock_level = Min({lock_val[n] : n \in Ids})
<1> DEFINE m == Min({lock_val[n] : n \in Ids})
<1>1. m \in Levels /\ (\E n \in Ids : m = lock_val[n]) /\ (\A n \in Ids : m <= lock_val[n])
  BY MinOfTable DEF TypeOK
<1>2. m \in Nat /\ lock_level \in Nat
  BY <1>1, LevelAssumption DEF TypeOK, Levels
<1>3. m <= lock_level /\ lock_level <= m
  BY <1>1 DEF Floor
<1> QED
  BY <1>2, <1>3

LEMMA ExactCeiling ==
  ASSUME TypeOK, Ceiling
  PROVE  limit_level = Max({limit_val[n] : n \in Ids})
<1> DEFINE m == Max({limit_val[n] : n \in Ids})
<1>1. m \in Levels /\ (\E n \in Ids : m = limit_val[n]) /\ (\A n \in Ids : m >= limit_val[n])
  BY MaxOfTable DEF TypeOK
<1>2. m \in Nat /\ limit_level \in Nat
  BY <1>1, LevelAssumption DEF TypeOK, Levels
<1>3. m >= limit_level /\ limit_level >= m
  BY <1>1 DEF Ceiling
<1> QED
  BY <1>2, <1>3

-----------------------------------------------------------------------------
(* Every step of the frequency driver keeps FreqInv.                       *)

\* The three parts of the driver: a step that changes neither the levels nor
\* who asks for them keeps the floor and the ceiling.
LEMMA FloorKept ==
  ASSUME Floor, UNCHANGED locks
  PROVE  Floor'
BY DEF Floor, locks

LEMMA CeilingKept ==
  ASSUME Ceiling, UNCHANGED limits
  PROVE  Ceiling'
BY DEF Ceiling, limits

\* exynos_target: the clamped level is one of the levels.
LEMMA TargetStep ==
  ASSUME FreqInv, (\E l \in Levels : Governor(l)) \/ TargetSet
  PROVE  FreqInv'
<1> USE DEF FreqInv
<1>1. ASSUME NEW l \in Levels, Governor(l) PROVE FreqInv'
  <2>1. Clamped(l) \in Levels
    BY <1>1 DEF Clamped, TypeOK
  <2>2. TypeOK'
    BY <1>1, <2>1 DEF Governor, TypeOK, locks, limits, flags
  <2>3. Floor' /\ Ceiling'
    BY <1>1, FloorKept, CeilingKept DEF Governor
  <2>4. Callers'
    BY <1>1 DEF Governor, Callers, locks, limits
  <2> QED
    BY <2>2, <2>3, <2>4
<1>2. ASSUME TargetSet PROVE FreqInv'
  <2>1. TypeOK'
    BY <1>2 DEF TargetSet, SetFreq, TypeOK, locks, limits, flags
  <2>2. Floor' /\ Ceiling'
    BY <1>2, FloorKept, CeilingKept DEF TargetSet
  <2>3. Callers'
    BY <1>2 DEF TargetSet, Callers, locks, limits
  <2> QED
    BY <2>1, <2>2, <2>3
<1> QED
  BY <1>1, <1>2

\* Freeing a lock computes the floor anew, from the values that are left.
LEMMA UnlockedFloor ==
  ASSUME TypeOK, Floor, NEW n \in Ids, Unlocked(n)
  PROVE  /\ lock_id' \subseteq Ids /\ lock_val' \in [Ids -> Levels] /\ lock_level' \in Levels
         /\ Floor'
<1>1. lock_id' \subseteq Ids /\ lock_val' \in [Ids -> Levels] /\ min_support_idx \in Levels
  BY LevelAssumption DEF Unlocked, TypeOK, Levels
<1>2. \A m \in Ids \ lock_id' : lock_val'[m] = min_support_idx
  BY DEF Unlocked, Floor, TypeOK
<1>3. CASE lock_id' = {}
  <2>1. lock_level' = min_support_idx
    BY <1>3 DEF Unlocked
  <2>2. PM \in Ids
    BY DEF Ids
  <2>3. \A m \in Ids : lock_val'[m] = min_support_idx
    BY <1>2, <1>3
  <2>4. min_support_idx <= min_support_idx
    BY LevelAssumption
  <2> QED
    BY <1>1, <1>2, <2>1, <2>2, <2>3, <2>4 DEF Floor
<1>4. CASE lock_id' # {}
  <2>1. lock_level' = Min({lock_val'[i] : i \in Ids})
    BY <1>4 DEF Unlocked
  <2> QED
    BY <1>1, <1>2, <2>1, MinOfTable DEF Floor
<1> QED
  BY <1>3, <1>4

\* exynos_cpufreq_lock and exynos_cpufreq_lock_free, of a device or of the
\* sleep notifier.  A lock is registered by somebody who has none yet, so
\* that the value it overwrites was not what made the floor.
LEMMA LockStep ==
  ASSUME FreqInv, NEW n \in Ids,
         \/ \E l \in Levels : LockEnter(n, l)
         \/ LockRegister(n) \/ LockRead(n) \/ LockSet(n) \/ exynos_cpufreq_lock_free(n)
  PROVE  FreqInv'
<1> USE DEF FreqInv
<1>0. Levels \subseteq Int
  BY LevelAssumption DEF Levels
<1>1. ASSUME NEW l \in Levels, LockEnter(n, l) PROVE FreqInv'
  <2>1. TypeOK'
    BY <1>1 DEF LockEnter, Goto, TypeOK, locks, limits, flags, Step
  <2>2. Floor' /\ Ceiling'
    BY <1>1, FloorKept, CeilingKept DEF LockEnter
  <2>3. Callers'
    BY <1>1 DEF LockEnter, Goto, Callers, TypeOK, locks, limits
  <2> QED
    BY <2>1, <2>2, <2>3
<1>2. ASSUME LockRegister(n) PROVE FreqInv'
  <2>1. TypeOK'
    BY <1>2 DEF LockRegister, Goto, TypeOK, limits, flags, Step
  <2>2. n \notin lock_id /\ lock_val[n] = min_support_idx
    BY <1>2 DEF LockRegister, Goto, Callers, Floor
  <2>3. lock_val' = [lock_val EXCEPT ![n] = level[n]]
        /\ lock_level' = (IF level[n] < lock_level THEN level[n] ELSE lock_level)
        /\ lock_id' = lock_id \cup {n}
    BY <1>2 DEF LockRegister
  <2>4. \A m \in Ids : lock_val[m] \in Int /\ level[m] \in Int
    BY <1>0 DEF TypeOK
  <2>5. lock_level \in Int /\ level[n] <= min_support_idx
    BY LevelAssumption DEF TypeOK, Levels
  <2>6. lock_val'[n] = level[n] /\ \A m \in Ids \ {n} : lock_val'[m] = lock_val[m]
    BY <2>3 DEF TypeOK
  <2>7. \A m \in Ids : lock_level' <= lock_val'[m]
    BY <2>3, <2>4, <2>5, <2>6 DEF Floor
  <2>8. \E m \in Ids : lock_level' = lock_val'[m]
    <3>1. PICK m \in Ids : lock_level = lock_val[m]
      BY DEF Floor
    <3>2. CASE level[n] < lock_level
      BY <2>3, <2>6, <3>2
    <3>3. CASE ~(level[n] < lock_level) /\ m # n
      BY <2>3, <2>6, <3>1, <3>3
    <3>4. CASE ~(level[n] < lock_level) /\ m = n
      <4>1. lock_level = min_support_idx
        BY <2>2, <3>1, <3>4
      <4>2. level[n] = lock_level
        BY <2>4, <2>5, <3>4, <4>1
      <4> QED
        BY <2>3, <2>6, <3>4, <4>2
    <3> QED
      BY <3>2, <3>3, <3>4
  <2>9. \A m \in Ids \ lock_id' : lock_val'[m] = min_support_idx
    BY <2>3, <2>6 DEF Floor
  <2>10. Ceiling'
    BY <1>2, CeilingKept DEF LockRegister
  <2>11. Callers'
    BY <1>2 DEF LockRegister, Goto, Callers, TypeOK, limits
  <2> QED
    BY <2>1, <2>7, <2>8, <2>9, <2>10, <2>11 DEF Floor
<1>3. ASSUME LockRead(n) PROVE FreqInv'
  <2>1. TypeOK'
    BY <1>3 DEF LockRead, Goto, TypeOK, locks, limits, flags, Step
  <2>2. Floor' /\ Ceiling'
    BY <1>3, FloorKept, CeilingKept DEF LockRead
  <2>3. Callers'
    BY <1>3 DEF LockRead, Goto, Callers, TypeOK, locks, limits
  <2> QED
    BY <2>1, <2>2, <2>3
<1>4. ASSUME LockSet(n) PROVE FreqInv'
  <2>1. TypeOK'
    BY <1>4 DEF LockSet, SetFreq, Goto, TypeOK, locks, limits, flags, Step
  <2>2. Floor' /\ Ceiling'
    BY <1>4, FloorKept, CeilingKept DEF LockSet
  <2>3. Callers'
    BY <1>4 DEF LockSet, Goto, Callers, TypeOK, locks, limits
  <2> QED
    BY <2>1, <2>2, <2>3
<1>5. ASSUME exynos_cpufreq_lock_free(n) PROVE FreqInv'
  <2>1. lock_id' \subseteq Ids /\ lock_val' \in [Ids -> Levels] /\ lock_level' \in Levels /\ Floor'
    BY <1>5, UnlockedFloor DEF exynos_cpufreq_lock_free
  <2>2. TypeOK'
    BY <1>5, <2>1 DEF exynos_cpufreq_lock_free, TypeOK, limits, flags
  <2>3. Ceiling'
    BY <1>5, CeilingKept DEF exynos_cpufreq_lock_free
  <2>4. Callers'
    BY <1>5 DEF exynos_cpufreq_lock_free, Unlocked, Callers, limits
  <2> QED
    BY <2>1, <2>2, <2>3, <2>4
<1> QED
  BY <1>1, <1>2, <1>3, <1>4, <1>5

\* exynos_cpufreq_upper_limit and exynos_cpufreq_upper_limit_free.
LEMMA LimitStep ==
  ASSUME FreqInv, NEW n \in Ids,
         \/ \E l \in Levels : LimitEnter(n, l)
         \/ LimitRegister(n) \/ LimitSet(n) \/ exynos_cpufreq_upper_limit_free(n)
  PROVE  FreqInv'
<1> USE DEF FreqInv
<1>0. Levels \subseteq Int
  BY LevelAssumption DEF Levels
<1>1. ASSUME NEW l \in Levels, LimitEnter(n, l) PROVE FreqInv'
  <2>1. TypeOK'
    BY <1>1 DEF LimitEnter, Goto, TypeOK, locks, limits, flags, Step
  <2>2. Floor' /\ Ceiling'
    BY <1>1, FloorKept, CeilingKept DEF LimitEnter
  <2>3. Callers'
    BY <1>1 DEF LimitEnter, Goto, Callers, TypeOK, locks, limits
  <2> QED
    BY <2>1, <2>2, <2>3
<1>2. ASSUME LimitRegister(n) PROVE FreqInv'
  <2>1. TypeOK'
    BY <1>2 DEF LimitRegister, Goto, TypeOK, locks, flags, Step
  <2>2. n \notin limit_id /\ limit_val[n] = max_support_idx
    BY <1>2 DEF LimitRegister, Goto, Callers, Ceiling
  <2>3. limit_val' = [limit_val EXCEPT ![n] = level[n]]
        /\ limit_level' = (IF level[n] > limit_level THEN level[n] ELSE limit_level)
        /\ limit_id' = limit_id \cup {n}
    BY <1>2 DEF LimitRegister
  <2>4. \A m \in Ids : limit_val[m] \in Int /\ level[m] \in Int
    BY <1>0 DEF TypeOK
  <2>5. limit_level \in Int /\ level[n] >= max_support_idx
    BY LevelAssumption DEF TypeOK, Levels
  <2>6. limit_val'[n] = level[n] /\ \A m \in Ids \ {n} : limit_val'[m] = limit_val[m]
    BY <2>3 DEF TypeOK
  <2>7. \A m \in Ids : limit_level' >= limit_val'[m]
    BY <2>3, <2>4, <2>5, <2>6 DEF Ceiling
  <2>8. \E m \in Ids : limit_level' = limit_val'[m]
    <3>1. PICK m \in Ids : limit_level = limit_val[m]
      BY DEF Ceiling
    <3>2. CASE level[n] > limit_level
      BY <2>3, <2>6, <3>2
    <3>3. CASE ~(level[n] > limit_level) /\ m # n
      BY <2>3, <2>6, <3>1, <3>3
    <3>4. CASE ~(level[n] > limit_level) /\ m = n
      <4>1. limit_level = max_support_idx
        BY <2>2, <3>1, <3>4
      <4>2. level[n] = limit_level
        BY <2>4, <2>5, <3>4, <4>1
      <4> QED
        BY <2>3, <2>6, <3>4, <4>2
    <3> QED
      BY <3>2, <3>3, <3>4
  <2>9. \A m \in Ids \ limit_id' : limit_val'[m] = max_support_idx
    BY <2>3, <2>6 DEF Ceiling
  <2>10. Floor'
    BY <1>2, FloorKept DEF LimitRegister
  <2>11. Callers'
    BY <1>2 DEF LimitRegister, Goto, Callers, TypeOK, locks
  <2> QED
    BY <2>1, <2>7, <2>8, <2>9, <2>10, <2>11 DEF Ceiling
<1>3. ASSUME LimitSet(n) PROVE FreqInv'
  <2>1. TypeOK'
    BY <1>3 DEF LimitSet, SetFreq, Goto, TypeOK, locks, limits, flags, Step
  <2>2. Floor' /\ Ceiling'
    BY <1>3, FloorKept, CeilingKept DEF LimitSet
  <2>3. Callers'
    BY <1>3 DEF LimitSet, Goto, Callers, TypeOK, locks, limits
  <2> QED
    BY <2>1, <2>2, <2>3
<1>4. ASSUME exynos_cpufreq_upper_limit_free(n) PROVE FreqInv'
  <2>1. limit_id' \subseteq Ids /\ limit_val' \in [Ids -> Levels] /\ max_support_idx \in Levels
    BY <1>4, LevelAssumption DEF exynos_cpufreq_upper_limit_free, TypeOK, Levels
  <2>2. \A m \in Ids \ limit_id' : limit_val'[m] = max_support_idx
    BY <1>4 DEF exynos_cpufreq_upper_limit_free, Ceiling, TypeOK
  <2>3. limit_level' \in Levels /\ Ceiling'
    <3>1. CASE limit_id' = {}
      <4>1. limit_level' = max_support_idx
        BY <1>4, <3>1 DEF exynos_cpufreq_upper_limit_free
      <4>2. PM \in Ids
        BY DEF Ids
      <4>3. \A m \in Ids : limit_val'[m] = max_support_idx
        BY <2>2, <3>1
      <4>4. max_support_idx >= max_support_idx
        BY LevelAssumption
      <4> QED
        BY <2>1, <2>2, <4>1, <4>2, <4>3, <4>4 DEF Ceiling
    <3>2. CASE limit_id' # {}
      <4>1. limit_level' = Max({limit_val'[i] : i \in Ids})
        BY <1>4, <3>2 DEF exynos_cpufreq_upper_limit_free
      <4> QED
        BY <2>1, <2>2, <4>1, MaxOfTable DEF Ceiling
    <3> QED
      BY <3>1, <3>2
  <2>4. TypeOK'
    BY <1>4, <2>1, <2>3 DEF exynos_cpufreq_upper_limit_free, TypeOK, locks, flags
  <2>5. Floor'
    BY <1>4, FloorKept DEF exynos_cpufreq_upper_limit_free
  <2>6. Callers'
    BY <1>4 DEF exynos_cpufreq_upper_limit_free, Callers, locks
  <2> QED
    BY <2>3, <2>4, <2>5, <2>6
<1> QED
  BY <1>1, <1>2, <1>3, <1>4

\* The notifiers for sleep and for a governor, and what the core finds out
\* about the clock.
LEMMA NotifierStep ==
  ASSUME FreqInv, Sleep \/ exynos_cpufreq_policy_notifier_call \/ cpufreq_out_of_sync
  PROVE  FreqInv'
<1> USE DEF FreqInv
<1>0. PM \in Ids /\ Levels \subseteq Int
  BY LevelAssumption DEF Ids, Levels
<1>1. ASSUME PMPrepare \/ LockRegister(PM) \/ LockRead(PM) \/ LockSet(PM) PROVE FreqInv'
  <2>1. pm_lock_idx \in Levels
    BY LevelAssumption
  <2> QED
    BY <1>0, <1>1, <2>1, LockStep DEF PMPrepare
<1>2. ASSUME PMDisable \/ PMEnable PROVE FreqInv'
  <2>1. TypeOK'
    BY <1>0, <1>2 DEF PMDisable, PMEnable, Goto, TypeOK, locks, limits, flags, Step
  <2>2. Floor' /\ Ceiling'
    BY <1>2, FloorKept, CeilingKept DEF PMDisable, PMEnable
  <2>3. Callers'
    BY <1>0, <1>2 DEF PMDisable, PMEnable, Goto, Callers, TypeOK, locks, limits
  <2> QED
    BY <2>1, <2>2, <2>3
<1>3. ASSUME PMUnlock PROVE FreqInv'
  <2>1. lock_id' \subseteq Ids /\ lock_val' \in [Ids -> Levels] /\ lock_level' \in Levels /\ Floor'
    BY <1>0, <1>3, UnlockedFloor DEF PMUnlock
  <2>2. TypeOK'
    BY <1>0, <1>3, <2>1 DEF PMUnlock, Goto, TypeOK, limits, flags, Step
  <2>3. Ceiling'
    BY <1>3, CeilingKept DEF PMUnlock
  <2>4. Callers'
    BY <1>0, <1>3 DEF PMUnlock, Unlocked, Goto, Callers, TypeOK, limits
  <2> QED
    BY <2>1, <2>2, <2>3, <2>4
<1>4. ASSUME PMMaxLevel PROVE FreqInv'
  <2>2. TypeOK'
    BY <1>0, <1>4 DEF PMMaxLevel, Goto, TypeOK, locks, limits, flags, Step
  <2>3. Floor' /\ Ceiling'
    BY <1>4, FloorKept, CeilingKept DEF PMMaxLevel
  <2>4. Callers'
    BY <1>0, <1>4 DEF PMMaxLevel, Goto, Callers, TypeOK, locks, limits
  <2> QED
    BY <2>2, <2>3, <2>4
<1>5. ASSUME exynos_cpufreq_policy_notifier_call PROVE FreqInv'
  <2>1. lock_disable' \in BOOLEAN
    BY <1>5, LevelAssumption DEF exynos_cpufreq_policy_notifier_call
  <2>2. TypeOK'
    BY <1>5, <2>1 DEF exynos_cpufreq_policy_notifier_call, TypeOK, locks, limits
  <2>3. Floor' /\ Ceiling'
    BY <1>5, FloorKept, CeilingKept DEF exynos_cpufreq_policy_notifier_call
  <2>4. Callers'
    BY <1>5 DEF exynos_cpufreq_policy_notifier_call, Callers, locks, limits
  <2> QED
    BY <2>2, <2>3, <2>4
<1>6. ASSUME cpufreq_out_of_sync PROVE FreqInv'
  <2>1. TypeOK'
    BY <1>6 DEF cpufreq_out_of_sync, TypeOK, locks, limits, flags
  <2>2. Floor' /\ Ceiling'
    BY <1>6, FloorKept, CeilingKept DEF cpufreq_out_of_sync
  <2>3. Callers'
    BY <1>6 DEF cpufreq_out_of_sync, Callers, locks, limits
  <2> QED
    BY <2>1, <2>2, <2>3
<1> QED
  BY <1>1, <1>2, <1>3, <1>4, <1>5, <1>6 DEF Sleep

LEMMA InitFreqInv == Init => FreqInv
<1> SUFFICES ASSUME Init PROVE FreqInv
  OBVIOUS
<1>1. PM \in Ids /\ Levels \subseteq Int /\ min_support_idx \in Levels /\ max_support_idx \in Levels
  BY LevelAssumption DEF Ids, Levels
<1>2. TypeOK
  BY <1>1, LevelAssumption DEF Init, TypeOK, Step
<1>3. Floor /\ Ceiling
  BY <1>1 DEF Init, Floor, Ceiling
<1>4. Callers
  BY DEF Init, Callers
<1> QED
  BY <1>2, <1>3, <1>4 DEF FreqInv

LEMMA NextFreqInv == FreqInv /\ [Next]_vars => FreqInv'
<1>1. ASSUME FreqInv, Next PROVE FreqInv'
  <2>1. Lockers \subseteq Ids /\ Limiters \subseteq Ids
    BY DEF Ids
  <2> QED
    BY <1>1, <2>1, TargetStep, LockStep, LimitStep, NotifierStep DEF Next, Lock, Limit
<1>2. ASSUME FreqInv, UNCHANGED vars PROVE FreqInv'
  BY <1>2, FloorKept, CeilingKept
  DEF FreqInv, TypeOK, Callers, vars, locks, limits, flags
<1> QED
  BY <1>1, <1>2

LEMMA FreqInvSuffices == FreqInv => LevelsExact
BY ExactFloor, ExactCeiling DEF FreqInv, Floor, Ceiling, LevelsExact

\* exynos_cpufreq_lock and exynos_cpufreq_upper_limit keep g_cpufreq_lock_level
\* and g_cpufreq_limit_level exact, whoever locks, limits, frees and sleeps.
THEOREM FloorAndCeilingExact == Spec => []LevelsExact
<1>1. Spec => []FreqInv
  BY InitFreqInv, NextFreqInv, PTL DEF Spec
<1> QED
  BY <1>1, FreqInvSuffices, PTL

-----------------------------------------------------------------------------
(* The thermal unit.  Its invariant ties the position of tmu_monitor to    *)
(* the interrupt, the work queue and the limit that it has set.            *)

\* The interrupt and the work take turns, as Handover has it, and besides the
\* work is not queued while it runs, an error is the end of both, and the
\* interrupt is enabled only in a state without a limit.
OneWatcher ==
  /\ Handover
  /\ irq => tmu_state \in {"INIT", "NORMAL"}
  /\ mon # "idle" => ~queued
  /\ error => ~queued /\ mon = "idle"

\* What already_limit and the position of tmu_monitor say about the limit.
LimitInv ==
  /\ tmu_state \in {"INIT", "NORMAL"} => ~already_limit
  /\ already_limit /\ tmu_state # "TRIPPED" => Limited \/ refused
  /\ mon \in {"call", "wait"} => tmu_state \in {"THROTTLED", "WARNING"} /\ ~already_limit
  /\ mon = "wait" => \/ Limited
                     \/ pc[TMU] = "limit" /\ level[TMU] = LimitOf(tmu_state)

TmuInv == FreqInv /\ TmuTypeOK /\ OneWatcher /\ LimitInv

LEMMA TmuIds == TMU \in Ids /\ TMU \in Limiters /\ PM # TMU
BY TmuAssumption, LevelAssumption DEF Ids

LEMMA CrossedThresholds == \A t, u : Crossed(t, u) \subseteq Thresholds
BY DEF Crossed

LEMMA LimitOfLevel == \A s : LimitOf(s) \in Levels
BY TmuAssumption DEF LimitOf

\* A step of the composition is a step of the frequency driver or leaves it
\* alone.
LEMMA TmuStepsDriver ==
  ASSUME [TmuNext]_allVars
  PROVE  [Next]_vars
<1> USE TmuIds, LimitOfLevel
<1>1. UNCHANGED cpufreq => UNCHANGED vars
  BY DEF cpufreq, vars
<1>2. CASE UNCHANGED allVars
  BY <1>1, <1>2 DEF allVars
<1>3. CASE TempChange \/ tmu_irq
  BY <1>1, <1>3 DEF TempChange, tmu_irq
<1>4. CASE MonitorRead \/ MonitorNormal \/ MonitorTripped \/ MonitorTrip \/ MonitorInBand
           \/ MonitorRefused \/ MonitorCalled
  BY <1>1, <1>4 DEF MonitorRead, MonitorNormal, MonitorTripped, MonitorTrip, MonitorInBand,
                    MonitorRefused, MonitorCalled
<1>5. CASE MonitorFree
  BY <1>5 DEF MonitorFree, Next, Limit
<1>6. CASE MonitorCall
  BY <1>6 DEF MonitorCall, Next, Limit
<1>7. CASE LimitSteps
  BY <1>7 DEF LimitSteps, Next, Limit
<1>8. CASE Rest
  BY <1>8 DEF Rest, Next
<1> QED
  BY <1>2, <1>3, <1>4, <1>5, <1>6, <1>7, <1>8 DEF TmuNext, tmu_monitor

\* The composition implements the frequency driver.
THEOREM ImplementsCpuFreq == TmuSpec => Spec
<1>1. TmuInit => Init
  BY DEF TmuInit
<1> QED
  BY <1>1, TmuStepsDriver, PTL DEF TmuSpec, Spec

\* The first theorem, with the thermal unit as a caller.
THEOREM FloorAndCeilingExactWithTmu == TmuSpec => []LevelsExact
BY ImplementsCpuFreq, FloorAndCeilingExact, PTL

\* The temperature changes, or the interrupt is served: the state is that of
\* the highest threshold the temperature has reached.
LEMMA SensorStep ==
  ASSUME TmuInv, FreqInv', TempChange \/ tmu_irq
  PROVE  TmuInv'
<1> USE DEF TmuInv
<1>0. TypeOK'
  BY DEF FreqInv
<1>1. ASSUME TempChange PROVE TmuInv'
  <2>1. TmuTypeOK'
    <3>1. changes' \in 0 .. MaxChanges
      BY <1>1, TmuAssumption DEF TempChange, TmuTypeOK
    <3>2. temp' \in 0 .. MaxTemp /\ intstat' \subseteq Thresholds
      BY <1>1, CrossedThresholds DEF TempChange, TmuTypeOK
    <3> QED
      BY <1>0, <1>1, <3>1, <3>2 DEF TempChange, TmuTypeOK
  <2>2. OneWatcher'
    BY <1>1 DEF TempChange, OneWatcher, Handover
  <2>3. LimitInv'
    BY <1>1 DEF TempChange, LimitInv, Limited, LimitOf, cpufreq, limits
  <2> QED
    BY <2>1, <2>2, <2>3
<1>2. ASSUME tmu_irq, Serve PROVE TmuInv'
  <2>1. Max(intstat) \in intstat
    <3>1. intstat # {} /\ intstat \subseteq Thresholds
      BY <1>2 DEF Serve, TmuTypeOK
    <3>2. MaxTemp \in Nat /\ Thresholds \subseteq 0 .. MaxTemp
      BY TmuAssumption DEF Thresholds
    <3> QED
      BY <3>1, <3>2, MaxOfNat
  <2>2. tmu_state' \in {"TRIPPED", "WARNING", "THROTTLED"}
    BY <1>2, <2>1 DEF Serve, TmuTypeOK, Thresholds
  <2>3. TmuTypeOK'
    BY <1>0, <1>2, <2>2 DEF tmu_irq, Serve, TmuTypeOK
  <2>4. OneWatcher'
    BY <1>2, <2>2 DEF tmu_irq, Serve, OneWatcher, Handover
  <2>5. LimitInv'
    BY <1>2, <2>2 DEF tmu_irq, Serve, OneWatcher, Handover, LimitInv
  <2> QED
    BY <2>3, <2>4, <2>5
<1>3. ASSUME tmu_irq, ServeError PROVE TmuInv'
  <2>1. TmuTypeOK'
    BY <1>0, <1>3 DEF tmu_irq, ServeError, TmuTypeOK
  <2>2. OneWatcher'
    BY <1>3 DEF tmu_irq, ServeError, OneWatcher, Handover
  <2>3. LimitInv'
    BY <1>3 DEF tmu_irq, ServeError, LimitInv, Limited, LimitOf, cpufreq, limits
  <2> QED
    BY <2>1, <2>2, <2>3
<1> QED
  BY <1>1, <1>2, <1>3 DEF tmu_irq

\* tmu_monitor.
LEMMA MonitorStep ==
  ASSUME TmuInv, FreqInv', tmu_monitor
  PROVE  TmuInv'
<1> USE DEF TmuInv
<1>0. TypeOK' /\ TMU \in Ids
  BY TmuIds DEF FreqInv
<1>1. ASSUME MonitorRead PROVE TmuInv'
  <2>1. TmuTypeOK'
    BY <1>0, <1>1 DEF MonitorRead, TmuTypeOK, sensor
  <2>2. OneWatcher'
    BY <1>1 DEF MonitorRead, OneWatcher, Handover
  <2>3. LimitInv'
    BY <1>1 DEF MonitorRead, LimitInv, Limited, LimitOf, cpufreq, limits
  <2> QED
    BY <2>1, <2>2, <2>3
<1>2. ASSUME MonitorNormal PROVE TmuInv'
  <2>1. TmuTypeOK'
    BY <1>0, <1>2, CrossedThresholds DEF MonitorNormal, TmuTypeOK
  <2>2. OneWatcher'
    BY <1>2 DEF MonitorNormal, OneWatcher, Handover
  <2>3. LimitInv'
    BY <1>2 DEF MonitorNormal, LimitInv, Limited, LimitOf, cpufreq, limits
  <2> QED
    BY <2>1, <2>2, <2>3
<1>3. ASSUME MonitorTripped PROVE TmuInv'
  <2>1. TmuTypeOK'
    BY <1>0, <1>3 DEF MonitorTripped, TmuTypeOK, sensor
  <2>2. OneWatcher'
    BY <1>3 DEF MonitorTripped, OneWatcher, Handover
  <2>3. LimitInv'
    BY <1>3 DEF MonitorTripped, LimitInv, Limited, LimitOf, cpufreq, limits
  <2> QED
    BY <2>1, <2>2, <2>3
<1>4. ASSUME MonitorFree \/ MonitorTrip PROVE TmuInv'
  <2>1. PICK to \in {"NORMAL", "THROTTLED", "WARNING", "TRIPPED"} : ChangeState(to)
    BY <1>4 DEF MonitorFree, MonitorTrip
  <2>2. mon = "decide"
    BY <1>4 DEF MonitorFree, MonitorTrip
  <2>3. TmuTypeOK'
    BY <1>0, <2>1 DEF ChangeState, Requeue, MemThrottle, TmuTypeOK, sensor
  <2>4. OneWatcher'
    BY <2>1, <2>2 DEF ChangeState, Requeue, OneWatcher, Handover
  <2>5. LimitInv'
    BY <2>1 DEF ChangeState, Requeue, LimitInv
  <2> QED
    BY <2>3, <2>4, <2>5
<1>5. ASSUME MonitorInBand PROVE TmuInv'
  <2>1. TmuTypeOK'
    BY <1>0, <1>5 DEF MonitorInBand, Requeue, MemThrottle, TmuTypeOK, sensor
  <2>2. OneWatcher'
    BY <1>5 DEF MonitorInBand, Requeue, OneWatcher, Handover
  <2>3. LimitInv'
    BY <1>5 DEF MonitorInBand, InBand, Requeue, LimitInv, Limited, LimitOf, cpufreq, limits
  <2> QED
    BY <2>1, <2>2, <2>3
<1>6. ASSUME MonitorCall PROVE TmuInv'
  <2>1. TmuTypeOK'
    BY <1>0, <1>6 DEF MonitorCall, TmuTypeOK, sensor
  <2>2. OneWatcher'
    BY <1>6 DEF MonitorCall, OneWatcher, Handover
  <2>3. pc'[TMU] = "limit" /\ level'[TMU] = LimitOf(tmu_state)
    BY <1>0, <1>6 DEF MonitorCall, LimitEnter, Goto, TmuTypeOK, TypeOK
  <2>4. LimitInv'
    BY <1>6, <2>3 DEF MonitorCall, LimitInv, LimitOf
  <2> QED
    BY <2>1, <2>2, <2>4
<1>7. ASSUME MonitorRefused PROVE TmuInv'
  <2>1. TmuTypeOK'
    BY <1>0, <1>7 DEF MonitorRefused, Requeue, MemThrottle, TmuTypeOK, sensor
  <2>2. OneWatcher'
    BY <1>7 DEF MonitorRefused, Requeue, OneWatcher, Handover
  <2>3. LimitInv'
    BY <1>7 DEF MonitorRefused, Requeue, LimitInv
  <2> QED
    BY <2>1, <2>2, <2>3
<1>8. ASSUME MonitorCalled PROVE TmuInv'
  <2>1. TmuTypeOK'
    BY <1>0, <1>8 DEF MonitorCalled, Requeue, MemThrottle, TmuTypeOK, sensor
  <2>2. OneWatcher'
    BY <1>8 DEF MonitorCalled, Requeue, OneWatcher, Handover
  <2>3. Limited'
    BY <1>8 DEF MonitorCalled, LimitInv, Limited, LimitOf, cpufreq, limits
  <2>4. LimitInv'
    BY <1>8, <2>3 DEF MonitorCalled, Requeue, LimitInv
  <2> QED
    BY <2>1, <2>2, <2>4
<1> QED
  BY <1>1, <1>2, <1>3, <1>4, <1>5, <1>6, <1>7, <1>8 DEF tmu_monitor

\* The rest of exynos_cpufreq_upper_limit, and the steps of others, who
\* neither touch the limit of the unit nor its call.
LEMMA DriverStep ==
  ASSUME TmuInv, FreqInv', LimitSteps \/ Rest
  PROVE  TmuInv'
<1> USE DEF TmuInv
<1>0. TypeOK' /\ TMU \in Ids /\ PM # TMU /\ PM \in Ids
  BY TmuIds DEF FreqInv, Ids
<1>1. UNCHANGED tmuVars
  BY DEF LimitSteps, Rest
<1>2. TmuTypeOK' /\ OneWatcher'
  BY <1>0, <1>1 DEF TmuTypeOK, OneWatcher, Handover, tmuVars, sensor
<1>3. SUFFICES LimitInv'
  BY <1>2
<1>4. CASE LimitRegister(TMU)
  <2>1. pc[TMU] = "limit" /\ TMU \notin limit_id
    BY <1>0, <1>4 DEF LimitRegister, Goto, FreqInv, Callers
  <2>2. TMU \in limit_id' /\ limit_val'[TMU] = level[TMU]
    BY <1>0, <1>4 DEF LimitRegister, TmuTypeOK, TypeOK
  <2> QED
    BY <1>1, <2>1, <2>2 DEF LimitInv, Limited, LimitOf, tmuVars
<1>5. CASE LimitSet(TMU)
  BY <1>1, <1>5 DEF LimitSet, Goto, LimitInv, Limited, LimitOf, tmuVars, limits
<1>6. CASE Rest
  <2>1. UNCHANGED limits
    BY <1>6 DEF Rest, Governor, TargetSet, Lock, LockEnter, LockRegister, LockRead, LockSet,
       exynos_cpufreq_lock_free, Sleep, PMPrepare, PMDisable, PMUnlock, PMMaxLevel,
       PMEnable, exynos_cpufreq_policy_notifier_call, cpufreq_out_of_sync
  <2>2. pc[TMU] = "limit" => pc'[TMU] = "limit" /\ level'[TMU] = level[TMU]
    <3>1. ASSUME NEW n \in Ids, NEW l, LockEnter(n, l), pc[TMU] = "limit"
          PROVE  pc'[TMU] = "limit" /\ level'[TMU] = level[TMU]
      BY <1>0, <3>1 DEF LockEnter, Goto, TmuTypeOK, TypeOK
    <3>2. ASSUME NEW n \in Ids, LockRegister(n) \/ LockRead(n) \/ LockSet(n), pc[TMU] = "limit"
          PROVE  pc'[TMU] = "limit" /\ level'[TMU] = level[TMU]
      BY <1>0, <3>2 DEF LockRegister, LockRead, LockSet, Goto, TmuTypeOK, TypeOK
    <3>3. ASSUME PMDisable \/ PMUnlock \/ PMMaxLevel \/ PMEnable, pc[TMU] = "limit"
          PROVE  pc'[TMU] = "limit" /\ level'[TMU] = level[TMU]
      BY <1>0, <3>3 DEF PMDisable, PMUnlock, PMMaxLevel, PMEnable, Goto, TmuTypeOK, TypeOK
    <3>4. ASSUME Sleep, pc[TMU] = "limit"
          PROVE  pc'[TMU] = "limit" /\ level'[TMU] = level[TMU]
      BY <1>0, <3>1, <3>2, <3>3, <3>4 DEF Sleep, PMPrepare
    <3>5. ASSUME NEW n \in Lockers, Lock(n), pc[TMU] = "limit"
          PROVE  pc'[TMU] = "limit" /\ level'[TMU] = level[TMU]
      <4>1. n \in Ids
        BY DEF Ids
      <4> QED
        BY <3>1, <3>2, <3>5, <4>1 DEF Lock, exynos_cpufreq_lock_free
    <3> QED
      BY <1>6, <3>4, <3>5
      DEF Rest, Governor, TargetSet, exynos_cpufreq_policy_notifier_call, cpufreq_out_of_sync
  <2> QED
    BY <1>1, <2>1, <2>2 DEF LimitInv, Limited, LimitOf, tmuVars, limits
<1> QED
  BY <1>4, <1>5, <1>6 DEF LimitSteps

LEMMA InitTmuInv == TmuInit => TmuInv
<1> SUFFICES ASSUME TmuInit PROVE TmuInv
  OBVIOUS
<1>1. FreqInv /\ TypeOK
  BY InitFreqInv DEF TmuInit, FreqInv
<1>2. TmuTypeOK
  <2>1. temp \in 0 .. MaxTemp /\ changes \in 0 .. MaxChanges /\ cur_temp \in 0 .. MaxTemp
    BY TmuAssumption DEF TmuInit, Thresholds
  <2> QED
    BY <1>1, <2>1 DEF TmuInit, TmuTypeOK
<1>3. OneWatcher /\ LimitInv
  BY DEF TmuInit, OneWatcher, Handover, LimitInv
<1> QED
  BY <1>1, <1>2, <1>3 DEF TmuInv

LEMMA NextTmuInv == TmuInv /\ [TmuNext]_allVars => TmuInv'
<1> SUFFICES ASSUME TmuInv, [TmuNext]_allVars PROVE TmuInv'
  OBVIOUS
<1>1. FreqInv'
  BY TmuStepsDriver, NextFreqInv DEF TmuInv
<1>2. CASE TmuNext
  BY <1>1, <1>2, SensorStep, MonitorStep, DriverStep DEF TmuNext
<1>3. CASE UNCHANGED allVars
  BY <1>1, <1>3 DEF TmuInv, FreqInv, TmuTypeOK, OneWatcher, LimitInv, Limited, LimitOf, Handover,
                    allVars, tmuVars, sensor, cpufreq, limits
<1> QED
  BY <1>2, <1>3

\* tmu_irq and tmu_monitor hand the temperature to each other, never both and,
\* but for "TMU interrupt error" and the end, never neither; and already_limit,
\* which keeps tmu_monitor from trying again, tells the truth: the limit of the
\* state is set unless the driver has refused it.
THEOREM ThermalSafety == TmuSpec => []ThermalConsistent
<1>1. TmuInv => ThermalConsistent
  BY DEF TmuInv, LimitInv, OneWatcher, ThermalConsistent, LimitMeansLimited
<1> QED
  BY <1>1, InitTmuInv, NextTmuInv, PTL DEF TmuSpec

-----------------------------------------------------------------------------
(* The hotplug governor.                                                   *)

\* TypeOK, with what recent holds.
Types == HotplugTypeOK /\ recent \in Seq(Nr)

\* The flag follows the notifier for sleep.
FlagFollows == can_hotplug <=> pm = "awake"

Nested(S) == \A c, d \in Cores : c \in S /\ c < d => d \in S

\* The cores that are up are nested, also with those that kernel/cpu.c will
\* take up again.
NestedInv ==
  /\ pm # "asleep" => frozen = {}
  /\ ~disturbed => Nested(online) /\ Nested(online \cup frozen)

\* No frequency counter runs ahead of the transitions since a core moved.
SinceInv == freq_in <= since /\ freq_out <= since

\* Nor of the calls since a sleep; and the counters of the run queue stand for
\* the latest ones.
RecentInv ==
  ~disturbed =>
    /\ freq_in <= fresh /\ freq_out <= fresh
    /\ \A k \in 2 .. 4 : over[k] <= Len(recent) /\ under[k] <= Len(recent)
    /\ \A k \in 2 .. 4, i \in 1 .. Len(recent) :
         /\ i > Len(recent) - over[k] => recent[i] >= k
         /\ i > Len(recent) - under[k] => recent[i] < k

HInv == Types /\ FlagFollows /\ NestedInv /\ SinceInv /\ RecentInv

-----------------------------------------------------------------------------
(* The operators of the governor.                                          *)

LEMMA MinOfPair ==
  ASSUME NEW a \in Int, NEW b \in Int
  PROVE  Min({a, b}) = IF a <= b THEN a ELSE b
<1>1. \E x \in {a, b} : \A y \in {a, b} : x =< y
  OBVIOUS
<1>2. Min({a, b}) \in {a, b} /\ \A y \in {a, b} : Min({a, b}) =< y
  BY <1>1 DEF Min
<1> QED
  BY <1>2

\* Sets of cores have a least and a greatest element.
LEMMA MinOfCores ==
  ASSUME NEW S, S \subseteq Cores, S # {}
  PROVE  Min(S) \in S /\ \A y \in S : Min(S) <= y
<1>1. \E x \in S : \A y \in S : x =< y
  <2>1. Cores = {1, 2, 3}
    BY DEF Cores
  <2>2. 1 \in S \/ (1 \notin S /\ 2 \in S) \/ S = {3}
    BY <2>1
  <2> QED
    BY <2>1, <2>2
<1> QED
  BY <1>1 DEF Min

LEMMA MaxOfCores ==
  ASSUME NEW S, S \subseteq Cores, S # {}
  PROVE  Max(S) \in S /\ \A y \in S : y <= Max(S)
<1>1. \E x \in S : \A y \in S : x >= y
  <2>1. Cores = {1, 2, 3}
    BY DEF Cores
  <2>2. 3 \in S \/ (3 \notin S /\ 2 \in S) \/ S = {1}
    BY <2>1
  <2> QED
    BY <2>1, <2>2
<1>2. Max(S) \in S /\ \A y \in S : Max(S) >= y
  BY <1>1 DEF Max
<1> QED
  BY <1>2 DEF Cores

\* A counter goes one up, until its bound.
LEMMA UpCounts ==
  ASSUME NEW b \in Nat, NEW n \in 0 .. b
  PROVE  Up(n, b) \in 0 .. b /\ Up(n, b) <= n + 1 /\ (Up(n, b) = n + 1 \/ Up(n, b) = b)
<1>1. Up(n, b) = IF n + 1 <= b THEN n + 1 ELSE b
  BY MinOfPair DEF Up
<1> QED
  BY <1>1

\* What the two chains of else-ifs decide: at most one core, to come up only
\* when the frequency stays high and to go down only when it stays low, after
\* a streak of the frequency and one of the run queue.
LEMMA PlugInDecides ==
  ASSUME Types, NEW new, NEW needed \in SUBSET Cores, NEW c \in PlugIn(freq, new, needed)
  PROVE  /\ freq = "high" /\ new = "high"
         /\ freq_in >= FreqStreak - 1
         /\ c \in needed \ online /\ PlugIn(freq, new, needed) = {c}
         /\ \A d \in needed \ online : d <= c
         /\ over'[Needs(c)] >= (IF c = 1 THEN NrStreakLong ELSE NrStreak)
<1> DEFINE S == {d \in needed \ online : freq = "high" /\ new = "high"}
           m == Max(S)
<1>1. S # {} /\ c = m /\ PlugIn(freq, new, needed) = {m}
      /\ over'[Needs(m)] >= (IF m = 1 THEN NrStreakLong ELSE NrStreak)
      /\ Streak(freq_in, TRUE, FreqStreak) >= FreqStreak
  BY DEF PlugIn, Candidate
<1>2. m \in S /\ \A y \in S : y <= m
  <2>1. S \subseteq Cores
    OBVIOUS
  <2> HIDE DEF S
  <2> QED
    BY <1>1, <2>1, MaxOfCores
<1>3. freq_in >= FreqStreak - 1
  <2>1. FreqStreak \in Nat /\ freq_in \in 0 .. FreqStreak
    BY HotplugAssumption DEF Types, HotplugTypeOK
  <2>2. Up(freq_in, FreqStreak) >= FreqStreak
    BY <1>1 DEF Streak
  <2>3. Up(freq_in, FreqStreak) \in 0 .. FreqStreak /\ Up(freq_in, FreqStreak) <= freq_in + 1
    BY <2>1, UpCounts
  <2> QED
    BY <2>1, <2>2, <2>3
<1> QED
  BY <1>1, <1>2, <1>3

LEMMA PlugOutDecides ==
  ASSUME Types, NEW new, NEW needed \in SUBSET Cores, NEW c \in PlugOut(freq, new, needed)
  PROVE  /\ freq = "low" /\ new = "low"
         /\ freq_out >= FreqStreak - 1
         /\ c \in online \ needed /\ PlugOut(freq, new, needed) = {c}
         /\ \A d \in online \ needed : c <= d
         /\ under'[Needs(c)] >= NrStreakLong
<1> DEFINE S == {d \in online \ needed : freq = "low" /\ new = "low"}
           m == Min(S)
<1>1. S # {} /\ c = m /\ PlugOut(freq, new, needed) = {m}
      /\ under'[Needs(m)] >= NrStreakLong
      /\ Streak(freq_out, TRUE, FreqStreak) >= FreqStreak
  BY DEF PlugOut
<1>2. m \in S /\ \A y \in S : m <= y
  <2>1. S \subseteq Cores
    BY DEF Types, HotplugTypeOK
  <2> HIDE DEF S
  <2> QED
    BY <1>1, <2>1, MinOfCores
<1>3. freq_out >= FreqStreak - 1
  <2>1. FreqStreak \in Nat /\ freq_out \in 0 .. FreqStreak
    BY HotplugAssumption DEF Types, HotplugTypeOK
  <2>2. Up(freq_out, FreqStreak) >= FreqStreak
    BY <1>1 DEF Streak
  <2>3. Up(freq_out, FreqStreak) \in 0 .. FreqStreak /\ Up(freq_out, FreqStreak) <= freq_out + 1
    BY <2>1, UpCounts
  <2> QED
    BY <2>1, <2>2, <2>3
<1> QED
  BY <1>1, <1>2, <1>3

\* The counters of the run queue after a call.
LEMMA CountTypes ==
  ASSUME Types, NEW n \in Nr \cup {0}, Count(n)
  PROVE  /\ over' \in [2 .. 4 -> 0 .. NrStreakLong] /\ under' \in [2 .. 4 -> 0 .. NrStreakLong]
         /\ n # 0 => \A k \in 2 .. 4 : /\ over'[k] <= over[k] + 1 /\ under'[k] <= under[k] + 1
                                       /\ n < k => over'[k] = 0
                                       /\ n >= k => under'[k] = 0
<1>1. CASE n = 0
  <2>1. NrStreakLong \in 0 .. NrStreakLong
    BY HotplugAssumption
  <2> QED
    BY <1>1, <2>1 DEF Count
<1>2. CASE n # 0
  <2>1. over' = [k \in 2 .. 4 |-> Streak(over[k], n >= k, NrStreakLong)]
        /\ under' = [k \in 2 .. 4 |-> Streak(under[k], n < k, NrStreakLong)]
    BY <1>2 DEF Count
  <2>2. \A k \in 2 .. 4 :
          /\ Streak(over[k], n >= k, NrStreakLong) \in 0 .. NrStreakLong
          /\ Streak(over[k], n >= k, NrStreakLong) <= over[k] + 1
          /\ n < k => Streak(over[k], n >= k, NrStreakLong) = 0
    <3>1. SUFFICES ASSUME NEW k \in 2 .. 4
                   PROVE  /\ Streak(over[k], n >= k, NrStreakLong) \in 0 .. NrStreakLong
                          /\ Streak(over[k], n >= k, NrStreakLong) <= over[k] + 1
                          /\ n < k => Streak(over[k], n >= k, NrStreakLong) = 0
      OBVIOUS
    <3>2. over[k] \in 0 .. NrStreakLong /\ NrStreakLong \in Nat /\ n \in Int
      BY HotplugAssumption DEF Types, HotplugTypeOK, Nr
    <3>3. CASE n >= k
      <4>1. Streak(over[k], n >= k, NrStreakLong) = Up(over[k], NrStreakLong)
        BY <3>3 DEF Streak
      <4>2. Up(over[k], NrStreakLong) \in 0 .. NrStreakLong /\ Up(over[k], NrStreakLong) <= over[k] + 1
        BY <3>2, UpCounts
      <4> QED
        BY <3>2, <3>3, <4>1, <4>2
    <3>4. CASE ~(n >= k)
      <4>1. Streak(over[k], n >= k, NrStreakLong) = 0
        BY <3>4 DEF Streak
      <4> QED
        BY <3>2, <4>1
    <3> QED
      BY <3>3, <3>4
  <2>3. \A k \in 2 .. 4 :
          /\ Streak(under[k], n < k, NrStreakLong) \in 0 .. NrStreakLong
          /\ Streak(under[k], n < k, NrStreakLong) <= under[k] + 1
          /\ n >= k => Streak(under[k], n < k, NrStreakLong) = 0
    <3>1. SUFFICES ASSUME NEW k \in 2 .. 4
                   PROVE  /\ Streak(under[k], n < k, NrStreakLong) \in 0 .. NrStreakLong
                          /\ Streak(under[k], n < k, NrStreakLong) <= under[k] + 1
                          /\ n >= k => Streak(under[k], n < k, NrStreakLong) = 0
      OBVIOUS
    <3>2. under[k] \in 0 .. NrStreakLong /\ NrStreakLong \in Nat /\ n \in Int
      BY HotplugAssumption DEF Types, HotplugTypeOK, Nr
    <3>3. CASE n < k
      <4>1. Streak(under[k], n < k, NrStreakLong) = Up(under[k], NrStreakLong)
        BY <3>3 DEF Streak
      <4>2. Up(under[k], NrStreakLong) \in 0 .. NrStreakLong /\ Up(under[k], NrStreakLong) <= under[k] + 1
        BY <3>2, UpCounts
      <4> QED
        BY <3>2, <3>3, <4>1, <4>2
    <3>4. CASE ~(n < k)
      <4>1. Streak(under[k], n < k, NrStreakLong) = 0
        BY <3>4 DEF Streak
      <4> QED
        BY <3>2, <4>1
    <3> QED
      BY <3>3, <3>4
  <2> QED
    BY <2>1, <2>2, <2>3
<1> QED
  BY <1>1, <1>2

-----------------------------------------------------------------------------
(* One call of exynos4_integrated_dvfs_hotplug.                            *)

\* Cores move in one direction only, after a streak of the frequency, and
\* then the counters of the frequency start anew.
LEMMA CallMoves ==
  ASSUME HInv, NEW new \in Freq, NEW n, NEW needed \in SUBSET Cores,
         exynos4_integrated_dvfs_hotplug(new, n, needed)
  PROVE  LET in == PlugIn(freq, new, needed)
             out == PlugOut(freq, new, needed)
         IN  /\ in = {} \/ out = {}
             /\ online' # online => in \cup out # {}
             /\ in \cup out # {} => /\ since >= FreqStreak - 1
                                    /\ since' = 0 /\ freq_in' = 0 /\ freq_out' = 0
             /\ in \cup out = {} => since' = Up(since, FreqStreak)
             /\ freq_in' = 0 \/ freq_in' = Up(freq_in, FreqStreak)
             /\ freq_out' = 0 \/ freq_out' = Up(freq_out, FreqStreak)
<1> DEFINE in == PlugIn(freq, new, needed)
           out == PlugOut(freq, new, needed)
<1>0. /\ \/ online' = (online \cup in) \ out
         \/ in \cup out # {} /\ UNCHANGED online
      /\ freq_in' = FreqCount(freq_in, freq = "high" /\ new = "high", in # {})
      /\ freq_out' = FreqCount(freq_out, freq = "low" /\ new = "low", out # {})
      /\ since' = IF in \cup out # {} THEN 0 ELSE Up(since, FreqStreak)
  BY DEF exynos4_integrated_dvfs_hotplug
<1>1. in # {} => freq = "high" /\ freq_in >= FreqStreak - 1
  BY PlugInDecides DEF HInv
<1>2. out # {} => freq = "low" /\ freq_out >= FreqStreak - 1
  BY PlugOutDecides DEF HInv
<1>3. in = {} \/ out = {}
  BY <1>1, <1>2
<1>4. freq_in \in Int /\ freq_out \in Int /\ since \in Int /\ FreqStreak \in Int
  BY HotplugAssumption DEF HInv, Types, HotplugTypeOK
<1>5. in \cup out # {} => since >= FreqStreak - 1
  BY <1>1, <1>2, <1>4 DEF HInv, SinceInv
<1>6. freq_in' = 0 \/ freq_in' = Up(freq_in, FreqStreak)
  BY <1>0 DEF FreqCount, Streak
<1>7. freq_out' = 0 \/ freq_out' = Up(freq_out, FreqStreak)
  BY <1>0 DEF FreqCount, Streak
<1>8. in \cup out # {} => freq_in' = 0 /\ freq_out' = 0
  <2>1. CASE in # {}
    <3>1. freq_in' = 0
      BY <1>0, <2>1 DEF FreqCount
    <3>2. freq_out' = 0
      BY <1>0, <1>1, <2>1 DEF FreqCount, Streak
    <3> QED
      BY <3>1, <3>2
  <2>2. CASE out # {}
    <3>1. freq_out' = 0
      BY <1>0, <2>2 DEF FreqCount
    <3>2. freq_in' = 0
      BY <1>0, <1>2, <2>2 DEF FreqCount, Streak
    <3> QED
      BY <3>1, <3>2
  <2> QED
    BY <2>1, <2>2
<1>9. online' # online => in \cup out # {}
  BY <1>0
<1> HIDE DEF in, out
<1>10. QED
  BY <1>0, <1>3, <1>5, <1>6, <1>7, <1>8, <1>9 DEF in, out

LEMMA CallKeeps ==
  ASSUME HInv, NEW new \in Freq, NEW n \in Nr \cup {0}, NEW needed \in SUBSET Cores,
         disturbed' \in BOOLEAN, n = 0 => disturbed',
         exynos4_integrated_dvfs_hotplug(new, n, needed)
  PROVE  /\ online' \subseteq Cores
         /\ over' \in [2 .. 4 -> 0 .. NrStreakLong] /\ under' \in [2 .. 4 -> 0 .. NrStreakLong]
         /\ freq_in' \in 0 .. FreqStreak /\ freq_out' \in 0 .. FreqStreak
         /\ since' \in 0 .. FreqStreak /\ fresh' \in 0 .. FreqStreak
         /\ recent' \in Seq(Nr) /\ Len(recent') <= NrStreakLong
         /\ SinceInv'
<1> DEFINE in == PlugIn(freq, new, needed)
           out == PlugOut(freq, new, needed)
<1>0. /\ FreqStreak \in Nat \ {0} /\ NrStreakLong \in Nat
      /\ freq_in \in 0 .. FreqStreak /\ freq_out \in 0 .. FreqStreak
      /\ since \in 0 .. FreqStreak /\ fresh \in 0 .. FreqStreak
      /\ recent \in Seq(Nr) /\ Len(recent) <= NrStreakLong
  BY HotplugAssumption DEF HInv, Types, HotplugTypeOK
<1>1. online' \subseteq Cores
  <2>1. in \subseteq Cores
    BY PlugInDecides DEF HInv
  <2>2. online' = (online \cup in) \ out \/ online' = online
    BY DEF exynos4_integrated_dvfs_hotplug
  <2> QED
    BY <2>1, <2>2 DEF HInv, Types, HotplugTypeOK
<1>2. over' \in [2 .. 4 -> 0 .. NrStreakLong] /\ under' \in [2 .. 4 -> 0 .. NrStreakLong]
  BY CountTypes DEF exynos4_integrated_dvfs_hotplug, HInv
<1>3. /\ Up(freq_in, FreqStreak) \in 0 .. FreqStreak /\ Up(freq_in, FreqStreak) <= freq_in + 1
      /\ Up(freq_out, FreqStreak) \in 0 .. FreqStreak /\ Up(freq_out, FreqStreak) <= freq_out + 1
      /\ Up(since, FreqStreak) \in 0 .. FreqStreak
      /\ Up(since, FreqStreak) = since + 1 \/ Up(since, FreqStreak) = FreqStreak
  BY <1>0, UpCounts
<1>4. /\ in \cup out # {} => since' = 0 /\ freq_in' = 0 /\ freq_out' = 0
      /\ in \cup out = {} => since' = Up(since, FreqStreak)
      /\ freq_in' = 0 \/ freq_in' = Up(freq_in, FreqStreak)
      /\ freq_out' = 0 \/ freq_out' = Up(freq_out, FreqStreak)
  BY CallMoves
<1>5. since' \in 0 .. FreqStreak /\ freq_in' \in 0 .. FreqStreak /\ freq_out' \in 0 .. FreqStreak
  BY <1>0, <1>3, <1>4
<1>6. freq_in' <= since' /\ freq_out' <= since'
  <2>1. CASE in \cup out # {}
    BY <1>4, <2>1
  <2>2. CASE in \cup out = {}
    <3>1. since' = Up(since, FreqStreak)
      BY <1>4, <2>2
    <3>2. freq_in <= since /\ freq_out <= since
      BY DEF HInv, SinceInv
    <3> QED
      BY <1>0, <1>3, <1>4, <3>1, <3>2
  <2> QED
    BY <2>1, <2>2
<1>8. fresh' \in 0 .. FreqStreak
  <2>0. FreqStreak \in Nat /\ fresh \in 0 .. FreqStreak
    BY <1>0
  <2>3. Up(fresh, FreqStreak) \in 0 .. FreqStreak
    BY <2>0, UpCounts
  <2>1. Up(fresh, FreqStreak) \in 0 .. FreqStreak /\ 0 \in 0 .. FreqStreak
    BY <2>0, <2>3
  <2>2. fresh' = 0 \/ fresh' = Up(fresh, FreqStreak)
    BY DEF exynos4_integrated_dvfs_hotplug
  <2> QED
    BY <2>1, <2>2
<1>7. recent' \in Seq(Nr) /\ Len(recent') <= NrStreakLong
  <2>1. CASE disturbed'
    <3>1. recent' = <<>>
      BY <2>1 DEF exynos4_integrated_dvfs_hotplug
    <3> QED
      BY <1>0, <3>1
  <2>2. CASE ~disturbed'
    <3> DEFINE h == Append(recent, n)
    <3>1. n \in Nr
      BY <2>2
    <3>2. h \in Seq(Nr) /\ Len(h) = Len(recent) + 1 /\ h # <<>>
      BY <1>0, <3>1
    <3>3. recent' = IF Len(h) > NrStreakLong THEN Tail(h) ELSE h
      BY <2>2 DEF exynos4_integrated_dvfs_hotplug
    <3>4. Tail(h) \in Seq(Nr) /\ Len(Tail(h)) = Len(recent)
      <4> HIDE DEF h
      <4> QED
        BY <3>2, <1>0
    <3> HIDE DEF h
    <3> QED
      BY <1>0, <3>2, <3>3, <3>4
  <2> QED
    BY <2>1, <2>2
<1> QED
  BY <1>1, <1>2, <1>5, <1>6, <1>7, <1>8 DEF SinceInv

\* The counters of an undisturbed call stand for the latest run queues, this
\* one included.
LEMMA CallRecent ==
  ASSUME HInv, NEW new \in Freq, NEW n \in Nr, NEW needed \in SUBSET Cores,
         ~disturbed, ~disturbed',
         exynos4_integrated_dvfs_hotplug(new, n, needed)
  PROVE  /\ RecentInv'
         /\ fresh' = Up(fresh, FreqStreak)
<1> DEFINE h == Append(recent, n)
<1>0. /\ FreqStreak \in Nat \ {0} /\ NrStreakLong \in Nat
      /\ freq_in \in 0 .. FreqStreak /\ freq_out \in 0 .. FreqStreak
      /\ fresh \in 0 .. FreqStreak
      /\ recent \in Seq(Nr) /\ Len(recent) <= NrStreakLong
      /\ over \in [2 .. 4 -> 0 .. NrStreakLong] /\ under \in [2 .. 4 -> 0 .. NrStreakLong]
  BY HotplugAssumption DEF HInv, Types, HotplugTypeOK
<1>1. /\ h \in Seq(Nr) /\ Len(h) = Len(recent) + 1
      /\ h[Len(h)] = n /\ \A i \in 1 .. Len(recent) : h[i] = recent[i]
  BY <1>0
<1>2. recent' = IF Len(h) > NrStreakLong THEN Tail(h) ELSE h
  BY DEF exynos4_integrated_dvfs_hotplug
<1> HIDE DEF h
<1>3. /\ over' \in [2 .. 4 -> 0 .. NrStreakLong] /\ under' \in [2 .. 4 -> 0 .. NrStreakLong]
      /\ \A k \in 2 .. 4 : /\ over'[k] <= over[k] + 1 /\ under'[k] <= under[k] + 1
                           /\ n < k => over'[k] = 0
                           /\ n >= k => under'[k] = 0
  <2>1. n # 0
    BY DEF Nr
  <2> QED
    BY <2>1, CountTypes DEF exynos4_integrated_dvfs_hotplug, HInv
<1>9. \A k \in 2 .. 4 : over[k] \in Nat /\ under[k] \in Nat
  <2>1. over \in [2 .. 4 -> 0 .. NrStreakLong] /\ under \in [2 .. 4 -> 0 .. NrStreakLong]
    BY <1>0
  <2> QED
    BY <2>1
<1>10. \A k \in 2 .. 4 : over'[k] \in Nat /\ under'[k] \in Nat
  <2>1. over' \in [2 .. 4 -> 0 .. NrStreakLong] /\ under' \in [2 .. 4 -> 0 .. NrStreakLong]
    BY <1>3
  <2> QED
    BY <2>1
<1>4. \A k \in 2 .. 4, i \in 1 .. Len(h) :
        /\ i > Len(h) - over'[k] => h[i] >= k
        /\ i > Len(h) - under'[k] => h[i] < k
  <2>1. SUFFICES ASSUME NEW k \in 2 .. 4, NEW i \in 1 .. Len(h)
                 PROVE  /\ i > Len(h) - over'[k] => h[i] >= k
                        /\ i > Len(h) - under'[k] => h[i] < k
    OBVIOUS
  <2>0. Len(recent) \in Nat /\ Len(h) \in Nat /\ i \in Int /\ n \in Int
    <3>1. Len(recent) \in Nat
      BY <1>0
    <3>2. Len(h) \in Nat
      BY <1>1
    <3>3. n \in Int
      BY DEF Nr
    <3> QED
      BY <3>1, <3>2, <3>3
  <2>5. over[k] \in Nat /\ under[k] \in Nat /\ over'[k] \in Nat /\ under'[k] \in Nat
    BY <1>9, <1>10, Zenon
  <2>2. /\ over'[k] <= over[k] + 1 /\ under'[k] <= under[k] + 1
        /\ n < k => over'[k] = 0
        /\ n >= k => under'[k] = 0
    BY <1>3
  <2>3. CASE i = Len(h)
    BY <1>1, <2>0, <2>5, <2>2, <2>3
  <2>4. CASE i # Len(h)
    <3>1. i \in 1 .. Len(recent) /\ h[i] = recent[i]
      BY <1>1, <2>0, <2>4
    <3>2. /\ i > Len(recent) - over[k] => recent[i] >= k
          /\ i > Len(recent) - under[k] => recent[i] < k
      BY <3>1 DEF HInv, RecentInv
    <3>3. Len(h) = Len(recent) + 1
      BY <1>1
    <3>4. i > Len(h) - over'[k] => i > Len(recent) - over[k]
      BY <2>0, <2>2, <2>5, <3>3
    <3>5. i > Len(h) - under'[k] => i > Len(recent) - under[k]
      BY <2>0, <2>2, <2>5, <3>3
    <3> QED
      BY <3>1, <3>2, <3>4, <3>5
  <2> QED
    BY <2>3, <2>4
<1>5. freq_in' <= freq_in + 1 /\ freq_out' <= freq_out + 1
      /\ freq_in' \in 0 .. FreqStreak /\ freq_out' \in 0 .. FreqStreak
  <2>1. freq_in' = 0 \/ freq_in' = Up(freq_in, FreqStreak)
    BY CallMoves
  <2>2. freq_out' = 0 \/ freq_out' = Up(freq_out, FreqStreak)
    BY CallMoves
  <2>3. /\ Up(freq_in, FreqStreak) \in 0 .. FreqStreak /\ Up(freq_in, FreqStreak) <= freq_in + 1
        /\ Up(freq_out, FreqStreak) \in 0 .. FreqStreak /\ Up(freq_out, FreqStreak) <= freq_out + 1
    BY <1>0, UpCounts
  <2>4. freq_in \in Nat /\ freq_out \in Nat /\ FreqStreak \in Nat
    BY <1>0
  <2>5. freq_in' <= freq_in + 1 /\ freq_in' \in 0 .. FreqStreak
    BY <2>1, <2>3, <2>4
  <2>6. freq_out' <= freq_out + 1 /\ freq_out' \in 0 .. FreqStreak
    BY <2>2, <2>3, <2>4
  <2> QED
    BY <2>5, <2>6
<1>6. fresh' = Up(fresh, FreqStreak)
  BY DEF exynos4_integrated_dvfs_hotplug
<1>11. freq_in' <= fresh' /\ freq_out' <= fresh'
  <2>1. freq_in <= fresh /\ freq_out <= fresh
    BY DEF HInv, RecentInv
  <2>2. Up(fresh, FreqStreak) = fresh + 1 \/ Up(fresh, FreqStreak) = FreqStreak
    BY <1>0, UpCounts
  <2> QED
    BY <1>0, <1>5, <1>6, <2>1, <2>2
<1>12. \A k \in 2 .. 4 : /\ over'[k] <= Len(recent) + 1 /\ over'[k] <= NrStreakLong
                         /\ under'[k] <= Len(recent) + 1 /\ under'[k] <= NrStreakLong
  <2>1. SUFFICES ASSUME NEW k \in 2 .. 4
                 PROVE  /\ over'[k] <= Len(recent) + 1 /\ over'[k] <= NrStreakLong
                        /\ under'[k] <= Len(recent) + 1 /\ under'[k] <= NrStreakLong
    OBVIOUS
  <2>2. over[k] <= Len(recent) /\ under[k] <= Len(recent)
    BY DEF HInv, RecentInv
  <2>3. over'[k] <= over[k] + 1 /\ under'[k] <= under[k] + 1
    BY <1>3
  <2>4. over'[k] \in 0 .. NrStreakLong /\ under'[k] \in 0 .. NrStreakLong
    BY <1>3
  <2>5. over[k] \in Nat /\ under[k] \in Nat
    BY <1>9
  <2>6. Len(recent) \in Nat /\ NrStreakLong \in Nat
    BY <1>0
  <2> DEFINE a == over'[k]  b == under'[k]  c == over[k]  d == under[k]  e == Len(recent)
  <2>7. /\ a \in 0 .. NrStreakLong /\ b \in 0 .. NrStreakLong /\ c \in Nat /\ d \in Nat /\ e \in Nat
        /\ c <= e /\ d <= e /\ a <= c + 1 /\ b <= d + 1
    BY <2>2, <2>3, <2>4, <2>5, <2>6
  <2> HIDE DEF a, b, c, d, e
  <2>8. a <= e + 1 /\ a <= NrStreakLong /\ b <= e + 1 /\ b <= NrStreakLong
    BY <2>6, <2>7
  <2> QED
    BY <2>8 DEF a, b, e
<1>7. CASE Len(h) > NrStreakLong
  <2>1. Len(recent) = NrStreakLong /\ Len(h) = NrStreakLong + 1
    BY <1>0, <1>1, <1>7
  <2>2. recent' = Tail(h) /\ Len(Tail(h)) = NrStreakLong
        /\ \A i \in 1 .. NrStreakLong : Tail(h)[i] = h[i + 1]
    <3> QED
      BY <1>0, <1>1, <1>2, <1>7, <2>1
  <2>3. \A k \in 2 .. 4, i \in 1 .. Len(recent') :
          /\ i > Len(recent') - over'[k] => recent'[i] >= k
          /\ i > Len(recent') - under'[k] => recent'[i] < k
    <3>1. SUFFICES ASSUME NEW k \in 2 .. 4, NEW i \in 1 .. Len(recent')
                   PROVE  /\ i > Len(recent') - over'[k] => recent'[i] >= k
                          /\ i > Len(recent') - under'[k] => recent'[i] < k
      OBVIOUS
    <3>2. i + 1 \in 1 .. Len(h) /\ recent'[i] = h[i + 1] /\ Len(recent') = NrStreakLong
      BY <1>0, <2>1, <2>2
    <3>3. over'[k] \in Nat /\ under'[k] \in Nat /\ i \in Int
      BY <1>10
    <3>4. /\ i + 1 > Len(h) - over'[k] => h[i + 1] >= k
          /\ i + 1 > Len(h) - under'[k] => h[i + 1] < k
      BY <1>4, <3>2
    <3>5. i > Len(recent') - over'[k] => i + 1 > Len(h) - over'[k]
      <4> DEFINE m == over'[k]
      <4>1. NrStreakLong \in Nat /\ Len(recent') = NrStreakLong /\ Len(h) = NrStreakLong + 1 /\ m \in Nat
        BY <1>0, <2>1, <3>2, <3>3
      <4> HIDE DEF m
      <4>2. i > NrStreakLong - m => i + 1 > NrStreakLong + 1 - m
        BY <3>3, <4>1
      <4>3. i > Len(recent') - m => i + 1 > Len(h) - m
        BY <4>1, <4>2
      <4> QED
        BY <4>3 DEF m
    <3>6. i > Len(recent') - under'[k] => i + 1 > Len(h) - under'[k]
      <4> DEFINE m == under'[k]
      <4>1. NrStreakLong \in Nat /\ Len(recent') = NrStreakLong /\ Len(h) = NrStreakLong + 1 /\ m \in Nat
        BY <1>0, <2>1, <3>2, <3>3
      <4> HIDE DEF m
      <4>2. i > NrStreakLong - m => i + 1 > NrStreakLong + 1 - m
        BY <3>3, <4>1
      <4>3. i > Len(recent') - m => i + 1 > Len(h) - m
        BY <4>1, <4>2
      <4> QED
        BY <4>3 DEF m
    <3> QED
      BY <3>2, <3>4, <3>5, <3>6
  <2> QED
    <3>1. Len(recent') = NrStreakLong
      BY <2>2
    <3>2. \A k \in 2 .. 4 : over'[k] <= Len(recent') /\ under'[k] <= Len(recent')
      BY <1>12, <3>1, Zenon
    <3> QED
      BY <1>6, <1>11, <2>3, <3>2 DEF RecentInv
<1>8. CASE ~(Len(h) > NrStreakLong)
  <2>1. recent' = h
    BY <1>2, <1>8
  <2>2. Len(recent') = Len(recent) + 1
    BY <1>1, <2>1
  <2>3. \A k \in 2 .. 4 : over'[k] <= Len(recent') /\ under'[k] <= Len(recent')
    BY <1>12, <2>2, Zenon
  <2>4. \A k \in 2 .. 4, i \in 1 .. Len(recent') :
          /\ i > Len(recent') - over'[k] => recent'[i] >= k
          /\ i > Len(recent') - under'[k] => recent'[i] < k
    BY <1>4, <2>1, Zenon
  <2> QED
    BY <1>6, <1>11, <2>3, <2>4 DEF RecentInv
<1> QED
  BY <1>6, <1>7, <1>8

\* With one run queue for all comparisons the cores that are needed are the
\* top ones, so that the core that moves is next to those that are up.
LEMMA CallNested ==
  ASSUME HInv, NEW new \in Freq, NEW n \in Nr, ~disturbed, ~disturbed',
         exynos4_integrated_dvfs_hotplug(new, n, {c \in Cores : n >= Needs(c)})
  PROVE  Nested(online')
<1> DEFINE needed == {c \in Cores : n >= Needs(c)}
           in == PlugIn(freq, new, needed)
           out == PlugOut(freq, new, needed)
<1>1. online' = (online \cup in) \ out
  BY DEF exynos4_integrated_dvfs_hotplug
<1>2. Nested(online) /\ online \subseteq Cores
  BY DEF HInv, NestedInv, Types, HotplugTypeOK
<1>3. \A c, d \in Cores : c \in needed /\ c < d => d \in needed
  BY DEF Cores, Nr, Needs
<1>4. needed \in SUBSET Cores
  OBVIOUS
<1> HIDE DEF needed
<1>5. in = {} \/ out = {}
  BY <1>4, CallMoves DEF needed
<1>6. ASSUME NEW c \in in PROVE in = {c} /\ c \in needed \ online /\ \A d \in needed \ online : d <= c
  BY <1>4, <1>6, PlugInDecides DEF HInv
<1>7. ASSUME NEW c \in out PROVE out = {c} /\ c \in online \ needed /\ \A d \in online \ needed : c <= d
  BY <1>4, <1>7, PlugOutDecides DEF HInv
<1> HIDE DEF in, out
<1>8. Cores \subseteq Int
  BY DEF Cores
<1>9. CASE in = {} /\ out = {}
  BY <1>1, <1>2, <1>9
<1>10. CASE in # {}
  <2>1. PICK c \in in : TRUE
    BY <1>10
  <2>2. online' = online \cup {c}
    BY <1>1, <1>5, <1>6, <1>10, <2>1
  <2>3. c \in Cores /\ c \in needed /\ \A d \in needed \ online : d <= c
    BY <1>4, <1>6, <2>1
  <2>4. \A d \in Cores : c < d => d \in online
    <3>1. SUFFICES ASSUME NEW d \in Cores, c < d, d \notin online PROVE FALSE
      OBVIOUS
    <3>2. d <= c
      BY <1>3, <2>3, <3>1
    <3> QED
      BY <1>8, <2>3, <3>1, <3>2
  <2> QED
    BY <1>2, <2>2, <2>4 DEF Nested
<1>11. CASE out # {}
  <2>1. PICK c \in out : TRUE
    BY <1>11
  <2>2. online' = online \ {c}
    BY <1>1, <1>5, <1>7, <1>11, <2>1
  <2>3. c \in Cores /\ c \notin needed /\ \A d \in online \ needed : c <= d
    BY <1>2, <1>7, <2>1
  <2>4. \A d \in online : ~(d < c)
    <3>1. SUFFICES ASSUME NEW d \in online, d < c PROVE FALSE
      OBVIOUS
    <3>2. d \notin needed
      BY <1>2, <1>3, <2>3, <3>1
    <3>3. c <= d
      BY <2>3, <3>2
    <3> QED
      BY <1>2, <1>8, <2>3, <3>1, <3>3
  <2> QED
    BY <1>2, <2>2, <2>4 DEF Nested
<1> QED
  BY <1>5, <1>9, <1>10, <1>11

\* A counter of the run queue that has reached m stands for the latest m run
\* queues.
LEMMA StreakIsLately ==
  ASSUME NEW h \in Seq(Nr), NEW k \in 2 .. 4, NEW m \in Nat, NEW count \in Nat,
         count <= Len(h), m <= count
  PROVE  /\ (\A i \in 1 .. Len(h) : i > Len(h) - count => h[i] >= k) => Lately(h, m, k .. 4)
         /\ (\A i \in 1 .. Len(h) : i > Len(h) - count => h[i] < k) => Lately(h, m, 1 .. k - 1)
<1>1. Len(h) \in Nat /\ Len(h) >= m
  OBVIOUS
<1>2. \A i \in Len(h) - m + 1 .. Len(h) : i \in 1 .. Len(h) /\ i > Len(h) - count
  BY <1>1
<1>3. \A i \in 1 .. Len(h) : h[i] \in 1 .. 4
  BY DEF Nr
<1>4. ASSUME \A i \in 1 .. Len(h) : i > Len(h) - count => h[i] >= k
      PROVE  Lately(h, m, k .. 4)
  <2>1. \A i \in Len(h) - m + 1 .. Len(h) : h[i] \in k .. 4
    BY <1>2, <1>3, <1>4
  <2> QED
    BY <1>1, <2>1 DEF Lately
<1>5. ASSUME \A i \in 1 .. Len(h) : i > Len(h) - count => h[i] < k
      PROVE  Lately(h, m, 1 .. k - 1)
  <2>1. \A i \in Len(h) - m + 1 .. Len(h) : h[i] \in 1 .. k - 1
    BY <1>2, <1>3, <1>5
  <2> QED
    BY <1>1, <2>1 DEF Lately
<1> QED
  BY <1>4, <1>5

\* An undisturbed call acts on the calls since the last sleep and on the
\* latest run queues.
LEMMA CallActsOnLoad ==
  ASSUME HInv, NEW new \in Freq, NEW n \in Nr, NEW needed \in SUBSET Cores,
         ~disturbed, ~disturbed', disturbed' \in BOOLEAN, online' # online,
         exynos4_integrated_dvfs_hotplug(new, n, needed)
  PROVE  /\ fresh' = FreqStreak
         /\ \A c \in online' \ online :
              Lately(recent', IF c = 1 THEN NrStreakLong ELSE NrStreak, Needs(c) .. 4)
         /\ \A c \in online \ online' : Lately(recent', NrStreakLong, 1 .. Needs(c) - 1)
<1> DEFINE in == PlugIn(freq, new, needed)
           out == PlugOut(freq, new, needed)
<1>1. FreqStreak \in Nat \ {0} /\ NrStreak \in Nat /\ NrStreakLong \in Nat
  BY HotplugAssumption
<1>2. online' = (online \cup in) \ out /\ in \cup out # {}
  BY CallMoves DEF exynos4_integrated_dvfs_hotplug
<1>3. RecentInv' /\ fresh' = Up(fresh, FreqStreak)
  BY CallRecent
<1>4. fresh' = FreqStreak
  <2>1. freq_in >= FreqStreak - 1 \/ freq_out >= FreqStreak - 1
    BY <1>2, PlugInDecides, PlugOutDecides DEF HInv
  <2>2. freq_in <= fresh /\ freq_out <= fresh
    BY DEF HInv, RecentInv
  <2>3. freq_in \in Int /\ freq_out \in Int /\ fresh \in 0 .. FreqStreak
    BY DEF HInv, Types, HotplugTypeOK
  <2>4. Up(fresh, FreqStreak) \in 0 .. FreqStreak
        /\ (Up(fresh, FreqStreak) = fresh + 1 \/ Up(fresh, FreqStreak) = FreqStreak)
    BY <1>1, <2>3, UpCounts
  <2> QED
    BY <1>1, <1>3, <2>1, <2>2, <2>3, <2>4
<1>5. recent' \in Seq(Nr)
  <2>1. n # 0
    BY DEF Nr
  <2> QED
    BY <2>1, CallKeeps
<1>6. over' \in [2 .. 4 -> 0 .. NrStreakLong] /\ under' \in [2 .. 4 -> 0 .. NrStreakLong]
  BY CountTypes DEF exynos4_integrated_dvfs_hotplug, HInv
<1>7. \A c \in Cores : Needs(c) \in 2 .. 4
  BY DEF Cores, Needs
<1>8. ASSUME NEW c \in online' \ online
      PROVE  Lately(recent', IF c = 1 THEN NrStreakLong ELSE NrStreak, Needs(c) .. 4)
  <2> DEFINE k == Needs(c)
             m == IF c = 1 THEN NrStreakLong ELSE NrStreak
             count == over'[Needs(c)]
  <2>1. c \in in /\ c \in Cores
    BY <1>2, <1>8, PlugInDecides DEF HInv
  <2>2. count >= m
    BY <2>1, PlugInDecides DEF HInv
  <2>3. k \in 2 .. 4 /\ m \in Nat
    BY <1>1, <1>7, <2>1
  <2>4. count \in 0 .. NrStreakLong
    BY <1>6, <2>3
  <2>5. /\ count <= Len(recent')
        /\ \A i \in 1 .. Len(recent') : i > Len(recent') - count => recent'[i] >= k
    BY <1>3, <2>3 DEF RecentInv
  <2>6. count \in Nat /\ m <= count
    BY <1>1, <2>2, <2>3, <2>4
  <2> HIDE DEF k, m, count
  <2>7. Lately(recent', m, k .. 4)
    BY <1>5, <2>3, <2>5, <2>6, StreakIsLately
  <2> QED
    BY <2>7 DEF k, m
<1>9. ASSUME NEW c \in online \ online'
      PROVE  Lately(recent', NrStreakLong, 1 .. Needs(c) - 1)
  <2> DEFINE k == Needs(c)
             count == under'[Needs(c)]
  <2>1. c \in out /\ c \in Cores
    BY <1>2, <1>9 DEF HInv, Types, HotplugTypeOK
  <2>2. count >= NrStreakLong
    BY <2>1, PlugOutDecides DEF HInv
  <2>3. k \in 2 .. 4
    BY <1>7, <2>1
  <2>4. count \in 0 .. NrStreakLong
    BY <1>6, <2>3
  <2>5. /\ count <= Len(recent')
        /\ \A i \in 1 .. Len(recent') : i > Len(recent') - count => recent'[i] < k
    BY <1>3, <2>3 DEF RecentInv
  <2>6. count \in Nat /\ NrStreakLong <= count
    BY <1>1, <2>2, <2>4
  <2> HIDE DEF k, count
  <2>7. Lately(recent', NrStreakLong, 1 .. k - 1)
    BY <1>1, <1>5, <2>3, <2>5, <2>6, StreakIsLately
  <2> QED
    BY <2>7 DEF k
<1> QED
  BY <1>4, <1>8, <1>9

-----------------------------------------------------------------------------
(* The steps.                                                              *)

\* hotplug_cpufreq_transition up to the call.
LEMMA TransitionStep ==
  ASSUME HInv, NEW new \in Freq, hotplug_cpufreq_transition(new)
  PROVE  HInv'
<1>1. UNCHANGED <<online, over, under, freq_in, freq_out, since, fresh, recent, can_hotplug, nr,
                  load_changes, frozen, pm, disturbed>>
  BY DEF hotplug_cpufreq_transition, counters
<1>2. freq' \in Freq /\ call' \in Freq \cup {"none"}
  BY DEF hotplug_cpufreq_transition, HInv, Types, HotplugTypeOK
<1>3. Types'
  BY <1>1, <1>2 DEF HInv, Types, HotplugTypeOK
<1> QED
  BY <1>1, <1>3 DEF HInv, FlagFollows, NestedInv, SinceInv, RecentInv

\* The call, with a run queue that holds still.
LEMMA CallStep ==
  ASSUME HInv, Call
  PROVE  HInv'
<1> DEFINE needed == {c \in Cores : nr >= Needs(c)}
<1>1. /\ exynos4_integrated_dvfs_hotplug(call, nr, needed)
      /\ UNCHANGED <<disturbed, can_hotplug, nr, load_changes, frozen, pm>>
      /\ ~disturbed /\ ~disturbed' /\ call \in Freq /\ freq' = call /\ call' = "none"
  BY DEF Call, HInv, Types, HotplugTypeOK
<1>2. nr \in Nr /\ nr # 0 /\ disturbed' \in BOOLEAN /\ needed \in SUBSET Cores
  BY <1>1 DEF HInv, Types, HotplugTypeOK, Nr
<1>3. Nested(online')
  BY <1>1, <1>2, CallNested
<1> HIDE DEF needed
<1>4. /\ online' \subseteq Cores
      /\ over' \in [2 .. 4 -> 0 .. NrStreakLong] /\ under' \in [2 .. 4 -> 0 .. NrStreakLong]
      /\ freq_in' \in 0 .. FreqStreak /\ freq_out' \in 0 .. FreqStreak
      /\ since' \in 0 .. FreqStreak /\ fresh' \in 0 .. FreqStreak
      /\ recent' \in Seq(Nr) /\ Len(recent') <= NrStreakLong
      /\ SinceInv'
  BY <1>1, <1>2, CallKeeps
<1>5. Types'
  BY <1>1, <1>4 DEF HInv, Types, HotplugTypeOK
<1>6. FlagFollows'
  BY <1>1 DEF HInv, FlagFollows
<1>7. NestedInv'
  <2>1. pm # "asleep" => frozen = {}
    BY DEF HInv, NestedInv
  <2>2. CASE pm = "asleep"
    <3>1. online' = online
      BY <2>2 DEF Call
    <3> QED
      BY <1>1, <3>1 DEF HInv, NestedInv, Nested
  <2>3. CASE pm # "asleep"
    <3>1. online' \cup frozen' = online'
      BY <1>1, <2>1, <2>3
    <3> QED
      BY <1>1, <1>3, <2>1, <2>3, <3>1 DEF NestedInv
  <2> QED
    BY <2>2, <2>3
<1>8. RecentInv'
  BY <1>1, <1>2, CallRecent
<1> QED
  BY <1>4, <1>5, <1>6, <1>7, <1>8 DEF HInv

LEMMA CallDisturbedStep ==
  ASSUME HInv, CallDisturbed
  PROVE  HInv'
<1>1. PICK needed \in SUBSET Cores : exynos4_integrated_dvfs_hotplug(call, 0, needed)
  BY DEF CallDisturbed
<1>2. disturbed' = TRUE /\ disturbed' \in BOOLEAN /\ call \in Freq
  BY DEF CallDisturbed, HInv, Types, HotplugTypeOK
<1>3. /\ online' \subseteq Cores
      /\ over' \in [2 .. 4 -> 0 .. NrStreakLong] /\ under' \in [2 .. 4 -> 0 .. NrStreakLong]
      /\ freq_in' \in 0 .. FreqStreak /\ freq_out' \in 0 .. FreqStreak
      /\ since' \in 0 .. FreqStreak /\ fresh' \in 0 .. FreqStreak
      /\ recent' \in Seq(Nr) /\ Len(recent') <= NrStreakLong
      /\ SinceInv'
  BY <1>1, <1>2, CallKeeps
<1>4. Types'
  <2>1. nr' \in Nr /\ load_changes' \in 0 .. MaxLoadChanges
    BY HotplugAssumption DEF CallDisturbed, Nr
  <2> QED
    BY <1>2, <1>3, <2>1 DEF CallDisturbed, HInv, Types, HotplugTypeOK
<1>5. FlagFollows'
  BY DEF CallDisturbed, HInv, FlagFollows
<1>6. NestedInv' /\ RecentInv'
  BY <1>2 DEF CallDisturbed, HInv, NestedInv, RecentInv
<1> QED
  BY <1>3, <1>4, <1>5, <1>6 DEF HInv

\* hotplug_pm_transition, the platform's sleep and the load.
LEMMA OtherStep ==
  ASSUME HInv, PMSuspendPrepare \/ PMPost \/ disable_nonboot_cpus \/ enable_nonboot_cpus \/ LoadChange
  PROVE  HInv'
<1>0. FreqStreak \in Nat \ {0} /\ since \in Nat /\ MaxLoadChanges \in Nat
      /\ freq_in \in 0 .. FreqStreak /\ freq_out \in 0 .. FreqStreak
  BY HotplugAssumption DEF HInv, Types, HotplugTypeOK
<1>1. CASE PMSuspendPrepare
  <2>1. freq_in' \in {0, freq_in} /\ freq_out' \in {0, freq_out} /\ fresh' = 0
        /\ disturbed' \in BOOLEAN /\ (~disturbed' => ~disturbed /\ freq_in' = 0 /\ freq_out' = 0)
    BY <1>1 DEF PMSuspendPrepare
  <2>2. Types'
    <3>1. freq_in' \in 0 .. FreqStreak /\ freq_out' \in 0 .. FreqStreak /\ fresh' \in 0 .. FreqStreak
      BY <1>0, <2>1
    <3> QED
      BY <1>1, <2>1, <3>1 DEF PMSuspendPrepare, HInv, Types, HotplugTypeOK
  <2>3. SinceInv'
    BY <1>0, <1>1, <2>1 DEF PMSuspendPrepare, HInv, SinceInv
  <2>4. RecentInv'
    BY <1>1, <2>1 DEF PMSuspendPrepare, HInv, RecentInv
  <2> QED
    BY <1>1, <2>1, <2>2, <2>3, <2>4 DEF PMSuspendPrepare, HInv, FlagFollows, NestedInv
<1>2. CASE PMPost
  <2>1. Types' /\ SinceInv' /\ RecentInv'
    BY <1>2 DEF PMPost, counters, HInv, Types, HotplugTypeOK, SinceInv, RecentInv
  <2> QED
    BY <1>2, <2>1 DEF PMPost, HInv, FlagFollows, NestedInv
<1>3. CASE disable_nonboot_cpus
  <2>1. PICK k \in online \cup {4} : frozen' = {c \in online : c < k}
    BY <1>3 DEF disable_nonboot_cpus
  <2>2. online' = online \ frozen' /\ online \subseteq Cores /\ frozen = {}
    BY <1>3 DEF disable_nonboot_cpus, HInv, NestedInv, Types, HotplugTypeOK
  <2>3. Types' /\ SinceInv' /\ RecentInv'
    BY <1>3, <2>1, <2>2
    DEF disable_nonboot_cpus, counters, HInv, Types, HotplugTypeOK, SinceInv, RecentInv
  <2>4. ASSUME ~disturbed PROVE Nested(online') /\ Nested(online' \cup frozen')
    <3>1. Nested(online)
      BY <2>4 DEF HInv, NestedInv
    <3>2. online' \cup frozen' = online
      BY <2>1, <2>2
    <3>3. k \in Int /\ online' = {c \in online : ~(c < k)} /\ Cores \subseteq Int
      BY <2>1, <2>2 DEF Cores
    <3>4. Nested(online')
      BY <2>2, <3>1, <3>3 DEF Nested
    <3> QED
      BY <3>1, <3>2, <3>4
  <2> QED
    BY <1>3, <2>3, <2>4 DEF disable_nonboot_cpus, HInv, FlagFollows, NestedInv
<1>4. CASE enable_nonboot_cpus
  <2>1. PICK S \in SUBSET frozen : online' = online \cup S /\ disturbed' = (disturbed \/ S # frozen)
    BY <1>4 DEF enable_nonboot_cpus
  <2>2. Types' /\ SinceInv' /\ RecentInv'
    BY <1>4, <2>1 DEF enable_nonboot_cpus, counters, HInv, Types, HotplugTypeOK, SinceInv, RecentInv
  <2>3. ASSUME ~disturbed' PROVE Nested(online') /\ Nested(online' \cup frozen')
    <3>1. ~disturbed /\ online' = online \cup frozen /\ online' \cup frozen' = online \cup frozen
      BY <1>4, <2>1, <2>3 DEF enable_nonboot_cpus
    <3> QED
      BY <3>1 DEF HInv, NestedInv
  <2> QED
    BY <1>4, <2>2, <2>3 DEF enable_nonboot_cpus, HInv, FlagFollows, NestedInv
<1>5. CASE LoadChange
  <2>1. load_changes' \in 0 .. MaxLoadChanges
    BY <1>0, <1>5 DEF LoadChange, HInv, Types, HotplugTypeOK
  <2>2. Types' /\ SinceInv' /\ RecentInv'
    BY <1>5, <2>1 DEF LoadChange, counters, HInv, Types, HotplugTypeOK, SinceInv, RecentInv
  <2> QED
    BY <1>5, <2>2 DEF LoadChange, HInv, FlagFollows, NestedInv
<1> QED
  BY <1>1, <1>2, <1>3, <1>4, <1>5

LEMMA InitHInv == HotplugInit => HInv
<1> SUFFICES ASSUME HotplugInit PROVE HInv
  OBVIOUS
<1>1. FreqStreak \in Nat \ {0} /\ NrStreakLong \in Nat /\ MaxLoadChanges \in Nat
  BY HotplugAssumption
<1>2. recent = <<>> /\ recent \in Seq(Nr) /\ Len(recent) = 0
  BY DEF HotplugInit
<1>3. Types
  <2>1. /\ 0 \in 0 .. FreqStreak /\ 0 <= NrStreakLong /\ FreqStreak \in 0 .. FreqStreak
        /\ 0 \in 0 .. MaxLoadChanges
    BY <1>1
  <2>2. Zeros \in [2 .. 4 -> 0 .. NrStreakLong]
    BY <1>1 DEF Zeros
  <2> QED
    BY <1>2, <2>1, <2>2 DEF HotplugInit, Types, HotplugTypeOK
<1>4. FlagFollows /\ NestedInv
  BY DEF HotplugInit, FlagFollows, NestedInv, Nested
<1>5. SinceInv /\ RecentInv
  BY <1>1, <1>2 DEF HotplugInit, Zeros, SinceInv, RecentInv
<1> QED
  BY <1>3, <1>4, <1>5 DEF HInv

LEMMA NextHInv == HInv /\ [HotplugNext]_hotplug_vars => HInv'
<1>1. ASSUME HInv, HotplugNext PROVE HInv'
  BY <1>1, TransitionStep, CallStep, CallDisturbedStep, OtherStep DEF HotplugNext
<1>2. ASSUME HInv, UNCHANGED hotplug_vars PROVE HInv'
  BY <1>2 DEF HInv, Types, HotplugTypeOK, FlagFollows, NestedInv, SinceInv, RecentInv, hotplug_vars, counters
<1> QED
  BY <1>1, <1>2

\* Only a call moves a core between two steps of the sleep.
LEMMA OnlyCallsMove ==
  ASSUME HotplugNext, online' # online, pm' = pm
  PROVE  Call \/ CallDisturbed
<1>1. ~ \E new \in Freq : hotplug_cpufreq_transition(new)
  BY DEF hotplug_cpufreq_transition
<1>2. ~(PMSuspendPrepare \/ PMPost \/ LoadChange)
  BY DEF PMSuspendPrepare, PMPost, LoadChange
<1>3. ~(disable_nonboot_cpus \/ enable_nonboot_cpus)
  BY DEF disable_nonboot_cpus, enable_nonboot_cpus
<1> QED
  BY <1>1, <1>2, <1>3 DEF HotplugNext

-----------------------------------------------------------------------------
(* Theorems.                                                               *)

\* The chain of else-ifs of exynos4_integrated_dvfs_hotplug keeps the cores
\* nested: core 3 is first up and last down, whatever the load and the sleeps.
THEOREM CoresNested == HotplugSpec => []OnlineNested
<1>1. HInv => OnlineNested
  BY DEF HInv, Types, NestedInv, Nested, OnlineNested
<1> QED
  BY <1>1, InitHInv, NextHInv, PTL DEF HotplugSpec

\* Two calls of cpu_up or cpu_down are a full streak of the frequency apart.
THEOREM GovernorDoesNotFlap == HotplugSpec => NoFlap
<1>1. HInv /\ [HotplugNext]_hotplug_vars => [online' # online /\ pm' = pm => since >= FreqStreak - 1]_hotplug_vars
  <2> SUFFICES ASSUME HInv, HotplugNext, online' # online, pm' = pm PROVE since >= FreqStreak - 1
    OBVIOUS
  <2>1. Call \/ CallDisturbed
    BY OnlyCallsMove
  <2>2. call \in Freq
    BY <2>1 DEF Call, CallDisturbed, HInv, Types, HotplugTypeOK
  <2>3. \E n, needed : needed \in SUBSET Cores /\ exynos4_integrated_dvfs_hotplug(call, n, needed)
    <3>1. {c \in Cores : nr >= Needs(c)} \in SUBSET Cores
      OBVIOUS
    <3> QED
      BY <2>1, <3>1 DEF Call, CallDisturbed
  <2> QED
    BY <2>2, <2>3, CallMoves
<1> QED
  BY <1>1, InitHInv, NextHInv, PTL DEF HotplugSpec, NoFlap

\* A core moves only after FreqStreak calls since the last sleep, and only
\* when the latest run queues, as many as the governor waits for, ask for it.
THEOREM GovernorActsOnLoad == HotplugSpec => ActsOnLoad
<1> DEFINE Acts == online' # online /\ pm' = pm /\ ~disturbed' =>
                     /\ fresh' = FreqStreak
                     /\ \A c \in online' \ online :
                          Lately(recent', IF c = 1 THEN NrStreakLong ELSE NrStreak, Needs(c) .. 4)
                     /\ \A c \in online \ online' :
                          Lately(recent', NrStreakLong, 1 .. Needs(c) - 1)
<1>1. HInv /\ [HotplugNext]_hotplug_vars => [Acts]_hotplug_vars
  <2> SUFFICES ASSUME HInv, HotplugNext, online' # online, pm' = pm, ~disturbed' PROVE Acts
    OBVIOUS
  <2> DEFINE needed == {c \in Cores : nr >= Needs(c)}
  <2>1. Call
    BY OnlyCallsMove DEF CallDisturbed
  <2>2. /\ exynos4_integrated_dvfs_hotplug(call, nr, needed) /\ ~disturbed
        /\ call \in Freq /\ nr \in Nr /\ disturbed' \in BOOLEAN /\ needed \in SUBSET Cores
    BY <2>1 DEF Call, HInv, Types, HotplugTypeOK
  <2> HIDE DEF needed
  <2> QED
    BY <2>2, CallActsOnLoad
<1> QED
  BY <1>1, InitHInv, NextHInv, PTL DEF HotplugSpec, ActsOnLoad
=============================================================================
