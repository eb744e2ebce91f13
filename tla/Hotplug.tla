------------------------------ MODULE Hotplug ------------------------------
(***************************************************************************)
(* The governor that takes the cores 1 to 3 of an Exynos4412 up and down,  *)
(* arch/arm/mach-exynos/dynamic-dvfs-nr_running-hotplug.c.  It runs in the *)
(* notifier of every frequency transition, counts how long the run queue   *)
(* and the frequency have been high or low, and acts on long streaks.      *)
(*                                                                         *)
(* A frequency is "high" (freq_in_trg or more), "low" (freq_min) or "mid". *)
(* nr_running() is called anew for every comparison, and the value may     *)
(* change between two of them.  The transitions are those of the driver,   *)
(* under set_freq_lock: one call at a time.                                *)
(***************************************************************************)
EXTENDS Integers, Sequences, FiniteSets, FiniteSetsExt, Functions

CONSTANTS
  NrStreak,         \* transitions a run queue has to be long, or short
  NrStreakLong,     \* the same for core 1 to come up and for all to go down
  FreqStreak,       \* transitions the frequency has to be high or low
  MaxLoadChanges        \* bound on changes of the load

ASSUME HotplugAssumption ==
  /\ NrStreak \in Nat /\ NrStreakLong \in Nat /\ FreqStreak \in Nat \ {0}
  /\ NrStreak <= NrStreakLong /\ MaxLoadChanges \in Nat

Cores == 1 .. 3
Nr == 1 .. 4                        \* lengths of the run queue that differ
Freq == {"low", "mid", "high"}

VARIABLES
  online,           \* cores that are up, besides core 0
  over, under,      \* n |-> ctn_nr_running_over<n>, ctn_nr_running_under<n>
  freq_in, freq_out,\* ctn_freq_in_trg_cnt, ctn_freq_out_trg_cnt
  can_hotplug,
  freq, nr,         \* the frequency and the length of the run queue
  call,             \* the frequency of the call under way, or "none"
  load_changes,          \* how often nr has changed
  frozen,           \* cores that enable_nonboot_cpus will take up again
  pm,               \* "awake", "prepared", "asleep" or "resumed"
  since,            \* history: transitions since the last cpu_up or cpu_down
  fresh,            \* history: calls since the last PM_SUSPEND_PREPARE
  recent,           \* history: the last run queues counted
  disturbed         \* history: nr_running() has changed during a call, or
                    \* cpu_up or cpu_down has failed, or a reset was lost

counters == <<over, under, freq_in, freq_out>>
hotplug_vars == <<online, counters, can_hotplug, freq, nr, call, load_changes, frozen, pm, since, fresh, recent, disturbed>>

HotplugTypeOK ==
  /\ online \subseteq Cores /\ frozen \subseteq Cores
  /\ over \in [2 .. 4 -> 0 .. NrStreakLong] /\ under \in [2 .. 4 -> 0 .. NrStreakLong]
  /\ freq_in \in 0 .. FreqStreak /\ freq_out \in 0 .. FreqStreak
  /\ can_hotplug \in BOOLEAN /\ freq \in Freq /\ nr \in Nr /\ call \in Freq \cup {"none"}
  /\ load_changes \in 0 .. MaxLoadChanges /\ pm \in {"awake", "prepared", "asleep", "resumed"}
  /\ since \in 0 .. FreqStreak /\ fresh \in 0 .. FreqStreak /\ Len(recent) <= NrStreakLong
  /\ disturbed \in BOOLEAN

-----------------------------------------------------------------------------
\* Counters are compared with their streak only: they stop there.
Up(n, bound) == Min({n + 1, bound})

Streak(n, holds, bound) == IF holds THEN Up(n, bound) ELSE 0

\* The first part of exynos4_integrated_dvfs_hotplug.  n is the length of the
\* run queue, or 0 where the comparisons saw several: then the counters may be
\* anything, and the highest values stand for all, as they rule nothing out.
Count(n) ==
  IF n = 0
  THEN /\ over' = [k \in 2 .. 4 |-> NrStreakLong]
       /\ under' = [k \in 2 .. 4 |-> NrStreakLong]
  ELSE /\ over' = [k \in 2 .. 4 |-> Streak(over[k], n >= k, NrStreakLong)]
       /\ under' = [k \in 2 .. 4 |-> Streak(under[k], n < k, NrStreakLong)]

\* A core is worth having from this length of the run queue on.
Needs(c) == 5 - c

\* Mutant: the cores are looked at in ascending order.
Candidate_Ascending(S) == Min(S)

\* The chain of else-ifs for going up looks at core 3 first.
Candidate(S) == Max(S)

\* Core to take up, if any.  needed: the cores whose comparison with the run
\* queue said that they are needed.
PlugIn(old, new, needed) ==
  LET S == {c \in needed \ online : old = "high" /\ new = "high"}
      c == Candidate(S)
  IN  IF S # {} /\ over'[Needs(c)] >= (IF c = 1 THEN NrStreakLong ELSE NrStreak)
         /\ Streak(freq_in, TRUE, FreqStreak) >= FreqStreak
      THEN {c} ELSE {}

\* Core to take down, if any; core 1 is looked at first.
PlugOut(old, new, needed) ==
  LET S == {c \in online \ needed : old = "low" /\ new = "low"}
      c == Min(S)
  IN  IF S # {} /\ under'[Needs(c)] >= NrStreakLong
         /\ Streak(freq_out, TRUE, FreqStreak) >= FreqStreak
      THEN {c} ELSE {}

\* Mutant: the streak goes on after a core has come up.
FreqCount_NoReset(n, holds, acted) == Streak(n, holds, FreqStreak)

\* A frequency counter after the call; cpu_up and cpu_down start it anew.
FreqCount(n, holds, acted) == IF acted THEN 0 ELSE Streak(n, holds, FreqStreak)

exynos4_integrated_dvfs_hotplug(new, n, needed) ==
  LET in == PlugIn(freq, new, needed)
      out == PlugOut(freq, new, needed)
  IN  /\ Count(n)
      /\ \/ online' = (online \cup in) \ out
         \/ disturbed' /\ in \cup out # {} /\ UNCHANGED online
      /\ freq_in' = FreqCount(freq_in, freq = "high" /\ new = "high", in # {})
      /\ freq_out' = FreqCount(freq_out, freq = "low" /\ new = "low", out # {})
      /\ recent' = LET h == Append(recent, n)
                   IN  IF disturbed' THEN <<>>
                       ELSE IF Len(h) > NrStreakLong THEN Tail(h) ELSE h
      /\ fresh' = IF disturbed' THEN 0 ELSE Up(fresh, FreqStreak)
      /\ since' = IF in \cup out # {} THEN 0 ELSE Up(since, FreqStreak)

\* hotplug_cpufreq_transition at POSTCHANGE, also of a transition to the
\* frequency that is already set, or to the one that PM_POST_SUSPEND of the
\* driver announces by mistake.  can_hotplug is tested first, and nothing
\* keeps hotplug_pm_transition away from the call that follows.
hotplug_cpufreq_transition(new) ==
  /\ call = "none"
  /\ IF can_hotplug THEN call' = new /\ UNCHANGED freq ELSE freq' = new /\ UNCHANGED call
  /\ UNCHANGED <<online, counters, can_hotplug, nr, load_changes, frozen, pm, since, fresh, recent, disturbed>>

\* The call.  While kernel/cpu.c has taken the cores down, cpu_up and cpu_down
\* fail.
Call ==
  /\ call # "none" /\ call' = "none" /\ freq' = call
  /\ ~disturbed /\ UNCHANGED disturbed
  /\ exynos4_integrated_dvfs_hotplug(call, nr, {c \in Cores : nr >= Needs(c)})
  /\ pm = "asleep" => UNCHANGED online
  /\ UNCHANGED <<can_hotplug, nr, load_changes, frozen, pm>>

\* The same, with a run queue that is different for every comparison, or with
\* cores that do not come up or go down.  From then on the length does not
\* matter, and every call is like this.
CallDisturbed ==
  /\ call # "none" /\ call' = "none" /\ freq' = call
  /\ disturbed' = TRUE
  /\ \E needed \in SUBSET Cores : exynos4_integrated_dvfs_hotplug(call, 0, needed)
  /\ nr' = 1 /\ load_changes' = 0
  /\ UNCHANGED <<can_hotplug, frozen, pm>>

-----------------------------------------------------------------------------
\* Mutant: the streaks of the frequency live through a sleep.
PMSuspendPrepare_NoReset ==
  /\ pm = "awake"
  /\ pm' = "prepared"
  /\ can_hotplug' = FALSE
  /\ fresh' = 0
  /\ UNCHANGED <<online, counters, freq, nr, call, load_changes, frozen, since, recent, disturbed>>

\* hotplug_pm_transition.  A call that is just counting may overwrite the
\* zeros.
PMSuspendPrepare ==
  /\ pm = "awake"
  /\ pm' = "prepared"
  /\ can_hotplug' = FALSE
  /\ freq_in' \in {0, freq_in} /\ freq_out' \in {0, freq_out}
  /\ call = "none" => freq_in' = 0 /\ freq_out' = 0
  /\ disturbed' = (disturbed \/ freq_in' # 0 \/ freq_out' # 0)
  /\ fresh' = 0
  /\ UNCHANGED <<online, over, under, freq, nr, call, load_changes, frozen, since, recent>>

\* Mutant: only a restore, not the end of a suspend, takes the flag back.
PMPost_StaysOff ==
  /\ pm \in {"prepared", "resumed"}
  /\ pm' = "awake"
  /\ UNCHANGED <<online, counters, can_hotplug, freq, nr, call, load_changes, frozen, since, fresh, recent, disturbed>>

\* An unpaired PM_POST_SUSPEND finds the flag set and changes nothing.
PMPost ==
  /\ pm \in {"prepared", "resumed"}
  /\ pm' = "awake"
  /\ can_hotplug' = TRUE
  /\ UNCHANGED <<online, counters, freq, nr, call, load_changes, frozen, since, fresh, recent, disturbed>>

\* The cores go down in ascending order, until one of them cannot.
disable_nonboot_cpus ==
  /\ pm = "prepared"
  /\ pm' = "asleep"
  /\ \E k \in online \cup {4} : frozen' = {c \in online : c < k}
  /\ online' = online \ frozen'
  /\ UNCHANGED <<counters, can_hotplug, freq, nr, call, load_changes, since, fresh, recent, disturbed>>

\* Some of those that went down may not come up again.
enable_nonboot_cpus ==
  /\ pm = "asleep"
  /\ pm' = "resumed"
  /\ frozen' = {}
  /\ \E S \in SUBSET frozen :
       online' = online \cup S /\ disturbed' = (disturbed \/ S # frozen)
  /\ UNCHANGED <<counters, can_hotplug, freq, nr, call, load_changes, since, fresh, recent>>

LoadChange ==
  /\ load_changes < MaxLoadChanges /\ ~disturbed
  /\ load_changes' = load_changes + 1
  /\ nr' \in Nr \ {nr}
  /\ UNCHANGED <<online, counters, can_hotplug, freq, call, frozen, pm, since, fresh, recent, disturbed>>

-----------------------------------------------------------------------------
Zeros == [k \in 2 .. 4 |-> 0]

HotplugInit ==
  /\ online = Cores /\ frozen = {} /\ pm = "awake"
  /\ over = Zeros /\ under = Zeros /\ freq_in = 0 /\ freq_out = 0
  /\ can_hotplug = TRUE
  /\ freq \in Freq /\ nr \in Nr /\ load_changes = 0
  /\ call = "none"
  /\ since = FreqStreak /\ fresh = 0 /\ recent = <<>> /\ disturbed = FALSE

HotplugNext ==
  \/ \E new \in Freq : hotplug_cpufreq_transition(new)
  \/ Call \/ CallDisturbed
  \/ PMSuspendPrepare \/ PMPost \/ disable_nonboot_cpus \/ enable_nonboot_cpus
  \/ LoadChange

HotplugSpec == HotplugInit /\ [][HotplugNext]_hotplug_vars

\* ondemand asks for its frequency again and again; on this SoC it does not
\* stop at the highest and the lowest one.
FairHotplugSpec ==
  /\ HotplugSpec
  /\ WF_hotplug_vars(\E new \in Freq : new = freq /\ hotplug_cpufreq_transition(new))
  /\ WF_hotplug_vars(Call)

-----------------------------------------------------------------------------
(* Properties.                                                             *)

\* The comments at each cpu_up and cpu_down, "over 500ms for frequency": two
\* of them are at least FreqStreak transitions apart, in any direction, so
\* that the governor does not flap, also across a sleep and although a call
\* goes on while hotplug_pm_transition takes the flag away.
NoFlap ==
  [][online' # online /\ pm' = pm => since >= FreqStreak - 1]_hotplug_vars

\* Core 3 is the first to come up and the last to go down, then core 2, then
\* core 1, whatever the load does and across a sleep, a failed one too, as
\* long as the run queue holds still during a call and the cores obey; and the
\* state is well-formed, so that every counter stops at its streak.
OnlineNested ==
  /\ HotplugTypeOK
  /\ \A c, d \in Cores : ~disturbed /\ c \in online /\ c < d => d \in online

\* The latest m run queues counted are all in S.
Lately(h, m, S) == Len(h) >= m /\ \A i \in Len(h) - m + 1 .. Len(h) : h[i] \in S

\* A core comes up or goes down only when FreqStreak transitions since the
\* last sleep have been counted, and only when the latest run queues, as many
\* as the comment at the cpu_up or cpu_down says, all ask for it.  Those run
\* queues may be from before the sleep, NrStreakLong - FreqStreak of them:
\* PM_SUSPEND_PREPARE resets the counters of the frequency and not theirs.
ActsOnLoad ==
  [][online' # online /\ pm' = pm /\ ~disturbed' =>
       /\ fresh' = FreqStreak
       /\ \A c \in online' \ online :
            Lately(recent', IF c = 1 THEN NrStreakLong ELSE NrStreak, Needs(c) .. 4)
       /\ \A c \in online \ online' :
            Lately(recent', NrStreakLong, 1 .. Needs(c) - 1)]_hotplug_vars

\* A long run queue that stays, with the frequency that goes with it, brings
\* all cores up, and an empty one takes them all down, after any number of
\* sleeps.
LoadDecides ==
  /\ <>[](nr = 4 /\ freq = "high" /\ pm = "awake" /\ ~disturbed) => <>[](online = Cores)
  /\ <>[](nr = 1 /\ freq = "low" /\ pm = "awake" /\ ~disturbed) => <>[](online = {})
=============================================================================
