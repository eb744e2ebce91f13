-------------------------------- MODULE Tmu --------------------------------
(***************************************************************************)
(* The thermal management unit, arch/arm/mach-exynos/tmu-exynos.c, with    *)
(* the frequency driver it limits: the interrupt that starts polling, and  *)
(* the polling work that moves between the states NORMAL, THROTTLED,       *)
(* WARNING and TRIPPED, calls exynos_cpufreq_upper_limit and sets the      *)
(* refresh rate of the memory.                                             *)
(*                                                                         *)
(* External: a bit of INTSTAT is set when the temperature reaches its      *)
(* threshold from below, as the comment at tmu-exynos.c:861-864 has it, and *)
(* stays set until it is cleared; an interrupt can come without a cause.    *)
(***************************************************************************)
EXTENDS CpuFreq

CONSTANTS
  stop_throttle, start_throttle, stop_warning, start_warning, start_tripping,
  stop_mem_throttle, start_mem_throttle,
  throttle_freq, warning_freq,      \* levels
  MaxTemp,                          \* temperatures are 0 .. MaxTemp
  MaxChanges                        \* bound on changes of the temperature

Thresholds == {start_throttle, start_warning, start_tripping}

ASSUME TmuAssumption ==
  /\ Thresholds \subseteq Nat /\ {stop_throttle, stop_warning} \subseteq Nat
  /\ {stop_mem_throttle, start_mem_throttle, MaxTemp} \subseteq Nat
  /\ stop_throttle < start_throttle /\ start_throttle <= stop_warning
  /\ stop_warning < start_warning /\ start_warning < start_tripping /\ start_tripping <= MaxTemp
  /\ stop_mem_throttle < start_mem_throttle /\ start_mem_throttle <= MaxTemp
  /\ throttle_freq \in Levels /\ warning_freq \in Levels
  /\ MaxChanges \in Nat /\ Limiters = {TMU}

VARIABLES
  temp,             \* the temperature
  changes,          \* how often it has changed
  intstat,          \* INTSTAT_RISE0 to 2, as the thresholds they stand for
  irq,              \* is the interrupt enabled?
  tmu_state,
  already_limit,
  auto_refresh_changed,   \* is the memory refreshed twice as often?
  queued,           \* is the polling work queued?
  mon,              \* where tmu_monitor is
  cur_temp,         \* the temperature it has read
  refused,          \* has exynos_cpufreq_upper_limit returned -EPERM for this state?
  error             \* has tmu_irq returned -ENODEV?

cpufreq == <<cur, locks, limits, flags, target, pc, level>>
sensor == <<temp, changes, intstat>>
tmuVars == <<sensor, irq, tmu_state, already_limit, auto_refresh_changed, queued, mon, cur_temp, refused, error>>
allVars == <<cpufreq, tmuVars>>

TmuTypeOK ==
  /\ TypeOK
  /\ temp \in 0 .. MaxTemp /\ changes \in 0 .. MaxChanges
  /\ intstat \subseteq Thresholds /\ irq \in BOOLEAN
  /\ tmu_state \in {"INIT", "NORMAL", "THROTTLED", "WARNING", "TRIPPED"}
  /\ already_limit \in BOOLEAN /\ auto_refresh_changed \in BOOLEAN /\ queued \in BOOLEAN
  /\ mon \in {"idle", "decide", "call", "wait"}
  /\ cur_temp \in 0 .. MaxTemp /\ refused \in BOOLEAN /\ error \in BOOLEAN

\* The bits that the hardware sets when the temperature goes from one value
\* to another.
Crossed(from, to) == {th \in Thresholds : from < th /\ th <= to}

TempChange ==
  /\ changes < MaxChanges
  /\ temp' \in {temp - 1, temp + 1} \cap (0 .. MaxTemp)
  /\ changes' = changes + 1
  /\ intstat' = intstat \cup Crossed(temp, temp')
  /\ UNCHANGED <<cpufreq, irq, tmu_state, already_limit, auto_refresh_changed, queued, mon, cur_temp, refused, error>>

\* The interrupt of the highest threshold is served first and disables the
\* interrupt until tmu_monitor finds the state NORMAL.
Serve ==
  LET top == Max(intstat)
  IN  /\ intstat # {}
      /\ tmu_state' = CASE top = start_tripping -> "TRIPPED"
                        [] top = start_warning -> "WARNING"
                        [] top = start_throttle -> "THROTTLED"
      /\ intstat' = intstat \ {top}
      /\ queued' = TRUE
      /\ UNCHANGED error

\* "TMU interrupt error": the interrupt stays disabled and nothing is queued.
ServeError ==
  /\ intstat = {}
  /\ error' = TRUE
  /\ UNCHANGED <<tmu_state, intstat, queued>>

tmu_irq ==
  /\ irq /\ irq' = FALSE
  /\ Serve \/ ServeError
  /\ UNCHANGED <<cpufreq, temp, changes, already_limit, auto_refresh_changed, mon, cur_temp, refused>>

-----------------------------------------------------------------------------
(* tmu_monitor.                                                            *)

\* The temperature is read before tmu_lock is taken.
MonitorRead ==
  /\ queued /\ mon = "idle"
  /\ queued' = FALSE
  /\ cur_temp' = temp
  /\ mon' = "decide"
  /\ UNCHANGED <<cpufreq, sensor, irq, tmu_state, already_limit, auto_refresh_changed, refused, error>>

\* Mutant: memory that is just as hot as the threshold is not refreshed more often.
MemThrottle_Above ==
  auto_refresh_changed' = \/ cur_temp > start_mem_throttle
                          \/ auto_refresh_changed /\ cur_temp > stop_mem_throttle

\* The refresh rate of the memory.
MemThrottle ==
  auto_refresh_changed' = \/ cur_temp >= start_mem_throttle
                          \/ auto_refresh_changed /\ cur_temp > stop_mem_throttle

\* The end of most cases: the work is queued again.
Requeue == MemThrottle /\ queued' = TRUE /\ mon' = "idle"

\* Mutant: the flag keeps the value of the old state.
ChangeState_KeepsFlag(to) ==
  /\ tmu_state' = to
  /\ Requeue
  /\ refused' = FALSE
  /\ UNCHANGED <<sensor, irq, already_limit, cur_temp, error>>

\* A new state, without the limit of the old one.
ChangeState(to) ==
  /\ tmu_state' = to
  /\ already_limit' = FALSE /\ refused' = FALSE
  /\ Requeue
  /\ UNCHANGED <<sensor, irq, cur_temp, error>>

\* INTCLEAR also forgets what has happened since the temperature was read.
MonitorNormal ==
  /\ mon = "decide" /\ tmu_state = "NORMAL"
  /\ intstat' = {}
  /\ irq' = TRUE
  /\ mon' = "idle"
  /\ UNCHANGED <<cpufreq, temp, changes, tmu_state, already_limit, auto_refresh_changed, queued, cur_temp, refused, error>>

\* tmu_tripped_cb: the system is told to power off.
MonitorTripped ==
  /\ mon = "decide" /\ tmu_state = "TRIPPED"
  /\ mon' = "idle"
  /\ UNCHANGED <<cpufreq, sensor, irq, tmu_state, already_limit, auto_refresh_changed, queued, cur_temp, refused, error>>

\* The temperature asks for a new state: the limit is freed ...
MonitorFree ==
  /\ mon = "decide"
  /\ \/ tmu_state = "THROTTLED" /\ cur_temp >= start_warning /\ ChangeState("WARNING")
     \/ tmu_state = "THROTTLED" /\ cur_temp <= stop_throttle /\ ChangeState("NORMAL")
     \/ tmu_state = "WARNING" /\ cur_temp <= stop_warning /\ ChangeState("THROTTLED")
  /\ exynos_cpufreq_upper_limit_free(TMU)

\* ... except on the way to TRIPPED.
MonitorTrip ==
  /\ mon = "decide" /\ tmu_state = "WARNING" /\ cur_temp >= start_tripping
  /\ ChangeState("TRIPPED")
  /\ UNCHANGED cpufreq

InBand ==
  \/ tmu_state = "THROTTLED" /\ stop_throttle < cur_temp /\ cur_temp < start_warning
  \/ tmu_state = "WARNING" /\ stop_warning < cur_temp /\ cur_temp < start_tripping

MonitorInBand ==
  /\ mon = "decide" /\ InBand
  /\ IF already_limit THEN Requeue ELSE mon' = "call" /\ UNCHANGED <<auto_refresh_changed, queued>>
  /\ UNCHANGED <<cpufreq, sensor, irq, tmu_state, already_limit, cur_temp, refused, error>>

LimitOf(s) == IF s = "WARNING" THEN warning_freq ELSE throttle_freq

MonitorCall ==
  /\ mon = "call"
  /\ LimitEnter(TMU, LimitOf(tmu_state))
  /\ mon' = "wait"
  /\ UNCHANGED <<sensor, irq, tmu_state, already_limit, auto_refresh_changed, queued, cur_temp, refused, error>>

\* exynos_cpufreq_upper_limit returns at once.  Nobody looks at the result.
MonitorRefused ==
  /\ mon = "call" /\ cpufreq_disable
  /\ already_limit' = TRUE /\ refused' = TRUE
  /\ Requeue
  /\ UNCHANGED <<cpufreq, sensor, irq, tmu_state, cur_temp, error>>

MonitorCalled ==
  /\ mon = "wait" /\ pc[TMU] = "idle"
  /\ already_limit' = TRUE
  /\ Requeue
  /\ UNCHANGED <<cpufreq, sensor, irq, tmu_state, cur_temp, refused, error>>

tmu_monitor ==
  \/ MonitorRead \/ MonitorNormal \/ MonitorTripped \/ MonitorFree \/ MonitorTrip
  \/ MonitorInBand \/ MonitorCall \/ MonitorRefused \/ MonitorCalled

-----------------------------------------------------------------------------
\* tmu_probe ends with the interrupt enabled.  INIT is left only by tmu_irq,
\* so that tmu_monitor never meets it.
TmuInit ==
  /\ Init
  /\ temp \in 0 .. start_throttle - 1 /\ changes = 0
  /\ intstat = {} /\ irq = TRUE
  /\ tmu_state = "INIT"
  /\ already_limit = FALSE /\ auto_refresh_changed = FALSE /\ refused = FALSE /\ error = FALSE
  /\ queued = FALSE /\ mon = "idle" /\ cur_temp = 0

LimitSteps == (LimitRegister(TMU) \/ LimitSet(TMU)) /\ UNCHANGED tmuVars

Rest ==
  /\ \/ \E l \in Levels : Governor(l)
     \/ TargetSet
     \/ \E n \in Lockers : Lock(n)
     \/ Sleep
     \/ exynos_cpufreq_policy_notifier_call
     \/ cpufreq_out_of_sync
  /\ UNCHANGED tmuVars

TmuNext == TempChange \/ tmu_irq \/ tmu_monitor \/ LimitSteps \/ Rest

\* The interrupt of a threshold is delivered, the work queue runs its work, and whoever
\* holds set_freq_lock goes on.
TmuFairness ==
  /\ WF_allVars(tmu_irq /\ intstat # {})
  /\ WF_allVars(tmu_monitor)
  /\ WF_allVars(LimitRegister(TMU) /\ UNCHANGED tmuVars)
  /\ SF_allVars(LimitSet(TMU) /\ UNCHANGED tmuVars)
  /\ WF_allVars(TargetSet /\ UNCHANGED tmuVars)

TmuSpec == TmuInit /\ [][TmuNext]_allVars
TmuFairSpec == TmuSpec /\ TmuFairness

-----------------------------------------------------------------------------
(* Properties.                                                             *)

Limited == TMU \in limit_id /\ limit_val[TMU] = LimitOf(tmu_state)

\* When tmu_monitor has set already_limit and so will not try again, the
\* limit of its state is in force, or the frequency driver has refused it.
LimitMeansLimited ==
  already_limit /\ mon = "idle" /\ tmu_state # "TRIPPED" => Limited \/ refused

\* The interrupt and the work hand the temperature to each other, never both
\* and never neither: every disable_irq_nosync is undone by the one enable_irq
\* that the work comes to.  It is disabled for good when the system is told to
\* power off, and after "TMU interrupt error", where nobody watches any more.
Handover ==
  irq <=> ~queued /\ mon = "idle" /\ tmu_state # "TRIPPED" /\ ~error

\* The unit's own state: it is well-formed, the temperature is watched and a
\* limit taken for set is set.
ThermalConsistent == TmuTypeOK /\ LimitMeansLimited /\ Handover

\* The driver knows that it is hot: an interrupt is about to be served, or the
\* work polls and has not read a temperature at which it would stop.
Noticed ==
  \/ irq /\ intstat # {}
  \/ tmu_state \in {"THROTTLED", "WARNING"} /\ (mon = "idle" \/ cur_temp > stop_throttle)

\* A temperature that the driver has noticed and that stays at the throttling
\* threshold or above leads to a limit on the frequency and to the refresh
\* rate of hot memory, or to the end; unless the frequency driver, on its way
\* to sleep, has refused the limit.  A rise between the reading that ends the
\* polling and the INTCLEAR of tmu-exynos.c:565 is not noticed, and nothing is
\* promised for it until the next threshold is reached.
HotIsLimited ==
  ([](temp >= Max({start_throttle, start_mem_throttle})) /\ Noticed) ~>
    ((Limited /\ auto_refresh_changed) \/ refused \/ tmu_state = "TRIPPED")
=============================================================================
