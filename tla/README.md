# The Android layer of the Exynos4412 kernel in TLA+

The repository is a Linux 3.0 kernel with the Android patches for a board with the
Exynos4412 (`kernel/`), its boot loader (`uboot/`) and a build script (`mk`). Most of
it is upstream Linux. What makes the device an Android device is a layer of a few
thousand lines: wake locks, early suspend and the changes to the suspend core that
use them; logger, ashmem, the low memory killer and binder; and, from the SoC's
vendor, the frequency driver, the thermal unit and the CPU hotplug governor. This
project models that layer: small code, full of locks, timers, notifiers and work
items that meet in orders no test produces. The configuration is
`kernel/arch/arm/configs/x4412_android_defconfig` (SMP, PREEMPT, four CPUs,
`CONFIG_WAKELOCK`, `CONFIG_EARLYSUSPEND`, no `CONFIG_PM_DEBUG`).

## Inventory

Paths are below `src/kernel/`.

| Component | State | Operations | Interacts with | What makes it correct |
|---|---|---|---|---|
| Wake lock core, `kernel/power/wakelock.c` | locks on `inactive_locks` and `active_wake_locks[type]`, flags and expiry, `expire_timer`, `suspend_work`, `current_event_num`, `suspend_short_count` | init, destroy, lock, lock with timeout, unlock, `has_wake_lock`, the timer's handler, the work function `suspend()` | drivers, `userwakelock.c`, the freezer, `dpm_suspend_noirq`; calls `pm_suspend` | no lock dropped early, none kept for ever, a suspend attempt always follows the last lock |
| Early suspend, `kernel/power/earlysuspend.c` | `state`, the handler list, two work items, a mutex | register, unregister, `request_suspend_state`, `early_suspend`, `late_resume` | `/sys/power/state`; takes and drops the main wake lock | handlers called in level order and in step with `state`; main lock held while the user wants the system on |
| Framebuffer early suspend, `kernel/power/fbearlysuspend.c` | `fb_state`, a wait queue | two handlers, two sysfs reads | early suspend calls it, user space reads it | nothing is drawn after the handler has seen it stop; nobody sleeps through the change |
| User wake locks, `kernel/power/userwakelock.c` | a tree of named locks | lock, unlock by name | wake lock core | one lock per name, none shorter than asked for |
| Suspend core, `kernel/power/suspend.c` with `process.c`, `kmod.c`, the noirq phase, `plat-samsung/pm.c` | `pm_mutex`, and everything it switches off | `pm_suspend` and each of its stages | called by `suspend()`; looks at the wake locks in the freezer and in `power_suspend_late` | complete unwinding from every failure; no sleep with a lock held |
| Logger, `drivers/staging/android/logger.c` | ring buffer, write offset, start head, readers | open, release, read, write, flush, length, poll | user space | readers stand at entries, get them in order, are woken |
| Ashmem, `mm/ashmem.c` | areas, unpinned ranges, an LRU and its count | open, map, close, pin, unpin, status, shrink, purge | memory reclaim | ranges disjoint and sorted, the count exact, every purge reported |
| Low memory killer, `drivers/staging/android/lowmemorykiller.c` | thresholds, the dying task and its deadline | `lowmem_shrink`, the exit notifier | memory reclaim, exit of tasks | the worst task is the victim; never stuck on a dead one |
| Frequency driver, `arch/arm/mach-exynos/cpufreq.c` | locked and limited levels, the clock, `exynos_cpufreq_disable` | target, lock, unlock, limit, free, notifiers of sleep and policy | governor, devices, thermal unit, suspend core | the floor and the ceiling are exactly what is locked and limited |
| Thermal unit, `arch/arm/mach-exynos/tmu-exynos.c` | a state from NORMAL to TRIPPED, an interrupt, polling work | `tmu_irq`, `tmu_monitor` | limits the frequency driver, sets the memory's refresh rate | a hot chip is noticed and limited |
| CPU hotplug governor, `arch/arm/mach-exynos/dynamic-dvfs-nr_running-hotplug.c` | counters, `can_hotplug` | notifiers of frequency transitions and of sleep | CPU hotplug, frequency driver, suspend core | cores in order, no flapping, no decision on a load from before a sleep |

Further parts, with the reasons for leaving them out, are in `PROJECT.json`: binder
(its size), RAM console and timed GPIO (hardware access without control), the rest
of Linux 3.0, U-Boot. The modelled layer is a few thousand of the repository's
twelve million lines; everything else is upstream code, drivers of other hardware,
tables and firmware.

**What is hard.** The work items of power management run on `suspend_work_queue`,
allocated with `WQ_HIGHPRI` only: without `WQ_NON_REENTRANT` an item queued again
while it runs may run on a second CPU at the same time. `del_timer` does not wait for
a running handler. `suspend()` and `early_suspend()` sleep in `sys_sync` between
reading shared state and using it. Every stage of a suspend can fail. Contexts are
stopped at different stages, so a look at the wake locks is worth only as much as
what can still run afterwards. Logger reads its write offset outside the mutex;
readers and the display handler test a condition and then sleep. The range lists of
ashmem are cut, split and merged by calls of any shape. The frequency driver has two
mutexes and reads what one protects under the other; the low memory killer has none
for its pending death. The complete list, line by line, is under `hazards`.

## Modules

**`WakeLock`** models `wakelock.c`. Each operation on locks is atomic because it
holds `list_lock`. `link` says which list a lock is on; `flags` are its bits;
`expires` is the difference `lock->expires - jiffies`, the only form in which the
code uses it, and `Tick` counts it down (`Due` is the comparison). The timer has two
steps, `TimerFires` (the softirq detaches it) and `expire_wake_locks` (its handler has
got `list_lock`), so that every other operation can come between them. `suspend()`
has one step per access to shared state: the look at the locks, the read of
`current_event_num`, `pm_suspend` (a phase of any length), the count of short
suspends, its comparison with the threshold, the back-off, the reset, the comparison of
event numbers, `unknown_wakeup`. With a second worker the increment may have loaded any
older value (`Loaded`). The event
number is reduced to "has changed since this worker read it". `suspend_short_count`
keeps its unsigned width. Users of the locks are unrestricted but for one thing:
nobody destroys a lock that is held without a timeout (`wake_lock_destroy` would leave
the system awake).

**`WakeLockList`** adds the linked lists: `list_add` for locks without a timeout,
`list_add_tail` for the others, and the loop of `has_wake_lock_locked`, which
returns at the first lock without a timeout. The loop is a recursive function whose
value has three parts: what the code returns, the locks it expires, and what is left
of the list. `WakeLock` states what a walk does in terms of sets; `WalkAgrees` says
that this is what the loop does.

**`EarlySuspend`** models `earlysuspend.c`: the list with its levels, one step per
handler called, the mutex, the two bits under `state_lock`, the two work items with
any number of kworkers each. `off` records which handlers have been told to suspend.

**`FbEarlySuspend`** models `fbearlysuspend.c`, one step per access to `fb_state` or
the wait queue: `prepare_to_wait`, the test and the sleep are apart, and the timeout
may end the wait just when the answer comes. User space is one thread that draws,
reads `wait_for_fb_sleep`, stops, reads `wait_for_fb_wake`, and may be interrupted by
signals.

**`DisplaySuspend`** composes the last two: the descriptor of `fbearlysuspend.c` is
one of the handlers, and the worker that calls it stays at its place in the list,
holding `early_suspend_lock`, until the steps of `FbEarlySuspend` have returned.

**`SuspendCore`** models `pm_suspend`: one stage per step, each of which takes
something away (`down`) or fails, and one stage per step of the way back. Drivers,
notifiers and tasks are external and may fail wherever their return value is looked
at. Wake locks are seen from outside: an owner runs in user space, in a freezable
kernel thread, in an interrupt handler, or in something nothing stops before
interrupts are off, and `StoppedBy` says which stage ends it.

**`AndroidPower`** composes `WakeLock`, `EarlySuspend` and `SuspendCore`. What they
share is stated once, by substitution: `EarlySuspend`'s main lock is "on the active
list" in `WakeLock`, `SuspendCore`'s `held` is the set of active locks that are not
due, and a worker of `WakeLock` is in its `pm_suspend` phase while it is in
`SuspendCore`. What is frozen takes no steps. Each part is then a refinement mapping
(`ImplementsWakeLock`, `ImplementsEarlySuspend`, `ImplementsSuspendCore`): the whole
adds no behaviour that a part forbids, so that what is proved of a part holds of the
whole.

**`UserWakeLock`** models `userwakelock.c`. A name is its place in the dictionary, with
the relation "is the beginning of" besides: that is all that `strncmp` and the
correction the code makes for prefixes tell apart. The search compares with one node at
a time, in a tree of any shape. The conversion of nanoseconds to jiffies keeps the
widths of `u64` and `long`. Time passes by nanoseconds; `phase` is how many of the
running jiffy have gone, which the code does not look at. `owed` is a history variable:
the nanoseconds left of those asked for.

**`Logger`** models one log of `logger.c` as a ring of bytes. Of an entry's header it
keeps the length, as two bytes of base `Base`, so that a header can wrap between
them. `get_entry_len`, `get_next_entry`, `clock_interval` and `fix_up_readers` are
the functions of the source. A write that faults leaves part of the payload in the
ring; `copy_from_user` may have cleared more of it. `w_off` is read before the mutex,
in a step of its own, and so are the parts of `logger_read` around `schedule()`.
**`LogQueue`** is what a log promises: a queue of whole entries for each reader,
filled in the order of the writes. A write loses entries only of a queue that does not
fit into the ring together with the new entry, and then exactly the fewest oldest ones
that have at least its bytes (`Kept`). Reading the headers from each head to `w_off`
maps the ring to the queues.

**`Ashmem`** models the range lists of `ashmem.c`, the LRU and its count, pin with its
four cases, unpin with its restarts, the status, the shrinker and
`ASHMEM_PURGE_ALL_CACHES` with its two calls. Calls go through the checks of
`ashmem_pin_unpin` in 32 bits; `nr_to_scan` is unsigned. **`AshmemPages`** is the
promise without lists: sets of pages; only unpinned pages lose their contents; a pin
of a page that has lost them says so.

**`CpuFreq`** models `cpufreq.c`: levels locked and limited by ids, the target of the
governor in two steps (it reads the levels under the other mutex), the look at the
limit in `exynos_cpufreq_lock` before it waits for `set_freq_lock`, and the sleep
notifier in the steps at which others can come in between. `cur` is what the cpufreq
core believes, a level or a frequency that is not in the table; the core itself may
change it at any time (`cpufreq_out_of_sync`). The notifier also sees a
`PM_POST_SUSPEND` that nothing preceded. **`Tmu`** extends it with `tmu-exynos.c`: the
interrupt, which the sensor raises when the temperature reaches a threshold from below
and at times without a cause (`ServeError`), and the polling work, whose call of
`exynos_cpufreq_upper_limit` is the steps of `CpuFreq`. **`Hotplug`** models the
governor that takes cores 1 to 3 up and down. A call has two steps, the test of
`can_hotplug` and the rest, because nothing keeps the suspend notifier away in between;
if it comes while a call counts, its reset may be lost. Cores that
`disable_nonboot_cpus` and `enable_nonboot_cpus` do not get down or up are in the model.
`recent`, `since`, `fresh` and `disturbed` are history variables.

**`LowMemKiller`** models `lowmemorykiller.c` with a step for each access to
`lowmem_deathpending`, one round of the loop per step, and the death of a task in the
steps that matter: it drops its mm, it leaves the task list (never while a shrinker
reads it), its `task_struct` is freed and `task_notify_func` compares and clears.

`MC*` modules give TLC its constants, views and symmetries. `*Proofs` modules hold
the proofs. Definitions that begin with "Mutant:" in their comment are deliberately
wrong versions of the definition after them; nothing uses them, and putting one in
the place of the original makes TLC find the violation that `PROJECT.json` names.

## Runs

| Run | Question | Bounds | Distinct states |
|---|---|---|---|
| `wake_lock` | Are lists, flags, timer and suspend work consistent? Does the loop do what the sets say? Does the system go on trying to suspend? | main, unknown and back-off lock, one user lock, one idle lock; timeouts up to 2; threshold 1, a count of two bits; one kworker | 210,375 |
| `early_suspend` | Handlers, state bits, main lock and drawing, with a handler that waits for user space | `stop_drawing` and a second handler on another level; two kworkers each for `early_suspend` and `late_resume` | 235,280 |
| `suspend_core` | Unwinding in order and completely; no lock while asleep; every attempt ends | two callers, one owner of locks per context | 2,568 |
| `android_power` | Does the system sleep only when asked to? Is the whole an instance of each part? | the kernel's three locks and a user lock, one handler, one kworker for each item | 480,170 |
| `wake_lock_doc` | Does a wake lock prevent suspend, as `wakelock.h` says? | two CPUs for `suspend()` | violated |
| `user_wake_lock` | Is the tree in order? Is a lock held for the time asked for? | three names, one the beginning of another; timeouts of 0 to 31 ns, jiffies of 2 ns; a `long` of 3 bits, a `u64` of 5 | 451,076 |
| `logger` | Do readers stand at entries, get them in order and return? | two readers, one writer that may fault, a ring of 8 bytes, two payloads | 90,002 |
| `logger_fault` | The same with a second writer | one reader, two writers, one of which may fault | violated |
| `ashmem` | Do the lists agree with each other and with the pages? | two areas of 3 pages, every interval and some out of range | 159,509 |
| `tmu` | Are floor and ceiling exact? Is a hot chip limited? | one id that locks, two levels, one for each state of the thermal unit, temperatures 0 to 3, three changes | 498,300 |
| `hotplug` | Cores in order, no flapping, decisions on full streaks only | streaks of 1, 2 and 3 transitions instead of 4, 5 and 8, two changes of the load | 919,691 |
| `low_mem_killer` | Is the victim the worst task? Does help come? | two shrinkers, three tasks, a victim gets one jiffy | 619,164 |

Several invariants are conjunctions of named parts: `ListsConsistent` of
`WakeLockList` (types, links, agreement of the loop) and of `Ashmem` (types, order,
LRU, status, remembered purges), `LogConsistent` (types, heads, length, wakeups),
`ThermalConsistent`; `OnlineNested`, `TreeInOrder`, `VictimIsWorst` and `NoLostWakeup`
of the display include their type invariant.

*Why these bounds.* A timeout of 2 tells "due", "next" and "later" apart, which is
all that the comparisons of the code do; two locks with different timeouts are enough
for a timer set to the wrong one. `SUSPEND_BACKOFF_THRESHOLD` is 1 instead of 10: the
code only compares with it and resets, and the theorems hold for every threshold. Two instances of a work item
show every race between a pair of them; where a run has one, because two would leave
it no room for liveness or refinement, the theorems hold for any number of workers
(see Proofs), and `wake_lock_doc` has two for `suspend()`.
In `SuspendCore` the callers differ only in who gets `pm_mutex`. In `Logger` a ring of
8 bytes holds two short entries or one long one and a short one does not fit beside
it, so writes lap readers at every offset and entries, headers and gaps wrap at each
place. Three pages allow every relation of two intervals and a hole; a purged and an
unpurged range can both be merged. Two levels suffice for the frequency driver because
it only compares them; three changes of the temperature, or two of the load, cover rising and
falling back while a decision is on its way. The streaks of the hotplug governor keep
their order, so that the longest one can reach back before a sleep. Of three names, of
which the first begins the second, the prefix case is on both sides of a node; among the
timeouts are one that is cut to a negative number of jiffies, one that is cut to 0 (a
lock for ever) and one that overflows the `u64`. Views leave out values that no step
reads any more, also where liveness is checked; symmetries exchange equal CPUs or areas; no symmetry is used with a liveness property.

*Fairness.* Time passes, a due timer fires, and its handler gets the spin lock;
queued work is started and goes on, since kworkers are scheduled; handlers return;
a waiter for a mutex gets it in the end (strong fairness for `early_suspend_lock` and
`set_freq_lock`: the kernel's mutexes queue their waiters). Each stage of a suspend
ends, because the freezer and `usermodehelper_disable` have timeouts and callbacks
return. The thread that draws runs when it can. A writer that has unlocked the log
wakes its readers; a reader that can run does. The thermal interrupt is delivered.
Frequency transitions recur, as the ondemand governor samples for ever. Memory reclaim
calls the low memory killer again while memory is low, and not only to ask for counts;
a killed task drops its mm, though nobody has to reap it. Nothing is assumed about
users of the locks, requests of user space, signals, writers, the temperature, or the
wakeup.

Some properties say in their statement what they are limited to. `BackoffNotMissed` is
about a count at the threshold: of two workers one can count past it before the other
compares, as the count is not locked, and then the back-off is missed until the count
wraps. `QuietWhileStopped` excepts a handler that gave up after its second, and is about
a main lock that is free while no worker is at the handlers: an instance of
`early_suspend` late in `sys_sync` can drop it while another one still calls them, and
the run with two kworkers has this case. `OnlineNested` and `ActsOnLoad` are about a
run queue that does not change during a call and hotplug calls that succeed; `NoFlap` is
not. `ActsOnLoad` asks for a full streak of run queues, of which
`NrStreakLong - FreqStreak` may be from before the last sleep, because the suspend
notifier does not reset their counters. `HotIsLimited` is about heat the driver has
noticed: a threshold reached between the reading that ends the polling and the INTCLEAR
of `tmu-exynos.c:565` is forgotten until the next one. It also excepts a limit that the
frequency driver has refused on its way to sleep, since `tmu_monitor` takes it for set.
`ThermalConsistent` has the state after an interrupt without a cause, where nobody
watches. `HeldAsAsked` gives a timeout that fits a `long` all but the last jiffy.
`LevelsExact` is about the recorded levels, not the clock.

### Findings

**A wake lock does not prevent suspend** (`wake_lock_doc`). `include/linux/wakelock.h`
says: "A wake_lock prevents the system from entering suspend or other low power states
when active." The run shows a behaviour in which the system sleeps with
`unknown_wakeup` active. The locks are looked at for the last time in
`power_suspend_late`; kworkers and timers still run then. `suspend_work` is queued a
second time while the first instance is in `pm_suspend`, for instance by a lock that
was taken and dropped meanwhile or that expired; the second instance gets `-EBUSY`,
finds no new event, and takes `unknown_wakeup` after the first instance has looked.
`AsleepWithoutLocks` is what does hold: no lock taken by a task, a freezable thread or
an interrupt handler.

**A failed write can undo another one** (`logger_fault`). `logger_aio_write` reads
`orig = log->w_off` before it takes `log->mutex` and stores it back when a copy from
user space fails (`logger.c:328`, `367`). A second writer that finished in between has
moved heads past what it overwrote; `w_off` goes back behind them, and a reader takes
a length from the middle of what is there, against "Atomically reads exactly one log
entry" (`logger.c:152`). With one writer the write and its failure are consistent
(run `logger`).

### Observed while modelling

These follow from reading the code for the model. No run claims them, because no
document says otherwise or because they lie outside the bounds of a run.

* `logger.c:222-233`: `get_next_entry` skips `len` bytes from the reader's own
  position, not up to the new write head. The comments at 255-256 ("to the first entry
  after the new write head") and 347-351 promise less loss: the free bytes in front of
  the head are not counted, so a reader can lose one entry more than the write
  overwrites. `LogQueue` states what the code does.
* `logger.c:435`: `logger_release` unlinks a reader from the list without the mutex,
  while a writer may walk it. In the model the release is one step.
* `ashmem.c:549`: `ashmem_unpin` deletes merged ranges before an allocation
  (554) that may fail; a purge is then forgotten. In `ashmem_pin` the failure of the
  allocation for a hole is ignored (513-515). `AllocMayFail` is in the model; the run
  sets it to FALSE. What survives the failure is theorem `ListsStayOrdered`.
* `ashmem.c:370-371`: `nr_to_scan` is unsigned and can pass zero, and the loop then
  purges everything. `ashmem.c:594`: offset = size with length 0 passes the checks and
  yields a range without pages; the run and the proofs leave that call out.
* `ashmem.c:134`: `GFP_KERNEL` below `ashmem_mutex`, which the shrinker takes.
* `cpufreq.c:287`: a lock that looked at the limit before it waited may raise the
  frequency above a limit set meanwhile, until the governor's next target.
  `cpufreq.c:564-587`: after a sleep the clock is set to the highest level and the
  transition is announced with the frequencies of an earlier one, so that `policy->cur`
  is anything until the core resynchronises.
* `wakelock.c:301-303`: with two instances of `suspend()` the count can pass
  `SUSPEND_BACKOFF_THRESHOLD` unseen.
* `earlysuspend.c:109-113`: with two instances of `early_suspend()`, one late in
  `sys_sync` drops the main lock while the other calls handlers.
* `tmu-exynos.c:933-936`: an interrupt without a cause stays disabled, with nothing
  queued. `565`: INTCLEAR forgets a threshold that was reached since the reading.
* `dynamic-dvfs-nr_running-hotplug.c:184-188`: the counters of the run queue survive a
  sleep, and nothing serialises the reset of the others with a call that counts.
* `fbearlysuspend.c:88-92`: the request to stop is answered on entry to
  `wait_for_fb_wake` only; a second request that meets user space already waiting
  there is answered by nobody, and the handler waits its second in vain.
* `userwakelock.c:75`: the jiffies of a timeout are counted from the start of the
  running one, so that a lock may expire up to a jiffy early. A timeout of more than
  2^31 jiffies is cut to 32 bits and may become short, negative, or 0, which is for ever.
* `lowmemorykiller.c:104`, `173`: two shrinkers can both find no pending death and kill
  two tasks; `113-114` compare free and file pages separately.

## Proofs

All are checked by TLAPS for every value of the constants: any set of locks, handlers,
callers, workers and tasks, any timeouts, levels, streaks and thresholds. Assumptions
on constants are the named `ASSUME`s of the modules, which TLC evaluates on every run;
the table gives those that are more than types, and the hypotheses of the theorems that
have one.

| Module | Theorems | Beyond types it is assumed that |
|---|---|---|
| `WakeLockProofs` | `TypeCorrect`, `ListsAgree`, `TimerIsEnough`, `SuspendNotLost`, `NoEarlyExpiry`, `BackoffTaken`; with lists `ListsImplementWakeLock`, `LoopIsExact` | the kernel's own locks are suspend locks, the main lock is not one of the two that are taken with a timeout |
| `EarlySuspendProofs` | `TypeCorrect`, `MainLock`, `HandlersFollowState`, `LevelsRespected`; with the display `ImplementsEarlySuspend`, `ImplementsFbEarlySuspend`, `WakeupsNotLost`, `QuietDisplay` | |
| `SuspendCoreProofs` | `OrderKept`, `UnwoundAlways`, `NoLockAsleep` | |
| `AndroidPowerProofs` | `RefinesWakeLock`, `RefinesEarlySuspend`, `RefinesSuspendCore`, `AsleepOnRequest` | there is a handler (`CONFIG_FB_EARLYSUSPEND` registers one) |
| `UserWakeLockProofs` | `NamesInOrder`, `HeldForTheTimeout` | three facts about powers of 2, of which the provers know nothing; a name comes after its beginnings |
| `CpuProofs` | `FloorAndCeilingExact`, `ImplementsCpuFreq`, `FloorAndCeilingExactWithTmu`, `ThermalSafety`; of the hotplug governor `CoresNested`, `GovernorDoesNotFlap`, `GovernorActsOnLoad` | a finite set of ids; thresholds in the order that the driver's table has; the thermal unit is the only one that limits (no other in the tree does); `NrStreak <= NrStreakLong` |
| `LoggerProofs` | `LogIsConsistent`, `LogIsQueue` | an entry fits into half of the ring and its length into the header; both: a writer whose copy may fail is the only writer (`FaultsAlone`) |
| `MemoryProofs` | of ashmem `ListsStayOrdered`, `ListsAreConsistent`, `AreasKeepPages`; of the low memory killer `PendingTaskExists`, `WorstTaskKilled` | ashmem: no call begins at the very end of an area (`size \notin Offsets`); `ListsAreConsistent` and `AreasKeepPages`: memory for new ranges is found; the tasks have no more pages together than there are |

*Wake locks.* The walk is treated once, in lemmas on what `Expired`, `HasWakeLock` and
the flags after a walk are; every operation then comes down to "change one lock, walk,
rearm". `TimerCovers` is inductive together with the types and `ListMatchesFlags` (an
active lock without `AUTO_EXPIRE` must be recognised as permanent); `NoLostSuspend`
rests on `TimerCovers`, since a lock that a walk expires is only safe to forget because
the timer is still to come. `BackoffNotMissed` is inductive with the types: whoever
writes the count is itself between increment and reset, and whoever leaves has compared.

*The loop over the list.* What a recursive function computes for every list is out of
reach of an induction theorem with an operator as parameter. `LoopIsExact` goes by the
least counterexample instead: if the loop did not agree with the sets from some place of
the list on, there would be a last such place (`WFMin` on the distance to the end), and
one round of the loop (`OneRound`) leads from the next place to this one. The invariant
`ListOK` says that each list has the active locks of its type once each, those without a
timeout before those with one. Without the order the loop would return too late or too
early: it is what `list_add` and `list_add_tail` are for.

*Early suspend.* The invariant says, for the one kworker that holds the mutex, that
exactly the handlers before (or from) its position are `off`, that the list is sorted by
level and has no duplicates, and that a kworker in a walk holds the mutex. Without the
position neither `HandlersMatchState` nor `LevelOrder` is inductive.

*Display.* `DisplaySpec` implies both of its parts, so their invariants hold of it.
`FbInv` says that nobody draws in `STOPPED_DRAWING` and that a handler which returned in
time has left that state; `Coupled`
ties the handler's own progress to the worker that called it and to its membership in
`off`. `QuietWhileStopped` follows from these two and the invariant of early suspend: the
main lock is free only while suspended, and with nobody at the handlers suspended means
that `stop_drawing` has been called.

*Suspend core.* The invariant gives the exact value of `down` at each stage (`DownAt`),
the owner of `pm_mutex`, and the contexts that can hold a lock after
`power_suspend_late`. One lemma per shape of a step (take, give, stay) leaves one line
of set algebra per action.

*The whole.* Steps of `AndroidPower` are mapped to steps of each part. For early suspend
the main lock is read off the lock table, so it has to be shown that nothing else touches
it: `MainOK` (it never has a timeout) keeps walks and the timer away. For the suspend core
`held` is read off the table as well: a lock that becomes held must be one of an owner who
can still run. Here the invariants of the parts are used through the mapping
(`EarlyInv`, `SCP!IInv`). `SleepsOnlyOnRequest` then needs four facts from four places:
asleep means that the main lock is not held (suspend core), therefore suspended and
requested (early suspend), therefore "mem" was written (`RequestOK`), and no handler was
registered half-way when user space was frozen (`FrozenOK`).

*User wake locks.* `Diff`, `strncmp` with its correction, is shown to be the order of the
dictionary (`DiffIsOrder`). The invariant `TreeInv` adds what the search knows: everything left of
the part of the tree still to be searched is before the name, everything right of it is
after. `HeldInv` adds that the time owed, counted from the start of the running jiffy,
is less than `(expires + 1) * Jiffy` (`Covers`): rounding up makes it so when the lock is
taken, whatever the phase, and both sides lose a jiffy at each change of `jiffies`.

*Frequency and temperature.* `FreqInv`: the bits and the level tables of both kinds agree
with the global levels, and a caller that waits to lock or to limit has not yet done so.
Lemmas on `Min` and `Max` after one id has come or gone carry the four operations.
`TmuInv` adds that exactly one of interrupt and polling watches the temperature, or there
was an error or a trip, and what
the polling work has done at each place of its call into the frequency driver.

*Hotplug.* `HInv`: the counters of the run queue are no more than what the latest calls
have shown, and the counters of the frequency no more than the calls since a core moved
and than the calls since the last sleep, unless a reset was lost. Counters of the run
queue survive a sleep; a core still moves only when those of the frequency have filled up.

*Logger.* Everything is said in distances from the write head. A chain is a set of
distances with 0 in it, such that the entry at every other member is longer than its
header and ends at a member. The invariant `LInv` says that there is a chain on which
the start head and all read heads stand, that a writer which may put the write head
back has read the current one (`OrigOK`), and that readers on the wait queue are
between `prepare_to_wait` and `finish_wait`. The recursive functions that follow the
headers (`Entries`, the counting in `get_next_entry`, the bytes of a queue) are first
shown to exist, then their values on a chain, each by the least counterexample
(`Least`, `FromBelow`). A head is lapped exactly if its distance and the new entry do not
fit into the ring together (`FixedUpIs`); since an entry fits into half of the ring there
are then enough bytes in front of the head for `get_next_entry`, which stops on the chain.
What lies behind the moved heads is not overwritten, so a write maps a chain to a chain
(`RingWritten`) and every queue of `LogQueue` to the rest of it that was kept and the new
entry (`HeadMoved`). The hypothesis `FaultsAlone` is needed: run `logger_fault` shows the
failure without it.

*Ashmem.* The proof goes from the inside out. `range_del`, `range_shrink` and
`range_alloc` are shown, on sequences, to remove, replace and insert one range and to
keep the number of pages on the LRU (`Removed`, `Replaced`, `Inserted`, `PagesOnConcat`).
`Consistent(l, a, O)` says of the lists of a call for area `a` that the ranges are
disjoint and in order, and that the LRU is the set `O` of ranges of other areas and those
of `a` that are not purged; each of the three keeps it if the range changed fits where it
stands. A turn of the loop of `ashmem_pin` replaces a range by what lies outside of the
pages (`PinOneCuts`), a round of `ashmem_unpin` moves a range into the pages still to be
unpinned (`Going`) or ends (`Finished`); the loops follow by induction on their turns
(`Upward`, the least counterexample again). That the short circuits are right
(`ShortCircuitIs`, `UntouchedOutOf`) is where the order is needed. `Structure`, which is
types, order, LRU and count for all areas, is inductive by itself, also when allocations
fail. `PurgeRemembered` and the pages are not: a range that is deleted for a merge, or
the second half of a hole, is lost with its mark. The subtle case of the merge is a range
that swallows the pages when another one was already merged: `Going` says that a call
which has merged a purged range still has a page to unpin that no range has, so that it
cannot return early and forget the purge. The hypothesis on `Offsets` leaves out the call
with offset = size and length 0: it makes ranges without pages, which may be equal
records.

*Low memory killer.* `KInv`: the task that the loop has selected is at least as bad as
every task already passed that can still be killed, and a notifier that has compared
belongs to a task not yet freed.

Only model-checked: the liveness properties (`KeepsTrying`, `DrawingFollowsRequest`,
`AttemptEnds`, `ReaderReturns`, `HotIsLimited`, `LoadDecides`, `RescueComes`), which are
beyond the prover. Every safety property that a passing run checks is also proved.

## Not modelled

The statistics of `CONFIG_WAKELOCK_STAT`, debug output, `hibernate()` behind "disk"
(not configured), the error path of `wakelocks_init`, the walk over the task list in
the freezer, the registers saved by `s3c_pm_enter`; in `SuspendCore` the callbacks of
drivers and notifiers are reduced to success or failure. Of logger: poll and the ioctls
that only return sizes. Of ashmem: `SET_SIZE`, `SET_PROT_MASK` and `SET_NAME`, and the
page faults and allocations under its mutex. Of the frequency driver:
`exynos_cpufreq_level_fix`, which nothing in the tree calls, the reboot notifier and
the tables; each id is assumed to have one caller. The clock is not modelled: the wakeup
path of U-Boot sets the PLL anew, and which frequency a core runs at after a sleep is
known only to the cpufreq core's later resynchronisation. Of the thermal unit:
calibration, sysfs, the sensor and its registers over a sleep. Of the hotplug governor:
the branch for SoCs with two cores, and a resynchronisation of the cpufreq core that
overlaps a call of the governor. The page counters of the low memory killer are exact,
without the per-CPU remainders of `mm/vmstat.c`. The parameters of the low memory killer are constants.

Binder is left out for its size: some 3,600 lines of reference counting and
transaction stacks that one module could not hold faithfully, and Android's own
upstream code. RAM console and timed GPIO have next to no control; U-Boot is vendored,
straight-line initialisation of hardware.

## Plan

1. *Done*: the modules above with their runs.
2. *Done*: proofs of every safety property that the passing runs check, and of the
   refinements of `WakeLock` by its lists, of the parts of `DisplaySuspend` and of
   `AndroidPower`, of `CpuFreq` by `Tmu`, of `LogQueue` by `Logger` and of `AshmemPages`
   by `Ashmem`.
3. Further modules: the accounting of `CONFIG_WAKELOCK_STAT` (no time is counted
   twice), the settings of ashmem, the reference counts of binder.
