---------------------------- MODULE SuspendCore -----------------------------
(***************************************************************************)
(* pm_suspend() and what it calls: kernel/power/suspend.c, the freezer of  *)
(* kernel/power/process.c, usermodehelper_disable, the noirq phase of      *)
(* drivers/base/power/main.c with power_suspend_late of wakelock.c in it,  *)
(* and the sleep of plat-samsung/pm.c.                                     *)
(*                                                                         *)
(* down is the set of things that are currently taken away from the        *)
(* system.  Each stage takes one away or fails, and each error label of    *)
(* the code gives back what was taken so far.  Callbacks of drivers,       *)
(* notifiers and tasks are external: every one that can fail may fail.     *)
(*                                                                         *)
(* Whoever takes a wake lock runs in one of four contexts, and each is     *)
(* stopped at another stage; held is the set of those with an active lock. *)
(***************************************************************************)
EXTENDS Integers, Sequences

CONSTANTS
  Callers,     \* workers that can be in pm_suspend
  Owners,      \* whoever takes wake locks
  context      \* owner |-> "user", "kthread", "irq" or "nofreeze"

Contexts == {"user", "kthread", "irq", "nofreeze"}

ASSUME OwnersAssumption == context \in [Owners -> Contexts]

VARIABLES
  pm_mutex,    \* {} or {caller}
  at,          \* caller |-> the stage it is at
  down,        \* what is taken away
  held         \* owners of an active wake lock

vars == <<pm_mutex, at, down, held>>

\* In the order in which enter_state takes them away.
Order ==
  <<"console",      \* pm_prepare_console
    "notified",     \* PM_SUSPEND_PREPARE
    "usermodehelper",
    "user",         \* user space tasks frozen
    "kthreads",     \* freezable kernel threads and work queues, and the oom killer
    "gfp",          \* __GFP_IO and __GFP_FS
    "printk",       \* suspend_console
    "devices",      \* dpm_suspend_start
    "platform",     \* suspend_ops->prepare
    "device_irqs",  \* dpm_suspend_noirq
    "cpus",         \* the other CPUs
    "irqs",
    "syscore",
    "asleep">>      \* suspend_ops->enter

First(n) == {Order[i] : i \in 1 .. n}

Stage ==
  {"out", "trylock", "prepare", "notify", "usermodehelper", "freeze_user", "freeze_tasks",
   "suspend_devices", "platform_prepare", "device_irqs", "noirq", "power_suspend_late",
   "noirq_rest", "cpus", "irqs", "syscore", "enter", "asleep", "syscore_resume", "irqs_on",
   "enable_cpus", "platform_wake", "noirq_undo", "platform_finish", "resume_devices",
   "resume_console", "restore_gfp", "thaw", "thaw_user", "usermodehelper_enable", "post",
   "restore_console", "unlock", "return"}

TypeOK ==
  /\ pm_mutex \in SUBSET Callers
  /\ at \in [Callers -> Stage]
  /\ down \in SUBSET First(Len(Order))
  /\ held \in SUBSET Owners

-----------------------------------------------------------------------------
Goto(w, from, to) == at[w] = from /\ at' = [at EXCEPT ![w] = to]

\* A stage that takes things away, and one that gives them back.
Take(w, from, things, to) == Goto(w, from, to) /\ down' = down \cup things
Give(w, from, things, to) == Goto(w, from, to) /\ down' = down \ things

locking == <<pm_mutex, held>>

\* pm_suspend(state): only "mem" is valid on this board.
pm_suspend(w, state) ==
  /\ Goto(w, "out", IF state = "mem" THEN "trylock" ELSE "return")
  /\ UNCHANGED <<locking, down>>

\* mutex_trylock in enter_state; sys_sync follows.
TryLock(w) ==
  /\ \/ pm_mutex = {} /\ pm_mutex' = {w} /\ Goto(w, "trylock", "prepare")
     \/ pm_mutex # {} /\ UNCHANGED pm_mutex /\ Goto(w, "trylock", "return")
  /\ UNCHANGED <<down, held>>

-----------------------------------------------------------------------------
(* suspend_prepare.                                                        *)

PrepareConsole(w) ==
  Take(w, "prepare", {"console"}, "notify") /\ UNCHANGED locking

\* A notifier that fails ends the chain; those before it were notified.
NotifyPrepare(w) ==
  /\ \/ Take(w, "notify", {"notified"}, "usermodehelper")
     \/ Take(w, "notify", {"notified"}, "post")
  /\ UNCHANGED locking

\* usermodehelper_disable takes its flag back itself when helpers are still
\* running after five seconds.
UsermodehelperDisable(w) ==
  /\ \/ Take(w, "usermodehelper", {"usermodehelper"}, "freeze_user")
     \/ Goto(w, "usermodehelper", "post") /\ UNCHANGED down
  /\ UNCHANGED locking

\* try_to_freeze_tasks(true) and (false).  The freezer gives up when tasks
\* refuse to freeze for 20 seconds, or when one is left and a wake lock or a
\* wakeup event is there; it does not look at the wake locks once no task is
\* left.
FreezeUser(w) ==
  /\ \/ Take(w, "freeze_user", {"user"}, "freeze_tasks")
     \/ Goto(w, "freeze_user", "thaw") /\ UNCHANGED down
  /\ UNCHANGED locking

FreezeTasks(w) ==
  /\ \/ Take(w, "freeze_tasks", {"kthreads"}, "suspend_devices")
     \/ Goto(w, "freeze_tasks", "thaw") /\ UNCHANGED down
  /\ UNCHANGED locking

-----------------------------------------------------------------------------
(* suspend_devices_and_enter and suspend_enter.                            *)

\* pm_restrict_gfp_mask, suspend_console, dpm_suspend_start; when a device
\* fails, those before it are suspended.
SuspendDevices(w) ==
  /\ \/ Take(w, "suspend_devices", {"gfp", "printk", "devices"}, "platform_prepare")
     \/ Take(w, "suspend_devices", {"gfp", "printk", "devices"}, "resume_devices")
  /\ UNCHANGED locking

\* s3c_pm_prepare cannot fail.
PlatformPrepare(w) ==
  Take(w, "platform_prepare", {"platform"}, "device_irqs") /\ UNCHANGED locking

\* suspend_device_irqs, at the start of dpm_suspend_noirq.
SuspendDeviceIrqs(w) ==
  Take(w, "device_irqs", {"device_irqs"}, "noirq") /\ UNCHANGED locking

\* The noirq callbacks of the devices registered after the power device.
SuspendNoirq(w) ==
  /\ Goto(w, "noirq", "power_suspend_late") \/ Goto(w, "noirq", "noirq_undo")
  /\ UNCHANGED <<locking, down>>

\* Mutant: the wake locks are not looked at again.
power_suspend_late_NoCheck(w) ==
  Goto(w, "power_suspend_late", "noirq_rest") /\ UNCHANGED <<locking, down>>

power_suspend_late(w) ==
  /\ \/ held = {} /\ Goto(w, "power_suspend_late", "noirq_rest")
     \/ held # {} /\ Goto(w, "power_suspend_late", "noirq_undo")
  /\ UNCHANGED <<locking, down>>

\* The noirq callbacks of the devices registered before it.
SuspendNoirqRest(w) ==
  /\ Goto(w, "noirq_rest", "cpus") \/ Goto(w, "noirq_rest", "noirq_undo")
  /\ UNCHANGED <<locking, down>>

\* disable_nonboot_cpus; when one CPU stays, others may be down already.
DisableCpus(w) ==
  /\ \/ Take(w, "cpus", {"cpus"}, "irqs")
     \/ Take(w, "cpus", {"cpus"}, "enable_cpus")
  /\ UNCHANGED locking

DisableIrqs(w) ==
  Take(w, "irqs", {"irqs"}, "syscore") /\ UNCHANGED locking

\* Mutant: an error of syscore_suspend skips arch_suspend_enable_irqs.
SyscoreSuspend_SkipIrqs(w) ==
  /\ \/ Take(w, "syscore", {"syscore"}, "enter")
     \/ Goto(w, "syscore", "enable_cpus") /\ UNCHANGED down
  /\ UNCHANGED locking

\* syscore_suspend undoes its own work when it fails.
SyscoreSuspend(w) ==
  /\ \/ Take(w, "syscore", {"syscore"}, "enter")
     \/ Goto(w, "syscore", "irqs_on") /\ UNCHANGED down
  /\ UNCHANGED locking

\* pm_wakeup_pending, or an error of s3c_pm_enter: no sleep.
EnterSleep(w) ==
  /\ \/ Take(w, "enter", {"asleep"}, "asleep")
     \/ Goto(w, "enter", "syscore_resume") /\ UNCHANGED down
  /\ UNCHANGED locking

-----------------------------------------------------------------------------
(* The way back.                                                           *)

Wake(w) == Give(w, "asleep", {"asleep"}, "syscore_resume") /\ UNCHANGED locking
SyscoreResume(w) == Give(w, "syscore_resume", {"syscore"}, "irqs_on") /\ UNCHANGED locking
EnableIrqs(w) == Give(w, "irqs_on", {"irqs"}, "enable_cpus") /\ UNCHANGED locking
EnableCpus(w) == Give(w, "enable_cpus", {"cpus"}, "platform_wake") /\ UNCHANGED locking

\* dpm_resume_noirq, from suspend_enter and from dpm_suspend_noirq itself.
ResumeNoirq(w) ==
  /\ \/ Give(w, "platform_wake", {"device_irqs"}, "platform_finish")
     \/ Give(w, "noirq_undo", {"device_irqs"}, "platform_finish")
  /\ UNCHANGED locking

PlatformFinish(w) == Give(w, "platform_finish", {"platform"}, "resume_devices") /\ UNCHANGED locking
ResumeDevices(w) == Give(w, "resume_devices", {"devices"}, "resume_console") /\ UNCHANGED locking
ResumeConsole(w) == Give(w, "resume_console", {"printk"}, "restore_gfp") /\ UNCHANGED locking
RestoreGfp(w) == Give(w, "restore_gfp", {"gfp"}, "thaw") /\ UNCHANGED locking

\* thaw_processes and usermodehelper_enable, in suspend_prepare when the
\* freezer gave up and in suspend_finish otherwise: first the oom killer,
\* work queues and kernel threads, then user space.
ThawTasks(w) == Give(w, "thaw", {"kthreads"}, "thaw_user") /\ UNCHANGED locking
ThawUser(w) == Give(w, "thaw_user", {"user"}, "usermodehelper_enable") /\ UNCHANGED locking
UsermodehelperEnable(w) ==
  Give(w, "usermodehelper_enable", {"usermodehelper"}, "post") /\ UNCHANGED locking

\* PM_POST_SUSPEND goes to every notifier.
NotifyPost(w) == Give(w, "post", {"notified"}, "restore_console") /\ UNCHANGED locking

\* Mutant: an error path misses pm_restore_console.
RestoreConsole_Skip(w) == Goto(w, "restore_console", "unlock") /\ UNCHANGED <<locking, down>>

RestoreConsole(w) == Give(w, "restore_console", {"console"}, "unlock") /\ UNCHANGED locking

\* Mutant: the mutex is kept.
Unlock_Keep(w) == Goto(w, "unlock", "return") /\ UNCHANGED <<pm_mutex, down, held>>

Unlock(w) ==
  /\ Goto(w, "unlock", "return")
  /\ pm_mutex' = {}
  /\ UNCHANGED <<down, held>>

Return(w) == Goto(w, "return", "out") /\ UNCHANGED <<locking, down>>

suspend_prepare(w) ==
  \/ PrepareConsole(w) \/ NotifyPrepare(w) \/ UsermodehelperDisable(w)
  \/ FreezeUser(w) \/ FreezeTasks(w)

suspend_devices_and_enter(w) ==
  \/ SuspendDevices(w) \/ PlatformPrepare(w) \/ SuspendDeviceIrqs(w) \/ SuspendNoirq(w)
  \/ power_suspend_late(w) \/ SuspendNoirqRest(w) \/ DisableCpus(w) \/ DisableIrqs(w)
  \/ SyscoreSuspend(w) \/ EnterSleep(w)

resume(w) ==
  \/ SyscoreResume(w) \/ EnableIrqs(w) \/ EnableCpus(w) \/ ResumeNoirq(w)
  \/ PlatformFinish(w) \/ ResumeDevices(w) \/ ResumeConsole(w) \/ RestoreGfp(w)
  \/ ThawTasks(w) \/ ThawUser(w) \/ UsermodehelperEnable(w) \/ NotifyPost(w)
  \/ RestoreConsole(w) \/ Unlock(w)

\* Every step of enter_state but the wakeup, which is the hardware's.
enter_state(w) ==
  TryLock(w) \/ suspend_prepare(w) \/ suspend_devices_and_enter(w) \/ resume(w)

-----------------------------------------------------------------------------
(* Wake locks from the outside.                                            *)

\* The stage that stops a context: frozen tasks do not run, device
\* interrupts are off and synchronised in the noirq phase, and everything
\* else (timers, work items of queues that are not freezable) runs until
\* interrupts are off on the last CPU.
StoppedBy(c) ==
  CASE c = "user" -> "user"
    [] c = "kthread" -> "kthreads"
    [] c = "irq" -> "device_irqs"
    [] c = "nofreeze" -> "irqs"

CanRun(o) == StoppedBy(context[o]) \notin down

Acquire(o) ==
  /\ CanRun(o)
  /\ held' = held \cup {o}
  /\ UNCHANGED <<pm_mutex, at, down>>

\* One is released by its owner, or several expire; nobody runs and no time
\* passes once interrupts are off.
Release(R) ==
  /\ "irqs" \notin down
  /\ held' = held \ R
  /\ UNCHANGED <<pm_mutex, at, down>>

Init ==
  /\ pm_mutex = {}
  /\ at = [w \in Callers |-> "out"]
  /\ down = {}
  /\ held \in SUBSET Owners

Caller(w) ==
  \/ \E state \in {"on", "mem"} : pm_suspend(w, state)
  \/ enter_state(w) \/ Wake(w) \/ Return(w)

Next ==
  \/ \E w \in Callers : Caller(w)
  \/ \E o \in Owners : Acquire(o)
  \/ \E R \in (SUBSET held) \ {{}} : Release(R)

\* Each stage ends: callbacks return, the freezer and the wait for user mode
\* helpers have timeouts.  Nothing is assumed about the wakeup.
Fairness == \A w \in Callers : WF_vars(enter_state(w))

Spec == Init /\ [][Next]_vars
FairSpec == Spec /\ Fairness

-----------------------------------------------------------------------------
(* Properties.                                                             *)

\* Whatever failed on the way, things are given back in the reverse of the
\* order in which they were taken, and none is left out: what is taken away
\* is always a prefix of Order (user space never runs on suspended devices,
\* a device never resumes with the other CPUs still off).
TakenInOrder == \E n \in 0 .. Len(Order) : down = First(n)

\* When nobody is in enter_state the system is whole again, and only the
\* holder of pm_mutex can be inside.
Unwound ==
  /\ pm_mutex = {} => down = {}
  /\ \A w \in Callers : at[w] \notin {"out", "trylock", "return"} => pm_mutex = {w}

\* A sleeping system holds no wake lock of a task, a freezable kernel thread
\* or an interrupt handler: they are all stopped before power_suspend_late
\* looks, so none can take a lock after it has looked.
AsleepWithoutLocks ==
  "asleep" \in down => \A o \in held : context[o] = "nofreeze"

\* Every attempt ends: pm_mutex is given back, or the system sleeps.
AttemptEnds == (pm_mutex # {}) ~> (pm_mutex = {} \/ "asleep" \in down)

=============================================================================
