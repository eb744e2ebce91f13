---------------------------- MODULE LowMemKiller ----------------------------
(***************************************************************************)
(* drivers/staging/android/lowmemorykiller.c: a shrinker that kills the    *)
(* process with the highest oom_adj when memory is low, one at a time, and *)
(* gives a victim one second to die.                                       *)
(*                                                                         *)
(* lowmem_shrink runs in every thread that reclaims memory: Shrinkers.     *)
(* lowmem_deathpending and its timeout are read and written without a      *)
(* lock; tasklist_lock is only held for reading.  A task dies in steps: it *)
(* drops its mm, it leaves the task list (under the write lock), and its   *)
(* task_struct is freed, which calls task_notify_func.                     *)
(***************************************************************************)
EXTENDS Integers, Sequences, FiniteSetsExt, SequencesExt

CONSTANTS
  Shrinkers,             \* threads that can run lowmem_shrink
  Tasks,
  tasklist,              \* the tasks in the order of for_each_process
  oom_adj, rss,          \* task |-> signal->oom_adj, resident pages
  lowmem_adj,            \* the parameters, from 1
  lowmem_minfree,
  Pages,                 \* pages that are free once no task has any
  FilePages,             \* values of NR_FILE_PAGES - NR_SHMEM
  HZ,                    \* jiffies that a victim gets
  None

OOM_ADJUST_MAX == 15
SizeWidth == 8           \* bits of a size_t

ASSUME TasksAssumption ==
  /\ tasklist \in Seq(Tasks) /\ Range(tasklist) = Tasks /\ None \notin Tasks
  /\ oom_adj \in [Tasks -> Int] /\ rss \in [Tasks -> Nat]
ASSUME ParameterAssumption ==
  /\ lowmem_adj \in Seq(Int) /\ lowmem_minfree \in Seq(Nat)
  /\ Pages \in Nat /\ HZ \in Nat \ {0} /\ FilePages \subseteq Int

\* The pages that the tasks in S have: no more than there are.
ResidentPages(S) == MapThenSumSet(LAMBDA t : rss[t], S)

ASSUME MemoryAssumption == \A S \in SUBSET Tasks : ResidentPages(S) \in 0 .. Pages

VARIABLES
  status,                \* task |-> "alive", "nomm", "unhashed" or "freed"
  sigkill,               \* tasks that have been sent SIGKILL
  lowmem_deathpending,   \* a task, or None
  deathpending_left,     \* lowmem_deathpending_timeout - jiffies, -1 for any less
  clearing,              \* tasks whose notifier has compared and not yet cleared
  pc,                    \* shrinker |-> where it is
  seen,                  \* shrinker |-> other_free and other_file as it read them
  pos,                   \* shrinker |-> the next task it looks at
  selected               \* shrinker |-> its victim so far, or None

task_vars == <<status, sigkill, clearing>>
pending_vars == <<lowmem_deathpending, deathpending_left>>
vars == <<task_vars, pending_vars, pc, seen, pos, selected>>

HasMm(t) == status[t] = "alive"

Min_adj(read) ==
  LET array_size == Min({Len(lowmem_adj), Len(lowmem_minfree)})
      Low(n, i) == n % 2 ^ SizeWidth < lowmem_minfree[i]     \* an int against a size_t
      I == {i \in 1 .. array_size : Low(read.free, i) /\ Low(read.file, i)}
  IN  IF I = {} THEN OOM_ADJUST_MAX + 1 ELSE lowmem_adj[Min(I)]

Reads == [free : 0 .. Pages, file : FilePages]
NoRead == [free |-> 0, file |-> 0]

TypeOK ==
  /\ status \in [Tasks -> {"alive", "nomm", "unhashed", "freed"}]
  /\ sigkill \subseteq Tasks
  /\ lowmem_deathpending \in Tasks \cup {None} /\ deathpending_left \in -1 .. HZ
  /\ clearing \subseteq Tasks
  /\ pc \in [Shrinkers -> {"idle", "check", "timeout", "adj", "scan", "pending", "kill"}]
  /\ seen \in [Shrinkers -> Reads \cup {NoRead}]
  /\ pos \in [Shrinkers -> 1 .. Len(tasklist) + 1]
  /\ selected \in [Shrinkers -> Tasks \cup {None}]
  /\ \A k \in Shrinkers : pc[k] \in {"pending", "kill"} => selected[k] # None

-----------------------------------------------------------------------------
(* lowmem_shrink.                                                          *)

Goto(k, from, to) == pc[k] = from /\ pc' = [pc EXCEPT ![k] = to]

\* global_page_state: the free pages, and file pages less shared memory.
FreePages == Pages - ResidentPages({t \in Tasks : HasMm(t)})

ShrinkRead(k) ==
  /\ Goto(k, "idle", "check")
  /\ \E file \in FilePages : seen' = [seen EXCEPT ![k] = [free |-> FreePages, file |-> file]]
  /\ UNCHANGED <<task_vars, pending_vars, pos, selected>>

\* return, with read_unlock if the lock is held.
Return(k) ==
  /\ pc' = [pc EXCEPT ![k] = "idle"]
  /\ seen' = [seen EXCEPT ![k] = NoRead]
  /\ pos' = [pos EXCEPT ![k] = 1]
  /\ selected' = [selected EXCEPT ![k] = None]

\* lowmem_deathpending && ...
ShrinkCheck(k) ==
  /\ Goto(k, "check", IF lowmem_deathpending = None THEN "adj" ELSE "timeout")
  /\ UNCHANGED <<task_vars, pending_vars, seen, pos, selected>>

\* Mutant: the timeout is not looked at.
InTime_Always == TRUE

InTime == deathpending_left >= 0

\* ... time_before_eq(jiffies, lowmem_deathpending_timeout)
ShrinkTimeout(k) ==
  /\ pc[k] = "timeout"
  /\ IF InTime THEN Return(k)
     ELSE Goto(k, "timeout", "adj") /\ UNCHANGED <<seen, pos, selected>>
  /\ UNCHANGED <<task_vars, pending_vars>>

\* A call with nr_to_scan = 0 asks only how much there is, and one that finds
\* enough memory ends here too.
ShrinkNothing(k) ==
  /\ pc[k] = "adj"
  /\ Return(k)
  /\ UNCHANGED <<task_vars, pending_vars>>

\* read_lock.
ShrinkLow(k) ==
  /\ Goto(k, "adj", "scan")
  /\ Min_adj(seen[k]) # OOM_ADJUST_MAX + 1
  /\ UNCHANGED <<task_vars, pending_vars, seen, pos, selected>>

\* Mutant: of two tasks with the same oom_adj the later one is chosen.
Better_Later(p, s) == oom_adj[p] >= oom_adj[s]

\* Is p preferred to the task selected so far?
Better(p, s) ==
  \/ oom_adj[p] > oom_adj[s]
  \/ oom_adj[p] = oom_adj[s] /\ rss[p] > rss[s]

\* One round of for_each_process.
ShrinkScan(k) ==
  /\ pc[k] = "scan" /\ pos[k] <= Len(tasklist)
  /\ LET p == tasklist[pos[k]]
     IN  selected' = IF /\ HasMm(p) /\ rss[p] > 0
                        /\ oom_adj[p] >= Min_adj(seen[k])
                        /\ selected[k] # None => Better(p, selected[k])
                     THEN [selected EXCEPT ![k] = p] ELSE selected
  /\ pos' = [pos EXCEPT ![k] = @ + 1]
  /\ UNCHANGED <<task_vars, pending_vars, pc, seen>>

\* The end of the loop.
ShrinkSelected(k) ==
  /\ pc[k] = "scan" /\ pos[k] > Len(tasklist)
  /\ IF selected[k] = None THEN Return(k)
     ELSE Goto(k, "scan", "pending") /\ UNCHANGED <<seen, pos, selected>>
  /\ UNCHANGED <<task_vars, pending_vars>>

ShrinkPending(k) ==
  /\ Goto(k, "pending", "kill")
  /\ lowmem_deathpending' = selected[k]
  /\ UNCHANGED <<task_vars, deathpending_left, seen, pos, selected>>

\* lowmem_deathpending_timeout and force_sig.
ShrinkKill(k) ==
  /\ pc[k] = "kill"
  /\ Return(k)
  /\ deathpending_left' = HZ
  /\ sigkill' = sigkill \cup {selected[k]}
  /\ UNCHANGED <<status, clearing, lowmem_deathpending>>

lowmem_shrink(k) ==
  \/ ShrinkRead(k) \/ ShrinkCheck(k) \/ ShrinkTimeout(k) \/ ShrinkNothing(k)
  \/ ShrinkLow(k) \/ ShrinkScan(k) \/ ShrinkSelected(k)
  \/ ShrinkPending(k) \/ ShrinkKill(k)

-----------------------------------------------------------------------------
(* How a task ends (kernel/exit.c).                                        *)

\* Mutant: lowmem_deathpending is set after read_unlock.
Reading_NotWhenSet(k) == pc[k] = "scan"

\* Does k hold tasklist_lock for reading?
Reading(k) == pc[k] \in {"scan", "pending", "kill"}

\* exit_mm, after a SIGKILL or of its own accord.
ExitMm(t) ==
  /\ status[t] = "alive"
  /\ status' = [status EXCEPT ![t] = "nomm"]
  /\ UNCHANGED <<sigkill, clearing, pending_vars, pc, seen, pos, selected>>

\* release_task, with tasklist_lock held for writing.
Release(t) ==
  /\ status[t] = "nomm"
  /\ \A k \in Shrinkers : ~Reading(k)
  /\ status' = [status EXCEPT ![t] = "unhashed"]
  /\ UNCHANGED <<sigkill, clearing, pending_vars, pc, seen, pos, selected>>

\* __put_task_struct calls task_notify_func: the comparison ...
NotifyCompare(t) ==
  /\ status[t] = "unhashed" /\ t \notin clearing
  /\ IF lowmem_deathpending = t
     THEN clearing' = clearing \cup {t} /\ UNCHANGED status
     ELSE status' = [status EXCEPT ![t] = "freed"] /\ UNCHANGED clearing
  /\ UNCHANGED <<sigkill, pending_vars, pc, seen, pos, selected>>

\* ... and the assignment.
NotifyClear(t) ==
  /\ t \in clearing
  /\ clearing' = clearing \ {t}
  /\ status' = [status EXCEPT ![t] = "freed"]
  /\ lowmem_deathpending' = None
  /\ UNCHANGED <<sigkill, deathpending_left, pc, seen, pos, selected>>

task_notify_func(t) == NotifyCompare(t) \/ NotifyClear(t)

Tick ==
  /\ deathpending_left >= 0
  /\ deathpending_left' = deathpending_left - 1
  /\ UNCHANGED <<task_vars, lowmem_deathpending, pc, seen, pos, selected>>

-----------------------------------------------------------------------------
Init ==
  /\ status = [t \in Tasks |-> "alive"] /\ clearing = {}
  /\ sigkill = {}
  /\ lowmem_deathpending = None /\ deathpending_left = -1
  /\ pc = [k \in Shrinkers |-> "idle"]
  /\ seen = [k \in Shrinkers |-> NoRead]
  /\ pos = [k \in Shrinkers |-> 1] /\ selected = [k \in Shrinkers |-> None]

Next ==
  \/ \E k \in Shrinkers : lowmem_shrink(k)
  \/ \E t \in Tasks : ExitMm(t) \/ Release(t) \/ task_notify_func(t)
  \/ Tick

Spec == Init /\ [][Next]_vars

\* Memory is reclaimed again and again while it is low, and the calls that
\* only ask are followed by calls that scan; a killed task drops its mm.  It
\* need not be reaped: its parent may not wait for it.
FairSpec ==
  /\ Spec
  /\ \A k \in Shrinkers : WF_vars(lowmem_shrink(k)) /\ SF_vars(ShrinkLow(k))
  /\ \A t \in Tasks : WF_vars(t \in sigkill /\ ExitMm(t))
  /\ WF_vars(Tick)

-----------------------------------------------------------------------------
(* Properties.                                                             *)

\* The tasks that memory as read by shrinker k allows to kill.
Eligible(read) == {t \in Tasks : HasMm(t) /\ rss[t] > 0 /\ oom_adj[t] >= Min_adj(read)}

\* When the loop is done its victim is as bad as every task there still is:
\* none has a higher oom_adj, or the same and more memory, although tasks end
\* while the loop runs.  The victim itself is one that may be killed.
VictimIsWorst ==
  TypeOK /\ \A k \in Shrinkers : pc[k] \in {"pending", "kill"} =>
    /\ oom_adj[selected[k]] >= Min_adj(seen[k]) /\ rss[selected[k]] > 0
    /\ \A t \in Eligible(seen[k]) :
         \/ oom_adj[t] < oom_adj[selected[k]]
         \/ oom_adj[t] = oom_adj[selected[k]] /\ rss[t] <= rss[selected[k]]

\* lowmem_deathpending is never a task_struct that is gone, which another
\* task could be allocated at, whatever shrinkers and notifiers overwrite.
NoStaleDeath == lowmem_deathpending # None => status[lowmem_deathpending] # "freed"

\* Memory that is low while there are tasks to kill does not stay so, also
\* when a victim has died and is never reaped: the timeout lets the next call
\* go on.
RescueComes == <>[](Eligible([free |-> FreePages, file |-> 0]) = {})
=============================================================================
