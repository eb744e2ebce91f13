---------------------------- MODULE EarlySuspend ----------------------------
(***************************************************************************)
(* kernel/power/earlysuspend.c: user space writes "mem" or "on" to         *)
(* /sys/power/state; the early suspend handlers are called, in level       *)
(* order, by work items of suspend_work_queue; the main wake lock is       *)
(* dropped when they are done.                                             *)
(*                                                                         *)
(* A work item can run on two CPUs at the same time (the queue is not      *)
(* WQ_NON_REENTRANT): EarlyWorkers and LateWorkers are the kworkers that   *)
(* can run early_suspend() and late_resume().  A handler's own suspend     *)
(* and resume functions are external: off is the set of handlers whose     *)
(* suspend function was called without a matching resume.                  *)
(***************************************************************************)
EXTENDS Integers, Sequences

CONSTANTS
  Handlers,        \* every struct early_suspend
  level,           \* handler |-> its level
  EarlyWorkers,    \* CPUs that can run early_suspend()
  LateWorkers      \* CPUs that can run late_resume()

Threads == EarlyWorkers \cup LateWorkers

ASSUME HandlersAssumption == level \in [Handlers -> Nat]

ASSUME ThreadsAssumption ==
  /\ EarlyWorkers \cap LateWorkers = {}
  /\ Threads \cap Handlers = {}

VARIABLES
  state,                    \* SUSPEND_REQUESTED and SUSPENDED bits
  requested_suspend_state,  \* "on" or "mem", the only states the board accepts
  main_wake_lock,           \* is the main wake lock held?
  early_suspend_work,       \* the PENDING bits of the two work items
  late_resume_work,
  early_suspend_lock,       \* who holds the mutex: {}, {worker} or {handler being registered}
  early_suspend_handlers,   \* the list, a sequence
  off,                      \* handlers called to suspend and not yet to resume
  pc,                       \* worker |-> where it is
  pos                       \* worker |-> the list entry it calls next

vars == <<state, requested_suspend_state, main_wake_lock, early_suspend_work,
          late_resume_work, early_suspend_lock, early_suspend_handlers, off, pc, pos>>
request_vars == <<requested_suspend_state, early_suspend_work, late_resume_work>>
list_vars == <<early_suspend_handlers, off>>

SUSPEND_REQUESTED == "SUSPEND_REQUESTED"
SUSPENDED == "SUSPENDED"
SUSPEND_REQUESTED_AND_SUSPENDED == {SUSPEND_REQUESTED, SUSPENDED}

\* The handlers on the list.
Registered == {early_suspend_handlers[i] : i \in 1 .. Len(early_suspend_handlers)}

TypeOK ==
  /\ state \subseteq {SUSPEND_REQUESTED, SUSPENDED}
  /\ requested_suspend_state \in {"on", "mem"}
  /\ main_wake_lock \in BOOLEAN
  /\ early_suspend_work \in BOOLEAN
  /\ late_resume_work \in BOOLEAN
  /\ early_suspend_lock \in SUBSET (Threads \cup Handlers)
  /\ early_suspend_handlers \in Seq(Handlers)
  /\ off \subseteq Handlers
  /\ pc \in [Threads -> {"idle", "lock", "walk", "unlock"}]
  /\ pos \in [Threads -> Nat]

-----------------------------------------------------------------------------
(* Handlers come and go; both hold early_suspend_lock.                     *)

\* Mutant: the loop stops before an entry of the same or a lower level.
StopsAt_Descending(h, i) ==
  /\ i \in 1 .. Len(early_suspend_handlers) + 1
  /\ \A j \in 1 .. i - 1 : level[early_suspend_handlers[j]] > level[h]
  /\ i <= Len(early_suspend_handlers) => level[early_suspend_handlers[i]] <= level[h]

\* Where the loop of register_early_suspend stops: before the first entry of
\* a higher level.
StopsAt(h, i) ==
  /\ i \in 1 .. Len(early_suspend_handlers) + 1
  /\ \A j \in 1 .. i - 1 : level[early_suspend_handlers[j]] <= level[h]
  /\ i <= Len(early_suspend_handlers) => level[early_suspend_handlers[i]] > level[h]

\* list_add_tail before entry i.
Inserted(s, i, h) ==
  [j \in 1 .. Len(s) + 1 |-> IF j < i THEN s[j] ELSE IF j = i THEN h ELSE s[j - 1]]

\* Mutant: a handler registered while suspended is not called.
register_early_suspend_NoCall(h) ==
  /\ early_suspend_lock = {}
  /\ h \notin Registered
  /\ \E i \in 1 .. Len(early_suspend_handlers) + 1 :
       /\ StopsAt(h, i)
       /\ early_suspend_handlers' = Inserted(early_suspend_handlers, i, h)
  /\ UNCHANGED <<state, request_vars, main_wake_lock, early_suspend_lock, off, pc, pos>>

\* If the handlers are suspended the mutex is kept for the direct call.
register_early_suspend(h) ==
  /\ early_suspend_lock = {}
  /\ h \notin Registered
  /\ \E i \in 1 .. Len(early_suspend_handlers) + 1 :
       /\ StopsAt(h, i)
       /\ early_suspend_handlers' = Inserted(early_suspend_handlers, i, h)
  /\ early_suspend_lock' = IF SUSPENDED \in state THEN {h} ELSE {}
  /\ UNCHANGED <<state, request_vars, main_wake_lock, off, pc, pos>>

\* The direct call, and mutex_unlock.
RegisterCall(h) ==
  /\ early_suspend_lock = {h}
  /\ off' = off \cup {h}
  /\ early_suspend_lock' = {}
  /\ UNCHANGED <<state, request_vars, main_wake_lock, early_suspend_handlers, pc, pos>>

\* The driver is on its way out and shuts its device down itself; nothing is
\* left to resume.
unregister_early_suspend(h) ==
  /\ early_suspend_lock = {}
  /\ \E i \in 1 .. Len(early_suspend_handlers) :
       /\ early_suspend_handlers[i] = h
       /\ early_suspend_handlers' =
            [j \in 1 .. Len(early_suspend_handlers) - 1 |->
               IF j < i THEN early_suspend_handlers[j] ELSE early_suspend_handlers[j + 1]]
  /\ off' = off \ {h}
  /\ UNCHANGED <<state, request_vars, main_wake_lock, early_suspend_lock, pc, pos>>

-----------------------------------------------------------------------------
(* early_suspend().                                                        *)

Goto(w, from, to) == pc[w] = from /\ pc' = [pc EXCEPT ![w] = to]

EarlyStart(w) ==
  /\ early_suspend_work
  /\ early_suspend_work' = FALSE
  /\ Goto(w, "idle", "lock")
  /\ UNCHANGED <<state, requested_suspend_state, main_wake_lock, late_resume_work,
                 early_suspend_lock, list_vars, pos>>

\* mutex_lock, and the test of state under state_lock; on an abort the mutex
\* is released at once.
EarlyLock(w) ==
  /\ early_suspend_lock = {}
  /\ \/ /\ state = {SUSPEND_REQUESTED}
        /\ state' = SUSPEND_REQUESTED_AND_SUSPENDED
        /\ early_suspend_lock' = {w}
        /\ pos' = [pos EXCEPT ![w] = 1]
        /\ Goto(w, "lock", "walk")
     \/ /\ state # {SUSPEND_REQUESTED}
        /\ Goto(w, "lock", "unlock")
        /\ UNCHANGED <<state, early_suspend_lock, pos>>
  /\ UNCHANGED <<request_vars, main_wake_lock, list_vars>>

EarlyCall(w) ==
  /\ pc[w] = "walk"
  /\ pos[w] <= Len(early_suspend_handlers)
  /\ off' = off \cup {early_suspend_handlers[pos[w]]}
  /\ pos' = [pos EXCEPT ![w] = @ + 1]
  /\ UNCHANGED <<state, request_vars, main_wake_lock, early_suspend_lock,
                 early_suspend_handlers, pc>>

\* mutex_unlock; sys_sync follows and takes any time.
EarlyDone(w) ==
  /\ pos[w] > Len(early_suspend_handlers)
  /\ Goto(w, "walk", "unlock")
  /\ early_suspend_lock' = {}
  /\ UNCHANGED <<state, request_vars, main_wake_lock, list_vars, pos>>

\* Mutant: the main lock is dropped whatever was requested meanwhile.
EarlyUnlock_Always(w) ==
  /\ Goto(w, "unlock", "idle")
  /\ main_wake_lock' = FALSE
  /\ UNCHANGED <<state, request_vars, early_suspend_lock, list_vars, pos>>

\* wake_unlock(&main_wake_lock) under state_lock, after an abort as well.
EarlyUnlock(w) ==
  /\ Goto(w, "unlock", "idle")
  /\ main_wake_lock' = (main_wake_lock /\ state # SUSPEND_REQUESTED_AND_SUSPENDED)
  /\ UNCHANGED <<state, request_vars, early_suspend_lock, list_vars, pos>>

early_suspend(w) == EarlyLock(w) \/ EarlyCall(w) \/ EarlyDone(w) \/ EarlyUnlock(w)

-----------------------------------------------------------------------------
(* late_resume().                                                          *)

LateStart(w) ==
  /\ late_resume_work
  /\ late_resume_work' = FALSE
  /\ Goto(w, "idle", "lock")
  /\ UNCHANGED <<state, requested_suspend_state, main_wake_lock, early_suspend_work,
                 early_suspend_lock, list_vars, pos>>

LateLock(w) ==
  /\ early_suspend_lock = {}
  /\ \/ /\ state = {SUSPENDED}
        /\ state' = {}
        /\ early_suspend_lock' = {w}
        /\ pos' = [pos EXCEPT ![w] = Len(early_suspend_handlers)]
        /\ Goto(w, "lock", "walk")
     \/ /\ state # {SUSPENDED}
        /\ Goto(w, "lock", "idle")
        /\ UNCHANGED <<state, early_suspend_lock, pos>>
  /\ UNCHANGED <<request_vars, main_wake_lock, list_vars>>

\* The list is walked from its end.
LateCall(w) ==
  /\ pc[w] = "walk"
  /\ pos[w] > 0
  /\ off' = off \ {early_suspend_handlers[pos[w]]}
  /\ pos' = [pos EXCEPT ![w] = @ - 1]
  /\ UNCHANGED <<state, request_vars, main_wake_lock, early_suspend_lock,
                 early_suspend_handlers, pc>>

LateDone(w) ==
  /\ pos[w] = 0
  /\ Goto(w, "walk", "idle")
  /\ early_suspend_lock' = {}
  /\ UNCHANGED <<state, request_vars, main_wake_lock, list_vars, pos>>

late_resume(w) == LateLock(w) \/ LateCall(w) \/ LateDone(w)

-----------------------------------------------------------------------------
\* state_store with "on" or "mem", atomic under state_lock.
request_suspend_state(new_state) ==
  /\ \/ /\ SUSPEND_REQUESTED \notin state /\ new_state # "on"
        /\ state' = state \cup {SUSPEND_REQUESTED}
        /\ early_suspend_work' = TRUE
        /\ UNCHANGED <<main_wake_lock, late_resume_work>>
     \/ /\ SUSPEND_REQUESTED \in state /\ new_state = "on"
        /\ state' = state \ {SUSPEND_REQUESTED}
        /\ main_wake_lock' = TRUE
        /\ late_resume_work' = TRUE
        /\ UNCHANGED early_suspend_work
     \/ /\ SUSPEND_REQUESTED \in state <=> new_state # "on"
        /\ UNCHANGED <<state, main_wake_lock, early_suspend_work, late_resume_work>>
  /\ requested_suspend_state' = new_state
  /\ UNCHANGED <<early_suspend_lock, list_vars, pc, pos>>

\* wakelocks_init takes the main lock before any driver can register.  The
\* system starts awake although requested_suspend_state starts as "mem".
Init ==
  /\ state = {}
  /\ requested_suspend_state = "mem"
  /\ main_wake_lock = TRUE
  /\ early_suspend_work = FALSE
  /\ late_resume_work = FALSE
  /\ early_suspend_lock = {}
  /\ early_suspend_handlers = <<>>
  /\ off = {}
  /\ pc = [w \in Threads |-> "idle"]
  /\ pos = [w \in Threads |-> 0]

Drivers == \E h \in Handlers : register_early_suspend(h) \/ RegisterCall(h) \/ unregister_early_suspend(h)
User == \E s \in {"on", "mem"} : request_suspend_state(s)
Early == \E w \in EarlyWorkers : EarlyStart(w) \/ early_suspend(w)
Late == \E w \in LateWorkers : LateStart(w) \/ late_resume(w)

Next == Early \/ Late \/ User \/ Drivers

\* Queued work is started, handlers return, and a thread that waits for the
\* mutex gets it in the end (the kernel's mutexes are handed out in FIFO
\* order): strong fairness for the steps that take it.
Fairness ==
  /\ \A h \in Handlers : WF_vars(RegisterCall(h))
  /\ WF_vars(\E w \in EarlyWorkers : EarlyStart(w))
  /\ WF_vars(\E w \in LateWorkers : LateStart(w))
  /\ \A w \in EarlyWorkers :
       SF_vars(EarlyLock(w)) /\ WF_vars(EarlyCall(w) \/ EarlyDone(w) \/ EarlyUnlock(w))
  /\ \A w \in LateWorkers : SF_vars(LateLock(w)) /\ WF_vars(LateCall(w) \/ LateDone(w))

Spec == Init /\ [][Next]_vars
FairSpec == Spec /\ Fairness

-----------------------------------------------------------------------------
(* Properties.                                                             *)

\* The main wake lock is only ever free while user space wants the system
\* asleep and SUSPENDED is set: a request for "on" that arrives between any
\* two steps of the workers gets the lock back and keeps it.
MainHeldUnlessSuspended ==
  ~main_wake_lock => state = SUSPEND_REQUESTED_AND_SUSPENDED

\* Whenever nobody holds early_suspend_lock the SUSPENDED bit tells the truth
\* about every registered handler, however requests, aborts, registrations
\* and reentrant work items were interleaved before.
HandlersMatchState ==
  early_suspend_lock = {} =>
    off = IF SUSPENDED \in state THEN Registered ELSE {}

\* What earlysuspend.h promises of the levels: "Suspend handlers are called
\* in low to high level order, resume handlers are called in the opposite
\* order".  So no handler is suspended while one of a lower level is not,
\* apart from one that register_early_suspend is about to call directly.
LevelOrder ==
  \A g, h \in Registered :
    h \in off /\ level[g] < level[h] => g \in off \/ early_suspend_lock = {g}

\* When user space stops changing its mind, the system follows: after a last
\* "on" every handler is resumed for good, and after a last "mem" the main
\* lock is dropped for good.
FollowsRequest ==
  /\ <>[](SUSPEND_REQUESTED \notin state) => <>[](off = {} /\ main_wake_lock)
  /\ <>[](SUSPEND_REQUESTED \in state) => <>[](~main_wake_lock)

=============================================================================
