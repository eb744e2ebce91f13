--------------------------- MODULE MCAndroidPower ---------------------------
(* AndroidPower for TLC.  View leaves out what no step can read any more:  *)
(* the flags a destroyed lock is left with, the expiry of a lock that is   *)
(* not on an active list, the saved event number of a worker that is not   *)
(* between reading it and comparing it, and the list position of a worker  *)
(* that is not on its way through the list.                                *)
EXTENDS AndroidPower, TLC

MCLevel == [h \in Handlers |-> 50]

View ==
  <<[l \in Locks |-> IF WL!INITIALIZED \in flags[l] THEN flags[l] ELSE {}], link, [l \in Locks |-> IF link[l] = "active" THEN expires[l] ELSE -1],
    expire_timer, timer_running, suspend_work, suspend_pc,
    [w \in Workers |-> suspend_pc[w] \notin {"idle", "has_wake_lock", "entry"} /\ new_event[w]],
    suspend_short_count, state, requested_suspend_state, early_suspend_work, late_resume_work,
    early_suspend_lock, early_suspend_handlers, off, early_pc,
    [w \in EarlyWorkers \cup LateWorkers |-> IF early_pc[w] = "walk" THEN pos[w] ELSE -1], core_vars>>

WorkerSymmetry == Permutations(Workers)
=============================================================================
