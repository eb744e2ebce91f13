-------------------------- MODULE MCDisplaySuspend --------------------------
(* DisplaySuspend for TLC: a handler below stop_drawing's level.  View     *)
(* leaves out the list position of a worker that is not on its way through *)
(* the list, which no step reads.                                          *)
EXTENDS DisplaySuspend

MCLevel == [h \in Handlers |-> IF h = stop_drawing THEN 100 ELSE 50]

View ==
  <<state, requested_suspend_state, main_wake_lock, early_suspend_work, late_resume_work,
    early_suspend_lock, early_suspend_handlers, off, pc,
    [w \in Threads |-> IF pc[w] = "walk" THEN pos[w] ELSE 0], display_vars>>
=============================================================================
