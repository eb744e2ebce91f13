--------------------------- MODULE FbEarlySuspend ---------------------------
(***************************************************************************)
(* kernel/power/fbearlysuspend.c: the early suspend handler that asks user *)
(* space to stop drawing, and waits for it at most one second.             *)
(*                                                                         *)
(* The handler is called by early_suspend and late_resume in turn (module  *)
(* EarlySuspend).  External: user space, one thread that draws, reads      *)
(* wait_for_fb_sleep, stops drawing, reads wait_for_fb_wake, and draws     *)
(* again; a read that a signal interrupts is done again.                   *)
(***************************************************************************)
EXTENDS Integers

VARIABLES
  fb_state,              \* "DRAWING_OK", "REQUEST_STOP_DRAWING" or "STOPPED_DRAWING"
  asleep,                \* threads on fb_state_wq that nobody has woken up yet
  handler,               \* where the caller of the handler is
  user                   \* where user space is

vars == <<fb_state, asleep, handler, user>>

\* "timedout" and "stopped" are both suspended: the wait ended with and
\* without the warning.
HandlerLabel == {"resumed", "wake", "prepare", "test", "wait", "checked", "timedout", "stopped", "resuming"}
UserLabel == {"drawing", "sleep_prepare", "sleep_test", "sleep_wait", "sleep_signal",
              "quiet", "wake_prepare", "wake_test", "wake_wait", "wake_signal"}

\* A thread is on the wait queue only while it waits.
TypeOK ==
  /\ fb_state \in {"DRAWING_OK", "REQUEST_STOP_DRAWING", "STOPPED_DRAWING"}
  /\ asleep \subseteq {"handler", "user"}
  /\ handler \in HandlerLabel
  /\ user \in UserLabel
  /\ "handler" \in asleep => handler \in {"test", "wait"}
  /\ "user" \in asleep => user \in {"sleep_test", "sleep_wait", "wake_test", "wake_wait"}

\* User space draws until it has been told to sleep, and after it has been
\* told to wake up.
Drawing == user \in {"drawing", "sleep_prepare", "sleep_test", "sleep_wait", "sleep_signal"}

-----------------------------------------------------------------------------
(* The wait queue of kernel/wait.c and kernel/sched.c.  No waiter is       *)
(* exclusive, so that wake_up and wake_up_all both wake all of them.       *)

wake_up == asleep' = {}

prepare_to_wait(t) == asleep' = asleep \cup {t}

finish_wait(t) == asleep' = asleep \ {t}

-----------------------------------------------------------------------------
(* stop_drawing_early_suspend.                                             *)

StopRequest ==
  /\ handler = "resumed"
  /\ fb_state' = "REQUEST_STOP_DRAWING"
  /\ handler' = "wake"
  /\ UNCHANGED <<asleep, user>>

StopWake ==
  /\ handler = "wake"
  /\ wake_up
  /\ handler' = "prepare"
  /\ UNCHANGED <<fb_state, user>>

StopPrepare ==
  /\ handler = "prepare"
  /\ prepare_to_wait("handler")
  /\ handler' = "test"
  /\ UNCHANGED <<fb_state, user>>

StopDone == fb_state = "STOPPED_DRAWING"

StopTest ==
  /\ handler = "test"
  /\ IF StopDone
     THEN finish_wait("handler") /\ handler' = "checked"
     ELSE handler' = "wait" /\ UNCHANGED asleep
  /\ UNCHANGED <<fb_state, user>>

StopWoken ==
  /\ handler = "wait" /\ "handler" \notin asleep
  /\ handler' = "prepare"
  /\ UNCHANGED <<fb_state, asleep, user>>

\* The second is over; it may be over just when the answer comes.
StopTimeout ==
  /\ handler = "wait"
  /\ finish_wait("handler")
  /\ handler' = "checked"
  /\ UNCHANGED <<fb_state, user>>

StopCheck ==
  /\ handler = "checked"
  /\ handler' = IF StopDone THEN "stopped" ELSE "timedout"
  /\ UNCHANGED <<fb_state, asleep, user>>

StopWait == StopWake \/ StopPrepare \/ StopTest \/ StopWoken \/ StopTimeout \/ StopCheck

stop_drawing_early_suspend == StopRequest \/ StopWait

(* start_drawing_late_resume.                                              *)

\* Mutant: a request nobody answered is left standing.
StartDrawing_IfStopped ==
  /\ handler \in {"timedout", "stopped"}
  /\ fb_state' = IF fb_state = "STOPPED_DRAWING" THEN "DRAWING_OK" ELSE fb_state
  /\ handler' = "resuming"
  /\ UNCHANGED <<asleep, user>>

StartDrawing ==
  /\ handler \in {"timedout", "stopped"}
  /\ fb_state' = "DRAWING_OK"
  /\ handler' = "resuming"
  /\ UNCHANGED <<asleep, user>>

StartWake ==
  /\ handler = "resuming"
  /\ wake_up
  /\ handler' = "resumed"
  /\ UNCHANGED <<fb_state, user>>

start_drawing_late_resume == StartDrawing \/ StartWake

-----------------------------------------------------------------------------
(* wait_for_fb_sleep_show.                                                 *)

SleepEnter ==
  /\ user = "drawing"
  /\ user' = "sleep_prepare"
  /\ UNCHANGED <<fb_state, asleep, handler>>

SleepPrepare ==
  /\ user = "sleep_prepare"
  /\ prepare_to_wait("user")
  /\ user' = "sleep_test"
  /\ UNCHANGED <<fb_state, handler>>

\* Mutant: the request is answered when user space is told of it.
SleepTest_Answers ==
  /\ user = "sleep_test"
  /\ IF fb_state # "DRAWING_OK"
     THEN fb_state' = "STOPPED_DRAWING" /\ wake_up /\ user' = "sleep_signal"
     ELSE user' = "sleep_wait" /\ UNCHANGED <<fb_state, asleep>>
  /\ UNCHANGED handler

SleepTest ==
  /\ user = "sleep_test"
  /\ IF fb_state # "DRAWING_OK"
     THEN finish_wait("user") /\ user' = "quiet"
     ELSE user' = "sleep_wait" /\ UNCHANGED asleep
  /\ UNCHANGED <<fb_state, handler>>

SleepWoken ==
  /\ user = "sleep_wait" /\ "user" \notin asleep
  /\ user' = "sleep_prepare"
  /\ UNCHANGED <<fb_state, asleep, handler>>

SleepSignal ==
  /\ user = "sleep_wait"
  /\ finish_wait("user")
  /\ user' = "sleep_signal"
  /\ UNCHANGED <<fb_state, handler>>

\* The second look at fb_state: an error, and the read is done again, or "sleeping".
SleepSignalled ==
  /\ user = "sleep_signal"
  /\ user' = IF fb_state = "DRAWING_OK" THEN "drawing" ELSE "quiet"
  /\ UNCHANGED <<fb_state, asleep, handler>>

SleepRun == SleepEnter \/ SleepPrepare \/ SleepTest \/ SleepWoken \/ SleepSignalled

wait_for_fb_sleep_show == SleepRun \/ SleepSignal

(* wait_for_fb_wake_show.                                                  *)

\* Mutant: the answer is given, the handler is not told.
WakeEnter_NoWake ==
  /\ user = "quiet"
  /\ fb_state' = IF fb_state = "REQUEST_STOP_DRAWING" THEN "STOPPED_DRAWING" ELSE fb_state
  /\ user' = "wake_prepare"
  /\ UNCHANGED <<asleep, handler>>

\* User space has stopped: the only answer to a request, given under
\* fb_state_lock once per read.
WakeEnter ==
  /\ user = "quiet"
  /\ IF fb_state = "REQUEST_STOP_DRAWING"
     THEN fb_state' = "STOPPED_DRAWING" /\ wake_up
     ELSE UNCHANGED <<fb_state, asleep>>
  /\ user' = "wake_prepare"
  /\ UNCHANGED handler

WakePrepare ==
  /\ user = "wake_prepare"
  /\ prepare_to_wait("user")
  /\ user' = "wake_test"
  /\ UNCHANGED <<fb_state, handler>>

Awake == fb_state = "DRAWING_OK"

WakeTest ==
  /\ user = "wake_test"
  /\ IF Awake
     THEN finish_wait("user") /\ user' = "drawing"
     ELSE user' = "wake_wait" /\ UNCHANGED asleep
  /\ UNCHANGED <<fb_state, handler>>

WakeWoken ==
  /\ user = "wake_wait" /\ "user" \notin asleep
  /\ user' = "wake_prepare"
  /\ UNCHANGED <<fb_state, asleep, handler>>

WakeSignal ==
  /\ user = "wake_wait"
  /\ finish_wait("user")
  /\ user' = "wake_signal"
  /\ UNCHANGED <<fb_state, handler>>

WakeSignalled ==
  /\ user = "wake_signal"
  /\ user' = IF Awake THEN "drawing" ELSE "quiet"
  /\ UNCHANGED <<fb_state, asleep, handler>>

WakeRun == WakeEnter \/ WakePrepare \/ WakeTest \/ WakeWoken \/ WakeSignalled

wait_for_fb_wake_show == WakeRun \/ WakeSignal

-----------------------------------------------------------------------------
Init ==
  /\ fb_state = "DRAWING_OK" /\ asleep = {}
  /\ handler = "resumed" /\ user = "drawing"

Next ==
  \/ stop_drawing_early_suspend \/ start_drawing_late_resume
  \/ wait_for_fb_sleep_show \/ wait_for_fb_wake_show

Spec == Init /\ [][Next]_vars

-----------------------------------------------------------------------------
(* Properties.                                                             *)

\* "tell userspace to stop drawing, wait for it to stop": from the end of a
\* wait without warning until the handler of late resume runs, nothing is
\* drawn, however often a suspend and a resume overtook user space before.
QuietWhileStopped == handler = "stopped" => ~Drawing

\* Nobody sleeps on fb_state_wq while what it waits for holds, except the
\* moment before the wake_up that follows the change.
NoLostWakeup ==
  /\ handler = "wait" /\ "handler" \in asleep => ~StopDone
  /\ user = "sleep_wait" /\ "user" \in asleep => fb_state = "DRAWING_OK" \/ handler = "wake"
  /\ user = "wake_wait" /\ "user" \in asleep => fb_state # "DRAWING_OK" \/ handler = "resuming"
=============================================================================
