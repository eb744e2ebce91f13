--------------------------- MODULE DisplaySuspend ---------------------------
(***************************************************************************)
(* EarlySuspend composed with FbEarlySuspend: one of the early suspend     *)
(* handlers is stop_drawing_early_suspend_desc, whose suspend function     *)
(* waits for user space while the worker that called it holds              *)
(* early_suspend_lock.  The call of that handler is the steps of module    *)
(* FbEarlySuspend; the step EarlyCall, LateCall or RegisterCall for it is  *)
(* its return.  The descriptor is registered by an initcall and, the file  *)
(* being built in, never unregistered.                                     *)
(***************************************************************************)
EXTENDS EarlySuspend

CONSTANT stop_drawing    \* stop_drawing_early_suspend_desc

ASSUME StopDrawingAssumption == stop_drawing \in Handlers

VARIABLES fb_state, asleep, handler, user

Fb == INSTANCE FbEarlySuspend

display_vars == <<fb_state, asleep, handler, user>>
all_vars == <<vars, display_vars>>

DisplayTypeOK == TypeOK /\ Fb!TypeOK

-----------------------------------------------------------------------------
\* The worker's next call is stop_drawing's.
At(w) ==
  /\ pc[w] = "walk"
  /\ pos[w] \in 1 .. Len(early_suspend_handlers)
  /\ early_suspend_handlers[pos[w]] = stop_drawing

Suspending == early_suspend_lock = {stop_drawing} \/ \E w \in EarlyWorkers : At(w)
Resuming == \E w \in LateWorkers : At(w)

StopCall == Suspending /\ Fb!StopRequest /\ UNCHANGED vars
StopRun == Fb!StopWait /\ UNCHANGED vars
StartCall == Resuming /\ Fb!StartDrawing /\ UNCHANGED vars
StartRun == Fb!StartWake /\ UNCHANGED vars

\* The call has returned.
SuspendReturned == handler \in {"timedout", "stopped"}
ResumeReturned == handler = "resumed"

DisplayEarly(w) ==
  /\ early_suspend(w)
  /\ At(w) => SuspendReturned
  /\ UNCHANGED display_vars

DisplayLate(w) ==
  /\ late_resume(w)
  /\ At(w) => ResumeReturned
  /\ UNCHANGED display_vars

DisplayRegister(h) ==
  /\ RegisterCall(h)
  /\ h = stop_drawing => SuspendReturned
  /\ UNCHANGED display_vars

DisplayDrivers ==
  \/ \E h \in Handlers : register_early_suspend(h) /\ UNCHANGED display_vars
  \/ \E h \in Handlers \ {stop_drawing} : unregister_early_suspend(h) /\ UNCHANGED display_vars

WorkStart ==
  \/ \E w \in EarlyWorkers : EarlyStart(w) /\ UNCHANGED display_vars
  \/ \E w \in LateWorkers : LateStart(w) /\ UNCHANGED display_vars

\* The thread that draws, and the one that writes to /sys/power/state.
Draw == (Fb!SleepRun \/ Fb!WakeRun) /\ UNCHANGED vars
Signal == (Fb!SleepSignal \/ Fb!WakeSignal) /\ UNCHANGED vars
Request == User /\ UNCHANGED display_vars

DisplayInit == Init /\ Fb!Init

DisplayNext ==
  \/ StopCall \/ StopRun \/ StartCall \/ StartRun
  \/ \E w \in EarlyWorkers : DisplayEarly(w)
  \/ \E w \in LateWorkers : DisplayLate(w)
  \/ \E h \in Handlers : DisplayRegister(h)
  \/ DisplayDrivers \/ WorkStart \/ Draw \/ Signal \/ Request

\* As in EarlySuspend: queued work is started, a thread that can run does,
\* and the mutex is handed out in FIFO order.  Nobody has to request, to
\* register or to send a signal.
DisplayFairness ==
  /\ WF_all_vars(StopCall \/ StopRun) /\ WF_all_vars(StartCall \/ StartRun)
  /\ WF_all_vars(\E h \in Handlers : DisplayRegister(h))
  /\ WF_all_vars(\E w \in EarlyWorkers : EarlyStart(w) /\ UNCHANGED display_vars)
  /\ WF_all_vars(\E w \in LateWorkers : LateStart(w) /\ UNCHANGED display_vars)
  /\ \A w \in EarlyWorkers :
       /\ SF_all_vars(EarlyLock(w) /\ UNCHANGED display_vars)
       /\ WF_all_vars(DisplayEarly(w) /\ pc[w] # "lock")
  /\ \A w \in LateWorkers :
       /\ SF_all_vars(LateLock(w) /\ UNCHANGED display_vars)
       /\ WF_all_vars(DisplayLate(w) /\ pc[w] # "lock")
  /\ WF_all_vars(Draw)

DisplaySpec == DisplayInit /\ [][DisplayNext]_all_vars
DisplayFairSpec == DisplaySpec /\ DisplayFairness

-----------------------------------------------------------------------------
(* Properties.                                                             *)

\* Nothing is drawn from the end of a wait without warning until late_resume
\* calls the handler again; and when the main wake lock has been dropped and
\* nobody is at the handlers, user space does not draw, unless the handler gave
\* up waiting.  While a worker holds early_suspend_lock the main lock may be
\* free too early: of two instances of early_suspend one may be so late in
\* sys_sync that it drops the lock while the other one calls the handlers.
QuietWhileStopped ==
  /\ Fb!QuietWhileStopped
  /\ ~main_wake_lock /\ early_suspend_lock = {} /\ stop_drawing \in Registered /\ Fb!Drawing
       => handler = "timedout"

\* Only a thread that waits is on fb_state_wq, and nobody sleeps there while
\* what it waits for holds.
NoLostWakeup == DisplayTypeOK /\ Fb!NoLostWakeup

\* When user space stops changing its mind handlers and main lock follow, as
\* FollowsRequest says, although a handler waits for user space, and so does
\* the drawing: after a last "on" it comes back for good, after a last "mem"
\* it stops for good, also when the resume overtook the request to stop or
\* the handler gave up.
DrawingFollowsRequest ==
  /\ FollowsRequest
  /\ <>[](SUSPEND_REQUESTED \notin state) => <>[]Fb!Drawing
  /\ <>[](SUSPEND_REQUESTED \in state /\ stop_drawing \in Registered) => <>[]~Fb!Drawing
=============================================================================
