------------------------- MODULE EarlySuspendProofs -------------------------
(***************************************************************************)
(* Proofs about EarlySuspend for any set of handlers and levels and any    *)
(* number of CPUs.  HandlersMatchState and LevelOrder speak of states in   *)
(* the middle of a walk as well, so the inductive invariant IInv says what *)
(* each holder of early_suspend_lock has already done: a worker in         *)
(* early_suspend() has called the entries before its position, one in      *)
(* late_resume() has yet to call those up to its position, and a           *)
(* registration has only its own handler left to call.                     *)
(*                                                                         *)
(* DisplaySuspend is shown to implement both EarlySuspend and              *)
(* FbEarlySuspend, which brings over their invariants; Coupled then says   *)
(* how far the handler that stops the drawing is when a worker is before,  *)
(* at or past its entry of the list.                                       *)
(***************************************************************************)
EXTENDS DisplaySuspend, SequenceTheorems, TLAPS

N == Len(early_suspend_handlers)
Prefix(n) == {early_suspend_handlers[i] : i \in 1 .. n}

\* The mutex is held by at most one thread, and by a worker exactly while it
\* walks the list.
MutexOK ==
  /\ \A t, u \in early_suspend_lock : t = u
  /\ \A w \in Threads : pc[w] = "walk" <=> w \in early_suspend_lock

ListOK ==
  /\ \A i, j \in 1 .. N : i < j => level[early_suspend_handlers[i]] <= level[early_suspend_handlers[j]]
  /\ \A i, j \in 1 .. N : early_suspend_handlers[i] = early_suspend_handlers[j] => i = j

\* What the holder of the mutex has done.
ProgressOK ==
  /\ early_suspend_lock = {} => off = IF SUSPENDED \in state THEN Registered ELSE {}
  /\ \A h \in Handlers \cap early_suspend_lock :
       SUSPENDED \in state /\ h \in Registered /\ off = Registered \ {h}
  /\ \A w \in EarlyWorkers \cap early_suspend_lock :
       SUSPENDED \in state /\ pos[w] \in 1 .. N + 1 /\ off = Prefix(pos[w] - 1)
  /\ \A w \in LateWorkers \cap early_suspend_lock :
       SUSPENDED \notin state /\ pos[w] \in 0 .. N /\ off = Prefix(pos[w])

IInv == TypeOK /\ MainHeldUnlessSuspended /\ MutexOK /\ ListOK /\ ProgressOK

-----------------------------------------------------------------------------
\* A function on 1 .. n is a sequence of length n.
LEMMA FunctionIsSeq ==
  ASSUME NEW S, NEW n \in Nat, NEW f \in [1 .. n -> S]
  PROVE  f \in Seq(S) /\ Len(f) = n
<1>1. f \in Seq(S)
  BY SeqDef
<1>2. Len(f) \in Nat /\ DOMAIN f = 1 .. Len(f)
  BY <1>1, LenProperties
<1>3. 1 .. Len(f) = 1 .. n
  BY <1>2
<1> QED
  BY <1>1, <1>2, <1>3

\* list_add_tail at the place the loop of register_early_suspend found
\* keeps the list sorted and without duplicates, and adds one entry.
LEMMA InsertKeepsList ==
  ASSUME TypeOK, ListOK, NEW h \in Handlers, h \notin Registered,
         NEW i \in 1 .. N + 1, StopsAt(h, i),
         early_suspend_handlers' = Inserted(early_suspend_handlers, i, h)
  PROVE  /\ early_suspend_handlers' \in Seq(Handlers)
         /\ ListOK'
         /\ Registered' = Registered \cup {h}
<1> DEFINE s == early_suspend_handlers
           t == Inserted(s, i, h)
<1>1. N \in Nat /\ N = Len(s) /\ \A j \in 1 .. N : s[j] \in Handlers /\ s[j] \in Registered
  BY DEF TypeOK, N, Registered
<1>2. t = [j \in 1 .. N + 1 |-> IF j < i THEN s[j] ELSE IF j = i THEN h ELSE s[j - 1]]
  BY DEF Inserted, N
<1> HIDE DEF t
<1>3. t \in [1 .. N + 1 -> Handlers]
  <2>1. ASSUME NEW j \in 1 .. N + 1
        PROVE  (IF j < i THEN s[j] ELSE IF j = i THEN h ELSE s[j - 1]) \in Handlers
    <3>1. j < i => j \in 1 .. N
      BY <1>1
    <3>2. ~ (j < i) /\ j # i => j - 1 \in 1 .. N
      BY <1>1
    <3> QED
      BY <1>1, <3>1, <3>2
  <2> QED
    BY <1>2, <2>1
<1>4. t \in Seq(Handlers) /\ Len(t) = N + 1
  BY <1>1, <1>3, FunctionIsSeq
<1>5. s' = t /\ N' = N + 1
  BY <1>4 DEF t, N
<1>6. \A j \in 1 .. N + 1 :
        /\ j < i => j \in 1 .. N /\ t[j] = s[j]
        /\ j = i => t[j] = h
        /\ j > i => j - 1 \in 1 .. N /\ t[j] = s[j - 1]
  BY <1>1, <1>2
<1>7. Registered' = Registered \cup {h}
  <2>1. Registered' = {t[j] : j \in 1 .. N + 1}
    BY <1>4, <1>5 DEF Registered
  <2>2. {t[j] : j \in 1 .. N + 1} \subseteq Registered \cup {h}
    BY <1>1, <1>6
  <2>3. h \in {t[j] : j \in 1 .. N + 1}
    BY <1>6
  <2>4. ASSUME NEW j \in 1 .. N PROVE s[j] \in {t[k] : k \in 1 .. N + 1}
    <3>1. CASE j < i
      BY <1>1, <1>6, <3>1
    <3>2. CASE j >= i
      <4>1. j + 1 \in 1 .. N + 1 /\ j + 1 > i /\ (j + 1) - 1 = j
        BY <1>1, <3>2
      <4>2. t[j + 1] = s[j]
        BY <1>6, <4>1
      <4> QED
        BY <4>1, <4>2
    <3> QED
      BY <1>1, <3>1, <3>2
  <2>5. Registered = {s[j] : j \in 1 .. N}
    BY DEF Registered, N
  <2> QED
    BY <2>1, <2>2, <2>3, <2>4, <2>5
<1>8. /\ \A j \in 1 .. i - 1 : level[s[j]] <= level[h]
      /\ i <= N => level[s[i]] > level[h]
  BY <1>1 DEF StopsAt
<1>9. \A j \in 1 .. N : level[s[j]] \in Nat
  BY <1>1, HandlersAssumption
<1>10. \A j \in i .. N : level[s[j]] >= level[h]
  <2>1. SUFFICES ASSUME NEW j \in i .. N PROVE level[s[j]] >= level[h]
    OBVIOUS
  <2>2. i \in 1 .. N /\ j \in 1 .. N /\ (i < j \/ i = j) /\ i <= N
    BY <1>1
  <2>3. level[s[i]] <= level[s[j]]
    BY <1>9, <2>2 DEF ListOK
  <2>4. level[h] \in Nat
    BY HandlersAssumption
  <2> QED
    BY <1>8, <1>9, <2>2, <2>3, <2>4
<1>11. ASSUME NEW j \in 1 .. N + 1, NEW k \in 1 .. N + 1, j < k
       PROVE  level[t[j]] <= level[t[k]]
  <2>1. CASE k < i
    <3>1. j \in 1 .. N /\ k \in 1 .. N /\ t[j] = s[j] /\ t[k] = s[k]
      BY <1>1, <1>6, <1>11, <2>1
    <3> QED
      BY <1>11, <3>1 DEF ListOK
  <2>2. CASE k = i
    <3>1. j \in 1 .. i - 1 /\ t[j] = s[j] /\ t[k] = h
      BY <1>1, <1>6, <1>11, <2>2
    <3> QED
      BY <1>8, <3>1
  <2>3. CASE k > i /\ j < i
    <3>1. j \in 1 .. N /\ k - 1 \in 1 .. N /\ j < k - 1 /\ t[j] = s[j] /\ t[k] = s[k - 1]
      BY <1>1, <1>6, <1>11, <2>3
    <3> QED
      BY <3>1 DEF ListOK
  <2>4. CASE k > i /\ j = i
    <3>1. k - 1 \in i .. N /\ t[j] = h /\ t[k] = s[k - 1] /\ k - 1 \in 1 .. N
      BY <1>1, <1>6, <1>11, <2>4
    <3>2. level[h] \in Nat
      BY HandlersAssumption
    <3> QED
      BY <1>9, <1>10, <3>1, <3>2
  <2>5. CASE k > i /\ j > i
    <3>1. j - 1 \in 1 .. N /\ k - 1 \in 1 .. N /\ j - 1 < k - 1 /\ t[j] = s[j - 1] /\ t[k] = s[k - 1]
      BY <1>1, <1>6, <1>11, <2>5
    <3> QED
      BY <3>1 DEF ListOK
  <2> QED
    BY <1>1, <2>1, <2>2, <2>3, <2>4, <2>5
<1>12. ASSUME NEW j \in 1 .. N + 1, NEW k \in 1 .. N + 1, t[j] = t[k]
       PROVE  j = k
  <2>1. \A m \in 1 .. N : s[m] # h
    BY <1>1
  <2>2. CASE j = i \/ k = i
    BY <1>1, <1>6, <1>12, <2>1, <2>2
  <2>3. CASE j # i /\ k # i
    <3> DEFINE d(m) == IF m < i THEN m ELSE m - 1
    <3>1. d(j) \in 1 .. N /\ d(k) \in 1 .. N /\ t[j] = s[d(j)] /\ t[k] = s[d(k)]
      BY <1>1, <1>6, <2>3
    <3>2. d(j) = d(k)
      BY <1>12, <3>1 DEF ListOK
    <3> QED
      BY <1>1, <2>3, <3>2
  <2> QED
    BY <2>2, <2>3
<1>13. ListOK'
  <2>1. /\ \A j, k \in 1 .. N' : j < k => level[s'[j]] <= level[s'[k]]
        /\ \A j, k \in 1 .. N' : s'[j] = s'[k] => j = k
    BY <1>5, <1>11, <1>12
  <2> QED
    BY <2>1 DEF ListOK
<1> QED
  BY <1>4, <1>5, <1>7, <1>13

\* list_del keeps the list sorted and without duplicates, and takes one
\* entry away.
LEMMA RemoveKeepsList ==
  ASSUME TypeOK, ListOK, NEW i \in 1 .. N,
         early_suspend_handlers' =
           [j \in 1 .. N - 1 |->
              IF j < i THEN early_suspend_handlers[j] ELSE early_suspend_handlers[j + 1]]
  PROVE  /\ early_suspend_handlers' \in Seq(Handlers)
         /\ ListOK'
         /\ Registered' = Registered \ {early_suspend_handlers[i]}
<1> DEFINE s == early_suspend_handlers
           t == [j \in 1 .. N - 1 |-> IF j < i THEN s[j] ELSE s[j + 1]]
           d(m) == IF m < i THEN m ELSE m + 1
<1>1. N \in Nat /\ N - 1 \in Nat /\ N = Len(s) /\ \A j \in 1 .. N : s[j] \in Handlers
  BY DEF TypeOK, N
<1>2. \A j \in 1 .. N - 1 : d(j) \in 1 .. N /\ d(j) # i /\ t[j] = s[d(j)]
  BY <1>1
<1>3. t \in [1 .. N - 1 -> Handlers]
  BY <1>1, <1>2
<1> HIDE DEF t
<1>4. t \in Seq(Handlers) /\ Len(t) = N - 1
  BY <1>1, <1>3, FunctionIsSeq
<1>5. s' = t /\ N' = N - 1
  BY <1>4 DEF t, N
<1>6. \A j, k \in 1 .. N - 1 : (j < k => d(j) < d(k)) /\ (d(j) = d(k) => j = k)
  BY <1>1
<1>7. ListOK'
  <2>1. /\ \A j, k \in 1 .. N - 1 : j < k => level[t[j]] <= level[t[k]]
        /\ \A j, k \in 1 .. N - 1 : t[j] = t[k] => j = k
    <3> HIDE DEF d
    <3> QED
      BY <1>2, <1>6 DEF ListOK
  <2>2. /\ \A j, k \in 1 .. N' : j < k => level[s'[j]] <= level[s'[k]]
        /\ \A j, k \in 1 .. N' : s'[j] = s'[k] => j = k
    BY <1>5, <2>1
  <2> QED
    BY <2>2 DEF ListOK
<1>8. Registered' = Registered \ {s[i]}
  <2>1. Registered' = {t[j] : j \in 1 .. N - 1} /\ Registered = {s[j] : j \in 1 .. N}
    BY <1>4, <1>5 DEF Registered, N
  <2>2. ASSUME NEW j \in 1 .. N - 1 PROVE t[j] \in {s[k] : k \in 1 .. N} /\ t[j] # s[i]
    <3> HIDE DEF d
    <3> QED
      BY <1>2 DEF ListOK
  <2>3. ASSUME NEW k \in 1 .. N, s[k] # s[i] PROVE s[k] \in {t[j] : j \in 1 .. N - 1}
    <3>1. PICK j \in 1 .. N - 1 : d(j) = k
      <4>1. CASE k < i
        <5>1. k \in 1 .. N - 1 /\ d(k) = k
          BY <1>1, <4>1
        <5> QED
          BY <5>1
      <4>2. CASE k > i
        <5>1. k - 1 \in 1 .. N - 1 /\ d(k - 1) = k
          BY <1>1, <4>2
        <5> QED
          BY <5>1
      <4>3. k # i
        BY <2>3
      <4> QED
        BY <1>1, <4>1, <4>2, <4>3
    <3>2. t[j] = s[k]
      BY <1>2, <3>1
    <3> QED
      BY <3>2
  <2> QED
    BY <2>1, <2>2, <2>3
<1> QED
  BY <1>4, <1>5, <1>7, <1>8

-----------------------------------------------------------------------------
\* Nothing is registered, requested or running at boot.
LEMMA InitIInv == Init => IInv
<1> SUFFICES ASSUME Init PROVE IInv
  OBVIOUS
<1>1. early_suspend_handlers \in Seq(Handlers) /\ N = 0 /\ Registered = {}
  BY DEF Init, N, Registered
<1>2. TypeOK
  BY <1>1 DEF Init, TypeOK
<1>3. MainHeldUnlessSuspended /\ MutexOK
  BY DEF Init, MainHeldUnlessSuspended, MutexOK
<1>4. ListOK
  BY <1>1 DEF ListOK
<1>5. ProgressOK
  BY <1>1 DEF Init, ProgressOK, SUSPENDED
<1> QED
  BY <1>2, <1>3, <1>4, <1>5 DEF IInv

\* A handler registers, is called directly, or leaves.
LEMMA DriverStep ==
  ASSUME IInv, NEW h \in Handlers,
         register_early_suspend(h) \/ RegisterCall(h) \/ unregister_early_suspend(h)
  PROVE  IInv'
<1> USE DEF IInv
<1>1. h \notin Threads
  BY ThreadsAssumption
<1>2. CASE register_early_suspend(h)
  <2>1. /\ early_suspend_lock = {} /\ h \notin Registered
        /\ early_suspend_lock' = IF SUSPENDED \in state THEN {h} ELSE {}
        /\ UNCHANGED <<state, request_vars, main_wake_lock, off, pc, pos>>
    BY <1>2 DEF register_early_suspend
  <2>2. PICK i \in 1 .. N + 1 :
          /\ StopsAt(h, i)
          /\ early_suspend_handlers' = Inserted(early_suspend_handlers, i, h)
    BY <1>2 DEF register_early_suspend, N
  <2>3. /\ early_suspend_handlers' \in Seq(Handlers)
        /\ ListOK'
        /\ Registered' = Registered \cup {h}
    BY <2>1, <2>2, InsertKeepsList
  <2>4. TypeOK'
    BY <2>1, <2>3 DEF TypeOK, request_vars
  <2>5. MainHeldUnlessSuspended'
    BY <2>1 DEF MainHeldUnlessSuspended
  <2>6. MutexOK'
    BY <1>1, <2>1 DEF MutexOK
  <2>7. ProgressOK'
    <3>1. off = IF SUSPENDED \in state THEN Registered ELSE {}
      BY <2>1 DEF ProgressOK
    <3>2. early_suspend_lock' \cap Threads = {}
      BY <1>1, <2>1
    <3> QED
      BY <2>1, <2>3, <3>1, <3>2 DEF ProgressOK, Threads
  <2> QED
    BY <2>3, <2>4, <2>5, <2>6, <2>7
<1>3. CASE RegisterCall(h)
  <2>1. /\ early_suspend_lock = {h} /\ early_suspend_lock' = {}
        /\ off' = off \cup {h}
        /\ UNCHANGED <<state, request_vars, main_wake_lock, early_suspend_handlers, pc, pos>>
    BY <1>3 DEF RegisterCall
  <2>2. SUSPENDED \in state /\ off = Registered \ {h} /\ h \in Registered
    BY <2>1 DEF ProgressOK
  <2>3. Registered' = Registered /\ ListOK'
    BY <2>1 DEF Registered, ListOK, N
  <2>4. TypeOK' /\ MainHeldUnlessSuspended'
    BY <2>1 DEF TypeOK, MainHeldUnlessSuspended, request_vars
  <2>5. MutexOK'
    BY <1>1, <2>1 DEF MutexOK
  <2>6. ProgressOK'
    BY <2>1, <2>2, <2>3 DEF ProgressOK
  <2> QED
    BY <2>3, <2>4, <2>5, <2>6
<1>4. CASE unregister_early_suspend(h)
  <2>1. /\ early_suspend_lock = {}
        /\ off' = off \ {h}
        /\ UNCHANGED <<state, request_vars, main_wake_lock, early_suspend_lock, pc, pos>>
    BY <1>4 DEF unregister_early_suspend
  <2>2. PICK i \in 1 .. N :
          /\ early_suspend_handlers[i] = h
          /\ early_suspend_handlers' =
               [j \in 1 .. N - 1 |->
                  IF j < i THEN early_suspend_handlers[j] ELSE early_suspend_handlers[j + 1]]
    BY <1>4 DEF unregister_early_suspend, N
  <2>3. /\ early_suspend_handlers' \in Seq(Handlers)
        /\ ListOK'
        /\ Registered' = Registered \ {h}
    BY <2>2, RemoveKeepsList
  <2>4. TypeOK' /\ MainHeldUnlessSuspended' /\ MutexOK'
    BY <2>1, <2>3 DEF TypeOK, MainHeldUnlessSuspended, MutexOK, request_vars
  <2>5. ProgressOK'
    BY <2>1, <2>3 DEF ProgressOK
  <2> QED
    BY <2>3, <2>4, <2>5
<1> QED
  BY <1>2, <1>3, <1>4

\* A write to /sys/power/state, at any moment.  A request leaves SUSPENDED
\* alone, so what the holder of the mutex has done is still described.
LEMMA RequestStep ==
  ASSUME IInv, NEW s \in {"on", "mem"}, request_suspend_state(s)
  PROVE  IInv'
<1> USE DEF IInv
<1>1. UNCHANGED <<early_suspend_lock, early_suspend_handlers, off, pc, pos>>
  BY DEF request_suspend_state, list_vars
<1>2. SUSPENDED \in state' <=> SUSPENDED \in state
  BY DEF request_suspend_state, SUSPENDED, SUSPEND_REQUESTED
<1>3. TypeOK'
  BY <1>1 DEF TypeOK, request_suspend_state
<1>4. MainHeldUnlessSuspended'
  BY DEF request_suspend_state, MainHeldUnlessSuspended, TypeOK, SUSPENDED,
         SUSPEND_REQUESTED, SUSPEND_REQUESTED_AND_SUSPENDED
<1>5. MutexOK' /\ ListOK'
  BY <1>1 DEF MutexOK, ListOK, N
<1>6. ProgressOK'
  BY <1>1, <1>2 DEF ProgressOK, Registered, Prefix, N
<1> QED
  BY <1>3, <1>4, <1>5, <1>6

\* A worker's step, from what it does to the mutex, the walk and the state:
\* the list and the requests stay as they are.
LEMMA WorkerKeepsList ==
  ASSUME IInv, UNCHANGED early_suspend_handlers
  PROVE  /\ ListOK'
         /\ Registered' = Registered /\ N' = N /\ N \in Nat
         /\ Prefix(N) = Registered /\ Prefix(0) = {}
  BY DEF IInv, TypeOK, ListOK, Registered, N, Prefix

\* Every step of a worker in early_suspend().
LEMMA EarlyStep ==
  ASSUME IInv, NEW w \in EarlyWorkers, EarlyStart(w) \/ early_suspend(w)
  PROVE  IInv'
<1> USE DEF IInv
<1>1. w \in Threads /\ w \notin LateWorkers /\ w \notin Handlers
  BY ThreadsAssumption DEF Threads
<1>2. early_suspend_handlers' = early_suspend_handlers
  BY DEF EarlyStart, early_suspend, EarlyLock, EarlyCall, EarlyDone, EarlyUnlock, list_vars
<1>3. /\ ListOK'
      /\ Registered' = Registered /\ N' = N /\ N \in Nat
      /\ Prefix(N) = Registered /\ Prefix(0) = {}
  BY <1>2, WorkerKeepsList
<1>5. CASE EarlyStart(w)
  <2>1. /\ UNCHANGED <<state, main_wake_lock, early_suspend_lock, off, pos>>
        /\ pc[w] = "idle" /\ pc' = [pc EXCEPT ![w] = "lock"]
    BY <1>5 DEF EarlyStart, Goto, list_vars
  <2>2. TypeOK'
    BY <1>1, <1>2, <1>5, <2>1 DEF EarlyStart, TypeOK
  <2>3. MutexOK' /\ MainHeldUnlessSuspended'
    BY <1>1, <2>1 DEF MutexOK, TypeOK, MainHeldUnlessSuspended
  <2>4. ProgressOK'
    BY <1>2, <1>3, <2>1 DEF ProgressOK, Prefix
  <2> QED
    BY <1>3, <2>2, <2>3, <2>4
<1>6. CASE EarlyLock(w) /\ state = {SUSPEND_REQUESTED}
  <2>1. /\ early_suspend_lock = {} /\ early_suspend_lock' = {w}
        /\ state' = SUSPEND_REQUESTED_AND_SUSPENDED
        /\ pos' = [pos EXCEPT ![w] = 1]
        /\ pc[w] = "lock" /\ pc' = [pc EXCEPT ![w] = "walk"]
        /\ UNCHANGED <<request_vars, main_wake_lock, off>>
    BY <1>6 DEF EarlyLock, Goto, list_vars
  <2>2. TypeOK'
    BY <1>1, <1>2, <2>1 DEF TypeOK, request_vars, SUSPEND_REQUESTED_AND_SUSPENDED
  <2>3. MainHeldUnlessSuspended'
    BY <2>1 DEF MainHeldUnlessSuspended
  <2>4. MutexOK'
    BY <1>1, <2>1 DEF MutexOK, TypeOK
  <2>5. off = {}
    BY <1>6, <2>1 DEF ProgressOK, SUSPENDED, SUSPEND_REQUESTED
  <2>6. SUSPENDED \in state' /\ pos'[w] = 1 /\ 1 \in 1 .. N + 1
    BY <1>1, <1>3, <2>1 DEF TypeOK, SUSPEND_REQUESTED_AND_SUSPENDED
  <2>7. ProgressOK'
    BY <1>1, <1>2, <1>3, <2>1, <2>5, <2>6 DEF ProgressOK, Prefix
  <2> QED
    BY <1>3, <2>2, <2>3, <2>4, <2>7
<1>7. CASE EarlyLock(w) /\ state # {SUSPEND_REQUESTED}
  <2>1. /\ pc[w] = "lock" /\ pc' = [pc EXCEPT ![w] = "unlock"]
        /\ UNCHANGED <<state, early_suspend_lock, pos, request_vars, main_wake_lock, off>>
    BY <1>7 DEF EarlyLock, Goto, list_vars
  <2>2. TypeOK' /\ MainHeldUnlessSuspended'
    BY <1>1, <1>2, <2>1 DEF TypeOK, request_vars, MainHeldUnlessSuspended
  <2>3. MutexOK'
    BY <1>1, <2>1 DEF MutexOK, TypeOK
  <2>4. ProgressOK'
    BY <1>2, <1>3, <2>1 DEF ProgressOK, Prefix
  <2> QED
    BY <1>3, <2>2, <2>3, <2>4
<1>8. CASE EarlyCall(w)
  <2>1. /\ pc[w] = "walk" /\ pos[w] <= N
        /\ off' = off \cup {early_suspend_handlers[pos[w]]}
        /\ pos' = [pos EXCEPT ![w] = @ + 1]
        /\ UNCHANGED <<state, request_vars, main_wake_lock, early_suspend_lock, pc>>
    BY <1>8 DEF EarlyCall, N
  <2>2. early_suspend_lock = {w}
    BY <1>1, <2>1 DEF MutexOK
  <2>3. SUSPENDED \in state /\ pos[w] \in 1 .. N + 1 /\ off = Prefix(pos[w] - 1)
    BY <2>2 DEF ProgressOK
  <2>4. pos[w] \in 1 .. N /\ pos'[w] = pos[w] + 1 /\ pos'[w] \in 1 .. N + 1
    BY <1>1, <1>3, <2>1, <2>3 DEF TypeOK
  <2>5. off' = {early_suspend_handlers[i] : i \in 1 .. pos[w]}
    <3>1. 1 .. pos[w] = 1 .. pos[w] - 1 \cup {pos[w]}
      BY <2>4, <1>3
    <3> QED
      BY <2>1, <2>3, <3>1 DEF Prefix
  <2>6. TypeOK'
    <3>1. early_suspend_handlers[pos[w]] \in Handlers
      BY <2>4 DEF TypeOK, N
    <3> QED
      BY <1>1, <1>2, <2>1, <3>1 DEF TypeOK, request_vars
  <2>7. MainHeldUnlessSuspended' /\ MutexOK'
    BY <2>1 DEF MainHeldUnlessSuspended, MutexOK
  <2>8. pos'[w] - 1 = pos[w]
    BY <1>3, <2>4
  <2>9. ProgressOK'
    BY <1>1, <1>2, <1>3, <2>1, <2>2, <2>3, <2>4, <2>5, <2>8 DEF ProgressOK, Prefix
  <2> QED
    BY <1>3, <2>6, <2>7, <2>9
<1>9. CASE EarlyDone(w)
  <2>1. /\ pc[w] = "walk" /\ pos[w] > N /\ pc' = [pc EXCEPT ![w] = "unlock"]
        /\ early_suspend_lock' = {}
        /\ UNCHANGED <<state, request_vars, main_wake_lock, off, pos>>
    BY <1>9 DEF EarlyDone, Goto, N, list_vars
  <2>2. early_suspend_lock = {w}
    BY <1>1, <2>1 DEF MutexOK
  <2>3. SUSPENDED \in state /\ pos[w] \in 1 .. N + 1 /\ off = Prefix(pos[w] - 1)
    BY <2>2 DEF ProgressOK
  <2>4. pos[w] - 1 = N
    BY <1>3, <2>1, <2>3
  <2>5. TypeOK' /\ MainHeldUnlessSuspended'
    BY <1>1, <1>2, <2>1 DEF TypeOK, request_vars, MainHeldUnlessSuspended
  <2>6. MutexOK'
    BY <1>1, <2>1, <2>2 DEF MutexOK, TypeOK
  <2>7. ProgressOK'
    BY <1>3, <2>1, <2>3, <2>4 DEF ProgressOK
  <2> QED
    BY <1>3, <2>5, <2>6, <2>7
<1>10. CASE EarlyUnlock(w)
  <2>1. /\ pc[w] = "unlock" /\ pc' = [pc EXCEPT ![w] = "idle"]
        /\ main_wake_lock' = (main_wake_lock /\ state # SUSPEND_REQUESTED_AND_SUSPENDED)
        /\ UNCHANGED <<state, request_vars, early_suspend_lock, off, pos>>
    BY <1>10 DEF EarlyUnlock, Goto, list_vars
  <2>2. TypeOK'
    BY <1>1, <1>2, <2>1 DEF TypeOK, request_vars
  <2>3. MainHeldUnlessSuspended'
    BY <2>1 DEF MainHeldUnlessSuspended
  <2>4. MutexOK'
    BY <1>1, <2>1 DEF MutexOK, TypeOK
  <2>5. ProgressOK'
    BY <1>2, <1>3, <2>1 DEF ProgressOK, Prefix
  <2> QED
    BY <1>3, <2>2, <2>3, <2>4, <2>5
<1> QED
  BY <1>5, <1>6, <1>7, <1>8, <1>9, <1>10 DEF early_suspend

\* Every step of a worker in late_resume().
LEMMA LateStep ==
  ASSUME IInv, NEW w \in LateWorkers, LateStart(w) \/ late_resume(w)
  PROVE  IInv'
<1> USE DEF IInv
<1>1. w \in Threads /\ w \notin EarlyWorkers /\ w \notin Handlers
  BY ThreadsAssumption DEF Threads
<1>2. early_suspend_handlers' = early_suspend_handlers
  BY DEF LateStart, late_resume, LateLock, LateCall, LateDone, list_vars
<1>3. /\ ListOK'
      /\ Registered' = Registered /\ N' = N /\ N \in Nat
      /\ Prefix(N) = Registered /\ Prefix(0) = {}
  BY <1>2, WorkerKeepsList
<1>4. CASE LateStart(w)
  <2>1. /\ UNCHANGED <<state, main_wake_lock, early_suspend_lock, off, pos>>
        /\ pc[w] = "idle" /\ pc' = [pc EXCEPT ![w] = "lock"]
    BY <1>4 DEF LateStart, Goto, list_vars
  <2>2. TypeOK'
    BY <1>1, <1>2, <1>4, <2>1 DEF LateStart, TypeOK
  <2>3. MutexOK' /\ MainHeldUnlessSuspended'
    BY <1>1, <2>1 DEF MutexOK, TypeOK, MainHeldUnlessSuspended
  <2>4. ProgressOK'
    BY <1>2, <1>3, <2>1 DEF ProgressOK, Prefix
  <2> QED
    BY <1>3, <2>2, <2>3, <2>4
<1>5. CASE LateLock(w) /\ state = {SUSPENDED}
  <2>1. /\ early_suspend_lock = {} /\ early_suspend_lock' = {w}
        /\ state' = {}
        /\ pos' = [pos EXCEPT ![w] = N]
        /\ pc[w] = "lock" /\ pc' = [pc EXCEPT ![w] = "walk"]
        /\ UNCHANGED <<request_vars, main_wake_lock, off>>
    BY <1>5 DEF LateLock, Goto, list_vars, N
  <2>2. TypeOK'
    BY <1>1, <1>2, <1>3, <2>1 DEF TypeOK, request_vars
  <2>3. MainHeldUnlessSuspended'
    <3>1. state # SUSPEND_REQUESTED_AND_SUSPENDED
      BY <1>5 DEF SUSPEND_REQUESTED_AND_SUSPENDED, SUSPENDED, SUSPEND_REQUESTED
    <3> QED
      BY <2>1, <3>1 DEF MainHeldUnlessSuspended
  <2>4. MutexOK'
    BY <1>1, <2>1 DEF MutexOK, TypeOK
  <2>5. off = Prefix(N)
    BY <1>3, <1>5, <2>1 DEF ProgressOK
  <2>6. SUSPENDED \notin state' /\ pos'[w] = N /\ N \in 0 .. N
    BY <1>1, <1>3, <2>1 DEF TypeOK
  <2>7. ProgressOK'
    BY <1>1, <1>2, <1>3, <2>1, <2>5, <2>6 DEF ProgressOK, Prefix
  <2> QED
    BY <1>3, <2>2, <2>3, <2>4, <2>7
<1>6. CASE LateLock(w) /\ state # {SUSPENDED}
  <2>1. /\ pc[w] = "lock" /\ pc' = [pc EXCEPT ![w] = "idle"]
        /\ UNCHANGED <<state, early_suspend_lock, pos, request_vars, main_wake_lock, off>>
    BY <1>6 DEF LateLock, Goto, list_vars
  <2>2. TypeOK' /\ MainHeldUnlessSuspended'
    BY <1>1, <1>2, <2>1 DEF TypeOK, request_vars, MainHeldUnlessSuspended
  <2>3. MutexOK'
    BY <1>1, <2>1 DEF MutexOK, TypeOK
  <2>4. ProgressOK'
    BY <1>2, <1>3, <2>1 DEF ProgressOK, Prefix
  <2> QED
    BY <1>3, <2>2, <2>3, <2>4
<1>7. CASE LateCall(w)
  <2>1. /\ pc[w] = "walk" /\ pos[w] > 0
        /\ off' = off \ {early_suspend_handlers[pos[w]]}
        /\ pos' = [pos EXCEPT ![w] = @ - 1]
        /\ UNCHANGED <<state, request_vars, main_wake_lock, early_suspend_lock, pc>>
    BY <1>7 DEF LateCall
  <2>2. early_suspend_lock = {w}
    BY <1>1, <2>1 DEF MutexOK
  <2>3. SUSPENDED \notin state /\ pos[w] \in 0 .. N /\ off = Prefix(pos[w])
    BY <2>2 DEF ProgressOK
  <2>4. pos[w] \in 1 .. N /\ pos'[w] = pos[w] - 1 /\ pos'[w] \in 0 .. N /\ pos'[w] \in Nat
    BY <1>1, <1>3, <2>1, <2>3 DEF TypeOK
  <2>5. off' = {early_suspend_handlers[i] : i \in 1 .. pos[w] - 1}
    <3>1. 1 .. pos[w] = (1 .. pos[w] - 1) \cup {pos[w]} /\ pos[w] \notin 1 .. pos[w] - 1
      BY <1>3, <2>4
    <3>2. \A i \in 1 .. pos[w] - 1 : i \in 1 .. N
      BY <1>3, <2>4
    <3>3. \A i \in 1 .. pos[w] - 1 :
            early_suspend_handlers[i] # early_suspend_handlers[pos[w]]
      BY <2>4, <3>1, <3>2 DEF ListOK
    <3> QED
      BY <2>1, <2>3, <3>1, <3>3 DEF Prefix
  <2>6. TypeOK'
    BY <1>1, <1>2, <2>1, <2>4 DEF TypeOK, request_vars
  <2>7. MainHeldUnlessSuspended' /\ MutexOK'
    BY <2>1 DEF MainHeldUnlessSuspended, MutexOK
  <2>8. ProgressOK'
    BY <1>1, <1>2, <1>3, <2>1, <2>2, <2>3, <2>4, <2>5 DEF ProgressOK, Prefix
  <2> QED
    BY <1>3, <2>6, <2>7, <2>8
<1>8. CASE LateDone(w)
  <2>1. /\ pc[w] = "walk" /\ pos[w] = 0 /\ pc' = [pc EXCEPT ![w] = "idle"]
        /\ early_suspend_lock' = {}
        /\ UNCHANGED <<state, request_vars, main_wake_lock, off, pos>>
    BY <1>8 DEF LateDone, Goto, list_vars
  <2>2. early_suspend_lock = {w}
    BY <1>1, <2>1 DEF MutexOK
  <2>3. SUSPENDED \notin state /\ off = {}
    BY <1>3, <2>1, <2>2 DEF ProgressOK
  <2>4. TypeOK' /\ MainHeldUnlessSuspended'
    BY <1>1, <1>2, <2>1 DEF TypeOK, request_vars, MainHeldUnlessSuspended
  <2>5. MutexOK'
    BY <1>1, <2>1, <2>2 DEF MutexOK, TypeOK
  <2>6. ProgressOK'
    BY <2>1, <2>3 DEF ProgressOK
  <2> QED
    BY <1>3, <2>4, <2>5, <2>6
<1> QED
  BY <1>4, <1>5, <1>6, <1>7, <1>8 DEF late_resume

-----------------------------------------------------------------------------
\* Every step preserves IInv.
LEMMA NextIInv == IInv /\ [Next]_vars => IInv'
<1> SUFFICES ASSUME IInv, [Next]_vars PROVE IInv'
  OBVIOUS
<1>1. CASE Drivers
  BY <1>1, DriverStep DEF Drivers
<1>2. CASE User
  BY <1>2, RequestStep DEF User
<1>3. CASE Early
  BY <1>3, EarlyStep DEF Early
<1>4. CASE Late
  BY <1>4, LateStep DEF Late
<1>5. CASE UNCHANGED vars
  BY <1>5 DEF IInv, TypeOK, MainHeldUnlessSuspended, MutexOK, ListOK, ProgressOK,
     Registered, Prefix, N, vars
<1> QED
  BY <1>1, <1>2, <1>3, <1>4, <1>5 DEF Next

\* In the middle of a walk, too, the suspended handlers are those of the
\* lowest levels.
LEMMA IInvLevelOrder == IInv => LevelOrder
<1> SUFFICES ASSUME IInv, NEW g \in Registered, NEW h \in Registered,
                    h \in off, level[g] < level[h]
             PROVE  g \in off \/ early_suspend_lock = {g}
  BY DEF LevelOrder
<1>1. N \in Nat /\ Registered = Prefix(N)
  BY DEF IInv, TypeOK, N, Registered, Prefix
<1>2. ASSUME NEW n \in 0 .. N, off = Prefix(n) PROVE g \in off
  <2>1. PICK i \in 1 .. n : h = early_suspend_handlers[i]
    BY <1>2 DEF Prefix
  <2>2. PICK j \in 1 .. N : g = early_suspend_handlers[j]
    BY <1>1 DEF Prefix
  <2>3. i \in 1 .. N
    BY <1>1
  <2>4. level[g] \in Nat /\ level[h] \in Nat
    BY <2>1, <2>2, <2>3, HandlersAssumption DEF IInv, TypeOK, N
  <2>5. ~ (i < j) /\ i # j
    <3>1. i < j => level[h] <= level[g]
      BY <2>1, <2>2, <2>3 DEF IInv, ListOK
    <3> QED
      BY <2>1, <2>2, <2>4, <3>1
  <2>6. j \in 1 .. n
    BY <1>1, <2>5
  <2> QED
    BY <1>2, <2>2, <2>6 DEF Prefix
<1>3. CASE early_suspend_lock = {}
  BY <1>3 DEF IInv, ProgressOK
<1>4. CASE early_suspend_lock # {}
  <2>1. PICK t \in early_suspend_lock : early_suspend_lock = {t}
    BY <1>4 DEF IInv, MutexOK
  <2>2. t \in EarlyWorkers \/ t \in LateWorkers \/ t \in Handlers
    BY DEF IInv, TypeOK, Threads
  <2>3. CASE t \in EarlyWorkers
    <3>1. pos[t] \in 1 .. N + 1 /\ off = Prefix(pos[t] - 1)
      BY <2>3 DEF IInv, ProgressOK
    <3>2. pos[t] - 1 \in 0 .. N
      BY <1>1, <3>1
    <3> QED
      BY <1>2, <3>1, <3>2
  <2>4. CASE t \in LateWorkers
    BY <1>2, <2>4 DEF IInv, ProgressOK
  <2>5. CASE t \in Handlers
    <3>1. off = Registered \ {t}
      BY <2>5 DEF IInv, ProgressOK
    <3> QED
      BY <2>1, <3>1
  <2> QED
    BY <2>2, <2>3, <2>4, <2>5
<1> QED
  BY <1>3, <1>4

\* The early suspend state stays typed.
THEOREM TypeCorrect == Spec => []TypeOK
<1>1. IInv => TypeOK
  BY DEF IInv
<1> QED
  BY <1>1, InitIInv, NextIInv, PTL DEF Spec

\* The main wake lock is free only while state is
\* SUSPEND_REQUESTED_AND_SUSPENDED, for any number of concurrent work items.
THEOREM MainLock == Spec => []MainHeldUnlessSuspended
<1>1. IInv => MainHeldUnlessSuspended
  BY DEF IInv
<1> QED
  BY <1>1, InitIInv, NextIInv, PTL DEF Spec

\* With early_suspend_lock free, SUSPENDED tells the state of every handler.
THEOREM HandlersFollowState == Spec => []HandlersMatchState
<1>1. IInv => HandlersMatchState
  BY DEF IInv, ProgressOK, HandlersMatchState
<1> QED
  BY <1>1, InitIInv, NextIInv, PTL DEF Spec

\* The level order that earlysuspend.h documents, for any handlers and levels.
THEOREM LevelsRespected == Spec => []LevelOrder
  BY InitIInv, NextIInv, IInvLevelOrder, PTL DEF Spec

-----------------------------------------------------------------------------
(* The main lock and the handlers.                                         *)

OneEarlyWorker == \A v, w \in EarlyWorkers : v = w

\* If early_suspend() runs on one CPU at a time, its worker does not walk the
\* list with the main lock dropped.
WalkHoldsMain == OneEarlyWorker => \A w \in EarlyWorkers : pc[w] = "walk" => main_wake_lock

\* So the main lock is dropped only after every registered handler was called.
\* With two CPUs an instance that is late in sys_sync may drop it while the
\* other one calls the handlers for a newer request.
HandlersBeforeUnlock ==
  (\A v, w \in EarlyWorkers : v = w) =>
    (~main_wake_lock => \A h \in Registered : h \in off \/ early_suspend_lock = {h})

LEMMA NextWalkHoldsMain ==
  ASSUME IInv, WalkHoldsMain, [Next]_vars
  PROVE  WalkHoldsMain'
<1> SUFFICES ASSUME OneEarlyWorker, NEW w \in EarlyWorkers, pc'[w] = "walk"
             PROVE  main_wake_lock'
  BY DEF WalkHoldsMain, OneEarlyWorker
<1>0. w \in Threads /\ pc \in [Threads -> {"idle", "lock", "walk", "unlock"}] /\ LateWorkers \subseteq Threads
      /\ w \notin LateWorkers
  BY ThreadsAssumption DEF Threads, IInv, TypeOK
<1>1. CASE Drivers \/ UNCHANGED vars
  <2>1. UNCHANGED <<pc, main_wake_lock>>
    BY <1>1 DEF Drivers, register_early_suspend, RegisterCall, unregister_early_suspend, vars
  <2> QED
    BY <2>1 DEF WalkHoldsMain
<1>2. CASE User
  <2>1. UNCHANGED pc /\ (main_wake_lock' = TRUE \/ UNCHANGED main_wake_lock)
    BY <1>2 DEF User, request_suspend_state
  <2> QED
    BY <2>1 DEF WalkHoldsMain
<1>3. CASE Late
  <2>1. UNCHANGED main_wake_lock
    BY <1>3 DEF Late, LateStart, late_resume, LateLock, LateCall, LateDone
  <2>2. pc'[w] = pc[w]
    BY <1>0, <1>3 DEF Late, LateStart, late_resume, LateLock, LateCall, LateDone, Goto
  <2> QED
    BY <2>1, <2>2 DEF WalkHoldsMain
<1>4. CASE Early
  <2>1. EarlyStart(w) \/ EarlyLock(w) \/ EarlyCall(w) \/ EarlyDone(w) \/ EarlyUnlock(w)
    BY <1>4 DEF Early, early_suspend, OneEarlyWorker
  <2>2. CASE EarlyStart(w) \/ EarlyDone(w) \/ EarlyUnlock(w)
    BY <1>0, <2>2 DEF EarlyStart, EarlyDone, EarlyUnlock, Goto
  <2>3. CASE EarlyLock(w)
    <3>1. state = {SUSPEND_REQUESTED} /\ UNCHANGED main_wake_lock
      BY <1>0, <2>3 DEF EarlyLock, Goto
    <3>2. state # SUSPEND_REQUESTED_AND_SUSPENDED
      BY <3>1 DEF SUSPEND_REQUESTED, SUSPENDED, SUSPEND_REQUESTED_AND_SUSPENDED
    <3> QED
      BY <3>1, <3>2 DEF IInv, MainHeldUnlessSuspended
  <2>4. CASE EarlyCall(w)
    BY <2>4 DEF EarlyCall, WalkHoldsMain
  <2> QED
    BY <2>1, <2>2, <2>3, <2>4
<1> QED
  BY <1>1, <1>2, <1>3, <1>4 DEF Next

LEMMA InvHandlersBeforeUnlock ==
  ASSUME IInv, WalkHoldsMain
  PROVE  HandlersBeforeUnlock
<1> SUFFICES ASSUME OneEarlyWorker, ~main_wake_lock, NEW h \in Registered
             PROVE  h \in off \/ early_suspend_lock = {h}
  BY DEF HandlersBeforeUnlock, OneEarlyWorker
<1>1. SUSPENDED \in state
  BY DEF IInv, MainHeldUnlessSuspended, SUSPEND_REQUESTED_AND_SUSPENDED
<1>2. CASE early_suspend_lock = {}
  BY <1>1, <1>2 DEF IInv, ProgressOK
<1>3. CASE early_suspend_lock # {}
  <2>1. PICK t \in early_suspend_lock : early_suspend_lock = {t}
    BY <1>3 DEF IInv, MutexOK
  <2>2. t \in EarlyWorkers \/ t \in LateWorkers \/ t \in Handlers
    BY DEF IInv, TypeOK, Threads
  <2>3. t \notin EarlyWorkers
    BY DEF IInv, MutexOK, WalkHoldsMain, Threads
  <2>4. t \notin LateWorkers
    BY <1>1 DEF IInv, ProgressOK
  <2>5. off = Registered \ {t}
    BY <2>2, <2>3, <2>4 DEF IInv, ProgressOK
  <2> QED
    BY <2>1, <2>5
<1> QED
  BY <1>2, <1>3

LEMMA InitWalkHoldsMain == Init => WalkHoldsMain
BY DEF Init, WalkHoldsMain, Threads

-----------------------------------------------------------------------------
(* The composition with the handler that stops the drawing.                *)

LEMMA DisplayStepsEarlySuspend ==
  ASSUME [DisplayNext]_all_vars
  PROVE  [Next]_vars
<1>1. CASE StopCall \/ StopRun \/ StartCall \/ StartRun \/ Draw \/ Signal
  BY <1>1 DEF StopCall, StopRun, StartCall, StartRun, Draw, Signal
<1>2. CASE \E w \in EarlyWorkers : DisplayEarly(w)
  BY <1>2 DEF DisplayEarly, Next, Early
<1>3. CASE \E w \in LateWorkers : DisplayLate(w)
  BY <1>3 DEF DisplayLate, Next, Late
<1>4. CASE \E h \in Handlers : DisplayRegister(h)
  BY <1>4 DEF DisplayRegister, Next, Drivers
<1>5. CASE DisplayDrivers
  BY <1>5 DEF DisplayDrivers, Next, Drivers
<1>6. CASE WorkStart
  BY <1>6 DEF WorkStart, Next, Early, Late
<1>7. CASE Request
  BY <1>7 DEF Request, Next
<1>8. CASE UNCHANGED all_vars
  BY <1>8 DEF all_vars
<1> QED
  BY <1>1, <1>2, <1>3, <1>4, <1>5, <1>6, <1>7, <1>8 DEF DisplayNext

LEMMA DisplayStepsFb ==
  ASSUME [DisplayNext]_all_vars
  PROVE  [Fb!Next]_display_vars
<1>1. CASE StopCall \/ StopRun
  BY <1>1 DEF StopCall, StopRun, Fb!Next, Fb!stop_drawing_early_suspend
<1>2. CASE StartCall \/ StartRun
  BY <1>2 DEF StartCall, StartRun, Fb!Next, Fb!start_drawing_late_resume
<1>3. CASE Draw \/ Signal
  BY <1>3 DEF Draw, Signal, Fb!Next, Fb!wait_for_fb_sleep_show, Fb!wait_for_fb_wake_show
<1>4. CASE \/ \E w \in EarlyWorkers : DisplayEarly(w)
           \/ \E w \in LateWorkers : DisplayLate(w)
           \/ \E h \in Handlers : DisplayRegister(h)
           \/ DisplayDrivers \/ WorkStart \/ Request
  BY <1>4 DEF DisplayEarly, DisplayLate, DisplayRegister, DisplayDrivers, WorkStart, Request
<1>5. CASE UNCHANGED all_vars
  BY <1>5 DEF all_vars
<1> QED
  BY <1>1, <1>2, <1>3, <1>4, <1>5 DEF DisplayNext

\* The composition implements early suspend, whatever the handler does ...
THEOREM ImplementsEarlySuspend == DisplaySpec => Spec
<1>1. DisplayInit => Init
  BY DEF DisplayInit
<1> QED
  BY <1>1, DisplayStepsEarlySuspend, PTL DEF DisplaySpec, Spec

\* ... and the handler on its own, whoever calls it.
THEOREM ImplementsFbEarlySuspend == DisplaySpec => Fb!Spec
<1>1. DisplayInit => Fb!Init
  BY DEF DisplayInit
<1>2. [DisplayNext]_all_vars => [Fb!Next]_(Fb!vars)
  BY DisplayStepsFb DEF Fb!vars, display_vars
<1> QED
  BY <1>1, <1>2, PTL DEF DisplaySpec, Fb!Spec

\* The handler and user space: an answered request stands until the handler
\* is called again, and nobody draws meanwhile.
FbInv ==
  /\ Fb!TypeOK /\ Fb!NoLostWakeup
  /\ fb_state = "STOPPED_DRAWING" => ~Fb!Drawing
  /\ handler = "stopped" => fb_state = "STOPPED_DRAWING"

LEMMA FbStopStep ==
  ASSUME FbInv, Fb!stop_drawing_early_suspend \/ Fb!start_drawing_late_resume
  PROVE  FbInv'
<1> USE DEF FbInv, Fb!TypeOK, Fb!NoLostWakeup, Fb!HandlerLabel, Fb!UserLabel, Fb!Drawing, Fb!StopDone,
        Fb!wake_up, Fb!prepare_to_wait, Fb!finish_wait
<1>1. CASE Fb!StopRequest
  BY <1>1 DEF Fb!StopRequest
<1>2. CASE Fb!StopWake
  BY <1>2 DEF Fb!StopWake
<1>3. CASE Fb!StopPrepare
  BY <1>3 DEF Fb!StopPrepare
<1>4. CASE Fb!StopTest
  BY <1>4 DEF Fb!StopTest
<1>5. CASE Fb!StopWoken
  BY <1>5 DEF Fb!StopWoken
<1>6. CASE Fb!StopTimeout
  BY <1>6 DEF Fb!StopTimeout
<1>7. CASE Fb!StopCheck
  BY <1>7 DEF Fb!StopCheck
<1>8. CASE Fb!StartDrawing
  BY <1>8 DEF Fb!StartDrawing
<1>9. CASE Fb!StartWake
  BY <1>9 DEF Fb!StartWake
<1> QED
  BY <1>1, <1>2, <1>3, <1>4, <1>5, <1>6, <1>7, <1>8, <1>9
  DEF Fb!stop_drawing_early_suspend, Fb!StopWait, Fb!start_drawing_late_resume

LEMMA FbShowStep ==
  ASSUME FbInv, Fb!wait_for_fb_sleep_show \/ Fb!wait_for_fb_wake_show
  PROVE  FbInv'
<1> USE DEF FbInv, Fb!TypeOK, Fb!NoLostWakeup, Fb!HandlerLabel, Fb!UserLabel, Fb!Drawing, Fb!StopDone,
        Fb!Awake, Fb!wake_up, Fb!prepare_to_wait, Fb!finish_wait
<1>1. CASE Fb!SleepEnter
  BY <1>1 DEF Fb!SleepEnter
<1>2. CASE Fb!SleepPrepare
  BY <1>2 DEF Fb!SleepPrepare
<1>3. CASE Fb!SleepTest
  BY <1>3 DEF Fb!SleepTest
<1>4. CASE Fb!SleepWoken
  BY <1>4 DEF Fb!SleepWoken
<1>5. CASE Fb!SleepSignalled
  BY <1>5 DEF Fb!SleepSignalled
<1>6. CASE Fb!SleepSignal
  BY <1>6 DEF Fb!SleepSignal
<1>7. CASE Fb!WakeEnter
  BY <1>7 DEF Fb!WakeEnter
<1>8. CASE Fb!WakePrepare
  BY <1>8 DEF Fb!WakePrepare
<1>9. CASE Fb!WakeTest
  BY <1>9 DEF Fb!WakeTest
<1>10. CASE Fb!WakeWoken
  BY <1>10 DEF Fb!WakeWoken
<1>11. CASE Fb!WakeSignalled
  BY <1>11 DEF Fb!WakeSignalled
<1>12. CASE Fb!WakeSignal
  BY <1>12 DEF Fb!WakeSignal
<1> QED
  BY <1>1, <1>2, <1>3, <1>4, <1>5, <1>6, <1>7, <1>8, <1>9, <1>10, <1>11, <1>12
  DEF Fb!wait_for_fb_sleep_show, Fb!SleepRun, Fb!wait_for_fb_wake_show, Fb!WakeRun

LEMMA InitFbInv == Fb!Init => FbInv
BY DEF Fb!Init, FbInv, Fb!TypeOK, Fb!NoLostWakeup, Fb!HandlerLabel, Fb!UserLabel, Fb!Drawing, Fb!StopDone

LEMMA NextFbInv == FbInv /\ [Fb!Next]_display_vars => FbInv'
<1>1. ASSUME FbInv, Fb!Next PROVE FbInv'
  BY <1>1, FbStopStep, FbShowStep DEF Fb!Next
<1>2. ASSUME FbInv, UNCHANGED display_vars PROVE FbInv'
  BY <1>2 DEF FbInv, Fb!TypeOK, Fb!NoLostWakeup, Fb!Drawing, Fb!StopDone, display_vars
<1> QED
  BY <1>1, <1>2

\* Nobody sleeps on fb_state_wq while what it waits for holds, neither the
\* handler nor the reads of wait_for_fb_sleep and wait_for_fb_wake.
THEOREM WakeupsNotLost == DisplaySpec => []NoLostWakeup
<1>1. IInv /\ FbInv => NoLostWakeup
  BY DEF IInv, FbInv, NoLostWakeup, DisplayTypeOK
<1>2. DisplaySpec => []IInv
  BY ImplementsEarlySuspend, InitIInv, NextIInv, PTL DEF Spec
<1>3. DisplaySpec => []FbInv
  BY InitFbInv, NextFbInv, DisplayStepsFb, PTL DEF DisplaySpec, DisplayInit
<1> QED
  BY <1>1, <1>2, <1>3, PTL

-----------------------------------------------------------------------------
(* The handler and the worker that calls it.                               *)

\* Where the handler is: resumed until a worker, or its registration, is at
\* its call to suspend, and suspended until a worker is at its call to resume.
Coupled ==
  /\ stop_drawing \notin off => IF Suspending THEN handler # "resuming" ELSE handler = "resumed"
  /\ stop_drawing \in off => IF Resuming THEN handler \in {"timedout", "stopped", "resuming", "resumed"}
                             ELSE SuspendReturned

\* Whose turn it is, from who holds the mutex and how far it is.
LEMMA AtMeansLock ==
  ASSUME IInv, NEW w \in Threads, At(w)
  PROVE  early_suspend_lock = {w} /\ pos[w] \in 1 .. N
  BY DEF At, IInv, MutexOK, N

LEMMA SuspendingMeansOn ==
  ASSUME IInv, Suspending
  PROVE  stop_drawing \notin off
<1>1. CASE early_suspend_lock = {stop_drawing}
  BY <1>1, StopDrawingAssumption DEF IInv, ProgressOK
<1>2. CASE \E w \in EarlyWorkers : At(w)
  <2>1. PICK w \in EarlyWorkers : At(w)
    BY <1>2
  <2>2. early_suspend_lock = {w} /\ pos[w] \in 1 .. N /\ N \in Nat
    BY <2>1, AtMeansLock DEF Threads, IInv, TypeOK, N
  <2>3. off = Prefix(pos[w] - 1)
    BY <2>2 DEF IInv, ProgressOK
  <2>4. \A i \in 1 .. pos[w] - 1 : i \in 1 .. N /\ i # pos[w]
    BY <2>2
  <2>5. \A i \in 1 .. pos[w] - 1 : early_suspend_handlers[i] # early_suspend_handlers[pos[w]]
    BY <2>2, <2>4 DEF IInv, ListOK
  <2> QED
    BY <2>1, <2>3, <2>5 DEF Prefix, At
<1> QED
  BY <1>1, <1>2 DEF Suspending

LEMMA ResumingMeansOff ==
  ASSUME IInv, Resuming
  PROVE  stop_drawing \in off
<1>1. PICK w \in LateWorkers : At(w)
  BY DEF Resuming
<1>2. early_suspend_lock = {w} /\ pos[w] \in 1 .. N /\ N \in Nat
  BY <1>1, AtMeansLock DEF Threads, IInv, TypeOK, N
<1>3. off = Prefix(pos[w]) /\ pos[w] \in 1 .. pos[w]
  BY <1>2 DEF IInv, ProgressOK
<1> QED
  BY <1>1, <1>3 DEF Prefix, At

\* A holder of the mutex that is not at the call, or nobody.
LEMMA NobodyAtCall ==
  ASSUME IInv, early_suspend_lock # {stop_drawing},
         \A w \in Threads \cap early_suspend_lock : ~At(w)
  PROVE  ~Suspending /\ ~Resuming
<1>1. \A w \in Threads : At(w) => w \in early_suspend_lock
  BY AtMeansLock
<1> QED
  BY <1>1 DEF Suspending, Resuming, Threads

\* Nobody was at the call, and the handler was left alone.
LEMMA CoupledApart ==
  ASSUME Coupled, ~Suspending, ~Resuming, UNCHANGED handler,
         stop_drawing \in off' <=> stop_drawing \in off
  PROVE  Coupled'
<1>1. stop_drawing \notin off => handler = "resumed"
  BY DEF Coupled
<1>2. stop_drawing \in off => handler \in {"timedout", "stopped"}
  BY DEF Coupled, SuspendReturned
<1> QED
  BY <1>1, <1>2 DEF Coupled, SuspendReturned

\* Nobody moved to or from the call, and the handler was left alone.
LEMMA CoupledStill ==
  ASSUME IInv, Coupled, UNCHANGED <<handler, early_suspend_lock, early_suspend_handlers, off, pos>>,
         \A w \in Threads : pc'[w] = "walk" <=> pc[w] = "walk"
  PROVE  Coupled'
<1>1. \A w \in Threads : At(w)' <=> At(w)
  BY DEF At
<1>2. (Suspending' <=> Suspending) /\ (Resuming' <=> Resuming)
  BY <1>1 DEF Suspending, Resuming, Threads
<1>3. (stop_drawing \in off)' <=> stop_drawing \in off
  OBVIOUS
<1> QED
  BY <1>2, <1>3 DEF Coupled, SuspendReturned

LEMMA HandlerCoupled ==
  ASSUME IInv, FbInv, Coupled, StopCall \/ StopRun \/ StartCall \/ StartRun \/ Draw \/ Signal
  PROVE  Coupled'
<1>1. UNCHANGED vars
  BY DEF StopCall, StopRun, StartCall, StartRun, Draw, Signal
<1>2. (Suspending' <=> Suspending) /\ (Resuming' <=> Resuming) /\ off' = off
  BY <1>1 DEF Suspending, Resuming, At, vars
<1>3. CASE StopCall
  <2>1. Suspending /\ handler' = "wake"
    BY <1>3 DEF StopCall, Fb!StopRequest
  <2>2. stop_drawing \notin off
    BY <2>1, SuspendingMeansOn
  <2> QED
    BY <1>2, <2>1, <2>2 DEF Coupled
<1>4. CASE StopRun
  <2>1. /\ handler \in {"wake", "prepare", "test", "wait", "checked"}
        /\ handler' # "resuming"
    BY <1>4 DEF StopRun, Fb!StopWait, Fb!StopWake, Fb!StopPrepare, Fb!StopTest, Fb!StopWoken,
                Fb!StopTimeout, Fb!StopCheck
  <2>2. stop_drawing \notin off /\ Suspending
    BY <2>1 DEF Coupled, SuspendReturned
  <2> QED
    BY <1>2, <2>1, <2>2 DEF Coupled
<1>5. CASE StartCall
  <2>1. Resuming /\ handler' = "resuming"
    BY <1>5 DEF StartCall, Fb!StartDrawing
  <2>2. stop_drawing \in off
    BY <2>1, ResumingMeansOff
  <2> QED
    BY <1>2, <2>1, <2>2 DEF Coupled
<1>6. CASE StartRun
  <2>1. handler = "resuming" /\ handler' = "resumed"
    BY <1>6 DEF StartRun, Fb!StartWake
  <2>2. stop_drawing \in off /\ Resuming
    BY <2>1 DEF Coupled, SuspendReturned
  <2> QED
    BY <1>2, <2>1, <2>2 DEF Coupled
<1>7. CASE Draw \/ Signal
  <2>1. UNCHANGED handler
    BY <1>7 DEF Draw, Signal, Fb!SleepRun, Fb!WakeRun, Fb!SleepEnter, Fb!SleepPrepare, Fb!SleepTest,
       Fb!SleepWoken, Fb!SleepSignalled, Fb!SleepSignal, Fb!WakeEnter, Fb!WakePrepare, Fb!WakeTest,
       Fb!WakeWoken, Fb!WakeSignalled, Fb!WakeSignal
  <2> QED
    BY <1>1, <2>1, CoupledStill DEF vars
<1> QED
  BY <1>3, <1>4, <1>5, <1>6, <1>7

LEMMA EarlyCoupled ==
  ASSUME IInv, Coupled, NEW w \in EarlyWorkers, DisplayEarly(w)
  PROVE  Coupled'
<1>0. /\ w \in Threads /\ w # stop_drawing
      /\ pc \in [Threads -> {"idle", "lock", "walk", "unlock"}]
      /\ UNCHANGED handler
  BY ThreadsAssumption, StopDrawingAssumption DEF Threads, DisplayEarly, display_vars, IInv, TypeOK
<1>1. CASE EarlyLock(w)
  <2>1. early_suspend_lock = {} /\ UNCHANGED off
    BY <1>1 DEF EarlyLock, list_vars
  <2> QED
    BY <1>0, <2>1, NobodyAtCall, CoupledApart
<1>2. CASE EarlyCall(w)
  <2>1. /\ pc[w] = "walk" /\ pos[w] <= N
        /\ off' = off \cup {early_suspend_handlers[pos[w]]}
    BY <1>2 DEF EarlyCall, N
  <2>2. early_suspend_lock = {w}
    BY <1>0, <2>1 DEF IInv, MutexOK
  <2>3. pos[w] \in 1 .. N
    BY <2>1, <2>2 DEF IInv, ProgressOK, TypeOK, N
  <2>4. CASE At(w)
    <3>1. stop_drawing \in off' /\ handler' \in {"timedout", "stopped"}
      BY <1>0, <2>1, <2>4 DEF DisplayEarly, SuspendReturned, At
    <3> QED
      BY <3>1 DEF Coupled, SuspendReturned
  <2>5. CASE ~At(w)
    <3>1. early_suspend_handlers[pos[w]] # stop_drawing
      BY <2>1, <2>3, <2>5 DEF At, N
    <3>2. stop_drawing \in off' <=> stop_drawing \in off
      BY <2>1, <3>1
    <3> QED
      BY <1>0, <2>2, <2>5, <3>2, NobodyAtCall, CoupledApart
  <2> QED
    BY <2>4, <2>5
<1>3. CASE EarlyDone(w)
  <2>1. pc[w] = "walk" /\ pos[w] > N /\ UNCHANGED off
    BY <1>3 DEF EarlyDone, Goto, N, list_vars
  <2>2. early_suspend_lock = {w}
    BY <1>0, <2>1 DEF IInv, MutexOK
  <2>3. ~At(w)
    <3>1. N \in Nat /\ pos[w] \in Nat
      BY <1>0 DEF IInv, TypeOK, N
    <3> QED
      BY <2>1, <3>1 DEF At, N
  <2> QED
    BY <1>0, <2>1, <2>2, <2>3, NobodyAtCall, CoupledApart
<1>4. CASE EarlyUnlock(w)
  <2>1. \A v \in Threads : pc'[v] = "walk" <=> pc[v] = "walk"
    BY <1>0, <1>4 DEF EarlyUnlock, Goto
  <2> QED
    BY <1>0, <1>4, <2>1, CoupledStill DEF EarlyUnlock, list_vars
<1> QED
  BY <1>1, <1>2, <1>3, <1>4 DEF DisplayEarly, early_suspend

LEMMA LateCoupled ==
  ASSUME IInv, Coupled, NEW w \in LateWorkers, DisplayLate(w)
  PROVE  Coupled'
<1>0. w \in Threads /\ w # stop_drawing /\ UNCHANGED handler
  BY ThreadsAssumption, StopDrawingAssumption DEF Threads, DisplayLate, display_vars
<1>1. CASE LateLock(w)
  <2>1. early_suspend_lock = {} /\ UNCHANGED off
    BY <1>1 DEF LateLock, list_vars
  <2> QED
    BY <1>0, <2>1, NobodyAtCall, CoupledApart
<1>2. CASE LateCall(w)
  <2>1. /\ pc[w] = "walk" /\ pos[w] > 0
        /\ off' = off \ {early_suspend_handlers[pos[w]]}
    BY <1>2 DEF LateCall
  <2>2. early_suspend_lock = {w}
    BY <1>0, <2>1 DEF IInv, MutexOK
  <2>3. pos[w] \in 1 .. N
    BY <2>1, <2>2 DEF IInv, ProgressOK, TypeOK, N
  <2>4. CASE At(w)
    <3>1. stop_drawing \notin off' /\ handler' = "resumed"
      BY <1>0, <2>1, <2>4 DEF DisplayLate, ResumeReturned, At
    <3> QED
      BY <3>1 DEF Coupled
  <2>5. CASE ~At(w)
    <3>1. early_suspend_handlers[pos[w]] # stop_drawing
      BY <2>1, <2>3, <2>5 DEF At, N
    <3>2. stop_drawing \in off' <=> stop_drawing \in off
      BY <2>1, <3>1
    <3> QED
      BY <1>0, <2>2, <2>5, <3>2, NobodyAtCall, CoupledApart
  <2> QED
    BY <2>4, <2>5
<1>3. CASE LateDone(w)
  <2>1. pc[w] = "walk" /\ pos[w] = 0 /\ UNCHANGED off
    BY <1>3 DEF LateDone, Goto, list_vars
  <2>2. early_suspend_lock = {w}
    BY <1>0, <2>1 DEF IInv, MutexOK
  <2>3. ~At(w)
    BY <2>1 DEF At
  <2> QED
    BY <1>0, <2>1, <2>2, <2>3, NobodyAtCall, CoupledApart
<1> QED
  BY <1>1, <1>2, <1>3 DEF DisplayLate, late_resume

LEMMA OthersCoupled ==
  ASSUME IInv, Coupled,
         \/ \E h \in Handlers : DisplayRegister(h)
         \/ DisplayDrivers \/ WorkStart \/ Request \/ UNCHANGED all_vars
  PROVE  Coupled'
<1>0. /\ pc \in [Threads -> {"idle", "lock", "walk", "unlock"}]
      /\ UNCHANGED handler
  BY DEF DisplayRegister, DisplayDrivers, WorkStart, Request, all_vars, display_vars, IInv, TypeOK
<1>1. ASSUME NEW h \in Handlers, DisplayRegister(h) PROVE Coupled'
  <2>1. early_suspend_lock = {h} /\ off' = off \cup {h} /\ h \notin Threads
    BY <1>1, ThreadsAssumption DEF DisplayRegister, RegisterCall
  <2>2. CASE h = stop_drawing
    <3>1. stop_drawing \in off' /\ handler' \in {"timedout", "stopped"}
      BY <1>0, <1>1, <2>1, <2>2 DEF DisplayRegister, SuspendReturned
    <3> QED
      BY <3>1 DEF Coupled, SuspendReturned
  <2>3. CASE h # stop_drawing
    <3>1. early_suspend_lock # {stop_drawing} /\ Threads \cap early_suspend_lock = {}
      BY <2>1, <2>3
    <3>2. stop_drawing \in off' <=> stop_drawing \in off
      BY <2>1, <2>3
    <3> QED
      BY <1>0, <3>1, <3>2, NobodyAtCall, CoupledApart
  <2> QED
    BY <2>2, <2>3
<1>2. CASE DisplayDrivers
  <2>1. /\ early_suspend_lock = {}
        /\ stop_drawing \in off' <=> stop_drawing \in off
    BY <1>2 DEF DisplayDrivers, register_early_suspend, unregister_early_suspend
  <2> QED
    BY <1>0, <2>1, NobodyAtCall, CoupledApart
<1>3. CASE WorkStart
  <2>1. \A v \in Threads : pc'[v] = "walk" <=> pc[v] = "walk"
    BY <1>0, <1>3 DEF WorkStart, EarlyStart, LateStart, Goto
  <2> QED
    BY <1>0, <1>3, <2>1, CoupledStill DEF WorkStart, EarlyStart, LateStart, list_vars
<1>4. CASE Request \/ UNCHANGED all_vars
  <2>1. UNCHANGED <<early_suspend_lock, early_suspend_handlers, off, pc, pos>>
    BY <1>4 DEF Request, User, request_suspend_state, list_vars, all_vars, vars
  <2> QED
    BY <1>0, <2>1, CoupledStill
<1> QED
  BY <1>1, <1>2, <1>3, <1>4

LEMMA NextCoupled ==
  ASSUME IInv, FbInv, Coupled, [DisplayNext]_all_vars
  PROVE  Coupled'
  BY HandlerCoupled, EarlyCoupled, LateCoupled, OthersCoupled DEF DisplayNext

LEMMA InitCoupled == DisplayInit => Coupled
BY DEF DisplayInit, Init, Fb!Init, Coupled

\* A free main lock and nobody at the handlers: stop_drawing was called and it
\* returned, so that either nothing is drawn or it gave up.
LEMMA CoupledQuiet ==
  ASSUME IInv, FbInv, Coupled
  PROVE  QuietWhileStopped
<1>1. Fb!QuietWhileStopped
  BY DEF FbInv, Fb!QuietWhileStopped
<1>2. ASSUME ~main_wake_lock, early_suspend_lock = {}, stop_drawing \in Registered, Fb!Drawing
      PROVE  handler = "timedout"
  <2>1. SUSPENDED \in state
    BY <1>2 DEF IInv, MainHeldUnlessSuspended, SUSPEND_REQUESTED_AND_SUSPENDED
  <2>2. stop_drawing \in off
    BY <1>2, <2>1 DEF IInv, ProgressOK
  <2>3. ~Resuming
    <3>1. \A w \in LateWorkers : ~At(w)
      BY <2>1, AtMeansLock DEF IInv, ProgressOK, Threads
    <3> QED
      BY <3>1 DEF Resuming
  <2>4. handler \in {"timedout", "stopped"}
    BY <2>2, <2>3 DEF Coupled, SuspendReturned
  <2> QED
    BY <1>1, <1>2, <2>4 DEF Fb!QuietWhileStopped
<1> QED
  BY <1>1, <1>2 DEF QuietWhileStopped

\* On however many CPUs early_suspend() runs: nothing is drawn between the end
\* of a wait without warning and the resume, and a free main lock with nobody
\* at the handlers means that user space does not draw, unless the handler
\* gave up.
THEOREM QuietDisplay == DisplaySpec => []QuietWhileStopped
<1>1. IInv /\ FbInv /\ Coupled => QuietWhileStopped
  BY CoupledQuiet
<1>2. DisplaySpec => []IInv
  BY ImplementsEarlySuspend, InitIInv, NextIInv, PTL DEF Spec
<1>3. DisplaySpec => []FbInv
  BY InitFbInv, NextFbInv, DisplayStepsFb, PTL DEF DisplaySpec, DisplayInit
<1>4. IInv /\ FbInv /\ Coupled /\ [DisplayNext]_all_vars => Coupled'
  BY NextCoupled
<1> QED
  BY <1>1, <1>2, <1>3, <1>4, InitCoupled, PTL DEF DisplaySpec

=============================================================================
