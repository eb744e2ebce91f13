------------------------- MODULE SuspendCoreProofs --------------------------
(***************************************************************************)
(* Proofs about SuspendCore, for any set of callers and any users of wake  *)
(* locks.  The inductive invariant says what is taken away at each stage   *)
(* (DownAt), that the caller inside enter_state owns pm_mutex, and that    *)
(* once power_suspend_late has looked only locks of contexts that still    *)
(* run can be held.                                                        *)
(***************************************************************************)
EXTENDS SuspendCore, TLAPS

D0 == {}
D1 == {"console"}
D2 == {"console", "notified"}
D3 == {"console", "notified", "usermodehelper"}
D4 == {"console", "notified", "usermodehelper", "user"}
D5 == {"console", "notified", "usermodehelper", "user", "kthreads"}
D6 == {"console", "notified", "usermodehelper", "user", "kthreads", "gfp"}
D7 == D6 \cup {"printk"}
D8 == D6 \cup {"printk", "devices"}
D9 == D6 \cup {"printk", "devices", "platform"}
D10 == D6 \cup {"printk", "devices", "platform", "device_irqs"}
D11 == D10 \cup {"cpus"}
D12 == D10 \cup {"cpus", "irqs"}
D13 == D10 \cup {"cpus", "irqs", "syscore"}
D14 == D10 \cup {"cpus", "irqs", "syscore", "asleep"}

Outside == {"out", "trylock", "return"}
Inside == Stage \ Outside

\* The stages between the look at the wake locks and the wakeup.
Late == {"noirq_rest", "cpus", "irqs", "syscore", "enter", "asleep"}

\* What is taken away when the owner of pm_mutex is at stage s.
DownAt(s, d) ==
  /\ s \in {"prepare", "unlock"} => d = D0
  /\ s \in {"notify", "restore_console"} => d = D1
  /\ s \in {"usermodehelper", "post"} => d = D2
  /\ s \in {"freeze_user", "usermodehelper_enable"} => d = D3
  /\ s = "freeze_tasks" => d = D4
  /\ s = "suspend_devices" => d = D5
  /\ s = "thaw" => d \in {D3, D4, D5}
  /\ s = "thaw_user" => d \in {D3, D4}
  /\ s = "restore_gfp" => d = D6
  /\ s = "resume_console" => d = D7
  /\ s \in {"platform_prepare", "resume_devices"} => d = D8
  /\ s \in {"device_irqs", "platform_finish"} => d = D9
  /\ s \in {"noirq", "power_suspend_late", "noirq_rest", "cpus", "platform_wake",
            "noirq_undo"} => d = D10
  /\ s \in {"irqs", "enable_cpus"} => d = D11
  /\ s \in {"syscore", "irqs_on"} => d = D12
  /\ s \in {"enter", "syscore_resume"} => d = D13
  /\ s = "asleep" => d = D14

OwnerInside ==
  /\ pm_mutex = {} => down = {}
  /\ \A w \in Callers : at[w] \in Inside => pm_mutex = {w} /\ DownAt(at[w], down)
  /\ pm_mutex # {} => \E w \in Callers : pm_mutex = {w} /\ at[w] \in Inside

LateHolders ==
  \A w \in Callers : at[w] \in Late => \A o \in held : context[o] = "nofreeze"

IInv == TypeOK /\ OwnerInside /\ LateHolders

-----------------------------------------------------------------------------
(* What is taken away is the first part of Order.                          *)

\* Each of the sets above is a prefix of the order in which enter_state takes
\* things away.
LEMMA PrefixesOfOrder ==
  /\ First(0) = D0 /\ First(1) = D1 /\ First(2) = D2 /\ First(3) = D3
  /\ First(4) = D4 /\ First(5) = D5 /\ First(6) = D6 /\ First(7) = D7
  /\ First(8) = D8 /\ First(9) = D9 /\ First(10) = D10 /\ First(11) = D11
  /\ First(12) = D12 /\ First(13) = D13 /\ First(14) = D14
<1> DEFINE O(i) == Order[i]
<1>1. /\ O(1) = "console" /\ O(2) = "notified" /\ O(3) = "usermodehelper"
      /\ O(4) = "user" /\ O(5) = "kthreads" /\ O(6) = "gfp" /\ O(7) = "printk"
      /\ O(8) = "devices" /\ O(9) = "platform" /\ O(10) = "device_irqs"
      /\ O(11) = "cpus" /\ O(12) = "irqs" /\ O(13) = "syscore" /\ O(14) = "asleep"
  BY DEF Order
<1>2. \A n \in Nat : First(n) = {O(i) : i \in 1 .. n}
  BY DEF First
<1> HIDE DEF O
<1>3. First(0) = {}
  BY <1>2
<1>4. \A n \in Nat : First(n + 1) = First(n) \cup {O(n + 1)}
  <2> SUFFICES ASSUME NEW n \in Nat PROVE First(n + 1) = First(n) \cup {O(n + 1)}
    OBVIOUS
  <2>1. First(n + 1) = {O(i) : i \in 1 .. n + 1} /\ First(n) = {O(i) : i \in 1 .. n}
    BY <1>2
  <2>2. 1 .. n + 1 = (1 .. n) \cup {n + 1}
    OBVIOUS
  <2> QED BY <2>1, <2>2
<1>5. /\ First(1) = First(0) \cup {O(1)} /\ First(2) = First(1) \cup {O(2)}
      /\ First(3) = First(2) \cup {O(3)} /\ First(4) = First(3) \cup {O(4)}
      /\ First(5) = First(4) \cup {O(5)} /\ First(6) = First(5) \cup {O(6)}
      /\ First(7) = First(6) \cup {O(7)}
  BY <1>4, 0 + 1 = 1, 1 + 1 = 2, 2 + 1 = 3, 3 + 1 = 4, 4 + 1 = 5, 5 + 1 = 6, 6 + 1 = 7
<1>6. /\ First(8) = First(7) \cup {O(8)} /\ First(9) = First(8) \cup {O(9)}
      /\ First(10) = First(9) \cup {O(10)} /\ First(11) = First(10) \cup {O(11)}
      /\ First(12) = First(11) \cup {O(12)} /\ First(13) = First(12) \cup {O(13)}
      /\ First(14) = First(13) \cup {O(14)}
  BY <1>4, 7 + 1 = 8, 8 + 1 = 9, 9 + 1 = 10, 10 + 1 = 11, 11 + 1 = 12, 12 + 1 = 13, 13 + 1 = 14
<1>7. /\ First(0) = D0 /\ First(1) = D1 /\ First(2) = D2 /\ First(3) = D3
      /\ First(4) = D4 /\ First(5) = D5 /\ First(6) = D6
  <2>1. First(0) = D0 /\ First(1) = D1 /\ First(2) = D2
    BY <1>1, <1>3, <1>5 DEF D0, D1, D2
  <2>2. First(3) = D3 /\ First(4) = D4
    BY <1>1, <1>5, <2>1 DEF D2, D3, D4
  <2>3. First(5) = D5 /\ First(6) = D6
    BY <1>1, <1>5, <2>2 DEF D4, D5, D6
  <2> QED BY <2>1, <2>2, <2>3
<1>8. First(7) = D7 /\ First(8) = D8 /\ First(9) = D9 /\ First(10) = D10
  BY <1>1, <1>5, <1>6, <1>7 DEF D7, D8, D9, D10
<1>9. First(11) = D11 /\ First(12) = D12 /\ First(13) = D13 /\ First(14) = D14
  BY <1>1, <1>6, <1>8 DEF D11, D12, D13, D14
<1> QED BY <1>7, <1>8, <1>9

\* All fourteen things, as they are taken away in suspend_enter.
LEMMA AllOfOrder == First(Len(Order)) = D14
<1>1. Len(Order) = 14
  BY DEF Order
<1> QED BY <1>1, PrefixesOfOrder

\* What each stage takes away.
LEMMA Taking ==
  /\ D0 \cup {"console"} = D1
  /\ D1 \cup {"notified"} = D2
  /\ D2 \cup {"usermodehelper"} = D3
  /\ D3 \cup {"user"} = D4
  /\ D4 \cup {"kthreads"} = D5
  /\ D5 \cup {"gfp", "printk", "devices"} = D8
  /\ D8 \cup {"platform"} = D9
  /\ D9 \cup {"device_irqs"} = D10
  /\ D10 \cup {"cpus"} = D11
  /\ D11 \cup {"irqs"} = D12
  /\ D12 \cup {"syscore"} = D13
  /\ D13 \cup {"asleep"} = D14
<1>1. /\ D0 \cup {"console"} = D1 /\ D1 \cup {"notified"} = D2
      /\ D2 \cup {"usermodehelper"} = D3 /\ D3 \cup {"user"} = D4
      /\ D4 \cup {"kthreads"} = D5
  BY DEF D0, D1, D2, D3, D4, D5
<1>2. D5 \cup {"gfp"} = D6
  BY DEF D5, D6
<1>3. /\ D5 \cup {"gfp", "printk", "devices"} = D8 /\ D8 \cup {"platform"} = D9
      /\ D9 \cup {"device_irqs"} = D10
  BY <1>2 DEF D8, D9, D10
<1>4. /\ D10 \cup {"cpus"} = D11 /\ D11 \cup {"irqs"} = D12
      /\ D12 \cup {"syscore"} = D13 /\ D13 \cup {"asleep"} = D14
  BY DEF D11, D12, D13, D14
<1> QED BY <1>1, <1>3, <1>4

\* What each stage of the way back gives back.
LEMMA Giving ==
  /\ D14 \ {"asleep"} = D13
  /\ D13 \ {"syscore"} = D12
  /\ D12 \ {"irqs"} = D11
  /\ D11 \ {"cpus"} = D10
  /\ D10 \ {"device_irqs"} = D9
  /\ D9 \ {"platform"} = D8
  /\ D8 \ {"devices"} = D7
  /\ D7 \ {"printk"} = D6
  /\ D6 \ {"gfp"} = D5
  /\ \A d \in {D3, D4, D5} : d \ {"kthreads"} \in {D3, D4}
  /\ \A d \in {D3, D4} : d \ {"user"} = D3
  /\ D3 \ {"usermodehelper"} = D2
  /\ D2 \ {"notified"} = D1
  /\ D1 \ {"console"} = D0
<1>1. /\ D3 \ {"usermodehelper"} = D2 /\ D2 \ {"notified"} = D1
      /\ D1 \ {"console"} = D0 /\ D6 \ {"gfp"} = D5
  BY DEF D0, D1, D2, D3, D5, D6
<1>6. D5 \ {"kthreads"} = D4 /\ D4 \ {"kthreads"} = D4 /\ D3 \ {"kthreads"} = D3
  BY DEF D3, D4, D5
<1>7. D4 \ {"user"} = D3 /\ D3 \ {"user"} = D3
  BY DEF D3, D4
<1>2. {"printk", "devices", "platform", "device_irqs", "cpus", "irqs", "syscore", "asleep"}
         \cap D6 = {}
  BY DEF D6
<1>3. /\ D10 \ {"device_irqs"} = D9 /\ D9 \ {"platform"} = D8
      /\ D8 \ {"devices"} = D7 /\ D7 \ {"printk"} = D6
  BY <1>2 DEF D7, D8, D9, D10
<1>4. {"cpus", "irqs", "syscore", "asleep"} \cap D10 = {}
  BY <1>2 DEF D10
<1>5. /\ D14 \ {"asleep"} = D13 /\ D13 \ {"syscore"} = D12
      /\ D12 \ {"irqs"} = D11 /\ D11 \ {"cpus"} = D10
  BY <1>4 DEF D11, D12, D13, D14
<1> QED BY <1>1, <1>3, <1>5, <1>6, <1>7

\* What the sets contain, as far as the invariants need it.
LEMMA Contents ==
  /\ \A d \in {D0, D1, D2, D3, D4, D5, D6, D7, D8, D9, D10, D11, D12, D13} :
       "asleep" \notin d /\ d \subseteq D14
  /\ \A d \in {D10, D11, D12, D13, D14} : {"user", "kthreads", "device_irqs"} \subseteq d
<1>1. D6 \subseteq D10 /\ "asleep" \notin D10 /\ "asleep" \notin D6
      /\ {"user", "kthreads"} \subseteq D6 /\ "device_irqs" \in D10
  BY DEF D6, D10
<1>2. \A d \in {D0, D1, D2, D3, D4, D5, D6} : d \subseteq D6
  BY DEF D0, D1, D2, D3, D4, D5, D6
<1>3. \A d \in {D7, D8, D9, D10} : d \subseteq D10
  BY <1>1 DEF D7, D8, D9, D10
<1>4. \A d \in {D10, D11, D12, D13} : D10 \subseteq d /\ d \subseteq D14 /\ "asleep" \notin d
  BY <1>1 DEF D11, D12, D13, D14
<1>5. D10 \subseteq D14
  BY DEF D14
<1>6. \A d \in {D10, D11, D12, D13, D14} : {"user", "kthreads", "device_irqs"} \subseteq d
  BY <1>1, <1>4, <1>5
<1>7. \A d \in {D0, D1, D2, D3, D4, D5, D6, D7, D8, D9} : "asleep" \notin d /\ d \subseteq D14
  BY <1>1, <1>2, <1>3, <1>5
<1> QED BY <1>4, <1>6, <1>7

\* At every stage something is known of what is taken away, and the system
\* sleeps at one stage only.
LEMMA DownAtStage ==
  ASSUME NEW s \in Inside, NEW d, DownAt(s, d)
  PROVE  /\ d \subseteq D14
         /\ "asleep" \in d => s = "asleep"
         /\ s \in Late => {"user", "kthreads", "device_irqs"} \subseteq d
<1>1. \/ d \in {D0, D1, D2, D3, D4, D5, D6, D7, D8, D9, D10, D11, D12, D13}
      \/ s = "asleep" /\ d = D14
  BY DEF Inside, Outside, Stage, DownAt
<1>2. s \in Late => d \in {D10, D11, D12, D13, D14}
  BY DEF DownAt, Late
<1> QED BY <1>1, <1>2, Contents

-----------------------------------------------------------------------------
(* One lemma per shape of a step.                                          *)

\* A step of the caller that owns pm_mutex, from one stage of enter_state to
\* another.
LEMMA MoveInside ==
  ASSUME IInv, NEW w \in Callers, NEW s \in Inside, NEW t \in Inside,
         Goto(w, s, t), DownAt(t, down'),
         t \in Late => s \in Late \/ held = {},
         UNCHANGED locking
  PROVE  IInv'
<1> USE DEF IInv
<1>1. at' \in [Callers -> Stage] /\ at'[w] = t /\ \A v \in Callers \ {w} : at'[v] = at[v]
  BY DEF TypeOK, Goto, Inside
<1>2. at[w] = s /\ pm_mutex = {w} /\ pm_mutex' = {w} /\ held' = held
  BY DEF Goto, OwnerInside, locking
<1>3. down' \subseteq D14
  BY DownAtStage
<1>4. TypeOK'
  BY <1>1, <1>2, <1>3, AllOfOrder DEF TypeOK
<1>5. \A v \in Callers \ {w} : at'[v] \notin Inside
  BY <1>1, <1>2 DEF OwnerInside
<1>6. OwnerInside'
  BY <1>1, <1>2, <1>5 DEF OwnerInside
<1>7. Late \subseteq Inside
  BY DEF Late, Inside, Stage, Outside
<1>8. LateHolders'
  BY <1>1, <1>2, <1>5, <1>7 DEF LateHolders
<1> QED BY <1>4, <1>6, <1>8

\* A step that takes things away.
LEMMA TakeInside ==
  ASSUME IInv, NEW w \in Callers, NEW s \in Inside, NEW t \in Inside, NEW things,
         Take(w, s, things, t),
         \A d : DownAt(s, d) => DownAt(t, d \cup things),
         t \in Late => s \in Late,
         UNCHANGED locking
  PROVE  IInv'
<1>1. Goto(w, s, t) /\ down' = down \cup things
  BY DEF Take
<1>2. DownAt(s, down)
  BY <1>1 DEF IInv, OwnerInside, Goto
<1>3. DownAt(t, down')
  BY <1>1, <1>2
<1> QED BY <1>1, <1>3, MoveInside

\* A step that gives things back.
LEMMA GiveInside ==
  ASSUME IInv, NEW w \in Callers, NEW s \in Inside, NEW t \in Inside, NEW things,
         Give(w, s, things, t),
         \A d : DownAt(s, d) => DownAt(t, d \ things),
         t \in Late => s \in Late,
         UNCHANGED locking
  PROVE  IInv'
<1>1. Goto(w, s, t) /\ down' = down \ things
  BY DEF Give
<1>2. DownAt(s, down)
  BY <1>1 DEF IInv, OwnerInside, Goto
<1>3. DownAt(t, down')
  BY <1>1, <1>2
<1> QED BY <1>1, <1>3, MoveInside

\* A step that leaves everything where it is.
LEMMA StayInside ==
  ASSUME IInv, NEW w \in Callers, NEW s \in Inside, NEW t \in Inside,
         Goto(w, s, t), UNCHANGED down,
         \A d : DownAt(s, d) => DownAt(t, d),
         t \in Late => s \in Late \/ held = {},
         UNCHANGED locking
  PROVE  IInv'
<1>1. DownAt(s, down)
  BY DEF IInv, OwnerInside, Goto
<1>2. DownAt(t, down')
  BY <1>1
<1> QED BY <1>2, MoveInside

\* A step of a caller that does not own pm_mutex, before and after.
LEMMA MoveOutside ==
  ASSUME IInv, NEW w \in Callers, NEW s \in Outside, NEW t \in Outside,
         Goto(w, s, t), UNCHANGED <<locking, down>>
  PROVE  IInv'
<1> USE DEF IInv
<1>1. at' \in [Callers -> Stage] /\ at'[w] = t /\ \A v \in Callers \ {w} : at'[v] = at[v]
  BY DEF TypeOK, Goto, Outside, Stage
<1>2. at[w] = s /\ pm_mutex' = pm_mutex /\ held' = held /\ down' = down
  BY DEF Goto, locking
<1>3. s \notin Inside /\ t \notin Inside /\ Late \subseteq Inside
  BY DEF Outside, Inside, Late, Stage
<1>4. TypeOK'
  BY <1>1, <1>2 DEF TypeOK
<1>5. OwnerInside'
  BY <1>1, <1>2, <1>3 DEF OwnerInside
<1>6. LateHolders'
  BY <1>1, <1>2, <1>3 DEF LateHolders
<1> QED BY <1>4, <1>5, <1>6

-----------------------------------------------------------------------------
(* One step per action.                                                    *)

\* The stages between mutex_trylock and mutex_unlock of enter_state.
LEMMA StagesInside ==
  Inside = {"prepare", "notify", "usermodehelper", "freeze_user", "freeze_tasks",
            "suspend_devices", "platform_prepare", "device_irqs", "noirq", "power_suspend_late",
            "noirq_rest", "cpus", "irqs", "syscore", "enter", "asleep", "syscore_resume",
            "irqs_on", "enable_cpus", "platform_wake", "noirq_undo", "platform_finish",
            "resume_devices", "resume_console", "restore_gfp", "thaw", "thaw_user",
            "usermodehelper_enable", "post", "restore_console", "unlock"}
BY DEF Inside, Stage, Outside

\* suspend_prepare keeps the invariant, in success and failure.
LEMMA PrepareSteps ==
  ASSUME IInv, NEW w \in Callers, suspend_prepare(w)
  PROVE  IInv'
<1> USE StagesInside
<1>1. CASE PrepareConsole(w)
  <2>1. \A d : DownAt("prepare", d) => DownAt("notify", d \cup {"console"})
    BY Taking DEF DownAt
  <2> QED BY <1>1, <2>1, TakeInside DEF PrepareConsole, Late
<1>2. CASE NotifyPrepare(w)
  <2>1. \A d : DownAt("notify", d) =>
          DownAt("usermodehelper", d \cup {"notified"}) /\ DownAt("post", d \cup {"notified"})
    BY Taking DEF DownAt
  <2>2. CASE Take(w, "notify", {"notified"}, "usermodehelper")
    BY <1>2, <2>1, <2>2, TakeInside DEF NotifyPrepare, Late
  <2>3. CASE Take(w, "notify", {"notified"}, "post")
    BY <1>2, <2>1, <2>3, TakeInside DEF NotifyPrepare, Late
  <2> QED BY <1>2, <2>2, <2>3 DEF NotifyPrepare
<1>3. CASE UsermodehelperDisable(w)
  <2>1. \A d : DownAt("usermodehelper", d) =>
          DownAt("freeze_user", d \cup {"usermodehelper"}) /\ DownAt("post", d)
    BY Taking DEF DownAt
  <2>2. CASE Take(w, "usermodehelper", {"usermodehelper"}, "freeze_user")
    BY <1>3, <2>1, <2>2, TakeInside DEF UsermodehelperDisable, Late
  <2>3. CASE Goto(w, "usermodehelper", "post") /\ UNCHANGED down
    BY <1>3, <2>1, <2>3, StayInside DEF UsermodehelperDisable, Late
  <2> QED BY <1>3, <2>2, <2>3 DEF UsermodehelperDisable
<1>4. CASE FreezeUser(w)
  <2>1. \A d : DownAt("freeze_user", d) =>
          DownAt("freeze_tasks", d \cup {"user"}) /\ DownAt("thaw", d)
    BY Taking DEF DownAt
  <2>2. CASE Take(w, "freeze_user", {"user"}, "freeze_tasks")
    BY <1>4, <2>1, <2>2, TakeInside DEF FreezeUser, Late
  <2>3. CASE Goto(w, "freeze_user", "thaw") /\ UNCHANGED down
    BY <1>4, <2>1, <2>3, StayInside DEF FreezeUser, Late
  <2> QED BY <1>4, <2>2, <2>3 DEF FreezeUser
<1>5. CASE FreezeTasks(w)
  <2>1. \A d : DownAt("freeze_tasks", d) =>
          DownAt("suspend_devices", d \cup {"kthreads"}) /\ DownAt("thaw", d)
    BY Taking DEF DownAt
  <2>2. CASE Take(w, "freeze_tasks", {"kthreads"}, "suspend_devices")
    BY <1>5, <2>1, <2>2, TakeInside DEF FreezeTasks, Late
  <2>3. CASE Goto(w, "freeze_tasks", "thaw") /\ UNCHANGED down
    BY <1>5, <2>1, <2>3, StayInside DEF FreezeTasks, Late
  <2> QED BY <1>5, <2>2, <2>3 DEF FreezeTasks
<1> QED BY <1>1, <1>2, <1>3, <1>4, <1>5 DEF suspend_prepare

\* suspend_devices_and_enter down to the sleep keeps it.
LEMMA DownSteps ==
  ASSUME IInv, NEW w \in Callers, suspend_devices_and_enter(w)
  PROVE  IInv'
<1> USE StagesInside
<1>1. CASE SuspendDevices(w)
  <2>1. \A d : DownAt("suspend_devices", d) =>
          DownAt("platform_prepare", d \cup {"gfp", "printk", "devices"}) /\ DownAt("resume_devices", d \cup {"gfp", "printk", "devices"})
    BY Taking DEF DownAt
  <2>2. CASE Take(w, "suspend_devices", {"gfp", "printk", "devices"}, "platform_prepare")
    BY <1>1, <2>1, <2>2, TakeInside DEF SuspendDevices, Late
  <2>3. CASE Take(w, "suspend_devices", {"gfp", "printk", "devices"}, "resume_devices")
    BY <1>1, <2>1, <2>3, TakeInside DEF SuspendDevices, Late
  <2> QED BY <1>1, <2>2, <2>3 DEF SuspendDevices
<1>2. CASE PlatformPrepare(w)
  <2>1. \A d : DownAt("platform_prepare", d) => DownAt("device_irqs", d \cup {"platform"})
    BY Taking DEF DownAt
  <2> QED BY <1>2, <2>1, TakeInside DEF PlatformPrepare, Late
<1>3. CASE SuspendDeviceIrqs(w)
  <2>1. \A d : DownAt("device_irqs", d) => DownAt("noirq", d \cup {"device_irqs"})
    BY Taking DEF DownAt
  <2> QED BY <1>3, <2>1, TakeInside DEF SuspendDeviceIrqs, Late
<1>4. CASE SuspendNoirq(w)
  <2>1. \A d : DownAt("noirq", d) =>
          DownAt("power_suspend_late", d) /\ DownAt("noirq_undo", d)
    BY Taking DEF DownAt
  <2>2. CASE Goto(w, "noirq", "power_suspend_late")
    BY <1>4, <2>1, <2>2, StayInside DEF SuspendNoirq, Late
  <2>3. CASE Goto(w, "noirq", "noirq_undo")
    BY <1>4, <2>1, <2>3, StayInside DEF SuspendNoirq, Late
  <2> QED BY <1>4, <2>2, <2>3 DEF SuspendNoirq
<1>5. CASE power_suspend_late(w)
  <2>1. \A d : DownAt("power_suspend_late", d) => DownAt("noirq_rest", d) /\ DownAt("noirq_undo", d)
    BY DEF DownAt
  <2>2. CASE held = {} /\ Goto(w, "power_suspend_late", "noirq_rest")
    BY <1>5, <2>1, <2>2, StayInside DEF power_suspend_late
  <2>3. CASE held # {} /\ Goto(w, "power_suspend_late", "noirq_undo")
    BY <1>5, <2>1, <2>3, StayInside DEF power_suspend_late, Late
  <2> QED BY <1>5, <2>2, <2>3 DEF power_suspend_late
<1>6. CASE SuspendNoirqRest(w)
  <2>1. \A d : DownAt("noirq_rest", d) =>
          DownAt("cpus", d) /\ DownAt("noirq_undo", d)
    BY Taking DEF DownAt
  <2>2. CASE Goto(w, "noirq_rest", "cpus")
    BY <1>6, <2>1, <2>2, StayInside DEF SuspendNoirqRest, Late
  <2>3. CASE Goto(w, "noirq_rest", "noirq_undo")
    BY <1>6, <2>1, <2>3, StayInside DEF SuspendNoirqRest, Late
  <2> QED BY <1>6, <2>2, <2>3 DEF SuspendNoirqRest
<1>7. CASE DisableCpus(w)
  <2>1. \A d : DownAt("cpus", d) =>
          DownAt("irqs", d \cup {"cpus"}) /\ DownAt("enable_cpus", d \cup {"cpus"})
    BY Taking DEF DownAt
  <2>2. CASE Take(w, "cpus", {"cpus"}, "irqs")
    BY <1>7, <2>1, <2>2, TakeInside DEF DisableCpus, Late
  <2>3. CASE Take(w, "cpus", {"cpus"}, "enable_cpus")
    BY <1>7, <2>1, <2>3, TakeInside DEF DisableCpus, Late
  <2> QED BY <1>7, <2>2, <2>3 DEF DisableCpus
<1>8. CASE DisableIrqs(w)
  <2>1. \A d : DownAt("irqs", d) => DownAt("syscore", d \cup {"irqs"})
    BY Taking DEF DownAt
  <2> QED BY <1>8, <2>1, TakeInside DEF DisableIrqs, Late
<1>9. CASE SyscoreSuspend(w)
  <2>1. \A d : DownAt("syscore", d) =>
          DownAt("enter", d \cup {"syscore"}) /\ DownAt("irqs_on", d)
    BY Taking DEF DownAt
  <2>2. CASE Take(w, "syscore", {"syscore"}, "enter")
    BY <1>9, <2>1, <2>2, TakeInside DEF SyscoreSuspend, Late
  <2>3. CASE Goto(w, "syscore", "irqs_on") /\ UNCHANGED down
    BY <1>9, <2>1, <2>3, StayInside DEF SyscoreSuspend, Late
  <2> QED BY <1>9, <2>2, <2>3 DEF SyscoreSuspend
<1>10. CASE EnterSleep(w)
  <2>1. \A d : DownAt("enter", d) =>
          DownAt("asleep", d \cup {"asleep"}) /\ DownAt("syscore_resume", d)
    BY Taking DEF DownAt
  <2>2. CASE Take(w, "enter", {"asleep"}, "asleep")
    BY <1>10, <2>1, <2>2, TakeInside DEF EnterSleep, Late
  <2>3. CASE Goto(w, "enter", "syscore_resume") /\ UNCHANGED down
    BY <1>10, <2>1, <2>3, StayInside DEF EnterSleep, Late
  <2> QED BY <1>10, <2>2, <2>3 DEF EnterSleep
<1> QED BY <1>1, <1>2, <1>3, <1>4, <1>5, <1>6, <1>7, <1>8, <1>9, <1>10
        DEF suspend_devices_and_enter

\* The way back keeps it.
LEMMA BackSteps ==
  ASSUME IInv, NEW w \in Callers, resume(w) \/ Wake(w)
  PROVE  IInv'
<1> USE StagesInside
<1>1. CASE Wake(w)
  <2>1. \A d : DownAt("asleep", d) => DownAt("syscore_resume", d \ {"asleep"})
    BY Giving DEF DownAt
  <2> QED BY <1>1, <2>1, GiveInside DEF Wake, Late
<1>2. CASE SyscoreResume(w)
  <2>1. \A d : DownAt("syscore_resume", d) => DownAt("irqs_on", d \ {"syscore"})
    BY Giving DEF DownAt
  <2> QED BY <1>2, <2>1, GiveInside DEF SyscoreResume, Late
<1>3. CASE EnableIrqs(w)
  <2>1. \A d : DownAt("irqs_on", d) => DownAt("enable_cpus", d \ {"irqs"})
    BY Giving DEF DownAt
  <2> QED BY <1>3, <2>1, GiveInside DEF EnableIrqs, Late
<1>4. CASE EnableCpus(w)
  <2>1. \A d : DownAt("enable_cpus", d) => DownAt("platform_wake", d \ {"cpus"})
    BY Giving DEF DownAt
  <2> QED BY <1>4, <2>1, GiveInside DEF EnableCpus, Late
<1>5. CASE ResumeNoirq(w)
  <2>1. \A d : /\ DownAt("platform_wake", d) => DownAt("platform_finish", d \ {"device_irqs"})
               /\ DownAt("noirq_undo", d) => DownAt("platform_finish", d \ {"device_irqs"})
    BY Giving DEF DownAt
  <2>2. CASE Give(w, "platform_wake", {"device_irqs"}, "platform_finish")
    BY <1>5, <2>1, <2>2, GiveInside DEF ResumeNoirq, Late
  <2>3. CASE Give(w, "noirq_undo", {"device_irqs"}, "platform_finish")
    BY <1>5, <2>1, <2>3, GiveInside DEF ResumeNoirq, Late
  <2> QED BY <1>5, <2>2, <2>3 DEF ResumeNoirq
<1>6. CASE PlatformFinish(w)
  <2>1. \A d : DownAt("platform_finish", d) => DownAt("resume_devices", d \ {"platform"})
    BY Giving DEF DownAt
  <2> QED BY <1>6, <2>1, GiveInside DEF PlatformFinish, Late
<1>7. CASE ResumeDevices(w)
  <2>1. \A d : DownAt("resume_devices", d) => DownAt("resume_console", d \ {"devices"})
    BY Giving DEF DownAt
  <2> QED BY <1>7, <2>1, GiveInside DEF ResumeDevices, Late
<1>8. CASE ResumeConsole(w)
  <2>1. \A d : DownAt("resume_console", d) => DownAt("restore_gfp", d \ {"printk"})
    BY Giving DEF DownAt
  <2> QED BY <1>8, <2>1, GiveInside DEF ResumeConsole, Late
<1>9. CASE RestoreGfp(w)
  <2>1. \A d : DownAt("restore_gfp", d) => DownAt("thaw", d \ {"gfp"})
    BY Giving DEF DownAt
  <2> QED BY <1>9, <2>1, GiveInside DEF RestoreGfp, Late
<1>10. CASE ThawTasks(w)
  <2>1. \A d : DownAt("thaw", d) => DownAt("thaw_user", d \ {"kthreads"})
    BY Giving DEF DownAt
  <2> QED BY <1>10, <2>1, GiveInside DEF ThawTasks, Late
<1>11. CASE ThawUser(w)
  <2>1. \A d : DownAt("thaw_user", d) => DownAt("usermodehelper_enable", d \ {"user"})
    BY Giving DEF DownAt
  <2> QED BY <1>11, <2>1, GiveInside DEF ThawUser, Late
<1>12. CASE UsermodehelperEnable(w)
  <2>1. \A d : DownAt("usermodehelper_enable", d) => DownAt("post", d \ {"usermodehelper"})
    BY Giving DEF DownAt
  <2> QED BY <1>12, <2>1, GiveInside DEF UsermodehelperEnable, Late
<1>13. CASE NotifyPost(w)
  <2>1. \A d : DownAt("post", d) => DownAt("restore_console", d \ {"notified"})
    BY Giving DEF DownAt
  <2> QED BY <1>13, <2>1, GiveInside DEF NotifyPost, Late
<1>14. CASE RestoreConsole(w)
  <2>1. \A d : DownAt("restore_console", d) => DownAt("unlock", d \ {"console"})
    BY Giving DEF DownAt
  <2> QED BY <1>14, <2>1, GiveInside DEF RestoreConsole, Late
<1>15. CASE Unlock(w)
  <2>1. /\ at' \in [Callers -> Stage] /\ at[w] = "unlock" /\ at'[w] = "return"
        /\ \A v \in Callers \ {w} : at'[v] = at[v]
        /\ pm_mutex' = {} /\ down' = down /\ held' = held
    BY <1>15 DEF Unlock, Goto, IInv, TypeOK, Stage
  <2>2. pm_mutex = {w} /\ down = {}
    BY <2>1 DEF IInv, OwnerInside, DownAt, D0
  <2>3. \A v \in Callers : at'[v] \notin Inside
    BY <2>1, <2>2 DEF IInv, OwnerInside
  <2>4. TypeOK'
    BY <2>1 DEF IInv, TypeOK
  <2>5. OwnerInside' /\ LateHolders'
    BY <2>1, <2>2, <2>3 DEF OwnerInside, LateHolders, Late
  <2> QED BY <2>4, <2>5 DEF IInv
<1> QED BY <1>1, <1>2, <1>3, <1>4, <1>5, <1>6, <1>7, <1>8, <1>9, <1>10, <1>11, <1>12,
            <1>13, <1>14, <1>15 DEF resume

\* The steps outside pm_mutex, and the one that takes it, keep it.
LEMMA OutsideSteps ==
  ASSUME IInv, NEW w \in Callers,
         (\E state \in {"on", "mem"} : pm_suspend(w, state)) \/ TryLock(w) \/ Return(w)
  PROVE  IInv'
<1>1. CASE \E state \in {"on", "mem"} : pm_suspend(w, state)
  <2>1. \E t \in {"trylock", "return"} : Goto(w, "out", t) /\ UNCHANGED <<locking, down>>
    BY <1>1 DEF pm_suspend
  <2> QED BY <2>1, MoveOutside DEF Outside
<1>2. CASE Return(w)
  BY <1>2, MoveOutside DEF Return, Outside
<1>3. CASE pm_mutex # {} /\ TryLock(w)
  BY <1>3, MoveOutside DEF TryLock, Outside, locking
<1>4. CASE pm_mutex = {} /\ TryLock(w)
  <2>1. /\ at' \in [Callers -> Stage] /\ at'[w] = "prepare"
        /\ \A v \in Callers \ {w} : at'[v] = at[v]
        /\ pm_mutex' = {w} /\ down' = down /\ held' = held
    BY <1>4 DEF TryLock, Goto, IInv, TypeOK, Stage
  <2>2. down = {} /\ \A v \in Callers : at[v] \notin Inside
    BY <1>4 DEF IInv, OwnerInside
  <2>3. DownAt("prepare", down') /\ "prepare" \in Inside
    BY <2>1, <2>2, StagesInside DEF DownAt, D0
  <2>4. TypeOK'
    BY <2>1 DEF IInv, TypeOK
  <2>5. OwnerInside'
    BY <2>1, <2>2, <2>3 DEF OwnerInside
  <2>6. LateHolders'
    BY <2>1, <2>2, StagesInside DEF LateHolders, Late
  <2> QED BY <2>4, <2>5, <2>6 DEF IInv
<1> QED BY <1>1, <1>2, <1>3, <1>4

\* Taking a wake lock keeps it: after power_suspend_late only contexts that
\* are not frozen still run.
LEMMA AcquireStep ==
  ASSUME IInv, NEW o \in Owners, Acquire(o)
  PROVE  IInv'
<1>1. held' = held \cup {o} /\ UNCHANGED <<pm_mutex, at, down>>
  BY DEF Acquire
<1>2. TypeOK'
  BY <1>1 DEF IInv, TypeOK
<1>3. OwnerInside'
  BY <1>1 DEF IInv, OwnerInside
<1>4. ASSUME NEW w \in Callers, at[w] \in Late PROVE context[o] = "nofreeze"
  <2>1. {"user", "kthreads", "device_irqs"} \subseteq down
    BY <1>4, DownAtStage, StagesInside DEF IInv, OwnerInside, Late
  <2>2. StoppedBy(context[o]) \notin down
    BY DEF Acquire, CanRun
  <2>3. context[o] \in {"user", "kthread", "irq", "nofreeze"}
    BY OwnersAssumption DEF Contexts
  <2> QED BY <2>1, <2>2, <2>3 DEF StoppedBy
<1>5. LateHolders'
  BY <1>1, <1>4 DEF IInv, LateHolders
<1> QED BY <1>2, <1>3, <1>5 DEF IInv

-----------------------------------------------------------------------------
\* Before the first suspend nothing is taken away.
LEMMA InitInv == Init => IInv
BY StagesInside DEF Init, IInv, TypeOK, OwnerInside, LateHolders, Stage, Late

\* Every step keeps the inductive invariant.
LEMMA NextInv == IInv /\ [Next]_vars => IInv'
<1> SUFFICES ASSUME IInv, [Next]_vars PROVE IInv'
  OBVIOUS
<1>1. CASE \E w \in Callers : Caller(w)
  <2> PICK w \in Callers : Caller(w)
    BY <1>1
  <2> QED BY PrepareSteps, DownSteps, BackSteps, OutsideSteps DEF Caller, enter_state
<1>2. CASE \E o \in Owners : Acquire(o)
  BY <1>2, AcquireStep
<1>3. CASE \E R \in (SUBSET held) \ {{}} : Release(R)
  BY <1>3 DEF Release, IInv, TypeOK, OwnerInside, LateHolders
<1>4. CASE UNCHANGED vars
  BY <1>4 DEF vars, IInv, TypeOK, OwnerInside, LateHolders
<1> QED BY <1>1, <1>2, <1>3, <1>4 DEF Next

\* The inductive invariant holds in every reachable state.
LEMMA Invariance == Spec => []IInv
BY InitInv, NextInv, PTL DEF Spec

\* Whatever fails on the way down, and whoever else calls pm_suspend, things
\* are given back in the reverse order of suspend_enter and its callers.
THEOREM OrderKept == Spec => []TakenInOrder
<1>1. IInv => TakenInOrder
  <2> SUFFICES ASSUME IInv PROVE TakenInOrder
    OBVIOUS
  <2>1. Len(Order) = 14
    BY DEF Order
  <2>2. \E n \in 0 .. 14 : down = First(n)
    <3>1. CASE pm_mutex = {}
      BY <3>1, PrefixesOfOrder DEF IInv, OwnerInside, D0
    <3>2. CASE pm_mutex # {}
      <4> PICK w \in Callers : at[w] \in Inside /\ DownAt(at[w], down)
        BY <3>2 DEF IInv, OwnerInside
      <4>1. down \in {D0, D1, D2, D3, D4, D5, D6, D7, D8, D9, D10, D11, D12, D13, D14}
        BY StagesInside DEF DownAt
      <4> QED BY <4>1, PrefixesOfOrder
    <3> QED BY <3>1, <3>2
  <2> QED BY <2>1, <2>2 DEF TakenInOrder
<1> QED BY <1>1, Invariance, PTL

\* Whoever still runs in user space runs with interrupts on.
LEMMA UserDownFirst == IInv => (down \cap {"irqs", "asleep"} # {} => "user" \in down)
<1> SUFFICES ASSUME IInv, down \cap {"irqs", "asleep"} # {} PROVE "user" \in down
  OBVIOUS
<1>1. PICK w \in Callers : at[w] \in Inside /\ DownAt(at[w], down)
  BY DEF IInv, OwnerInside
<1>2. down \in {D0, D1, D2, D3, D4, D5, D6, D7, D8, D9, D10, D11, D12, D13, D14}
  BY <1>1, StagesInside DEF DownAt
<1>3. \A d \in {D0, D1, D2, D3} : d \cap {"irqs", "asleep"} = {}
  BY DEF D0, D1, D2, D3
<1>4. \A d \in {D4, D5, D6, D7, D8, D9, D10, D11, D12, D13, D14} : "user" \in d
  BY DEF D4, D5, D6, D7, D8, D9, D10, D11, D12, D13, D14
<1> QED BY <1>2, <1>3, <1>4

\* pm_mutex is never released with something still taken away, and nobody is
\* in enter_state without it.
THEOREM UnwoundAlways == Spec => []Unwound
<1>1. IInv => Unwound
  BY DEF IInv, TypeOK, OwnerInside, Unwound, Inside, Outside
<1> QED BY <1>1, Invariance, PTL

\* Whoever holds a lock in a sleeping system took it after power_suspend_late.
LEMMA AsleepHolders == IInv => AsleepWithoutLocks
<1> SUFFICES ASSUME IInv, "asleep" \in down PROVE \A o \in held : context[o] = "nofreeze"
  BY DEF AsleepWithoutLocks
<1>1. PICK w \in Callers : at[w] \in Inside /\ DownAt(at[w], down)
  BY DEF IInv, OwnerInside
<1>2. at[w] = "asleep"
  BY <1>1, DownAtStage
<1> QED BY <1>2 DEF IInv, LateHolders, Late

\* No wake lock of a task, a freezable kernel thread or an interrupt handler
\* is held while the system sleeps.
THEOREM NoLockAsleep == Spec => []AsleepWithoutLocks
BY AsleepHolders, Invariance, PTL

=============================================================================
