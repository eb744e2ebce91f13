---------------------------- MODULE UserWakeLock ----------------------------
(***************************************************************************)
(* kernel/power/userwakelock.c: /sys/power/wake_lock and wake_unlock, by   *)
(* which user space takes and drops wake locks by name, with an optional   *)
(* timeout in nanoseconds.                                                 *)
(*                                                                         *)
(* A name is its place in the dictionary; of two names we know besides     *)
(* whether one is the beginning of the other.  tree is user_wake_locks in  *)
(* order; the search goes down a tree of any shape: each comparison is     *)
(* with some node between those it has already decided on (lib/rbtree.c    *)
(* keeps the order and chooses the shape).  tree_lock is held from the     *)
(* first to the last step of a call.  As in WakeLock, expires is counted   *)
(* relative to jiffies; time passes by nanoseconds, of which phase have    *)
(* gone since the last change of jiffies.                                  *)
(***************************************************************************)
EXTENDS Integers, Sequences, SequencesExt

CONSTANTS
  Names,            \* names that user space uses: places in the dictionary
  Begins,           \* <<n, m>> where the name n is the beginning of the name m
  Timeouts,         \* timeouts it asks for, in nanoseconds
  Jiffy,            \* NSEC_PER_SEC / HZ
  LongWidth,        \* bits of a long
  U64Width          \* bits of a u64

ASSUME WidthAssumption ==
  /\ LongWidth \in Nat \ {0, 1} /\ U64Width \in Nat \ {0} /\ Jiffy \in Nat \ {0}
  /\ Timeouts \subseteq 0 .. 2 ^ U64Width - 1
\* What the proofs need to know of powers of 2.
ASSUME PowerAssumption ==
  /\ 2 ^ U64Width \in Nat \ {0}
  /\ 2 ^ (LongWidth - 1) \in Nat \ {0, 1} /\ 2 ^ LongWidth = 2 * 2 ^ (LongWidth - 1)
\* The beginning of a name comes before it.
ASSUME NamesAssumption == Names \subseteq Nat /\ \A p \in Begins : p[1] < p[2]

None == -1          \* no timeout string

VARIABLES
  tree,             \* names of the nodes of user_wake_locks, in order
  active,           \* names whose wake lock has WAKE_LOCK_ACTIVE
  auto_expire,      \* names whose wake lock has WAKE_LOCK_AUTO_EXPIRE
  expires,          \* name |-> lock->expires - jiffies
  call,             \* the call that holds tree_lock: op, name, arg
  lo, hi,           \* the search is between these two places of tree
  phase,            \* nanoseconds of the current jiffy that have gone
  owed              \* history: name |-> nanoseconds left of those that user space
                    \* asked for, None for ever, 0 for no longer

vars == <<tree, active, auto_expire, expires, call, lo, hi, phase, owed>>
lock_vars == <<active, auto_expire, expires, owed>>

Idle == [op |-> "idle", name |-> None, arg |-> None]

TypeOK ==
  /\ tree \in Seq(Names) /\ active \subseteq Range(tree) /\ auto_expire \subseteq active
  /\ \A n \in Names : expires[n] \in -(2 ^ (LongWidth - 1)) .. 2 ^ (LongWidth - 1) - 1
  /\ call \in {Idle} \cup [op : {"lock"}, name : Names, arg : Timeouts \cup {None}]
                     \cup [op : {"unlock"}, name : Names, arg : {None}]
  /\ lo \in 0 .. hi /\ hi \in lo .. Len(tree) + 1
  /\ phase \in 0 .. Jiffy - 1

-----------------------------------------------------------------------------
(* The conversion "from nanoseconds to jiffies > 0".                       *)

\* Assignment to a long.
ToLong(n) ==
  LET m == n % 2 ^ LongWidth
  IN  IF m >= 2 ^ (LongWidth - 1) THEN m - 2 ^ LongWidth ELSE m

\* Mutant: rounded down.
ToJiffies_Down(ns) ==
  LET t == ns \div Jiffy
  IN  ToLong(IF t <= 0 THEN 1 ELSE t)

ToJiffies(ns) ==
  LET t == ((ns + Jiffy - 1) % 2 ^ U64Width) \div Jiffy
  IN  ToLong(IF t <= 0 THEN 1 ELSE t)

\* Neither the sum nor the number of jiffies overflows: with 32 bits and
\* HZ = 200 this is so up to 124 days.
Fits(ns) ==
  /\ ns + Jiffy - 1 < 2 ^ U64Width
  /\ (ns + Jiffy - 1) \div Jiffy < 2 ^ (LongWidth - 1)

\* *timeoutptr: 0 without a timeout string.
Timeout(arg) == IF arg = None THEN 0 ELSE ToJiffies(arg)

-----------------------------------------------------------------------------
(* lookup_wake_lock_name.                                                  *)

\* strncmp over the length of buf's name: 0 if it is the beginning of name.
strncmp(buf, name) ==
  IF buf = name \/ <<buf, name>> \in Begins THEN 0
  ELSE IF buf < name THEN -1 ELSE 1

Diff(buf, name) ==
  IF strncmp(buf, name) = 0 /\ <<buf, name>> \in Begins THEN -1     \* l->name[name_len]
  ELSE strncmp(buf, name)

\* mutex_lock and the arguments.  A bad argument (no name, or something
\* behind the timeout, or a timeout for wake_unlock) changes nothing.
Enter(op, name, arg) ==
  /\ call = Idle
  /\ op = "unlock" => arg = None
  /\ call' = [op |-> op, name |-> name, arg |-> arg]
  /\ lo' = 0 /\ hi' = Len(tree) + 1
  /\ UNCHANGED <<tree, lock_vars, phase>>

\* One round of the loop that did not find the name.
Descend ==
  /\ call # Idle
  /\ \E i \in lo + 1 .. hi - 1 :
       LET diff == Diff(call.name, tree[i])
       IN  \/ diff < 0 /\ hi' = i /\ UNCHANGED lo
           \/ diff > 0 /\ lo' = i /\ UNCHANGED hi
  /\ UNCHANGED <<tree, lock_vars, call, phase>>

Return == call' = Idle /\ lo' = 0 /\ hi' = 0 /\ UNCHANGED phase

-----------------------------------------------------------------------------
(* What the calls of wakelock.c do here (module WakeLock has all of it).   *)

Due(auto, exp) == {n \in auto : exp[n] <= 0}

\* has_wake_lock_locked finds locks without timeout first and stops there.
Walked(act, auto, exp) ==
  LET D == IF act = auto THEN Due(auto, exp) ELSE {}
  IN  active' = act \ D /\ auto_expire' = auto \ D

\* wake_lock_store with the node l that it found or made.  Of a timeout
\* that does not fit a long nothing is left to count on.
Lock(l) ==
  LET t == Timeout(call.arg)
      exp == [expires EXCEPT ![l] = t]
  IN  /\ IF t # 0
         THEN Walked(active \cup {l}, auto_expire \cup {l}, exp)
         ELSE active' = active \cup {l} /\ auto_expire' = auto_expire \ {l}
      /\ expires' = exp
      /\ owed' = [owed EXCEPT ![call.name] =
                    IF call.arg = None \/ Fits(call.arg) THEN call.arg ELSE 0]

\* wake_unlock_store with the node l that it found.
Unlock(l) ==
  /\ Walked(active \ {l}, auto_expire \ {l}, expires)
  /\ owed' = [owed EXCEPT ![call.name] = 0]
  /\ UNCHANGED expires

Found ==
  /\ call # Idle
  /\ \E i \in lo + 1 .. hi - 1 :
       /\ Diff(call.name, tree[i]) = 0
       /\ \/ call.op = "lock" /\ Lock(tree[i])
          \/ call.op = "unlock" /\ Unlock(tree[i])
  /\ Return
  /\ UNCHANGED tree

\* Mutant: the new node goes to the right of the one below it.
Linked_Right(i) == IF i <= Len(tree) THEN InsertAt(tree, i + 1, call.name) ELSE Append(tree, call.name)

\* rb_link_node where the search ended.
Linked(i) == InsertAt(tree, i, call.name)

NotFound ==
  /\ call # Idle /\ hi = lo + 1
  /\ \/ call.op = "lock" /\ tree' = Linked(hi) /\ Lock(call.name)
     \/ call.op = "lock" /\ UNCHANGED <<tree, lock_vars>>      \* -ENOMEM
     \/ call.op = "unlock" /\ UNCHANGED <<tree, lock_vars>>    \* -EINVAL
  /\ Return

\* The expire timer and every other caller of has_wake_lock.
Walk ==
  /\ Walked(active, auto_expire, expires)
  /\ UNCHANGED <<tree, expires, call, lo, hi, phase, owed>>

\* A nanosecond; with the last one of a jiffy, jiffies changes.
Tick ==
  /\ phase' = (phase + 1) % Jiffy
  /\ expires' = [n \in Names |-> IF phase' = 0 /\ expires[n] > 0 THEN expires[n] - 1 ELSE expires[n]]
  /\ owed' = [n \in Names |-> IF owed[n] > 0 THEN owed[n] - 1 ELSE owed[n]]
  /\ UNCHANGED <<tree, active, auto_expire, call, lo, hi>>

-----------------------------------------------------------------------------
Init ==
  /\ tree = <<>> /\ active = {} /\ auto_expire = {} /\ call = Idle /\ lo = 0 /\ hi = 0 /\ phase = 0
  /\ expires = [n \in Names |-> 0] /\ owed = [n \in Names |-> 0]

Next ==
  \/ \E n \in Names, a \in Timeouts \cup {None} : Enter("lock", n, a) \/ Enter("unlock", n, a)
  \/ Descend \/ Found \/ NotFound \/ Walk \/ Tick

Spec == Init /\ [][Next]_vars

-----------------------------------------------------------------------------
(* Properties.                                                             *)

\* The tree is in the order of the dictionary and holds a name once, also
\* when one name is the beginning of another, whatever order they came in,
\* and the state is well-formed.
TreeInOrder == TypeOK /\ \A i, j \in 1 .. Len(tree) : i < j => tree[i] < tree[j]

\* User space may count on a lock it took by name: it stays active until it
\* unlocks that name or the nanoseconds it asked for end before the next
\* change of jiffies, if they fit a long.  No more is true: the jiffies are
\* counted from the start of the running one (userwakelock.c:75,
\* wakelock.c:451), so up to one jiffy is missing at the end, and a timeout
\* that does not fit is cut short.
HeldAsAsked ==
  \A n \in Names : owed[n] = None \/ owed[n] + phase >= Jiffy => n \in active
=============================================================================
