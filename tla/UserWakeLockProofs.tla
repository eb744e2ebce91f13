------------------------- MODULE UserWakeLockProofs -------------------------
(***************************************************************************)
(* Proofs about UserWakeLock.  The comparison of lookup_wake_lock_name,    *)
(* with its correction for names of which the one sought is the beginning, *)
(* is the order of the dictionary; the search keeps the nodes it has       *)
(* passed on either side of the name; the node is linked between them.     *)
(* The timeout of a lock covers the nanoseconds user space asked for but   *)
(* for the part of the running jiffy that had gone when it was set.        *)
(***************************************************************************)
EXTENDS UserWakeLock, TLAPS

-----------------------------------------------------------------------------
(* The comparison.                                                         *)

Less(a, b) == a < b

LEMMA LessTransitive ==
  ASSUME NEW a \in Names, NEW b \in Names, NEW c \in Names, Less(a, b), Less(b, c)
  PROVE  Less(a, c)
<1>1. a \in Nat /\ b \in Nat /\ c \in Nat
  BY NamesAssumption
<1> QED
  BY <1>1 DEF Less

\* What the result of the comparison means.
LEMMA DiffIsOrder ==
  ASSUME NEW a \in Names, NEW b \in Names
  PROVE  /\ Diff(a, b) \in {-1, 0, 1}
         /\ Diff(a, b) < 0 <=> Less(a, b)
         /\ Diff(a, b) > 0 <=> Less(b, a)
         /\ Diff(a, b) = 0 => a = b
<1>1. a \in Nat /\ b \in Nat
  BY NamesAssumption
<1>2. CASE <<a, b>> \in Begins
  <2>1. a < b
    BY <1>2, NamesAssumption
  <2>2. Diff(a, b) = -1
    BY <1>2 DEF Diff, strncmp
  <2> QED
    BY <1>1, <2>1, <2>2 DEF Less
<1>3. CASE <<a, b>> \notin Begins
  <2>1. Diff(a, b) = IF a = b THEN 0 ELSE IF a < b THEN -1 ELSE 1
    BY <1>3 DEF Diff, strncmp
  <2> QED
    BY <1>1, <2>1 DEF Less
<1> QED
  BY <1>2, <1>3

-----------------------------------------------------------------------------
(* The invariants.                                                         *)

Types == TypeOK /\ expires \in [Names -> Int] /\ owed \in [Names -> Int]

Ordered == \A i, j \in 1 .. Len(tree) : i < j => Diff(tree[i], tree[j]) < 0

\* The name is to the right of the nodes up to lo, to the left of those from hi.
Search ==
  call # Idle =>
    /\ lo < hi
    /\ \A j \in 1 .. Len(tree) : /\ j <= lo => Diff(call.name, tree[j]) > 0
                                 /\ j >= hi => Diff(call.name, tree[j]) < 0

TreeInv == Types /\ Ordered /\ Search

\* Counted from the start of the running jiffy, a lock with a timeout
\* expires less than a jiffy before the time that user space counts on.
Covers(exp, ow) == ow # None /\ (ow > 0 => ow + phase < (exp + 1) * Jiffy)

NotEarly ==
  \A n \in Names :
    /\ owed[n] >= None
    /\ n \in auto_expire => Covers(expires[n], owed[n])

HeldInv == NotEarly /\ HeldAsAsked

-----------------------------------------------------------------------------
(* Operators.                                                              *)

\* Idle is no call of user space.
LEMMA CallOfUser ==
  ASSUME Types, call # Idle
  PROVE  /\ call.name \in Names
         /\ call.op \in {"lock", "unlock"} /\ call.arg \in Timeouts \cup {None}
BY DEF Types, TypeOK

\* A node linked in front of place i.
LEMMA InsertIsSeq ==
  ASSUME NEW s \in Seq(Names), NEW i \in 1 .. Len(s) + 1, NEW e \in Names
  PROVE  /\ InsertAt(s, i, e) \in Seq(Names)
         /\ Len(InsertAt(s, i, e)) = Len(s) + 1
         /\ InsertAt(s, i, e)[i] = e
         /\ \A k \in 1 .. Len(s) : /\ k < i => InsertAt(s, i, e)[k] = s[k]
                                   /\ k >= i => InsertAt(s, i, e)[k + 1] = s[k]
<1>0. Len(s) \in Nat /\ i \in Nat
  OBVIOUS
<1> DEFINE l == SubSeq(s, 1, i - 1)
           r == SubSeq(s, i, Len(s))
<1>1. l \in Seq(Names) /\ Len(l) = i - 1 /\ \A k \in 1 .. i - 1 : l[k] = s[k]
  BY <1>0
<1>2. r \in Seq(Names) /\ Len(r) = Len(s) - i + 1 /\ \A k \in 1 .. Len(s) - i + 1 : r[k] = s[k + i - 1]
  BY <1>0
<1>3. InsertAt(s, i, e) = (l \o <<e>>) \o r
  BY DEF InsertAt
<1> HIDE DEF l, r
<1> DEFINE m == l \o <<e>>
<1>4. m \in Seq(Names) /\ Len(m) = i /\ m[i] = e /\ \A k \in 1 .. i - 1 : m[k] = s[k]
  BY <1>0, <1>1
<1> HIDE DEF m
<1>5. InsertAt(s, i, e) = m \o r
  BY <1>3 DEF m
<1>6. /\ m \o r \in Seq(Names) /\ Len(m \o r) = Len(s) + 1
      /\ \A k \in 1 .. i : (m \o r)[k] = m[k]
      /\ \A k \in i + 1 .. Len(s) + 1 : (m \o r)[k] = r[k - i]
  BY <1>0, <1>2, <1>4
<1>7. (m \o r)[i] = e
  BY <1>0, <1>4, <1>6
<1>8. ASSUME NEW k \in 1 .. Len(s), k < i
      PROVE  (m \o r)[k] = s[k]
  BY <1>0, <1>4, <1>6, <1>8
<1>9. ASSUME NEW k \in 1 .. Len(s), k >= i
      PROVE  (m \o r)[k + 1] = s[k]
  <2>1. k + 1 \in i + 1 .. Len(s) + 1 /\ k + 1 - i \in 1 .. Len(s) - i + 1
    BY <1>0, <1>9
  <2>2. (m \o r)[k + 1] = r[k + 1 - i]
    BY <2>1, <1>6
  <2>3. (k + 1 - i) + i - 1 = k
    BY <1>0
  <2> QED
    BY <2>1, <2>2, <2>3, <1>2
<1> QED
  BY <1>5, <1>6, <1>7, <1>8, <1>9

\* What is in the tree stays, and the node is in it.
LEMMA InsertRange ==
  ASSUME NEW s \in Seq(Names), NEW i \in 1 .. Len(s) + 1, NEW e \in Names
  PROVE  Range(s) \cup {e} \subseteq Range(InsertAt(s, i, e))
<1> DEFINE t == InsertAt(s, i, e)
<1>0. Len(s) \in Nat /\ i \in Nat
  OBVIOUS
<1>1. DOMAIN t = 1 .. Len(s) + 1 /\ DOMAIN s = 1 .. Len(s)
  BY InsertIsSeq
<1>2. e \in Range(t)
  BY <1>1, InsertIsSeq DEF Range
<1>3. \A k \in 1 .. Len(s) : (k < i => t[k] = s[k]) /\ (k >= i => t[k + 1] = s[k])
  BY InsertIsSeq
<1> HIDE DEF t
<1>4. ASSUME NEW k \in DOMAIN s PROVE s[k] \in Range(t)
  <2>1. k < i \/ k >= i
    BY <1>0, <1>1
  <2>2. k \in DOMAIN t /\ k + 1 \in DOMAIN t
    BY <1>0, <1>1
  <2>3. t[k] = s[k] \/ t[k + 1] = s[k]
    BY <2>1, <1>1, <1>3
  <2> QED
    BY <2>2, <2>3 DEF Range
<1> QED
  BY <1>2, <1>4 DEF Range, t

\* A timeout is a long.
LEMMA ToLongType ==
  ASSUME NEW n \in Nat
  PROVE  /\ ToLong(n) \in -(2 ^ (LongWidth - 1)) .. 2 ^ (LongWidth - 1) - 1
         /\ n < 2 ^ (LongWidth - 1) => ToLong(n) = n
<1> DEFINE h == 2 ^ (LongWidth - 1)
           w == 2 ^ LongWidth
           m == n % w
<1>1. h \in Nat \ {0} /\ w = 2 * h
  BY PowerAssumption
<1>2. ToLong(n) = IF m >= h THEN m - w ELSE m
  BY DEF ToLong
<1> HIDE DEF h, w
<1>3. m \in 0 .. w - 1
  BY <1>1
<1>4. n < h => m = n
  BY <1>1
<1> HIDE DEF m
<1>5. ToLong(n) \in -h .. h - 1 /\ (n < h => ToLong(n) = n)
  BY <1>1, <1>2, <1>3, <1>4
<1> QED
  BY <1>5 DEF h

LEMMA TimeoutType ==
  ASSUME NEW arg \in Timeouts \cup {None}
  PROVE  Timeout(arg) \in -(2 ^ (LongWidth - 1)) .. 2 ^ (LongWidth - 1) - 1 /\ Timeout(arg) \in Int
<1>1. 2 ^ (LongWidth - 1) \in Nat \ {0} /\ 2 ^ U64Width \in Nat \ {0} /\ Jiffy \in Nat \ {0}
  BY PowerAssumption, WidthAssumption
<1>2. CASE arg = None
  BY <1>1, <1>2 DEF Timeout
<1>3. CASE arg # None
  <2>1. arg \in Nat
    BY <1>3, <1>1, WidthAssumption
  <2> DEFINE u == (arg + Jiffy - 1) % 2 ^ U64Width
             t == u \div Jiffy
  <2>2. u \in Nat
    BY <1>1, <2>1
  <2>3. t \in Nat
    <3> HIDE DEF u
    <3> QED
      BY <1>1, <2>2
  <2>4. Timeout(arg) = ToLong(IF t <= 0 THEN 1 ELSE t)
    BY <1>3 DEF Timeout, ToJiffies
  <2> HIDE DEF t
  <2>5. (IF t <= 0 THEN 1 ELSE t) \in Nat
    BY <2>3
  <2>6. Timeout(arg) \in -(2 ^ (LongWidth - 1)) .. 2 ^ (LongWidth - 1) - 1
    BY <2>4, <2>5, ToLongType
  <2> QED
    BY <2>6, <1>1
<1> QED
  BY <1>2, <1>3

\* A timeout that fits is rounded up and is at least a jiffy.
LEMMA TimeoutFits ==
  ASSUME NEW a \in Timeouts, Fits(a)
  PROVE  Timeout(a) \in Nat \ {0} /\ a <= Timeout(a) * Jiffy
<1>1. 2 ^ (LongWidth - 1) \in Nat \ {0} /\ 2 ^ U64Width \in Nat \ {0} /\ Jiffy \in Nat \ {0} /\ a \in Nat
  BY PowerAssumption, WidthAssumption
<1> DEFINE s == a + Jiffy - 1
           t == s \div Jiffy
<1>2. s \in Nat /\ s < 2 ^ U64Width /\ t < 2 ^ (LongWidth - 1)
  BY <1>1 DEF Fits
<1>3. s % 2 ^ U64Width = s
  <2> HIDE DEF s
  <2> QED
    BY <1>1, <1>2
<1>4. a # None
  BY <1>1 DEF None
<1>5. Timeout(a) = ToLong(IF t <= 0 THEN 1 ELSE t)
  BY <1>3, <1>4 DEF Timeout, ToJiffies
<1>6. t \in Nat /\ s < (t + 1) * Jiffy
  <2> HIDE DEF s
  <2>1. t \in Nat
    BY <1>1, <1>2
  <2>2. s = Jiffy * t + (s % Jiffy) /\ s % Jiffy \in Nat /\ s % Jiffy < Jiffy
    BY <1>1, <1>2
  <2> HIDE DEF t
  <2>3. (t + 1) * Jiffy = Jiffy * t + Jiffy /\ Jiffy * t \in Nat
    BY <1>1, <2>1
  <2> QED
    BY <1>1, <2>1, <2>2, <2>3
<1> HIDE DEF t
<1>7. (t + 1) * Jiffy = t * Jiffy + Jiffy /\ t * Jiffy \in Nat
  BY <1>1, <1>6
<1>8. a <= t * Jiffy
  BY <1>1, <1>6, <1>7
<1>9. CASE t = 0
  <2>1. Timeout(a) = 1
    BY <1>5, <1>9, PowerAssumption, ToLongType
  <2>2. a = 0 /\ 1 * Jiffy = Jiffy
    BY <1>1, <1>8, <1>9
  <2> QED
    BY <2>1, <2>2, <1>1
<1>10. CASE t # 0
  <2>1. Timeout(a) = t
    BY <1>2, <1>5, <1>6, <1>10, ToLongType
  <2> QED
    BY <2>1, <1>6, <1>8, <1>10
<1> QED
  BY <1>9, <1>10

-----------------------------------------------------------------------------
(* The tree.                                                               *)

LockTypes ==
  /\ auto_expire \subseteq active
  /\ expires \in [Names -> Int] /\ owed \in [Names -> Int]
  /\ \A n \in Names : expires[n] \in -(2 ^ (LongWidth - 1)) .. 2 ^ (LongWidth - 1) - 1

\* wake_lock_store makes no other lock active than the one it found.
LEMMA LockKeeps ==
  ASSUME Types, call # Idle, NEW l \in Names, Lock(l)
  PROVE  LockTypes' /\ active' \subseteq active \cup {l}
<1> DEFINE t == Timeout(call.arg)
           e == [expires EXCEPT ![l] = t]
<1>1. call.name \in Names /\ call.arg \in Timeouts \cup {None}
  BY CallOfUser
<1>2. t \in -(2 ^ (LongWidth - 1)) .. 2 ^ (LongWidth - 1) - 1 /\ t \in Int
  BY <1>1, TimeoutType
<1>3. expires' = e
  BY DEF Lock
<1>4. auto_expire' \subseteq active' /\ active' \subseteq active \cup {l}
  <2>1. auto_expire \subseteq active
    BY DEF Types, TypeOK
  <2>2. \/ Walked(active \cup {l}, auto_expire \cup {l}, e)
        \/ active' = active \cup {l} /\ auto_expire' = auto_expire \ {l}
    BY DEF Lock
  <2> HIDE DEF e
  <2> QED
    BY <2>1, <2>2 DEF Walked
<1> HIDE DEF t
<1>5. expires' \in [Names -> Int]
  BY <1>2, <1>3 DEF Types
<1>6. \A n \in Names : expires'[n] \in -(2 ^ (LongWidth - 1)) .. 2 ^ (LongWidth - 1) - 1
  BY <1>2, <1>3 DEF Types, TypeOK
<1>7. owed' \in [Names -> Int]
  <2>1. owed' = [owed EXCEPT ![call.name] =
                   IF call.arg = None \/ Fits(call.arg) THEN call.arg ELSE 0]
    BY DEF Lock
  <2>2. call.arg \in Int
    <3>1. \A a \in Timeouts : a \in Int
      BY WidthAssumption, PowerAssumption
    <3> QED
      BY <3>1, <1>1 DEF None
  <2> QED
    BY <2>1, <2>2, <1>1 DEF Types
<1> QED
  BY <1>4, <1>5, <1>6, <1>7 DEF LockTypes

LEMMA UnlockKeeps ==
  ASSUME Types, call # Idle, NEW l \in Names, Unlock(l)
  PROVE  LockTypes' /\ active' \subseteq active
<1>1. call.name \in Names
  BY CallOfUser
<1>2. auto_expire \subseteq active
  BY DEF Types, TypeOK
<1>3. auto_expire' \subseteq active' /\ active' \subseteq active
  BY <1>2 DEF Unlock, Walked
<1>4. owed' \in [Names -> Int]
  BY <1>1 DEF Unlock, Types
<1> QED
  BY <1>3, <1>4 DEF Unlock, LockTypes, Types, TypeOK

\* A call that is over has no search.
LEMMA ReturnKeeps ==
  ASSUME TreeInv, Return, LockTypes', Ordered', tree' \in Seq(Names), active' \subseteq Range(tree')
  PROVE  TreeInv'
<1>1. Len(tree') \in Nat
  OBVIOUS
<1>2. call' = Idle /\ lo' = 0 /\ hi' = 0 /\ phase' \in 0 .. Jiffy - 1
  BY DEF Return, TreeInv, Types, TypeOK
<1>3. 0 \in 0 .. 0 /\ 0 \in 0 .. Len(tree') + 1
  BY <1>1
<1>4. TypeOK'
  BY <1>2, <1>3 DEF TypeOK, LockTypes
<1>5. Search'
  BY <1>2 DEF Search
<1> QED
  BY <1>4, <1>5 DEF TreeInv, Types, LockTypes

LEMMA InitTreeInv == Init => TreeInv
<1> SUFFICES ASSUME Init PROVE TreeInv
  OBVIOUS
<1>1. 2 ^ (LongWidth - 1) \in Nat \ {0}
  BY PowerAssumption
<1>2. \A n \in Names : expires[n] = 0
  BY DEF Init
<1>3. 0 \in -(2 ^ (LongWidth - 1)) .. 2 ^ (LongWidth - 1) - 1
  BY <1>1
<1>4. tree = <<>> /\ Len(tree) = 0 /\ tree \in Seq(Names) /\ active = {} /\ auto_expire = {}
  BY DEF Init
<1>5. lo \in 0 .. hi /\ hi \in lo .. Len(tree) + 1 /\ phase \in 0 .. Jiffy - 1
  BY <1>4, WidthAssumption DEF Init
<1>6. TypeOK
  BY <1>2, <1>3, <1>4, <1>5 DEF TypeOK, Init
<1>7. Ordered /\ Search
  BY <1>4 DEF Ordered, Search, Init
<1> QED
  BY <1>6, <1>7 DEF TreeInv, Types, Init

LEMMA EnterKeeps ==
  ASSUME TreeInv, NEW op \in {"lock", "unlock"}, NEW n \in Names, NEW a \in Timeouts \cup {None},
         Enter(op, n, a)
  PROVE  TreeInv'
<1>1. tree \in Seq(Names) /\ Len(tree) \in Nat
  BY DEF TreeInv, Types, TypeOK
<1>2. /\ call' = [op |-> op, name |-> n, arg |-> a] /\ (op = "unlock" => a = None)
      /\ lo' = 0 /\ hi' = Len(tree) + 1 /\ UNCHANGED <<tree, active, auto_expire, expires, phase, owed>>
  BY DEF Enter, lock_vars
<1>3. call' \in {Idle} \cup [op : {"lock"}, name : Names, arg : Timeouts \cup {None}]
                       \cup [op : {"unlock"}, name : Names, arg : {None}]
  BY <1>2
<1>4. lo' \in 0 .. hi' /\ hi' \in lo' .. Len(tree') + 1 /\ lo' < hi'
  BY <1>1, <1>2
<1>5. TypeOK'
  BY <1>2, <1>3, <1>4 DEF TreeInv, Types, TypeOK
<1>6. Search'
  <2>1. \A j \in 1 .. Len(tree) : ~ (j <= 0) /\ ~ (j >= Len(tree) + 1)
    BY <1>1
  <2> QED
    BY <2>1, <1>2, <1>4 DEF Search
<1>7. Ordered'
  BY <1>2 DEF TreeInv, Ordered
<1> QED
  BY <1>2, <1>5, <1>6, <1>7 DEF TreeInv, Types

LEMMA DescendKeeps ==
  ASSUME TreeInv, Descend
  PROVE  TreeInv'
<1>1. /\ tree \in Seq(Names) /\ Len(tree) \in Nat /\ lo \in Nat /\ hi \in Nat
      /\ lo <= hi /\ hi <= Len(tree) + 1
  BY DEF TreeInv, Types, TypeOK
<1>2. call # Idle /\ UNCHANGED <<tree, active, auto_expire, expires, phase, owed, call>>
  BY DEF Descend, lock_vars
<1>3. call.name \in Names
  BY <1>2, CallOfUser DEF TreeInv
<1> DEFINE n == call.name
<1>4. PICK i \in lo + 1 .. hi - 1 :
        \/ Diff(n, tree[i]) < 0 /\ hi' = i /\ lo' = lo
        \/ Diff(n, tree[i]) > 0 /\ lo' = i /\ hi' = hi
  BY DEF Descend
<1>5. i \in 1 .. Len(tree) /\ i \in Nat
  BY <1>1
<1>6. \A j \in 1 .. Len(tree) : tree[j] \in Names
  BY <1>1
<1>7. lo' \in 0 .. hi' /\ hi' \in lo' .. Len(tree') + 1 /\ lo' < hi'
  BY <1>1, <1>2, <1>4, <1>5
<1>8. TypeOK'
  BY <1>2, <1>7 DEF TreeInv, Types, TypeOK
<1>9. \A j \in 1 .. Len(tree) : /\ j <= lo => Diff(n, tree[j]) > 0
                                /\ j >= hi => Diff(n, tree[j]) < 0
  BY <1>2 DEF TreeInv, Search
<1>10. ASSUME NEW j \in 1 .. Len(tree)
       PROVE  /\ j <= lo' => Diff(n, tree[j]) > 0
              /\ j >= hi' => Diff(n, tree[j]) < 0
  <2>1. tree[j] \in Names /\ tree[i] \in Names /\ j \in Nat
    BY <1>5, <1>6
  <2>2. CASE Diff(n, tree[i]) < 0 /\ hi' = i /\ lo' = lo
    <3>1. j = i => Diff(n, tree[j]) < 0
      BY <2>2
    <3>2. ASSUME i < j PROVE Diff(n, tree[j]) < 0
      <4>1. Diff(tree[i], tree[j]) < 0
        BY <3>2, <1>5 DEF TreeInv, Ordered
      <4>2. Less(n, tree[i]) /\ Less(tree[i], tree[j])
        BY <2>1, <2>2, <4>1, <1>3, DiffIsOrder
      <4>3. Less(n, tree[j])
        BY <2>1, <4>2, <1>3, LessTransitive
      <4> QED
        BY <2>1, <4>3, <1>3, DiffIsOrder
    <3> QED
      BY <3>1, <3>2, <2>1, <2>2, <1>5, <1>9
  <2>3. CASE Diff(n, tree[i]) > 0 /\ lo' = i /\ hi' = hi
    <3>1. j = i => Diff(n, tree[j]) > 0
      BY <2>3
    <3>2. ASSUME j < i PROVE Diff(n, tree[j]) > 0
      <4>1. Diff(tree[j], tree[i]) < 0
        BY <3>2, <1>5 DEF TreeInv, Ordered
      <4>2. Less(tree[i], n) /\ Less(tree[j], tree[i])
        BY <2>1, <2>3, <4>1, <1>3, DiffIsOrder
      <4>3. Less(tree[j], n)
        BY <2>1, <4>2, <1>3, LessTransitive
      <4> QED
        BY <2>1, <4>3, <1>3, DiffIsOrder
    <3> QED
      BY <3>1, <3>2, <2>1, <2>3, <1>5, <1>9
  <2> QED
    BY <2>2, <2>3, <1>4
<1>11. Search'
  BY <1>2, <1>7, <1>10 DEF Search
<1>12. Ordered'
  BY <1>2 DEF TreeInv, Ordered
<1> QED
  BY <1>2, <1>8, <1>11, <1>12 DEF TreeInv, Types

\* The node that the search found is the one with this name.
LEMMA FoundName ==
  ASSUME TreeInv, Found
  PROVE  /\ call # Idle /\ call.name \in Names /\ call.name \in Range(tree)
         /\ \/ call.op = "lock" /\ Lock(call.name)
            \/ call.op = "unlock" /\ Unlock(call.name)
<1>1. /\ tree \in Seq(Names) /\ Len(tree) \in Nat /\ lo \in Nat /\ hi \in Nat
      /\ lo <= hi /\ hi <= Len(tree) + 1
  BY DEF TreeInv, Types, TypeOK
<1>2. call # Idle
  BY DEF Found
<1>3. call.name \in Names
  BY <1>2, CallOfUser DEF TreeInv
<1>4. PICK i \in lo + 1 .. hi - 1 :
        /\ Diff(call.name, tree[i]) = 0
        /\ \/ call.op = "lock" /\ Lock(tree[i])
           \/ call.op = "unlock" /\ Unlock(tree[i])
  BY DEF Found
<1>5. i \in 1 .. Len(tree)
  BY <1>1
<1>6. tree[i] \in Names /\ tree[i] \in Range(tree)
  BY <1>1, <1>5 DEF Range
<1>7. tree[i] = call.name
  BY <1>3, <1>4, <1>6, DiffIsOrder
<1> QED
  BY <1>2, <1>3, <1>4, <1>6, <1>7

LEMMA FoundKeeps ==
  ASSUME TreeInv, Found
  PROVE  TreeInv'
<1>1. call # Idle /\ call.name \in Names /\ call.name \in Range(tree)
  BY FoundName
<1>2. LockTypes' /\ active' \subseteq active \cup {call.name}
  BY <1>1, FoundName, LockKeeps, UnlockKeeps DEF TreeInv
<1>3. tree' = tree /\ Return
  BY DEF Found
<1>4. active' \subseteq Range(tree') /\ tree' \in Seq(Names)
  BY <1>1, <1>2, <1>3 DEF TreeInv, Types, TypeOK
<1>5. Ordered'
  BY <1>3 DEF TreeInv, Ordered
<1> QED
  BY <1>2, <1>3, <1>4, <1>5, ReturnKeeps

\* The new node is linked between its neighbours.
LEMMA LinkOrdered ==
  ASSUME TreeInv, call # Idle, hi = lo + 1, tree' = Linked(hi)
  PROVE  /\ tree' \in Seq(Names) /\ Ordered'
         /\ Range(tree) \cup {call.name} \subseteq Range(tree')
<1> DEFINE n == call.name
<1>1. /\ tree \in Seq(Names) /\ Len(tree) \in Nat /\ lo \in Nat /\ hi \in 1 .. Len(tree) + 1
      /\ hi \in Nat
  BY DEF TreeInv, Types, TypeOK
<1>2. n \in Names
  BY CallOfUser DEF TreeInv
<1>3. tree' = InsertAt(tree, hi, n)
  BY DEF Linked
<1>4. /\ tree' \in Seq(Names) /\ Len(tree') = Len(tree) + 1 /\ tree'[hi] = n
      /\ \A k \in 1 .. Len(tree) : /\ k < hi => tree'[k] = tree[k]
                                   /\ k >= hi => tree'[k + 1] = tree[k]
  <2> HIDE DEF n
  <2> DEFINE t == InsertAt(tree, hi, n)
  <2>1. /\ t \in Seq(Names) /\ Len(t) = Len(tree) + 1 /\ t[hi] = n
        /\ \A k \in 1 .. Len(tree) : /\ k < hi => t[k] = tree[k]
                                     /\ k >= hi => t[k + 1] = tree[k]
    BY <1>1, <1>2, InsertIsSeq
  <2> HIDE DEF t
  <2>2. tree' = t
    BY <1>3 DEF t
  <2> QED
    BY <2>1, <2>2
<1>5. Range(tree) \cup {n} \subseteq Range(tree')
  BY <1>1, <1>2, <1>3, InsertRange
<1>6. \A j \in 1 .. Len(tree) : /\ j <= lo => Diff(n, tree[j]) > 0
                                /\ j >= hi => Diff(n, tree[j]) < 0
  BY DEF TreeInv, Search
<1>7. \A j \in 1 .. Len(tree) : j < hi => Diff(tree[j], n) < 0
  <2> SUFFICES ASSUME NEW j \in 1 .. Len(tree), j < hi
               PROVE  Diff(tree[j], n) < 0
    OBVIOUS
  <2>1. tree[j] \in Names
    BY <1>1
  <2>2. j <= lo
    BY <1>1
  <2>3. Less(tree[j], n)
    BY <2>1, <2>2, <1>2, <1>6, DiffIsOrder
  <2> QED
    BY <2>1, <2>3, <1>2, DiffIsOrder
<1>8. \A i, j \in 1 .. Len(tree) : i < j => Diff(tree[i], tree[j]) < 0
  BY DEF TreeInv, Ordered
<1>9. ASSUME NEW i \in 1 .. Len(tree'), NEW j \in 1 .. Len(tree'), i < j
      PROVE  Diff(tree'[i], tree'[j]) < 0
  <2>1. i \in Nat /\ j \in Nat /\ i <= Len(tree) + 1 /\ j <= Len(tree) + 1 /\ 1 <= i
    BY <1>1, <1>4
  <2>2. CASE j < hi
    <3>1. i \in 1 .. Len(tree) /\ j \in 1 .. Len(tree) /\ i < hi
      BY <1>1, <1>9, <2>1, <2>2
    <3>2. tree'[i] = tree[i] /\ tree'[j] = tree[j]
      BY <3>1, <2>2, <1>4
    <3> QED
      BY <3>1, <3>2, <1>8, <1>9
  <2>3. CASE j = hi
    <3>1. i \in 1 .. Len(tree) /\ i < hi
      BY <1>1, <1>9, <2>1, <2>3
    <3>2. tree'[i] = tree[i] /\ tree'[j] = n
      BY <3>1, <2>3, <1>4
    <3> QED
      BY <3>1, <3>2, <1>7
  <2>4. CASE hi < j /\ i < hi
    <3>1. i \in 1 .. Len(tree) /\ j - 1 \in 1 .. Len(tree) /\ j - 1 >= hi /\ (j - 1) + 1 = j /\ i < j - 1
      BY <1>1, <2>1, <2>4
    <3>2. tree'[i] = tree[i] /\ tree'[j] = tree[j - 1]
      BY <3>1, <2>4, <1>4
    <3> QED
      BY <3>1, <3>2, <1>8
  <2>5. CASE hi < j /\ i = hi
    <3>1. j - 1 \in 1 .. Len(tree) /\ j - 1 >= hi /\ (j - 1) + 1 = j
      BY <1>1, <2>1, <2>5
    <3>2. tree'[i] = n /\ tree'[j] = tree[j - 1]
      BY <3>1, <2>5, <1>4
    <3> QED
      BY <3>1, <3>2, <1>6
  <2>6. CASE hi < i
    <3>1. /\ i - 1 \in 1 .. Len(tree) /\ i - 1 >= hi /\ (i - 1) + 1 = i
          /\ j - 1 \in 1 .. Len(tree) /\ j - 1 >= hi /\ (j - 1) + 1 = j /\ i - 1 < j - 1
      BY <1>1, <1>9, <2>1, <2>6
    <3>2. tree'[i] = tree[i - 1] /\ tree'[j] = tree[j - 1]
      BY <3>1, <1>4
    <3> QED
      BY <3>1, <3>2, <1>8
  <2> QED
    BY <2>1, <2>2, <2>3, <2>4, <2>5, <2>6, <1>1
<1> QED
  BY <1>4, <1>5, <1>9 DEF Ordered

LEMMA NotFoundKeeps ==
  ASSUME TreeInv, NotFound
  PROVE  TreeInv'
<1>1. call # Idle /\ hi = lo + 1 /\ Return
  BY DEF NotFound
<1>2. call.name \in Names
  BY <1>1, CallOfUser DEF TreeInv
<1>3. CASE tree' = Linked(hi) /\ Lock(call.name)
  <2>1. /\ tree' \in Seq(Names) /\ Ordered'
        /\ Range(tree) \cup {call.name} \subseteq Range(tree')
    BY <1>1, <1>3, LinkOrdered
  <2>2. LockTypes' /\ active' \subseteq active \cup {call.name}
    BY <1>1, <1>2, <1>3, LockKeeps DEF TreeInv
  <2>3. active' \subseteq Range(tree')
    BY <2>1, <2>2 DEF TreeInv, Types, TypeOK
  <2> QED
    BY <1>1, <2>1, <2>2, <2>3, ReturnKeeps
<1>4. CASE UNCHANGED <<tree, lock_vars>>
  <2>1. UNCHANGED <<tree, active, auto_expire, expires, owed>>
    BY <1>4 DEF lock_vars
  <2>2. LockTypes' /\ tree' \in Seq(Names) /\ active' \subseteq Range(tree')
    BY <2>1 DEF TreeInv, Types, TypeOK, LockTypes
  <2>3. Ordered'
    BY <2>1 DEF TreeInv, Ordered
  <2> QED
    BY <1>1, <2>2, <2>3, ReturnKeeps
<1> QED
  BY <1>3, <1>4 DEF NotFound

LEMMA WalkKeeps ==
  ASSUME TreeInv, Walk
  PROVE  TreeInv'
<1>1. UNCHANGED <<tree, expires, call, lo, hi, phase, owed>> /\ Walked(active, auto_expire, expires)
  BY DEF Walk
<1>2. active' \subseteq active /\ auto_expire' \subseteq active'
  BY <1>1 DEF Walked, TreeInv, Types, TypeOK
<1>3. TypeOK'
  BY <1>1, <1>2 DEF TreeInv, Types, TypeOK
<1>4. Ordered' /\ Search'
  BY <1>1 DEF TreeInv, Ordered, Search
<1> QED
  BY <1>1, <1>3, <1>4 DEF TreeInv, Types

\* The running jiffy and the nanoseconds of it that have gone.
LEMMA NextPhase ==
  ASSUME TreeInv
  PROVE  /\ Jiffy \in Nat \ {0} /\ phase \in Nat /\ phase < Jiffy
         /\ \/ (phase + 1) % Jiffy = phase + 1 /\ phase + 1 < Jiffy
            \/ (phase + 1) % Jiffy = 0 /\ phase + 1 = Jiffy
<1>1. Jiffy \in Nat \ {0} /\ phase \in Nat /\ phase < Jiffy
  BY WidthAssumption DEF TreeInv, Types, TypeOK
<1>2. CASE phase + 1 = Jiffy
  <2>1. Jiffy % Jiffy = 0
    BY <1>1
  <2> QED
    BY <1>1, <1>2, <2>1
<1>3. CASE phase + 1 # Jiffy
  BY <1>1, <1>3
<1> QED
  BY <1>1, <1>2, <1>3

LEMMA TickKeeps ==
  ASSUME TreeInv, Tick
  PROVE  TreeInv'
<1>1. /\ UNCHANGED <<tree, active, auto_expire, call, lo, hi>>
      /\ expires' = [n \in Names |-> IF phase' = 0 /\ expires[n] > 0 THEN expires[n] - 1 ELSE expires[n]]
      /\ owed' = [n \in Names |-> IF owed[n] > 0 THEN owed[n] - 1 ELSE owed[n]]
      /\ phase' = (phase + 1) % Jiffy
  BY DEF Tick
<1>2. \A n \in Names : expires[n] \in Int /\ owed[n] \in Int
  BY DEF TreeInv, Types
<1>3. expires' \in [Names -> Int] /\ owed' \in [Names -> Int]
  BY <1>1, <1>2
<1>4. \A n \in Names : expires'[n] \in -(2 ^ (LongWidth - 1)) .. 2 ^ (LongWidth - 1) - 1
  <2> SUFFICES ASSUME NEW n \in Names
               PROVE  expires'[n] \in -(2 ^ (LongWidth - 1)) .. 2 ^ (LongWidth - 1) - 1
    OBVIOUS
  <2>1. expires[n] \in -(2 ^ (LongWidth - 1)) .. 2 ^ (LongWidth - 1) - 1
    BY DEF TreeInv, Types, TypeOK
  <2>2. expires'[n] = IF phase' = 0 /\ expires[n] > 0 THEN expires[n] - 1 ELSE expires[n]
    BY <1>1
  <2> QED
    BY <1>2, <2>1, <2>2, PowerAssumption
<1>5. phase' \in 0 .. Jiffy - 1
  BY <1>1, NextPhase
<1>6. TypeOK'
  BY <1>1, <1>4, <1>5 DEF TreeInv, Types, TypeOK
<1>7. Ordered' /\ Search'
  BY <1>1 DEF TreeInv, Ordered, Search
<1> QED
  BY <1>3, <1>6, <1>7 DEF TreeInv, Types

LEMMA NextTreeInv == TreeInv /\ [Next]_vars => TreeInv'
<1> SUFFICES ASSUME TreeInv, [Next]_vars PROVE TreeInv'
  OBVIOUS
<1>1. CASE UNCHANGED vars
  BY <1>1 DEF vars, TreeInv, Types, TypeOK, Ordered, Search
<1>2. CASE \E n \in Names, a \in Timeouts \cup {None} : Enter("lock", n, a) \/ Enter("unlock", n, a)
  BY <1>2, EnterKeeps
<1> QED
  BY <1>1, <1>2, DescendKeeps, FoundKeeps, NotFoundKeeps, WalkKeeps, TickKeeps DEF Next

\* TreeInOrder, for every set of names, whichever are the beginnings of
\* others: lookup_wake_lock_name ends where the name belongs, so the node is
\* linked in order, and never a second time.
THEOREM NamesInOrder == Spec => []TreeInOrder
<1>1. TreeInv => TreeInOrder
  <2> SUFFICES ASSUME TreeInv, NEW i \in 1 .. Len(tree), NEW j \in 1 .. Len(tree), i < j
               PROVE  tree[i] < tree[j]
    BY DEF TreeInv, Types, TreeInOrder
  <2>1. tree[i] \in Names /\ tree[j] \in Names
    BY DEF TreeInv, Types, TypeOK
  <2>2. Diff(tree[i], tree[j]) < 0
    BY DEF TreeInv, Ordered
  <2> QED
    BY <2>1, <2>2, DiffIsOrder DEF Less
<1> QED
  BY <1>1, InitTreeInv, NextTreeInv, PTL DEF Spec

-----------------------------------------------------------------------------
(* The locks.                                                              *)

\* User space may count on the lock.
Counts(ow) == ow = None \/ ow + phase >= Jiffy

\* A lock that is due has less than the rest of this jiffy to go.
LEMMA DueIsOver ==
  ASSUME TreeInv, NEW e \in Int, NEW o \in Int, e <= 0, Covers(e, o)
  PROVE  ~ Counts(o)
<1>1. Jiffy \in Nat \ {0} /\ phase \in Nat /\ phase < Jiffy
  BY NextPhase
<1>2. (e + 1) * Jiffy <= Jiffy
  BY <1>1
<1>3. (e + 1) * Jiffy \in Int
  BY <1>1
<1> QED
  BY <1>1, <1>2, <1>3 DEF Covers, Counts, None

\* A walk drops no lock that user space counts on.
LEMMA WalkedKeeps ==
  ASSUME TreeInv, NEW act, NEW auto, NEW exp, NEW ow \in [Names -> Int], auto \subseteq act,
         \A n \in Names : /\ exp[n] \in Int /\ ow[n] >= None
                          /\ n \in auto => Covers(exp[n], ow[n])
                          /\ Counts(ow[n]) => n \in act,
         Walked(act, auto, exp), expires' = exp, owed' = ow, phase' = phase
  PROVE  HeldInv'
<1> DEFINE D == IF act = auto THEN Due(auto, exp) ELSE {}
<1>1. active' = act \ D /\ auto_expire' = auto \ D
  BY DEF Walked
<1>2. ASSUME NEW n \in Names, n \in D PROVE ~ Counts(ow[n])
  <2>1. n \in auto /\ exp[n] <= 0
    BY <1>2 DEF Due
  <2> QED
    BY <2>1, DueIsOver
<1> HIDE DEF D
<1>3. ASSUME NEW n \in Names
      PROVE  /\ owed'[n] >= None
             /\ n \in auto_expire' => Covers(expires[n], owed[n])'
             /\ Counts(owed[n])' => n \in active'
  BY <1>1, <1>2 DEF Covers, Counts
<1> QED
  BY <1>3 DEF HeldInv, NotEarly, HeldAsAsked, Counts

\* What HeldInv says of a name.
LEMMA HeldMeans ==
  ASSUME HeldInv
  PROVE  \A n \in Names : /\ owed[n] >= None
                          /\ n \in auto_expire => Covers(expires[n], owed[n])
                          /\ Counts(owed[n]) => n \in active
BY DEF HeldInv, NotEarly, HeldAsAsked, Counts

LEMMA LockHolds ==
  ASSUME TreeInv, HeldInv, call # Idle, Lock(call.name), phase' = phase
  PROVE  HeldInv'
<1> DEFINE l == call.name
           t == Timeout(call.arg)
           o == IF call.arg = None \/ Fits(call.arg) THEN call.arg ELSE 0
           e == [expires EXCEPT ![l] = t]
           w == [owed EXCEPT ![l] = o]
<1>1. l \in Names /\ call.arg \in Timeouts \cup {None} /\ t \in Int
  BY CallOfUser, TimeoutType DEF TreeInv
<1>2. /\ expires' = e /\ owed' = w
      /\ t # 0 => Walked(active \cup {l}, auto_expire \cup {l}, e)
      /\ t = 0 => active' = active \cup {l} /\ auto_expire' = auto_expire \ {l}
  BY DEF Lock
<1>3. auto_expire \subseteq active /\ expires \in [Names -> Int] /\ owed \in [Names -> Int]
  BY DEF TreeInv, Types, TypeOK
<1>4. \A n \in Names : /\ owed[n] >= None
                       /\ n \in auto_expire => Covers(expires[n], owed[n])
                       /\ Counts(owed[n]) => n \in active
  BY HeldMeans
<1>5. o \in Int /\ o >= None
  <2>1. \A a \in Timeouts : a \in Int /\ a >= None
    BY WidthAssumption, PowerAssumption DEF None
  <2>2. call.arg \in Int /\ call.arg >= None
    BY <2>1, <1>1 DEF None
  <2> QED
    BY <2>2 DEF None
<1>6. t # 0 => Covers(t, o)
  <2>1. Jiffy \in Nat \ {0} /\ phase \in Nat /\ phase < Jiffy
    BY NextPhase
  <2>2. CASE call.arg = None
    BY <2>2 DEF Timeout
  <2>3. CASE call.arg # None /\ ~ Fits(call.arg)
    BY <2>3 DEF Covers, None
  <2>4. CASE call.arg # None /\ Fits(call.arg)
    <3>1. o = call.arg /\ call.arg \in Timeouts
      BY <2>4, <1>1
    <3>2. t \in Nat \ {0} /\ o <= t * Jiffy
      BY <3>1, <2>4, TimeoutFits
    <3> HIDE DEF o, t
    <3>3. (t + 1) * Jiffy = t * Jiffy + Jiffy /\ t * Jiffy \in Nat
      BY <3>2, <2>1
    <3>4. o + phase < (t + 1) * Jiffy
      BY <3>2, <3>3, <2>1, <1>5
    <3> QED
      BY <3>1, <3>4, <2>4 DEF Covers
  <2> QED
    BY <2>2, <2>3, <2>4
<1> HIDE DEF l, t, o
<1>7. /\ w \in [Names -> Int] /\ e \in [Names -> Int] /\ w[l] = o /\ e[l] = t
      /\ \A n \in Names \ {l} : w[n] = owed[n] /\ e[n] = expires[n]
  BY <1>1, <1>3, <1>5
<1> HIDE DEF e, w
<1>8. CASE t = 0
  <2>1. ASSUME NEW n \in Names
        PROVE  /\ owed'[n] >= None
               /\ n \in auto_expire' => Covers(expires[n], owed[n])'
               /\ Counts(owed[n])' => n \in active'
    <3>1. CASE n = l
      BY <3>1, <1>2, <1>5, <1>7, <1>8
    <3>2. CASE n # l
      <4>1. expires'[n] = expires[n] /\ owed'[n] = owed[n]
        BY <3>2, <1>2, <1>7
      <4> QED
        BY <4>1, <3>2, <1>2, <1>4, <1>8 DEF Covers, Counts
    <3> QED
      BY <3>1, <3>2
  <2> QED
    BY <2>1 DEF HeldInv, NotEarly, HeldAsAsked, Counts
<1>9. CASE t # 0
  <2>1. ASSUME NEW n \in Names
        PROVE  /\ e[n] \in Int /\ w[n] >= None
               /\ n \in auto_expire \cup {l} => Covers(e[n], w[n])
               /\ Counts(w[n]) => n \in active \cup {l}
    <3>1. CASE n = l
      BY <3>1, <1>1, <1>5, <1>6, <1>7, <1>9
    <3>2. CASE n # l
      BY <3>2, <1>3, <1>4, <1>7
    <3> QED
      BY <3>1, <3>2
  <2>2. auto_expire \cup {l} \subseteq active \cup {l}
    BY <1>3
  <2>3. Walked(active \cup {l}, auto_expire \cup {l}, e)
    BY <1>2, <1>9
  <2> QED
    BY <1>2, <1>7, <2>1, <2>2, <2>3, WalkedKeeps
<1> QED
  BY <1>8, <1>9

LEMMA UnlockHolds ==
  ASSUME TreeInv, HeldInv, call # Idle, Unlock(call.name), phase' = phase
  PROVE  HeldInv'
<1> DEFINE l == call.name
           w == [owed EXCEPT ![l] = 0]
<1>1. l \in Names
  BY CallOfUser DEF TreeInv
<1>2. owed' = w /\ expires' = expires /\ Walked(active \ {l}, auto_expire \ {l}, expires)
  BY DEF Unlock
<1>3. auto_expire \subseteq active /\ expires \in [Names -> Int] /\ owed \in [Names -> Int]
  BY DEF TreeInv, Types, TypeOK
<1>4. \A n \in Names : /\ owed[n] >= None
                       /\ n \in auto_expire => Covers(expires[n], owed[n])
                       /\ Counts(owed[n]) => n \in active
  BY HeldMeans
<1> HIDE DEF l
<1>5. w \in [Names -> Int] /\ w[l] = 0 /\ \A n \in Names \ {l} : w[n] = owed[n]
  BY <1>1, <1>3
<1> HIDE DEF w
<1>6. ~ Counts(0)
  BY NextPhase DEF Counts, None
<1>7. ASSUME NEW n \in Names
      PROVE  /\ expires[n] \in Int /\ w[n] >= None
             /\ n \in auto_expire \ {l} => Covers(expires[n], w[n])
             /\ Counts(w[n]) => n \in active \ {l}
  <2>1. CASE n = l
    BY <2>1, <1>3, <1>5, <1>6 DEF None
  <2>2. CASE n # l
    BY <2>2, <1>3, <1>4, <1>5
  <2> QED
    BY <2>1, <2>2
<1>8. auto_expire \ {l} \subseteq active \ {l}
  BY <1>3
<1> QED
  BY <1>2, <1>5, <1>7, <1>8, WalkedKeeps

LEMMA TickHolds ==
  ASSUME TreeInv, HeldInv, Tick
  PROVE  HeldInv'
<1>1. /\ UNCHANGED <<active, auto_expire>>
      /\ expires' = [n \in Names |-> IF phase' = 0 /\ expires[n] > 0 THEN expires[n] - 1 ELSE expires[n]]
      /\ owed' = [n \in Names |-> IF owed[n] > 0 THEN owed[n] - 1 ELSE owed[n]]
      /\ phase' = (phase + 1) % Jiffy
  BY DEF Tick
<1> SUFFICES ASSUME NEW n \in Names
             PROVE  /\ owed'[n] >= None
                    /\ n \in auto_expire' => Covers(expires[n], owed[n])'
                    /\ Counts(owed[n])' => n \in active'
  BY DEF HeldInv, NotEarly, HeldAsAsked, Counts
<1> DEFINE e == expires[n]
           o == owed[n]
<1>2. e \in Int /\ o \in Int
  BY DEF TreeInv, Types
<1>3. o >= None /\ (n \in auto_expire => Covers(e, o)) /\ (Counts(o) => n \in active)
  BY HeldMeans
<1>4. /\ expires'[n] = IF phase' = 0 /\ e > 0 THEN e - 1 ELSE e
      /\ owed'[n] = IF o > 0 THEN o - 1 ELSE o
  BY <1>1
<1> DEFINE e1 == expires'[n]
           o1 == owed'[n]
<1>5. /\ Jiffy \in Nat \ {0} /\ phase \in Nat /\ phase < Jiffy
      /\ \/ phase' = phase + 1 /\ phase + 1 < Jiffy
         \/ phase' = 0 /\ phase + 1 = Jiffy
  BY <1>1, NextPhase
<1>6. o1 >= None /\ (o = None => o1 = None) /\ (o # None => o1 # None)
  BY <1>2, <1>3, <1>4 DEF None
<1>7. Counts(owed[n])' => Counts(o)
  BY <1>2, <1>3, <1>4, <1>5 DEF Counts, None
<1>8. ASSUME n \in auto_expire, o1 > 0
      PROVE  o1 + phase' < (e1 + 1) * Jiffy
  <2>1. o > 0 /\ o1 = o - 1 /\ o + phase < (e + 1) * Jiffy
    BY <1>2, <1>3, <1>4, <1>8 DEF Covers
  <2>2. (e + 1) * Jiffy = e * Jiffy + Jiffy /\ e * Jiffy \in Int
    BY <1>2, <1>5
  <2>3. CASE phase' = phase + 1 /\ phase + 1 < Jiffy
    <3>1. e1 = e
      BY <2>3, <1>4, <1>5
    <3> HIDE DEF e, o, e1, o1
    <3> QED
      BY <2>1, <2>3, <3>1, <1>2, <1>5
  <2>4. CASE phase' = 0 /\ phase + 1 = Jiffy
    <3>1. e > 0
      <4>1. e <= 0 => e * Jiffy <= 0
        BY <1>2, <1>5
      <4> QED
        BY <4>1, <2>1, <2>2, <2>4, <1>2, <1>5
    <3>2. e1 + 1 = e
      BY <3>1, <2>4, <1>2, <1>4
    <3> HIDE DEF e, o, e1, o1
    <3> QED
      BY <2>1, <2>2, <2>4, <3>2, <1>2, <1>5
  <2> QED
    BY <2>3, <2>4, <1>5
<1>9. n \in auto_expire' => Covers(expires[n], owed[n])'
  BY <1>1, <1>3, <1>6, <1>8 DEF Covers
<1> QED
  BY <1>1, <1>3, <1>6, <1>7, <1>9

LEMMA NextHeldInv ==
  ASSUME TreeInv, HeldInv, [Next]_vars
  PROVE  HeldInv'
<1>1. CASE UNCHANGED <<lock_vars, phase>>
  BY <1>1 DEF lock_vars, HeldInv, NotEarly, HeldAsAsked, Covers
<1>2. CASE Walk
  <2>1. /\ Walked(active, auto_expire, expires) /\ expires' = expires /\ owed' = owed /\ phase' = phase
        /\ auto_expire \subseteq active /\ owed \in [Names -> Int]
        /\ \A n \in Names : expires[n] \in Int
    BY <1>2 DEF Walk, TreeInv, Types, TypeOK
  <2> QED
    BY <2>1, HeldMeans, WalkedKeeps
<1>3. CASE Found
  BY <1>3, FoundName, LockHolds, UnlockHolds DEF Found, Return
<1>4. CASE NotFound
  BY <1>1, <1>4, LockHolds DEF NotFound, Return, lock_vars
<1>5. CASE UNCHANGED vars
  BY <1>1, <1>5 DEF vars, lock_vars
<1>6. CASE \E n \in Names, a \in Timeouts \cup {None} : Enter("lock", n, a) \/ Enter("unlock", n, a)
  BY <1>1, <1>6 DEF Enter, lock_vars
<1>7. CASE Descend
  BY <1>1, <1>7 DEF Descend, lock_vars
<1> QED
  BY <1>2, <1>3, <1>4, <1>5, <1>6, <1>7, TickHolds DEF Next

\* HeldAsAsked, for every set of names and of timeouts, those that overflow
\* included, and whenever in a jiffy the lock is taken: wake_lock_store
\* rounds nanoseconds up, to a jiffy at least, so that what is lost of a
\* timeout that fits is less than a jiffy, and no walk of wakelock.c drops
\* the lock before its time, whatever is done to the other names.
THEOREM HeldForTheTimeout == Spec => []HeldAsAsked
<1>1. Init => HeldInv
  BY WidthAssumption DEF Init, HeldInv, NotEarly, HeldAsAsked, None
<1>2. TreeInv /\ HeldInv /\ [Next]_vars => HeldInv'
  BY NextHeldInv
<1>3. HeldInv => HeldAsAsked
  BY DEF HeldInv
<1> QED
  BY <1>1, <1>2, <1>3, InitTreeInv, NextTreeInv, PTL DEF Spec
=============================================================================
