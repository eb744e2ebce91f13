---------------------------- MODULE MemoryProofs ----------------------------
(***************************************************************************)
(* Proofs about what Android does when memory is short: ashmem, which lets *)
(* the kernel take unpinned pages, and the low memory killer.              *)
(*                                                                         *)
(* Ashmem, for any areas, size and requests.  What a call does to its      *)
(* lists is worked out for one operation on a range (range_del,            *)
(* range_shrink, range_alloc), then for one turn of a loop, then for the   *)
(* loop, by induction on its turns.  Consistent says of the lists of one   *)
(* area what each of these preserves; the LRU enters as the unpurged       *)
(* ranges of the area and a set O of ranges of other areas that the call   *)
(* cannot touch.  Structure says it of all areas and is inductive; with    *)
(* PurgeRemembered it carries the refinement.                              *)
(*                                                                         *)
(* The killer, for any tasks and any number of threads that reclaim        *)
(* memory.  The inductive invariant says what the loop of lowmem_shrink    *)
(* has found so far: its victim is as bad as every task before its         *)
(* position that still has an mm, and cannot leave the task list while the *)
(* loop or what comes after it holds tasklist_lock.                        *)
(***************************************************************************)
EXTENDS Ashmem, LowMemKiller, SequenceTheorems, WellFoundedInduction, TLAPS

-----------------------------------------------------------------------------
(* Induction, as a fact about sets of numbers.                             *)

LEMMA LeastNumber ==
  ASSUME NEW T \in SUBSET Nat, T # {}
  PROVE  \E x \in T : \A y \in T : x <= y
<1>1. PICK x \in T : \A y \in T : ~ (<<y, x>> \in OpToRel(<, Nat))
  BY NatLessThanWellFounded, WFMin, Zenon
<1>2. ASSUME NEW y \in T PROVE x <= y
  <2>1. x \in Nat /\ y \in Nat
    OBVIOUS
  <2>2. ~ (y < x)
    BY <1>1, <1>2, <2>1 DEF OpToRel
  <2> QED
    BY <2>1, <2>2
<1> QED
  BY <1>2

LEMMA MinIs ==
  ASSUME NEW T \in SUBSET Nat, T # {}
  PROVE  Min(T) \in T /\ \A y \in T : Min(T) <= y
<1>1. \E x \in T : \A y \in T : x <= y
  BY LeastNumber
<1> QED
  BY <1>1 DEF Min

\* What holds of zero and goes on from each number to the next holds of all.
LEMMA Upward ==
  ASSUME NEW n \in Nat, NEW T, 0 \in T,
         \A i \in 1 .. n : i - 1 \in T => i \in T
  PROVE  \A i \in 0 .. n : i \in T
<1> DEFINE U == {i \in 0 .. n : i \notin T}
<1>1. SUFFICES ASSUME U # {} PROVE FALSE
  OBVIOUS
<1>2. U \in SUBSET Nat
  OBVIOUS
<1>3. PICK i \in U : \A j \in U : i <= j
  <2> HIDE DEF U
  <2> QED
    BY <1>1, <1>2, LeastNumber
<1>4. i \in 0 .. n /\ i \notin T /\ i # 0
  OBVIOUS
<1>5. i \in 1 .. n /\ i - 1 \in 0 .. n /\ ~ (i <= i - 1)
  BY <1>4
<1>6. i - 1 \in T
  BY <1>3, <1>5
<1> QED
  BY <1>4, <1>5, <1>6

-----------------------------------------------------------------------------
(* The pages on a list.                                                    *)

\* f[i] is the number of pages of the first i ranges.
IsSum(f, list, n) ==
  f = [i \in 0 .. n |-> IF i = 0 THEN 0 ELSE f[i - 1] + range_size(list[i])]

LEMMA SumExists ==
  ASSUME NEW list, NEW n \in Nat
  PROVE  \E f : IsSum(f, list, n)
<1> DEFINE T == {i \in 0 .. n : \E f : IsSum(f, list, i)}
<1>1. 0 \in T
  <2>1. IsSum([i \in 0 .. 0 |-> 0], list, 0)
    BY DEF IsSum
  <2> QED
    BY <2>1
<1>2. ASSUME NEW i \in 1 .. n, i - 1 \in T PROVE i \in T
  <2>1. PICK f : IsSum(f, list, i - 1)
    BY <1>2
  <2> DEFINE g == [j \in 0 .. i |-> IF j = i THEN f[i - 1] + range_size(list[i]) ELSE f[j]]
  <2>2. ASSUME NEW j \in 0 .. i
        PROVE  g[j] = IF j = 0 THEN 0 ELSE g[j - 1] + range_size(list[j])
    <3>1. CASE j = i
      <4>1. j - 1 \in 0 .. i /\ j - 1 # i /\ j # 0
        BY <3>1
      <4>2. g[j - 1] = f[j - 1]
        BY <4>1
      <4> QED
        BY <3>1, <4>1, <4>2
    <3>2. CASE j # i
      <4>1. j \in 0 .. i - 1
        BY <3>2
      <4>2. f[j] = IF j = 0 THEN 0 ELSE f[j - 1] + range_size(list[j])
        BY <4>1, <2>1 DEF IsSum
      <4>3. j # 0 => j - 1 \in 0 .. i /\ j - 1 # i
        BY <4>1
      <4>4. j # 0 => g[j - 1] = f[j - 1]
        BY <4>3
      <4> QED
        BY <3>2, <4>2, <4>4
    <3> QED
      BY <3>1, <3>2
  <2>3. IsSum(g, list, i)
    <3>1. g = [j \in 0 .. i |-> g[j]]
      OBVIOUS
    <3> HIDE DEF g
    <3> QED
      BY <3>1, <2>2 DEF IsSum
  <2> HIDE DEF g
  <2> QED
    BY <2>3
<1>3. n \in T
  <2> HIDE DEF T
  <2> QED
    BY <1>1, <1>2, Upward
<1> QED
  BY <1>3

SumOf(list, n) == CHOOSE f : IsSum(f, list, n)

LEMMA SumIs ==
  ASSUME NEW list, NEW n \in Nat
  PROVE  /\ SumOf(list, n)[0] = 0
         /\ \A i \in 1 .. n : SumOf(list, n)[i] = SumOf(list, n)[i - 1] + range_size(list[i])
<1> DEFINE f == SumOf(list, n)
<1>1. \E g : IsSum(g, list, n)
  BY SumExists
<1>2. IsSum(f, list, n)
  BY <1>1, Zenon DEF SumOf
<1> HIDE DEF f
<1>3. f[0] = 0 /\ \A i \in 1 .. n : f[i] = f[i - 1] + range_size(list[i])
  BY <1>2 DEF IsSum
<1> QED
  BY <1>3 DEF f

LEMMA PagesOnIs ==
  ASSUME NEW list
  PROVE  PagesOn(list) = SumOf(list, Len(list))[Len(list)]
BY DEF PagesOn, SumOf, IsSum

LEMMA AreaSize == size \in Nat /\ size >= 1
BY SizeAssumption

\* A range of pages of an area.
Proper(r) == r \in Range_ /\ r.pgstart <= r.pgend

LEMMA ProperSize ==
  ASSUME NEW r, Proper(r)
  PROVE  /\ range_size(r) \in Nat /\ range_size(r) >= 1
         /\ r.pgstart \in 0 .. size - 1 /\ r.pgend \in 0 .. size - 1 /\ size \in Nat
         /\ r.purged \in BOOLEAN /\ r.asma \in Areas
<1>1. size \in Nat
  BY AreaSize
<1>2. /\ r.asma \in Areas /\ r.pgstart \in 0 .. size /\ r.pgend \in 0 .. size - 1
      /\ r.purged \in BOOLEAN /\ r.pgstart <= r.pgend
  BY DEF Proper, Range_
<1> QED
  BY <1>1, <1>2 DEF range_size

ProperList(list) == list \in Seq(Range_) /\ \A i \in 1 .. Len(list) : Proper(list[i])

LEMMA SumType ==
  ASSUME NEW list, ProperList(list), NEW n \in 0 .. Len(list)
  PROVE  SumOf(list, Len(list))[n] \in Nat
<1> DEFINE f == SumOf(list, Len(list))
           T == {i \in 0 .. Len(list) : f[i] \in Nat}
<1>0. Len(list) \in Nat
  BY DEF ProperList
<1>1. f[0] = 0 /\ \A i \in 1 .. Len(list) : f[i] = f[i - 1] + range_size(list[i])
  BY <1>0, SumIs
<1> HIDE DEF f
<1>2. 0 \in T
  BY <1>0, <1>1
<1>3. ASSUME NEW i \in 1 .. Len(list), i - 1 \in T PROVE i \in T
  <2>1. range_size(list[i]) \in Nat
    BY ProperSize DEF ProperList
  <2> QED
    BY <2>1, <1>0, <1>1, <1>3
<1> HIDE DEF T
<1>4. \A i \in 0 .. Len(list) : i \in T
  BY <1>0, <1>2, <1>3, Upward
<1> QED
  BY <1>4 DEF T, f

LEMMA PagesOnType ==
  ASSUME NEW list, ProperList(list)
  PROVE  PagesOn(list) \in Nat
<1>1. Len(list) \in 0 .. Len(list)
  BY DEF ProperList
<1> QED
  BY <1>1, SumType, PagesOnIs

LEMMA PagesOnEmpty == PagesOn(<<>>) = 0
<1> DEFINE s == <<>>
<1>1. Len(s) = 0
  OBVIOUS
<1> HIDE DEF s
<1>2. SumOf(s, 0)[0] = 0
  BY SumIs
<1>4. PagesOn(s) = 0
  BY <1>1, <1>2, PagesOnIs
<1> QED
  BY <1>4 DEF s

LEMMA PagesOnOne ==
  ASSUME NEW r, Proper(r)
  PROVE  PagesOn(<<r>>) = range_size(r) /\ ProperList(<<r>>)
<1> DEFINE s == <<r>>
<1>1. Len(s) = 1 /\ s[1] = r /\ 1 \in 1 .. 1 /\ s \in Seq(Range_)
  BY DEF Proper
<1>2. ProperList(s)
  BY <1>1 DEF ProperList
<1> HIDE DEF s
<1>3. SumOf(s, 1)[0] = 0 /\ SumOf(s, 1)[1] = SumOf(s, 1)[0] + range_size(s[1])
  <2>1. SumOf(s, 1)[0] = 0 /\ \A i \in 1 .. 1 : SumOf(s, 1)[i] = SumOf(s, 1)[i - 1] + range_size(s[i])
    BY SumIs
  <2>2. 1 \in 1 .. 1 /\ 1 - 1 = 0
    OBVIOUS
  <2> QED
    BY <2>1, <2>2
<1>4. range_size(r) \in Nat
  BY ProperSize
<1>5. PagesOn(s) = range_size(r)
  <2>1. PagesOn(s) = SumOf(s, 1)[1]
    BY <1>1, PagesOnIs
  <2> QED
    BY <1>1, <1>3, <1>4, <2>1
<1> QED
  BY <1>2, <1>5 DEF s

LEMMA PagesOnConcat ==
  ASSUME NEW s, NEW t, ProperList(s), ProperList(t)
  PROVE  ProperList(s \o t) /\ PagesOn(s \o t) = PagesOn(s) + PagesOn(t)
<1> DEFINE u == s \o t
           m == Len(s)
           n == Len(t)
<1>1. m \in Nat /\ n \in Nat /\ s \in Seq(Range_) /\ t \in Seq(Range_)
  BY DEF ProperList
<1>2. /\ u \in Seq(Range_) /\ Len(u) = m + n
      /\ \A i \in 1 .. m : u[i] = s[i]
      /\ \A i \in 1 .. n : u[m + i] = t[i]
  BY <1>1
<1> HIDE DEF u
<1>3. ProperList(u)
  <2>1. ASSUME NEW i \in 1 .. Len(u) PROVE Proper(u[i])
    <3>1. CASE i \in 1 .. m
      BY <3>1, <1>2 DEF ProperList
    <3>2. CASE i \notin 1 .. m
      <4>1. i - m \in 1 .. n /\ m + (i - m) = i
        BY <3>2, <1>1, <1>2
      <4>2. u[i] = t[i - m]
        BY <4>1, <1>2
      <4> QED
        BY <4>1, <4>2 DEF ProperList
    <3> QED
      BY <3>1, <3>2
  <2> QED
    BY <2>1, <1>2 DEF ProperList
<1> DEFINE f == SumOf(s, m)
           g == SumOf(t, n)
           h == SumOf(u, m + n)
           T == {i \in 0 .. m : h[i] = f[i]}
           W == {i \in 0 .. n : h[m + i] = f[m] + g[i]}
<1>4. f[0] = 0 /\ \A i \in 1 .. m : f[i] = f[i - 1] + range_size(s[i])
  BY <1>1, SumIs
<1>5. g[0] = 0 /\ \A i \in 1 .. n : g[i] = g[i - 1] + range_size(t[i])
  BY <1>1, SumIs
<1>6. m + n \in Nat /\ h[0] = 0 /\ \A i \in 1 .. m + n : h[i] = h[i - 1] + range_size(u[i])
  BY <1>1, SumIs
<1>7. /\ \A i \in 0 .. m : f[i] \in Nat
      /\ \A i \in 0 .. n : g[i] \in Nat
  BY SumType
<1> HIDE DEF f, g, h, m, n
<1>8. 0 \in T
  BY <1>1, <1>4, <1>6
<1>9. ASSUME NEW i \in 1 .. m, i - 1 \in T PROVE i \in T
  <2>1. i \in 1 .. m + n
    BY <1>1
  <2> QED
    BY <2>1, <1>2, <1>4, <1>6, <1>9
<1>10. m \in T
  <2> HIDE DEF T
  <2>1. \A i \in 0 .. m : i \in T
    BY <1>1, <1>8, <1>9, Upward
  <2> QED
    BY <2>1, <1>1
<1>11. 0 \in W
  BY <1>1, <1>5, <1>7, <1>10
<1>12. ASSUME NEW i \in 1 .. n, i - 1 \in W PROVE i \in W
  <2>1. m + i \in 1 .. m + n /\ (m + i) - 1 = m + (i - 1)
    BY <1>1
  <2>2. h[m + i] = h[m + (i - 1)] + range_size(t[i])
    BY <2>1, <1>2, <1>6
  <2>3. g[i] = g[i - 1] + range_size(t[i]) /\ f[m] \in Nat /\ g[i - 1] \in Nat
    BY <1>1, <1>5, <1>7
  <2>4. range_size(t[i]) \in Nat
    BY ProperSize DEF ProperList, n
  <2> QED
    BY <1>12, <2>2, <2>3, <2>4
<1>13. n \in W
  <2> HIDE DEF W
  <2>1. \A i \in 0 .. n : i \in W
    BY <1>1, <1>11, <1>12, Upward
  <2> QED
    BY <2>1, <1>1
<1>14. PagesOn(u) = h[m + n] /\ PagesOn(s) = f[m] /\ PagesOn(t) = g[n]
  BY <1>2, PagesOnIs DEF f, g, h, m, n
<1> QED
  BY <1>3, <1>13, <1>14 DEF u

-----------------------------------------------------------------------------
(* What the operations on a list do to it.                                 *)

LEMMA InList ==
  ASSUME NEW S, NEW s \in Seq(S)
  PROVE  /\ \A x : x \in ToSet(s) <=> \E i \in 1 .. Len(s) : s[i] = x
         /\ \A i \in 1 .. Len(s) : s[i] \in ToSet(s)
         /\ IsInjective(s) <=> \A i, j \in 1 .. Len(s) : s[i] = s[j] => i = j
<1>1. DOMAIN s = 1 .. Len(s)
  OBVIOUS
<1> QED
  BY <1>1 DEF ToSet, IsInjective

LEMMA ConcatIs ==
  ASSUME NEW S, NEW s \in Seq(S), NEW t \in Seq(S)
  PROVE  /\ s \o t \in Seq(S) /\ Len(s \o t) = Len(s) + Len(t)
         /\ \A j \in 1 .. Len(s) + Len(t) :
              (s \o t)[j] = IF j <= Len(s) THEN s[j] ELSE t[j - Len(s)]
OBVIOUS

LEMMA PlaceIs ==
  ASSUME NEW S, NEW s \in Seq(S), NEW r \in ToSet(s)
  PROVE  Place(s, r) \in 1 .. Len(s) /\ s[Place(s, r)] = r
<1>1. \E i \in 1 .. Len(s) : s[i] = r
  BY InList
<1> QED
  BY <1>1 DEF Place

\* A list is what comes before a place and what comes from there on.
LEMMA Cut ==
  ASSUME NEW s, ProperList(s), NEW k \in 0 .. Len(s)
  PROVE  /\ ProperList(SubSeq(s, 1, k)) /\ ProperList(SubSeq(s, k + 1, Len(s)))
         /\ Len(SubSeq(s, 1, k)) = k /\ Len(SubSeq(s, k + 1, Len(s))) = Len(s) - k
         /\ \A i \in 1 .. k : SubSeq(s, 1, k)[i] = s[i]
         /\ \A i \in 1 .. Len(s) - k : SubSeq(s, k + 1, Len(s))[i] = s[k + i]
         /\ s = SubSeq(s, 1, k) \o SubSeq(s, k + 1, Len(s))
         /\ PagesOn(s) = PagesOn(SubSeq(s, 1, k)) + PagesOn(SubSeq(s, k + 1, Len(s)))
<1> DEFINE A == SubSeq(s, 1, k)
           B == SubSeq(s, k + 1, Len(s))
<1>1. s \in Seq(Range_) /\ Len(s) \in Nat /\ \A i \in 1 .. Len(s) : s[i] \in Range_ /\ Proper(s[i])
  BY DEF ProperList, Proper
<1>2. /\ A \in Seq(Range_) /\ Len(A) = k /\ \A i \in 1 .. k : A[i] = s[i]
      /\ B \in Seq(Range_) /\ Len(B) = Len(s) - k /\ \A i \in 1 .. Len(s) - k : B[i] = s[k + i]
  <2>1. A \in Seq(Range_) /\ Len(A) = k /\ \A i \in 1 .. k : A[i] = s[i]
    BY <1>1
  <2>2. B \in Seq(Range_) /\ Len(B) = Len(s) - k
    BY <1>1
  <2>3. ASSUME NEW i \in 1 .. Len(s) - k PROVE B[i] = s[k + i]
    BY <1>1
  <2> QED
    BY <2>1, <2>2, <2>3
<1> HIDE DEF A, B
<1>3. s = A \o B
  <2> DEFINE u == A \o B
  <2>1. /\ u \in Seq(Range_) /\ Len(u) = Len(s)
        /\ \A i \in 1 .. Len(s) : u[i] = IF i <= k THEN A[i] ELSE B[i - k]
    BY <1>1, <1>2
  <2> HIDE DEF u
  <2>2. ASSUME NEW i \in 1 .. Len(s) PROVE u[i] = s[i]
    <3>1. CASE i <= k
      BY <3>1, <2>1, <1>1, <1>2
    <3>2. CASE ~ (i <= k)
      <4>1. i - k \in 1 .. Len(s) - k /\ k + (i - k) = i
        BY <3>2, <1>1
      <4> QED
        BY <3>2, <4>1, <2>1, <1>2
    <3> QED
      BY <3>1, <3>2
  <2>3. u = s
    BY <1>1, <2>1, <2>2, SeqEqual
  <2> QED
    BY <2>3 DEF u
<1>4. ProperList(A) /\ ProperList(B)
  <2>1. \A i \in 1 .. Len(A) : Proper(A[i])
    BY <1>1, <1>2
  <2>2. ASSUME NEW i \in 1 .. Len(B) PROVE Proper(B[i])
    <3>1. k + i \in 1 .. Len(s) /\ B[i] = s[k + i]
      BY <1>1, <1>2
    <3> QED
      BY <3>1, <1>1
  <2> QED
    BY <2>1, <2>2, <1>2 DEF ProperList
<1>5. PagesOn(A \o B) = PagesOn(A) + PagesOn(B)
  BY <1>4, PagesOnConcat
<1>6. PagesOn(s) = PagesOn(A) + PagesOn(B)
  BY <1>3, <1>5
<1> QED
  BY <1>2, <1>3, <1>4, <1>6 DEF A, B

\* The list with another range at place i, and without it.
LEMMA Around ==
  ASSUME NEW s, ProperList(s), NEW i \in 1 .. Len(s), NEW x, Proper(x)
  PROVE  LET A == SubSeq(s, 1, i - 1)
             B == SubSeq(s, i + 1, Len(s))
         IN  /\ ProperList(A) /\ ProperList(B)
             /\ Len(A) = i - 1 /\ Len(B) = Len(s) - i
             /\ \A j \in 1 .. i - 1 : A[j] = s[j]
             /\ \A j \in 1 .. Len(s) - i : B[j] = s[i + j]
             /\ PagesOn(A) \in Nat /\ PagesOn(B) \in Nat
             /\ PagesOn(s) = PagesOn(A) + range_size(s[i]) + PagesOn(B)
             /\ PagesOn(A \o (<<x>> \o B)) = PagesOn(A) + range_size(x) + PagesOn(B)
             /\ PagesOn(A \o B) = PagesOn(A) + PagesOn(B)
             /\ ProperList(A \o (<<x>> \o B)) /\ ProperList(A \o B)
<1> DEFINE A == SubSeq(s, 1, i - 1)
           B == SubSeq(s, i + 1, Len(s))
           C == SubSeq(s, i, Len(s))
<1>1. s \in Seq(Range_) /\ Len(s) \in Nat /\ \A j \in 1 .. Len(s) : Proper(s[j])
  BY DEF ProperList
<1>2. /\ ProperList(A) /\ Len(A) = i - 1 /\ \A j \in 1 .. i - 1 : A[j] = s[j]
      /\ ProperList(C) /\ Len(C) = Len(s) - (i - 1)
      /\ \A j \in 1 .. Len(s) - (i - 1) : C[j] = s[(i - 1) + j]
      /\ PagesOn(s) = PagesOn(A) + PagesOn(C)
  <2> DEFINE k == i - 1
  <2>1. k \in 0 .. Len(s) /\ k + 1 = i
    BY <1>1
  <2> HIDE DEF k
  <2>2. /\ ProperList(SubSeq(s, 1, k)) /\ Len(SubSeq(s, 1, k)) = k
        /\ \A j \in 1 .. k : SubSeq(s, 1, k)[j] = s[j]
        /\ ProperList(SubSeq(s, k + 1, Len(s))) /\ Len(SubSeq(s, k + 1, Len(s))) = Len(s) - k
        /\ \A j \in 1 .. Len(s) - k : SubSeq(s, k + 1, Len(s))[j] = s[k + j]
        /\ PagesOn(s) = PagesOn(SubSeq(s, 1, k)) + PagesOn(SubSeq(s, k + 1, Len(s)))
    BY <2>1, Cut
  <2>3. SubSeq(s, k + 1, Len(s)) = C /\ SubSeq(s, 1, k) = A
    BY <2>1 DEF k
  <2>4. i - 1 = k
    BY DEF k
  <2> HIDE DEF A, C
  <2> QED
    BY <2>2, <2>3, <2>4
<1>3. /\ ProperList(B) /\ Len(B) = Len(s) - i
      /\ \A j \in 1 .. Len(s) - i : B[j] = s[i + j]
  <2>1. i \in 0 .. Len(s)
    BY <1>1
  <2> QED
    BY <2>1, Cut
<1> HIDE DEF A, B, C
<1>4. C = <<s[i]>> \o B
  <2> DEFINE u == <<s[i]>> \o B
  <2>1. B \in Seq(Range_) /\ s[i] \in Range_ /\ C \in Seq(Range_)
    BY <1>1, <1>2, <1>3 DEF ProperList, Proper
  <2>2. /\ u \in Seq(Range_) /\ Len(u) = Len(C) /\ u[1] = s[i]
        /\ \A j \in 1 .. Len(B) : u[1 + j] = B[j]
    BY <2>1, <1>1, <1>2, <1>3
  <2> HIDE DEF u
  <2>3. ASSUME NEW j \in 1 .. Len(C) PROVE u[j] = C[j]
    <3>1. C[j] = s[(i - 1) + j] /\ j \in Nat
      BY <1>1, <1>2
    <3>2. CASE j = 1
      BY <3>1, <3>2, <2>2, <1>1
    <3>3. CASE j # 1
      <4>1. j - 1 \in 1 .. Len(B) /\ 1 + (j - 1) = j /\ i + (j - 1) = (i - 1) + j
        BY <3>3, <1>1, <1>2, <1>3
      <4>2. B[j - 1] = s[i + (j - 1)]
        BY <4>1, <1>3
      <4> QED
        BY <4>1, <4>2, <3>1, <2>2
    <3> QED
      BY <3>2, <3>3
  <2>4. C = u
    BY <2>1, <2>2, <2>3, SeqEqual
  <2> QED
    BY <2>4 DEF u
<1>5. /\ ProperList(<<x>>) /\ PagesOn(<<x>>) = range_size(x)
      /\ PagesOn(<<s[i]>>) = range_size(s[i]) /\ ProperList(<<s[i]>>)
  BY <1>1, PagesOnOne
<1>6. ProperList(<<x>> \o B) /\ PagesOn(<<x>> \o B) = range_size(x) + PagesOn(B)
  BY <1>3, <1>5, PagesOnConcat
<1>7. PagesOn(C) = range_size(s[i]) + PagesOn(B)
  BY <1>3, <1>4, <1>5, PagesOnConcat
<1>8. PagesOn(A \o (<<x>> \o B)) = PagesOn(A) + (range_size(x) + PagesOn(B))
      /\ ProperList(A \o (<<x>> \o B))
  BY <1>2, <1>6, PagesOnConcat
<1>9. PagesOn(A \o B) = PagesOn(A) + PagesOn(B) /\ ProperList(A \o B)
  BY <1>2, <1>3, PagesOnConcat
<1>10. /\ PagesOn(A) \in Nat /\ PagesOn(B) \in Nat
       /\ range_size(x) \in Nat /\ range_size(s[i]) \in Nat
  BY <1>1, <1>2, <1>3, PagesOnType, ProperSize
<1>11. /\ PagesOn(s) = PagesOn(A) + range_size(s[i]) + PagesOn(B)
       /\ PagesOn(A \o (<<x>> \o B)) = PagesOn(A) + range_size(x) + PagesOn(B)
  BY <1>2, <1>7, <1>8, <1>10
<1> QED
  BY <1>2, <1>3, <1>8, <1>9, <1>10, <1>11 DEF A, B

LEMMA Removed ==
  ASSUME NEW s, ProperList(s), IsInjective(s), NEW i \in 1 .. Len(s)
  PROVE  /\ ProperList(RemoveAt(s, i)) /\ IsInjective(RemoveAt(s, i))
         /\ Len(RemoveAt(s, i)) = Len(s) - 1
         /\ \A j \in 1 .. Len(s) - 1 : RemoveAt(s, i)[j] = IF j < i THEN s[j] ELSE s[j + 1]
         /\ ToSet(RemoveAt(s, i)) = ToSet(s) \ {s[i]}
         /\ PagesOn(RemoveAt(s, i)) = PagesOn(s) - range_size(s[i])
<1> DEFINE A == SubSeq(s, 1, i - 1)
           B == SubSeq(s, i + 1, Len(s))
           R == RemoveAt(s, i)
           n == Len(s)
<1>1. s \in Seq(Range_) /\ n \in Nat /\ Proper(s[i])
  BY DEF ProperList
<1>2. /\ ProperList(A) /\ ProperList(B) /\ Len(A) = i - 1 /\ Len(B) = n - i
      /\ \A j \in 1 .. i - 1 : A[j] = s[j]
      /\ \A j \in 1 .. n - i : B[j] = s[i + j]
      /\ PagesOn(A) \in Nat /\ PagesOn(B) \in Nat
      /\ PagesOn(s) = PagesOn(A) + range_size(s[i]) + PagesOn(B)
      /\ PagesOn(A \o B) = PagesOn(A) + PagesOn(B) /\ ProperList(A \o B)
  BY <1>1, Around
<1>3. R = A \o B
  BY DEF RemoveAt
<1>4. range_size(s[i]) \in Nat
  BY <1>1, ProperSize
<1> HIDE DEF A, B, R, n
<1>5. PagesOn(R) = PagesOn(s) - range_size(s[i]) /\ ProperList(R)
  BY <1>2, <1>3, <1>4
<1>6. /\ Len(R) = n - 1
      /\ \A j \in 1 .. n - 1 : R[j] = IF j <= i - 1 THEN A[j] ELSE B[j - (i - 1)]
  <2>1. A \in Seq(Range_) /\ B \in Seq(Range_) /\ i \in 1 .. n
    BY <1>2 DEF ProperList, n
  <2>2. /\ Len(A \o B) = Len(A) + Len(B)
        /\ \A j \in 1 .. Len(A) + Len(B) :
             (A \o B)[j] = IF j <= Len(A) THEN A[j] ELSE B[j - Len(A)]
    BY <2>1, ConcatIs
  <2>3. Len(A) = i - 1 /\ Len(A) + Len(B) = n - 1
    BY <2>1, <1>1, <1>2
  <2> QED
    BY <2>2, <2>3, <1>3
<1>7. ASSUME NEW j \in 1 .. n - 1 PROVE R[j] = IF j < i THEN s[j] ELSE s[j + 1]
  <2>0. i \in 1 .. n
    BY DEF n
  <2>1. CASE j < i
    <3>1. j \in 1 .. i - 1 /\ j <= i - 1
      BY <2>0, <2>1, <1>1
    <3> QED
      BY <2>1, <3>1, <1>2, <1>6
  <2>2. CASE ~ (j < i)
    <3>1. j - (i - 1) \in 1 .. n - i /\ i + (j - (i - 1)) = j + 1 /\ ~ (j <= i - 1)
      BY <2>0, <2>2, <1>1
    <3>2. B[j - (i - 1)] = s[i + (j - (i - 1))]
      BY <3>1, <1>2
    <3> QED
      BY <2>2, <3>1, <3>2, <1>6
  <2> QED
    BY <2>1, <2>2
<1>8. R \in Seq(Range_)
  BY <1>5 DEF ProperList
<1>9. \A j, k \in 1 .. n : s[j] = s[k] => j = k
  BY <1>1, InList DEF n
<1>10. i \in 1 .. n
  BY DEF n
<1>11. IsInjective(R)
  <2>1. SUFFICES ASSUME NEW j \in 1 .. n - 1, NEW k \in 1 .. n - 1, R[j] = R[k] PROVE j = k
    BY <1>6, <1>8, InList
  <2> DEFINE p == IF j < i THEN j ELSE j + 1
             q == IF k < i THEN k ELSE k + 1
  <2>2. p \in 1 .. n /\ q \in 1 .. n /\ R[j] = s[p] /\ R[k] = s[q]
    BY <1>1, <1>7, <1>10
  <2>3. p = q
    BY <1>9, <2>1, <2>2
  <2> QED
    BY <2>3, <1>1, <1>10
<1>12. ToSet(R) = ToSet(s) \ {s[i]}
  <2>1. ASSUME NEW x \in ToSet(R) PROVE x \in ToSet(s) /\ x # s[i]
    <3>1. PICK j \in 1 .. n - 1 : R[j] = x
      BY <1>6, <1>8, InList
    <3> DEFINE p == IF j < i THEN j ELSE j + 1
    <3>2. p \in 1 .. n /\ p # i /\ x = s[p]
      BY <3>1, <1>1, <1>7, <1>10
    <3> HIDE DEF p
    <3>3. s[p] # s[i]
      BY <3>2, <1>9, <1>10
    <3> QED
      BY <3>2, <3>3, <1>1, InList DEF n
  <2>2. ASSUME NEW x \in ToSet(s), x # s[i] PROVE x \in ToSet(R)
    <3>1. PICK p \in 1 .. n : s[p] = x
      BY <1>1, InList DEF n
    <3> DEFINE j == IF p < i THEN p ELSE p - 1
    <3>2. p # i
      BY <2>2, <3>1
    <3>3. j \in 1 .. n - 1
      BY <3>2, <1>1, <1>10
    <3>4. R[j] = x
      <4>1. CASE p < i
        BY <4>1, <3>1, <3>3, <1>7
      <4>2. CASE ~ (p < i)
        <5>1. ~ (p - 1 < i) /\ (p - 1) + 1 = p /\ p - 1 \in 1 .. n - 1
          BY <3>2, <4>2, <1>1, <1>10
        <5>2. R[p - 1] = s[(p - 1) + 1]
          BY <5>1, <1>7
        <5> QED
          BY <4>2, <5>1, <5>2, <3>1
      <4> QED
        BY <4>1, <4>2
    <3> HIDE DEF j
    <3> QED
      BY <3>3, <3>4, <1>6, <1>8, InList
  <2> QED
    BY <2>1, <2>2
<1> QED
  BY <1>5, <1>6, <1>7, <1>11, <1>12 DEF R, n

LEMMA Replaced ==
  ASSUME NEW s, ProperList(s), IsInjective(s), NEW old \in ToSet(s),
         NEW new, Proper(new), new \notin ToSet(s)
  PROVE  /\ ProperList(ReplaceAll(s, old, new)) /\ IsInjective(ReplaceAll(s, old, new))
         /\ Len(ReplaceAll(s, old, new)) = Len(s)
         /\ \A j \in 1 .. Len(s) : ReplaceAll(s, old, new)[j] = IF s[j] = old THEN new ELSE s[j]
         /\ ToSet(ReplaceAll(s, old, new)) = (ToSet(s) \ {old}) \cup {new}
         /\ PagesOn(ReplaceAll(s, old, new)) = PagesOn(s) - (range_size(old) - range_size(new))
<1> DEFINE R == ReplaceAll(s, old, new)
           n == Len(s)
<1>1. s \in Seq(Range_) /\ n \in Nat /\ \A j \in 1 .. n : Proper(s[j]) /\ s[j] \in Range_
  BY DEF ProperList, Proper
<1>2. new \in Range_
  BY DEF Proper
<1>3. /\ R \in Seq(Range_) /\ Len(R) = n
      /\ \A j \in 1 .. n : R[j] = IF s[j] = old THEN new ELSE s[j]
  BY <1>1, <1>2 DEF ReplaceAll
<1>4. PICK i \in 1 .. n : s[i] = old
  BY <1>1, InList
<1>5. \A j, k \in 1 .. n : s[j] = s[k] => j = k
  BY <1>1, InList
<1>6. \A j \in 1 .. n : s[j] # new
  BY <1>1, InList
<1> HIDE DEF R
<1>7. ProperList(R)
  <2>1. ASSUME NEW j \in 1 .. n PROVE Proper(R[j])
    BY <1>1, <1>3
  <2> QED
    BY <2>1, <1>3 DEF ProperList
<1>8. IsInjective(R)
  <2>1. SUFFICES ASSUME NEW j \in 1 .. n, NEW k \in 1 .. n, R[j] = R[k] PROVE j = k
    BY <1>3, InList
  <2> QED
    BY <2>1, <1>3, <1>4, <1>5, <1>6
<1>9. ToSet(R) = (ToSet(s) \ {old}) \cup {new}
  <2>1. \A x : x \in ToSet(R) <=> \E j \in 1 .. n : R[j] = x
    BY <1>3, InList
  <2>2. \A x : x \in ToSet(s) <=> \E j \in 1 .. n : s[j] = x
    BY <1>1, InList
  <2>3. ASSUME NEW x \in ToSet(R) PROVE x \in (ToSet(s) \ {old}) \cup {new}
    BY <2>1, <2>2, <1>3
  <2>4. ASSUME NEW x \in (ToSet(s) \ {old}) \cup {new} PROVE x \in ToSet(R)
    <3>1. CASE x = new
      BY <3>1, <2>1, <1>3, <1>4
    <3>2. CASE x # new
      <4>1. PICK j \in 1 .. n : s[j] = x
        BY <3>2, <2>2
      <4>2. R[j] = x
        BY <4>1, <3>2, <2>4, <1>3
      <4> QED
        BY <4>2, <2>1
    <3> QED
      BY <3>1, <3>2
  <2> QED
    BY <2>3, <2>4
<1>10. PagesOn(R) = PagesOn(s) - (range_size(old) - range_size(new))
  <2> DEFINE A == SubSeq(s, 1, i - 1)
             B == SubSeq(s, i + 1, n)
             N == <<new>> \o B
             u == A \o N
  <2>1. /\ ProperList(A) /\ ProperList(B) /\ Len(A) = i - 1 /\ Len(B) = n - i
        /\ \A j \in 1 .. i - 1 : A[j] = s[j]
        /\ \A j \in 1 .. n - i : B[j] = s[i + j]
        /\ PagesOn(A) \in Nat /\ PagesOn(B) \in Nat
        /\ PagesOn(s) = PagesOn(A) + range_size(s[i]) + PagesOn(B)
        /\ PagesOn(u) = PagesOn(A) + range_size(new) + PagesOn(B)
    BY <1>1, Around
  <2> HIDE DEF A, B
  <2>2. A \in Seq(Range_) /\ B \in Seq(Range_)
    BY <2>1 DEF ProperList
  <2>3. /\ N \in Seq(Range_) /\ Len(N) = (n - i) + 1 /\ N[1] = new
        /\ \A j \in 1 .. n - i : N[1 + j] = B[j]
    <3>1. <<new>> \in Seq(Range_) /\ Len(<<new>>) = 1 /\ <<new>>[1] = new
      BY <1>2
    <3>2. /\ N \in Seq(Range_) /\ Len(N) = 1 + Len(B)
          /\ \A j \in 1 .. 1 + Len(B) : N[j] = IF j <= 1 THEN <<new>>[j] ELSE B[j - 1]
      BY <3>1, <2>2, ConcatIs
    <3> HIDE DEF N
    <3>3. Len(B) = n - i /\ n - i \in Nat /\ n \in Nat /\ i \in 1 .. n
      BY <2>1, <1>1
    <3>4. N[1] = new
      BY <3>1, <3>2, <3>3
    <3>5. ASSUME NEW j \in 1 .. n - i PROVE N[1 + j] = B[j]
      <4>1. 1 + j \in 1 .. 1 + Len(B) /\ ~ (1 + j <= 1) /\ (1 + j) - 1 = j
        BY <3>3
      <4> QED
        BY <4>1, <3>2
    <3> QED
      BY <3>2, <3>3, <3>4, <3>5
  <2> HIDE DEF N
  <2>4. /\ u \in Seq(Range_) /\ Len(u) = n
        /\ \A j \in 1 .. n : u[j] = IF j <= i - 1 THEN A[j] ELSE N[j - (i - 1)]
    <3>1. Len(A) = i - 1 /\ Len(N) = (n - i) + 1 /\ n \in Nat /\ i \in 1 .. n
      BY <2>1, <2>3, <1>1
    <3>2. /\ u \in Seq(Range_) /\ Len(u) = Len(A) + Len(N)
          /\ \A j \in 1 .. Len(A) + Len(N) : u[j] = IF j <= Len(A) THEN A[j] ELSE N[j - Len(A)]
      BY <2>2, <2>3, ConcatIs
    <3> HIDE DEF u
    <3>3. Len(A) + Len(N) = n
      BY <3>1
    <3> QED
      BY <3>1, <3>2, <3>3
  <2> HIDE DEF u
  <2>5. ASSUME NEW j \in 1 .. n PROVE u[j] = R[j]
    <3>1. CASE j < i
      <4>1. j \in 1 .. i - 1 /\ j <= i - 1 /\ j # i
        BY <3>1, <1>1
      <4>2. R[j] = s[j]
        BY <4>1, <1>3, <1>4, <1>5
      <4> QED
        BY <4>1, <4>2, <2>1, <2>4
    <3>2. CASE j = i
      <4>1. ~ (j <= i - 1) /\ j - (i - 1) = 1
        BY <3>2, <1>1
      <4> QED
        BY <3>2, <4>1, <2>3, <2>4, <1>3, <1>4
    <3>3. CASE j > i
      <4> DEFINE k == j - i
      <4>1. ~ (j <= i - 1) /\ j - (i - 1) = 1 + k /\ k \in 1 .. n - i /\ i + k = j /\ j # i
        BY <3>3, <1>1
      <4> HIDE DEF k
      <4>2. R[j] = s[j]
        BY <4>1, <1>3, <1>4, <1>5
      <4>3. u[j] = N[1 + k]
        BY <4>1, <2>4
      <4>4. N[1 + k] = B[k]
        BY <4>1, <2>3
      <4>5. B[k] = s[i + k]
        BY <4>1, <2>1
      <4> QED
        BY <4>1, <4>2, <4>3, <4>4, <4>5
    <3> QED
      BY <3>1, <3>2, <3>3, <1>1
  <2>6. u = R
    BY <2>4, <2>5, <1>3, SeqEqual
  <2>7. range_size(old) \in Nat /\ range_size(new) \in Nat
    BY <1>1, <1>4, ProperSize
  <2> QED
    BY <2>1, <2>6, <2>7, <1>4
<1> QED
  BY <1>3, <1>7, <1>8, <1>9, <1>10 DEF R

LEMMA Inserted ==
  ASSUME NEW s, ProperList(s), NEW i \in 1 .. Len(s) + 1, NEW x, Proper(x)
  PROVE  /\ ProperList(InsertAt(s, i, x))
         /\ Len(InsertAt(s, i, x)) = Len(s) + 1
         /\ \A j \in 1 .. Len(s) + 1 :
              InsertAt(s, i, x)[j] = IF j < i THEN s[j] ELSE IF j = i THEN x ELSE s[j - 1]
         /\ ToSet(InsertAt(s, i, x)) = ToSet(s) \cup {x}
<1> DEFINE k == i - 1
           A == SubSeq(s, 1, k)
           C == SubSeq(s, k + 1, Len(s))
           n == Len(s)
           M == A \o <<x>>
           R == M \o C
<1>1. s \in Seq(Range_) /\ n \in Nat /\ x \in Range_ /\ k \in 0 .. n /\ k + 1 = i
  BY DEF ProperList, Proper
<1>2. InsertAt(s, i, x) = R
  BY <1>1 DEF InsertAt
<1> HIDE DEF k, n
<1>3. /\ ProperList(A) /\ ProperList(C) /\ Len(A) = k /\ Len(C) = n - k
      /\ \A j \in 1 .. k : A[j] = s[j]
      /\ \A j \in 1 .. n - k : C[j] = s[k + j]
  BY <1>1, Cut DEF n
<1> HIDE DEF A, C
<1>4. A \in Seq(Range_) /\ C \in Seq(Range_)
  BY <1>3 DEF ProperList
<1>5. /\ M \in Seq(Range_) /\ Len(M) = i /\ M[i] = x
      /\ \A j \in 1 .. k : M[j] = s[j]
  BY <1>1, <1>3, <1>4
<1>6. ProperList(R)
  <2>1. ProperList(<<x>>)
    BY PagesOnOne
  <2>2. ProperList(M)
    BY <2>1, <1>3, PagesOnConcat
  <2> HIDE DEF M
  <2> QED
    BY <2>2, <1>3, PagesOnConcat
<1> HIDE DEF M
<1>7. /\ R \in Seq(Range_) /\ Len(R) = n + 1
      /\ \A j \in 1 .. n + 1 : R[j] = IF j <= i THEN M[j] ELSE C[j - i]
  <2>1. /\ R \in Seq(Range_) /\ Len(R) = Len(M) + Len(C)
        /\ \A j \in 1 .. Len(M) + Len(C) : R[j] = IF j <= Len(M) THEN M[j] ELSE C[j - Len(M)]
    BY <1>4, <1>5, ConcatIs
  <2>2. Len(M) = i /\ Len(M) + Len(C) = n + 1
    BY <1>1, <1>3, <1>5
  <2> HIDE DEF R
  <2> QED
    BY <2>1, <2>2
<1> HIDE DEF R
<1>8. ASSUME NEW j \in 1 .. n + 1
      PROVE  R[j] = IF j < i THEN s[j] ELSE IF j = i THEN x ELSE s[j - 1]
  <2>1. CASE j < i
    <3>1. j \in 1 .. k /\ j <= i
      BY <2>1, <1>1
    <3> QED
      BY <2>1, <3>1, <1>5, <1>7
  <2>2. CASE j = i
    BY <2>2, <1>1, <1>5, <1>7
  <2>3. CASE j > i
    <3>1. j - i \in 1 .. n - k /\ k + (j - i) = j - 1 /\ ~ (j <= i) /\ ~ (j < i) /\ j # i
      BY <2>3, <1>1
    <3>2. C[j - i] = s[k + (j - i)]
      BY <3>1, <1>3
    <3> QED
      BY <3>1, <3>2, <1>7
  <2> QED
    BY <2>1, <2>2, <2>3, <1>1
<1>9. ToSet(R) = ToSet(s) \cup {x}
  <2>1. \A y : y \in ToSet(R) <=> \E j \in 1 .. n + 1 : R[j] = y
    BY <1>7, InList
  <2>2. \A y : y \in ToSet(s) <=> \E j \in 1 .. n : s[j] = y
    BY <1>1, InList DEF n
  <2>3. ASSUME NEW y \in ToSet(R) PROVE y \in ToSet(s) \cup {x}
    <3>1. PICK j \in 1 .. n + 1 : R[j] = y
      BY <2>1
    <3>2. CASE j < i
      <4>1. j \in 1 .. n
        BY <3>2, <1>1
      <4> QED
        BY <3>1, <3>2, <4>1, <2>2, <1>8
    <3>3. CASE j = i
      BY <3>1, <3>3, <1>8, <1>1
    <3>4. CASE j > i
      <4>1. j - 1 \in 1 .. n /\ ~ (j < i) /\ j # i
        BY <3>4, <1>1
      <4> QED
        BY <3>1, <4>1, <2>2, <1>8
    <3> QED
      BY <3>2, <3>3, <3>4, <1>1
  <2>4. ASSUME NEW y \in ToSet(s) PROVE y \in ToSet(R)
    <3>1. PICK j \in 1 .. n : s[j] = y
      BY <2>2
    <3>2. CASE j < i
      <4>1. j \in 1 .. n + 1
        BY <1>1
      <4> QED
        BY <3>1, <3>2, <4>1, <2>1, <1>8
    <3>3. CASE ~ (j < i)
      <4>1. j + 1 \in 1 .. n + 1 /\ ~ (j + 1 < i) /\ j + 1 # i /\ (j + 1) - 1 = j
        BY <3>3, <1>1
      <4>2. R[j + 1] = s[(j + 1) - 1]
        BY <4>1, <1>8
      <4> QED
        BY <3>1, <4>1, <4>2, <2>1
    <3> QED
      BY <3>2, <3>3
  <2>5. x \in ToSet(R)
    <3>1. i \in 1 .. n + 1 /\ ~ (i < i)
      BY <1>1
    <3> QED
      BY <3>1, <2>1, <1>8
  <2> QED
    BY <2>3, <2>4, <2>5
<1> QED
  BY <1>2, <1>6, <1>7, <1>8, <1>9 DEF n

LEMMA Appended ==
  ASSUME NEW s, ProperList(s), IsInjective(s), NEW x, Proper(x), x \notin ToSet(s)
  PROVE  /\ ProperList(Append(s, x)) /\ IsInjective(Append(s, x))
         /\ ToSet(Append(s, x)) = ToSet(s) \cup {x}
         /\ PagesOn(Append(s, x)) = PagesOn(s) + range_size(x)
<1> DEFINE R == Append(s, x)
           n == Len(s)
<1>1. s \in Seq(Range_) /\ n \in Nat /\ x \in Range_
  BY DEF ProperList, Proper
<1>2. R = s \o <<x>>
  BY <1>1
<1>3. ProperList(<<x>>) /\ PagesOn(<<x>>) = range_size(x)
  BY PagesOnOne
<1>4. ProperList(s \o <<x>>) /\ PagesOn(s \o <<x>>) = PagesOn(s) + range_size(x)
  BY <1>3, PagesOnConcat
<1>5. /\ R \in Seq(Range_) /\ Len(R) = n + 1 /\ R[n + 1] = x
      /\ \A j \in 1 .. n : R[j] = s[j]
  BY <1>1
<1> HIDE DEF R
<1>6. /\ \A y : y \in ToSet(R) <=> \E j \in 1 .. n + 1 : R[j] = y
      /\ IsInjective(R) <=> \A j, k \in 1 .. n + 1 : R[j] = R[k] => j = k
  BY <1>5, InList
<1>7. /\ \A y : y \in ToSet(s) <=> \E j \in 1 .. n : s[j] = y
      /\ \A j, k \in 1 .. n : s[j] = s[k] => j = k
  BY <1>1, InList
<1> HIDE DEF n
<1>8. \A j \in 1 .. n + 1 : j \in 1 .. n \/ j = n + 1
  BY <1>1
<1>9. \A j \in 1 .. n : s[j] # x /\ j \in 1 .. n + 1
  BY <1>1, <1>7
<1>10. IsInjective(R)
  <2>1. SUFFICES ASSUME NEW j \in 1 .. n + 1, NEW k \in 1 .. n + 1, R[j] = R[k] PROVE j = k
    BY <1>6
  <2>2. j \in 1 .. n \/ j = n + 1
    BY <1>8
  <2>3. k \in 1 .. n \/ k = n + 1
    BY <1>8
  <2> QED
    BY <2>1, <2>2, <2>3, <1>5, <1>7, <1>9
<1>11. ToSet(R) = ToSet(s) \cup {x}
  <2>1. n + 1 \in 1 .. n + 1
    BY <1>1
  <2> QED
    BY <2>1, <1>5, <1>6, <1>7, <1>8, <1>9
<1> QED
  BY <1>2, <1>4, <1>10, <1>11 DEF R

-----------------------------------------------------------------------------
(* The lists of a call.                                                    *)

Sorted(list) == \A i, j \in 1 .. Len(list) : i < j => list[j].pgend < list[i].pgstart

\* O are the ranges of other areas that are on the LRU.
Loose(l, a, O) ==
  /\ ProperList(l.unpinned) /\ IsInjective(l.unpinned)
  /\ \A x \in ToSet(l.unpinned) : x.asma = a
  /\ ProperList(l.lru) /\ IsInjective(l.lru)
  /\ ToSet(l.lru) = O \cup {x \in ToSet(l.unpinned) : ~x.purged}
  /\ l.count = PagesOn(l.lru)

Consistent(l, a, O) == Loose(l, a, O) /\ Sorted(l.unpinned)

Others(O, a) == \A x \in O : x.asma # a

Apart(x, y) == x.pgend < y.pgstart \/ y.pgend < x.pgstart

LEMMA Members ==
  ASSUME NEW list, ProperList(list)
  PROVE  /\ list \in Seq(Range_) /\ Len(list) \in Nat
         /\ \A x \in ToSet(list) : Proper(x) /\ \E i \in 1 .. Len(list) : list[i] = x
         /\ \A i \in 1 .. Len(list) : list[i] \in ToSet(list) /\ Proper(list[i])
         /\ \A i \in 1 .. Len(list) : list[i].pgstart \in Int /\ list[i].pgend \in Int
                                      /\ list[i].pgstart <= list[i].pgend
<1>1. list \in Seq(Range_) /\ \A i \in 1 .. Len(list) : Proper(list[i])
  BY DEF ProperList
<1>2. \A i \in 1 .. Len(list) : list[i].pgstart \in Int /\ list[i].pgend \in Int
                                /\ list[i].pgstart <= list[i].pgend
  BY <1>1, ProperSize DEF Proper
<1> QED
  BY <1>1, <1>2, InList

LEMMA SortedApart ==
  ASSUME NEW list, ProperList(list), Sorted(list)
  PROVE  \A x, y \in ToSet(list) : x # y => Apart(x, y)
<1>1. SUFFICES ASSUME NEW i \in 1 .. Len(list), NEW j \in 1 .. Len(list), list[i] # list[j]
               PROVE  Apart(list[i], list[j])
  BY Members
<1>2. i < j \/ j < i
  BY <1>1
<1> QED
  BY <1>2 DEF Sorted, Apart

LEMMA SortedInjective ==
  ASSUME NEW list, ProperList(list), Sorted(list)
  PROVE  IsInjective(list)
<1>1. SUFFICES ASSUME NEW i \in 1 .. Len(list), NEW j \in 1 .. Len(list), list[i] = list[j]
               PROVE  i = j
  BY Members, InList
<1>2. list[i].pgstart \in Int /\ list[i].pgend \in Int /\ list[i].pgstart <= list[i].pgend
  BY Members
<1> QED
  BY <1>1, <1>2 DEF Sorted

\* v is u without one of its places.
Skips(v, u) ==
  \E i \in 1 .. Len(u) : \A j \in 1 .. Len(u) - 1 : v[j] = IF j < i THEN u[j] ELSE u[j + 1]

LEMMA DelLoose ==
  ASSUME NEW a, NEW O, Others(O, a), NEW l, Loose(l, a, O), NEW r \in ToSet(l.unpinned)
  PROVE  /\ Loose(range_del(l, r), a, O)
         /\ ToSet(range_del(l, r).unpinned) = ToSet(l.unpinned) \ {r}
         /\ Len(range_del(l, r).unpinned) = Len(l.unpinned) - 1
         /\ Skips(range_del(l, r).unpinned, l.unpinned)
<1> DEFINE u == l.unpinned
           m == range_del(l, r)
           i == Place(u, r)
           k == Place(l.lru, r)
<1>1. /\ ProperList(u) /\ IsInjective(u) /\ \A x \in ToSet(u) : x.asma = a
      /\ ProperList(l.lru) /\ IsInjective(l.lru)
      /\ ToSet(l.lru) = O \cup {x \in ToSet(u) : ~x.purged}
      /\ l.count = PagesOn(l.lru)
  BY DEF Loose
<1>2. /\ m.unpinned = RemoveAt(u, i)
      /\ m.lru = IF r.purged THEN l.lru ELSE RemoveAt(l.lru, k)
      /\ m.count = IF r.purged THEN l.count ELSE l.count - range_size(r)
  BY DEF range_del
<1>3. i \in 1 .. Len(u) /\ u[i] = r
  BY <1>1, PlaceIs DEF ProperList
<1> HIDE DEF i, m, u
<1>4. /\ ProperList(m.unpinned) /\ IsInjective(m.unpinned)
      /\ Len(m.unpinned) = Len(u) - 1
      /\ \A j \in 1 .. Len(u) - 1 : m.unpinned[j] = IF j < i THEN u[j] ELSE u[j + 1]
      /\ ToSet(m.unpinned) = ToSet(u) \ {r}
  BY <1>1, <1>2, <1>3, Removed
<1>5. r \notin O
  BY <1>1 DEF u, Others
<1>6. /\ ProperList(m.lru) /\ IsInjective(m.lru) /\ m.count = PagesOn(m.lru)
      /\ ToSet(m.lru) = O \cup {x \in ToSet(m.unpinned) : ~x.purged}
  <2>1. CASE r.purged
    BY <2>1, <1>1, <1>2, <1>4
  <2>2. CASE ~r.purged
    <3>1. r \in ToSet(l.lru)
      BY <2>2, <1>1 DEF u
    <3>2. k \in 1 .. Len(l.lru) /\ l.lru[k] = r
      BY <1>1, <3>1, PlaceIs DEF ProperList
    <3> HIDE DEF k
    <3>3. /\ ProperList(m.lru) /\ IsInjective(m.lru)
          /\ ToSet(m.lru) = ToSet(l.lru) \ {r}
          /\ PagesOn(m.lru) = PagesOn(l.lru) - range_size(r)
      BY <2>2, <3>2, <1>1, <1>2, Removed
    <3>4. ToSet(m.lru) = O \cup {x \in ToSet(m.unpinned) : ~x.purged}
      BY <3>3, <1>1, <1>4, <1>5
    <3> QED
      BY <2>2, <3>3, <3>4, <1>1, <1>2
  <2> QED
    BY <2>1, <2>2
<1>7. Loose(m, a, O)
  BY <1>1, <1>4, <1>6 DEF Loose
<1>8. Skips(m.unpinned, u)
  BY <1>3, <1>4 DEF Skips
<1> QED
  BY <1>4, <1>7, <1>8 DEF m, u

LEMMA DelKeeps ==
  ASSUME NEW a, NEW O, Others(O, a), NEW l, Consistent(l, a, O), NEW r \in ToSet(l.unpinned)
  PROVE  /\ Consistent(range_del(l, r), a, O)
         /\ ToSet(range_del(l, r).unpinned) = ToSet(l.unpinned) \ {r}
         /\ Len(range_del(l, r).unpinned) = Len(l.unpinned) - 1
<1> DEFINE u == l.unpinned
           v == range_del(l, r).unpinned
           n == Len(u)
<1>1. Loose(l, a, O) /\ Sorted(u) /\ ProperList(u)
  BY DEF Consistent, Loose
<1>2. /\ Loose(range_del(l, r), a, O) /\ ToSet(v) = ToSet(u) \ {r} /\ Len(v) = n - 1
      /\ Skips(v, u)
  BY <1>1, DelLoose
<1>3. n \in Nat
  BY <1>1, Members
<1> HIDE DEF v
<1>4. PICK i \in 1 .. n : \A j \in 1 .. n - 1 : v[j] = IF j < i THEN u[j] ELSE u[j + 1]
  BY <1>2 DEF Skips
<1> HIDE DEF n
<1>5. Sorted(v)
  <2>1. SUFFICES ASSUME NEW j \in 1 .. n - 1, NEW k \in 1 .. n - 1, j < k
                 PROVE  v[k].pgend < v[j].pgstart
    BY <1>2 DEF Sorted
  <2> DEFINE p == IF j < i THEN j ELSE j + 1
             q == IF k < i THEN k ELSE k + 1
  <2>2. p \in 1 .. n /\ q \in 1 .. n /\ p < q /\ v[j] = u[p] /\ v[k] = u[q]
    BY <2>1, <1>3, <1>4
  <2> HIDE DEF p, q
  <2> QED
    BY <2>2, <1>1 DEF Sorted, n
<1> QED
  BY <1>2, <1>5 DEF Consistent, v, n

\* r with other pages.
Resized(r, s, e) == [r EXCEPT !.pgstart = s, !.pgend = e]

LEMMA ResizedIs ==
  ASSUME NEW r, Proper(r), NEW s \in Int, NEW e \in Int, r.pgstart <= s, s <= e, e <= r.pgend
  PROVE  /\ Proper(Resized(r, s, e)) /\ Resized(r, s, e).asma = r.asma
         /\ Resized(r, s, e).purged = r.purged
         /\ Resized(r, s, e).pgstart = s /\ Resized(r, s, e).pgend = e
         /\ Resized(r, s, e) = r => s = r.pgstart /\ e = r.pgend
<1> DEFINE x == Resized(r, s, e)
<1>1. /\ r.asma \in Areas /\ r.pgstart \in 0 .. size - 1 /\ r.pgend \in 0 .. size - 1
      /\ r.purged \in BOOLEAN /\ r \in Range_ /\ size \in Nat
  BY ProperSize DEF Proper
<1>2. s \in 0 .. size /\ e \in 0 .. size - 1
  BY <1>1
<1>3. x \in Range_ /\ x.asma = r.asma /\ x.purged = r.purged /\ x.pgstart = s /\ x.pgend = e
  BY <1>1, <1>2 DEF Range_, Resized
<1> HIDE DEF x
<1>4. Proper(x)
  BY <1>3 DEF Proper
<1>5. x = r => s = r.pgstart /\ e = r.pgend
  BY <1>3
<1> QED
  BY <1>3, <1>4, <1>5 DEF x

LEMMA ShrinkLoose ==
  ASSUME NEW a, NEW O, Others(O, a), NEW l, Loose(l, a, O), NEW r \in ToSet(l.unpinned),
         NEW s \in Int, NEW e \in Int, r.pgstart <= s, s <= e, e <= r.pgend,
         Resized(r, s, e) \notin ToSet(l.unpinned)
  PROVE  /\ Loose(range_shrink(l, r, s, e), a, O)
         /\ ToSet(range_shrink(l, r, s, e).unpinned) = (ToSet(l.unpinned) \ {r}) \cup {Resized(r, s, e)}
         /\ Len(range_shrink(l, r, s, e).unpinned) = Len(l.unpinned)
         /\ \A j \in 1 .. Len(l.unpinned) : range_shrink(l, r, s, e).unpinned[j] =
              IF l.unpinned[j] = r THEN Resized(r, s, e) ELSE l.unpinned[j]
<1> DEFINE u == l.unpinned
           m == range_shrink(l, r, s, e)
           new == Resized(r, s, e)
<1>1. /\ ProperList(u) /\ IsInjective(u) /\ \A x \in ToSet(u) : x.asma = a
      /\ ProperList(l.lru) /\ IsInjective(l.lru)
      /\ ToSet(l.lru) = O \cup {x \in ToSet(u) : ~x.purged}
      /\ l.count = PagesOn(l.lru)
  BY DEF Loose
<1>2. /\ m.unpinned = ReplaceAll(u, r, new)
      /\ m.lru = ReplaceAll(l.lru, r, new)
      /\ m.count = IF r.purged THEN l.count ELSE l.count - (range_size(r) - range_size(new))
  BY DEF range_shrink, Resized
<1>3. Proper(r)
  BY <1>1, Members
<1>4. Proper(new) /\ new.asma = r.asma /\ new.purged = r.purged
  BY <1>3, ResizedIs
<1>5. r \in ToSet(u) /\ new \notin ToSet(u) /\ r.asma = a /\ r \notin O /\ new \notin O
  BY <1>1, <1>4 DEF Others
<1> HIDE DEF u, m, new
<1>6. /\ ProperList(m.unpinned) /\ IsInjective(m.unpinned) /\ Len(m.unpinned) = Len(u)
      /\ \A j \in 1 .. Len(u) : m.unpinned[j] = IF u[j] = r THEN new ELSE u[j]
      /\ ToSet(m.unpinned) = (ToSet(u) \ {r}) \cup {new}
  BY <1>1, <1>2, <1>4, <1>5, Replaced
<1>7. /\ ProperList(m.lru) /\ IsInjective(m.lru) /\ m.count = PagesOn(m.lru)
      /\ ToSet(m.lru) = O \cup {x \in ToSet(m.unpinned) : ~x.purged}
  <2>1. CASE r.purged
    <3>1. r \notin ToSet(l.lru)
      BY <2>1, <1>1, <1>5
    <3>2. l.lru \in Seq(Range_) /\ \A j \in 1 .. Len(l.lru) : l.lru[j] # r
      BY <3>1, <1>1, Members
    <3>3. ReplaceAll(l.lru, r, new) = [j \in 1 .. Len(l.lru) |-> l.lru[j]]
      BY <3>2 DEF ReplaceAll
    <3>4. m.lru = l.lru
      BY <1>2, <3>2, <3>3
    <3> QED
      BY <2>1, <3>4, <1>1, <1>2, <1>4, <1>6
  <2>2. CASE ~r.purged
    <3>1. r \in ToSet(l.lru) /\ new \notin ToSet(l.lru)
      BY <2>2, <1>1, <1>5
    <3>2. /\ ProperList(m.lru) /\ IsInjective(m.lru)
          /\ ToSet(m.lru) = (ToSet(l.lru) \ {r}) \cup {new}
          /\ PagesOn(m.lru) = PagesOn(l.lru) - (range_size(r) - range_size(new))
      BY <3>1, <1>1, <1>2, <1>4, Replaced
    <3>3. ToSet(m.lru) = O \cup {x \in ToSet(m.unpinned) : ~x.purged}
      BY <2>2, <3>2, <1>1, <1>4, <1>5, <1>6
    <3> QED
      BY <2>2, <3>2, <3>3, <1>1, <1>2
  <2> QED
    BY <2>1, <2>2
<1>8. \A x \in ToSet(m.unpinned) : x.asma = a
  BY <1>1, <1>4, <1>5, <1>6
<1>9. Loose(m, a, O)
  BY <1>6, <1>7, <1>8 DEF Loose
<1> QED
  BY <1>6, <1>9 DEF u, m, new

\* v is u with r at place i.
HasNew(v, u, r, i) ==
  /\ ToSet(v) = ToSet(u) \cup {r} /\ Len(v) = Len(u) + 1
  /\ \A j \in 1 .. Len(u) + 1 : v[j] = IF j < i THEN u[j] ELSE IF j = i THEN r ELSE u[j - 1]

LEMMA AllocLoose ==
  ASSUME NEW a, NEW O, Others(O, a), NEW l, Loose(l, a, O),
         NEW r, Proper(r), r.asma = a, r \notin ToSet(l.unpinned), NEW i \in 1 .. Len(l.unpinned) + 1
  PROVE  /\ Loose(range_alloc(l, r, i), a, O)
         /\ HasNew(range_alloc(l, r, i).unpinned, l.unpinned, r, i)
<1> DEFINE u == l.unpinned
           m == range_alloc(l, r, i)
           n == Len(u)
           v == m.unpinned
<1>1. /\ ProperList(u) /\ IsInjective(u) /\ \A x \in ToSet(u) : x.asma = a
      /\ ProperList(l.lru) /\ IsInjective(l.lru)
      /\ ToSet(l.lru) = O \cup {x \in ToSet(u) : ~x.purged}
      /\ l.count = PagesOn(l.lru)
  BY DEF Loose
<1>2. /\ v = InsertAt(u, i, r)
      /\ m.lru = IF r.purged THEN l.lru ELSE Append(l.lru, r)
      /\ m.count = IF r.purged THEN l.count ELSE l.count + range_size(r)
  BY DEF range_alloc
<1>3. i \in 1 .. n + 1 /\ r \notin ToSet(u) /\ n \in Nat
  BY <1>1, Members
<1> HIDE DEF m, v, u
<1>4. /\ ProperList(v) /\ Len(v) = n + 1
      /\ \A j \in 1 .. n + 1 : v[j] = IF j < i THEN u[j] ELSE IF j = i THEN r ELSE u[j - 1]
      /\ ToSet(v) = ToSet(u) \cup {r}
  BY <1>1, <1>2, <1>3, Inserted
<1>5. IsInjective(v)
  <2>1. SUFFICES ASSUME NEW j \in 1 .. n + 1, NEW k \in 1 .. n + 1, v[j] = v[k] PROVE j = k
    BY <1>4, Members, InList
  <2> DEFINE p == IF j < i THEN j ELSE j - 1
             q == IF k < i THEN k ELSE k - 1
  <2>2. j # i => p \in 1 .. n /\ v[j] = u[p]
    BY <1>3, <1>4
  <2>3. k # i => q \in 1 .. n /\ v[k] = u[q]
    BY <1>3, <1>4
  <2>4. \A x \in 1 .. n : u[x] # r
    BY <1>1, <1>3, Members
  <2>5. \A x, y \in 1 .. n : u[x] = u[y] => x = y
    BY <1>1, Members, InList
  <2>6. v[i] = r
    BY <1>3, <1>4
  <2>7. CASE j # i /\ k # i
    <3>1. p = q
      BY <2>1, <2>2, <2>3, <2>5, <2>7
    <3> QED
      BY <3>1, <2>7, <1>3
  <2>8. CASE j = i \/ k = i
    <3> HIDE DEF p, q
    <3> QED
      BY <2>1, <2>2, <2>3, <2>4, <2>6, <2>8
  <2> QED
    BY <2>7, <2>8
<1>6. r \notin O
  BY DEF Others
<1>7. /\ ProperList(m.lru) /\ IsInjective(m.lru) /\ m.count = PagesOn(m.lru)
      /\ ToSet(m.lru) = O \cup {x \in ToSet(v) : ~x.purged}
  <2>1. CASE r.purged
    BY <2>1, <1>1, <1>2, <1>4
  <2>2. CASE ~r.purged
    <3>1. r \notin ToSet(l.lru)
      BY <1>1, <1>3, <1>6
    <3>2. /\ ProperList(m.lru) /\ IsInjective(m.lru)
          /\ ToSet(m.lru) = ToSet(l.lru) \cup {r}
          /\ PagesOn(m.lru) = PagesOn(l.lru) + range_size(r)
      BY <2>2, <3>1, <1>1, <1>2, Appended
    <3>3. ToSet(m.lru) = O \cup {x \in ToSet(v) : ~x.purged}
      BY <2>2, <3>2, <1>1, <1>4
    <3> QED
      BY <2>2, <3>2, <3>3, <1>1, <1>2
  <2> QED
    BY <2>1, <2>2
<1>8. \A x \in ToSet(v) : x.asma = a
  BY <1>1, <1>4
<1>9. Loose(m, a, O)
  BY <1>4, <1>5, <1>7, <1>8 DEF Loose, v
<1>10. HasNew(v, u, r, i)
  BY <1>4 DEF HasNew
<1> QED
  BY <1>9, <1>10 DEF v, m, u

\* v is u with the ranges in N in place of r.
Becomes(v, u, r, N) == ToSet(v) = (ToSet(u) \ {r}) \cup N

LEMMA ShrinkKeeps ==
  ASSUME NEW a, NEW O, Others(O, a), NEW l, Consistent(l, a, O), NEW r \in ToSet(l.unpinned),
         NEW s \in Int, NEW e \in Int, r.pgstart <= s, s <= e, e <= r.pgend,
         s # r.pgstart \/ e # r.pgend
  PROVE  /\ Consistent(range_shrink(l, r, s, e), a, O)
         /\ Becomes(range_shrink(l, r, s, e).unpinned, l.unpinned, r, {Resized(r, s, e)})
<1> DEFINE u == l.unpinned
           m == range_shrink(l, r, s, e)
           new == Resized(r, s, e)
           v == m.unpinned
<1>1. Loose(l, a, O) /\ Sorted(u) /\ ProperList(u)
  BY DEF Consistent, Loose
<1>2. Proper(r) /\ r.pgstart \in Int /\ r.pgend \in Int
  BY <1>1, Members, ProperSize
<1>3. new.pgstart = s /\ new.pgend = e /\ new # r
  BY <1>2, ResizedIs
<1> HIDE DEF new
<1>4. new \notin ToSet(u)
  <2>1. SUFFICES ASSUME new \in ToSet(u) PROVE FALSE
    OBVIOUS
  <2>2. Apart(new, r)
    BY <2>1, <1>1, <1>3, SortedApart
  <2> QED
    BY <2>2, <1>2, <1>3 DEF Apart
<1>5. /\ Loose(m, a, O) /\ ToSet(v) = (ToSet(u) \ {r}) \cup {new} /\ Len(v) = Len(u)
      /\ \A j \in 1 .. Len(u) : v[j] = IF u[j] = r THEN new ELSE u[j]
  <2>1. Resized(r, s, e) \notin ToSet(l.unpinned)
    BY <1>4 DEF new
  <2> QED
    BY <1>1, <2>1, ShrinkLoose DEF new
<1> HIDE DEF m
<1>6. Sorted(v)
  <2>1. ASSUME NEW j \in 1 .. Len(u)
        PROVE  /\ v[j].pgstart \in Int /\ v[j].pgend \in Int
               /\ u[j].pgstart \in Int /\ u[j].pgend \in Int
               /\ u[j].pgstart <= v[j].pgstart /\ v[j].pgend <= u[j].pgend
    <3>1. u[j].pgstart \in Int /\ u[j].pgend \in Int
      BY <1>1, Members
    <3>2. CASE u[j] = r
      BY <3>1, <3>2, <1>2, <1>3, <1>5
    <3>3. CASE u[j] # r
      BY <3>1, <3>3, <1>5
    <3> QED
      BY <3>2, <3>3
  <2>2. SUFFICES ASSUME NEW j \in 1 .. Len(u), NEW k \in 1 .. Len(u), j < k
                 PROVE  v[k].pgend < v[j].pgstart
    BY <1>5 DEF Sorted
  <2>3. u[k].pgend < u[j].pgstart
    BY <2>2, <1>1 DEF Sorted
  <2> HIDE DEF v, u
  <2> QED
    BY <2>1, <2>3
<1>7. Becomes(v, u, r, {new})
  BY <1>5 DEF Becomes
<1> QED
  BY <1>5, <1>6, <1>7 DEF Consistent, m, new

\* The place of r in the order of the list is i.
Fits(r, i, list) ==
  /\ \A j \in 1 .. i - 1 : r.pgend < list[j].pgstart
  /\ \A j \in i .. Len(list) : list[j].pgend < r.pgstart

LEMMA AllocKeeps ==
  ASSUME NEW a, NEW O, Others(O, a), NEW l, Consistent(l, a, O),
         NEW r, Proper(r), r.asma = a, NEW i \in 1 .. Len(l.unpinned) + 1,
         Fits(r, i, l.unpinned)
  PROVE  /\ Consistent(range_alloc(l, r, i), a, O)
         /\ HasNew(range_alloc(l, r, i).unpinned, l.unpinned, r, i)
<1> DEFINE u == l.unpinned
           m == range_alloc(l, r, i)
           v == m.unpinned
           n == Len(u)
<1>1. Loose(l, a, O) /\ Sorted(u) /\ ProperList(u)
  BY DEF Consistent, Loose
<1>2. r.pgstart \in Int /\ r.pgend \in Int /\ r.pgstart <= r.pgend
  BY ProperSize DEF Proper
<1>3. n \in Nat /\ \A j \in 1 .. n : u[j].pgstart \in Int /\ u[j].pgend \in Int /\ u[j].pgstart <= u[j].pgend
  BY <1>1, Members
<1>4. /\ \A j \in 1 .. i - 1 : r.pgend < u[j].pgstart
      /\ \A j \in i .. n : u[j].pgend < r.pgstart
      /\ i \in 1 .. n + 1
  BY DEF Fits
<1>5. r \notin ToSet(u)
  <2>1. SUFFICES ASSUME NEW j \in 1 .. n, u[j] = r PROVE FALSE
    BY <1>1, Members
  <2>2. j \in 1 .. i - 1 \/ j \in i .. n
    BY <1>3, <1>4
  <2> QED
    BY <2>1, <2>2, <1>2, <1>4
<1>6. /\ Loose(m, a, O) /\ ToSet(v) = ToSet(u) \cup {r} /\ Len(v) = n + 1
      /\ \A j \in 1 .. n + 1 : v[j] = IF j < i THEN u[j] ELSE IF j = i THEN r ELSE u[j - 1]
  <2>1. Loose(m, a, O) /\ HasNew(v, u, r, i)
    BY <1>1, <1>5, AllocLoose
  <2> HIDE DEF m
  <2> QED
    BY <2>1 DEF HasNew
<1> HIDE DEF m, n
<1>7. Sorted(v)
  <2>1. SUFFICES ASSUME NEW j \in 1 .. n + 1, NEW k \in 1 .. n + 1, j < k
                 PROVE  v[k].pgend < v[j].pgstart
    BY <1>6 DEF Sorted
  <2> HIDE DEF v, u
  <2> DEFINE p == IF j < i THEN j ELSE j - 1
             q == IF k < i THEN k ELSE k - 1
  <2>2. j # i => p \in 1 .. n /\ v[j] = u[p]
    BY <1>3, <1>4, <1>6
  <2>3. k # i => q \in 1 .. n /\ v[k] = u[q]
    BY <1>3, <1>4, <1>6
  <2>4. v[i] = r
    BY <1>3, <1>4, <1>6
  <2>5. CASE j # i /\ k # i
    <3>1. p < q
      BY <2>1, <2>5, <1>3, <1>4
    <3> HIDE DEF p, q
    <3> QED
      BY <3>1, <2>2, <2>3, <2>5, <1>1 DEF Sorted, n
  <2>6. CASE j = i
    <3>1. k # i /\ q \in i .. n
      BY <2>1, <2>6, <1>3, <1>4
    <3> HIDE DEF p, q
    <3> QED
      BY <3>1, <2>3, <2>4, <2>6, <1>4
  <2>7. CASE k = i
    <3>1. j # i /\ p \in 1 .. i - 1
      BY <2>1, <2>7, <1>3, <1>4
    <3> HIDE DEF p, q
    <3> QED
      BY <3>1, <2>2, <2>4, <2>7, <1>4
  <2> QED
    BY <2>5, <2>6, <2>7
<1>8. HasNew(v, u, r, i)
  BY <1>6 DEF HasNew, n
<1> QED
  BY <1>6, <1>7, <1>8 DEF Consistent, m, v

\* A hole is punched: the second half is allocated, then the range is cut.
LEMMA SplitKeeps ==
  ASSUME NEW a, NEW O, Others(O, a), NEW l, Consistent(l, a, O), NEW r \in ToSet(l.unpinned),
         NEW s \in Int, NEW e \in Int, r.pgstart < s, s <= e, e < r.pgend
  PROVE  LET m == range_shrink(range_alloc(l, Resized(r, e + 1, r.pgend), Place(l.unpinned, r)),
                               r, r.pgstart, s - 1)
         IN  /\ Consistent(m, a, O)
             /\ Becomes(m.unpinned, l.unpinned, r,
                        {Resized(r, r.pgstart, s - 1), Resized(r, e + 1, r.pgend)})
<1> DEFINE u == l.unpinned
           i == Place(u, r)
           lo == Resized(r, r.pgstart, s - 1)
           hi == Resized(r, e + 1, r.pgend)
           k == range_alloc(l, hi, i)
           m == range_shrink(k, r, r.pgstart, s - 1)
           n == Len(u)
           w == k.unpinned
           v == m.unpinned
<1>1. Loose(l, a, O) /\ Sorted(u) /\ ProperList(u) /\ \A x \in ToSet(u) : x.asma = a
  BY DEF Consistent, Loose
<1>2. Proper(r) /\ r.pgstart \in Int /\ r.pgend \in Int /\ r.asma = a
  BY <1>1, Members, ProperSize
<1>3. n \in Nat /\ \A j \in 1 .. n : u[j].pgstart \in Int /\ u[j].pgend \in Int /\ u[j].pgstart <= u[j].pgend
  BY <1>1, Members
<1>4. i \in 1 .. n /\ u[i] = r
  BY <1>1, PlaceIs DEF ProperList
<1>5. s - 1 \in Int /\ e + 1 \in Int /\ r.pgstart <= s - 1 /\ e + 1 <= r.pgend
      /\ s - 1 <= r.pgend /\ r.pgstart <= e + 1 /\ s - 1 # r.pgend /\ e + 1 # r.pgstart
  BY <1>2
<1>6. /\ Proper(lo) /\ lo.pgstart = r.pgstart /\ lo.pgend = s - 1 /\ lo # r
      /\ Proper(hi) /\ hi.pgstart = e + 1 /\ hi.pgend = r.pgend /\ hi # r /\ hi.asma = a
  BY <1>2, <1>5, ResizedIs
<1>7. lo # hi
  BY <1>2, <1>6
<1> HIDE DEF lo, hi
<1>8. lo \notin ToSet(u) /\ hi \notin ToSet(u)
  <2>1. lo \in ToSet(u) => Apart(lo, r)
    BY <1>1, <1>6, SortedApart
  <2>2. hi \in ToSet(u) => Apart(hi, r)
    BY <1>1, <1>6, SortedApart
  <2>3. ~Apart(lo, r) /\ ~Apart(hi, r)
    BY <1>2, <1>5, <1>6 DEF Apart
  <2> QED
    BY <2>1, <2>2, <2>3
<1> HIDE DEF i
<1>9. /\ Loose(k, a, O) /\ ToSet(w) = ToSet(u) \cup {hi} /\ Len(w) = n + 1
      /\ \A j \in 1 .. n + 1 : w[j] = IF j < i THEN u[j] ELSE IF j = i THEN hi ELSE u[j - 1]
  <2>1. i \in 1 .. Len(l.unpinned) + 1
    BY <1>3, <1>4
  <2>2. Loose(l, a, O) /\ Proper(hi) /\ hi.asma = a /\ hi \notin ToSet(l.unpinned)
    BY <1>1, <1>6, <1>8
  <2>3. Loose(k, a, O) /\ HasNew(w, u, hi, i)
    BY <2>1, <2>2, AllocLoose
  <2> HIDE DEF k
  <2> QED
    BY <2>3 DEF HasNew
<1> HIDE DEF k
<1>10. /\ Loose(m, a, O) /\ ToSet(v) = (ToSet(w) \ {r}) \cup {lo} /\ Len(v) = Len(w)
       /\ \A j \in 1 .. Len(w) : v[j] = IF w[j] = r THEN lo ELSE w[j]
  <2>1. r \in ToSet(w) /\ Resized(r, r.pgstart, s - 1) \notin ToSet(k.unpinned)
    BY <1>7, <1>8, <1>9 DEF lo
  <2>2. r.pgstart <= r.pgstart
    BY <1>2
  <2>3. Loose(k, a, O) /\ r \in ToSet(k.unpinned)
    BY <1>9, <2>1
  <2> DEFINE d == r.pgstart
             f == s - 1
  <2>4. /\ d \in Int /\ f \in Int /\ r.pgstart <= d /\ d <= f /\ f <= r.pgend
        /\ Resized(r, d, f) \notin ToSet(k.unpinned)
        /\ m = range_shrink(k, r, d, f) /\ lo = Resized(r, d, f)
    BY <1>2, <1>5, <2>1, <2>2 DEF lo
  <2> HIDE DEF d, f, m
  <2> QED
    BY <2>3, <2>4, ShrinkLoose
<1> HIDE DEF m, n
<1>11. ToSet(v) = (ToSet(u) \ {r}) \cup {lo, hi}
  BY <1>6, <1>9, <1>10
<1>12. ASSUME NEW j \in 1 .. n + 1
       PROVE  v[j] = IF j < i THEN u[j] ELSE IF j = i THEN hi ELSE IF j = i + 1 THEN lo ELSE u[j - 1]
  <2> HIDE DEF u, v, w
  <2>0. \A x \in 1 .. n : u[x] = r => x = i
    <3>1. IsInjective(u)
      BY <1>1, SortedInjective
    <3>2. \A x, y \in 1 .. n : u[x] = u[y] => x = y
      BY <1>1, <3>1, Members, InList DEF n
    <3> QED
      BY <3>2, <1>4
  <2>1. v[j] = IF w[j] = r THEN lo ELSE w[j]
    BY <1>9, <1>10
  <2>2. CASE j < i
    <3>1. w[j] = u[j] /\ j \in 1 .. n /\ j # i
      BY <2>2, <1>3, <1>4, <1>9
    <3> QED
      BY <3>1, <2>0, <2>1, <2>2
  <2>3. CASE j = i
    BY <2>1, <2>3, <1>3, <1>4, <1>6, <1>9
  <2>4. CASE j = i + 1
    <3>1. w[j] = u[j - 1] /\ j - 1 = i
      BY <2>4, <1>3, <1>4, <1>9
    <3> QED
      BY <3>1, <2>1, <2>4, <1>3, <1>4
  <2>5. CASE j > i + 1
    <3>1. w[j] = u[j - 1] /\ j - 1 \in 1 .. n /\ j - 1 # i /\ ~ (j < i) /\ j # i /\ j # i + 1
      BY <2>5, <1>3, <1>4, <1>9
    <3> QED
      BY <3>1, <2>0, <2>1
  <2> QED
    BY <2>2, <2>3, <2>4, <2>5, <1>3, <1>4
<1>13. Sorted(v)
  <2>1. SUFFICES ASSUME NEW j \in 1 .. n + 1, NEW h \in 1 .. n + 1, j < h
                 PROVE  v[h].pgend < v[j].pgstart
    BY <1>9, <1>10 DEF Sorted
  <2> DEFINE p == IF j <= i THEN j ELSE j - 1
             q == IF h <= i THEN h ELSE h - 1
  <2>2. p \in 1 .. n /\ q \in 1 .. n /\ p <= q /\ (p = q => j = i /\ h = i + 1)
    BY <2>1, <1>3, <1>4
  <2>3. CASE p = q
    <3>1. v[j] = hi /\ v[h] = lo
      BY <2>2, <2>3, <1>3, <1>4, <1>12
    <3> HIDE DEF v
    <3> QED
      BY <3>1, <1>6, <1>2
  <2>4. CASE p < q
    <3>1. u[q].pgend < u[p].pgstart
      BY <2>2, <2>4, <1>1 DEF Sorted, n
    <3>2. u[p].pgstart \in Int /\ v[j].pgstart \in Int /\ u[p].pgstart <= v[j].pgstart
      <4>1. v[j] = u[p] \/ (p = i /\ v[j] = hi) \/ (p = i /\ v[j] = lo)
        BY <1>3, <1>4, <1>12
      <4> HIDE DEF p, q, u, v
      <4> QED
        BY <4>1, <2>2, <1>2, <1>3, <1>4, <1>5, <1>6
    <3>3. u[q].pgend \in Int /\ v[h].pgend \in Int /\ v[h].pgend <= u[q].pgend
      <4>1. v[h] = u[q] \/ (q = i /\ v[h] = hi) \/ (q = i /\ v[h] = lo)
        BY <1>3, <1>4, <1>12
      <4> HIDE DEF p, q, u, v
      <4> QED
        BY <4>1, <2>2, <1>2, <1>3, <1>4, <1>5, <1>6
    <3> HIDE DEF p, q, u, v
    <3> QED
      BY <3>1, <3>2, <3>3
  <2> QED
    BY <2>2, <2>3, <2>4
<1>14. Becomes(v, u, r, {lo, hi})
  BY <1>11 DEF Becomes
<1> QED
  BY <1>10, <1>13, <1>14 DEF Consistent, m, k, lo, hi, i

-----------------------------------------------------------------------------
(* Pinning.                                                                *)

OutOf(r, s, e) == r.pgend < s \/ e < r.pgstart
Within(x, r) == r.pgstart <= x.pgstart /\ x.pgend <= r.pgend /\ (x.purged <=> r.purged)

\* N is what is left of range r when the pages s .. e are pinned, all of it if
\* memory for it is found.
Cuts(N, r, s, e, alloc) ==
  /\ \A x \in N : Within(x, r) /\ OutOf(x, s, e)
  /\ alloc => \A p \in PagesOf(r) : p \notin s .. e => \E x \in N : p \in PagesOf(x)

LeavesCuts(v, u, r, s, e, alloc) == \E N : Becomes(v, u, r, N) /\ Cuts(N, r, s, e, alloc)

LEMMA RangePages ==
  ASSUME NEW r, Proper(r)
  PROVE  \A p : p \in PagesOf(r) <=> p \in Int /\ r.pgstart <= p /\ p <= r.pgend
BY ProperSize DEF PagesOf

LEMMA PinOneCuts ==
  ASSUME NEW a, NEW O, Others(O, a), NEW l, Consistent(l, a, O), NEW r \in ToSet(l.unpinned),
         NEW s \in Int, NEW e \in Int, s <= e, NEW alloc \in BOOLEAN, page_range_in_range(r, s, e)
  PROVE  /\ Consistent(PinOne(l, r, s, e, alloc), a, O)
         /\ LeavesCuts(PinOne(l, r, s, e, alloc).unpinned, l.unpinned, r, s, e, alloc)
<1> DEFINE m == PinOne(l, r, s, e, alloc)
           R == ToSet(l.unpinned)
<1>1. Proper(r) /\ r.pgstart \in Int /\ r.pgend \in Int /\ r.pgstart <= r.pgend
  BY Members, ProperSize DEF Consistent, Loose, Proper
<1>2. \A p : p \in PagesOf(r) <=> p \in Int /\ r.pgstart <= p /\ p <= r.pgend
  BY <1>1, RangePages
<1>3. r.pgstart <= e /\ s <= r.pgend
  BY <1>1 DEF page_range_in_range, page_in_range, page_range_subsumes_range
<1>4. CASE r.pgstart >= s /\ r.pgend <= e
  <2>1. m = range_del(l, r)
    BY <1>1, <1>4 DEF PinOne, page_range_subsumes_range
  <2> HIDE DEF m, LeavesCuts
  <2>2. Consistent(m, a, O)
    <3>1. Consistent(range_del(l, r), a, O)
      BY DelKeeps
    <3> QED
      BY <2>1, <3>1
  <2>4. ToSet(m.unpinned) = R \ {r}
    <3>1. ToSet(range_del(l, r).unpinned) = R \ {r}
      BY DelKeeps
    <3> QED
      BY <2>1, <3>1
  <2>3. Cuts({}, r, s, e, alloc)
    BY <1>1, <1>2, <1>4 DEF Cuts
  <2>5. Becomes(m.unpinned, l.unpinned, r, {})
    BY <2>4 DEF Becomes
  <2> QED
    BY <2>2, <2>3, <2>5 DEF m, LeavesCuts
<1>5. CASE r.pgstart >= s /\ r.pgend > e
  <2> DEFINE d == e + 1
             f == r.pgend
             x == Resized(r, d, f)
  <2>1. m = range_shrink(l, r, d, f)
    BY <1>1, <1>5 DEF PinOne, page_range_subsumes_range
  <2>2. d \in Int /\ f \in Int /\ r.pgstart <= d /\ d <= f /\ f <= r.pgend /\ d # r.pgstart
    BY <1>1, <1>3, <1>5
  <2>3. Proper(x) /\ x.pgstart = e + 1 /\ x.pgend = r.pgend /\ (x.purged <=> r.purged)
    BY <2>2, <1>1, ResizedIs
  <2> HIDE DEF d, f
  <2>4. Consistent(m, a, O) /\ Becomes(m.unpinned, l.unpinned, r, {x})
    BY <2>1, <2>2, ShrinkKeeps
  <2> HIDE DEF x
  <2>5. \A p : p \in PagesOf(x) <=> p \in Int /\ x.pgstart <= p /\ p <= x.pgend
    BY <2>3, RangePages
  <2>6. Cuts({x}, r, s, e, alloc)
    <3>1. Within(x, r) /\ OutOf(x, s, e)
      BY <2>3, <1>1, <1>3 DEF Within, OutOf
    <3>2. ASSUME NEW p \in PagesOf(r), p \notin s .. e PROVE p \in PagesOf(x)
      BY <3>2, <2>3, <2>5, <1>1, <1>2, <1>5
    <3> QED
      BY <3>1, <3>2 DEF Cuts
  <2> HIDE DEF m, LeavesCuts
  <2> QED
    BY <2>4, <2>6 DEF m, LeavesCuts
<1>6. CASE r.pgstart < s /\ r.pgend <= e
  <2> DEFINE d == r.pgstart
             f == s - 1
             x == Resized(r, d, f)
  <2>1. m = range_shrink(l, r, d, f)
    BY <1>1, <1>6 DEF PinOne, page_range_subsumes_range
  <2>2. d \in Int /\ f \in Int /\ r.pgstart <= d /\ d <= f /\ f <= r.pgend /\ f # r.pgend
    BY <1>1, <1>3, <1>6
  <2>3. Proper(x) /\ x.pgstart = r.pgstart /\ x.pgend = s - 1 /\ (x.purged <=> r.purged)
    BY <2>2, <1>1, ResizedIs
  <2> HIDE DEF d, f
  <2>4. Consistent(m, a, O) /\ Becomes(m.unpinned, l.unpinned, r, {x})
    BY <2>1, <2>2, ShrinkKeeps
  <2> HIDE DEF x
  <2>5. \A p : p \in PagesOf(x) <=> p \in Int /\ x.pgstart <= p /\ p <= x.pgend
    BY <2>3, RangePages
  <2>6. Cuts({x}, r, s, e, alloc)
    <3>1. Within(x, r) /\ OutOf(x, s, e)
      BY <2>3, <1>1, <1>3 DEF Within, OutOf
    <3>2. ASSUME NEW p \in PagesOf(r), p \notin s .. e PROVE p \in PagesOf(x)
      BY <3>2, <2>3, <2>5, <1>1, <1>2, <1>6
    <3> QED
      BY <3>1, <3>2 DEF Cuts
  <2> HIDE DEF m, LeavesCuts
  <2> QED
    BY <2>4, <2>6 DEF m, LeavesCuts
<1>7. CASE r.pgstart < s /\ r.pgend > e
  <2> DEFINE x == Resized(r, r.pgstart, s - 1)
             y == Resized(r, e + 1, r.pgend)
  <2>1. /\ s - 1 \in Int /\ e + 1 \in Int /\ r.pgstart <= s - 1 /\ s - 1 <= r.pgend
        /\ r.pgstart <= e + 1 /\ e + 1 <= r.pgend /\ r.pgstart <= r.pgstart /\ r.pgend <= r.pgend
        /\ s - 1 # r.pgend
    BY <1>1, <1>7
  <2>2. /\ Proper(x) /\ x.pgstart = r.pgstart /\ x.pgend = s - 1 /\ (x.purged <=> r.purged)
        /\ Proper(y) /\ y.pgstart = e + 1 /\ y.pgend = r.pgend /\ (y.purged <=> r.purged)
    BY <2>1, <1>1, ResizedIs
  <2>3. m = range_shrink(SecondHalf(l, r, e, alloc), r, r.pgstart, s - 1)
    BY <1>1, <1>7 DEF PinOne, page_range_subsumes_range
  <2>4. [r EXCEPT !.pgstart = e + 1] = y
    BY <1>1 DEF Proper, Range_, Resized
  <2> HIDE DEF x, y
  <2>5. /\ \A p : p \in PagesOf(x) <=> p \in Int /\ x.pgstart <= p /\ p <= x.pgend
        /\ \A p : p \in PagesOf(y) <=> p \in Int /\ y.pgstart <= p /\ p <= y.pgend
    BY <2>2, RangePages
  <2>6. Within(x, r) /\ OutOf(x, s, e) /\ Within(y, r) /\ OutOf(y, s, e)
    BY <2>1, <2>2, <1>1 DEF Within, OutOf
  <2>7. CASE alloc
    <3>1. m = range_shrink(range_alloc(l, y, Place(l.unpinned, r)), r, r.pgstart, s - 1)
      BY <2>3, <2>4, <2>7 DEF SecondHalf
    <3>2. Consistent(m, a, O) /\ Becomes(m.unpinned, l.unpinned, r, {x, y})
      BY <3>1, <1>1, <1>7, SplitKeeps DEF x, y
    <3>3. Cuts({x, y}, r, s, e, alloc)
      <4>1. ASSUME NEW p \in PagesOf(r), p \notin s .. e PROVE p \in PagesOf(x) \/ p \in PagesOf(y)
        BY <4>1, <2>2, <2>5, <1>1, <1>2
      <4> QED
        BY <4>1, <2>6 DEF Cuts
    <3> HIDE DEF m, LeavesCuts
    <3> QED
      BY <3>2, <3>3 DEF m, LeavesCuts
  <2>8. CASE ~alloc
    <3> DEFINE d == r.pgstart
               f == s - 1
    <3>1. m = range_shrink(l, r, d, f)
      BY <2>3, <2>8 DEF SecondHalf
    <3>2. /\ d \in Int /\ f \in Int /\ r.pgstart <= d /\ d <= f /\ f <= r.pgend /\ f # r.pgend
          /\ x = Resized(r, d, f)
      BY <1>1, <2>1 DEF x
    <3> HIDE DEF d, f
    <3>3. Consistent(m, a, O) /\ Becomes(m.unpinned, l.unpinned, r, {x})
      BY <3>1, <3>2, ShrinkKeeps
    <3>4. Cuts({x}, r, s, e, alloc)
      BY <2>6, <2>8 DEF Cuts
    <3> HIDE DEF m, LeavesCuts
    <3> QED
      BY <3>3, <3>4 DEF m, LeavesCuts
  <2> QED
    BY <2>7, <2>8
<1> QED
  BY <1>1, <1>4, <1>5, <1>6, <1>7

LEMMA ShortCircuitIs ==
  ASSUME NEW list, ProperList(list), Sorted(list), NEW s \in Int
  PROVE  /\ ShortCircuit(list, s) \in 1 .. Len(list) + 1
         /\ \A i \in 1 .. ShortCircuit(list, s) - 1 : list[i].pgend >= s
         /\ \A i \in ShortCircuit(list, s) .. Len(list) : list[i].pgend < s
<1> DEFINE n == Len(list)
           T == {i \in 1 .. n : range_before_page(list[i], s)} \cup {n + 1}
           k == ShortCircuit(list, s)
<1>1. n \in Nat /\ \A i \in 1 .. n : list[i].pgstart \in Int /\ list[i].pgend \in Int
                                     /\ list[i].pgstart <= list[i].pgend
  BY Members
<1>2. T \in SUBSET Nat /\ T # {}
  BY <1>1
<1>3. k = Min(T)
  BY DEF ShortCircuit
<1> HIDE DEF k
<1>4. k \in T /\ \A y \in T : k <= y
  <2> HIDE DEF T
  <2> QED
    BY <1>2, <1>3, MinIs
<1>5. k \in 1 .. n + 1 /\ (k <= n => list[k].pgend < s)
  BY <1>1, <1>4 DEF range_before_page
<1>6. ASSUME NEW i \in 1 .. k - 1 PROVE list[i].pgend >= s
  <2>1. i \in 1 .. n /\ ~ (k <= i)
    BY <1>1, <1>5
  <2> QED
    BY <2>1, <1>1, <1>4 DEF range_before_page
<1>7. ASSUME NEW i \in k .. n PROVE list[i].pgend < s
  <2>1. k \in 1 .. n /\ i \in 1 .. n /\ (i = k \/ k < i)
    BY <1>1, <1>5
  <2>2. list[k].pgend < s
    BY <2>1, <1>5
  <2>3. k < i => list[i].pgend < list[k].pgstart
    BY <2>1 DEF Sorted
  <2> QED
    BY <2>1, <2>2, <2>3, <1>1
<1> QED
  BY <1>5, <1>6, <1>7 DEF k

\* What ashmem_pin does not act on lies outside of the pages.
LEMMA UntouchedOutOf ==
  ASSUME NEW list, ProperList(list), Sorted(list), NEW s \in Int, NEW e \in Int, s <= e,
         NEW i \in 1 .. Len(list), i \notin Touched(list, s, e)
  PROVE  OutOf(list[i], s, e)
<1> DEFINE k == ShortCircuit(list, s)
<1>1. Len(list) \in Nat /\ \A j \in 1 .. Len(list) : list[j].pgstart \in Int /\ list[j].pgend \in Int
                                     /\ list[j].pgstart <= list[j].pgend
  BY Members
<1>2. /\ k \in 1 .. Len(list) + 1
      /\ \A j \in k .. Len(list) : list[j].pgend < s
  BY ShortCircuitIs
<1> HIDE DEF k
<1>3. CASE i \in k .. Len(list)
  BY <1>2, <1>3 DEF OutOf
<1>4. CASE i \in 1 .. k - 1
  <2>1. \/ ~page_range_in_range(list[i], s, e)
        \/ \E j \in 1 .. i - 1 : PunchesHole(list[j], s, e)
    BY <1>4 DEF Touched, k
  <2>2. CASE ~page_range_in_range(list[i], s, e)
    BY <2>2, <1>1 DEF page_range_in_range, page_in_range, page_range_subsumes_range, OutOf
  <2>3. CASE \E j \in 1 .. i - 1 : PunchesHole(list[j], s, e)
    <3>1. PICK j \in 1 .. i - 1 : list[j].pgstart < s
      BY <2>3 DEF PunchesHole
    <3>2. j \in 1 .. Len(list) /\ j < i
      BY <1>1
    <3>3. list[i].pgend < list[j].pgstart
      BY <3>2 DEF Sorted
    <3> QED
      BY <3>1, <3>2, <3>3, <1>1 DEF OutOf
  <2> QED
    BY <2>1, <2>2, <2>3
<1> QED
  BY <1>1, <1>2, <1>3, <1>4

-----------------------------------------------------------------------------
(* The loops.                                                              *)

\* One turn of a loop: of ashmem_pin, ashmem_unpin or ashmem_release.
PinTurn(l, i, list, s, e, alloc) ==
  IF i \in Touched(list, s, e) THEN PinOne(l, list[i], s, e, alloc) ELSE l
UnpinTurn(x, a, alloc) == IF x.done THEN x ELSE UnpinRound(x, a, alloc)
Turn(op, x, i, list, a, s, e, alloc) ==
  IF op = "pin" THEN PinTurn(x, i, list, s, e, alloc)
  ELSE IF op = "unpin" THEN UnpinTurn(x, a, alloc) ELSE range_del(x, list[i])

IsLoop(f, op, x, n, list, a, s, e, alloc) ==
  f = [i \in 0 .. n |-> IF i = 0 THEN x ELSE Turn(op, f[i - 1], i, list, a, s, e, alloc)]

LEMMA LoopExists ==
  ASSUME NEW op, NEW x, NEW n \in Nat, NEW list, NEW a, NEW s, NEW e, NEW alloc
  PROVE  \E f : IsLoop(f, op, x, n, list, a, s, e, alloc)
<1> DEFINE P(f, i) == IsLoop(f, op, x, i, list, a, s, e, alloc)
           Step(y, i) == Turn(op, y, i, list, a, s, e, alloc)
           T == {i \in 0 .. n : \E f : P(f, i)}
<1>1. 0 \in T
  <2>1. P([i \in 0 .. 0 |-> x], 0)
    BY DEF IsLoop
  <2> HIDE DEF P
  <2> QED
    BY <2>1
<1>2. ASSUME NEW i \in 1 .. n, i - 1 \in T PROVE i \in T
  <2>1. PICK f : P(f, i - 1)
    BY <1>2
  <2>2. \A j \in 0 .. i - 1 : f[j] = IF j = 0 THEN x ELSE Step(f[j - 1], j)
    BY <2>1 DEF IsLoop
  <2> HIDE DEF P, Step
  <2> DEFINE g == [j \in 0 .. i |-> IF j = i THEN Step(f[i - 1], i) ELSE f[j]]
  <2>3. ASSUME NEW j \in 0 .. i
        PROVE  g[j] = IF j = 0 THEN x ELSE Step(g[j - 1], j)
    <3>1. CASE j = i
      <4>1. j - 1 \in 0 .. i /\ j - 1 # i /\ j # 0
        BY <3>1
      <4>2. g[j - 1] = f[j - 1]
        BY <4>1
      <4> QED
        BY <3>1, <4>1, <4>2
    <3>2. CASE j # i
      <4>1. j \in 0 .. i - 1
        BY <3>2
      <4>2. f[j] = IF j = 0 THEN x ELSE Step(f[j - 1], j)
        BY <4>1, <2>2
      <4>3. j # 0 => j - 1 \in 0 .. i /\ j - 1 # i
        BY <4>1
      <4>4. j # 0 => g[j - 1] = f[j - 1]
        BY <4>3
      <4> QED
        BY <3>2, <4>2, <4>4
    <3> QED
      BY <3>1, <3>2
  <2>4. P(g, i)
    <3>1. g = [j \in 0 .. i |-> g[j]]
      OBVIOUS
    <3> HIDE DEF g
    <3>2. g = [j \in 0 .. i |-> IF j = 0 THEN x ELSE Step(g[j - 1], j)]
      BY <3>1, <2>3
    <3> QED
      BY <3>2 DEF P, Step, IsLoop
  <2> HIDE DEF g
  <2> QED
    BY <2>4
<1>3. n \in T
  <2> HIDE DEF T
  <2> QED
    BY <1>1, <1>2, Upward
<1> QED
  BY <1>3

LEMMA ReleasedIs ==
  ASSUME NEW a, Len(unpinned_list[a]) \in Nat
  PROVE  \E f : /\ ListsReleased(a) = f[Len(unpinned_list[a])]
                /\ f[0] = Lists(a)
                /\ \A i \in 1 .. Len(unpinned_list[a]) : f[i] = range_del(f[i - 1], unpinned_list[a][i])
<1> DEFINE list == unpinned_list[a]
           n == Len(list)
           P(f) == f = [i \in 0 .. n |-> IF i = 0 THEN Lists(a) ELSE range_del(f[i - 1], list[i])]
           g == CHOOSE f : P(f)
<1>1. PICK h : IsLoop(h, "release", Lists(a), n, list, a, 0, 0, TRUE)
  BY LoopExists
<1>2. P(h)
  BY <1>1 DEF IsLoop, Turn
<1>3. P(g)
  <2> HIDE DEF P
  <2> QED
    BY <1>2, Zenon
<1>4. ListsReleased(a) = g[n]
  BY DEF ListsReleased
<1> HIDE DEF g
<1>5. g[0] = Lists(a) /\ \A i \in 1 .. n : g[i] = range_del(g[i - 1], list[i])
  BY <1>3
<1> QED
  BY <1>4, <1>5

LEMMA PinnedIs ==
  ASSUME NEW a, Len(unpinned_list[a]) \in Nat, NEW s, NEW e, NEW alloc
  PROVE  \E f : /\ ListsPinned(a, s, e, alloc) = f[Len(unpinned_list[a])]
                /\ f[0] = Lists(a)
                /\ \A i \in 1 .. Len(unpinned_list[a]) :
                     f[i] = PinTurn(f[i - 1], i, unpinned_list[a], s, e, alloc)
<1> DEFINE list == unpinned_list[a]
           n == Len(list)
           P(f) == f = [i \in 0 .. n |-> IF i = 0 THEN Lists(a)
                                         ELSE IF i \in Touched(list, s, e)
                                         THEN PinOne(f[i - 1], list[i], s, e, alloc)
                                         ELSE f[i - 1]]
           g == CHOOSE f : P(f)
<1>1. PICK h : IsLoop(h, "pin", Lists(a), n, list, a, s, e, alloc)
  BY LoopExists
<1>2. P(h)
  BY <1>1 DEF IsLoop, Turn, PinTurn
<1>3. P(g)
  <2> HIDE DEF P
  <2> QED
    BY <1>2, Zenon
<1>4. ListsPinned(a, s, e, alloc) = g[n]
  BY DEF ListsPinned
<1> HIDE DEF g
<1>5. g[0] = Lists(a) /\ \A i \in 1 .. n : g[i] = PinTurn(g[i - 1], i, list, s, e, alloc)
  BY <1>3 DEF PinTurn
<1> QED
  BY <1>4, <1>5

UnpinCall(l, s, e) ==
  [lists |-> l, pgstart |-> s, pgend |-> e, purged |-> FALSE, done |-> FALSE]

LEMMA UnpinnedIs ==
  ASSUME NEW a, Len(unpinned_list[a]) \in Nat, NEW s, NEW e, NEW alloc
  PROVE  \E f : /\ ListsUnpinned(a, s, e, alloc) = f[Len(unpinned_list[a]) + 1].lists
                /\ f[0] = UnpinCall(Lists(a), s, e)
                /\ \A i \in 1 .. Len(unpinned_list[a]) + 1 : f[i] = UnpinTurn(f[i - 1], a, alloc)
<1> DEFINE n == Len(unpinned_list[a]) + 1
           P(f) == f = [i \in 0 .. n |->
                          IF i = 0 THEN [lists |-> Lists(a), pgstart |-> s, pgend |-> e,
                                         purged |-> FALSE, done |-> FALSE]
                          ELSE IF f[i - 1].done THEN f[i - 1] ELSE UnpinRound(f[i - 1], a, alloc)]
           g == CHOOSE f : P(f)
<1>1. PICK h : IsLoop(h, "unpin", UnpinCall(Lists(a), s, e), n, <<>>, a, s, e, alloc)
  <2>1. n \in Nat
    OBVIOUS
  <2> QED
    BY <2>1, LoopExists
<1>2. P(h)
  BY <1>1 DEF IsLoop, Turn, UnpinTurn, UnpinCall
<1>3. P(g)
  <2> HIDE DEF P
  <2> QED
    BY <1>2, Zenon
<1>4. ListsUnpinned(a, s, e, alloc) = g[n].lists
  BY DEF ListsUnpinned
<1> HIDE DEF g
<1>5. g[0] = UnpinCall(Lists(a), s, e) /\ \A i \in 1 .. n : g[i] = UnpinTurn(g[i - 1], a, alloc)
  <2>1. n \in Nat
    OBVIOUS
  <2> HIDE DEF n
  <2>2. g[0] = UnpinCall(Lists(a), s, e)
    BY <1>3, <2>1 DEF UnpinCall
  <2>3. ASSUME NEW i \in 1 .. n PROVE g[i] = UnpinTurn(g[i - 1], a, alloc)
    <3>1. i \in 0 .. n /\ i # 0
      BY <2>1
    <3>2. g = [j \in 0 .. n |-> IF j = 0 THEN UnpinCall(Lists(a), s, e)
                                ELSE UnpinTurn(g[j - 1], a, alloc)]
      BY <1>3, Zenon DEF UnpinTurn, UnpinCall
    <3> QED
      BY <3>1, <3>2
  <2> QED
    BY <2>2, <2>3
<1> QED
  BY <1>4, <1>5

-----------------------------------------------------------------------------
(* What the loops do to the pages of an area.                              *)

In(list, p) == \E r \in ToSet(list) : p \in PagesOf(r)
PurgedIn(list, p) == \E r \in ToSet(list) : r.purged /\ p \in PagesOf(r)

LEMMA ReleaseEmpties ==
  ASSUME NEW a, NEW O, Others(O, a), NEW l, Consistent(l, a, O), NEW f, f[0] = l,
         \A i \in 1 .. Len(l.unpinned) : f[i] = range_del(f[i - 1], l.unpinned[i])
  PROVE  Consistent(f[Len(l.unpinned)], a, O) /\ ToSet(f[Len(l.unpinned)].unpinned) = {}
<1> DEFINE list == l.unpinned
           n == Len(list)
           K(i) == /\ Consistent(f[i], a, O)
                   /\ ToSet(f[i].unpinned) = {list[j] : j \in i + 1 .. n}
           T == {i \in 0 .. n : K(i)}
<1>1. ProperList(list) /\ Sorted(list)
  BY DEF Consistent, Loose
<1>2. n \in Nat /\ list \in Seq(Range_) /\ \A x : x \in ToSet(list) <=> \E i \in 1 .. n : list[i] = x
  BY <1>1, Members, InList
<1>3. \A i, j \in 1 .. n : list[i] = list[j] => i = j
  BY <1>1, <1>2, SortedInjective, InList
<1> HIDE DEF n
<1>4. 0 \in T
  <2>1. ToSet(f[0].unpinned) = {list[j] : j \in 0 + 1 .. n}
    BY <1>2
  <2> QED
    BY <2>1, <1>2
<1>5. ASSUME NEW i \in 1 .. n, i - 1 \in T PROVE i \in T
  <2>1. K(i - 1)
    BY <1>5
  <2>2. f[i] = range_del(f[i - 1], list[i])
    BY DEF n
  <2> DEFINE g == f[i - 1]
  <2>3. list[i] \in ToSet(g.unpinned)
    <3>1. i \in (i - 1) + 1 .. n
      BY <1>2
    <3> QED
      BY <3>1, <2>1
  <2>4. Consistent(g, a, O)
    BY <2>1
  <2>5. Consistent(f[i], a, O)
    <3> HIDE DEF g
    <3>1. Consistent(range_del(g, list[i]), a, O)
      BY <2>3, <2>4, DelKeeps
    <3> QED
      BY <3>1, <2>2 DEF g
  <2>6. ToSet(f[i].unpinned) = ToSet(g.unpinned) \ {list[i]}
    <3> HIDE DEF g
    <3>1. ToSet(range_del(g, list[i]).unpinned) = ToSet(g.unpinned) \ {list[i]}
      BY <2>3, <2>4, DelKeeps
    <3> QED
      BY <3>1, <2>2 DEF g
  <2>7. ToSet(f[i].unpinned) = {list[j] : j \in i + 1 .. n}
    <3>1. ToSet(f[i].unpinned) = {list[j] : j \in (i - 1) + 1 .. n} \ {list[i]}
      BY <2>1, <2>6
    <3>2. (i - 1) + 1 = i /\ \A j \in i .. n : j \in 1 .. n /\ (j = i \/ j \in i + 1 .. n)
      BY <1>2
    <3>3. \A j \in i + 1 .. n : j \in 1 .. n /\ j \in i .. n /\ j # i
      BY <1>2
    <3>4. \A j \in i + 1 .. n : list[j] # list[i]
      BY <3>3, <1>3
    <3> HIDE DEF list
    <3> QED
      BY <3>1, <3>2, <3>3, <3>4
  <2>8. i \in 0 .. n
    BY <1>2
  <2> QED
    BY <2>5, <2>7, <2>8
<1>6. n \in T
  <2> HIDE DEF T
  <2>1. \A i \in 0 .. n : i \in T
    BY <1>2, <1>4, <1>5, Upward
  <2> QED
    BY <2>1, <1>2
<1>7. {list[j] : j \in n + 1 .. n} = {}
  BY <1>2
<1> QED
  BY <1>6, <1>7 DEF n

\* m are the lists of a call that has pinned the pages s .. e of l: no other
\* page is unpinned, and if memory was found all others still are.
Leaves(m, l, s, e, alloc) ==
  /\ \A p : In(m.unpinned, p) => In(l.unpinned, p) /\ p \notin s .. e
  /\ alloc => \A p : In(l.unpinned, p) /\ p \notin s .. e => In(m.unpinned, p)
  /\ alloc => \A p : PurgedIn(l.unpinned, p) /\ p \notin s .. e => PurgedIn(m.unpinned, p)

\* f[i] are the lists after i turns of the loop of ashmem_pin.
Pins(f, l, s, e, alloc) ==
  /\ f[0] = l
  /\ \A i \in 1 .. Len(l.unpinned) : f[i] = PinTurn(f[i - 1], i, l.unpinned, s, e, alloc)

LEMMA PinPages ==
  ASSUME NEW a, NEW O, Others(O, a), NEW l, Consistent(l, a, O),
         NEW s \in Int, NEW e \in Int, s <= e, NEW alloc \in BOOLEAN, NEW f, Pins(f, l, s, e, alloc)
  PROVE  LET m == f[Len(l.unpinned)]
         IN  Consistent(m, a, O) /\ Leaves(m, l, s, e, alloc)
<1> DEFINE list == l.unpinned
           n == Len(list)
           R(i) == ToSet(f[i].unpinned)
           Cover(i) == \A j \in 1 .. i : \A p \in PagesOf(list[j]) :
                         p \notin s .. e => \E x \in R(i) : Within(x, list[j]) /\ p \in PagesOf(x)
           Left(i, x) == \/ \E j \in i + 1 .. n : x = list[j]
                         \/ \E j \in 1 .. i : Within(x, list[j]) /\ OutOf(x, s, e)
           K(i) == /\ Consistent(f[i], a, O)
                   /\ \A j \in i + 1 .. n : list[j] \in R(i)
                   /\ \A x \in R(i) : Left(i, x)
                   /\ alloc => Cover(i)
           T == {i \in 0 .. n : K(i)}
<1>0. /\ f[0] = l
      /\ \A i \in 1 .. n : f[i] = PinTurn(f[i - 1], i, list, s, e, alloc)
  BY DEF Pins
<1>1. ProperList(list) /\ Sorted(list)
  BY DEF Consistent, Loose
<1>2. /\ n \in Nat /\ list \in Seq(Range_)
      /\ \A x : x \in ToSet(list) <=> \E i \in 1 .. n : list[i] = x
      /\ \A i \in 1 .. n : Proper(list[i]) /\ list[i] \in ToSet(list)
      /\ \A i \in 1 .. n : \A p : p \in PagesOf(list[i]) <=>
                             p \in Int /\ list[i].pgstart <= p /\ p <= list[i].pgend
      /\ \A i \in 1 .. n : list[i].pgstart \in Int /\ list[i].pgend \in Int
  BY <1>1, Members, InList, RangePages
<1>3. \A i, j \in 1 .. n : list[i] = list[j] => i = j
  BY <1>1, <1>2, SortedInjective, InList
<1>4. \A i, j \in 1 .. n : i # j => \A p \in PagesOf(list[i]) : p \notin PagesOf(list[j])
  <2>1. SUFFICES ASSUME NEW i \in 1 .. n, NEW j \in 1 .. n, i # j, NEW p \in PagesOf(list[i])
                 PROVE  p \notin PagesOf(list[j])
    OBVIOUS
  <2>2. Apart(list[i], list[j])
    BY <2>1, <1>1, <1>2, <1>3, SortedApart
  <2> QED
    <3>1. /\ p \in Int /\ list[i].pgstart <= p /\ p <= list[i].pgend
          /\ p \in PagesOf(list[j]) => list[j].pgstart <= p /\ p <= list[j].pgend
      BY <2>1, <1>2
    <3>2. /\ list[i].pgstart \in Int /\ list[i].pgend \in Int
          /\ list[j].pgstart \in Int /\ list[j].pgend \in Int
      BY <2>1, <1>2
    <3> HIDE DEF list
    <3> QED
      BY <3>1, <3>2, <2>2 DEF Apart
<1> HIDE DEF n
<1>5. 0 \in T
  <2>1. Consistent(f[0], a, O) /\ R(0) = ToSet(list)
    BY <1>0
  <2>2. 0 + 1 = 1
    OBVIOUS
  <2> HIDE DEF list
  <2>3. \A j \in 0 + 1 .. n : list[j] \in R(0)
    BY <2>1, <2>2, <1>2
  <2>4. \A x \in R(0) : Left(0, x)
    BY <2>1, <2>2, <1>2
  <2>5. Cover(0)
    OBVIOUS
  <2>6. K(0)
    BY <2>1, <2>3, <2>4, <2>5
  <2> HIDE DEF K
  <2> QED
    BY <2>6, <1>2
<1>6. ASSUME NEW i \in 1 .. n, i - 1 \in T PROVE i \in T
  <2> DEFINE r == list[i]
             g == f[i - 1]
             G == ToSet(g.unpinned)
  <2>1. K(i - 1)
    BY <1>6
  <2>2. (i - 1) + 1 = i /\ i \in i .. n /\ i \in 1 .. n /\ i \in 0 .. n
    BY <1>2
  <2>3. Consistent(g, a, O) /\ r \in G
    BY <2>1, <2>2
  <2>4. f[i] = PinTurn(g, i, list, s, e, alloc)
    BY <1>0, <2>2
  <2>5. /\ Consistent(f[i], a, O)
        /\ \E N : R(i) = (G \ {r}) \cup N /\ Cuts(N, r, s, e, alloc)
    <3>1. CASE i \in Touched(list, s, e)
      <4>1. page_range_in_range(r, s, e)
        BY <3>1 DEF Touched
      <4>2. f[i] = PinOne(g, r, s, e, alloc)
        BY <2>4, <3>1 DEF PinTurn
      <4> HIDE DEF r, g
      <4>3. /\ Consistent(PinOne(g, r, s, e, alloc), a, O)
            /\ LeavesCuts(PinOne(g, r, s, e, alloc).unpinned, g.unpinned, r, s, e, alloc)
        BY <2>3, <4>1, PinOneCuts
      <4>4. PICK N : /\ Becomes(PinOne(g, r, s, e, alloc).unpinned, g.unpinned, r, N)
                     /\ Cuts(N, r, s, e, alloc)
        BY <4>3 DEF LeavesCuts
      <4>5. R(i) = (G \ {r}) \cup N
        BY <4>2, <4>4 DEF Becomes
      <4> QED
        BY <4>2, <4>3, <4>4, <4>5
    <3>2. CASE i \notin Touched(list, s, e)
      <4>1. f[i] = g
        BY <2>4, <3>2 DEF PinTurn
      <4>2. OutOf(r, s, e)
        BY <3>2, <1>1, UntouchedOutOf DEF n
      <4>3. Within(r, r)
        BY <1>2 DEF Within
      <4> HIDE DEF r, g
      <4>4. Cuts({r}, r, s, e, alloc)
        BY <4>2, <4>3 DEF Cuts
      <4>5. R(i) = (G \ {r}) \cup {r}
        BY <4>1, <2>3
      <4> QED
        BY <4>1, <4>4, <4>5, <2>3
    <3> QED
      BY <3>1, <3>2
  <2>6. PICK N : R(i) = (G \ {r}) \cup N /\ Cuts(N, r, s, e, alloc)
    BY <2>5
  <2>7. \A j \in i + 1 .. n : j \in i .. n /\ j \in 1 .. n /\ j # i /\ list[j] # r
    BY <1>2, <1>3
  <2>8. ASSUME NEW j \in i + 1 .. n PROVE list[j] \in R(i)
    <3>1. list[j] \in G
      BY <2>1, <2>2, <2>7
    <3> QED
      BY <3>1, <2>6, <2>7
  <2>9. ASSUME NEW x \in R(i) PROVE Left(i, x)
    <3>1. CASE x \in N
      BY <3>1, <2>2, <2>6 DEF Cuts
    <3>2. CASE x \notin N
      <4>1. x \in G /\ x # r
        BY <3>2, <2>6
      <4>2. Left(i - 1, x)
        BY <4>1, <2>1
      <4>3. CASE \E j \in i .. n : x = list[j]
        <5>1. PICK j \in i .. n : x = list[j]
          BY <4>3
        <5>2. j # i
          BY <4>1, <5>1
        <5>3. j \in i + 1 .. n
          BY <5>2, <1>2
        <5> QED
          BY <5>1, <5>3
      <4>4. CASE \E j \in 1 .. i - 1 : Within(x, list[j]) /\ OutOf(x, s, e)
        <5>1. \A j \in 1 .. i - 1 : j \in 1 .. i
          BY <1>2
        <5> QED
          BY <4>4, <5>1
      <4> QED
        BY <4>2, <4>3, <4>4, <2>2
    <3> QED
      BY <3>1, <3>2
  <2>10. ASSUME alloc PROVE Cover(i)
    <3>1. SUFFICES ASSUME NEW j \in 1 .. i, NEW p \in PagesOf(list[j]), p \notin s .. e
                   PROVE  \E x \in R(i) : Within(x, list[j]) /\ p \in PagesOf(x)
      OBVIOUS
    <3>2. CASE j = i
      <4>1. PICK x \in N : p \in PagesOf(x)
        BY <3>1, <3>2, <2>6, <2>10 DEF Cuts
      <4>2. Within(x, r)
        BY <2>6 DEF Cuts
      <4> QED
        BY <4>1, <4>2, <3>2, <2>6
    <3>3. CASE j # i
      <4>1. j \in 1 .. i - 1 /\ j \in 1 .. n
        BY <3>3, <1>2
      <4>2. PICK x \in G : Within(x, list[j]) /\ p \in PagesOf(x)
        BY <4>1, <3>1, <2>1, <2>10
      <4>3. x # r
        BY <4>1, <4>2, <3>1, <3>3, <2>2, <1>4
      <4> QED
        BY <4>2, <4>3, <2>6
    <3> QED
      BY <3>2, <3>3
  <2>11. K(i)
    <3> HIDE DEF Left, Cover
    <3> QED
      BY <2>5, <2>8, <2>9, <2>10
  <2> HIDE DEF K
  <2> QED
    BY <2>2, <2>11
<1>7. n \in T
  <2> HIDE DEF T
  <2>1. \A i \in 0 .. n : i \in T
    BY <1>2, <1>5, <1>6, Upward
  <2> QED
    BY <2>1, <1>2
<1> DEFINE m == f[n]
<1>8. K(n)
  BY <1>7
<1>9. Consistent(m, a, O) /\ \A x \in ToSet(m.unpinned) : Proper(x)
  <2>1. Consistent(m, a, O)
    BY <1>8
  <2> HIDE DEF m
  <2> QED
    BY <2>1, Members DEF Consistent, Loose
<1>10. ASSUME NEW p, In(m.unpinned, p) PROVE In(list, p) /\ p \notin s .. e
  <2>1. PICK x \in R(n) : p \in PagesOf(x)
    BY <1>10 DEF In
  <2>2. ~ \E j \in n + 1 .. n : x = list[j]
    BY <1>2
  <2>3. PICK j \in 1 .. n : Within(x, list[j]) /\ OutOf(x, s, e)
    BY <1>8, <2>1, <2>2
  <2>4. p \in Int /\ x.pgstart <= p /\ p <= x.pgend /\ x.pgstart \in Int /\ x.pgend \in Int
    BY <1>9, <2>1, RangePages, ProperSize
  <2>5. list[j] \in ToSet(list) /\ p \in PagesOf(list[j]) /\ p \notin s .. e
    <3>1. /\ p \in PagesOf(list[j]) <=> p \in Int /\ list[j].pgstart <= p /\ p <= list[j].pgend
          /\ list[j].pgstart \in Int /\ list[j].pgend \in Int /\ list[j] \in ToSet(list)
      BY <1>2
    <3> HIDE DEF list
    <3> QED
      BY <2>3, <2>4, <3>1 DEF Within, OutOf
  <2> QED
    BY <2>5 DEF In
<1>11. ASSUME alloc, NEW p, In(list, p), p \notin s .. e PROVE In(m.unpinned, p)
  <2>1. PICK j \in 1 .. n : p \in PagesOf(list[j])
    BY <1>11, <1>2 DEF In
  <2>2. \E x \in R(n) : p \in PagesOf(x)
    BY <2>1, <1>8, <1>11
  <2> QED
    BY <2>2 DEF In
<1>12. ASSUME alloc, NEW p, PurgedIn(list, p), p \notin s .. e PROVE PurgedIn(m.unpinned, p)
  <2>1. PICK j \in 1 .. n : list[j].purged /\ p \in PagesOf(list[j])
    BY <1>12, <1>2 DEF PurgedIn
  <2>2. PICK x \in R(n) : Within(x, list[j]) /\ p \in PagesOf(x)
    BY <2>1, <1>8, <1>12
  <2>3. x.purged
    BY <2>1, <2>2 DEF Within
  <2> QED
    BY <2>2, <2>3 DEF PurgedIn
<1> QED
  BY <1>9, <1>10, <1>11, <1>12 DEF n, Leaves

-----------------------------------------------------------------------------
(* Unpinning.                                                              *)

IsCall(x) ==
  /\ x = [lists |-> x.lists, pgstart |-> x.pgstart, pgend |-> x.pgend,
          purged |-> x.purged, done |-> x.done]
  /\ x.pgstart \in 0 .. size - 1 /\ x.pgend \in 0 .. size - 1 /\ x.pgstart <= x.pgend
  /\ x.purged \in BOOLEAN /\ x.done \in BOOLEAN

\* Call x, which has not returned, is to unpin the pages s .. e of l: it still
\* has to unpin those it has merged with them.
Going(x, l, s, e) ==
  /\ \A p : In(x.lists.unpinned, p) \/ p \in x.pgstart .. x.pgend <=> In(l.unpinned, p) \/ p \in s .. e
  /\ \A p : PurgedIn(l.unpinned, p) =>
              PurgedIn(x.lists.unpinned, p) \/ (x.purged /\ p \in x.pgstart .. x.pgend)
  /\ x.purged => \E p \in x.pgstart .. x.pgend : ~In(x.lists.unpinned, p)

\* m are the lists of a call that has unpinned the pages s .. e of l.
Finished(m, l, s, e) ==
  /\ \A p : In(m.unpinned, p) <=> In(l.unpinned, p) \/ p \in s .. e
  /\ \A p : PurgedIn(l.unpinned, p) => PurgedIn(m.unpinned, p)

\* The range that a round of ashmem_unpin finds.
Found(x) ==
  {i \in 1 .. ShortCircuit(x.lists.unpinned, x.pgstart) - 1 :
     \/ page_range_subsumed_by_range(x.lists.unpinned[i], x.pgstart, x.pgend)
     \/ page_range_in_range(x.lists.unpinned[i], x.pgstart, x.pgend)}

LEMMA FoundIs ==
  ASSUME NEW a, NEW O, NEW x, IsCall(x), Consistent(x.lists, a, O)
  PROVE  /\ Found(x) # {} =>
              LET r == x.lists.unpinned[Min(Found(x))]
              IN  r \in ToSet(x.lists.unpinned) /\ r.pgstart <= x.pgend /\ x.pgstart <= r.pgend
         /\ Found(x) = {} =>
              \A i \in 1 .. ShortCircuit(x.lists.unpinned, x.pgstart) - 1 :
                x.pgend < x.lists.unpinned[i].pgstart
<1> DEFINE list == x.lists.unpinned
           s == x.pgstart
           e == x.pgend
           k == ShortCircuit(list, s)
           I == Found(x)
<1>1. s \in Int /\ e \in Int /\ s <= e
  BY AreaSize DEF IsCall
<1>2. ProperList(list) /\ Sorted(list)
  BY DEF Consistent, Loose
<1>3. /\ Len(list) \in Nat
      /\ \A i \in 1 .. Len(list) : /\ list[i].pgstart \in Int /\ list[i].pgend \in Int
                                   /\ list[i].pgstart <= list[i].pgend /\ list[i] \in ToSet(list)
  BY <1>2, Members
<1> HIDE DEF list, s, e
<1>4. k \in 1 .. Len(list) + 1 /\ \A i \in 1 .. k - 1 : list[i].pgend >= s
  BY <1>1, <1>2, ShortCircuitIs
<1>5. I = {i \in 1 .. k - 1 : page_range_subsumed_by_range(list[i], s, e)
                              \/ page_range_in_range(list[i], s, e)}
  BY DEF Found, list, s, e
<1> HIDE DEF k, I
<1>6. \A i \in 1 .. k - 1 : i \in 1 .. Len(list)
  BY <1>3, <1>4
<1>7. ASSUME I # {}
      PROVE  list[Min(I)] \in ToSet(list) /\ list[Min(I)].pgstart <= e /\ s <= list[Min(I)].pgend
  <2>1. I \in SUBSET Nat
    BY <1>4, <1>5
  <2>2. Min(I) \in I
    BY <2>1, <1>7, MinIs
  <2> DEFINE i == Min(I)
  <2> HIDE DEF i
  <2>3. i \in I
    BY <2>2 DEF i
  <2>4. i \in 1 .. Len(list) /\ list[i].pgend >= s
    BY <2>3, <1>4, <1>5, <1>6
  <2>5. list[i].pgstart \in Int /\ list[i].pgend \in Int /\ list[i].pgstart <= list[i].pgend
        /\ list[i] \in ToSet(list)
    BY <2>4, <1>3
  <2>6. list[i].pgstart <= e
    BY <2>3, <2>5, <1>1, <1>5 DEF page_range_subsumed_by_range, page_range_in_range, page_in_range,
                                  page_range_subsumes_range
  <2> QED
    BY <2>4, <2>5, <2>6, <1>1 DEF i
<1>8. ASSUME I = {}, NEW i \in 1 .. k - 1 PROVE e < list[i].pgstart
  <2>1. i \in 1 .. Len(list) /\ list[i].pgend >= s
    BY <1>4, <1>6
  <2>2. list[i].pgstart \in Int /\ list[i].pgend \in Int /\ list[i].pgstart <= list[i].pgend
    BY <2>1, <1>3
  <2>3. ~page_range_in_range(list[i], s, e)
    BY <1>5, <1>8
  <2> QED
    BY <2>1, <2>2, <2>3, <1>1 DEF page_range_in_range, page_in_range, page_range_subsumes_range
<1> QED
  BY <1>7, <1>8 DEF k, I, list, s, e

LEMMA UnpinRoundKeeps ==
  ASSUME NEW a \in Areas, NEW O, Others(O, a), NEW x, IsCall(x), ~x.done, Consistent(x.lists, a, O),
         NEW l, NEW s, NEW e, Going(x, l, s, e), NEW alloc \in BOOLEAN, NEW y, y = UnpinRound(x, a, alloc)
  PROVE  /\ IsCall(y) /\ Consistent(y.lists, a, O)
         /\ y.done => (alloc => Finished(y.lists, l, s, e))
         /\ ~y.done => Going(y, l, s, e) /\ Len(y.lists.unpinned) = Len(x.lists.unpinned) - 1
<1> DEFINE list == x.lists.unpinned
           I == Found(x)
           r == list[Min(I)]
           b == x.pgstart
           c == x.pgend
           k == ShortCircuit(list, b)
           new == [asma |-> a, pgstart |-> b, pgend |-> c, purged |-> x.purged]
<1>1. /\ b \in 0 .. size - 1 /\ c \in 0 .. size - 1 /\ b <= c /\ x.purged \in BOOLEAN
      /\ size \in Nat
  BY AreaSize DEF IsCall
<1>2. ProperList(list) /\ Sorted(list)
  BY DEF Consistent, Loose
<1>3. Proper(new) /\ new.asma = a /\ new.pgstart = b /\ new.pgend = c /\ new.purged = x.purged
  <2>1. new \in Range_
    BY <1>1 DEF Range_
  <2> QED
    BY <2>1, <1>1 DEF Proper
<1>4. y = IF I = {}
          THEN [x EXCEPT !.lists = IF alloc THEN range_alloc(@, new, k) ELSE @, !.done = TRUE]
          ELSE IF page_range_subsumed_by_range(r, b, c) THEN [x EXCEPT !.done = TRUE]
          ELSE [x EXCEPT !.lists = range_del(@, r), !.purged = MergedPurged(@, r),
                         !.pgstart = Min({r.pgstart, @}), !.pgend = Max({r.pgend, @})]
  BY DEF UnpinRound, Found
<1>5. /\ I # {} => r \in ToSet(list) /\ r.pgstart <= c /\ b <= r.pgend
      /\ I = {} => \A i \in 1 .. k - 1 : c < list[i].pgstart
  BY FoundIs
<1>6. k \in 1 .. Len(list) + 1 /\ \A i \in k .. Len(list) : list[i].pgend < b
  <2>1. b \in Int
    BY <1>1
  <2> HIDE DEF b
  <2> QED
    BY <2>1, <1>2, ShortCircuitIs
<1>7. x = [lists |-> x.lists, pgstart |-> b, pgend |-> c, purged |-> x.purged, done |-> x.done]
  BY DEF IsCall
<1>8. \A z \in ToSet(list) : Proper(z)
  BY <1>2, Members
<1> HIDE DEF I, k, new, r
<1>9. CASE I = {}
  <2> DEFINE m == IF alloc THEN range_alloc(x.lists, new, k) ELSE x.lists
  <2>1. y = [lists |-> m, pgstart |-> b, pgend |-> c, purged |-> x.purged, done |-> TRUE]
    BY <1>4, <1>7, <1>9
  <2>2. IsCall(y) /\ y.lists = m /\ y.done
    <3> HIDE DEF m, b, c
    <3> QED
      BY <2>1, <1>1 DEF IsCall
  <2>3. CASE alloc
    <3> HIDE DEF m, b, c
    <3>1. m = range_alloc(x.lists, new, k)
      BY <2>3 DEF m
    <3>2. Fits(new, k, list) /\ k \in 1 .. Len(list) + 1
      BY <1>3, <1>5, <1>6, <1>9 DEF Fits
    <3>3. Consistent(range_alloc(x.lists, new, k), a, O)
          /\ HasNew(range_alloc(x.lists, new, k).unpinned, list, new, k)
      BY <3>2, <1>3, AllocKeeps
    <3>4. ToSet(range_alloc(x.lists, new, k).unpinned) = ToSet(list) \cup {new}
      BY <3>3 DEF HasNew
    <3>5. ToSet(m.unpinned) = ToSet(list) \cup {new}
      BY <3>1, <3>4
    <3>6. \A p : p \in PagesOf(new) <=> p \in b .. c
      BY <1>3 DEF PagesOf
    <3>7. \A p : In(m.unpinned, p) <=> In(list, p) \/ p \in b .. c
      BY <3>5, <3>6 DEF In
    <3>8. \A p : PurgedIn(list, p) => PurgedIn(m.unpinned, p)
      BY <3>5 DEF PurgedIn
    <3>9. \A p : x.purged /\ p \in b .. c => PurgedIn(m.unpinned, p)
      BY <3>5, <3>6, <1>3 DEF PurgedIn
    <3>10. Finished(m, l, s, e)
      BY <3>7, <3>8, <3>9 DEF Going, Finished, b, c
    <3> QED
      BY <2>2, <3>1, <3>3, <3>10
  <2>4. CASE ~alloc
    BY <2>2, <2>4
  <2> QED
    BY <2>3, <2>4
<1>10. CASE I # {} /\ page_range_subsumed_by_range(r, b, c)
  <2>1. y = [lists |-> x.lists, pgstart |-> b, pgend |-> c, purged |-> x.purged, done |-> TRUE]
    BY <1>4, <1>7, <1>10
  <2>2. IsCall(y) /\ y.lists = x.lists /\ y.done
    <3> HIDE DEF b, c
    <3> QED
      BY <2>1, <1>1 DEF IsCall
  <2>3. \A p \in b .. c : In(list, p)
    <3>1. r \in ToSet(list) /\ r.pgstart <= b /\ c <= r.pgend /\ Proper(r)
      BY <1>5, <1>8, <1>10 DEF page_range_subsumed_by_range
    <3>2. \A p : p \in PagesOf(r) <=> p \in Int /\ r.pgstart <= p /\ p <= r.pgend
      BY <3>1, RangePages
    <3>3. r.pgstart \in Int /\ r.pgend \in Int
      BY <3>1, ProperSize
    <3>4. ASSUME NEW p \in b .. c PROVE p \in PagesOf(r)
      <4> HIDE DEF b, c
      <4> QED
        BY <3>1, <3>2, <3>3, <1>1
    <3> QED
      BY <3>1, <3>4 DEF In
  <2>4. ~x.purged
    BY <2>3 DEF Going
  <2>5. Finished(x.lists, l, s, e)
    BY <2>3, <2>4 DEF Going, Finished
  <2> QED
    BY <2>2, <2>5
<1>11. CASE I # {} /\ ~page_range_subsumed_by_range(r, b, c)
  <2> DEFINE m == range_del(x.lists, r)
             bb == Min({r.pgstart, b})
             cc == Max({r.pgend, c})
             q == MergedPurged(x.purged, r)
  <2>1. y = [lists |-> m, pgstart |-> bb, pgend |-> cc, purged |-> q, done |-> x.done]
    BY <1>4, <1>7, <1>11
  <2>2. r \in ToSet(list) /\ r.pgstart <= c /\ b <= r.pgend /\ Proper(r)
    BY <1>5, <1>8, <1>11
  <2>3. r.pgstart \in 0 .. size - 1 /\ r.pgend \in 0 .. size - 1 /\ r.purged \in BOOLEAN
        /\ r.pgstart <= r.pgend
    BY <2>2, ProperSize DEF Proper
  <2> HIDE DEF b, c
  <2>4. bb = IF r.pgstart <= b THEN r.pgstart ELSE b
    <3>1. bb \in {r.pgstart, b} /\ \A z \in {r.pgstart, b} : bb <= z
      <4>1. {r.pgstart, b} \in SUBSET Nat /\ {r.pgstart, b} # {}
        BY <2>3, <1>1
      <4> QED
        BY <4>1, MinIs
    <3> HIDE DEF bb
    <3> QED
      BY <3>1, <2>3, <1>1
  <2>5. cc = IF r.pgend >= c THEN r.pgend ELSE c
    <3>1. \E z \in {r.pgend, c} : \A w \in {r.pgend, c} : z >= w
      BY <2>3, <1>1
    <3>2. cc \in {r.pgend, c} /\ \A w \in {r.pgend, c} : cc >= w
      BY <3>1 DEF Max
    <3> HIDE DEF cc
    <3> QED
      BY <3>2, <2>3, <1>1
  <2>6. q <=> x.purged \/ r.purged
    BY DEF MergedPurged
  <2>7. q \in BOOLEAN
    BY DEF MergedPurged
  <2> HIDE DEF bb, cc, q, m
  <2>8. bb \in 0 .. size - 1 /\ cc \in 0 .. size - 1 /\ bb <= cc
    BY <2>2, <2>3, <2>4, <2>5, <1>1
  <2>9. \A p : p \in bb .. cc <=> p \in b .. c \/ p \in r.pgstart .. r.pgend
    BY <2>2, <2>3, <2>4, <2>5, <2>8, <1>1
  <2>10. y.lists = m /\ y.pgstart = bb /\ y.pgend = cc /\ (y.purged <=> q) /\ ~y.done
         /\ y.purged \in BOOLEAN /\ y.done \in BOOLEAN
    BY <2>1, <2>7 DEF IsCall
  <2>11. IsCall(y)
    <3>1. y = [lists |-> y.lists, pgstart |-> y.pgstart, pgend |-> y.pgend,
               purged |-> y.purged, done |-> y.done]
      BY <2>1
    <3> QED
      BY <3>1, <2>8, <2>10 DEF IsCall
  <2>12. Consistent(m, a, O)
    BY <2>2, DelKeeps DEF m
  <2>13. ToSet(m.unpinned) = ToSet(list) \ {r}
    BY <2>2, DelKeeps DEF m
  <2>14. Len(m.unpinned) = Len(list) - 1
    BY <2>2, DelKeeps DEF m
  <2>15. \A p : p \in PagesOf(r) <=> p \in r.pgstart .. r.pgend
    BY DEF PagesOf
  <2>16. \A p : In(list, p) <=> In(m.unpinned, p) \/ p \in r.pgstart .. r.pgend
    BY <2>2, <2>13, <2>15 DEF In
  <2>17. \A p : PurgedIn(list, p) <=> PurgedIn(m.unpinned, p) \/ (r.purged /\ p \in r.pgstart .. r.pgend)
    BY <2>2, <2>13, <2>15 DEF PurgedIn
  <2>18. ~In(m.unpinned, r.pgstart)
    <3>1. SUFFICES ASSUME NEW z \in ToSet(m.unpinned), r.pgstart \in PagesOf(z) PROVE FALSE
      BY DEF In
    <3>2. z \in ToSet(list) /\ z # r /\ Proper(z)
      BY <2>13, <1>8
    <3>3. Apart(z, r)
      BY <3>2, <2>2, <1>2, SortedApart
    <3>4. z.pgstart <= r.pgstart /\ r.pgstart <= z.pgend /\ z.pgstart \in Int /\ z.pgend \in Int
      BY <3>1, <3>2, RangePages, ProperSize
    <3> QED
      BY <3>3, <3>4, <2>3 DEF Apart
  <2>19. Going(y, l, s, e)
    <3>1. /\ \A p : In(list, p) \/ p \in b .. c <=> In(l.unpinned, p) \/ p \in s .. e
          /\ \A p : PurgedIn(l.unpinned, p) => PurgedIn(list, p) \/ (x.purged /\ p \in b .. c)
      BY DEF Going, b, c
    <3>2. ASSUME NEW p
          PROVE  In(m.unpinned, p) \/ p \in bb .. cc <=> In(l.unpinned, p) \/ p \in s .. e
      BY <3>1, <2>9, <2>16
    <3>3. ASSUME NEW p, PurgedIn(l.unpinned, p)
          PROVE  PurgedIn(m.unpinned, p) \/ (q /\ p \in bb .. cc)
      BY <3>1, <3>3, <2>6, <2>9, <2>17
    <3>4. \E p \in bb .. cc : ~In(m.unpinned, p)
      <4>1. r.pgstart \in bb .. cc
        BY <2>3, <2>9
      <4> QED
        BY <4>1, <2>18
    <3> QED
      BY <3>2, <3>3, <3>4, <2>10 DEF Going
  <2> QED
    BY <2>10, <2>11, <2>12, <2>14, <2>19
<1> QED
  BY <1>9, <1>10, <1>11

LEMMA UnpinPages ==
  ASSUME NEW a \in Areas, NEW O, Others(O, a), NEW l, Consistent(l, a, O),
         NEW s \in 0 .. size - 1, NEW e \in 0 .. size - 1, s <= e, NEW alloc \in BOOLEAN,
         NEW f, f[0] = UnpinCall(l, s, e),
         \A i \in 1 .. Len(l.unpinned) + 1 : f[i] = UnpinTurn(f[i - 1], a, alloc)
  PROVE  LET m == f[Len(l.unpinned) + 1].lists
         IN  Consistent(m, a, O) /\ (alloc => Finished(m, l, s, e))
<1> DEFINE n == Len(l.unpinned)
           K(i) == /\ IsCall(f[i]) /\ Consistent(f[i].lists, a, O)
                   /\ f[i].done => (alloc => Finished(f[i].lists, l, s, e))
                   /\ ~f[i].done => Going(f[i], l, s, e) /\ Len(f[i].lists.unpinned) = n - i
           T == {i \in 0 .. n + 1 : K(i)}
<1>1. n \in Nat /\ n + 1 \in Nat
  BY Members DEF Consistent, Loose
<1>2. 0 \in T
  <2> DEFINE x == f[0]
  <2>1. x = [lists |-> l, pgstart |-> s, pgend |-> e, purged |-> FALSE, done |-> FALSE]
    BY DEF UnpinCall
  <2> HIDE DEF x
  <2>2. x.lists = l /\ x.pgstart = s /\ x.pgend = e /\ ~x.purged /\ ~x.done
        /\ x.purged \in BOOLEAN /\ x.done \in BOOLEAN
    BY <2>1
  <2>3. IsCall(x)
    BY <2>1, <2>2 DEF IsCall
  <2>4. Going(x, l, s, e)
    BY <2>2 DEF Going
  <2>5. n = n - 0
    BY <1>1
  <2>6. K(0)
    BY <2>2, <2>3, <2>4, <2>5 DEF x
  <2> HIDE DEF K
  <2> QED
    BY <2>6, <1>1
<1>3. ASSUME NEW i \in 1 .. n + 1, i - 1 \in T PROVE i \in T
  <2> DEFINE x == f[i - 1]
             y == f[i]
  <2>1. /\ IsCall(x) /\ Consistent(x.lists, a, O)
        /\ x.done => (alloc => Finished(x.lists, l, s, e))
        /\ ~x.done => Going(x, l, s, e) /\ Len(x.lists.unpinned) = n - (i - 1)
    BY <1>3
  <2>2. y = UnpinTurn(x, a, alloc)
    OBVIOUS
  <2>3. i \in 0 .. n + 1 /\ (n - (i - 1)) - 1 = n - i
    BY <1>1
  <2> HIDE DEF x, y, n
  <2>4. CASE x.done
    <3>1. y = x
      BY <2>2, <2>4 DEF UnpinTurn
    <3>2. K(i)
      BY <2>1, <2>4, <3>1 DEF y
    <3> HIDE DEF K
    <3> QED
      BY <3>2, <2>3
  <2>5. CASE ~x.done
    <3>1. y = UnpinRound(x, a, alloc)
      BY <2>2, <2>5 DEF UnpinTurn
    <3>2. /\ IsCall(y) /\ Consistent(y.lists, a, O)
          /\ y.done => (alloc => Finished(y.lists, l, s, e))
          /\ ~y.done => Going(y, l, s, e) /\ Len(y.lists.unpinned) = Len(x.lists.unpinned) - 1
      BY <2>1, <2>5, <3>1, UnpinRoundKeeps
    <3>3. K(i)
      BY <3>2, <2>1, <2>3, <2>5 DEF y
    <3> HIDE DEF K
    <3> QED
      BY <3>3, <2>3
  <2> QED
    BY <2>4, <2>5
<1>4. n + 1 \in T
  <2> HIDE DEF T
  <2>1. \A i \in 0 .. n + 1 : i \in T
    BY <1>1, <1>2, <1>3, Upward
  <2> QED
    BY <2>1, <1>1
<1> DEFINE y == f[n + 1]
<1>5. /\ Consistent(y.lists, a, O)
      /\ y.done => (alloc => Finished(y.lists, l, s, e))
      /\ ~y.done => Len(y.lists.unpinned) = n - (n + 1)
  BY <1>4
<1>6. y.done
  <2>1. Len(y.lists.unpinned) \in Nat
    <3> HIDE DEF y
    <3> QED
      BY <1>5, Members DEF Consistent, Loose
  <2> QED
    BY <2>1, <1>1, <1>5
<1> QED
  BY <1>5, <1>6

-----------------------------------------------------------------------------
(* The lists of all areas.                                                 *)

\* The lists are ordered, and the LRU and its count agree with them.
ListsOK ==
  /\ \A a \in Areas : /\ ProperList(unpinned_list[a]) /\ Sorted(unpinned_list[a])
                      /\ \A x \in ToSet(unpinned_list[a]) : x.asma = a
  /\ ProperList(lru_list) /\ LruExact

Structure == AshmemTypeOK /\ ListsOK

Elsewhere(a) == {x \in ToSet(lru_list) : x.asma # a}

LEMMA OnLru ==
  ASSUME LruExact, NEW x
  PROVE  x \in ToSet(lru_list) <=> ~x.purged /\ \E a \in Areas : x \in ToSet(unpinned_list[a])
BY DEF LruExact

LEMMA ListsOfArea ==
  ASSUME ListsOK, NEW a \in Areas
  PROVE  /\ Consistent(Lists(a), a, Elsewhere(a)) /\ Others(Elsewhere(a), a)
         /\ Lists(a).unpinned = unpinned_list[a] /\ Len(unpinned_list[a]) \in Nat
<1> DEFINE l == Lists(a)
           u == unpinned_list[a]
<1>1. l.unpinned = u /\ l.lru = lru_list /\ l.count = lru_count
  BY DEF Lists
<1>2. ProperList(u) /\ Sorted(u) /\ \A x \in ToSet(u) : x.asma = a
  BY DEF ListsOK
<1>3. ProperList(lru_list) /\ IsInjective(lru_list) /\ lru_count = PagesOn(lru_list)
  BY DEF ListsOK, LruExact
<1>4. ToSet(lru_list) = Elsewhere(a) \cup {x \in ToSet(u) : ~x.purged}
  <2>1. ASSUME NEW x \in ToSet(lru_list), x.asma = a PROVE x \in ToSet(u) /\ ~x.purged
    <3>1. ~x.purged /\ \E b \in Areas : x \in ToSet(unpinned_list[b])
      BY OnLru DEF ListsOK
    <3>2. PICK b \in Areas : x \in ToSet(unpinned_list[b])
      BY <3>1
    <3>3. x.asma = b
      BY <3>2 DEF ListsOK
    <3> QED
      BY <2>1, <3>1, <3>2, <3>3
  <2>2. ASSUME NEW x \in ToSet(u), ~x.purged PROVE x \in ToSet(lru_list)
    BY <2>2, OnLru DEF ListsOK
  <2> QED
    BY <2>1, <2>2 DEF Elsewhere
<1>5. IsInjective(u) /\ Len(u) \in Nat
  BY <1>2, SortedInjective, Members
<1> HIDE DEF l, u
<1>6. Consistent(l, a, Elsewhere(a))
  BY <1>1, <1>2, <1>3, <1>4, <1>5 DEF Consistent, Loose
<1>7. Others(Elsewhere(a), a)
  BY DEF Others, Elsewhere
<1> QED
  BY <1>1, <1>5, <1>6, <1>7 DEF l, u

LEMMA AreaChanged ==
  ASSUME Structure, NEW a \in Areas, NEW m, Consistent(m, a, Elsewhere(a)), SetLists(a, m)
  PROVE  /\ ListsOK' /\ unpinned_list' = [unpinned_list EXCEPT ![a] = m.unpinned]
         /\ unpinned_list'[a] = m.unpinned
         /\ \A b \in Areas : b # a => unpinned_list'[b] = unpinned_list[b]
<1>1. /\ unpinned_list' = [unpinned_list EXCEPT ![a] = m.unpinned]
      /\ lru_list' = m.lru /\ lru_count' = m.count
  BY DEF SetLists
<1>2. /\ unpinned_list'[a] = m.unpinned
      /\ \A b \in Areas : b # a => unpinned_list'[b] = unpinned_list[b]
  BY <1>1 DEF Structure, AshmemTypeOK
<1>3. /\ ProperList(m.unpinned) /\ Sorted(m.unpinned) /\ \A x \in ToSet(m.unpinned) : x.asma = a
      /\ ProperList(m.lru) /\ IsInjective(m.lru) /\ m.count = PagesOn(m.lru)
      /\ ToSet(m.lru) = Elsewhere(a) \cup {x \in ToSet(m.unpinned) : ~x.purged}
  BY DEF Consistent, Loose
<1>4. \A b \in Areas : /\ ProperList(unpinned_list'[b]) /\ Sorted(unpinned_list'[b])
                       /\ \A x \in ToSet(unpinned_list'[b]) : x.asma = b
  BY <1>2, <1>3 DEF Structure, ListsOK
<1>5. ToSet(m.lru) = {r \in UNION {ToSet(unpinned_list'[b]) : b \in Areas} : ~r.purged}
  <2>1. ASSUME NEW x \in ToSet(m.lru)
        PROVE  ~x.purged /\ \E b \in Areas : x \in ToSet(unpinned_list'[b])
    <3>1. CASE x \in Elsewhere(a)
      <4>1. x.asma # a /\ x \in ToSet(lru_list)
        BY <3>1 DEF Elsewhere
      <4>2. ~x.purged /\ \E b \in Areas : x \in ToSet(unpinned_list[b])
        BY <4>1, OnLru DEF Structure, ListsOK
      <4>3. PICK b \in Areas : x \in ToSet(unpinned_list[b])
        BY <4>2
      <4>4. b # a
        BY <4>1, <4>3 DEF Structure, ListsOK
      <4> QED
        BY <4>2, <4>3, <4>4, <1>2
    <3>2. CASE x \notin Elsewhere(a)
      BY <3>2, <1>2, <1>3
    <3> QED
      BY <3>1, <3>2
  <2>2. ASSUME NEW b \in Areas, NEW x \in ToSet(unpinned_list'[b]), ~x.purged
        PROVE  x \in ToSet(m.lru)
    <3>1. CASE b = a
      BY <2>2, <3>1, <1>2, <1>3
    <3>2. CASE b # a
      <4>1. x \in ToSet(unpinned_list[b]) /\ x.asma = b
        BY <2>2, <3>2, <1>2, <1>4
      <4>2. x \in ToSet(lru_list)
        BY <2>2, <4>1, OnLru DEF Structure, ListsOK
      <4> QED
        BY <4>1, <4>2, <3>2, <1>3 DEF Elsewhere
    <3> QED
      BY <3>1, <3>2
  <2> QED
    BY <2>1, <2>2
<1>6. LruExact'
  <2>1. LruExact' <=> /\ ToSet(lru_list') = {r \in UNION {ToSet(unpinned_list'[b]) : b \in Areas} : ~r.purged}
                      /\ IsInjective(lru_list') /\ lru_count' = PagesOn(lru_list')
    BY DEF LruExact
  <2> QED
    BY <2>1, <1>1, <1>3, <1>5
<1>7. ListsOK'
  <2>1. ListsOK' <=> /\ \A b \in Areas : /\ ProperList(unpinned_list'[b]) /\ Sorted(unpinned_list'[b])
                                         /\ \A x \in ToSet(unpinned_list'[b]) : x.asma = b
                     /\ ProperList(lru_list') /\ LruExact'
    BY DEF ListsOK
  <2> QED
    BY <2>1, <1>1, <1>3, <1>4, <1>6
<1> QED
  BY <1>1, <1>2, <1>7

\* The rest of the type invariant follows from the lists.
LEMMA StructureNext ==
  ASSUME Structure, ListsOK', DOMAIN unpinned_list' = Areas, unpinned_list' = [a \in Areas |-> unpinned_list'[a]],
         state' \in [Areas -> {"closed", "open", "mapped"}], purge_all' \in Nat,
         lost' \in [Areas -> SUBSET (0 .. size - 1)], ret' \in BOOLEAN
  PROVE  Structure'
<1>1. \A a \in Areas : unpinned_list'[a] \in Seq(Range_)
  BY DEF ListsOK, ProperList
<1>2. lru_list' \in Seq(Range_) /\ lru_count' = PagesOn(lru_list') /\ ProperList(lru_list')
  BY DEF ListsOK, ProperList, LruExact
<1>3. lru_count' \in Nat
  BY <1>2, PagesOnType
<1>4. unpinned_list' \in [Areas -> Seq(Range_)]
  BY <1>1
<1> QED
  BY <1>2, <1>3, <1>4 DEF Structure, AshmemTypeOK

LEMMA IntervalIs ==
  ASSUME size \notin Offsets, NEW x \in Intervals
  PROVE  x[1] \in 0 .. size - 1 /\ x[2] \in 0 .. size - 1 /\ x[1] <= x[2]
<1>1. PICK o \in Offsets, len \in 0 .. size + 1 :
        PinUnpinOk(o, len) /\ x = <<o, o + PinLen(o, len) - 1>>
  BY DEF Intervals
<1>2. size \in 1 .. U32Pages - 1 /\ o \in 0 .. U32Pages - 1 /\ o # size
  BY SizeAssumption
<1> DEFINE n == PinLen(o, len)
<1>3. n >= 1 \/ U32Pages - o <= n
  <2>1. CASE len # 0
    BY <2>1, <1>2 DEF PinLen
  <2>2. CASE len = 0
    <3>1. n = (size - o) % U32Pages
      BY <2>2 DEF PinLen
    <3> QED
      BY <3>1, <1>2 DEF U32Pages
  <2> QED
    BY <2>1, <2>2
<1>4. U32Pages - o > n /\ o + n <= size
  BY <1>1 DEF PinUnpinOk
<1>5. n \in Int
  BY <1>2 DEF PinLen, U32Pages
<1> HIDE DEF n
<1>6. n >= 1
  BY <1>2, <1>3, <1>4, <1>5 DEF U32Pages
<1>7. x[1] = o /\ x[2] = o + n - 1
  BY <1>1 DEF n
<1> QED
  BY <1>2, <1>4, <1>5, <1>6, <1>7

-----------------------------------------------------------------------------
(* The steps of the module.                                                *)

\* The pages of a list, as UnpinnedPages has them for the list of each area.
PagesIn(list) == UNION {PagesOf(r) : r \in ToSet(list)}

LEMMA PagesInIs ==
  ASSUME NEW list, NEW p
  PROVE  p \in PagesIn(list) <=> In(list, p)
BY DEF PagesIn, In

LEMMA UnpinnedPagesAre ==
  /\ UnpinnedPages = [a \in Areas |-> PagesIn(unpinned_list[a])]
  /\ UnpinnedPages' = [a \in Areas |-> PagesIn(unpinned_list'[a])]
BY DEF UnpinnedPages, PagesIn

LEMMA UnpinnedPagesOfArea ==
  ASSUME NEW a \in Areas, NEW S, PagesIn(unpinned_list'[a]) = S,
         \A b \in Areas : b # a => unpinned_list'[b] = unpinned_list[b]
  PROVE  UnpinnedPages' = [UnpinnedPages EXCEPT ![a] = S]
BY UnpinnedPagesAre

LEMMA Remembered ==
  /\ PurgeRemembered <=> \A a \in Areas : \A p \in lost[a] : PurgedIn(unpinned_list[a], p)
  /\ PurgeRemembered' <=> \A a \in Areas : \A p \in lost'[a] : PurgedIn(unpinned_list'[a], p)
BY DEF PurgeRemembered, PurgedIn

LEMMA InitLists ==
  ASSUME AshmemInit
  PROVE  Structure /\ PurgeRemembered /\ Abstract!Init
<1>1. <<>> \in Seq(Range_) /\ Len(<<>>) = 0 /\ ToSet(<<>>) = {} /\ IsInjective(<<>>)
  BY DEF ToSet, IsInjective
<1>2. ProperList(<<>>) /\ Sorted(<<>>)
  BY <1>1 DEF ProperList, Sorted
<1>3. \A a \in Areas : unpinned_list[a] = <<>> /\ lost[a] = {}
  BY DEF AshmemInit
<1>4. LruExact
  BY <1>1, <1>3, PagesOnEmpty DEF AshmemInit, LruExact
<1>5. ListsOK
  BY <1>1, <1>2, <1>3, <1>4 DEF ListsOK, AshmemInit
<1>6. AshmemTypeOK
  BY <1>1 DEF AshmemInit, AshmemTypeOK
<1>7. PurgeRemembered
  BY <1>3 DEF PurgeRemembered
<1>8. \A a \in Areas : PagesIn(unpinned_list[a]) = {}
  BY <1>1, <1>3 DEF PagesIn
<1>9. Abstract!Init
  BY <1>8, UnpinnedPagesAre DEF Abstract!Init, AshmemInit
<1> QED
  BY <1>5, <1>6, <1>7, <1>9 DEF Structure

\* A step that leaves the lists alone.
Quiet == UNCHANGED <<unpinned_list, lru_list, lru_count, lost>>

LEMMA QuietKeeps ==
  ASSUME Structure, Quiet, state' \in [Areas -> {"closed", "open", "mapped"}],
         purge_all' \in Nat, ret' \in BOOLEAN
  PROVE  /\ Structure' /\ (PurgeRemembered => PurgeRemembered')
         /\ ret' = FALSE => Abstract!Purge
         /\ UnpinnedPages' = UnpinnedPages
<1>1. unpinned_list' = unpinned_list /\ lru_list' = lru_list /\ lru_count' = lru_count /\ lost' = lost
  BY DEF Quiet
<1>2. Structure'
  BY <1>1 DEF Structure, AshmemTypeOK, ListsOK, LruExact
<1>3. PurgeRemembered => PurgeRemembered'
  BY <1>1 DEF PurgeRemembered
<1>4. UnpinnedPages' = UnpinnedPages
  BY <1>1 DEF UnpinnedPages
<1>5. DOMAIN lost = Areas
  BY DEF Structure, AshmemTypeOK
<1> QED
  BY <1>1, <1>2, <1>3, <1>4, <1>5 DEF Abstract!Purge

LEMMA ReleaseStep ==
  ASSUME Structure, NEW a \in Areas, ashmem_release(a)
  PROVE  Structure' /\ (PurgeRemembered => PurgeRemembered') /\ Abstract!Release(a)
<1> DEFINE m == ListsReleased(a)
           u == unpinned_list[a]
<1>1. /\ Consistent(Lists(a), a, Elsewhere(a)) /\ Others(Elsewhere(a), a)
      /\ Lists(a).unpinned = u /\ Len(u) \in Nat
  BY ListsOfArea DEF Structure
<1>2. PICK f : /\ m = f[Len(u)] /\ f[0] = Lists(a)
               /\ \A i \in 1 .. Len(u) : f[i] = range_del(f[i - 1], u[i])
  BY <1>1, ReleasedIs
<1> HIDE DEF m, u
<1>3. Consistent(m, a, Elsewhere(a)) /\ ToSet(m.unpinned) = {}
  <2> DEFINE l == Lists(a)
  <2>1. f[0] = l /\ l.unpinned = u /\ Consistent(l, a, Elsewhere(a))
    BY <1>1, <1>2
  <2> HIDE DEF l
  <2>2. \A i \in 1 .. Len(l.unpinned) : f[i] = range_del(f[i - 1], l.unpinned[i])
    BY <1>2, <2>1
  <2>3. Consistent(f[Len(l.unpinned)], a, Elsewhere(a)) /\ ToSet(f[Len(l.unpinned)].unpinned) = {}
    BY <1>1, <2>1, <2>2, ReleaseEmpties
  <2> QED
    BY <1>2, <2>1, <2>3
<1>4. /\ SetLists(a, m) /\ state' = [state EXCEPT ![a] = "closed"]
      /\ lost' = [lost EXCEPT ![a] = {}] /\ ret' = FALSE /\ purge_all' = purge_all
  BY DEF ashmem_release, m
<1>5. /\ ListsOK' /\ unpinned_list' = [unpinned_list EXCEPT ![a] = m.unpinned]
      /\ unpinned_list'[a] = m.unpinned
      /\ \A b \in Areas : b # a => unpinned_list'[b] = unpinned_list[b]
  BY <1>3, <1>4, AreaChanged
<1>6. Structure'
  <2>1. /\ DOMAIN unpinned_list' = Areas /\ unpinned_list' = [b \in Areas |-> unpinned_list'[b]]
        /\ state' \in [Areas -> {"closed", "open", "mapped"}] /\ purge_all' \in Nat
        /\ lost' \in [Areas -> SUBSET (0 .. size - 1)] /\ ret' \in BOOLEAN
    BY <1>4, <1>5 DEF Structure, AshmemTypeOK
  <2> QED
    BY <1>5, <2>1, StructureNext
<1>7. /\ lost'[a] = {} /\ \A b \in Areas : b # a => lost'[b] = lost[b]
  BY <1>4 DEF Structure, AshmemTypeOK
<1>8. PurgeRemembered => PurgeRemembered'
  BY <1>5, <1>7, Remembered
<1>9. PagesIn(unpinned_list'[a]) = {}
  BY <1>3, <1>5 DEF PagesIn
<1>10. UnpinnedPages' = [UnpinnedPages EXCEPT ![a] = {}]
  BY <1>5, <1>9, UnpinnedPagesOfArea
<1> QED
  BY <1>4, <1>6, <1>8, <1>10 DEF Abstract!Release

\* The type invariant of a step that changes the lists of one area.
LEMMA AreaStructure ==
  ASSUME Structure, NEW a \in Areas, NEW m, Consistent(m, a, Elsewhere(a)), SetLists(a, m),
         state' = state, purge_all' = purge_all, ret' \in BOOLEAN,
         lost' \in [Areas -> SUBSET (0 .. size - 1)]
  PROVE  Structure'
<1>1. ListsOK' /\ unpinned_list' = [unpinned_list EXCEPT ![a] = m.unpinned]
  BY AreaChanged
<1>2. /\ DOMAIN unpinned_list' = Areas /\ unpinned_list' = [b \in Areas |-> unpinned_list'[b]]
      /\ state' \in [Areas -> {"closed", "open", "mapped"}] /\ purge_all' \in Nat
  BY <1>1 DEF Structure, AshmemTypeOK
<1> QED
  BY <1>1, <1>2, StructureNext

LEMMA PinStep ==
  ASSUME Structure, NEW a \in Areas, NEW s \in 0 .. size - 1, NEW e \in 0 .. size - 1, s <= e,
         NEW alloc \in BOOLEAN, ashmem_pin(a, s, e, alloc)
  PROVE  /\ Structure'
         /\ alloc /\ PurgeRemembered => PurgeRemembered' /\ Abstract!Pin(a, s .. e)
<1> DEFINE m == ListsPinned(a, s, e, alloc)
           u == unpinned_list[a]
           reported == \E i \in Touched(u, s, e) : u[i].purged
<1>1. /\ Consistent(Lists(a), a, Elsewhere(a)) /\ Others(Elsewhere(a), a)
      /\ Lists(a).unpinned = u /\ Len(u) \in Nat
  BY ListsOfArea DEF Structure
<1>2. PICK f : /\ m = f[Len(u)] /\ f[0] = Lists(a)
               /\ \A i \in 1 .. Len(u) : f[i] = PinTurn(f[i - 1], i, u, s, e, alloc)
  BY <1>1, PinnedIs
<1>3. s \in Int /\ e \in Int
  BY AreaSize
<1>4. /\ SetLists(a, m) /\ state' = state /\ purge_all' = purge_all /\ ret' = reported
      /\ lost' = [lost EXCEPT ![a] = @ \ (s .. e)]
  BY DEF ashmem_pin
<1>5. ProperList(u) /\ Sorted(u)
  BY DEF Structure, ListsOK
<1>6. reported \in BOOLEAN
  OBVIOUS
<1> HIDE DEF m, u, reported
<1>7. /\ Consistent(m, a, Elsewhere(a))
      /\ \A p : In(m.unpinned, p) => In(u, p) /\ p \notin s .. e
      /\ alloc => \A p : In(u, p) /\ p \notin s .. e => In(m.unpinned, p)
      /\ alloc => \A p : PurgedIn(u, p) /\ p \notin s .. e => PurgedIn(m.unpinned, p)
  <2> DEFINE l == Lists(a)
             O == Elsewhere(a)
  <2>1. f[0] = l /\ l.unpinned = u /\ Consistent(l, a, O) /\ Others(O, a)
    BY <1>1, <1>2
  <2> HIDE DEF l, O
  <2>2. Pins(f, l, s, e, alloc)
    BY <1>2, <2>1 DEF Pins
  <2>3. LET k == f[Len(l.unpinned)]
        IN  Consistent(k, a, O) /\ Leaves(k, l, s, e, alloc)
    BY <1>3, <2>1, <2>2, PinPages
  <2>4. m = f[Len(l.unpinned)] /\ l.unpinned = u
    BY <1>2, <2>1
  <2> QED
    BY <2>3, <2>4 DEF O, Leaves
<1>8. /\ unpinned_list'[a] = m.unpinned
      /\ \A b \in Areas : b # a => unpinned_list'[b] = unpinned_list[b]
  BY <1>4, <1>7, AreaChanged
<1>9. /\ lost' \in [Areas -> SUBSET (0 .. size - 1)]
      /\ lost'[a] = lost[a] \ (s .. e) /\ \A b \in Areas : b # a => lost'[b] = lost[b]
  BY <1>4 DEF Structure, AshmemTypeOK
<1>10. Structure'
  BY <1>4, <1>6, <1>7, <1>9, AreaStructure
<1>11. ASSUME alloc, PurgeRemembered PROVE PurgeRemembered' /\ Abstract!Pin(a, s .. e)
  <2>1. \A b \in Areas : \A p \in lost[b] : PurgedIn(unpinned_list[b], p)
    BY <1>11, Remembered
  <2>2. ASSUME NEW b \in Areas, NEW p \in lost'[b] PROVE PurgedIn(unpinned_list'[b], p)
    <3>1. CASE b = a
      <4>1. p \in lost[a] /\ p \notin s .. e
        BY <3>1, <1>9, <2>2
      <4>2. PurgedIn(u, p)
        BY <4>1, <2>1 DEF u
      <4> QED
        BY <3>1, <4>1, <4>2, <1>7, <1>8, <1>11
    <3>2. CASE b # a
      BY <3>2, <1>8, <1>9, <2>1, <2>2
    <3> QED
      BY <3>1, <3>2
  <2>3. PurgeRemembered'
    BY <2>2, Remembered
  <2>4. PagesIn(unpinned_list'[a]) = PagesIn(u) \ (s .. e)
    <3>1. ASSUME NEW p PROVE p \in PagesIn(m.unpinned) <=> p \in PagesIn(u) /\ p \notin s .. e
      BY <1>7, <1>11, PagesInIs
    <3> QED
      BY <3>1, <1>8
  <2>5. UnpinnedPages' = [UnpinnedPages EXCEPT ![a] = UnpinnedPages[a] \ (s .. e)]
    <3>1. UnpinnedPages[a] = PagesIn(u)
      BY UnpinnedPagesAre DEF u
    <3> DEFINE S == PagesIn(u) \ (s .. e)
    <3>2. PagesIn(unpinned_list'[a]) = S
      BY <2>4
    <3> HIDE DEF S
    <3>3. UnpinnedPages' = [UnpinnedPages EXCEPT ![a] = S]
      BY <3>2, <1>8, UnpinnedPagesOfArea
    <3> QED
      BY <3>1, <3>3 DEF S
  <2>6. ASSUME NEW p \in lost[a], p \in s .. e PROVE reported
    <3>1. PICK r \in ToSet(u) : r.purged /\ p \in PagesOf(r)
      BY <2>1 DEF PurgedIn, u
    <3>2. PICK i \in 1 .. Len(u) : u[i] = r
      BY <1>5, Members
    <3>3. u[i].pgstart \in Int /\ u[i].pgend \in Int
      BY <1>5, Members
    <3>4. i \in Touched(u, s, e)
      <4>1. SUFFICES ASSUME i \notin Touched(u, s, e) PROVE FALSE
        OBVIOUS
      <4>2. OutOf(u[i], s, e)
        BY <4>1, <1>3, <1>5, UntouchedOutOf
      <4> QED
        BY <4>2, <3>1, <3>2, <3>3, <2>6, <1>3 DEF OutOf, PagesOf
    <3> QED
      BY <3>1, <3>2, <3>4 DEF reported
  <2>7. lost[a] \cap (s .. e) # {} => ret'
    BY <2>6, <1>4
  <2> QED
    BY <2>3, <2>5, <2>7, <1>4, <1>6 DEF Abstract!Pin
<1> QED
  BY <1>10, <1>11

LEMMA UnpinStep ==
  ASSUME Structure, NEW a \in Areas, NEW s \in 0 .. size - 1, NEW e \in 0 .. size - 1, s <= e,
         NEW alloc \in BOOLEAN, ashmem_unpin(a, s, e, alloc)
  PROVE  /\ Structure'
         /\ alloc => (PurgeRemembered => PurgeRemembered') /\ Abstract!Unpin(a, s .. e)
<1> DEFINE m == ListsUnpinned(a, s, e, alloc)
           u == unpinned_list[a]
<1>1. /\ Consistent(Lists(a), a, Elsewhere(a)) /\ Others(Elsewhere(a), a)
      /\ Lists(a).unpinned = u /\ Len(u) \in Nat
  BY ListsOfArea DEF Structure
<1>2. PICK f : /\ m = f[Len(u) + 1].lists /\ f[0] = UnpinCall(Lists(a), s, e)
               /\ \A i \in 1 .. Len(u) + 1 : f[i] = UnpinTurn(f[i - 1], a, alloc)
  BY <1>1, UnpinnedIs
<1>3. /\ SetLists(a, m) /\ state' = state /\ purge_all' = purge_all /\ ret' = FALSE /\ lost' = lost
  BY DEF ashmem_unpin
<1> HIDE DEF m, u
<1>4. Consistent(m, a, Elsewhere(a)) /\ (alloc => Finished(m, Lists(a), s, e))
  <2> DEFINE l == Lists(a)
             O == Elsewhere(a)
  <2>1. f[0] = UnpinCall(l, s, e) /\ l.unpinned = u /\ Consistent(l, a, O) /\ Others(O, a)
    BY <1>1, <1>2
  <2> HIDE DEF l, O
  <2>2. \A i \in 1 .. Len(l.unpinned) + 1 : f[i] = UnpinTurn(f[i - 1], a, alloc)
    BY <1>2, <2>1
  <2>3. LET k == f[Len(l.unpinned) + 1].lists
        IN  Consistent(k, a, O) /\ (alloc => Finished(k, l, s, e))
    BY <2>1, <2>2, UnpinPages
  <2>4. m = f[Len(l.unpinned) + 1].lists
    BY <1>2, <2>1
  <2> QED
    BY <2>3, <2>4 DEF O, l
<1>5. /\ unpinned_list'[a] = m.unpinned
      /\ \A b \in Areas : b # a => unpinned_list'[b] = unpinned_list[b]
  BY <1>3, <1>4, AreaChanged
<1>6. lost' \in [Areas -> SUBSET (0 .. size - 1)] /\ ret' \in BOOLEAN
  BY <1>3 DEF Structure, AshmemTypeOK
<1>7. Structure'
  BY <1>3, <1>4, <1>6, AreaStructure
<1>8. ASSUME alloc PROVE (PurgeRemembered => PurgeRemembered') /\ Abstract!Unpin(a, s .. e)
  <2>1. /\ \A p : In(m.unpinned, p) <=> In(u, p) \/ p \in s .. e
        /\ \A p : PurgedIn(u, p) => PurgedIn(m.unpinned, p)
    BY <1>1, <1>4, <1>8 DEF Finished
  <2>2. PurgeRemembered => PurgeRemembered'
    BY <1>3, <1>5, <2>1, Remembered DEF u
  <2>3. PagesIn(unpinned_list'[a]) = PagesIn(u) \cup (s .. e)
    <3>1. ASSUME NEW p PROVE p \in PagesIn(m.unpinned) <=> p \in PagesIn(u) \/ p \in s .. e
      BY <2>1, PagesInIs
    <3> QED
      BY <3>1, <1>5
  <2>4. UnpinnedPages' = [UnpinnedPages EXCEPT ![a] = UnpinnedPages[a] \cup (s .. e)]
    <3>1. UnpinnedPages[a] = PagesIn(u)
      BY UnpinnedPagesAre DEF u
    <3> DEFINE S == PagesIn(u) \cup (s .. e)
    <3>2. PagesIn(unpinned_list'[a]) = S
      BY <2>3
    <3> HIDE DEF S
    <3>3. UnpinnedPages' = [UnpinnedPages EXCEPT ![a] = S]
      BY <3>2, <1>5, UnpinnedPagesOfArea
    <3> QED
      BY <3>1, <3>3 DEF S
  <2> QED
    BY <2>2, <2>4, <1>3 DEF Abstract!Unpin
<1> QED
  BY <1>7, <1>8

-----------------------------------------------------------------------------
(* The shrinker.                                                           *)

Mark(r, taken) == IF r \in taken THEN [r EXCEPT !.purged = TRUE] ELSE r
MarkAll(list, taken) == [i \in DOMAIN list |-> Mark(list[i], taken)]

LEMMA MarkIs ==
  ASSUME NEW r, Proper(r), NEW taken
  PROVE  LET x == Mark(r, taken)
         IN  /\ Proper(x) /\ x.asma = r.asma /\ x.pgstart = r.pgstart /\ x.pgend = r.pgend
             /\ (r \in taken => x.purged) /\ (r.purged => x.purged) /\ (r \notin taken => x = r)
<1>1. r \in [asma : Areas, pgstart : 0 .. size, pgend : 0 .. size - 1, purged : BOOLEAN]
      /\ r.pgstart <= r.pgend
  BY DEF Proper, Range_
<1>2. CASE r \in taken
  <2> DEFINE x == [r EXCEPT !.purged = TRUE]
  <2>1. x \in Range_ /\ x.asma = r.asma /\ x.pgstart = r.pgstart /\ x.pgend = r.pgend /\ x.purged = TRUE
    BY <1>1 DEF Range_
  <2>2. Mark(r, taken) = x
    BY <1>2 DEF Mark
  <2> HIDE DEF x
  <2> QED
    BY <1>1, <1>2, <2>1, <2>2 DEF Proper
<1>3. CASE r \notin taken
  BY <1>3 DEF Mark
<1> QED
  BY <1>2, <1>3

LEMMA MarkAllIs ==
  ASSUME NEW u, ProperList(u), Sorted(u), NEW taken
  PROVE  LET v == MarkAll(u, taken)
         IN  /\ ProperList(v) /\ Sorted(v) /\ Len(v) = Len(u)
             /\ \A i \in 1 .. Len(u) : v[i] = Mark(u[i], taken)
<1> DEFINE v == MarkAll(u, taken)
           n == Len(u)
<1>1. u \in Seq(Range_) /\ n \in Nat /\ DOMAIN u = 1 .. n /\ \A i \in 1 .. n : Proper(u[i])
  BY DEF ProperList
<1>2. v = [i \in 1 .. n |-> Mark(u[i], taken)]
  BY <1>1 DEF MarkAll
<1> HIDE DEF v, n
<1>3. \A i \in 1 .. n : /\ v[i] = Mark(u[i], taken) /\ Proper(v[i])
                        /\ v[i].pgstart = u[i].pgstart /\ v[i].pgend = u[i].pgend
  BY <1>1, <1>2, MarkIs
<1>4. v \in Seq(Range_) /\ Len(v) = n
  <2>1. \A i \in 1 .. n : Mark(u[i], taken) \in Range_
    BY <1>2, <1>3 DEF Proper
  <2> QED
    BY <1>1, <1>2, <2>1
<1>5. Sorted(v)
  <2>1. SUFFICES ASSUME NEW i \in 1 .. n, NEW j \in 1 .. n, i < j PROVE v[j].pgend < v[i].pgstart
    BY <1>4 DEF Sorted
  <2>2. u[j].pgend < u[i].pgstart
    BY <2>1 DEF Sorted, n
  <2> QED
    BY <2>2, <1>3
<1>6. ProperList(v)
  BY <1>3, <1>4 DEF ProperList
<1> QED
  BY <1>3, <1>4, <1>5, <1>6 DEF v, n

\* What is marked is what was there, and it keeps its place and its pages.
LEMMA MarkAllMembers ==
  ASSUME NEW u, ProperList(u), Sorted(u), NEW taken
  PROVE  /\ \A x \in ToSet(u) : Mark(x, taken) \in ToSet(MarkAll(u, taken))
         /\ \A y \in ToSet(MarkAll(u, taken)) : \E x \in ToSet(u) : y = Mark(x, taken)
         /\ PagesIn(MarkAll(u, taken)) = PagesIn(u)
<1> DEFINE v == MarkAll(u, taken)
<1>1. /\ ProperList(v) /\ Sorted(v) /\ Len(v) = Len(u)
      /\ \A i \in 1 .. Len(u) : v[i] = Mark(u[i], taken)
  BY MarkAllIs
<1> HIDE DEF v
<1>2. \A x \in ToSet(u) : Mark(x, taken) \in ToSet(v)
  <2>1. SUFFICES ASSUME NEW x \in ToSet(u) PROVE Mark(x, taken) \in ToSet(v)
    OBVIOUS
  <2>2. PICK i \in 1 .. Len(u) : u[i] = x
    BY Members
  <2>3. v[i] \in ToSet(v)
    BY <1>1, Members
  <2> QED
    BY <1>1, <2>2, <2>3
<1>3. \A y \in ToSet(v) : \E x \in ToSet(u) : y = Mark(x, taken)
  <2>1. SUFFICES ASSUME NEW y \in ToSet(v) PROVE \E x \in ToSet(u) : y = Mark(x, taken)
    OBVIOUS
  <2>2. PICK i \in 1 .. Len(v) : v[i] = y
    BY <1>1, Members
  <2>3. u[i] \in ToSet(u)
    BY <1>1, Members
  <2> QED
    BY <1>1, <2>2, <2>3
<1>4. \A x \in ToSet(u) : PagesOf(Mark(x, taken)) = PagesOf(x)
  <2>1. SUFFICES ASSUME NEW x \in ToSet(u) PROVE PagesOf(Mark(x, taken)) = PagesOf(x)
    OBVIOUS
  <2>2. Proper(x)
    BY Members
  <2>3. Mark(x, taken).pgstart = x.pgstart /\ Mark(x, taken).pgend = x.pgend
    BY <2>2, MarkIs
  <2> QED
    BY <2>3 DEF PagesOf
<1>5. PagesIn(v) = PagesIn(u)
  <2>1. ASSUME NEW p \in PagesIn(v) PROVE p \in PagesIn(u)
    BY <1>3, <1>4 DEF PagesIn
  <2>2. ASSUME NEW p \in PagesIn(u) PROVE p \in PagesIn(v)
    BY <1>2, <1>4 DEF PagesIn
  <2> QED
    BY <2>1, <2>2
<1> QED
  BY <1>2, <1>3, <1>5 DEF v

LEMMA ScannedIs ==
  ASSUME NEW nr, Len(lru_list) \in Nat
  PROVE  Scanned(nr) \in 0 .. Len(lru_list)
<1> DEFINE n == Len(lru_list)
           left == CHOOSE f : f = [i \in 0 .. n |->
                     IF i = 0 THEN nr ELSE (f[i - 1] - range_size(lru_list[i])) % ULONG]
           T == {i \in 1 .. n : left[i] = 0} \cup {n}
<1>1. Scanned(nr) = Min(T)
  BY DEF Scanned
<1>2. T \in SUBSET Nat /\ T # {} /\ T \subseteq 0 .. n
  <2> HIDE DEF left
  <2> QED
    OBVIOUS
<1> HIDE DEF T
<1>3. Min(T) \in T
  BY <1>2, MinIs
<1> QED
  BY <1>1, <1>2, <1>3

\* The first k ranges of the LRU and the others.
LEMMA LruCut ==
  ASSUME ListsOK, NEW k \in 0 .. Len(lru_list)
  PROVE  LET A == SubSeq(lru_list, 1, k)
             B == SubSeq(lru_list, k + 1, Len(lru_list))
         IN  /\ ProperList(B) /\ IsInjective(B)
             /\ lru_count - PagesOn(A) = PagesOn(B)
             /\ \A x : x \in ToSet(B) <=> x \in ToSet(lru_list) /\ x \notin ToSet(A)
             /\ ToSet(A) \subseteq ToSet(lru_list)
<1> DEFINE A == SubSeq(lru_list, 1, k)
           B == SubSeq(lru_list, k + 1, Len(lru_list))
           n == Len(lru_list)
<1>1. ProperList(lru_list) /\ IsInjective(lru_list) /\ lru_count = PagesOn(lru_list)
  BY DEF ListsOK, LruExact
<1>2. /\ ProperList(A) /\ ProperList(B) /\ Len(A) = k /\ Len(B) = n - k
      /\ \A i \in 1 .. k : A[i] = lru_list[i]
      /\ \A i \in 1 .. n - k : B[i] = lru_list[k + i]
      /\ PagesOn(lru_list) = PagesOn(A) + PagesOn(B)
  BY <1>1, Cut
<1> HIDE DEF A, B
<1>3. n \in Nat /\ \A i, j \in 1 .. n : lru_list[i] = lru_list[j] => i = j
  BY <1>1, Members, InList
<1>4. /\ \A x : x \in ToSet(lru_list) <=> \E i \in 1 .. n : lru_list[i] = x
      /\ \A x : x \in ToSet(A) <=> \E i \in 1 .. k : A[i] = x
      /\ \A x : x \in ToSet(B) <=> \E i \in 1 .. n - k : B[i] = x
  <2>1. lru_list \in Seq(Range_) /\ A \in Seq(Range_) /\ B \in Seq(Range_)
    BY <1>1, <1>2 DEF ProperList
  <2>2. \A x : x \in ToSet(lru_list) <=> \E i \in 1 .. n : lru_list[i] = x
    BY <2>1, InList
  <2>3. \A x : x \in ToSet(A) <=> \E i \in 1 .. Len(A) : A[i] = x
    BY <2>1, InList
  <2>4. \A x : x \in ToSet(B) <=> \E i \in 1 .. Len(B) : B[i] = x
    BY <2>1, InList
  <2> QED
    BY <2>2, <2>3, <2>4, <1>2
<1>5. PagesOn(A) \in Int /\ PagesOn(B) \in Int
  BY <1>2, PagesOnType
<1>6. ToSet(A) \subseteq ToSet(lru_list)
  BY <1>2, <1>3, <1>4
<1>7. ASSUME NEW x \in ToSet(B) PROVE x \in ToSet(lru_list) /\ x \notin ToSet(A)
  <2>1. PICK i \in 1 .. n - k : B[i] = x
    BY <1>4
  <2>2. k + i \in 1 .. n /\ lru_list[k + i] = x
    BY <2>1, <1>2, <1>3
  <2>3. ASSUME NEW j \in 1 .. k, A[j] = x PROVE FALSE
    <3>1. j \in 1 .. n /\ lru_list[j] = x /\ j # k + i
      BY <2>3, <1>2, <1>3
    <3> QED
      BY <3>1, <2>2, <1>3
  <2> QED
    BY <2>2, <2>3, <1>4
<1>8. ASSUME NEW x \in ToSet(lru_list), x \notin ToSet(A) PROVE x \in ToSet(B)
  <2>1. PICK i \in 1 .. n : lru_list[i] = x
    BY <1>4
  <2>2. ~ (i \in 1 .. k)
    BY <2>1, <1>2, <1>4, <1>8
  <2>3. i - k \in 1 .. n - k /\ k + (i - k) = i
    BY <2>2, <1>3
  <2>4. B[i - k] = x
    BY <2>1, <2>3, <1>2
  <2> QED
    BY <2>3, <2>4, <1>4
<1>9. IsInjective(B)
  <2>1. SUFFICES ASSUME NEW i \in 1 .. n - k, NEW j \in 1 .. n - k, B[i] = B[j] PROVE i = j
    BY <1>2, InList DEF ProperList
  <2>2. k + i \in 1 .. n /\ k + j \in 1 .. n /\ lru_list[k + i] = lru_list[k + j]
    BY <2>1, <1>2, <1>3
  <2>3. k + i = k + j
    BY <2>2, <1>3
  <2> QED
    BY <2>3, <1>3
<1>10. lru_count - PagesOn(A) = PagesOn(B)
  BY <1>1, <1>2, <1>5
<1> QED
  BY <1>2, <1>6, <1>7, <1>8, <1>9, <1>10 DEF A, B

LEMMA ShrinkStep ==
  ASSUME Structure, NEW nr, Shrink(nr), purge_all' \in Nat
  PROVE  Structure' /\ (PurgeRemembered => PurgeRemembered') /\ Abstract!Purge
<1> DEFINE k == Scanned(nr)
           A == SubSeq(lru_list, 1, k)
           B == SubSeq(lru_list, k + 1, Len(lru_list))
           taken == ToSet(A)
           Taken(a) == UNION {PagesOf(r) : r \in {x \in taken : x.asma = a}}
<1>1. /\ ListsOK /\ ProperList(lru_list) /\ LruExact
      /\ \A a \in Areas : /\ ProperList(unpinned_list[a]) /\ Sorted(unpinned_list[a])
                          /\ \A x \in ToSet(unpinned_list[a]) : x.asma = a
  BY DEF Structure, ListsOK
<1>2. k \in 0 .. Len(lru_list)
  BY <1>1, Members, ScannedIs
<1>3. /\ ProperList(B) /\ IsInjective(B) /\ lru_count - PagesOn(A) = PagesOn(B)
      /\ \A x : x \in ToSet(B) <=> x \in ToSet(lru_list) /\ x \notin taken
      /\ taken \subseteq ToSet(lru_list)
  <2> HIDE DEF k
  <2> QED
    BY <1>1, <1>2, LruCut
<1>4. /\ unpinned_list' = [a \in Areas |-> MarkAll(unpinned_list[a], taken)]
      /\ lru_list' = B /\ lru_count' = lru_count - PagesOn(A)
      /\ lost' = [a \in Areas |-> lost[a] \cup Taken(a)]
      /\ ret' = FALSE /\ state' = state
  BY DEF Shrink, MarkAll, Mark
<1> HIDE DEF k, A, B, taken, Taken
<1>5. ASSUME NEW x \in taken PROVE /\ ~x.purged /\ x.asma \in Areas /\ x \in ToSet(unpinned_list[x.asma])
  <2>1. ~x.purged /\ \E b \in Areas : x \in ToSet(unpinned_list[b])
    BY <1>1, <1>3, OnLru
  <2>2. PICK b \in Areas : x \in ToSet(unpinned_list[b])
    BY <2>1
  <2>3. x.asma = b
    BY <2>2, <1>1
  <2> QED
    BY <2>1, <2>2, <2>3
<1>6. \A a \in Areas : /\ unpinned_list'[a] = MarkAll(unpinned_list[a], taken)
                       /\ lost'[a] = lost[a] \cup Taken(a)
  BY <1>4
<1>7. ASSUME NEW a \in Areas
      PROVE  /\ ProperList(unpinned_list'[a]) /\ Sorted(unpinned_list'[a])
             /\ \A x \in ToSet(unpinned_list[a]) : Mark(x, taken) \in ToSet(unpinned_list'[a])
             /\ \A y \in ToSet(unpinned_list'[a]) : \E x \in ToSet(unpinned_list[a]) : y = Mark(x, taken)
             /\ PagesIn(unpinned_list'[a]) = PagesIn(unpinned_list[a])
  <2> DEFINE u == unpinned_list[a]
             v == MarkAll(u, taken)
  <2>1. ProperList(u) /\ Sorted(u) /\ unpinned_list'[a] = v
    BY <1>1, <1>6
  <2> HIDE DEF u
  <2>2. ProperList(v) /\ Sorted(v)
    BY <2>1, MarkAllIs
  <2>3. /\ \A x \in ToSet(u) : Mark(x, taken) \in ToSet(v)
        /\ \A y \in ToSet(v) : \E x \in ToSet(u) : y = Mark(x, taken)
        /\ PagesIn(v) = PagesIn(u)
    BY <2>1, MarkAllMembers
  <2> HIDE DEF v
  <2> QED
    BY <2>1, <2>2, <2>3 DEF u
<1>8. ASSUME NEW a \in Areas, NEW x \in ToSet(unpinned_list[a])
      PROVE  /\ Mark(x, taken).asma = a /\ PagesOf(Mark(x, taken)) = PagesOf(x)
             /\ (x \in taken => Mark(x, taken).purged) /\ (x.purged => Mark(x, taken).purged)
             /\ (x \notin taken => Mark(x, taken) = x)
  <2>1. Proper(x) /\ x.asma = a
    BY <1>1, Members
  <2> QED
    BY <2>1, MarkIs DEF PagesOf
<1>9. ToSet(B) = {r \in UNION {ToSet(unpinned_list'[b]) : b \in Areas} : ~r.purged}
  <2>1. ASSUME NEW x \in ToSet(B)
        PROVE  ~x.purged /\ \E b \in Areas : x \in ToSet(unpinned_list'[b])
    <3>1. x \in ToSet(lru_list) /\ x \notin taken
      BY <1>3
    <3>2. ~x.purged /\ \E b \in Areas : x \in ToSet(unpinned_list[b])
      BY <3>1, <1>1, OnLru
    <3>3. PICK b \in Areas : x \in ToSet(unpinned_list[b])
      BY <3>2
    <3>4. Mark(x, taken) = x /\ Mark(x, taken) \in ToSet(unpinned_list'[b])
      BY <3>1, <3>3, <1>7, <1>8
    <3> QED
      BY <3>2, <3>4
  <2>2. ASSUME NEW b \in Areas, NEW y \in ToSet(unpinned_list'[b]), ~y.purged PROVE y \in ToSet(B)
    <3>1. PICK x \in ToSet(unpinned_list[b]) : y = Mark(x, taken)
      BY <1>7
    <3>2. x \notin taken /\ ~x.purged /\ y = x
      BY <3>1, <2>2, <1>8
    <3>3. x \in ToSet(lru_list)
      BY <3>1, <3>2, <1>1, OnLru
    <3> QED
      BY <3>2, <3>3, <1>3
  <2> QED
    BY <2>1, <2>2
<1>10. LruExact'
  <2>1. LruExact' <=> /\ ToSet(lru_list') = {r \in UNION {ToSet(unpinned_list'[b]) : b \in Areas} : ~r.purged}
                      /\ IsInjective(lru_list') /\ lru_count' = PagesOn(lru_list')
    BY DEF LruExact
  <2> QED
    BY <2>1, <1>3, <1>4, <1>9
<1>11. ListsOK'
  <2>1. ListsOK' <=> /\ \A b \in Areas : /\ ProperList(unpinned_list'[b]) /\ Sorted(unpinned_list'[b])
                                         /\ \A x \in ToSet(unpinned_list'[b]) : x.asma = b
                     /\ ProperList(lru_list') /\ LruExact'
    BY DEF ListsOK
  <2>2. \A b \in Areas : \A y \in ToSet(unpinned_list'[b]) : y.asma = b
    BY <1>7, <1>8
  <2> QED
    BY <2>1, <2>2, <1>3, <1>4, <1>7, <1>10
<1>12. ASSUME NEW a \in Areas PROVE Taken(a) \subseteq UnpinnedPages[a]
  <2>1. UnpinnedPages[a] = PagesIn(unpinned_list[a])
    BY UnpinnedPagesAre
  <2> QED
    BY <2>1, <1>5 DEF Taken, PagesIn
<1>13. ASSUME NEW a \in Areas PROVE UnpinnedPages[a] \subseteq 0 .. size - 1
  <2>1. UnpinnedPages[a] = PagesIn(unpinned_list[a])
    BY UnpinnedPagesAre
  <2>2. ASSUME NEW p \in PagesIn(unpinned_list[a]) PROVE p \in 0 .. size - 1
    <3>1. PICK r \in ToSet(unpinned_list[a]) : p \in r.pgstart .. r.pgend
      BY DEF PagesIn, PagesOf
    <3>2. Proper(r)
      BY <1>1, Members
    <3>3. r.pgstart \in 0 .. size /\ r.pgend \in 0 .. size - 1
      BY <3>2 DEF Proper, Range_
    <3> QED
      BY <3>1, <3>3, AreaSize
  <2> QED
    BY <2>1, <2>2
<1>14. lost' \in [Areas -> SUBSET (0 .. size - 1)]
  <2>1. \A a \in Areas : lost[a] \subseteq 0 .. size - 1 /\ Taken(a) \subseteq 0 .. size - 1
    BY <1>12, <1>13 DEF Structure, AshmemTypeOK
  <2> QED
    BY <2>1, <1>4
<1>15. Structure'
  <2>1. /\ DOMAIN unpinned_list' = Areas /\ unpinned_list' = [b \in Areas |-> unpinned_list'[b]]
        /\ state' \in [Areas -> {"closed", "open", "mapped"}] /\ ret' \in BOOLEAN
    BY <1>4 DEF Structure, AshmemTypeOK
  <2> QED
    BY <1>11, <1>14, <2>1, StructureNext
<1>16. ASSUME PurgeRemembered PROVE PurgeRemembered'
  <2>1. SUFFICES ASSUME NEW a \in Areas, NEW p \in lost'[a] PROVE PurgedIn(unpinned_list'[a], p)
    BY Remembered
  <2>2. \E x \in ToSet(unpinned_list[a]) : (x.purged \/ x \in taken) /\ p \in PagesOf(x)
    <3>1. CASE p \in lost[a]
      BY <3>1, <1>16, Remembered DEF PurgedIn
    <3>2. CASE p \in Taken(a)
      BY <3>2, <1>5 DEF Taken
    <3> QED
      BY <3>1, <3>2, <1>6, <2>1
  <2>3. PICK x \in ToSet(unpinned_list[a]) : (x.purged \/ x \in taken) /\ p \in PagesOf(x)
    BY <2>2
  <2>4. Mark(x, taken) \in ToSet(unpinned_list'[a])
    BY <1>7
  <2>5. Mark(x, taken).purged /\ PagesOf(Mark(x, taken)) = PagesOf(x)
    BY <2>3, <1>8
  <2> QED
    BY <2>3, <2>4, <2>5 DEF PurgedIn
<1>17. UnpinnedPages' = UnpinnedPages
  BY <1>7, UnpinnedPagesAre
<1>18. Abstract!Purge
  <2>1. \A a \in Areas : lost[a] \subseteq lost'[a] /\ lost'[a] \subseteq lost[a] \cup UnpinnedPages[a]
    BY <1>6, <1>12
  <2> QED
    BY <2>1, <1>4, <1>14, <1>17 DEF Abstract!Purge
<1> QED
  BY <1>15, <1>16, <1>18

-----------------------------------------------------------------------------
(* What the lists answer.                                                  *)

LEMMA StructureSorted ==
  ASSUME Structure
  PROVE  RangesSorted /\ LruExact
BY DEF Structure, ListsOK, RangesSorted, Sorted

\* The answer that is given at the first range below the pages is right.
LEMMA StatusIs ==
  ASSUME Structure
  PROVE  PinStatusExact
<1>1. SUFFICES ASSUME NEW a \in Areas, NEW s \in 0 .. size - 1, NEW e \in 0 .. size - 1, s <= e
               PROVE  ashmem_get_pin_status(a, s, e) <=> UnpinnedPages[a] \cap (s .. e) # {}
  BY DEF PinStatusExact
<1> DEFINE u == unpinned_list[a]
           k == ShortCircuit(u, s)
<1>2. ProperList(u) /\ Sorted(u) /\ s \in Int /\ e \in Int
  BY AreaSize DEF Structure, ListsOK
<1>3. /\ Len(u) \in Nat
      /\ \A i \in 1 .. Len(u) : /\ u[i] \in ToSet(u) /\ u[i].pgstart \in Int /\ u[i].pgend \in Int
                                /\ u[i].pgstart <= u[i].pgend
      /\ \A x \in ToSet(u) : \E i \in 1 .. Len(u) : u[i] = x
  BY <1>2, Members
<1>4. UnpinnedPages[a] = PagesIn(u)
  BY UnpinnedPagesAre
<1>5. ashmem_get_pin_status(a, s, e) <=> \E i \in 1 .. k - 1 : page_range_in_range(u[i], s, e)
  BY DEF ashmem_get_pin_status
<1> HIDE DEF u
<1>6. /\ k \in 1 .. Len(u) + 1
      /\ \A i \in k .. Len(u) : u[i].pgend < s
  BY <1>2, ShortCircuitIs
<1> HIDE DEF k
<1>7. ASSUME NEW i \in 1 .. k - 1, page_range_in_range(u[i], s, e)
      PROVE  UnpinnedPages[a] \cap (s .. e) # {}
  <2>1. i \in 1 .. Len(u)
    BY <1>3, <1>6
  <2>2. \E p \in s .. e : u[i].pgstart <= p /\ p <= u[i].pgend
    <3>1. CASE page_in_range(u[i], s)
      BY <3>1, <1>1, <1>2 DEF page_in_range
    <3>2. CASE page_in_range(u[i], e)
      BY <3>2, <1>1, <1>2 DEF page_in_range
    <3>3. CASE page_range_subsumes_range(u[i], s, e)
      <4>1. u[i].pgstart \in s .. e
        BY <3>3, <1>2, <1>3, <2>1 DEF page_range_subsumes_range
      <4> QED
        BY <4>1, <1>3, <2>1
    <3> QED
      BY <1>7, <3>1, <3>2, <3>3 DEF page_range_in_range
  <2>3. PICK p \in s .. e : u[i].pgstart <= p /\ p <= u[i].pgend
    BY <2>2
  <2>4. p \in PagesOf(u[i]) /\ u[i] \in ToSet(u)
    BY <2>1, <2>3, <1>2, <1>3 DEF PagesOf
  <2> QED
    BY <2>3, <2>4, <1>4 DEF PagesIn
<1>8. ASSUME NEW p \in UnpinnedPages[a], p \in s .. e
      PROVE  \E i \in 1 .. k - 1 : page_range_in_range(u[i], s, e)
  <2>1. PICK x \in ToSet(u) : p \in PagesOf(x)
    BY <1>4 DEF PagesIn
  <2>2. PICK i \in 1 .. Len(u) : u[i] = x
    BY <1>3
  <2>3. p \in Int /\ s <= p /\ p <= e /\ u[i].pgstart <= p /\ p <= u[i].pgend
    BY <2>1, <2>2, <1>2, <1>3, <1>8 DEF PagesOf
  <2>4. i \in 1 .. k - 1
    <3>1. ~ (i \in k .. Len(u))
      BY <2>3, <1>2, <1>3, <1>6
    <3> QED
      BY <3>1, <1>3, <1>6
  <2>5. page_range_in_range(u[i], s, e)
    BY <2>3, <1>2, <1>3 DEF page_range_in_range, page_in_range, page_range_subsumes_range
  <2> QED
    BY <2>4, <2>5
<1> QED
  BY <1>5, <1>7, <1>8

-----------------------------------------------------------------------------
(* Every step, and the theorems about the areas.                           *)

LEMMA NextKeeps ==
  ASSUME size \notin Offsets, Structure, AshmemNext
  PROVE  /\ Structure'
         /\ AllocMayFail = FALSE /\ PurgeRemembered => PurgeRemembered' /\ Abstract!Next
<1> DEFINE Goal == /\ Structure'
                   /\ AllocMayFail = FALSE /\ PurgeRemembered => PurgeRemembered' /\ Abstract!Next
<1>1. /\ Allocs \subseteq BOOLEAN /\ (AllocMayFail = FALSE => Allocs = {TRUE})
      /\ state \in [Areas -> {"closed", "open", "mapped"}] /\ purge_all \in Nat /\ lru_count \in Nat
  BY DEF Allocs, Structure, AshmemTypeOK
<1>2. ASSUME NEW a \in Areas, ashmem_open(a) \/ ashmem_mmap(a) PROVE Goal
  <2>1. /\ Quiet /\ state' \in [Areas -> {"closed", "open", "mapped"}] /\ purge_all' \in Nat
        /\ ret' = FALSE
    BY <1>1, <1>2 DEF ashmem_open, ashmem_mmap, Quiet, lists
  <2> QED
    BY <2>1, QuietKeeps DEF Abstract!Next
<1>3. ASSUME NEW a \in Areas, ashmem_release(a) PROVE Goal
  BY <1>3, ReleaseStep DEF Abstract!Next
<1>4. ASSUME NEW a \in Areas, NEW x \in Intervals, NEW alloc \in Allocs,
             ashmem_pin(a, x[1], x[2], alloc) \/ ashmem_unpin(a, x[1], x[2], alloc)
      PROVE  Goal
  <2> DEFINE s == x[1]
             e == x[2]
  <2>1. s \in 0 .. size - 1 /\ e \in 0 .. size - 1 /\ s <= e
    BY IntervalIs
  <2>2. alloc \in BOOLEAN /\ (AllocMayFail = FALSE => alloc)
    BY <1>1
  <2>3. ashmem_pin(a, s, e, alloc) \/ ashmem_unpin(a, s, e, alloc)
    BY <1>4
  <2> HIDE DEF s, e
  <2>4. Abstract!Interval(s, e) = s .. e
    BY <2>1, AreaSize DEF Abstract!Interval
  <2>5. Abstract!Pin(a, s .. e) \/ Abstract!Unpin(a, s .. e) => Abstract!Next
    BY <2>1, <2>4 DEF Abstract!Next
  <2>6. CASE ashmem_pin(a, s, e, alloc)
    BY <2>1, <2>2, <2>5, <2>6, PinStep
  <2>7. CASE ashmem_unpin(a, s, e, alloc)
    BY <2>1, <2>2, <2>5, <2>7, UnpinStep
  <2> QED
    BY <2>3, <2>6, <2>7
<1>5. ASSUME NEW nr \in NrToScan, ashmem_shrink(nr) PROVE Goal
  <2>1. Shrink(nr) /\ purge_all' \in Nat
    BY <1>1, <1>5 DEF ashmem_shrink
  <2> QED
    BY <2>1, ShrinkStep DEF Abstract!Next
<1>6. ASSUME PurgeAllCount PROVE Goal
  <2>1. /\ Quiet /\ state' \in [Areas -> {"closed", "open", "mapped"}] /\ purge_all' \in Nat
        /\ ret' = FALSE
    BY <1>1, <1>6 DEF PurgeAllCount, Quiet, lists
  <2> QED
    BY <2>1, QuietKeeps DEF Abstract!Next
<1>7. ASSUME PurgeAllShrink PROVE Goal
  <2>1. Shrink(purge_all) /\ purge_all' \in Nat
    BY <1>7 DEF PurgeAllShrink
  <2> QED
    BY <2>1, ShrinkStep DEF Abstract!Next
<1> QED
  BY <1>2, <1>3, <1>4, <1>5, <1>6, <1>7 DEF AshmemNext

LEMMA StutterKeeps ==
  ASSUME Structure, UNCHANGED ashmem_vars
  PROVE  /\ Structure' /\ (PurgeRemembered => PurgeRemembered') /\ UNCHANGED Abstract!vars
<1>1. /\ Quiet /\ state' = state /\ purge_all' = purge_all /\ ret' = ret /\ lost' = lost
  BY DEF ashmem_vars, Quiet
<1>2. state' \in [Areas -> {"closed", "open", "mapped"}] /\ purge_all' \in Nat /\ ret' \in BOOLEAN
  BY <1>1 DEF Structure, AshmemTypeOK
<1> QED
  BY <1>1, <1>2, QuietKeeps DEF Abstract!vars

\* Whatever areas there are, and whether or not memory for new ranges is
\* found: the list of each area stays ordered and its ranges disjoint, the
\* LRU holds each range that is not purged once, lru_count is the number of
\* its pages, and GET_PIN_STATUS is right about every interval.  No call
\* begins at the very end of an area.
THEOREM ListsStayOrdered ==
  ASSUME size \notin Offsets
  PROVE  AshmemSpec => [](AshmemTypeOK /\ RangesSorted /\ LruExact /\ PinStatusExact)
<1>1. AshmemInit => Structure
  BY InitLists
<1>2. Structure /\ [AshmemNext]_ashmem_vars => Structure'
  BY NextKeeps, StutterKeeps
<1>3. Structure => AshmemTypeOK /\ RangesSorted /\ LruExact /\ PinStatusExact
  BY StructureSorted, StatusIs DEF Structure
<1> QED
  BY <1>1, <1>2, <1>3, PTL DEF AshmemSpec

\* If memory for new ranges is found, a page that the shrinker has truncated
\* also stays in a range that is marked purged, through every merge, cut and
\* split of ranges, until a pin or a release takes it out.
THEOREM ListsAreConsistent ==
  ASSUME size \notin Offsets, AllocMayFail = FALSE
  PROVE  AshmemSpec => []ListsConsistent
<1> DEFINE I == Structure /\ PurgeRemembered
<1>1. AshmemInit => I
  BY InitLists
<1>2. I /\ [AshmemNext]_ashmem_vars => I'
  BY NextKeeps, StutterKeeps
<1>3. I => ListsConsistent
  BY StructureSorted, StatusIs DEF Structure, ListsConsistent
<1> QED
  BY <1>1, <1>2, <1>3, PTL DEF AshmemSpec

\* The lists of ranges implement pages that are pinned, unpinned and lost:
\* ashmem_pin and ashmem_unpin change exactly the pages they are given, the
\* shrinker takes only unpinned pages, and a pin of a page that was taken
\* since it was unpinned returns ASHMEM_WAS_PURGED.
THEOREM AreasKeepPages ==
  ASSUME size \notin Offsets, AllocMayFail = FALSE
  PROVE  AshmemSpec => ImplementsPages
<1> DEFINE I == Structure /\ PurgeRemembered
<1>1. AshmemInit => I /\ Abstract!Init
  BY InitLists
<1>2. I /\ [AshmemNext]_ashmem_vars => I' /\ [Abstract!Next]_(Abstract!vars)
  BY NextKeeps, StutterKeeps
<1> QED
  BY <1>1, <1>2, PTL DEF AshmemSpec, ImplementsPages, Abstract!Spec

-----------------------------------------------------------------------------
(* The low memory killer.                                                  *)

\* t is not a better victim than s.
NoWorse(t, s) ==
  \/ oom_adj[t] < oom_adj[s]
  \/ oom_adj[t] = oom_adj[s] /\ rss[t] <= rss[s]

\* What shrinker k has found when it has looked at the tasks before pos[k].
LoopInv(k) ==
  /\ ~Reading(k) => selected[k] = None /\ pos[k] = 1
  /\ pc[k] \in {"pending", "kill"} => pos[k] = Len(tasklist) + 1
  /\ selected[k] # None => /\ oom_adj[selected[k]] >= Min_adj(seen[k]) /\ rss[selected[k]] > 0
                           /\ status[selected[k]] \in {"alive", "nomm"}
  /\ Reading(k) => \A j \in 1 .. pos[k] - 1 :
       tasklist[j] \in Eligible(seen[k]) => selected[k] # None /\ NoWorse(tasklist[j], selected[k])

\* A notifier between its comparison and its assignment.
ClearingInv == \A t \in clearing : status[t] = "unhashed"

KInv == TypeOK /\ NoStaleDeath /\ ClearingInv /\ \A k \in Shrinkers : LoopInv(k)

-----------------------------------------------------------------------------
(* Lemmas about the choice of a victim.                                    *)

LEMMA TaskTypes == \A t \in Tasks : oom_adj[t] \in Int /\ rss[t] \in Nat /\ t # None
BY TasksAssumption

LEMMA ListTypes == Len(tasklist) \in Nat /\ \A j \in 1 .. Len(tasklist) : tasklist[j] \in Tasks
BY TasksAssumption

\* for_each_process reaches every task.
LEMMA EveryTaskListed == \A t \in Tasks : \E j \in 1 .. Len(tasklist) : tasklist[j] = t
<1>1. Tasks = {tasklist[j] : j \in DOMAIN tasklist}
  BY TasksAssumption DEF Range
<1>2. DOMAIN tasklist = 1 .. Len(tasklist)
  BY TasksAssumption
<1> QED
  BY <1>1, <1>2

\* Better is the strict order of which NoWorse is the complement.
LEMMA BetterOrder ==
  ASSUME NEW t \in Tasks, NEW p \in Tasks, NEW s \in Tasks
  PROVE  /\ NoWorse(t, t)
         /\ ~Better(p, s) => NoWorse(p, s)
         /\ Better(p, s) /\ NoWorse(t, s) => NoWorse(t, p)
<1>1. /\ oom_adj[t] \in Int /\ oom_adj[p] \in Int /\ oom_adj[s] \in Int
      /\ rss[t] \in Nat /\ rss[p] \in Nat /\ rss[s] \in Nat
  BY TaskTypes
<1> QED
  BY <1>1 DEF NoWorse, Better

LEMMA FreePagesType == TypeOK => FreePages \in 0 .. Pages
<1>1. {t \in Tasks : HasMm(t)} \in SUBSET Tasks
  OBVIOUS
<1>2. ResidentPages({t \in Tasks : HasMm(t)}) \in 0 .. Pages
  BY <1>1, MemoryAssumption
<1> QED
  BY <1>2, ParameterAssumption DEF FreePages

\* A loop is not disturbed by a step that leaves its own variables alone and
\* in which tasks only lose their mm and none leaves the list.
LEMMA LoopKept ==
  ASSUME NEW k \in Shrinkers, TypeOK, TypeOK', LoopInv(k),
         pc'[k] = pc[k], seen'[k] = seen[k], pos'[k] = pos[k], selected'[k] = selected[k],
         \A t \in Tasks : status'[t] = "alive" => status[t] = "alive",
         Reading(k) => \A t \in Tasks : status[t] \in {"alive", "nomm"} => status'[t] \in {"alive", "nomm"}
  PROVE  LoopInv(k)'
<1>1. Reading(k)' <=> Reading(k)
  BY DEF Reading
<1>2. selected[k] \in Tasks \cup {None}
  BY DEF TypeOK
<1>3. Eligible(seen[k])' \subseteq Eligible(seen[k])
  BY DEF Eligible, HasMm
<1>4. selected[k] # None => Reading(k)
  BY DEF LoopInv
<1> QED
  BY <1>1, <1>2, <1>3, <1>4 DEF LoopInv, NoWorse, Reading

\* A step of shrinker k concerns its own loop only.
LEMMA OthersKept ==
  ASSUME NEW k \in Shrinkers, KInv, TypeOK', NoStaleDeath', LoopInv(k)', UNCHANGED <<status, clearing>>,
         \A m \in Shrinkers \ {k} : /\ pc'[m] = pc[m] /\ seen'[m] = seen[m]
                                    /\ pos'[m] = pos[m] /\ selected'[m] = selected[m]
  PROVE  KInv'
<1>1. ASSUME NEW m \in Shrinkers \ {k} PROVE LoopInv(m)'
  BY LoopKept DEF KInv
<1>2. ClearingInv'
  BY DEF KInv, ClearingInv
<1> QED
  BY <1>1, <1>2 DEF KInv

\* Return resets what the loop has found.
LEMMA ReturnStep ==
  ASSUME NEW k \in Shrinkers, KInv, Return(k), UNCHANGED status, NoStaleDeath',
         UNCHANGED <<clearing, lowmem_deathpending>>, sigkill' \subseteq Tasks, deathpending_left' \in -1 .. HZ
  PROVE  KInv'
<1>1. pc'[k] = "idle" /\ selected'[k] = None /\ pos'[k] = 1
  BY DEF Return, KInv, TypeOK
<1>2. TypeOK'
  <2>1. 1 \in 1 .. Len(tasklist) + 1
    BY ListTypes
  <2>2. /\ pc' \in [Shrinkers -> {"idle", "check", "timeout", "adj", "scan", "pending", "kill"}]
        /\ seen' \in [Shrinkers -> Reads \cup {NoRead}]
        /\ pos' \in [Shrinkers -> 1 .. Len(tasklist) + 1]
        /\ selected' \in [Shrinkers -> Tasks \cup {None}]
    BY <2>1 DEF Return, KInv, TypeOK
  <2>3. \A m \in Shrinkers : pc'[m] \in {"pending", "kill"} => selected'[m] # None
    BY <1>1 DEF Return, KInv, TypeOK
  <2> QED
    BY <2>2, <2>3 DEF KInv, TypeOK
<1>3. LoopInv(k)'
  BY <1>1 DEF LoopInv, Reading
<1>4. \A m \in Shrinkers \ {k} : /\ pc'[m] = pc[m] /\ seen'[m] = seen[m]
                                 /\ pos'[m] = pos[m] /\ selected'[m] = selected[m]
  BY DEF Return, KInv, TypeOK
<1> QED
  BY <1>2, <1>3, <1>4, OthersKept

\* A step that only moves k on, without coming to the end of the loop.
LEMMA MoveStep ==
  ASSUME NEW k \in Shrinkers, NEW from, NEW to \in {"check", "timeout", "adj", "scan"},
         KInv, Goto(k, from, to), from # "scan", ~Reading(k),
         UNCHANGED <<task_vars, pending_vars, pos, selected>>,
         seen' \in [Shrinkers -> Reads \cup {NoRead}],
         \A m \in Shrinkers \ {k} : seen'[m] = seen[m]
  PROVE  KInv'
<1>1. pc'[k] = to /\ pc' = [pc EXCEPT ![k] = to]
  BY DEF Goto, KInv, TypeOK
<1>2. TypeOK'
  BY <1>1 DEF KInv, TypeOK, task_vars, pending_vars
<1>3. NoStaleDeath'
  BY DEF KInv, NoStaleDeath, task_vars, pending_vars
<1>4. selected[k] = None /\ pos[k] = 1
  BY DEF KInv, LoopInv
<1>5. LoopInv(k)'
  BY <1>1, <1>4 DEF LoopInv
<1>6. \A m \in Shrinkers \ {k} : pc'[m] = pc[m]
  BY <1>1 DEF KInv, TypeOK
<1> QED
  BY <1>2, <1>3, <1>5, <1>6, OthersKept DEF task_vars

\* lowmem_shrink, up to the loop.
LEMMA BeforeLoopStep ==
  ASSUME NEW k \in Shrinkers, KInv,
         ShrinkRead(k) \/ ShrinkCheck(k) \/ ShrinkTimeout(k) \/ ShrinkNothing(k) \/ ShrinkLow(k)
  PROVE  KInv'
<1>0. NoStaleDeath /\ TypeOK
  BY DEF KInv
<1>1. CASE ShrinkRead(k)
  <2>1. seen' \in [Shrinkers -> Reads \cup {NoRead}] /\ \A m \in Shrinkers \ {k} : seen'[m] = seen[m]
    BY <1>0, <1>1, FreePagesType DEF ShrinkRead, TypeOK, Reads
  <2>2. Goto(k, "idle", "check") /\ ~Reading(k)
    BY <1>1 DEF ShrinkRead, Goto, Reading
  <2> QED
    BY <1>1, <2>1, <2>2, MoveStep DEF ShrinkRead
<1>2. CASE ShrinkCheck(k)
  <2>1. ~Reading(k) /\ UNCHANGED <<seen, task_vars, pending_vars, pos, selected>>
    BY <1>2 DEF ShrinkCheck, Goto, Reading
  <2>2. \E to \in {"adj", "timeout"} : Goto(k, "check", to)
    BY <1>2 DEF ShrinkCheck
  <2>3. seen' \in [Shrinkers -> Reads \cup {NoRead}]
    BY <1>0, <2>1 DEF TypeOK
  <2> QED
    BY <2>1, <2>2, <2>3, MoveStep
<1>3. CASE ShrinkTimeout(k)
  <2>1. CASE InTime
    BY <1>0, <1>3, <2>1, ReturnStep
    DEF ShrinkTimeout, task_vars, pending_vars, NoStaleDeath, TypeOK
  <2>2. CASE ~InTime
    <3>1. Goto(k, "timeout", "adj") /\ UNCHANGED <<seen, task_vars, pending_vars, pos, selected>>
      BY <1>3, <2>2 DEF ShrinkTimeout
    <3>2. ~Reading(k)
      BY <3>1 DEF Goto, Reading
    <3>3. seen' \in [Shrinkers -> Reads \cup {NoRead}]
      BY <1>0, <3>1 DEF TypeOK
    <3> QED
      BY <3>1, <3>2, <3>3, MoveStep
  <2> QED
    BY <2>1, <2>2
<1>4. CASE ShrinkNothing(k)
  BY <1>0, <1>4, ReturnStep DEF ShrinkNothing, task_vars, pending_vars, NoStaleDeath, TypeOK
<1>5. CASE ShrinkLow(k)
  <2>1. Goto(k, "adj", "scan") /\ UNCHANGED <<seen, task_vars, pending_vars, pos, selected>>
    BY <1>5 DEF ShrinkLow
  <2>2. ~Reading(k)
    BY <2>1 DEF Goto, Reading
  <2>3. seen' \in [Shrinkers -> Reads \cup {NoRead}]
    BY <1>0, <2>1 DEF TypeOK
  <2> QED
    BY <2>1, <2>2, <2>3, MoveStep
<1> QED
  BY <1>1, <1>2, <1>3, <1>4, <1>5

\* One round of the loop: the victim so far is kept or replaced by a better
\* one, and no task before it becomes worse than the new one.
LEMMA ScanStep ==
  ASSUME NEW k \in Shrinkers, KInv, ShrinkScan(k)
  PROVE  KInv'
<1> DEFINE p == tasklist[pos[k]]
           Chosen == /\ HasMm(p) /\ rss[p] > 0
                     /\ oom_adj[p] >= Min_adj(seen[k])
                     /\ selected[k] # None => Better(p, selected[k])
<1>0. TypeOK /\ LoopInv(k) /\ pc[k] = "scan" /\ Reading(k)
  BY DEF KInv, ShrinkScan, Reading
<1>1. pos[k] \in 1 .. Len(tasklist) /\ p \in Tasks /\ pos[k] + 1 \in 1 .. Len(tasklist) + 1 /\ pos[k] \in Nat
  BY <1>0, ListTypes DEF ShrinkScan, TypeOK
<1>2. /\ pos'[k] = pos[k] + 1 /\ pos' \in [Shrinkers -> 1 .. Len(tasklist) + 1]
      /\ \A m \in Shrinkers \ {k} : pos'[m] = pos[m]
  BY <1>0, <1>1 DEF ShrinkScan, TypeOK
<1>3. /\ selected'[k] = IF Chosen THEN p ELSE selected[k]
      /\ \A m \in Shrinkers \ {k} : selected'[m] = selected[m]
      /\ selected' \in [Shrinkers -> Tasks \cup {None}]
  <2>1. selected' = IF Chosen THEN [selected EXCEPT ![k] = p] ELSE selected
    BY DEF ShrinkScan
  <2> HIDE DEF Chosen
  <2> QED
    BY <1>0, <1>1, <2>1 DEF TypeOK
<1>4. UNCHANGED <<status, sigkill, clearing, lowmem_deathpending, deathpending_left, pc, seen>>
  BY DEF ShrinkScan, task_vars, pending_vars
<1>5. TypeOK'
  BY <1>0, <1>2, <1>3, <1>4 DEF TypeOK
<1>6. NoStaleDeath'
  BY <1>4 DEF KInv, NoStaleDeath
<1>7. p # None /\ (selected[k] # None => selected[k] \in Tasks)
  BY <1>0, <1>1, TaskTypes DEF TypeOK
<1>8. Eligible(seen[k])' = Eligible(seen[k])
  BY <1>4 DEF Eligible, HasMm
<1>9. p \in Eligible(seen[k]) <=> HasMm(p) /\ rss[p] > 0 /\ oom_adj[p] >= Min_adj(seen[k])
  BY <1>1 DEF Eligible
<1> HIDE DEF p
<1>10. selected'[k] # None => /\ oom_adj[selected'[k]] >= Min_adj(seen[k]) /\ rss[selected'[k]] > 0
                              /\ status[selected'[k]] \in {"alive", "nomm"}
  BY <1>0, <1>3 DEF LoopInv, HasMm
<1>11. ASSUME NEW j \in 1 .. pos[k], tasklist[j] \in Eligible(seen[k])
       PROVE  selected'[k] # None /\ NoWorse(tasklist[j], selected'[k])
  <2>1. tasklist[j] \in Tasks
    BY <1>11 DEF Eligible
  <2>2. CASE j = pos[k]
    <3>1. tasklist[j] = p
      BY <2>2 DEF p
    <3>2. CASE Chosen
      BY <1>1, <1>3, <1>7, <3>1, <3>2, BetterOrder
    <3>3. CASE ~Chosen
      <4>1. selected[k] # None /\ ~Better(p, selected[k]) /\ selected'[k] = selected[k]
        BY <1>3, <1>9, <1>11, <3>1, <3>3
      <4> QED
        BY <1>1, <1>7, <3>1, <4>1, BetterOrder
    <3> QED
      BY <3>2, <3>3
  <2>3. CASE j # pos[k]
    <3>1. j \in 1 .. pos[k] - 1
      BY <1>1, <2>3
    <3>2. selected[k] # None /\ NoWorse(tasklist[j], selected[k])
      BY <1>0, <1>11, <3>1 DEF LoopInv
    <3>3. CASE Chosen
      <4>1. Better(p, selected[k]) /\ selected'[k] = p
        BY <1>3, <3>2, <3>3
      <4> QED
        BY <1>1, <1>7, <2>1, <3>2, <4>1, BetterOrder
    <3>4. CASE ~Chosen
      BY <1>3, <3>2, <3>4
    <3> QED
      BY <3>3, <3>4
  <2> QED
    BY <2>2, <2>3
<1>12. LoopInv(k)'
  <2>1. Reading(k)' /\ pc'[k] = "scan" /\ seen'[k] = seen[k]
    BY <1>0, <1>4 DEF Reading
  <2>2. pos'[k] - 1 = pos[k]
    BY <1>1, <1>2
  <2>3. \A j \in 1 .. pos'[k] - 1 : tasklist[j] \in Eligible(seen[k])' =>
          selected'[k] # None /\ NoWorse(tasklist[j], selected'[k])
    BY <1>8, <1>11, <2>2
  <2> QED
    BY <1>4, <1>10, <2>1, <2>3 DEF LoopInv, NoWorse
<1> QED
  BY <1>2, <1>3, <1>4, <1>5, <1>6, <1>12, OthersKept

\* The end of the loop, and the kill.  The victim is still on the task list,
\* so that lowmem_deathpending is set to a task that there is.
LEMMA AfterLoopStep ==
  ASSUME NEW k \in Shrinkers, KInv, ShrinkSelected(k) \/ ShrinkPending(k) \/ ShrinkKill(k)
  PROVE  KInv'
<1>0. TypeOK /\ LoopInv(k) /\ NoStaleDeath /\ Len(tasklist) \in Nat
  BY ListTypes DEF KInv
<1>1. CASE ShrinkSelected(k) /\ selected[k] = None
  BY <1>0, <1>1, ReturnStep DEF ShrinkSelected, task_vars, pending_vars, NoStaleDeath, TypeOK
<1>2. CASE ShrinkSelected(k) /\ selected[k] # None
  <2>1. /\ pc[k] = "scan" /\ pos[k] > Len(tasklist) /\ pc' = [pc EXCEPT ![k] = "pending"]
        /\ UNCHANGED <<status, sigkill, clearing, lowmem_deathpending, deathpending_left, seen, pos, selected>>
    BY <1>2 DEF ShrinkSelected, Goto, task_vars, pending_vars
  <2>2. pos[k] = Len(tasklist) + 1
    BY <1>0, <2>1 DEF TypeOK
  <2>3. pc'[k] = "pending" /\ \A m \in Shrinkers \ {k} : pc'[m] = pc[m]
    BY <1>0, <2>1 DEF TypeOK
  <2>4. TypeOK' /\ NoStaleDeath'
    BY <1>0, <1>2, <2>1 DEF TypeOK, NoStaleDeath
  <2>5. Eligible(seen[k])' = Eligible(seen[k])
    BY <2>1 DEF Eligible, HasMm
  <2>6. LoopInv(k)'
    BY <1>0, <2>1, <2>2, <2>3, <2>5 DEF LoopInv, Reading, NoWorse
  <2> QED
    BY <2>1, <2>3, <2>4, <2>6, OthersKept
<1>3. CASE ShrinkPending(k)
  <2>1. /\ pc[k] = "pending" /\ pc' = [pc EXCEPT ![k] = "kill"] /\ lowmem_deathpending' = selected[k]
        /\ UNCHANGED <<status, sigkill, clearing, deathpending_left, seen, pos, selected>>
    BY <1>3 DEF ShrinkPending, Goto, task_vars
  <2>2. selected[k] \in Tasks /\ status[selected[k]] \in {"alive", "nomm"}
    BY <1>0, <2>1 DEF LoopInv, TypeOK
  <2>3. pc'[k] = "kill" /\ \A m \in Shrinkers \ {k} : pc'[m] = pc[m]
    BY <1>0, <2>1 DEF TypeOK
  <2>4. TypeOK' /\ NoStaleDeath'
    BY <1>0, <2>1, <2>2 DEF TypeOK, NoStaleDeath
  <2>5. Eligible(seen[k])' = Eligible(seen[k])
    BY <2>1 DEF Eligible, HasMm
  <2>6. LoopInv(k)'
    BY <1>0, <2>1, <2>3, <2>5 DEF LoopInv, Reading, NoWorse
  <2> QED
    BY <2>1, <2>3, <2>4, <2>6, OthersKept
<1>4. CASE ShrinkKill(k)
  <2>1. selected[k] \in Tasks
    BY <1>0, <1>4 DEF ShrinkKill, TypeOK
  <2>2. sigkill' \subseteq Tasks /\ deathpending_left' \in -1 .. HZ
    BY <1>0, <1>4, <2>1, ParameterAssumption DEF ShrinkKill, TypeOK
  <2>3. Return(k) /\ UNCHANGED <<status, clearing, lowmem_deathpending>>
    BY <1>4 DEF ShrinkKill
  <2> QED
    BY <1>0, <2>2, <2>3, ReturnStep DEF NoStaleDeath
<1> QED
  BY <1>1, <1>2, <1>3, <1>4

\* A task ends, in steps of its own.  It leaves the list only when no loop
\* runs, and is freed only when it is not lowmem_deathpending.
LEMMA TaskStep ==
  ASSUME NEW t \in Tasks, KInv, ExitMm(t) \/ Release(t) \/ task_notify_func(t)
  PROVE  KInv'
<1>0. TypeOK /\ NoStaleDeath /\ ClearingInv /\ \A k \in Shrinkers : LoopInv(k)
  BY DEF KInv
<1>1. UNCHANGED <<pc, seen, pos, selected>>
  BY DEF ExitMm, Release, task_notify_func, NotifyCompare, NotifyClear
<1>2. TypeOK'
  BY <1>0, <1>1 DEF ExitMm, Release, task_notify_func, NotifyCompare, NotifyClear, pending_vars, TypeOK
<1>3. ASSUME NEW st, status' = [status EXCEPT ![t] = st] \/ UNCHANGED status, st # "alive",
             st = "nomm" \/ status[t] \in {"unhashed", "freed"} \/ \A k \in Shrinkers : ~Reading(k)
      PROVE  \A k \in Shrinkers : LoopInv(k)'
  <2>1. \A s \in Tasks : status'[s] = "alive" => status[s] = "alive"
    BY <1>0, <1>3 DEF TypeOK
  <2>2. \A k \in Shrinkers : Reading(k) =>
          \A s \in Tasks : status[s] \in {"alive", "nomm"} => status'[s] \in {"alive", "nomm"}
    BY <1>0, <1>3 DEF TypeOK
  <2> QED
    BY <1>0, <1>1, <1>2, <2>1, <2>2, LoopKept
<1>4. CASE ExitMm(t)
  <2>1. NoStaleDeath' /\ ClearingInv'
    BY <1>0, <1>4, TaskTypes DEF ExitMm, pending_vars, NoStaleDeath, ClearingInv, TypeOK
  <2> QED
    BY <1>2, <1>3, <1>4, <2>1 DEF ExitMm, KInv
<1>5. CASE Release(t)
  <2>1. NoStaleDeath' /\ ClearingInv'
    BY <1>0, <1>5, TaskTypes DEF Release, pending_vars, NoStaleDeath, ClearingInv, TypeOK
  <2> QED
    BY <1>2, <1>3, <1>5, <2>1 DEF Release, KInv
<1>6. CASE NotifyCompare(t)
  <2>1. NoStaleDeath' /\ ClearingInv'
    BY <1>0, <1>6, TaskTypes DEF NotifyCompare, pending_vars, NoStaleDeath, ClearingInv, TypeOK
  <2>2. \A k \in Shrinkers : LoopInv(k)'
    BY <1>3, <1>6 DEF NotifyCompare
  <2> QED
    BY <1>2, <2>1, <2>2 DEF KInv
<1>7. CASE NotifyClear(t)
  <2>1. NoStaleDeath' /\ ClearingInv'
    BY <1>0, <1>7, TaskTypes DEF NotifyClear, NoStaleDeath, ClearingInv, TypeOK
  <2>2. \A k \in Shrinkers : LoopInv(k)'
    BY <1>0, <1>3, <1>7 DEF NotifyClear, ClearingInv
  <2> QED
    BY <1>2, <2>1, <2>2 DEF KInv
<1> QED
  BY <1>4, <1>5, <1>6, <1>7 DEF task_notify_func

LEMMA TickStep ==
  ASSUME KInv, Tick
  PROVE  KInv'
<1>1. UNCHANGED <<status, sigkill, clearing, lowmem_deathpending, pc, seen, pos, selected>>
  BY DEF Tick, task_vars
<1>2. deathpending_left' \in -1 .. HZ
  BY ParameterAssumption DEF Tick, KInv, TypeOK
<1>3. TypeOK'
  BY <1>1, <1>2 DEF KInv, TypeOK
<1>4. \A k \in Shrinkers : LoopInv(k)'
  BY <1>1, <1>3, LoopKept DEF KInv
<1> QED
  BY <1>1, <1>3, <1>4 DEF KInv, NoStaleDeath, ClearingInv

-----------------------------------------------------------------------------
(* Theorems.                                                               *)

LEMMA InitKInv == Init => KInv
<1> SUFFICES ASSUME Init PROVE KInv
  OBVIOUS
<1>1. TypeOK
  <2>1. 1 \in 1 .. Len(tasklist) + 1 /\ -1 \in -1 .. HZ
    BY ListTypes, ParameterAssumption
  <2> QED
    BY <2>1 DEF Init, TypeOK
<1>2. NoStaleDeath /\ ClearingInv
  BY DEF Init, NoStaleDeath, ClearingInv
<1>3. \A k \in Shrinkers : LoopInv(k)
  BY DEF Init, LoopInv, Reading
<1> QED
  BY <1>1, <1>2, <1>3 DEF KInv

LEMMA NextKInv == KInv /\ [Next]_vars => KInv'
<1>1. ASSUME KInv, Next PROVE KInv'
  BY <1>1, BeforeLoopStep, ScanStep, AfterLoopStep, TaskStep, TickStep DEF Next, lowmem_shrink
<1>2. ASSUME KInv, UNCHANGED vars PROVE KInv'
  <2>1. UNCHANGED <<status, sigkill, clearing, lowmem_deathpending, deathpending_left, pc, seen, pos, selected>>
    BY <1>2 DEF vars, task_vars, pending_vars
  <2>2. TypeOK'
    BY <1>2, <2>1 DEF KInv, TypeOK
  <2>3. \A k \in Shrinkers : LoopInv(k)'
    BY <1>2, <2>1, <2>2, LoopKept DEF KInv
  <2> QED
    BY <1>2, <2>1, <2>2, <2>3 DEF KInv, NoStaleDeath, ClearingInv
<1> QED
  BY <1>1, <1>2

\* lowmem_deathpending, which shrinkers and notifiers write without a lock,
\* is never a task_struct that has been freed.
THEOREM PendingTaskExists == Spec => []NoStaleDeath
<1>1. KInv => NoStaleDeath
  BY DEF KInv
<1> QED
  BY <1>1, InitKInv, NextKInv, PTL DEF Spec

\* What lowmem_shrink kills is as bad as every task that it could still kill,
\* although tasks end while for_each_process runs.
THEOREM WorstTaskKilled == Spec => []VictimIsWorst
<1>1. ASSUME KInv PROVE VictimIsWorst
  <2>1. SUFFICES ASSUME NEW k \in Shrinkers, pc[k] \in {"pending", "kill"}
                 PROVE  /\ oom_adj[selected[k]] >= Min_adj(seen[k]) /\ rss[selected[k]] > 0
                        /\ \A t \in Eligible(seen[k]) : NoWorse(t, selected[k])
    BY <1>1 DEF VictimIsWorst, NoWorse, KInv
  <2>2. LoopInv(k) /\ Reading(k) /\ selected[k] # None
    BY <1>1, <2>1 DEF KInv, TypeOK, Reading
  <2>3. pos[k] - 1 = Len(tasklist)
    BY <2>1, <2>2, ListTypes DEF LoopInv
  <2>4. ASSUME NEW t \in Eligible(seen[k]) PROVE NoWorse(t, selected[k])
    <3>1. PICK j \in 1 .. Len(tasklist) : tasklist[j] = t
      BY EveryTaskListed DEF Eligible
    <3> QED
      BY <2>2, <2>3, <2>4, <3>1 DEF LoopInv
  <2> QED
    BY <2>2, <2>4 DEF LoopInv
<1> QED
  BY <1>1, InitKInv, NextKInv, PTL DEF Spec
=============================================================================
