---------------------------- MODULE LoggerProofs ----------------------------
(***************************************************************************)
(* Proofs about the logger, for any size of the ring, any payloads, readers*)
(* and writers.                                                            *)
(*                                                                         *)
(* Offsets are turned into distances from the write head.  A chain is a    *)
(* set of distances at which entries begin, each of them ending where      *)
(* another begins or at the write head.  The invariant says that there is  *)
(* a chain on which all heads stand.  What the recursive functions compute *)
(* on a chain is shown by the least counterexample.                        *)
(***************************************************************************)
EXTENDS Logger, SequenceTheorems, WellFoundedInduction, TLAPS

-----------------------------------------------------------------------------
(* Arithmetic of the ring.                                                 *)

LEMMA Sizes == size \in Nat \ {0} /\ Base \in Nat \ {0} /\ HeaderLen = 2
BY SizeAssumption DEF HeaderLen

LEMMA OffsetIs ==
  ASSUME NEW x \in Int
  PROVE  /\ logger_offset(x) \in Offset
         /\ 0 <= x /\ x < size => logger_offset(x) = x
         /\ size <= x /\ x < 2 * size => logger_offset(x) = x - size
         /\ -size <= x /\ x < 0 => logger_offset(x) = x + size
<1>1. size \in Nat \ {0}
  BY Sizes
<1>2. x % size \in 0 .. size - 1
  BY <1>1
<1>3. 0 <= x /\ x < size => x % size = x
  BY <1>1
<1>4. size <= x /\ x < 2 * size => x % size = x - size
  BY <1>1
<1>5. -size <= x /\ x < 0 => x % size = x + size
  BY <1>1
<1> QED
  BY <1>2, <1>3, <1>4, <1>5 DEF logger_offset, Offset

LEMMA HeaderIs ==
  ASSUME NEW p \in Payloads
  PROVE  /\ Header(p) \in Seq(Byte) /\ Len(Header(p)) = HeaderLen
         /\ Header(p)[1] + Base * Header(p)[2] = Len(p)
<1> DEFINE n == Len(p)
           q == n \div Base
           m == n % Base
<1>1. Base \in Nat \ {0} /\ n \in Nat /\ n < Base * Base
  BY SizeAssumption
<1> HIDE DEF n
<1>2. m \in 0 .. Base - 1
  BY <1>1
<1>3. q \in Nat
  BY <1>1
<1>4. n = Base * q + m
  BY <1>1
<1> HIDE DEF m, q
<1>5. q < Base
  <2>1. SUFFICES ASSUME q >= Base PROVE FALSE
    BY <1>1, <1>3
  <2>2. Base * q >= Base * Base
    BY <1>1, <1>3, <2>1
  <2> QED
    BY <2>2, <1>1, <1>2, <1>3, <1>4
<1>6. Header(p) = <<m, q>>
  BY DEF Header, m, q, n
<1>7. m \in Byte /\ q \in Byte
  BY <1>1, <1>2, <1>3, <1>5 DEF Byte
<1> QED
  BY <1>1, <1>2, <1>3, <1>4, <1>6, <1>7 DEF HeaderLen, n

\* The offset d bytes before w.
Pos(w, d) == logger_offset(w - d)
Distance == 0 .. size - 1

LEMMA PosIs ==
  ASSUME NEW w \in Offset, NEW d \in Distance
  PROVE  Pos(w, d) \in Offset /\ Pos(w, d) = (IF d <= w THEN w - d ELSE w - d + size)
<1>1. size \in Nat \ {0} /\ w \in 0 .. size - 1 /\ d \in 0 .. size - 1
  BY Sizes DEF Offset, Distance
<1>2. w - d \in Int
  BY <1>1
<1> QED
  BY <1>1, <1>2, OffsetIs DEF Pos

\* Going on from there.
LEMMA PosPlus ==
  ASSUME NEW w \in Offset, NEW d \in Distance, NEW i \in 0 .. d
  PROVE  logger_offset(Pos(w, d) + i) = Pos(w, d - i) /\ d - i \in Distance
<1>1. size \in Nat \ {0} /\ w \in 0 .. size - 1 /\ d \in 0 .. size - 1 /\ i \in 0 .. d /\ d - i \in 0 .. size - 1
  BY Sizes DEF Offset, Distance
<1>2. d - i \in Distance
  BY <1>1 DEF Distance
<1>3. Pos(w, d - i) = IF d - i <= w THEN w - (d - i) ELSE w - (d - i) + size
  BY <1>2, PosIs
<1>4. Pos(w, d) = IF d <= w THEN w - d ELSE w - d + size
  BY PosIs
<1> DEFINE x == Pos(w, d) + i
<1>5. x \in Int /\ 0 <= x /\ x < 2 * size
  BY <1>1, <1>4
<1>6. /\ x < size => logger_offset(x) = x
      /\ x >= size => logger_offset(x) = x - size
  BY <1>5, OffsetIs
<1>7. logger_offset(x) = Pos(w, d - i)
  BY <1>1, <1>3, <1>4, <1>6
<1> QED
  BY <1>2, <1>7

\* Distance and position are inverses.
LEMMA PosInverse ==
  ASSUME NEW w \in Offset, NEW h \in Offset
  PROVE  /\ logger_offset(w - h) \in Distance
         /\ Pos(w, logger_offset(w - h)) = h
         /\ logger_offset(w - h) = (IF h <= w THEN w - h ELSE w - h + size)
<1>1. size \in Nat \ {0} /\ w \in 0 .. size - 1 /\ h \in 0 .. size - 1
  BY Sizes DEF Offset, Distance
<1>2. w - h \in Int
  BY <1>1
<1>3. logger_offset(w - h) = IF h <= w THEN w - h ELSE w - h + size
  BY <1>1, <1>2, OffsetIs
<1>4. logger_offset(w - h) \in Distance
  BY <1>1, <1>3 DEF Distance
<1> QED
  BY <1>1, <1>3, <1>4, PosIs

LEMMA DistanceInverse ==
  ASSUME NEW w \in Offset, NEW d \in Distance
  PROVE  logger_offset(w - Pos(w, d)) = d
<1>1. size \in Nat \ {0} /\ w \in 0 .. size - 1 /\ d \in 0 .. size - 1
  BY Sizes DEF Offset, Distance
<1> QED
  BY <1>1, PosIs, PosInverse

\* The write head moves on by n.
LEMMA PosMoved ==
  ASSUME NEW w \in Offset, NEW n \in Distance, NEW d \in Distance, d + n < size
  PROVE  /\ logger_offset(w + n) \in Offset /\ d + n \in Distance
         /\ Pos(logger_offset(w + n), d + n) = Pos(w, d)
<1>1. size \in Nat \ {0} /\ w \in 0 .. size - 1 /\ d \in 0 .. size - 1 /\ n \in 0 .. size - 1
  BY Sizes DEF Offset, Distance
<1>2. d + n \in Distance
  BY <1>1 DEF Distance
<1>3. w + n \in Int
  BY <1>1
<1>4. /\ logger_offset(w + n) \in Offset
      /\ logger_offset(w + n) = IF w + n < size THEN w + n ELSE w + n - size
  BY <1>1, <1>3, OffsetIs
<1>5. Pos(logger_offset(w + n), d + n) =
        IF d + n <= logger_offset(w + n) THEN logger_offset(w + n) - (d + n)
        ELSE logger_offset(w + n) - (d + n) + size
  BY <1>2, <1>4, PosIs
<1>6. Pos(w, d) = IF d <= w THEN w - d ELSE w - d + size
  BY PosIs
<1> QED
  BY <1>1, <1>2, <1>4, <1>5, <1>6

\* What a write of s at w leaves alone, and what it changes.
LEMMA WrittenIs ==
  ASSUME NEW buf \in [Offset -> Byte], NEW w \in Offset, NEW s \in Seq(Byte), Len(s) < size
  PROVE  /\ Written(buf, w, s) \in [Offset -> Byte]
         /\ \A d \in Distance : 0 < d /\ d + Len(s) <= size =>
              Written(buf, w, s)[Pos(w, d)] = buf[Pos(w, d)]
         /\ \A i \in 1 .. Len(s) : Written(buf, w, s)[logger_offset(w + i - 1)] = s[i]
<1>1. size \in Nat \ {0} /\ w \in 0 .. size - 1 /\ Len(s) \in Nat
  BY Sizes DEF Offset
<1> DEFINE b == Written(buf, w, s)
<1>2. ASSUME NEW o \in Offset
      PROVE  /\ b[o] = (IF logger_offset(o - w) < Len(s) THEN s[logger_offset(o - w) + 1] ELSE buf[o])
             /\ logger_offset(o - w) = (IF w <= o THEN o - w ELSE o - w + size)
             /\ logger_offset(o - w) \in Nat
  <2>1. b[o] = IF logger_offset(o - w) < Len(s) THEN s[logger_offset(o - w) + 1] ELSE buf[o]
    BY DEF Written
  <2>2. logger_offset(o - w) \in Distance /\ logger_offset(o - w) = IF w <= o THEN o - w ELSE o - w + size
    BY PosInverse
  <2> QED
    BY <1>1, <2>1, <2>2 DEF Distance
<1>3. b = [o \in Offset |-> b[o]]
  BY DEF Written
<1> HIDE DEF b
<1>4. ASSUME NEW o \in Offset PROVE b[o] \in Byte
  <2>1. CASE logger_offset(o - w) < Len(s)
    <3>1. logger_offset(o - w) + 1 \in 1 .. Len(s)
      BY <1>1, <1>2, <2>1
    <3> QED
      BY <3>1, <1>2, <2>1
  <2>2. CASE ~ (logger_offset(o - w) < Len(s))
    BY <1>2, <2>2
  <2> QED
    BY <2>1, <2>2
<1>5. ASSUME NEW d \in Distance, 0 < d, d + Len(s) <= size
      PROVE  b[Pos(w, d)] = buf[Pos(w, d)]
  <2>1. Pos(w, d) \in Offset /\ Pos(w, d) = IF d <= w THEN w - d ELSE w - d + size
    BY PosIs
  <2>2. logger_offset(Pos(w, d) - w) = IF w <= Pos(w, d) THEN Pos(w, d) - w ELSE Pos(w, d) - w + size
    BY <2>1, <1>2
  <2>3. d \in 0 .. size - 1
    BY DEF Distance
  <2>4. logger_offset(Pos(w, d) - w) = size - d
    BY <1>1, <1>5, <2>1, <2>2, <2>3
  <2> QED
    BY <1>1, <1>2, <1>5, <2>1, <2>3, <2>4
<1>6. ASSUME NEW i \in 1 .. Len(s)
      PROVE  b[logger_offset(w + i - 1)] = s[i]
  <2>1. w + i - 1 \in Int /\ 0 <= w + i - 1 /\ w + i - 1 < 2 * size
    BY <1>1
  <2> DEFINE o == logger_offset(w + i - 1)
  <2>2. o \in Offset /\ o = IF w + i - 1 < size THEN w + i - 1 ELSE w + i - 1 - size
    BY <2>1, <1>1, OffsetIs
  <2> HIDE DEF o
  <2>3. logger_offset(o - w) = IF w <= o THEN o - w ELSE o - w + size
    BY <2>2, <1>2
  <2>4. logger_offset(o - w) = i - 1
    BY <1>1, <2>2, <2>3
  <2>5. i - 1 < Len(s) /\ (i - 1) + 1 = i
    BY <1>1
  <2>6. b[o] = s[i]
    BY <1>2, <2>2, <2>4, <2>5
  <2> QED
    BY <2>6 DEF o
<1>7. b \in [Offset -> Byte]
  BY <1>3, <1>4
<1> QED
  BY <1>5, <1>6, <1>7 DEF b

-----------------------------------------------------------------------------
(* Induction, as a fact about sets of numbers.                             *)

LEMMA Least ==
  ASSUME NEW T \in SUBSET Nat, T # {}
  PROVE  \E x \in T : \A y \in T : x <= y
<1>1. PICK x \in T : \A y \in T : ~ (<<y, x>> \in OpToRel(<, Nat))
  BY NatLessThanWellFounded, WFMin, Zenon
<1>2. ASSUME NEW y \in T PROVE x <= y
  <2>1. x \in Nat /\ y \in Nat
    OBVIOUS
  <2>2. ~ (y < x)
    BY <1>1, <1>2, <2>1 DEF OpToRel
  <2> QED
    BY <2>1, <2>2
<1> QED
  BY <1>2

\* A set that has a number whenever it has all smaller ones has all of them.
LEMMA FromBelow ==
  ASSUME NEW n \in Int, NEW T,
         \A i \in 0 .. n : (\A j \in 0 .. i - 1 : j \in T) => i \in T
  PROVE  \A i \in 0 .. n : i \in T
<1> DEFINE U == {i \in 0 .. n : i \notin T}
<1>1. SUFFICES ASSUME U # {} PROVE FALSE
  OBVIOUS
<1>2. U \in SUBSET Nat
  OBVIOUS
<1>3. PICK i \in U : \A j \in U : i <= j
  <2> HIDE DEF U
  <2> QED
    BY <1>1, <1>2, Least
<1>4. i \in 0 .. n /\ i \notin T
  OBVIOUS
<1>5. ASSUME NEW j \in 0 .. i - 1 PROVE j \in T
  <2>1. j \in 0 .. n /\ ~ (i <= j)
    BY <1>4
  <2> QED
    BY <2>1, <1>3
<1> QED
  BY <1>4, <1>5

-----------------------------------------------------------------------------
(* Following the headers.                                                  *)

\* The length of the entry d bytes before w.
LenAt(buf, w, d) == get_entry_len(buf, Pos(w, d))

LEMMA LenAtIs ==
  ASSUME NEW buf \in [Offset -> Byte], NEW w \in Offset, NEW d \in Distance
  PROVE  /\ LenAt(buf, w, d) \in Nat /\ LenAt(buf, w, d) >= HeaderLen
         /\ d > 0 => LenAt(buf, w, d) = HeaderLen + buf[Pos(w, d)] + Base * buf[Pos(w, d - 1)]
<1>1. size \in Nat \ {0} /\ Base \in Nat \ {0} /\ HeaderLen = 2
  BY Sizes
<1>2. Pos(w, d) \in Offset /\ logger_offset(Pos(w, d) + 1) \in Offset
  <2>1. Pos(w, d) \in Offset
    BY PosIs
  <2>2. Pos(w, d) + 1 \in Int
    BY <2>1, <1>1 DEF Offset
  <2> QED
    BY <2>1, <2>2, OffsetIs
<1> DEFINE x == buf[Pos(w, d)]
           y == buf[logger_offset(Pos(w, d) + 1)]
<1>3. x \in Nat /\ y \in Nat
  BY <1>1, <1>2 DEF Byte
<1>4. LenAt(buf, w, d) = HeaderLen + x + Base * y
  BY DEF LenAt, get_entry_len
<1>5. d > 0 => y = buf[Pos(w, d - 1)]
  <2>1. SUFFICES ASSUME d > 0 PROVE y = buf[Pos(w, d - 1)]
    OBVIOUS
  <2>2. 1 \in 0 .. d
    BY <2>1, <1>1 DEF Distance
  <2> QED
    BY <2>2, PosPlus
<1> HIDE DEF x, y
<1>6. Base * y \in Nat
  BY <1>1, <1>3
<1>7. LenAt(buf, w, d) \in Nat /\ LenAt(buf, w, d) >= HeaderLen
  BY <1>1, <1>3, <1>4, <1>6
<1> QED
  BY <1>4, <1>5, <1>7 DEF x

\* The entries in the last d bytes when rest are those after the first.
OneEntry(buf, w, d, rest) ==
  IF d = 0 THEN <<>>
  ELSE IF LenAt(buf, w, d) > d THEN <<BadEntry>>
  ELSE <<Payload(buf, Pos(w, d), LenAt(buf, w, d))>> \o rest

IsEntries(f, buf, w) ==
  f = [d \in Distance |-> OneEntry(buf, w, d, f[d - LenAt(buf, w, d)])]

\* The recursion is well-defined.
LEMMA EntriesExist ==
  ASSUME NEW buf \in [Offset -> Byte], NEW w \in Offset
  PROVE  \E f : IsEntries(f, buf, w)
<1> DEFINE L(d) == LenAt(buf, w, d)
           Part(f, i) == f = [d \in 0 .. i |-> OneEntry(buf, w, d, f[d - L(d)])]
           T == {i \in Distance : \E f : Part(f, i)}
<1>0. size \in Nat \ {0} /\ HeaderLen = 2 /\ Distance = 0 .. size - 1
  BY Sizes DEF Distance
<1>1. \A d \in Distance : L(d) \in Nat /\ L(d) >= 2
  BY <1>0, LenAtIs
<1> HIDE DEF L
<1>2. ASSUME NEW i \in 0 .. size - 1, \A j \in 0 .. i - 1 : j \in T
      PROVE  i \in T
  <2>1. \E f : i > 0 => Part(f, i - 1)
    <3>1. CASE i = 0
      BY <3>1
    <3>2. CASE i > 0
      <4>1. i - 1 \in T
        BY <1>2, <3>2
      <4> QED
        BY <4>1
    <3> QED
      BY <3>1, <3>2
  <2>2. PICK f : i > 0 => Part(f, i - 1)
    BY <2>1
  <2> DEFINE g == [d \in 0 .. i |-> IF d = i THEN OneEntry(buf, w, i, f[i - L(i)]) ELSE f[d]]
  <2>3. ASSUME NEW d \in 0 .. i PROVE g[d] = OneEntry(buf, w, d, g[d - L(d)])
    <3>0. d \in Distance /\ L(d) \in Nat /\ L(d) >= 2
      BY <1>0, <1>1
    <3>1. g[d] = OneEntry(buf, w, d, f[d - L(d)])
      <4>1. CASE d = i
        BY <4>1
      <4>2. CASE d # i
        <5>1. i > 0 /\ d \in 0 .. i - 1
          BY <4>2
        <5> QED
          BY <5>1, <2>2, <4>2
      <4> QED
        BY <4>1, <4>2
    <3>2. CASE d = 0 \/ L(d) > d
      <4>1. \A x, y : OneEntry(buf, w, d, x) = OneEntry(buf, w, d, y)
        BY <3>2 DEF OneEntry, L
      <4> HIDE DEF g
      <4> QED
        BY <3>1, <4>1
    <3>3. CASE d # 0 /\ ~ (L(d) > d)
      <4>1. d - L(d) \in 0 .. i /\ d - L(d) # i
        BY <3>0, <3>3
      <4>2. g[d - L(d)] = f[d - L(d)]
        BY <4>1
      <4> HIDE DEF g
      <4> QED
        BY <3>1, <4>2
    <3> QED
      BY <3>2, <3>3
  <2>4. Part(g, i)
    <3>1. g = [d \in 0 .. i |-> g[d]]
      OBVIOUS
    <3> HIDE DEF g
    <3> QED
      BY <3>1, <2>3
  <2>5. \E h : Part(h, i)
    <3> HIDE DEF g, Part
    <3> QED
      BY <2>4
  <2> QED
    BY <1>0, <2>5
<1>3. size - 1 \in T
  <2> HIDE DEF T
  <2>1. \A i \in 0 .. size - 1 : i \in T
    <3>1. size - 1 \in Int
      BY <1>0
    <3> QED
      BY <3>1, <1>2, FromBelow
  <2> QED
    BY <2>1, <1>0
<1>4. PICK f : f = [d \in 0 .. size - 1 |-> OneEntry(buf, w, d, f[d - L(d)])]
  BY <1>3
<1> QED
  BY <1>4 DEF IsEntries, Distance, L

LEMMA EntriesIs ==
  ASSUME NEW buf \in [Offset -> Byte], NEW w \in Offset
  PROVE  IsEntries(Entries(buf, w), buf, w)
<1>1. \E f : IsEntries(f, buf, w)
  BY EntriesExist
<1> DEFINE g == CHOOSE f : IsEntries(f, buf, w)
<1>2. IsEntries(g, buf, w)
  BY <1>1, Zenon
<1>3. Entries(buf, w) = g
  BY DEF Entries, IsEntries, OneEntry, Distance, LenAt, Pos
<1> QED
  BY <1>2, <1>3

\* Its value at each distance.
LEMMA EntriesAt ==
  ASSUME NEW buf \in [Offset -> Byte], NEW w \in Offset, NEW d \in Distance
  PROVE  Entries(buf, w)[d] = OneEntry(buf, w, d, Entries(buf, w)[d - LenAt(buf, w, d)])
BY EntriesIs DEF IsEntries

-----------------------------------------------------------------------------
(* get_next_entry.                                                         *)

LenFrom(buf, off, c) == get_entry_len(buf, logger_offset(off + c))

IsCount(f, buf, off, len) ==
  f = [c \in Nat |-> IF c >= len THEN c ELSE f[c + LenFrom(buf, off, c)]]

LEMMA LenFromIs ==
  ASSUME NEW buf \in [Offset -> Byte], NEW off \in Offset, NEW c \in Nat
  PROVE  LenFrom(buf, off, c) \in Nat /\ LenFrom(buf, off, c) > 0
<1>1. size \in Nat \ {0} /\ HeaderLen = 2 /\ off \in Nat
  BY Sizes DEF Offset
<1>2. logger_offset(off + c) \in Offset
  BY <1>1, OffsetIs
<1>3. 0 \in Distance /\ Pos(logger_offset(off + c), 0) = logger_offset(off + c)
  <2>1. 0 \in Distance
    BY <1>1 DEF Distance
  <2> HIDE DEF Distance
  <2>2. logger_offset(off + c) \in Nat
    BY <1>1, <1>2 DEF Offset
  <2> QED
    BY <2>1, <2>2, <1>2, PosIs
<1>4. LenFrom(buf, off, c) = LenAt(buf, logger_offset(off + c), 0)
  BY <1>3 DEF LenFrom, LenAt
<1>5. LenAt(buf, logger_offset(off + c), 0) \in Nat /\ LenAt(buf, logger_offset(off + c), 0) >= HeaderLen
  BY <1>2, <1>3, LenAtIs
<1> QED
  BY <1>1, <1>4, <1>5

\* The recursion is well-defined.
LEMMA CountExists ==
  ASSUME NEW buf \in [Offset -> Byte], NEW off \in Offset, NEW len \in Nat
  PROVE  \E f : IsCount(f, buf, off, len)
<1> DEFINE L(c) == LenFrom(buf, off, c)
           D(i) == {c \in Nat : c >= len - i}
           Part(f, i) == f = [c \in D(i) |-> IF c >= len THEN c ELSE f[c + L(c)]]
           T == {i \in 0 .. len : \E f : Part(f, i)}
<1>1. \A c \in Nat : L(c) \in Nat /\ L(c) > 0
  BY LenFromIs
<1> HIDE DEF L
<1>2. ASSUME NEW i \in 0 .. len, \A j \in 0 .. i - 1 : j \in T
      PROVE  i \in T
  <2>1. CASE i = 0
    <3> DEFINE g == [c \in D(0) |-> c]
    <3>1. \A c \in D(0) : c >= len
      OBVIOUS
    <3>2. Part(g, 0)
      BY <3>1
    <3>3. \E h : Part(h, 0)
      <4> HIDE DEF g, Part
      <4> QED
        BY <3>2
    <3> QED
      BY <2>1, <3>3
  <2>2. CASE i > 0
    <3>1. i - 1 \in T
      <4>1. i - 1 \in 0 .. i - 1
        BY <2>2
      <4> HIDE DEF T
      <4> QED
        BY <4>1, <1>2
    <3>2. PICK f : Part(f, i - 1)
      BY <3>1
    <3> DEFINE k == len - i
               g == [c \in D(i) |-> IF c = k THEN f[k + L(k)] ELSE f[c]]
    <3>3. k \in Nat /\ k < len /\ k \in D(i)
      BY <2>2
    <3>4. \A c \in D(i) : c # k => c \in D(i - 1) /\ c > k
      BY <2>2
    <3>5. \A c \in D(i) : c + L(c) \in D(i) /\ c + L(c) # k
      BY <1>1, <2>2
    <3>6. \A c \in D(i - 1) : f[c] = IF c >= len THEN c ELSE f[c + L(c)]
      BY <3>2
    <3> HIDE DEF D, k
    <3>7. ASSUME NEW c \in D(i) PROVE g[c] = IF c >= len THEN c ELSE g[c + L(c)]
      <4>1. g[c + L(c)] = f[c + L(c)]
        BY <3>5
      <4>2. CASE c = k
        <5>1. ~ (k >= len)
          BY <3>3
        <5> QED
          BY <4>1, <4>2, <5>1
      <4>3. CASE c # k
        BY <3>4, <3>6, <4>1, <4>3
      <4> QED
        BY <4>2, <4>3
    <3>8. Part(g, i)
      <4>1. g = [c \in D(i) |-> g[c]]
        OBVIOUS
      <4> HIDE DEF g
      <4> QED
        BY <4>1, <3>7
    <3>9. \E h : Part(h, i)
      <4> HIDE DEF g, Part
      <4> QED
        BY <3>8
    <3> QED
      BY <3>9
  <2>3. i = 0 \/ i > 0
    OBVIOUS
  <2> HIDE DEF T
  <2> QED
    BY <2>1, <2>2, <2>3
<1>3. len \in T
  <2> HIDE DEF T
  <2>1. \A i \in 0 .. len : i \in T
    <3>1. len \in Int
      OBVIOUS
    <3> QED
      BY <3>1, <1>2, FromBelow
  <2> QED
    BY <2>1
<1>4. PICK f : f = [c \in D(len) |-> IF c >= len THEN c ELSE f[c + L(c)]]
  BY <1>3
<1>5. D(len) = Nat
  OBVIOUS
<1> QED
  BY <1>4, <1>5 DEF IsCount, L

LEMMA NextEntryIs ==
  ASSUME NEW buf \in [Offset -> Byte], NEW off \in Offset, NEW len \in Nat
  PROVE  \E f : IsCount(f, buf, off, len) /\ get_next_entry(buf, off, len) = logger_offset(off + f[0])
<1>1. \E f : IsCount(f, buf, off, len)
  BY CountExists
<1> DEFINE g == CHOOSE f : IsCount(f, buf, off, len)
<1>2. IsCount(g, buf, off, len)
  BY <1>1, Zenon
<1>3. get_next_entry(buf, off, len) = logger_offset(off + g[0])
  BY DEF get_next_entry, IsCount, LenFrom
<1> QED
  BY <1>2, <1>3, Zenon

-----------------------------------------------------------------------------
(* Chains of entries.                                                      *)

\* G is a set of distances from w at which whole entries begin, one after the
\* other, up to w.
Chain(G, buf, w) ==
  /\ G \subseteq Distance /\ 0 \in G
  /\ \A d \in G \ {0} : /\ HeaderLen < LenAt(buf, w, d) /\ LenAt(buf, w, d) <= d
                        /\ d - LenAt(buf, w, d) \in G

LEMMA PayloadIs ==
  ASSUME NEW buf \in [Offset -> Byte], NEW o \in Offset, NEW n \in Nat, HeaderLen < n
  PROVE  /\ Payload(buf, o, n) \in Seq(Byte) /\ Len(Payload(buf, o, n)) = n - HeaderLen
         /\ Payload(buf, o, n) # BadEntry
         /\ \A i \in 1 .. n - HeaderLen : Payload(buf, o, n)[i] = buf[logger_offset(o + HeaderLen + i - 1)]
<1>1. HeaderLen = 2 /\ n - HeaderLen \in Nat \ {0} /\ o \in Int
  BY Sizes DEF Offset
<1> DEFINE k == n - HeaderLen
           P == Payload(buf, o, n)
<1>2. P = [i \in 1 .. k |-> buf[logger_offset(o + HeaderLen + i - 1)]]
  BY DEF Payload
<1>3. \A i \in 1 .. k : buf[logger_offset(o + HeaderLen + i - 1)] \in Byte
  <2>1. SUFFICES ASSUME NEW i \in 1 .. k PROVE buf[logger_offset(o + HeaderLen + i - 1)] \in Byte
    OBVIOUS
  <2>2. o + HeaderLen + i - 1 \in Int
    BY <1>1
  <2> QED
    BY <2>2, OffsetIs
<1> HIDE DEF k, P
<1>4. k \in Nat \ {0}
  BY <1>1 DEF k
<1>5. P \in [1 .. k -> Byte]
  BY <1>2, <1>3
<1>6. P \in Seq(Byte) /\ Len(P) = k
  BY <1>4, <1>5
<1>7. P # <<>>
  BY <1>4, <1>6
<1> QED
  BY <1>2, <1>6, <1>7 DEF P, k, BadEntry

\* The first entry of a chain and the rest.
LEMMA ChainStep ==
  ASSUME NEW buf \in [Offset -> Byte], NEW w \in Offset, NEW G, Chain(G, buf, w), NEW d \in G, d # 0
  PROVE  /\ Entries(buf, w)[d] = <<Payload(buf, Pos(w, d), LenAt(buf, w, d))>>
                                   \o Entries(buf, w)[d - LenAt(buf, w, d)]
         /\ Payload(buf, Pos(w, d), LenAt(buf, w, d)) \in Seq(Byte)
         /\ Len(Payload(buf, Pos(w, d), LenAt(buf, w, d))) = LenAt(buf, w, d) - HeaderLen
         /\ Payload(buf, Pos(w, d), LenAt(buf, w, d)) # BadEntry
         /\ d - LenAt(buf, w, d) \in G /\ d - LenAt(buf, w, d) \in 0 .. d - 1
         /\ LenAt(buf, w, d) \in Nat /\ HeaderLen < LenAt(buf, w, d) /\ LenAt(buf, w, d) <= d
<1> DEFINE n == LenAt(buf, w, d)
<1>1. d \in Distance /\ HeaderLen < n /\ n <= d /\ d - n \in G
  BY DEF Chain
<1>2. size \in Nat \ {0} /\ HeaderLen = 2 /\ d \in 0 .. size - 1
  BY <1>1, Sizes DEF Distance
<1>3. n \in Nat
  BY <1>1, LenAtIs
<1>4. Pos(w, d) \in Offset
  BY <1>1, PosIs
<1>5. ~ (n > d)
  BY <1>1, <1>2, <1>3
<1>6. Entries(buf, w)[d] = OneEntry(buf, w, d, Entries(buf, w)[d - n])
  BY <1>1, EntriesAt
<1>7. Entries(buf, w)[d] = <<Payload(buf, Pos(w, d), n)>> \o Entries(buf, w)[d - n]
  BY <1>5, <1>6 DEF OneEntry
<1> HIDE DEF n
<1>8. d - n \in 0 .. d - 1
  BY <1>1, <1>2, <1>3
<1> QED
  BY <1>1, <1>3, <1>4, <1>7, <1>8, PayloadIs DEF n

Log == Seq(Seq(Byte))
Good(q) == q \in Log /\ \A i \in 1 .. Len(q) : q[i] # BadEntry

LEMMA PrependGood ==
  ASSUME NEW p \in Seq(Byte), p # BadEntry, NEW q, Good(q)
  PROVE  /\ Good(<<p>> \o q) /\ Len(<<p>> \o q) = Len(q) + 1 /\ <<p>> \o q # <<>>
         /\ Tail(<<p>> \o q) = q
         /\ (<<p>> \o q)[1] = p /\ \A i \in 1 .. Len(q) : (<<p>> \o q)[i + 1] = q[i]
<1> DEFINE t == <<p>> \o q
<1>0. q \in Seq(Seq(Byte)) /\ Len(q) \in Nat /\ <<p>> \in Seq(Seq(Byte)) /\ Len(<<p>>) = 1 /\ <<p>>[1] = p
  BY DEF Good, Log
<1>1. /\ t \in Seq(Seq(Byte)) /\ Len(t) = Len(q) + 1
      /\ \A i \in 1 .. 1 + Len(q) : t[i] = IF i <= 1 THEN <<p>>[i] ELSE q[i - 1]
  BY <1>0, ConcatProperties
<1> HIDE DEF t
<1>2. t[1] = p
  BY <1>0, <1>1
<1>3. ASSUME NEW i \in 1 .. Len(q) PROVE t[i + 1] = q[i]
  <2>1. i + 1 \in 1 .. 1 + Len(q) /\ ~ (i + 1 <= 1) /\ (i + 1) - 1 = i
    BY <1>0
  <2>2. t[i + 1] = IF i + 1 <= 1 THEN <<p>>[i + 1] ELSE q[(i + 1) - 1]
    BY <2>1, <1>1
  <2> QED
    BY <2>1, <2>2
<1>4. t # <<>>
  BY <1>0, <1>1
<1>5. Tail(t) = q
  <2>1. /\ Tail(t) \in Seq(Seq(Byte)) /\ Len(Tail(t)) = Len(q)
        /\ \A i \in 1 .. Len(q) : Tail(t)[i] = q[i]
    BY <1>0, <1>1, <1>3, <1>4
  <2> QED
    BY <2>1, <1>0, SeqEqual
<1>6. ASSUME NEW i \in 1 .. Len(t) PROVE t[i] # BadEntry
  <2>1. CASE i = 1
    BY <2>1, <1>2
  <2>2. CASE i # 1
    <3>1. i - 1 \in 1 .. Len(q) /\ t[i] = q[i - 1]
      BY <1>0, <1>1, <2>2
    <3> QED
      BY <3>1 DEF Good
  <2> QED
    BY <2>1, <2>2
<1> QED
  BY <1>1, <1>2, <1>3, <1>4, <1>5, <1>6 DEF Good, Log, t

\* Bytes, as a recursive function from the last entry on.
IsBytes(f, q) ==
  f = [i \in 1 .. Len(q) + 1 |-> IF i > Len(q) THEN 0 ELSE HeaderLen + Len(q[i]) + f[i + 1]]

\* A set that has the place behind a list and, with a place, the one before
\* it, has all places of the list.
LEMMA FromTheEnd ==
  ASSUME NEW n \in Nat, NEW T,
         n + 1 \in T, \A i \in 1 .. n : i + 1 \in T => i \in T
  PROVE  \A i \in 1 .. n + 1 : i \in T
<1> DEFINE U == {k \in 0 .. n : n + 1 - k \in T}
<1>1. ASSUME NEW k \in 0 .. n, \A j \in 0 .. k - 1 : j \in U PROVE k \in U
  <2>1. CASE k = 0
    BY <2>1
  <2>2. CASE k # 0
    <3>1. k - 1 \in 0 .. k - 1
      BY <2>2
    <3>2. n + 1 - (k - 1) \in T
      BY <3>1, <1>1
    <3>3. n + 1 - k \in 1 .. n /\ (n + 1 - k) + 1 = n + 1 - (k - 1)
      BY <2>2
    <3> QED
      BY <3>2, <3>3
  <2> QED
    BY <2>1, <2>2
<1>2. \A k \in 0 .. n : k \in U
  <2> HIDE DEF U
  <2>1. n \in Int
    OBVIOUS
  <2> QED
    BY <2>1, <1>1, FromBelow
<1>3. ASSUME NEW i \in 1 .. n + 1 PROVE i \in T
  <2>1. n + 1 - i \in 0 .. n /\ n + 1 - (n + 1 - i) = i
    OBVIOUS
  <2> QED
    BY <2>1, <1>2
<1> QED
  BY <1>3

LEMMA BytesExist ==
  ASSUME NEW q, Len(q) \in Nat
  PROVE  \E f : IsBytes(f, q)
<1> DEFINE n == Len(q)
           V(i, x) == IF i > n THEN 0 ELSE HeaderLen + Len(q[i]) + x
           Part(f, i) == f = [j \in i .. n + 1 |-> V(j, f[j + 1])]
           T == {i \in 1 .. n + 1 : \E f : Part(f, i)}
<1>0. n \in Nat
  OBVIOUS
<1>1. \A x : V(n + 1, x) = 0
  BY <1>0
<1>2. n + 1 \in T
  <2> DEFINE f == [j \in n + 1 .. n + 1 |-> 0]
  <2>1. \A j \in n + 1 .. n + 1 : V(j, f[j + 1]) = 0
    BY <1>0
  <2>2. Part(f, n + 1)
    <3> HIDE DEF V
    <3> QED
      BY <2>1
  <2>3. \E h : Part(h, n + 1)
    <3> HIDE DEF f, Part
    <3> QED
      BY <2>2
  <2> QED
    BY <1>0, <2>3
<1> HIDE DEF V, n
<1>3. ASSUME NEW i \in 1 .. n, i + 1 \in T PROVE i \in T
  <2>1. PICK f : Part(f, i + 1)
    BY <1>3
  <2> DEFINE g == [j \in i .. n + 1 |-> IF j = i THEN V(i, f[i + 1]) ELSE f[j]]
  <2>2. \A j \in i + 1 .. n + 1 : f[j] = V(j, f[j + 1])
    BY <2>1
  <2>3. \A j \in i .. n : g[j + 1] = f[j + 1]
    BY <1>0
  <2>5. ASSUME NEW j \in i .. n + 1 PROVE g[j] = V(j, g[j + 1])
    <3>1. CASE j = i
      BY <1>0, <2>3, <3>1
    <3>2. CASE j # i /\ j # n + 1
      <4>1. j \in i + 1 .. n + 1 /\ j \in i .. n
        BY <1>0, <3>2
      <4> QED
        BY <4>1, <3>2, <2>2, <2>3
    <3>3. CASE j # i /\ j = n + 1
      <4>1. j \in i + 1 .. n + 1
        BY <1>0, <3>3
      <4>2. g[j] = f[j]
        BY <3>3
      <4>3. f[j] = V(j, f[j + 1])
        BY <4>1, <2>2
      <4> HIDE DEF g
      <4> QED
        BY <4>2, <4>3, <3>3, <1>1
    <3> QED
      BY <3>1, <3>2, <3>3
  <2>6. Part(g, i)
    <3>1. g = [j \in i .. n + 1 |-> g[j]]
      OBVIOUS
    <3> HIDE DEF g
    <3> QED
      BY <3>1, <2>5
  <2>7. \E h : Part(h, i)
    <3> HIDE DEF g, Part
    <3> QED
      BY <2>6
  <2>8. i \in 1 .. n + 1
    BY <1>0
  <2> QED
    BY <2>7, <2>8
<1>4. 1 \in T
  <2> HIDE DEF T
  <2>1. \A i \in 1 .. n + 1 : i \in T
    BY <1>0, <1>2, <1>3, FromTheEnd
  <2> QED
    BY <2>1, <1>0
<1>5. PICK f : Part(f, 1)
  BY <1>4
<1> QED
  BY <1>5 DEF IsBytes, V, n

LEMMA BytesIs ==
  ASSUME NEW q, Len(q) \in Nat
  PROVE  \E f : IsBytes(f, q) /\ Abstract!Bytes(q) = f[1]
<1>1. \E f : IsBytes(f, q)
  BY BytesExist
<1> DEFINE g == CHOOSE f : IsBytes(f, q)
<1>2. IsBytes(g, q)
  BY <1>1, Zenon
<1>3. Abstract!Bytes(q) = g[1]
  BY DEF Abstract!Bytes, IsBytes
<1> QED
  BY <1>2, <1>3, Zenon

\* The bytes of a list with one more entry at its head.
LEMMA BytesPrepend ==
  ASSUME NEW p \in Seq(Byte), p # BadEntry, NEW q, Good(q), Abstract!Bytes(q) \in Nat
  PROVE  Abstract!Bytes(<<p>> \o q) = HeaderLen + Len(p) + Abstract!Bytes(q)
<1> DEFINE t == <<p>> \o q
<1>0. q \in Seq(Seq(Byte)) /\ Len(q) \in Nat
  BY DEF Good, Log
<1>1. Len(t) = Len(q) + 1 /\ t[1] = p /\ \A i \in 1 .. Len(q) : t[i + 1] = q[i]
  BY PrependGood
<1> HIDE DEF t
<1>2. PICK f : IsBytes(f, q) /\ Abstract!Bytes(q) = f[1]
  BY <1>0, BytesIs
<1>3. PICK g : IsBytes(g, t) /\ Abstract!Bytes(t) = g[1]
  <2>1. Len(t) \in Nat
    BY <1>0, <1>1
  <2> QED
    BY <2>1, BytesIs
<1> DEFINE n == Len(q)
           T == {i \in 1 .. n + 1 : g[i + 1] = f[i]}
<1>4. \A i \in 1 .. n + 1 : f[i] = IF i > n THEN 0 ELSE HeaderLen + Len(q[i]) + f[i + 1]
  BY <1>2 DEF IsBytes
<1>5. \A i \in 1 .. n + 2 : g[i] = IF i > n + 1 THEN 0 ELSE HeaderLen + Len(t[i]) + g[i + 1]
  <2>1. \A i \in 1 .. Len(t) + 1 : g[i] = IF i > Len(t) THEN 0 ELSE HeaderLen + Len(t[i]) + g[i + 1]
    BY <1>3 DEF IsBytes
  <2>2. Len(t) = n + 1 /\ Len(t) + 1 = n + 2
    BY <1>0, <1>1
  <2> QED
    BY <2>1, <2>2
<1>6. n + 1 \in T
  <2>1. f[n + 1] = 0
    BY <1>0, <1>4
  <2>2. g[n + 2] = 0
    BY <1>0, <1>5
  <2>3. (n + 1) + 1 = n + 2 /\ n + 1 \in 1 .. n + 1
    BY <1>0
  <2> QED
    BY <2>1, <2>2, <2>3
<1>7. ASSUME NEW i \in 1 .. n, i + 1 \in T PROVE i \in T
  <2>1. i \in 1 .. n + 1 /\ i + 1 \in 1 .. n + 2 /\ ~ (i > n) /\ ~ (i + 1 > n + 1)
    BY <1>0
  <2>2. f[i] = HeaderLen + Len(q[i]) + f[i + 1]
    BY <2>1, <1>4
  <2>3. g[i + 1] = HeaderLen + Len(t[i + 1]) + g[(i + 1) + 1]
    BY <2>1, <1>5
  <2>4. t[i + 1] = q[i] /\ g[(i + 1) + 1] = f[i + 1]
    BY <1>1, <1>7
  <2> QED
    BY <2>1, <2>2, <2>3, <2>4
<1>8. 1 \in T
  <2> HIDE DEF T
  <2>1. \A i \in 1 .. n + 1 : i \in T
    BY <1>0, <1>6, <1>7, FromTheEnd
  <2> QED
    BY <2>1, <1>0
<1>9. g[1] = HeaderLen + Len(p) + g[2]
  <2>1. 1 \in 1 .. n + 2 /\ ~ (1 > n + 1) /\ 1 + 1 = 2
    BY <1>0
  <2> QED
    BY <2>1, <1>1, <1>5
<1>10. g[2] = f[1]
  <2>1. 1 + 1 = 2
    OBVIOUS
  <2> QED
    BY <2>1, <1>8
<1> QED
  BY <1>2, <1>3, <1>9, <1>10 DEF t

LEMMA BytesEmpty == Abstract!Bytes(<<>>) = 0
<1>1. Len(<<>>) = 0
  OBVIOUS
<1>2. PICK f : IsBytes(f, <<>>) /\ Abstract!Bytes(<<>>) = f[1]
  BY <1>1, BytesIs
<1> QED
  BY <1>1, <1>2 DEF IsBytes

\* What the entries of a chain are.
LEMMA ChainEntries ==
  ASSUME NEW buf \in [Offset -> Byte], NEW w \in Offset, NEW G, Chain(G, buf, w)
  PROVE  \A d \in G : Good(Entries(buf, w)[d]) /\ Abstract!Bytes(Entries(buf, w)[d]) = d
<1> DEFINE E == Entries(buf, w)
           T == {d \in Distance : d \in G => Good(E[d]) /\ Abstract!Bytes(E[d]) = d}
<1>0. size \in Nat \ {0} /\ HeaderLen = 2 /\ Distance = 0 .. size - 1 /\ G \subseteq Distance
  BY Sizes DEF Distance, Chain
<1>1. ASSUME NEW d \in 0 .. size - 1, \A j \in 0 .. d - 1 : j \in T PROVE d \in T
  <2>1. SUFFICES ASSUME d \in G PROVE Good(E[d]) /\ Abstract!Bytes(E[d]) = d
    BY <1>0
  <2>2. CASE d = 0
    <3>1. E[0] = <<>>
      BY <1>0, <2>2, EntriesAt DEF OneEntry
    <3>2. Good(<<>>)
      BY DEF Good, Log
    <3> QED
      BY <2>2, <3>1, <3>2, BytesEmpty
  <2>3. CASE d # 0
    <3> DEFINE n == LenAt(buf, w, d)
               p == Payload(buf, Pos(w, d), n)
    <3>1. /\ E[d] = <<p>> \o E[d - n]
          /\ p \in Seq(Byte) /\ Len(p) = n - HeaderLen /\ p # BadEntry
          /\ d - n \in G /\ d - n \in 0 .. d - 1 /\ n \in Nat /\ n <= d
      BY <2>1, <2>3, ChainStep
    <3> HIDE DEF n, p, E
    <3>2. Good(E[d - n]) /\ Abstract!Bytes(E[d - n]) = d - n
      BY <3>1, <1>1
    <3>3. d - n \in Nat
      BY <3>1
    <3>4. Abstract!Bytes(E[d]) = HeaderLen + Len(p) + (d - n)
      BY <3>1, <3>2, <3>3, BytesPrepend
    <3>5. Good(E[d])
      BY <3>1, <3>2, PrependGood
    <3> QED
      BY <1>0, <3>1, <3>4, <3>5
  <2> QED
    BY <2>2, <2>3
<1>2. \A d \in 0 .. size - 1 : d \in T
  <2> HIDE DEF T
  <2>1. size - 1 \in Int
    BY <1>0
  <2> QED
    BY <2>1, <1>1, FromBelow
<1> QED
  BY <1>0, <1>2

\* q without some of its first entries.
Suffix(q, s) == \E k \in 1 .. Len(q) + 1 : s = SubSeq(q, k, Len(q))

LEMMA SuffixOfSelf == ASSUME NEW q, Good(q) PROVE Suffix(q, q)
<1>1. q \in Seq(Seq(Byte)) /\ Len(q) \in Nat
  BY DEF Good, Log
<1>2. SubSeq(q, 1, Len(q)) = q
  BY <1>1, SubSeqFull
<1>3. 1 \in 1 .. Len(q) + 1
  BY <1>1
<1> QED
  BY <1>2, <1>3 DEF Suffix

LEMMA SuffixTail ==
  ASSUME NEW q, Good(q), NEW s, Suffix(q, s), s # <<>>
  PROVE  /\ Suffix(q, Tail(s))
         /\ \E k \in 1 .. Len(q) : s = SubSeq(q, k, Len(q)) /\ Tail(s) = SubSeq(q, k + 1, Len(q))
<1>1. q \in Seq(Seq(Byte)) /\ Len(q) \in Nat
  BY DEF Good, Log
<1>2. PICK k \in 1 .. Len(q) + 1 : s = SubSeq(q, k, Len(q))
  BY DEF Suffix
<1>3. k # Len(q) + 1
  <2>1. SUFFICES ASSUME k = Len(q) + 1 PROVE FALSE
    OBVIOUS
  <2>2. k \in Int /\ Len(q) \in Int /\ Len(q) < k
    BY <1>1, <2>1
  <2>3. s = <<>>
    BY <1>2, <2>2, SubSeqEmpty
  <2> QED
    BY <2>3
<1>4. k \in 1 .. Len(q) /\ Len(q) \in k .. Len(q)
  BY <1>1, <1>3
<1>5. Tail(s) = SubSeq(q, k + 1, Len(q))
  BY <1>1, <1>2, <1>4, HeadTailOfSubSeq
<1>6. k + 1 \in 1 .. Len(q) + 1
  BY <1>1, <1>4
<1> QED
  BY <1>2, <1>4, <1>5, <1>6 DEF Suffix

\* The head has gone from the entry at distance D to the one at e: past the one
\* at g, which begins less than len bytes on, and e is at least len bytes on.
Passed(E, D, g, e, len) ==
  /\ Suffix(E[D], E[g]) /\ E[g] # <<>> /\ E[e] = Tail(E[g])
  /\ D < g + len /\ e + len <= D

\* get_next_entry goes on to the first entry of the chain at least len bytes on.
LEMMA NextEntryInChain ==
  ASSUME NEW buf \in [Offset -> Byte], NEW w \in Offset, NEW G, Chain(G, buf, w),
         NEW D \in G, NEW len \in Nat \ {0}, len <= D
  PROVE  \E e \in G, g \in G : /\ get_next_entry(buf, Pos(w, D), len) = Pos(w, e)
                                /\ Passed(Entries(buf, w), D, g, e, len)
<1> DEFINE off == Pos(w, D)
           E == Entries(buf, w)
<1>0. /\ size \in Nat \ {0} /\ HeaderLen = 2 /\ Distance = 0 .. size - 1 /\ G \subseteq Distance
      /\ D \in 0 .. size - 1 /\ off \in Offset
  BY Sizes, PosIs DEF Distance, Chain
<1>1. PICK f : IsCount(f, buf, off, len) /\ get_next_entry(buf, off, len) = logger_offset(off + f[0])
  BY <1>0, NextEntryIs
<1>2. \A c \in Nat : f[c] = IF c >= len THEN c ELSE f[c + LenFrom(buf, off, c)]
  BY <1>1 DEF IsCount
<1>3. Good(E[D])
  BY ChainEntries
<1> DEFINE At(c) == c \in 0 .. D /\ D - c \in G /\ Suffix(E[D], E[D - c])
           Ends(x) == /\ x \in 0 .. D /\ D - x \in G
                      /\ \E y \in 0 .. D : D - y \in G /\ Passed(E, D, D - y, D - x, len)
           T == {i \in 0 .. len : \A c \in 0 .. D : At(c) /\ c < len /\ c >= len - i => Ends(f[c])}
<1> HIDE DEF off, E
<1>4. ASSUME NEW i \in 0 .. len, \A j \in 0 .. i - 1 : j \in T PROVE i \in T
  <2>1. SUFFICES ASSUME NEW c \in 0 .. D, At(c), c < len, c >= len - i PROVE Ends(f[c])
    BY DEF T
  <2> HIDE DEF T, Ends
  <2> DEFINE d == D - c
             n == LenAt(buf, w, d)
  <2>2. d \in G /\ d # 0 /\ d \in Nat /\ c \in Nat
    BY <1>0, <2>1
  <2>3. /\ E[d] = <<Payload(buf, Pos(w, d), n)>> \o E[d - n]
        /\ Payload(buf, Pos(w, d), n) \in Seq(Byte)
        /\ Payload(buf, Pos(w, d), n) # BadEntry
        /\ d - n \in G /\ d - n \in 0 .. d - 1 /\ n \in Nat /\ n <= d
    <3> HIDE DEF d
    <3> QED
      BY <2>2, ChainStep DEF E
  <2>4. LenFrom(buf, off, c) = n
    <3>1. D \in Distance /\ c \in 0 .. D
      BY <1>0
    <3>2. logger_offset(off + c) = Pos(w, d)
      BY <3>1, PosPlus DEF off
    <3> QED
      BY <3>2 DEF LenFrom, LenAt
  <2>5. f[c] = f[c + n]
    <3>1. ~ (c >= len)
      BY <2>1, <2>2
    <3> QED
      BY <3>1, <2>2, <2>4, <1>2
  <2>6. Good(E[d - n])
    BY <2>3, ChainEntries DEF E
  <2>7. E[d - n] = Tail(E[d]) /\ E[d] # <<>>
    BY <2>3, <2>6, PrependGood
  <2>8. Suffix(E[D], E[d]) /\ Suffix(E[D], E[d - n])
    <3>1. Suffix(E[D], E[d])
      BY <2>1
    <3> QED
      BY <3>1, <2>7, <1>3, SuffixTail
  <2> HIDE DEF n
  <2>9. c + n \in 0 .. D /\ D - (c + n) = d - n /\ c + n > c /\ c + n \in Nat
    BY <1>0, <2>2, <2>3
  <2>10. CASE c + n >= len
    <3>1. f[c] = c + n
      BY <1>2, <2>5, <2>9, <2>10
    <3>2. Passed(E, D, d, d - n, len)
      <4>1. D < d + len /\ (d - n) + len <= D
        BY <1>0, <2>1, <2>2, <2>3, <2>9, <2>10
      <4> QED
        BY <4>1, <2>7, <2>8 DEF Passed
    <3>3. Ends(c + n)
      BY <2>1, <2>2, <2>3, <2>9, <3>2 DEF Ends
    <3> QED
      BY <3>1, <3>3
  <2>11. CASE ~ (c + n >= len)
    <3>1. At(c + n)
      BY <2>3, <2>8, <2>9
    <3>2. i - 1 \in 0 .. i - 1 /\ c + n >= len - (i - 1) /\ c + n < len
      <4>1. i \in Int /\ len \in Int /\ c \in Int /\ n \in Int /\ i >= 0
        BY <1>0, <2>2, <2>3
      <4>2. c >= len - i /\ c < len /\ c + n > c
        BY <2>1, <2>9
      <4> QED
        BY <4>1, <4>2, <2>11
    <3>3. i - 1 \in T
      BY <1>4, <3>2
    <3> HIDE DEF At
    <3>4. Ends(f[c + n])
      BY <2>9, <3>1, <3>2, <3>3 DEF T
    <3> QED
      BY <2>5, <3>4
  <2> QED
    BY <2>10, <2>11
<1>5. len \in T
  <2> HIDE DEF T
  <2>1. len \in Int
    OBVIOUS
  <2>2. \A i \in 0 .. len : i \in T
    BY <2>1, <1>4, FromBelow
  <2> QED
    BY <2>2
<1>6. At(0)
  <2>1. D - 0 = D /\ 0 \in 0 .. D
    BY <1>0
  <2> QED
    BY <2>1, <1>3, SuffixOfSelf
<1>7. Ends(f[0])
  <2>1. 0 \in 0 .. D /\ 0 >= len - len /\ 0 < len
    BY <1>0
  <2> HIDE DEF At, Ends
  <2> QED
    BY <2>1, <1>5, <1>6
<1> DEFINE e == D - f[0]
<1>8. f[0] \in 0 .. D /\ e \in G
  BY <1>7
<1>9. PICK g \in G : Passed(E, D, g, e, len)
  BY <1>7
<1>10. logger_offset(off + f[0]) = Pos(w, e)
  BY <1>0, <1>8, PosPlus DEF off
<1> HIDE DEF e
<1>11. get_next_entry(buf, off, len) = Pos(w, e)
  BY <1>1, <1>10
<1> QED
  BY <1>8, <1>9, <1>11 DEF off, E

-----------------------------------------------------------------------------
(* The entries after a write.                                              *)

\* The last m bytes before w are, in the new ring, k bytes further from w2.
Kept(b, w, b2, w2, m, k) ==
  /\ m + k < size
  /\ \A d \in 1 .. m : b2[Pos(w2, d + k)] = b[Pos(w, d)]

LEMMA SameEntry ==
  ASSUME NEW b \in [Offset -> Byte], NEW w \in Offset,
         NEW b2 \in [Offset -> Byte], NEW w2 \in Offset,
         NEW m \in Distance, NEW k \in Distance, Kept(b, w, b2, w2, m, k),
         NEW G, Chain(G, b, w), NEW d \in G, d # 0, d <= m
  PROVE  /\ d + k \in Distance
         /\ LenAt(b2, w2, d + k) = LenAt(b, w, d)
         /\ Payload(b2, Pos(w2, d + k), LenAt(b, w, d)) = Payload(b, Pos(w, d), LenAt(b, w, d))
<1> DEFINE n == LenAt(b, w, d)
<1>0. /\ size \in Nat \ {0} /\ HeaderLen = 2 /\ d \in 0 .. size - 1 /\ k \in 0 .. size - 1
      /\ m \in 0 .. size - 1 /\ m + k < size
  BY Sizes DEF Distance, Chain, Kept
<1>1. n \in Nat /\ HeaderLen < n /\ n <= d
  BY ChainStep
<1>2. d \in Distance /\ d + k \in Distance
  BY <1>0 DEF Distance
<1> HIDE DEF n
<1>3. ASSUME NEW j \in 1 .. d PROVE b2[Pos(w2, j + k)] = b[Pos(w, j)]
  <2>1. j \in 1 .. m
    BY <1>0
  <2> QED
    BY <2>1 DEF Kept
<1>4. LenAt(b2, w2, d + k) = n
  <2>1. LenAt(b, w, d) = HeaderLen + b[Pos(w, d)] + Base * b[Pos(w, d - 1)]
    <3>1. d > 0
      BY <1>0
    <3> QED
      BY <3>1, <1>2, LenAtIs
  <2>2. LenAt(b2, w2, d + k) = HeaderLen + b2[Pos(w2, d + k)] + Base * b2[Pos(w2, (d + k) - 1)]
    <3> DEFINE e == d + k
    <3>1. e > 0 /\ e \in Distance
      BY <1>0, <1>2
    <3> HIDE DEF e
    <3>2. LenAt(b2, w2, e) = HeaderLen + b2[Pos(w2, e)] + Base * b2[Pos(w2, e - 1)]
      BY <3>1, LenAtIs
    <3> QED
      BY <3>2, Zenon DEF e
  <2>3. d \in 1 .. d /\ d - 1 \in 1 .. d /\ (d + k) - 1 = (d - 1) + k
    BY <1>0, <1>1
  <2>4. b2[Pos(w2, d + k)] = b[Pos(w, d)] /\ b2[Pos(w2, (d + k) - 1)] = b[Pos(w, d - 1)]
    BY <2>3, <1>3
  <2> QED
    BY <2>1, <2>2, <2>4 DEF n
<1>5. Payload(b2, Pos(w2, d + k), n) = Payload(b, Pos(w, d), n)
  <2>1. ASSUME NEW i \in 1 .. n - HeaderLen
        PROVE  b2[logger_offset(Pos(w2, d + k) + HeaderLen + i - 1)] = b[logger_offset(Pos(w, d) + HeaderLen + i - 1)]
    <3>1. /\ i + 1 \in 0 .. d /\ i + 1 \in 0 .. d + k
          /\ d - (i + 1) \in 1 .. d /\ (d + k) - (i + 1) = (d - (i + 1)) + k
      BY <1>0, <1>1
    <3>2. Pos(w, d) \in Int /\ Pos(w2, d + k) \in Int
      <4>1. Pos(w, d) \in Offset /\ Pos(w2, d + k) \in Offset
        BY <1>2, PosIs
      <4> QED
        BY <4>1, <1>0 DEF Offset
    <3>3. /\ Pos(w, d) + HeaderLen + i - 1 = Pos(w, d) + (i + 1)
          /\ Pos(w2, d + k) + HeaderLen + i - 1 = Pos(w2, d + k) + (i + 1)
      BY <1>0, <3>2
    <3>4. logger_offset(Pos(w, d) + (i + 1)) = Pos(w, d - (i + 1))
      BY <1>2, <3>1, PosPlus
    <3>5. logger_offset(Pos(w2, d + k) + (i + 1)) = Pos(w2, (d - (i + 1)) + k)
      BY <1>2, <3>1, PosPlus
    <3> QED
      BY <3>1, <3>3, <3>4, <3>5, <1>3
  <2> QED
    BY <2>1 DEF Payload
<1> QED
  BY <1>2, <1>4, <1>5 DEF n

\* A copy that fails leaves the entries of the last m bytes as they are.
LEMMA EntriesKept ==
  ASSUME NEW b \in [Offset -> Byte], NEW w \in Offset, NEW b2 \in [Offset -> Byte],
         NEW m \in Distance, Kept(b, w, b2, w, m, 0), NEW G, Chain(G, b, w)
  PROVE  /\ Chain({d \in G : d <= m}, b2, w)
         /\ \A d \in G : d <= m => Entries(b2, w)[d] = Entries(b, w)[d]
<1> DEFINE H == {d \in G : d <= m}
           E == Entries(b, w)
           F == Entries(b2, w)
           T == {d \in Distance : d \in H => F[d] = E[d]}
<1>0. /\ size \in Nat \ {0} /\ HeaderLen = 2 /\ Distance = 0 .. size - 1 /\ G \subseteq Distance
      /\ m \in 0 .. size - 1 /\ 0 \in G /\ 0 \in Distance
  BY Sizes DEF Distance, Chain
<1>1. ASSUME NEW d \in H, d # 0
      PROVE  /\ LenAt(b2, w, d) = LenAt(b, w, d)
             /\ Payload(b2, Pos(w, d), LenAt(b, w, d)) = Payload(b, Pos(w, d), LenAt(b, w, d))
  <2>1. d + 0 = d
    BY <1>0
  <2> QED
    BY <1>0, <1>1, <2>1, SameEntry
<1>2. ASSUME NEW d \in H, d # 0
      PROVE  /\ d - LenAt(b, w, d) \in H /\ d - LenAt(b, w, d) \in 0 .. d - 1
             /\ LenAt(b, w, d) \in Nat /\ HeaderLen < LenAt(b, w, d) /\ LenAt(b, w, d) <= d
             /\ E[d] = <<Payload(b, Pos(w, d), LenAt(b, w, d))>> \o E[d - LenAt(b, w, d)]
  <2>1. /\ d - LenAt(b, w, d) \in G /\ d - LenAt(b, w, d) \in 0 .. d - 1
        /\ LenAt(b, w, d) \in Nat /\ HeaderLen < LenAt(b, w, d) /\ LenAt(b, w, d) <= d
        /\ E[d] = <<Payload(b, Pos(w, d), LenAt(b, w, d))>> \o E[d - LenAt(b, w, d)]
    BY <1>2, ChainStep
  <2>2. d - LenAt(b, w, d) <= m
    BY <1>0, <1>2, <2>1
  <2> QED
    BY <2>1, <2>2
<1>3. Chain(H, b2, w)
  <2>1. H \subseteq Distance /\ 0 \in H
    <3>1. 0 <= m
      BY <1>0
    <3>2. H \subseteq G
      OBVIOUS
    <3> QED
      BY <1>0, <3>1, <3>2
  <2>2. ASSUME NEW d \in H \ {0}
        PROVE  /\ HeaderLen < LenAt(b2, w, d) /\ LenAt(b2, w, d) <= d
               /\ d - LenAt(b2, w, d) \in H
    <3> HIDE DEF H
    <3> QED
      BY <1>1, <1>2
  <2> HIDE DEF H
  <2> QED
    BY <2>1, <2>2 DEF Chain
<1>4. ASSUME NEW d \in 0 .. size - 1, \A j \in 0 .. d - 1 : j \in T PROVE d \in T
  <2>1. SUFFICES ASSUME d \in H PROVE F[d] = E[d]
    BY <1>0
  <2>2. CASE d = 0
    <3>1. E[0] = <<>> /\ F[0] = <<>>
      BY <1>0, EntriesAt DEF OneEntry
    <3> QED
      BY <2>2, <3>1
  <2>3. CASE d # 0
    <3>1. F[d] = <<Payload(b2, Pos(w, d), LenAt(b2, w, d))>> \o F[d - LenAt(b2, w, d)]
      <4> HIDE DEF H
      <4> QED
        BY <1>3, <2>1, <2>3, ChainStep
    <3>2. F[d - LenAt(b, w, d)] = E[d - LenAt(b, w, d)]
      BY <1>2, <1>4, <2>1, <2>3
    <3> HIDE DEF E, F, H
    <3> QED
      BY <1>1, <1>2, <2>1, <2>3, <3>1, <3>2
  <2> QED
    BY <2>2, <2>3
<1>5. \A d \in 0 .. size - 1 : d \in T
  <2> HIDE DEF T
  <2>1. size - 1 \in Int
    BY <1>0
  <2> QED
    BY <2>1, <1>4, FromBelow
<1> QED
  BY <1>0, <1>3, <1>5

\* A write puts its entry at the end of those that it leaves.
LEMMA EntriesAppended ==
  ASSUME NEW b \in [Offset -> Byte], NEW w \in Offset, NEW b2 \in [Offset -> Byte], NEW w2 \in Offset,
         NEW m \in Distance, NEW len \in Distance, Kept(b, w, b2, w2, m, len), NEW G, Chain(G, b, w),
         NEW p \in Seq(Byte), p # BadEntry, len = HeaderLen + Len(p),
         LenAt(b2, w2, len) = len, Payload(b2, Pos(w2, len), len) = p
  PROVE  \E H : /\ Chain(H, b2, w2)
                /\ \A d \in G : d <= m => /\ d + len \in H
                                          /\ Entries(b2, w2)[d + len] = Entries(b, w)[d] \o <<p>>
<1> DEFINE H == {0} \cup {d + len : d \in {e \in G : e <= m}}
           E == Entries(b, w)
           F == Entries(b2, w2)
           T == {d \in Distance : d \in G /\ d <= m => F[d + len] = E[d] \o <<p>>}
<1>0. /\ size \in Nat \ {0} /\ HeaderLen = 2 /\ Distance = 0 .. size - 1 /\ G \subseteq Distance
      /\ m \in 0 .. size - 1 /\ 0 \in G /\ 0 \in Distance /\ len \in 0 .. size - 1 /\ m + len < size
      /\ Len(p) \in Nat \ {0} /\ len > HeaderLen
  <2>1. Len(p) \in Nat \ {0}
    BY EmptySeq DEF BadEntry
  <2> QED
    BY Sizes, <2>1 DEF Distance, Chain, Kept
<1>1. ASSUME NEW d \in G, d <= m, d # 0
      PROVE  /\ d + len \in Distance
             /\ LenAt(b2, w2, d + len) = LenAt(b, w, d)
             /\ Payload(b2, Pos(w2, d + len), LenAt(b, w, d)) = Payload(b, Pos(w, d), LenAt(b, w, d))
  BY <1>1, SameEntry
<1>2. ASSUME NEW d \in G, d <= m, d # 0
      PROVE  /\ d - LenAt(b, w, d) \in G /\ d - LenAt(b, w, d) <= m /\ d - LenAt(b, w, d) \in 0 .. d - 1
             /\ LenAt(b, w, d) \in Nat /\ HeaderLen < LenAt(b, w, d) /\ LenAt(b, w, d) <= d
             /\ E[d] = <<Payload(b, Pos(w, d), LenAt(b, w, d))>> \o E[d - LenAt(b, w, d)]
             /\ Payload(b, Pos(w, d), LenAt(b, w, d)) \in Seq(Byte)
  <2>1. /\ d - LenAt(b, w, d) \in G /\ d - LenAt(b, w, d) \in 0 .. d - 1
        /\ LenAt(b, w, d) \in Nat /\ HeaderLen < LenAt(b, w, d) /\ LenAt(b, w, d) <= d
        /\ E[d] = <<Payload(b, Pos(w, d), LenAt(b, w, d))>> \o E[d - LenAt(b, w, d)]
        /\ Payload(b, Pos(w, d), LenAt(b, w, d)) \in Seq(Byte)
    BY <1>2, ChainStep
  <2>2. d - LenAt(b, w, d) <= m
    BY <1>0, <1>2, <2>1
  <2> QED
    BY <2>1, <2>2
<1>3. \A d \in G : d <= m => d + len \in H
  OBVIOUS
<1>4. Chain(H, b2, w2)
  <2>1. H \subseteq Distance /\ 0 \in H
    <3>1. ASSUME NEW d \in G, d <= m PROVE d + len \in Distance
      BY <1>0, <3>1
    <3> QED
      BY <1>0, <3>1
  <2>2. ASSUME NEW e \in H \ {0}
        PROVE  /\ HeaderLen < LenAt(b2, w2, e) /\ LenAt(b2, w2, e) <= e
               /\ e - LenAt(b2, w2, e) \in H
    <3>1. PICK d \in G : d <= m /\ e = d + len
      OBVIOUS
    <3>2. CASE d = 0
      <4>1. e = len /\ len - len = 0 /\ len <= len
        BY <1>0, <3>1, <3>2
      <4> QED
        BY <1>0, <2>1, <4>1
    <3>3. CASE d # 0
      <4> DEFINE n == LenAt(b, w, d)
      <4>1. LenAt(b2, w2, e) = n
        BY <1>1, <3>1, <3>3
      <4>2. d - n \in G /\ d - n <= m /\ n \in Nat /\ HeaderLen < n /\ n <= d
        BY <1>2, <3>1, <3>3
      <4> HIDE DEF n
      <4>3. d \in Nat /\ len \in Nat
        BY <1>0
      <4>4. e - n = (d - n) + len /\ n <= e
        BY <3>1, <4>2, <4>3
      <4>5. e - n \in H
        BY <4>2, <4>4, <1>3
      <4> HIDE DEF H
      <4> QED
        BY <4>1, <4>2, <4>4, <4>5
    <3> QED
      BY <3>2, <3>3
  <2> HIDE DEF H
  <2> QED
    BY <2>1, <2>2 DEF Chain
<1> HIDE DEF H
<1>5. ASSUME NEW d \in 0 .. size - 1, \A j \in 0 .. d - 1 : j \in T PROVE d \in T
  <2>1. SUFFICES ASSUME d \in G, d <= m PROVE F[d + len] = E[d] \o <<p>>
    BY <1>0
  <2>2. d + len \in H /\ d + len # 0 /\ d + len \in Int
    BY <1>0, <1>3, <2>1
  <2>3. F[d + len] = <<Payload(b2, Pos(w2, d + len), LenAt(b2, w2, d + len))>>
                       \o F[(d + len) - LenAt(b2, w2, d + len)]
    <3> DEFINE e == d + len
    <3> HIDE DEF e
    <3>1. e \in H /\ e # 0
      BY <2>2 DEF e
    <3>2. F[e] = <<Payload(b2, Pos(w2, e), LenAt(b2, w2, e))>> \o F[e - LenAt(b2, w2, e)]
      BY <3>1, <1>4, ChainStep
    <3> QED
      BY <3>2 DEF e
  <2>4. CASE d = 0
    <3>1. E[0] = <<>> /\ F[0] = <<>>
      BY <1>0, EntriesAt DEF OneEntry
    <3>2. d + len = len /\ len - len = 0
      BY <1>0, <2>4
    <3>3. F[d + len] = <<p>> \o <<>>
      BY <2>3, <3>1, <3>2
    <3>4. <<p>> \in Seq(Seq(Byte))
      OBVIOUS
    <3>5. <<p>> \o <<>> = <<p>> /\ <<>> \o <<p>> = <<p>>
      BY <3>4, ConcatEmptySeq
    <3> QED
      BY <2>4, <3>1, <3>3, <3>5
  <2>5. CASE d # 0
    <3> DEFINE n == LenAt(b, w, d)
               x == Payload(b, Pos(w, d), n)
    <3>1. LenAt(b2, w2, d + len) = n /\ Payload(b2, Pos(w2, d + len), n) = x
      BY <1>1, <2>1, <2>5
    <3>2. /\ d - n \in G /\ d - n <= m /\ d - n \in 0 .. d - 1 /\ n \in Nat
          /\ E[d] = <<x>> \o E[d - n] /\ x \in Seq(Byte)
      BY <1>2, <2>1, <2>5
    <3>3. Good(E[d - n])
      BY <3>2, ChainEntries
    <3>4. (d + len) - n = (d - n) + len
      BY <1>0, <3>2
    <3>5. F[(d - n) + len] = E[d - n] \o <<p>>
      BY <3>2, <1>5
    <3> HIDE DEF n, x, E, F
    <3>6. F[d + len] = <<x>> \o (E[d - n] \o <<p>>)
      BY <2>3, <3>1, <3>4, <3>5
    <3>7. <<x>> \in Seq(Seq(Byte)) /\ E[d - n] \in Seq(Seq(Byte)) /\ <<p>> \in Seq(Seq(Byte))
      BY <3>2, <3>3 DEF Good, Log
    <3>8. (<<x>> \o E[d - n]) \o <<p>> = <<x>> \o (E[d - n] \o <<p>>)
      <4> DEFINE S == Seq(Byte)
      <4>1. <<x>> \in Seq(S) /\ E[d - n] \in Seq(S) /\ <<p>> \in Seq(S)
        BY <3>7
      <4> HIDE DEF S
      <4>2. ASSUME NEW s \in Seq(S), NEW t \in Seq(S), NEW u \in Seq(S)
            PROVE  (s \o t) \o u = s \o (t \o u)
        BY ConcatAssociative
      <4> QED
        BY <4>1, <4>2
    <3> QED
      BY <3>2, <3>6, <3>8
  <2> QED
    BY <2>4, <2>5
<1>6. \A d \in 0 .. size - 1 : d \in T
  <2> HIDE DEF T
  <2>1. size - 1 \in Int
    BY <1>0
  <2> QED
    BY <2>1, <1>5, FromBelow
<1>7. \A d \in G : d <= m => F[d + len] = E[d] \o <<p>>
  BY <1>0, <1>6
<1> QED
  BY <1>3, <1>4, <1>7

-----------------------------------------------------------------------------
(* One write, from the distances' point of view.                           *)

\* A head that the new entry would reach is moved to the first entry that it
\* leaves, any other stays.
LEMMA FixedUpIs ==
  ASSUME TypeOK, NEW G, Chain(G, buffer, w_off),
         NEW h \in Offset, logger_offset(w_off - h) \in G,
         NEW len \in Nat, HeaderLen < len, 2 * len <= size
  PROVE  \E e \in G :
           /\ FixedUp(h, len) = Pos(w_off, e) /\ e + len < size
           /\ logger_offset(w_off - h) + len < size => e = logger_offset(w_off - h)
           /\ logger_offset(w_off - h) + len >= size =>
                \E g \in G : Passed(Entries(buffer, w_off), logger_offset(w_off - h), g, e, len)
<1> DEFINE D == logger_offset(w_off - h)
           t == logger_offset(w_off + len)
<1>0. /\ size \in Nat \ {0} /\ HeaderLen = 2 /\ buffer \in [Offset -> Byte] /\ w_off \in Offset
      /\ w_off \in 0 .. size - 1 /\ h \in 0 .. size - 1
  BY Sizes DEF TypeOK, Offset
<1>1. D \in Distance /\ D = (IF h <= w_off THEN w_off - h ELSE w_off - h + size) /\ Pos(w_off, D) = h
  BY <1>0, PosInverse
<1>2. w_off + len \in Int /\ 0 <= w_off + len /\ w_off + len < 2 * size
  BY <1>0
<1>3. t = (IF w_off + len < size THEN w_off + len ELSE w_off + len - size)
  BY <1>0, <1>2, OffsetIs
<1>4. D \in 0 .. size - 1
  BY <1>1 DEF Distance
<1>5. clock_interval(w_off, t, h) <=> D + len >= size
  <2> HIDE DEF D, t
  <2>1. t \in Int /\ D \in Int
    BY <1>0, <1>3, <1>4
  <2> QED
    BY <1>0, <1>1, <1>3, <1>4, <2>1 DEF clock_interval
<1>6. CASE D + len >= size
  <2>1. len <= D /\ len \in Nat \ {0}
    BY <1>0, <1>4, <1>6
  <2>2. FixedUp(h, len) = get_next_entry(buffer, Pos(w_off, D), len)
    BY <1>1, <1>5, <1>6 DEF FixedUp
  <2> HIDE DEF D, t
  <2>3. D \in G
    BY DEF D
  <2>4. PICK e \in G, g \in G : /\ get_next_entry(buffer, Pos(w_off, D), len) = Pos(w_off, e)
                                /\ Passed(Entries(buffer, w_off), D, g, e, len)
    BY <1>0, <2>1, <2>3, NextEntryInChain
  <2>5. e \in Int /\ e + len <= D
    BY <1>0, <2>4 DEF Chain, Distance, Passed
  <2>6. e + len < size
    BY <1>0, <1>4, <2>5
  <2>7. ~ (D + len < size)
    BY <1>0, <1>4, <1>6
  <2> QED
    BY <2>2, <2>4, <2>6, <2>7 DEF D
<1>7. CASE ~ (D + len >= size)
  <2>1. FixedUp(h, len) = Pos(w_off, D)
    BY <1>1, <1>5, <1>7 DEF FixedUp
  <2> HIDE DEF D, t
  <2>2. D + len < size
    BY <1>0, <1>4, <1>7
  <2> QED
    BY <1>7, <2>1, <2>2 DEF D
<1> QED
  BY <1>6, <1>7

\* The bytes of an entry.
LEMMA EntryBytes ==
  ASSUME NEW p \in Payloads
  PROVE  /\ p \in Seq(Byte) /\ Len(p) \in Nat \ {0} /\ p # BadEntry
         /\ Header(p) \o p \in Seq(Byte) /\ Len(Header(p) \o p) = HeaderLen + Len(p)
         /\ (Header(p) \o p)[1] + Base * (Header(p) \o p)[2] = Len(p)
         /\ \A i \in 1 .. Len(p) : (Header(p) \o p)[HeaderLen + i] = p[i]
         /\ 2 * (HeaderLen + Len(p)) <= size
<1>0. p \in Seq(Byte) /\ Len(p) \in Nat /\ Len(p) >= 1 /\ 2 * (HeaderLen + Len(p)) <= size
  BY SizeAssumption
<1>1. Header(p) \in Seq(Byte) /\ Len(Header(p)) = 2 /\ HeaderLen = 2
      /\ Header(p)[1] + Base * Header(p)[2] = Len(p)
  BY HeaderIs DEF HeaderLen
<1> DEFINE h == Header(p)
<1> HIDE DEF h
<1>2. h \in Seq(Byte) /\ Len(h) = 2
  BY <1>1 DEF h
<1>3. /\ h \o p \in Seq(Byte) /\ Len(h \o p) = 2 + Len(p)
      /\ \A i \in 1 .. 2 + Len(p) : (h \o p)[i] = IF i <= 2 THEN h[i] ELSE p[i - 2]
  <2>1. /\ h \o p \in Seq(Byte) /\ Len(h \o p) = Len(h) + Len(p)
        /\ \A i \in 1 .. Len(h) + Len(p) : (h \o p)[i] = IF i <= Len(h) THEN h[i] ELSE p[i - Len(h)]
    BY <1>0, <1>2, ConcatProperties
  <2> QED
    BY <1>2, <2>1
<1>4. (h \o p)[1] = h[1] /\ (h \o p)[2] = h[2]
  BY <1>0, <1>3
<1>5. ASSUME NEW i \in 1 .. Len(p) PROVE (h \o p)[2 + i] = p[i]
  <2>1. 2 + i \in 1 .. 2 + Len(p) /\ ~ (2 + i <= 2) /\ (2 + i) - 2 = i
    BY <1>0
  <2> QED
    BY <1>3, <2>1
<1>6. p # <<>>
  BY <1>0
<1> QED
  BY <1>0, <1>1, <1>3, <1>4, <1>5, <1>6 DEF h, BadEntry

\* b2 and w2 are the ring and the write head after a write of p.
WriteOf(p, b, w, b2, w2) ==
  b2 = Written(b, w, Header(p) \o p) /\ w2 = logger_offset(w + (HeaderLen + Len(p)))

\* The ring after a write: the entries that were not in its way, and the new one.
LEMMA RingWritten ==
  ASSUME NEW b \in [Offset -> Byte], NEW w \in Offset, NEW G, Chain(G, b, w),
         NEW p \in Payloads, NEW len, len = HeaderLen + Len(p),
         NEW b2, NEW w2, WriteOf(p, b, w, b2, w2)
  PROVE  /\ b2 \in [Offset -> Byte] /\ w2 \in Offset
         /\ \E H : /\ Chain(H, b2, w2)
                   /\ \A d \in G : d + len < size =>
                        /\ d + len \in H /\ Pos(w2, d + len) = Pos(w, d)
                        /\ Entries(b2, w2)[d + len] = Entries(b, w)[d] \o <<p>>
<1> DEFINE s == Header(p) \o p
           m == size - 1 - len
<1>0. /\ size \in Nat \ {0} /\ HeaderLen = 2 /\ w \in 0 .. size - 1 /\ Len(p) \in Nat \ {0}
      /\ len \in Nat /\ len > 2 /\ 2 * len <= size /\ Distance = 0 .. size - 1 /\ Offset = 0 .. size - 1
      /\ len = 2 + Len(p)
  BY Sizes, EntryBytes DEF Offset, Distance
<1>1. /\ s \in Seq(Byte) /\ Len(s) = len /\ s[1] + Base * s[2] = Len(p)
      /\ \A i \in 1 .. Len(p) : s[2 + i] = p[i]
      /\ p \in Seq(Byte) /\ p # BadEntry
  BY <1>0, EntryBytes
<1> HIDE DEF s
<1>2. Len(s) < size
  BY <1>0, <1>1
<1>3. /\ b2 \in [Offset -> Byte]
      /\ \A d \in Distance : 0 < d /\ d + Len(s) <= size => b2[Pos(w, d)] = b[Pos(w, d)]
      /\ \A i \in 1 .. Len(s) : b2[logger_offset(w + i - 1)] = s[i]
  <2>1. b2 = Written(b, w, s)
    BY DEF s, WriteOf
  <2> QED
    BY <1>1, <1>2, <2>1, WrittenIs
<1>4. len \in Distance /\ m \in Distance /\ m \in 0 .. size - 1 /\ m + len < size
  BY <1>0
<1>5. w2 \in Offset
  <2>1. w + len \in Int
    BY <1>0
  <2> QED
    BY <2>1, OffsetIs DEF WriteOf
<1> HIDE DEF m
<1>6. ASSUME NEW d \in 0 .. m PROVE d + len \in Distance /\ Pos(w2, d + len) = Pos(w, d)
  <2>1. d \in Distance /\ d + len < size
    BY <1>0, <1>4
  <2> QED
    BY <1>4, <2>1, PosMoved DEF WriteOf
<1>7. Kept(b, w, b2, w2, m, len)
  <2>1. ASSUME NEW d \in 1 .. m PROVE b2[Pos(w2, d + len)] = b[Pos(w, d)]
    <3>1. d \in 0 .. m /\ d \in Distance /\ 0 < d /\ d + Len(s) <= size
      BY <1>0, <1>1, <1>4
    <3> QED
      BY <1>3, <1>6, <3>1
  <2> QED
    BY <1>4, <2>1 DEF Kept
\* The new entry.
<1>8. Pos(w2, len) = w
  <2>1. 0 \in 0 .. m /\ 0 + len = len /\ 0 \in Distance
    BY <1>0, <1>4
  <2>2. Pos(w, 0) = w
    BY <1>0, <2>1, PosIs
  <2>3. Pos(w2, 0 + len) = Pos(w, 0)
    BY <1>6, <2>1
  <2> QED
    BY <2>1, <2>2, <2>3
<1>9. ASSUME NEW i \in 0 .. len - 1 PROVE b2[logger_offset(w + i)] = s[i + 1]
  <2>1. i + 1 \in 1 .. Len(s) /\ w + (i + 1) - 1 = w + i
    BY <1>0, <1>1
  <2> QED
    BY <2>1, <1>3
<1>10. LenAt(b2, w2, len) = len
  <2>1. logger_offset(w + 0) = w /\ w + 0 \in Int
    BY <1>0, OffsetIs
  <2>2. b2[w] = s[1] /\ b2[logger_offset(w + 1)] = s[2]
    <3>1. 0 \in 0 .. len - 1 /\ 1 \in 0 .. len - 1 /\ 0 + 1 = 1 /\ 1 + 1 = 2
      BY <1>0
    <3> QED
      BY <3>1, <2>1, <1>9
  <2>3. LenAt(b2, w2, len) = HeaderLen + s[1] + Base * s[2]
    BY <1>8, <2>2 DEF LenAt, get_entry_len
  <2>4. s[1] \in Nat /\ Base * s[2] \in Int
    <3>1. Base \in Nat /\ 1 \in 1 .. Len(s) /\ 2 \in 1 .. Len(s)
      BY <1>0, <1>1, Sizes
    <3>2. s[1] \in 0 .. Base - 1 /\ s[2] \in 0 .. Base - 1
      BY <1>1, <3>1 DEF Byte
    <3> QED
      BY <3>1, <3>2
  <2> QED
    BY <1>0, <1>1, <2>3, <2>4
<1>11. Payload(b2, Pos(w2, len), len) = p
  <2> DEFINE P == Payload(b2, w, len)
  <2>1. /\ P \in Seq(Byte) /\ Len(P) = len - HeaderLen
        /\ \A i \in 1 .. len - HeaderLen : P[i] = b2[logger_offset(w + HeaderLen + i - 1)]
    <3>1. len \in Nat /\ HeaderLen < len
      BY <1>0
    <3> QED
      BY <1>3, <3>1, PayloadIs
  <2> HIDE DEF P
  <2>2. Len(P) = Len(p)
    BY <1>0, <2>1
  <2>3. ASSUME NEW i \in 1 .. Len(p) PROVE P[i] = p[i]
    <3>1. /\ i \in 1 .. len - HeaderLen /\ w + HeaderLen + i - 1 = w + (i + 1)
          /\ i + 1 \in 0 .. len - 1 /\ (i + 1) + 1 = 2 + i
      BY <1>0
    <3>2. P[i] = b2[logger_offset(w + (i + 1))]
      BY <2>1, <3>1
    <3>3. b2[logger_offset(w + (i + 1))] = s[2 + i]
      BY <1>9, <3>1
    <3> QED
      BY <1>1, <3>2, <3>3
  <2>4. P = p
    BY <1>1, <2>1, <2>2, <2>3, SeqEqual
  <2> QED
    BY <1>8, <2>4 DEF P
<1>12. PICK H : /\ Chain(H, b2, w2)
                /\ \A d \in G : d <= m => /\ d + len \in H
                                          /\ Entries(b2, w2)[d + len] = Entries(b, w)[d] \o <<p>>
  <2>1. b2 \in [Offset -> Byte] /\ m \in Distance /\ len \in Distance /\ p \in Seq(Byte) /\ p # BadEntry
    BY <1>1, <1>3, <1>4
  <2> QED
    BY <1>5, <1>7, <1>10, <1>11, <2>1, EntriesAppended, SMTT(60)
<1>13. ASSUME NEW d \in G, d + len < size
       PROVE  d <= m /\ d \in 0 .. m
  <2>1. d \in 0 .. size - 1
    BY <1>0 DEF Chain
  <2> QED
    BY <1>0, <1>13, <2>1 DEF m
<1> QED
  BY <1>3, <1>5, <1>6, <1>12, <1>13

\* b2 is the ring after a copy of p that failed after k bytes and cleared z more.
FaultOf(p, k, z, b, w, b2) ==
  b2 = Written(b, w, Header(p) \o SubSeq(p, 1, k) \o [i \in 1 .. z |-> 0])

LEMMA FaultBytes ==
  ASSUME NEW p \in Payloads, NEW k \in 0 .. Len(p) - 1, NEW z \in 0 .. Len(p) - k
  PROVE  /\ Header(p) \o SubSeq(p, 1, k) \o [i \in 1 .. z |-> 0] \in Seq(Byte)
         /\ Len(Header(p) \o SubSeq(p, 1, k) \o [i \in 1 .. z |-> 0]) <= HeaderLen + Len(p)
<1> DEFINE h == Header(p)
           q == SubSeq(p, 1, k)
           c == [i \in 1 .. z |-> 0]
<1>0. p \in Seq(Byte) /\ Len(p) \in Nat /\ k \in Nat /\ z \in Nat /\ k + z <= Len(p) /\ HeaderLen = 2
  BY EntryBytes, Sizes
<1>1. h \in Seq(Byte) /\ Len(h) = 2
  BY <1>0, HeaderIs
<1>2. q \in Seq(Byte) /\ Len(q) = k
  <2>1. 1 \in 1 .. Len(p) + 1 /\ k \in 1 - 1 .. Len(p)
    BY <1>0
  <2>2. /\ SubSeq(p, 1, k) \in Seq(Byte)
        /\ Len(SubSeq(p, 1, k)) = (IF 1 <= k THEN k - 1 + 1 ELSE 0)
    BY <1>0, <2>1, SubSeqProperties
  <2> QED
    BY <1>0, <2>2
<1>3. c \in Seq(Byte) /\ Len(c) = z
  <2>1. 0 \in Byte
    BY Sizes DEF Byte
  <2>2. c \in [1 .. z -> Byte]
    BY <2>1
  <2> QED
    BY <1>0, <2>2
<1> HIDE DEF h, q, c
<1>4. h \o q \in Seq(Byte) /\ Len(h \o q) = 2 + k
  <2>1. h \o q \in Seq(Byte) /\ Len(h \o q) = Len(h) + Len(q)
    BY <1>1, <1>2, ConcatProperties
  <2> QED
    BY <1>1, <1>2, <2>1
<1> DEFINE hq == h \o q
<1> HIDE DEF hq
<1>5. hq \in Seq(Byte) /\ Len(hq) = 2 + k
  BY <1>4 DEF hq
<1>6. hq \o c \in Seq(Byte) /\ Len(hq \o c) = Len(hq) + Len(c)
  BY <1>3, <1>5, ConcatProperties
<1>7. hq \o c \in Seq(Byte) /\ Len(hq \o c) <= HeaderLen + Len(p)
  BY <1>0, <1>3, <1>5, <1>6
<1> QED
  BY <1>7 DEF hq, h, q, c

\* The ring after such a write: the entries that were not in its way.
LEMMA RingFaulted ==
  ASSUME NEW b \in [Offset -> Byte], NEW w \in Offset, NEW G, Chain(G, b, w),
         NEW p \in Payloads, NEW k \in 0 .. Len(p) - 1, NEW z \in 0 .. Len(p) - k,
         NEW len, len = HeaderLen + Len(p), NEW b2, FaultOf(p, k, z, b, w, b2)
  PROVE  /\ b2 \in [Offset -> Byte]
         /\ \E H : /\ Chain(H, b2, w)
                   /\ \A d \in G : d + len < size => d \in H /\ Entries(b2, w)[d] = Entries(b, w)[d]
<1> DEFINE s == Header(p) \o SubSeq(p, 1, k) \o [i \in 1 .. z |-> 0]
           m == size - 1 - len
<1>0. /\ size \in Nat \ {0} /\ w \in 0 .. size - 1 /\ Len(p) \in Nat \ {0}
      /\ len \in Nat /\ len > 2 /\ 2 * len <= size /\ Distance = 0 .. size - 1
  BY Sizes, EntryBytes DEF Offset, Distance
<1>1. s \in Seq(Byte) /\ Len(s) <= len
  BY FaultBytes
<1> HIDE DEF s
<1>2. Len(s) < size /\ Len(s) \in Nat
  BY <1>0, <1>1
<1>3. /\ b2 \in [Offset -> Byte]
      /\ \A d \in Distance : 0 < d /\ d + Len(s) <= size => b2[Pos(w, d)] = b[Pos(w, d)]
  <2>1. b2 = Written(b, w, s)
    BY DEF s, FaultOf
  <2> QED
    BY <1>1, <1>2, <2>1, WrittenIs
<1>4. m \in Distance /\ m \in 0 .. size - 1 /\ m + len < size
  BY <1>0
<1> HIDE DEF m
<1>5. Kept(b, w, b2, w, m, 0)
  <2>1. ASSUME NEW d \in 1 .. m PROVE b2[Pos(w, d + 0)] = b[Pos(w, d)]
    <3>1. d \in Distance /\ 0 < d /\ d + Len(s) <= size /\ d + 0 = d
      BY <1>0, <1>1, <1>2, <1>4
    <3> QED
      BY <1>3, <3>1
  <2>2. m + 0 < size
    BY <1>0, <1>4
  <2> QED
    BY <2>1, <2>2 DEF Kept
<1> DEFINE H == {d \in G : d <= m}
<1>6. Chain(H, b2, w) /\ \A d \in G : d <= m => Entries(b2, w)[d] = Entries(b, w)[d]
  BY <1>3, <1>4, <1>5, EntriesKept
<1>7. ASSUME NEW d \in G, d + len < size
      PROVE  d <= m /\ d \in H
  <2>1. d \in 0 .. size - 1
    BY <1>0 DEF Chain
  <2>2. d <= m
    BY <1>0, <1>7, <2>1 DEF m
  <2> QED
    BY <2>2
<1> HIDE DEF H
<1> QED
  BY <1>3, <1>6, <1>7

\* What a write leaves of a queue, in the words of LogQueue.
LEMMA KeptIs ==
  ASSUME NEW E, NEW D, NEW g, NEW e, NEW len \in Nat, Good(E[D]),
         Abstract!Bytes(E[D]) = D, Abstract!Bytes(E[g]) = g, Abstract!Bytes(E[e]) = e,
         ~ (D + len < size), Passed(E, D, g, e, len)
  PROVE  E[e] \in Abstract!Kept(E[D], len)
<1> DEFINE q == E[D]
           From(k) == SubSeq(q, k, Len(q))
           last == {k \in 1 .. Len(q) : /\ Abstract!Bytes(From(k + 1)) + len <= Abstract!Bytes(q)
                                        /\ Abstract!Bytes(q) < Abstract!Bytes(From(k)) + len}
<1>1. PICK k \in 1 .. Len(q) : E[g] = From(k) /\ E[e] = From(k + 1)
  <2>1. Suffix(q, E[g]) /\ E[g] # <<>> /\ E[e] = Tail(E[g])
    BY DEF Passed
  <2> HIDE DEF q
  <2>2. PICK k \in 1 .. Len(q) : E[g] = SubSeq(q, k, Len(q)) /\ Tail(E[g]) = SubSeq(q, k + 1, Len(q))
    BY <2>1, SuffixTail DEF q
  <2> QED
    BY <2>1, <2>2
<1>2. k \in last
  BY <1>1 DEF Passed
<1>3. Abstract!Kept(q, len) = {From(j + 1) : j \in last}
  BY DEF Abstract!Kept
<1> QED
  BY <1>1, <1>2, <1>3

-----------------------------------------------------------------------------
(* The invariant.                                                          *)

\* There is a chain of entries up to the write head on which every head stands.
ChainOfHeads(G) == Chain(G, buffer, w_off) /\ \A h \in Heads : logger_offset(w_off - h) \in G
Chained == \E G : ChainOfHeads(G)

\* A copy that fails puts the write head back to where it is.
OrigOK == \A w \in Writers : wpc[w] = "write" /\ w \in Faulting => orig[w] = w_off

\* Only readers between prepare_to_wait and finish_wait are on the wait queue,
\* only open files are read.
ReadersOK ==
  \A r \in Readers : /\ r \in waiting => rpc[r] \in {"check", "schedule"}
                     /\ rpc[r] # "idle" => r \in readers

LInv == TypeOK /\ Chained /\ OrigOK /\ ReadersOK /\ NoLostWakeup

\* A writer that may fault has the log to itself: logger_aio_write reads w_off
\* before it takes the mutex and puts it back when the copy fails.
FaultsAlone == \A v \in Faulting, w \in Writers : v = w

\* What a write of p that adds added does to the head h: it is moved to g.
HeadMoved(H, h, g, p, added) ==
  /\ g \in Offset /\ logger_offset(w_off' - g) \in H
  /\ \E q \in Abstract!Kept(Entries(buffer, w_off)[logger_offset(w_off - h)], HeaderLen + Len(p)) :
       Entries(buffer', w_off')[logger_offset(w_off' - g)] = q \o added

LEMMA FixedUpKept ==
  ASSUME TypeOK, NEW G, Chain(G, buffer, w_off), NEW p \in Payloads,
         NEW h \in Offset, logger_offset(w_off - h) \in G
  PROVE  \E e \in G :
           /\ FixedUp(h, HeaderLen + Len(p)) = Pos(w_off, e)
           /\ e \in Distance /\ e + (HeaderLen + Len(p)) < size
           /\ logger_offset(w_off - h) = 0 => e = 0
           /\ Entries(buffer, w_off)[e]
                \in Abstract!Kept(Entries(buffer, w_off)[logger_offset(w_off - h)], HeaderLen + Len(p))
<1> DEFINE D == logger_offset(w_off - h)
           len == HeaderLen + Len(p)
           E == Entries(buffer, w_off)
<1>0. /\ size \in Nat \ {0} /\ buffer \in [Offset -> Byte] /\ w_off \in Offset
      /\ len \in Nat /\ HeaderLen < len /\ 2 * len <= size /\ HeaderLen = 2
  BY Sizes, EntryBytes DEF TypeOK
<1> HIDE DEF len
<1>1. PICK e \in G :
        /\ FixedUp(h, len) = Pos(w_off, e) /\ e + len < size
        /\ logger_offset(w_off - h) + len < size => e = logger_offset(w_off - h)
        /\ logger_offset(w_off - h) + len >= size =>
             \E g \in G : Passed(Entries(buffer, w_off), logger_offset(w_off - h), g, e, len)
  BY <1>0, FixedUpIs
<1>2. /\ \A d \in G : Good(E[d]) /\ Abstract!Bytes(E[d]) = d
      /\ D \in Distance /\ e \in Distance /\ D \in Nat /\ D \in G
  <2>1. \A d \in G : Good(E[d]) /\ Abstract!Bytes(E[d]) = d
    BY <1>0, ChainEntries
  <2>2. D \in Distance /\ e \in Distance
    BY DEF Chain
  <2> QED
    BY <2>1, <2>2, <1>0 DEF Distance
<1> HIDE DEF D, E
<1>3. E[e] \in Abstract!Kept(E[D], len)
  <2>1. CASE D + len < size
    <3>1. E[e] = E[D]
      BY <1>1, <2>1 DEF D
    <3>2. Abstract!Bytes(E[D]) + len < size
      BY <1>2, <2>1
    <3> QED
      BY <3>1, <3>2 DEF Abstract!Kept
  <2>2. CASE ~ (D + len < size)
    <3>1. D + len >= size
      BY <1>0, <1>2, <2>2
    <3>2. PICK g \in G : Passed(E, D, g, e, len)
      BY <1>1, <3>1 DEF D, E
    <3> QED
      BY <1>0, <1>2, <2>2, <3>2, KeptIs
  <2> QED
    BY <2>1, <2>2
<1>4. D = 0 => e = 0
  BY <1>0, <1>1 DEF D
<1> QED
  BY <1>1, <1>2, <1>3, <1>4 DEF D, E, len

LEMMA WriteMoves ==
  ASSUME TypeOK, NEW G, Chain(G, buffer, w_off), NEW p \in Payloads,
         WriteOf(p, buffer, w_off, buffer', w_off')
  PROVE  /\ buffer' \in [Offset -> Byte] /\ w_off' \in Offset
         /\ \E H : /\ Chain(H, buffer', w_off')
                   /\ \A h \in Offset : logger_offset(w_off - h) \in G =>
                        HeadMoved(H, h, FixedUp(h, HeaderLen + Len(p)), p, <<p>>)
<1> DEFINE len == HeaderLen + Len(p)
<1>0. buffer \in [Offset -> Byte] /\ w_off \in Offset
  BY DEF TypeOK
<1> HIDE DEF len
<1>1. len = HeaderLen + Len(p)
  BY DEF len
<1>2. buffer' \in [Offset -> Byte] /\ w_off' \in Offset
  BY <1>0, <1>1, RingWritten
<1>3. PICK H : /\ Chain(H, buffer', w_off')
               /\ \A d \in G : d + len < size =>
                    /\ d + len \in H /\ Pos(w_off', d + len) = Pos(w_off, d)
                    /\ Entries(buffer', w_off')[d + len] = Entries(buffer, w_off)[d] \o <<p>>
  BY <1>0, <1>1, RingWritten
<1>4. ASSUME NEW h \in Offset, logger_offset(w_off - h) \in G
      PROVE  HeadMoved(H, h, FixedUp(h, len), p, <<p>>)
  <2>1. PICK e \in G :
          /\ FixedUp(h, len) = Pos(w_off, e) /\ e \in Distance /\ e + len < size
          /\ Entries(buffer, w_off)[e] \in Abstract!Kept(Entries(buffer, w_off)[logger_offset(w_off - h)], len)
    BY <1>1, <1>4, FixedUpKept
  <2> DEFINE n == e + len
             g == FixedUp(h, len)
  <2>2. n \in H /\ Pos(w_off', n) = g /\ Entries(buffer', w_off')[n] = Entries(buffer, w_off)[e] \o <<p>>
    BY <1>3, <2>1
  <2> HIDE DEF n, g
  <2>3. n \in Distance
    BY <1>3, <2>2 DEF Chain
  <2>4. g \in Offset /\ logger_offset(w_off' - g) = n
    BY <1>2, <2>2, <2>3, PosIs, DistanceInverse
  <2>5. HeadMoved(H, h, g, p, <<p>>)
    BY <1>1, <2>1, <2>2, <2>4 DEF HeadMoved
  <2> QED
    BY <2>5 DEF g
<1> QED
  BY <1>2, <1>3, <1>4 DEF len

LEMMA FaultMoves ==
  ASSUME TypeOK, NEW G, Chain(G, buffer, w_off), NEW p \in Payloads,
         NEW k \in 0 .. Len(p) - 1, NEW z \in 0 .. Len(p) - k,
         FaultOf(p, k, z, buffer, w_off, buffer'), w_off' = w_off
  PROVE  /\ buffer' \in [Offset -> Byte]
         /\ \E H : /\ Chain(H, buffer', w_off')
                   /\ \A h \in Offset : logger_offset(w_off - h) \in G =>
                        HeadMoved(H, h, FixedUp(h, HeaderLen + Len(p)), p, <<>>)
<1> DEFINE len == HeaderLen + Len(p)
<1>0. buffer \in [Offset -> Byte] /\ w_off \in Offset /\ w_off' \in Offset
  BY DEF TypeOK
<1> HIDE DEF len
<1>1. len = HeaderLen + Len(p)
  BY DEF len
<1>2. buffer' \in [Offset -> Byte]
  BY <1>0, <1>1, RingFaulted
<1>3. PICK H : /\ Chain(H, buffer', w_off)
               /\ \A d \in G : d + len < size =>
                    d \in H /\ Entries(buffer', w_off)[d] = Entries(buffer, w_off)[d]
  BY <1>0, <1>1, RingFaulted
<1>4. ASSUME NEW h \in Offset, logger_offset(w_off - h) \in G
      PROVE  HeadMoved(H, h, FixedUp(h, len), p, <<>>)
  <2>1. PICK e \in G :
          /\ FixedUp(h, len) = Pos(w_off, e) /\ e \in Distance /\ e + len < size
          /\ Entries(buffer, w_off)[e] \in Abstract!Kept(Entries(buffer, w_off)[logger_offset(w_off - h)], len)
    BY <1>1, <1>4, FixedUpKept
  <2> DEFINE g == FixedUp(h, len)
             x == Entries(buffer, w_off)[e]
  <2>2. e \in H /\ Pos(w_off', e) = g /\ Entries(buffer', w_off')[e] = x
    BY <1>3, <2>1
  <2>3. x \o <<>> = x
    <3>1. Good(x)
      BY <1>0, ChainEntries
    <3> HIDE DEF x
    <3> QED
      BY <3>1, ConcatEmptySeq DEF Good, Log
  <2> HIDE DEF g
  <2>4. g \in Offset /\ logger_offset(w_off' - g) = e
    BY <1>0, <2>1, <2>2, PosIs, DistanceInverse
  <2>5. HeadMoved(H, h, g, p, <<>>)
    BY <1>1, <2>1, <2>2, <2>3, <2>4 DEF HeadMoved
  <2> QED
    BY <2>5 DEF g
<1> QED
  BY <1>2, <1>3, <1>4 DEF len

LEMMA HeadIs ==
  ASSUME TypeOK
  PROVE  head \in Heads /\ Heads \subseteq Offset /\ \A r \in readers : r_off[r] \in Heads
BY DEF Heads, TypeOK

\* fix_up_readers moves all heads from one chain to the next.
LEMMA AllHeadsMoved ==
  ASSUME TypeOK, NEW G, ChainOfHeads(G), NEW H, Chain(H, buffer', w_off'),
         NEW p \in Payloads, NEW added,
         \A h \in Offset : logger_offset(w_off - h) \in G =>
           HeadMoved(H, h, FixedUp(h, HeaderLen + Len(p)), p, added),
         fix_up_readers(HeaderLen + Len(p)), readers' = readers
  PROVE  /\ head' \in Offset /\ r_off' \in [Readers -> Offset]
         /\ ChainOfHeads(H)'
         /\ HeadMoved(H, head, head', p, added)
         /\ \A r \in readers : HeadMoved(H, r_off[r], r_off'[r], p, added)
<1> DEFINE len == HeaderLen + Len(p)
<1>0. readers \subseteq Readers /\ r_off \in [Readers -> Offset]
  BY DEF TypeOK
<1>1. ASSUME NEW h \in Heads
      PROVE  /\ HeadMoved(H, h, FixedUp(h, len), p, added)
             /\ FixedUp(h, len) \in Offset /\ logger_offset(w_off' - FixedUp(h, len)) \in H
  <2>1. h \in Offset /\ logger_offset(w_off - h) \in G
    BY HeadIs DEF ChainOfHeads
  <2>2. HeadMoved(H, h, FixedUp(h, len), p, added)
    BY <2>1
  <2> QED
    BY <2>2 DEF HeadMoved
<1>2. /\ head' = FixedUp(head, len)
      /\ r_off' = [r \in Readers |-> IF r \in readers THEN FixedUp(r_off[r], len) ELSE r_off[r]]
  BY DEF fix_up_readers
<1> HIDE DEF len
<1>3. head' \in Offset /\ logger_offset(w_off' - head') \in H /\ HeadMoved(H, head, head', p, added)
  BY <1>1, <1>2, HeadIs
<1>4. ASSUME NEW r \in readers
      PROVE  /\ r_off'[r] \in Offset /\ logger_offset(w_off' - r_off'[r]) \in H
             /\ HeadMoved(H, r_off[r], r_off'[r], p, added)
  <2>1. r_off'[r] = FixedUp(r_off[r], len) /\ r_off[r] \in Heads
    BY <1>0, <1>2, HeadIs
  <2> QED
    BY <2>1, <1>1
<1>5. r_off' \in [Readers -> Offset]
  <2>1. ASSUME NEW r \in Readers PROVE r_off'[r] \in Offset
    <3>1. CASE r \in readers
      BY <1>4, <3>1
    <3>2. CASE r \notin readers
      BY <1>0, <1>2, <3>2
    <3> QED
      BY <3>1, <3>2
  <2> QED
    BY <1>2, <2>1
<1>6. ChainOfHeads(H)'
  <2>1. ASSUME NEW h \in Heads' PROVE logger_offset(w_off' - h) \in H
    <3>1. h = head' \/ \E r \in readers : h = r_off'[r]
      BY DEF Heads
    <3> QED
      BY <3>1, <1>3, <1>4
  <2> QED
    BY <2>1 DEF ChainOfHeads
<1> QED
  BY <1>3, <1>4, <1>5, <1>6

LEMMA WriteKeeps ==
  ASSUME LInv, FaultsAlone, NEW w \in Writers, NEW p \in Payloads, logger_aio_write(w, p)
  PROVE  LInv'
<1>0. /\ TypeOK /\ OrigOK /\ ReadersOK /\ NoLostWakeup /\ wpc \in [Writers -> {"idle", "write", "wake"}]
      /\ orig \in [Writers -> Offset] /\ w_off \in Offset
      /\ readers' = readers /\ rpc' = rpc /\ waiting' = waiting
      /\ wpc' = [wpc EXCEPT ![w] = "wake"] /\ orig' = [orig EXCEPT ![w] = 0]
      /\ fix_up_readers(HeaderLen + Len(p))
  BY DEF LInv, TypeOK, logger_aio_write
<1>1. PICK G : ChainOfHeads(G)
  BY DEF LInv, Chained
<1>2. WriteOf(p, buffer, w_off, buffer', w_off')
  <2>1. w_off \in Int /\ HeaderLen \in Int /\ Len(p) \in Int
    BY <1>0, Sizes, EntryBytes DEF Offset
  <2>2. w_off + HeaderLen + Len(p) = w_off + (HeaderLen + Len(p))
    BY <2>1
  <2> QED
    BY <2>2 DEF logger_aio_write, WriteOf
<1>3. /\ buffer' \in [Offset -> Byte] /\ w_off' \in Offset
      /\ \E H : /\ Chain(H, buffer', w_off')
                /\ \A h \in Offset : logger_offset(w_off - h) \in G =>
                     HeadMoved(H, h, FixedUp(h, HeaderLen + Len(p)), p, <<p>>)
  BY <1>0, <1>1, <1>2, WriteMoves DEF ChainOfHeads
<1>4. head' \in Offset /\ r_off' \in [Readers -> Offset] /\ Chained'
  BY <1>0, <1>1, <1>3, AllHeadsMoved DEF Chained
<1>5. TypeOK'
  <2>1. 0 \in Offset
    BY Sizes DEF Offset
  <2> QED
    BY <1>0, <1>3, <1>4, <2>1 DEF TypeOK
<1>6. OrigOK'
  <2>1. SUFFICES ASSUME NEW v \in Writers, wpc'[v] = "write", v \in Faulting PROVE FALSE
    BY DEF OrigOK
  <2>2. v = w
    BY <2>1 DEF FaultsAlone
  <2> QED
    BY <1>0, <2>1, <2>2
<1>7. ReadersOK'
  BY <1>0 DEF ReadersOK
<1>8. NoLostWakeup'
  BY <1>0 DEF NoLostWakeup
<1> QED
  BY <1>4, <1>5, <1>6, <1>7, <1>8 DEF LInv

LEMMA FaultKeeps ==
  ASSUME LInv, FaultsAlone, NEW w \in Writers, NEW p \in Payloads,
         NEW k \in 0 .. Len(p) - 1, NEW z \in 0 .. Len(p) - k, WriteFault(w, p, k, z)
  PROVE  LInv'
<1>0. /\ TypeOK /\ OrigOK /\ ReadersOK /\ NoLostWakeup /\ wpc \in [Writers -> {"idle", "write", "wake"}]
      /\ orig \in [Writers -> Offset] /\ w_off \in Offset /\ r_off \in [Readers -> Offset]
      /\ readers' = readers /\ rpc' = rpc /\ waiting' = waiting /\ readers \subseteq Readers
      /\ wpc' = [wpc EXCEPT ![w] = "idle"] /\ orig' = [orig EXCEPT ![w] = 0]
      /\ fix_up_readers(HeaderLen + Len(p)) /\ wpc[w] = "write" /\ w \in Faulting
      /\ waiting \subseteq readers
  BY DEF LInv, TypeOK, WriteFault
<1>1. PICK G : ChainOfHeads(G)
  BY DEF LInv, Chained
<1>2. w_off' = w_off
  BY <1>0 DEF OrigOK, WriteFault
<1>3. /\ buffer' \in [Offset -> Byte]
      /\ \E H : /\ Chain(H, buffer', w_off')
                /\ \A h \in Offset : logger_offset(w_off - h) \in G =>
                     HeadMoved(H, h, FixedUp(h, HeaderLen + Len(p)), p, <<>>)
  <2>1. FaultOf(p, k, z, buffer, w_off, buffer')
    BY DEF WriteFault, FaultOf
  <2> QED
    BY <1>0, <1>1, <1>2, <2>1, FaultMoves DEF ChainOfHeads
<1>4. head' \in Offset /\ r_off' \in [Readers -> Offset] /\ Chained'
  BY <1>0, <1>1, <1>3, AllHeadsMoved DEF Chained
<1>5. TypeOK'
  <2>1. 0 \in Offset
    BY Sizes DEF Offset
  <2> QED
    BY <1>0, <1>2, <1>3, <1>4, <2>1 DEF TypeOK
<1>6. OrigOK'
  BY <1>0, <1>2 DEF OrigOK
<1>7. ReadersOK'
  BY <1>0 DEF ReadersOK
<1>8. NoLostWakeup'
  <2>1. SUFFICES ASSUME NEW r \in waiting, rpc[r] = "schedule", r_off'[r] # w_off'
                 PROVE  \E v \in Writers : wpc'[v] = "wake"
    BY <1>0 DEF NoLostWakeup
  <2>2. r_off[r] # w_off
    <3>1. SUFFICES ASSUME r_off[r] = w_off PROVE FALSE
      OBVIOUS
    <3>2. r \in readers /\ r_off[r] \in Offset /\ r_off'[r] = FixedUp(r_off[r], HeaderLen + Len(p))
      BY <1>0 DEF fix_up_readers
    <3>3. logger_offset(w_off - r_off[r]) = 0 /\ logger_offset(w_off - r_off[r]) \in G
      <4>1. w_off \in Int /\ w_off - w_off = 0 /\ 0 < size
        BY <1>0, Sizes DEF Offset
      <4>2. logger_offset(0) = 0
        BY <4>1, OffsetIs
      <4>3. logger_offset(w_off - w_off) \in G
        BY <1>0, <1>1, <3>1, <3>2, HeadIs DEF ChainOfHeads
      <4> QED
        BY <3>1, <4>1, <4>2, <4>3
    <3>4. FixedUp(r_off[r], HeaderLen + Len(p)) = Pos(w_off, 0)
      BY <1>0, <1>1, <3>2, <3>3, FixedUpKept DEF ChainOfHeads
    <3>5. Pos(w_off, 0) = w_off
      <4>1. 0 \in Distance /\ w_off \in Nat /\ 0 <= w_off /\ w_off - 0 = w_off
        BY <1>0, Sizes DEF Distance, Offset
      <4> QED
        BY <1>0, <4>1, PosIs
    <3> QED
      BY <1>2, <2>1, <3>2, <3>4, <3>5
  <2>3. PICK v \in Writers : wpc[v] = "wake"
    BY <1>0, <2>1, <2>2 DEF NoLostWakeup
  <2> QED
    BY <1>0, <2>3
<1> QED
  BY <1>4, <1>5, <1>6, <1>7, <1>8 DEF LInv

\* The read of one entry goes on to the next one of the chain.
LEMMA ReadMoves ==
  ASSUME TypeOK, NEW G, ChainOfHeads(G), NEW r \in readers, w_off # r_off[r]
  PROVE  LET o == logger_offset(r_off[r] + get_entry_len(buffer, r_off[r]))
         IN  /\ o \in Offset /\ logger_offset(w_off - o) \in G
             /\ Good(EntriesFrom(r_off[r])) /\ EntriesFrom(r_off[r]) # <<>>
             /\ EntriesFrom(o) = Tail(EntriesFrom(r_off[r]))
<1> DEFINE h == r_off[r]
           D == logger_offset(w_off - h)
           n == LenAt(buffer, w_off, D)
           o == logger_offset(h + get_entry_len(buffer, h))
           E == Entries(buffer, w_off)
<1>0. /\ size \in Nat \ {0} /\ HeaderLen = 2 /\ buffer \in [Offset -> Byte] /\ w_off \in Offset /\ h \in Offset
      /\ D \in G /\ Chain(G, buffer, w_off)
  BY Sizes, HeadIs DEF TypeOK, ChainOfHeads
<1>1. D \in Distance /\ Pos(w_off, D) = h /\ D = (IF h <= w_off THEN w_off - h ELSE w_off - h + size)
  BY <1>0, PosInverse
<1>2. D # 0
  <2>1. h # w_off /\ w_off \in 0 .. size - 1 /\ h \in 0 .. size - 1
    BY <1>0 DEF Offset
  <2> HIDE DEF h, D
  <2> QED
    BY <1>0, <1>1, <2>1
<1>3. n = get_entry_len(buffer, h)
  BY <1>1 DEF LenAt
<1> DEFINE x == Payload(buffer, Pos(w_off, D), n)
<1> HIDE DEF D, h
<1>4. /\ E[D] = <<x>> \o E[D - n] /\ x \in Seq(Byte) /\ x # BadEntry
      /\ D - n \in G /\ n \in Nat /\ n <= D
  BY <1>0, <1>2, ChainStep
<1> HIDE DEF n, x
<1>5. D - n \in Distance /\ n \in 0 .. D
  BY <1>0, <1>1, <1>4 DEF Distance
<1>6. o = Pos(w_off, D - n)
  BY <1>0, <1>1, <1>3, <1>5, PosPlus
<1> DEFINE e == D - n
<1> HIDE DEF e
<1>7. o = Pos(w_off, e) /\ e \in G /\ e \in Distance /\ E[D] = <<x>> \o E[e]
  BY <1>4, <1>5, <1>6 DEF e
<1> HIDE DEF o, E
<1>8. o \in Offset /\ logger_offset(w_off - o) = e
  BY <1>0, <1>7, PosIs, DistanceInverse
<1>9. Good(E[e]) /\ Good(E[D])
  BY <1>0, <1>7, ChainEntries DEF E
<1>10. E[D] # <<>> /\ E[e] = Tail(E[D])
  <2> DEFINE q == E[e]
  <2>1. E[D] = <<x>> \o q /\ Good(q) /\ x \in Seq(Byte) /\ x # BadEntry
    BY <1>4, <1>7, <1>9
  <2> HIDE DEF q
  <2>2. <<x>> \o q # <<>> /\ Tail(<<x>> \o q) = q
    BY <2>1, PrependGood
  <2> QED
    BY <2>1, <2>2 DEF q
<1>11. EntriesFrom(h) = E[D] /\ EntriesFrom(o) = E[e]
  BY <1>8 DEF EntriesFrom, E, D
<1>12. /\ o \in Offset /\ logger_offset(w_off - o) \in G
       /\ Good(EntriesFrom(h)) /\ EntriesFrom(h) # <<>>
       /\ EntriesFrom(o) = Tail(EntriesFrom(h))
  BY <1>7, <1>8, <1>9, <1>10, <1>11
<1> QED
  BY <1>12 DEF o, h

\* Steps that leave the ring alone keep the chain if they put every head on it.
LEMMA ChainStays ==
  ASSUME NEW G, ChainOfHeads(G), buffer' = buffer, w_off' = w_off,
         \A h \in Heads' : logger_offset(w_off - h) \in G
  PROVE  Chained'
BY DEF ChainOfHeads, Chained

LEMMA FlushKeeps ==
  ASSUME LInv, logger_ioctl_flush
  PROVE  LInv'
<1>0. /\ TypeOK /\ OrigOK /\ ReadersOK /\ NoLostWakeup /\ w_off \in Offset /\ readers \subseteq Readers
      /\ r_off \in [Readers -> Offset] /\ buffer' = buffer /\ w_off' = w_off /\ readers' = readers
      /\ wpc' = wpc /\ orig' = orig /\ rpc' = rpc /\ waiting' = waiting /\ waiting \subseteq readers
      /\ head' = w_off /\ r_off' = [r \in Readers |-> IF r \in readers THEN w_off ELSE r_off[r]]
  BY DEF LInv, TypeOK, logger_ioctl_flush
<1>1. PICK G : ChainOfHeads(G)
  BY DEF LInv, Chained
<1>2. TypeOK'
  <2>1. r_off' \in [Readers -> Offset]
    BY <1>0
  <2> QED
    BY <1>0, <2>1 DEF TypeOK
<1>3. Chained'
  <2>1. ASSUME NEW h \in Heads' PROVE h = w_off
    BY <1>0 DEF Heads
  <2>2. w_off - w_off = 0 /\ 0 < size
    BY <1>0, Sizes DEF Offset
  <2>3. logger_offset(0) = 0 /\ 0 \in G
    BY <1>1, <2>2, OffsetIs DEF ChainOfHeads, Chain
  <2>4. \A h \in Heads' : logger_offset(w_off - h) \in G
    BY <2>1, <2>2, <2>3
  <2> QED
    BY <1>0, <1>1, <2>4, ChainStays
<1>4. OrigOK' /\ ReadersOK'
  BY <1>0 DEF OrigOK, ReadersOK
<1>5. NoLostWakeup'
  BY <1>0 DEF NoLostWakeup
<1> QED
  BY <1>2, <1>3, <1>4, <1>5 DEF LInv

LEMMA OpenKeeps ==
  ASSUME LInv, NEW r \in Readers, logger_open(r)
  PROVE  LInv'
<1>0. /\ TypeOK /\ OrigOK /\ ReadersOK /\ NoLostWakeup /\ head \in Offset /\ readers \subseteq Readers
      /\ r_off \in [Readers -> Offset] /\ buffer' = buffer /\ w_off' = w_off /\ readers' = readers \cup {r}
      /\ wpc' = wpc /\ orig' = orig /\ rpc' = rpc /\ waiting' = waiting /\ waiting \subseteq readers
      /\ head' = head /\ r_off' = [r_off EXCEPT ![r] = head] /\ r \notin readers
  BY DEF LInv, TypeOK, logger_open
<1>1. PICK G : ChainOfHeads(G)
  BY DEF LInv, Chained
<1>2. TypeOK'
  BY <1>0 DEF TypeOK
<1>3. Chained'
  <2>1. ASSUME NEW h \in Heads' PROVE h \in Heads
    <3>1. h = head \/ \E x \in readers' : h = r_off'[x]
      BY <1>0 DEF Heads
    <3>2. ASSUME NEW x \in readers' PROVE r_off'[x] = head \/ (x \in readers /\ r_off'[x] = r_off[x])
      BY <1>0
    <3> QED
      BY <1>0, <3>1, <3>2, HeadIs
  <2> QED
    BY <1>0, <1>1, <2>1, ChainStays DEF ChainOfHeads
<1>4. OrigOK' /\ ReadersOK'
  BY <1>0 DEF OrigOK, ReadersOK
<1>5. NoLostWakeup'
  BY <1>0 DEF NoLostWakeup
<1> QED
  BY <1>2, <1>3, <1>4, <1>5 DEF LInv

LEMMA ReleaseKeeps ==
  ASSUME LInv, NEW r \in Readers, logger_release(r)
  PROVE  LInv'
<1>0. /\ TypeOK /\ OrigOK /\ ReadersOK /\ NoLostWakeup /\ readers \subseteq Readers
      /\ r_off \in [Readers -> Offset] /\ buffer' = buffer /\ w_off' = w_off /\ readers' = readers \ {r}
      /\ wpc' = wpc /\ orig' = orig /\ rpc' = rpc /\ waiting' = waiting /\ waiting \subseteq readers
      /\ head' = head /\ r_off' = [r_off EXCEPT ![r] = 0] /\ rpc[r] = "idle" /\ 0 \in Offset
  BY Sizes DEF LInv, TypeOK, logger_release, Offset
<1>1. PICK G : ChainOfHeads(G)
  BY DEF LInv, Chained
<1>2. r \notin waiting
  BY <1>0 DEF ReadersOK
<1>3. TypeOK'
  BY <1>0, <1>2 DEF TypeOK
<1>4. Chained'
  <2>1. ASSUME NEW h \in Heads' PROVE h \in Heads
    <3>1. h = head \/ \E x \in readers' : h = r_off'[x]
      BY <1>0 DEF Heads
    <3>2. ASSUME NEW x \in readers' PROVE x \in readers /\ r_off'[x] = r_off[x]
      BY <1>0
    <3> QED
      BY <1>0, <3>1, <3>2, HeadIs
  <2> QED
    BY <1>0, <1>1, <2>1, ChainStays DEF ChainOfHeads
<1>5. OrigOK' /\ ReadersOK'
  BY <1>0 DEF OrigOK, ReadersOK
<1>6. NoLostWakeup'
  BY <1>0, <1>2 DEF NoLostWakeup
<1> QED
  BY <1>3, <1>4, <1>5, <1>6 DEF LInv

LEMMA ReadLockedKeeps ==
  ASSUME LInv, NEW r \in Readers, ReadLocked(r)
  PROVE  LInv'
<1>0. /\ TypeOK /\ OrigOK /\ ReadersOK /\ NoLostWakeup /\ readers \subseteq Readers
      /\ r_off \in [Readers -> Offset] /\ buffer' = buffer /\ w_off' = w_off /\ readers' = readers
      /\ wpc' = wpc /\ orig' = orig /\ waiting' = waiting /\ waiting \subseteq readers
      /\ head' = head /\ rpc[r] = "read"
      /\ rpc \in [Readers -> {"idle", "prepare", "check", "schedule", "read"}]
      /\ rpc' = [rpc EXCEPT ![r] = "prepare"] \/ rpc' = [rpc EXCEPT ![r] = "idle"]
  BY DEF LInv, TypeOK, ReadLocked, Goto
<1>1. PICK G : ChainOfHeads(G)
  BY DEF LInv, Chained
<1>2. r \in readers /\ r \notin waiting
  BY <1>0 DEF ReadersOK
<1> DEFINE o == logger_offset(r_off[r] + get_entry_len(buffer, r_off[r]))
<1>3. \/ r_off' = r_off
      \/ r_off' = [r_off EXCEPT ![r] = o] /\ o \in Offset /\ logger_offset(w_off - o) \in G
  <2>1. r_off' = r_off \/ (w_off # r_off[r] /\ r_off' = [r_off EXCEPT ![r] = o])
    BY <1>0 DEF ReadLocked
  <2>2. w_off # r_off[r] => o \in Offset /\ logger_offset(w_off - o) \in G
    BY <1>0, <1>1, <1>2, ReadMoves
  <2> QED
    BY <2>1, <2>2
<1> HIDE DEF o
<1>4. TypeOK'
  <2>1. r_off' \in [Readers -> Offset]
    BY <1>0, <1>3
  <2>2. rpc' \in [Readers -> {"idle", "prepare", "check", "schedule", "read"}]
    BY <1>0
  <2> QED
    BY <1>0, <2>1, <2>2 DEF TypeOK
<1>5. Chained'
  <2>1. ASSUME NEW h \in Heads' PROVE logger_offset(w_off - h) \in G
    <3>1. h = head \/ \E x \in readers : h = r_off'[x]
      BY <1>0 DEF Heads
    <3>2. ASSUME NEW x \in readers
          PROVE  r_off'[x] = r_off[x] \/ (r_off'[x] = o /\ logger_offset(w_off - o) \in G)
      BY <1>0, <1>3
    <3> QED
      BY <1>0, <1>1, <3>1, <3>2, HeadIs DEF ChainOfHeads
  <2> QED
    BY <1>0, <1>1, <2>1, ChainStays
<1>6. OrigOK'
  BY <1>0 DEF OrigOK
<1>7. ReadersOK'
  <2>1. ASSUME NEW x \in Readers
        PROVE  /\ x \in waiting => rpc'[x] \in {"check", "schedule"}
               /\ rpc'[x] # "idle" => x \in readers
    <3>1. CASE x = r
      BY <1>2, <3>1
    <3>2. CASE x # r
      <4>1. rpc'[x] = rpc[x]
        BY <1>0, <3>2
      <4> QED
        BY <1>0, <4>1 DEF ReadersOK
    <3> QED
      BY <3>1, <3>2
  <2> QED
    BY <1>0, <2>1 DEF ReadersOK
<1>8. NoLostWakeup'
  <2>1. SUFFICES ASSUME NEW x \in waiting, rpc'[x] = "schedule", r_off'[x] # w_off
                 PROVE  \E w \in Writers : wpc[w] = "wake"
    BY <1>0 DEF NoLostWakeup
  <2>2. x # r /\ x \in Readers
    BY <1>0, <1>2, <2>1
  <2>3. rpc[x] = "schedule" /\ r_off[x] # w_off
    BY <1>0, <1>3, <2>1, <2>2
  <2> QED
    BY <1>0, <2>1, <2>3 DEF NoLostWakeup
<1> QED
  BY <1>4, <1>5, <1>6, <1>7, <1>8 DEF LInv

\* The steps that leave the log alone.
LEMMA OtherStepsKeep ==
  ASSUME LInv, UNCHANGED ring,
         \/ \E w \in Writers : WriteStart(w) \/ WakeUp(w)
         \/ \E r \in Readers : ReadStart(r) \/ ReadSignal(r) \/ ReadPrepare(r) \/ ReadCheck(r) \/ ReadWoken(r)
  PROVE  LInv'
<1>0. /\ TypeOK /\ OrigOK /\ ReadersOK /\ NoLostWakeup /\ Chained
      /\ buffer' = buffer /\ w_off' = w_off /\ head' = head /\ r_off' = r_off /\ readers' = readers
      /\ wpc \in [Writers -> {"idle", "write", "wake"}] /\ orig \in [Writers -> Offset]
      /\ rpc \in [Readers -> {"idle", "prepare", "check", "schedule", "read"}]
      /\ waiting \subseteq readers /\ readers \subseteq Readers /\ w_off \in Offset
  BY DEF LInv, TypeOK, ring
<1>1. Chained'
  BY <1>0 DEF Chained, ChainOfHeads, Heads
<1>2. ASSUME NEW w \in Writers, WriteStart(w) PROVE LInv'
  <2>1. /\ wpc' = [wpc EXCEPT ![w] = "write"] /\ orig' = [orig EXCEPT ![w] = w_off]
        /\ rpc' = rpc /\ waiting' = waiting /\ wpc[w] = "idle"
    BY <1>2 DEF WriteStart
  <2>2. TypeOK'
    BY <1>0, <2>1 DEF TypeOK
  <2>3. OrigOK' /\ ReadersOK'
    BY <1>0, <2>1 DEF OrigOK, ReadersOK
  <2>4. NoLostWakeup'
    BY <1>0, <2>1 DEF NoLostWakeup
  <2> QED
    BY <1>1, <2>2, <2>3, <2>4 DEF LInv
<1>3. ASSUME NEW w \in Writers, WakeUp(w) PROVE LInv'
  <2>1. wpc' = [wpc EXCEPT ![w] = "idle"] /\ orig' = orig /\ rpc' = rpc /\ waiting' = {}
    BY <1>3 DEF WakeUp
  <2>2. TypeOK'
    BY <1>0, <2>1 DEF TypeOK
  <2>3. OrigOK' /\ ReadersOK'
    BY <1>0, <2>1 DEF OrigOK, ReadersOK
  <2>4. NoLostWakeup'
    BY <2>1 DEF NoLostWakeup
  <2> QED
    BY <1>1, <2>2, <2>3, <2>4 DEF LInv
<1>4. ASSUME NEW r \in Readers, ReadStart(r) \/ ReadSignal(r) \/ ReadPrepare(r) \/ ReadCheck(r) \/ ReadWoken(r)
      PROVE  LInv'
  <2>1. wpc' = wpc /\ orig' = orig
    BY <1>4 DEF ReadStart, ReadSignal, ReadPrepare, ReadCheck, ReadWoken
  <2>2. PICK to \in {"idle", "prepare", "check", "schedule", "read"} :
          /\ rpc' = [rpc EXCEPT ![r] = to]
          /\ rpc[r] # "idle" \/ r \in readers
          /\ \/ waiting' = waiting \cup {r} /\ to = "check" /\ rpc[r] = "prepare"
             \/ waiting' = waiting \ {r}
             \/ waiting' = waiting /\ to = "schedule" /\ w_off = r_off[r]
             \/ waiting' = waiting /\ rpc[r] = "idle"
             \/ waiting' = waiting /\ r \notin waiting /\ to = "prepare"
    BY <1>4 DEF ReadStart, ReadSignal, ReadPrepare, ReadCheck, ReadWoken, Goto
  <2>3. r \in readers /\ (rpc[r] = "idle" => r \notin waiting)
    BY <1>0, <2>2 DEF ReadersOK
  <2>4. /\ rpc' \in [Readers -> {"idle", "prepare", "check", "schedule", "read"}]
        /\ waiting' \subseteq readers
    BY <1>0, <2>2, <2>3
  <2>5. TypeOK'
    BY <1>0, <2>1, <2>4 DEF TypeOK
  <2>6. OrigOK'
    BY <1>0, <2>1 DEF OrigOK
  <2>7. ASSUME NEW x \in Readers, x # r
        PROVE  rpc'[x] = rpc[x] /\ (x \in waiting' => x \in waiting)
    BY <1>0, <2>2, <2>7
  <2>8. /\ r \in waiting' => rpc'[r] \in {"check", "schedule"}
        /\ r \in waiting' /\ rpc'[r] = "schedule" => r_off[r] = w_off
    <3>1. rpc'[r] = to
      BY <1>0, <2>2
    <3> QED
      BY <2>2, <2>3, <3>1
  <2>9. ReadersOK'
    <3>1. ASSUME NEW x \in Readers
          PROVE  /\ x \in waiting' => rpc'[x] \in {"check", "schedule"}
                 /\ rpc'[x] # "idle" => x \in readers
      BY <1>0, <2>3, <2>7, <2>8 DEF ReadersOK
    <3> QED
      BY <1>0, <3>1 DEF ReadersOK
  <2>10. NoLostWakeup'
    <3>1. SUFFICES ASSUME NEW x \in waiting', rpc'[x] = "schedule", r_off[x] # w_off
                   PROVE  \E w \in Writers : wpc[w] = "wake"
      BY <1>0, <2>1 DEF NoLostWakeup
    <3>2. x # r /\ x \in Readers
      BY <1>0, <2>4, <2>8, <3>1
    <3> QED
      BY <1>0, <2>7, <3>1, <3>2 DEF NoLostWakeup
  <2> QED
    BY <1>1, <2>5, <2>6, <2>9, <2>10 DEF LInv
<1> QED
  BY <1>2, <1>3, <1>4

LEMMA LInvInit == Init => LInv
<1>1. SUFFICES ASSUME Init PROVE LInv
  OBVIOUS
<1>2. 0 \in Offset /\ 0 \in Byte /\ 0 \in Distance /\ 0 < size /\ 0 - 0 = 0
  BY Sizes DEF Offset, Byte, Distance
<1>3. TypeOK
  BY <1>1, <1>2 DEF Init, TypeOK
<1>4. Chained
  <2>1. Heads = {0} /\ w_off = 0
    BY <1>1 DEF Init, Heads
  <2>2. logger_offset(0) = 0
    BY <1>2, OffsetIs
  <2>3. Chain({0}, buffer, w_off)
    BY <1>2 DEF Chain
  <2>4. ChainOfHeads({0})
    BY <1>2, <2>1, <2>2, <2>3 DEF ChainOfHeads
  <2> QED
    BY <2>4 DEF Chained
<1>5. OrigOK /\ ReadersOK /\ NoLostWakeup
  BY <1>1 DEF Init, OrigOK, ReadersOK, NoLostWakeup
<1> QED
  BY <1>3, <1>4, <1>5 DEF LInv

LEMMA LInvStep == ASSUME LInv, FaultsAlone, [Next]_vars PROVE LInv'
<1>1. CASE UNCHANGED vars
  <2>1. Chained'
    BY <1>1 DEF vars, LInv, Chained, ChainOfHeads, Heads
  <2>2. TypeOK' /\ OrigOK' /\ ReadersOK' /\ NoLostWakeup'
    BY <1>1 DEF vars, LInv, TypeOK, OrigOK, ReadersOK, NoLostWakeup
  <2> QED
    BY <2>1, <2>2 DEF LInv
<1>2. ASSUME NEW w \in Writers, Write(w) \/ WakeUp(w) PROVE LInv'
  <2>1. CASE WriteStart(w) \/ WakeUp(w)
    <3>1. UNCHANGED ring
      BY <2>1 DEF WriteStart, WakeUp
    <3> QED
      BY <2>1, <3>1, OtherStepsKeep
  <2>2. CASE \E p \in Payloads : logger_aio_write(w, p)
    BY <2>2, WriteKeeps
  <2>3. CASE \E p \in Payloads : \E k \in 0 .. Len(p) - 1 : \E z \in 0 .. Len(p) - k : WriteFault(w, p, k, z)
    BY <2>3, FaultKeeps
  <2> QED
    BY <1>2, <2>1, <2>2, <2>3 DEF Write
<1>3. ASSUME NEW r \in Readers,
             logger_open(r) \/ logger_release(r) \/ ReadStart(r) \/ ReadSignal(r) \/ logger_read(r)
      PROVE  LInv'
  <2>1. CASE ReadStart(r) \/ ReadSignal(r) \/ ReadPrepare(r) \/ ReadCheck(r) \/ ReadWoken(r)
    <3>1. UNCHANGED ring
      BY <2>1 DEF ReadStart, ReadSignal, ReadPrepare, ReadCheck, ReadWoken
    <3> QED
      BY <2>1, <3>1, OtherStepsKeep
  <2>2. CASE ReadLocked(r)
    BY <2>2, ReadLockedKeeps
  <2>3. CASE logger_open(r) \/ logger_release(r)
    BY <2>3, OpenKeeps, ReleaseKeeps
  <2> QED
    BY <1>3, <2>1, <2>2, <2>3 DEF logger_read
<1> QED
  BY <1>1, <1>2, <1>3, FlushKeeps DEF Next

\* The offsets, the entries and the lengths in an invariant state.
LEMMA LInvConsistent == LInv => LogConsistent
<1>1. SUFFICES ASSUME LInv PROVE LogConsistent
  OBVIOUS
<1>2. TypeOK /\ NoLostWakeup /\ buffer \in [Offset -> Byte] /\ w_off \in Offset
  BY <1>1 DEF LInv, TypeOK
<1>3. PICK G : ChainOfHeads(G)
  BY <1>1 DEF LInv, Chained
<1>4. ASSUME NEW h \in Heads
      PROVE  /\ Good(EntriesFrom(h)) /\ Abstract!Bytes(EntriesFrom(h)) = logger_offset(w_off - h)
             /\ logger_offset(w_off - h) = (IF h <= w_off THEN w_off - h ELSE w_off - h + size)
             /\ h \in Offset
  <2> DEFINE D == logger_offset(w_off - h)
  <2>1. D \in G /\ Chain(G, buffer, w_off) /\ h \in Offset
    BY <1>2, <1>3, HeadIs DEF ChainOfHeads
  <2>2. D = (IF h <= w_off THEN w_off - h ELSE w_off - h + size)
    BY <1>2, <2>1, PosInverse
  <2> HIDE DEF D
  <2>3. Good(Entries(buffer, w_off)[D]) /\ Abstract!Bytes(Entries(buffer, w_off)[D]) = D
    BY <1>2, <2>1, ChainEntries
  <2>4. EntriesFrom(h) = Entries(buffer, w_off)[D]
    BY DEF EntriesFrom, D
  <2>5. Good(EntriesFrom(h)) /\ Abstract!Bytes(EntriesFrom(h)) = D
    BY <2>3, <2>4
  <2> QED
    BY <2>1, <2>2, <2>5 DEF D
<1>5. HeadsAtEntries
  <2>1. SUFFICES ASSUME NEW h \in Heads, NEW i \in DOMAIN EntriesFrom(h) PROVE EntriesFrom(h)[i] # BadEntry
    BY DEF HeadsAtEntries
  <2>2. EntriesFrom(h) \in Seq(Seq(Byte)) /\ \A j \in 1 .. Len(EntriesFrom(h)) : EntriesFrom(h)[j] # BadEntry
    BY <1>4 DEF Good, Log
  <2>3. DOMAIN EntriesFrom(h) = 1 .. Len(EntriesFrom(h))
    BY <2>2
  <2> QED
    BY <2>2, <2>3
<1>6. LogLenExact
  <2>1. SUFFICES ASSUME NEW r \in readers
                 PROVE  logger_ioctl_len(r) = Abstract!Bytes(EntriesFrom(r_off[r]))
    BY DEF LogLenExact
  <2> DEFINE h == r_off[r]
  <2>2. h \in Heads
    BY <1>2, HeadIs
  <2>3. logger_ioctl_len(r) = IF w_off >= h THEN w_off - h ELSE (size - h) + w_off
    BY DEF logger_ioctl_len
  <2> HIDE DEF h
  <2>4. /\ Abstract!Bytes(EntriesFrom(h)) = (IF h <= w_off THEN w_off - h ELSE w_off - h + size)
        /\ h \in Offset
    BY <1>4, <2>2
  <2>5. size \in Int /\ w_off \in Int /\ h \in Int
    BY <1>2, <2>4, Sizes DEF Offset
  <2>6. logger_ioctl_len(r) = Abstract!Bytes(EntriesFrom(h))
    BY <2>3, <2>4, <2>5
  <2> QED
    BY <2>6 DEF h
<1> QED
  BY <1>2, <1>5, <1>6 DEF LogConsistent

\* Whatever the sizes, the payloads and the order of the steps, the read heads
\* stand at whole entries, LOGGER_GET_LOG_LEN is exact and no wakeup is lost,
\* provided that a writer whose copy may fail has the log to itself.
THEOREM LogIsConsistent ==
  ASSUME FaultsAlone
  PROVE  Spec => []LogConsistent
<1>1. LInv /\ [Next]_vars => LInv'
  BY LInvStep
<1> QED
  BY <1>1, LInvInit, LInvConsistent, PTL DEF Spec

-----------------------------------------------------------------------------
(* Every step of the log is one of LogQueue.                               *)

Pending == [r \in readers |-> EntriesFrom(r_off[r])]

LEMMA QueuesNext ==
  /\ Abstract!OpenReaders = readers
  /\ Abstract!OpenReaders' = readers'
BY DEF Abstract!OpenReaders

LEMMA WriteRefines ==
  ASSUME TypeOK, NEW H, NEW p \in Payloads, NEW added, added \in {<<p>>, <<>>},
         readers' = readers, HeadMoved(H, head, head', p, added),
         \A r \in readers : HeadMoved(H, r_off[r], r_off'[r], p, added)
  PROVE  Abstract!Next
<1> DEFINE len == HeaderLen + Len(p)
<1>1. \E q \in Abstract!Kept(EntriesFrom(head), len) : EntriesFrom(head)' = q \o added
  BY DEF HeadMoved, EntriesFrom
<1>2. ASSUME NEW r \in readers
      PROVE  \E q \in Abstract!Kept(Pending[r], len) : Pending'[r] = q \o added
  <2>1. Pending[r] = EntriesFrom(r_off[r]) /\ Pending'[r] = EntriesFrom(r_off[r])'
    BY DEF Pending
  <2>2. \E q \in Abstract!Kept(EntriesFrom(r_off[r]), len) : EntriesFrom(r_off[r])' = q \o added
    BY DEF HeadMoved, EntriesFrom
  <2> QED
    BY <2>1, <2>2
<1>3. Abstract!Write(p, added)
  BY <1>1, <1>2, QueuesNext DEF Abstract!Write, Pending
<1> QED
  BY <1>3 DEF Abstract!Next

LEMMA StepRefines ==
  ASSUME LInv, FaultsAlone, [Next]_vars
  PROVE  Abstract!Next \/ UNCHANGED Abstract!vars
<1>0. /\ TypeOK /\ OrigOK /\ ReadersOK /\ buffer \in [Offset -> Byte] /\ w_off \in Offset
      /\ r_off \in [Readers -> Offset] /\ readers \subseteq Readers
  BY DEF LInv, TypeOK
<1>1. PICK G : ChainOfHeads(G)
  BY DEF LInv, Chained
<1>2. CASE UNCHANGED ring
  BY <1>2 DEF ring, Abstract!vars, EntriesFrom
<1>3. ASSUME NEW w \in Writers, NEW p \in Payloads, logger_aio_write(w, p) PROVE Abstract!Next
  <2>1. fix_up_readers(HeaderLen + Len(p)) /\ readers' = readers
    BY <1>3 DEF logger_aio_write
  <2>2. WriteOf(p, buffer, w_off, buffer', w_off')
    <3>1. w_off \in Int /\ HeaderLen \in Int /\ Len(p) \in Int
      BY <1>0, Sizes, EntryBytes DEF Offset
    <3>2. w_off + HeaderLen + Len(p) = w_off + (HeaderLen + Len(p))
      BY <3>1
    <3> QED
      BY <1>3, <3>2 DEF logger_aio_write, WriteOf
  <2>3. PICK H : /\ Chain(H, buffer', w_off')
                 /\ \A h \in Offset : logger_offset(w_off - h) \in G =>
                      HeadMoved(H, h, FixedUp(h, HeaderLen + Len(p)), p, <<p>>)
    BY <1>0, <1>1, <2>2, WriteMoves DEF ChainOfHeads
  <2>4. /\ HeadMoved(H, head, head', p, <<p>>)
        /\ \A r \in readers : HeadMoved(H, r_off[r], r_off'[r], p, <<p>>)
    BY <1>0, <1>1, <2>1, <2>3, AllHeadsMoved
  <2> QED
    BY <1>0, <2>1, <2>4, WriteRefines
<1>4. ASSUME NEW w \in Writers, NEW p \in Payloads,
             NEW k \in 0 .. Len(p) - 1, NEW z \in 0 .. Len(p) - k, WriteFault(w, p, k, z)
      PROVE  Abstract!Next
  <2>1. fix_up_readers(HeaderLen + Len(p)) /\ readers' = readers
    BY <1>4 DEF WriteFault
  <2>2. FaultOf(p, k, z, buffer, w_off, buffer') /\ w_off' = w_off
    BY <1>0, <1>4 DEF WriteFault, FaultOf, OrigOK
  <2>3. PICK H : /\ Chain(H, buffer', w_off')
                 /\ \A h \in Offset : logger_offset(w_off - h) \in G =>
                      HeadMoved(H, h, FixedUp(h, HeaderLen + Len(p)), p, <<>>)
    BY <1>0, <1>1, <2>2, FaultMoves DEF ChainOfHeads
  <2>4. /\ HeadMoved(H, head, head', p, <<>>)
        /\ \A r \in readers : HeadMoved(H, r_off[r], r_off'[r], p, <<>>)
    BY <1>0, <1>1, <2>1, <2>3, AllHeadsMoved
  <2> QED
    BY <1>0, <2>1, <2>4, WriteRefines
<1>5. ASSUME logger_ioctl_flush PROVE Abstract!Next
  <2>1. /\ buffer' = buffer /\ w_off' = w_off /\ readers' = readers /\ head' = w_off
        /\ r_off' = [r \in Readers |-> IF r \in readers THEN w_off ELSE r_off[r]]
    BY <1>5 DEF logger_ioctl_flush
  <2>2. EntriesFrom(w_off) = <<>>
    <3>1. w_off - w_off = 0 /\ 0 \in Distance /\ 0 < size
      BY <1>0, Sizes DEF Offset, Distance
    <3>2. logger_offset(0) = 0
      BY <3>1, OffsetIs
    <3>3. Entries(buffer, w_off)[0] = <<>>
      BY <1>0, <3>1, EntriesAt DEF OneEntry
    <3> QED
      BY <3>1, <3>2, <3>3 DEF EntriesFrom
  <2>3. EntriesFrom(head)' = <<>>
    BY <2>1, <2>2 DEF EntriesFrom
  <2>4. Pending' = [r \in readers |-> <<>>]
    <3>1. ASSUME NEW r \in readers PROVE EntriesFrom(r_off[r])' = <<>>
      BY <1>0, <2>1, <2>2 DEF EntriesFrom
    <3> QED
      BY <2>1, <3>1 DEF Pending
  <2> QED
    BY <2>3, <2>4, QueuesNext DEF Abstract!Next, Abstract!Flush, Pending
<1>6. ASSUME NEW r \in Readers, logger_open(r) PROVE Abstract!Next
  <2>1. /\ buffer' = buffer /\ w_off' = w_off /\ readers' = readers \cup {r} /\ head' = head
        /\ r_off' = [r_off EXCEPT ![r] = head] /\ r \notin readers
    BY <1>6 DEF logger_open
  <2>2. EntriesFrom(head)' = EntriesFrom(head)
    BY <2>1 DEF EntriesFrom
  <2>3. Pending' = [x \in readers \cup {r} |-> IF x = r THEN EntriesFrom(head) ELSE Pending[x]]
    <3>1. ASSUME NEW x \in readers \cup {r}
          PROVE  EntriesFrom(r_off[x])' = IF x = r THEN EntriesFrom(head) ELSE Pending[x]
      BY <1>0, <2>1 DEF EntriesFrom, Pending
    <3> QED
      BY <2>1, <3>1 DEF Pending
  <2>4. Abstract!Open(r)
    BY <2>1, <2>2, <2>3, QueuesNext DEF Abstract!Open, Pending
  <2> QED
    BY <2>4 DEF Abstract!Next
<1>7. ASSUME NEW r \in Readers, logger_release(r) PROVE Abstract!Next
  <2>1. /\ buffer' = buffer /\ w_off' = w_off /\ readers' = readers \ {r} /\ head' = head
        /\ r_off' = [r_off EXCEPT ![r] = 0] /\ r \in readers
    BY <1>7 DEF logger_release
  <2>2. EntriesFrom(head)' = EntriesFrom(head)
    BY <2>1 DEF EntriesFrom
  <2>3. Pending' = [x \in readers \ {r} |-> Pending[x]]
    <3>1. ASSUME NEW x \in readers \ {r} PROVE EntriesFrom(r_off[x])' = Pending[x]
      BY <1>0, <2>1 DEF EntriesFrom, Pending
    <3> QED
      BY <2>1, <3>1 DEF Pending
  <2>4. Abstract!Release(r)
    BY <2>1, <2>2, <2>3, QueuesNext DEF Abstract!Release, Pending
  <2> QED
    BY <2>4 DEF Abstract!Next
<1>8. ASSUME NEW r \in Readers, ReadLocked(r) PROVE Abstract!Next \/ UNCHANGED Abstract!vars
  <2> DEFINE o == logger_offset(r_off[r] + get_entry_len(buffer, r_off[r]))
  <2>1. buffer' = buffer /\ w_off' = w_off /\ readers' = readers /\ head' = head /\ r \in readers
    BY <1>0, <1>8 DEF ReadLocked, Goto, ReadersOK
  <2>2. r_off' = r_off \/ (w_off # r_off[r] /\ r_off' = [r_off EXCEPT ![r] = o])
    BY <1>8 DEF ReadLocked
  <2>3. CASE r_off' = r_off
    BY <1>2, <2>1, <2>3 DEF ring
  <2>4. CASE w_off # r_off[r] /\ r_off' = [r_off EXCEPT ![r] = o]
    <3>1. EntriesFrom(r_off[r]) # <<>> /\ EntriesFrom(o) = Tail(EntriesFrom(r_off[r]))
      BY <1>0, <1>1, <2>1, <2>4, ReadMoves
    <3> HIDE DEF o
    <3>2. EntriesFrom(head)' = EntriesFrom(head)
      BY <2>1 DEF EntriesFrom
    <3>3. Pending[r] = EntriesFrom(r_off[r])
      BY <2>1 DEF Pending
    <3>4. Pending' = [Pending EXCEPT ![r] = Tail(Pending[r])]
      <4>1. ASSUME NEW x \in readers
            PROVE  EntriesFrom(r_off[x])' = IF x = r THEN Tail(Pending[r]) ELSE EntriesFrom(r_off[x])
        BY <1>0, <2>1, <2>4, <3>1, <3>3 DEF EntriesFrom
      <4> QED
        BY <2>1, <4>1 DEF Pending
    <3>5. Abstract!Read(r)
      BY <2>1, <3>1, <3>2, <3>3, <3>4, QueuesNext DEF Abstract!Read, Pending
    <3> QED
      BY <3>5 DEF Abstract!Next
  <2> QED
    BY <2>2, <2>3, <2>4
<1>9. ASSUME \/ UNCHANGED vars
             \/ \E w \in Writers : WriteStart(w) \/ WakeUp(w)
             \/ \E r \in Readers : ReadStart(r) \/ ReadSignal(r) \/ ReadPrepare(r) \/ ReadCheck(r) \/ ReadWoken(r)
      PROVE  UNCHANGED ring
  BY <1>9 DEF vars, ring, WriteStart, WakeUp, ReadStart, ReadSignal, ReadPrepare, ReadCheck, ReadWoken
<1> QED
  BY <1>2, <1>3, <1>4, <1>5, <1>6, <1>7, <1>8, <1>9 DEF Next, Write, logger_read

LEMMA InitRefines == Init => Abstract!Init
<1>1. SUFFICES ASSUME Init PROVE Abstract!Init
  OBVIOUS
<1>2. LInv /\ buffer \in [Offset -> Byte] /\ w_off \in Offset
  BY <1>1, LInvInit DEF LInv, TypeOK
<1>3. EntriesFrom(head) = <<>>
  <2>1. 0 - 0 = 0 /\ 0 \in Distance /\ 0 < size
    BY Sizes DEF Distance
  <2>2. logger_offset(0) = 0
    BY <2>1, OffsetIs
  <2>3. Entries(buffer, w_off)[0] = <<>>
    BY <1>2, <2>1, EntriesAt DEF OneEntry
  <2> QED
    BY <1>1, <2>1, <2>2, <2>3 DEF EntriesFrom, Init
<1>4. Pending = <<>>
  BY <1>1 DEF Init, Pending
<1> QED
  BY <1>3, <1>4 DEF Abstract!Init, Pending

\* The ring implements the queues: readers get whole entries in the order of
\* the writes, and lose some only to a write that does not fit, exactly the
\* fewest oldest ones that have at least its bytes.
THEOREM LogIsQueue ==
  ASSUME FaultsAlone
  PROVE  Spec => ImplementsLogQueue
<1>1. LInv /\ [Next]_vars => LInv'
  BY LInvStep
<1>2. LInv /\ [Next]_vars => [Abstract!Next]_Abstract!vars
  BY StepRefines
<1> QED
  BY <1>1, <1>2, LInvInit, InitRefines, PTL DEF Spec, ImplementsLogQueue, Abstract!Spec
=============================================================================
