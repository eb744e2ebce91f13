------------------------------- MODULE Ashmem -------------------------------
(***************************************************************************)
(* The unpinned ranges of Android shared memory, mm/ashmem.c: an ordered   *)
(* list of ranges in each area, a list of all ranges that can be purged in *)
(* the order of their unpinning, and the shrinker that takes pages away.   *)
(*                                                                         *)
(* Every operation runs under ashmem_mutex and is one step.  A range is a  *)
(* record; two ranges are never equal (RangesSorted), so that a record     *)
(* stands for the pointer to it in both lists.  That leaves out a second   *)
(* empty range at the end of an area, which a caller gets who unpins       *)
(* "everything onward" from there.                                         *)
(***************************************************************************)
EXTENDS Integers, Sequences, SequencesExt, FiniteSetsExt

CONSTANTS
  Areas,            \* open files of /dev/ashmem
  size,             \* pages of an area
  Offsets,          \* pages at which callers begin to pin and unpin
  NrToScan,         \* what the memory manager asks the shrinker for
  AllocMayFail      \* can kmem_cache_zalloc return NULL in range_alloc?

ULONG == 2^30                           \* one above the largest unsigned long
U32Pages == 2^20                        \* one above the largest page number

ASSUME SizeAssumption ==
  /\ size \in 1 .. U32Pages - 1 /\ Offsets \subseteq 0 .. U32Pages - 1
  /\ AllocMayFail \in BOOLEAN
  /\ NrToScan \subseteq 1 .. ULONG - 1

VARIABLES
  state,            \* area |-> "closed", "open" or "mapped" (asma->file is set)
  unpinned_list,    \* area |-> its ranges, highest page first
  lru_list,         \* the ranges that have not been purged
  lru_count,        \* pages on lru_list
  purge_all,        \* the count between the two halves of PURGE_ALL_CACHES
  lost,             \* area |-> pages truncated since they were unpinned
  ret               \* did the last call return ASHMEM_WAS_PURGED?

lists == <<unpinned_list, lru_list, lru_count>>
ashmem_vars == <<state, unpinned_list, lru_list, lru_count, purge_all, lost, ret>>

Range_ == [asma : Areas, pgstart : 0 .. size, pgend : 0 .. size - 1, purged : BOOLEAN]

AshmemTypeOK ==
  /\ state \in [Areas -> {"closed", "open", "mapped"}]
  /\ unpinned_list \in [Areas -> Seq(Range_)]
  /\ lru_list \in Seq(Range_)
  /\ lru_count \in Nat
  /\ purge_all \in Nat
  /\ lost \in [Areas -> SUBSET (0 .. size - 1)]
  /\ ret \in BOOLEAN

-----------------------------------------------------------------------------
(* Ranges.  The lists and the count of a call in progress are a record l,  *)
(* with the list of the area the call is about.                            *)

range_size(r) == r.pgend - r.pgstart + 1
page_range_subsumes_range(r, s, e) == r.pgstart >= s /\ r.pgend <= e
page_range_subsumed_by_range(r, s, e) == r.pgstart <= s /\ r.pgend >= e
page_in_range(r, p) == r.pgstart <= p /\ r.pgend >= p
page_range_in_range(r, s, e) ==
  page_in_range(r, s) \/ page_in_range(r, e) \/ page_range_subsumes_range(r, s, e)

range_before_page(r, p) == r.pgend < p

Lists(a) == [unpinned |-> unpinned_list[a], lru |-> lru_list, count |-> lru_count]

\* Where r stands in a list.
Place(list, r) == CHOOSE i \in 1 .. Len(list) : list[i] = r

\* The new range becomes the i-th of the list, before prev_range.
range_alloc(l, r, i) ==
  [unpinned |-> InsertAt(l.unpinned, i, r),
   lru |-> IF r.purged THEN l.lru ELSE Append(l.lru, r),
   count |-> IF r.purged THEN l.count ELSE l.count + range_size(r)]

range_del(l, r) ==
  [unpinned |-> RemoveAt(l.unpinned, Place(l.unpinned, r)),
   lru |-> IF r.purged THEN l.lru ELSE RemoveAt(l.lru, Place(l.lru, r)),
   count |-> IF r.purged THEN l.count ELSE l.count - range_size(r)]

\* Mutant: the count of pages on the list is not adjusted.
range_shrink_NoCount(l, r, s, e) ==
  LET new == [r EXCEPT !.pgstart = s, !.pgend = e]
  IN  [unpinned |-> ReplaceAll(l.unpinned, r, new),
       lru |-> ReplaceAll(l.lru, r, new),
       count |-> l.count]

range_shrink(l, r, s, e) ==
  LET new == [r EXCEPT !.pgstart = s, !.pgend = e]
  IN  [unpinned |-> ReplaceAll(l.unpinned, r, new),
       lru |-> ReplaceAll(l.lru, r, new),
       count |-> IF r.purged THEN l.count ELSE l.count - (range_size(r) - range_size(new))]

\* The range above the hole, if memory for it is found.
SecondHalf(l, r, e, alloc) ==
  IF alloc THEN range_alloc(l, [r EXCEPT !.pgstart = e + 1], Place(l.unpinned, r)) ELSE l

\* The four cases of ashmem_pin for a range that the pinned pages touch.
PinOne(l, r, s, e, alloc) ==
  CASE page_range_subsumes_range(r, s, e) -> range_del(l, r)
    [] r.pgstart >= s /\ r.pgend > e -> range_shrink(l, r, e + 1, r.pgend)
    [] r.pgstart < s /\ r.pgend <= e -> range_shrink(l, r, r.pgstart, s - 1)
    [] OTHER -> range_shrink(SecondHalf(l, r, e, alloc), r, r.pgstart, s - 1)

\* Where a loop over a list breaks off: at the first range below page s.
ShortCircuit(list, s) ==
  Min({i \in 1 .. Len(list) : range_before_page(list[i], s)} \cup {Len(list) + 1})

PunchesHole(r, s, e) == r.pgstart < s /\ r.pgend > e

\* The ranges that ashmem_pin acts on, by their places: none comes after one
\* that it punches a hole into.
Touched(list, s, e) ==
  {i \in 1 .. ShortCircuit(list, s) - 1 :
     /\ page_range_in_range(list[i], s, e)
     /\ \A j \in 1 .. i - 1 : ~PunchesHole(list[j], s, e)}

-----------------------------------------------------------------------------
(* Operations.                                                             *)

SetLists(a, l) ==
  /\ unpinned_list' = [unpinned_list EXCEPT ![a] = l.unpinned]
  /\ lru_list' = l.lru
  /\ lru_count' = l.count

ashmem_open(a) ==
  /\ state[a] = "closed"
  /\ state' = [state EXCEPT ![a] = "open"]
  /\ ret' = FALSE
  /\ UNCHANGED <<lists, purge_all, lost>>

ashmem_mmap(a) ==
  /\ state[a] = "open"
  /\ state' = [state EXCEPT ![a] = "mapped"]
  /\ ret' = FALSE
  /\ UNCHANGED <<lists, purge_all, lost>>

ListsReleased(a) ==
  LET after[i \in 0 .. Len(unpinned_list[a])] ==
        IF i = 0 THEN Lists(a) ELSE range_del(after[i - 1], unpinned_list[a][i])
  IN  after[Len(unpinned_list[a])]

ashmem_release(a) ==
  /\ state[a] # "closed"
  /\ SetLists(a, ListsReleased(a))
  /\ state' = [state EXCEPT ![a] = "closed"]
  /\ lost' = [lost EXCEPT ![a] = {}]
  /\ ret' = FALSE
  /\ UNCHANGED purge_all

\* pin.len as ashmem_pin_unpin goes on with it, in pages of its 32 bits: a
\* length of zero means everything onward.
PinLen(offset, len) == IF len = 0 THEN (size - offset) % U32Pages ELSE len

\* The checks of ashmem_pin_unpin.
PinUnpinOk(offset, len) ==
  /\ U32Pages - offset > PinLen(offset, len)
  /\ offset + PinLen(offset, len) <= size

\* The first and the last page of the calls that pass the checks.  From
\* offset size on that is the empty interval that ends before it begins.
Intervals ==
  {<<x[1], x[1] + PinLen(x[1], x[2]) - 1>> :
     x \in {y \in Offsets \X (0 .. size + 1) : PinUnpinOk(y[1], y[2])}}

\* The loop of ashmem_pin, after each range of the list that it started with.
ListsPinned(a, s, e, alloc) ==
  LET list == unpinned_list[a]
      touched == Touched(list, s, e)
      after[i \in 0 .. Len(list)] ==
        IF i = 0 THEN Lists(a)
        ELSE IF i \in touched THEN PinOne(after[i - 1], list[i], s, e, alloc)
        ELSE after[i - 1]
  IN  after[Len(list)]

\* Mutant: the last range alone decides on what is returned.
ashmem_pin_LastOnly(a, s, e, alloc) ==
  LET touched == Touched(unpinned_list[a], s, e)
  IN  /\ state[a] = "mapped"
      /\ SetLists(a, ListsPinned(a, s, e, alloc))
      /\ ret' = (touched # {} /\ unpinned_list[a][Max(touched)].purged)
      /\ lost' = [lost EXCEPT ![a] = @ \ (s .. e)]
      /\ UNCHANGED <<state, purge_all>>

ashmem_pin(a, s, e, alloc) ==
  /\ state[a] = "mapped"
  /\ SetLists(a, ListsPinned(a, s, e, alloc))
  /\ ret' = \E i \in Touched(unpinned_list[a], s, e) : unpinned_list[a][i].purged
  /\ lost' = [lost EXCEPT ![a] = @ \ (s .. e)]
  /\ UNCHANGED <<state, purge_all>>

MergedPurged(purged, r) == purged \/ r.purged

\* ashmem_unpin from restart on.  A call x is its lists, its variables and
\* whether it has returned.  The first range that the pages touch ends it, or
\* is merged into the pages, deleted, and the search starts again.
UnpinRound(x, a, alloc) ==
  LET list == x.lists.unpinned
      end == ShortCircuit(list, x.pgstart)
      I == {i \in 1 .. end - 1 : \/ page_range_subsumed_by_range(list[i], x.pgstart, x.pgend)
                                 \/ page_range_in_range(list[i], x.pgstart, x.pgend)}
      r == list[Min(I)]
      range == [asma |-> a, pgstart |-> x.pgstart, pgend |-> x.pgend, purged |-> x.purged]
  IN  IF I = {}
      THEN [x EXCEPT !.lists = IF alloc THEN range_alloc(@, range, end) ELSE @, !.done = TRUE]
      ELSE IF page_range_subsumed_by_range(r, x.pgstart, x.pgend) THEN [x EXCEPT !.done = TRUE]
      ELSE [x EXCEPT !.lists = range_del(@, r), !.purged = MergedPurged(@, r),
                     !.pgstart = Min({r.pgstart, @}), !.pgend = Max({r.pgend, @})]

\* Every round but the last deletes a range.
ListsUnpinned(a, s, e, alloc) ==
  LET rounds == Len(unpinned_list[a]) + 1
      call[n \in 0 .. rounds] ==
        IF n = 0 THEN [lists |-> Lists(a), pgstart |-> s, pgend |-> e,
                       purged |-> FALSE, done |-> FALSE]
        ELSE LET x == call[n - 1] IN IF x.done THEN x ELSE UnpinRound(x, a, alloc)
  IN  call[rounds].lists

ashmem_unpin(a, s, e, alloc) ==
  /\ state[a] = "mapped"
  /\ SetLists(a, ListsUnpinned(a, s, e, alloc))
  /\ ret' = FALSE
  /\ UNCHANGED <<state, purge_all, lost>>

\* What ASHMEM_GET_PIN_STATUS returns: is a page of s .. e unpinned?
ashmem_get_pin_status(a, s, e) ==
  \E i \in 1 .. ShortCircuit(unpinned_list[a], s) - 1 :
    page_range_in_range(unpinned_list[a][i], s, e)

\* How many ranges the loop of ashmem_shrink purges: nr_to_scan is unsigned,
\* so that <= 0 holds only at zero.
Scanned(nr) ==
  LET left[i \in 0 .. Len(lru_list)] ==
        IF i = 0 THEN nr ELSE (left[i - 1] - range_size(lru_list[i])) % ULONG
  IN  Min({i \in 1 .. Len(lru_list) : left[i] = 0} \cup {Len(lru_list)})

PagesOf(r) == r.pgstart .. r.pgend

\* The pages of all ranges of a list.
PagesOn(list) ==
  LET n[i \in 0 .. Len(list)] == IF i = 0 THEN 0 ELSE n[i - 1] + range_size(list[i])
  IN  n[Len(list)]

\* The loop of ashmem_shrink, for nr_to_scan # 0 and a mask with __GFP_FS.
Shrink(nr) ==
  LET taken == ToSet(SubSeq(lru_list, 1, Scanned(nr)))
      Marked(r) == IF r \in taken THEN [r EXCEPT !.purged = TRUE] ELSE r
  IN  /\ unpinned_list' = [a \in Areas |-> [i \in DOMAIN unpinned_list[a] |->
                                             Marked(unpinned_list[a][i])]]
      /\ lru_list' = SubSeq(lru_list, Scanned(nr) + 1, Len(lru_list))
      /\ lru_count' = lru_count - PagesOn(SubSeq(lru_list, 1, Scanned(nr)))
      /\ lost' = [a \in Areas |-> lost[a] \cup
                    UNION {PagesOf(r) : r \in {x \in taken : x.asma = a}}]
      /\ ret' = FALSE
      /\ UNCHANGED state

ashmem_shrink(nr) == Shrink(nr) /\ UNCHANGED purge_all

\* ASHMEM_PURGE_ALL_CACHES asks for the count without the mutex and then
\* shrinks by it.
PurgeAllCount ==
  /\ purge_all = 0
  /\ purge_all' = lru_count
  /\ ret' = FALSE
  /\ UNCHANGED <<state, lists, lost>>

PurgeAllShrink ==
  /\ purge_all # 0
  /\ Shrink(purge_all)
  /\ purge_all' = 0

-----------------------------------------------------------------------------
AshmemInit ==
  /\ state = [a \in Areas |-> "closed"]
  /\ unpinned_list = [a \in Areas |-> <<>>]
  /\ lru_list = <<>> /\ lru_count = 0
  /\ purge_all = 0
  /\ lost = [a \in Areas |-> {}]
  /\ ret = FALSE

Allocs == IF AllocMayFail THEN BOOLEAN ELSE {TRUE}

AshmemNext ==
  \/ \E a \in Areas :
       \/ ashmem_open(a) \/ ashmem_mmap(a) \/ ashmem_release(a)
       \/ \E x \in Intervals, alloc \in Allocs :
            ashmem_pin(a, x[1], x[2], alloc) \/ ashmem_unpin(a, x[1], x[2], alloc)
  \/ \E nr \in NrToScan : ashmem_shrink(nr)
  \/ PurgeAllCount \/ PurgeAllShrink

AshmemSpec == AshmemInit /\ [][AshmemNext]_ashmem_vars

-----------------------------------------------------------------------------
(* Properties.                                                             *)

\* The ranges of an area are disjoint and its list is ordered, highest page
\* first, whatever ranges are merged, cut and split: the short circuits of
\* ashmem_pin, ashmem_unpin and ashmem_get_pin_status rest on it.
RangesSorted ==
  \A a \in Areas : \A i, j \in 1 .. Len(unpinned_list[a]) :
    i < j => unpinned_list[a][j].pgend < unpinned_list[a][i].pgstart

\* lru_list holds each range that is not purged exactly once, and lru_count,
\* which the memory manager is told and never recomputes, is their pages.
LruExact ==
  /\ ToSet(lru_list) = {r \in UNION {ToSet(unpinned_list[a]) : a \in Areas} : ~r.purged}
  /\ IsInjective(lru_list)
  /\ lru_count = PagesOn(lru_list)

UnpinnedPages == [a \in Areas |-> UNION {PagesOf(r) : r \in ToSet(unpinned_list[a])}]

\* Only unpinned pages are purged, pin and unpin change exactly the pages
\* they are given, and a pin reports every purge of its pages since they
\* were unpinned.
Abstract == INSTANCE AshmemPages WITH
  Pages <- 0 .. size - 1, unpinned <- UnpinnedPages, lost <- lost, reported <- ret
ImplementsPages == Abstract!Spec

\* The comment of ashmem_get_pin_status, "Returns ASHMEM_IS_UNPINNED if _any_
\* pages in the given interval are unpinned and ASHMEM_IS_PINNED otherwise":
\* the answer, given at the first range below the pages, is right for them.
PinStatusExact ==
  \A a \in Areas, s, e \in 0 .. size - 1 :
    s <= e => (ashmem_get_pin_status(a, s, e) <=> UnpinnedPages[a] \cap (s .. e) # {})

\* The comment of ashmem_pin, "returning whether it was previously purged":
\* a page that has been truncated belongs to a range that is marked purged.
PurgeRemembered ==
  \A a \in Areas : \A p \in lost[a] :
    \E r \in ToSet(unpinned_list[a]) : r.purged /\ p \in PagesOf(r)

\* The lists of all areas, the LRU and its count agree, and so do the answers
\* that are read off them.
ListsConsistent == AshmemTypeOK /\ RangesSorted /\ LruExact /\ PinStatusExact /\ PurgeRemembered
=============================================================================
