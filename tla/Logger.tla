------------------------------- MODULE Logger -------------------------------
(***************************************************************************)
(* One Android log, drivers/staging/android/logger.c: a ring of bytes with *)
(* variable-sized entries, its writers and its readers.                    *)
(*                                                                         *)
(* An entry is a header and a payload.  Of the header only len is kept:    *)
(* two bytes, low byte first, so that a header can wrap around the end of  *)
(* the ring between them.  A byte has Base values.  Every operation under  *)
(* log->mutex is one step; what the code does outside the mutex (reading   *)
(* w_off in a writer, the wait queue) is a step of its own.                *)
(***************************************************************************)
EXTENDS Integers, Sequences, FiniteSets

CONSTANTS
  Readers,          \* files that can be opened for reading
  Writers,          \* threads that write
  Faulting,         \* writers whose buffer may turn out to be unmapped
  size,             \* bytes of the ring
  Base,             \* values of a byte
  Payloads          \* payloads, sequences of bytes

HeaderLen == 2                                 \* sizeof(struct logger_entry)
Byte == 0 .. Base - 1
Offset == 0 .. size - 1

\* DEFINE_LOGGER_DEVICE: the size is a power of two above the longest entry,
\* hence at least twice as long.
ASSUME SizeAssumption ==
  /\ size \in Nat \ {0}
  /\ Base \in Nat \ {0}
  /\ \A p \in Payloads : /\ p \in Seq(Byte) /\ Len(p) >= 1
                         /\ 2 * (HeaderLen + Len(p)) <= size
                         /\ Len(p) < Base * Base

VARIABLES
  buffer,           \* the ring
  w_off,            \* current write head
  head,             \* new readers start here
  r_off,            \* reader |-> its read head, 0 when closed
  readers,          \* log->readers: the open ones
  wpc,              \* writer |-> "idle", "write" or "wake"
  orig,             \* writer |-> w_off as read before the mutex, 0 when no longer used
  rpc,              \* reader |-> where it is in logger_read
  waiting           \* readers on log->wq that nobody has woken

ring == <<buffer, w_off, head, r_off, readers>>
vars == <<buffer, w_off, head, r_off, readers, wpc, orig, rpc, waiting>>

TypeOK ==
  /\ buffer \in [Offset -> Byte]
  /\ w_off \in Offset /\ head \in Offset
  /\ r_off \in [Readers -> Offset]
  /\ readers \subseteq Readers
  /\ wpc \in [Writers -> {"idle", "write", "wake"}]
  /\ orig \in [Writers -> Offset]
  /\ rpc \in [Readers -> {"idle", "prepare", "check", "schedule", "read"}]
  /\ waiting \subseteq readers

-----------------------------------------------------------------------------
(* The ring.                                                               *)

logger_offset(n) == n % size

\* Mutant: the second byte of a header at the very end is not looked for at
\* the beginning of the ring.
get_entry_len_NoWrap(buf, off) ==
  HeaderLen + buf[off] + (IF off = size - 1 THEN 0 ELSE Base * buf[off + 1])

\* Length of the entry that starts at off.
get_entry_len(buf, off) == HeaderLen + buf[off] + Base * buf[logger_offset(off + 1)]

\* The first entry at least len bytes after off.
get_next_entry(buf, off, len) ==
  LET count[c \in Nat] ==
        IF c >= len THEN c
        ELSE count[c + get_entry_len(buf, logger_offset(off + c))]
  IN  logger_offset(off + count[0])

\* Mutant: the interval of the comment, a < c < b.
clock_interval_Open(a, b, c) ==
  IF b < a THEN a < c \/ b > c ELSE a < c /\ b > c

\* Does the way from a to b cross c or end there?
clock_interval(a, b, c) ==
  IF b < a THEN a < c \/ b >= c ELSE a < c /\ b >= c

\* A read head or the start head after fix_up_readers.
FixedUp(off, len) ==
  IF clock_interval(w_off, logger_offset(w_off + len), off)
  THEN get_next_entry(buffer, off, len) ELSE off

fix_up_readers(len) ==
  /\ head' = FixedUp(head, len)
  /\ r_off' = [r \in Readers |-> IF r \in readers THEN FixedUp(r_off[r], len) ELSE r_off[r]]

\* do_write_log and do_write_log_from_user: bytes s from off on, around the end.
Written(buf, off, s) ==
  [o \in Offset |-> LET i == logger_offset(o - off)
                    IN  IF i < Len(s) THEN s[i + 1] ELSE buf[o]]

Header(p) == <<Len(p) % Base, Len(p) \div Base>>

-----------------------------------------------------------------------------
(* logger_aio_write.                                                       *)

\* Nothing is locked yet when w_off is read.
WriteStart(w) ==
  /\ wpc[w] = "idle"
  /\ wpc' = [wpc EXCEPT ![w] = "write"]
  /\ orig' = [orig EXCEPT ![w] = w_off]
  /\ UNCHANGED <<ring, rpc, waiting>>

logger_aio_write(w, p) ==
  /\ wpc[w] = "write"
  /\ fix_up_readers(HeaderLen + Len(p))
  /\ buffer' = Written(buffer, w_off, Header(p) \o p)
  /\ w_off' = logger_offset(w_off + HeaderLen + Len(p))
  /\ wpc' = [wpc EXCEPT ![w] = "wake"]
  /\ orig' = [orig EXCEPT ![w] = 0]
  /\ UNCHANGED <<readers, rpc, waiting>>

\* The copy of the payload fails after k bytes; copy_from_user clears z more.
WriteFault(w, p, k, z) ==
  /\ wpc[w] = "write" /\ w \in Faulting
  /\ fix_up_readers(HeaderLen + Len(p))
  /\ buffer' = Written(buffer, w_off, Header(p) \o SubSeq(p, 1, k) \o [i \in 1 .. z |-> 0])
  /\ w_off' = orig[w]
  /\ wpc' = [wpc EXCEPT ![w] = "idle"]
  /\ orig' = [orig EXCEPT ![w] = 0]
  /\ UNCHANGED <<readers, rpc, waiting>>

WakeUp(w) ==
  /\ wpc[w] = "wake"
  /\ wpc' = [wpc EXCEPT ![w] = "idle"]
  /\ waiting' = {}
  /\ UNCHANGED <<ring, orig, rpc>>

\* LOGGER_FLUSH_LOG, on any file open for writing: nothing but the mutex keeps
\* it from falling between the steps of a writer.
logger_ioctl_flush ==
  /\ r_off' = [r \in Readers |-> IF r \in readers THEN w_off ELSE r_off[r]]
  /\ head' = w_off
  /\ UNCHANGED <<buffer, w_off, readers, wpc, orig, rpc, waiting>>

\* What LOGGER_GET_LOG_LEN returns to reader r.
logger_ioctl_len(r) ==
  IF w_off >= r_off[r] THEN w_off - r_off[r] ELSE (size - r_off[r]) + w_off

-----------------------------------------------------------------------------
(* Readers.                                                                *)

logger_open(r) ==
  /\ r \notin readers
  /\ readers' = readers \cup {r}
  /\ r_off' = [r_off EXCEPT ![r] = head]
  /\ UNCHANGED <<buffer, w_off, head, wpc, orig, rpc, waiting>>

\* No read is under way on a file that is released.  list_del takes no mutex:
\* where it falls inside a walk of log->readers under the mutex, the walk may
\* still move the head of the reader that goes, which nobody sees, so one step
\* before or after the walk stands for it.  A walk that stands on the very
\* entry being freed follows a poisoned pointer; that crash is not modelled.
logger_release(r) ==
  /\ r \in readers /\ rpc[r] = "idle"
  /\ readers' = readers \ {r}
  /\ r_off' = [r_off EXCEPT ![r] = 0]
  /\ UNCHANGED <<buffer, w_off, head, wpc, orig, rpc, waiting>>

Goto(r, from, to) == rpc[r] = from /\ rpc' = [rpc EXCEPT ![r] = to]

ReadStart(r) ==
  /\ r \in readers
  /\ Goto(r, "idle", "prepare")
  /\ UNCHANGED <<ring, wpc, orig, waiting>>

\* prepare_to_wait comes before the look at the offsets.
ReadPrepare(r) ==
  /\ Goto(r, "prepare", "check")
  /\ waiting' = waiting \cup {r}
  /\ UNCHANGED <<ring, wpc, orig>>

\* Something to read, or -EAGAIN (O_NONBLOCK), -EINTR, or on to schedule().
ReadCheck(r) ==
  /\ \/ /\ w_off # r_off[r]
        /\ Goto(r, "check", "read")
        /\ waiting' = waiting \ {r}
     \/ /\ w_off = r_off[r]
        /\ Goto(r, "check", "schedule")
        /\ UNCHANGED waiting
     \/ /\ w_off = r_off[r]
        /\ Goto(r, "check", "idle")
        /\ waiting' = waiting \ {r}
  /\ UNCHANGED <<ring, wpc, orig>>

\* schedule() returns when a writer has woken the reader.
ReadWoken(r) ==
  /\ r \notin waiting
  /\ Goto(r, "schedule", "prepare")
  /\ UNCHANGED <<ring, wpc, orig, waiting>>

\* A signal, or a mutex_lock that had to sleep: schedule() returns although
\* no writer has woken the reader.
ReadSignal(r) ==
  /\ r \in waiting
  /\ Goto(r, "schedule", "prepare")
  /\ waiting' = waiting \ {r}
  /\ UNCHANGED <<ring, wpc, orig>>

\* Mutant: a write head behind the read head is taken for an empty log.
ReadLocked_Behind(r) ==
  /\ \/ /\ w_off <= r_off[r]
        /\ Goto(r, "read", "prepare")
        /\ UNCHANGED r_off
     \/ /\ w_off > r_off[r]
        /\ Goto(r, "read", "idle")
        /\ r_off' = [r_off EXCEPT ![r] = logger_offset(@ + get_entry_len(buffer, @))]
  /\ UNCHANGED <<buffer, w_off, head, readers, wpc, orig, waiting>>

\* The second lock: the log may have been flushed since the look at it.
\* -EINVAL (user buffer too short) and -EFAULT leave the read head alone.
ReadLocked(r) ==
  /\ \/ /\ w_off = r_off[r]
        /\ Goto(r, "read", "prepare")
        /\ UNCHANGED r_off
     \/ /\ w_off # r_off[r]
        /\ Goto(r, "read", "idle")
        /\ \/ r_off' = [r_off EXCEPT ![r] = logger_offset(@ + get_entry_len(buffer, @))]
           \/ UNCHANGED r_off
  /\ UNCHANGED <<buffer, w_off, head, readers, wpc, orig, waiting>>

-----------------------------------------------------------------------------
Init ==
  /\ buffer = [o \in Offset |-> 0]
  /\ w_off = 0 /\ head = 0
  /\ r_off = [r \in Readers |-> 0]
  /\ readers = {}
  /\ wpc = [w \in Writers |-> "idle"]
  /\ orig = [w \in Writers |-> 0]
  /\ rpc = [r \in Readers |-> "idle"]
  /\ waiting = {}

Write(w) ==
  \/ WriteStart(w)
  \/ \E p \in Payloads :
       \/ logger_aio_write(w, p)
       \/ \E k \in 0 .. Len(p) - 1 : \E z \in 0 .. Len(p) - k : WriteFault(w, p, k, z)

logger_read(r) ==
  \/ ReadPrepare(r) \/ ReadCheck(r) \/ ReadWoken(r) \/ ReadLocked(r)

Next ==
  \/ \E w \in Writers : Write(w) \/ WakeUp(w)
  \/ logger_ioctl_flush
  \/ \E r \in Readers : \/ logger_open(r) \/ logger_release(r)
                        \/ ReadStart(r) \/ ReadSignal(r) \/ logger_read(r)

\* A writer that has unlocked wakes the readers, a runnable reader goes on.
\* Nobody has to write, read, flush or signal.
Fairness ==
  /\ \A w \in Writers : WF_vars(WakeUp(w))
  /\ \A r \in Readers : WF_vars(logger_read(r))

Spec == Init /\ [][Next]_vars
FairSpec == Spec /\ Fairness

-----------------------------------------------------------------------------
(* Properties.                                                             *)

BadEntry == <<>>

\* The payload of the entry of n bytes at off.
Payload(buf, off, n) ==
  [i \in 1 .. n - HeaderLen |-> buf[logger_offset(off + HeaderLen + i - 1)]]

\* The payloads that follow each other in the last d bytes before w, found by
\* following the headers; BadEntry where the last entry reaches past w.
Entries(buf, w) ==
  LET entries[d \in 0 .. size - 1] ==
        IF d = 0 THEN <<>>
        ELSE LET o == logger_offset(w - d)
                 n == get_entry_len(buf, o)
             IN  IF n > d THEN <<BadEntry>>
                 ELSE <<Payload(buf, o, n)>> \o entries[d - n]
  IN  entries

\* What a reader at off would get.
EntriesFrom(off) == Entries(buffer, w_off)[logger_offset(w_off - off)]

Heads == {head} \cup {r_off[r] : r \in readers}

\* The start head and every read head stand at the start of an entry that is
\* still whole: the headers from there lead exactly to w_off.  This is what
\* fix_up_readers keeps up while the writer overwrites the oldest entries,
\* wraps around, and gives up in the middle of a payload.
HeadsAtEntries ==
  \A h \in Heads : \A i \in DOMAIN EntriesFrom(h) : EntriesFrom(h)[i] # BadEntry

\* Readers get whole entries in the order in which they were written.  They
\* lose some only to a write that does not fit, and then exactly the oldest
\* ones that together are as long as the new entry: get_next_entry counts from
\* the read head, not from the gap before it, so this may be one more than the
\* new write head has reached.
Abstract == INSTANCE LogQueue WITH
  Capacity <- size,
  backlog <- EntriesFrom(head),
  pending <- [r \in readers |-> EntriesFrom(r_off[r])]
ImplementsLogQueue == Abstract!Spec

\* LOGGER_GET_LOG_LEN is the length of exactly the entries still to be read,
\* wherever the two offsets stand in the ring.
LogLenExact ==
  \A r \in readers : logger_ioctl_len(r) = Abstract!Bytes(EntriesFrom(r_off[r]))

\* No lost wakeup between the look at the offsets and schedule(): a reader
\* that sleeps with an entry to read is about to be woken by a writer that
\* has left the mutex.
NoLostWakeup ==
  \A r \in waiting :
    rpc[r] = "schedule" /\ r_off[r] # w_off => \E w \in Writers : wpc[w] = "wake"

\* Offsets, entries, lengths and sleepers agree.
LogConsistent == TypeOK /\ HeadsAtEntries /\ LogLenExact /\ NoLostWakeup

\* A reader inside logger_read that has an entry to read returns, or loses the
\* entry to a flush, whatever the writers do: it neither sleeps on nor goes
\* round and round between its two looks at the offsets.
ReaderReturns ==
  \A r \in Readers :
    (rpc[r] # "idle" /\ r_off[r] # w_off) ~> (rpc[r] = "idle" \/ r_off[r] = w_off)
=============================================================================
