------------------------------ MODULE LogQueue ------------------------------
(***************************************************************************)
(* What an Android log promises its readers, without the ring: each open   *)
(* reader has a queue of whole entries, filled by every write in the order *)
(* of the writes, and a new reader begins with the backlog.  Entries are   *)
(* lost only to a write, and only when the queue and the new entry do not  *)
(* fit into the ring together: then the fewest oldest entries that have at *)
(* least as many bytes as the new one.  To make room, fewer may be enough: *)
(* the free bytes before the oldest entry are not counted.                 *)
(***************************************************************************)
EXTENDS Integers, Sequences

CONSTANTS
  Readers,
  Payloads,     \* the entries' contents
  Capacity,     \* bytes of the ring
  HeaderLen     \* bytes an entry needs besides its payload

VARIABLES
  backlog,      \* what a new reader will see
  pending       \* open reader |-> the entries it has not read yet

vars == <<backlog, pending>>

\* The bytes of the entries in q.
Bytes(q) ==
  LET from[i \in 1 .. Len(q) + 1] ==
        IF i > Len(q) THEN 0 ELSE HeaderLen + Len(q[i]) + from[i + 1]
  IN  from[1]
OpenReaders == DOMAIN pending

Init == backlog = <<>> /\ pending = <<>>

Open(r) ==
  /\ r \notin OpenReaders
  /\ pending' = [x \in OpenReaders \cup {r} |-> IF x = r THEN backlog ELSE pending[x]]
  /\ UNCHANGED backlog

Release(r) ==
  /\ r \in OpenReaders
  /\ pending' = [x \in OpenReaders \ {r} |-> pending[x]]
  /\ UNCHANGED backlog

Read(r) ==
  /\ r \in OpenReaders
  /\ pending[r] # <<>>
  /\ pending' = [pending EXCEPT ![r] = Tail(@)]
  /\ UNCHANGED backlog

\* What a write of len bytes leaves of queue q.
Kept(q, len) ==
  LET From(k) == SubSeq(q, k, Len(q))
      last == {k \in 1 .. Len(q) : /\ Bytes(From(k + 1)) + len <= Bytes(q)
                                   /\ Bytes(q) < Bytes(From(k)) + len}
  IN  IF Bytes(q) + len < Capacity THEN {q} ELSE {From(k + 1) : k \in last}

\* Every queue gets the entry, or none does because the copy failed.
Write(p, added) ==
  LET len == HeaderLen + Len(p)
  IN  /\ \E q \in Kept(backlog, len) : backlog' = q \o added
      /\ OpenReaders' = OpenReaders
      /\ \A r \in OpenReaders : \E q \in Kept(pending[r], len) : pending'[r] = q \o added

Flush ==
  /\ backlog' = <<>>
  /\ pending' = [r \in OpenReaders |-> <<>>]

Next ==
  \/ \E r \in Readers : Open(r) \/ Release(r) \/ Read(r)
  \/ \E p \in Payloads : Write(p, <<p>>) \/ Write(p, <<>>)
  \/ Flush

Spec == Init /\ [][Next]_vars
=============================================================================
