---------------------------- MODULE AshmemPages ----------------------------
(***************************************************************************)
(* What ashmem promises for the pages of its areas, without ranges and     *)
(* lists: only unpinned pages lose their contents, and a pin of pages of   *)
(* which one has lost its contents says so.                                *)
(***************************************************************************)
EXTENDS Integers, FiniteSets

CONSTANTS Areas, Pages

VARIABLES
  unpinned,     \* area |-> pages the kernel may take
  lost,         \* area |-> pages it took that no pin has reported yet
  reported      \* did the last call report a purge?

vars == <<unpinned, lost, reported>>

Init ==
  /\ unpinned = [a \in Areas |-> {}]
  /\ lost = [a \in Areas |-> {}]
  /\ reported = FALSE

\* The report may be a false alarm, never a false reassurance.
Pin(a, S) ==
  /\ lost' = [lost EXCEPT ![a] = @ \ S]
  /\ lost[a] \cap S # {} => reported'
  /\ reported' \in BOOLEAN
  /\ unpinned' = [unpinned EXCEPT ![a] = @ \ S]

Unpin(a, S) ==
  /\ reported' = FALSE
  /\ UNCHANGED lost
  /\ unpinned' = [unpinned EXCEPT ![a] = @ \cup S]

\* Under memory pressure, of any number of areas.
Purge ==
  /\ reported' = FALSE
  /\ \A a \in Areas : lost[a] \subseteq lost'[a] /\ lost'[a] \subseteq lost[a] \cup unpinned[a]
  /\ DOMAIN lost' = Areas
  /\ UNCHANGED unpinned

Release(a) ==
  /\ reported' = FALSE
  /\ lost' = [lost EXCEPT ![a] = {}]
  /\ unpinned' = [unpinned EXCEPT ![a] = {}]

Interval(s, e) == {p \in Pages : s <= p /\ p <= e}

Next ==
  \/ \E a \in Areas : Pin(a, {}) \/ Release(a)
  \/ Purge
  \/ \E a \in Areas, s, e \in Pages :
       s <= e /\ (Pin(a, Interval(s, e)) \/ Unpin(a, Interval(s, e)))

Spec == Init /\ [][Next]_vars
=============================================================================
