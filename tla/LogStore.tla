-------------------------------- MODULE LogStore --------------------------------
(***************************************************************************)
(* What RaftLogStorage promises OpenRaft: the log it reads back is the one *)
(* it asked for.  OpenRaft knows the interval purged+1..last itself.       *)
(***************************************************************************)
EXTENDS Integers

CONSTANTS
  Entry, NoEntry,
  FirstIndex, MaxIndex,   \* bound: index of the last log entry
  MaxBatch                \* bound: entries in one append

VARIABLES
  entries, purged, last,
  batch       \* the entries OpenRaft last asked to append

vars == <<entries, purged, last, batch>>

Index == FirstIndex..MaxIndex
NoIndex == FirstIndex - 1

Init ==
  /\ entries = [i \in Index |-> NoEntry]
  /\ purged = NoIndex
  /\ last = NoIndex
  /\ batch = <<>>

\* The batches OpenRaft may append after index l.
BatchesAfter(l) ==
  UNION {[(l + 1)..n -> Entry] : n \in {m \in Index : l < m /\ m <= l + MaxBatch}}

LastOf(l, b) == CHOOSE n \in Index : DOMAIN b = (l + 1)..n /\ l < n

Append(b) ==
  /\ entries' = [i \in Index |-> IF i \in DOMAIN b THEN b[i] ELSE entries[i]]
  /\ last' = LastOf(last, b)
  /\ batch' = b
  /\ UNCHANGED purged

\* Removes the entries from i on.
Truncate(i) ==
  /\ purged < i /\ i <= last
  /\ entries' = [j \in Index |-> IF j < i THEN entries[j] ELSE NoEntry]
  /\ last' = i - 1
  /\ UNCHANGED <<purged, batch>>

\* Removes the entries up to i.  After a snapshot i may lie past the log's end.
Purge(i) ==
  /\ purged < i
  /\ entries' = [j \in Index |-> IF i < j THEN entries[j] ELSE NoEntry]
  /\ purged' = i
  /\ last' = IF i < last THEN last ELSE i
  /\ UNCHANGED batch

Next ==
  \/ \E b \in BatchesAfter(last) : Append(b)
  \/ \E i \in Index : Truncate(i) \/ Purge(i)

Spec == Init /\ [][Next]_vars

=============================================================================
