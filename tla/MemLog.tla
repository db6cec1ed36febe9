--------------------------------- MODULE MemLog ---------------------------------
(***************************************************************************)
(* OpenRaftMemLog (openraft_mem.rs): a map from index to entry and a vote, *)
(* each behind a lock held for the whole handler, so each handler is one   *)
(* step.  OpenRaft's own view of the log is `purged` and `last`.           *)
(***************************************************************************)
EXTENDS Integers

CONSTANTS
  Entry, NoEntry, Vote, NoVote,
  FirstIndex, MaxIndex,   \* bound: index of the last log entry
  MaxBatch                \* bound: entries in one append

ASSUME EntryAssumption == NoEntry \notin Entry
ASSUME IndexAssumption == FirstIndex \in {0, 1} /\ MaxIndex \in Nat /\ MaxBatch \in Nat

VARIABLES
  log, vote,       \* OpenRaftMemLog
  purged, last,    \* RaftState::purge_upto and last_log_id (external)
  batch            \* the entries OpenRaft last asked to append (external)

vars == <<log, vote, purged, last, batch>>

Index == FirstIndex..MaxIndex
NoIndex == FirstIndex - 1

\* The part of the map OpenRaft knows of.
Visible == [i \in Index |-> IF purged < i /\ i <= last THEN log[i] ELSE NoEntry]

LS == INSTANCE LogStore WITH entries <- Visible

Init ==
  /\ log = [i \in Index |-> NoEntry]
  /\ vote = NoVote
  /\ purged = NoIndex
  /\ last = NoIndex
  /\ batch = <<>>

\* Mutant: an entry that is there is kept.
AppendKeepsOld(b) ==
  /\ log' = [i \in Index |-> IF i \in DOMAIN b /\ log[i] = NoEntry THEN b[i] ELSE log[i]]
  /\ last' = LS!LastOf(last, b)
  /\ batch' = b
  /\ UNCHANGED <<vote, purged>>

\* append inserts each entry at its index, over what is there.
Append(b) ==
  /\ log' = [i \in Index |-> IF i \in DOMAIN b THEN b[i] ELSE log[i]]
  /\ last' = LS!LastOf(last, b)
  /\ batch' = b
  /\ UNCHANGED <<vote, purged>>

\* log.retain(|idx, _| *idx <= log_id.index): the entry at i itself stays,
\* though OpenRaft asks for the removal of it and of what follows.
Truncate(i) ==
  /\ purged < i /\ i <= last
  /\ log' = [j \in Index |-> IF j <= i THEN log[j] ELSE NoEntry]
  /\ last' = i - 1
  /\ UNCHANGED <<vote, purged, batch>>

\* Mutant: the entry at i stays.
PurgeExclusive(i) ==
  /\ purged < i
  /\ log' = [j \in Index |-> IF i <= j THEN log[j] ELSE NoEntry]
  /\ purged' = i
  /\ last' = IF i < last THEN last ELSE i
  /\ UNCHANGED <<vote, batch>>

\* log.retain(|idx, _| *idx > log_id.index)
Purge(i) ==
  /\ purged < i
  /\ log' = [j \in Index |-> IF i < j THEN log[j] ELSE NoEntry]
  /\ purged' = i
  /\ last' = IF i < last THEN last ELSE i
  /\ UNCHANGED <<vote, batch>>

SaveVote(v) ==
  /\ vote' = v
  /\ UNCHANGED <<log, purged, last, batch>>

\* try_get_log_entries: the entries of the range that the map has.
TryGetLogEntries(a, b) == [i \in {j \in a..b : log[j] # NoEntry} |-> log[i]]

\* get_log_state's last_log_id: the last entry of the map.
LastInLog(i) ==
  /\ log[i] # NoEntry
  /\ \A j \in Index : log[j] # NoEntry => j <= i

Next ==
  \/ \E b \in LS!BatchesAfter(last) : Append(b)
  \/ \E i \in Index : Truncate(i) \/ Purge(i)
  \/ \E v \in Vote : SaveVote(v)

Spec == Init /\ [][Next]_vars

-----------------------------------------------------------------------------

\* Type invariant.
TypeOK ==
  /\ log \in [Index -> Entry \cup {NoEntry}]
  /\ vote \in Vote \cup {NoVote}
  /\ purged \in NoIndex..MaxIndex
  /\ last \in NoIndex..MaxIndex
  /\ purged <= last

\* A reader finds every entry OpenRaft may ask for; besides them the map holds at
\* most the one entry the last truncation left behind, right after them.
Held ==
  /\ DOMAIN TryGetLogEntries(purged + 1, last) = (purged + 1)..last
  /\ \A i \in Index : log[i] # NoEntry => purged < i /\ i <= last + 1

\* OpenRaftMemLog is a LogStore: what truncation leaves behind is never read,
\* it is overwritten by the next append or purged.
ImplementsLogStore == LS!Spec

\* "Remove conflicting entries": after a truncation the map ends where the log
\* OpenRaft knows does, which is what get_log_state reports.
ConflictsRemoved == \A i \in Index : LastInLog(i) => i <= last

=============================================================================
