------------------------------ MODULE MemStorage ------------------------------
(***************************************************************************)
(* MemStorage (storage/src/lib.rs): hard state, configuration, entries and *)
(* snapshot, each behind a lock of its own.  One thread, the raft-rs       *)
(* driver (external), writes; others call the raft::Storage methods, one   *)
(* lock at a time.                                                         *)
(***************************************************************************)
EXTENDS Integers, Sequences, FiniteSets

CONSTANTS
  Reader,
  MaxIndex, MaxTerm,   \* bounds: the last index and term
  Driver               \* what the driver does beyond appending at the end: "snapshot", set one
                       \* ahead of a log with entries; "rewrite", append over a conflicting suffix

ASSUME BoundsAssumption == MaxIndex \in Nat /\ MaxTerm \in Nat
ASSUME DriverAssumption == Driver \subseteq {"snapshot", "rewrite"}

VARIABLES
  hard_state,   \* HardState: its commit index (term and vote are as opaque)
  conf_state,   \* ConfState: the index of the entry that set it
  entries,      \* Vec<Entry>
  snapshot,     \* Snapshot: the index of its metadata
  appended,     \* history: the term of the entry appended at each index, 0 if none
  confAt,       \* history: the configuration stored when a commit index was
  call          \* what each reader has read so far

vars == <<hard_state, conf_state, entries, snapshot, appended, confAt, call>>

Idle == [at |-> "idle", low |-> 0, high |-> 0, max |-> 0, res |-> "none", got |-> <<>>]

Init ==
  /\ hard_state = 0
  /\ conf_state = 0
  /\ entries = <<>>
  /\ snapshot = 0
  /\ appended = [i \in 1..MaxIndex |-> 0]
  /\ confAt = [i \in 0..MaxIndex |-> 0]
  /\ call = [r \in Reader |-> Idle]

-----------------------------------------------------------------------------
\* The methods that read under one lock, or under two nested ones.

FirstIndex == IF entries # <<>> THEN entries[1].index ELSE snapshot + 1
LastIndex == IF entries # <<>> THEN entries[Len(entries)].index ELSE snapshot

\* Mutant: the log is taken to start at index 1.
TermFromOne(i) ==
  IF entries = <<>> THEN [res |-> "ok", term |-> 0]
  ELSE IF i < entries[1].index THEN [res |-> "compacted", term |-> 0]
  ELSE IF i > LastIndex THEN [res |-> "unavailable", term |-> 0]
  ELSE IF i > Len(entries) THEN [res |-> "panic", term |-> 0]
  ELSE [res |-> "ok", term |-> entries[i].term]

\* term(i): the entry is found by its distance from the first.
Term(i) ==
  IF entries = <<>> THEN [res |-> "ok", term |-> 0]
  ELSE IF i < entries[1].index THEN [res |-> "compacted", term |-> 0]
  ELSE IF i > LastIndex THEN [res |-> "unavailable", term |-> 0]
  ELSE LET pos == i - entries[1].index + 1
       IN IF pos > Len(entries) THEN [res |-> "panic", term |-> 0]
          ELSE [res |-> "ok", term |-> entries[pos].term]

\* Mutant: the bound high is taken for the last index.
EntriesInclusive(low, high, max) ==
  IF entries = <<>> THEN [res |-> "unavailable", got |-> <<>>]
  ELSE IF low < entries[1].index THEN [res |-> "compacted", got |-> <<>>]
  ELSE IF high > LastIndex THEN [res |-> "unavailable", got |-> <<>>]
  ELSE LET off == entries[1].index
           all == SubSeq(entries, low - off + 1, high - off)
       IN [res |-> "ok", got |-> IF max < Len(all) THEN SubSeq(all, 1, max) ELSE all]

\* entries(low, high, max_size): the entries from low up to but not including high,
\* and of them those whose sizes, one each, add up to at most max_size.  A slice that
\* starts after its end, or ends after the vector, panics.
Entries(low, high, max) ==
  IF entries = <<>> THEN [res |-> "unavailable", got |-> <<>>]
  ELSE IF low < entries[1].index THEN [res |-> "compacted", got |-> <<>>]
  ELSE IF high > LastIndex + 1 THEN [res |-> "unavailable", got |-> <<>>]
  ELSE LET off == entries[1].index
           all == SubSeq(entries, low - off + 1, high - off)
       IN IF low > high \/ high - off > Len(entries) THEN [res |-> "panic", got |-> <<>>]
          ELSE [res |-> "ok", got |-> IF max < Len(all) THEN SubSeq(all, 1, max) ELSE all]

-----------------------------------------------------------------------------
\* The driver.  Without more in Driver it appends after the last index, in terms that do not fall, commits
\* what is there, and then applies the configuration changes among it.

\* append extends the vector with n entries of term t, whatever their first index.
AppendEntries(n, t) ==
  \E first \in {LastIndex + 1}
              \cup (IF "snapshot" \in Driver /\ LastIndex < snapshot THEN {snapshot + 1} ELSE {})
              \cup (IF "rewrite" \in Driver THEN (hard_state + 1)..LastIndex ELSE {}) :
    /\ first + n - 1 <= MaxIndex
    /\ entries # <<>> => entries[Len(entries)].term <= t
    /\ entries' = entries \o [i \in 1..n |-> [index |-> first + i - 1, term |-> t]]
    /\ appended' = [i \in 1..MaxIndex |-> IF i \in first..(first + n - 1) THEN t ELSE appended[i]]
    /\ UNCHANGED <<hard_state, conf_state, snapshot, confAt, call>>

SetConfState(i) ==
  /\ conf_state < i /\ i <= hard_state
  /\ conf_state' = i
  /\ UNCHANGED <<hard_state, entries, snapshot, appended, confAt, call>>

SetHardState(i) ==
  /\ hard_state < i /\ i <= LastIndex
  /\ hard_state' = i
  /\ confAt' = [confAt EXCEPT ![i] = conf_state]
  /\ UNCHANGED <<conf_state, entries, snapshot, appended, call>>

\* set_snapshot leaves the entries alone.  A snapshot made here covers what is
\* committed; one received is ahead of the log.
SetSnapshot(i) ==
  /\ snapshot < i
  /\ i <= hard_state \/ entries = <<>> \/ "snapshot" \in Driver
  /\ snapshot' = i
  /\ UNCHANGED <<hard_state, conf_state, entries, appended, confAt, call>>

-----------------------------------------------------------------------------
\* Readers.

\* initial_state: the hard state, and then the configuration.
ReadHardState(r) ==
  /\ call[r].at = "idle"
  /\ call' = [call EXCEPT ![r] = [Idle EXCEPT !.at = "conf", !.low = hard_state]]
  /\ UNCHANGED <<hard_state, conf_state, entries, snapshot, appended, confAt>>

\* Mutant: the configuration is taken from the snapshot's metadata.
ReadConfStateOfSnapshot(r) ==
  /\ call[r].at = "conf"
  /\ call' = [call EXCEPT ![r].at = "initial",
                          ![r].high = IF snapshot < conf_state THEN snapshot ELSE conf_state]
  /\ UNCHANGED <<hard_state, conf_state, entries, snapshot, appended, confAt>>

ReadConfState(r) ==
  /\ call[r].at = "conf"
  /\ call' = [call EXCEPT ![r].at = "initial", ![r].high = conf_state]
  /\ UNCHANGED <<hard_state, conf_state, entries, snapshot, appended, confAt>>

\* first_index, last_index and entries are calls of their own.
ReadFirstIndex(r) ==
  /\ call[r].at = "idle"
  /\ call' = [call EXCEPT ![r] = [Idle EXCEPT !.at = "last", !.low = FirstIndex]]
  /\ UNCHANGED <<hard_state, conf_state, entries, snapshot, appended, confAt>>

ReadLastIndex(r) ==
  /\ call[r].at = "last"
  /\ call' = [call EXCEPT ![r].at = IF LastIndex < call[r].low THEN "idle" ELSE "entries",
                          ![r].high = LastIndex + 1]
  /\ UNCHANGED <<hard_state, conf_state, entries, snapshot, appended, confAt>>

ReadEntries(r, max) ==
  /\ call[r].at = "entries"
  /\ LET e == Entries(call[r].low, call[r].high, max)
     IN call' = [call EXCEPT ![r].at = "read", ![r].max = max, ![r].res = e.res, ![r].got = e.got]
  /\ UNCHANGED <<hard_state, conf_state, entries, snapshot, appended, confAt>>

Forget(r) ==
  /\ call[r].at \in {"initial", "read"}
  /\ call' = [call EXCEPT ![r] = Idle]
  /\ UNCHANGED <<hard_state, conf_state, entries, snapshot, appended, confAt>>

Next ==
  \/ \E n \in 1..2, t \in 1..MaxTerm : AppendEntries(n, t)
  \/ \E i \in 1..MaxIndex : SetConfState(i) \/ SetHardState(i) \/ SetSnapshot(i)
  \/ \E r \in Reader :
       \/ ReadHardState(r) \/ ReadConfState(r)
       \/ ReadFirstIndex(r) \/ ReadLastIndex(r)
       \/ \E max \in 0..MaxIndex : ReadEntries(r, max)
       \/ Forget(r)

Spec == Init /\ [][Next]_vars

-----------------------------------------------------------------------------

\* Type invariant: the entries have consecutive indices.
TypeOK ==
  /\ hard_state \in 0..MaxIndex /\ conf_state \in 0..MaxIndex /\ snapshot \in 0..MaxIndex
  /\ \A p \in DOMAIN entries : entries[p].term \in 1..MaxTerm /\ entries[p].index = entries[1].index + p - 1

\* term and entries find an entry by its position in the vector: for every index in
\* first_index..last_index it is the entry that was appended there.
TermsExact ==
  entries # <<>> =>
    \A i \in FirstIndex..LastIndex : Term(i) = [res |-> "ok", term |-> appended[i]]

\* A reader that asks for first_index, then for last_index, and then for the entries
\* between them gets those entries, a prefix of them if max_size cuts it short, however
\* the driver's writes fall between the calls.  It is only refused when a snapshot has
\* overtaken the range meanwhile.
RangeStable ==
  \A r \in Reader : call[r].at = "read" =>
    LET c == call[r]
        n == IF c.max < c.high - c.low THEN c.max ELSE c.high - c.low
    IN IF c.res = "ok"
       THEN c.got = [p \in 1..n |-> [index |-> c.low + p - 1, term |-> appended[c.low + p - 1]]]
       ELSE c.res # "panic" /\ c.low <= snapshot

\* initial_state reads the two halves under two locks, the hard state first: the
\* configuration it returns is never older than the one stored with that hard state.
InitialStateInOrder ==
  \A r \in Reader : call[r].at = "initial" => call[r].high >= confAt[call[r].low]

\* "All fields are wrapped in RwLock to provide thread-safe concurrent access": the
\* configuration initial_state returns holds no change past the commit it returns.
InitialStateConsistent ==
  \A r \in Reader : call[r].at = "initial" => call[r].high <= call[r].low

=============================================================================
