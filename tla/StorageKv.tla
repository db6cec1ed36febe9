------------------------------ MODULE StorageKv -------------------------------
(***************************************************************************)
(* `Storage` as a key-value store (storage.rs, batch.rs, iterator.rs,      *)
(* options.rs): opening and closing, put, delete, batches over several     *)
(* column families, iterators and get_log_range, checkpoints, and a crash  *)
(* of the machine at any point.  The log index cache is in StorageLog.     *)
(*                                                                         *)
(* A cell is one key of one column family.  The bytes written are the      *)
(* number of the write, so a cell tells which write it comes from; a       *)
(* deleted cell remembers that too.                                        *)
(***************************************************************************)
EXTENDS Integers, Sequences, FiniteSets, FiniteSetsExt

CONSTANTS
  Thread,       \* threads with an iterator, a range read or a checkpoint in progress
  Cf,           \* column families, of the ColumnFamily enum
  MaxKey,       \* keys, in byte order: log:<index> in a log column family
  Options,      \* the StorageOptions callers open with
  Path,         \* paths callers take checkpoints at
  Resolvable,   \* of these, the ones that canonicalize to a place in data_dir
  MaxOps,       \* MAX_BATCH_OPERATIONS
  MaxWrites,    \* bound: writes that reach the database
  MaxCrashes    \* bound: how often the machine stops

ASSUME CellsAssumption == Cf # {} /\ MaxKey \in Nat \ {0}
ASSUME BoundsAssumption == MaxOps \in Nat /\ MaxWrites \in Nat /\ MaxCrashes \in Nat
ASSUME PathsAssumption == Resolvable \subseteq Path

VARIABLES
  mode,         \* "none" before the database is created, "closed", "open"
  db,
  survivors,    \* the states of the database a crash may leave
  checkpoint,   \* the directories create_checkpoint has made, by path
  call,         \* the iterator, range read or checkpoint each thread is at
  written,      \* history: the cells of each write, in order
  taken,        \* history: the checkpoints create_snapshot answered Ok for
  crashes

vars == <<mode, db, survivors, checkpoint, call, written, taken, crashes>>

Key == 1..MaxKey
Cell == Cf \X Key
Clean == [n |-> 0, put |-> FALSE]
EmptyDb == [c \in Cell |-> Clean]
NoCheckpoint == [st |-> "none", db |-> EmptyDb]

NotTaken == -1

Idle == [op |-> "idle"]

\* ColumnFamily::requires_fsync and is_log_cf.
RequiresFsync(cf) == cf \in {"system_raft_state", "data_raft_state"}
IsLogCf(cf) == cf \in {"system_raft_log", "data_raft_log"}

Init ==
  /\ mode = "none"
  /\ db = EmptyDb
  /\ survivors = {EmptyDb}
  /\ checkpoint = [p \in Path |-> NoCheckpoint]
  /\ call = [t \in Thread |-> Idle]
  /\ written = <<>>
  /\ taken = [p \in Path |-> NotTaken]
  /\ crashes = 0

-----------------------------------------------------------------------------
\* Opening and closing.

\* StorageOptions::validate.
Validate(o) ==
  /\ o.write_buffer_size_mb \in 1..1024
  /\ o.max_write_buffer_number \in 2..10
  /\ o.target_file_size_mb \in 1..1024

\* Storage::new: the options are checked first, and RocksDB refuses a missing
\* database unless create_if_missing.
New(o) ==
  /\ mode # "open"
  /\ mode' = IF Validate(o) /\ (mode = "closed" \/ o.create_if_missing) THEN "open" ELSE mode
  /\ UNCHANGED <<db, survivors, checkpoint, call, written, taken, crashes>>

\* close takes the Storage by value, so no call is in progress and no iterator
\* borrows it.  Flushing a column family makes every earlier write durable.
Close ==
  /\ mode = "open"
  /\ \A t \in Thread : call[t] = Idle
  /\ mode' = "closed"
  /\ survivors' = {db}
  /\ UNCHANGED <<db, checkpoint, call, written, taken, crashes>>

\* A write-ahead log keeps a prefix that contains every synced record.  A
\* checkpoint is a rename in its parent directory, kept for sure once that is synced.
Crash ==
  /\ crashes < MaxCrashes
  /\ crashes' = crashes + 1
  /\ mode' = IF mode = "none" THEN "none" ELSE "closed"
  /\ db' \in survivors
  /\ survivors' = {db'}
  /\ \E lost \in SUBSET {p \in Path : checkpoint[p].st = "renamed"} :
       checkpoint' = [p \in Path |-> IF p \in lost THEN NoCheckpoint ELSE checkpoint[p]]
  /\ call' = [t \in Thread |-> Idle]
  /\ written' = SubSeq(written, 1, Max({db'[c].n : c \in Cell}))
  /\ UNCHANGED taken

-----------------------------------------------------------------------------
\* Writes.

\* BatchOperation and the operations of a WriteBatch, up to one more than a batch may have.
Operation == [put : BOOLEAN, cell : Cell]
Batch == UNION {[1..n -> Operation] : n \in 0..(MaxOps + 1)}

Op(kind, c) == [put |-> kind = "put", cell |-> c]

\* The operations of a batch in order, as write number n: the last one on a cell stays.
Apply(d, ops, n) ==
  [c \in Cell |-> LET I == {i \in DOMAIN ops : ops[i].cell = c}
                  IN IF I = {} THEN d[c] ELSE [n |-> n, put |-> ops[Max(I)].put]]

\* Mutant: only the first operation is asked.
BatchRequiresFsyncFirst(ops) == RequiresFsync(ops[1].cell[1])

\* WriteBatch::requires_fsync: "any".
BatchRequiresFsync(ops) == \E i \in DOMAIN ops : RequiresFsync(ops[i].cell[1])

\* Mutant: one record of the write-ahead log per operation.
WriteOneByOne(ops) ==
  LET n == Len(written) + 1
      d == Apply(db, ops, n)
  IN /\ n <= MaxWrites
     /\ db' = d
     /\ survivors' = IF BatchRequiresFsync(ops) THEN {d}
                     ELSE survivors \cup {Apply(db, SubSeq(ops, 1, i), n) : i \in 1..Len(ops)}
     /\ written' = Append(written, {ops[i].cell : i \in DOMAIN ops})

\* put_cf_opt, delete_cf_opt and write_opt: one record, synced or not.
Write(ops) ==
  LET n == Len(written) + 1
      d == Apply(db, ops, n)
  IN /\ n <= MaxWrites
     /\ db' = d
     /\ survivors' = IF BatchRequiresFsync(ops) THEN {d} ELSE survivors \cup {d}
     /\ written' = Append(written, {ops[i].cell : i \in DOMAIN ops})

\* put and delete; a delete of an absent key is written too.
PutOrDelete(kind, c) ==
  /\ mode = "open"
  /\ Write(<<Op(kind, c)>>)
  /\ UNCHANGED <<mode, checkpoint, call, taken, crashes>>

\* A WriteBatch built by put, delete and clear belongs to its thread until batch_write
\* takes it: nothing for an empty one, BatchTooLarge past the limit, else all of it in
\* one write.
BatchWrite(ops) ==
  /\ mode = "open"
  /\ Len(ops) \in 1..MaxOps
  /\ Write(ops)
  /\ UNCHANGED <<mode, checkpoint, call, taken, crashes>>

-----------------------------------------------------------------------------
\* Reads.  An iterator sees the database as it was when it was created.

Present(view) == {k \in Key : view[k].put}

\* Raw iterator positions; 0 is not valid().
Seek(view, k) == LET S == {j \in Present(view) : j >= k} IN IF S = {} THEN 0 ELSE Min(S)
SeekForPrev(view, k) == LET S == {j \in Present(view) : j <= k} IN IF S = {} THEN 0 ELSE Max(S)

Scan(op, cf, lo, hi, back) ==
  LET view == [k \in Key |-> db[<<cf, k>>]]
  IN [op |-> op, view |-> view, lo |-> lo, hi |-> hi, back |-> back, got |-> <<>>,
      pos |-> IF back THEN SeekForPrev(view, hi) ELSE Seek(view, lo)]

\* Storage::iterator, by its mode: Start, End, or From a key in a direction.
Iterator(t, cf, m, k) ==
  /\ mode = "open"
  /\ call[t] = Idle
  /\ call' = [call EXCEPT ![t] =
                CASE m = "Start" -> Scan("scan", cf, 1, MaxKey, FALSE)
                  [] m = "End" -> Scan("scan", cf, 1, MaxKey, TRUE)
                  [] m = "Forward" -> Scan("scan", cf, k, MaxKey, FALSE)
                  [] m = "Reverse" -> Scan("scan", cf, 1, k, TRUE)]
  /\ UNCHANGED <<mode, db, survivors, checkpoint, written, taken, crashes>>

\* get_log_range: an iterator from start, read until an index reaches end.
GetLogRange(t, cf, start, end) ==
  /\ mode = "open"
  /\ call[t] = Idle
  /\ IsLogCf(cf)
  /\ call' = [call EXCEPT ![t] = Scan("range", cf, start, end - 1, FALSE)]
  /\ UNCHANGED <<mode, db, survivors, checkpoint, written, taken, crashes>>

\* Mutant: the iterator moves before the value is read.
StepForwardValueLate(c) ==
  LET next == Seek(c.view, c.pos + 1)
  IN [c EXCEPT !.got = Append(@, [key |-> c.pos, n |-> IF next = 0 THEN 0 ELSE c.view[next].n]),
               !.pos = next]

\* step_forward and step_backward at a valid position.
StepForward(c) ==
  [c EXCEPT !.got = Append(@, [key |-> c.pos, n |-> c.view[c.pos].n]), !.pos = Seek(c.view, c.pos + 1)]

StepBackward(c) ==
  [c EXCEPT !.got = Append(@, [key |-> c.pos, n |-> c.view[c.pos].n]), !.pos = SeekForPrev(c.view, c.pos - 1)]

\* get_log_range's two ways out of the loop: not valid(), and index >= end.
RangeEnds(c) == c.pos = 0 \/ c.pos >= c.hi + 1

Step(t) ==
  /\ call[t].op \in {"scan", "range"}
  /\ LET c == call[t]
         ends == IF c.op = "range" THEN RangeEnds(c) ELSE c.pos = 0
     IN call' = [call EXCEPT ![t] = IF ends THEN [c EXCEPT !.op = "done"]
                                    ELSE IF c.back THEN StepBackward(c) ELSE StepForward(c)]
  /\ UNCHANGED <<mode, db, survivors, checkpoint, written, taken, crashes>>

Drop(t) ==
  /\ call[t].op \in {"scan", "done"}
  /\ call' = [call EXCEPT ![t] = Idle]
  /\ UNCHANGED <<mode, db, survivors, checkpoint, written, taken, crashes>>

-----------------------------------------------------------------------------
\* Checkpoints.

\* create_snapshot refuses a path outside data_dir and one it cannot resolve, and
\* RocksDB one that exists.  A checkpoint starts by flushing the memtables.
CreateSnapshot(t, p) ==
  /\ mode = "open"
  /\ call[t] = Idle
  /\ p \in Resolvable
  /\ checkpoint[p].st = "none"
  /\ checkpoint' = [checkpoint EXCEPT ![p] = [st |-> "renamed", db |-> db]]
  /\ survivors' = {db}
  /\ call' = [call EXCEPT ![t] = [op |-> "snapshot", path |-> p, n |-> Len(written)]]
  /\ UNCHANGED <<mode, db, written, taken, crashes>>

\* Mutant: Ok without the sync.
SyncParentSkipped(t) ==
  /\ call[t].op = "snapshot"
  /\ taken' = [taken EXCEPT ![call[t].path] = call[t].n]
  /\ call' = [call EXCEPT ![t] = Idle]
  /\ UNCHANGED <<mode, db, survivors, checkpoint, written, crashes>>

\* Step 3: the parent directory is synced before Ok is returned.
SyncParent(t) ==
  /\ call[t].op = "snapshot"
  /\ checkpoint' = [checkpoint EXCEPT ![call[t].path].st = "synced"]
  /\ taken' = [taken EXCEPT ![call[t].path] = call[t].n]
  /\ call' = [call EXCEPT ![t] = Idle]
  /\ UNCHANGED <<mode, db, survivors, written, crashes>>

Next ==
  \/ \E o \in Options : New(o)
  \/ Close
  \/ Crash
  \/ \E kind \in {"put", "delete"}, c \in Cell : PutOrDelete(kind, c)
  \/ \E ops \in Batch : BatchWrite(ops)
  \/ \E t \in Thread :
       \/ \E cf \in Cf, k \in Key :
            \/ \E m \in {"Start", "End", "Forward", "Reverse"} : Iterator(t, cf, m, k)
            \/ \E end \in Key \cup {MaxKey + 1} : GetLogRange(t, cf, k, end)
       \/ Step(t) \/ Drop(t)
       \/ \E p \in Path : CreateSnapshot(t, p)
       \/ SyncParent(t)

Spec == Init /\ [][Next]_vars

-----------------------------------------------------------------------------

\* d is the database after exactly the first n writes.
After(d, n) == \A c \in Cell : d[c].n = Max({0} \cup {m \in 1..n : c \in written[m]})

\* The last write that touched a column family with fsync.
LastSynced == Max({0} \cup {m \in DOMAIN written : \E c \in written[m] : RequiresFsync(c[1])})

\* "All operations in the batch succeed or all fail - no partial writes": whatever
\* batches over several column families are in flight, a crash leaves the database as
\* it was after some number of whole writes.
WritesWhole == \A d \in survivors : \E n \in 0..Len(written) : After(d, n)

\* "If any column family in the batch requires fsync, the entire batch is fsynced": a
\* crash never loses a write to a *_raft_state column family, nor anything written
\* before it.
SyncedKept ==
  \A d \in survivors, c \in Cell :
    d[c].n >= Max({0} \cup {m \in 1..LastSynced : c \in written[m]})

\* A scan and get_log_range return, in order and once each, the entries that were in
\* the column family when the call began, whatever is written or deleted meanwhile.
ScanExact ==
  \A t \in Thread : call[t].op = "done" =>
    LET c == call[t]
        S == {k \in Present(c.view) : c.lo <= k /\ k <= c.hi}
    IN /\ Len(c.got) = Cardinality(S)
       /\ \A i \in DOMAIN c.got : c.got[i].key \in S /\ c.got[i].n = c.view[c.got[i].key].n
       /\ \A i, j \in DOMAIN c.got : i < j => (c.got[i].key < c.got[j].key) = ~c.back

\* A checkpoint that create_snapshot answered Ok for is there after every crash, and
\* holds the writes made before it, none of which the database has lost itself.
SnapshotKept ==
  \A p \in Path : taken[p] # NotTaken =>
    /\ checkpoint[p].st # "none"
    /\ taken[p] <= Len(written)
    /\ After(checkpoint[p].db, taken[p])

=============================================================================
