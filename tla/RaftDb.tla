------------------------------- MODULE RaftDb --------------------------------
(***************************************************************************)
(* The column families one Raft group keeps in RocksDB, and how `Storage`  *)
(* writes them (storage.rs, batch.rs, column_family.rs).                   *)
(*                                                                         *)
(* RocksDB has one write-ahead log for all column families.  A write is    *)
(* one record of it, and a synced write makes every earlier record durable *)
(* too.  A machine crash keeps some prefix of the log that contains every  *)
(* synced record, so `survivors` holds the states of the database since    *)
(* the last synced write; a crash picks one of them.                       *)
(***************************************************************************)
EXTENDS RaftTypes

CONSTANTS
  NoEntry,     \* a log key that is not in the database
  MaxCrashes   \* bound: how often the machine stops

ASSUME NoEntryAssumption == NoEntry \notin Payload
ASSUME MaxCrashesAssumption == MaxCrashes \in Nat

VARIABLES
  db,         \* the database, one field per key or key range
  survivors,  \* the states of the database a crash may leave
  mode,       \* is the store open, closed, or stopped by a storage error?
  crashes     \* how often the machine has stopped

dbVars == <<db, survivors, mode, crashes>>

NoLogId == [term |-> 0, index |-> NoIndex]
NoVote == [term |-> 0, node |-> 0]

\* LOG_CF holds the keys log:<index>, __last_log_id and __last_purged_log_id,
\* STATE_CF the keys vote, applied and membership, KV_CF the user's keys.  The
\* last three fields are history, not stored: the entry last appended at each
\* index, the highest entry whose effect was written, and whether
\* install_snapshot has run.
NeverAppended == [term |-> 0, payload |-> NoEntry]

EmptyDb ==
  [log |-> [i \in Index |-> NoEntry], last |-> NoLogId, purged |-> NoIndex,
   vote |-> NoVote, applied |-> NoIndex, membership |-> NoMembership,
   kv |-> [k \in Key |-> Missing],
   appended |-> [i \in Index |-> NeverAppended], reached |-> NoIndex, installed |-> FALSE]

\* Mutant: no column family is synced.
RequiresNoFsync(cf) == FALSE

\* ColumnFamily::requires_fsync.
RequiresFsync(cf) == cf = "state"

\* Storage::put, delete and batch_write on one column family: d is the
\* database after the write.
Put(cf, d) ==
  /\ db' = d
  /\ survivors' = IF RequiresFsync(cf) THEN {d} ELSE survivors \cup {d}
  /\ UNCHANGED <<mode, crashes>>

DbInit ==
  /\ db = EmptyDb
  /\ survivors = {EmptyDb}
  /\ mode = "up"
  /\ crashes = 0

\* The machine stops; recovery replays the surviving prefix.
LoseUnsynced ==
  /\ mode # "down"
  /\ crashes < MaxCrashes
  /\ db' \in survivors
  /\ survivors' = {db'}
  /\ mode' = "down"
  /\ crashes' = crashes + 1

\* A StorageError from the log store or the state machine is fatal to
\* OpenRaft: the node does nothing more until it is restarted.
Fail ==
  /\ mode' = "failed"
  /\ UNCHANGED <<db, survivors, crashes>>

=============================================================================
