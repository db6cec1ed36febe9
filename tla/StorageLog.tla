----------------------------- MODULE StorageLog -----------------------------
(***************************************************************************)
(* The Raft log operations of `Storage` (crates/storage/src/storage.rs) on *)
(* one log column family: append_log_entry, truncate_log_before and        *)
(* get_last_log_index, called by threads that share one Arc<Storage>.      *)
(*                                                                         *)
(* The database and last_log_index_cache are separate pieces of state, and *)
(* no lock is held across the steps of a call: the cache's RwLock is taken *)
(* and dropped once per read, fill, update or removal.  Each such step is  *)
(* an action, so that calls of different threads interleave between them.  *)
(*                                                                         *)
(* Log column families are written without fsync (column_family.rs,        *)
(* requires_fsync).  A machine crash therefore keeps a prefix of the       *)
(* writes: `survivors` is the set of log contents such a prefix leaves.    *)
(***************************************************************************)
EXTENDS Integers

CONSTANTS
  Thread,         \* threads calling into one Storage
  Value,          \* entry bytes, opaque to this layer
  NoEntry,        \* an absent key
  MaxIndex,       \* bound: the largest index a caller passes to append
  AllowTruncate   \* do callers truncate the log?

ASSUME MaxIndexAssumption == MaxIndex \in Nat
ASSUME NoEntryAssumption == NoEntry \notin Value
ASSUME AllowTruncateAssumption == AllowTruncate \in BOOLEAN

VARIABLES
  log,        \* content of the column family: index -> bytes
  survivors,  \* contents a crash may leave behind
  cache,      \* last_log_index_cache[cf]; 0 when the map has no entry
  call        \* the call each thread is in

vars == <<log, survivors, cache, call>>

\* append_log_entry admits 1 as the first index, so 0 stands for Ok(None).
Index == 1..MaxIndex
None == 0

Idle == [op |-> "idle", at |-> "idle", index |-> None, value |-> NoEntry, last |-> None]

Log == [Index -> Value \cup {NoEntry}]

Call == [op : {"idle", "append", "truncate", "last"},
         at : {"idle", "check", "query", "fill", "act", "cache"},
         index : 0..(MaxIndex + 1), value : Value \cup {NoEntry}, last : 0..MaxIndex]

Empty == [i \in Index |-> NoEntry]

Present(l) == {i \in Index : l[i] # NoEntry}

\* get_last_log_index_from_db: the last key under seek_to_last.
IsLast(l, i) ==
  \/ i = None /\ Present(l) = {}
  \/ i \in Present(l) /\ \A j \in Present(l) : j <= i

Init ==
  /\ log = Empty
  /\ survivors = {Empty}
  /\ cache = None
  /\ call = [t \in Thread |-> Idle]

\* A put or an atomic batch on a log column family: in the WAL, not synced.
WriteLog(l) ==
  /\ log' = l
  /\ survivors' = survivors \cup {l}

CallAppend(t, i, v) ==
  /\ call[t] = Idle
  /\ call' = [call EXCEPT ![t] = [op |-> "append", at |-> "check", index |-> i,
                                   value |-> v, last |-> None]]
  /\ UNCHANGED <<log, survivors, cache>>

CallTruncate(t, i) ==
  /\ AllowTruncate
  /\ call[t] = Idle
  /\ call' = [call EXCEPT ![t] = [op |-> "truncate", at |-> "check", index |-> i,
                                   value |-> NoEntry, last |-> None]]
  /\ UNCHANGED <<log, survivors, cache>>

CallLast(t) ==
  /\ call[t] = Idle
  /\ call' = [call EXCEPT ![t] = [op |-> "last", at |-> "check", index |-> None,
                                   value |-> NoEntry, last |-> None]]
  /\ UNCHANGED <<log, survivors, cache>>

\* get_cached_last_log_index, step 1: look in the cache under the read lock.
CheckCache(t) ==
  /\ call[t].at = "check"
  /\ call' = [call EXCEPT ![t].at = IF cache # None THEN "act" ELSE "query",
                          ![t].last = cache]
  /\ UNCHANGED <<log, survivors, cache>>

\* Step 2: on a miss, read the last key from the database.
QueryDb(t) ==
  /\ call[t].at = "query"
  /\ \E i \in 0..MaxIndex :
       /\ IsLast(log, i)
       /\ call' = [call EXCEPT ![t].at = "fill", ![t].last = i]
  /\ UNCHANGED <<log, survivors, cache>>

\* Step 3: insert what was read, whatever happened in between.
FillCache(t) ==
  /\ call[t].at = "fill"
  /\ cache' = IF call[t].last # None THEN call[t].last ELSE cache
  /\ call' = [call EXCEPT ![t].at = "act"]
  /\ UNCHANGED <<log, survivors>>

ReturnLast(t) ==
  /\ call[t].op = "last"
  /\ call[t].at = "act"
  /\ call' = [call EXCEPT ![t] = Idle]
  /\ UNCHANGED <<log, survivors, cache>>

\* Mutant: the check admits a gap.
AppendPutAdmitsGap(t) ==
  /\ call[t].op = "append"
  /\ call[t].at = "act"
  /\ call[t].index > call[t].last
  /\ WriteLog([log EXCEPT ![call[t].index] = call[t].value])
  /\ call' = [call EXCEPT ![t].at = "cache"]
  /\ UNCHANGED cache

\* Mutant: the check admits the last index again.
AppendPutAdmitsDuplicate(t) ==
  /\ call[t].op = "append"
  /\ call[t].at = "act"
  /\ call[t].index \in {call[t].last, call[t].last + 1}
  /\ WriteLog([log EXCEPT ![call[t].index] = call[t].value])
  /\ call' = [call EXCEPT ![t].at = "cache"]
  /\ UNCHANGED cache

\* append_log_entry, steps 3-5: the index must follow the last one; then put.
AppendPut(t) ==
  /\ call[t].op = "append"
  /\ call[t].at = "act"
  /\ call[t].index = call[t].last + 1
  /\ WriteLog([log EXCEPT ![call[t].index] = call[t].value])
  /\ call' = [call EXCEPT ![t].at = "cache"]
  /\ UNCHANGED cache

\* InvalidLogIndex: a gap or a duplicate, as far as `last` tells.
AppendReject(t) ==
  /\ call[t].op = "append"
  /\ call[t].at = "act"
  /\ call[t].index # call[t].last + 1
  /\ call' = [call EXCEPT ![t] = Idle]
  /\ UNCHANGED <<log, survivors, cache>>

\* Step 6: update_cached_last_log_index.
AppendCache(t) ==
  /\ call[t].op = "append"
  /\ call[t].at = "cache"
  /\ cache' = call[t].index
  /\ call' = [call EXCEPT ![t] = Idle]
  /\ UNCHANGED <<log, survivors>>

\* truncate_log_before, steps 3-5: one batch deleting [1, index), or [1, last]
\* when the index lies past the last entry.
Truncated(l, last, i) ==
  [j \in Index |-> IF j <= last /\ j < i THEN NoEntry ELSE l[j]]

TruncateWrite(t) ==
  /\ call[t].op = "truncate"
  /\ call[t].at = "act"
  /\ call[t].last # None
  /\ WriteLog(Truncated(log, call[t].last, call[t].index))
  /\ call' = [call EXCEPT ![t].at = "cache"]
  /\ UNCHANGED cache

TruncateEmpty(t) ==
  /\ call[t].op = "truncate"
  /\ call[t].at = "act"
  /\ call[t].last = None
  /\ call' = [call EXCEPT ![t] = Idle]
  /\ UNCHANGED <<log, survivors, cache>>

\* Mutant: the cache entry stays.
TruncateCacheKept(t) ==
  /\ call[t].op = "truncate"
  /\ call[t].at = "cache"
  /\ call' = [call EXCEPT ![t] = Idle]
  /\ UNCHANGED <<log, survivors, cache>>

\* Step 6: drop the cache entry.
TruncateCache(t) ==
  /\ call[t].op = "truncate"
  /\ call[t].at = "cache"
  /\ cache' = None
  /\ call' = [call EXCEPT ![t] = Idle]
  /\ UNCHANGED <<log, survivors>>

\* A crash, and Storage::new on what survived: warm_up_index_cache fills the
\* cache from the database.
CrashAndReopen ==
  /\ log' \in survivors
  /\ survivors' = {log'}
  /\ \E i \in 0..MaxIndex : IsLast(log', i) /\ cache' = i
  /\ call' = [t \in Thread |-> Idle]

Next ==
  \/ CrashAndReopen
  \/ \E t \in Thread :
       \/ \E i \in Index, v \in Value : CallAppend(t, i, v)
       \/ \E i \in 1..(MaxIndex + 1) : CallTruncate(t, i)
       \/ CallLast(t)
       \/ CheckCache(t) \/ QueryDb(t) \/ FillCache(t) \/ ReturnLast(t)
       \/ AppendPut(t) \/ AppendReject(t) \/ AppendCache(t)
       \/ TruncateWrite(t) \/ TruncateEmpty(t) \/ TruncateCache(t)

Spec == Init /\ [][Next]_vars

-----------------------------------------------------------------------------

\* Type invariant of the log, the cache and the calls in progress.
TypeOK ==
  /\ log \in Log
  /\ survivors \subseteq Log
  /\ log \in survivors
  /\ cache \in 0..MaxIndex
  /\ call \in [Thread -> Call]

IsInterval(S) == \A i, j \in S : \A k \in Index : i <= k /\ k <= j => k \in S

\* "Raft log operations preserve sequential ordering with no gaps": at every
\* moment, and after a crash at that moment, the indices present form an
\* interval (append_log_entry's index check, truncate_log_before's one batch).
NoGaps == \A l \in survivors : IsInterval(Present(l))

\* get_last_log_index gives the highest index once no call is in flight: the
\* cache is empty or holds the last key of the database.
CacheCurrent ==
  (\A t \in Thread : call[t] = Idle) => cache = None \/ IsLast(log, cache)

\* append_log_entry rejects a duplicate index: with one caller, whatever was truncated or
\* lost in a crash before, a put never replaces an entry that is already in the log.
NeverOverwritten ==
  [][\A t \in Thread : AppendPut(t) => log[call[t].index] = NoEntry]_vars

=============================================================================
