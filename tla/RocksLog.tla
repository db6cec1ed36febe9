------------------------------- MODULE RocksLog -------------------------------
(***************************************************************************)
(* RocksDBLogStorage (openraft_rocksdb.rs) over the log operations of      *)
(* `Storage` (storage.rs).  OpenRaft calls it from one task, one call at a *)
(* time.  Every write of a handler is a step, and the machine may stop     *)
(* between any two.                                                        *)
(***************************************************************************)
EXTENDS RaftDb

CONSTANTS
  NodeId,      \* candidates a vote can name
  MaxTerm,     \* bound on terms
  MaxBatch     \* bound on the entries of one append

ASSUME LogBoundsAssumption == MaxTerm \in Nat /\ MaxBatch \in Nat \ {0}

VARIABLES
  cached_vote,
  last_cache,  \* last_log_index_cache[LOG_CF]
  logop,       \* the write that append or purge still has to make
  core,        \* OpenRaft's own idea of the last log id (external)
  saved,       \* history: the vote save_vote last returned for
  reader       \* the read a RocksDBLogReader, in a replication task, is at

logVars == <<cached_vote, last_cache, logop, core, saved, reader>>

\* The cache map has no entry; also get_last_log_index_from_db's Ok(None).
NoCache == -1
\* Its Err(CorruptedData).
CorruptedData == -2

NoOp == [op |-> "none", id |-> NoLogId]
NoVoteCached == [term |-> 0, node |-> 0, committed |-> FALSE]
NoReader == [end |-> NoIndex, last |-> NoLogId]

LogInit ==
  /\ cached_vote = NoVoteCached
  /\ last_cache = NoCache
  /\ logop = NoOp
  /\ core = NoLogId
  /\ saved = NoVoteCached
  /\ reader = NoReader

LogIdle == mode = "up" /\ logop = NoOp

-----------------------------------------------------------------------------
\* Reading the log column family.

InLog(d) == {i \in Index : d.log[i] # NoEntry}
HasMetadata(d) == d.last # NoLogId \/ d.purged # NoIndex

LastIn(S) == CHOOSE i \in S : \A j \in S : j <= i

\* get_last_log_index_from_db takes the last key of the column family.  The keys
\* __last_log_id and __last_purged_log_id sort before every log:<index>, so one of
\* them is last exactly when no entry is left, and is refused as corrupted.
LastIndexFromDb(d) ==
  IF InLog(d) # {} THEN LastIn(InLog(d))
  ELSE IF HasMetadata(d) THEN CorruptedData ELSE NoCache

\* get_cached_last_log_index; its fill of the cache is overwritten by the caller.
CachedLastIndex == IF last_cache # NoCache THEN last_cache ELSE LastIndexFromDb(db)

\* get_log_state: the metadata, or else the last entry with term 0.
LastLogId(d) ==
  IF d.last # NoLogId THEN d.last
  ELSE IF InLog(d) # {} THEN [term |-> 0, index |-> LastIn(InLog(d))] ELSE NoLogId

\* try_get_log_entries gives every entry the term of the last log id.
TermReadBack(d, i) == IF i <= LastLogId(d).index THEN LastLogId(d).term ELSE 0

\* serialize_entry_payload, then deserialize_entry_payload.
Stored(p) == IF p.kind = "membership" THEN [p EXCEPT !.configs = Flattened(p.configs)] ELSE p

-----------------------------------------------------------------------------
\* Votes.  VoteMessage carries term and node; to_vote rebuilds an uncommitted vote.

SaveVote(t, n, c) ==
  /\ LogIdle
  /\ \/ t > saved.term
     \/ t = saved.term /\ n = saved.node /\ c /\ ~cached_vote.committed
  /\ Put("state", [db EXCEPT !.vote = [term |-> t, node |-> n]])
  /\ cached_vote' = [term |-> t, node |-> n, committed |-> c]
  /\ saved' = [term |-> t, node |-> n, committed |-> c]
  /\ UNCHANGED <<last_cache, logop, core, reader>>

\* read_vote: the cached vote, else the stored one, which it caches.
VoteRead ==
  IF cached_vote # NoVoteCached THEN cached_vote
  ELSE [term |-> db.vote.term, node |-> db.vote.node, committed |-> FALSE]

-----------------------------------------------------------------------------
\* append: one batch with the entries, then __last_log_id, the cache and the
\* callback.  b holds the new entries by index.  They are of term t, but the
\* entry at index 0, which initialises the cluster, is of term 0.

TermOf(t, i) == IF i = 0 THEN 0 ELSE t

AppendEntries(t, b) ==
  /\ LogIdle
  /\ t >= core.term
  /\ LET n == LastIn(DOMAIN b)
     IN /\ Put("log", [db EXCEPT
             !.log = [i \in Index |-> IF i \in DOMAIN b THEN Stored(b[i]) ELSE db.log[i]],
             !.appended = [i \in Index |-> IF i \in DOMAIN b
                                            THEN [term |-> TermOf(t, i), payload |-> b[i]]
                                            ELSE db.appended[i]]])
        /\ logop' = [op |-> "append", id |-> [term |-> TermOf(t, n), index |-> n]]
  /\ UNCHANGED <<cached_vote, last_cache, core, saved, reader>>

\* Mutant: __last_log_id is written only when there is none.
AppendMetadataOnce ==
  /\ mode = "up"
  /\ logop.op = "append"
  /\ Put("log", [db EXCEPT !.last = IF db.last = NoLogId THEN logop.id ELSE db.last])
  /\ last_cache' = logop.id.index
  /\ core' = logop.id
  /\ logop' = NoOp
  /\ UNCHANGED <<cached_vote, saved, reader>>

AppendMetadata ==
  /\ mode = "up"
  /\ logop.op = "append"
  /\ Put("log", [db EXCEPT !.last = logop.id])
  /\ last_cache' = logop.id.index
  /\ core' = logop.id
  /\ logop' = NoOp
  /\ UNCHANGED <<cached_vote, saved, reader>>

-----------------------------------------------------------------------------
\* truncate_log_before(i): nothing on an empty log, else one batch that deletes
\* [1, i), or [1, last] when i is past the last index; the cache entry goes.

\* Mutant: the range includes i.
TruncatedInclusive(l, last, i) ==
  [j \in Index |-> IF 1 <= j /\ j <= last /\ j <= i THEN NoEntry ELSE l[j]]

\* Mutant: the range starts at 0.
TruncatedFromZero(l, last, i) ==
  [j \in Index |-> IF j <= last /\ j < i THEN NoEntry ELSE l[j]]

Truncated(l, last, i) ==
  [j \in Index |-> IF 1 <= j /\ j <= last /\ j < i THEN NoEntry ELSE l[j]]

TruncateLogBefore(i) ==
  LET last == CachedLastIndex
  IN \/ /\ last = NoCache
        /\ UNCHANGED <<dbVars, last_cache>>
     \/ /\ last >= 0
        /\ Put("log", [db EXCEPT !.log = Truncated(db.log, last, i)])
        /\ last_cache' = NoCache

\* truncate and purge fail when get_cached_last_log_index does.
LogOpFails ==
  /\ LogIdle
  /\ CachedLastIndex = CorruptedData
  /\ Fail
  /\ UNCHANGED logVars

\* OpenRaft drops the entries from id's index on, which conflict with those of
\* another leader, and has stopped replicating its own: truncate passes the index
\* to truncate_log_before.
Truncate(i) ==
  /\ LogIdle
  /\ TruncateLogBefore(i)
  /\ core' = IF i = FirstIndex THEN NoLogId ELSE [term |-> db.appended[i - 1].term, index |-> i - 1]
  /\ reader' = NoReader
  /\ UNCHANGED <<cached_vote, logop, saved>>

\* purge: delete up to and including the index, then save __last_purged_log_id.
PurgeEntries(i) ==
  /\ LogIdle
  /\ TruncateLogBefore(i + 1)
  /\ logop' = [op |-> "purge", id |-> [term |-> 0, index |-> i]]
  /\ UNCHANGED <<cached_vote, core, saved, reader>>

PurgeMetadata ==
  /\ mode = "up"
  /\ logop.op = "purge"
  /\ Put("log", [db EXCEPT !.purged = logop.id.index])
  /\ logop' = NoOp
  /\ UNCHANGED <<cached_vote, last_cache, core, saved, reader>>

-----------------------------------------------------------------------------
\* RocksDBLogReader::try_get_log_entries, beside the task that appends.  OpenRaft asks
\* for entries up to one that has been appended.  The reader gets __last_log_id first,
\* without the fallback of get_log_state, and then an iterator.

ReaderStart ==
  /\ mode = "up"
  /\ reader = NoReader
  /\ core.index # NoIndex
  /\ reader' = [end |-> core.index, last |-> db.last]
  /\ UNCHANGED <<dbVars, cached_vote, last_cache, logop, core, saved>>

\* What the iterator then finds, by index: the term is the one read before.
ReaderTerm(i) == IF i <= reader.last.index THEN reader.last.term ELSE 0

ReaderScan ==
  /\ mode = "up"
  /\ reader # NoReader
  /\ reader' = NoReader
  /\ UNCHANGED <<dbVars, cached_vote, last_cache, logop, core, saved>>

-----------------------------------------------------------------------------
LogForget ==
  /\ cached_vote' = NoVoteCached
  /\ last_cache' = NoCache
  /\ logop' = NoOp
  /\ core' = NoLogId
  /\ reader' = NoReader
  /\ UNCHANGED saved

\* Storage::new fails when warm_up_index_cache does.  Then OpenRaft reads the
\* vote (and the log state, which decides core).
LogOpen ==
  /\ LastIndexFromDb(db) # CorruptedData
  /\ last_cache' = LastIndexFromDb(db)
  /\ cached_vote' = VoteRead
  /\ UNCHANGED <<logop, saved, reader>>

=============================================================================
