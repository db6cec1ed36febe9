------------------------------ MODULE RocksNode ------------------------------
(***************************************************************************)
(* One node of a Raft group whose log store and state machine share a      *)
(* RocksDB database (openraft_rocksdb.rs).  OpenRaft (external) drives     *)
(* both: it appends after its last log id, commits what was acknowledged,  *)
(* applies committed entries it reads back from the log, installs the      *)
(* snapshots a leader sends, purges what a snapshot covers and truncates   *)
(* what conflicts with a new leader.                                       *)
(***************************************************************************)
EXTENDS RocksLog, RocksStateMachine

CONSTANTS
  Proposals,     \* bound: the payloads in use
  MaxConflicts,  \* bound: conflicting suffixes OpenRaft truncates
  MaxLag         \* bound: entries the cluster commits past this node's log

ASSUME ProposalsAssumption == Proposals \subseteq Payload
ASSUME NodeBoundsAssumption == MaxConflicts \in Nat /\ MaxLag \in Nat

VARIABLES
  fetched,     \* the log as read back for the apply call in progress
  conflicts    \* conflicting suffixes truncated so far

nodeVars == <<vars, logVars, fetched, conflicts>>

NodeInit ==
  /\ DbInit /\ ClusterInit /\ SMInit /\ LogInit
  /\ fetched = EmptyDb.log
  /\ conflicts = 0

\* The last log id OpenRaft read from the store is the one it appended.  If it
\* is not, the leader's entries conflict with it: the node can only truncate.
LastLogIdKnown ==
  core.index \in InLog(db) => core.term = db.appended[core.index].term

\* Entries for the next indices.  What the cluster has committed is fixed, and
\* one term has one entry at an index.
Batches(t) ==
  UNION {{b \in [(core.index + 1)..n -> Proposals] :
            \A i \in DOMAIN b :
              /\ i <= commitIndex => b[i] = committed[i]
              /\ db.appended[i].payload # NoEntry /\ db.appended[i].term = TermOf(t, i)
                   => b[i] = db.appended[i].payload} :
         n \in {m \in Index : core.index < m /\ m <= core.index + MaxBatch}}

NodeAppend ==
  /\ \/ LastLogIdKnown /\ \E t \in 1..MaxTerm : \E b \in Batches(t) : AppendEntries(t, b)
     \/ AppendMetadata
  /\ UNCHANGED <<clusterVars, smVars, fetched, conflicts>>

NodeSaveVote ==
  /\ \E t \in 1..MaxTerm, n \in NodeId, c \in BOOLEAN : SaveVote(t, n, c)
  /\ UNCHANGED <<clusterVars, smVars, fetched, conflicts>>

\* The cluster commits an entry of this node, or one it does not have yet.
NodeCommit ==
  /\ mode = "up"
  /\ LastLogIdKnown
  /\ \/ commitIndex < core.index /\ Commit(db.appended[commitIndex + 1].payload)
     \/ /\ core.index <= commitIndex
        /\ commitIndex < MaxIndex /\ commitIndex < core.index + MaxLag
        /\ \E p \in Proposals : db.appended[commitIndex + 1].payload \in {NoEntry, p} /\ Commit(p)
  /\ UNCHANGED <<logVars, fetched, conflicts>>

\* OpenRaft applies an entry once the leader has confirmed it, and stops when an
\* entry it must apply is not in the log.
NodeApply ==
  /\ \/ \E n \in Index :
          LET next == {i \in Index : db.applied < i /\ i <= n}
          IN /\ LastLogIdKnown
             /\ n <= commitIndex /\ n <= core.index
             /\ \A i \in next : db.appended[i].payload = committed[i]
             /\ \/ next \subseteq InLog(db) /\ Apply(n) /\ fetched' = db.log
                \/ /\ ~(next \subseteq InLog(db))
                   /\ mode = "up" /\ job = NoJob
                   /\ Fail /\ UNCHANGED <<clusterVars, smVars, fetched>>
     \/ Applying /\ ApplyEntry(fetched[job.next]) /\ UNCHANGED fetched
     \/ ApplyFinish /\ UNCHANGED fetched
  /\ UNCHANGED <<logVars, conflicts>>

NodeBuild ==
  /\ BuildReadApplied \/ BuildReadMembership
  /\ UNCHANGED <<logVars, fetched, conflicts>>

\* A leader that has purged the entries this node lacks sends a snapshot.  Its
\* last log id becomes OpenRaft's; the term of it is left as it was.
NodeInstall ==
  /\ \/ /\ \E n \in Index :
             /\ core.index < n /\ n <= commitIndex
             /\ \E i \in NoIndex..n : InstallApplied(n, i)
             /\ core' = [core EXCEPT !.index = n]
        /\ UNCHANGED <<cached_vote, last_cache, logop, saved, reader>>
     \/ InstallMembership /\ UNCHANGED logVars
     \/ /\ \E n \in Index : core.index < n /\ n <= commitIndex /\ InstallRefused(n)
        /\ UNCHANGED logVars
  /\ UNCHANGED <<fetched, conflicts>>

\* OpenRaft purges what its snapshot covers, and, when it finds the log behind
\* the applied index after a restart, everything up to that.
Purgeable(i) ==
  /\ job.op # "install"
  /\ db.purged < i
  /\ i <= Max2(built.last, current_snapshot.last) \/ (i = db.applied /\ LastLogId(db).index < i)

Conflicting(i) ==
  /\ conflicts < MaxConflicts
  /\ commitIndex < i \/ db.appended[i].payload # committed[i] \/ ~LastLogIdKnown
  /\ 0 < i /\ i <= core.index

NodeRead ==
  /\ ReaderStart \/ ReaderScan
  /\ UNCHANGED <<clusterVars, smVars, fetched, conflicts>>

NodePurge ==
  /\ \/ \E i \in Index : Purgeable(i) /\ PurgeEntries(i)
     \/ PurgeMetadata
  /\ UNCHANGED <<clusterVars, smVars, fetched, conflicts>>

NodeTruncate ==
  /\ \E i \in Index : Conflicting(i) /\ Truncate(i)
  /\ conflicts' = conflicts + 1
  /\ UNCHANGED <<clusterVars, smVars, fetched>>

NodeLogOpFails ==
  /\ \E i \in Index : Purgeable(i) \/ Conflicting(i)
  /\ LogOpFails
  /\ UNCHANGED <<clusterVars, smVars, fetched, conflicts>>

NodeCrash ==
  /\ Crash
  /\ LogForget
  /\ UNCHANGED <<fetched, conflicts>>

NodeOpen ==
  /\ Open
  /\ LogOpen
  /\ core' = [LastLogId(db) EXCEPT !.index = Max2(LastLogId(db).index, db.applied)]
  /\ UNCHANGED <<fetched, conflicts>>

NodeNext ==
  \/ NodeSaveVote \/ NodeAppend \/ NodeCommit \/ NodeApply \/ NodeBuild \/ NodeRead
  \/ NodeInstall \/ NodePurge \/ NodeTruncate \/ NodeLogOpFails
  \/ NodeCrash \/ NodeOpen

NodeSpec == NodeInit /\ [][NodeNext]_nodeVars

-----------------------------------------------------------------------------

\* Type invariant of the log store; RocksStateMachine's covers the rest.
NodeTypeOK ==
  /\ TypeOK
  /\ cached_vote \in [term : Nat, node : NodeId \cup {0}, committed : BOOLEAN]
  /\ last_cache \in {NoCache} \cup (0..MaxIndex)
  /\ logop \in [op : {"none", "append", "purge"}, id : [term : Nat, index : Span]]
  /\ core \in [term : Nat, index : Span]
  /\ reader \in [end : Span, last : [term : Nat, index : Span]]
  /\ fetched \in [Index -> Payload \cup {NoEntry}]

\* A vote save_vote returned for is never forgotten: every state a crash can
\* leave names the same term and node, and so does the cache read_vote uses, which
\* claims no more for it: a vote is committed only if it was saved as committed.
VoteKept ==
  /\ \A d \in survivors : d.vote.term = saved.term /\ d.vote.node = saved.node
  /\ cached_vote # NoVoteCached =>
       /\ cached_vote.term = saved.term /\ cached_vote.node = saved.node
       /\ cached_vote.committed => saved.committed

\* Unless it installed a snapshot, the node never restarts with a state machine
\* ahead of its log: `applied` is synced after, and so never without,
\* __last_log_id.  A node that has both truncated and crashed may hold an entry its
\* __last_log_id does not name, and truncate entries it has applied.
AppliedWithinLog ==
  conflicts = 0 \/ crashes = 0 =>
    \A d \in survivors : ~d.installed => d.applied <= LastLogId(d).index

\* Until truncate is called, which deletes entries it should keep, what a
\* restarted node has to apply again is in its log, as it was committed,
\* although log entries are written without fsync and purged.
RestartCanReplay ==
  conflicts = 0 =>
    \A d \in survivors : \A i \in Index :
      d.applied < i /\ i <= LastLogId(d).index =>
        /\ d.log[i] # NoEntry
        /\ i <= commitIndex => d.log[i] = Stored(committed[i])

\* A reader reads __last_log_id and then the entries, while others are appended, and
\* gives each the term of that id.  This is not an entry's own term if the leader has
\* changed since, but it is never a lower one: a follower is never sent a log that
\* looks less up to date than it is.  The exception is a reader that finds no
\* __last_log_id, because the first append lost it in a crash, and gives term 0:
\* what it gives that term wrongly has not been applied.  An installed snapshot, or a
\* truncation and a crash, can leave entries of which this is not so.
ReaderTermsNeverLower ==
  mode = "up" /\ reader # NoReader /\ ~db.installed /\ (conflicts = 0 \/ crashes = 0) =>
    \A i \in InLog(db) : i <= reader.end =>
      \/ ReaderTerm(i) >= db.appended[i].term
      \/ reader.last = NoLogId /\ db.applied < i

\* Storage::new succeeds on whatever a crash leaves: an empty log is Ok(None),
\* not corrupted data.  Installing a snapshot and purging what it covers can leave
\* a log with metadata and no entries.
Reopenable ==
  \A d \in survivors : ~d.installed => LastIndexFromDb(d) # CorruptedData

\* "delete all entries <= log_id": nothing up to __last_purged_log_id is left.
PurgedAreGone ==
  \A i \in InLog(db) : db.purged < i

\* "Remove conflicting entries": truncate leaves no entry past the last log id
\* OpenRaft then believes in.
ConflictsRemoved ==
  [][NodeTruncate => \A i \in InLog(db)' : i <= core'.index]_nodeVars

\* "Raft log operations preserve sequential ordering with no gaps": between two
\* operations every entry after the purged ones, up to the last log id, is there.
LogContiguous ==
  LogIdle => \A i \in Index : db.purged < i /\ i <= core.index => db.log[i] # NoEntry

\* An entry read back has the log id it was appended with.
LogIdsReadBack ==
  logop = NoOp =>
    \A i \in InLog(db) : i <= core.index => TermReadBack(db, i) = db.appended[i].term

=============================================================================
