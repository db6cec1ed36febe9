--------------------------- MODULE RocksNodeProofs ---------------------------
(***************************************************************************)
(* What a crash may not take from a node on RocksDB, for any number of     *)
(* nodes, terms, entries and crashes: a vote that save_vote has returned   *)
(* for, the entries up to __last_applied until a log with conflicts is     *)
(* lost, the terms that readers give, and a first entry that opening the   *)
(* log can read.                                                           *)
(*                                                                         *)
(* save_vote writes to STATE_CF, which is synced, so that one database is  *)
(* left to survive; every other write copies the vote along.  The rest     *)
(* rests on the invariant of the log in RocksNodeLogProofs.                *)
(***************************************************************************)
EXTENDS RocksNodeLogProofs

\* The vote in d is the one saved.
HoldsVote(d) ==
  "vote" \in DOMAIN d /\ d.vote.term = saved.term /\ d.vote.node = saved.node

\* The inductive invariant behind VoteKept.
VoteInv ==
  /\ db \in survivors
  /\ \A d \in survivors : HoldsVote(d)
  /\ cached_vote # NoVoteCached =>
       /\ cached_vote.term = saved.term /\ cached_vote.node = saved.node
       /\ cached_vote.committed => saved.committed

\* A write that leaves the vote alone, synced or not, keeps it in every survivor.
LEMMA PutKeepsVote ==
  ASSUME db \in survivors, \A d \in survivors : HoldsVote(d), saved' = saved,
         NEW cf, NEW e, "vote" \in DOMAIN e, e.vote = db.vote, Put(cf, e)
  PROVE  db' \in survivors' /\ \A d \in survivors' : HoldsVote(d)'
  BY DEF Put, HoldsVote

\* Nothing of what VoteInv speaks of changes.
LEMMA VoteStutter ==
  ASSUME VoteInv, UNCHANGED <<db, survivors, saved, cached_vote>>
  PROVE  VoteInv'
  BY DEF VoteInv, HoldsVote

LEMMA VoteInit == NodeInit => VoteInv
  BY DEF NodeInit, DbInit, LogInit, VoteInv, HoldsVote, EmptyDb, NoVote, NoVoteCached

\* A step that writes e, and neither saves nor caches a vote.
LEMMA VoteWrite ==
  ASSUME VoteInv, UNCHANGED <<saved, cached_vote>>,
         NEW cf, NEW e, "vote" \in DOMAIN e, e.vote = db.vote, Put(cf, e)
  PROVE  VoteInv'
<1>1. db' \in survivors' /\ \A d \in survivors' : HoldsVote(d)'
  BY PutKeepsVote DEF VoteInv
<1> QED
  BY <1>1 DEF VoteInv

LEMMA VoteSave == ASSUME VoteInv, NodeSaveVote PROVE VoteInv'
<1>1. PICK t \in 1..MaxTerm, n \in NodeId, c \in BOOLEAN : SaveVote(t, n, c)
  BY DEF NodeSaveVote
<1> DEFINE e == [db EXCEPT !.vote = [term |-> t, node |-> n]]
<1>2. "vote" \in DOMAIN db
  BY DEF VoteInv, HoldsVote
<1>3. db' = e /\ survivors' = {e}
  BY <1>1 DEF SaveVote, Put, RequiresFsync
<1>4. "vote" \in DOMAIN e /\ e.vote = [term |-> t, node |-> n]
  BY <1>2
<1> QED
  BY <1>1, <1>3, <1>4 DEF SaveVote, VoteInv, HoldsVote

LEMMA VoteAppend == ASSUME VoteInv, NodeAppend PROVE VoteInv'
<1>0. "vote" \in DOMAIN db
  BY DEF VoteInv, HoldsVote
<1>1. CASE LastLogIdKnown /\ \E t \in 1..MaxTerm : \E b \in Batches(t) : AppendEntries(t, b)
  <2>1. PICK t, b : AppendEntries(t, b)
    BY <1>1
  <2> DEFINE e == [db EXCEPT
             !.log = [i \in Index |-> IF i \in DOMAIN b THEN Stored(b[i]) ELSE db.log[i]],
             !.appended = [i \in Index |-> IF i \in DOMAIN b
                                            THEN [term |-> TermOf(t, i), payload |-> b[i]]
                                            ELSE db.appended[i]]]
  <2>2. Put("log", e) /\ UNCHANGED <<saved, cached_vote>>
    BY <2>1 DEF AppendEntries
  <2>3. "vote" \in DOMAIN e /\ e.vote = db.vote
    BY <1>0
  <2> HIDE DEF e
  <2> QED
    BY <2>2, <2>3, VoteWrite
<1>2. CASE AppendMetadata
  <2> DEFINE e == [db EXCEPT !.last = logop.id]
  <2>1. Put("log", e) /\ UNCHANGED <<saved, cached_vote>>
    BY <1>2 DEF AppendMetadata
  <2>2. "vote" \in DOMAIN e /\ e.vote = db.vote
    BY <1>0
  <2> HIDE DEF e
  <2> QED
    BY <2>1, <2>2, VoteWrite
<1> QED
  BY <1>1, <1>2 DEF NodeAppend

LEMMA VoteCommit == ASSUME VoteInv, NodeCommit PROVE VoteInv'
<1>1. UNCHANGED dbVars
  BY DEF NodeCommit, Commit
<1> QED
  BY <1>1, VoteStutter DEF NodeCommit, dbVars, logVars

\* One entry of apply, whatever its payload.
LEMMA VoteApplyEntry ==
  ASSUME VoteInv, UNCHANGED <<saved, cached_vote>>, NEW p, ApplyEntry(p)
  PROVE  VoteInv'
<1>0. "vote" \in DOMAIN db
  BY DEF VoteInv, HoldsVote
<1>1. CASE ApplyOperation(p)
  <2> DEFINE e == [db EXCEPT !.kv = [db.kv EXCEPT ![p.key] = ValueWritten(p)],
                             !.reached = Max2(db.reached, job.next)]
  <2>1. Put("kv", e)
    BY <1>1 DEF ApplyOperation
  <2>2. "vote" \in DOMAIN e /\ e.vote = db.vote
    BY <1>0
  <2> HIDE DEF e
  <2> QED
    BY <2>1, <2>2, VoteWrite
<1>2. CASE ApplyMembership(p)
  <2> DEFINE e == [db EXCEPT !.membership = [at |-> job.next, configs |-> Flattened(p.configs)],
                             !.reached = Max2(db.reached, job.next)]
  <2>1. Put("state", e)
    BY <1>2 DEF ApplyMembership
  <2>2. "vote" \in DOMAIN e /\ e.vote = db.vote
    BY <1>0
  <2> HIDE DEF e
  <2> QED
    BY <2>1, <2>2, VoteWrite
<1>3. CASE ApplyNothing(p)
  BY <1>3, VoteStutter DEF ApplyNothing, dbVars
<1>4. CASE ApplyGarbage(p)
  BY <1>4, VoteStutter DEF ApplyGarbage, Fail
<1> QED
  BY <1>1, <1>2, <1>3, <1>4 DEF ApplyEntry

LEMMA VoteApply == ASSUME VoteInv, NodeApply PROVE VoteInv'
<1>0. "vote" \in DOMAIN db /\ UNCHANGED <<saved, cached_vote>>
  BY DEF VoteInv, HoldsVote, NodeApply, logVars
<1>1. CASE \E n \in Index : Apply(n) \/ Fail
  BY <1>0, <1>1, VoteStutter DEF Apply, Fail, dbVars
<1>2. CASE Applying /\ ApplyEntry(fetched[job.next])
  BY <1>0, <1>2, VoteApplyEntry
<1>3. CASE ApplyFinish
  <2> DEFINE e == [db EXCEPT !.applied = job.end, !.reached = Max2(db.reached, job.end)]
  <2>1. Put("state", e)
    BY <1>3 DEF ApplyFinish
  <2>2. "vote" \in DOMAIN e /\ e.vote = db.vote
    BY <1>0
  <2> HIDE DEF e
  <2> QED
    BY <1>0, <2>1, <2>2, VoteWrite
<1> QED
  BY <1>1, <1>2, <1>3 DEF NodeApply

LEMMA VoteInstall == ASSUME VoteInv, NodeInstall PROVE VoteInv'
<1>0. "vote" \in DOMAIN db /\ UNCHANGED <<saved, cached_vote>>
  BY DEF VoteInv, HoldsVote, NodeInstall, logVars
<1>1. CASE \E n \in Index : \E i \in NoIndex..n : InstallApplied(n, i)
  <2>1. PICK n, i : InstallApplied(n, i)
    BY <1>1
  <2> DEFINE e == [db EXCEPT !.applied = n, !.installed = TRUE]
  <2>2. Put("state", e)
    BY <2>1 DEF InstallApplied
  <2>3. "vote" \in DOMAIN e /\ e.vote = db.vote
    BY <1>0
  <2> HIDE DEF e
  <2> QED
    BY <1>0, <2>2, <2>3, VoteWrite
<1>2. CASE InstallMembership
  <2> DEFINE e == [db EXCEPT !.membership =
                     [job.membership EXCEPT !.configs = Flattened(job.membership.configs)]]
  <2>1. Put("state", e)
    BY <1>2 DEF InstallMembership
  <2>2. "vote" \in DOMAIN e /\ e.vote = db.vote
    BY <1>0
  <2> HIDE DEF e
  <2> QED
    BY <1>0, <2>1, <2>2, VoteWrite
<1>3. CASE \E n \in Index : InstallRefused(n)
  BY <1>0, <1>3, VoteStutter DEF InstallRefused, Fail
<1> QED
  BY <1>1, <1>2, <1>3 DEF NodeInstall

\* truncate_log_before deletes log entries only.
LEMMA VoteTruncateBefore ==
  ASSUME VoteInv, UNCHANGED <<saved, cached_vote>>, NEW i, TruncateLogBefore(i)
  PROVE  VoteInv'
<1>1. CASE UNCHANGED dbVars
  BY <1>1, VoteStutter DEF dbVars
<1>2. CASE Put("log", [db EXCEPT !.log = Truncated(db.log, CachedLastIndex, i)])
  <2> DEFINE e == [db EXCEPT !.log = Truncated(db.log, CachedLastIndex, i)]
  <2>1. "vote" \in DOMAIN e /\ e.vote = db.vote
    BY DEF VoteInv, HoldsVote
  <2> HIDE DEF e
  <2> QED
    BY <1>2, <2>1, VoteWrite DEF e
<1> QED
  BY <1>1, <1>2 DEF TruncateLogBefore

LEMMA VotePurge == ASSUME VoteInv, NodePurge PROVE VoteInv'
<1>1. CASE \E i \in Index : Purgeable(i) /\ PurgeEntries(i)
  BY <1>1, VoteTruncateBefore DEF PurgeEntries
<1>2. CASE PurgeMetadata
  <2> DEFINE e == [db EXCEPT !.purged = logop.id.index]
  <2>1. Put("log", e) /\ UNCHANGED <<saved, cached_vote>>
    BY <1>2 DEF PurgeMetadata
  <2>2. "vote" \in DOMAIN e /\ e.vote = db.vote
    BY DEF VoteInv, HoldsVote
  <2> HIDE DEF e
  <2> QED
    BY <2>1, <2>2, VoteWrite
<1> QED
  BY <1>1, <1>2 DEF NodePurge

LEMMA VoteTruncate == ASSUME VoteInv, NodeTruncate PROVE VoteInv'
  BY VoteTruncateBefore DEF NodeTruncate, Truncate

\* Steps that write nothing: reads, snapshots being built, a failed operation.
LEMMA VoteQuiet ==
  ASSUME VoteInv, NodeBuild \/ NodeRead \/ NodeLogOpFails
  PROVE  VoteInv'
<1>1. CASE NodeBuild
  BY <1>1, VoteStutter DEF NodeBuild, BuildReadApplied, BuildReadMembership, dbVars, logVars
<1>2. CASE NodeRead
  BY <1>2, VoteStutter DEF NodeRead, ReaderStart, ReaderScan, dbVars
<1>3. CASE NodeLogOpFails
  BY <1>3, VoteStutter DEF NodeLogOpFails, LogOpFails, Fail, logVars
<1> QED
  BY <1>1, <1>2, <1>3

LEMMA VoteCrash == ASSUME VoteInv, NodeCrash PROVE VoteInv'
  BY DEF NodeCrash, Crash, LoseUnsynced, LogForget, VoteInv, HoldsVote

\* read_vote rebuilds an uncommitted vote from what survived.
LEMMA VoteOpen == ASSUME VoteInv, NodeOpen PROVE VoteInv'
  BY DEF NodeOpen, Open, LogOpen, VoteRead, VoteInv, HoldsVote

\* A vote that save_vote has returned for is never forgotten, whatever the machine
\* loses in a crash.
THEOREM VoteAlwaysKept == NodeSpec => []VoteKept
<1>1. VoteInv /\ [NodeNext]_nodeVars => VoteInv'
  <2> SUFFICES ASSUME VoteInv, [NodeNext]_nodeVars PROVE VoteInv'
    OBVIOUS
  <2>1. CASE UNCHANGED nodeVars
    BY <2>1, VoteStutter DEF nodeVars, vars, dbVars, logVars
  <2>2. CASE NodeNext
    BY <2>2, VoteSave, VoteAppend, VoteCommit, VoteApply, VoteInstall, VotePurge, VoteTruncate,
       VoteQuiet, VoteCrash, VoteOpen DEF NodeNext
  <2> QED
    BY <2>1, <2>2
<1>2. VoteInv => VoteKept
  BY DEF VoteInv, VoteKept, HoldsVote
<1> QED
  BY VoteInit, <1>1, <1>2, PTL DEF NodeSpec

-----------------------------------------------------------------------------
\* What any step but a crash writes.

LEMMA StepWrites ==
  ASSUME LogInv, "purged" \in DOMAIN db, NodeNext, ~NodeCrash
  PROVE  /\ db' \in survivors' /\ survivors' \subseteq survivors \cup {db'}
         /\ "purged" \in DOMAIN db' /\ db'.installed \in {db.installed, TRUE}
         /\ crashes' = crashes /\ (mode # "down" => mode' # "down")
<1>0. {"installed", "purged"} \subseteq DOMAIN db /\ db \in survivors
  BY DbFacts
<1>2. ASSUME UNCHANGED <<db, survivors, crashes>>, mode # "down" => mode' # "down"
      PROVE  /\ db' \in survivors' /\ survivors' \subseteq survivors \cup {db'}
             /\ "purged" \in DOMAIN db' /\ db'.installed \in {db.installed, TRUE}
             /\ crashes' = crashes /\ (mode # "down" => mode' # "down")
  BY <1>0, <1>2
<1>3. CASE NodeSaveVote
  BY <1>0, <1>3, SMTT(30) DEF NodeSaveVote, SaveVote, Put
<1>4. CASE NodeAppend
  BY <1>0, <1>4, Zenon DEF NodeAppend, AppendEntries, AppendMetadata, Put
<1>5. CASE NodeApply
  BY <1>0, <1>5, Zenon DEF NodeApply, Apply, Fail, ApplyEntry, ApplyOperation, ApplyMembership, ApplyNothing,
                    ApplyGarbage, ApplyFinish, Put, dbVars
<1>6. CASE NodeInstall
  <2>1. ASSUME NEW n, NEW i, InstallApplied(n, i)
        PROVE  /\ db' \in survivors' /\ survivors' \subseteq survivors \cup {db'}
               /\ "purged" \in DOMAIN db' /\ db'.installed \in {db.installed, TRUE}
               /\ crashes' = crashes /\ (mode # "down" => mode' # "down")
    BY <1>0, <2>1 DEF InstallApplied, Put
  <2>2. CASE InstallMembership
    BY <1>0, <2>2 DEF InstallMembership, Put
  <2>3. ASSUME NEW n, InstallRefused(n)
        PROVE  UNCHANGED <<db, survivors, crashes>> /\ (mode # "down" => mode' # "down")
    BY <2>3 DEF InstallRefused, Fail
  <2> QED
    BY <1>2, <1>6, <2>1, <2>2, <2>3, Zenon DEF NodeInstall
<1>7. CASE NodePurge
  BY <1>0, <1>7, Zenon DEF NodePurge, PurgeEntries, PurgeMetadata, TruncateLogBefore, Put, dbVars
<1>8. CASE NodeTruncate
  BY <1>0, <1>8, Zenon DEF NodeTruncate, Truncate, TruncateLogBefore, Put, dbVars
<1>9. CASE NodeCommit \/ NodeBuild \/ NodeRead \/ NodeLogOpFails \/ NodeOpen
  BY <1>2, <1>9, Zenon DEF NodeCommit, Commit, NodeBuild, BuildReadApplied, BuildReadMembership, NodeRead,
       ReaderStart, ReaderScan, NodeLogOpFails, LogOpFails, Fail, NodeOpen, Open, dbVars
<1> QED
  BY <1>3, <1>4, <1>5, <1>6, <1>7, <1>8, <1>9, Zenon DEF NodeNext

-----------------------------------------------------------------------------
\* The applied index and the log.

\* While nothing was truncated, the log covers what is applied.
LEMMA WithinBeforeConflict ==
  ASSUME LogInv, conflicts = 0, NEW d \in survivors, ~d.installed
  PROVE  d.applied <= LastLogId(d).index
<1>1. LogDb(d) /\ TailInv
  BY DEF LogInv, DbInv
<1>2. /\ LastLogId(d).index \in Span
      /\ \A i \in Index : i <= LastLogId(d).index <=> Covered(d, i)
  BY <1>1, CoveredMeans
<1>3. CASE d.applied \in Index
  BY <1>1, <1>2, <1>3, Zenon DEF TailInv
<1>4. CASE d.applied = NoIndex
  BY <1>2, <1>4, FirstIndexAssumption, MaxIndexAssumption, SMTT(30) DEF Span, NoIndex
<1>5. d.applied \in Index \/ d.applied = NoIndex
  BY <1>1, FirstIndexAssumption, MaxIndexAssumption DEF LogDb, Span, NoIndex, Index
<1> QED
  BY <1>3, <1>4, <1>5

\* The entries up to n are in the log as they were committed: no leader's entries can
\* conflict with them.
Settled(n) == \A i \in Index : i <= n => i <= commitIndex /\ db.appended[i].payload = committed[i]

\* While the node has not crashed, OpenRaft knows the log id of its last entry, and
\* truncates nothing that is applied or being applied.
SettledInv ==
  /\ mode # "down"
  /\ core.index \in Index => core.term = db.appended[core.index].term
  /\ logop.op = "append" => /\ core.index < logop.id.index
                            /\ logop.id.term = db.appended[logop.id.index].term
  /\ core.index <= db.last.index
  /\ db.applied <= core.index /\ Settled(db.applied)
  /\ job.op = "apply" => job.end <= core.index /\ Settled(job.end)
  /\ \A d \in survivors : d.applied <= d.last.index

LEMMA SettledFacts ==
  ASSUME LogInv, SettledInv
  PROVE  /\ LastLogIdKnown
         /\ Index \subseteq Int /\ Span \subseteq Int
         /\ db.applied \in Int /\ core.index \in Int /\ db.last.index \in Int /\ commitIndex \in Int
<1>1. Index \subseteq Int /\ Span \subseteq Int
  BY FirstIndexAssumption, MaxIndexAssumption DEF Index, Span, NoIndex
<1>2. db.applied \in Int /\ core.index \in Int /\ db.last.index \in Int /\ commitIndex \in Int
  BY <1>1, DbFacts, Zenon
<1>3. LastLogIdKnown
  BY DEF SettledInv, LastLogIdKnown, InLog
<1> QED
  BY <1>1, <1>2, <1>3

\* A step that leaves the log and its last index alone.
LEMMA SettledUntouched ==
  ASSUME LogInv, SettledInv, Untouched,
         job'.op = "apply" => job'.end <= core.index /\ Settled(job'.end)
  PROVE  SettledInv'
<1>1. /\ db'.appended = db.appended /\ db'.last = db.last /\ db'.applied = db.applied
      /\ UNCHANGED <<core, committed, commitIndex>> /\ mode' # "down"
      /\ survivors' \subseteq survivors \cup {db'} /\ db \in survivors
  BY DbFacts, Zenon DEF Untouched, SameLog
<1>2. logop'.op = "append" => logop' = logop
  BY UntouchedBase, SMTT(30) DEF LogInv
<1>3. \A n : Settled(n) <=> Settled(n)'
  BY <1>1, SMTT(30) DEF Settled
<1>4. \A d \in survivors' : d.applied <= d.last.index
  BY <1>1, Zenon DEF SettledInv
<1>5. Settled(db.applied)'
  BY <1>1, SMTT(30) DEF SettledInv, Settled
<1>6. job'.op = "apply" => job'.end <= core'.index /\ \A i \in Index : i <= job'.end =>
        i <= commitIndex' /\ db'.appended[i].payload = committed'[i]
  BY <1>1, Zenon DEF Settled
<1> QED
  BY <1>1, <1>2, <1>4, <1>5, <1>6, Zenon DEF SettledInv, Settled

LEMMA SettledAppend ==
  ASSUME LogInv, SettledInv, NodeAppend
  PROVE  SettledInv'
<1>0. UNCHANGED <<committed, commitIndex, job, conflicts>> /\ UNCHANGED clusterVars
  BY SMTT(30) DEF NodeAppend, clusterVars, smVars
<1>1. ASSUME NEW t \in 1..MaxTerm, NEW b \in Batches(t), AppendEntries(t, b) PROVE SettledInv'
  <2>1. PICK n \in Index :
           /\ core.index < n
           /\ logop' = [op |-> "append", id |-> [term |-> TermOf(t, n), index |-> n]]
           /\ db'.last = db.last /\ db'.applied = db.applied
           /\ \A i \in Index : core.index < i /\ i <= n => db'.appended[i].term = TermOf(t, i)
           /\ \A i \in Index : ~(core.index < i /\ i <= n) => db'.appended[i] = db.appended[i]
    BY <1>0, <1>1, AppendFacts, Zenon
  <2>2. UNCHANGED <<core, mode>> /\ survivors' \subseteq survivors \cup {db'} /\ db \in survivors
    BY <1>1, DbFacts, Zenon DEF AppendEntries, Put
  <2>3. \A i \in Index : i <= core.index => db'.appended[i] = db.appended[i]
    BY <2>1, SettledFacts, SMTT(60)
  <2>4. \A m \in Int : m <= core.index /\ Settled(m) =>
          \A i \in Index : i <= m => i <= commitIndex' /\ db'.appended[i].payload = committed'[i]
    <3>1. \A m \in Int : m <= core.index => \A i \in Index : i <= m => i <= core.index
      BY SettledFacts, SMTT(30)
    <3> QED
      BY <1>0, <2>3, <3>1, Zenon DEF Settled
  <2>5. Settled(db.applied)' /\ db'.applied <= core'.index
    BY <2>1, <2>2, <2>4, SettledFacts, Zenon DEF SettledInv, Settled
  <2>6. job'.op = "apply" => job'.end <= core'.index /\ Settled(job.end)'
    <3>1. job.op = "apply" => job.end \in Int
      BY SettledFacts, Zenon DEF LogInv, TaskInv
    <3> QED
      BY <1>0, <2>2, <2>4, <3>1, SMTT(30) DEF SettledInv, Settled
  <2>7. \A d \in survivors' : d.applied <= d.last.index
    BY <2>1, <2>2, Zenon DEF SettledInv
  <2>8. core'.index \in Index => core'.term = db'.appended[core'.index].term
    <3>1. core.index <= core.index
      BY SettledFacts, SMTT(30)
    <3> QED
      BY <2>2, <2>3, <3>1, SMTT(30) DEF SettledInv
  <2>9. /\ core'.index < logop'.id.index
        /\ logop'.id.term = db'.appended[logop'.id.index].term
    <3>1. n <= n
      BY SettledFacts, SMTT(60)
    <3> QED
      BY <2>1, <2>2, <3>1, Zenon
  <2> QED
    BY <2>1, <2>2, <2>5, <2>6, <2>7, <2>8, <2>9, Zenon DEF SettledInv, Settled
<1>2. CASE AppendMetadata
  <2>1. /\ logop.op = "append" /\ logop' = NoOp /\ core' = logop.id /\ mode' = mode
        /\ db' = [db EXCEPT !.last = logop.id] /\ survivors' \subseteq survivors \cup {db'}
    BY <1>2 DEF AppendMetadata, Put
  <2>2. db'.last = logop.id /\ db'.appended = db.appended /\ db'.applied = db.applied /\ db \in survivors
    BY <2>1, DbFacts
  <2>3. logop.id.index \in Int /\ core.index < logop.id.index
    BY <2>1, SettledFacts DEF LogInv, CoreInv, SettledInv
  <2>4. Settled(db.applied)' /\ db'.applied <= core'.index
    <3>1. db.applied <= logop.id.index
      BY <2>3, SettledFacts, SMTT(60) DEF SettledInv
    <3> QED
      BY <1>0, <2>1, <2>2, <3>1, SMTT(30) DEF SettledInv, Settled
  <2>5. job'.op = "apply" => job'.end <= core'.index /\ Settled(job.end)'
    <3>1. job.op = "apply" => job.end \in Int
      BY SettledFacts, SMTT(30) DEF LogInv, TaskInv
    <3>2. job.op = "apply" => job.end <= logop.id.index
      BY <2>3, <3>1, SettledFacts, SMTT(60) DEF SettledInv
    <3> QED
      BY <1>0, <2>1, <2>2, <3>2, SMTT(30) DEF SettledInv, Settled
  <2>6. \A d \in survivors' : d.applied <= d.last.index
    BY <2>1, <2>2, <2>4, Zenon DEF SettledInv
  <2>7. core'.index \in Index => core'.term = db'.appended[core'.index].term
    BY <2>1, <2>2 DEF SettledInv
  <2>8. logop'.op # "append" /\ core'.index <= db'.last.index
    BY <2>1, <2>2, <2>3 DEF NoOp
  <2> QED
    BY <2>1, <2>4, <2>5, <2>6, <2>7, <2>8 DEF SettledInv, Settled
<1> QED
  BY <1>1, <1>2 DEF NodeAppend


LEMMA SettledCommit ==
  ASSUME LogInv, SettledInv, NodeCommit
  PROVE  SettledInv'
<1>1. PICK p : Commit(p)
  BY SMTT(30) DEF NodeCommit
<1>2. /\ committed' = [committed EXCEPT ![commitIndex + 1] = p] /\ commitIndex' = commitIndex + 1
      /\ UNCHANGED <<db, survivors, mode, core, logop, job>>
  BY <1>1, Zenon DEF NodeCommit, Commit, dbVars, smVars, logVars
<1>3. \A i \in Index : i <= commitIndex => i <= commitIndex' /\ committed'[i] = committed[i]
  BY <1>2, SettledFacts, SMTT(60) DEF LogInv, CoreInv
<1>4. \A n : Settled(n) =>
        \A i \in Index : i <= n => i <= commitIndex' /\ db'.appended[i].payload = committed'[i]
  BY <1>2, <1>3 DEF Settled
<1> QED
  BY <1>2, <1>4, Zenon DEF SettledInv, Settled

LEMMA SettledApply ==
  ASSUME LogInv, SettledInv, NodeApply
  PROVE  SettledInv'
<1>0. UNCHANGED <<core, logop, reader, conflicts>> /\ UNCHANGED <<committed, commitIndex>>
  BY Zenon DEF NodeApply, Apply, ApplyEntry, ApplyOperation, ApplyMembership, ApplyNothing, ApplyGarbage,
         NextEntry, ApplyFinish, clusterVars, logVars
<1>1. ASSUME NEW n \in Index, n <= commitIndex, n <= core.index, Apply(n),
             \A i \in {j \in Index : db.applied < j /\ j <= n} : db.appended[i].payload = committed[i]
      PROVE  SettledInv'
  <2>1. mode = "up" /\ UNCHANGED <<db, survivors, mode>> /\ job'.end = n
    BY <1>1 DEF Apply, dbVars, NoJob
  <2>2. Untouched
    BY <1>0, <2>1, QuietUntouched DEF LogInv
  <2>3. Settled(n)
    <3>1. ASSUME NEW i \in Index, i <= n PROVE i <= commitIndex /\ db.appended[i].payload = committed[i]
      <4>1. CASE i <= db.applied
        BY <4>1, Zenon DEF SettledInv, Settled
      <4>2. CASE db.applied < i
        BY <1>1, <3>1, <4>2, SettledFacts, SMTT(30)
      <4>3. i <= db.applied \/ db.applied < i
        BY SettledFacts, SMTT(30)
      <4> QED
        BY <4>1, <4>2, <4>3, SMTT(30)
    <3> QED
      BY <3>1, SMTT(30) DEF Settled
  <2> QED
    BY <1>1, <2>1, <2>2, <2>3, SettledUntouched
<1>2. CASE mode = "up" /\ Fail /\ UNCHANGED smVars
  <2>1. mode' # "down" /\ UNCHANGED <<db, survivors, job>>
    BY <1>2 DEF Fail, smVars
  <2>2. Untouched
    BY <1>0, <1>2, <2>1, QuietUntouched, SMTT(30) DEF LogInv
  <2> QED
    BY <2>1, <2>2, SettledUntouched, Zenon DEF SettledInv
<1>3. CASE Applying /\ ApplyEntry(fetched[job.next])
  <2>1. mode = "up" /\ (job' = [job EXCEPT !.next = job.next + 1] \/ job' = NoJob)
    BY <1>3 DEF Applying, ApplyEntry, ApplyOperation, ApplyMembership, ApplyNothing, ApplyGarbage, NextEntry
  <2>2. job'.op = "apply" => job.op = "apply" /\ job'.end = job.end
    BY <2>1 DEF LogInv, TaskInv, NoJob
  <2>3. Untouched
    BY <1>0, <1>3, <2>1, EntryUntouched
  <2> QED
    BY <2>2, <2>3, SettledUntouched, Zenon DEF SettledInv
<1>4. CASE ApplyFinish
  <2>1. /\ mode' = mode /\ job.op = "apply" /\ job' = NoJob /\ survivors' = {db'}
        /\ db' = [db EXCEPT !.applied = job.end, !.reached = Max2(db.reached, job.end)]
    BY <1>4 DEF ApplyFinish, Put, RequiresFsync
  <2>2. db'.last = db.last /\ db'.appended = db.appended /\ db'.applied = job.end
    BY <2>1, DbFacts
  <2>3. job.end \in Int /\ job.end <= core.index /\ core.index <= db.last.index /\ Settled(job.end)
    BY <2>1, SettledFacts DEF LogInv, TaskInv, SettledInv
  <2>4. job.end <= db.last.index
    BY <2>3, SettledFacts, SMTT(30)
  <2>5. Settled(db.applied)'
    BY <1>0, <2>2, <2>3 DEF Settled
  <2>6. job'.op # "apply"
    BY <2>1, SMTT(30) DEF NoJob
  <2> QED
    BY <1>0, <2>1, <2>2, <2>3, <2>4, <2>5, <2>6 DEF SettledInv
<1> QED
  BY <1>1, <1>2, <1>3, <1>4 DEF NodeApply

\* Of the entries truncate takes away none is settled.
LEMMA SettledTruncate ==
  ASSUME LogInv, SettledInv, NodeTruncate
  PROVE  SettledInv'
<1>1. PICK i \in Index : Conflicting(i) /\ Truncate(i)
  BY SMTT(30) DEF NodeTruncate
<1>2. /\ mode = "up" /\ logop = NoOp /\ TruncateLogBefore(i)
      /\ core' = IF i = FirstIndex THEN NoLogId ELSE [term |-> db.appended[i - 1].term, index |-> i - 1]
      /\ UNCHANGED <<committed, commitIndex, logop, job>>
  BY <1>1, Zenon DEF NodeTruncate, Truncate, LogIdle, clusterVars, smVars
<1>3. /\ i \in Int /\ i <= core.index
      /\ commitIndex < i \/ db.appended[i].payload # committed[i]
  BY <1>1, SettledFacts, SMTT(30) DEF Conflicting
<1>4. /\ survivors' \subseteq survivors \cup {db'} /\ mode' = "up"
      /\ db'.last = db.last /\ db'.appended = db.appended /\ db'.applied = db.applied
  BY <1>2, <1>3, DeleteFacts, Zenon
<1>5. core'.index = i - 1 /\ (core'.index \in Index => core'.term = db.appended[core'.index].term)
  BY <1>2, FirstIndexAssumption, MaxIndexAssumption, SMTT(30) DEF NoLogId, NoIndex, Index
<1>6. ASSUME NEW n \in Int, Settled(n) PROVE n <= i - 1
  <2>1. ~(i <= n)
    BY <1>3, <1>6, SettledFacts, SMTT(30) DEF Settled
  <2> QED
    BY <1>3, <2>1
<1>7. \A n : Settled(n) =>
        \A j \in Index : j <= n => j <= commitIndex' /\ db'.appended[j].payload = committed'[j]
  BY <1>2, <1>4, SMTT(30) DEF Settled
<1>8. core'.index <= db'.last.index
  BY <1>3, <1>4, <1>5, SettledFacts, SMTT(60) DEF SettledInv
<1>9. db'.applied <= core'.index
  BY <1>4, <1>5, <1>6, SettledFacts, Zenon DEF SettledInv
<1>10. job'.op = "apply" => job'.end <= core'.index
  <2>1. job.op = "apply" => job.end \in Int
    BY SettledFacts, SMTT(30) DEF LogInv, TaskInv
  <2> QED
    BY <1>2, <1>5, <1>6, <2>1, Zenon DEF SettledInv
<1>11. \A d \in survivors' : d.applied <= d.last.index
  BY <1>4, DbFacts, SMTT(30) DEF SettledInv
<1>12. logop'.op # "append"
  BY <1>2 DEF NoOp
<1> QED
  BY <1>2, <1>4, <1>5, <1>7, <1>8, <1>9, <1>10, <1>11, <1>12, Zenon DEF SettledInv, Settled

LEMMA SettledPurge ==
  ASSUME LogInv, SettledInv, NodePurge
  PROVE  SettledInv'
<1>0. UNCHANGED <<committed, commitIndex, job, conflicts>>
  BY SMTT(30) DEF NodePurge, clusterVars, smVars
<1>1. ASSUME NEW i \in Index, PurgeEntries(i) PROVE SettledInv'
  <2>1. /\ mode = "up" /\ TruncateLogBefore(i + 1) /\ core' = core /\ logop'.op = "purge"
    BY <1>1 DEF PurgeEntries, LogIdle
  <2>2. i + 1 \in Int
    BY SettledFacts, SMTT(30)
  <2>3. /\ survivors' \subseteq survivors \cup {db'} /\ mode' = "up"
        /\ db'.last = db.last /\ db'.appended = db.appended /\ db'.applied = db.applied
    BY <2>1, <2>2, DeleteFacts, SMTT(30)
  <2>4. \A n : Settled(n) =>
          \A j \in Index : j <= n => j <= commitIndex' /\ db'.appended[j].payload = committed'[j]
    BY <1>0, <2>3, SMTT(30) DEF Settled
  <2>5. \A d \in survivors' : d.applied <= d.last.index
    BY <2>3, DbFacts DEF SettledInv
  <2> QED
    BY <1>0, <2>1, <2>3, <2>4, <2>5, Zenon DEF SettledInv, Settled
<1>2. CASE PurgeMetadata
  <2>1. Untouched
    BY <1>0, <1>2, PurgeMetadataUntouched
  <2> QED
    BY <1>0, <2>1, SettledUntouched, Zenon DEF SettledInv
<1> QED
  BY <1>1, <1>2 DEF NodePurge


\* The remaining steps of a node that has not crashed touch no log.
LEMMA SettledRest ==
  ASSUME LogInv, SettledInv, NodeSaveVote \/ NodeBuild \/ NodeRead \/ NodeLogOpFails
  PROVE  SettledInv'
<1>1. CASE NodeSaveVote
  <2>1. PICK t \in 1..MaxTerm, n \in NodeId, c \in BOOLEAN : SaveVote(t, n, c)
    BY <1>1 DEF NodeSaveVote
  <2> DEFINE e == [db EXCEPT !.vote = [term |-> t, node |-> n]]
  <2>2. SameLog(db, e)
    BY DbFacts DEF SameLog
  <2>3. /\ mode = "up" /\ Put("state", e) /\ UNCHANGED <<committed, commitIndex, core, conflicts, logop>>
        /\ job' = job
    BY <1>1, <2>1, SMTT(30) DEF SaveVote, LogIdle, NodeSaveVote, clusterVars, smVars
  <2> HIDE DEF e
  <2> QED
    BY <2>2, <2>3, PutUntouched, SettledUntouched, Zenon DEF SettledInv
<1>2. CASE NodeBuild \/ NodeRead \/ NodeLogOpFails
  <2>1. /\ mode = "up" /\ mode' # "down"
        /\ UNCHANGED <<db, survivors, committed, commitIndex, core, logop, conflicts, job>>
    BY <1>2, Zenon DEF NodeBuild, BuildReadApplied, BuildReadMembership, NodeLogOpFails, LogOpFails, LogIdle,
         Fail, NodeRead, ReaderStart, ReaderScan, dbVars, clusterVars, smVars, logVars
  <2>2. Untouched
    BY <2>1, QuietUntouched DEF LogInv
  <2> QED
    BY <2>1, <2>2, SettledUntouched, Zenon DEF SettledInv
<1> QED
  BY <1>1, <1>2, SMTT(30)

LEMMA SettledInstall ==
  ASSUME LogInv, SettledInv, NodeInstall, ~db'.installed
  PROVE  SettledInv'
<1>1. ASSUME NEW n, NEW i, InstallApplied(n, i) PROVE FALSE
  BY <1>1, DbFacts, SMTT(30) DEF InstallApplied, Put
<1>2. CASE InstallMembership /\ UNCHANGED logVars
  <2> DEFINE e == [db EXCEPT !.membership =
                     [job.membership EXCEPT !.configs = Flattened(job.membership.configs)]]
  <2>1. SameLog(db, e) /\ Put("state", e) /\ mode = "up"
    BY <1>2, DbFacts DEF SameLog, InstallMembership
  <2>2. UNCHANGED <<committed, commitIndex, core, logop, conflicts>> /\ job' = NoJob
    BY <1>2 DEF InstallMembership, NodeInstall, clusterVars, logVars
  <2> HIDE DEF e
  <2>3. job'.op # "apply"
    BY <2>2, SMTT(30) DEF NoJob
  <2> QED
    BY <2>1, <2>2, <2>3, PutUntouched, SettledUntouched
<1>3. ASSUME NEW n, InstallRefused(n), UNCHANGED logVars PROVE SettledInv'
  <2>1. /\ mode = "up" /\ mode' # "down"
        /\ UNCHANGED <<db, survivors, committed, commitIndex, core, logop, conflicts, job>>
    BY <1>3 DEF InstallRefused, Fail, clusterVars, smVars, logVars, NodeInstall
  <2>2. Untouched
    BY <2>1, QuietUntouched, SMTT(30) DEF LogInv
  <2> QED
    BY <2>1, <2>2, SettledUntouched, Zenon DEF SettledInv
<1> QED
  BY <1>1, <1>2, <1>3 DEF NodeInstall

\* SettledInv holds until a crash or an installed snapshot.
UncrashedInv ==
  /\ "purged" \in DOMAIN db /\ \A d \in survivors : "purged" \in DOMAIN d
  /\ crashes \in Nat
  /\ crashes = 0 => mode # "down"
  /\ crashes = 0 /\ ~db.installed => SettledInv

LEMMA UncrashedInit == NodeInit => UncrashedInv
<1> SUFFICES ASSUME NodeInit PROVE UncrashedInv
  OBVIOUS
<1>1. /\ db = EmptyDb /\ survivors = {EmptyDb} /\ mode = "up" /\ crashes = 0 /\ core = NoLogId
      /\ logop = NoOp /\ job = NoJob
  BY SMTT(30) DEF NodeInit, DbInit, SMInit, LogInit
<1>2. /\ "purged" \in DOMAIN EmptyDb /\ EmptyDb.last.index = NoIndex /\ EmptyDb.applied = NoIndex
      /\ NoOp.op # "append" /\ NoJob.op # "apply" /\ NoLogId.index = NoIndex
  BY Zenon DEF EmptyDb, NoLogId, NoOp, NoJob
<1>3. NoIndex <= NoIndex /\ NoIndex \notin Index /\ \A i \in Index : ~(i <= NoIndex)
  BY FirstIndexAssumption, MaxIndexAssumption, SMTT(30) DEF NoIndex, Index
<1>4. SettledInv
  BY <1>1, <1>2, <1>3 DEF SettledInv, Settled
<1> QED
  BY <1>1, <1>2, <1>4 DEF UncrashedInv

LEMMA UncrashedStep ==
  ASSUME LogInv, UncrashedInv, [NodeNext]_nodeVars
  PROVE  UncrashedInv'
<1>1. CASE UNCHANGED nodeVars
  BY <1>1, Zenon DEF nodeVars, vars, dbVars, clusterVars, smVars, logVars, UncrashedInv, SettledInv, Settled
<1>2. CASE NodeCrash
  BY <1>2 DEF NodeCrash, Crash, LoseUnsynced, UncrashedInv
<1>3. CASE NodeNext /\ ~NodeCrash
  <2>1. /\ db' \in survivors' /\ survivors' \subseteq survivors \cup {db'}
        /\ "purged" \in DOMAIN db' /\ db'.installed \in {db.installed, TRUE}
        /\ crashes' = crashes /\ (mode # "down" => mode' # "down")
    BY <1>3, StepWrites, Zenon DEF UncrashedInv
  <2>2. ASSUME crashes = 0, ~db'.installed PROVE SettledInv'
    <3>1. SettledInv /\ mode # "down"
      BY <2>1, <2>2, Zenon DEF UncrashedInv
    <3>2. ~NodeOpen
      BY <3>1 DEF NodeOpen, Open
    <3> QED
      BY <1>3, <2>2, <3>1, <3>2, SettledAppend, SettledCommit, SettledApply, SettledTruncate, SettledPurge,
         SettledRest, SettledInstall DEF NodeNext
  <2> QED
    BY <2>1, <2>2 DEF UncrashedInv
<1> QED
  BY <1>1, <1>2, <1>3, SMTT(30)

LEMMA AlwaysUncrashedInv == NodeSpec => []UncrashedInv
<1>1. LogInv /\ UncrashedInv /\ [NodeNext]_nodeVars => UncrashedInv'
  BY UncrashedStep
<1> QED
  BY AlwaysLogInv, UncrashedInit, <1>1, PTL DEF NodeSpec

\* The node never restarts with a state machine ahead of its log, unless it installed a
\* snapshot or both truncated its log and crashed.
THEOREM AppliedAlwaysWithinLog == NodeSpec => []AppliedWithinLog
<1>1. LogInv /\ UncrashedInv => AppliedWithinLog
  <2> SUFFICES ASSUME LogInv, UncrashedInv, conflicts = 0 \/ crashes = 0, NEW d \in survivors, ~d.installed
               PROVE  d.applied <= LastLogId(d).index
    BY DEF AppliedWithinLog
  <2>1. CASE conflicts = 0
    BY <2>1, WithinBeforeConflict
  <2>2. CASE crashes = 0
    <3>1. LogDb(d) /\ d.applied <= d.last.index
      BY <2>2, Zenon DEF LogInv, DbInv, UncrashedInv, SettledInv
    <3>2. CASE d.last # NoLogId
      BY <3>1, <3>2 DEF LastLogId
    <3>3. CASE d.last = NoLogId
      <4>1. LastLogId(d).index \in Span /\ d.applied \in Span /\ d.applied <= NoIndex
        BY <3>1, <3>3, CoveredMeans, SMTT(60) DEF LogDb, NoLogId
      <4> QED
        BY <4>1, FirstIndexAssumption, MaxIndexAssumption, SMTT(30) DEF Span, NoIndex
    <3> QED
      BY <3>2, <3>3, SMTT(30)
  <2> QED
    BY <2>1, <2>2
<1> QED
  BY AlwaysLogInv, AlwaysUncrashedInv, <1>1, PTL

-----------------------------------------------------------------------------
\* The terms a reader gives.

\* While the node has not crashed, terms do not fall along the log, truncated or not,
\* and __last_log_id has no lower term than OpenRaft's last log id.
TermsInv ==
  /\ \A i, j \in Index : i <= j /\ j <= Tail => db.appended[i].term <= db.appended[j].term
  /\ core.index \in Index => core.term <= db.last.term

\* The reader asks for entries up to one that is appended, and __last_log_id, when it
\* found one, covers them.  When it found none, none has been written since, or the
\* reader asks for no entry but that at index 0.
ReaderServed ==
  /\ reader.end <= core.index
  /\ reader.last # NoLogId =>
       \A i \in Index : i <= reader.end => i <= reader.last.index /\ db.appended[i].term <= reader.last.term
  /\ reader.last = NoLogId => conflicts = 0 /\ (reader.end <= 0 \/ db.last = NoLogId)

ReaderInv ==
  /\ crashes = 0 /\ ~db.installed => TermsInv
  /\ conflicts = 0 /\ ~db.installed /\ logop.op = "append" /\ db.last = NoLogId => core.index <= 0
  /\ reader # NoReader => mode # "down" /\ reader.end \in Span /\ reader.last \in [term : Nat, index : Span]
  /\ reader # NoReader /\ ~db.installed /\ (conflicts = 0 \/ crashes = 0) => ReaderServed

\* Index arithmetic used below.
LEMMA IndexFacts ==
  /\ Index \subseteq Int /\ Span \subseteq Int /\ NoIndex \in Int /\ NoIndex <= 0 /\ NoIndex \in Span
  /\ \A i \in Index : 0 <= i /\ ~(i <= NoIndex)
  /\ \A s \in Span : s # NoIndex => s \in Index
  /\ \A i \in Index, s \in Span : i <= s => s \in Index
BY FirstIndexAssumption, MaxIndexAssumption, SMTT(30) DEF Index, Span, NoIndex

\* A step that leaves terms, log ids and the reader alone, or stops the reader.
LEMMA ReaderKept ==
  ASSUME ReaderInv, db'.appended = db.appended, db'.last = db.last, db'.installed \in {db.installed, TRUE},
         UNCHANGED <<core, conflicts, crashes>>, reader' = reader \/ reader' = NoReader,
         logop' = logop \/ (logop.op # "append" /\ logop'.op # "append"),
         mode # "down" => mode' # "down"
  PROVE  ReaderInv'
<1>1. Tail' = Tail /\ (logop'.op = "append" => logop.op = "append")
  BY SMTT(30) DEF Tail
<1>2. TermsInv => TermsInv'
  BY <1>1, Zenon DEF TermsInv
<1>3. ReaderServed => (reader' = reader => ReaderServed')
  BY Zenon DEF ReaderServed
<1>4. ~db'.installed => ~db.installed
  BY Zenon
<1> QED
  BY <1>1, <1>2, <1>3, <1>4, Zenon DEF ReaderInv

\* The steps that write no entry and no log id.
LEMMA ReaderQuiet ==
  ASSUME LogInv, UncrashedInv, ReaderInv, NodeNext, ~NodeCrash,
         NodeSaveVote \/ NodeCommit \/ NodeApply \/ NodeBuild \/ NodePurge \/ NodeLogOpFails
  PROVE  ReaderInv'
<1>1. db'.installed \in {db.installed, TRUE} /\ crashes' = crashes /\ (mode # "down" => mode' # "down")
  BY StepWrites, Zenon DEF UncrashedInv
<1>2. {"last", "appended"} \subseteq DOMAIN db
  BY DbFacts
<1>3. CASE NodeSaveVote \/ NodeCommit \/ NodeApply \/ NodeBuild \/ NodeLogOpFails
  <2>1. UNCHANGED <<core, conflicts, reader, logop>>
    BY <1>3, Zenon DEF NodeSaveVote, SaveVote, NodeCommit, NodeApply, Apply, NodeBuild, NodeLogOpFails,
         LogOpFails, ApplyEntry, ApplyFinish, logVars
  <2>2. db'.appended = db.appended /\ db'.last = db.last
    BY <1>2, <1>3, Zenon DEF NodeSaveVote, SaveVote, NodeCommit, Commit, NodeApply, Apply, ApplyEntry, ApplyOperation,
         ApplyMembership, ApplyNothing, ApplyGarbage, ApplyFinish, NodeBuild, BuildReadApplied,
         BuildReadMembership, NodeLogOpFails, LogOpFails, Fail, Put, dbVars
  <2> QED
    BY <1>1, <2>1, <2>2, ReaderKept
<1>4. ASSUME NEW i \in Index, PurgeEntries(i), UNCHANGED conflicts PROVE ReaderInv'
  <2>1. /\ mode = "up" /\ TruncateLogBefore(i + 1) /\ UNCHANGED <<core, reader>>
        /\ logop.op # "append" /\ logop'.op # "append"
    BY <1>4, SMTT(30) DEF PurgeEntries, LogIdle, NoOp
  <2>2. db'.appended = db.appended /\ db'.last = db.last
    <3>1. i + 1 \in Int
      BY IndexFacts
    <3> QED
      BY <2>1, <3>1, DeleteFacts
  <2> QED
    BY <1>1, <1>4, <2>1, <2>2, ReaderKept
<1>5. CASE PurgeMetadata /\ UNCHANGED conflicts
  <2>1. /\ UNCHANGED <<core, reader>> /\ logop.op # "append" /\ logop'.op # "append"
        /\ db'.appended = db.appended /\ db'.last = db.last
    BY <1>2, <1>5, SMTT(30) DEF PurgeMetadata, Put, NoOp
  <2> QED
    BY <1>1, <1>5, <2>1, ReaderKept
<1> QED
  BY <1>3, <1>4, <1>5, Zenon DEF NodePurge

\* A reader that starts finds __last_log_id no lower than the last entry, if at all.
LEMMA ReaderRead ==
  ASSUME LogInv, UncrashedInv, ReaderInv, NodeRead
  PROVE  ReaderInv'
<1>1. /\ mode = "up" /\ mode' = mode /\ UNCHANGED <<db, core, logop, conflicts, crashes>>
      /\ reader' = NoReader \/ ReaderStart
  BY DEF NodeRead, ReaderStart, ReaderScan, dbVars, clusterVars
<1>2. CASE reader' = NoReader
  <2>1. db'.installed \in {db.installed, TRUE}
    BY <1>1
  <2> QED
    BY <1>1, <1>2, <2>1, ReaderKept
<1>3. CASE ReaderStart
  <2>1. reader'.end = core.index /\ reader'.last = db.last /\ core.index # NoIndex
    BY <1>3 DEF ReaderStart
  <2>2. /\ core.index \in Index /\ core.index \in Span /\ core.index \in Int
        /\ db.last \in [term : Nat, index : Span] /\ db.last.index \in Int
    BY <2>1, DbFacts, IndexFacts
  <2>3. ASSUME conflicts = 0, ~db.installed PROVE ReaderServed'
    <3>1. TailInv
      BY <2>3 DEF LogInv
    <3>2. ASSUME db.last # NoLogId
          PROVE  db.last.index = core.index /\ \A i \in Index : i <= db.last.index => db.appended[i].term <= db.last.term
      BY <1>1, <3>1, <3>2, DbFacts DEF TailInv, TermsBelow
    <3> QED
      BY <1>1, <2>1, <2>2, <2>3, <3>2, SMTT(30) DEF ReaderServed
  <2>4. ASSUME crashes = 0, ~db.installed PROVE ReaderServed'
    <3>1. /\ core.index <= db.last.index /\ core.term = db.appended[core.index].term
          /\ core.term <= db.last.term
          /\ \A i \in Index : i <= core.index => db.appended[i].term <= db.appended[core.index].term
      <4>1. SettledInv /\ TermsInv
        BY <2>4 DEF UncrashedInv, ReaderInv
      <4>2. core.index <= Tail
        BY <2>2, <4>1, SMTT(30) DEF Tail, SettledInv, LogInv, CoreInv, Index
      <4> QED
        BY <2>2, <4>1, <4>2, Zenon DEF SettledInv, TermsInv
    <3>2. db.last # NoLogId
      BY <2>2, <3>1, IndexFacts DEF NoLogId
    <3>3. ASSUME NEW i \in Index, i <= core.index
          PROVE  i <= db.last.index /\ db.appended[i].term <= db.last.term
      <4>1. db.appended[i].term \in Nat /\ core.term \in Nat /\ db.last.term \in Nat
        BY <2>2, DbFacts DEF LogDb
      <4> QED
        BY <2>2, <3>1, <3>3, <4>1, IndexFacts, SMTT(30)
    <3> QED
      BY <1>1, <2>1, <2>2, <3>2, <3>3, SMTT(30) DEF ReaderServed
  <2>5. reader'.end \in Span /\ reader'.last \in [term : Nat, index : Span] /\ mode' # "down"
    BY <1>1, <2>1, <2>2
  <2>6. Tail' = Tail /\ (TermsInv => TermsInv')
    BY <1>1, Zenon DEF Tail, TermsInv
  <2> QED
    BY <1>1, <2>3, <2>4, <2>5, <2>6, Zenon DEF ReaderInv
<1> QED
  BY <1>1, <1>2, <1>3

\* append writes past OpenRaft's last index, in a term that is no lower.
LEMMA ReaderAppendEntries ==
  ASSUME LogInv, UncrashedInv, ReaderInv, LastLogIdKnown, NEW t \in 1..MaxTerm, NEW b \in Batches(t),
         AppendEntries(t, b), UNCHANGED <<clusterVars, conflicts>>
  PROVE  ReaderInv'
<1>1. PICK n \in Index :
         /\ core.index < n
         /\ logop' = [op |-> "append", id |-> [term |-> TermOf(t, n), index |-> n]]
         /\ db'.last = db.last /\ db'.installed = db.installed
         /\ \A i \in Index : core.index < i /\ i <= n => db'.appended[i].term = TermOf(t, i)
         /\ \A i \in Index : ~(core.index < i /\ i <= n) => db'.appended[i] = db.appended[i]
  BY AppendFacts, Zenon
<1>2. /\ mode = "up" /\ mode' = "up" /\ logop = NoOp /\ t >= core.term /\ crashes' = crashes
      /\ UNCHANGED <<core, reader, conflicts>>
  BY Zenon DEF AppendEntries, LogIdle, Put
<1>3. /\ core.index \in Int /\ core.index \in Span /\ core.term \in Nat /\ t \in Nat /\ n \in Int
      /\ \A i \in Index : db.appended[i].term \in Nat
  <2>1. core.index \in Span /\ core.term \in Nat /\ \A i \in Index : db.appended[i].term \in Nat
    BY DbFacts DEF LogDb
  <2>2. t \in Nat
    BY LogBoundsAssumption
  <2> QED
    BY <2>1, <2>2, IndexFacts, Zenon
<1>4. \A i \in Index : i <= core.index => db'.appended[i] = db.appended[i]
  BY <1>1, <1>3, IndexFacts, SMTT(30)
<1>5. Tail = core.index /\ Tail' = n
  BY <1>1, <1>2 DEF Tail, NoOp
<1>6. ASSUME crashes = 0, ~db.installed PROVE TermsInv'
  <2>1. /\ TermsInv
        /\ core.index \in Index => core.term = db.appended[core.index].term
    BY <1>6 DEF UncrashedInv, ReaderInv, SettledInv
  <2>2. ASSUME NEW i \in Index, NEW j \in Index, i <= j, j <= n
        PROVE  db'.appended[i].term <= db'.appended[j].term
    <3>1. CASE j <= core.index
      <4>1. i <= core.index
        BY <1>3, <2>2, <3>1, IndexFacts, SMTT(30)
      <4> QED
        BY <1>4, <1>5, <2>1, <2>2, <3>1, <4>1, Zenon DEF TermsInv
    <3>2. CASE core.index < i
      <4>1. core.index < j /\ i <= n
        <5>1. i \in Int /\ j \in Int
          BY IndexFacts, Zenon
        <5> QED
          BY <1>3, <2>2, <3>2, <5>1
      <4>2. db'.appended[i].term = TermOf(t, i) /\ db'.appended[j].term = TermOf(t, j)
        BY <1>1, <2>2, <3>2, <4>1, Zenon
      <4> QED
        BY <1>3, <2>2, <4>2, IndexFacts, SMTT(30) DEF TermOf
    <3>3. CASE i <= core.index /\ core.index < j
      <4>1. core.index \in Index /\ j # 0
        BY <1>3, <3>3, IndexFacts, SMTT(30)
      <4>2. db'.appended[j].term = t
        BY <1>1, <2>2, <3>3, <4>1, Zenon DEF TermOf
      <4>3. core.index <= Tail
        BY <1>3, <1>5
      <4>4. db.appended[i].term <= core.term
        BY <2>1, <3>3, <4>1, <4>3 DEF TermsInv
      <4>5. db'.appended[i] = db.appended[i]
        BY <1>4, <3>3
      <4> QED
        BY <1>2, <1>3, <4>2, <4>4, <4>5, SMTT(30)
    <3>4. j <= core.index \/ core.index < i \/ (i <= core.index /\ core.index < j)
      BY <1>3, IndexFacts
    <3> QED
      BY <3>1, <3>2, <3>3, <3>4
  <2> QED
    BY <1>1, <1>2, <1>5, <2>1, <2>2 DEF TermsInv
<1>7. ASSUME conflicts = 0, ~db.installed, db.last = NoLogId PROVE core.index <= 0
  <2>1. TailInv
    BY <1>7 DEF LogInv
  <2>2. CASE core.index = NoIndex
    BY <2>2, IndexFacts
  <2>3. CASE core.term = 0 /\ core.index \in InLog(db)
    <3>1. core.index = 0
      BY <2>1, <2>3, DbFacts, SMTT(30) DEF TailInv, LastLogIdKnown
    <3> QED
      BY <3>1
  <2> QED
    BY <1>2, <1>7, <2>1, <2>2, <2>3 DEF TailInv
<1>8. ASSUME reader # NoReader, ReaderServed PROVE ReaderServed'
  <2>1. \A i \in Index : i <= reader.end => db'.appended[i] = db.appended[i]
    <3>1. reader.end \in Int /\ reader.end <= core.index
      BY <1>8, IndexFacts DEF ReaderInv, ReaderServed
    <3> QED
      BY <1>3, <1>4, <3>1, IndexFacts, SMTT(30)
  <2> QED
    BY <1>1, <1>2, <1>8, <2>1, Zenon DEF ReaderServed
<1> QED
  BY <1>1, <1>2, <1>6, <1>7, <1>8, Zenon DEF ReaderInv

\* __last_log_id moves on, and with it the index OpenRaft lets readers ask for.
LEMMA ReaderAppendMetadata ==
  ASSUME LogInv, UncrashedInv, ReaderInv, AppendMetadata, UNCHANGED <<clusterVars, conflicts>>
  PROVE  ReaderInv'
<1>1. /\ mode = "up" /\ mode' = "up" /\ logop.op = "append" /\ logop' = NoOp /\ core' = logop.id
      /\ UNCHANGED <<reader, conflicts>> /\ crashes' = crashes /\ db' = [db EXCEPT !.last = logop.id]
  BY DEF AppendMetadata, Put, clusterVars
<1>2. db'.last = logop.id /\ db'.appended = db.appended /\ db'.installed = db.installed
  BY <1>1, DbFacts
<1>3. /\ logop.id.index \in Int /\ logop.id.term \in Nat /\ core.index \in Int
      /\ logop'.op # "append" /\ Tail = logop.id.index /\ Tail' = logop.id.index
  BY <1>1, DbFacts, IndexFacts DEF LogInv, CoreInv, Tail, NoOp
<1>4. ASSUME crashes = 0, ~db.installed PROVE TermsInv'
  <2>1. TermsInv /\ core'.term <= db'.last.term
    BY <1>1, <1>2, <1>3, <1>4 DEF ReaderInv
  <2> QED
    BY <1>2, <1>3, <2>1, Zenon DEF TermsInv
<1>5. ASSUME reader # NoReader, ~db.installed, conflicts = 0 \/ crashes = 0 PROVE ReaderServed'
  <2>1. ReaderServed /\ reader.end \in Int
    BY <1>5, IndexFacts DEF ReaderInv
  <2>2. core.index < logop.id.index
    BY <1>1, <1>5 DEF LogInv, TailInv, UncrashedInv, SettledInv
  <2>3. reader.end <= logop.id.index
    BY <1>3, <2>1, <2>2 DEF ReaderServed
  <2>4. ASSUME reader.last = NoLogId PROVE conflicts = 0 /\ reader.end <= 0
    <3>1. conflicts = 0 /\ (reader.end <= 0 \/ db.last = NoLogId) /\ reader.end <= core.index
      BY <2>1, <2>4, Zenon DEF ReaderServed
    <3>2. db.last = NoLogId => core.index <= 0
      BY <1>1, <1>5, <3>1 DEF ReaderInv
    <3> QED
      BY <1>3, <2>1, <3>1, <3>2
  <2> QED
    BY <1>1, <1>2, <2>1, <2>3, <2>4, Zenon DEF ReaderServed
<1> QED
  BY <1>1, <1>2, <1>3, <1>4, <1>5, Zenon DEF ReaderInv


\* What is left of the log after truncate is the start of it, and no reader is left.
LEMMA ReaderTruncate ==
  ASSUME LogInv, UncrashedInv, ReaderInv, NodeTruncate
  PROVE  ReaderInv'
<1>1. PICK i \in Index : Conflicting(i) /\ Truncate(i)
  BY SMTT(30) DEF NodeTruncate
<1>2. /\ mode = "up" /\ logop = NoOp /\ TruncateLogBefore(i) /\ reader' = NoReader
      /\ core' = IF i = FirstIndex THEN NoLogId ELSE [term |-> db.appended[i - 1].term, index |-> i - 1]
      /\ logop' = NoOp /\ crashes' = crashes
  BY <1>1, Zenon DEF Truncate, TruncateLogBefore, Put, LogIdle, dbVars
<1>3. i \in Int /\ i <= core.index /\ core.index \in Int /\ core.index \in Index
  <2>1. i <= core.index /\ core.index \in Span
    BY <1>1, DbFacts, Zenon DEF Conflicting
  <2> QED
    BY <2>1, IndexFacts, Zenon
<1>4. db'.last = db.last /\ db'.appended = db.appended /\ db'.installed = db.installed
  BY <1>2, <1>3, DeleteFacts, Zenon
<1>5. /\ core'.index = i - 1 /\ (core'.index \in Index => core'.term = db.appended[core'.index].term)
      /\ Tail = core.index /\ Tail' = i - 1 /\ logop'.op # "append"
  BY <1>2, FirstIndexAssumption, MaxIndexAssumption, SMTT(30) DEF NoLogId, NoIndex, Index, Tail, NoOp
<1>6. ASSUME crashes = 0, ~db.installed PROVE TermsInv'
  <2>1. TermsInv /\ core.term = db.appended[core.index].term
    BY <1>3, <1>6 DEF UncrashedInv, ReaderInv, SettledInv
  <2>2. \A j \in Index : j <= i - 1 => j <= core.index
    BY <1>3, IndexFacts
  <2>3. ASSUME core'.index \in Index PROVE core'.term <= db.last.term
    <3>1. core'.index <= core.index /\ core.index <= Tail
      BY <1>3, <1>5
    <3>2. db.appended[core'.index].term <= core.term /\ core.term <= db.last.term
      BY <1>3, <2>1, <2>3, <3>1 DEF TermsInv
    <3>3. db.appended[core'.index].term \in Nat /\ core.term \in Nat /\ db.last.term \in Nat
      BY <2>3, DbFacts DEF LogDb
    <3> QED
      BY <1>5, <2>3, <3>2, <3>3
  <2> QED
    BY <1>4, <1>5, <2>1, <2>2, <2>3, Zenon DEF TermsInv
<1> QED
  BY <1>2, <1>4, <1>5, <1>6, Zenon DEF ReaderInv

LEMMA ReaderInstall ==
  ASSUME LogInv, UncrashedInv, ReaderInv, NodeNext, ~NodeCrash, NodeInstall
  PROVE  ReaderInv'
<1>1. crashes' = crashes /\ (mode # "down" => mode' # "down")
  BY StepWrites, Zenon DEF UncrashedInv
<1>2. {"installed", "last", "appended"} \subseteq DOMAIN db
  BY DbFacts
<1>3. ASSUME NEW n, NEW i, InstallApplied(n, i), UNCHANGED reader PROVE ReaderInv'
  <2>1. db'.installed
    BY <1>2, <1>3 DEF InstallApplied, Put
  <2> QED
    BY <1>1, <1>3, <2>1 DEF ReaderInv
<1>4. CASE (InstallMembership \/ \E n : InstallRefused(n)) /\ UNCHANGED <<logVars, conflicts>>
  <2>1. UNCHANGED <<core, reader, logop, conflicts>>
    BY <1>4 DEF logVars
  <2>2. db'.appended = db.appended /\ db'.last = db.last /\ db'.installed \in {db.installed, TRUE}
    BY <1>2, <1>4, Zenon DEF InstallMembership, InstallRefused, Fail, Put
  <2> QED
    BY <1>1, <2>1, <2>2, ReaderKept
<1> QED
  BY <1>3, <1>4, Zenon DEF NodeInstall

\* A crash ends the readers with the process; there is none when it opens again.
LEMMA ReaderRestart ==
  ASSUME LogInv, UncrashedInv, ReaderInv, NodeCrash \/ NodeOpen
  PROVE  ReaderInv'
<1>1. crashes' # 0
  BY SMTT(30) DEF NodeCrash, Crash, LoseUnsynced, NodeOpen, Open, UncrashedInv, clusterVars
<1>2. reader' = NoReader
  BY Zenon DEF NodeCrash, LogForget, NodeOpen, Open, LogOpen, ReaderInv
<1>3. logop'.op # "append"
  <2>1. logop' = NoOp
    BY Zenon DEF NodeCrash, LogForget, NodeOpen, Open, LogOpen, LogInv, DbInv
  <2> QED
    BY <2>1 DEF NoOp
<1> QED
  BY <1>1, <1>2, <1>3, Zenon DEF ReaderInv

LEMMA ReaderInvInit == NodeInit => ReaderInv
<1> SUFFICES ASSUME NodeInit PROVE ReaderInv
  OBVIOUS
<1>1. core.index = NoIndex /\ Tail = NoIndex /\ reader = NoReader /\ logop.op # "append"
  BY SMTT(30) DEF NodeInit, LogInit, NoLogId, NoOp, Tail
<1>2. TermsInv
  BY <1>1, IndexFacts, SMTT(30) DEF TermsInv
<1> QED
  BY <1>1, <1>2, Zenon DEF ReaderInv

LEMMA ReaderStep ==
  ASSUME LogInv, UncrashedInv, ReaderInv, [NodeNext]_nodeVars
  PROVE  ReaderInv'
<1>1. CASE UNCHANGED nodeVars
  <2>1. UNCHANGED <<db, mode, core, logop, reader, conflicts, crashes>>
    BY <1>1, SMTT(30) DEF nodeVars, vars, dbVars, clusterVars, logVars
  <2>2. db'.installed \in {db.installed, TRUE}
    BY <2>1
  <2> QED
    BY <2>1, <2>2, ReaderKept
<1>2. CASE NodeNext /\ (NodeCrash \/ NodeOpen)
  BY <1>2, ReaderRestart
<1>3. CASE NodeNext /\ ~NodeCrash /\ ~NodeOpen
  <2>1. CASE NodeAppend
    BY <2>1, ReaderAppendEntries, ReaderAppendMetadata, Zenon DEF NodeAppend
  <2> QED
    BY <1>3, <2>1, ReaderQuiet, ReaderRead, ReaderTruncate, ReaderInstall, Zenon DEF NodeNext
<1> QED
  BY <1>1, <1>2, <1>3, SMTT(30)

LEMMA AlwaysReaderInv == NodeSpec => []ReaderInv
<1>1. LogInv /\ UncrashedInv /\ ReaderInv /\ [NodeNext]_nodeVars => ReaderInv'
  BY ReaderStep
<1> QED
  BY AlwaysLogInv, AlwaysUncrashedInv, ReaderInvInit, <1>1, PTL DEF NodeSpec

\* A reader never gives an entry a lower term than its own, although it reads
\* __last_log_id and the entries at two moments and others are appended, purged or lost
\* in between: unless it found no __last_log_id and the entry is not applied, or the node
\* installed a snapshot, or both truncated its log and crashed.
THEOREM ReaderTermsAlwaysNeverLower == NodeSpec => []ReaderTermsNeverLower
<1>1. LogInv /\ UncrashedInv /\ ReaderInv => ReaderTermsNeverLower
  <2> SUFFICES ASSUME LogInv, UncrashedInv, ReaderInv, mode = "up", reader # NoReader, ~db.installed,
                      conflicts = 0 \/ crashes = 0, NEW i \in InLog(db), i <= reader.end
               PROVE  \/ ReaderTerm(i) >= db.appended[i].term
                      \/ reader.last = NoLogId /\ db.applied < i
    BY DEF ReaderTermsNeverLower
  <2>1. /\ ReaderServed /\ reader.end \in Int /\ i \in Index /\ i \in Int /\ ~(i <= NoIndex) /\ 0 <= i
        /\ reader.last.term \in Nat /\ db.appended[i].term \in Nat /\ db.applied \in Int
    <3>1. i \in Index /\ ReaderServed /\ reader.end \in Span /\ reader.last \in [term : Nat, index : Span]
      BY Zenon DEF ReaderInv, InLog
    <3>2. db.appended[i].term \in Nat /\ db.applied \in Span
      BY <3>1, DbFacts DEF LogDb
    <3> QED
      BY <3>1, <3>2, IndexFacts
  <2>2. CASE reader.last # NoLogId
    <3>1. i <= reader.last.index /\ db.appended[i].term <= reader.last.term
      BY <2>1, <2>2 DEF ReaderServed
    <3> QED
      BY <2>1, <3>1 DEF ReaderTerm
  <2>3. CASE reader.last = NoLogId
    <3>1. conflicts = 0 /\ (reader.end <= 0 \/ db.last = NoLogId) /\ TailInv
      BY <2>1, <2>3 DEF ReaderServed, LogInv
    <3>2. ReaderTerm(i) = 0
      BY <2>1, <2>3 DEF ReaderTerm, NoLogId
    <3>3. CASE i = 0
      <4>1. db.appended[i].term = 0
        BY <3>1, <3>3, DbFacts DEF TailInv
      <4> QED
        BY <3>2, <4>1
    <3>4. CASE i # 0
      <4>1. db.last = NoLogId
        BY <2>1, <3>1, <3>4
      <4>2. db.applied <= 0
        BY <3>1, <4>1, DbFacts DEF TailInv
      <4> QED
        BY <2>1, <2>3, <3>4, <4>2
    <3> QED
      BY <3>3, <3>4
  <2> QED
    BY <2>2, <2>3
<1> QED
  BY AlwaysLogInv, AlwaysUncrashedInv, AlwaysReaderInv, <1>1, PTL


-----------------------------------------------------------------------------
\* What Storage::new opens.

\* Nothing that tells of an entry is in d.
Bare(d) == d.last = NoLogId /\ d.purged = NoIndex /\ d.applied = NoIndex /\ InLog(d) = {}

\* Neither purge nor truncate deletes entry 0: once it is in the log it stays there, and
\* nothing but a snapshot comes before it.
EntryZeroInv ==
  /\ \A d \in survivors : ~d.installed => d.log[0] # NoEntry \/ Bare(d)
  /\ ~db.installed => \/ db.log[0] # NoEntry
                      \/ core.index = NoIndex /\ logop.op = "none" /\ job.op # "apply"

LEMMA EntryZeroStays ==
  ASSUME FirstIndex = 0, LogInv, NodeNext, ~NodeCrash, db.log[0] # NoEntry
  PROVE  db'.log[0] # NoEntry
<1>0. {"log", "applied"} \subseteq DOMAIN db /\ 0 \in Index
  BY DbFacts, MaxIndexAssumption DEF Index
<1>1. CASE NodeSaveVote \/ NodeApply \/ NodeInstall
  BY <1>0, <1>1, Zenon DEF NodeSaveVote, SaveVote, NodeApply, Apply, Fail, ApplyEntry, ApplyOperation,
       ApplyMembership, ApplyNothing, ApplyGarbage, ApplyFinish, NodeInstall, InstallApplied,
       InstallMembership, InstallRefused, Put, dbVars
<1>2. CASE NodeAppend
  <2>1. ASSUME NEW t \in 1..MaxTerm, NEW b \in Batches(t), AppendEntries(t, b) PROVE db'.log[0] # NoEntry
    <3>1. UNCHANGED <<clusterVars, conflicts>>
      BY <1>2, SMTT(30) DEF NodeAppend
    <3>2. PICK n \in Index :
             /\ core.index < 0 /\ 0 <= n => /\ db'.appended[0].payload \in Payload
                                            /\ db'.log[0] = Stored(db'.appended[0].payload)
             /\ ~(core.index < 0 /\ 0 <= n) => db'.log[0] = db.log[0]
      BY <1>0, <2>1, <3>1, AppendFacts, Zenon
    <3> QED
      BY <3>2, StoredPayload, SMTT(30)
  <2>2. CASE AppendMetadata
    BY <1>0, <2>2, SMTT(30) DEF AppendMetadata, Put
  <2> QED
    BY <1>2, <2>1, <2>2, SMTT(30) DEF NodeAppend
<1>3. ASSUME NEW i \in Int, mode = "up", TruncateLogBefore(i) PROVE db'.log[0] # NoEntry
  <2>1. 0 < 1
    BY SMTT(30)
  <2> QED
    BY <1>0, <1>3, <2>1, DeleteFacts
<1>4. CASE NodePurge \/ NodeTruncate
  <2>1. \A i \in Index : i \in Int /\ i + 1 \in Int
    BY FirstIndexAssumption, MaxIndexAssumption DEF Index
  <2>2. CASE PurgeMetadata
    BY <1>0, <2>2, SMTT(30) DEF PurgeMetadata, Put
  <2> QED
    BY <1>3, <1>4, <2>1, <2>2, Zenon DEF NodePurge, PurgeEntries, NodeTruncate, Truncate, LogIdle
<1>5. CASE NodeCommit \/ NodeBuild \/ NodeRead \/ NodeLogOpFails \/ NodeOpen
  BY <1>5, SMTT(30) DEF NodeCommit, Commit, NodeBuild, BuildReadApplied, BuildReadMembership, NodeRead,
       ReaderStart, ReaderScan, NodeLogOpFails, LogOpFails, Fail, NodeOpen, Open, dbVars
<1> QED
  BY <1>1, <1>2, <1>4, <1>5 DEF NodeNext

\* A node without entry 0 can only append it, or install a snapshot.
LEMMA EntryZeroFirst ==
  ASSUME FirstIndex = 0, LogInv, "purged" \in DOMAIN db, NodeNext, ~NodeCrash, ~db'.installed,
         Bare(db), core.index = NoIndex, logop.op = "none", job.op # "apply"
  PROVE  \/ db'.log[0] # NoEntry
         \/ Bare(db') /\ core'.index = NoIndex /\ logop'.op = "none" /\ job'.op # "apply"
<1>0. /\ {"log", "last", "applied", "purged", "installed"} \subseteq DOMAIN db /\ 0 \in Index
      /\ NoIndex = -1 /\ Index \subseteq Nat
  BY DbFacts, MaxIndexAssumption DEF Index, NoIndex
<1>1. CASE NodeSaveVote
  <2>1. PICK t \in 1..MaxTerm, n \in NodeId, c \in BOOLEAN : SaveVote(t, n, c)
    BY <1>1 DEF NodeSaveVote
  <2>2. db' = [db EXCEPT !.vote = [term |-> t, node |-> n]] /\ UNCHANGED <<core, logop, job>>
    BY <1>1, <2>1, SMTT(30) DEF SaveVote, Put, NodeSaveVote, smVars
  <2> QED
    BY <1>0, <2>2 DEF Bare, InLog
<1>2. CASE NodeAppend
  <2>1. ASSUME NEW t \in 1..MaxTerm, NEW b \in Batches(t), AppendEntries(t, b) PROVE db'.log[0] # NoEntry
    <3>1. UNCHANGED <<clusterVars, conflicts>>
      BY <1>2, SMTT(30) DEF NodeAppend
    <3>2. PICK n \in Index : core.index < 0 /\ 0 <= n => /\ db'.appended[0].payload \in Payload
                                                         /\ db'.log[0] = Stored(db'.appended[0].payload)
      BY <1>0, <2>1, <3>1, AppendFacts, Zenon
    <3>3. core.index < 0 /\ 0 <= n
      BY <1>0
    <3> QED
      BY <3>2, <3>3, StoredPayload
  <2>2. ~AppendMetadata
    BY DEF AppendMetadata
  <2> QED
    BY <1>2, <2>1, <2>2, Zenon DEF NodeAppend
<1>3. \A n \in Index : ~(n <= core.index) /\ ~(n <= db.applied)
  BY <1>0 DEF Bare
<1>4. ~NodeApply /\ ~NodePurge /\ ~NodeTruncate
  BY <1>3, PurgeableApplied DEF NodeApply, Applying, ApplyFinish, NodePurge, PurgeMetadata, NodeTruncate, Conflicting
<1>5. CASE NodeInstall
  <2>1. \A n, i : ~InstallApplied(n, i)
    BY <1>0, Zenon DEF InstallApplied, Put
  <2>2. CASE InstallMembership /\ UNCHANGED logVars
    <3> DEFINE m == [job.membership EXCEPT !.configs = Flattened(job.membership.configs)]
    <3>1. db' = [db EXCEPT !.membership = m] /\ UNCHANGED <<core, logop>> /\ job' = NoJob
      BY <2>2 DEF InstallMembership, Put, logVars
    <3> HIDE DEF m
    <3> QED
      BY <1>0, <3>1 DEF Bare, InLog, NoJob
  <2>3. ASSUME NEW n, InstallRefused(n), UNCHANGED logVars
        PROVE  Bare(db') /\ core'.index = NoIndex /\ logop'.op = "none" /\ job'.op # "apply"
    BY <2>3 DEF InstallRefused, Fail, smVars, logVars, Bare
  <2> QED
    BY <1>5, <2>1, <2>2, <2>3 DEF NodeInstall
<1>6. CASE NodeCommit \/ NodeBuild \/ NodeRead \/ NodeLogOpFails
  <2>1. UNCHANGED <<db, core, logop, job>>
    BY <1>6, Zenon DEF NodeCommit, Commit, NodeBuild, BuildReadApplied, BuildReadMembership, NodeRead,
         ReaderStart, ReaderScan, NodeLogOpFails, LogOpFails, Fail, dbVars, smVars, logVars
  <2> QED
    BY <2>1, SMTT(30)
<1>7. CASE NodeOpen
  <2>1. /\ core' = [LastLogId(db) EXCEPT !.index = Max2(LastLogId(db).index, db.applied)]
        /\ UNCHANGED <<db, logop, job>>
    BY <1>7, SMTT(30) DEF NodeOpen, Open, LogOpen, smVars
  <2>2. LastLogId(db) = NoLogId /\ db.applied = NoIndex
    BY Zenon DEF LastLogId, Bare
  <2>3. core'.index = NoIndex
    BY <2>1, <2>2, SMTT(30) DEF NoLogId, Max2
  <2> QED
    BY <2>1, <2>3
<1> QED
  BY <1>1, <1>2, <1>4, <1>5, <1>6, <1>7, SMTT(30) DEF NodeNext

LEMMA EntryZeroInit == NodeInit => EntryZeroInv
<1> SUFFICES ASSUME NodeInit PROVE EntryZeroInv
  OBVIOUS
<1>1. db = EmptyDb /\ survivors = {EmptyDb} /\ core = NoLogId /\ logop = NoOp /\ job = NoJob
  BY SMTT(30) DEF NodeInit, DbInit, SMInit, LogInit
<1>2. Bare(EmptyDb) /\ NoLogId.index = NoIndex /\ NoOp.op = "none" /\ NoJob.op # "apply"
  BY Zenon DEF Bare, EmptyDb, InLog, NoLogId, NoOp, NoJob
<1> QED
  BY <1>1, <1>2 DEF EntryZeroInv

LEMMA EntryZeroStep ==
  ASSUME FirstIndex = 0, LogInv, "purged" \in DOMAIN db, EntryZeroInv, [NodeNext]_nodeVars
  PROVE  EntryZeroInv'
<1>1. CASE UNCHANGED nodeVars
  BY <1>1, Zenon DEF nodeVars, vars, dbVars, smVars, logVars, EntryZeroInv, Bare
<1>2. CASE NodeCrash
  <2>1. db' \in survivors /\ survivors' = {db'} /\ core' = NoLogId /\ logop' = NoOp /\ job' = NoJob
    BY <1>2, SMTT(30) DEF NodeCrash, Crash, LoseUnsynced, SMForget, LogForget
  <2> QED
    BY <2>1, Zenon DEF EntryZeroInv, Bare, NoLogId, NoOp, NoJob
<1>3. CASE NodeNext /\ ~NodeCrash
  <2>1. /\ survivors' \subseteq survivors \cup {db'} /\ db'.installed \in {db.installed, TRUE}
        /\ db \in survivors
    BY <1>3, StepWrites, DbFacts, Zenon
  <2>2. ASSUME ~db'.installed
        PROVE  \/ db'.log[0] # NoEntry
               \/ Bare(db') /\ core'.index = NoIndex /\ logop'.op = "none" /\ job'.op # "apply"
    <3>1. ~db.installed
      BY <2>1, <2>2, Zenon
    <3>2. CASE db.log[0] # NoEntry
      BY <1>3, <3>2, EntryZeroStays
    <3>3. CASE ~(db.log[0] # NoEntry)
      <4>1. Bare(db) /\ core.index = NoIndex /\ logop.op = "none" /\ job.op # "apply"
        BY <2>1, <3>1, <3>3, SMTT(30) DEF EntryZeroInv
      <4> QED
        BY <1>3, <2>2, <4>1, EntryZeroFirst
    <3> QED
      BY <3>2, <3>3
  <2>3. \A d \in survivors' : ~d.installed => d.log[0] # NoEntry \/ Bare(d)
    BY <2>1, <2>2 DEF EntryZeroInv
  <2> QED
    BY <2>2, <2>3, Zenon DEF EntryZeroInv, Bare
<1> QED
  BY <1>1, <1>2, <1>3, SMTT(30)

\* With OpenRaft's first index, 0, and until a snapshot is installed, Storage::new opens
\* whatever a crash leaves: truncate_log_before starts at index 1, so entry 0 is never
\* deleted and a log with metadata is never without entries.
THEOREM AlwaysReopenable ==
  ASSUME FirstIndex = 0
  PROVE  NodeSpec => []Reopenable
<1>1. LogInv /\ UncrashedInv /\ EntryZeroInv /\ [NodeNext]_nodeVars => EntryZeroInv'
  BY EntryZeroStep DEF UncrashedInv
<1>2. EntryZeroInv => Reopenable
  <2> SUFFICES ASSUME EntryZeroInv, NEW d \in survivors, ~d.installed
               PROVE  LastIndexFromDb(d) # CorruptedData
    BY DEF Reopenable
  <2>1. CASE InLog(d) # {}
    <3>1. LastIn(InLog(d)) \in Index
      BY <2>1, LastInGreatest, SMTT(30) DEF InLog
    <3> QED
      BY <2>1, <3>1, MaxIndexAssumption, SMTT(30) DEF LastIndexFromDb, CorruptedData, Index
  <2>2. CASE InLog(d) = {}
    <3>1. Bare(d)
      BY <2>2, MaxIndexAssumption DEF EntryZeroInv, InLog, Index
    <3> QED
      BY <2>2, <3>1, SMTT(30) DEF LastIndexFromDb, Bare, HasMetadata, CorruptedData, NoCache
  <2> QED
    BY <2>1, <2>2
<1> QED
  BY AlwaysLogInv, AlwaysUncrashedInv, EntryZeroInit, <1>1, <1>2, PTL DEF NodeSpec

=============================================================================
