-------------------------- MODULE RocksStateMachine --------------------------
(***************************************************************************)
(* RocksDBStateMachine and RocksDBSnapshotBuilder (openraft_rocksdb.rs).   *)
(*                                                                         *)
(* OpenRaft calls the state machine from one task, so apply and            *)
(* install_snapshot never overlap; a snapshot builder runs in a task of    *)
(* its own, beside them.  Every write of a handler is a step, and the      *)
(* machine may stop between any two.                                       *)
(*                                                                         *)
(* cached_applied and cached_membership are left out: nothing reads them.  *)
(***************************************************************************)
EXTENDS RaftDb

CONSTANTS
  HasKvCf,          \* G::KV_CF is Some: DataRaft, not SystemRaft
  CheckpointExists  \* what Path::new(snapshot_id).exists() can say of an installed snapshot

ASSUME GroupAssumption == HasKvCf \in BOOLEAN /\ CheckpointExists \subseteq BOOLEAN

VARIABLES
  committed,         \* the entries the cluster has committed, by index
  commitIndex,       \* the last committed index
  job,               \* the handler the state machine task is in
  build,             \* what a running build_snapshot has read so far
  built,             \* the snapshot OpenRaft was last handed by a builder
  current_snapshot

clusterVars == <<committed, commitIndex>>
smVars == <<job, build, built, current_snapshot>>
vars == <<dbVars, clusterVars, smVars>>

NoJob == [op |-> "none", next |-> NoIndex, end |-> NoIndex, membership |-> NoMembership]
NoSnapshot == [last |-> NoIndex, membership |-> NoMembership]
NotBuilding == [active |-> FALSE, last |-> NoIndex]

ClusterInit ==
  /\ committed = [i \in Index |-> NoEntry]
  /\ commitIndex = NoIndex

SMInit ==
  /\ job = NoJob
  /\ build = NotBuilding
  /\ built = NoSnapshot
  /\ current_snapshot = NoSnapshot

\* The cluster commits one more entry (OpenRaft, external).
Commit(p) ==
  /\ commitIndex < MaxIndex
  /\ committed' = [committed EXCEPT ![commitIndex + 1] = p]
  /\ commitIndex' = commitIndex + 1
  /\ UNCHANGED <<dbVars, smVars>>

\* Mutant: the last committed entry waits for another one.
ApplyLags(n) ==
  /\ mode = "up"
  /\ job = NoJob
  /\ db.applied + 1 < n
  /\ job' = [NoJob EXCEPT !.op = "apply", !.next = db.applied + 1, !.end = n]
  /\ UNCHANGED <<dbVars, clusterVars, build, built, current_snapshot>>

\* apply is called.  Which entries, and when, is OpenRaft's choice (external): those after
\* the applied one, up to n.
Apply(n) ==
  /\ mode = "up"
  /\ job = NoJob
  /\ db.applied < n
  /\ job' = [NoJob EXCEPT !.op = "apply", !.next = db.applied + 1, !.end = n]
  /\ UNCHANGED <<dbVars, clusterVars, build, built, current_snapshot>>

Applying == mode = "up" /\ job.op = "apply" /\ job.next <= job.end

NextEntry ==
  /\ job' = [job EXCEPT !.next = job.next + 1]
  /\ UNCHANGED <<clusterVars, build, built, current_snapshot>>

\* One turn of apply's loop on an operation: a put or a delete in KV_CF.
ApplyOperation(p) ==
  /\ Applying
  /\ HasKvCf
  /\ p.kind \in {"set", "del"}
  /\ Put("kv", [db EXCEPT !.kv = [db.kv EXCEPT ![p.key] = ValueWritten(p)],
                          !.reached = Max2(db.reached, job.next)])
  /\ NextEntry

\* Mutant: of a joint membership only the smallest config is written.
ApplyMembershipSmallest(p) ==
  /\ Applying
  /\ p.kind = "membership"
  /\ Put("state", [db EXCEPT !.membership =
                     [at |-> job.next, configs |-> {c \in p.configs : \A e \in p.configs : c \subseteq e}],
                             !.reached = Max2(db.reached, job.next)])
  /\ NextEntry

\* A membership entry: the flattened membership goes to STATE_CF, synced.
ApplyMembership(p) ==
  /\ Applying
  /\ p.kind = "membership"
  /\ Put("state", [db EXCEPT !.membership = [at |-> job.next, configs |-> Flattened(p.configs)],
                             !.reached = Max2(db.reached, job.next)])
  /\ NextEntry

\* A blank entry, or any operation of a group without KV_CF: only a response.
ApplyNothing(p) ==
  /\ Applying
  /\ p.kind = "blank" \/ (~HasKvCf /\ p.kind # "membership")
  /\ NextEntry
  /\ UNCHANGED dbVars

\* Operation::deserialize fails: apply returns the error at once.  Entries
\* before this one stay written, and the applied index is not advanced.
ApplyGarbage(p) ==
  /\ Applying
  /\ HasKvCf
  /\ p.kind = "garbage"
  /\ Fail
  /\ job' = NoJob
  /\ UNCHANGED <<clusterVars, build, built, current_snapshot>>

ApplyEntry(p) ==
  ApplyOperation(p) \/ ApplyMembership(p) \/ ApplyNothing(p) \/ ApplyGarbage(p)

\* Mutant: the applied index is written before the loop is over.
ApplyFinishEarly ==
  /\ mode = "up"
  /\ job.op = "apply"
  /\ Put("state", [db EXCEPT !.applied = job.end, !.reached = Max2(db.reached, job.end)])
  /\ job' = NoJob
  /\ UNCHANGED <<clusterVars, build, built, current_snapshot>>

\* Mutant: the applied index is the next one to apply.
ApplyFinishNext ==
  /\ mode = "up"
  /\ job.op = "apply"
  /\ job.next = job.end + 1
  /\ Put("state", [db EXCEPT !.applied = job.next, !.reached = Max2(db.reached, job.end)])
  /\ job' = NoJob
  /\ UNCHANGED <<clusterVars, build, built, current_snapshot>>

\* After the loop: persist the applied index, synced.
ApplyFinish ==
  /\ mode = "up"
  /\ job.op = "apply"
  /\ job.next = job.end + 1
  /\ Put("state", [db EXCEPT !.applied = job.end, !.reached = Max2(db.reached, job.end)])
  /\ job' = NoJob
  /\ UNCHANGED <<clusterVars, build, built, current_snapshot>>

\* build_snapshot reads the applied index, then the membership.  It writes
\* nothing: its data is the snapshot id, and current_snapshot stays as it is.
BuildReadApplied ==
  /\ mode = "up"
  /\ build = NotBuilding
  /\ build' = [active |-> TRUE, last |-> db.applied]
  /\ UNCHANGED <<dbVars, clusterVars, job, built, current_snapshot>>

\* Mutant: the membership of the last snapshot is used again.
BuildReusesMembership ==
  /\ mode = "up"
  /\ build.active
  /\ built' = [last |-> build.last, membership |-> built.membership]
  /\ build' = NotBuilding
  /\ UNCHANGED <<dbVars, clusterVars, job, current_snapshot>>

BuildReadMembership ==
  /\ mode = "up"
  /\ build.active
  /\ built' = [last |-> build.last, membership |-> db.membership]
  /\ build' = NotBuilding
  /\ UNCHANGED <<dbVars, clusterVars, job, current_snapshot>>

\* A leader sends the snapshot of the entries up to n, i being the index of
\* the membership entry in force there.  OpenRaft installs only what is ahead
\* of the applied index.  The first write is the applied index.
InstallApplied(n, i) ==
  /\ mode = "up"
  /\ job = NoJob
  /\ db.applied < n
  /\ MembershipAsOf(committed, n, i)
  /\ TRUE \in CheckpointExists
  /\ Put("state", [db EXCEPT !.applied = n, !.installed = TRUE])
  /\ job' = [NoJob EXCEPT !.op = "install", !.end = n, !.membership =
               IF i = NoIndex THEN NoMembership
               ELSE [at |-> i, configs |-> committed[i].configs]]
  /\ UNCHANGED <<clusterVars, build, built, current_snapshot>>

\* The second is the membership; then current_snapshot is set.
InstallMembership ==
  /\ mode = "up"
  /\ job.op = "install"
  /\ Put("state", [db EXCEPT !.membership =
                     [job.membership EXCEPT !.configs = Flattened(job.membership.configs)]])
  /\ current_snapshot' = [last |-> job.end, membership |-> job.membership]
  /\ job' = NoJob
  /\ UNCHANGED <<clusterVars, build, built>>

\* "Checkpoint directory does not exist": nothing is written.
InstallRefused(n) ==
  /\ mode = "up"
  /\ job = NoJob
  /\ db.applied < n
  /\ FALSE \in CheckpointExists
  /\ Fail
  /\ UNCHANGED <<clusterVars, smVars>>

\* What a stopped process forgets.
SMForget ==
  /\ job' = NoJob
  /\ build' = NotBuilding
  /\ built' = NoSnapshot
  /\ current_snapshot' = NoSnapshot
  /\ UNCHANGED clusterVars

Crash == LoseUnsynced /\ SMForget

\* RocksDBStateMachine::new on the reopened database; applied_state tells
\* OpenRaft db.applied and db.membership.
Open ==
  /\ mode = "down"
  /\ mode' = "up"
  /\ UNCHANGED <<db, survivors, crashes, clusterVars, smVars>>

Init == DbInit /\ ClusterInit /\ SMInit

ApplyStep ==
  \/ \E n \in Index : n <= commitIndex /\ Apply(n)
  \/ Applying /\ ApplyEntry(committed[job.next])
  \/ ApplyFinish

Next ==
  \/ \E p \in Payload : Commit(p)
  \/ ApplyStep
  \/ BuildReadApplied \/ BuildReadMembership
  \/ \E n \in Index : n <= commitIndex /\ \E i \in NoIndex..n : InstallApplied(n, i)
  \/ InstallMembership
  \/ \E n \in Index : n <= commitIndex /\ InstallRefused(n)
  \/ Crash \/ Open

Spec == Init /\ [][Next]_vars

\* OpenRaft's state machine task keeps running, and an operator restarts a stopped node.
FairSpec == Spec /\ WF_vars(ApplyStep \/ InstallMembership) /\ WF_vars(Open)

-----------------------------------------------------------------------------

Span == NoIndex..MaxIndex
StoredMembership == [at : Span, configs : Configs \cup {{}, {{}}}]

Db == [log : [Index -> Payload \cup {NoEntry}], last : [term : Nat, index : Span],
       purged : Span, vote : [term : Nat, node : Nat], applied : Span,
       membership : StoredMembership, kv : [Key -> Value \cup {Missing}],
       appended : [Index -> [term : Nat, payload : Payload \cup {NoEntry}]],
       reached : Span, installed : BOOLEAN]

Job == [op : {"none", "apply", "install"}, next : NoIndex..(MaxIndex + 1), end : Span,
        membership : StoredMembership]

Snapshot == [last : Span, membership : StoredMembership]

\* Type invariant of the database, the handlers in progress and the snapshots.
TypeOK ==
  /\ db \in Db
  /\ survivors \subseteq Db
  /\ mode \in {"up", "down", "failed"}
  /\ crashes \in 0..MaxCrashes
  /\ committed \in [Index -> Payload \cup {NoEntry}]
  /\ commitIndex \in Span
  /\ job \in Job
  /\ build \in [active : BOOLEAN, last : Span]
  /\ built \in Snapshot
  /\ current_snapshot \in Snapshot

\* Every key of d, and its membership, is as some prefix of the committed
\* entries between a and the furthest one ever written left it.
Window(d, a) == a..Max2(a, d.reached)

KvWithin(d, a) ==
  HasKvCf => \A k \in Key : \E j \in Window(d, a) : KeyAsOf(committed, j, k, d.kv[k])

MembershipWithin(d, a) ==
  \E j \in Window(d, a) : MembershipAsOf(committed, j, d.membership.at)

Backed(d, a) == KvWithin(d, a) /\ MembershipWithin(d, a)

\* Whatever the machine loses, the database it restarts with holds the effect
\* of every entry its applied index covers: apply writes KV_CF before it
\* syncs `applied`, and one WAL orders the two.
AppliedIsBacked ==
  \A d \in survivors : ~d.installed => Backed(d, d.applied)

\* The entries whose effect the database has: apply's loop runs ahead of the
\* applied index.
Cursor == IF job.op = "apply" THEN job.next - 1 ELSE db.applied

\* The inductive invariant behind AppliedIsBacked and AppliedNeverRegresses.
\* The applied index is synced, so that no crash can change it; what the loop
\* has done is in the database and in the write-ahead log before it.
Consistent ==
  /\ \A i \in Index : i <= commitIndex => committed[i] \in Payload
  /\ db \in survivors
  /\ \A d \in survivors :
       d.applied = db.applied /\ d.installed = db.installed /\ d.reached <= commitIndex
  /\ db.applied <= commitIndex
  /\ job.op = "apply" => db.applied < job.next /\ job.next <= job.end + 1 /\ job.end <= commitIndex
  /\ job.op = "install" => db.installed
  /\ AppliedIsBacked
  /\ ~db.installed => Backed(db, Cursor)

\* The membership of a built snapshot is at least as recent as its last log
\* id, although build_snapshot reads the two while apply runs.
SnapshotMembershipFresh ==
  ~db.installed =>
    \E j \in built.last..commitIndex : MembershipAsOf(committed, j, built.membership.at)

\* The applied index OpenRaft has been told never goes back, whatever a crash
\* loses: STATE_CF is synced before apply and install_snapshot return.
AppliedNeverRegresses == [][db.applied <= db'.applied]_vars

\* "Snapshot restoration from checkpoint directory": after install_snapshot the
\* keys are those of the snapshot, too.
SnapshotRestoresData ==
  \A d \in survivors : KvWithin(d, d.applied)

\* "Node restart preserves all persisted data": the membership in the database
\* is the one that was applied.
MembershipPreserved ==
  db.membership.at # NoIndex => db.membership.configs = committed[db.membership.at].configs

\* The stored membership is flattened, but no voter is lost with it: whatever a crash
\* leaves, its voters are those of the entry it comes from, joint or not.
VotersKept ==
  \A d \in survivors : d.membership.at # NoIndex =>
    UNION d.membership.configs = UNION committed[d.membership.at].configs

\* A node that is not stopped for good by a storage error (an entry that does
\* not deserialize, a snapshot it refuses) applies every committed entry in the
\* end, whatever it lost or left half done in crashes.
EventuallyApplied ==
  <>[](mode # "failed") => \A n \in Index : (commitIndex >= n) ~> (db.applied >= n)

=============================================================================
