-------------------------------- MODULE MemRaft --------------------------------
(***************************************************************************)
(* The in-memory stores RaftNode runs on (openraft_mem.rs) and the         *)
(* StateMachine they wrap (state_machine.rs), on every replica of a group. *)
(* Each handler takes one lock for all it does, so it is one step.         *)
(***************************************************************************)
EXTENDS RaftTypes

CONSTANTS
  Replica,
  NoEntry,       \* an index nothing is committed at
  MaxRestarts    \* bound: processes restarted

ASSUME NoEntryAssumption == NoEntry \notin Payload
ASSUME MaxRestartsAssumption == MaxRestarts \in Nat

VARIABLES
  committed, commitIndex,   \* the log OpenRaft replicates
  applied,       \* OpenRaft's own applied index, per replica (external)
  failed,        \* replicas OpenRaft has stopped after a StorageError
  sm,            \* StateMachine: data and last_applied
  membership, snapshot,
  built,         \* the snapshots builders returned, on their way to others
  replies,       \* history: the responses apply gave for each entry
  restarts

vars == <<committed, commitIndex, applied, failed, sm, membership, snapshot, built, replies, restarts>>

NoSnapshot == [last |-> NoIndex]

\* StateMachine::new: last_applied 0 is also "nothing applied".
NewStateMachine == [data |-> [k \in Key |-> Missing], last_applied |-> 0]

Init ==
  /\ committed = [i \in Index |-> NoEntry]
  /\ commitIndex = NoIndex
  /\ applied = [r \in Replica |-> NoIndex]
  /\ failed = {}
  /\ sm = [r \in Replica |-> NewStateMachine]
  /\ membership = [r \in Replica |-> NoIndex]
  /\ snapshot = [r \in Replica |-> NoSnapshot]
  /\ built = {}
  /\ replies = [i \in Index |-> {}]
  /\ restarts = 0

\* OpenRaft commits one more entry.  Index 0 is the cluster's first membership.
Commit(p) ==
  /\ commitIndex < MaxIndex
  /\ commitIndex + 1 = 0 => p.kind = "membership"
  /\ committed' = [committed EXCEPT ![commitIndex + 1] = p]
  /\ commitIndex' = commitIndex + 1
  /\ UNCHANGED <<applied, failed, sm, membership, snapshot, built, replies, restarts>>

-----------------------------------------------------------------------------
\* Operation::apply: what it leaves and what it answers.
Written(data, p) == [data EXCEPT ![p.key] = ValueWritten(p)]

Answer(data, p) ==
  CASE p.kind = "set" -> "OK"
    [] p.kind = "del" -> IF data[p.key] = Missing THEN "0" ELSE "1"
    [] OTHER -> ""

\* StateMachine::apply refuses an index it has passed and what does not
\* deserialize.
Refused(m, i) ==
  committed[i].kind \in {"set", "del", "garbage"} /\
  (i <= m.last_applied \/ committed[i] = Garbage)

\* apply_with_log_id; Blank and Membership entries pass the state machine by.
ApplyOne(m, i) ==
  IF committed[i].kind \in {"set", "del"}
  THEN [data |-> Written(m.data, committed[i]), last_applied |-> i]
  ELSE m

\* The state machine after the entries a..i, none of them refused.
StateAfter(m, a, n) ==
  LET after[i \in (a - 1)..n] == IF i < a THEN m ELSE ApplyOne(after[i - 1], i) IN after

\* OpenRaftMemStateMachine::apply on the entries after the applied one, up to n.
\* On an error the entries before it stay applied, and no membership is stored.
Apply(r, n) ==
  LET a == applied[r] + 1
      after == StateAfter(sm[r], a, n)
      bad == {i \in a..n : Refused(after[i - 1], i)}
      end == IF bad = {} THEN n ELSE (CHOOSE i \in bad : \A j \in bad : i <= j) - 1
      changes == {i \in a..n : committed[i].kind = "membership"}
  IN /\ r \notin failed
     /\ a <= n /\ n <= commitIndex
     /\ sm' = [sm EXCEPT ![r] = after[end]]
     /\ \/ /\ bad = {}
           /\ applied' = [applied EXCEPT ![r] = n]
           /\ membership' = IF changes = {} THEN membership
                            ELSE [membership EXCEPT ![r] = CHOOSE i \in changes : \A j \in changes : j <= i]
           /\ replies' = [i \in Index |-> IF i \in a..n
                                          THEN replies[i] \cup {Answer(after[i - 1].data, committed[i])}
                                          ELSE replies[i]]
           /\ UNCHANGED failed
        \/ /\ bad # {}
           /\ failed' = failed \cup {r}
           /\ UNCHANGED <<applied, membership, replies>>
     /\ UNCHANGED <<committed, commitIndex, snapshot, built, restarts>>

\* Mutant: the snapshot is labelled with the committed index.
BuildSnapshotCommitted(r) ==
  /\ r \notin failed
  /\ built' = built \cup {[sm |-> sm[r], last |-> commitIndex, membership |-> NoIndex]}
  /\ UNCHANGED <<committed, commitIndex, applied, failed, sm, membership, snapshot, replies, restarts>>

\* build_snapshot: the state machine, its last_applied (0 is no log id) and a
\* default membership.  Nothing stores it in `snapshot`.
BuildSnapshot(r) ==
  /\ r \notin failed
  /\ built' = built \cup {[sm |-> sm[r],
                            last |-> IF sm[r].last_applied = 0 THEN NoIndex ELSE sm[r].last_applied,
                            membership |-> NoIndex]}
  /\ UNCHANGED <<committed, commitIndex, applied, failed, sm, membership, snapshot, replies, restarts>>

\* Mutant: only the metadata is installed.
InstallSnapshotMeta(r, s) ==
  /\ r \notin failed
  /\ applied[r] < s.last
  /\ sm' = [sm EXCEPT ![r].last_applied = s.last]
  /\ applied' = [applied EXCEPT ![r] = s.last]
  /\ UNCHANGED <<committed, commitIndex, failed, membership, snapshot, built, replies, restarts>>

\* install_snapshot restores the data and ignores the rest of the snapshot.
\* OpenRaft asks for it when the snapshot is ahead of what it has applied.
InstallSnapshot(r, s) ==
  /\ r \notin failed
  /\ applied[r] < s.last
  /\ sm' = [sm EXCEPT ![r] = s.sm]
  /\ applied' = [applied EXCEPT ![r] = s.last]
  /\ UNCHANGED <<committed, commitIndex, failed, membership, snapshot, built, replies, restarts>>

\* Mutant: the data outlives the log position.
RestartKeepsData(r) ==
  /\ restarts < MaxRestarts
  /\ restarts' = restarts + 1
  /\ applied' = [applied EXCEPT ![r] = NoIndex]
  /\ failed' = failed \ {r}
  /\ sm' = [sm EXCEPT ![r].last_applied = 0]
  /\ membership' = [membership EXCEPT ![r] = NoIndex]
  /\ snapshot' = [snapshot EXCEPT ![r] = NoSnapshot]
  /\ UNCHANGED <<committed, commitIndex, built, replies>>

\* RaftNode::new makes new, empty stores.
Restart(r) ==
  /\ restarts < MaxRestarts
  /\ restarts' = restarts + 1
  /\ applied' = [applied EXCEPT ![r] = NoIndex]
  /\ failed' = failed \ {r}
  /\ sm' = [sm EXCEPT ![r] = NewStateMachine]
  /\ membership' = [membership EXCEPT ![r] = NoIndex]
  /\ snapshot' = [snapshot EXCEPT ![r] = NoSnapshot]
  /\ UNCHANGED <<committed, commitIndex, built, replies>>

Next ==
  \/ \E p \in Payload : Commit(p)
  \/ \E r \in Replica :
       \/ \E n \in Index : Apply(r, n)
       \/ BuildSnapshot(r)
       \/ \E s \in built : InstallSnapshot(r, s)
       \/ Restart(r)

Spec == Init /\ [][Next]_vars

-----------------------------------------------------------------------------

\* Type invariant.
TypeOK ==
  /\ committed \in [Index -> Payload \cup {NoEntry}]
  /\ commitIndex \in NoIndex..MaxIndex
  /\ applied \in [Replica -> NoIndex..MaxIndex]
  /\ failed \subseteq Replica
  /\ sm \in [Replica -> [data : [Key -> Value \cup {Missing}], last_applied : 0..MaxIndex]]
  /\ membership \in [Replica -> NoIndex..MaxIndex]

\* Replicas that have applied as much hold the same data, however their entries
\* were batched, and whether they came from the log or in a snapshot: the data
\* is what the committed entries say.
ReplicasAgree ==
  \A r \in Replica \ failed : \A k \in Key : KeyAsOf(committed, applied[r], k, sm[r].data[k])

\* A snapshot holds the data of exactly the entries its last log id covers, so
\* that the replica that installs it neither misses nor repeats one.
SnapshotExact ==
  \A s \in built : \A k \in Key : KeyAsOf(committed, s.last, k, s.sm.data[k])

\* Whichever replica applies an entry, and however often it is applied again
\* after restarts, its answer is the same.
AnswersAgree == \A i \in Index : \A a, b \in replies[i] : a = b

\* "Stored separately to provide correct membership": a replica's membership is
\* the last one it applied, from the log or in a snapshot.
MembershipCurrent ==
  \A r \in Replica \ failed : MembershipAsOf(committed, applied[r], membership[r])

\* "Some(snapshot) after first snapshot creation/install".
SnapshotStored ==
  built # {} => \E r \in Replica : snapshot[r] # NoSnapshot

=============================================================================
