-------------------------------- MODULE RaftNode --------------------------------
(***************************************************************************)
(* RaftNode (kv/src/raft_node.rs): one node, made by new, with its         *)
(* in-memory log (MemLog) and state machine (MemRaft).  OpenRaft's core    *)
(* task (external) sits between them: it elects, appends, commits, applies *)
(* and answers.  StubNetwork reaches no other node, so the node's group is *)
(* the node itself or, when peers are named, not yet formed.               *)
(***************************************************************************)
EXTENDS MemRaft

CONSTANTS
  Self,       \* the node's id
  Client,     \* callers of propose, one proposal each
  Proposal,   \* bound: the payloads they propose
  NoVote, MaxBatch

ASSUME SelfAssumption == Replica = {Self}
ASSUME ProposalAssumption == Proposal \subseteq SetOp \cup DelOp \cup {Garbage}
ASSUME NoVoteAssumption == NoVote # Self
ASSUME RoomAssumption == FirstIndex < MaxIndex   \* for the two entries of OpenRaft's own

VARIABLES
  log, vote, purged, last, batch,   \* MemLog
  created,    \* how new was called: with peers or without
  leader,     \* the core leads its group (external)
  current_leader,   \* the metrics name this node as leader (external)
  calls,      \* propose, per client
  waiter      \* wait_for_leader

logVars == <<log, vote, purged, last, batch>>
nodeVars == <<created, leader, current_leader, calls, waiter>>
allVars == <<vars, logVars, nodeVars>>

ML == INSTANCE MemLog WITH Entry <- Payload, Vote <- {Self}

NotCalled == [at |-> "none", op |-> Garbage, index |-> NoIndex, answer |-> "", waited |-> FALSE]
Stopped == Self \in failed

NodeInit ==
  /\ Init
  /\ ML!Init
  /\ created = "none"
  /\ leader = FALSE
  /\ current_leader = FALSE
  /\ calls = [c \in Client |-> NotCalled]
  /\ waiter = "none"

-----------------------------------------------------------------------------

\* Mutant: the group is formed whoever the peers are.
NewInitializes(peers) ==
  /\ created = "none"
  /\ created' = IF peers = {} THEN "alone" ELSE "with peers"
  /\ \E m \in MembershipEntry : ML!Append([i \in {FirstIndex} |-> m])
  /\ UNCHANGED <<vars, leader, current_leader, calls, waiter>>

\* Mutant: the group is never formed.
NewWaits(peers) ==
  /\ created = "none"
  /\ created' = IF peers = {} THEN "alone" ELSE "with peers"
  /\ UNCHANGED logVars
  /\ UNCHANGED <<vars, leader, current_leader, calls, waiter>>

\* new: empty stores, and the group of this one node if no peers are named.
New(peers) ==
  /\ created = "none"
  /\ created' = IF peers = {} THEN "alone" ELSE "with peers"
  /\ IF peers = {}
     THEN \E m \in MembershipEntry : ML!Append([i \in {FirstIndex} |-> m])
     ELSE UNCHANGED logVars
  /\ UNCHANGED <<vars, leader, current_leader, calls, waiter>>

\* A node that is in its membership stands for election and needs no other vote.
Elect ==
  /\ last = FirstIndex /\ vote = NoVote
  /\ ML!SaveVote(Self)
  /\ UNCHANGED <<vars, nodeVars>>

\* The leader's first entry is blank.
BecomeLeader ==
  /\ vote = Self /\ ~leader
  /\ ML!Append([i \in {last + 1} |-> Blank])
  /\ leader' = TRUE
  /\ UNCHANGED <<vars, created, current_leader, calls, waiter>>

\* The core publishes its metrics.  What they name after it has stopped is left open.
PublishMetrics ==
  /\ current_leader' \in IF Stopped THEN BOOLEAN ELSE {leader}
  /\ UNCHANGED <<vars, logVars, created, leader, calls, waiter>>

-----------------------------------------------------------------------------
\* propose: client_write sends the request to the core and waits for its answer.

Propose(c, op) ==
  /\ created # "none" /\ calls[c] = NotCalled
  /\ calls' = [calls EXCEPT ![c] = [NotCalled EXCEPT !.at = "sent", !.op = op, !.waited = waiter = "ok"]]
  /\ UNCHANGED <<vars, logVars, created, leader, current_leader, waiter>>

\* The core's leader logs the request; any other core refuses it.
HandleWrite(c) ==
  /\ calls[c].at = "sent" /\ ~Stopped
  /\ \/ /\ leader /\ last < MaxIndex
        /\ ML!Append([i \in {last + 1} |-> calls[c].op])
        /\ calls' = [calls EXCEPT ![c].at = "logged", ![c].index = last + 1]
     \/ /\ ~leader
        /\ calls' = [calls EXCEPT ![c].at = "err"]
        /\ UNCHANGED logVars
  /\ UNCHANGED <<vars, created, leader, current_leader, waiter>>

\* One voter is a quorum: what is in its log is committed.
CommitNext ==
  /\ leader /\ ~Stopped
  /\ commitIndex < last
  /\ Commit(log[commitIndex + 1])
  /\ UNCHANGED <<logVars, nodeVars>>

\* Mutant: the last committed entry is left for the next batch.
ApplyBatchLags(n) == n < commitIndex /\ Apply(Self, n) /\ UNCHANGED <<logVars, nodeVars>>

\* The state machine applies a batch of committed entries.
ApplyBatch(n) == Apply(Self, n) /\ UNCHANGED <<logVars, nodeVars>>

\* Mutant: the client is answered when its entry is committed.
AnswerCommitted(c) ==
  /\ calls[c].at = "logged" /\ calls[c].index <= commitIndex
  /\ calls' = [calls EXCEPT ![c].at = "ok", ![c].answer = Answer(sm[Self].data, calls[c].op)]
  /\ UNCHANGED <<vars, logVars, created, leader, current_leader, waiter>>

\* The response apply gave for the client's entry.
AnswerClient(c) ==
  /\ calls[c].at = "logged" /\ calls[c].index <= applied[Self]
  /\ \E answer \in replies[calls[c].index] :
       calls' = [calls EXCEPT ![c].at = "ok", ![c].answer = answer]
  /\ UNCHANGED <<vars, logVars, created, leader, current_leader, waiter>>

\* A core that has stopped drops the requests it holds.
DropClient(c) ==
  /\ Stopped /\ calls[c].at \in {"sent", "logged"}
  /\ calls' = [calls EXCEPT ![c].at = "err"]
  /\ UNCHANGED <<vars, logVars, created, leader, current_leader, waiter>>

-----------------------------------------------------------------------------
\* wait_for_leader: is_leader is polled until it holds or the time is up.

IsLeader == current_leader

StartWait ==
  /\ created # "none" /\ waiter = "none"
  /\ waiter' = "polling"
  /\ UNCHANGED <<vars, logVars, created, leader, current_leader, calls>>

\* Mutant: a poll succeeds as soon as the node knows its group.
PollFormed ==
  /\ waiter = "polling" /\ last >= FirstIndex
  /\ waiter' = "ok"
  /\ UNCHANGED <<vars, logVars, created, leader, current_leader, calls>>

Poll ==
  /\ waiter = "polling" /\ IsLeader
  /\ waiter' = "ok"
  /\ UNCHANGED <<vars, logVars, created, leader, current_leader, calls>>

TimeUp ==
  /\ waiter = "polling"
  /\ waiter' = "timeout"
  /\ UNCHANGED <<vars, logVars, created, leader, current_leader, calls>>

-----------------------------------------------------------------------------
\* OpenRaft's snapshot policy: build a snapshot, and purge entries it covers.

Build ==
  /\ created # "none" /\ built = {}   \* bound: one snapshot
  /\ BuildSnapshot(Self)
  /\ UNCHANGED <<logVars, nodeVars>>

PurgeLog(i) ==
  /\ ~Stopped
  /\ \E s \in built : i <= s.last
  /\ ML!Purge(i)
  /\ UNCHANGED <<vars, nodeVars>>

NodeNext ==
  \/ \E peers \in {{}, {"peer"}} : New(peers)
  \/ Elect \/ BecomeLeader \/ PublishMetrics
  \/ \E c \in Client :
       \/ \E op \in Proposal : Propose(c, op)
       \/ HandleWrite(c) \/ AnswerClient(c) \/ DropClient(c)
  \/ CommitNext
  \/ \E n \in Index : ApplyBatch(n)
  \/ StartWait \/ Poll \/ TimeUp
  \/ Build
  \/ \E i \in Index : PurgeLog(i)

NodeSpec == NodeInit /\ [][NodeNext]_allVars

\* The core and the state machine are tasks of a runtime that goes on scheduling
\* them; callers, snapshots and the clock promise nothing.
NodeFairness ==
  /\ WF_allVars(Elect) /\ WF_allVars(BecomeLeader) /\ WF_allVars(PublishMetrics)
  /\ WF_allVars(CommitNext)
  /\ WF_allVars(\E n \in Index : ApplyBatch(n))
  /\ \A c \in Client :
       WF_allVars(HandleWrite(c)) /\ WF_allVars(AnswerClient(c)) /\ WF_allVars(DropClient(c))

NodeFairSpec == NodeSpec /\ NodeFairness

-----------------------------------------------------------------------------

\* Type invariant.
NodeTypeOK ==
  /\ TypeOK /\ ML!TypeOK
  /\ created \in {"none", "alone", "with peers"}
  /\ leader \in BOOLEAN /\ current_leader \in BOOLEAN
  /\ \A c \in Client : /\ calls[c].at \in {"none", "sent", "logged", "ok", "err"}
                       /\ calls[c].index \in NoIndex..MaxIndex
  /\ waiter \in {"none", "polling", "ok", "timeout"}

\* What the core will ask its log for is there and is what was committed, whatever
\* has been purged: the entries after the applied one, up to the committed one.
UnappliedReadable ==
  LET a == applied[Self] + 1
  IN ~Stopped => ML!TryGetLogEntries(a, commitIndex) = [i \in a..commitIndex |-> committed[i]]

\* propose returns Ok only for an operation that is in the log once, at its own index,
\* and has been applied; its answer is the one the entries before it call for: OK for a
\* Set, and for a Del whether the key was there, however proposals were batched.
AnswersLinear ==
  \A c \in Client : calls[c].at = "ok" =>
    LET i == calls[c].index
        op == calls[c].op
    IN /\ i <= applied[Self] /\ committed[i] = op
       /\ \A d \in Client \ {c} : calls[d].index # i
       /\ op.kind = "set" => calls[c].answer = "OK"
       /\ op.kind = "del" => calls[c].answer = IF KeyAsOf(committed, i - 1, op.key, Missing) THEN "0" ELSE "1"

\* Once wait_for_leader has returned Ok, propose fails only if the core has stopped:
\* leadership, as the metrics report it, is not ahead of the core's.
WaitedProposalsAccepted ==
  \A c \in Client : calls[c].waited /\ calls[c].at = "err" => Stopped

\* A node made with peers never leads and accepts nothing: there is no network to
\* form the group ("StubNetwork can't elect").
JoinerStaysFollower ==
  created = "with peers" => /\ ~leader /\ ~current_leader /\ waiter # "ok" /\ log = [i \in Index |-> NoEntry]
                            /\ \A c \in Client : calls[c].at # "ok"

\* Every propose returns, with an answer or with an error.
ProposalsReturn == \A c \in Client : calls[c].at = "sent" ~> calls[c].at \in {"ok", "err"}

\* A node made without peers reports itself as leader in the end, or has stopped.
LonerLeads == created = "alone" ~> current_leader \/ Stopped

\* A refused proposal has no effect.
ErrNotApplied ==
  \A c \in Client : calls[c].at = "err" /\ calls[c].op.kind = "set" =>
    \/ calls[c].index = NoIndex
    \/ sm[Self].last_applied < calls[c].index

=============================================================================
