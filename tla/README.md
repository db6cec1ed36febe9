# Verification of Seshat

TLA+ models of Seshat, a Redis-compatible key-value store on Raft, with the TLC
configurations that check them and TLAPS proofs of their main properties. The code is
the reference for every definition; `PROJECT.json` maps each definition to its lines.

## 1. The system

| Part | Code | State | Operations that change it |
|---|---|---|---|
| RESP parser and codec | `resp/src/parser.rs`, `codec.rs` | parse state, nesting depth, read buffer | `parse`, `decode` |
| RESP encoder | `resp/src/encoder.rs` | none | `encode` |
| Commands, inline commands | `resp/src/command.rs`, `inline.rs` | none | pure functions of a value or a line |
| Buffer pool | `resp/src/buffer_pool.rs` | free buffers | `acquire`, `release` |
| Storage | `storage/src/storage.rs` | RocksDB, `last_log_index_cache` | `put`, `delete`, `batch_write`, `append_log_entry`, `truncate_log_before`, `create_snapshot`, `close` |
| RocksDB log store | `storage/src/openraft_rocksdb.rs` | log and state column families, `cached_vote` | `append`, `truncate`, `purge`, `save_vote` |
| RocksDB state machine | same file | kv and state column families, `current_snapshot` | `apply`, `build_snapshot`, `install_snapshot` |
| In-memory log store | `storage/src/openraft_mem.rs` | map of entries, vote | `append`, `truncate`, `purge`, `save_vote` |
| In-memory state machine | same file, `state_machine.rs` | data, `last_applied`, membership, snapshot | `apply`, `build_snapshot`, `install_snapshot` |
| Legacy `MemStorage` | `storage/src/lib.rs` | hard state, conf state, entries, snapshot, each under its own lock | `append`, `set_*`; raft-rs reads |
| `RaftNode` | `kv/src/raft_node.rs` | an OpenRaft instance on the in-memory stores | `new`, `propose`, `wait_for_leader` |
| gRPC transport, KV service | docs only | - | not implemented |

OpenRaft is external. It drives a log store from one task, one call at a time, and a
state machine from another, while a snapshot builder runs beside `apply`. It treats a
`StorageError` as fatal. `RaftNode` uses the in-memory stores; the RocksDB stores are
exported and driven through OpenRaft's traits.

What is hard here, and hardly reached by tests:

- handlers that write several records without one batch, and crashes between them;
- column families with different durability (`requires_fsync` holds for the state
  column families only) behind one write-ahead log;
- a cache of the last log index that no lock ties to the database;
- a snapshot built while entries are applied;
- a byte stream cut anywhere, in the middle of a nested value too;
- restarts and snapshots that must leave replicas with the same data and answers;
- proposals that wait together for one core, one of which may stop it;
- reads that take several locks, or several calls, one after the other;
- a pool that hands the buffer of one request to the next.

## 2. Modules

| Module | Models |
|---|---|
| `StorageLog` | the log operations of `Storage`, called by threads that share it |
| `StorageKv` | the rest of `Storage`: opening, writes and batches, iterators, checkpoints, crashes |
| `RaftTypes` | log entries, operations, the membership encoding |
| `RaftDb` | the column families of a Raft group, synced and unsynced writes, crashes |
| `RocksStateMachine` | `RocksDBStateMachine` and `RocksDBSnapshotBuilder` on `RaftDb` |
| `RocksLog` | `RocksDBLogStorage` and `RocksDBLogReader` on `RaftDb` |
| `RocksNode` | both on one database, composed and driven as OpenRaft drives them |
| `LogStore` | abstract: what `RaftLogStorage` promises OpenRaft |
| `MemLog` | `OpenRaftMemLog`, which implements `LogStore` |
| `MemRaft` | `OpenRaftMemStateMachine` over `StateMachine`, on several replicas |
| `RaftNode` | `RaftNode` of the kv crate: `MemLog` and `MemRaft` composed, with callers |
| `MemStorage` | the legacy `MemStorage`, one driver and readers |
| `RespWire` | RESP values and `RespEncoder::encode` |
| `RespDecode` | `RespParser::parse`, one operator per `ParseState` |
| `RespParser` | the parser behind `RespCodec`, fed with pieces of a stream |
| `RespCommand` | `RespCommand::from_value` and `InlineCommandParser` |
| `BufferPool` | `BufferPool` |
| `RespRequest` | a request from its arguments to a command: pool, encoder, parser, commands composed |
| `*Proofs` | the theorems (section 5) |
| `MC*` | instances for TLC |

Definitions whose comment begins with "Mutant" are wrong on purpose: no specification
uses them. Each replaces one definition to show that a property would notice.

**Storage log.** A call is a record of where its thread is. Each lock acquisition and each
database access is one action, since the code holds no lock across them. `survivors`
is the set of contents a crash may leave: log writes are not synced, so every state
since the last open is possible. `CrashAndReopen` picks one and warms the cache.

**Storage as a key-value store.** A cell is one key of one column family and holds the number
of the write it comes from, so that a property can say which writes a crash kept. Each
`put`, `delete` and `batch_write` is one record of the write-ahead log. An iterator works
on the state at its creation (RocksDB's snapshot, external); each step of it is an action.
`create_snapshot` is two actions, the checkpoint and the sync of its parent directory.

**Database.** In `RaftDb`, `db` has one field per key or key range. `Put` is one record of the
write-ahead log. A synced write makes all earlier records durable, so `survivors` becomes
the one new state; an unsynced write adds a state to it. Three fields of `db` are history:
`appended`, `reached` and `installed`. The comment at `EmptyDb` explains them.

**RocksDB stores.** Each write of a handler is an action. `job` is what remains of `apply`
or `install_snapshot`, `logop` what remains of `append` or `purge`, `build` what a
running `build_snapshot` has read, and `reader` what a log reader has. A storage error sets
`mode` to `"failed"`, as OpenRaft stops. `FirstIndex` is 0 where OpenRaft numbers entries
(index 0 is the first membership) and 1 where only the storage API is used.

**Node on RocksDB.** `core` is OpenRaft's last log id. Its guards (which entries are appended, when a
log is purged or truncated, which snapshots are sent) are OpenRaft's, marked external in
the map.

**In-memory stores.** Each handler runs under one lock and is one action. `MemLog` keeps
OpenRaft's own `purged` and `last` beside the map. The refinement mapping shows `LogStore`
the part of the map between them. The variable `batch` holds the entries OpenRaft last asked
to append, so that an entry stored wrongly is visible.

**RaftNode.** The state of `MemRaft` for one replica, of `MemLog` (by `INSTANCE`), and of the
callers. A call of `propose` is sent, logged by the core, and answered from what `apply`
returned, or dropped by a core that has stopped. The metrics `is_leader` reads are published
by an action of their own, so they lag behind the core. The election, the commit and the
answering are OpenRaft's (external).

**MemStorage.** The setters and each lock a reader takes are actions. The driver appends after
the last index, as raft-rs does for a log without conflicts; `Driver` adds the two
behaviours the code does not guard against. Sizes of entries are one each.

**RESP.** `Parse` returns what one call of `parse` leaves: result, state, depth and buffer.
States of the same shape (lines, lengths, counts, data, elements) share an operator; each
state has one of its own that says with which parameters. `Receive(p)` delivers the stream up
to byte `p`, and decodes until more is needed, as tokio's `Framed` does. `Cuts` says at
which unsafe places the stream may be cut, and `cuts` records which of them were.

**Requests.** A user acquires a buffer, encodes a request into it, the other side parses it and
makes it a command, and the buffer is released, as it is or after `split()`. By the other route
the words are quoted into a line for the inline parser. A character is one symbol,
a command name too.

## 3. Runs

| Run | Expected | Properties |
|---|---|---|
| `StorageLogSerial` | pass | `NoGaps`, `CacheCurrent`, `NeverOverwritten` |
| `StorageKv` | pass | `WritesWhole`, `SyncedKept`, `ScanExact`, `SnapshotKept` |
| `RocksStateMachine` | pass | `TypeOK`, `AppliedIsBacked`, `SnapshotMembershipFresh`, `VotersKept`, `EventuallyApplied`, `AppliedNeverRegresses` |
| `RocksNode` | pass | `VoteKept`, `RestartCanReplay`, `ReaderTermsNeverLower` |
| `RocksNodeConflict` | pass | `AppliedWithinLog`, `Reopenable`, `ReaderTermsNeverLower` |
| `RocksNodeTruncate` | violation | `ConflictsRemoved` |
| `MemLog` | pass | `Held`, `ImplementsLogStore` |
| `MemRaft` | pass | `ReplicasAgree`, `SnapshotExact`, `AnswersAgree` |
| `RaftNode` | pass | `UnappliedReadable`, `AnswersLinear`, `WaitedProposalsAccepted`, `JoinerStaysFollower`, `ProposalsReturn`, `LonerLeads` |
| `MemStorage` | pass | `TermsExact`, `RangeStable`, `InitialStateInOrder` |
| `RespParser` | pass | `SafeCutsRoundTrip`, `LimitsEnforced`, `MarkerLossShows`, `SwallowedLinesShow`, `PanicOnlyAtTerminator` |
| `RespRequest` | pass | `PoolReady`, `CommandKept` |

To run one: `tlc -config RocksNode.cfg MCRocksNode`.

### What the passing runs show, and their limits

- **`StorageLogSerial`**: one caller. Log indices 1 to 3 allow an append, a truncation
  of part or all of the log, and a rejected gap and duplicate. It covers the code's use by
  OpenRaft, which calls from one task; section 4 says what fails with two threads.
- **`StorageKv`**: two column families, one synced and one not, two keys in each, two writes (so a batch
  can mix families and be followed or preceded by another write), one crash, one thread
  with a scan or a checkpoint in progress while others write. Batches of up to
  three operations with a limit of two; options just inside and outside the limits.
- **`RocksStateMachine`**: two keys, two values, two entries, two crashes, snapshots accepted
  and refused. Two entries hold a write and its overwrite or delete, or a joint membership or a
  bad entry beside a write; two crashes interrupt a replay.
- **`RocksNode`**: entries 0 and 1, one crash, snapshots accepted, the cluster up to two
  entries ahead, so that a purge passes the end of the log, and a log reader, also after the
  crash. No truncation: `RestartCanReplay` does not hold after one, as entries the node needs
  can be gone.
- **`RocksNodeConflict`**: entries 0 to 2 in two terms, one truncation, one entry per
  append, snapshots refused, a log reader beside the appends before and after the truncation.
  The entries are writes: which kind an entry is of does not matter to these properties. No crash
  action, but the invariants about the database quantify over `survivors`, all states a crash could leave.
  What holds after a crash is proved (section 5): `Reopenable` always, `AppliedWithinLog` and
  `ReaderTermsNeverLower` if the node does not also truncate.
- **`MemLog`**: five indices, batches of up to three, two entries per index.
- **`MemRaft`**: two replicas, four entries, one restart.
- **`RaftNode`**: two callers that propose a set, a delete or bytes that do not deserialize, on
  one key, after the membership and the blank entry, with one snapshot and purges behind it.
- **`MemStorage`**: four indices, two terms, one reader. The invariants speak of one
  reader at a time, and readers change nothing, so one is enough.
- **`RespParser`**: streams of up to two values of all 14 types, nested and over the
  limits, cut anywhere. A stream cut only at safe places decodes to what was sent. For each kind
  of unsafe place a property says what is still guaranteed; section 4 has the rest.
- **`RespRequest`**: 21 requests of every command, with words that need quotes or escapes,
  wrong arities and arguments of other kinds; two users and a pool of one buffer, which some
  requests outgrow.

Properties of the state machine that mention `installed` say nothing once a snapshot has
been installed, because `install_snapshot` restores no data.

Most modules with state say in `TypeOK` or `NodeTypeOK` which values their variables have. The run
`RocksStateMachine` checks its own; with the constants of the other runs TLC finds the others to
hold too.

Deadlock is checked for `StorageLogSerial` and `MemLog`. The other models stop when
their bounds are used up, or, as the system does, after a storage error.

### Fairness

`EventuallyApplied` assumes weak fairness of the state machine task (`ApplyStep`,
`InstallMembership`) and of `Open`. The first is tokio's scheduling of OpenRaft's state machine
worker, which calls `apply` as long as committed entries are not applied. The second
is an operator, or a supervisor, that restarts a stopped node. Nothing is assumed of
crashes except that they are finitely many (`MaxCrashes`), and the property excuses a node that a
storage error stopped for good.

`ProposalsReturn` and `LonerLeads` assume weak fairness of the steps of OpenRaft's core and of
its state machine task, and nothing of callers, of the clock behind `wait_for_leader` or of
snapshots. A request of a core that has stopped is dropped with its channel, which is why
`DropClient` is fair.

## 4. Disagreements between code and documentation

One run refutes a sentence of the documentation (`findings` in `PROJECT.json`):
`RocksNodeTruncate` shows that `truncate` (`openraft_rocksdb.rs:744`) deletes the entries before
the conflicting one and keeps the conflicting ones. `docs/specs/openraft/spec.md:122` says
"Remove conflicting entries". That spec leaves storage on RocksDB to a later phase (line 54),
but says what OpenRaft asks of the method. The test
`crates/storage/tests/openraft_integration_tests.rs:115` expects what the code does, "keep entries
3, 4, 5", so code and test agree with each other and not with the spec.

### Further disagreements

These properties are defined in the modules and are not part of the runs above. TLC refutes each
with the constants of the run named, changed as shown. The last column names what holds in its
place.

| Property | Run, change | What happens | What holds |
|---|---|---|---|
| `NoGaps` | `StorageLogSerial`, two threads | an append that read the last index before another thread's truncation leaves a gap (`storage.rs:578`; "thread-safe API", `storage.rs:20`) | one caller, or appends only |
| `NeverOverwritten` | `StorageLogSerial`, two threads, also without truncation | two appends of the same index both pass the check, and the second put replaces an entry the first may have been acknowledged for (`storage.rs:578`; "thread-safe API", `storage.rs:20`) | one caller |
| `CacheCurrent` | `StorageLogSerial`, two threads | a cache fill puts back an old index (`storage.rs:871`; "Highest index or None", `docs/specs/rocksdb/spec.md:161`) | one caller |
| `SnapshotRestoresData` | `RocksStateMachine` | `install_snapshot` advances the applied index and restores no key (`openraft_rocksdb.rs:1139`; "Snapshot restoration from checkpoint directory", `docs/specs/rocksdb/spec.md:45`) | `AppliedNeverRegresses` |
| `MembershipPreserved` | `RocksStateMachine` | a joint membership is stored as one config (`openraft_rocksdb.rs:270`) | `VotersKept` |
| `LogIdsReadBack` | `RocksNodeConflict` | entries of an older term are read back with the term of the last entry (`openraft_rocksdb.rs:459`; "Raft term", `docs/architecture/data-structures.md:218`) | `ReaderTermsNeverLower` |
| `ReaderTermsNeverLower` without its last line | `RocksNode` | after a crash between the entries of the first append and `__last_log_id`, a reader gives every entry term 0 (`openraft_rocksdb.rs:578`) | `ReaderTermsNeverLower`: such entries are not applied |
| `ReaderTermsNeverLower` without `conflicts = 0 \/ crashes = 0` | `RocksNodeConflict`, `MaxCrashes = 1` | a crash between the two writes of the append after a truncation leaves entries of a later term under the old `__last_log_id` (`openraft_rocksdb.rs:720`) | `ReaderTermsNeverLower` |
| `LogContiguous` | `RocksNode` | a crash between the writes of `purge` leaves a hole (`openraft_rocksdb.rs:769`) | `RestartCanReplay` |
| `PurgedAreGone` | `RocksNode` | index 0 is never deleted (`storage.rs:785`; comment at `openraft_rocksdb.rs:757`) | |
| `Reopenable` of databases with an installed snapshot too | `RocksNode` | a log with metadata and no entries is taken for corrupted (`storage.rs:277`) | `Reopenable` |
| `AppliedWithinLog` without its first line | `RocksNodeConflict`, `MaxIndex = 3`, two truncations, one crash | a node that has truncated and crashed finds an entry `__last_log_id` does not name, and OpenRaft truncates entries it has applied (`openraft_rocksdb.rs:720`) | `AppliedWithinLog` |
| `ConflictsRemoved` | `MemLog` | `truncate` keeps the conflicting entry (`openraft_mem.rs:162`) | `Held`, `ImplementsLogStore` |
| `MembershipCurrent` | `MemRaft` | a replica that installs a snapshot keeps its old membership (`openraft_mem.rs:390`) | |
| `SnapshotStored` | `MemRaft` | no snapshot is ever stored (`openraft_mem.rs:194`, comment) | |
| `ErrNotApplied` | `RaftNode` | a proposal applied in the batch of one that stops the core returns an error (`raft_node.rs:147`) | `ProposalsReturn`, `AnswersLinear` |
| `InitialStateConsistent` | `MemStorage` | `initial_state` returns a configuration from after the hard state it returns (`lib.rs:321`; "All fields are wrapped in `RwLock` to provide thread-safe concurrent access.", `lib.rs:70`) | `InitialStateInOrder` |
| `TermsExact`, `RangeStable` | `MemStorage`, `Driver = {"snapshot"}` or `{"rewrite"}` | `append` after a snapshot ahead of the log, or over a conflicting suffix, leaves indices that are not positions (`lib.rs:290`) | a driver that appends at the end |
| `RoundTrip` | `RespParser`, `Cuts = {"crlf"}` | a lone CR is taken for data (`parser.rs:286`), or `len - data.len()` underflows (`parser.rs:405`) | `SwallowedLinesShow`, `PanicOnlyAtTerminator` |
| `RoundTrip` | `RespParser`, `Cuts = {"marker"}` | the marker of a null or boolean is lost (`parser.rs:211`) | `MarkerLossShows` |
| `RoundTrip` | `RespParser`, `Cuts = {"nested"}` | an aggregate cut inside an element loses what was parsed of the element (`parser.rs:527`; "The parser maintains internal state to handle partial frames across", `parser.rs:12`) | `LimitsEnforced` |

Two smaller points about `MemStorage` are in the model and in no property: `term(i)` of an empty log is 0
for every `i`, and a range of a log without entries is refused as unavailable, also when a snapshot covers it.

## 5. Proofs

TLAPS proves these for every value of the constants, under the named assumptions of the
modules: bounds are natural numbers; markers such as `NoEntry` and `NoVote` differ from real
values; `Configs` is closed under flattening; `RaftNode` has room for the two entries
OpenRaft logs by itself; `StorageKv` has a column family and a key. Together the theorems state
every safety property of the passing runs outside the `resp` crate.

| Module | Theorem | States |
|---|---|---|
| `StorageLogProofs` | `TypeCorrect` | `TypeOK` |
| | `AppendersNoGaps` | without truncation, any number of threads: `NoGaps` |
| | `SerialNoGaps`, `SerialCacheCurrent`, `SerialNeverOverwrites` | at most one thread, truncation allowed |
| `StorageKvProofs` | `WritesAlwaysWhole`, `SyncedAlwaysKept` | `WritesWhole`, `SyncedKept` |
| | `SnapshotsAlwaysKept`, `ScansAlwaysExact` | `SnapshotKept`, `ScanExact` |
| `RocksStateMachineProofs` | `TypeCorrect`, `AppliedAlwaysBacked`, `AppliedMonotonic` | `TypeOK`, `AppliedIsBacked`, `AppliedNeverRegresses` |
| | `VotersAlwaysKept`, `SnapshotMembershipAlwaysFresh` | `VotersKept`, `SnapshotMembershipFresh` |
| `RocksNodeLogProofs` | `RestartCanAlwaysReplay` | `RestartCanReplay` |
| `RocksNodeProofs` | `VoteAlwaysKept`, `AppliedAlwaysWithinLog`, `ReaderTermsAlwaysNeverLower` | `VoteKept`, `AppliedWithinLog`, `ReaderTermsNeverLower` |
| | `AlwaysReopenable` | `FirstIndex = 0`: `Reopenable` |
| `RaftNodeProofs` | `ReplicasAlwaysAgree`, `SnapshotsAlwaysExact`, `AnswersAlwaysAgree` | `ReplicasAgree`, `SnapshotExact`, `AnswersAgree` of `MemRaft`, any number of replicas |
| | `UnappliedAlwaysReadable`, `AnswersAlwaysLinear`, `WaitedProposalsAlwaysAccepted`, `JoinerAlwaysFollower` | `UnappliedReadable`, `AnswersLinear`, `WaitedProposalsAccepted`, `JoinerStaysFollower` of `RaftNode`, any number of callers |
| `MemLogProofs` | `TypeCorrect`, `HeldAlways`, `MemLogImplementsLogStore` | `TypeOK`, `Held`, `ImplementsLogStore` |
| `MemStorageProofs` | `InitialStateAlwaysInOrder` | `InitialStateInOrder`, whatever the driver does |
| | `TermsAlwaysExact`, `RangeAlwaysStable` | `Driver = {}`: `TermsExact`, `RangeStable` |

- **Appenders.** `NoGaps` is not inductive: a stale `last` could be used for a put anywhere.
  `Grown` adds that the indices present always start at 1, and that the cache and every
  thread's `last` name an index that is present. Without truncation nothing that was present
  disappears while calls are in progress, so a put lands right after a present index.
- **One caller.** `Current` adds that what the call has read is the last index until its own
  write, and that the cache is empty or right unless the call is about to change it.
  The refuted properties of section 4 show that neither hypothesis can be dropped.
- **Storage.** `WalInv` says that every survivor holds the first *n* writes whole, for an *n*
  that is not behind the last synced write nor behind any checkpoint taken, and that a
  checkpoint holds the writes it was taken of. `Apply` says of a batch that the last operation
  on a cell stays, so nothing has to be shown about a loop. `ScanInv` says that an iterator has
  returned the keys it has passed, once each and in its order; how many there are follows
  from counting a bijection.
- **State machine.** `IInv` is `TypeOK` and `Consistent`. It adds that all survivors have the
  same applied index, since that key is synced, and that the database holds the effect of
  all entries up to the cursor of `apply`'s loop. A crash may then lose any suffix of the
  loop's writes without reaching behind the applied index. Key contents are stated "as of" an
  index (`KeyAsOf`), without recursion. For the voters, `VotersInv` adds the membership
  `install_snapshot` holds between its two writes, and that the entry a membership comes from
  is committed, so that no later commit rewrites it. For snapshots, `FreshInv` adds that the
  applied index `build_snapshot` has read is not ahead of the database's.
- **Vote.** `VoteInv` says that every survivor holds the saved vote. A synced write keeps
  one survivor; every unsynced write starts from one that holds the vote and leaves it alone.
- **Log of a node.** `LogInv` speaks of every survivor, since neither entries nor
  `__last_log_id` are synced. Without truncation (`ReplayInv`), past the applied index a
  survivor names only entries that it holds, that the database holds too, and that are as they
  were appended and committed. Without an installed snapshot either (`TailInv`), the last
  log id OpenRaft knows is the stored one, and no entry before it has a later term. `TaskInv` keeps what is purged behind the applied index.
- **Applied index and log.** Without truncation, `AppliedWithinLog` follows from `TailInv`. With
  truncations and no crash it needs `SettledInv`: OpenRaft knows the term of its last entry, so
  it truncates nothing that is applied or being applied, since that is committed. A crash
  ends this argument, and section 4 shows that the property ends with it.
- **Readers.** `ReaderInv` says that a reader asks for entries up to one OpenRaft knows to be
  appended, and that the `__last_log_id` it has read covers them, while others are appended and
  purged. Without truncation that comes from `TailInv`; without a crash from `TermsInv`, that terms
  do not fall along the log and `__last_log_id`, which truncation leaves alone, is not behind. A reader
  that found no `__last_log_id` is one after a crash of a node whose applied index is 0 at most.
- **Opening.** `EntryZeroInv` says that a database has entry 0 or nothing that tells of an entry:
  the first append writes it, and `truncate_log_before` deletes from 1 on. With
  `FirstIndex = 1` nothing protects the first entry, hence the hypothesis.
- **Replicas.** In `MemRaft`, `IInv` says that each replica, each snapshot and each
  answer is what the committed entries up to its index call for (`KeyAsOf`). `apply` is a
  recursive function over the batch. `StateAfterExact` shows what it leaves after every entry, by
  induction: a least index at which it fails would have a predecessor at which it does not.
- **RaftNode.** `NodeIInv` adds that the log holds everything after the purged entries, which are
  applied; that what is published about leadership is not ahead of the core; and that each
  logged proposal has an index of its own, at which it is logged or committed. The
  state machine's part is reused: a step of the node is a step of `MemRaft`, or leaves it alone.
- **In-memory log.** `Held` is the invariant that carries the refinement: the one entry a
  truncation leaves behind lies right after the last one OpenRaft knows, so `Visible` hides it.
- **MemStorage.** `LogInv` says that the entries have consecutive indices, no gap after the
  snapshot, and the terms that were appended. `ConfInv` says that the configuration is at least
  the one stored with any commit index, so a reader that has read a commit index cannot then
  read an older configuration. `RangeInv` says that the range a reader holds between its calls
  ends within the log, which only grows, and what it has read is still what was appended.

Induction over indices and batches is done with the well-foundedness of `<` on the natural numbers
(`WFMin`, `NatLessThanWellFounded`), which takes a set where the library's induction theorems take
an operator.

Only model-checked:

- `EventuallyApplied`, `ProposalsReturn`, `LonerLeads`: liveness is out of the prover's reach.
- The properties of `RespParser`, and `CommandKept` of `RespRequest`: parsing and encoding are
  `RECURSIVE` operators over nested values, which the prover does not accept.
- `PoolReady`: `BufferPool` has no behaviours of its own, and those of its users are in
  `RespRequest`, with the parser.

## 6. Abstractions

- Keys, values, entry bytes and nodes are opaque. `bincode` and `prost` are taken to be faithful
  except where the code's own messages drop something: `Flattened` (memberships),
  the committed flag of a vote, the term of an entry.
- I/O errors of RocksDB are not modelled. A crash is a crash of the machine.
- `cached_applied` and `cached_membership` are left out, as nothing reads them; so are the
  term and leader in `last_applied_log`.
- RESP integers have one digit or a sign and one, doubles only integral form.
- In `StorageKv`, values are write numbers and batch limits count operations, not bytes.

## 7. Not modelled

- `StubNetwork`: never called. A node made alone contacts nobody; one made with peers is never
  initialized, so it starts no election.
- The conversions between `eraftpb` and OpenRaft types (`storage/src/types.rs`): pure, and
  called by tests only. The byte getters of `MemStorage`, for the same reason.
- `kv/src/operations.rs` beyond what `RaftTypes` has: a copy of the storage crate's `Operation`,
  without the size limit.
- `encode_ok`, `encode_error`, `encode_null` and the text of doubles in the encoder.
- `get` and `exists` of `Storage`, metrics getters of `RaftNode`: reads of one key or one value.
- Error enumerations, the `StorageBackend` trait, tuning of column families: no behaviour of their own.
- The binary prints a greeting; the gRPC transport and the KV service have no code.

The map covers about 3,800 of the 17,000 lines of the crates. Some 12,000 of the others are unit
tests kept in the source files and documentation comments; the functions and types of the code proper
are about 4,900 lines.
What could still be added is proof, not code: `RocksLog` without truncation as an implementation of
`LogStore`, and the decoder of `resp` as a recursive function over the depth of a value.
