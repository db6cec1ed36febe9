------------------------- MODULE RocksNodeLogProofs -------------------------
(***************************************************************************)
(* The log of a node on RocksDB: what a restarted node finds in it, for    *)
(* any number of terms, entries, snapshots and crashes.                    *)
(*                                                                         *)
(* Entries are written and read apart from __last_log_id, and no write of  *)
(* either is synced, so the invariant speaks of every database a crash may *)
(* leave: each names only entries it holds as they were appended, up to    *)
(* the last entry that the core has seen stored.                           *)
(***************************************************************************)
EXTENDS RocksNode, WellFoundedInduction, TLAPS

-----------------------------------------------------------------------------
\* The log a restarted node finds.

\* The log state of d names entry i: it is not past LastLogId(d).
Covered(d, i) ==
  IF d.last # NoLogId THEN i <= d.last.index ELSE \E j \in InLog(d) : i <= j

\* The last index of the log, counting a batch whose __last_log_id is not yet written.
Tail == IF logop.op = "append" THEN logop.id.index ELSE core.index

\* Entry i is in the log as it was appended, and as it was committed.
Intact(i) ==
  /\ db.appended[i].payload \in Payload
  /\ db.log[i] = Stored(db.appended[i].payload)
  /\ i <= commitIndex => db.appended[i].payload = committed[i]

LogDb(d) ==
  /\ {"log", "last", "applied", "appended", "installed"} \subseteq DOMAIN d
  /\ d.last \in [term : Nat, index : Span]
  /\ d.applied \in Span
  /\ d.appended \in [Index -> [term : Nat, payload : Payload \cup {NoEntry}]]
  /\ d.installed \in BOOLEAN

\* The applied index is synced: every survivor has the same one.
DbInv ==
  /\ db \in survivors
  /\ \A d \in survivors : LogDb(d) /\ d.applied = db.applied /\ d.installed = db.installed
  /\ mode = "down" => survivors = {db} /\ logop = NoOp

CoreInv ==
  /\ core \in [term : Nat, index : Span]
  /\ logop \in [op : {"none", "append", "purge"}, id : [term : Nat, index : Span]]
  /\ logop.op = "append" => logop.id.index \in Index
  /\ commitIndex \in Span
  /\ DOMAIN committed = Index
  /\ conflicts \in Nat

\* No handler and no snapshot holds an index past the applied one, but for the end
\* of the batch being applied.
TaskInv ==
  /\ {"op", "end"} \subseteq DOMAIN job
  /\ job.op = "apply" => job.end \in Index /\ db.applied < job.end
  /\ job.op = "install" => job.end = db.applied
  /\ build.active => build.last \in Span /\ build.last <= db.applied
  /\ built.last \in Span /\ built.last <= db.applied
  /\ current_snapshot.last \in Span /\ current_snapshot.last <= db.applied

\* Past the applied index, every survivor has the entries its log state names, and
\* they are the ones of db; db has them as they were appended and committed.
ReplayInv ==
  /\ \A d \in survivors : \A i \in Index : db.applied < i /\ Covered(d, i) =>
       /\ d.log[i] = db.log[i]
       /\ d.appended[i] = db.appended[i]
       /\ mode # "down" => i <= Tail
  /\ \A i \in Index : db.applied < i /\ (i <= Tail \/ Covered(db, i)) => Intact(i)

\* No entry of d up to id has a later term than id.
TermsBelow(d, id) == \A i \in Index : i <= id.index => d.appended[i].term <= id.term

\* While no snapshot is installed, OpenRaft's last log id is the stored one.  If none
\* is stored, it is the last entry with term 0, and no entry but that at index 0 can
\* have been applied: its log id would not be the one it was appended with.
TailInv ==
  /\ \A d \in survivors :
       /\ d.applied \in Index => Covered(d, d.applied)
       /\ d.last = NoLogId => d.applied <= 0
       /\ d.last # NoLogId => d.last.index \in Index /\ TermsBelow(d, d.last)
       /\ \A i \in InLog(d) : (i = 0 <=> d.appended[i].term = 0)
  /\ job.op = "apply" => Covered(db, job.end) /\ (db.last = NoLogId => job.end <= 0)
  /\ mode # "down" =>
       IF db.last # NoLogId THEN core.term = db.last.term /\ core.index = db.last.index
       ELSE core.index = NoIndex \/ (core.term = 0 /\ core.index \in InLog(db))
  /\ logop.op = "append" => core.index < logop.id.index /\ TermsBelow(db, logop.id)
  /\ logop.op = "append" => db.log[logop.id.index] # NoEntry

LogInv ==
  /\ DbInv /\ CoreInv /\ TaskInv
  /\ conflicts = 0 => ReplayInv
  /\ conflicts = 0 /\ ~db.installed => TailInv

-----------------------------------------------------------------------------
\* The operators.

\* A set of naturals has a least member, and a bounded one a greatest.
LEMMA LeastIndex ==
  ASSUME NEW T \in SUBSET Nat, T # {}
  PROVE  \E m \in T : \A j \in T : m <= j
<1> DEFINE R == {ss \in Nat \X Nat : ss[1] < ss[2]}
<1>1. IsWellFoundedOn(R, Nat)
  BY NatLessThanWellFounded, Zenon DEF OpToRel
<1>2. PICK m \in T : \A j \in T : ~ (<<j, m>> \in R)
  <2> HIDE DEF R
  <2> QED
    BY <1>1, WFMin, Zenon
<1>3. \A j \in T : ~(j < m)
  BY <1>2, Zenon
<1> QED
  BY <1>3

LEMMA LastInGreatest ==
  ASSUME NEW T \in SUBSET Index, T # {}
  PROVE  LastIn(T) \in T /\ \A j \in T : j <= LastIn(T)
<1> DEFINE D == {d \in Nat : MaxIndex - d \in T}
<1>1. D # {}
  <2>1. PICK t \in T : TRUE
    OBVIOUS
  <2>2. MaxIndex - t \in Nat /\ MaxIndex - (MaxIndex - t) = t
    BY FirstIndexAssumption, MaxIndexAssumption DEF Index
  <2> QED
    BY <2>1, <2>2
<1>2. PICK d \in D : \A e \in D : d <= e
  BY <1>1, LeastIndex, Zenon
<1>3. ASSUME NEW j \in T PROVE j <= MaxIndex - d
  <2>1. MaxIndex - j \in Nat /\ MaxIndex - (MaxIndex - j) = j
    BY FirstIndexAssumption, MaxIndexAssumption DEF Index
  <2>2. d <= MaxIndex - j
    BY <1>2, <2>1
  <2> QED
    BY <1>2, <2>2, MaxIndexAssumption, FirstIndexAssumption DEF Index
<1>4. \E m \in T : \A j \in T : j <= m
  BY <1>2, <1>3
<1> QED
  BY <1>4 DEF LastIn

\* Covered says what LastLogId computes.
LEMMA CoveredMeans ==
  ASSUME NEW d, LogDb(d)
  PROVE  /\ LastLogId(d) \in [term : Nat, index : Span]
         /\ \A i \in Index : i <= LastLogId(d).index <=> Covered(d, i)
<1>0. InLog(d) \in SUBSET Index /\ NoIndex \in Span /\ Index \subseteq Span
  BY FirstIndexAssumption, MaxIndexAssumption DEF InLog, NoIndex, Index, Span
<1>1. CASE d.last # NoLogId
  BY <1>1 DEF LastLogId, Covered, LogDb
<1>2. CASE d.last = NoLogId /\ InLog(d) # {}
  <2>1. LastLogId(d) = [term |-> 0, index |-> LastIn(InLog(d))]
    BY <1>2 DEF LastLogId
  <2>2. LastIn(InLog(d)) \in InLog(d) /\ \A j \in InLog(d) : j <= LastIn(InLog(d))
    BY <1>0, <1>2, LastInGreatest
  <2>3. LastIn(InLog(d)) \in Index
    BY <1>0, <2>2
  <2>4. ASSUME NEW i \in Index PROVE i <= LastIn(InLog(d)) <=> \E j \in InLog(d) : i <= j
    <3>1. ASSUME NEW j \in InLog(d), i <= j PROVE i <= LastIn(InLog(d))
      BY <1>0, <2>2, <2>3, <3>1, FirstIndexAssumption, MaxIndexAssumption DEF Index
    <3> QED
      BY <2>2, <3>1
  <2> QED
    BY <1>0, <1>2, <2>1, <2>3, <2>4 DEF Covered
<1>3. CASE d.last = NoLogId /\ InLog(d) = {}
  <2>1. LastLogId(d) = NoLogId /\ NoLogId \in [term : Nat, index : Span] /\ NoLogId.index = NoIndex
    BY <1>0, <1>3 DEF LastLogId, NoLogId
  <2>2. \A i \in Index : ~(i <= NoIndex) /\ ~Covered(d, i)
    BY <1>3, FirstIndexAssumption, MaxIndexAssumption DEF Covered, NoIndex, Index
  <2> QED
    BY <2>1, <2>2
<1> QED
  BY <1>1, <1>2, <1>3

\* What is stored for a payload is a payload.
LEMMA StoredPayload ==
  ASSUME NEW p \in Payload
  PROVE  Stored(p) \in Payload /\ Stored(p) # NoEntry
<1>1. Stored(p) \in Payload
  <2>1. CASE p \in MembershipEntry
    <3>1. [p EXCEPT !.configs = Flattened(p.configs)] \in MembershipEntry
      BY <2>1, ConfigsAssumption DEF MembershipEntry
    <3> QED
      BY <2>1, <3>1 DEF Stored, Payload, MembershipEntry
  <2>2. CASE p \notin MembershipEntry
    <3>1. p.kind # "membership"
      BY <2>2 DEF Payload, SetOp, DelOp, Garbage, Blank
    <3> QED
      BY <3>1 DEF Stored
  <2> QED
    BY <2>1, <2>2
<1> QED
  BY <1>1, NoEntryAssumption

-----------------------------------------------------------------------------
\* Steps that leave the log alone.

\* e has the log of d, and the same applied index.
SameLog(d, e) ==
  /\ {"log", "last", "applied", "appended", "installed"} \subseteq DOMAIN e
  /\ e.log = d.log /\ e.last = d.last /\ e.appended = d.appended
  /\ e.applied = d.applied /\ e.installed = d.installed

\* An operation other than append.
IdleOps == [op : {"none", "purge"}, id : [term : Nat, index : Span]]

\* A step of a running node that writes nothing, or something else.
Untouched ==
  /\ db' \in survivors'
  /\ survivors' \subseteq survivors \cup {db'}
  /\ SameLog(db, db')
  /\ UNCHANGED <<committed, commitIndex, core, conflicts>>
  /\ logop' = logop \/ (logop.op # "append" /\ logop' \in IdleOps)
  /\ mode # "down" /\ mode' # "down"

LEMMA CoveredSame ==
  ASSUME NEW d, NEW e, SameLog(d, e)
  PROVE  /\ InLog(e) = InLog(d)
         /\ \A i : Covered(e, i) <=> Covered(d, i)
         /\ \A id : TermsBelow(e, id) <=> TermsBelow(d, id)
BY DEF SameLog, InLog, Covered, TermsBelow

LEMMA UntouchedBase ==
  ASSUME DbInv, CoreInv, Untouched
  PROVE  DbInv' /\ CoreInv' /\ db'.applied = db.applied /\ db'.installed = db.installed
         /\ Tail' = Tail /\ (logop'.op = "append" => logop' = logop)
<1>1. LogDb(db) /\ LogDb(db') /\ db'.applied = db.applied /\ db'.installed = db.installed
  BY DEF DbInv, LogDb, Untouched, SameLog
<1>2. logop' \in [op : {"none", "append", "purge"}, id : [term : Nat, index : Span]]
      /\ (logop'.op = "append" => logop' = logop) /\ Tail' = Tail
  BY DEF Untouched, CoreInv, Tail, IdleOps
<1>3. CoreInv'
  BY <1>2 DEF CoreInv, Untouched
<1>4. DbInv'
  BY <1>1 DEF DbInv, Untouched, LogDb
<1> QED
  BY <1>1, <1>2, <1>3, <1>4

LEMMA UntouchedReplay ==
  ASSUME DbInv, CoreInv, ReplayInv, Untouched
  PROVE  ReplayInv'
<1>1. db'.applied = db.applied /\ Tail' = Tail
  BY UntouchedBase
<1>2. db'.log = db.log /\ db'.appended = db.appended /\ UNCHANGED <<committed, commitIndex>>
  BY DEF Untouched, SameLog
<1>3. \A i : Covered(db', i) <=> Covered(db, i)
  BY CoveredSame DEF Untouched
<1>4. \A i \in Index : Intact(i) => Intact(i)'
  BY <1>2 DEF Intact
<1>5. ASSUME NEW i \in Index, db'.applied < i, i <= Tail' \/ Covered(db', i)
      PROVE  Intact(i)'
  BY <1>1, <1>3, <1>4, <1>5 DEF ReplayInv
<1>6. ASSUME NEW d \in survivors', NEW i \in Index, db'.applied < i, Covered(d, i)
      PROVE  /\ d.log[i] = db'.log[i] /\ d.appended[i] = db'.appended[i]
             /\ i <= Tail'
  <2>1. CASE d \in survivors
    BY <1>1, <1>2, <1>6, <2>1 DEF ReplayInv, Untouched
  <2>2. CASE d = db'
    <3>1. Covered(db, i) /\ db \in survivors
      BY <1>3, <1>6, <2>2, SMTT(30), Z3 DEF DbInv
    <3> QED
      BY <1>1, <1>2, <1>6, <2>2, <3>1 DEF ReplayInv, Untouched
  <2> QED
    BY <2>1, <2>2 DEF Untouched
<1> QED
  BY <1>5, <1>6 DEF ReplayInv, Covered, InLog

LEMMA UntouchedTail ==
  ASSUME DbInv, CoreInv, TailInv, Untouched,
         job'.op = "apply" => Covered(db, job'.end) /\ (db.last = NoLogId => job'.end <= 0)
  PROVE  TailInv'
<1>1. /\ db'.log = db.log /\ db'.last = db.last /\ db'.appended = db.appended
      /\ db'.applied = db.applied /\ db \in survivors /\ mode # "down" /\ core' = core
  BY DEF Untouched, SameLog, DbInv
<1>2. /\ InLog(db') = InLog(db) /\ \A i : Covered(db', i) <=> Covered(db, i)
      /\ \A id : TermsBelow(db', id) <=> TermsBelow(db, id)
  BY CoveredSame, SMTT(30), Z3 DEF Untouched
<1>3. ASSUME NEW d \in survivors'
      PROVE  /\ d.applied \in Index => Covered(d, d.applied)
             /\ d.last = NoLogId => d.applied <= 0
             /\ d.last # NoLogId => d.last.index \in Index /\ TermsBelow(d, d.last)
             /\ \A i \in InLog(d) : (i = 0 <=> d.appended[i].term = 0)
  <2>1. CASE d \in survivors
    BY <2>1, SMTT(30), Z3 DEF TailInv
  <2>2. CASE d = db'
    BY <1>1, <1>2, <2>2 DEF TailInv
  <2> QED
    BY <2>1, <2>2 DEF Untouched
<1>4. job'.op = "apply" => Covered(db', job'.end) /\ (db'.last = NoLogId => job'.end <= 0)
  BY <1>1, <1>2
<1>5. IF db'.last # NoLogId THEN core'.term = db'.last.term /\ core'.index = db'.last.index
      ELSE core'.index = NoIndex \/ (core'.term = 0 /\ core'.index \in InLog(db'))
  BY <1>1, <1>2 DEF TailInv
<1>6. logop'.op = "append" => logop' = logop
  BY UntouchedBase
<1>7. logop'.op = "append" => /\ core'.index < logop'.id.index /\ TermsBelow(db', logop'.id)
                              /\ db'.log[logop'.id.index] # NoEntry
  BY <1>1, <1>2, <1>6 DEF TailInv
<1> QED
  BY <1>3, <1>4, <1>5, <1>7 DEF TailInv, Covered, InLog, TermsBelow

\* All three at once.
LEMMA UntouchedKept ==
  ASSUME LogInv, Untouched, TaskInv',
         conflicts = 0 /\ ~db.installed /\ job'.op = "apply" =>
           Covered(db, job'.end) /\ (db.last = NoLogId => job'.end <= 0)
  PROVE  LogInv'
<1>1. DbInv' /\ CoreInv' /\ db'.installed = db.installed /\ conflicts' = conflicts
  BY UntouchedBase DEF LogInv, Untouched
<1>2. conflicts = 0 => ReplayInv'
  BY UntouchedReplay DEF LogInv
<1>3. conflicts = 0 /\ ~db.installed => TailInv'
  BY UntouchedTail DEF LogInv
<1> QED
  BY <1>1, <1>2, <1>3 DEF LogInv

\* The tasks of the state machine go on, or not.
LEMMA TaskKept ==
  ASSUME TaskInv, LogDb(db), db'.applied = db.applied,
         job' = job \/ job' = [job EXCEPT !.next = job.next + 1] \/ job' = NoJob,
         UNCHANGED <<build, built, current_snapshot>>
  PROVE  TaskInv' /\ (job'.op = "apply" => job.op = "apply" /\ job'.end = job.end)
<1>1. /\ {"op", "end"} \subseteq DOMAIN job'
      /\ (job'.op = job.op /\ job'.end = job.end) \/ job'.op = "none"
  BY DEF TaskInv, NoJob
<1> QED
  BY <1>1 DEF TaskInv

LEMMA PutUntouched ==
  ASSUME mode = "up", NEW cf, NEW e, SameLog(db, e), Put(cf, e),
         UNCHANGED <<committed, commitIndex, core, conflicts>>,
         logop' = logop \/ (logop.op # "append" /\ logop' \in IdleOps)
  PROVE  Untouched /\ db' = e
BY DEF Put, Untouched

LEMMA QuietUntouched ==
  ASSUME DbInv, mode # "down", mode' # "down", UNCHANGED <<db, survivors>>,
         UNCHANGED <<committed, commitIndex, core, conflicts>>,
         logop' = logop \/ (logop.op # "append" /\ logop' \in IdleOps)
  PROVE  Untouched
<1>1. SameLog(db, db)
  BY DEF DbInv, LogDb, SameLog
<1> QED
  BY <1>1 DEF DbInv, Untouched, SameLog

\* The state of a database between two steps.
LEMMA DbFacts ==
  ASSUME LogInv
  PROVE  /\ db \in survivors /\ LogDb(db) /\ db.applied \in Span /\ db.last \in [term : Nat, index : Span]
         /\ {"log", "last", "applied", "appended", "installed"} \subseteq DOMAIN db
         /\ core \in [term : Nat, index : Span] /\ core.index \in Span /\ commitIndex \in Span
BY SMTT(30), Z3 DEF LogInv, DbInv, CoreInv, LogDb

LEMMA SaveVoteStep == ASSUME LogInv, NodeSaveVote PROVE LogInv'
<1>1. PICK t \in 1..MaxTerm, n \in NodeId, c \in BOOLEAN : SaveVote(t, n, c)
  BY DEF NodeSaveVote
<1> DEFINE e == [db EXCEPT !.vote = [term |-> t, node |-> n]]
<1>2. SameLog(db, e)
  BY DbFacts DEF SameLog
<1>3. /\ mode = "up" /\ Put("state", e) /\ UNCHANGED <<committed, commitIndex, core, conflicts, logop>>
      /\ UNCHANGED <<job, build, built, current_snapshot, reader>>
  BY <1>1 DEF SaveVote, LogIdle, NodeSaveVote, clusterVars, smVars
<1> HIDE DEF e
<1>4. Untouched /\ db'.applied = db.applied
  BY <1>2, <1>3, PutUntouched DEF SameLog
<1>5. TaskInv' /\ (job'.op = "apply" => job.op = "apply" /\ job'.end = job.end)
  BY <1>3, <1>4, TaskKept, DbFacts DEF LogInv
<1> QED
  BY <1>3, <1>4, <1>5, UntouchedKept, Zenon DEF LogInv, TailInv

\* A batch is a run of entries after OpenRaft's last log id.
LEMMA BatchFacts ==
  ASSUME LogInv, NEW t \in 1..MaxTerm, NEW b \in Batches(t)
  PROVE  \E n \in Index : /\ DOMAIN b = (core.index + 1)..n /\ core.index < n /\ LastIn(DOMAIN b) = n
                          /\ DOMAIN b \subseteq Index
                          /\ \A i \in DOMAIN b : b[i] \in Payload /\ (i <= commitIndex => b[i] = committed[i])
<1>1. PICK n \in Index : /\ core.index < n
                         /\ b \in [(core.index + 1)..n -> Proposals]
                         /\ \A i \in DOMAIN b : i <= commitIndex => b[i] = committed[i]
  BY DEF Batches
<1>2. DOMAIN b \subseteq Index /\ n \in DOMAIN b /\ \A j \in DOMAIN b : j <= n
  BY <1>1, DbFacts, FirstIndexAssumption, MaxIndexAssumption, SMTT(30), Z3 DEF Span, Index, NoIndex
<1>3. LastIn(DOMAIN b) \in DOMAIN b /\ \A j \in DOMAIN b : j <= LastIn(DOMAIN b)
  BY <1>2, LastInGreatest
<1>4. LastIn(DOMAIN b) = n
  BY <1>2, <1>3, FirstIndexAssumption, MaxIndexAssumption DEF Index
<1> QED
  BY <1>1, <1>2, <1>4, ProposalsAssumption

\* What AppendEntries leaves in the database.
LEMMA AppendFacts ==
  ASSUME LogInv, NEW t \in 1..MaxTerm, NEW b \in Batches(t), AppendEntries(t, b),
         UNCHANGED <<clusterVars, conflicts>>
  PROVE  \E n \in Index :
           /\ core.index < n
           /\ logop' = [op |-> "append", id |-> [term |-> TermOf(t, n), index |-> n]]
           /\ LogDb(db') /\ db'.last = db.last /\ db'.applied = db.applied /\ db'.installed = db.installed
           /\ \A i \in Index : core.index < i /\ i <= n =>
                /\ db'.appended[i].payload \in Payload /\ db'.log[i] = Stored(db'.appended[i].payload)
                /\ db'.appended[i].term = TermOf(t, i)
                /\ i <= commitIndex => db'.appended[i].payload = committed[i]
           /\ \A i \in Index : ~(core.index < i /\ i <= n) =>
                db'.log[i] = db.log[i] /\ db'.appended[i] = db.appended[i]
<1>1. PICK n \in Index : /\ DOMAIN b = (core.index + 1)..n /\ core.index < n /\ LastIn(DOMAIN b) = n
                         /\ \A i \in DOMAIN b : b[i] \in Payload /\ (i <= commitIndex => b[i] = committed[i])
  BY BatchFacts, SMTT(30), Z3
<1> DEFINE log == [i \in Index |-> IF i \in DOMAIN b THEN Stored(b[i]) ELSE db.log[i]]
           appended == [i \in Index |-> IF i \in DOMAIN b
                                          THEN [term |-> TermOf(t, i), payload |-> b[i]]
                                          ELSE db.appended[i]]
<1>2. /\ db' = [db EXCEPT !.log = log, !.appended = appended]
      /\ logop' = [op |-> "append", id |-> [term |-> TermOf(t, n), index |-> n]]
  BY <1>1, Zenon DEF AppendEntries, Put
<1>3. \A i \in Index : i \in DOMAIN b <=> core.index < i /\ i <= n
  BY <1>1, DbFacts, FirstIndexAssumption, MaxIndexAssumption, SMT, Z3 DEF Span, Index, NoIndex
<1>4. appended \in [Index -> [term : Nat, payload : Payload \cup {NoEntry}]]
  <2>1. ASSUME NEW i \in Index
        PROVE  appended[i] \in [term : Nat, payload : Payload \cup {NoEntry}]
    <3>1. CASE i \in DOMAIN b
      <4>1. TermOf(t, i) \in Nat
        BY LogBoundsAssumption DEF TermOf
      <4> QED
        BY <1>1, <3>1, <4>1
    <3>2. CASE i \notin DOMAIN b
      BY <3>2, DbFacts DEF LogDb
    <3> QED
      BY <3>1, <3>2, SMTT(30), Z3
  <2> QED
    BY <2>1, SMTT(30), Z3
<1>5. \A i \in Index : i \in DOMAIN b =>
        /\ log[i] = Stored(b[i]) /\ appended[i].payload = b[i] /\ appended[i].term = TermOf(t, i)
  OBVIOUS
<1>6. \A i \in Index : i \notin DOMAIN b => log[i] = db.log[i] /\ appended[i] = db.appended[i]
  OBVIOUS
<1> HIDE DEF log, appended
<1>7. /\ db'.log = log /\ db'.appended = appended /\ LogDb(db')
      /\ db'.last = db.last /\ db'.applied = db.applied /\ db'.installed = db.installed
  BY <1>2, <1>4, DbFacts, SMTT(30), Z3 DEF LogDb
<1> QED
  BY <1>1, <1>2, <1>3, <1>5, <1>6, <1>7

\* OpenRaft appends only when it knows its last log id, and then no entry up to that
\* has a later term.
LEMMA CoreTerms ==
  ASSUME LogInv, TailInv, mode # "down", LastLogIdKnown
  PROVE  TermsBelow(db, core)
<1>1. CASE db.last # NoLogId
  BY <1>1, DbFacts DEF TailInv, TermsBelow
<1>2. CASE db.last = NoLogId /\ core.index = NoIndex
  <2>1. \A i \in Index : ~(i <= core.index)
    BY <1>2, FirstIndexAssumption, MaxIndexAssumption DEF NoLogId, NoIndex, Index
  <2> QED
    BY <2>1 DEF TermsBelow
<1>3. CASE db.last = NoLogId /\ core.term = 0 /\ core.index \in InLog(db)
  <2>1. db.appended[core.index].term = 0
    BY <1>3, SMTT(30), Z3 DEF LastLogIdKnown
  <2>2. core.index = 0
    BY <1>3, <2>1, DbFacts DEF TailInv
  <2>3. \A i \in Index : i <= core.index => i = core.index
    BY <2>2, FirstIndexAssumption, MaxIndexAssumption, SMTT(30), Z3 DEF Index
  <2> QED
    BY <1>3, <2>1, <2>3 DEF TermsBelow
<1> QED
  BY <1>1, <1>2, <1>3, SMTT(30), Z3 DEF TailInv

LEMMA AppendEntriesStep ==
  ASSUME LogInv, LastLogIdKnown, NEW t \in 1..MaxTerm, NEW b \in Batches(t), AppendEntries(t, b),
         UNCHANGED <<clusterVars, smVars, fetched, conflicts>>
  PROVE  LogInv'
<1>1. PICK n \in Index :
           /\ core.index < n
           /\ logop' = [op |-> "append", id |-> [term |-> TermOf(t, n), index |-> n]]
           /\ LogDb(db') /\ db'.last = db.last /\ db'.applied = db.applied /\ db'.installed = db.installed
           /\ \A i \in Index : core.index < i /\ i <= n =>
                /\ db'.appended[i].payload \in Payload /\ db'.log[i] = Stored(db'.appended[i].payload)
                /\ db'.appended[i].term = TermOf(t, i)
                /\ i <= commitIndex => db'.appended[i].payload = committed[i]
           /\ \A i \in Index : ~(core.index < i /\ i <= n) =>
                db'.log[i] = db.log[i] /\ db'.appended[i] = db.appended[i]
  BY AppendFacts, SMTT(30), Z3
<1>2. /\ mode = "up" /\ mode' = "up" /\ logop = NoOp /\ core.term <= t
      /\ survivors' \subseteq survivors \cup {db'} /\ db' \in survivors'
      /\ UNCHANGED <<committed, commitIndex, core, reader, job, build, built, current_snapshot, conflicts>>
  BY DbFacts, Zenon DEF AppendEntries, LogIdle, Put, clusterVars, smVars, CoreInv
<1>3. /\ core.index \in Int /\ core.term \in Nat /\ n \in Int /\ db.applied \in Int /\ commitIndex \in Int
      /\ Index \subseteq Int /\ t \in Nat /\ 1 <= t /\ FirstIndex \in {0, 1} /\ n \in Span
  BY DbFacts, FirstIndexAssumption, MaxIndexAssumption, LogBoundsAssumption, SMTT(30), Z3 DEF Span, NoIndex, Index
<1>4. InLog(db) \subseteq InLog(db') /\ \A i \in InLog(db') \ InLog(db) : core.index < i /\ i <= n
  BY <1>1, StoredPayload, Zenon DEF InLog
<1>5. \A i \in Index : Covered(db', i) => Covered(db, i) \/ i <= n
  BY <1>1, <1>3, <1>4, SMTT(30), Z3 DEF Covered, InLog
<1>6. \A i \in Index : Covered(db, i) => Covered(db', i)
  BY <1>1, <1>4, Zenon DEF Covered
<1>7. DbInv'
  BY <1>1, <1>2, Zenon DEF LogInv, DbInv, LogDb
<1>8. CoreInv'
  <2>1. TermOf(t, n) \in Nat
    BY <1>3, Zenon DEF TermOf
  <2> QED
    BY <1>1, <1>2, <1>3, <2>1 DEF LogInv, CoreInv
<1>9. TaskInv'
  BY <1>1, <1>2, Zenon DEF LogInv, TaskInv
<1>10. Tail = core.index /\ Tail' = n
  BY <1>1, <1>2, SMTT(30), Z3 DEF Tail, NoOp
<1>11. ASSUME ReplayInv PROVE ReplayInv'
  <2>1. \A d \in survivors : \A i \in Index : db.applied < i /\ Covered(d, i) => i <= core.index
    BY <1>2, <1>10, <1>11, Zenon DEF ReplayInv
  <2>2. ASSUME NEW i \in Index, db.applied < i, i <= n PROVE Intact(i)'
    <3>1. CASE core.index < i
      BY <1>1, <1>2, <2>2, <3>1, Zenon DEF Intact
    <3>2. CASE i <= core.index
      <4>1. Intact(i)
        BY <1>10, <1>11, <2>2, <3>2 DEF ReplayInv
      <4>2. ~(core.index < i /\ i <= n)
        BY <1>3, <3>2, SMTT(30), Z3
      <4>3. db'.log[i] = db.log[i] /\ db'.appended[i] = db.appended[i]
        BY <1>1, <4>2, Zenon
      <4> QED
        BY <1>2, <4>1, <4>3, Zenon DEF Intact
    <3> QED
      BY <1>3, <3>1, <3>2, SMTT(30), Z3
  <2>3. ASSUME NEW i \in Index, db.applied < i, Covered(db', i) PROVE i <= n
    <3>1. Covered(db, i) => i <= core.index
      BY <2>1, <2>3, DbFacts, Zenon
    <3>2. Covered(db, i) \/ i <= n
      BY <1>5, <2>3, Zenon
    <3>3. i \in Int /\ core.index < n
      BY <1>1, <1>3, Zenon
    <3> QED
      BY <1>3, <3>1, <3>2, <3>3
  <2>4. ASSUME NEW d \in survivors', NEW i \in Index, db.applied < i, Covered(d, i)
        PROVE  d.log[i] = db'.log[i] /\ d.appended[i] = db'.appended[i] /\ i <= n
    <3>1. CASE d \in survivors
      <4>1. i <= core.index /\ d.log[i] = db.log[i] /\ d.appended[i] = db.appended[i]
        BY <1>11, <2>1, <2>4, <3>1, Zenon DEF ReplayInv
      <4>2. i \in Int /\ core.index < n
        BY <1>1, <1>3, Zenon
      <4>3. ~(core.index < i /\ i <= n) /\ i <= n
        BY <1>3, <4>1, <4>2
      <4> QED
        BY <1>1, <4>1, <4>3, Zenon
    <3>2. CASE d = db'
      BY <2>3, <2>4, <3>2, Zenon
    <3> QED
      BY <1>2, <3>1, <3>2
  <2> QED
    BY <1>1, <1>10, <2>2, <2>3, <2>4, Zenon DEF ReplayInv, Covered, InLog
<1>12. ASSUME TailInv PROVE TailInv'
  <2>1. TermsBelow(db, core)
    BY <1>2, <1>12, CoreTerms, SMTT(30), Z3
  <2>2. /\ db'.applied \in Index => Covered(db', db'.applied)
        /\ db'.last = NoLogId => db'.applied <= 0
    BY <1>1, <1>6, <1>12, DbFacts, Zenon DEF TailInv
  <2>3. db'.last # NoLogId => db'.last.index \in Index /\ TermsBelow(db', db'.last)
    <3>1. db'.last = db.last /\ mode # "down" /\ db \in survivors
      BY <1>1, <1>2, DbFacts, Zenon
    <3>2. SUFFICES ASSUME db.last # NoLogId
                   PROVE  db.last.index \in Index /\ TermsBelow(db', db.last)
      BY <3>1, Zenon DEF TermsBelow
    <3>3. db.last.index \in Index /\ TermsBelow(db, db.last) /\ core.index = db.last.index
      BY <1>12, <3>1, <3>2, Zenon DEF TailInv
    <3>4. \A i \in Index : i <= core.index => ~(core.index < i /\ i <= n)
      BY <1>3
    <3>5. \A i \in Index : i <= db.last.index => db'.appended[i] = db.appended[i]
      BY <1>1, <3>3, <3>4, Zenon
    <3> QED
      BY <3>3, <3>5, Zenon DEF TermsBelow
  <2>4. \A i \in InLog(db') : (i = 0 <=> db'.appended[i].term = 0)
    <3>1. ASSUME NEW i \in InLog(db') PROVE i = 0 <=> db'.appended[i].term = 0
      <4>0. i \in Index
        BY Zenon DEF InLog
      <4>1. CASE core.index < i /\ i <= n
        <5>1. db'.appended[i].term = TermOf(t, i)
          BY <1>1, <4>0, <4>1
        <5> QED
          BY <1>3, <4>0, <5>1, SMTT(30), Z3 DEF TermOf
      <4>2. CASE ~(core.index < i /\ i <= n)
        <5>1. i \in InLog(db) /\ db'.appended[i] = db.appended[i]
          BY <1>1, <1>4, <4>0, <4>2, Zenon
        <5> QED
          BY <1>12, <5>1, DbFacts, Zenon DEF TailInv
      <4> QED
        BY <4>1, <4>2
    <3> QED
      BY <3>1, Zenon
  <2>5. TermsBelow(db', logop'.id)
    <3>1. ASSUME NEW i \in Index, i <= n PROVE db'.appended[i].term <= TermOf(t, n)
      <4>1. CASE core.index < i
        <5>1. db'.appended[i].term = TermOf(t, i)
          BY <1>1, <3>1, <4>1
        <5>2. i = 0 \/ (i # 0 /\ n # 0)
          BY <1>3, <3>1, SMTT(30), Z3 DEF Index
        <5> QED
          BY <1>3, <5>1, <5>2, SMTT(30), Z3 DEF TermOf
      <4>2. CASE i <= core.index
        <5>1. db'.appended[i] = db.appended[i] /\ db.appended[i].term <= core.term
          <6>1. ~(core.index < i /\ i <= n)
            BY <1>3, <4>2
          <6> QED
            BY <1>1, <2>1, <4>2, <6>1, Zenon DEF TermsBelow
        <5>2. db.appended[i].term \in Nat
          BY DbFacts, Zenon DEF LogDb
        <5>3. TermOf(t, n) = t
          <6>1. core.index < n
            BY <1>1, Zenon
          <6> QED
            BY <1>3, <4>2, <6>1 DEF TermOf, Index
        <5>4. core.term <= t
          BY <1>2, Zenon
        <5> QED
          BY <1>3, <5>1, <5>2, <5>3, <5>4
      <4>3. core.index < i \/ i <= core.index
        BY <1>3, SMTT(30), Z3
      <4> QED
        BY <4>1, <4>2, <4>3
    <3> QED
      BY <1>1, <3>1, SMTT(30), Z3 DEF TermsBelow
  <2>6. db'.log[n] # NoEntry
    BY <1>1, <1>3, StoredPayload, SMTT(30), Z3
  <2>7. job'.op = "apply" => Covered(db', job'.end) /\ (db'.last = NoLogId => job'.end <= 0)
    BY <1>1, <1>2, <1>6, <1>12, Zenon DEF TailInv, LogInv, TaskInv
  <2>8. IF db'.last # NoLogId THEN core'.term = db'.last.term /\ core'.index = db'.last.index
        ELSE core'.index = NoIndex \/ (core'.term = 0 /\ core'.index \in InLog(db'))
    BY <1>1, <1>2, <1>4, <1>12, Zenon DEF TailInv
  <2>9. ASSUME NEW d \in survivors'
        PROVE  /\ d.applied \in Index => Covered(d, d.applied)
               /\ d.last = NoLogId => d.applied <= 0
               /\ d.last # NoLogId => d.last.index \in Index /\ TermsBelow(d, d.last)
               /\ \A i \in InLog(d) : (i = 0 <=> d.appended[i].term = 0)
    <3>1. CASE d \in survivors
      BY <1>12, <3>1, SMTT(30), Z3 DEF TailInv
    <3> QED
      BY <1>2, <2>2, <2>3, <2>4, <3>1, Zenon
  <2> QED
    BY <1>1, <1>2, <2>5, <2>6, <2>7, <2>8, <2>9, Zenon DEF TailInv, Covered, InLog, TermsBelow
<1> QED
  BY <1>1, <1>2, <1>7, <1>8, <1>9, <1>11, <1>12, Zenon DEF LogInv

LEMMA AppendMetadataStep ==
  ASSUME LogInv, AppendMetadata, UNCHANGED <<clusterVars, smVars, fetched, conflicts>>
  PROVE  LogInv'
<1>1. /\ mode = "up" /\ logop.op = "append" /\ mode' = "up" /\ logop' = NoOp /\ core' = logop.id
      /\ db' = [db EXCEPT !.last = logop.id]
      /\ survivors' \subseteq survivors \cup {db'} /\ db' \in survivors'
      /\ UNCHANGED <<committed, commitIndex, reader, job, build, built, current_snapshot, conflicts>>
  BY DEF AppendMetadata, Put, clusterVars, smVars
<1>2. /\ logop.id \in [term : Nat, index : Span] /\ logop.id.index \in Index /\ logop.id # NoLogId
      /\ Index \subseteq Int /\ Span \subseteq Int
  <2>1. logop.id \in [term : Nat, index : Span] /\ logop.id.index \in Index
    BY <1>1 DEF LogInv, CoreInv
  <2>2. NoIndex \notin Index /\ NoLogId.index = NoIndex
    BY FirstIndexAssumption, MaxIndexAssumption DEF NoIndex, Index, NoLogId
  <2>3. Index \subseteq Int /\ Span \subseteq Int
    BY FirstIndexAssumption, MaxIndexAssumption DEF NoIndex, Index, Span
  <2> QED
    BY <2>1, <2>2, <2>3
<1>3. /\ LogDb(db') /\ db'.last = logop.id /\ db'.log = db.log /\ db'.appended = db.appended
      /\ db'.applied = db.applied /\ db'.installed = db.installed
  BY <1>1, <1>2, DbFacts, SMT, Z3 DEF LogDb
<1>4. InLog(db') = InLog(db) /\ \A i \in Index : Covered(db', i) <=> i <= logop.id.index
  BY <1>2, <1>3 DEF InLog, Covered
<1>5. Tail = logop.id.index /\ Tail' = logop.id.index /\ NoOp.op # "append"
  BY <1>1 DEF Tail, NoOp
<1>6. DbInv'
  BY <1>1, <1>3 DEF LogInv, DbInv, LogDb
<1>7. CoreInv'
  <2>1. NoOp \in [op : {"none", "append", "purge"}, id : [term : Nat, index : Span]]
    BY FirstIndexAssumption, MaxIndexAssumption DEF NoOp, NoLogId, Span, NoIndex
  <2> QED
    BY <1>1, <1>2, <1>5, <2>1 DEF LogInv, CoreInv
<1>8. TaskInv'
  BY <1>1, <1>3, Zenon DEF LogInv, TaskInv
<1>9. ASSUME ReplayInv PROVE ReplayInv'
  <2>1. ASSUME NEW i \in Index, db.applied < i, i <= logop.id.index PROVE Intact(i)'
    <3>1. Intact(i)
      BY <1>5, <1>9, <2>1 DEF ReplayInv
    <3> QED
      BY <1>1, <1>3, <3>1, Zenon DEF Intact
  <2>2. ASSUME NEW d \in survivors', NEW i \in Index, db.applied < i, Covered(d, i)
        PROVE  d.log[i] = db'.log[i] /\ d.appended[i] = db'.appended[i] /\ i <= logop.id.index
    <3>1. CASE d \in survivors
      BY <1>1, <1>3, <1>5, <1>9, <2>2, <3>1, SMTT(30), Z3 DEF ReplayInv
    <3>2. CASE d = db'
      BY <1>4, <2>2, <3>2
    <3> QED
      BY <1>1, <3>1, <3>2
  <2> QED
    BY <1>3, <1>4, <1>5, <2>1, <2>2 DEF ReplayInv, Covered, InLog
<1>10. ASSUME TailInv PROVE TailInv'
  <2>1. ASSUME NEW i \in Index, Covered(db, i), db.last = NoLogId => i <= 0
        PROVE  i <= logop.id.index
    <3>1. CASE db.last # NoLogId
      <4>1. i <= core.index /\ core.index < logop.id.index
        BY <1>1, <1>10, <2>1, <3>1 DEF TailInv, Covered
      <4>2. i \in Int /\ core.index \in Int /\ logop.id.index \in Int
        BY <1>2, DbFacts, Zenon
      <4> QED
        BY <4>1, <4>2
    <3>2. CASE db.last = NoLogId
      BY <1>2, <2>1, <3>2, FirstIndexAssumption, MaxIndexAssumption, SMT, Z3 DEF Index
    <3> QED
      BY <3>1, <3>2
  <2>2. db'.applied \in Index => Covered(db', db'.applied)
    BY <1>3, <1>4, <1>10, <2>1, DbFacts, SMT, Z3 DEF TailInv
  <2>3. job'.op = "apply" => Covered(db', job'.end)
    BY <1>1, <1>4, <1>10, <2>1 DEF TailInv, LogInv, TaskInv
  <2>4. TermsBelow(db', db'.last) /\ \A i \in InLog(db') : (i = 0 <=> db'.appended[i].term = 0)
    BY <1>1, <1>3, <1>4, <1>10, DbFacts DEF TailInv, TermsBelow
  <2>5. ASSUME NEW d \in survivors'
        PROVE  /\ d.applied \in Index => Covered(d, d.applied)
               /\ d.last = NoLogId => d.applied <= 0
               /\ d.last # NoLogId => d.last.index \in Index /\ TermsBelow(d, d.last)
               /\ \A i \in InLog(d) : (i = 0 <=> d.appended[i].term = 0)
    <3>1. CASE d \in survivors
      BY <1>10, <3>1, Zenon DEF TailInv
    <3>2. CASE d = db'
      BY <1>2, <1>3, <2>2, <2>4, <3>2
    <3> QED
      BY <1>1, <3>1, <3>2, Zenon
  <2> QED
    BY <1>1, <1>2, <1>3, <1>5, <2>3, <2>5 DEF TailInv, Covered, InLog, TermsBelow
<1> QED
  BY <1>1, <1>3, <1>6, <1>7, <1>8, <1>9, <1>10 DEF LogInv

LEMMA AppendStep == ASSUME LogInv, NodeAppend PROVE LogInv'
BY AppendEntriesStep, AppendMetadataStep DEF NodeAppend

LEMMA CommitStep == ASSUME LogInv, NodeCommit PROVE LogInv'
<1>1. PICK p : /\ Commit(p)
               /\ db.appended[commitIndex + 1].payload \in {NoEntry, p}
  BY Zenon DEF NodeCommit
<1>2. /\ committed' = [committed EXCEPT ![commitIndex + 1] = p] /\ commitIndex' = commitIndex + 1
      /\ commitIndex < MaxIndex
      /\ UNCHANGED <<db, survivors, mode, core, logop, reader, job, build, built, current_snapshot, conflicts>>
  BY <1>1, Zenon DEF NodeCommit, Commit, dbVars, smVars, logVars
<1>3. commitIndex' \in Span /\ DOMAIN committed' = Index /\ commitIndex \in Int
  BY <1>2, DbFacts, FirstIndexAssumption, MaxIndexAssumption, SMTT(30), Z3 DEF LogInv, CoreInv, Span, NoIndex
<1>4. DbInv' /\ CoreInv' /\ TaskInv'
  BY <1>2, <1>3, Zenon DEF LogInv, DbInv, CoreInv, TaskInv, LogDb
<1>5. TailInv => TailInv'
  BY <1>2, Zenon DEF TailInv, Covered, InLog, TermsBelow
<1>6. \A i \in Index : Intact(i) => Intact(i)'
  <2> SUFFICES ASSUME NEW i \in Index, Intact(i) PROVE Intact(i)'
    OBVIOUS
  <2>0. i \in Int /\ DOMAIN committed = Index
    BY FirstIndexAssumption, MaxIndexAssumption, SMTT(30), Z3 DEF Index, LogInv, CoreInv
  <2>1. CASE i = commitIndex + 1
    <3>1. db.appended[i].payload = p /\ committed'[i] = p
      BY <1>1, <1>2, <2>0, <2>1, NoEntryAssumption, Zenon DEF Intact
    <3> QED
      BY <1>2, <3>1, Zenon DEF Intact
  <2>2. CASE i # commitIndex + 1
    <3>1. committed'[i] = committed[i] /\ (i <= commitIndex' => i <= commitIndex)
      BY <1>2, <1>3, <2>0, <2>2, SMTT(30), Z3
    <3> QED
      BY <1>2, <3>1 DEF Intact
  <2> QED
    BY <2>1, <2>2
<1>7. ReplayInv => ReplayInv'
  BY <1>2, <1>6, Zenon DEF ReplayInv, Tail, Covered, InLog
<1> QED
  BY <1>2, <1>4, <1>5, <1>7 DEF LogInv

\* A step of the state machine that writes something else, or nothing.
LEMMA TaskStep ==
  ASSUME LogInv, Untouched,
         job' = job \/ job' = [job EXCEPT !.next = job.next + 1] \/ job' = NoJob,
         UNCHANGED <<build, built, current_snapshot>>
  PROVE  LogInv'
<1>1. db'.applied = db.applied
  BY DEF Untouched, SameLog
<1>2. TaskInv' /\ (job'.op = "apply" => job.op = "apply" /\ job'.end = job.end)
  BY <1>1, TaskKept, DbFacts DEF LogInv
<1> QED
  BY <1>2, UntouchedKept DEF LogInv, TailInv

\* One entry of apply writes elsewhere, or nothing.
LEMMA EntryUntouched ==
  ASSUME LogInv, mode = "up", NEW p, ApplyEntry(p), UNCHANGED <<core, logop, conflicts>>
  PROVE  Untouched
<1>1. UNCHANGED <<committed, commitIndex>>
  BY DEF ApplyEntry, ApplyOperation, ApplyMembership, ApplyNothing, ApplyGarbage, NextEntry, clusterVars
<1>2. CASE ApplyOperation(p)
  <2> DEFINE e == [db EXCEPT !.kv = [db.kv EXCEPT ![p.key] = ValueWritten(p)],
                             !.reached = Max2(db.reached, job.next)]
  <2>1. SameLog(db, e) /\ Put("kv", e)
    BY <1>2, DbFacts DEF SameLog, ApplyOperation
  <2> HIDE DEF e
  <2> QED
    BY <1>1, <2>1, PutUntouched
<1>3. CASE ApplyMembership(p)
  <2> DEFINE e == [db EXCEPT !.membership = [at |-> job.next, configs |-> Flattened(p.configs)],
                             !.reached = Max2(db.reached, job.next)]
  <2>1. SameLog(db, e) /\ Put("state", e)
    BY <1>3, DbFacts DEF SameLog, ApplyMembership
  <2> HIDE DEF e
  <2> QED
    BY <1>1, <2>1, PutUntouched
<1>4. CASE ApplyNothing(p) \/ ApplyGarbage(p)
  <2>1. mode' # "down" /\ UNCHANGED <<db, survivors>>
    BY <1>4 DEF ApplyNothing, ApplyGarbage, Fail, dbVars
  <2> QED
    BY <1>1, <2>1, QuietUntouched DEF LogInv
<1> QED
  BY <1>2, <1>3, <1>4 DEF ApplyEntry

LEMMA ApplyEntryStep ==
  ASSUME LogInv, mode = "up", NEW p, ApplyEntry(p), UNCHANGED <<logVars, conflicts>>
  PROVE  LogInv'
<1>1. UNCHANGED <<core, logop, reader, conflicts>>
  BY DEF logVars
<1>2. /\ UNCHANGED <<build, built, current_snapshot>>
      /\ job' = [job EXCEPT !.next = job.next + 1] \/ job' = NoJob
  BY Zenon DEF ApplyEntry, ApplyOperation, ApplyMembership, ApplyNothing, ApplyGarbage, NextEntry
<1> QED
  BY <1>1, <1>2, EntryUntouched, TaskStep

\* apply starts: what it will have applied is within the log that a crash leaves.
LEMMA ApplyStartStep ==
  ASSUME LogInv, LastLogIdKnown, NEW n \in Index, n <= core.index, Apply(n),
         UNCHANGED <<logVars, conflicts>>
  PROVE  LogInv'
<1>1. /\ mode = "up" /\ mode' = "up" /\ db.applied < n
      /\ UNCHANGED <<db, survivors, committed, commitIndex, build, built, current_snapshot>>
      /\ UNCHANGED <<core, logop, reader, conflicts>>
  BY DEF Apply, dbVars, clusterVars, logVars
<1>2. {"op", "end"} \subseteq DOMAIN job' /\ job'.op = "apply" /\ job'.end = n
  BY DEF Apply, NoJob
<1>3. Untouched
  BY <1>1, QuietUntouched, SMTT(30), Z3 DEF LogInv
<1>4. TaskInv'
  BY <1>1, <1>2 DEF LogInv, TaskInv
<1>5. ASSUME TailInv PROVE Covered(db, n) /\ (db.last = NoLogId => n <= 0)
  <2>1. CASE db.last # NoLogId
    BY <1>1, <1>5, <2>1 DEF TailInv, Covered
  <2>2. CASE db.last = NoLogId
    <3>1. core.index # NoIndex
      BY FirstIndexAssumption, MaxIndexAssumption, SMTT(30), Z3 DEF NoIndex, Index
    <3>2. core.term = 0 /\ core.index \in InLog(db)
      BY <1>1, <1>5, <2>2, <3>1, Zenon DEF TailInv
    <3>3. core.index = 0
      BY <1>5, <3>2, DbFacts DEF TailInv, LastLogIdKnown
    <3> QED
      BY <2>2, <3>2, <3>3 DEF Covered
  <2> QED
    BY <2>1, <2>2, Zenon
<1> QED
  BY <1>1, <1>2, <1>3, <1>4, <1>5, UntouchedKept DEF LogInv

LEMMA ApplyFinishStep ==
  ASSUME LogInv, ApplyFinish, UNCHANGED <<logVars, conflicts>>
  PROVE  LogInv'
<1>1. /\ mode = "up" /\ mode' = "up" /\ job.op = "apply" /\ job' = NoJob
      /\ db' = [db EXCEPT !.applied = job.end, !.reached = Max2(db.reached, job.end)] /\ survivors' = {db'}
      /\ UNCHANGED <<committed, commitIndex, build, built, current_snapshot, core, logop, reader, conflicts>>
  BY DEF ApplyFinish, Put, RequiresFsync, clusterVars, logVars
<1>2. /\ job.end \in Index /\ db.applied < job.end /\ job.end \in Span /\ db.applied \in Span
      /\ Index \subseteq Int /\ Span \subseteq Int
  <2>1. job.end \in Index /\ db.applied < job.end /\ db.applied \in Span
    BY <1>1, DbFacts DEF LogInv, TaskInv
  <2>2. Index \subseteq Span /\ Span \subseteq Int
    BY FirstIndexAssumption, MaxIndexAssumption DEF Index, Span, NoIndex
  <2> QED
    BY <2>1, <2>2, Zenon
<1>3. /\ LogDb(db') /\ db'.last = db.last /\ db'.log = db.log /\ db'.appended = db.appended
      /\ db'.applied = job.end /\ db'.installed = db.installed
  BY <1>1, <1>2, DbFacts DEF LogDb
<1>4. /\ InLog(db') = InLog(db) /\ \A i : Covered(db', i) <=> Covered(db, i)
      /\ \A id : TermsBelow(db', id) <=> TermsBelow(db, id)
  BY <1>3 DEF InLog, Covered, TermsBelow
<1>5. DbInv' /\ CoreInv'
  BY <1>1, <1>3 DEF LogInv, DbInv, CoreInv, LogDb
<1>6. TaskInv'
  <2>1. {"op", "end"} \subseteq DOMAIN job' /\ job'.op = "none"
    BY <1>1 DEF NoJob
  <2>2. \A x \in Span : x <= db.applied => x <= db'.applied
    <3>1. db.applied \in Int /\ db'.applied \in Int /\ db.applied < db'.applied
      BY <1>2, <1>3, Zenon
    <3>2. \A x \in Span : x \in Int
      BY <1>2
    <3> QED
      BY <3>1, <3>2
  <2> QED
    BY <1>1, <2>1, <2>2 DEF LogInv, TaskInv
<1>7. ASSUME ReplayInv PROVE ReplayInv'
  <2>1. Tail' = Tail /\ \A i \in Index : db'.applied < i => db.applied < i
    BY <1>1, <1>2, <1>3 DEF Tail
  <2>2. \A i \in Index : Intact(i) => Intact(i)'
    BY <1>1, <1>3, Zenon DEF Intact
  <2>3. \A i \in Index : db'.applied < i /\ (i <= Tail' \/ Covered(db', i)) => Intact(i)'
    BY <1>4, <1>7, <2>1, <2>2 DEF ReplayInv
  <2>4. \A i \in Index : db'.applied < i /\ Covered(db', i) => i <= Tail'
    BY <1>1, <1>4, <1>7, <2>1, DbFacts, Zenon DEF ReplayInv
  <2> QED
    BY <1>1, <2>3, <2>4 DEF ReplayInv, Covered, InLog
<1>8. ASSUME TailInv PROVE TailInv'
  <2>1. /\ Covered(db', db'.applied)
        /\ db'.last = NoLogId => db'.applied <= 0
        /\ db'.last # NoLogId => db'.last.index \in Index /\ TermsBelow(db', db'.last)
        /\ \A i \in InLog(db') : (i = 0 <=> db'.appended[i].term = 0)
    BY <1>1, <1>3, <1>4, <1>8, DbFacts DEF TailInv
  <2>2. job'.op # "apply"
    BY <1>1 DEF NoJob
  <2>3. IF db'.last # NoLogId THEN core'.term = db'.last.term /\ core'.index = db'.last.index
        ELSE core'.index = NoIndex \/ (core'.term = 0 /\ core'.index \in InLog(db'))
    BY <1>1, <1>3, <1>4, <1>8 DEF TailInv
  <2>4. logop'.op = "append" => /\ core'.index < logop'.id.index /\ TermsBelow(db', logop'.id)
                                /\ db'.log[logop'.id.index] # NoEntry
    BY <1>1, <1>3, <1>4, <1>8 DEF TailInv
  <2> QED
    BY <1>1, <2>1, <2>2, <2>3, <2>4 DEF TailInv, Covered, InLog, TermsBelow
<1> QED
  BY <1>1, <1>3, <1>5, <1>6, <1>7, <1>8 DEF LogInv

LEMMA NodeApplyStep == ASSUME LogInv, NodeApply PROVE LogInv'
<1>1. ASSUME NEW n \in Index, LastLogIdKnown, n <= core.index, Apply(n) PROVE LogInv'
  BY <1>1, ApplyStartStep DEF NodeApply
<1>2. CASE mode = "up" /\ Fail /\ UNCHANGED <<clusterVars, smVars>>
  <2>1. /\ mode' # "down" /\ UNCHANGED <<db, survivors, committed, commitIndex, core, logop, conflicts>>
        /\ UNCHANGED <<reader, job, build, built, current_snapshot>>
    BY <1>2 DEF Fail, clusterVars, smVars, logVars, NodeApply
  <2>2. Untouched
    BY <1>2, <2>1, QuietUntouched, Zenon DEF LogInv
  <2> QED
    BY <2>1, <2>2, TaskStep, Zenon
<1>3. CASE Applying /\ ApplyEntry(fetched[job.next])
  BY <1>3, ApplyEntryStep, Zenon DEF NodeApply, Applying
<1>4. CASE ApplyFinish
  BY <1>4, ApplyFinishStep DEF NodeApply
<1> QED
  BY <1>1, <1>2, <1>3, <1>4, Zenon DEF NodeApply

LEMMA InstallAppliedStep ==
  ASSUME LogInv, NEW n \in Index, core.index < n, NEW i, InstallApplied(n, i),
         core' = [core EXCEPT !.index = n],
         UNCHANGED <<cached_vote, last_cache, logop, saved, reader, conflicts>>
  PROVE  LogInv'
<1>1. /\ mode = "up" /\ mode' = "up" /\ db.applied < n
      /\ db' = [db EXCEPT !.applied = n, !.installed = TRUE] /\ survivors' = {db'}
      /\ UNCHANGED <<committed, commitIndex, build, built, current_snapshot>>
  BY DEF InstallApplied, Put, RequiresFsync, clusterVars
<1>2. {"op", "end"} \subseteq DOMAIN job' /\ job'.op = "install" /\ job'.end = n
  BY DEF InstallApplied, NoJob
<1>3. n \in Span /\ Index \subseteq Int /\ Span \subseteq Int
  BY FirstIndexAssumption, MaxIndexAssumption DEF Index, Span, NoIndex
<1>4. /\ LogDb(db') /\ db'.last = db.last /\ db'.log = db.log /\ db'.appended = db.appended
      /\ db'.applied = n /\ db'.installed
  BY <1>1, <1>3, DbFacts DEF LogDb
<1>5. core' \in [term : Nat, index : Span] /\ core'.index = n
  BY <1>3, DbFacts
<1>6. \A j : Covered(db', j) <=> Covered(db, j)
  BY <1>4 DEF InLog, Covered
<1>7. DbInv' /\ CoreInv'
  BY <1>1, <1>4, <1>5 DEF LogInv, DbInv, CoreInv, LogDb
<1>8. TaskInv'
  <2>1. \A x \in Span : x <= db.applied => x <= db'.applied
    <3>1. db.applied \in Int /\ db'.applied \in Int /\ db.applied < db'.applied
      BY <1>1, <1>3, <1>4, DbFacts
    <3>2. \A x \in Span : x \in Int
      BY <1>3
    <3> QED
      BY <3>1, <3>2
  <2> QED
    BY <1>1, <1>2, <1>4, <2>1 DEF LogInv, TaskInv
<1>9. ASSUME ReplayInv PROVE ReplayInv'
  <2>1. \A j \in Index : db'.applied < j => db.applied < j /\ core.index < j
    <3>1. db.applied \in Int /\ core.index \in Int /\ n \in Int /\ db'.applied = n
      BY <1>3, <1>4, DbFacts
    <3> QED
      BY <1>1, <1>3, <3>1
  <2>2. \A j \in Index : db'.applied < j => (j <= Tail' <=> j <= Tail)
    <3>1. CASE logop.op = "append"
      BY <3>1 DEF Tail
    <3>2. CASE logop.op # "append"
      <4>1. Tail = core.index /\ Tail' = n /\ core.index \in Int /\ n \in Int
        BY <1>3, <1>5, <3>2, DbFacts DEF Tail
      <4> QED
        BY <1>3, <1>4, <2>1, <4>1
    <3> QED
      BY <3>1, <3>2
  <2>3. \A j \in Index : Intact(j) => Intact(j)'
    BY <1>1, <1>4 DEF Intact
  <2>4. \A j \in Index : db'.applied < j /\ (j <= Tail' \/ Covered(db', j)) => Intact(j)'
    BY <1>6, <1>9, <2>1, <2>2, <2>3 DEF ReplayInv
  <2>5. \A j \in Index : db'.applied < j /\ Covered(db', j) => j <= Tail'
    BY <1>1, <1>6, <1>9, <2>1, <2>2, DbFacts DEF ReplayInv
  <2> QED
    BY <1>1, <2>4, <2>5 DEF ReplayInv, Covered, InLog
<1> QED
  BY <1>4, <1>7, <1>8, <1>9 DEF LogInv

LEMMA NodeInstallStep == ASSUME LogInv, NodeInstall PROVE LogInv'
<1>1. ASSUME NEW n \in Index, core.index < n, NEW i \in NoIndex..n, InstallApplied(n, i),
             core' = [core EXCEPT !.index = n], UNCHANGED <<cached_vote, last_cache, logop, saved, reader>>
      PROVE  LogInv'
  BY <1>1, InstallAppliedStep, Zenon DEF NodeInstall
<1>2. CASE InstallMembership /\ UNCHANGED logVars
  <2> DEFINE e == [db EXCEPT !.membership =
                     [job.membership EXCEPT !.configs = Flattened(job.membership.configs)]]
  <2>1. /\ SameLog(db, e) /\ Put("state", e) /\ mode = "up"
    BY <1>2, DbFacts DEF SameLog, InstallMembership
  <2>2. /\ UNCHANGED <<committed, commitIndex, core, logop, reader, conflicts, build, built>>
        /\ job.op = "install" /\ job' = NoJob /\ current_snapshot'.last = job.end
    <3>1. UNCHANGED conflicts
      BY Zenon DEF NodeInstall
    <3> QED
      BY <1>2, <3>1 DEF InstallMembership, clusterVars, logVars
  <2> HIDE DEF e
  <2>3. Untouched /\ db'.applied = db.applied
    <3>1. Untouched /\ db' = e
      BY <2>1, <2>2, PutUntouched, Zenon
    <3> QED
      BY <2>1, <3>1, Zenon DEF SameLog
  <2>4. {"op", "end"} \subseteq DOMAIN job' /\ job'.op = "none"
    BY <2>2, Zenon DEF NoJob
  <2>5. current_snapshot'.last \in Span /\ current_snapshot'.last <= db.applied
    <3>1. current_snapshot'.last = db.applied
      BY <2>2, Zenon DEF LogInv, TaskInv
    <3>2. db.applied \in Span
      BY DbFacts, Zenon
    <3>3. db.applied <= db.applied
      BY <3>2, FirstIndexAssumption, MaxIndexAssumption DEF Span, NoIndex
    <3> QED
      BY <3>1, <3>2, <3>3, Zenon
  <2>6. TaskInv'
    BY <2>2, <2>3, <2>4, <2>5 DEF LogInv, TaskInv
  <2> QED
    BY <2>2, <2>3, <2>4, <2>6, UntouchedKept
<1>3. ASSUME NEW n \in Index, InstallRefused(n), UNCHANGED logVars PROVE LogInv'
  <2>1. /\ mode = "up" /\ mode' # "down"
        /\ UNCHANGED <<db, survivors, committed, commitIndex, core, logop, conflicts>>
        /\ UNCHANGED <<reader, job, build, built, current_snapshot>>
    BY <1>3 DEF InstallRefused, Fail, clusterVars, smVars, logVars, NodeInstall
  <2>2. Untouched
    BY <2>1, QuietUntouched DEF LogInv
  <2> QED
    BY <2>1, <2>2, TaskStep
<1> QED
  BY <1>1, <1>2, <1>3 DEF NodeInstall

\* purge never gets ahead of the applied index: a snapshot is built of what is applied.
LEMMA PurgeableApplied ==
  ASSUME LogInv, NEW i \in Index, Purgeable(i)
  PROVE  i <= db.applied
<1>1. built.last <= db.applied /\ current_snapshot.last <= db.applied
  BY SMTT(30), Z3 DEF LogInv, TaskInv
<1>2. built.last \in Int /\ current_snapshot.last \in Int /\ db.applied \in Int /\ i \in Int
  <2>1. Span \subseteq Int /\ Index \subseteq Int
    BY FirstIndexAssumption, MaxIndexAssumption DEF Index, Span, NoIndex
  <2> QED
    BY <2>1, DbFacts, Zenon DEF LogInv, TaskInv
<1>3. i <= Max2(built.last, current_snapshot.last) \/ i = db.applied
  BY DEF Purgeable
<1> QED
  BY <1>1, <1>2, <1>3 DEF Max2

\* truncate_log_before(i) deletes entries from 1 to i - 1 and nothing else.
LEMMA DeleteFacts ==
  ASSUME LogInv, NEW i \in Int, TruncateLogBefore(i), mode = "up"
  PROVE  /\ db' \in survivors' /\ survivors' \subseteq survivors \cup {db'} /\ mode' = "up"
         /\ LogDb(db') /\ db'.last = db.last /\ db'.appended = db.appended
         /\ db'.applied = db.applied /\ db'.installed = db.installed
         /\ InLog(db') \subseteq InLog(db)
         /\ \A j \in Index : j < 1 \/ i <= j => db'.log[j] = db.log[j]
<1>1. CASE UNCHANGED dbVars
  BY <1>1, DbFacts DEF dbVars
<1>2. CASE Put("log", [db EXCEPT !.log = Truncated(db.log, CachedLastIndex, i)])
  <2> DEFINE log == Truncated(db.log, CachedLastIndex, i)
  <2>1. \A j \in Index : log[j] \in {NoEntry, db.log[j]} /\ (j < 1 \/ i <= j => log[j] = db.log[j])
    BY FirstIndexAssumption, MaxIndexAssumption DEF Truncated, Index
  <2>2. db' = [db EXCEPT !.log = log] /\ db' \in survivors' /\ survivors' \subseteq survivors \cup {db'}
        /\ mode' = "up"
    BY <1>2 DEF Put
  <2> HIDE DEF log
  <2>3. /\ LogDb(db') /\ db'.last = db.last /\ db'.appended = db.appended
        /\ db'.applied = db.applied /\ db'.installed = db.installed /\ db'.log = log
    BY <2>2, DbFacts, Zenon DEF LogDb
  <2> QED
    BY <2>1, <2>2, <2>3, Zenon DEF InLog
<1> QED
  BY <1>1, <1>2, Zenon DEF TruncateLogBefore

LEMMA PurgeEntriesStep ==
  ASSUME LogInv, NEW i \in Index, Purgeable(i), PurgeEntries(i),
         UNCHANGED <<clusterVars, smVars, fetched, conflicts>>
  PROVE  LogInv'
<1>1. /\ mode = "up" /\ logop = NoOp /\ TruncateLogBefore(i + 1)
      /\ logop' = [op |-> "purge", id |-> [term |-> 0, index |-> i]]
      /\ UNCHANGED <<committed, commitIndex, core, reader, job, build, built, current_snapshot, conflicts>>
  BY DEF PurgeEntries, LogIdle, clusterVars, smVars
<1>2. Index \subseteq Int /\ Index \subseteq Span /\ Span \subseteq Int
  BY FirstIndexAssumption, MaxIndexAssumption DEF Index, Span, NoIndex
<1>3. i <= db.applied /\ i \in Int /\ db.applied \in Int
  BY <1>2, PurgeableApplied, DbFacts, Zenon
<1>4. /\ db' \in survivors' /\ survivors' \subseteq survivors \cup {db'} /\ mode' = "up"
      /\ LogDb(db') /\ db'.last = db.last /\ db'.appended = db.appended
      /\ db'.applied = db.applied /\ db'.installed = db.installed
      /\ InLog(db') \subseteq InLog(db)
      /\ \A j \in Index : j < 1 \/ i + 1 <= j => db'.log[j] = db.log[j]
  BY <1>1, <1>3, DeleteFacts, SMTT(60), Z3
<1>5. \A j \in Index : db.applied < j => db'.log[j] = db.log[j]
  <2>1. \A j \in Index : db.applied < j => i + 1 <= j
    BY <1>2, <1>3, SMTT(30), Z3
  <2> QED
    BY <1>4, <2>1, Zenon
<1>6. \A j : Covered(db', j) => Covered(db, j)
  BY <1>4, SMTT(30), Z3 DEF Covered
<1>7. Tail' = Tail
  BY <1>1, SMTT(30), Z3 DEF Tail, NoOp
<1>8. DbInv'
  BY <1>1, <1>4, Zenon DEF LogInv, DbInv, LogDb
<1>9. CoreInv'
  <2>1. logop' \in [op : {"none", "append", "purge"}, id : [term : Nat, index : Span]] /\ logop'.op # "append"
    BY <1>1, <1>2, SMTT(30), Z3
  <2> QED
    BY <1>1, <2>1, SMTT(30), Z3 DEF LogInv, CoreInv
<1>10. TaskInv'
  BY <1>1, <1>4, Zenon DEF LogInv, TaskInv
<1>11. ASSUME ReplayInv PROVE ReplayInv'
  <2>1. \A j \in Index : db.applied < j /\ Intact(j) => Intact(j)'
    BY <1>1, <1>4, <1>5, Zenon DEF Intact
  <2>2. \A j \in Index : db'.applied < j /\ (j <= Tail' \/ Covered(db', j)) => Intact(j)'
    BY <1>4, <1>6, <1>7, <1>11, <2>1, Zenon DEF ReplayInv
  <2>3. ASSUME NEW d \in survivors', NEW j \in Index, db'.applied < j, Covered(d, j)
        PROVE  d.log[j] = db'.log[j] /\ d.appended[j] = db'.appended[j] /\ j <= Tail'
    <3>1. CASE d \in survivors
      BY <1>1, <1>4, <1>5, <1>7, <1>11, <2>3, <3>1, Zenon DEF ReplayInv
    <3>2. CASE d = db'
      BY <1>1, <1>4, <1>6, <1>7, <1>11, <2>3, <3>2, DbFacts, Zenon DEF ReplayInv
    <3> QED
      BY <1>4, <3>1, <3>2, SMTT(30), Z3
  <2> QED
    BY <2>2, <2>3, Zenon DEF ReplayInv, Covered, InLog
<1>12. ASSUME TailInv PROVE TailInv'
  <2>1. db.last = NoLogId => db.applied <= 0
    BY <1>12, DbFacts, Zenon DEF TailInv
  <2>2. db.last = NoLogId => \A j \in Index : db'.log[j] = db.log[j]
    BY <1>2, <1>3, <1>4, <2>1, SMTT(30), Z3
  <2>3. db.last = NoLogId => InLog(db') = InLog(db)
    BY <2>2, Zenon DEF InLog
  <2>4. \A j : Covered(db', j) <=> Covered(db, j)
    BY <1>4, <2>3, Zenon DEF Covered
  <2>5. \A id : TermsBelow(db', id) <=> TermsBelow(db, id)
    BY <1>4, SMTT(30), Z3 DEF TermsBelow
  <2>6. ASSUME NEW d \in survivors'
        PROVE  /\ d.applied \in Index => Covered(d, d.applied)
               /\ d.last = NoLogId => d.applied <= 0
               /\ d.last # NoLogId => d.last.index \in Index /\ TermsBelow(d, d.last)
               /\ \A j \in InLog(d) : (j = 0 <=> d.appended[j].term = 0)
    <3>1. CASE d \in survivors
      BY <1>12, <3>1, Zenon DEF TailInv
    <3>2. CASE d = db'
      <4>1. /\ db.applied \in Index => Covered(db, db.applied)
            /\ db.last # NoLogId => db.last.index \in Index /\ TermsBelow(db, db.last)
            /\ \A j \in InLog(db) : (j = 0 <=> db.appended[j].term = 0)
        BY <1>12, DbFacts, Zenon DEF TailInv
      <4> QED
        BY <1>4, <2>1, <2>4, <2>5, <3>2, <4>1, Zenon
    <3> QED
      BY <1>4, <3>1, <3>2, Zenon
  <2>7. job'.op = "apply" => Covered(db', job'.end) /\ (db'.last = NoLogId => job'.end <= 0)
    BY <1>1, <1>4, <1>12, <2>4, Zenon DEF TailInv
  <2>8. IF db'.last # NoLogId THEN core'.term = db'.last.term /\ core'.index = db'.last.index
        ELSE core'.index = NoIndex \/ (core'.term = 0 /\ core'.index \in InLog(db'))
    BY <1>1, <1>4, <1>12, <2>3, Zenon DEF TailInv
  <2> QED
    BY <1>1, <2>6, <2>7, <2>8, Zenon DEF TailInv, Covered, InLog, TermsBelow
<1> QED
  BY <1>1, <1>4, <1>8, <1>9, <1>10, <1>11, <1>12, Zenon DEF LogInv

LEMMA PurgeMetadataUntouched ==
  ASSUME LogInv, PurgeMetadata, UNCHANGED <<committed, commitIndex, conflicts>>
  PROVE  Untouched
<1> DEFINE e == [db EXCEPT !.purged = logop.id.index]
<1>1. /\ SameLog(db, e) /\ Put("log", e) /\ mode = "up" /\ logop.op = "purge" /\ logop' = NoOp
      /\ core' = core
  BY DbFacts DEF SameLog, PurgeMetadata
<1>2. NoOp \in IdleOps
  BY FirstIndexAssumption, MaxIndexAssumption DEF NoOp, NoLogId, IdleOps, Span, NoIndex
<1> HIDE DEF e
<1> QED
  BY <1>1, <1>2, PutUntouched

LEMMA NodePurgeStep == ASSUME LogInv, NodePurge PROVE LogInv'
<1>1. CASE \E i \in Index : Purgeable(i) /\ PurgeEntries(i)
  BY <1>1, PurgeEntriesStep DEF NodePurge
<1>2. CASE PurgeMetadata
  <2>1. UNCHANGED <<committed, commitIndex, conflicts, reader, job, build, built, current_snapshot>>
    BY <1>2 DEF PurgeMetadata, NodePurge, clusterVars, smVars
  <2> QED
    BY <1>2, <2>1, PurgeMetadataUntouched, TaskStep
<1> QED
  BY <1>1, <1>2 DEF NodePurge

\* A truncation ends what LogInv says of the log.
LEMMA NodeTruncateStep == ASSUME LogInv, NodeTruncate PROVE LogInv'
<1>1. PICK i \in Index : Conflicting(i) /\ Truncate(i)
  BY SMTT(30), Z3 DEF NodeTruncate
<1>2. /\ mode = "up" /\ TruncateLogBefore(i) /\ reader' = NoReader /\ conflicts' = conflicts + 1
      /\ core' = IF i = FirstIndex THEN NoLogId ELSE [term |-> db.appended[i - 1].term, index |-> i - 1]
      /\ UNCHANGED <<committed, commitIndex, logop, job, build, built, current_snapshot>>
  BY <1>1, Zenon DEF NodeTruncate, Truncate, LogIdle, clusterVars, smVars
<1>3. i \in Int /\ (i # FirstIndex => i - 1 \in Index) /\ Index \subseteq Span /\ NoIndex \in Span
  BY FirstIndexAssumption, MaxIndexAssumption, SMTT(30), Z3 DEF Index, Span, NoIndex
<1>4. /\ db' \in survivors' /\ survivors' \subseteq survivors \cup {db'} /\ mode' = "up"
      /\ LogDb(db') /\ db'.applied = db.applied /\ db'.installed = db.installed
  BY <1>2, <1>3, DeleteFacts
<1>5. core' \in [term : Nat, index : Span]
  <2>1. CASE i = FirstIndex
    BY <1>2, <1>3, <2>1, Zenon DEF NoLogId
  <2>2. CASE i # FirstIndex
    <3>1. db.appended[i - 1].term \in Nat
      BY <1>3, <2>2, DbFacts, Zenon DEF LogDb
    <3> QED
      BY <1>2, <1>3, <2>2, <3>1
  <2> QED
    BY <2>1, <2>2, Zenon
<1>6. conflicts' \in Nat /\ conflicts' # 0
  BY <1>2, SMTT(30), Z3 DEF LogInv, CoreInv
<1>7. DbInv' /\ CoreInv'
  BY <1>2, <1>4, <1>5, <1>6, Zenon DEF LogInv, DbInv, CoreInv, LogDb
<1>8. TaskInv'
  BY <1>2, <1>4, Zenon DEF LogInv, TaskInv
<1> QED
  BY <1>6, <1>7, <1>8 DEF LogInv

LEMMA NodeQuietStep == ASSUME LogInv, NodeBuild \/ NodeLogOpFails PROVE LogInv'
<1>1. /\ mode = "up" /\ mode' # "down"
      /\ UNCHANGED <<db, survivors, committed, commitIndex, core, logop, conflicts, reader, job, current_snapshot>>
  BY DEF NodeBuild, BuildReadApplied, BuildReadMembership, NodeLogOpFails, LogOpFails, LogIdle, Fail,
         dbVars, clusterVars, smVars, logVars
<1>2. Untouched
  BY <1>1, QuietUntouched DEF LogInv
<1>3. CASE NodeLogOpFails
  BY <1>1, <1>2, <1>3, TaskStep, SMTT(30), Z3 DEF NodeLogOpFails, smVars
<1>4. CASE NodeBuild
  <2>1. TaskInv'
    <3>1. CASE BuildReadApplied
      <4>1. build'.last = db.applied /\ UNCHANGED built
        BY <3>1 DEF BuildReadApplied
      <4>2. db.applied <= db.applied /\ db.applied \in Span
        BY DbFacts, FirstIndexAssumption, MaxIndexAssumption, SMTT(30), Z3 DEF Span, NoIndex
      <4> QED
        BY <1>1, <4>1, <4>2 DEF LogInv, TaskInv
    <3>2. CASE BuildReadMembership
      <4>1. build.active /\ built'.last = build.last /\ ~build'.active
        BY <3>2 DEF BuildReadMembership, NotBuilding
      <4> QED
        BY <1>1, <4>1 DEF LogInv, TaskInv
    <3> QED
      BY <1>4, <3>1, <3>2, Zenon DEF NodeBuild
  <2> QED
    BY <1>1, <1>2, <2>1, UntouchedKept, Zenon DEF LogInv, TailInv
<1> QED
  BY <1>3, <1>4, Zenon

LEMMA NodeReadStep == ASSUME LogInv, NodeRead PROVE LogInv'
<1>1. /\ mode = "up" /\ mode' = "up"
      /\ UNCHANGED <<db, survivors, committed, commitIndex, core, logop, conflicts>>
      /\ UNCHANGED <<job, build, built, current_snapshot>>
  BY DEF NodeRead, ReaderStart, ReaderScan, dbVars, clusterVars, smVars
<1>2. Untouched
  BY <1>1, QuietUntouched DEF LogInv
<1> QED
  BY <1>1, <1>2, TaskStep

\* Any survivor will do: its entries past the applied index are those of db.
LEMMA NodeCrashStep == ASSUME LogInv, NodeCrash PROVE LogInv'
<1>1. /\ mode # "down" /\ mode' = "down" /\ db' \in survivors /\ survivors' = {db'}
      /\ core' = NoLogId /\ logop' = NoOp /\ reader' = NoReader
      /\ job' = NoJob /\ build' = NotBuilding /\ built' = NoSnapshot /\ current_snapshot' = NoSnapshot
      /\ UNCHANGED <<committed, commitIndex, conflicts>>
  BY DEF NodeCrash, Crash, LoseUnsynced, SMForget, LogForget, clusterVars
<1>2. LogDb(db') /\ db'.applied = db.applied /\ db'.installed = db.installed
  BY <1>1 DEF LogInv, DbInv
<1>3. /\ NoIndex \in Span /\ \A x \in Span : NoIndex <= x
      /\ \A i \in Index : ~(i <= NoIndex)
  BY FirstIndexAssumption, MaxIndexAssumption DEF Span, NoIndex, Index
<1>4. DbInv'
  BY <1>1, <1>2, Zenon DEF DbInv, LogDb
<1>5. CoreInv'
  BY <1>1, <1>3 DEF LogInv, CoreInv, NoLogId, NoOp
<1>6. TaskInv'
  <2>1. /\ {"op", "end"} \subseteq DOMAIN job' /\ job'.op = "none" /\ ~build'.active
        /\ built'.last = NoIndex /\ current_snapshot'.last = NoIndex
    BY <1>1 DEF NoJob, NotBuilding, NoSnapshot
  <2>2. NoIndex <= db'.applied
    BY <1>2, <1>3, Zenon DEF LogDb
  <2> QED
    BY <1>3, <2>1, <2>2, Zenon DEF TaskInv
<1>7. ASSUME ReplayInv PROVE ReplayInv'
  <2>1. Tail' = NoIndex
    BY <1>1, Zenon DEF Tail, NoOp, NoLogId
  <2>2. ASSUME NEW i \in Index, db'.applied < i, Covered(db', i) PROVE Intact(i)'
    <3>1. db'.log[i] = db.log[i] /\ db'.appended[i] = db.appended[i] /\ i <= Tail
      BY <1>1, <1>2, <1>7, <2>2, SMTT(30), Z3 DEF ReplayInv
    <3>2. Intact(i)
      BY <1>2, <1>7, <2>2, <3>1, Zenon DEF ReplayInv
    <3> QED
      BY <1>1, <3>1, <3>2, Zenon DEF Intact
  <2> QED
    BY <1>1, <1>3, <2>1, <2>2, Zenon DEF ReplayInv, Covered, InLog
<1>8. ASSUME TailInv PROVE TailInv'
  <2>1. job'.op # "apply" /\ logop'.op # "append"
    BY <1>1, SMTT(30), Z3 DEF NoJob, NoOp
  <2> QED
    BY <1>1, <1>8, <2>1, Zenon DEF TailInv, Covered, InLog, TermsBelow
<1> QED
  BY <1>1, <1>2, <1>4, <1>5, <1>6, <1>7, <1>8, Zenon DEF LogInv

LEMMA NodeOpenStep == ASSUME LogInv, NodeOpen PROVE LogInv'
<1>1. /\ mode = "down" /\ mode' = "up"
      /\ core' = [LastLogId(db) EXCEPT !.index = Max2(LastLogId(db).index, db.applied)]
      /\ UNCHANGED <<db, survivors, committed, commitIndex, logop, reader, conflicts>>
      /\ UNCHANGED <<job, build, built, current_snapshot>>
  BY DEF NodeOpen, Open, LogOpen, clusterVars, smVars
<1>2. survivors = {db} /\ logop = NoOp /\ NoOp.op = "none"
  BY <1>1, Zenon DEF LogInv, DbInv, NoOp
<1>3. /\ LastLogId(db) \in [term : Nat, index : Span]
      /\ \A i \in Index : i <= LastLogId(db).index <=> Covered(db, i)
  BY CoveredMeans, DbFacts
<1>4. Span \subseteq Int /\ \A x \in Span : x \in Index \/ x = NoIndex
  BY FirstIndexAssumption, MaxIndexAssumption DEF Span, NoIndex, Index
<1>5. /\ core' \in [term : Nat, index : Span] /\ core'.term = LastLogId(db).term
      /\ core'.index = Max2(LastLogId(db).index, db.applied)
  BY <1>1, <1>3, DbFacts DEF Max2
<1>6. DbInv' /\ CoreInv' /\ TaskInv'
  BY <1>1, <1>5 DEF LogInv, DbInv, CoreInv, TaskInv, LogDb
<1>8. ASSUME ReplayInv PROVE ReplayInv'
  <2>1. Tail' = Max2(LastLogId(db).index, db.applied)
    BY <1>1, <1>2, <1>5, SMTT(30), Z3 DEF Tail
  <2>2. LastLogId(db).index \in Int /\ db.applied \in Int
    BY <1>3, <1>4, DbFacts, Zenon
  <2>3. \A i \in Index : db.applied < i => (i <= Tail' <=> i <= LastLogId(db).index)
    <3>1. Index \subseteq Int
      BY FirstIndexAssumption, MaxIndexAssumption DEF Index
    <3> QED
      BY <2>1, <2>2, <3>1 DEF Max2
  <2>4. \A i \in Index : db.applied < i => (i <= Tail' <=> Covered(db, i))
    BY <1>3, <2>3
  <2>5. \A i \in Index : Intact(i) => Intact(i)'
    BY <1>1 DEF Intact
  <2>6. \A i \in Index : db.applied < i /\ Covered(db, i) => Intact(i)'
    BY <1>8, <2>5 DEF ReplayInv
  <2> QED
    BY <1>1, <1>2, <2>4, <2>6 DEF ReplayInv, Covered, InLog
<1>9. ASSUME TailInv PROVE TailInv'
  <2>1. db.applied <= LastLogId(db).index
    <3>1. CASE db.applied \in Index
      BY <1>3, <1>9, <3>1, DbFacts, Zenon DEF TailInv
    <3>2. CASE db.applied = NoIndex
      BY <1>3, <3>2, FirstIndexAssumption, MaxIndexAssumption DEF Span, NoIndex
    <3> QED
      BY <1>4, <3>1, <3>2, DbFacts, Zenon
  <2>2. core'.index = LastLogId(db).index /\ core'.term = LastLogId(db).term
    <3>1. LastLogId(db).index \in Int /\ db.applied \in Int
      BY <1>3, <1>4, DbFacts, Zenon
    <3> QED
      BY <1>5, <2>1, <3>1, SMTT(30), Z3 DEF Max2
  <2>3. IF db.last # NoLogId THEN core'.term = db.last.term /\ core'.index = db.last.index
        ELSE core'.index = NoIndex \/ (core'.term = 0 /\ core'.index \in InLog(db))
    <3>1. CASE db.last # NoLogId
      BY <2>2, <3>1, Zenon DEF LastLogId
    <3>2. CASE db.last = NoLogId /\ InLog(db) = {}
      BY <2>2, <3>2, Zenon DEF LastLogId, NoLogId
    <3>3. CASE db.last = NoLogId /\ InLog(db) # {}
      <4>1. LastIn(InLog(db)) \in InLog(db)
        BY <3>3, LastInGreatest DEF InLog
      <4> QED
        BY <2>2, <3>3, <4>1, SMTT(30), Z3 DEF LastLogId
    <3> QED
      BY <3>1, <3>2, <3>3, Zenon
  <2> QED
    BY <1>1, <1>2, <1>9, <2>3, SMTT(30), Z3 DEF TailInv, Covered, InLog, TermsBelow
<1> QED
  BY <1>1, <1>6, <1>8, <1>9 DEF LogInv

LEMMA LogInvInit == NodeInit => LogInv
<1> SUFFICES ASSUME NodeInit PROVE LogInv
  OBVIOUS
<1>1. /\ db = EmptyDb /\ survivors = {EmptyDb} /\ mode = "up" /\ core = NoLogId /\ logop = NoOp
      /\ job = NoJob /\ build = NotBuilding /\ built = NoSnapshot
      /\ current_snapshot = NoSnapshot /\ commitIndex = NoIndex /\ conflicts = 0
      /\ committed = [i \in Index |-> NoEntry]
  BY DEF NodeInit, DbInit, ClusterInit, SMInit, LogInit
<1>2. NoIndex \in Span /\ NoIndex <= NoIndex /\ NoIndex \notin Index /\ NoIndex <= 0
      /\ \A i \in Index : ~(i <= NoIndex)
  BY FirstIndexAssumption, MaxIndexAssumption, SMTT(30), Z3 DEF Span, NoIndex, Index
<1>3. /\ EmptyDb.last = NoLogId /\ EmptyDb.applied = NoIndex /\ InLog(EmptyDb) = {}
      /\ \A i : ~Covered(EmptyDb, i)
  BY SMTT(30), Z3 DEF EmptyDb, InLog, Covered
<1>4. LogDb(EmptyDb)
  BY <1>2, Zenon DEF LogDb, EmptyDb, NoLogId, NeverAppended
<1>5. DbInv /\ CoreInv
  BY <1>1, <1>2, <1>4, SMTT(30), Z3 DEF DbInv, CoreInv, NoLogId, NoOp
<1>6. TaskInv
  BY <1>1, <1>2, <1>3, Zenon DEF TaskInv, NoJob, NotBuilding, NoSnapshot
<1>7. ReplayInv
  BY <1>1, <1>2, <1>3, Zenon DEF ReplayInv, Tail, NoOp, NoLogId
<1>8. TailInv
  BY <1>1, <1>2, <1>3, Zenon DEF TailInv, NoOp, NoJob, NoLogId
<1> QED
  BY <1>5, <1>6, <1>7, <1>8 DEF LogInv

\* The inductive invariant holds in every state of a node.
LEMMA AlwaysLogInv == NodeSpec => []LogInv
<1>1. LogInv /\ [NodeNext]_nodeVars => LogInv'
  <2> SUFFICES ASSUME LogInv, [NodeNext]_nodeVars PROVE LogInv'
    OBVIOUS
  <2>1. CASE UNCHANGED nodeVars
    <3>1. UNCHANGED <<db, survivors, mode, committed, commitIndex, core, logop, reader, conflicts>>
          /\ UNCHANGED <<job, build, built, current_snapshot>>
      BY <2>1, SMTT(30), Z3 DEF nodeVars, vars, dbVars, clusterVars, smVars, logVars
    <3>2. DbInv' /\ CoreInv' /\ TaskInv'
      BY <3>1, Zenon DEF LogInv, DbInv, CoreInv, TaskInv, LogDb
    <3>3. ReplayInv => ReplayInv'
      BY <3>1, Zenon DEF ReplayInv, Tail, Intact, Covered, InLog
    <3>4. TailInv => TailInv'
      BY <3>1, Zenon DEF TailInv, Covered, InLog, TermsBelow
    <3> QED
      BY <3>1, <3>2, <3>3, <3>4, Zenon DEF LogInv
  <2>2. CASE NodeNext
    BY <2>2, SaveVoteStep, AppendStep, CommitStep, NodeApplyStep, NodeInstallStep, NodePurgeStep,
       NodeTruncateStep, NodeQuietStep, NodeReadStep, NodeCrashStep, NodeOpenStep DEF NodeNext
  <2> QED
    BY <2>1, <2>2
<1> QED
  BY LogInvInit, <1>1, PTL DEF NodeSpec


\* Whatever a crash loses, a node that has not truncated its log finds there every entry
\* it has to apply again, as it was committed.
THEOREM RestartCanAlwaysReplay == NodeSpec => []RestartCanReplay
<1>1. LogInv => RestartCanReplay
  <2> SUFFICES ASSUME LogInv, conflicts = 0, NEW d \in survivors, NEW i \in Index,
                      d.applied < i, i <= LastLogId(d).index
               PROVE  d.log[i] # NoEntry /\ (i <= commitIndex => d.log[i] = Stored(committed[i]))
    BY Zenon DEF RestartCanReplay
  <2>1. LogDb(d) /\ d.applied = db.applied /\ ReplayInv
    BY DEF LogInv, DbInv
  <2>2. Covered(d, i)
    BY <2>1, CoveredMeans, Zenon
  <2>3. d.log[i] = db.log[i] /\ (mode # "down" => i <= Tail)
    BY <2>1, <2>2 DEF ReplayInv
  <2>4. mode = "down" => d = db
    BY Zenon DEF LogInv, DbInv
  <2>5. Intact(i)
    BY <2>1, <2>2, <2>3, <2>4, Zenon DEF ReplayInv
  <2> QED
    BY <2>3, <2>5, StoredPayload, Zenon DEF Intact
<1> QED
  BY AlwaysLogInv, <1>1, PTL
=============================================================================
