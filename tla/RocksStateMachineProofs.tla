------------------------ MODULE RocksStateMachineProofs ------------------------
(***************************************************************************)
(* RocksDBStateMachine keeps its applied index backed by the data, for     *)
(* every number of entries, keys, crashes and sizes of batch.              *)
(*                                                                         *)
(* The argument: inside apply the database is one entry further than       *)
(* `applied` says at every turn of the loop, so the invariant speaks of    *)
(* Cursor, not of `applied`.  A crash goes back to an earlier state of the *)
(* database with the same applied index, since writing that is synced.     *)
(***************************************************************************)
EXTENDS RocksStateMachine, TLAPS

USE FirstIndexAssumption, MaxIndexAssumption DEF NoIndex, Index, Span

-----------------------------------------------------------------------------
\* Facts about prefixes of the committed entries.

\* Committing another entry does not change what an earlier prefix amounts to.
LEMMA PrefixKept ==
  ASSUME NEW c \in Span, NEW es, NEW fs, NEW n \in Span, n <= c,
         \A i \in Index : i <= c => fs[i] = es[i]
  PROVE  /\ \A k, v : KeyAsOf(es, n, k, v) => KeyAsOf(fs, n, k, v)
         /\ \A i : MembershipAsOf(es, n, i) => MembershipAsOf(fs, n, i)
<1>1. ASSUME NEW k, NEW v, KeyAsOf(es, n, k, v) PROVE KeyAsOf(fs, n, k, v)
  <2>1. \A i \in FirstIndex..n : fs[i] = es[i]
    OBVIOUS
  <2> QED
    BY <1>1, <2>1 DEF KeyAsOf
<1>2. ASSUME NEW i, MembershipAsOf(es, n, i) PROVE MembershipAsOf(fs, n, i)
  BY <1>2 DEF MembershipAsOf
<1> QED
  BY <1>1, <1>2

\* An entry that does not write a key leaves it as it was.
LEMMA KeyKept ==
  ASSUME NEW es, NEW n \in Index, NEW k, NEW v,
         KeyAsOf(es, n - 1, k, v), ~WritesKey(es[n], k)
  PROVE  KeyAsOf(es, n, k, v)
BY DEF KeyAsOf

\* An entry that writes a key decides it.
LEMMA KeyWritten ==
  ASSUME NEW es, NEW n \in Index, NEW k, WritesKey(es[n], k)
  PROVE  KeyAsOf(es, n, k, ValueWritten(es[n]))
BY DEF KeyAsOf

LEMMA MembershipKept ==
  ASSUME NEW es, NEW n \in Index, NEW i,
         MembershipAsOf(es, n - 1, i), es[n].kind # "membership"
  PROVE  MembershipAsOf(es, n, i)
BY DEF MembershipAsOf

LEMMA MembershipWritten ==
  ASSUME NEW es, NEW n \in Index, es[n].kind = "membership"
  PROVE  MembershipAsOf(es, n, n)
BY DEF MembershipAsOf

-----------------------------------------------------------------------------
\* What one turn of apply's loop, on the entry at index n, does to the database.
Effect(d, d2, n) ==
  /\ d.reached <= d2.reached
  /\ HasKvCf => \A k \in Key :
       \/ d2.kv[k] = d.kv[k] /\ ~WritesKey(committed[n], k)
       \/ d2.kv[k] = ValueWritten(committed[n]) /\ WritesKey(committed[n], k) /\ n <= d2.reached
  /\ \/ d2.membership.at = d.membership.at /\ committed[n].kind # "membership"
     \/ d2.membership.at = n /\ committed[n].kind = "membership" /\ n <= d2.reached

\* It carries the backing from entry n - 1 to entry n, and does not disturb the
\* backing of any earlier index.
LEMMA EffectBacked ==
  ASSUME NEW d \in Db, NEW d2 \in Db, NEW n \in Index, Effect(d, d2, n)
  PROVE  /\ Backed(d, n - 1) => Backed(d2, n)
         /\ \A a \in Span : a < n /\ Backed(d, a) => Backed(d2, a)
<1>0. d.reached \in Span /\ d2.reached \in Span /\ d.reached <= d2.reached
  BY DEF Db, Effect
<1>1. ASSUME Backed(d, n - 1) PROVE Backed(d2, n)
  <2>1. ASSUME HasKvCf, NEW k \in Key
        PROVE  \E j \in Window(d2, n) : KeyAsOf(committed, j, k, d2.kv[k])
    <3>1. PICK j \in Window(d, n - 1) : KeyAsOf(committed, j, k, d.kv[k])
      BY <1>1, <2>1 DEF Backed, KvWithin
    <3>2. n \in Window(d2, n)
      BY <1>0 DEF Window, Max2
    <3>3. CASE WritesKey(committed[n], k)
      BY <2>1, <3>2, <3>3, KeyWritten DEF Effect
    <3>4. CASE ~WritesKey(committed[n], k)
      <4>1. d2.kv[k] = d.kv[k]
        BY <2>1, <3>4 DEF Effect
      <4>2. CASE j = n - 1
        BY <3>1, <3>2, <3>4, <4>1, <4>2, KeyKept
      <4>3. CASE j # n - 1
        <5>1. j \in Window(d2, n)
          BY <1>0, <4>3 DEF Window, Max2
        <5> QED
          BY <3>1, <4>1, <5>1
      <4> QED
        BY <4>2, <4>3
    <3> QED
      BY <3>3, <3>4
  <2>2. \E j \in Window(d2, n) : MembershipAsOf(committed, j, d2.membership.at)
    <3>1. PICK j \in Window(d, n - 1) : MembershipAsOf(committed, j, d.membership.at)
      BY <1>1 DEF Backed, MembershipWithin
    <3>2. n \in Window(d2, n)
      BY <1>0 DEF Window, Max2
    <3>3. CASE committed[n].kind = "membership"
      BY <3>2, <3>3, MembershipWritten DEF Effect
    <3>4. CASE committed[n].kind # "membership"
      <4>1. d2.membership.at = d.membership.at
        BY <3>4 DEF Effect
      <4>2. CASE j = n - 1
        BY <3>1, <3>2, <3>4, <4>1, <4>2, MembershipKept
      <4>3. CASE j # n - 1
        <5>1. j \in Window(d2, n)
          BY <1>0, <4>3 DEF Window, Max2
        <5> QED
          BY <3>1, <4>1, <5>1
      <4> QED
        BY <4>2, <4>3
    <3> QED
      BY <3>3, <3>4
  <2> QED
    BY <2>1, <2>2 DEF Backed, KvWithin, MembershipWithin
<1>2. ASSUME NEW a \in Span, a < n, Backed(d, a) PROVE Backed(d2, a)
  <2>0. \A j \in Window(d, a) : j \in Window(d2, a)
    BY <1>0 DEF Window, Max2
  <2>1. n <= d2.reached => n \in Window(d2, a)
    BY <1>0, <1>2 DEF Window, Max2
  <2>2. ASSUME HasKvCf, NEW k \in Key
        PROVE  \E j \in Window(d2, a) : KeyAsOf(committed, j, k, d2.kv[k])
    <3>1. PICK j \in Window(d, a) : KeyAsOf(committed, j, k, d.kv[k])
      BY <1>2, <2>2 DEF Backed, KvWithin
    <3>2. CASE WritesKey(committed[n], k)
      BY <2>1, <2>2, <3>2, KeyWritten DEF Effect
    <3>3. CASE ~WritesKey(committed[n], k)
      BY <2>0, <2>2, <3>1, <3>3 DEF Effect
    <3> QED
      BY <3>2, <3>3
  <2>3. \E j \in Window(d2, a) : MembershipAsOf(committed, j, d2.membership.at)
    <3>1. PICK j \in Window(d, a) : MembershipAsOf(committed, j, d.membership.at)
      BY <1>2 DEF Backed, MembershipWithin
    <3>2. CASE committed[n].kind = "membership"
      BY <2>1, <3>2, MembershipWritten DEF Effect
    <3>3. CASE committed[n].kind # "membership"
      BY <2>0, <3>1, <3>3 DEF Effect
    <3> QED
      BY <3>2, <3>3
  <2> QED
    BY <2>2, <2>3 DEF Backed, KvWithin, MembershipWithin
<1> QED
  BY <1>1, <1>2

\* A commit leaves the backing of a database that has seen only committed entries.
LEMMA CommitBacked ==
  ASSUME NEW d \in Db, NEW a \in Span, commitIndex \in Span, a <= commitIndex, d.reached <= commitIndex,
         \A i \in Index : i <= commitIndex => committed'[i] = committed[i],
         Backed(d, a)
  PROVE  Backed(d, a)'
<1>1. \A j \in Window(d, a) : j \in Span /\ j <= commitIndex
  BY DEF Window, Max2, Db
<1>2. ASSUME HasKvCf, NEW k \in Key
      PROVE  \E j \in Window(d, a) : KeyAsOf(committed', j, k, d.kv[k])
  <2>1. PICK j \in Window(d, a) : KeyAsOf(committed, j, k, d.kv[k])
    BY <1>2 DEF Backed, KvWithin
  <2>2. KeyAsOf(committed', j, k, d.kv[k])
    BY <1>1, <2>1, PrefixKept
  <2> QED
    BY <2>2
<1>3. \E j \in Window(d, a) : MembershipAsOf(committed', j, d.membership.at)
  <2>1. PICK j \in Window(d, a) : MembershipAsOf(committed, j, d.membership.at)
    BY DEF Backed, MembershipWithin
  <2>2. MembershipAsOf(committed', j, d.membership.at)
    BY <1>1, <2>1, PrefixKept
  <2> QED
    BY <2>2
<1> QED
  BY <1>2, <1>3 DEF Backed, KvWithin, MembershipWithin, KeyAsOf, MembershipAsOf

-----------------------------------------------------------------------------
IInv == TypeOK /\ Consistent

\* One turn of apply's loop keeps the invariant, whichever column family it
\* writes and whether or not the write is synced.
LEMMA TurnKept ==
  ASSUME IInv, Applying, NextEntry, UNCHANGED <<mode, crashes>>,
         NEW d2 \in Db, db' = d2, Effect(db, d2, job.next),
         d2.applied = db.applied, d2.installed = db.installed, d2.reached <= commitIndex,
         survivors' = {d2} \/ survivors' = survivors \cup {d2}
  PROVE  IInv'
<1>0. /\ job.next \in Index /\ job.next <= job.end /\ job.end \in Index /\ job.end <= commitIndex
      /\ db.applied < job.next /\ db.applied \in Span /\ commitIndex \in Span
      /\ job.op = "apply" /\ db \in Db /\ db \in survivors
  <2>1. db \in Db /\ job \in Job /\ commitIndex \in Span
    BY DEF IInv, TypeOK
  <2>2. db.applied \in Span
    BY <2>1 DEF Db
  <2>3. job.next \in NoIndex..(MaxIndex + 1) /\ job.end \in Span
    BY <2>1 DEF Job
  <2>4. /\ job.op = "apply" /\ job.next <= job.end /\ db.applied < job.next
        /\ job.end <= commitIndex /\ db \in survivors
    BY DEF IInv, Consistent, Applying
  <2> QED
    BY <2>1, <2>2, <2>3, <2>4
<1>1. /\ job' = [job EXCEPT !.next = job.next + 1]
      /\ UNCHANGED <<committed, commitIndex, build, built, current_snapshot>>
  BY DEF NextEntry, clusterVars
<1>2. job' \in Job /\ job'.op = "apply" /\ job'.next = job.next + 1 /\ job'.end = job.end
  <2>1. job \in Job
    BY DEF IInv, TypeOK
  <2> QED
    BY <1>0, <1>1, <2>1 DEF Job
<1>3. TypeOK'
  BY <1>1, <1>2 DEF IInv, TypeOK
<1>4. ~db.installed => Backed(d2, job.next) /\ Backed(d2, d2.applied)
  <2> HAVE ~db.installed
  <2>1. Backed(db, job.next - 1) /\ Backed(db, db.applied)
    BY <1>0 DEF IInv, Consistent, Cursor, AppliedIsBacked
  <2> QED
    BY <1>0, <2>1, EffectBacked
<1>5. \A d, a : Backed(d, a)' <=> Backed(d, a)
  BY <1>1 DEF Backed, KvWithin, MembershipWithin, KeyAsOf, MembershipAsOf
<1>6. AppliedIsBacked'
  BY <1>4, <1>5 DEF IInv, Consistent, AppliedIsBacked
<1>7. (~db.installed => Backed(db, Cursor))'
  <2>1. Cursor' = job.next
    BY <1>0, <1>2 DEF Cursor
  <2> QED
    BY <1>1, <1>4, <2>1 DEF Backed, KvWithin, MembershipWithin
<1>8. Consistent'
  BY <1>0, <1>1, <1>2, <1>6, <1>7 DEF IInv, Consistent
<1> QED
  BY <1>3, <1>8 DEF IInv

LEMMA Facts ==
  ASSUME IInv
  PROVE  /\ db \in Db /\ db \in survivors /\ db.applied \in Span /\ db.reached \in Span
         /\ db.membership \in StoredMembership /\ db.kv \in [Key -> Value \cup {Missing}]
         /\ commitIndex \in Span /\ db.applied <= commitIndex /\ db.reached <= commitIndex
         /\ job \in Job /\ job.next \in NoIndex..(MaxIndex + 1) /\ job.end \in Span
         /\ job.membership \in StoredMembership
<1>1. db \in Db /\ job \in Job /\ commitIndex \in Span
  BY DEF IInv, TypeOK
<1>2. db \in survivors /\ db.applied <= commitIndex /\ db.reached <= commitIndex
  BY DEF IInv, Consistent
<1>3. /\ db.applied \in Span /\ db.reached \in Span
      /\ db.membership \in StoredMembership /\ db.kv \in [Key -> Value \cup {Missing}]
  BY <1>1 DEF Db
<1>4. /\ job.next \in NoIndex..(MaxIndex + 1) /\ job.end \in Span
      /\ job.membership \in StoredMembership
  BY <1>1 DEF Job
<1> QED
  BY <1>1, <1>2, <1>3, <1>4

LEMMA NoJobFacts == NoJob \in Job /\ NoJob.op = "none"
BY DEF NoJob, Job, StoredMembership, NoMembership

\* The entry apply's loop is at is a committed one.
LEMMA CurrentEntry ==
  ASSUME IInv, Applying
  PROVE  job.next \in Index /\ job.next <= commitIndex /\ committed[job.next] \in Payload
<1>1. /\ job.next <= job.end /\ db.applied < job.next /\ job.end <= commitIndex
      /\ \A i \in Index : i <= commitIndex => committed[i] \in Payload
  BY DEF IInv, Consistent, Applying
<1> QED
  BY <1>1, Facts

\* A step that leaves the database and the cluster alone, and starts no loop.
LEMMA QuietKept ==
  ASSUME IInv, TypeOK', UNCHANGED <<db, survivors, committed, commitIndex>>, job' = job \/ job' = NoJob
  PROVE  IInv'
<1>1. AppliedIsBacked'
  BY DEF IInv, Consistent, AppliedIsBacked, Backed, KvWithin, MembershipWithin
<1>2. (~db.installed => Backed(db, Cursor))'
  <2>1. CASE job' = job
    BY <2>1 DEF IInv, Consistent, Backed, KvWithin, MembershipWithin, Cursor
  <2>2. CASE job' = NoJob
    <3>1. Cursor' = db.applied
      BY <2>2, NoJobFacts DEF Cursor
    <3>2. ~db.installed => Backed(db, db.applied)
      BY Facts DEF IInv, Consistent, AppliedIsBacked
    <3> QED
      BY <3>1, <3>2 DEF Backed, KvWithin, MembershipWithin
  <2> QED
    BY <2>1, <2>2
<1>3. Consistent'
  BY <1>1, <1>2, NoJobFacts DEF IInv, Consistent
<1> QED
  BY <1>3 DEF IInv

LEMMA InitKept == Init => IInv
<1> SUFFICES ASSUME Init PROVE IInv
  OBVIOUS
<1> USE DEF Init, DbInit, ClusterInit, SMInit
<1>1. NoMembership \in StoredMembership
  BY DEF NoMembership, StoredMembership
<1>2. EmptyDb \in Db
  BY <1>1 DEF EmptyDb, Db, NoLogId, NoVote, NeverAppended
<1>3. EmptyDb.applied = NoIndex /\ EmptyDb.reached = NoIndex /\ ~EmptyDb.installed
      /\ EmptyDb.kv = [k \in Key |-> Missing] /\ EmptyDb.membership.at = NoIndex
  BY DEF EmptyDb, NoMembership
<1>4. TypeOK
  <2>1. build \in [active : BOOLEAN, last : Span]
    BY DEF NotBuilding
  <2>2. built \in Snapshot /\ current_snapshot \in Snapshot
    BY <1>1 DEF NoSnapshot, Snapshot
  <2>3. committed \in [Index -> Payload \cup {NoEntry}] /\ commitIndex \in Span
    OBVIOUS
  <2> QED
    BY <1>2, <2>1, <2>2, <2>3, NoJobFacts, MaxCrashesAssumption DEF TypeOK
<1>5. Backed(EmptyDb, NoIndex)
  <2>1. NoIndex \in Window(EmptyDb, NoIndex)
    BY <1>3 DEF Window, Max2
  <2>2. ASSUME NEW k \in Key PROVE KeyAsOf(committed, NoIndex, k, EmptyDb.kv[k])
    <3>1. EmptyDb.kv[k] = Missing
      BY <1>3
    <3>2. \A i \in FirstIndex..NoIndex : FALSE
      OBVIOUS
    <3> QED
      BY <3>1, <3>2 DEF KeyAsOf
  <2>3. MembershipAsOf(committed, NoIndex, EmptyDb.membership.at)
    BY <1>3 DEF MembershipAsOf
  <2> QED
    BY <2>1, <2>2, <2>3 DEF Backed, KvWithin, MembershipWithin
<1>6. AppliedIsBacked
  BY <1>3, <1>5 DEF AppliedIsBacked
<1>7. Backed(db, Cursor)
  BY <1>3, <1>5, NoJobFacts DEF Cursor
<1>8. Consistent
  BY <1>3, <1>6, <1>7, NoJobFacts DEF Consistent
<1> QED
  BY <1>4, <1>8 DEF IInv

LEMMA CommitKept ==
  ASSUME IInv, NEW p \in Payload, Commit(p)
  PROVE  IInv'
<1>1. /\ commitIndex \in Span /\ commitIndex < MaxIndex /\ commitIndex' = commitIndex + 1
      /\ committed' = [committed EXCEPT ![commitIndex + 1] = p]
      /\ committed \in [Index -> Payload \cup {NoEntry}]
      /\ UNCHANGED <<db, survivors, mode, crashes, job, build, built, current_snapshot>>
  BY DEF IInv, TypeOK, Commit, dbVars, smVars
<1>2. /\ committed' \in [Index -> Payload \cup {NoEntry}] /\ commitIndex' \in Span
      /\ \A i \in Index : i <= commitIndex => committed'[i] = committed[i]
      /\ \A i \in Index : i <= commitIndex' => committed'[i] \in Payload
  BY <1>1 DEF IInv, Consistent
<1>3. TypeOK'
  BY <1>1, <1>2 DEF IInv, TypeOK
<1>4. ASSUME NEW d \in survivors, ~d.installed PROVE Backed(d, d.applied)'
  <2>1. d \in Db /\ d.applied \in Span
    BY DEF IInv, TypeOK, Db
  <2>2. d.applied <= commitIndex /\ d.reached <= commitIndex /\ Backed(d, d.applied)
    BY <1>4, Facts DEF IInv, Consistent, AppliedIsBacked
  <2> QED
    BY <1>1, <1>2, <2>1, <2>2, CommitBacked
<1>5. (~db.installed => Backed(db, Cursor))'
  <2> SUFFICES ASSUME ~db.installed PROVE Backed(db, Cursor)'
    BY <1>1
  <2> DEFINE d == db
             a == Cursor
  <2>1. d \in Db /\ a \in Span /\ a <= commitIndex /\ d.reached <= commitIndex
    BY Facts, SMTT(30) DEF IInv, Consistent, Cursor
  <2>2. Backed(d, a)
    BY DEF IInv, Consistent
  <2>3. d' = d /\ a' = a
    BY <1>1 DEF Cursor
  <2>4. \A e \in Db : \A b \in Span :
          b <= commitIndex /\ e.reached <= commitIndex /\ Backed(e, b) => Backed(e, b)'
    BY <1>1, <1>2, CommitBacked
  <2> HIDE DEF d, a
  <2> QED
    BY <2>1, <2>2, <2>3, <2>4 DEF d, a, Backed, KvWithin, MembershipWithin
<1>6. AppliedIsBacked'
  BY <1>1, <1>4 DEF AppliedIsBacked, Backed, KvWithin, MembershipWithin
<1>7. Consistent'
  <2>1. \A d \in survivors : d.reached \in Span
    BY DEF IInv, TypeOK, Db
  <2>2. \A d \in survivors : d.reached <= commitIndex'
    BY <1>1, <2>1 DEF IInv, Consistent
  <2>3. db.applied <= commitIndex' /\ (job.op = "apply" => job.end <= commitIndex')
    BY <1>1, Facts, SMTT(30) DEF IInv, Consistent
  <2> QED
    BY <1>1, <1>2, <1>5, <1>6, <2>2, <2>3 DEF IInv, Consistent
<1> QED
  BY <1>3, <1>7 DEF IInv

LEMMA ApplyKept ==
  ASSUME IInv, NEW n \in Index, n <= commitIndex, Apply(n)
  PROVE  IInv'
<1>1. /\ db.applied < n /\ job' = [NoJob EXCEPT !.op = "apply", !.next = db.applied + 1, !.end = n]
      /\ UNCHANGED <<db, survivors, mode, crashes, committed, commitIndex, build, built, current_snapshot>>
  BY DEF Apply, dbVars, clusterVars
<1>2. job' \in Job /\ job'.op = "apply" /\ job'.next = db.applied + 1 /\ job'.end = n
  <2>1. job' = [op |-> "apply", next |-> db.applied + 1, end |-> n, membership |-> NoMembership]
    BY <1>1 DEF NoJob
  <2>2. NoMembership \in StoredMembership
    BY DEF NoMembership, StoredMembership
  <2> QED
    BY <2>1, <2>2, Facts DEF Job
<1>3. TypeOK'
  BY <1>1, <1>2 DEF IInv, TypeOK
<1>4. AppliedIsBacked'
  BY <1>1 DEF IInv, Consistent, AppliedIsBacked, Backed, KvWithin, MembershipWithin
<1>5. (~db.installed => Backed(db, Cursor))'
  <2>1. Cursor' = db.applied
    BY <1>2, Facts DEF Cursor
  <2>2. ~db.installed => Backed(db, db.applied)
    BY Facts DEF IInv, Consistent, AppliedIsBacked
  <2> QED
    BY <1>1, <2>1, <2>2 DEF Backed, KvWithin, MembershipWithin
<1>6. Consistent'
  BY <1>1, <1>2, <1>4, <1>5, Facts DEF IInv, Consistent
<1> QED
  BY <1>3, <1>6 DEF IInv

LEMMA PayloadFacts ==
  ASSUME NEW p \in Payload
  PROVE  /\ p.kind = "set" => p.key \in Key /\ p.value \in Value
         /\ p.kind = "del" => p.key \in Key
         /\ p.kind = "membership" => p.configs \in Configs
         /\ p.kind \in {"set", "del", "membership", "garbage", "blank"}
BY DEF Payload, SetOp, DelOp, MembershipEntry, Garbage, Blank

LEMMA ApplyOperationKept ==
  ASSUME IInv, ApplyOperation(committed[job.next])
  PROVE  IInv'
<1> DEFINE n == job.next
           p == committed[n]
           kv == [db.kv EXCEPT ![p.key] = ValueWritten(p)]
           r == Max2(db.reached, n)
           d2 == [db EXCEPT !.kv = kv, !.reached = r]
<1>1. /\ Applying /\ NextEntry /\ p.kind \in {"set", "del"}
      /\ db' = d2 /\ survivors' = survivors \cup {d2} /\ UNCHANGED <<mode, crashes>>
  BY DEF ApplyOperation, Put, RequiresFsync
<1>2. n \in Index /\ n <= commitIndex /\ p \in Payload
  BY <1>1, CurrentEntry
<1>3. p.key \in Key /\ ValueWritten(p) \in Value \cup {Missing}
  BY <1>1, <1>2, PayloadFacts DEF ValueWritten
<1>4. kv \in [Key -> Value \cup {Missing}] /\ r \in Span /\ n <= r /\ db.reached <= r /\ r <= commitIndex
  BY <1>2, <1>3, Facts DEF Max2
<1>5. /\ d2 \in Db /\ d2.kv = kv /\ d2.reached = r
      /\ d2.applied = db.applied /\ d2.installed = db.installed /\ d2.membership = db.membership
  <2>1. db \in Db
    BY Facts
  <2>2. d2 = [db EXCEPT !.kv = kv, !.reached = r]
    OBVIOUS
  <2> HIDE DEF kv, r, d2
  <2> QED
    BY <1>4, <2>1, <2>2 DEF Db
<1>6. Effect(db, d2, n)
  <2>1. ASSUME NEW k \in Key
        PROVE  \/ kv[k] = db.kv[k] /\ ~WritesKey(p, k)
               \/ kv[k] = ValueWritten(p) /\ WritesKey(p, k)
    BY <1>1, <1>3, Facts DEF WritesKey
  <2> QED
    BY <1>1, <1>4, <1>5, <2>1 DEF Effect
<1> QED
  BY <1>1, <1>4, <1>5, <1>6, TurnKept

LEMMA ApplyMembershipKept ==
  ASSUME IInv, ApplyMembership(committed[job.next])
  PROVE  IInv'
<1> DEFINE n == job.next
           p == committed[n]
           m == [at |-> n, configs |-> Flattened(p.configs)]
           r == Max2(db.reached, n)
           d2 == [db EXCEPT !.membership = m, !.reached = r]
<1>1. /\ Applying /\ NextEntry /\ p.kind = "membership"
      /\ db' = d2 /\ survivors' = {d2} /\ UNCHANGED <<mode, crashes>>
  BY DEF ApplyMembership, Put, RequiresFsync
<1>2. n \in Index /\ n <= commitIndex /\ p \in Payload
  BY <1>1, CurrentEntry
<1>3. Flattened(p.configs) \in Configs
  BY <1>1, <1>2, PayloadFacts, ConfigsAssumption
<1>4. m \in StoredMembership /\ m.at = n /\ r \in Span /\ n <= r /\ db.reached <= r /\ r <= commitIndex
  BY <1>2, <1>3, Facts, SMTT(30) DEF Max2, StoredMembership
<1>5. /\ d2 \in Db /\ d2.membership = m /\ d2.reached = r
      /\ d2.applied = db.applied /\ d2.installed = db.installed /\ d2.kv = db.kv
  <2>1. db \in Db
    BY Facts
  <2>2. d2 = [db EXCEPT !.membership = m, !.reached = r]
    OBVIOUS
  <2> HIDE DEF m, r, d2
  <2> QED
    BY <1>4, <2>1, <2>2 DEF Db
<1>6. Effect(db, d2, n)
  <2>1. \A k \in Key : ~WritesKey(p, k)
    BY <1>1 DEF WritesKey
  <2> QED
    BY <1>1, <1>4, <1>5, <2>1 DEF Effect
<1> QED
  BY <1>1, <1>4, <1>5, <1>6, TurnKept

LEMMA ApplyNothingKept ==
  ASSUME IInv, ApplyNothing(committed[job.next])
  PROVE  IInv'
<1> DEFINE n == job.next
           p == committed[n]
<1>1. /\ Applying /\ NextEntry /\ UNCHANGED <<db, survivors, mode, crashes>>
      /\ p.kind # "membership" /\ (HasKvCf => p.kind = "blank")
  BY GroupAssumption DEF ApplyNothing, dbVars
<1>2. Effect(db, db, n)
  <2>1. HasKvCf => \A k \in Key : ~WritesKey(p, k)
    BY <1>1 DEF WritesKey
  <2> QED
    BY <1>1, <2>1, Facts, SMTT(30) DEF Effect
<1>3. survivors' = survivors \cup {db}
  BY <1>1, Facts
<1> QED
  BY <1>1, <1>2, <1>3, Facts, TurnKept

\* A synced write that ends the handler's work on the database: only the new
\* state can survive, so the invariant is about that one alone.
LEMMA SyncedKept ==
  ASSUME IInv, TypeOK', NEW d2, db' = d2, survivors' = {d2}, UNCHANGED <<committed, commitIndex>>,
         d2.applied <= commitIndex, d2.reached <= commitIndex,
         job'.op # "apply", job'.op = "install" => d2.installed,
         ~d2.installed => Backed(d2, d2.applied)
  PROVE  IInv'
<1>1. AppliedIsBacked'
  BY DEF AppliedIsBacked, Backed, KvWithin, MembershipWithin
<1>2. (~db.installed => Backed(db, Cursor))'
  BY DEF Cursor, Backed, KvWithin, MembershipWithin
<1>3. Consistent'
  BY <1>1, <1>2 DEF IInv, Consistent
<1> QED
  BY <1>3 DEF IInv

LEMMA ApplyFinishKept ==
  ASSUME IInv, ApplyFinish
  PROVE  IInv'
<1> DEFINE r == Max2(db.reached, job.end)
           d2 == [db EXCEPT !.applied = job.end, !.reached = r]
<1>1. /\ job.op = "apply" /\ job.next = job.end + 1 /\ job' = NoJob
      /\ db' = d2 /\ survivors' = {d2}
      /\ UNCHANGED <<mode, crashes, committed, commitIndex, build, built, current_snapshot>>
  BY DEF ApplyFinish, Put, RequiresFsync, clusterVars
<1>2. job.end <= commitIndex
  BY <1>1 DEF IInv, Consistent
<1>3. r \in Span /\ job.end <= r /\ db.reached <= r /\ r <= commitIndex
  BY <1>2, Facts DEF Max2
<1>4. /\ d2 \in Db /\ d2.applied = job.end /\ d2.reached = r
      /\ d2.membership = db.membership /\ d2.installed = db.installed /\ d2.kv = db.kv
  <2>1. db \in Db /\ job.end \in Span
    BY Facts
  <2>2. d2 = [db EXCEPT !.applied = job.end, !.reached = r]
    OBVIOUS
  <2> HIDE DEF r, d2
  <2> QED
    BY <1>3, <2>1, <2>2 DEF Db
<1>5. TypeOK'
  BY <1>1, <1>4, NoJobFacts DEF IInv, TypeOK
<1>6. ASSUME ~d2.installed PROVE Backed(d2, d2.applied)
  <2>1. Backed(db, job.end)
    <3>1. Cursor = job.end
      BY <1>1, Facts DEF Cursor
    <3> QED
      BY <1>4, <1>6, <3>1 DEF IInv, Consistent
  <2>2. \A j \in Window(db, job.end) : j \in Window(d2, job.end)
    BY <1>3, <1>4, Facts DEF Window, Max2
  <2> QED
    BY <1>4, <2>1, <2>2 DEF Backed, KvWithin, MembershipWithin
<1> QED
  BY <1>1, <1>2, <1>3, <1>4, <1>5, <1>6, NoJobFacts, SyncedKept

LEMMA InstallAppliedKept ==
  ASSUME IInv, NEW n \in Index, n <= commitIndex, NEW i \in NoIndex..n, InstallApplied(n, i)
  PROVE  IInv'
<1> DEFINE d2 == [db EXCEPT !.applied = n, !.installed = TRUE]
           m == IF i = NoIndex THEN NoMembership ELSE [at |-> i, configs |-> committed[i].configs]
<1>1. /\ job' = [NoJob EXCEPT !.op = "install", !.end = n, !.membership = m]
      /\ MembershipAsOf(committed, n, i)
      /\ db' = d2 /\ survivors' = {d2}
      /\ UNCHANGED <<mode, crashes, committed, commitIndex, build, built, current_snapshot>>
  BY DEF InstallApplied, Put, RequiresFsync, clusterVars
<1>2. m \in StoredMembership
  <2>1. CASE i = NoIndex
    BY <2>1 DEF StoredMembership, NoMembership
  <2>2. CASE i # NoIndex
    <3>1. i \in Index /\ i <= commitIndex
      BY <2>2, Facts
    <3>2. committed[i] \in Payload /\ committed[i].kind = "membership"
      BY <1>1, <2>2, <3>1 DEF IInv, Consistent, MembershipAsOf
    <3>3. committed[i].configs \in Configs
      BY <3>2, PayloadFacts
    <3> QED
      BY <2>2, <3>1, <3>3 DEF StoredMembership
  <2> QED
    BY <2>1, <2>2
<1>3. job' \in Job /\ job'.op = "install"
  <2>1. job' = [op |-> "install", next |-> NoIndex, end |-> n, membership |-> m]
    BY <1>1 DEF NoJob
  <2> HIDE DEF m
  <2> QED
    BY <1>2, <2>1 DEF Job
<1>4. d2 \in Db /\ d2.applied = n /\ d2.installed = TRUE /\ d2.reached = db.reached
  <2>1. db \in Db /\ n \in Span
    BY Facts
  <2>2. d2 = [db EXCEPT !.applied = n, !.installed = TRUE]
    OBVIOUS
  <2> HIDE DEF d2, Span
  <2> QED
    BY <2>1, <2>2, Zenon DEF Db
<1>5. TypeOK'
  BY <1>1, <1>3, <1>4 DEF IInv, TypeOK
<1> QED
  BY <1>1, <1>3, <1>4, <1>5, Facts, SyncedKept

LEMMA InstallMembershipKept ==
  ASSUME IInv, InstallMembership
  PROVE  IInv'
<1> DEFINE m == [job.membership EXCEPT !.configs = Flattened(job.membership.configs)]
           d2 == [db EXCEPT !.membership = m]
<1>1. /\ job.op = "install" /\ job' = NoJob
      /\ current_snapshot' = [last |-> job.end, membership |-> job.membership]
      /\ db' = d2 /\ survivors' = {d2}
      /\ UNCHANGED <<mode, crashes, committed, commitIndex, build, built>>
  BY DEF InstallMembership, Put, RequiresFsync, clusterVars
<1>2. db.installed
  BY <1>1 DEF IInv, Consistent
<1>3. m \in StoredMembership
  <2>1. Flattened({}) = {{}} /\ Flattened({{}}) = {{}}
    BY DEF Flattened
  <2>2. \A c \in Configs \cup {{}, {{}}} : Flattened(c) \in Configs \cup {{}, {{}}}
    BY <2>1, ConfigsAssumption
  <2>3. job.membership \in StoredMembership
    BY Facts
  <2> QED
    BY <2>2, <2>3 DEF StoredMembership
<1>4. d2 \in Db /\ d2.applied = db.applied /\ d2.installed = db.installed /\ d2.reached = db.reached
  <2>1. db \in Db
    BY Facts
  <2>2. d2 = [db EXCEPT !.membership = m]
    OBVIOUS
  <2> HIDE DEF m, d2
  <2> QED
    BY <1>3, <2>1, <2>2 DEF Db
<1>5. TypeOK'
  <2>1. current_snapshot' \in Snapshot
    BY <1>1, Facts DEF Snapshot
  <2> QED
    BY <1>1, <1>4, <2>1, NoJobFacts DEF IInv, TypeOK
<1> QED
  BY <1>1, <1>2, <1>4, <1>5, Facts, NoJobFacts, SyncedKept

LEMMA CrashKept ==
  ASSUME IInv, Crash
  PROVE  IInv'
<1>1. /\ db' \in survivors /\ survivors' = {db'} /\ mode' = "down"
      /\ crashes < MaxCrashes /\ crashes' = crashes + 1
      /\ job' = NoJob /\ build' = NotBuilding /\ built' = NoSnapshot /\ current_snapshot' = NoSnapshot
      /\ UNCHANGED <<committed, commitIndex>>
  BY DEF Crash, LoseUnsynced, SMForget, clusterVars
<1>2. db' \in Db
  BY <1>1 DEF IInv, TypeOK
<1>3. TypeOK'
  <2>1. NoSnapshot \in Snapshot
    BY DEF NoSnapshot, Snapshot, StoredMembership, NoMembership
  <2>2. NotBuilding \in [active : BOOLEAN, last : Span]
    BY DEF NotBuilding
  <2>3. crashes' \in 0..MaxCrashes
    BY <1>1, MaxCrashesAssumption DEF IInv, TypeOK
  <2> QED
    BY <1>1, <1>2, <2>1, <2>2, <2>3, NoJobFacts DEF IInv, TypeOK
<1>4. /\ db'.applied = db.applied /\ db'.reached <= commitIndex
      /\ ~db'.installed => Backed(db', db'.applied)
  BY <1>1 DEF IInv, Consistent, AppliedIsBacked
<1> QED
  BY <1>1, <1>3, <1>4, Facts, NoJobFacts, SyncedKept

-----------------------------------------------------------------------------
LEMMA NextKept == IInv /\ [Next]_vars => IInv'
<1> SUFFICES ASSUME IInv, [Next]_vars PROVE IInv'
  OBVIOUS
<1>1. CASE \E p \in Payload : Commit(p)
  BY <1>1, CommitKept
<1>2. CASE ApplyStep
  <2>1. CASE \E n \in Index : n <= commitIndex /\ Apply(n)
    BY <2>1, ApplyKept
  <2>2. CASE Applying /\ ApplyEntry(committed[job.next])
    <3>1. CASE ApplyGarbage(committed[job.next])
      <4>1. /\ job' = NoJob /\ mode' = "failed"
            /\ UNCHANGED <<db, survivors, crashes, committed, commitIndex, build, built, current_snapshot>>
        BY <3>1 DEF ApplyGarbage, Fail, clusterVars
      <4>2. TypeOK'
        BY <4>1, NoJobFacts DEF IInv, TypeOK
      <4> QED
        BY <4>1, <4>2, QuietKept
    <3> QED
      BY <2>2, <3>1, ApplyOperationKept, ApplyMembershipKept, ApplyNothingKept DEF ApplyEntry
  <2>3. CASE ApplyFinish
    BY <2>3, ApplyFinishKept
  <2> QED
    BY <1>2, <2>1, <2>2, <2>3 DEF ApplyStep
<1>3. CASE BuildReadApplied
  <2>1. /\ build' = [active |-> TRUE, last |-> db.applied]
        /\ UNCHANGED <<db, survivors, mode, crashes, committed, commitIndex, job, built, current_snapshot>>
    BY <1>3 DEF BuildReadApplied, dbVars, clusterVars
  <2>2. TypeOK'
    <3>1. build' \in [active : BOOLEAN, last : Span]
      BY <2>1, Facts
    <3> QED
      BY <2>1, <3>1 DEF IInv, TypeOK
  <2> QED
    BY <2>1, <2>2, QuietKept
<1>4. CASE BuildReadMembership
  <2>1. /\ build' = NotBuilding /\ built' = [last |-> build.last, membership |-> db.membership]
        /\ UNCHANGED <<db, survivors, mode, crashes, committed, commitIndex, job, current_snapshot>>
    BY <1>4 DEF BuildReadMembership, dbVars, clusterVars
  <2>2. TypeOK'
    <3>1. build.last \in Span
      BY DEF IInv, TypeOK
    <3>2. built' \in Snapshot
      BY <2>1, <3>1, Facts DEF Snapshot
    <3>3. build' \in [active : BOOLEAN, last : Span]
      BY <2>1 DEF NotBuilding
    <3> QED
      BY <2>1, <3>2, <3>3 DEF IInv, TypeOK
  <2> QED
    BY <2>1, <2>2, QuietKept
<1>5. CASE \E n \in Index : n <= commitIndex /\ \E i \in NoIndex..n : InstallApplied(n, i)
  BY <1>5, InstallAppliedKept
<1>6. CASE InstallMembership
  BY <1>6, InstallMembershipKept
<1>7. ASSUME NEW n \in Index, InstallRefused(n) PROVE IInv'
  <2>1. /\ mode' = "failed"
        /\ UNCHANGED <<db, survivors, crashes, committed, commitIndex, job, build, built, current_snapshot>>
    BY <1>7 DEF InstallRefused, Fail, clusterVars, smVars
  <2>2. TypeOK'
    BY <2>1 DEF IInv, TypeOK
  <2> QED
    BY <2>1, <2>2, QuietKept
<1>8. CASE Crash
  BY <1>8, CrashKept
<1>9. CASE Open
  <2>1. /\ mode' = "up"
        /\ UNCHANGED <<db, survivors, crashes, committed, commitIndex, job, build, built, current_snapshot>>
    BY <1>9 DEF Open, clusterVars, smVars
  <2>2. TypeOK'
    BY <2>1 DEF IInv, TypeOK
  <2> QED
    BY <2>1, <2>2, QuietKept
<1>10. CASE UNCHANGED vars
  <2>1. UNCHANGED <<db, survivors, mode, crashes, committed, commitIndex, job, build, built, current_snapshot>>
    BY <1>10 DEF vars, dbVars, clusterVars, smVars
  <2>2. TypeOK'
    BY <2>1 DEF IInv, TypeOK
  <2> QED
    BY <2>1, <2>2, QuietKept
<1> QED
  BY <1>1, <1>2, <1>3, <1>4, <1>5, <1>6, <1>7, <1>8, <1>9, <1>10 DEF Next

LEMMA AlwaysIInv == Spec => []IInv
BY InitKept, NextKept, PTL DEF Spec

\* The database, the handlers in progress and the snapshots keep their types.
THEOREM TypeCorrect == Spec => []TypeOK
<1>1. IInv => TypeOK
  BY DEF IInv
<1> QED
  BY AlwaysIInv, <1>1, PTL

\* Wherever apply is when the machine stops, and however many unsynced writes are
\* lost, the database it restarts with holds the effect of every entry its
\* applied index covers.
THEOREM AppliedAlwaysBacked == Spec => []AppliedIsBacked
<1>1. IInv => AppliedIsBacked
  BY DEF IInv, Consistent
<1> QED
  BY AlwaysIInv, <1>1, PTL

\* No step lowers the applied index: it only grows in a handler, and a crash cannot
\* lose it.
LEMMA AppliedStep == IInv /\ Next => db.applied <= db'.applied
<1> SUFFICES ASSUME IInv, Next PROVE db.applied <= db'.applied
  OBVIOUS
<1>0. db \in Db /\ db.applied \in Span
  BY Facts
<1>1. CASE db' = db
  BY <1>0, <1>1
<1>2. CASE Crash
  BY <1>0, <1>2 DEF Crash, LoseUnsynced, IInv, Consistent
<1>3. ASSUME NEW p, ApplyOperation(p) \/ ApplyMembership(p) PROVE db.applied <= db'.applied
  <2>1. db'.applied = db.applied
    BY <1>0, <1>3 DEF ApplyOperation, ApplyMembership, Put, Db
  <2> QED
    BY <1>0, <2>1
<1>4. CASE ApplyFinish
  <2>1. db'.applied = job.end
    BY <1>0, <1>4 DEF ApplyFinish, Put, Db
  <2>2. db.applied < job.next /\ job.next = job.end + 1
    BY <1>4 DEF ApplyFinish, IInv, Consistent
  <2> QED
    BY <1>0, <2>1, <2>2, Facts
<1>5. ASSUME NEW n \in Index, NEW i, InstallApplied(n, i) PROVE db.applied <= db'.applied
  <2>1. db'.applied = n /\ db.applied < n
    BY <1>0, <1>5 DEF InstallApplied, Put, Db
  <2> QED
    BY <1>0, <2>1
<1>6. CASE InstallMembership
  <2>1. db'.applied = db.applied
    BY <1>0, <1>6 DEF InstallMembership, Put, Db
  <2> QED
    BY <1>0, <2>1
<1>7. ASSUME db' # db, ~Crash, ~ApplyFinish, ~InstallMembership
      PROVE  \/ \E p : ApplyOperation(p) \/ ApplyMembership(p)
             \/ \E n \in Index : \E i : InstallApplied(n, i)
  BY <1>7 DEF Next, ApplyStep, ApplyEntry, Commit, Apply, ApplyNothing, ApplyGarbage, BuildReadApplied,
       BuildReadMembership, InstallRefused, Open, Fail, dbVars
<1> QED
  BY <1>1, <1>2, <1>3, <1>4, <1>5, <1>6, <1>7

\* The applied index is synced whenever it is written, so neither a handler nor
\* a crash takes it back.
THEOREM AppliedMonotonic == Spec => AppliedNeverRegresses
<1>1. IInv /\ [Next]_vars => [db.applied <= db'.applied]_vars
  BY AppliedStep
<1> QED
  BY AlwaysIInv, <1>1, PTL DEF Spec, AppliedNeverRegresses

-----------------------------------------------------------------------------
\* Memberships.

\* m comes from a committed membership entry and has its voters.
FromEntry(m) ==
  m.at # NoIndex => /\ m.at \in Index /\ m.at <= commitIndex
                    /\ UNION m.configs = UNION committed[m.at].configs

\* install_snapshot holds a membership between its two writes.
VotersInv ==
  /\ \A d \in survivors : FromEntry(d.membership)
  /\ job.op = "install" => FromEntry(job.membership)

LEMMA FlattenedVoters == \A c : UNION Flattened(c) = UNION c
BY DEF Flattened

\* A write of d2, synced or not, or a crash, with the cluster left alone.
LEMMA WriteVoters ==
  ASSUME VotersInv, NEW d2, FromEntry(d2.membership), survivors' \subseteq survivors \cup {d2},
         UNCHANGED <<committed, commitIndex>>,
         job'.op = "install" => FromEntry(job'.membership)
  PROVE  VotersInv'
BY DEF VotersInv, FromEntry

LEMMA InitVoters == Init => VotersInv
<1>1. EmptyDb.membership.at = NoIndex
  BY DEF EmptyDb, NoMembership
<1>2. ASSUME Init PROVE survivors = {EmptyDb} /\ job.op = "none"
  BY <1>2 DEF Init, DbInit, SMInit, NoJob
<1> QED
  BY <1>1, <1>2 DEF VotersInv, FromEntry

LEMMA CommitVoters ==
  ASSUME IInv, VotersInv, NEW p \in Payload, Commit(p)
  PROVE  VotersInv'
<1>1. /\ commitIndex' = commitIndex + 1 /\ committed' = [committed EXCEPT ![commitIndex + 1] = p]
      /\ UNCHANGED <<survivors, job>>
  BY DEF Commit, dbVars, smVars
<1>2. commitIndex \in Int /\ committed \in [Index -> Payload \cup {NoEntry}]
  <2>1. commitIndex \in Int
    BY Facts
  <2>2. committed \in [Index -> Payload \cup {NoEntry}]
    BY DEF IInv, TypeOK
  <2> QED
    BY <2>1, <2>2
<1>3. \A i \in Index : i <= commitIndex => i <= commitIndex' /\ committed'[i] = committed[i]
  BY <1>1, <1>2
<1> QED
  BY <1>1, <1>3 DEF VotersInv, FromEntry

LEMMA NextVoters == IInv /\ VotersInv /\ [Next]_vars => VotersInv'
<1> SUFFICES ASSUME IInv, VotersInv, [Next]_vars PROVE VotersInv'
  OBVIOUS
<1>0. db \in Db /\ db \in survivors /\ FromEntry(db.membership)
  BY Facts DEF VotersInv
<1>1. CASE \E p \in Payload : Commit(p)
  BY <1>1, CommitVoters
<1>2. CASE UNCHANGED <<survivors, committed, commitIndex>> /\ (job' = job \/ job'.op # "install")
  BY <1>2 DEF VotersInv, FromEntry
<1>3. CASE Applying /\ ApplyOperation(committed[job.next])
  <2>1. PICK kv, r : db' = [db EXCEPT !.kv = kv, !.reached = r]
    BY <1>3 DEF ApplyOperation, Put
  <2>2. /\ survivors' \subseteq survivors \cup {db'} /\ UNCHANGED <<committed, commitIndex>>
        /\ job'.op = "apply"
    BY <1>3, Facts DEF ApplyOperation, Put, NextEntry, Applying, clusterVars, Job
  <2>3. db'.membership = db.membership
    BY <1>0, <2>1 DEF Db
  <2> QED
    BY <1>0, <2>2, <2>3, WriteVoters DEF FromEntry
<1>4. CASE Applying /\ ApplyMembership(committed[job.next])
  <2> DEFINE m == [at |-> job.next, configs |-> Flattened(committed[job.next].configs)]
  <2>1. PICK r : db' = [db EXCEPT !.membership = m, !.reached = r]
    BY <1>4 DEF ApplyMembership, Put
  <2>2. /\ survivors' \subseteq survivors \cup {db'} /\ UNCHANGED <<committed, commitIndex>>
        /\ job'.op = "apply"
    BY <1>4, Facts DEF ApplyMembership, Put, NextEntry, Applying, clusterVars, Job
  <2>3. FromEntry(m)
    BY <1>4, CurrentEntry, FlattenedVoters DEF FromEntry
  <2> HIDE DEF m
  <2>4. db'.membership = m
    BY <1>0, <2>1 DEF Db
  <2> QED
    BY <2>2, <2>3, <2>4, WriteVoters
<1>5. CASE ApplyFinish
  <2>1. PICK a, r : db' = [db EXCEPT !.applied = a, !.reached = r]
    BY <1>5 DEF ApplyFinish, Put
  <2>2. /\ survivors' \subseteq survivors \cup {db'} /\ UNCHANGED <<committed, commitIndex>>
        /\ job'.op # "install"
    BY <1>5, NoJobFacts DEF ApplyFinish, Put, clusterVars
  <2>3. db'.membership = db.membership
    BY <1>0, <2>1 DEF Db
  <2> QED
    BY <1>0, <2>2, <2>3, WriteVoters DEF FromEntry
<1>6. ASSUME NEW n \in Index, n <= commitIndex, NEW i \in NoIndex..n, InstallApplied(n, i)
      PROVE  VotersInv'
  <2>1. /\ db' = [db EXCEPT !.applied = n, !.installed = TRUE]
        /\ survivors' \subseteq survivors \cup {db'} /\ UNCHANGED <<committed, commitIndex>>
    BY <1>6 DEF InstallApplied, Put, clusterVars
  <2>2. db'.membership = db.membership
    BY <1>0, <2>1 DEF Db
  <2>3. job'.membership = IF i = NoIndex THEN NoMembership
                          ELSE [at |-> i, configs |-> committed[i].configs]
    BY <1>6 DEF InstallApplied, NoJob
  <2>4. i # NoIndex => i \in Index /\ i <= commitIndex
    BY <1>6, Facts
  <2>5. FromEntry(job'.membership)
    <3>1. CASE i = NoIndex
      BY <2>3, <3>1 DEF FromEntry, NoMembership
    <3>2. CASE i # NoIndex
      <4>1. job'.membership.at = i /\ job'.membership.configs = committed[i].configs
        BY <2>3, <3>2
      <4> QED
        BY <2>4, <3>2, <4>1 DEF FromEntry
    <3> QED
      BY <3>1, <3>2
  <2> QED
    BY <1>0, <2>1, <2>2, <2>5, WriteVoters DEF FromEntry
<1>7. CASE InstallMembership
  <2> DEFINE m == [job.membership EXCEPT !.configs = Flattened(job.membership.configs)]
  <2>1. /\ db' = [db EXCEPT !.membership = m] /\ job.op = "install" /\ job' = NoJob
        /\ survivors' \subseteq survivors \cup {db'} /\ UNCHANGED <<committed, commitIndex>>
    BY <1>7 DEF InstallMembership, Put, clusterVars
  <2>2. m.at = job.membership.at /\ m.configs = Flattened(job.membership.configs)
    BY Facts DEF StoredMembership
  <2>3. FromEntry(m)
    BY <2>1, <2>2, FlattenedVoters DEF VotersInv, FromEntry
  <2> HIDE DEF m
  <2>4. db'.membership = m
    BY <1>0, <2>1 DEF Db
  <2> QED
    BY <2>1, <2>3, <2>4, NoJobFacts, WriteVoters
<1>8. CASE Crash
  <2>1. survivors' \subseteq survivors /\ job' = NoJob /\ UNCHANGED <<committed, commitIndex>>
    BY <1>8 DEF Crash, LoseUnsynced, SMForget, clusterVars
  <2> QED
    BY <1>0, <2>1, NoJobFacts, WriteVoters
<1> QED
  <2>1. CASE \E n \in Index : n <= commitIndex /\ Apply(n)
    BY <2>1, <1>2 DEF Apply, dbVars, clusterVars, NoJob
  <2>2. CASE Applying /\ ApplyNothing(committed[job.next])
    <3>1. UNCHANGED <<survivors, committed, commitIndex>> /\ job'.op # "install"
      BY <2>2, Facts DEF ApplyNothing, NextEntry, Applying, dbVars, clusterVars, Job
    <3> QED
      BY <3>1, <1>2
  <2>3. CASE Applying /\ ApplyGarbage(committed[job.next])
    BY <2>3, <1>2, NoJobFacts DEF ApplyGarbage, Fail, clusterVars
  <2>4. CASE BuildReadApplied \/ BuildReadMembership \/ Open \/ UNCHANGED vars
    BY <2>4, <1>2 DEF BuildReadApplied, BuildReadMembership, Open, vars, dbVars, clusterVars, smVars
  <2>5. CASE \E n \in Index : n <= commitIndex /\ InstallRefused(n)
    BY <2>5, <1>2 DEF InstallRefused, Fail, clusterVars, smVars
  <2> QED
    BY <1>1, <1>3, <1>4, <1>5, <1>6, <1>7, <1>8, <2>1, <2>2, <2>3, <2>4, <2>5
       DEF Next, ApplyStep, ApplyEntry

\* However a joint membership is flattened, stored, lost and read again, the stored
\* one names exactly the voters of the committed entry it comes from.
THEOREM VotersAlwaysKept == Spec => []VotersKept
<1>1. VotersInv => VotersKept
  BY DEF VotersInv, FromEntry, VotersKept
<1> QED
  BY AlwaysIInv, InitVoters, NextVoters, <1>1, PTL DEF Spec

-----------------------------------------------------------------------------
\* Snapshots.

\* build_snapshot holds an applied index between its two reads: apply may have moved
\* on since, but never back.
FreshInv ==
  /\ build.active => build.last <= db.applied
  /\ SnapshotMembershipFresh

LEMMA InitFresh == Init => FreshInv
<1> SUFFICES ASSUME Init PROVE FreshInv
  OBVIOUS
<1>1. ~build.active /\ built.last = NoIndex /\ built.membership.at = NoIndex /\ commitIndex = NoIndex
  BY DEF Init, SMInit, ClusterInit, NotBuilding, NoSnapshot, NoMembership
<1>2. MembershipAsOf(committed, NoIndex, NoIndex)
  BY DEF MembershipAsOf
<1> QED
  BY <1>1, <1>2 DEF FreshInv, SnapshotMembershipFresh

\* install_snapshot is never forgotten.
LEMMA InstalledStep == IInv /\ Next => (db.installed => db'.installed)
<1> SUFFICES ASSUME IInv, Next, db.installed PROVE db'.installed
  OBVIOUS
<1>0. db \in Db
  BY Facts
<1>1. CASE db' = db
  BY <1>1
<1>2. CASE Crash
  BY <1>2 DEF Crash, LoseUnsynced, IInv, Consistent
<1>3. ASSUME NEW p, ApplyOperation(p) \/ ApplyMembership(p) PROVE db'.installed
  BY <1>0, <1>3 DEF ApplyOperation, ApplyMembership, Put, Db
<1>4. CASE ApplyFinish \/ InstallMembership
  BY <1>0, <1>4 DEF ApplyFinish, InstallMembership, Put, Db
<1>5. ASSUME NEW n \in Index, NEW i, InstallApplied(n, i) PROVE db'.installed
  BY <1>0, <1>5 DEF InstallApplied, Put, Db
<1>6. ASSUME db' # db, ~Crash, ~ApplyFinish, ~InstallMembership
      PROVE  \/ \E p : ApplyOperation(p) \/ ApplyMembership(p)
             \/ \E n \in Index : \E i : InstallApplied(n, i)
  BY <1>6 DEF Next, ApplyStep, ApplyEntry, Commit, Apply, ApplyNothing, ApplyGarbage, BuildReadApplied,
       BuildReadMembership, InstallRefused, Open, Fail, dbVars
<1> QED
  BY <1>1, <1>2, <1>3, <1>4, <1>5, <1>6

\* The membership build_snapshot reads covers the entries up to the cursor of apply,
\* and the applied index it read before is not past that.
LEMMA BuildFresh ==
  ASSUME IInv, FreshInv, BuildReadMembership
  PROVE  FreshInv'
<1>1. /\ build.active /\ built' = [last |-> build.last, membership |-> db.membership]
      /\ build' = NotBuilding /\ UNCHANGED <<db, committed, commitIndex>>
  BY DEF BuildReadMembership, dbVars, clusterVars
<1>2. ~build'.active
  BY <1>1 DEF NotBuilding
<1>3. ASSUME ~db.installed
      PROVE  \E j \in build.last..commitIndex : MembershipAsOf(committed, j, db.membership.at)
  <2>1. PICK j \in Cursor..Max2(Cursor, db.reached) : MembershipAsOf(committed, j, db.membership.at)
    BY <1>3 DEF IInv, Consistent, Backed, MembershipWithin, Window
  <2>2. Cursor \in Int /\ db.applied <= Cursor /\ Cursor <= commitIndex
    BY Facts DEF IInv, Consistent, Cursor
  <2>3. build.last <= db.applied /\ build.last \in Int
    BY <1>1 DEF FreshInv, IInv, TypeOK
  <2>4. j \in build.last..commitIndex
    BY <2>2, <2>3, Facts DEF Max2
  <2> QED
    BY <2>1, <2>4
<1> QED
  BY <1>1, <1>2, <1>3 DEF FreshInv, SnapshotMembershipFresh

LEMMA NextFresh == IInv /\ FreshInv /\ [Next]_vars => FreshInv'
<1> SUFFICES ASSUME IInv, FreshInv, [Next]_vars PROVE FreshInv'
  OBVIOUS
<1>1. CASE UNCHANGED vars
  BY <1>1 DEF vars, dbVars, clusterVars, smVars, FreshInv, SnapshotMembershipFresh
<1>2. CASE BuildReadMembership
  BY <1>2, BuildFresh
<1>3. CASE Crash
  <2>1. ~build'.active /\ built'.last = NoIndex /\ built'.membership.at = NoIndex
    BY <1>3 DEF Crash, SMForget, NotBuilding, NoSnapshot, NoMembership
  <2>2. commitIndex' \in Span
    BY <1>3, Facts DEF Crash, SMForget, clusterVars
  <2>3. MembershipAsOf(committed', NoIndex, NoIndex)
    BY DEF MembershipAsOf
  <2> QED
    BY <2>1, <2>2, <2>3 DEF FreshInv, SnapshotMembershipFresh
<1>4. CASE \E p \in Payload : Commit(p)
  <2>1. PICK p \in Payload : Commit(p)
    BY <1>4
  <2>2. /\ commitIndex' = commitIndex + 1 /\ committed' = [committed EXCEPT ![commitIndex + 1] = p]
        /\ UNCHANGED <<db, build, built>>
    BY <2>1 DEF Commit, dbVars, smVars
  <2>3. commitIndex \in Span /\ built.last \in Span
    BY DEF IInv, TypeOK, Snapshot
  <2>4. \A i \in Index : i <= commitIndex => committed'[i] = committed[i]
    BY <2>2, <2>3 DEF IInv, TypeOK
  <2>5. ASSUME NEW j \in built.last..commitIndex, NEW i, MembershipAsOf(committed, j, i)
        PROVE  j \in built.last..commitIndex' /\ MembershipAsOf(committed', j, i)
    <3>1. j \in Span /\ j <= commitIndex /\ j \in built.last..commitIndex'
      BY <2>2, <2>3
    <3> QED
      BY <2>3, <2>4, <2>5, <3>1, PrefixKept
  <2> QED
    BY <2>2, <2>5 DEF FreshInv, SnapshotMembershipFresh
<1>5. CASE BuildReadApplied
  <2>1. build'.last = db.applied /\ UNCHANGED <<db, committed, commitIndex, built>>
    BY <1>5 DEF BuildReadApplied, dbVars, clusterVars
  <2> QED
    BY <2>1, Facts DEF FreshInv, SnapshotMembershipFresh
<1>6. CASE Next /\ UNCHANGED <<build, built, committed, commitIndex>>
  <2>1. db.applied \in Int /\ db'.applied \in Int /\ build.last \in Int
    <3>1. db.applied \in Int /\ build.last \in Int
      BY Facts DEF IInv, TypeOK
    <3>2. IInv'
      BY NextKept
    <3>3. db'.applied \in Int
      BY <3>2 DEF IInv, TypeOK, Db
    <3> QED
      BY <3>1, <3>3
  <2> QED
    BY <1>6, <2>1, AppliedStep, InstalledStep DEF FreshInv, SnapshotMembershipFresh
<1> QED
  BY <1>1, <1>2, <1>3, <1>4, <1>5, <1>6
     DEF Next, ApplyStep, ApplyEntry, Apply, ApplyOperation, ApplyMembership, ApplyNothing, ApplyGarbage,
         ApplyFinish, NextEntry, InstallApplied, InstallMembership, InstallRefused, Open, clusterVars, smVars

\* build_snapshot reads the applied index and then the membership while apply runs:
\* the membership in the snapshot is never older than its last log id, however the
\* two interleave and whatever crashes came before.
THEOREM SnapshotMembershipAlwaysFresh == Spec => []SnapshotMembershipFresh
<1>1. FreshInv => SnapshotMembershipFresh
  BY DEF FreshInv
<1> QED
  BY AlwaysIInv, InitFresh, NextFresh, <1>1, PTL DEF Spec

=============================================================================
