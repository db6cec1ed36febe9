----------------------------- MODULE RaftNodeProofs -----------------------------
(***************************************************************************)
(* Replicas on the in-memory stores agree, for every number of replicas,   *)
(* entries, batches, snapshots and restarts, and RaftNode is safe for      *)
(* every number of callers: what the core reads from the log, what propose *)
(* answers and who leads.                                                  *)
(*                                                                         *)
(* What apply computes over a batch is a recursive function; what it       *)
(* leaves after each entry is shown by induction over the batch, with the  *)
(* well-foundedness of < on Nat.  Every step of the node is a step of      *)
(* MemRaft, or leaves its variables alone.                                 *)
(***************************************************************************)
EXTENDS RaftNode, WellFoundedInduction, TLAPS

\* A set of naturals has a least member.
LEMMA LeastNatural ==
  ASSUME NEW T \in SUBSET Nat, T # {}
  PROVE  \E m \in T : \A j \in T : m <= j
<1> DEFINE R == {ss \in Nat \X Nat : ss[1] < ss[2]}
<1>1. IsWellFoundedOn(R, Nat)
  BY NatLessThanWellFounded, Zenon DEF OpToRel
<1>2. PICK m \in T : \A j \in T : ~ (<<j, m>> \in R)
  <2> HIDE DEF R
  <2> QED
    BY <1>1, WFMin, Zenon
<1>3. \A j \in T : ~(j < m)
  BY <1>2, Zenon
<1> QED
  BY <1>3

\* A bounded one has a greatest.
LEMMA GreatestNatural ==
  ASSUME NEW n \in Nat, NEW T \in SUBSET (0..n), T # {}
  PROVE  \E m \in T : \A j \in T : j <= m
<1> DEFINE D == {d \in Nat : n - d \in T}
<1>1. D # {}
  <2>1. PICK t \in T : TRUE
    BY Zenon
  <2>2. n - t \in Nat /\ n - (n - t) = t
    OBVIOUS
  <2> QED
    BY <2>1, <2>2, Zenon
<1>2. PICK d \in D : \A e \in D : d <= e
  BY <1>1, LeastNatural, Zenon
<1>3. ASSUME NEW j \in T PROVE j <= n - d
  <2>1. n - j \in Nat /\ n - (n - j) = j
    OBVIOUS
  <2>2. d <= n - j
    BY <1>2, <2>1, Zenon
  <2> QED
    BY <1>2, <2>2
<1> QED
  BY <1>2, <1>3

\* Induction, stated with a set in the place of a predicate.
LEMMA SetInduction ==
  ASSUME NEW S, 0 \in S, \A n \in Nat : n \in S => n + 1 \in S
  PROVE  Nat \subseteq S
<1> SUFFICES ASSUME Nat \ S # {} PROVE FALSE
  OBVIOUS
<1>1. PICK m \in Nat \ S : \A j \in Nat \ S : m <= j
  BY LeastNatural, Zenon
<1>2. m - 1 \in Nat /\ m - 1 \in S
  BY <1>1
<1> QED
  BY <1>1, <1>2

-----------------------------------------------------------------------------
\* What the entries up to an index say of a key.

\* One more entry: the key has the value it writes, or keeps the one it had.
LEMMA KeyAsOfNext ==
  ASSUME NEW es, NEW n \in Int, FirstIndex <= n + 1, NEW k, NEW v, KeyAsOf(es, n, k, v)
  PROVE  KeyAsOf(es, n + 1, k, IF WritesKey(es[n + 1], k) THEN ValueWritten(es[n + 1]) ELSE v)
BY FirstIndexAssumption DEF KeyAsOf

\* Entries that do not write the key can be left out.
LEMMA KeyAsOfBack ==
  ASSUME NEW es, NEW n \in Int, NEW m \in Int, m <= n, NEW k, NEW v, KeyAsOf(es, n, k, v),
         \A i \in FirstIndex..n : m < i => ~WritesKey(es[i], k)
  PROVE  KeyAsOf(es, m, k, v)
BY FirstIndexAssumption DEF KeyAsOf

\* Later entries do not matter.
LEMMA KeyAsOfSame ==
  ASSUME NEW es, NEW fs, NEW n \in Int, NEW k, NEW v,
         \A i \in FirstIndex..n : fs[i] = es[i], KeyAsOf(es, n, k, v)
  PROVE  KeyAsOf(fs, n, k, v)
BY FirstIndexAssumption DEF KeyAsOf

\* A key has one value.
LEMMA KeyAsOfUnique ==
  ASSUME NEW es, NEW n \in Int, NEW k, NEW v, NEW w, KeyAsOf(es, n, k, v), KeyAsOf(es, n, k, w)
  PROVE  v = w
BY FirstIndexAssumption DEF KeyAsOf

-----------------------------------------------------------------------------
\* The state machine and the entries.

Machine == [data : [Key -> Value \cup {Missing}], last_applied : 0..MaxIndex]

IsWrite(p) == p.kind \in {"set", "del"}

\* m is what the entries up to index n leave: the data they say, and the index of
\* the last one that wrote.
MachineAsOf(es, m, n) ==
  /\ \A k \in Key : KeyAsOf(es, n, k, m.data[k])
  /\ m.last_applied <= Max2(n, 0)
  /\ \A i \in FirstIndex..n : m.last_applied < i => ~IsWrite(es[i])

\* The answer the entries before i call for.
AnswerOf(es, i) ==
  CASE es[i].kind = "set" -> "OK"
    [] es[i].kind = "del" -> IF KeyAsOf(es, i - 1, es[i].key, Missing) THEN "0" ELSE "1"
    [] OTHER -> ""

LEMMA WritesMeans ==
  ASSUME NEW p \in Payload, NEW k
  PROVE  /\ WritesKey(p, k) <=> IsWrite(p) /\ p.key = k
         /\ IsWrite(p) => p.key \in Key /\ ValueWritten(p) \in Value \cup {Missing}
BY DEF Payload, SetOp, DelOp, Garbage, Blank, MembershipEntry, WritesKey, ValueWritten, IsWrite

\* Applying one entry.
LEMMA ApplyOneExact ==
  ASSUME NEW m \in Machine, NEW i \in Index, committed[i] \in Payload,
         i = 0 => ~IsWrite(committed[i]), MachineAsOf(committed, m, i - 1)
  PROVE  ApplyOne(m, i) \in Machine /\ MachineAsOf(committed, ApplyOne(m, i), i)
<1> USE FirstIndexAssumption, MaxIndexAssumption
<1> DEFINE p == committed[i]
           q == ApplyOne(m, i)
<1>1. i \in Nat /\ i - 1 \in Int /\ FirstIndex <= i /\ i <= MaxIndex
  BY DEF Index
<1>2. CASE IsWrite(p)
  <2>1. q = [data |-> Written(m.data, p), last_applied |-> i]
    BY <1>2 DEF ApplyOne, IsWrite
  <2>2. p.key \in Key /\ ValueWritten(p) \in Value \cup {Missing}
    BY <1>2, WritesMeans
  <2>3. q \in Machine
    BY <1>1, <2>1, <2>2 DEF Machine, Written
  <2>4. ASSUME NEW k \in Key
        PROVE  q.data[k] = IF WritesKey(p, k) THEN ValueWritten(p) ELSE m.data[k]
    BY <1>2, <2>1, <2>2, WritesMeans DEF Machine, Written
  <2>5. \A k \in Key : KeyAsOf(committed, i, k, q.data[k])
    <3> SUFFICES ASSUME NEW k \in Key PROVE KeyAsOf(committed, i, k, q.data[k])
      BY Zenon
    <3>1. KeyAsOf(committed, i - 1, k, m.data[k])
      BY DEF MachineAsOf
    <3>2. KeyAsOf(committed, (i - 1) + 1, k, IF WritesKey(committed[(i - 1) + 1], k)
                                             THEN ValueWritten(committed[(i - 1) + 1]) ELSE m.data[k])
      BY <1>1, <3>1, KeyAsOfNext
    <3>3. (i - 1) + 1 = i
      BY <1>1
    <3> QED
      BY <2>4, <3>2, <3>3
  <2>6. q.last_applied = i
    BY <2>1
  <2> QED
    BY <1>1, <2>3, <2>5, <2>6 DEF MachineAsOf, Max2
<1>3. CASE ~IsWrite(p)
  <2>1. q = m
    BY <1>3 DEF ApplyOne, IsWrite
  <2>2. \A k \in Key : KeyAsOf(committed, i, k, m.data[k])
    <3> SUFFICES ASSUME NEW k \in Key PROVE KeyAsOf(committed, i, k, m.data[k])
      BY Zenon
    <3>1. KeyAsOf(committed, i - 1, k, m.data[k])
      BY DEF MachineAsOf
    <3>2. KeyAsOf(committed, (i - 1) + 1, k, IF WritesKey(committed[(i - 1) + 1], k)
                                             THEN ValueWritten(committed[(i - 1) + 1]) ELSE m.data[k])
      BY <1>1, <3>1, KeyAsOfNext
    <3>3. (i - 1) + 1 = i /\ ~WritesKey(p, k)
      BY <1>1, <1>3, WritesMeans
    <3> QED
      BY <3>2, <3>3
  <2>3. m.last_applied \in Nat
    BY DEF Machine
  <2>4. m.last_applied <= Max2(i, 0)
    BY <1>1, <2>3 DEF MachineAsOf, Max2
  <2>5. \A j \in FirstIndex..i : m.last_applied < j => ~IsWrite(committed[j])
    BY <1>1, <1>3 DEF MachineAsOf
  <2> QED
    BY <2>1, <2>2, <2>4, <2>5 DEF MachineAsOf
<1> QED
  BY <1>2, <1>3

\* The function apply computes over a batch satisfies its recursion.
LEMMA StateAfterDef ==
  ASSUME NEW m, NEW a \in Int, NEW n \in Int, a - 1 <= n
  PROVE  StateAfter(m, a, n) = [i \in (a - 1)..n |-> IF i < a THEN m ELSE ApplyOne(StateAfter(m, a, n)[i - 1], i)]
<1> DEFINE IsAfter(g, d) == g = [i \in (a - 1)..(a - 1 + d) |-> IF i < a THEN m ELSE ApplyOne(g[i - 1], i)]
           S == {d \in Nat : \E g : IsAfter(g, d)}
<1>1. 0 \in S
  <2> DEFINE g == [i \in (a - 1)..(a - 1 + 0) |-> m]
  <2>1. IsAfter(g, 0)
    OBVIOUS
  <2> QED
    BY <2>1
<1>2. ASSUME NEW d \in Nat, d \in S PROVE d + 1 \in S
  <2>1. PICK g : IsAfter(g, d)
    BY <1>2
  <2> DEFINE e == a - 1 + d
             h == [i \in (a - 1)..(e + 1) |-> IF i = e + 1 THEN ApplyOne(g[e], e + 1) ELSE g[i]]
  <2>2. \A i \in (a - 1)..e : h[i] = g[i] /\ g[i] = IF i < a THEN m ELSE ApplyOne(g[i - 1], i)
    BY <2>1
  <2>3. \A i \in (a - 1)..(e + 1) : h[i] = IF i < a THEN m ELSE ApplyOne(h[i - 1], i)
    <3> SUFFICES ASSUME NEW i \in (a - 1)..(e + 1)
                 PROVE  h[i] = IF i < a THEN m ELSE ApplyOne(h[i - 1], i)
      OBVIOUS
    <3>1. CASE i = e + 1
      <4>1. h[i] = ApplyOne(g[e], e + 1) /\ i - 1 = e /\ ~(i < a) /\ e \in (a - 1)..e
        BY <3>1
      <4>2. h[e] = g[e]
        BY <2>2, <4>1
      <4> HIDE DEF h
      <4> QED
        BY <3>1, <4>1, <4>2
    <3>2. CASE i # e + 1
      <4>1. i \in (a - 1)..e
        BY <3>2
      <4>2. CASE i < a
        BY <2>2, <4>1, <4>2, Zenon
      <4>3. CASE ~(i < a)
        <5>1. i - 1 \in (a - 1)..e
          BY <4>1, <4>3
        <5>2. h[i - 1] = g[i - 1] /\ h[i] = g[i] /\ g[i] = ApplyOne(g[i - 1], i)
          BY <2>2, <4>1, <4>3, <5>1, Zenon
        <5> HIDE DEF h
        <5> QED
          BY <4>3, <5>2
      <4> QED
        BY <4>2, <4>3
    <3> QED
      BY <3>1, <3>2
  <2>4. a - 1 + (d + 1) = e + 1
    OBVIOUS
  <2>5. h = [i \in (a - 1)..(e + 1) |-> IF i < a THEN m ELSE ApplyOne(h[i - 1], i)]
    BY <2>3
  <2>6. IsAfter(h, d + 1)
    <3> HIDE DEF h
    <3> QED
      BY <2>4, <2>5
  <2> HIDE DEF IsAfter, h
  <2> QED
    BY <2>6
<1>3. n - (a - 1) \in S
  <2>1. n - (a - 1) \in Nat
    OBVIOUS
  <2> HIDE DEF S
  <2> QED
    BY <1>1, <1>2, <2>1, SetInduction
<1>4. PICK g : g = [i \in (a - 1)..n |-> IF i < a THEN m ELSE ApplyOne(g[i - 1], i)]
  <2>1. a - 1 + (n - (a - 1)) = n
    OBVIOUS
  <2> QED
    BY <1>3, <2>1
<1> QED
  BY <1>4, Zenon DEF StateAfter

\* What is committed is a payload; an entry at index 0 is a membership.
Entries ==
  /\ \A i \in FirstIndex..commitIndex : committed[i] \in Payload
  /\ 0 \in FirstIndex..commitIndex => ~IsWrite(committed[0])

\* After each entry of a batch of committed entries the state machine is what the
\* entries up to it leave.
LEMMA StateAfterExact ==
  ASSUME NEW m \in Machine, NEW a \in Int, NEW n \in Int, FirstIndex <= a, a - 1 <= n,
         n <= commitIndex, commitIndex \in NoIndex..MaxIndex, Entries,
         MachineAsOf(committed, m, a - 1)
  PROVE  \A i \in (a - 1)..n : /\ StateAfter(m, a, n)[i] \in Machine
                               /\ MachineAsOf(committed, StateAfter(m, a, n)[i], i)
<1> USE FirstIndexAssumption, MaxIndexAssumption
<1> DEFINE f == StateAfter(m, a, n)
           Exact(i) == f[i] \in Machine /\ MachineAsOf(committed, f[i], i)
           S == {d \in Nat : a - 1 + d <= n => Exact(a - 1 + d)}
<1>1. \A i \in (a - 1)..n : f[i] = IF i < a THEN m ELSE ApplyOne(f[i - 1], i)
  BY StateAfterDef
<1> HIDE DEF f
<1>2. 0 \in S
  <2>1. a - 1 + 0 = a - 1 /\ f[a - 1] = m
    BY <1>1
  <2> QED
    BY <2>1
<1>3. ASSUME NEW d \in Nat, d \in S PROVE d + 1 \in S
  <2> DEFINE i == a - 1 + (d + 1)
  <2>1. SUFFICES ASSUME i <= n PROVE Exact(i)
    OBVIOUS
  <2>2. i \in Index /\ i \in FirstIndex..commitIndex /\ a - 1 + d = i - 1 /\ ~(i < a) /\ i \in (a - 1)..n
    BY <2>1 DEF Index, NoIndex
  <2>3. f[i - 1] \in Machine /\ MachineAsOf(committed, f[i - 1], i - 1)
    BY <1>3, <2>1, <2>2
  <2>4. f[i] = ApplyOne(f[i - 1], i)
    BY <1>1, <2>2
  <2>5. committed[i] \in Payload /\ (i = 0 => ~IsWrite(committed[i]))
    BY <2>2 DEF Entries
  <2> HIDE DEF i
  <2> QED
    BY <2>2, <2>3, <2>4, <2>5, ApplyOneExact
<1>4. Nat \subseteq S
  <2> HIDE DEF S
  <2> QED
    BY <1>2, <1>3, SetInduction
<1>5. ASSUME NEW i \in (a - 1)..n PROVE Exact(i)
  <2>1. i - (a - 1) \in Nat /\ a - 1 + (i - (a - 1)) = i
    OBVIOUS
  <2>2. i - (a - 1) \in S
    BY <1>4, <2>1, Zenon
  <2> HIDE DEF Exact
  <2> QED
    BY <2>1, <2>2
<1> QED
  BY <1>5 DEF f

-----------------------------------------------------------------------------
\* The inductive invariant.

\* A replica that has not stopped holds what the entries it has applied leave.
Replicas ==
  \A r \in Replica \ failed : applied[r] <= commitIndex /\ MachineAsOf(committed, sm[r], applied[r])

\* So does a snapshot, wherever it is.
Snapshots ==
  \A s \in built : /\ s.sm \in Machine
                   /\ s.last \in NoIndex..commitIndex
                   /\ MachineAsOf(committed, s.sm, s.last)

\* An answer is the one the entries before its own call for.
Answers ==
  \A i \in Index : \A x \in replies[i] : i <= commitIndex /\ x = AnswerOf(committed, i)

IInv == TypeOK /\ Entries /\ Replicas /\ Snapshots /\ Answers

LEMMA TypeFacts ==
  ASSUME TypeOK
  PROVE  /\ FirstIndex \in {0, 1} /\ NoIndex = FirstIndex - 1 /\ MaxIndex \in Nat
         /\ Index = FirstIndex..MaxIndex
         /\ commitIndex \in NoIndex..MaxIndex /\ commitIndex \in Int
         /\ \A r \in Replica : sm[r] \in Machine /\ applied[r] \in NoIndex..MaxIndex /\ applied[r] \in Int
BY FirstIndexAssumption, MaxIndexAssumption DEF TypeOK, NoIndex, Index, Machine

LEMMA Fresh == NewStateMachine \in Machine /\ \A es : MachineAsOf(es, NewStateMachine, NoIndex)
BY FirstIndexAssumption, MaxIndexAssumption
   DEF NewStateMachine, Machine, MachineAsOf, KeyAsOf, NoIndex, Max2

LEMMA InitIInv == Init => IInv
<1> SUFFICES ASSUME Init PROVE IInv
  OBVIOUS
<1>1. TypeOK
  BY Fresh, FirstIndexAssumption, MaxIndexAssumption DEF Init, TypeOK, NoIndex, Index, Machine
<1>2. Entries /\ Snapshots /\ Answers
  BY FirstIndexAssumption DEF Init, Entries, Snapshots, Answers, NoIndex
<1>3. Replicas
  BY Fresh, FirstIndexAssumption DEF Init, Replicas, NoIndex
<1> QED
  BY <1>1, <1>2, <1>3 DEF IInv

-----------------------------------------------------------------------------
\* What an entry committed later leaves alone.

LEMMA MachineAsOfSame ==
  ASSUME NEW es, NEW fs, NEW m, NEW n \in Int, \A i \in FirstIndex..n : fs[i] = es[i],
         MachineAsOf(es, m, n)
  PROVE  MachineAsOf(fs, m, n)
<1>1. \A k \in Key : KeyAsOf(fs, n, k, m.data[k])
  BY KeyAsOfSame, Zenon DEF MachineAsOf
<1> QED
  BY <1>1 DEF MachineAsOf

LEMMA AnswerOfSame ==
  ASSUME NEW es, NEW fs, NEW i \in Int, FirstIndex <= i, \A j \in FirstIndex..i : fs[j] = es[j]
  PROVE  AnswerOf(fs, i) = AnswerOf(es, i)
<1>1. i - 1 \in Int /\ fs[i] = es[i] /\ \A j \in FirstIndex..(i - 1) : fs[j] = es[j] /\ es[j] = fs[j]
  BY FirstIndexAssumption
<1>2. KeyAsOf(fs, i - 1, es[i].key, Missing) <=> KeyAsOf(es, i - 1, es[i].key, Missing)
  <2>1. ASSUME KeyAsOf(fs, i - 1, es[i].key, Missing) PROVE KeyAsOf(es, i - 1, es[i].key, Missing)
    BY <1>1, <2>1, KeyAsOfSame
  <2>2. ASSUME KeyAsOf(es, i - 1, es[i].key, Missing) PROVE KeyAsOf(fs, i - 1, es[i].key, Missing)
    BY <1>1, <2>2, KeyAsOfSame
  <2> QED
    BY <2>1, <2>2
<1> QED
  BY <1>1, <1>2 DEF AnswerOf

LEMMA CommitStep ==
  ASSUME IInv, NEW p \in Payload, Commit(p)
  PROVE  IInv'
<1>0. TypeOK /\ Entries /\ Replicas /\ Snapshots /\ Answers
  BY DEF IInv
<1> DEFINE c == commitIndex
<1>1. /\ c \in NoIndex..MaxIndex /\ c < MaxIndex /\ c + 1 \in Index /\ c \in Int
      /\ FirstIndex \in {0, 1} /\ NoIndex = FirstIndex - 1
      /\ \A r \in Replica : applied[r] \in Int
  BY <1>0, TypeFacts DEF Commit
<1>2. /\ commitIndex' = c + 1 /\ applied' = applied /\ failed' = failed /\ sm' = sm
      /\ membership' = membership /\ built' = built /\ replies' = replies
  BY DEF Commit
<1>3. /\ committed' \in [Index -> Payload \cup {NoEntry}]
      /\ committed'[c + 1] = p
      /\ \A i \in FirstIndex..c : committed'[i] = committed[i]
  BY <1>0, <1>1 DEF Commit, TypeOK, Index
<1>4. TypeOK'
  BY <1>0, <1>1, <1>2, <1>3 DEF TypeOK, Index
<1>5. Entries'
  <2>1. \A i \in FirstIndex..(c + 1) : committed'[i] \in Payload
    BY <1>0, <1>1, <1>3 DEF Entries
  <2>2. c + 1 = 0 => ~IsWrite(p)
    BY DEF Commit, IsWrite
  <2>3. 0 \in FirstIndex..(c + 1) => ~IsWrite(committed'[0])
    BY <1>0, <1>1, <1>3, <2>2 DEF Entries
  <2> QED
    BY <1>2, <2>1, <2>3 DEF Entries
<1>6. Replicas'
  <2> SUFFICES ASSUME NEW r \in Replica \ failed
               PROVE  applied[r] <= c + 1 /\ MachineAsOf(committed', sm[r], applied[r])
    BY <1>2 DEF Replicas
  <2>1. applied[r] <= c /\ MachineAsOf(committed, sm[r], applied[r]) /\ applied[r] \in Int
    BY <1>0, <1>1 DEF Replicas
  <2>2. \A i \in FirstIndex..applied[r] : committed'[i] = committed[i]
    BY <1>1, <1>3, <2>1
  <2> QED
    BY <1>1, <2>1, <2>2, MachineAsOfSame
<1>7. Snapshots'
  <2> SUFFICES ASSUME NEW s \in built
               PROVE  /\ s.sm \in Machine
                      /\ s.last \in NoIndex..(c + 1)
                      /\ MachineAsOf(committed', s.sm, s.last)
    BY <1>2 DEF Snapshots
  <2>1. s.sm \in Machine /\ s.last \in NoIndex..c /\ MachineAsOf(committed, s.sm, s.last)
    BY <1>0 DEF Snapshots
  <2>2. s.last \in Int /\ \A i \in FirstIndex..s.last : committed'[i] = committed[i]
    BY <1>1, <1>3, <2>1, SMT, Z3
  <2> QED
    BY <1>1, <2>1, <2>2, MachineAsOfSame
<1>8. Answers'
  <2> SUFFICES ASSUME NEW i \in Index, NEW x \in replies[i]
               PROVE  i <= c + 1 /\ x = AnswerOf(committed', i)
    BY <1>2 DEF Answers
  <2>1. i <= c /\ x = AnswerOf(committed, i) /\ i \in Int /\ FirstIndex <= i
    BY <1>0, FirstIndexAssumption, MaxIndexAssumption DEF Answers, Index
  <2>2. \A j \in FirstIndex..i : committed'[j] = committed[j]
    BY <1>1, <1>3, <2>1
  <2>3. AnswerOf(committed', i) = AnswerOf(committed, i)
    BY <2>1, <2>2, AnswerOfSame
  <2> QED
    BY <1>1, <2>1, <2>3
<1> QED
  BY <1>4, <1>5, <1>6, <1>7, <1>8 DEF IInv

\* apply's answer, given by the data as of the entry before, is the one called for.
LEMMA AnswerExact ==
  ASSUME NEW i \in Int, committed[i] \in Payload, NEW m \in Machine, MachineAsOf(committed, m, i - 1)
  PROVE  Answer(m.data, committed[i]) = AnswerOf(committed, i)
<1> DEFINE p == committed[i]
<1>1. CASE p.kind = "del"
  <2>1. p.key \in Key
    BY <1>1, WritesMeans DEF IsWrite
  <2>2. KeyAsOf(committed, i - 1, p.key, m.data[p.key])
    BY <2>1 DEF MachineAsOf
  <2>3. KeyAsOf(committed, i - 1, p.key, Missing) <=> m.data[p.key] = Missing
    BY <2>2, KeyAsOfUnique
  <2> QED
    BY <1>1, <2>3 DEF Answer, AnswerOf
<1>2. CASE p.kind # "del"
  BY <1>2 DEF Answer, AnswerOf
<1> QED
  BY <1>1, <1>2

LEMMA ApplyStep ==
  ASSUME IInv, NEW r \in Replica, NEW n \in Index, Apply(r, n)
  PROVE  IInv'
<1>0. TypeOK /\ Entries /\ Replicas /\ Snapshots /\ Answers
  BY DEF IInv
<1> DEFINE a == applied[r] + 1
           after == StateAfter(sm[r], a, n)
           bad == {i \in a..n : Refused(after[i - 1], i)}
           end == IF bad = {} THEN n ELSE (CHOOSE i \in bad : \A j \in bad : i <= j) - 1
           changes == {i \in a..n : committed[i].kind = "membership"}
<1>1. /\ FirstIndex \in {0, 1} /\ NoIndex = FirstIndex - 1 /\ MaxIndex \in Nat
      /\ Index = FirstIndex..MaxIndex /\ commitIndex \in NoIndex..MaxIndex
      /\ applied[r] \in NoIndex..MaxIndex /\ sm[r] \in Machine
  BY <1>0, TypeFacts, Zenon
<1>2. r \notin failed /\ a <= n /\ n <= commitIndex
  BY DEF Apply
<1>3. a \in Int /\ n \in Int /\ FirstIndex <= a /\ a - 1 <= n /\ a - 1 = applied[r] /\ a..n \subseteq Index
  BY <1>1, <1>2, SMTT(30), Z3
<1>4. /\ committed' = committed /\ commitIndex' = commitIndex /\ built' = built
      /\ sm' = [sm EXCEPT ![r] = after[end]]
  BY SMT, Z3 DEF Apply
<1>5. MachineAsOf(committed, sm[r], a - 1)
  BY <1>0, <1>2, <1>3, SMT, Z3 DEF Replicas
<1>6. \A i \in (a - 1)..n : after[i] \in Machine /\ MachineAsOf(committed, after[i], i)
  BY <1>0, <1>1, <1>2, <1>3, <1>5, StateAfterExact, SMT, Z3
<1>7. end \in (a - 1)..n
  <2> HIDE DEF after
  <2>1. CASE bad = {}
    BY <1>3, <2>1
  <2>2. CASE bad # {}
    <3>1. bad \in SUBSET Nat /\ bad \subseteq a..n
      BY <1>1, <1>3
    <3> HIDE DEF bad
    <3>2. \E i \in bad : \A j \in bad : i <= j
      BY <2>2, <3>1, LeastNatural
    <3>3. PICK i \in bad : end = i - 1
      BY <2>2, <3>2, Zenon
    <3> QED
      BY <1>3, <3>1, <3>3, SMT, Z3
  <2> QED
    BY <2>1, <2>2
<1>8. sm' \in [Replica -> Machine] /\ \A q \in Replica : sm'[q] = IF q = r THEN after[end] ELSE sm[q]
  <2>1. after[end] \in Machine
    BY <1>6, <1>7
  <2>2. sm \in [Replica -> Machine]
    BY <1>0, SMTT(30), Z3 DEF TypeOK, Machine
  <2> HIDE DEF after, end
  <2> QED
    BY <1>4, <2>1, <2>2, Zenon
<1>9. \/ /\ bad = {}
         /\ applied' = [applied EXCEPT ![r] = n]
         /\ membership' = IF changes = {} THEN membership
                          ELSE [membership EXCEPT ![r] = CHOOSE i \in changes : \A j \in changes : j <= i]
         /\ replies' = [i \in Index |-> IF i \in a..n
                                        THEN replies[i] \cup {Answer(after[i - 1].data, committed[i])}
                                        ELSE replies[i]]
         /\ failed' = failed
      \/ /\ failed' = failed \cup {r}
         /\ applied' = applied /\ membership' = membership /\ replies' = replies
  BY Zenon DEF Apply
<1>10. applied' \in [Replica -> NoIndex..MaxIndex] /\ failed' \subseteq Replica
  <2>1. /\ applied' = applied \/ applied' = [applied EXCEPT ![r] = n]
        /\ failed' = failed \/ failed' = failed \cup {r}
    <3> HIDE DEF after, bad, changes
    <3> QED
      BY <1>9
  <2>2. applied \in [Replica -> NoIndex..MaxIndex] /\ failed \subseteq Replica /\ n \in NoIndex..MaxIndex
    BY <1>0, <1>1 DEF TypeOK
  <2> QED
    BY <2>1, <2>2
<1>11. membership' \in [Replica -> NoIndex..MaxIndex]
  <2>1. changes \in SUBSET (0..MaxIndex) /\ changes \subseteq NoIndex..MaxIndex
    BY <1>1, <1>3
  <2> DEFINE top == CHOOSE i \in changes : \A j \in changes : j <= i
  <2>2. changes # {} => top \in NoIndex..MaxIndex
    <3> HIDE DEF changes
    <3>1. changes # {} => \E i \in changes : \A j \in changes : j <= i
      BY <1>1, <2>1, GreatestNatural, Zenon
    <3> QED
      BY <2>1, <3>1, Zenon
  <2>3. membership \in [Replica -> NoIndex..MaxIndex]
    BY <1>0 DEF TypeOK
  <2> HIDE DEF after, bad, changes, top
  <2> QED
    BY <1>9, <2>2, <2>3, Zenon DEF top
<1>12. TypeOK'
  BY <1>0, <1>4, <1>8, <1>10, <1>11, Zenon DEF TypeOK, Machine
<1>13. Entries' /\ Snapshots'
  BY <1>0, <1>4, Zenon DEF Entries, Snapshots
<1>14. Replicas'
  <2> SUFFICES ASSUME NEW q \in Replica, q \notin failed'
               PROVE  applied'[q] <= commitIndex /\ MachineAsOf(committed, sm'[q], applied'[q])
    BY <1>4, Zenon DEF Replicas
  <2>1. CASE q = r
    <3>1. bad = {} /\ applied' = [applied EXCEPT ![r] = n]
      BY <1>9, <2>1
    <3>2. end = n /\ applied'[r] = n
      BY <1>0, <3>1 DEF TypeOK
    <3>3. n \in (a - 1)..n
      BY <1>3
    <3> HIDE DEF after, end, bad
    <3>4. sm'[r] = after[n]
      BY <1>8, <3>2
    <3> QED
      BY <1>2, <1>6, <2>1, <3>2, <3>3, <3>4, SMTT(30), Z3
  <2>2. CASE q # r
    <3>1. applied'[q] = applied[q] /\ q \notin failed
      <4> HIDE DEF after, bad, changes
      <4> QED
        BY <1>0, <1>9, <2>2, SMTT(30), Z3 DEF TypeOK
    <3>2. sm'[q] = sm[q]
      BY <1>8, <2>2
    <3> QED
      BY <1>0, <3>1, <3>2 DEF Replicas
  <2> QED
    BY <2>1, <2>2, Zenon
<1>15. Answers'
  <2> SUFFICES ASSUME NEW i \in Index, NEW x \in replies'[i]
               PROVE  i <= commitIndex /\ x = AnswerOf(committed, i)
    BY <1>4 DEF Answers
  <2>1. CASE x \in replies[i]
    BY <1>0, <2>1, SMT, Z3 DEF Answers
  <2>2. CASE x \notin replies[i]
    <3>1. i \in a..n /\ x = Answer(after[i - 1].data, committed[i])
      <4> HIDE DEF after, bad, changes
      <4> QED
        BY <1>9, <2>2, SMT, Z3
    <3>2. i - 1 \in (a - 1)..n /\ i \in Int /\ i \in FirstIndex..commitIndex
      BY <1>1, <1>2, <1>3, <3>1, SMTT(30), Z3
    <3>3. committed[i] \in Payload /\ after[i - 1] \in Machine /\ MachineAsOf(committed, after[i - 1], i - 1)
      BY <1>0, <1>6, <3>2 DEF Entries
    <3> HIDE DEF after
    <3> QED
      BY <3>1, <3>2, <3>3, AnswerExact
  <2> QED
    BY <2>1, <2>2, Zenon
<1> QED
  BY <1>12, <1>13, <1>14, <1>15 DEF IInv

\* last_applied is the last entry that wrote, so the data is also that of the entries
\* up to it; 0 is no log id, and no entry up to there has written.
LEMMA BuildExact ==
  ASSUME NEW m \in Machine, NEW n \in NoIndex..commitIndex, commitIndex \in NoIndex..MaxIndex, Entries,
         MachineAsOf(committed, m, n),
         NEW b, b = IF m.last_applied = 0 THEN NoIndex ELSE m.last_applied
  PROVE  b \in NoIndex..n /\ MachineAsOf(committed, m, b)
<1>1. /\ FirstIndex \in {0, 1} /\ NoIndex = FirstIndex - 1 /\ commitIndex \in Int /\ n \in Int
      /\ m.last_applied \in Nat /\ m.last_applied <= Max2(n, 0)
  BY FirstIndexAssumption, MaxIndexAssumption DEF NoIndex, Machine, MachineAsOf
<1>2. b \in Int /\ NoIndex <= b /\ b <= n
  BY <1>1 DEF Max2
<1>3. \A i \in FirstIndex..n : b < i => ~IsWrite(committed[i])
  BY <1>1 DEF MachineAsOf, Entries
<1>4. \A i \in FirstIndex..n : committed[i] \in Payload
  BY <1>1 DEF Entries
<1>5. ASSUME NEW k \in Key PROVE KeyAsOf(committed, b, k, m.data[k])
  <2>1. KeyAsOf(committed, n, k, m.data[k])
    BY DEF MachineAsOf
  <2>2. \A i \in FirstIndex..n : b < i => ~WritesKey(committed[i], k)
    BY <1>3, <1>4, WritesMeans
  <2> QED
    BY <1>1, <1>2, <2>1, <2>2, KeyAsOfBack
<1>6. m.last_applied <= Max2(b, 0)
  BY <1>1 DEF Max2
<1>7. \A i \in FirstIndex..b : m.last_applied < i => ~IsWrite(committed[i])
  BY <1>1, <1>2, SMTT(30), Z3 DEF MachineAsOf
<1> QED
  BY <1>1, <1>2, <1>5, <1>6, <1>7 DEF MachineAsOf

LEMMA BuildStep ==
  ASSUME IInv, NEW r \in Replica, BuildSnapshot(r)
  PROVE  IInv'
<1>0. TypeOK /\ Entries /\ Replicas /\ Snapshots /\ Answers
  BY SMTT(30), Z3 DEF IInv
<1> DEFINE b == IF sm[r].last_applied = 0 THEN NoIndex ELSE sm[r].last_applied
           t == [sm |-> sm[r], last |-> b, membership |-> NoIndex]
<1>1. built' = built \cup {t} /\ r \notin failed
  BY Zenon DEF BuildSnapshot
<1>2. /\ commitIndex \in NoIndex..MaxIndex /\ applied[r] \in NoIndex..commitIndex /\ sm[r] \in Machine
      /\ MachineAsOf(committed, sm[r], applied[r])
  BY <1>0, <1>1, TypeFacts, SMTT(30), Z3 DEF Replicas
<1>3. b \in NoIndex..commitIndex /\ MachineAsOf(committed, sm[r], b)
  <2>1. b \in NoIndex..applied[r] /\ MachineAsOf(committed, sm[r], b)
    BY <1>0, <1>2, BuildExact
  <2> HIDE DEF b
  <2> QED
    BY <1>0, <1>2, <2>1, TypeFacts, SMTT(30), Z3
<1>4. t.sm = sm[r] /\ t.last = b
  OBVIOUS
<1>5. Snapshots'
  <2> HIDE DEF t, b
  <2>1. committed' = committed /\ commitIndex' = commitIndex
    BY Zenon DEF BuildSnapshot
  <2> QED
    BY <1>0, <1>1, <1>2, <1>3, <1>4, <2>1 DEF Snapshots
<1> QED
  BY <1>0, <1>5, Zenon DEF IInv, BuildSnapshot, TypeOK, Entries, Replicas, Answers

LEMMA InstallStep ==
  ASSUME IInv, NEW r \in Replica, NEW s \in built, InstallSnapshot(r, s)
  PROVE  IInv'
<1>0. TypeOK /\ Entries /\ Replicas /\ Snapshots /\ Answers
  BY DEF IInv
<1>1. /\ sm' = [sm EXCEPT ![r] = s.sm] /\ applied' = [applied EXCEPT ![r] = s.last]
      /\ committed' = committed /\ commitIndex' = commitIndex /\ failed' = failed
      /\ membership' = membership /\ built' = built /\ replies' = replies
  BY DEF InstallSnapshot
<1>2. s.sm \in Machine /\ s.last \in NoIndex..commitIndex /\ MachineAsOf(committed, s.sm, s.last)
  BY <1>0, Zenon DEF Snapshots
<1>3. /\ sm \in [Replica -> Machine] /\ applied \in [Replica -> NoIndex..MaxIndex]
      /\ s.last \in NoIndex..MaxIndex /\ s.last <= commitIndex
  BY <1>0, <1>2, TypeFacts, SMTT(30), Z3 DEF TypeOK, Machine
<1>4. TypeOK'
  BY <1>0, <1>1, <1>2, <1>3 DEF TypeOK, Machine
<1>5. \A q \in Replica : /\ sm'[q] = IF q = r THEN s.sm ELSE sm[q]
                         /\ applied'[q] = IF q = r THEN s.last ELSE applied[q]
  BY <1>1, <1>3
<1>6. Replicas'
  BY <1>0, <1>1, <1>2, <1>3, <1>5, Zenon DEF Replicas
<1> QED
  BY <1>0, <1>1, <1>4, <1>6 DEF IInv, Entries, Snapshots, Answers

LEMMA RestartStep ==
  ASSUME IInv, NEW r \in Replica, Restart(r)
  PROVE  IInv'
<1>0. TypeOK /\ Entries /\ Replicas /\ Snapshots /\ Answers
  BY DEF IInv
<1>1. /\ sm' = [sm EXCEPT ![r] = NewStateMachine] /\ applied' = [applied EXCEPT ![r] = NoIndex]
      /\ committed' = committed /\ commitIndex' = commitIndex /\ failed' = failed \ {r}
      /\ membership' = [membership EXCEPT ![r] = NoIndex] /\ built' = built /\ replies' = replies
  BY DEF Restart
<1>2. /\ sm \in [Replica -> Machine] /\ applied \in [Replica -> NoIndex..MaxIndex]
      /\ NoIndex \in NoIndex..MaxIndex /\ NoIndex <= commitIndex
  BY <1>0, TypeFacts, SMT, Z3 DEF TypeOK, Machine
<1>3. NewStateMachine \in Machine /\ MachineAsOf(committed, NewStateMachine, NoIndex)
  BY Fresh
<1>4. TypeOK'
  BY <1>0, <1>1, <1>2, <1>3 DEF TypeOK, Machine
<1>5. \A q \in Replica : /\ sm'[q] = IF q = r THEN NewStateMachine ELSE sm[q]
                         /\ applied'[q] = IF q = r THEN NoIndex ELSE applied[q]
  BY <1>1, <1>2
<1>6. Replicas'
  BY <1>0, <1>1, <1>2, <1>3, <1>5 DEF Replicas
<1> QED
  BY <1>0, <1>1, <1>4, <1>6 DEF IInv, Entries, Snapshots, Answers

LEMMA StepIInv == IInv /\ [Next]_vars => IInv'
<1> SUFFICES ASSUME IInv, [Next]_vars PROVE IInv'
  BY SMTT(30), Z3
<1>1. CASE UNCHANGED vars
  BY <1>1, Zenon DEF vars, IInv, TypeOK, Entries, Replicas, Snapshots, Answers
<1> QED
  BY <1>1, CommitStep, ApplyStep, BuildStep, InstallStep, RestartStep DEF Next

\* Every step of the replicas' state machines keeps the inductive invariant: each machine
\* and each snapshot is what the committed entries up to its index make of an empty one.
THEOREM AlwaysIInv == Spec => []IInv
BY InitIInv, StepIInv, PTL DEF Spec

\* The data of a replica that has not stopped is what the entries it has applied
\* say, in whatever batches apply took them and wherever a snapshot stood in for them.
THEOREM ReplicasAlwaysAgree == Spec => []ReplicasAgree
<1>1. IInv => ReplicasAgree
  BY Zenon DEF IInv, Replicas, ReplicasAgree, MachineAsOf
<1> QED
  BY <1>1, AlwaysIInv, PTL

\* build_snapshot labels the data with the log id it is exact for, although it takes
\* last_applied from the state machine, which blank and membership entries pass by.
THEOREM SnapshotsAlwaysExact == Spec => []SnapshotExact
<1>1. IInv => SnapshotExact
  BY DEF IInv, Snapshots, SnapshotExact, MachineAsOf
<1> QED
  BY <1>1, AlwaysIInv, PTL

\* apply gives an entry one answer, on every replica and after every restart.
THEOREM AnswersAlwaysAgree == Spec => []AnswersAgree
<1>1. IInv => AnswersAgree
  BY Zenon DEF IInv, Answers, AnswersAgree
<1> QED
  BY <1>1, AlwaysIInv, PTL

-----------------------------------------------------------------------------
\* The node.


Call == [at : {"none", "sent", "logged", "ok", "err"}, op : Payload, index : NoIndex..MaxIndex,
         answer : {"", "OK", "0", "1"}, waited : BOOLEAN]

NodeTyped ==
  /\ log \in [Index -> Payload \cup {NoEntry}]
  /\ purged \in NoIndex..MaxIndex /\ last \in NoIndex..MaxIndex
  /\ calls \in [Client -> Call]
  /\ created \in {"none", "alone", "with peers"}
  /\ leader \in BOOLEAN /\ current_leader \in BOOLEAN
  /\ waiter \in {"none", "polling", "ok", "timeout"}

\* The log holds what follows the purged entries, and what is committed of it is
\* what was logged.  Only entries a snapshot covers, hence applied ones, are purged.
LogHolds ==
  /\ purged <= applied[Self] /\ applied[Self] <= commitIndex /\ commitIndex <= last
  /\ \A i \in (purged + 1)..last : log[i] \in Payload
  /\ \A i \in (purged + 1)..commitIndex : log[i] = committed[i]
  /\ \A s \in built : s.last <= applied[Self]

\* Until new has formed the group nothing is logged, and if peers were named it
\* never is.  Before it leads, the node has logged only the membership.
GroupFormed ==
  /\ created # "alone" => /\ ~leader /\ ~current_leader /\ waiter # "ok"
                          /\ log = [i \in Index |-> NoEntry] /\ last = NoIndex
                          /\ vote = NoVote /\ commitIndex = NoIndex /\ failed = {}
                          /\ \A c \in Client : calls[c].at \notin {"logged", "ok"}
  /\ created = "alone" => FirstIndex <= last /\ (~leader => last = FirstIndex)

\* What the metrics, wait_for_leader and a proposal made after it know of leadership.
LeadershipKnown ==
  /\ current_leader => leader \/ Stopped
  /\ waiter = "ok" => leader \/ Stopped
  /\ \A c \in Client : calls[c].waited => leader \/ Stopped
  /\ \A c \in Client : calls[c].waited /\ calls[c].at = "err" => Stopped

\* The entry logged at i, wherever it still is.
Logged(i) == IF i <= commitIndex THEN committed[i] ELSE log[i]

\* A proposal that was logged is at its index; one that was answered has one of
\* apply's answers.
CallLogged(c) ==
  /\ calls[c].index <= last
  /\ calls[c].at \in {"none", "sent"} => calls[c].index = NoIndex
  /\ calls[c].at \in {"logged", "ok"} => calls[c].index \in Index /\ calls[c].op = Logged(calls[c].index)
  /\ calls[c].at = "ok" => calls[c].index <= applied[Self] /\ calls[c].answer \in replies[calls[c].index]

\* No two proposals were logged at one index.
OwnIndex == \A c, d \in Client : c # d /\ calls[c].index = calls[d].index => calls[c].index = NoIndex

CallsLogged == (\A c \in Client : CallLogged(c)) /\ OwnIndex

NodeIInv == IInv /\ NodeTyped /\ LogHolds /\ GroupFormed /\ LeadershipKnown /\ CallsLogged

LEMMA NodeFacts ==
  ASSUME NodeIInv
  PROVE  /\ IInv /\ NodeTyped /\ LogHolds /\ GroupFormed /\ LeadershipKnown /\ CallsLogged
         /\ FirstIndex \in {0, 1} /\ NoIndex = FirstIndex - 1 /\ MaxIndex \in Nat /\ FirstIndex < MaxIndex
         /\ Index = FirstIndex..MaxIndex /\ NoIndex \in NoIndex..MaxIndex
         /\ Self \in Replica
         /\ commitIndex \in NoIndex..MaxIndex /\ applied[Self] \in NoIndex..MaxIndex
         /\ purged \in NoIndex..MaxIndex /\ last \in NoIndex..MaxIndex
         /\ commitIndex \in Int /\ applied[Self] \in Int /\ purged \in Int /\ last \in Int
         /\ \A c \in Client : calls[c] \in Call /\ calls[c].index \in Int
<1>1. IInv /\ NodeTyped /\ LogHolds /\ GroupFormed /\ LeadershipKnown /\ CallsLogged
  BY DEF NodeIInv
<1>2. /\ FirstIndex \in {0, 1} /\ NoIndex = FirstIndex - 1 /\ MaxIndex \in Nat /\ FirstIndex < MaxIndex
      /\ Index = FirstIndex..MaxIndex /\ NoIndex \in NoIndex..MaxIndex
  BY FirstIndexAssumption, MaxIndexAssumption, RoomAssumption DEF NoIndex, Index
<1>3. Self \in Replica
  BY SelfAssumption
<1>4. commitIndex \in NoIndex..MaxIndex /\ applied[Self] \in NoIndex..MaxIndex
  BY <1>1, <1>3 DEF IInv, TypeOK
<1>5. purged \in NoIndex..MaxIndex /\ last \in NoIndex..MaxIndex
  BY <1>1, Zenon DEF NodeTyped
<1>6. \A c \in Client : calls[c] \in Call /\ calls[c].index \in Int
  <2>1. \A c \in Client : calls[c] \in Call
    BY <1>1, Zenon DEF NodeTyped
  <2>2. \A x \in Call : x.index \in NoIndex..MaxIndex
    BY Zenon DEF Call
  <2>3. \A i \in NoIndex..MaxIndex : i \in Int
    BY <1>2, SMTT(30), Z3
  <2> QED
    BY <2>1, <2>2, <2>3
<1> QED
  BY <1>1, <1>2, <1>3, <1>4, <1>5, <1>6

\* A call that a step does not touch stays logged and answered.
LEMMA CallKept ==
  ASSUME NodeIInv, NEW c \in Client, calls'[c] = calls[c],
         last' \in Int, last <= last', applied'[Self] \in Int, applied[Self] <= applied'[Self],
         \A i \in Index : i <= last => Logged(i)' = Logged(i) /\ replies[i] \subseteq replies'[i]
  PROVE  CallLogged(c)'
<1>1. /\ CallLogged(c) /\ calls[c].index \in Int /\ last \in Int /\ applied[Self] \in Int
  BY NodeFacts, SMT, Z3 DEF CallsLogged
<1> DEFINE i == calls[c].index
<1>2. calls'[c].index = i /\ i <= last'
  BY <1>1, SMT, Z3 DEF CallLogged
<1>3. calls[c].at \in {"logged", "ok"} => i \in Index /\ calls[c].op = Logged(i)'
  BY <1>1, SMT, Z3 DEF CallLogged
<1>4. calls[c].at = "ok" => i <= applied'[Self] /\ calls[c].answer \in replies'[i]
  BY <1>1, SMT, Z3 DEF CallLogged
<1>5. calls[c].at \in {"none", "sent"} => i = NoIndex
  BY <1>1 DEF CallLogged
<1> QED
  BY <1>2, <1>3, <1>4, <1>5, Zenon DEF CallLogged, Logged

\* append of one entry after the last.
LEMMA AppendOne ==
  ASSUME NodeIInv, last < MaxIndex, NEW p, ML!Append([i \in {last + 1} |-> p])
  PROVE  /\ last' = last + 1 /\ last + 1 \in Index
         /\ log' = [i \in Index |-> IF i = last + 1 THEN p ELSE log[i]]
         /\ vote' = vote /\ purged' = purged
<1> DEFINE b == [i \in {last + 1} |-> p]
<1>1. FirstIndex \in {0, 1} /\ NoIndex = FirstIndex - 1 /\ MaxIndex \in Nat /\ last \in NoIndex..MaxIndex
  BY NodeFacts
<1>2. DOMAIN b = {last + 1} /\ {last + 1} = (last + 1)..(last + 1) /\ b[last + 1] = p
  BY <1>1
<1>3. last + 1 \in Index
  BY <1>1 DEF Index
<1>4. last' = last + 1
  <2>1. last' = CHOOSE n \in FirstIndex..MaxIndex : DOMAIN b = (last + 1)..n /\ last < n
    BY DEF ML!Append, ML!LS!LastOf, ML!LS!Index
  <2>2. \A n \in FirstIndex..MaxIndex : {last + 1} = (last + 1)..n /\ last < n => n = last + 1
    BY <1>1
  <2> HIDE DEF b
  <2> QED
    BY <1>1, <1>2, <1>3, <2>1, <2>2 DEF Index
<1>5. log' = [i \in Index |-> IF i = last + 1 THEN p ELSE log[i]]
  BY <1>2 DEF ML!Append, ML!Index, Index
<1> QED
  BY <1>3, <1>4, <1>5, Zenon DEF ML!Append

LEMMA NodeInitIInv == NodeInit => NodeIInv
<1> SUFFICES ASSUME NodeInit PROVE NodeIInv
  OBVIOUS
<1> USE FirstIndexAssumption, MaxIndexAssumption, RoomAssumption, SelfAssumption
<1>1. IInv
  BY InitIInv DEF NodeInit
<1>2. Garbage \in Payload /\ NotCalled \in Call
  BY DEF Payload, NotCalled, Call, NoIndex
<1>3. NodeTyped
  <2>1. log \in [Index -> Payload \cup {NoEntry}] /\ purged = NoIndex /\ last = NoIndex
    BY DEF NodeInit, ML!Init, ML!Index, ML!NoIndex, NoIndex, Index
  <2>2. NoIndex \in NoIndex..MaxIndex
    BY DEF NoIndex
  <2>3. calls \in [Client -> Call]
    BY <1>2 DEF NodeInit
  <2> QED
    BY <2>1, <2>2, <2>3, Zenon DEF NodeInit, NodeTyped
<1>4. LogHolds
  BY DEF NodeInit, Init, ML!Init, ML!NoIndex, NoIndex, LogHolds
<1>5. \A c \in Client : calls[c] = NotCalled
  BY DEF NodeInit
<1>6. GroupFormed
  <2>1. log = [i \in Index |-> NoEntry] /\ last = NoIndex /\ vote = NoVote
    BY DEF NodeInit, ML!Init, ML!NoIndex, ML!Index, NoIndex, Index
  <2>2. commitIndex = NoIndex /\ failed = {}
    BY DEF NodeInit, Init
  <2> QED
    BY <1>5, <2>1, <2>2, Zenon DEF NodeInit, GroupFormed, NotCalled
<1>7. LeadershipKnown
  BY <1>5, Zenon DEF NodeInit, LeadershipKnown, NotCalled
<1>8. CallsLogged
  <2>1. last = NoIndex /\ NoIndex \in Int
    BY DEF NodeInit, ML!Init, ML!NoIndex, NoIndex
  <2>2. NotCalled.at = "none" /\ NotCalled.index = NoIndex
    BY DEF NotCalled
  <2> QED
    BY <1>5, <2>1, <2>2 DEF CallsLogged, CallLogged, OwnIndex
<1> QED
  BY <1>1, <1>3, <1>4, <1>6, <1>7, <1>8, SMTT(30), Z3 DEF NodeIInv

\* Steps that leave the state machine alone.
LEMMA MachineUnchanged == IInv /\ UNCHANGED vars => IInv'
BY StepIInv

LEMMA NewStep ==
  ASSUME NodeIInv, NEW peers, New(peers)
  PROVE  NodeIInv'
<1>0. /\ IInv /\ NodeTyped /\ LogHolds /\ GroupFormed /\ LeadershipKnown /\ CallsLogged
      /\ FirstIndex \in {0, 1} /\ NoIndex = FirstIndex - 1 /\ MaxIndex \in Nat /\ FirstIndex < MaxIndex
      /\ Index = FirstIndex..MaxIndex
      /\ applied[Self] \in NoIndex..MaxIndex /\ purged \in NoIndex..MaxIndex
      /\ applied[Self] \in Int /\ last \in Int
  BY NodeFacts
<1>1. /\ created = "none" /\ created' = IF peers = {} THEN "alone" ELSE "with peers"
      /\ UNCHANGED vars /\ leader' = leader /\ current_leader' = current_leader
      /\ calls' = calls /\ waiter' = waiter
  BY Zenon DEF New
<1>2. /\ committed' = committed /\ commitIndex' = commitIndex /\ applied' = applied
      /\ failed' = failed /\ built' = built /\ replies' = replies
  BY <1>1, Zenon DEF vars
<1>3. IInv'
  BY <1>0, <1>1, MachineUnchanged, Zenon
<1>4. /\ ~leader /\ ~current_leader /\ waiter # "ok" /\ last = NoIndex /\ vote = NoVote
      /\ commitIndex = NoIndex /\ failed = {}
      /\ \A c \in Client : calls[c].at \notin {"logged", "ok"}
  BY <1>0, <1>1, Zenon DEF GroupFormed
<1>5. LeadershipKnown'
  BY <1>0, <1>1, <1>2, Zenon DEF LeadershipKnown, Stopped
<1>6. CASE peers = {}
  <2>1. PICK m \in MembershipEntry : ML!Append([i \in {last + 1} |-> m])
    BY <1>0, <1>4, <1>6 DEF New
  <2>2. /\ last' = last + 1 /\ last + 1 \in Index
        /\ log' = [i \in Index |-> IF i = last + 1 THEN m ELSE log[i]]
        /\ vote' = vote /\ purged' = purged
    <3>1. last < MaxIndex
      BY <1>0, <1>4
    <3> QED
      BY <2>1, <3>1, AppendOne, Zenon
  <2>3. m \in Payload
    BY SMT, Z3 DEF Payload
  <2>4. NodeTyped'
    BY <1>0, <1>1, <1>6, <2>2, <2>3 DEF NodeTyped
  <2>5. LogHolds'
    <3>1. /\ purged <= applied[Self] /\ applied[Self] <= commitIndex /\ commitIndex <= last'
          /\ \A i \in (purged + 1)..commitIndex : log'[i] = committed[i]
          /\ \A s \in built : s.last <= applied[Self]
      BY <1>0, <1>4, <2>2, SMT, Z3 DEF LogHolds
    <3>2. \A i \in (purged + 1)..last' : log'[i] \in Payload
      BY <1>0, <1>4, <2>2, <2>3 DEF LogHolds
    <3> QED
      BY <1>2, <2>2, <3>1, <3>2, Zenon DEF LogHolds
  <2>6. GroupFormed'
    <3>1. last' = FirstIndex /\ FirstIndex <= last'
      BY <1>0, <1>4, <2>2
    <3> QED
      BY <1>1, <1>6, <3>1, Zenon DEF GroupFormed
  <2>7. CallsLogged'
    <3>1. \A i \in Index : i <= last => Logged(i)' = Logged(i) /\ replies[i] \subseteq replies'[i]
      BY <1>0, <1>2, <1>4, <2>2, Zenon DEF Logged
    <3>2. \A c \in Client : CallLogged(c)'
      <4>1. last' \in Int /\ last <= last' /\ applied'[Self] = applied[Self]
        BY <1>0, <1>2, <2>2
      <4> SUFFICES ASSUME NEW c \in Client PROVE CallLogged(c)'
        BY SMTT(30), Z3
      <4>2. applied'[Self] \in Int /\ applied[Self] <= applied'[Self]
        BY <4>1, NodeFacts
      <4>3. calls'[c] = calls[c]
        BY <1>1, Zenon
      <4> QED
        BY <3>1, <4>1, <4>2, <4>3, CallKept, Zenon
    <3> QED
      BY <1>0, <1>1, <3>2, Zenon DEF CallsLogged, OwnIndex
  <2> QED
    BY <1>3, <1>5, <2>4, <2>5, <2>6, <2>7, Zenon DEF NodeIInv
<1>7. CASE peers # {}
  <2>1. UNCHANGED logVars
    BY <1>7, Zenon DEF New
  <2>2. log' = log /\ last' = last /\ vote' = vote /\ purged' = purged
    BY <2>1, SMTT(30), Z3 DEF logVars
  <2>3. NodeTyped' /\ LogHolds' /\ CallsLogged'
    BY <1>0, <1>1, <1>2, <1>7, <2>2, Zenon DEF NodeTyped, LogHolds, CallsLogged, CallLogged, Logged, OwnIndex
  <2>4. GroupFormed'
    BY <1>0, <1>1, <1>2, <1>7, <2>2, Zenon DEF GroupFormed
  <2> QED
    BY <1>3, <1>5, <2>3, <2>4 DEF NodeIInv
<1> QED
  BY <1>6, <1>7, SMT, Z3

\* The log and the state machine as a step leaves them when it only appends.
LEMMA AppendKeeps ==
  ASSUME NodeIInv, last < MaxIndex, NEW p \in Payload, ML!Append([i \in {last + 1} |-> p]), UNCHANGED vars
  PROVE  /\ IInv' /\ LogHolds'
         /\ log' \in [Index -> Payload \cup {NoEntry}] /\ purged' \in NoIndex..MaxIndex
         /\ last' = last + 1 /\ last' \in Index /\ last' \in NoIndex..MaxIndex
         /\ \A i \in Index : i <= last => Logged(i)' = Logged(i)
         /\ \A i \in Index : i = last + 1 => Logged(i)' = p
<1>0. /\ IInv /\ NodeTyped /\ LogHolds
      /\ FirstIndex \in {0, 1} /\ NoIndex = FirstIndex - 1 /\ MaxIndex \in Nat
      /\ Index = FirstIndex..MaxIndex /\ commitIndex \in Int /\ applied[Self] \in Int
      /\ purged \in NoIndex..MaxIndex /\ last \in NoIndex..MaxIndex
  BY NodeFacts
<1>1. /\ committed' = committed /\ commitIndex' = commitIndex /\ applied' = applied /\ built' = built
  BY DEF vars
<1>2. /\ last' = last + 1 /\ last + 1 \in Index
      /\ log' = [i \in Index |-> IF i = last + 1 THEN p ELSE log[i]]
      /\ purged' = purged
  BY AppendOne, Zenon
<1>3. IInv'
  BY <1>0, MachineUnchanged
<1>4. log' \in [Index -> Payload \cup {NoEntry}]
  BY <1>0, <1>2, Zenon DEF NodeTyped
<1>5. LogHolds'
  <2>1. /\ purged <= applied[Self] /\ applied[Self] <= commitIndex /\ commitIndex <= last'
        /\ \A i \in (purged + 1)..commitIndex : log'[i] = committed[i]
        /\ \A s \in built : s.last <= applied[Self]
    BY <1>0, <1>2, SMTT(30), Z3 DEF LogHolds
  <2>2. \A i \in (purged + 1)..last' : log'[i] \in Payload
    BY <1>0, <1>2 DEF LogHolds
  <2> QED
    BY <1>1, <1>2, <2>1, <2>2, Zenon DEF LogHolds
<1>6. last' \in NoIndex..MaxIndex
  BY <1>0, <1>2, SMTT(30), Z3
<1>7. \A i \in Index : i <= last => Logged(i)' = Logged(i)
  BY <1>0, <1>1, <1>2, SMTT(30), Z3 DEF Logged
<1>8. \A i \in Index : i = last + 1 => Logged(i)' = p
  BY <1>0, <1>1, <1>2 DEF Logged, LogHolds
<1> QED
  BY <1>0, <1>2, <1>3, <1>4, <1>5, <1>6, <1>7, <1>8, SMTT(30), Z3

LEMMA BecomeLeaderStep ==
  ASSUME NodeIInv, BecomeLeader
  PROVE  NodeIInv'
<1>0. /\ NodeTyped /\ GroupFormed /\ LeadershipKnown /\ CallsLogged
      /\ FirstIndex \in {0, 1} /\ NoIndex = FirstIndex - 1 /\ MaxIndex \in Nat /\ FirstIndex < MaxIndex
      /\ Index = FirstIndex..MaxIndex /\ last \in Int /\ applied[Self] \in Int
  BY NodeFacts
<1>1. /\ vote = Self /\ ~leader /\ ML!Append([i \in {last + 1} |-> Blank])
      /\ leader' = TRUE /\ UNCHANGED vars /\ created' = created /\ current_leader' = current_leader
      /\ calls' = calls /\ waiter' = waiter
  BY DEF BecomeLeader
<1>2. applied' = applied /\ replies' = replies /\ failed' = failed
  BY <1>1, SMTT(30), Z3 DEF vars
<1>3. created = "alone" /\ last = FirstIndex
  BY <1>0, <1>1, NoVoteAssumption, Zenon DEF GroupFormed, NodeTyped
<1>4. Blank \in Payload /\ last < MaxIndex
  BY <1>0, <1>3, SMTT(30), Z3 DEF Payload
<1>5. /\ IInv' /\ LogHolds'
      /\ log' \in [Index -> Payload \cup {NoEntry}] /\ purged' \in NoIndex..MaxIndex
      /\ last' = last + 1 /\ last' \in NoIndex..MaxIndex
      /\ \A i \in Index : i <= last => Logged(i)' = Logged(i)
  BY <1>1, <1>4, AppendKeeps, Zenon
<1>6. NodeTyped'
  BY <1>0, <1>1, <1>5, Zenon DEF NodeTyped
<1>7. GroupFormed'
  <2>1. FirstIndex <= last'
    BY <1>0, <1>3, <1>5
  <2> QED
    BY <1>1, <1>3, <2>1, Zenon DEF GroupFormed
<1>8. LeadershipKnown'
  BY <1>0, <1>1, <1>2, Zenon DEF LeadershipKnown, Stopped
<1>9. CallsLogged'
  <2>1. ASSUME NEW c \in Client PROVE CallLogged(c)'
    <3>1. /\ calls'[c] = calls[c] /\ last' \in Int /\ last <= last'
          /\ applied'[Self] \in Int /\ applied[Self] <= applied'[Self]
      BY <1>0, <1>1, <1>2, <1>5, SMTT(30), Z3
    <3>2. \A i \in Index : i <= last => Logged(i)' = Logged(i) /\ replies[i] \subseteq replies'[i]
      BY <1>2, <1>5, Zenon
    <3> QED
      BY <3>1, <3>2, CallKept, Zenon
  <2>2. OwnIndex'
    BY <1>0, <1>1 DEF CallsLogged, OwnIndex
  <2> QED
    BY <2>1, <2>2, Zenon DEF CallsLogged
<1> QED
  BY <1>5, <1>6, <1>7, <1>8, <1>9, SMTT(30), Z3 DEF NodeIInv

LEMMA ElectStep ==
  ASSUME NodeIInv, Elect
  PROVE  NodeIInv'
<1>0. /\ IInv /\ NodeTyped /\ LogHolds /\ GroupFormed /\ LeadershipKnown /\ CallsLogged
      /\ FirstIndex \in {0, 1} /\ NoIndex = FirstIndex - 1
  BY NodeFacts
<1>1. last = FirstIndex /\ UNCHANGED vars /\ UNCHANGED nodeVars /\ log' = log /\ purged' = purged /\ last' = last
  BY DEF Elect, ML!SaveVote
<1>2. /\ created' = created /\ leader' = leader /\ current_leader' = current_leader
      /\ calls' = calls /\ waiter' = waiter
  BY <1>1 DEF nodeVars
<1>3. /\ committed' = committed /\ commitIndex' = commitIndex /\ applied' = applied
      /\ failed' = failed /\ built' = built /\ replies' = replies
  BY <1>1 DEF vars
<1>4. created = "alone"
  BY <1>0, <1>1 DEF GroupFormed
<1>5. IInv'
  BY <1>0, <1>1, MachineUnchanged, Zenon
<1>6. GroupFormed'
  BY <1>0, <1>1, <1>2, <1>4, SMTT(30), Z3 DEF GroupFormed
<1>7. NodeTyped' /\ LogHolds'
  BY <1>0, <1>1, <1>2, <1>3, Zenon DEF NodeTyped, LogHolds
<1>8. LeadershipKnown' /\ CallsLogged'
  BY <1>0, <1>1, <1>2, <1>3, Zenon DEF LeadershipKnown, CallsLogged, CallLogged, OwnIndex, Logged, Stopped
<1> QED
  BY <1>5, <1>6, <1>7, <1>8 DEF NodeIInv

-----------------------------------------------------------------------------
\* Steps that touch neither the log nor the state machine.

LEMMA QuietFacts ==
  ASSUME NodeIInv, UNCHANGED <<vars, logVars>>
  PROVE  /\ IInv' /\ LogHolds' /\ Stopped' = Stopped
         /\ log' = log /\ vote' = vote /\ purged' = purged /\ last' = last
         /\ commitIndex' = commitIndex /\ failed' = failed /\ applied' = applied /\ replies' = replies
         /\ \A i \in Index : Logged(i)' = Logged(i)
<1>1. /\ committed' = committed /\ commitIndex' = commitIndex /\ applied' = applied
      /\ failed' = failed /\ built' = built /\ replies' = replies
      /\ log' = log /\ vote' = vote /\ purged' = purged /\ last' = last
  BY DEF vars, logVars
<1>2. UNCHANGED vars
  BY Zenon
<1>3. IInv' /\ LogHolds'
  BY <1>1, <1>2, NodeFacts, MachineUnchanged, Zenon DEF LogHolds
<1> QED
  BY <1>1, <1>3, Zenon DEF Stopped, Logged

\* A client's call moves on; its index stays, and so do the other calls.
LEMMA CallMoves ==
  ASSUME NodeIInv, UNCHANGED <<vars, logVars, created, leader, current_leader, waiter>>,
         NEW c \in Client, NEW x \in Call, calls' = [calls EXCEPT ![c] = x],
         x.index = calls[c].index, CallLogged(c)',
         created # "alone" => x.at \notin {"logged", "ok"},
         x.waited => leader \/ Stopped,
         x.waited /\ x.at = "err" => Stopped
  PROVE  NodeIInv'
<1>0. /\ NodeTyped /\ GroupFormed /\ LeadershipKnown /\ CallsLogged /\ last \in Int /\ applied[Self] \in Int
      /\ Index = FirstIndex..MaxIndex
  BY NodeFacts, Zenon
<1>1. /\ IInv' /\ LogHolds' /\ Stopped' = Stopped
      /\ log' = log /\ vote' = vote /\ purged' = purged /\ last' = last
      /\ commitIndex' = commitIndex /\ failed' = failed /\ applied' = applied /\ replies' = replies
      /\ \A i \in Index : Logged(i)' = Logged(i)
  BY QuietFacts
<1>2. /\ created' = created /\ leader' = leader /\ current_leader' = current_leader /\ waiter' = waiter
  BY SMTT(30), Z3
<1>3. calls' \in [Client -> Call] /\ calls'[c] = x /\ \A d \in Client \ {c} : calls'[d] = calls[d]
  BY <1>0, Zenon DEF NodeTyped
<1>4. NodeTyped'
  BY <1>0, <1>1, <1>2, <1>3, Zenon DEF NodeTyped
<1>5. GroupFormed'
  BY <1>0, <1>1, <1>2, <1>3, SMTT(30), Z3 DEF GroupFormed
<1>6. LeadershipKnown'
  <2>1. ASSUME NEW d \in Client PROVE /\ calls'[d].waited => leader \/ Stopped
                                      /\ calls'[d].waited /\ calls'[d].at = "err" => Stopped
    BY <1>0, <1>3 DEF LeadershipKnown
  <2> QED
    BY <1>0, <1>1, <1>2, <2>1, SMTT(30), Z3 DEF LeadershipKnown
<1>7. ASSUME NEW d \in Client PROVE CallLogged(d)'
  <2>1. CASE d = c
    BY <2>1, Zenon
  <2>2. CASE d # c
    <3>1. /\ calls'[d] = calls[d] /\ last' \in Int /\ last <= last'
          /\ applied'[Self] \in Int /\ applied[Self] <= applied'[Self]
      BY <1>0, <1>1, <1>3, <2>2, SMTT(30), Z3
    <3>2. \A i \in Index : i <= last => Logged(i)' = Logged(i) /\ replies[i] \subseteq replies'[i]
      BY <1>1, Zenon
    <3> QED
      BY <3>1, <3>2, CallKept, Zenon
  <2> QED
    BY <2>1, <2>2
<1>8. OwnIndex'
  <2>1. \A d \in Client : calls'[d].index = calls[d].index
    BY <1>3, SMTT(30), Z3
  <2> QED
    BY <1>0, <2>1, SMTT(30), Z3 DEF CallsLogged, OwnIndex
<1> QED
  BY <1>1, <1>4, <1>5, <1>6, <1>7, <1>8, Zenon DEF NodeIInv, CallsLogged

LEMMA ProposeStep ==
  ASSUME NodeIInv, NEW c \in Client, NEW op \in Proposal, Propose(c, op)
  PROVE  NodeIInv'
<1>1. PICK w \in BOOLEAN : w = (waiter = "ok")
  BY Zenon
<1> DEFINE x == [NotCalled EXCEPT !.at = "sent", !.op = op, !.waited = w]
<1>2. /\ NodeTyped /\ LeadershipKnown /\ NoIndex \in NoIndex..MaxIndex /\ last \in NoIndex..MaxIndex
      /\ NoIndex \in Int /\ last \in Int /\ FirstIndex \in {0, 1} /\ calls[c] \in Call
  BY NodeFacts
<1>3. /\ UNCHANGED <<vars, logVars, created, leader, current_leader, waiter>>
      /\ calls[c] = NotCalled /\ calls' = [calls EXCEPT ![c] = x]
  BY <1>1 DEF Propose
<1>4. op \in Payload
  BY ProposalAssumption DEF Payload
<1>5. NotCalled.index = NoIndex
  BY DEF NotCalled
<1>6. x \in Call /\ x.index = NoIndex /\ x.at = "sent" /\ x.waited = w /\ calls[c].index = NoIndex
  BY <1>2, <1>3, <1>4, <1>5, Zenon DEF Call
<1> HIDE DEF x
<1>7. calls'[c] = x /\ last' = last
  BY <1>2, <1>3, Zenon DEF NodeTyped, logVars
<1>8. CallLogged(c)'
  <2>1. calls'[c].index = NoIndex /\ calls'[c].at = "sent" /\ NoIndex <= last'
    BY <1>2, <1>6, <1>7, SMTT(30), Z3
  <2> QED
    BY <2>1, Zenon DEF CallLogged
<1>9. x.waited => leader \/ Stopped
  BY <1>2, <1>6, <1>1, Zenon DEF LeadershipKnown
<1> QED
  BY <1>3, <1>6, <1>8, <1>9, CallMoves, Zenon

LEMMA AnswerClientStep ==
  ASSUME NodeIInv, NEW c \in Client, AnswerClient(c)
  PROVE  NodeIInv'
<1>0. /\ IInv /\ NodeTyped /\ GroupFormed /\ LeadershipKnown /\ CallLogged(c) /\ calls[c] \in Call
      /\ last \in Int /\ calls[c].index \in Int
  BY NodeFacts DEF CallsLogged
<1>1. /\ UNCHANGED <<vars, logVars, created, leader, current_leader, waiter>>
      /\ calls[c].at = "logged" /\ calls[c].index <= applied[Self]
  BY DEF AnswerClient
<1>2. PICK answer \in replies[calls[c].index] : calls' = [calls EXCEPT ![c].at = "ok", ![c].answer = answer]
  BY Zenon DEF AnswerClient
<1> DEFINE x == [calls[c] EXCEPT !.at = "ok", !.answer = answer]
<1>3. calls' = [calls EXCEPT ![c] = x]
  BY <1>0, <1>2, Zenon DEF NodeTyped
<1>4. calls[c].index \in Index
  BY <1>0, <1>1 DEF CallLogged
<1>5. answer \in {"", "OK", "0", "1"}
  <2>1. answer = AnswerOf(committed, calls[c].index)
    BY <1>0, <1>4 DEF IInv, Answers
  <2> QED
    BY <2>1, Zenon DEF AnswerOf
<1>6. /\ x \in Call /\ x.index = calls[c].index /\ x.at = "ok" /\ x.op = calls[c].op
      /\ x.answer = answer /\ x.waited = calls[c].waited
  BY <1>0, <1>5, Zenon DEF Call
<1>7. calls'[c] = x
  BY <1>0, <1>3, Zenon DEF NodeTyped
<1>8. CallLogged(c)'
  <2>1. /\ last' = last /\ applied' = applied /\ replies' = replies
        /\ \A i \in Index : Logged(i)' = Logged(i)
    BY <1>1, QuietFacts, Zenon
  <2>2. /\ calls'[c].index = calls[c].index /\ calls'[c].at = "ok" /\ calls'[c].op = calls[c].op
        /\ calls'[c].answer = answer
    BY <1>6, <1>7, Zenon
  <2>3. calls'[c].index <= last' /\ calls'[c].index \in Index /\ calls'[c].index <= applied'[Self]
    BY <1>0, <1>1, <1>4, <2>1, <2>2, SMTT(30), Z3 DEF CallLogged
  <2>4. calls[c].op = Logged(calls[c].index)
    BY <1>0, <1>1, Zenon DEF CallLogged
  <2>5. PICK i \in Index : i = calls[c].index /\ Logged(i)' = calls[c].op
    BY <1>4, <2>1, <2>4, SMTT(30), Z3
  <2>6. calls'[c].op = Logged(calls[c].index)'
    BY <2>2, <2>5 DEF Logged
  <2>7. calls'[c].answer \in replies'[calls'[c].index]
    BY <1>2, <2>1, <2>2, Zenon
  <2> QED
    BY <2>2, <2>3, <2>6, <2>7, Zenon DEF CallLogged
<1>9. created = "alone"
  BY <1>0, <1>1 DEF GroupFormed
<1>10. x.waited => leader \/ Stopped
  BY <1>0, <1>6 DEF LeadershipKnown
<1> HIDE DEF x
<1> QED
  BY <1>1, <1>3, <1>6, <1>8, <1>9, <1>10, CallMoves, Zenon

\* A call fails: the core refuses it because it does not lead, or has stopped.
LEMMA CallFails ==
  ASSUME NodeIInv, NEW c \in Client, UNCHANGED <<vars, logVars, created, leader, current_leader, waiter>>,
         calls' = [calls EXCEPT ![c].at = "err"],
         Stopped \/ ~calls[c].waited
  PROVE  NodeIInv'
<1>0. /\ NodeTyped /\ LeadershipKnown /\ CallLogged(c) /\ calls[c] \in Call
  BY NodeFacts DEF CallsLogged
<1> DEFINE x == [calls[c] EXCEPT !.at = "err"]
<1>1. calls' = [calls EXCEPT ![c] = x]
  BY <1>0, Zenon DEF NodeTyped
<1>2. x \in Call /\ x.index = calls[c].index /\ x.at = "err" /\ x.waited = calls[c].waited
  BY <1>0, Zenon DEF Call
<1>3. calls'[c] = x /\ last' = last
  BY <1>0, <1>1, Zenon DEF NodeTyped, logVars
<1>4. CallLogged(c)'
  BY <1>0, <1>2, <1>3, Zenon DEF CallLogged
<1>5. x.waited => leader \/ Stopped
  BY <1>0, <1>2 DEF LeadershipKnown
<1> HIDE DEF x
<1> QED
  BY <1>1, <1>2, <1>4, <1>5, CallMoves, Zenon

LEMMA DropClientStep ==
  ASSUME NodeIInv, NEW c \in Client, DropClient(c)
  PROVE  NodeIInv'
BY CallFails, Zenon DEF DropClient

LEMMA HandleWriteStep ==
  ASSUME NodeIInv, NEW c \in Client, HandleWrite(c)
  PROVE  NodeIInv'
<1>0. /\ IInv /\ NodeTyped /\ GroupFormed /\ LeadershipKnown /\ CallsLogged /\ calls[c] \in Call
      /\ NoIndex = FirstIndex - 1 /\ FirstIndex \in {0, 1} /\ Index = FirstIndex..MaxIndex /\ MaxIndex \in Nat
      /\ last \in Int /\ applied[Self] \in Int
  BY NodeFacts
<1>1. /\ UNCHANGED vars /\ created' = created /\ leader' = leader /\ current_leader' = current_leader
      /\ waiter' = waiter /\ calls[c].at = "sent" /\ ~Stopped
  BY DEF HandleWrite
<1>2. CASE /\ leader /\ last < MaxIndex
           /\ ML!Append([i \in {last + 1} |-> calls[c].op])
           /\ calls' = [calls EXCEPT ![c].at = "logged", ![c].index = last + 1]
  <2> DEFINE x == [calls[c] EXCEPT !.at = "logged", !.index = last + 1]
  <2>1. calls' = [calls EXCEPT ![c] = x]
    BY <1>0, <1>2, Zenon DEF NodeTyped
  <2>2. calls[c].op \in Payload
    BY <1>0, Zenon DEF Call
  <2>3. /\ IInv' /\ LogHolds'
        /\ log' \in [Index -> Payload \cup {NoEntry}] /\ purged' \in NoIndex..MaxIndex
        /\ last' = last + 1 /\ last' \in Index /\ last' \in NoIndex..MaxIndex
        /\ \A i \in Index : i <= last => Logged(i)' = Logged(i)
        /\ \A i \in Index : i = last + 1 => Logged(i)' = calls[c].op
    BY <1>1, <1>2, <2>2, AppendKeeps, Zenon
  <2>4. /\ x \in Call /\ x.index = last + 1 /\ x.at = "logged" /\ x.op = calls[c].op
        /\ x.waited = calls[c].waited
    BY <1>0, <2>3, Zenon DEF Call
  <2> HIDE DEF x
  <2>5. calls' \in [Client -> Call] /\ calls'[c] = x /\ \A d \in Client \ {c} : calls'[d] = calls[d]
    BY <1>0, <2>1, <2>4, Zenon DEF NodeTyped
  <2>6. NodeTyped'
    BY <1>0, <1>1, <2>3, <2>5, Zenon DEF NodeTyped
  <2>7. failed' = failed /\ applied' = applied /\ replies' = replies
    BY <1>1 DEF vars
  <2>8. GroupFormed'
    <3>1. created = "alone"
      BY <1>0, <1>2 DEF GroupFormed
    <3> QED
      BY <1>0, <1>1, <1>2, <2>3, <3>1 DEF GroupFormed
  <2>9. LeadershipKnown'
    <3>1. ASSUME NEW d \in Client PROVE ~(calls'[d].waited /\ calls'[d].at = "err")
      <4>1. CASE d = c
        BY <2>4, <2>5, <4>1, SMTT(30), Z3
      <4>2. CASE d # c
        BY <1>0, <1>1, <2>5, <4>2, SMTT(30), Z3 DEF LeadershipKnown
      <4> QED
        BY <4>1, <4>2, Zenon
    <3> QED
      BY <1>1, <1>2, <3>1, Zenon DEF LeadershipKnown
  <2>10. ASSUME NEW d \in Client PROVE CallLogged(d)'
    <3>1. CASE d = c
      <4>1. PICK i \in Index : i = last + 1 /\ Logged(i)' = calls[c].op
        BY <2>3, Zenon
      <4>2. calls'[c].index = i /\ calls'[c].at = "logged" /\ calls'[c].op = Logged(i)'
        BY <2>4, <2>5, <4>1, Zenon
      <4>3. calls'[c].index <= last'
        BY <1>0, <2>3, <4>1, <4>2, SMTT(30), Z3
      <4> QED
        BY <3>1, <4>2, <4>3, Zenon DEF CallLogged, Logged
    <3>2. CASE d # c
      <4>1. /\ calls'[d] = calls[d] /\ last' \in Int /\ last <= last'
            /\ applied'[Self] \in Int /\ applied[Self] <= applied'[Self]
        BY <1>0, <2>3, <2>5, <2>7, <3>2, SMTT(30), Z3
      <4>2. \A i \in Index : i <= last => Logged(i)' = Logged(i) /\ replies[i] \subseteq replies'[i]
        BY <2>3, <2>7, SMTT(30), Z3
      <4> QED
        BY <4>1, <4>2, CallKept, Zenon
    <3> QED
      BY <3>1, <3>2, SMTT(30), Z3
  <2>11. OwnIndex'
    <3>1. \A d \in Client : calls[d].index <= last /\ calls[d].index \in Int
      BY <1>0, NodeFacts, Zenon DEF CallsLogged, CallLogged
    <3>2. \A d \in Client : calls'[d].index = IF d = c THEN last + 1 ELSE calls[d].index
      BY <2>4, <2>5, Zenon
    <3>3. \A d \in Client \ {c} : calls'[d].index # last + 1
      BY <1>0, <3>1, <3>2
    <3> QED
      BY <1>0, <3>2, <3>3, SMTT(30), Z3 DEF CallsLogged, OwnIndex
  <2> QED
    BY <2>3, <2>6, <2>8, <2>9, <2>10, <2>11 DEF NodeIInv, CallsLogged
<1>3. CASE ~leader /\ calls' = [calls EXCEPT ![c].at = "err"] /\ UNCHANGED logVars
  <2>1. ~calls[c].waited
    BY <1>0, <1>1, <1>3 DEF LeadershipKnown
  <2> QED
    BY <1>1, <1>3, <2>1, CallFails, Zenon
<1> QED
  BY <1>2, <1>3, Zenon DEF HandleWrite

\* wait_for_leader's steps and the metrics.
LEMMA WaitStep ==
  ASSUME NodeIInv, PublishMetrics \/ StartWait \/ Poll \/ TimeUp
  PROVE  NodeIInv'
<1>0. /\ NodeTyped /\ GroupFormed /\ LeadershipKnown /\ CallsLogged
  BY NodeFacts
<1>1. /\ UNCHANGED <<vars, logVars>> /\ created' = created /\ leader' = leader /\ calls' = calls
  BY DEF PublishMetrics, StartWait, Poll, TimeUp
<1>2. /\ IInv' /\ LogHolds' /\ Stopped' = Stopped
      /\ log' = log /\ vote' = vote /\ purged' = purged /\ last' = last
      /\ commitIndex' = commitIndex /\ failed' = failed /\ applied' = applied /\ replies' = replies
      /\ \A i \in Index : Logged(i)' = Logged(i)
  BY <1>1, QuietFacts
<1>3. /\ current_leader' \in BOOLEAN /\ (current_leader' => leader \/ Stopped)
      /\ (failed = {} /\ ~leader /\ ~current_leader => ~current_leader')
  <2>1. CASE current_leader' = current_leader
    BY <1>0, <2>1, Zenon DEF NodeTyped, LeadershipKnown
  <2>2. CASE PublishMetrics /\ Stopped
    BY <2>2 DEF PublishMetrics, Stopped
  <2>3. CASE PublishMetrics /\ ~Stopped
    <3>1. current_leader' = leader
      BY <2>3 DEF PublishMetrics
    <3> QED
      BY <1>0, <3>1, Zenon DEF NodeTyped
  <2> QED
    BY <2>1, <2>2, <2>3 DEF StartWait, Poll, TimeUp
<1>4. /\ waiter' \in {"none", "polling", "ok", "timeout"} /\ (waiter' = "ok" => leader \/ Stopped)
      /\ (~current_leader /\ waiter # "ok" => waiter' # "ok")
  BY <1>0, Zenon DEF PublishMetrics, StartWait, Poll, TimeUp, NodeTyped, LeadershipKnown, IsLeader
<1>5. NodeTyped' /\ GroupFormed' /\ LeadershipKnown'
  BY <1>0, <1>1, <1>2, <1>3, <1>4, Zenon DEF NodeTyped, GroupFormed, LeadershipKnown
<1>6. CallsLogged'
  BY <1>0, <1>1, <1>2 DEF CallsLogged, CallLogged, OwnIndex, Logged
<1> QED
  BY <1>2, <1>5, <1>6, Zenon DEF NodeIInv

-----------------------------------------------------------------------------
\* Steps of the state machine.

LEMMA CommitNextStep ==
  ASSUME NodeIInv, CommitNext
  PROVE  NodeIInv'
<1>0. /\ IInv /\ NodeTyped /\ LogHolds /\ GroupFormed /\ LeadershipKnown /\ CallsLogged
      /\ FirstIndex \in {0, 1} /\ NoIndex = FirstIndex - 1 /\ Index = FirstIndex..MaxIndex /\ MaxIndex \in Nat
      /\ commitIndex \in NoIndex..MaxIndex /\ applied[Self] \in NoIndex..MaxIndex
      /\ purged \in NoIndex..MaxIndex /\ last \in NoIndex..MaxIndex
      /\ commitIndex \in Int /\ applied[Self] \in Int /\ purged \in Int /\ last \in Int
  BY NodeFacts
<1> DEFINE c == commitIndex
           p == log[c + 1]
<1>1. /\ leader /\ c < last /\ Commit(p) /\ UNCHANGED logVars /\ UNCHANGED nodeVars
  BY Zenon DEF CommitNext
<1>2. p \in Payload
  BY <1>0, <1>1 DEF LogHolds
<1>3. IInv'
  BY <1>0, <1>1, <1>2, CommitStep
<1>4. /\ log' = log /\ vote' = vote /\ purged' = purged /\ last' = last
      /\ created' = created /\ leader' = leader /\ current_leader' = current_leader
      /\ calls' = calls /\ waiter' = waiter
  BY <1>1, Zenon DEF logVars, nodeVars
<1>5. /\ committed' = [committed EXCEPT ![c + 1] = p] /\ commitIndex' = c + 1
      /\ applied' = applied /\ failed' = failed /\ built' = built /\ replies' = replies
  BY <1>1 DEF Commit
<1>6. c + 1 \in Index /\ \A i \in Index : committed'[i] = IF i = c + 1 THEN p ELSE committed[i]
  <2>1. c + 1 \in Index /\ committed \in [Index -> Payload \cup {NoEntry}]
    BY <1>0, <1>1 DEF IInv, TypeOK
  <2> QED
    BY <1>5, <2>1, Zenon
<1>7. NodeTyped'
  BY <1>0, <1>4, Zenon DEF NodeTyped
<1>8. LogHolds'
  <2>1. \A i \in (purged + 1)..(c + 1) : log[i] = committed'[i]
    BY <1>0, <1>6, SMTT(30), Z3 DEF LogHolds
  <2> QED
    <3>1. applied[Self] <= c + 1 /\ c + 1 <= last
      BY <1>0, <1>1, SMTT(30), Z3 DEF LogHolds
    <3> QED
      BY <1>0, <1>4, <1>5, <2>1, <3>1, Zenon DEF LogHolds
<1>9. GroupFormed'
  <2>1. created = "alone"
    BY <1>0, <1>1, Zenon DEF GroupFormed
  <2> QED
    BY <1>0, <1>4, <2>1, Zenon DEF GroupFormed
<1>10. LeadershipKnown'
  BY <1>0, <1>4, <1>5, Zenon DEF LeadershipKnown, Stopped
<1>11. ASSUME NEW d \in Client PROVE CallLogged(d)'
  <2>1. \A i \in Index : i <= last => Logged(i)' = Logged(i) /\ replies[i] \subseteq replies'[i]
    BY <1>0, <1>4, <1>5, <1>6, SMTT(30), Z3 DEF Logged
  <2>2. /\ calls'[d] = calls[d] /\ last' \in Int /\ last <= last'
        /\ applied'[Self] \in Int /\ applied[Self] <= applied'[Self]
    BY <1>0, <1>4, <1>5, SMTT(30), Z3
  <2> QED
    BY <2>1, <2>2, CallKept, Zenon
<1>12. OwnIndex'
  BY <1>0, <1>4, SMTT(30), Z3 DEF CallsLogged, OwnIndex
<1> QED
  BY <1>3, <1>7, <1>8, <1>9, <1>10, <1>11, <1>12, Zenon DEF NodeIInv, CallsLogged

LEMMA ApplyBatchStep ==
  ASSUME NodeIInv, NEW n \in Index, ApplyBatch(n)
  PROVE  NodeIInv'
<1>0. /\ IInv /\ NodeTyped /\ LogHolds /\ GroupFormed /\ LeadershipKnown /\ CallsLogged
      /\ FirstIndex \in {0, 1} /\ NoIndex = FirstIndex - 1 /\ Index = FirstIndex..MaxIndex /\ MaxIndex \in Nat
      /\ Self \in Replica
      /\ applied[Self] \in NoIndex..MaxIndex /\ purged \in NoIndex..MaxIndex
      /\ commitIndex \in Int /\ applied[Self] \in Int /\ purged \in Int /\ last \in Int
  BY NodeFacts
<1>1. Apply(Self, n) /\ UNCHANGED logVars /\ UNCHANGED nodeVars
  BY DEF ApplyBatch
<1>2. IInv'
  BY <1>0, <1>1, ApplyStep
<1>3. /\ log' = log /\ vote' = vote /\ purged' = purged /\ last' = last
      /\ created' = created /\ leader' = leader /\ current_leader' = current_leader
      /\ calls' = calls /\ waiter' = waiter
  BY <1>1, SMTT(30), Z3 DEF logVars, nodeVars
<1>4. /\ committed' = committed /\ commitIndex' = commitIndex /\ built' = built
      /\ applied[Self] + 1 <= n /\ n <= commitIndex
      /\ applied' = [applied EXCEPT ![Self] = n] \/ applied' = applied
      /\ failed \subseteq failed'
      /\ \A i \in Index : replies[i] \subseteq replies'[i]
  BY <1>1, Zenon DEF Apply
<1>5. applied'[Self] \in Int /\ applied[Self] <= applied'[Self] /\ applied'[Self] <= commitIndex
  <2>1. applied'[Self] = n \/ applied'[Self] = applied[Self]
    BY <1>0, <1>4, Zenon DEF IInv, TypeOK
  <2> QED
    BY <1>0, <1>4, <2>1, SMTT(30), Z3 DEF LogHolds
<1>6. created = "alone"
  BY <1>0, <1>4, SMTT(30), Z3 DEF GroupFormed
<1>7. NodeTyped' /\ GroupFormed'
  BY <1>0, <1>3, <1>6, Zenon DEF NodeTyped, GroupFormed
<1>8. LogHolds'
  <2>1. \A s \in built : s.last \in Int
    BY <1>0, SMTT(30), Z3 DEF IInv, Snapshots
  <2> QED
    BY <1>0, <1>3, <1>4, <1>5, <2>1, SMTT(30), Z3 DEF LogHolds
<1>9. LeadershipKnown'
  BY <1>0, <1>3, <1>4, Zenon DEF LeadershipKnown, Stopped
<1>10. ASSUME NEW d \in Client PROVE CallLogged(d)'
  <2>1. \A i \in Index : i <= last => Logged(i)' = Logged(i) /\ replies[i] \subseteq replies'[i]
    BY <1>3, <1>4, Zenon DEF Logged
  <2>2. calls'[d] = calls[d] /\ last' \in Int /\ last <= last'
    BY <1>0, <1>3, SMTT(30), Z3
  <2> QED
    BY <1>5, <2>1, <2>2, CallKept, Zenon
<1>11. OwnIndex'
  BY <1>0, <1>3 DEF CallsLogged, OwnIndex
<1> QED
  BY <1>2, <1>7, <1>8, <1>9, <1>10, <1>11, Zenon DEF NodeIInv, CallsLogged

LEMMA BuildKeeps ==
  ASSUME NodeIInv, Build
  PROVE  NodeIInv'
<1>0. /\ IInv /\ NodeTyped /\ LogHolds /\ GroupFormed /\ LeadershipKnown /\ CallsLogged
      /\ Self \in Replica /\ NoIndex \in Int
      /\ applied[Self] \in NoIndex..MaxIndex /\ commitIndex \in NoIndex..MaxIndex
  BY NodeFacts
<1>1. BuildSnapshot(Self) /\ UNCHANGED logVars /\ UNCHANGED nodeVars
  BY DEF Build
<1>2. IInv'
  BY <1>0, <1>1, BuildStep
<1>3. /\ log' = log /\ vote' = vote /\ purged' = purged /\ last' = last
      /\ created' = created /\ leader' = leader /\ current_leader' = current_leader
      /\ calls' = calls /\ waiter' = waiter
  BY <1>1, Zenon DEF logVars, nodeVars
<1> DEFINE b == IF sm[Self].last_applied = 0 THEN NoIndex ELSE sm[Self].last_applied
           t == [sm |-> sm[Self], last |-> b, membership |-> NoIndex]
<1>4. /\ committed' = committed /\ commitIndex' = commitIndex /\ applied' = applied
      /\ failed' = failed /\ replies' = replies /\ built' = built \cup {t} /\ Self \notin failed
  BY <1>1, Zenon DEF BuildSnapshot
<1>5. /\ Entries /\ sm[Self] \in Machine /\ MachineAsOf(committed, sm[Self], applied[Self])
      /\ applied[Self] \in NoIndex..commitIndex
  BY <1>0, <1>4, TypeFacts, SMTT(30), Z3 DEF IInv, Replicas
<1>6. b \in NoIndex..applied[Self] /\ t.last = b
  BY <1>0, <1>5, BuildExact, Zenon
<1> HIDE DEF b, t
<1>7. LogHolds'
  <2>1. t.last <= applied[Self]
    BY <1>0, <1>6, SMTT(30), Z3
  <2> QED
    BY <1>0, <1>3, <1>4, <2>1, Zenon DEF LogHolds
<1>8. NodeTyped' /\ GroupFormed' /\ LeadershipKnown'
  BY <1>0, <1>3, <1>4, Zenon DEF NodeTyped, GroupFormed, LeadershipKnown, Stopped
<1>9. CallsLogged'
  BY <1>0, <1>3, <1>4, Zenon DEF CallsLogged, CallLogged, OwnIndex, Logged
<1> QED
  BY <1>2, <1>7, <1>8, <1>9, Zenon DEF NodeIInv

LEMMA PurgeLogStep ==
  ASSUME NodeIInv, NEW i \in Index, PurgeLog(i)
  PROVE  NodeIInv'
<1>0. /\ IInv /\ NodeTyped /\ LogHolds /\ GroupFormed /\ LeadershipKnown /\ CallsLogged
      /\ FirstIndex \in {0, 1} /\ NoIndex = FirstIndex - 1 /\ Index = FirstIndex..MaxIndex /\ MaxIndex \in Nat
      /\ commitIndex \in Int /\ applied[Self] \in Int /\ purged \in Int /\ last \in Int
  BY NodeFacts
<1>1. UNCHANGED vars /\ UNCHANGED nodeVars /\ purged < i
  BY DEF PurgeLog, ML!Purge
<1>2. i <= applied[Self] /\ i <= commitIndex /\ i <= last
  <2>1. PICK s \in built : i <= s.last
    BY Zenon DEF PurgeLog
  <2>2. s.last \in Int /\ s.last <= applied[Self] /\ applied[Self] <= commitIndex /\ commitIndex <= last
    BY <1>0, SMTT(30), Z3 DEF LogHolds, IInv, Snapshots
  <2> QED
    BY <1>0, <2>1, <2>2
<1>3. /\ log' = [j \in Index |-> IF i < j THEN log[j] ELSE NoEntry] /\ vote' = vote
      /\ purged' = i /\ last' = last
  BY <1>0, <1>2 DEF PurgeLog, ML!Purge, ML!Index, Index
<1>4. /\ created' = created /\ leader' = leader /\ current_leader' = current_leader
      /\ calls' = calls /\ waiter' = waiter
  BY <1>1 DEF nodeVars
<1>5. /\ committed' = committed /\ commitIndex' = commitIndex /\ applied' = applied
      /\ failed' = failed /\ built' = built /\ replies' = replies
  BY <1>1 DEF vars
<1>6. IInv'
  BY <1>0, <1>1, MachineUnchanged
<1>7. i \in Int /\ FirstIndex <= i /\ i \in NoIndex..MaxIndex
  BY <1>0, SMTT(30), Z3
<1>8. NodeTyped'
  <2>1. log' \in [Index -> Payload \cup {NoEntry}]
    BY <1>0, <1>3, Zenon DEF NodeTyped
  <2> QED
    BY <1>0, <1>3, <1>4, <1>7, <2>1, Zenon DEF NodeTyped
<1>9. LogHolds'
  <2>1. \A j \in (i + 1)..last : j \in Index /\ j \in (purged + 1)..last /\ log'[j] = log[j]
    <3>1. last \in NoIndex..MaxIndex
      BY NodeFacts, Zenon
    <3> QED
      BY <1>0, <1>1, <1>3, <1>7, <3>1
  <2>2. \A j \in (i + 1)..last : log'[j] \in Payload
    BY <1>0, <2>1, Zenon DEF LogHolds
  <2>3. \A j \in (i + 1)..commitIndex : j \in (i + 1)..last /\ j \in (purged + 1)..commitIndex
    BY <1>0, <1>1, <1>7, SMTT(30), Z3 DEF LogHolds
  <2>4. \A j \in (i + 1)..commitIndex : log'[j] = committed[j]
    BY <1>0, <2>1, <2>3, Zenon DEF LogHolds
  <2> QED
    BY <1>0, <1>2, <1>3, <1>5, <2>2, <2>4, Zenon DEF LogHolds
<1>10. GroupFormed'
  <2>1. created = "alone"
    <3>1. last # NoIndex
      BY <1>0, <1>2, <1>7, SMTT(30), Z3
    <3> QED
      BY <1>0, <3>1 DEF GroupFormed
  <2> QED
    BY <1>0, <1>3, <1>4, <2>1, Zenon DEF GroupFormed
<1>11. LeadershipKnown'
  BY <1>0, <1>4, <1>5, Zenon DEF LeadershipKnown, Stopped
<1>12. ASSUME NEW d \in Client PROVE CallLogged(d)'
  <2>1. \A j \in Index : j <= last => Logged(j)' = Logged(j) /\ replies[j] \subseteq replies'[j]
    BY <1>0, <1>2, <1>3, <1>5, SMTT(30), Z3 DEF Logged
  <2>2. /\ calls'[d] = calls[d] /\ last' \in Int /\ last <= last'
        /\ applied'[Self] \in Int /\ applied[Self] <= applied'[Self]
    BY <1>0, <1>3, <1>4, <1>5, SMTT(30), Z3
  <2> QED
    BY <2>1, <2>2, CallKept, Zenon
<1>13. OwnIndex'
  BY <1>0, <1>4, Zenon DEF CallsLogged, OwnIndex
<1> QED
  BY <1>6, <1>8, <1>9, <1>10, <1>11, <1>12, <1>13, Zenon DEF NodeIInv, CallsLogged

LEMMA NodeStepIInv == NodeIInv /\ [NodeNext]_allVars => NodeIInv'
<1> SUFFICES ASSUME NodeIInv, [NodeNext]_allVars PROVE NodeIInv'
  OBVIOUS
<1>1. CASE UNCHANGED allVars
  <2>1. UNCHANGED <<vars, logVars>> /\ UNCHANGED nodeVars
    BY <1>1 DEF allVars
  <2>2. IInv' /\ LogHolds' /\ UNCHANGED vars /\ UNCHANGED logVars
    BY <2>1, QuietFacts, Zenon
  <2>3. NodeTyped /\ GroupFormed /\ LeadershipKnown /\ CallsLogged
    BY NodeFacts, SMTT(30), Z3
  <2>4. NodeTyped' /\ GroupFormed' /\ LeadershipKnown' /\ CallsLogged'
    BY <2>1, <2>2, <2>3, Zenon DEF vars, logVars, nodeVars, NodeTyped, GroupFormed, LeadershipKnown,
       CallsLogged, CallLogged, OwnIndex, Logged, Stopped
  <2> QED
    BY <2>2, <2>4 DEF NodeIInv
<1>2. CASE \E peers \in {{}, {"peer"}} : New(peers)
  BY <1>2, NewStep
<1>3. CASE Elect \/ BecomeLeader \/ PublishMetrics \/ StartWait \/ Poll \/ TimeUp
  BY <1>3, ElectStep, BecomeLeaderStep, WaitStep, Zenon
<1>4. CASE \E c \in Client : \/ \E op \in Proposal : Propose(c, op)
                             \/ HandleWrite(c) \/ AnswerClient(c) \/ DropClient(c)
  BY <1>4, ProposeStep, HandleWriteStep, AnswerClientStep, DropClientStep, Zenon
<1>5. CASE CommitNext \/ Build \/ (\E n \in Index : ApplyBatch(n)) \/ (\E i \in Index : PurgeLog(i))
  BY <1>5, CommitNextStep, BuildKeeps, ApplyBatchStep, PurgeLogStep, Zenon
<1> QED
  BY <1>1, <1>2, <1>3, <1>4, <1>5, Zenon DEF NodeNext

\* Every step of a node that is alone keeps its log, its leadership and the calls of its
\* clients in step with its state machine.
THEOREM NodeAlwaysIInv == NodeSpec => []NodeIInv
BY NodeInitIInv, NodeStepIInv, PTL DEF NodeSpec

\* What the core asks try_get_log_entries for, the committed entries it has not applied,
\* is all there: purge never takes an entry apply still needs.
THEOREM UnappliedAlwaysReadable == NodeSpec => []UnappliedReadable
<1>1. NodeIInv => UnappliedReadable
  <2> SUFFICES ASSUME NodeIInv PROVE UnappliedReadable
    BY Zenon
  <2> DEFINE a == applied[Self] + 1
  <2>1. /\ LogHolds /\ IInv /\ commitIndex \in Int /\ applied[Self] \in NoIndex..MaxIndex /\ purged \in Int
        /\ applied[Self] \in Int /\ NoIndex = FirstIndex - 1 /\ FirstIndex \in {0, 1}
    BY NodeFacts, Zenon
  <2>2. \A i \in a..commitIndex : log[i] = committed[i] /\ committed[i] \in Payload
    BY <2>1, SMTT(30), Z3 DEF LogHolds, IInv, Entries
  <2>3. {j \in a..commitIndex : log[j] # NoEntry} = a..commitIndex
    BY <2>2, NoEntryAssumption, SMTT(30), Z3
  <2> QED
    BY <2>2, <2>3 DEF UnappliedReadable, ML!TryGetLogEntries
<1> QED
  BY <1>1, NodeAlwaysIInv, PTL

\* An answered proposal is in the log once, has been applied, and its answer is the
\* one the entries before it call for, however proposals were batched.
THEOREM AnswersAlwaysLinear == NodeSpec => []AnswersLinear
<1>1. NodeIInv => AnswersLinear
  <2> SUFFICES ASSUME NodeIInv, NEW c \in Client, calls[c].at = "ok"
               PROVE  LET i == calls[c].index
                          op == calls[c].op
                      IN /\ i <= applied[Self] /\ committed[i] = op
                         /\ \A d \in Client \ {c} : calls[d].index # i
                         /\ op.kind = "set" => calls[c].answer = "OK"
                         /\ op.kind = "del" =>
                              calls[c].answer = IF KeyAsOf(committed, i - 1, op.key, Missing) THEN "0" ELSE "1"
    BY Zenon DEF AnswersLinear
  <2> DEFINE i == calls[c].index
             op == calls[c].op
  <2>1. /\ IInv /\ LogHolds /\ CallLogged(c) /\ OwnIndex /\ applied[Self] \in Int /\ commitIndex \in Int
        /\ FirstIndex \in {0, 1} /\ NoIndex = FirstIndex - 1 /\ Index = FirstIndex..MaxIndex
        /\ calls[c].index \in Int
    BY NodeFacts, Zenon DEF CallsLogged
  <2>2. i \in Index /\ i <= applied[Self] /\ op = Logged(i) /\ calls[c].answer \in replies[i]
    BY <2>1, Zenon DEF CallLogged
  <2>3. i <= commitIndex /\ committed[i] = op
    BY <2>1, <2>2, SMTT(30), Z3 DEF LogHolds, Logged
  <2>4. calls[c].answer = AnswerOf(committed, i)
    BY <2>1, <2>2, Zenon DEF IInv, Answers
  <2>5. \A d \in Client \ {c} : calls[d].index # i
    <3>1. i # NoIndex
      BY <2>1, <2>2, SMTT(30), Z3
    <3> QED
      BY <2>1, <3>1, Zenon DEF OwnIndex
  <2>6. /\ op.kind = "set" => calls[c].answer = "OK"
        /\ op.kind = "del" =>
             calls[c].answer = IF KeyAsOf(committed, i - 1, op.key, Missing) THEN "0" ELSE "1"
    BY <2>3, <2>4, Zenon DEF AnswerOf
  <2> QED
    BY <2>2, <2>3, <2>5, <2>6, Zenon
<1> QED
  BY <1>1, NodeAlwaysIInv, PTL

\* After wait_for_leader has returned Ok, propose fails only on a core that has stopped.
THEOREM WaitedProposalsAlwaysAccepted == NodeSpec => []WaitedProposalsAccepted
<1>1. NodeIInv => WaitedProposalsAccepted
  BY SMTT(30), Z3 DEF NodeIInv, LeadershipKnown, WaitedProposalsAccepted
<1> QED
  BY <1>1, NodeAlwaysIInv, PTL

\* A node that new made with peers never leads, logs nothing and answers no proposal.
THEOREM JoinerAlwaysFollower == NodeSpec => []JoinerStaysFollower
<1>1. NodeIInv => JoinerStaysFollower
  BY Zenon DEF NodeIInv, GroupFormed, JoinerStaysFollower
<1> QED
  BY <1>1, NodeAlwaysIInv, PTL

=============================================================================
