-------------------------- MODULE MemStorageProofs ---------------------------
(***************************************************************************)
(* MemStorage, for any number of readers, indices and terms, under a       *)
(* driver that appends at the end of the log and sets no snapshot ahead of *)
(* it (Driver = {}).                                                       *)
(***************************************************************************)
EXTENDS MemStorage, SequenceTheorems, TLAPS

Entry == [index : 1..MaxIndex, term : 1..MaxTerm]

\* The vector: consecutive indices, no gap after the snapshot, and at each index
\* what was appended there.
LogInv ==
  /\ snapshot \in 0..MaxIndex
  /\ appended \in [1..MaxIndex -> 0..MaxTerm]
  /\ entries \in Seq(Entry)
  /\ \A p \in 1..Len(entries) :
       /\ entries[p].index = entries[1].index + p - 1
       /\ entries[p].term = appended[entries[p].index]
  /\ entries # <<>> => entries[1].index <= snapshot + 1

CallFields == {"at", "low", "high", "max", "res", "got"}

CallShape ==
  /\ DOMAIN call = Reader
  /\ \A r \in Reader : DOMAIN call[r] = CallFields

\* A configuration is at least the one stored with any commit index, and a reader
\* between its two reads holds a commit index that has been stored.
ConfInv ==
  /\ hard_state \in 0..MaxIndex
  /\ conf_state \in 0..MaxIndex
  /\ confAt \in [0..MaxIndex -> 0..MaxIndex]
  /\ \A i \in 0..MaxIndex : confAt[i] <= conf_state
  /\ \A r \in Reader :
       /\ call[r].at \in {"conf", "initial"} => call[r].low \in 0..hard_state
       /\ call[r].at = "initial" => call[r].high >= confAt[call[r].low]

Wanted(c) == IF c.max < c.high - c.low THEN c.max ELSE c.high - c.low

\* A call that has asked for the last index holds a range of the log, or one that a
\* snapshot has overtaken.
RangeCall(c, last, snap, app) ==
  /\ c.at = "last" => c.low \in Nat \ {0}
  /\ c.at \in {"entries", "read"} =>
       c.low \in Nat \ {0} /\ c.high \in Nat /\ c.low < c.high /\ c.high <= last + 1
  /\ c.at = "read" =>
       /\ c.max \in Nat
       /\ c.res = "ok" =>
            c.got = [p \in 1..Wanted(c) |-> [index |-> c.low + p - 1, term |-> app[c.low + p - 1]]]
       /\ c.res # "ok" => c.res # "panic" /\ c.low <= snap

RangeInv == \A r \in Reader : RangeCall(call[r], LastIndex, snapshot, appended)

-----------------------------------------------------------------------------
\* The vector of entries.

\* What append leaves: the vector it extends, and the last index moved by n.
LEMMA AppendEffect ==
  ASSUME LogInv, Driver = {}, NEW n \in 1..2, NEW t \in 1..MaxTerm, AppendEntries(n, t)
  PROVE  /\ LastIndex \in Nat /\ LastIndex + n <= MaxIndex
         /\ entries' \in Seq(Entry)
         /\ Len(entries') = Len(entries) + n
         /\ \A p \in 1..Len(entries) : entries'[p] = entries[p]
         /\ \A p \in 1..n : entries'[Len(entries) + p] = [index |-> LastIndex + p, term |-> t]
         /\ appended' = [i \in 1..MaxIndex |->
                           IF i \in (LastIndex + 1)..(LastIndex + n) THEN t ELSE appended[i]]
         /\ UNCHANGED <<hard_state, conf_state, snapshot, confAt, call>>
<1> DEFINE new == [i \in 1..n |-> [index |-> LastIndex + i, term |-> t]]
<1>1. entries \in Seq(Entry) /\ Len(entries) \in Nat
  BY DEF LogInv
<1>2. LastIndex \in Nat
  <2>1. CASE entries = <<>>
    BY <2>1 DEF LastIndex, LogInv
  <2>2. CASE entries # <<>>
    <3>1. entries[Len(entries)] \in Entry
      BY <1>1, <2>2
    <3> QED
      BY <3>1, <2>2 DEF LastIndex, Entry
  <2> QED
    BY <2>1, <2>2
<1>3. /\ LastIndex + n <= MaxIndex
      /\ entries' = entries \o new
      /\ appended' = [i \in 1..MaxIndex |->
                        IF i \in (LastIndex + 1)..(LastIndex + n) THEN t ELSE appended[i]]
      /\ UNCHANGED <<hard_state, conf_state, snapshot, confAt, call>>
  <2>1. PICK first \in {LastIndex + 1} :
          /\ first + n - 1 <= MaxIndex
          /\ entries' = entries \o [i \in 1..n |-> [index |-> first + i - 1, term |-> t]]
          /\ appended' = [i \in 1..MaxIndex |-> IF i \in first..(first + n - 1) THEN t ELSE appended[i]]
          /\ UNCHANGED <<hard_state, conf_state, snapshot, confAt, call>>
    BY DEF AppendEntries
  <2>2. \A i \in 1..n : (LastIndex + 1) + i - 1 = LastIndex + i
    BY <1>2
  <2>3. [i \in 1..n |-> [index |-> (LastIndex + 1) + i - 1, term |-> t]] = new
    BY <2>2
  <2>4. (LastIndex + 1) + n - 1 = LastIndex + n
    BY <1>2
  <2> QED
    BY <2>1, <2>3, <2>4
<1>4. new \in Seq(Entry) /\ Len(new) = n
  <2>1. \A i \in 1..n : new[i] \in Entry
    BY <1>2, <1>3, BoundsAssumption DEF Entry
  <2>2. new \in [1..n -> Entry]
    BY <2>1
  <2> QED
    BY <2>2
<1> HIDE DEF new
<1>5. /\ entries \o new \in Seq(Entry)
      /\ Len(entries \o new) = Len(entries) + Len(new)
      /\ \A p \in 1..(Len(entries) + Len(new)) :
           (entries \o new)[p] = IF p <= Len(entries) THEN entries[p] ELSE new[p - Len(entries)]
  BY <1>1, <1>4, ConcatProperties
<1>6. \A p \in 1..n : new[p] = [index |-> LastIndex + p, term |-> t]
  BY DEF new
<1>7. \A p \in 1..Len(entries) : entries'[p] = entries[p]
  BY <1>1, <1>3, <1>4, <1>5
<1>8. \A p \in 1..n : entries'[Len(entries) + p] = new[p]
  BY <1>1, <1>3, <1>4, <1>5
<1> QED
  BY <1>2, <1>3, <1>4, <1>5, <1>6, <1>7, <1>8

\* first_index and last_index, read off the vector or the snapshot.
LEMMA IndexFacts ==
  ASSUME LogInv
  PROVE  /\ Len(entries) \in Nat /\ (entries # <<>> <=> Len(entries) > 0)
         /\ LastIndex \in 0..MaxIndex /\ FirstIndex \in Nat \ {0}
         /\ FirstIndex <= snapshot + 1
         /\ entries # <<>> => entries[1].index = FirstIndex /\ LastIndex = FirstIndex + Len(entries) - 1
         /\ entries = <<>> => LastIndex = snapshot
<1>1. entries \in Seq(Entry) /\ Len(entries) \in Nat /\ snapshot \in 0..MaxIndex
  BY DEF LogInv
<1>2. CASE entries = <<>>
  BY <1>1, <1>2, BoundsAssumption DEF LastIndex, FirstIndex
<1>3. CASE entries # <<>>
  <2>1. Len(entries) > 0 /\ entries[1] \in Entry /\ entries[Len(entries)] \in Entry
    BY <1>1, <1>3
  <2>2. entries[Len(entries)].index = entries[1].index + Len(entries) - 1
    BY <2>1, <1>1 DEF LogInv
  <2>3. entries[1].index \in 1..MaxIndex /\ entries[Len(entries)].index \in 1..MaxIndex
    BY <2>1 DEF Entry
  <2> QED
    BY <1>1, <1>3, <2>1, <2>2, <2>3, BoundsAssumption, SMTT(60) DEF LastIndex, FirstIndex, LogInv
<1> QED
  BY <1>2, <1>3

LEMMA LogInvInit == Init => LogInv
  BY BoundsAssumption DEF Init, LogInv

LEMMA LogInvAppend ==
  ASSUME LogInv, Driver = {}, NEW n \in 1..2, NEW t \in 1..MaxTerm, AppendEntries(n, t)
  PROVE  LogInv' /\ LastIndex' = LastIndex + n
<1> USE BoundsAssumption
<1>1. /\ LastIndex \in Nat /\ LastIndex + n <= MaxIndex
      /\ entries' \in Seq(Entry)
      /\ Len(entries') = Len(entries) + n
      /\ \A p \in 1..Len(entries) : entries'[p] = entries[p]
      /\ \A p \in 1..n : entries'[Len(entries) + p] = [index |-> LastIndex + p, term |-> t]
      /\ appended' = [i \in 1..MaxIndex |->
                        IF i \in (LastIndex + 1)..(LastIndex + n) THEN t ELSE appended[i]]
      /\ snapshot' = snapshot
  BY AppendEffect
<1>2. /\ Len(entries) \in Nat /\ (entries # <<>> <=> Len(entries) > 0)
      /\ FirstIndex \in Nat \ {0} /\ FirstIndex <= snapshot + 1
      /\ entries # <<>> => entries[1].index = FirstIndex /\ LastIndex = FirstIndex + Len(entries) - 1
      /\ entries = <<>> => LastIndex = snapshot
  BY IndexFacts
<1>3. snapshot \in 0..MaxIndex /\ appended \in [1..MaxIndex -> 0..MaxTerm] /\ entries \in Seq(Entry)
  BY DEF LogInv
<1>4. appended' \in [1..MaxIndex -> 0..MaxTerm]
  BY <1>1, <1>3
<1>5. entries'[1].index = LastIndex - Len(entries) + 1
  <2>1. CASE entries = <<>>
    <3>1. entries'[0 + 1] = [index |-> LastIndex + 1, term |-> t]
      BY <1>1, <1>2, <2>1
    <3> QED
      BY <3>1, <1>1, <1>2, <2>1
  <2>2. CASE entries # <<>>
    BY <1>1, <1>2, <2>2
  <2> QED
    BY <2>1, <2>2
<1>6. ASSUME NEW p \in 1..Len(entries')
      PROVE  /\ entries'[p].index = entries'[1].index + p - 1
             /\ entries'[p].term = appended'[entries'[p].index]
  <2>1. CASE p <= Len(entries)
    <3>0. p \in 1..Len(entries)
      BY <1>1, <1>2, <2>1
    <3>1. /\ entries'[p] = entries[p] /\ entries[p] \in Entry
          /\ entries[p].index = entries[1].index + p - 1
          /\ entries[p].term = appended[entries[p].index]
      BY <3>0, <1>1, <1>3 DEF LogInv
    <3>2. entries[p].index \in 1..MaxIndex
      BY <3>1 DEF Entry
    <3>3. entries[p].index <= LastIndex
      BY <3>1, <2>1, <1>2
    <3>4. appended'[entries[p].index] = appended[entries[p].index]
      BY <3>2, <3>3, <1>1
    <3>5. entries'[1].index = entries[1].index
      BY <3>0, <1>1, <1>2
    <3> QED
      BY <3>1, <3>4, <3>5
  <2>2. CASE p > Len(entries)
    <3> DEFINE q == p - Len(entries)
    <3>1. q \in 1..n /\ p = Len(entries) + q
      BY <1>1, <1>2, <2>2, SMTT(30)
    <3>2. entries'[p] = [index |-> LastIndex + q, term |-> t]
      BY <3>1, <1>1
    <3>3. LastIndex + q \in 1..MaxIndex /\ LastIndex + q \in (LastIndex + 1)..(LastIndex + n)
      BY <3>1, <1>1
    <3> QED
      BY <3>1, <3>2, <3>3, <1>1, <1>2, <1>5
  <2> QED
    BY <2>1, <2>2, <1>2
<1>7. entries'[1].index <= snapshot' + 1
  BY <1>1, <1>2, <1>3, <1>5
<1>8. LogInv'
  BY <1>1, <1>3, <1>4, <1>6, <1>7 DEF LogInv
<1>9. entries' # <<>> /\ entries'[Len(entries')].index = entries'[1].index + Len(entries') - 1
  <2>1. Len(entries') \in 1..Len(entries') /\ Len(entries') > 0
    BY <1>1, <1>2
  <2>2. entries' # <<>>
    BY <2>1
  <2> QED
    BY <2>1, <2>2, <1>6
<1>10. LastIndex' = entries'[Len(entries')].index
  BY <1>9 DEF LastIndex
<1> QED
  BY <1>1, <1>2, <1>5, <1>8, <1>9, <1>10

LEMMA LogInvSnapshot ==
  ASSUME LogInv, NEW i \in 1..MaxIndex, SetSnapshot(i)
  PROVE  LogInv' /\ LastIndex <= LastIndex' /\ snapshot < snapshot'
<1>1. /\ snapshot < i /\ snapshot' = i /\ UNCHANGED <<entries, appended>>
  BY DEF SetSnapshot
<1>2. snapshot \in Nat /\ snapshot' \in 0..MaxIndex /\ snapshot < snapshot'
  BY <1>1, BoundsAssumption DEF LogInv
<1>3. entries # <<>> => entries[1].index \in Nat /\ entries[1].index <= snapshot' + 1
  BY <1>1, <1>2, IndexFacts DEF LogInv
<1>4. LogInv'
  BY <1>1, <1>2, <1>3 DEF LogInv
<1>5. LastIndex <= LastIndex'
  BY <1>1, <1>2, IndexFacts DEF LastIndex
<1> QED
  BY <1>2, <1>4, <1>5

LEMMA LogInvStutter ==
  ASSUME LogInv, UNCHANGED <<entries, snapshot, appended>>
  PROVE  LogInv' /\ LastIndex' = LastIndex
  BY DEF LogInv, LastIndex

-----------------------------------------------------------------------------
\* The readers.

LEMMA CallShapeInit == Init => CallShape
  BY DEF Init, Idle, CallShape, CallFields

LEMMA CallShapeNext == CallShape /\ [Next]_vars => CallShape'
<1> SUFFICES ASSUME CallShape, [Next]_vars PROVE CallShape'
  OBVIOUS
<1>1. CASE call' = call
  BY <1>1 DEF CallShape
<1>2. ASSUME NEW r \in Reader,
             \/ ReadHardState(r) \/ ReadConfState(r) \/ ReadFirstIndex(r) \/ ReadLastIndex(r)
             \/ \E max \in 0..MaxIndex : ReadEntries(r, max)
             \/ Forget(r)
      PROVE  CallShape'
  BY <1>2 DEF CallShape, CallFields, ReadHardState, ReadConfState, ReadFirstIndex, ReadLastIndex,
     ReadEntries, Forget, Idle
<1> QED
  BY <1>1, <1>2 DEF Next, vars, AppendEntries, SetConfState, SetHardState, SetSnapshot

LEMMA ConfInvInit == Init => ConfInv
  BY BoundsAssumption DEF Init, Idle, ConfInv

LEMMA ConfInvNext == ConfInv /\ CallShape /\ [Next]_vars => ConfInv'
<1> SUFFICES ASSUME ConfInv, CallShape, [Next]_vars PROVE ConfInv'
  OBVIOUS
<1> USE BoundsAssumption
<1>0. /\ hard_state \in 0..MaxIndex /\ conf_state \in 0..MaxIndex
      /\ confAt \in [0..MaxIndex -> 0..MaxIndex]
      /\ \A j \in 0..MaxIndex : confAt[j] <= conf_state
  BY DEF ConfInv
<1>00. \A r \in Reader :
         /\ call[r].at \in {"conf", "initial"} => call[r].low \in 0..hard_state
         /\ call[r].at = "initial" => call[r].high >= confAt[call[r].low]
  BY DEF ConfInv
<1>1. CASE UNCHANGED <<hard_state, conf_state, confAt, call>>
  BY <1>1 DEF ConfInv
<1>2. ASSUME NEW i \in 1..MaxIndex, SetConfState(i) PROVE ConfInv'
  <2>1. /\ conf_state < i /\ conf_state' = i
        /\ UNCHANGED <<hard_state, confAt, call>>
    BY <1>2 DEF SetConfState
  <2>2. \A j \in 0..MaxIndex : confAt'[j] <= conf_state'
    BY <1>0, <2>1
  <2>3. conf_state' \in 0..MaxIndex
    BY <2>1
  <2> QED
    BY <1>0, <1>00, <2>1, <2>2, <2>3 DEF ConfInv
<1>3. ASSUME NEW i \in 1..MaxIndex, SetHardState(i) PROVE ConfInv'
  <2>1. /\ hard_state < i /\ hard_state' = i
        /\ confAt' = [confAt EXCEPT ![i] = conf_state]
        /\ UNCHANGED <<conf_state, call>>
    BY <1>3 DEF SetHardState
  <2>2. \A j \in 0..hard_state : confAt'[j] = confAt[j]
    BY <1>0, <2>1
  <2>3. confAt' \in [0..MaxIndex -> 0..MaxIndex] /\ hard_state' \in 0..MaxIndex
    <3>1. i \in 0..MaxIndex
      OBVIOUS
    <3> QED
      BY <1>0, <2>1, <3>1, Zenon
  <2>4. \A j \in 0..MaxIndex : confAt'[j] <= conf_state'
    BY <1>0, <2>1
  <2>5. ASSUME NEW r \in Reader, call[r].at \in {"conf", "initial"}
        PROVE  call[r].low \in 0..hard_state'
    <3>1. call[r].low \in 0..hard_state
      BY <1>00, <2>5, Zenon
    <3>2. hard_state \in Nat /\ hard_state' \in Nat /\ hard_state < hard_state'
      BY <1>0, <2>1
    <3> QED
      BY ONLY <3>1, <3>2
  <2>6. ASSUME NEW r \in Reader, call[r].at = "initial"
        PROVE  call[r].high >= confAt'[call[r].low]
    <3>1. call[r].low \in 0..hard_state /\ call[r].high >= confAt[call[r].low]
      BY <1>00, <2>6
    <3> QED
      BY <2>2, <3>1
  <2> QED
    BY <1>0, <2>1, <2>3, <2>4, <2>5, <2>6 DEF ConfInv
<1>4. ASSUME NEW r \in Reader, ReadHardState(r) PROVE ConfInv'
  <2>1. /\ call'[r].at = "conf" /\ call'[r].low = hard_state
        /\ \A s \in Reader \ {r} : call'[s] = call[s]
        /\ UNCHANGED <<hard_state, conf_state, confAt>>
    BY <1>4 DEF CallShape, ReadHardState, Idle
  <2>2. hard_state \in 0..hard_state
    BY <1>0
  <2> QED
    BY <1>0, <1>00, <2>1, <2>2 DEF ConfInv
<1>5. ASSUME NEW r \in Reader, ReadConfState(r) PROVE ConfInv'
  <2>1. /\ call[r].at = "conf" /\ call'[r].at = "initial"
        /\ call'[r].low = call[r].low /\ call'[r].high = conf_state
        /\ \A s \in Reader \ {r} : call'[s] = call[s]
        /\ UNCHANGED <<hard_state, conf_state, confAt>>
    BY <1>5 DEF CallShape, CallFields, ReadConfState
  <2>2. call[r].low \in 0..hard_state /\ conf_state >= confAt[call[r].low]
    BY <1>0, <1>00, <2>1
  <2> QED
    BY <1>0, <1>00, <2>1, <2>2 DEF ConfInv
<1>6. ASSUME NEW r \in Reader,
             \/ ReadFirstIndex(r) \/ ReadLastIndex(r)
             \/ \E max \in 0..MaxIndex : ReadEntries(r, max)
             \/ Forget(r)
      PROVE  ConfInv'
  <2>1. UNCHANGED <<hard_state, conf_state, confAt>>
    BY <1>6 DEF ReadFirstIndex, ReadLastIndex, ReadEntries, Forget
  <2>2. /\ call'[r].at \notin {"conf", "initial"}
        /\ \A s \in Reader \ {r} : call'[s] = call[s]
    <3>1. CASE ReadFirstIndex(r)
      BY <3>1 DEF CallShape, ReadFirstIndex, Idle
    <3>2. CASE ReadLastIndex(r)
      BY <3>2 DEF CallShape, CallFields, ReadLastIndex
    <3>3. CASE \E max \in 0..MaxIndex : ReadEntries(r, max)
      BY <3>3 DEF CallShape, CallFields, ReadEntries
    <3>4. CASE Forget(r)
      BY <3>4 DEF CallShape, Forget, Idle
    <3> QED
      BY <1>6, <3>1, <3>2, <3>3, <3>4
  <2> QED
    BY <2>1, <2>2 DEF ConfInv
<1> QED
  BY <1>1, <1>2, <1>3, <1>4, <1>5, <1>6 DEF Next, vars, AppendEntries, SetSnapshot

\* initial_state never returns a configuration older than the one stored with the
\* hard state it returns.
THEOREM InitialStateAlwaysInOrder == Spec => []InitialStateInOrder
<1>1. ConfInv => InitialStateInOrder
  BY DEF ConfInv, InitialStateInOrder
<1> QED
  BY CallShapeInit, CallShapeNext, ConfInvInit, ConfInvNext, <1>1, PTL DEF Spec

-----------------------------------------------------------------------------

LEMMA LogInvNext == Driver = {} /\ LogInv /\ [Next]_vars => LogInv'
<1> SUFFICES ASSUME Driver = {}, LogInv, [Next]_vars PROVE LogInv'
  OBVIOUS
<1>1. CASE UNCHANGED <<entries, snapshot, appended>>
  BY <1>1, LogInvStutter
<1>2. CASE \E n \in 1..2, t \in 1..MaxTerm : AppendEntries(n, t)
  BY <1>2, LogInvAppend
<1>3. CASE \E i \in 1..MaxIndex : SetSnapshot(i)
  BY <1>3, LogInvSnapshot
<1> QED
  BY <1>1, <1>2, <1>3 DEF Next, vars, SetConfState, SetHardState, ReadHardState, ReadConfState,
     ReadFirstIndex, ReadLastIndex, ReadEntries, Forget

LEMMA LogInvTerms == LogInv => TermsExact
<1> SUFFICES ASSUME LogInv, entries # <<>>, NEW i \in FirstIndex..LastIndex
             PROVE  Term(i) = [res |-> "ok", term |-> appended[i]]
  BY DEF TermsExact
<1>1. /\ Len(entries) \in Nat /\ FirstIndex \in Nat \ {0} /\ LastIndex \in Nat
      /\ entries[1].index = FirstIndex /\ LastIndex = FirstIndex + Len(entries) - 1
  BY IndexFacts
<1> DEFINE pos == i - entries[1].index + 1
<1>2. pos \in 1..Len(entries)
  BY <1>1
<1>3. entries[pos].index = i /\ entries[pos].term = appended[i]
  <2>1. /\ entries[pos].index = entries[1].index + pos - 1
        /\ entries[pos].term = appended[entries[pos].index]
    BY <1>2 DEF LogInv
  <2>2. entries[1].index + pos - 1 = i
    BY <1>1
  <2> QED
    BY <2>1, <2>2
<1>4. ~(i < entries[1].index) /\ ~(i > LastIndex) /\ ~(pos > Len(entries))
  BY <1>1, <1>2
<1> QED
  BY <1>3, <1>4 DEF Term

\* term(i) gives the term that was appended at i, for every index of the log.
THEOREM TermsAlwaysExact ==
  ASSUME Driver = {}
  PROVE  Spec => []TermsExact
<1>1. LogInv /\ [Next]_vars => LogInv'
  BY LogInvNext
<1> QED
  BY LogInvInit, LogInvTerms, <1>1, PTL DEF Spec

-----------------------------------------------------------------------------
\* A range read as first_index, last_index and entries, with the driver writing between.

\* What entries() answers for a range that ended inside the log.
LEMMA EntriesExact ==
  ASSUME LogInv, NEW low \in Nat \ {0}, NEW high \in Nat, NEW max \in Nat,
         low < high, high <= LastIndex + 1
  PROVE  LET e == Entries(low, high, max)
             n == IF max < high - low THEN max ELSE high - low
         IN /\ e.res = "ok" =>
                 e.got = [p \in 1..n |-> [index |-> low + p - 1, term |-> appended[low + p - 1]]]
            /\ e.res # "ok" => e.res # "panic" /\ low <= snapshot
<1> DEFINE n == IF max < high - low THEN max ELSE high - low
           want == [p \in 1..n |-> [index |-> low + p - 1, term |-> appended[low + p - 1]]]
           off == entries[1].index
           all == SubSeq(entries, low - off + 1, high - off)
           got == IF max < Len(all) THEN SubSeq(all, 1, max) ELSE all
<1>1. /\ Len(entries) \in Nat /\ LastIndex \in Nat /\ FirstIndex \in Nat \ {0}
      /\ FirstIndex <= snapshot + 1 /\ snapshot \in Nat /\ entries \in Seq(Entry)
      /\ entries # <<>> => off = FirstIndex /\ LastIndex = FirstIndex + Len(entries) - 1
      /\ entries = <<>> => LastIndex = snapshot
  BY IndexFacts, BoundsAssumption DEF LogInv
<1>2. CASE entries = <<>>
  BY <1>1, <1>2 DEF Entries
<1>3. CASE entries # <<>> /\ low < off
  BY <1>1, <1>3 DEF Entries
<1>4. CASE entries # <<>> /\ ~(low < off)
  <2>1. /\ off \in Nat \ {0} /\ off <= low /\ ~(high > LastIndex + 1)
        /\ ~(low > high) /\ ~(high - off > Len(entries))
    BY <1>1, <1>4
  <2>2. Entries(low, high, max) = [res |-> "ok", got |-> got]
    BY <2>1, <1>4 DEF Entries
  <2> HIDE DEF off
  <2>3. /\ low - off + 1 \in 1..Len(entries) /\ high - off \in 1..Len(entries)
        /\ low - off + 1 <= high - off
    BY <2>1, <1>1
  <2>4. /\ all \in Seq(Entry) /\ Len(all) = high - low
        /\ \A p \in 1..(high - low) : all[p] = entries[low - off + p]
    <3> DEFINE a == low - off + 1
               b == high - off
    <3>1. a \in 1..(Len(entries) + 1) /\ b \in (a - 1)..Len(entries) /\ a \in Nat /\ b \in Nat
      BY <2>1, <2>3, <1>1
    <3>2. b - a + 1 = high - low
      BY <2>1
    <3>3. \A p \in 1..(high - low) : a + p - 1 = low - off + p
      BY <2>1
    <3>4. \A j \in a..b : entries[j] \in Entry
      BY <3>1, <1>1
    <3> HIDE DEF a, b
    <3>5. /\ SubSeq(entries, a, b) \in Seq(Entry) /\ Len(SubSeq(entries, a, b)) = b - a + 1
          /\ \A p \in 1..(b - a + 1) : SubSeq(entries, a, b)[p] = entries[a + p - 1]
      BY <3>1, <3>4, SubSeqProperties
    <3> QED
      BY <3>2, <3>3, <3>5 DEF a, b
  <2>5. \A p \in 1..(high - low) :
          entries[low - off + p] = [index |-> low + p - 1, term |-> appended[low + p - 1]]
    <3> SUFFICES ASSUME NEW p \in 1..(high - low)
                 PROVE  entries[low - off + p]
                          = [index |-> low + p - 1, term |-> appended[low + p - 1]]
      OBVIOUS
    <3> DEFINE q == low - off + p
    <3>1. q \in 1..Len(entries) /\ off + q - 1 = low + p - 1
      BY <2>1, <1>1
    <3> HIDE DEF q
    <3>2. entries[q] \in Entry /\ entries[q].index = off + q - 1
                           /\ entries[q].term = appended[entries[q].index]
      BY <3>1, <1>1 DEF LogInv, off
    <3> QED
      BY <3>1, <3>2 DEF Entry, q
  <2> HIDE DEF all
  <2>6. got \in Seq(Entry) /\ Len(got) = n /\ \A p \in 1..n : got[p] = all[p]
    <3>1. CASE max < high - low
      <4>1. max \in 0..Len(all) /\ \A j \in 1..max : all[j] \in Entry
        BY <3>1, <2>4
      <4>2. /\ SubSeq(all, 1, max) \in Seq(Entry) /\ Len(SubSeq(all, 1, max)) = max
            /\ \A p \in 1..max : SubSeq(all, 1, max)[p] = all[p]
        BY <4>1, <2>4
      <4> QED
        BY <3>1, <4>2, <2>4
    <3>2. CASE ~(max < high - low)
      BY <3>2, <2>4
    <3> QED
      BY <3>1, <3>2
  <2>7. n \in Nat /\ n <= high - low
    OBVIOUS
  <2>8. \A p \in 1..n : got[p] = want[p]
    BY <2>4, <2>5, <2>6, <2>7
  <2> HIDE DEF got, n
  <2>9. got = [p \in 1..n |-> want[p]]
    BY <2>6, <2>7, <2>8
  <2>10. got = want
    BY <2>9
  <2> QED
    BY <2>2, <2>10 DEF n
<1> QED
  BY <1>2, <1>3, <1>4

LEMMA RangeInvInit == Init => RangeInv
<1> SUFFICES ASSUME Init, NEW r \in Reader PROVE RangeCall(call[r], LastIndex, snapshot, appended)
  BY DEF RangeInv
<1>1. call[r].at = "idle"
  BY DEF Init, Idle
<1> QED
  BY <1>1 DEF RangeCall

\* The driver only adds: what a reader holds stays a range of the log.
LEMMA RangeCallKept ==
  ASSUME NEW c, NEW app1, NEW app2, NEW last1 \in Nat, NEW last2 \in Nat, last1 <= last2,
         NEW snap1 \in Nat, NEW snap2 \in Nat, snap1 <= snap2,
         \A i \in 1..last1 : app2[i] = app1[i],
         RangeCall(c, last1, snap1, app1)
  PROVE  RangeCall(c, last2, snap2, app2)
<1>1. c.at = "last" => c.low \in Nat \ {0}
  BY DEF RangeCall
<1>2. c.at \in {"entries", "read"} =>
        c.low \in Nat \ {0} /\ c.high \in Nat /\ c.low < c.high /\ c.high <= last1 + 1
  BY DEF RangeCall
<1>3. c.at = "read" =>
        /\ c.max \in Nat
        /\ c.res = "ok" =>
             c.got = [p \in 1..Wanted(c) |-> [index |-> c.low + p - 1, term |-> app1[c.low + p - 1]]]
        /\ c.res # "ok" => c.res # "panic" /\ c.low <= snap1
  BY DEF RangeCall
<1>4. c.at \in {"entries", "read"} => c.high <= last2 + 1
  BY <1>2
<1>5. ASSUME c.at = "read", NEW p \in 1..Wanted(c)
      PROVE  app2[c.low + p - 1] = app1[c.low + p - 1]
  <2>1. Wanted(c) \in Nat /\ Wanted(c) <= c.high - c.low
    BY <1>2, <1>3, <1>5 DEF Wanted
  <2>2. c.low + p - 1 \in 1..last1
    BY <1>2, <1>5, <2>1
  <2> QED
    BY <2>2
<1>6. c.at = "read" /\ c.res = "ok" =>
        c.got = [p \in 1..Wanted(c) |-> [index |-> c.low + p - 1, term |-> app2[c.low + p - 1]]]
  BY <1>3, <1>5
<1>7. c.at = "read" /\ c.res # "ok" => c.low <= snap2
  BY <1>2, <1>3
<1> QED
  BY <1>1, <1>2, <1>3, <1>4, <1>6, <1>7 DEF RangeCall

LEMMA RangeInvKept ==
  ASSUME LogInv, RangeInv, call' = call,
         LastIndex' \in Nat, LastIndex <= LastIndex', snapshot' \in Nat, snapshot <= snapshot',
         \A i \in 1..LastIndex : appended'[i] = appended[i]
  PROVE  RangeInv'
<1>1. LastIndex \in Nat /\ snapshot \in Nat
  BY IndexFacts, BoundsAssumption DEF LogInv
<1>2. ASSUME NEW r \in Reader PROVE RangeCall(call[r], LastIndex', snapshot', appended')
  <2>1. RangeCall(call[r], LastIndex, snapshot, appended)
    BY DEF RangeInv
  <2> QED
    BY <1>1, <2>1, RangeCallKept
<1> QED
  BY <1>2 DEF RangeInv

LEMMA RangeInvNext == Driver = {} /\ LogInv /\ CallShape /\ RangeInv /\ [Next]_vars => RangeInv'
<1> SUFFICES ASSUME Driver = {}, LogInv, CallShape, RangeInv, [Next]_vars PROVE RangeInv'
  OBVIOUS
<1>0. LastIndex \in Nat /\ FirstIndex \in Nat \ {0} /\ snapshot \in Nat
  BY IndexFacts, BoundsAssumption DEF LogInv
<1>1. CASE UNCHANGED <<entries, snapshot, appended, call>>
  <2>1. LastIndex' = LastIndex
    BY <1>1 DEF LastIndex
  <2> QED
    BY <1>0, <1>1, <2>1, RangeInvKept
<1>2. ASSUME NEW n \in 1..2, NEW t \in 1..MaxTerm, AppendEntries(n, t) PROVE RangeInv'
  <2>1. LastIndex' = LastIndex + n
    BY <1>2, LogInvAppend
  <2>2. /\ snapshot' = snapshot /\ call' = call /\ LastIndex + n <= MaxIndex
        /\ appended' = [i \in 1..MaxIndex |->
                          IF i \in (LastIndex + 1)..(LastIndex + n) THEN t ELSE appended[i]]
    BY <1>2, AppendEffect
  <2>3. \A i \in 1..LastIndex : appended'[i] = appended[i]
    BY <1>0, <2>2, BoundsAssumption
  <2> QED
    BY <1>0, <2>1, <2>2, <2>3, RangeInvKept
<1>3. ASSUME NEW i \in 1..MaxIndex, SetSnapshot(i) PROVE RangeInv'
  <2>1. snapshot < i /\ snapshot' = i /\ UNCHANGED <<entries, appended, call>>
    BY <1>3 DEF SetSnapshot
  <2>2. LastIndex' \in Nat /\ LastIndex <= LastIndex'
    BY <1>0, <2>1, BoundsAssumption DEF LastIndex
  <2> QED
    BY <1>0, <2>1, <2>2, BoundsAssumption, RangeInvKept
<1>4. ASSUME NEW r \in Reader,
             \/ ReadHardState(r) \/ ReadConfState(r) \/ ReadFirstIndex(r)
             \/ ReadLastIndex(r) \/ \E max \in 0..MaxIndex : ReadEntries(r, max)
             \/ Forget(r)
      PROVE  RangeInv'
  <2>1. UNCHANGED <<entries, snapshot, appended>> /\ LastIndex' = LastIndex
    BY <1>4 DEF ReadHardState, ReadConfState, ReadFirstIndex, ReadLastIndex, ReadEntries, Forget,
       LastIndex
  <2>2. \A s \in Reader \ {r} : call'[s] = call[s]
    BY <1>4 DEF CallShape, ReadHardState, ReadConfState, ReadFirstIndex, ReadLastIndex, ReadEntries,
       Forget
  <2>0. ASSUME RangeCall(call'[r], LastIndex, snapshot, appended) PROVE RangeInv'
    <3>1. ASSUME NEW s \in Reader PROVE RangeCall(call'[s], LastIndex, snapshot, appended)
      BY <2>0, <2>2, <3>1 DEF RangeInv
    <3> QED
      BY <2>1, <3>1 DEF RangeInv
  <2>3. CASE ReadHardState(r) \/ ReadConfState(r) \/ Forget(r)
    <3>1. call'[r].at \notin {"last", "entries", "read"}
      <4>1. CASE ReadHardState(r)
        BY <4>1 DEF CallShape, ReadHardState, Idle
      <4>2. CASE ReadConfState(r)
        BY <4>2 DEF CallShape, CallFields, ReadConfState
      <4>3. CASE Forget(r)
        BY <4>3 DEF CallShape, Forget, Idle
      <4> QED
        BY <2>3, <4>1, <4>2, <4>3
    <3> QED
      BY <2>0, <3>1 DEF RangeCall
  <2>4. CASE ReadFirstIndex(r)
    <3>1. call'[r].at = "last" /\ call'[r].low = FirstIndex
      BY <2>4 DEF CallShape, ReadFirstIndex, Idle
    <3> QED
      BY <1>0, <2>0, <3>1 DEF RangeCall
  <2>5. CASE ReadLastIndex(r)
    <3>1. /\ call[r].at = "last" /\ call'[r].low = call[r].low /\ call'[r].high = LastIndex + 1
          /\ call'[r].at = IF LastIndex < call[r].low THEN "idle" ELSE "entries"
      BY <2>5 DEF CallShape, CallFields, ReadLastIndex
    <3>2. call[r].low \in Nat \ {0}
      BY <3>1 DEF RangeInv, RangeCall
    <3>3. call'[r].at = "entries" => call'[r].low < call'[r].high
      BY <1>0, <3>1, <3>2
    <3>4. call'[r].at \notin {"last", "read"} /\ call'[r].high \in Nat /\ call'[r].high <= LastIndex + 1
      BY <1>0, <3>1
    <3> QED
      BY <2>0, <3>1, <3>2, <3>3, <3>4 DEF RangeCall
  <2>6. ASSUME NEW max \in 0..MaxIndex, ReadEntries(r, max) PROVE RangeInv'
    <3> DEFINE e == Entries(call[r].low, call[r].high, max)
    <3>1. /\ call[r].at = "entries" /\ call'[r].at = "read" /\ call'[r].max = max
          /\ call'[r].low = call[r].low /\ call'[r].high = call[r].high
          /\ call'[r].res = e.res /\ call'[r].got = e.got
      BY <2>6 DEF CallShape, CallFields, ReadEntries
    <3>2. /\ call[r].low \in Nat \ {0} /\ call[r].high \in Nat /\ call[r].low < call[r].high
          /\ call[r].high <= LastIndex + 1
      BY <3>1 DEF RangeInv, RangeCall
    <3>3. max \in Nat
      BY BoundsAssumption
    <3> DEFINE n == IF max < call[r].high - call[r].low THEN max ELSE call[r].high - call[r].low
    <3>4. /\ e.res = "ok" => e.got = [p \in 1..n |->
               [index |-> call[r].low + p - 1, term |-> appended[call[r].low + p - 1]]]
          /\ e.res # "ok" => e.res # "panic" /\ call[r].low <= snapshot
      BY <3>2, <3>3, EntriesExact
    <3>5. Wanted(call'[r]) = n
      BY <3>1 DEF Wanted
    <3> HIDE DEF e, n
    <3>6. /\ call'[r].res = "ok" => call'[r].got = [p \in 1..Wanted(call'[r]) |->
               [index |-> call'[r].low + p - 1, term |-> appended[call'[r].low + p - 1]]]
          /\ call'[r].res # "ok" => call'[r].res # "panic" /\ call'[r].low <= snapshot
      BY <3>1, <3>4, <3>5
    <3>7. /\ call'[r].low \in Nat \ {0} /\ call'[r].high \in Nat
          /\ call'[r].low < call'[r].high /\ call'[r].high <= LastIndex + 1
          /\ call'[r].max \in Nat /\ call'[r].at = "read"
      BY <3>1, <3>2, <3>3
    <3> QED
      BY <2>0, <3>6, <3>7 DEF RangeCall
  <2> QED
    BY <1>4, <2>3, <2>4, <2>5, <2>6
<1> QED
  BY <1>1, <1>2, <1>3, <1>4 DEF Next, vars, SetConfState, SetHardState

\* A range read in three calls holds exactly the entries appended there, or is refused
\* because a snapshot covers its start; entries() never indexes past the vector.
THEOREM RangeAlwaysStable ==
  ASSUME Driver = {}
  PROVE  Spec => []RangeStable
<1>1. LogInv /\ [Next]_vars => LogInv'
  BY LogInvNext
<1>2. LogInv /\ CallShape /\ RangeInv /\ [Next]_vars => RangeInv'
  BY RangeInvNext
<1>3. RangeInv => RangeStable
  BY DEF RangeInv, RangeCall, RangeStable, Wanted
<1> QED
  BY LogInvInit, CallShapeInit, CallShapeNext, RangeInvInit, <1>1, <1>2, <1>3, PTL DEF Spec

=============================================================================
