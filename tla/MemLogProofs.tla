------------------------------ MODULE MemLogProofs ------------------------------
(***************************************************************************)
(* OpenRaftMemLog implements LogStore, for every number of entries.  Held  *)
(* is what makes it so: whatever a truncation leaves behind lies right     *)
(* after the log OpenRaft knows of, where the next append writes first.    *)
(***************************************************************************)
EXTENDS MemLog, TLAPS

\* The batches OpenRaft appends after the last index begin right there.
LEMMA BatchShape ==
  ASSUME TypeOK, NEW b \in LS!BatchesAfter(last)
  PROVE  /\ LS!LastOf(last, b) \in Index
         /\ last < LS!LastOf(last, b)
         /\ b \in [(last + 1)..LS!LastOf(last, b) -> Entry]
<1>1. PICK n \in Index : last < n /\ b \in [(last + 1)..n -> Entry]
  BY DEF LS!BatchesAfter, Index, LS!Index
<1>2. \E m \in Index : DOMAIN b = (last + 1)..m /\ last < m
  BY <1>1
<1>3. /\ LS!LastOf(last, b) \in Index
      /\ DOMAIN b = (last + 1)..LS!LastOf(last, b)
      /\ last < LS!LastOf(last, b)
  BY <1>2 DEF LS!LastOf, Index, LS!Index
<1> QED
  BY <1>1, <1>3

Inv == TypeOK /\ Held

\* Held without the reader: which indices of the map are occupied.
LEMMA HeldMeans ==
  ASSUME TypeOK
  PROVE  Held <=> /\ \A i \in (purged + 1)..last : log[i] # NoEntry
                  /\ \A i \in Index : log[i] # NoEntry => purged < i /\ i <= last + 1
BY DEF Held, TryGetLogEntries

LEMMA HeldMeansNext ==
  ASSUME TypeOK'
  PROVE  Held' <=> /\ \A i \in (purged' + 1)..last' : log'[i] # NoEntry
                   /\ \A i \in Index : log'[i] # NoEntry => purged' < i /\ i <= last' + 1
BY DEF Held, TryGetLogEntries

LEMMA InitInv == Init => Inv
<1> SUFFICES ASSUME Init PROVE Inv
  OBVIOUS
<1>1. TypeOK
  BY IndexAssumption DEF Init, TypeOK, Index, NoIndex
<1>2. Held
  BY <1>1, HeldMeans, IndexAssumption DEF Init, Index, NoIndex
<1> QED
  BY <1>1, <1>2 DEF Inv

LEMMA StepInv == Inv /\ [Next]_vars => Inv'
<1> SUFFICES ASSUME Inv, [Next]_vars PROVE Inv'
  OBVIOUS
<1> USE IndexAssumption, EntryAssumption
<1>0. TypeOK /\ Held
  BY DEF Inv
<1>1. CASE \E b \in LS!BatchesAfter(last) : Append(b)
  <2>1. PICK b \in LS!BatchesAfter(last) : Append(b)
    BY <1>1
  <2> DEFINE n == LS!LastOf(last, b)
  <2>2. n \in Index /\ last < n /\ b \in [(last + 1)..n -> Entry]
    BY <1>0, BatchShape
  <2>3. /\ log' = [i \in Index |-> IF i \in (last + 1)..n THEN b[i] ELSE log[i]]
        /\ last' = n /\ purged' = purged /\ vote' = vote
    BY <2>1, <2>2 DEF Append
  <2> HIDE DEF n
  <2>4. TypeOK'
    BY <1>0, <2>2, <2>3 DEF TypeOK, Index, NoIndex
  <2>5. Held'
    BY <1>0, <2>2, <2>3, <2>4, HeldMeans, HeldMeansNext DEF TypeOK, Index, NoIndex
  <2> QED
    BY <2>4, <2>5 DEF Inv
<1>2. ASSUME NEW i \in Index, Truncate(i) PROVE Inv'
  <2>1. TypeOK'
    BY <1>0, <1>2 DEF TypeOK, Truncate, Index, NoIndex
  <2>2. Held'
    BY <1>0, <1>2, <2>1, HeldMeans, HeldMeansNext DEF TypeOK, Truncate, Index, NoIndex
  <2> QED
    BY <2>1, <2>2 DEF Inv
<1>3. ASSUME NEW i \in Index, Purge(i) PROVE Inv'
  <2>1. TypeOK'
    BY <1>0, <1>3 DEF TypeOK, Purge, Index, NoIndex
  <2>2. Held'
    BY <1>0, <1>3, <2>1, HeldMeans, HeldMeansNext DEF TypeOK, Purge, Index, NoIndex
  <2> QED
    BY <2>1, <2>2 DEF Inv
<1>4. CASE \E v \in Vote : SaveVote(v)
  BY <1>0, <1>4 DEF Inv, TypeOK, Held, TryGetLogEntries, SaveVote
<1>5. CASE UNCHANGED vars
  BY <1>0, <1>5 DEF Inv, TypeOK, Held, TryGetLogEntries, vars
<1> QED
  BY <1>1, <1>2, <1>3, <1>4, <1>5 DEF Next

\* Every index of the map, and OpenRaft's own, stays inside the log.
THEOREM TypeCorrect == Spec => []TypeOK
<1>1. Inv => TypeOK
  BY DEF Inv
<1> QED
  BY InitInv, StepInv, <1>1, PTL DEF Spec

\* Every entry OpenRaft may read is in the map, although truncate leaves one
\* entry too many: that one is always the one right after the log.
THEOREM HeldAlways == Spec => []Held
<1>1. Inv => Held
  BY DEF Inv
<1> QED
  BY InitInv, StepInv, <1>1, PTL DEF Spec

-----------------------------------------------------------------------------
\* The three handlers, seen through Visible, are the three operations of
\* LogStore; saving a vote is not visible.
LEMMA InitRefines == Init => LS!Init
BY IndexAssumption DEF Init, LS!Init, Visible, Index, NoIndex, LS!Index, LS!NoIndex

LEMMA StepRefines == Inv /\ [Next]_vars => [LS!Next]_(LS!vars)
<1> SUFFICES ASSUME Inv, [Next]_vars PROVE [LS!Next]_(LS!vars)
  OBVIOUS
<1> USE IndexAssumption, EntryAssumption
<1>0. TypeOK /\ Held
  BY DEF Inv
<1>1. CASE \E b \in LS!BatchesAfter(last) : Append(b)
  <2>1. PICK b \in LS!BatchesAfter(last) : Append(b)
    BY <1>1
  <2> DEFINE n == LS!LastOf(last, b)
  <2>2. n \in Index /\ last < n /\ b \in [(last + 1)..n -> Entry]
    BY <1>0, BatchShape
  <2>3. /\ log' = [i \in Index |-> IF i \in (last + 1)..n THEN b[i] ELSE log[i]]
        /\ last' = n /\ purged' = purged /\ batch' = b
    BY <2>1, <2>2 DEF Append
  <2>4. Visible' = [i \in Index |-> IF i \in DOMAIN b THEN b[i] ELSE Visible[i]]
    <3> HIDE DEF n
    <3> QED
      BY <1>0, <2>2, <2>3 DEF TypeOK, Visible, Index, NoIndex
  <2>5. LS!Append(b)
    BY <2>3, <2>4 DEF LS!Append, Index, LS!Index
  <2> QED
    BY <2>5 DEF LS!Next
<1>2. ASSUME NEW i \in Index, Truncate(i) PROVE LS!Truncate(i)
  <2>1. Visible' = [j \in Index |-> IF j < i THEN Visible[j] ELSE NoEntry]
    BY <1>0, <1>2 DEF TypeOK, Truncate, Visible, Index, NoIndex
  <2> QED
    BY <1>2, <2>1 DEF Truncate, LS!Truncate, Index, LS!Index
<1>3. ASSUME NEW i \in Index, Purge(i) PROVE LS!Purge(i)
  <2>1. Visible' = [j \in Index |-> IF i < j THEN Visible[j] ELSE NoEntry]
    BY <1>0, <1>3 DEF TypeOK, Purge, Visible, Index, NoIndex
  <2> QED
    BY <1>3, <2>1 DEF Purge, LS!Purge, Index, LS!Index
<1>4. CASE \E v \in Vote : SaveVote(v)
  BY <1>4 DEF SaveVote, LS!vars, Visible
<1>5. CASE UNCHANGED vars
  BY <1>5 DEF vars, LS!vars, Visible
<1> QED
  BY <1>1, <1>2, <1>3, <1>4, <1>5 DEF Next, LS!Next, Index, LS!Index

\* OpenRaftMemLog is a LogStore: append, truncate and purge give OpenRaft the
\* log it asked for, for every number of entries and every batching of them.
THEOREM MemLogImplementsLogStore == Spec => ImplementsLogStore
<1>1. Spec => []Inv
  BY InitInv, StepInv, PTL DEF Spec
<1> QED
  BY InitRefines, StepRefines, <1>1, PTL DEF Spec, ImplementsLogStore, LS!Spec

=============================================================================
