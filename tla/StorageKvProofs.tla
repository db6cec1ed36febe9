--------------------------- MODULE StorageKvProofs ----------------------------
(***************************************************************************)
(* Proofs about StorageKv: what a crash leaves of the writes, what a       *)
(* checkpoint holds and what a scan returns, for every number of threads,  *)
(* column families, keys, writes and crashes and every limit on a batch.   *)
(***************************************************************************)
EXTENDS StorageKv, FiniteSetTheorems, TLAPS

-----------------------------------------------------------------------------
\* Greatest and least members.

LEMMA MaxIs ==
  ASSUME NEW S \in SUBSET Int, NEW x \in S, \A y \in S : y <= x
  PROVE  Max(S) = x
<1>1. \E z \in S : \A y \in S : z >= y
  OBVIOUS
<1>2. Max(S) \in S /\ \A y \in S : Max(S) >= y
  BY <1>1, Zenon DEF Max
<1>3. Max(S) \in Int /\ x \in Int /\ Max(S) <= x /\ x <= Max(S)
  BY <1>2, Zenon
<1> QED
  BY <1>3

\* A nonempty set of naturals has a least member.
LEMMA LeastOf ==
  ASSUME NEW S \in SUBSET Nat, S # {}
  PROVE  \E m \in S : \A j \in S : m <= j
<1> DEFINE R == {ss \in Nat \X Nat : ss[1] < ss[2]}
<1>1. IsWellFoundedOn(R, Nat)
  BY NatLessThanWellFounded, Zenon DEF OpToRel
<1>2. PICK m \in S : \A j \in S : ~ (<<j, m>> \in R)
  <2> HIDE DEF R
  <2> QED
    BY <1>1, WFMin, Zenon
<1>3. \A j \in S : ~(j < m)
  BY <1>2, Zenon
<1> QED
  BY <1>3

LEMMA MinOf ==
  ASSUME NEW S \in SUBSET Nat, S # {}
  PROVE  Min(S) \in S /\ \A j \in S : Min(S) <= j
<1>1. \E m \in S : \A j \in S : m =< j
  BY LeastOf
<1> QED
  BY <1>1, Zenon DEF Min

LEMMA MaxOf ==
  ASSUME NEW n \in Nat, NEW S \in SUBSET (0..n), S # {}
  PROVE  Max(S) \in S /\ \A j \in S : j <= Max(S)
<1> DEFINE D == {d \in Nat : n - d \in S}
<1>1. D # {}
  <2>1. PICK t \in S : TRUE
    BY Zenon
  <2>2. n - t \in Nat /\ n - (n - t) = t
    OBVIOUS
  <2> QED
    BY <2>1, <2>2, Zenon
<1>2. PICK d \in D : \A e \in D : d <= e
  BY <1>1, LeastOf, Zenon
<1>3. ASSUME NEW j \in S PROVE j <= n - d
  <2>1. n - j \in Nat /\ n - (n - j) = j
    OBVIOUS
  <2>2. d <= n - j
    BY <1>2, <2>1, Zenon
  <2> QED
    BY <1>2, <2>2
<1>4. \A j \in S : n - d >= j
  BY <1>2, <1>3
<1>5. \E m \in S : \A j \in S : m >= j
  BY <1>2, <1>4
<1>6. Max(S) \in S /\ \A j \in S : Max(S) >= j
  BY <1>5, Zenon DEF Max
<1> QED
  BY <1>6

-----------------------------------------------------------------------------
\* The writes.

\* The number of the last of the first n writes w that touched cell c.
LastTouch(w, c, n) == Max({0} \cup {m \in 1..n : c \in w[m]})

LEMMA LastTouchOf ==
  ASSUME NEW w, NEW c, NEW n \in Nat
  PROVE  /\ LastTouch(w, c, n) \in 0..n
         /\ LastTouch(w, c, n) # 0 => c \in w[LastTouch(w, c, n)]
         /\ \A m \in 1..n : c \in w[m] => m <= LastTouch(w, c, n)
<1> DEFINE S == {0} \cup {m \in 1..n : c \in w[m]}
<1>1. S \in SUBSET (0..n) /\ S # {}
  OBVIOUS
<1>2. Max(S) \in S /\ \A j \in S : j <= Max(S)
  BY <1>1, MaxOf, Zenon
<1> QED
  BY <1>1, <1>2 DEF LastTouch

\* It does not depend on the writes after the first n, and grows with n.
LEMMA LastTouchPrefix ==
  ASSUME NEW w, NEW v, NEW c, NEW n \in Nat, \A m \in 1..n : c \in w[m] <=> c \in v[m]
  PROVE  LastTouch(w, c, n) = LastTouch(v, c, n)
<1>1. {m \in 1..n : c \in w[m]} = {m \in 1..n : c \in v[m]}
  OBVIOUS
<1> QED
  BY <1>1 DEF LastTouch

LEMMA LastTouchGrows ==
  ASSUME NEW w, NEW c, NEW n \in Nat, NEW k \in Nat, k <= n
  PROVE  LastTouch(w, c, k) <= LastTouch(w, c, n)
<1>1. /\ LastTouch(w, c, k) \in 0..k
      /\ LastTouch(w, c, k) # 0 => c \in w[LastTouch(w, c, k)]
  BY LastTouchOf
<1>2. /\ LastTouch(w, c, n) \in 0..n
      /\ \A m \in 1..n : c \in w[m] => m <= LastTouch(w, c, n)
  BY LastTouchOf
<1> QED
  BY <1>1, <1>2

\* The next write: a cell it touches, and one it does not.
LEMMA LastTouchNext ==
  ASSUME NEW w, NEW c, NEW n \in Nat
  PROVE  LastTouch(w, c, n + 1) = IF c \in w[n + 1] THEN n + 1 ELSE LastTouch(w, c, n)
<1> DEFINE S == {0} \cup {m \in 1..(n + 1) : c \in w[m]}
<1>1. CASE c \in w[n + 1]
  <2>1. S \in SUBSET Int /\ n + 1 \in S /\ \A y \in S : y <= n + 1
    BY <1>1
  <2>2. Max(S) = n + 1
    BY <2>1, MaxIs, Zenon
  <2> QED
    BY <1>1, <2>2 DEF LastTouch
<1>2. CASE c \notin w[n + 1]
  <2>1. S = {0} \cup {m \in 1..n : c \in w[m]}
    BY <1>2
  <2> QED
    BY <1>2, <2>1, Zenon DEF LastTouch
<1> QED
  BY <1>1, <1>2

\* d holds exactly the first n writes of w.
Holds(w, d, n) == \A c \in Cell : d[c].n = LastTouch(w, c, n)

\* The last write of w to a column family with fsync.
LastSyncedIn(w) == Max({0} \cup {m \in DOMAIN w : \E c \in w[m] : RequiresFsync(c[1])})

LEMMA HoldsIsAfter ==
  /\ \A d, n : After(d, n) <=> Holds(written, d, n)
  /\ LastSynced = LastSyncedIn(written)
BY DEF After, Holds, LastTouch, LastSynced, LastSyncedIn

LEMMA HoldsPrefix ==
  ASSUME NEW w, NEW v, NEW n \in Nat, \A m \in 1..n : w[m] = v[m], NEW d
  PROVE  Holds(w, d, n) <=> Holds(v, d, n)
<1>1. \A c \in Cell : LastTouch(w, c, n) = LastTouch(v, c, n)
  BY LastTouchPrefix
<1> QED
  BY <1>1 DEF Holds

LEMMA LastSyncedOf ==
  ASSUME NEW w \in Seq(SUBSET Cell)
  PROVE  LastSyncedIn(w) \in 0..Len(w)
<1> DEFINE S == {0} \cup {m \in DOMAIN w : \E c \in w[m] : RequiresFsync(c[1])}
<1>1. S \in SUBSET (0..Len(w)) /\ S # {} /\ Len(w) \in Nat
  OBVIOUS
<1>2. Max(S) \in S
  BY <1>1, MaxOf, Zenon
<1> QED
  BY <1>1, <1>2 DEF LastSyncedIn

\* A database that holds n writes names n: this is how many of them a crash left.
LEMMA GreatestWrite ==
  ASSUME NEW w \in Seq(SUBSET Cell), \A m \in DOMAIN w : w[m] # {},
         NEW n \in 0..Len(w), NEW d, Holds(w, d, n)
  PROVE  Max({d[c].n : c \in Cell}) = n
<1> DEFINE S == {d[c].n : c \in Cell}
<1>1. \A c \in Cell : d[c].n \in 0..n
  BY LastTouchOf DEF Holds
<1>2. n \in S
  <2>1. CASE n = 0
    <3>0. PICK f \in Cf : TRUE
      BY CellsAssumption
    <3>1. 1 \in Key
      BY CellsAssumption DEF Key
    <3>2. PICK c \in Cell : c = <<f, 1>>
      BY <3>1, Zenon DEF Cell
    <3>3. d[c].n \in 0..0
      BY <1>1, <2>1
    <3> QED
      BY <2>1, <3>3
  <2>2. CASE n # 0
    <3>1. n \in DOMAIN w /\ n \in 1..n
      BY <2>2
    <3>2. PICK c \in w[n] : TRUE
      BY <3>1
    <3>3. c \in Cell
      BY <3>1, <3>2
    <3>4. n <= LastTouch(w, c, n) /\ LastTouch(w, c, n) \in 0..n
      BY <3>1, <3>2, LastTouchOf
    <3>5. LastTouch(w, c, n) = n
      BY <3>4
    <3> QED
      BY <3>3, <3>5 DEF Holds
  <2> QED
    BY <2>1, <2>2
<1>3. S \in SUBSET Int /\ \A y \in S : y <= n
  BY <1>1
<1> QED
  BY <1>2, <1>3, MaxIs, Zenon

LEMMA CellsOf ==
  ASSUME NEW ops \in Seq(Operation)
  PROVE  {ops[i].cell : i \in DOMAIN ops} \in SUBSET Cell
<1>1. \A o \in Operation : o.cell \in Cell
  BY DEF Operation
<1> QED
  BY <1>1

\* What a write leaves: the database holds it too, and every other one as many writes
\* as before.
LEMMA ApplyHolds ==
  ASSUME NEW w \in Seq(SUBSET Cell), NEW d, Holds(w, d, Len(w)),
         NEW ops \in Seq(Operation)
  PROVE  Holds(Append(w, {ops[i].cell : i \in DOMAIN ops}), Apply(d, ops, Len(w) + 1), Len(w) + 1)
<1> DEFINE cells == {ops[i].cell : i \in DOMAIN ops}
           v == Append(w, cells)
<1>1. /\ Len(w) \in Nat /\ v[Len(w) + 1] = cells /\ \A m \in 1..Len(w) : v[m] = w[m]
  <2>1. cells \in SUBSET Cell
    BY CellsOf
  <2> HIDE DEF cells
  <2> QED
    BY <2>1
<1>2. ASSUME NEW c \in Cell
      PROVE  Apply(d, ops, Len(w) + 1)[c].n = LastTouch(v, c, Len(w) + 1)
  <2>1. c \in cells <=> {i \in DOMAIN ops : ops[i].cell = c} # {}
    OBVIOUS
  <2>2. Apply(d, ops, Len(w) + 1)[c].n = IF c \in cells THEN Len(w) + 1 ELSE d[c].n
    BY <2>1 DEF Apply
  <2>3. LastTouch(v, c, Len(w) + 1) = IF c \in cells THEN Len(w) + 1 ELSE LastTouch(v, c, Len(w))
    <3> HIDE DEF v, cells
    <3> QED
      BY <1>1, LastTouchNext, Zenon
  <2>4. LastTouch(v, c, Len(w)) = LastTouch(w, c, Len(w))
    <3> HIDE DEF v, cells
    <3> QED
      BY <1>1, LastTouchPrefix
  <2> HIDE DEF v, cells
  <2> QED
    BY <2>2, <2>3, <2>4 DEF Holds
<1> QED
  BY <1>2 DEF Holds

\* An unsynced write changes nothing of what is synced.
LEMMA SyncedSame ==
  ASSUME NEW w \in Seq(SUBSET Cell), NEW cells \in SUBSET Cell, \A c \in cells : ~RequiresFsync(c[1])
  PROVE  LastSyncedIn(Append(w, cells)) = LastSyncedIn(w)
<1> DEFINE v == Append(w, cells)
<1>1. /\ DOMAIN v = 1..(Len(w) + 1) /\ DOMAIN w = 1..Len(w) /\ Len(w) \in Nat
      /\ v[Len(w) + 1] = cells /\ \A m \in 1..Len(w) : v[m] = w[m]
  OBVIOUS
<1> HIDE DEF v
<1>2. {m \in DOMAIN v : \E c \in v[m] : RequiresFsync(c[1])}
        = {m \in DOMAIN w : \E c \in w[m] : RequiresFsync(c[1])}
  BY <1>1
<1> QED
  BY <1>2, Zenon DEF LastSyncedIn, v


-----------------------------------------------------------------------------
\* What a crash may leave.

\* n writes are as many as may not be lost: the synced ones and those of a checkpoint.
Kept(w, ok, now, n) ==
  /\ LastSyncedIn(w) <= n
  /\ \A p \in Path : ok[p] <= n
  /\ \A t \in Thread : now[t].op = "snapshot" => now[t].n <= n

\* Every state a crash may leave holds a number of whole writes, and a checkpoint the
\* writes that were made when it was taken.
WalInv ==
  /\ written \in Seq(SUBSET Cell) /\ \A m \in DOMAIN written : written[m] # {}
  /\ Holds(written, db, Len(written)) /\ Kept(written, taken, call, Len(written))
  /\ \A d \in survivors : \E n \in 0..Len(written) : Holds(written, d, n) /\ Kept(written, taken, call, n)
  /\ DOMAIN call = Thread /\ DOMAIN checkpoint = Path /\ taken \in [Path -> Int]
  /\ \A t \in Thread : "op" \in DOMAIN call[t]
  /\ \A p \in Path : {"st", "db"} \subseteq DOMAIN checkpoint[p]
  /\ \A p \in Path : taken[p] # NotTaken =>
       /\ taken[p] \in 0..Len(written)
       /\ checkpoint[p].st = "synced" /\ Holds(written, checkpoint[p].db, taken[p])
  /\ \A t \in Thread : call[t].op = "snapshot" =>
       /\ call[t].path \in Path /\ call[t].n \in 0..Len(written)
       /\ checkpoint[call[t].path].st # "none"
       /\ Holds(written, checkpoint[call[t].path].db, call[t].n)

LEMMA WalInit == Init => WalInv
<1> SUFFICES ASSUME Init PROVE WalInv
  OBVIOUS
<1>1. /\ db = EmptyDb /\ survivors = {EmptyDb} /\ written = <<>>
      /\ checkpoint = [p \in Path |-> NoCheckpoint] /\ call = [t \in Thread |-> Idle]
      /\ taken = [p \in Path |-> NotTaken]
  BY DEF Init
<1>2. written \in Seq(SUBSET Cell) /\ Len(written) = 0 /\ DOMAIN written = {}
  BY <1>1
<1>3. Holds(written, EmptyDb, 0)
  <2>1. \A c \in Cell : LastTouch(written, c, 0) \in 0..0
    BY LastTouchOf
  <2>2. \A c \in Cell : EmptyDb[c].n = 0
    BY DEF EmptyDb, Clean
  <2> QED
    BY <2>1, <2>2 DEF Holds
<1>4. Kept(written, taken, call, 0)
  <2>1. LastSyncedIn(written) \in 0..0
    BY <1>2, LastSyncedOf, Zenon
  <2>2. \A p \in Path : taken[p] = -1
    BY <1>1 DEF NotTaken
  <2> QED
    BY <1>1, <2>1, <2>2 DEF Kept, Idle
<1>5. /\ \A t \in Thread : "op" \in DOMAIN call[t] /\ call[t].op # "snapshot"
      /\ \A p \in Path : {"st", "db"} \subseteq DOMAIN checkpoint[p]
  BY <1>1 DEF Idle, NoCheckpoint
<1> QED
  BY <1>1, <1>2, <1>3, <1>4, <1>5 DEF WalInv, NotTaken

\* Calls that neither write nor take a checkpoint.
LEMMA WalQuiet ==
  ASSUME WalInv, UNCHANGED <<db, survivors, checkpoint, written, taken>>, DOMAIN call' = Thread,
         \A t \in Thread : "op" \in DOMAIN call'[t] /\ (call'[t].op = "snapshot" => call'[t] = call[t])
  PROVE  WalInv'
<1>1. \A n : Kept(written, taken, call, n) => Kept(written', taken', call', n)
  BY DEF Kept
<1> QED
  BY <1>1 DEF WalInv

LEMMA WalFlush ==
  ASSUME WalInv, UNCHANGED <<db, checkpoint, call, written, taken>>, survivors' = {db}
  PROVE  WalInv'
<1>1. \A n : Kept(written, taken, call, n) => Kept(written', taken', call', n)
  BY DEF Kept
<1>2. Len(written) \in 0..Len(written)
  BY DEF WalInv
<1> QED
  BY <1>1, <1>2 DEF WalInv

\* The writes that stay, when some are added or lost, are the same.
LEMMA WalSamePrefix ==
  ASSUME WalInv, NEW k \in Nat, \A m \in 1..k : written'[m] = written[m]
  PROVE  \A d : \A n \in 0..k : Holds(written, d, n) => Holds(written', d, n)
<1> SUFFICES ASSUME NEW d, NEW n \in 0..k, Holds(written, d, n) PROVE Holds(written', d, n)
  OBVIOUS
<1>1. n \in Nat /\ \A m \in 1..n : written'[m] = written[m]
  OBVIOUS
<1> QED
  BY <1>1, HoldsPrefix

LEMMA WalWrite ==
  ASSUME WalInv, NEW ops \in Seq(Operation), Len(ops) > 0, Write(ops),
         UNCHANGED <<checkpoint, call, taken>>
  PROVE  WalInv'
<1> DEFINE cells == {ops[i].cell : i \in DOMAIN ops}
           len == Len(written)
           d == Apply(db, ops, len + 1)
<1>1. /\ db' = d /\ written' = Append(written, cells)
      /\ survivors' = IF BatchRequiresFsync(ops) THEN {d} ELSE survivors \cup {d}
  BY DEF Write
<1>2. /\ cells \in SUBSET Cell /\ cells # {}
      /\ BatchRequiresFsync(ops) <=> \E c \in cells : RequiresFsync(c[1])
  <2>1. cells \in SUBSET Cell
    BY CellsOf
  <2>2. 1 \in DOMAIN ops
    OBVIOUS
  <2> QED
    BY <2>1, <2>2 DEF BatchRequiresFsync
<1>3. Holds(written', db', len + 1)
  BY <1>1, ApplyHolds, Zenon DEF WalInv
<1> HIDE DEF cells, d
<1>4. /\ written' \in Seq(SUBSET Cell) /\ Len(written') = len + 1 /\ len \in Nat
      /\ \A m \in 1..len : written'[m] = written[m]
      /\ \A m \in DOMAIN written' : written'[m] # {}
  BY <1>1, <1>2 DEF WalInv
<1>5. \A e : \A n \in 0..len : Holds(written, e, n) => Holds(written', e, n)
  BY <1>4, WalSamePrefix, SMTT(30)
<1>6. Kept(written', taken', call', len + 1)
  <2>1. LastSyncedIn(written') <= len + 1
    BY <1>4, LastSyncedOf
  <2>2. \A p \in Path : taken[p] <= len + 1
    BY <1>4 DEF WalInv, Kept
  <2>3. \A t \in Thread : call[t].op = "snapshot" => call[t].n <= len + 1
    BY <1>4 DEF WalInv, Kept
  <2> QED
    BY <2>1, <2>2, <2>3 DEF Kept
<1>7. \A e \in survivors' : \E n \in 0..(len + 1) : Holds(written', e, n) /\ Kept(written', taken', call', n)
  <2>1. \A n : ~BatchRequiresFsync(ops) /\ Kept(written, taken, call, n) => Kept(written', taken', call', n)
    <3>1. ~BatchRequiresFsync(ops) => LastSyncedIn(written') = LastSyncedIn(written)
      BY <1>1, <1>2, SyncedSame, SMTT(30) DEF WalInv
    <3> QED
      BY <3>1 DEF Kept
  <2>2. \A e \in survivors : ~BatchRequiresFsync(ops) =>
          \E n \in 0..(len + 1) : Holds(written', e, n) /\ Kept(written', taken', call', n)
    <3> SUFFICES ASSUME NEW e \in survivors, ~BatchRequiresFsync(ops)
                 PROVE  \E n \in 0..(len + 1) : Holds(written', e, n) /\ Kept(written', taken', call', n)
      OBVIOUS
    <3>1. PICK n \in 0..len : Holds(written, e, n) /\ Kept(written, taken, call, n)
      BY DEF WalInv
    <3>2. n \in 0..(len + 1)
      BY <1>4
    <3> QED
      BY <1>5, <2>1, <3>1, <3>2
  <2>3. len + 1 \in 0..(len + 1)
    BY <1>4
  <2> QED
    BY <1>1, <1>3, <1>6, <2>2, <2>3
<1>8. \A n \in 0..len : n \in 0..(len + 1)
  BY <1>4
<1> QED
  BY <1>3, <1>4, <1>5, <1>6, <1>7, <1>8 DEF WalInv


\* A crash: of the writes those are left that the database it left holds.
LEMMA WalCrash == ASSUME WalInv, Crash PROVE WalInv'
<1>1. /\ db' \in survivors /\ survivors' = {db'} /\ call' = [t \in Thread |-> Idle] /\ taken' = taken
      /\ written' = SubSeq(written, 1, Max({db'[c].n : c \in Cell}))
  BY DEF Crash
<1>2. PICK lost \in SUBSET {p \in Path : checkpoint[p].st = "renamed"} :
         checkpoint' = [p \in Path |-> IF p \in lost THEN NoCheckpoint ELSE checkpoint[p]]
  BY Zenon DEF Crash
<1>3. PICK n \in 0..Len(written) : Holds(written, db', n) /\ Kept(written, taken, call, n)
  BY <1>1 DEF WalInv
<1>4. written' = SubSeq(written, 1, n)
  <2>1. /\ written \in Seq(SUBSET Cell) /\ \A m \in DOMAIN written : written[m] # {}
    BY DEF WalInv
  <2>2. \A d : Holds(written, d, n) => Max({d[c].n : c \in Cell}) = n
    BY <2>1, GreatestWrite, SMTT(30)
  <2>3. Max({db'[c].n : c \in Cell}) = n
    BY <1>3, <2>2, Zenon
  <2> QED
    BY <1>1, <2>3, Zenon
<1>5. /\ written' \in Seq(SUBSET Cell) /\ Len(written') = n /\ n \in Nat
      /\ \A m \in 1..n : written'[m] = written[m] /\ written[m] # {}
  <2>1. written \in Seq(SUBSET Cell) /\ Len(written) \in Nat /\ DOMAIN written = 1..Len(written)
    BY DEF WalInv
  <2>2. n \in Nat /\ n <= Len(written) /\ \A m \in 1..n : m \in DOMAIN written
    BY <2>1
  <2>3. \A m \in 1..n : written[m] # {}
    BY <2>2, SMTT(30) DEF WalInv
  <2>4. /\ written' \in Seq(SUBSET Cell) /\ Len(written') = n
        /\ \A m \in 1..n : written'[m] = written[m]
    BY <1>4, <2>1, <2>2
  <2> QED
    BY <2>2, <2>3, <2>4
<1>6. \A e : \A k \in 0..n : Holds(written, e, k) => Holds(written', e, k)
  BY <1>5, WalSamePrefix
<1>7. n \in 0..n /\ Holds(written', db', n)
  BY <1>3, <1>5, <1>6
<1>8. \A t \in Thread : "op" \in DOMAIN call'[t] /\ call'[t].op # "snapshot"
  BY <1>1 DEF Idle
<1>9. \A p \in Path : taken[p] <= n
  BY <1>3 DEF Kept
<1>10. Kept(written', taken', call', n)
  <2>1. LastSyncedIn(written') <= n
    BY <1>5, LastSyncedOf
  <2> QED
    BY <1>1, <1>8, <1>9, <2>1 DEF Kept
<1>11. /\ DOMAIN checkpoint' = Path
       /\ \A p \in Path : {"st", "db"} \subseteq DOMAIN checkpoint'[p]
       /\ \A p \in Path : checkpoint[p].st = "synced" => checkpoint'[p] = checkpoint[p]
  BY <1>2 DEF WalInv, NoCheckpoint
<1>12. ASSUME NEW p \in Path, taken[p] # NotTaken
       PROVE  /\ taken[p] \in 0..n
              /\ checkpoint'[p].st = "synced" /\ Holds(written', checkpoint'[p].db, taken[p])
  <2>1. /\ taken[p] \in 0..Len(written)
        /\ checkpoint[p].st = "synced" /\ Holds(written, checkpoint[p].db, taken[p])
    BY <1>12 DEF WalInv
  <2>2. taken[p] \in 0..n
    BY <1>5, <1>9, <2>1
  <2> QED
    BY <1>6, <1>11, <2>1, <2>2
<1>13. \A m \in DOMAIN written' : written'[m] # {}
  BY <1>5, SMTT(30)
<1> QED
  BY <1>1, <1>5, <1>7, <1>8, <1>10, <1>11, <1>12, <1>13, Zenon DEF WalInv

\* A new checkpoint: nothing written so far can be lost.
LEMMA WalCreate ==
  ASSUME WalInv, NEW t \in Thread, NEW p \in Path, CreateSnapshot(t, p)
  PROVE  WalInv'
<1> DEFINE len == Len(written)
<1>1. /\ checkpoint[p].st = "none" /\ survivors' = {db} /\ UNCHANGED <<db, written, taken>>
      /\ checkpoint' = [checkpoint EXCEPT ![p] = [st |-> "renamed", db |-> db]]
      /\ call' = [call EXCEPT ![t] = [op |-> "snapshot", path |-> p, n |-> len]]
  BY DEF CreateSnapshot
<1>2. len \in Nat /\ len \in 0..len
  BY DEF WalInv
<1>3. /\ DOMAIN checkpoint' = Path /\ DOMAIN call' = Thread
      /\ checkpoint'[p] = [st |-> "renamed", db |-> db]
      /\ \A q \in Path : q # p => checkpoint'[q] = checkpoint[q]
      /\ call'[t] = [op |-> "snapshot", path |-> p, n |-> len]
      /\ \A u \in Thread : u # t => call'[u] = call[u]
  BY <1>1, SMTT(30) DEF WalInv
<1>4. Kept(written', taken', call', len)
  <2>1. \A u \in Thread : call'[u].op = "snapshot" => call'[u].n <= len
    BY <1>2, <1>3, SMTT(30) DEF WalInv, Kept
  <2> QED
    BY <1>1, <2>1, SMTT(30) DEF WalInv, Kept
<1>5. ASSUME NEW q \in Path, taken[q] # NotTaken
      PROVE  /\ taken[q] \in 0..len /\ checkpoint'[q].st = "synced"
             /\ Holds(written, checkpoint'[q].db, taken[q])
  <2>1. q # p
    BY <1>1, <1>5, SMTT(30) DEF WalInv
  <2> QED
    BY <1>3, <1>5, <2>1 DEF WalInv
<1>6. ASSUME NEW u \in Thread, call'[u].op = "snapshot"
      PROVE  /\ call'[u].path \in Path /\ call'[u].n \in 0..len
             /\ checkpoint'[call'[u].path].st # "none"
             /\ Holds(written, checkpoint'[call'[u].path].db, call'[u].n)
  <2>1. CASE u = t
    BY <1>2, <1>3, <2>1, SMTT(30) DEF WalInv
  <2>2. CASE u # t
    <3>1. /\ call'[u] = call[u] /\ call[u].op = "snapshot" /\ call[u].path \in Path
          /\ checkpoint[call[u].path].st # "none" /\ call[u].n \in 0..len
          /\ Holds(written, checkpoint[call[u].path].db, call[u].n)
      BY <1>3, <1>6, <2>2, SMTT(30) DEF WalInv
    <3>2. checkpoint'[call[u].path] = checkpoint[call[u].path]
      BY <1>1, <1>3, <3>1
    <3> QED
      BY <3>1, <3>2, SMTT(30)
  <2> QED
    BY <2>1, <2>2, SMTT(30)
<1>7. /\ \A u \in Thread : "op" \in DOMAIN call'[u]
      /\ \A q \in Path : {"st", "db"} \subseteq DOMAIN checkpoint'[q]
  <2>1. "op" \in DOMAIN call'[t] /\ {"st", "db"} \subseteq DOMAIN checkpoint'[p]
    BY <1>3, SMTT(30)
  <2>2. /\ \A u \in Thread : u # t => "op" \in DOMAIN call'[u]
        /\ \A q \in Path : q # p => {"st", "db"} \subseteq DOMAIN checkpoint'[q]
    BY <1>3, SMTT(30) DEF WalInv
  <2> QED
    BY <2>1, <2>2
<1>8. /\ UNCHANGED <<db, written, taken>> /\ DOMAIN checkpoint' = Path /\ DOMAIN call' = Thread
      /\ \A d \in survivors' : d = db
  BY <1>1, <1>3
<1>9. \A d \in survivors' : \E n \in 0..len : Holds(written, d, n) /\ Kept(written', taken', call', n)
  BY <1>2, <1>4, <1>8 DEF WalInv
<1> QED
  BY <1>4, <1>5, <1>6, <1>7, <1>8, <1>9, SMTT(30) DEF WalInv

\* Ok is returned for a checkpoint once it cannot be lost.
LEMMA WalSync ==
  ASSUME WalInv, NEW t \in Thread, SyncParent(t)
  PROVE  WalInv'
<1> DEFINE p == call[t].path
<1>1. /\ call[t].op = "snapshot" /\ UNCHANGED <<db, survivors, written>>
      /\ checkpoint' = [checkpoint EXCEPT ![p].st = "synced"]
      /\ taken' = [taken EXCEPT ![p] = call[t].n]
      /\ call' = [call EXCEPT ![t] = Idle]
  BY DEF SyncParent
<1>2. p \in Path /\ call[t].n \in 0..Len(written) /\ Holds(written, checkpoint[p].db, call[t].n)
  BY <1>1 DEF WalInv
<1>3. /\ taken' \in [Path -> Int] /\ taken'[p] = call[t].n
      /\ \A q \in Path : q # p => taken'[q] = taken[q]
  BY <1>1, <1>2 DEF WalInv
<1>4. /\ DOMAIN checkpoint' = Path /\ checkpoint'[p].st = "synced" /\ checkpoint'[p].db = checkpoint[p].db
      /\ \A q \in Path : q # p => checkpoint'[q] = checkpoint[q]
      /\ \A q \in Path : {"st", "db"} \subseteq DOMAIN checkpoint'[q]
  BY <1>1, <1>2 DEF WalInv
<1>5. /\ DOMAIN call' = Thread /\ call'[t].op # "snapshot" /\ "op" \in DOMAIN call'[t]
      /\ \A u \in Thread : u # t => call'[u] = call[u]
  BY <1>1 DEF WalInv, Idle
<1> HIDE DEF p
<1>6. \A n : Kept(written, taken, call, n) => Kept(written', taken', call', n)
  <2> SUFFICES ASSUME NEW n, Kept(written, taken, call, n) PROVE Kept(written', taken', call', n)
    OBVIOUS
  <2>1. \A q \in Path : taken'[q] <= n
    BY <1>1, <1>3 DEF Kept
  <2>2. \A u \in Thread : call'[u].op = "snapshot" => call'[u].n <= n
    BY <1>5 DEF Kept
  <2> QED
    BY <1>1, <2>1, <2>2 DEF Kept
<1>7. ASSUME NEW q \in Path, taken'[q] # NotTaken
      PROVE  /\ taken'[q] \in 0..Len(written) /\ checkpoint'[q].st = "synced"
             /\ Holds(written, checkpoint'[q].db, taken'[q])
  <2>1. CASE q = p
    BY <1>2, <1>3, <1>4, <2>1, SMTT(30)
  <2>2. CASE q # p
    BY <1>3, <1>4, <1>7, <2>2, SMTT(30) DEF WalInv
  <2> QED
    BY <2>1, <2>2
<1>8. ASSUME NEW u \in Thread, call'[u].op = "snapshot"
      PROVE  /\ call'[u].path \in Path /\ call'[u].n \in 0..Len(written)
             /\ checkpoint'[call'[u].path].st # "none"
             /\ Holds(written, checkpoint'[call'[u].path].db, call'[u].n)
  <2>1. /\ call'[u] = call[u] /\ call[u].op = "snapshot" /\ call[u].path \in Path
        /\ checkpoint[call[u].path].st # "none" /\ call[u].n \in 0..Len(written)
        /\ Holds(written, checkpoint[call[u].path].db, call[u].n)
    BY <1>5, <1>8, SMTT(30) DEF WalInv
  <2>2. CASE call[u].path = p
    BY <1>4, <2>1, <2>2
  <2>3. CASE call[u].path # p
    BY <1>4, <2>1, <2>3, SMTT(30)
  <2> QED
    BY <2>2, <2>3
<1>9. \A u \in Thread : "op" \in DOMAIN call'[u]
  BY <1>5 DEF WalInv
<1> QED
  BY <1>1, <1>3, <1>4, <1>5, <1>6, <1>7, <1>8, <1>9, Zenon DEF WalInv


-----------------------------------------------------------------------------
\* Scans.

\* The keys a scan has to return, and what it returns for them.
InRange(c) == {k \in Present(c.view) : c.lo <= k /\ k <= c.hi}
Entries(c) == {[key |-> k, n |-> c.view[k].n] : k \in InRange(c)}

\* The iterator has moved past key k.
Passed(c, k) == c.pos = 0 \/ (IF c.back THEN c.pos < k ELSE k < c.pos)

\* What has been returned are the keys the iterator has passed, in its order.
ScanOk(c) ==
  /\ {"op", "view", "lo", "hi", "back", "got", "pos"} \subseteq DOMAIN c
  /\ c.back \in BOOLEAN /\ c.lo \in Key /\ c.hi \in 0..MaxKey
  /\ c.back => c.lo = 1 /\ c.op # "range"
  /\ c.op = "scan" /\ ~c.back => c.hi = MaxKey
  /\ c.got \in Seq(Entries(c))
  /\ \A i, j \in DOMAIN c.got : i < j =>
       IF c.back THEN c.got[j].key < c.got[i].key ELSE c.got[i].key < c.got[j].key
  /\ \A k \in InRange(c) : Passed(c, k) <=> \E i \in DOMAIN c.got : c.got[i].key = k
  /\ c.pos # 0 => c.pos \in Present(c.view) /\ (IF c.back THEN c.pos <= c.hi ELSE c.lo <= c.pos)
  /\ c.op = "done" => \A k \in InRange(c) : Passed(c, k)

LEMMA SeekOf ==
  ASSUME NEW view, NEW k \in Int
  PROVE  LET s == Seek(view, k)
         IN  \/ s = 0 /\ \A j \in Present(view) : j < k
             \/ s \in Present(view) /\ k <= s /\ \A j \in Present(view) : k <= j => s <= j
<1> DEFINE S == {j \in Present(view) : j >= k}
<1>1. Present(view) \subseteq Nat
  BY CellsAssumption DEF Present, Key
<1>2. CASE S = {}
  <2>1. \A j \in Present(view) : j < k
    BY <1>1, <1>2
  <2> QED
    BY <1>2, <2>1 DEF Seek
<1>3. CASE S # {}
  <2>1. Min(S) \in S /\ \A j \in S : Min(S) <= j
    BY <1>1, <1>3, MinOf
  <2>2. Seek(view, k) = Min(S)
    BY <1>3 DEF Seek
  <2>3. \A j \in Present(view) : k <= j => j \in S
    BY <1>1
  <2>4. Min(S) \in Present(view) /\ k <= Min(S)
    BY <1>1, <2>1
  <2> HIDE DEF S
  <2> QED
    BY <2>1, <2>2, <2>3, <2>4
<1> QED
  BY <1>2, <1>3

LEMMA SeekForPrevOf ==
  ASSUME NEW view, NEW k \in Int
  PROVE  LET s == SeekForPrev(view, k)
         IN  \/ s = 0 /\ \A j \in Present(view) : k < j
             \/ s \in Present(view) /\ s <= k /\ \A j \in Present(view) : j <= k => j <= s
<1> DEFINE S == {j \in Present(view) : j <= k}
<1>1. Present(view) \subseteq 0..MaxKey /\ MaxKey \in Nat
  BY CellsAssumption DEF Present, Key
<1>2. CASE S = {}
  <2>1. \A j \in Present(view) : k < j
    BY <1>1, <1>2
  <2> QED
    BY <1>2, <2>1 DEF SeekForPrev
<1>3. CASE S # {}
  <2>1. Max(S) \in S /\ \A j \in S : j <= Max(S)
    BY <1>1, <1>3, MaxOf, Zenon
  <2>2. SeekForPrev(view, k) = Max(S)
    BY <1>3 DEF SeekForPrev
  <2>3. \A j \in Present(view) : j <= k => j \in S
    BY <1>1
  <2>4. Max(S) \in Present(view) /\ Max(S) <= k
    BY <1>1, <2>1, SMTT(30)
  <2> HIDE DEF S
  <2> QED
    BY <2>1, <2>2, <2>3, <2>4
<1> QED
  BY <1>2, <1>3

\* A new iterator has passed nothing.
LEMMA ScanStart ==
  ASSUME NEW op \in {"scan", "range"}, NEW cf \in Cf, NEW lo \in Key, NEW hi \in 0..MaxKey,
         NEW back \in BOOLEAN, back => lo = 1 /\ op # "range", op = "scan" /\ ~back => hi = MaxKey
  PROVE  ScanOk(Scan(op, cf, lo, hi, back)) /\ Scan(op, cf, lo, hi, back).op = op
<1> DEFINE view == [k \in Key |-> db[<<cf, k>>]]
           c == Scan(op, cf, lo, hi, back)
           pos == IF back THEN SeekForPrev(view, hi) ELSE Seek(view, lo)
<1>1. /\ {"op", "view", "lo", "hi", "back", "got", "pos"} \subseteq DOMAIN c
      /\ c.op = op /\ c.view = view /\ c.lo = lo /\ c.hi = hi /\ c.back = back /\ c.got = <<>>
      /\ c.pos = pos
  BY DEF Scan
<1> HIDE DEF c, view
<1>2. Present(view) \subseteq Key /\ Key \subseteq Int /\ lo \in Int /\ hi \in Int /\ 0 \notin Key
  BY CellsAssumption DEF Present, Key
<1>3. ASSUME back
      PROVE  \/ pos = 0 /\ \A j \in Present(view) : hi < j
             \/ pos \in Present(view) /\ pos <= hi /\ \A j \in Present(view) : j <= hi => j <= pos
  BY <1>2, <1>3, SeekForPrevOf
<1>4. ASSUME ~back
      PROVE  \/ pos = 0 /\ \A j \in Present(view) : j < lo
             \/ pos \in Present(view) /\ lo <= pos /\ \A j \in Present(view) : lo <= j => pos <= j
  BY <1>2, <1>4, SeekOf
<1> HIDE DEF pos
<1>5. pos # 0 => pos \in Present(view) /\ (IF back THEN pos <= hi ELSE lo <= pos)
  BY <1>3, <1>4
<1>6. ASSUME NEW k \in Present(view), lo <= k, k <= hi
      PROVE  pos # 0 /\ ~(IF back THEN pos < k ELSE k < pos)
  <2>1. k \in Int /\ (pos \in Present(view) => pos \in Int /\ pos # 0)
    BY <1>2, Zenon
  <2>2. ~(hi < k) /\ ~(k < lo)
    BY <1>2, <1>6, <2>1
  <2>3. CASE back
    BY <1>3, <1>6, <2>1, <2>2, <2>3
  <2>4. CASE ~back
    BY <1>4, <1>6, <2>1, <2>2, <2>4
  <2> QED
    BY <2>3, <2>4
<1>7. \A k \in InRange(c) : ~Passed(c, k)
  BY <1>1, <1>6 DEF InRange, Passed
<1>8. c.got \in Seq(Entries(c)) /\ DOMAIN c.got = {}
  BY <1>1
<1> QED
  BY <1>1, <1>5, <1>7, <1>8, SMTT(30) DEF ScanOk, c


\* The key at the iterator is returned and passed.
LEMMA ScanReturns ==
  ASSUME NEW c, ScanOk(c), c.op # "done", c.pos \in InRange(c), c.pos # 0, NEW p,
         p # 0 => p \in Present(c.view) /\ (IF c.back THEN p <= c.hi ELSE c.lo <= p),
         \A k \in InRange(c) :
           p = 0 \/ (IF c.back THEN p < k ELSE k < p) <=> Passed(c, k) \/ k = c.pos,
         NEW e, e = [c EXCEPT !.got = Append(c.got, [key |-> c.pos, n |-> c.view[c.pos].n]), !.pos = p]
  PROVE  ScanOk(e) /\ e.op = c.op
<1> DEFINE entry == [key |-> c.pos, n |-> c.view[c.pos].n]
           len == Len(c.got)
<1>1. /\ {"op", "view", "lo", "hi", "back", "got", "pos"} \subseteq DOMAIN e
      /\ e.op = c.op /\ e.view = c.view /\ e.lo = c.lo /\ e.hi = c.hi /\ e.back = c.back
      /\ e.got = Append(c.got, entry) /\ e.pos = p
  BY DEF ScanOk
<1>2. InRange(e) = InRange(c) /\ Entries(e) = Entries(c)
  BY <1>1 DEF InRange, Entries
<1>3. entry \in Entries(c) /\ entry.key = c.pos
  BY DEF Entries
<1> HIDE DEF entry
<1>4. /\ e.got \in Seq(Entries(c)) /\ DOMAIN e.got = 1..(len + 1) /\ len \in Nat /\ DOMAIN c.got = 1..len
      /\ e.got[len + 1] = entry /\ \A i \in 1..len : e.got[i] = c.got[i]
  BY <1>1, <1>3 DEF ScanOk
<1> HIDE DEF len
<1>5. \A i \in 1..len : c.got[i].key \in InRange(c)
  <2>1. \A i \in 1..len : c.got[i] \in Entries(c)
    BY <1>4 DEF ScanOk
  <2> QED
    BY <2>1 DEF Entries
<1>6. \A i \in 1..len : IF c.back THEN c.pos < c.got[i].key ELSE c.got[i].key < c.pos
  <2>1. \A i \in 1..len : Passed(c, c.got[i].key)
    BY <1>4, <1>5 DEF ScanOk
  <2> QED
    BY <2>1 DEF Passed
<1>7. \A i, j \in DOMAIN e.got : i < j =>
        IF e.back THEN e.got[j].key < e.got[i].key ELSE e.got[i].key < e.got[j].key
  <2> SUFFICES ASSUME NEW i \in 1..(len + 1), NEW j \in 1..(len + 1), i < j
               PROVE  IF c.back THEN e.got[j].key < e.got[i].key ELSE e.got[i].key < e.got[j].key
    BY <1>1, <1>4
  <2>1. i \in 1..len /\ e.got[i] = c.got[i]
    BY <1>4
  <2>2. CASE j = len + 1
    BY <1>3, <1>4, <1>6, <2>1, <2>2, SMTT(30)
  <2>3. CASE j # len + 1
    <3>1. j \in 1..len /\ e.got[j] = c.got[j]
      BY <1>4, <2>3
    <3> QED
      BY <1>4, <2>1, <3>1 DEF ScanOk
  <2> QED
    BY <2>2, <2>3, Zenon
<1>8. ASSUME NEW k \in InRange(c)
      PROVE  Passed(e, k) <=> \E i \in DOMAIN e.got : e.got[i].key = k
  <2>1. Passed(e, k) <=> Passed(c, k) \/ k = c.pos
    BY <1>1 DEF Passed
  <2>2. Passed(c, k) <=> \E i \in 1..len : e.got[i].key = k
    BY <1>4 DEF ScanOk
  <2>3. (\E i \in DOMAIN e.got : e.got[i].key = k) <=> (\E i \in 1..len : e.got[i].key = k) \/ k = c.pos
    <3>1. \A i \in 1..(len + 1) : i \in 1..len \/ i = len + 1
      BY <1>4
    <3>2. \A i \in 1..len : i \in 1..(len + 1)
      BY <1>4
    <3>3. len + 1 \in 1..(len + 1)
      BY <1>4
    <3> QED
      BY <1>3, <1>4, <3>1, <3>2, <3>3
  <2> QED
    BY <2>1, <2>2, <2>3, Zenon
<1>9. e.op # "done" /\ e.got \in Seq(Entries(e))
  BY <1>1, <1>2, <1>4
<1>10. /\ c.back \in BOOLEAN /\ c.lo \in Key /\ c.hi \in 0..MaxKey
       /\ c.back => c.lo = 1 /\ c.op # "range"
       /\ c.op = "scan" /\ ~c.back => c.hi = MaxKey
  BY DEF ScanOk
<1>11. e.pos # 0 => e.pos \in Present(e.view) /\ (IF e.back THEN e.pos <= e.hi ELSE e.lo <= e.pos)
  BY <1>1, SMTT(30)
<1> QED
  BY <1>1, <1>2, <1>7, <1>8, <1>9, <1>10, <1>11 DEF ScanOk

LEMMA ScanForward ==
  ASSUME NEW c, ScanOk(c), c.op \in {"scan", "range"}, ~c.back, c.pos # 0, c.pos <= c.hi
  PROVE  ScanOk(StepForward(c)) /\ StepForward(c).op = c.op
<1> DEFINE p == Seek(c.view, c.pos + 1)
<1>1. Present(c.view) \subseteq Int /\ 0 \notin Present(c.view)
  BY CellsAssumption DEF Present, Key
<1>2. c.pos \in Present(c.view) /\ c.lo <= c.pos /\ c.pos \in Int /\ c.lo \in Int
  BY <1>1, CellsAssumption DEF ScanOk, Key
<1>3. \/ p = 0 /\ \A j \in Present(c.view) : j < c.pos + 1
      \/ /\ p \in Present(c.view) /\ c.pos + 1 <= p
         /\ \A j \in Present(c.view) : c.pos + 1 <= j => p <= j
  BY <1>2, SeekOf
<1> HIDE DEF p
<1>4. p # 0 => p \in Present(c.view) /\ c.lo <= p
  BY <1>1, <1>2, <1>3
<1>5. c.pos \in InRange(c)
  BY <1>2 DEF InRange
<1>6. ASSUME NEW k \in InRange(c) PROVE p = 0 \/ k < p <=> Passed(c, k) \/ k = c.pos
  <2>1. k \in Present(c.view) /\ k \in Int
    BY <1>1 DEF InRange
  <2>2. Passed(c, k) \/ k = c.pos <=> k < c.pos + 1
    BY <1>2, <2>1 DEF Passed
  <2>3. p = 0 \/ k < p <=> k < c.pos + 1
    BY <1>1, <1>2, <1>3, <2>1
  <2> QED
    BY <2>2, <2>3
<1>7. StepForward(c) = [c EXCEPT !.got = Append(c.got, [key |-> c.pos, n |-> c.view[c.pos].n]), !.pos = p]
  BY SMTT(30) DEF StepForward, p
<1> QED
  BY <1>4, <1>5, <1>6, <1>7, ScanReturns, Zenon

LEMMA ScanBackward ==
  ASSUME NEW c, ScanOk(c), c.op \in {"scan", "range"}, c.back, c.pos # 0
  PROVE  ScanOk(StepBackward(c)) /\ StepBackward(c).op = c.op
<1> DEFINE p == SeekForPrev(c.view, c.pos - 1)
<1>1. Present(c.view) \subseteq Int /\ 0 \notin Present(c.view) /\ \A j \in Present(c.view) : 1 <= j
  BY CellsAssumption DEF Present, Key
<1>2. c.pos \in Present(c.view) /\ c.pos <= c.hi /\ c.pos \in Int /\ c.hi \in Int /\ c.lo = 1
  BY <1>1, CellsAssumption DEF ScanOk, Key
<1>3. \/ p = 0 /\ \A j \in Present(c.view) : c.pos - 1 < j
      \/ /\ p \in Present(c.view) /\ p <= c.pos - 1
         /\ \A j \in Present(c.view) : j <= c.pos - 1 => j <= p
  BY <1>2, SeekForPrevOf
<1> HIDE DEF p
<1>4. p # 0 => p \in Present(c.view) /\ p <= c.hi
  BY <1>1, <1>2, <1>3
<1>5. c.pos \in InRange(c)
  BY <1>1, <1>2 DEF InRange
<1>6. ASSUME NEW k \in InRange(c) PROVE p = 0 \/ p < k <=> Passed(c, k) \/ k = c.pos
  <2>1. k \in Present(c.view) /\ k \in Int
    BY <1>1 DEF InRange
  <2>2. Passed(c, k) \/ k = c.pos <=> c.pos - 1 < k
    BY <1>2, <2>1 DEF Passed
  <2>3. p = 0 \/ p < k <=> c.pos - 1 < k
    BY <1>1, <1>2, <1>3, <2>1
  <2> QED
    BY <2>2, <2>3
<1>7. StepBackward(c) = [c EXCEPT !.got = Append(c.got, [key |-> c.pos, n |-> c.view[c.pos].n]), !.pos = p]
  BY DEF StepBackward, p
<1> QED
  BY <1>4, <1>5, <1>6, <1>7, ScanReturns, Zenon

\* The two ways out: the iterator is at no entry, or at one past the range.
LEMMA ScanEnds ==
  ASSUME NEW c, ScanOk(c), c.op \in {"scan", "range"},
         IF c.op = "range" THEN RangeEnds(c) ELSE c.pos = 0
  PROVE  ScanOk([c EXCEPT !.op = "done"]) /\ [c EXCEPT !.op = "done"].op = "done"
<1> DEFINE e == [c EXCEPT !.op = "done"]
<1>1. /\ {"op", "view", "lo", "hi", "back", "got", "pos"} \subseteq DOMAIN e /\ e.op = "done"
      /\ e.view = c.view /\ e.lo = c.lo /\ e.hi = c.hi /\ e.back = c.back /\ e.got = c.got /\ e.pos = c.pos
  BY DEF ScanOk
<1>2. InRange(e) = InRange(c) /\ Entries(e) = Entries(c) /\ \A k : Passed(e, k) <=> Passed(c, k)
  BY <1>1 DEF InRange, Entries, Passed
<1>3. ASSUME NEW k \in InRange(c) PROVE Passed(c, k)
  <2>1. CASE c.pos = 0
    BY <2>1 DEF Passed
  <2>2. CASE c.pos # 0
    <3>1. ~c.back /\ c.pos >= c.hi + 1 /\ c.pos \in Present(c.view)
      BY <2>2, SMTT(30) DEF ScanOk, RangeEnds
    <3>2. c.pos \in Int /\ c.hi \in Int /\ k \in Int /\ k <= c.hi
      BY <3>1, CellsAssumption DEF ScanOk, InRange, Present, Key
    <3>3. k < c.pos
      BY <3>1, <3>2, SMTT(30)
    <3> QED
      BY <3>1, <3>3 DEF Passed
  <2> QED
    BY <2>1, <2>2
<1> HIDE DEF e
<1>4. ScanOk(e)
  BY <1>1, <1>2, <1>3 DEF ScanOk
<1> QED
  BY <1>1, <1>4 DEF e


\* Every iterator and range read of a thread.
ScanInv == \A t \in Thread : call[t].op \in {"scan", "range", "done"} => ScanOk(call[t])

IInv == WalInv /\ ScanInv

-----------------------------------------------------------------------------
\* The steps.

\* A thread's call moves on; no other does.
LEMMA CallStep ==
  ASSUME IInv, NEW t \in Thread, NEW c, call' = [call EXCEPT ![t] = c],
         UNCHANGED <<db, survivors, checkpoint, written, taken>>,
         c = Idle \/ (ScanOk(c) /\ c.op # "snapshot")
  PROVE  IInv'
<1>1. DOMAIN call' = Thread /\ call'[t] = c /\ \A u \in Thread : u # t => call'[u] = call[u]
  BY DEF IInv, WalInv
<1>2. "op" \in DOMAIN c /\ c.op # "snapshot" /\ (c.op \in {"scan", "range", "done"} => ScanOk(c))
  BY DEF Idle, ScanOk
<1>3. \A u \in Thread : "op" \in DOMAIN call'[u] /\ (call'[u].op = "snapshot" => call'[u] = call[u])
  <2>1. \A u \in Thread : "op" \in DOMAIN call[u]
    BY DEF IInv, WalInv
  <2> QED
    BY <1>1, <1>2, <2>1
<1>4. WalInv'
  BY <1>1, <1>3, WalQuiet DEF IInv
<1>5. ScanInv'
  BY <1>1, <1>2 DEF IInv, ScanInv
<1> QED
  BY <1>4, <1>5 DEF IInv

LEMMA StepIterator ==
  ASSUME IInv, NEW t \in Thread, NEW cf \in Cf, NEW m \in {"Start", "End", "Forward", "Reverse"},
         NEW k \in Key, Iterator(t, cf, m, k)
  PROVE  IInv'
<1>1. 1 \in Key /\ MaxKey \in 0..MaxKey /\ k \in 0..MaxKey
  BY CellsAssumption DEF Key
<1>2. UNCHANGED <<db, survivors, checkpoint, written, taken>>
  BY DEF Iterator
<1>3. PICK lo \in Key, hi \in 0..MaxKey, back \in BOOLEAN :
           /\ call' = [call EXCEPT ![t] = Scan("scan", cf, lo, hi, back)]
           /\ back => lo = 1
           /\ ~back => hi = MaxKey
  <2>1. CASE m = "Start"
    <3>1. call' = [call EXCEPT ![t] = Scan("scan", cf, 1, MaxKey, FALSE)]
      BY <2>1 DEF Iterator
    <3> QED
      BY <1>1, <3>1, Zenon
  <2>2. CASE m = "End"
    <3>1. call' = [call EXCEPT ![t] = Scan("scan", cf, 1, MaxKey, TRUE)]
      BY <2>2 DEF Iterator
    <3> QED
      BY <1>1, <3>1, Zenon
  <2>3. CASE m = "Forward"
    <3>1. call' = [call EXCEPT ![t] = Scan("scan", cf, k, MaxKey, FALSE)]
      BY <2>3 DEF Iterator
    <3> QED
      BY <1>1, <3>1, Zenon
  <2>4. CASE m = "Reverse"
    <3>1. call' = [call EXCEPT ![t] = Scan("scan", cf, 1, k, TRUE)]
      BY <2>4 DEF Iterator
    <3> QED
      BY <1>1, <3>1, Zenon
  <2> QED
    BY <2>1, <2>2, <2>3, <2>4
<1>4. ScanOk(Scan("scan", cf, lo, hi, back)) /\ Scan("scan", cf, lo, hi, back).op = "scan"
  BY <1>3, ScanStart
<1> QED
  BY <1>2, <1>3, <1>4, CallStep, Zenon

LEMMA StepRange ==
  ASSUME IInv, NEW t \in Thread, NEW cf \in Cf, NEW k \in Key, NEW end \in Key \cup {MaxKey + 1},
         GetLogRange(t, cf, k, end)
  PROVE  IInv'
<1>1. end - 1 \in 0..MaxKey
  BY CellsAssumption DEF Key
<1>2. /\ UNCHANGED <<db, survivors, checkpoint, written, taken>>
      /\ call' = [call EXCEPT ![t] = Scan("range", cf, k, end - 1, FALSE)]
  BY DEF GetLogRange
<1>3. ScanOk(Scan("range", cf, k, end - 1, FALSE)) /\ Scan("range", cf, k, end - 1, FALSE).op = "range"
  BY <1>1, ScanStart, Zenon
<1> QED
  BY <1>2, <1>3, CallStep, Zenon

LEMMA StepStep == ASSUME IInv, NEW t \in Thread, Step(t) PROVE IInv'
<1> DEFINE c == call[t]
<1>1. UNCHANGED <<db, survivors, checkpoint, written, taken>> /\ c.op \in {"scan", "range"}
  BY DEF Step
<1>2. ScanOk(c)
  BY <1>1 DEF IInv, ScanInv
<1>3. CASE IF c.op = "range" THEN RangeEnds(c) ELSE c.pos = 0
  <2>1. call' = [call EXCEPT ![t] = [c EXCEPT !.op = "done"]]
    BY <1>3, Zenon DEF Step
  <2>2. ScanOk([c EXCEPT !.op = "done"]) /\ [c EXCEPT !.op = "done"].op = "done"
    BY <1>1, <1>2, <1>3, ScanEnds
  <2> QED
    BY <1>1, <2>1, <2>2, CallStep, Zenon
<1>4. CASE ~(IF c.op = "range" THEN RangeEnds(c) ELSE c.pos = 0) /\ c.back
  <2>1. call' = [call EXCEPT ![t] = StepBackward(c)]
    BY <1>4 DEF Step
  <2>2. c.pos # 0
    BY <1>4 DEF RangeEnds
  <2>3. ScanOk(StepBackward(c)) /\ StepBackward(c).op = c.op
    BY <1>1, <1>2, <1>4, <2>2, ScanBackward
  <2> QED
    BY <1>1, <2>1, <2>3, CallStep, Zenon
<1>5. CASE ~(IF c.op = "range" THEN RangeEnds(c) ELSE c.pos = 0) /\ ~c.back
  <2>1. call' = [call EXCEPT ![t] = StepForward(c)]
    BY <1>5 DEF Step
  <2>2. c.pos # 0 /\ c.pos <= c.hi
    <3>1. c.pos # 0 /\ (c.op = "range" => ~(c.pos >= c.hi + 1))
      BY <1>5, SMTT(30) DEF RangeEnds
    <3>2. c.pos \in Key /\ c.hi \in 0..MaxKey /\ (c.op = "scan" => c.hi = MaxKey)
      BY <1>2, <1>5, <3>1, SMTT(30) DEF ScanOk, Present
    <3> QED
      BY <1>1, <3>1, <3>2, CellsAssumption DEF Key
  <2>3. ScanOk(StepForward(c)) /\ StepForward(c).op = c.op
    BY <1>1, <1>2, <1>5, <2>2, ScanForward
  <2> QED
    BY <1>1, <2>1, <2>3, CallStep, Zenon
<1> QED
  BY <1>3, <1>4, <1>5

LEMMA StepWrite ==
  ASSUME IInv,
         \/ \E kind \in {"put", "delete"}, c \in Cell : PutOrDelete(kind, c)
         \/ \E ops \in Batch : BatchWrite(ops)
  PROVE  IInv'
<1>1. PICK ops \in Seq(Operation) : Len(ops) > 0 /\ Write(ops) /\ UNCHANGED <<checkpoint, call, taken>>
  <2>1. ASSUME NEW kind \in {"put", "delete"}, NEW c \in Cell, PutOrDelete(kind, c)
        PROVE  \E ops \in Seq(Operation) :
                 Len(ops) > 0 /\ Write(ops) /\ UNCHANGED <<checkpoint, call, taken>>
    <3>1. Op(kind, c) \in Operation
      BY DEF Op, Operation
    <3>2. <<Op(kind, c)>> \in Seq(Operation) /\ Len(<<Op(kind, c)>>) > 0
      BY <3>1
    <3> QED
      BY <2>1, <3>2, Zenon DEF PutOrDelete
  <2>2. ASSUME NEW ops \in Batch, BatchWrite(ops)
        PROVE  \E o \in Seq(Operation) :
                 Len(o) > 0 /\ Write(o) /\ UNCHANGED <<checkpoint, call, taken>>
    <3>2. PICK m \in 0..(MaxOps + 1) : ops \in [1..m -> Operation]
      BY DEF Batch
    <3>3. m \in Nat
      BY BoundsAssumption
    <3>4. ops \in Seq(Operation)
      BY <3>2, <3>3
    <3>5. Len(ops) > 0
      BY <2>2, BoundsAssumption DEF BatchWrite
    <3> QED
      BY <2>2, <3>4, <3>5, SMTT(30) DEF BatchWrite
  <2> QED
    BY <2>1, <2>2
<1>2. WalInv'
  BY <1>1, WalWrite DEF IInv
<1>3. ScanInv'
  BY <1>1 DEF IInv, ScanInv
<1> QED
  BY <1>2, <1>3 DEF IInv

LEMMA StepCheckpoint ==
  ASSUME IInv, NEW t \in Thread, (\E p \in Path : CreateSnapshot(t, p)) \/ SyncParent(t)
  PROVE  IInv'
<1>1. WalInv'
  BY WalCreate, WalSync DEF IInv
<1>2. \E c : call' = [call EXCEPT ![t] = c] /\ c.op \notin {"scan", "range", "done"}
  <2>1. \A p : [op |-> "snapshot", path |-> p, n |-> Len(written)].op = "snapshot"
    OBVIOUS
  <2>2. Idle.op = "idle"
    BY DEF Idle
  <2> QED
    BY <2>1, <2>2 DEF CreateSnapshot, SyncParent
<1>3. ScanInv'
  BY <1>2 DEF IInv, WalInv, ScanInv
<1> QED
  BY <1>1, <1>3 DEF IInv

LEMMA StepProcess == ASSUME IInv, (\E o \in Options : New(o)) \/ Close \/ Crash PROVE IInv'
<1>1. CASE \E o \in Options : New(o)
  <2>1. UNCHANGED <<db, survivors, checkpoint, call, written, taken>>
    BY <1>1, SMTT(30) DEF New
  <2>2. WalInv'
    BY <2>1, WalQuiet, Zenon DEF IInv, WalInv
  <2> QED
    BY <2>1, <2>2 DEF IInv, ScanInv
<1>2. CASE Close
  <2>1. UNCHANGED <<db, checkpoint, call, written, taken>> /\ survivors' = {db}
    BY <1>2 DEF Close
  <2>2. WalInv'
    BY <2>1, WalFlush DEF IInv
  <2> QED
    BY <2>1, <2>2, Zenon DEF IInv, ScanInv
<1>3. CASE Crash
  <2>1. call' = [t \in Thread |-> Idle] /\ Idle.op = "idle"
    BY <1>3 DEF Crash, Idle
  <2>2. ScanInv'
    BY <2>1 DEF ScanInv
  <2> QED
    BY <1>3, <2>2, WalCrash DEF IInv
<1> QED
  BY <1>1, <1>2, <1>3


LEMMA NextKeeps == ASSUME IInv, [Next]_vars PROVE IInv'
<1>1. CASE UNCHANGED vars
  <2>1. UNCHANGED <<db, survivors, checkpoint, call, written, taken>>
    BY <1>1, SMTT(30) DEF vars
  <2>2. WalInv'
    BY <2>1, WalQuiet, Zenon DEF IInv, WalInv
  <2> QED
    BY <2>1, <2>2 DEF IInv, ScanInv
<1>2. ASSUME NEW t \in Thread, Drop(t) PROVE IInv'
  BY <1>2, CallStep, Zenon DEF Drop
<1> QED
  BY <1>1, <1>2, StepProcess, StepWrite, StepIterator, StepRange, StepStep, StepCheckpoint DEF Next

-----------------------------------------------------------------------------
\* The theorems.

\* The inductive invariant of Storage: what the write-ahead log can lose, what
\* checkpoints hold and how far each iterator is.
THEOREM AlwaysIInv == Spec => []IInv
<1>1. Init => IInv
  <2> SUFFICES ASSUME Init PROVE IInv
    OBVIOUS
  <2>1. \A t \in Thread : call[t].op = "idle"
    BY DEF Init, Idle
  <2> QED
    BY <2>1, WalInit DEF IInv, ScanInv
<1>2. IInv /\ [Next]_vars => IInv'
  BY NextKeeps
<1> QED
  BY <1>1, <1>2, PTL DEF Spec

\* A crash leaves the database as it was after some number of whole writes: batch_write
\* is all or nothing across column families.
THEOREM WritesAlwaysWhole == Spec => []WritesWhole
<1>1. IInv => WritesWhole
  BY HoldsIsAfter DEF IInv, WalInv, WritesWhole
<1> QED
  BY AlwaysIInv, <1>1, PTL

\* A crash never loses a write to a *_raft_state column family nor anything before it.
THEOREM SyncedAlwaysKept == Spec => []SyncedKept
<1>1. IInv => SyncedKept
  <2> SUFFICES ASSUME IInv, NEW d \in survivors, NEW c \in Cell
               PROVE  d[c].n >= LastTouch(written, c, LastSynced)
    BY Zenon DEF SyncedKept, LastTouch
  <2>1. PICK n \in 0..Len(written) : Holds(written, d, n) /\ Kept(written, taken, call, n)
    BY Zenon DEF IInv, WalInv
  <2>2. LastSynced \in 0..Len(written) /\ LastSynced <= n
    <3>1. LastSynced = LastSyncedIn(written) /\ written \in Seq(SUBSET Cell)
      BY HoldsIsAfter, Zenon DEF IInv, WalInv
    <3> QED
      BY <2>1, <3>1, LastSyncedOf, Zenon DEF Kept
  <2>3. n \in Nat /\ LastSynced \in Nat
    BY <2>2 DEF IInv, WalInv
  <2>4. LastTouch(written, c, LastSynced) <= LastTouch(written, c, n)
    BY <2>2, <2>3, LastTouchGrows
  <2>5. LastTouch(written, c, LastSynced) \in Int /\ LastTouch(written, c, n) \in Int
    BY <2>3, LastTouchOf, SMTT(30)
  <2> QED
    BY <2>1, <2>4, <2>5 DEF Holds
<1> QED
  BY AlwaysIInv, <1>1, PTL

\* A checkpoint that create_snapshot answered Ok for survives every crash, and holds
\* exactly the writes made before it.
THEOREM SnapshotsAlwaysKept == Spec => []SnapshotKept
<1>1. IInv => SnapshotKept
  <2> SUFFICES ASSUME IInv, NEW p \in Path, taken[p] # NotTaken
               PROVE  /\ checkpoint[p].st # "none" /\ taken[p] <= Len(written)
                      /\ After(checkpoint[p].db, taken[p])
    BY SMTT(30) DEF SnapshotKept
  <2>1. /\ taken[p] \in 0..Len(written) /\ Len(written) \in Nat
        /\ checkpoint[p].st = "synced" /\ Holds(written, checkpoint[p].db, taken[p])
    BY DEF IInv, WalInv
  <2> QED
    BY <2>1, HoldsIsAfter
<1> QED
  BY AlwaysIInv, <1>1, PTL

\* A scan returns each entry of the range once, and nothing else.
LEMMA ScanCounts ==
  ASSUME NEW c, ScanOk(c), c.op = "done"
  PROVE  Len(c.got) = Cardinality(InRange(c))
<1> DEFINE len == Len(c.got)
           f == [i \in 1..len |-> c.got[i].key]
<1>1. len \in Nat /\ DOMAIN c.got = 1..len /\ \A i \in 1..len : c.got[i] \in Entries(c)
  BY SMTT(30) DEF ScanOk
<1>2. \A i \in 1..len : c.got[i].key \in InRange(c)
  BY <1>1 DEF Entries
<1>3. \A k \in InRange(c) : \E i \in 1..len : f[i] = k
  BY <1>1 DEF ScanOk
<1>4. \A i, j \in 1..len : i # j => f[i] # f[j]
  <2>1. \A i, j \in 1..len : i < j => f[i] # f[j]
    <3> SUFFICES ASSUME NEW i \in 1..len, NEW j \in 1..len, i < j PROVE c.got[i].key # c.got[j].key
      OBVIOUS
    <3>1. c.got[i].key \in Int /\ c.got[j].key \in Int
      BY <1>2, CellsAssumption, SMTT(30) DEF InRange, Present, Key
    <3>2. c.got[j].key < c.got[i].key \/ c.got[i].key < c.got[j].key
      BY <1>1 DEF ScanOk
    <3> QED
      BY <3>1, <3>2
  <2> HIDE DEF f
  <2>2. \A i, j \in 1..len : i # j => i < j \/ j < i
    BY <1>1
  <2> QED
    BY <2>1, <2>2
<1>5. f \in [1..len -> InRange(c)]
  BY <1>2
<1> HIDE DEF f
<1>6. f \in Bijection(1..len, InRange(c))
  BY <1>3, <1>4, <1>5 DEF Bijection, Injection, Surjection, IsInjective
<1>7. ExistsBijection(1..len, InRange(c))
  BY <1>6, Zenon DEF ExistsBijection
<1> QED
  BY <1>1, <1>7, FS_CountingElements

\* A scan and get_log_range return, in order and once each, the entries that were in the
\* column family when the call began, whatever is written or deleted meanwhile.
THEOREM ScansAlwaysExact == Spec => []ScanExact
<1>1. IInv => ScanExact
  <2> SUFFICES ASSUME IInv, NEW t \in Thread, call[t].op = "done"
               PROVE  /\ Len(call[t].got) = Cardinality(InRange(call[t]))
                      /\ \A i \in DOMAIN call[t].got :
                           /\ call[t].got[i].key \in InRange(call[t])
                           /\ call[t].got[i].n = call[t].view[call[t].got[i].key].n
                      /\ \A i, j \in DOMAIN call[t].got :
                           i < j => (call[t].got[i].key < call[t].got[j].key) = ~call[t].back
    BY Zenon DEF ScanExact, InRange
  <2> DEFINE c == call[t]
  <2>1. ScanOk(c) /\ c.op = "done"
    BY DEF IInv, ScanInv
  <2> HIDE DEF c
  <2>2. Len(c.got) = Cardinality(InRange(c))
    BY <2>1, ScanCounts, SMTT(30)
  <2>3. \A i \in DOMAIN c.got : c.got[i] \in Entries(c)
    BY <2>1, SMTT(30) DEF ScanOk
  <2>4. \A i \in DOMAIN c.got : c.got[i].key \in InRange(c) /\ c.got[i].n = c.view[c.got[i].key].n
    BY <2>3 DEF Entries
  <2>5. ASSUME NEW i \in DOMAIN c.got, NEW j \in DOMAIN c.got, i < j
        PROVE  (c.got[i].key < c.got[j].key) = ~c.back
    <3>1. c.got[i].key \in Int /\ c.got[j].key \in Int
      BY <2>4, CellsAssumption, SMTT(30) DEF InRange, Present, Key
    <3>2. c.back \in BOOLEAN /\ (IF c.back THEN c.got[j].key < c.got[i].key ELSE c.got[i].key < c.got[j].key)
      BY <2>1, <2>5 DEF ScanOk
    <3> QED
      BY <3>1, <3>2
  <2> QED
    BY <2>2, <2>4, <2>5, SMTT(30) DEF c
<1> QED
  BY AlwaysIInv, <1>1, PTL

=============================================================================
