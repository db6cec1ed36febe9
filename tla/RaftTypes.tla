------------------------------ MODULE RaftTypes ------------------------------
(***************************************************************************)
(* Log entries and the values they leave in the state machine, shared by   *)
(* the modules of the storage crate (operations.rs, types.rs and the       *)
(* protobuf messages of openraft_rocksdb.rs).                              *)
(***************************************************************************)
EXTENDS Integers

CONSTANTS
  Key, Value,   \* keys and values of Operation::Set and Operation::Del
  Missing,      \* a key that is not in the map
  Configs,      \* the memberships in use: each a set of voter sets
  FirstIndex,   \* index of the first log entry
  MaxIndex      \* bound: index of the last log entry

ASSUME FirstIndexAssumption == FirstIndex \in {0, 1}
ASSUME MaxIndexAssumption == MaxIndex \in Nat
ASSUME MissingAssumption == Missing \notin Value

\* Option<LogId>: None is the index before the first one.
NoIndex == FirstIndex - 1
Index == FirstIndex..MaxIndex

Max2(a, b) == IF a < b THEN b ELSE a

\* EntryPayload::Normal carries the bytes of an Operation.  Any bytes can be
\* proposed, so some of them Operation::deserialize refuses.
SetOp == [kind : {"set"}, key : Key, value : Value]
DelOp == [kind : {"del"}, key : Key]
Garbage == [kind |-> "garbage"]
Blank == [kind |-> "blank"]
MembershipEntry == [kind : {"membership"}, configs : Configs]
Payload == SetOp \cup DelOp \cup MembershipEntry \cup {Garbage, Blank}

\* Operation::apply: the key an operation writes and what it leaves there.
WritesKey(p, k) == p.kind \in {"set", "del"} /\ p.key = k
ValueWritten(p) == IF p.kind = "set" THEN p.value ELSE Missing

\* MembershipMessage keeps one list of voters: from_membership collects the
\* voters of every config of a joint membership, to_membership rebuilds one
\* config from them.
Flattened(configs) == {UNION configs}

ASSUME ConfigsAssumption == \A c \in Configs : Flattened(c) \in Configs

\* StoredMembership::default.
NoMembership == [at |-> NoIndex, configs |-> {}]

-----------------------------------------------------------------------------
\* What a prefix of entries amounts to, stated without replaying it.

\* v is the value of key k after the entries up to index n.
KeyAsOf(es, n, k, v) ==
  \/ /\ v = Missing
     /\ \A i \in FirstIndex..n : ~WritesKey(es[i], k)
  \/ \E i \in FirstIndex..n :
       /\ WritesKey(es[i], k)
       /\ v = ValueWritten(es[i])
       /\ \A j \in (i + 1)..n : ~WritesKey(es[j], k)

\* The last membership entry up to index n is the one at index i.
MembershipAsOf(es, n, i) ==
  \/ /\ i = NoIndex
     /\ \A j \in FirstIndex..n : es[j].kind # "membership"
  \/ /\ i \in FirstIndex..n
     /\ es[i].kind = "membership"
     /\ \A j \in (i + 1)..n : es[j].kind # "membership"

=============================================================================
