----------------------------- MODULE MCRocksNode -----------------------------
(***************************************************************************)
(* RocksNode for TLC: clients propose writes and one joint membership, or  *)
(* writes only.                                                            *)
(***************************************************************************)
EXTENDS RocksNode

Joint == {{1}, {1, 2}}

MCConfigs == {Joint, Flattened(Joint)}

MCWrites == SetOp

MCProposals == MCWrites \cup {p \in MembershipEntry : p.configs = Joint}

=============================================================================
