------------------------- MODULE MCRocksStateMachine -------------------------
(***************************************************************************)
(* RocksStateMachine for TLC: memberships of two nodes, one of them joint. *)
(***************************************************************************)
EXTENDS RocksStateMachine

Uniform == {{1, 2}}
Joint == {{1}, {1, 2}}

MCConfigs == {Uniform, Joint}

=============================================================================
