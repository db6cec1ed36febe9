------------------------------ MODULE MCRaftNode ------------------------------
(***************************************************************************)
(* RaftNode for TLC.  A Set, a Del and bytes that do not deserialize are   *)
(* proposed.                                                               *)
(***************************************************************************)
EXTENDS RaftNode

MCConfigs == {{{1}}}

MCProposal == SetOp \cup DelOp \cup {Garbage}

=============================================================================
