------------------------------- MODULE MCMemRaft -------------------------------
(***************************************************************************)
(* MemRaft for TLC.  One membership is enough: only its index is stored.   *)
(***************************************************************************)
EXTENDS MemRaft, TLC

MCConfigs == {{{1, 2}}}

Symmetry == Permutations(Replica) \cup Permutations(Value)

=============================================================================
