-------------------------------- MODULE MCMemLog --------------------------------
(***************************************************************************)
(* MemLog for TLC.                                                         *)
(***************************************************************************)
EXTENDS MemLog, TLC

Symmetry == Permutations(Entry)

=============================================================================
