---------------------------- MODULE MCStorageLog ----------------------------
(***************************************************************************)
(* StorageLog for TLC.  The threads and the entry bytes are interchange-   *)
(* able model values.                                                      *)
(***************************************************************************)
EXTENDS StorageLog, TLC

Symmetry == Permutations(Thread) \cup Permutations(Value)

=============================================================================
