---------------------------- MODULE MCStorageKv -----------------------------
(***************************************************************************)
(* StorageKv for TLC: options at the limits of validate and just past them.*)
(***************************************************************************)
EXTENDS StorageKv

Opts(buffer, number, file, create) ==
  [write_buffer_size_mb |-> buffer, max_write_buffer_number |-> number,
   target_file_size_mb |-> file, create_if_missing |-> create]

MCOptions ==
  {Opts(1, 2, 1024, TRUE), Opts(1024, 10, 1, FALSE), Opts(1025, 2, 1, TRUE), Opts(1, 11, 1, TRUE)}

=============================================================================
