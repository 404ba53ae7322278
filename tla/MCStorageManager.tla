--------------------------- MODULE MCStorageManager ---------------------------
(* StorageManager for TLC. *)
EXTENDS StorageManager
=============================================================================
