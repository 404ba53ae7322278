------------------------------ MODULE MCDatabase ------------------------------
(* Database for TLC. *)
EXTENDS Database
=============================================================================
