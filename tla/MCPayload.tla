------------------------------ MODULE MCPayload ------------------------------
(* Payload for TLC. *)
EXTENDS Payload
=============================================================================
