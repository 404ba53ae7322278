------------------------------ MODULE MCLeafPage ------------------------------
(* LeafPage for TLC: four tuples fill a page; one is cut when less is free. *)
EXTENDS LeafPage

MCSize == [k \in Keys |-> 4]
=============================================================================
