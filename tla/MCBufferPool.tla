----------------------------- MODULE MCBufferPool -----------------------------
(* Instances of BufferPool for TLC: frames and pages are interchangeable. *)
EXTENDS BufferPool, TLC

Symmetry == Permutations(Frames) \cup Permutations(PageIDs)
=============================================================================
