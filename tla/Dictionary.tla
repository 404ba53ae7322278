------------------------------ MODULE Dictionary ------------------------------
(***************************************************************************)
(* What the B+ tree promises its server: a set of keys, each with a tuple. *)
(* A request takes effect once, at one moment between call and return,     *)
(* whatever pages are split, merged and rearranged around it; nothing else *)
(* changes what is stored.                                                 *)
(***************************************************************************)
EXTENDS Naturals

CONSTANTS Requests,   \* records with fields kind and key
          Tuples,     \* what can be stored under a key
          NoRequest

VARIABLES contents,   \* key -> tuple
          request,    \* the call under way
          applied,    \* has it taken effect?
          answer      \* what it will return

vars == <<contents, request, applied, answer>>

Init == /\ contents = <<>>
        /\ request = NoRequest
        /\ applied = FALSE
        /\ answer = FALSE

Stored(k) == k \in DOMAIN contents

Call == /\ request = NoRequest
        /\ request' \in Requests
        /\ request'.kind = "insert" => ~Stored(request'.key)
        /\ UNCHANGED <<contents, applied, answer>>

Insert(k, t) == /\ contents' = [j \in DOMAIN contents \cup {k} |->
                                  IF j = k THEN t ELSE contents[j]]
                /\ answer' = TRUE

Delete(k) == /\ contents' = [j \in DOMAIN contents \ {k} |-> contents[j]]
             /\ answer' = Stored(k)

Search(k) == /\ UNCHANGED contents
             /\ answer' = Stored(k)

Apply == /\ request # NoRequest
         /\ ~applied
         /\ \/ request.kind = "insert" /\ \E t \in Tuples : Insert(request.key, t)
            \/ request.kind = "delete" /\ Delete(request.key)
            \/ request.kind = "search" /\ Search(request.key)
         /\ applied' = TRUE
         /\ UNCHANGED request

\* A delete that removed its key may fail to say so; none claims a removal that
\* did not happen.
Understate == /\ applied
              /\ request.kind = "delete"
              /\ answer' = FALSE
              /\ UNCHANGED <<contents, request, applied>>

Return == /\ applied
          /\ request' = NoRequest
          /\ applied' = FALSE
          /\ answer' = FALSE
          /\ UNCHANGED contents

Next == Call \/ Apply \/ Understate \/ Return

Spec == Init /\ [][Next]_vars
=============================================================================
