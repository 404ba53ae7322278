------------------------------ MODULE PageStore ------------------------------
(***************************************************************************)
(* What the buffer pool promises the B+ tree: a store of pages in which    *)
(* every page has one current content, whichever frame it happens to be    *)
(* in.  A page is acquired, modified through the pointer while it is held, *)
(* and released.  Behind the caller's back a page may be written to the    *)
(* file at any time, but only while nobody holds it: a half-modified page  *)
(* never becomes durable.  An orderly shutdown makes everything durable,   *)
(* but for writes that fail; a crash falls back to what was durable.       *)
(*                                                                         *)
(* There are no frames, no queue and no reference bits here: module        *)
(* BufferPool implements this specification with them.                     *)
(***************************************************************************)
EXTENDS Naturals

CONSTANTS PageIDs,   \* page identifiers the storage manager can hand out
          Data,      \* what a page can contain
          Zero,      \* the content of a page that was just allocated
          WritesMayFail  \* may the file refuse a write?

VARIABLES content,   \* current content of each page
          stable,    \* content of each page in the database file
          holders,   \* number of pointers to each page the callers hold
          allocated  \* pages that were handed out

vars == <<content, stable, holders, allocated>>

Init == /\ content = [p \in PageIDs |-> Zero]
        /\ stable = [p \in PageIDs |-> Zero]
        /\ holders = [p \in PageIDs |-> 0]
        /\ allocated = {}

Allocate(p) == /\ p \notin allocated
               /\ allocated' = allocated \cup {p}
               /\ UNCHANGED <<content, stable, holders>>

Acquire(p) == /\ p \in allocated
              /\ holders' = [holders EXCEPT ![p] = @ + 1]
              /\ UNCHANGED <<content, stable, allocated>>

Modify(p, d) == /\ holders[p] > 0
                /\ content' = [content EXCEPT ![p] = d]
                /\ UNCHANGED <<stable, holders, allocated>>

Release(p) == /\ holders[p] > 0
              /\ holders' = [holders EXCEPT ![p] = @ - 1]
              /\ UNCHANGED <<content, stable, allocated>>

Persist(p) == /\ holders[p] = 0
              /\ stable' = [stable EXCEPT ![p] = content[p]]
              /\ UNCHANGED <<content, holders, allocated>>

\* Nobody is told of a write that fails now: the page falls back to what it was.
Shutdown == /\ \A p \in PageIDs : holders[p] = 0
            /\ \E written \in SUBSET PageIDs :
                 /\ written = PageIDs \/ WritesMayFail
                 /\ content' = [p \in PageIDs |-> IF p \in written THEN content[p]
                                                  ELSE stable[p]]
            /\ stable' = content'
            /\ UNCHANGED <<holders, allocated>>

Crash == /\ content' = stable
         /\ holders' = [p \in PageIDs |-> 0]
         /\ UNCHANGED <<stable, allocated>>

Next == \/ \E p \in PageIDs : Allocate(p) \/ Acquire(p) \/ Release(p) \/ Persist(p)
        \/ \E p \in PageIDs, d \in Data : Modify(p, d)
        \/ Shutdown
        \/ Crash

Spec == Init /\ [][Next]_vars
=============================================================================
