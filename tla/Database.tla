------------------------------- MODULE Database -------------------------------
(***************************************************************************)
(* The storage engine from start to start: Server::Bootstrap (server.cpp)  *)
(* opens the file through the storage manager and finds or makes the tree  *)
(* (BTree::BTree), the tree changes its root (BTree::SetNewRoot), and the  *)
(* process ends in order or is killed anywhere.                            *)
(*                                                                         *)
(* Two modules are composed: every step is one of StorageManager, without  *)
(* failures, or of PageStore, which is what the buffer pool promises, or   *)
(* of both.  Of the tree there is its root and which pages it has; what a  *)
(* process takes a tree for that a kill has left torn is left open.        *)
(***************************************************************************)
EXTENDS Naturals, FiniteSets, Sequences

CONSTANT MaxPages   \* bound: pages of the file

ASSUME DatabaseAssumption == MaxPages \in Nat /\ MaxPages > 2

VARIABLES
  \* StorageManager
  size, magic, next, dirtied, new_page_offset_index, pc, issued,
  \* PageStore
  content, stable, holders,
  \* BTree
  at,            \* what the process is doing
  calls,         \* the calls of the buffer pool that are to come
  root_page_id,
  tree,          \* the root and the pages of the tree, as the last operation left them
  \* History
  sound,         \* no process was killed that may have changed a tree
  torn           \* a process was killed between the two writes that format the file

META == 1  \* DATABASE_META_PAGE_ID
PoolPages == META..(MaxPages - 1)

\* A page of the tree has Node in it; the meta page has the root, or nothing.
Zero == 0
Node == 1

\* Pages the pool may be asked for: the meta page, if the file has it, and those handed out.
SM == INSTANCE StorageManager WITH MaxFaults <- 0, faults <- 0
Pool == INSTANCE PageStore WITH
          PageIDs <- PoolPages, Data <- PoolPages \cup {Zero}, WritesMayFail <- FALSE,
          allocated <- issued \cup (IF size > META THEN {META} ELSE {})

file == <<size, magic, next, dirtied>>
storage == <<file, new_page_offset_index, pc, issued>>
pages == <<content, stable, holders>>
history == <<tree, sound, torn>>
vars == <<storage, pages, at, calls, root_page_id, history>>

Init == /\ SM!Init
        /\ content = [p \in PoolPages |-> Zero] /\ stable = content
        /\ holders = [p \in PoolPages |-> 0]
        /\ at = "down" /\ calls = <<>> /\ root_page_id = 0
        /\ tree = [root |-> 0, pages |-> {}] /\ sound = TRUE /\ torn = FALSE

-----------------------------------------------------------------------------
\* Server::Bootstrap: StorageManager::Bootstrap, then BTree::BTree.

Open == /\ SM!Open
        /\ at' = "start"
        /\ UNCHANGED <<pages, calls, root_page_id, history>>

Bootstrap ==
  /\ \/ SM!FormatStorageMeta /\ UNCHANGED pages
     \/ SM!FormatDatabaseMeta /\ Pool!Allocate(META)
     \/ SM!LoadIndex /\ UNCHANGED pages
  /\ UNCHANGED <<at, calls, root_page_id, history>>

\* The meta page cannot be read when the file ends before it: an exception.
RequestMeta ==
  /\ at = "start" /\ pc = "running"
  /\ UNCHANGED <<storage, calls, root_page_id, history>>
  /\ \/ size > META /\ Pool!Acquire(META) /\ at' = "open"
     \/ size <= META /\ UNCHANGED pages /\ at' = "failed"

LoadRoot ==
  /\ at = "open" /\ calls = <<>> /\ content[META] # Zero
  /\ UNCHANGED <<storage, calls, history>>
  /\ root_page_id' = content[META]
  /\ Pool!Release(META)
  /\ at' = "serving"

-----------------------------------------------------------------------------
\* Calls of the buffer pool.

Request(p) == [op |-> "request", page |-> p]
Write(p, data) == [op |-> "write", page |-> p, data |-> data]
Release(p) == [op |-> "release", page |-> p]

\* BTree::SetNewRoot.
SetNewRoot(p) == <<Request(META), Write(META, p), Release(META)>>

\* BTree::BTree makes a tree of one leaf, while it holds the meta page.
NewTree(p) == <<Request(p), Write(p, Node), Release(p), Write(META, p), Release(META)>>

\* A split adds a page, and another on top of it when it was the root's: BTree::Insert calls
\* SetNewRoot while it holds that one.
NewNode(p) == <<Request(p), Write(p, Node), Release(p)>>
NewRoot(p) ==
  <<Request(p), Write(p, Node), Request(META), Write(META, p), Release(META), Release(p)>>

\* What is to be done with a page that was handed out.
Plan(p) == CASE at = "open" -> NewTree(p)
             [] at = "split" -> NewNode(p)
             [] at = "grow" -> NewRoot(p)

\* The tree calls AllocateNewPage.
Grow == /\ at = "serving" /\ new_page_offset_index < MaxPages
        /\ \/ at' = "split"
           \/ at' = "grow" /\ Cardinality(tree.pages) > 1
        /\ UNCHANGED <<storage, pages, calls, root_page_id, history>>

Allocating == at \in {"split", "grow"} \/ (at = "open" /\ content[META] = Zero)

AllocateNewPage ==
  /\ Allocating /\ calls = <<>>
  /\ SM!Fallocate \/ SM!PersistIndex
  /\ UNCHANGED <<pages, at, calls, root_page_id, history>>

Allocated ==
  /\ SM!Issue
  /\ Pool!Allocate(new_page_offset_index)
  /\ calls' = Plan(new_page_offset_index)
  /\ UNCHANGED <<at, root_page_id, history>>

\* BTree::Delete merges the two leaves below the root: the left one is the root.
Shrink == /\ at = "serving" /\ Cardinality(tree.pages) = 3
          /\ \E p \in tree.pages \ {root_page_id} : calls' = SetNewRoot(p)
          /\ at' = "shrink"
          /\ UNCHANGED <<storage, pages, root_page_id, history>>

\* The tree after the last call.
TreeAfter(root) ==
  CASE at = "shrink" -> [root |-> root, pages |-> {root}]
    [] OTHER -> [root |-> root, pages |-> tree.pages \cup {new_page_offset_index - 1}]

\* root_page_id follows the meta page.
PoolCall ==
  LET call == Head(calls) IN
  /\ calls # <<>>
  /\ UNCHANGED <<storage, sound, torn>>
  /\ CASE call.op = "request" -> Pool!Acquire(call.page) /\ UNCHANGED root_page_id
       [] call.op = "write" -> /\ Pool!Modify(call.page, call.data)
                               /\ root_page_id' = IF call.page = META THEN call.data
                                                  ELSE root_page_id
       [] call.op = "release" -> Pool!Release(call.page) /\ UNCHANGED root_page_id
  /\ calls' = Tail(calls)
  /\ IF calls' = <<>> THEN at' = "serving" /\ tree' = TreeAfter(root_page_id')
     ELSE UNCHANGED <<at, tree>>

\* The buffer pool writes a page back, to make room for another.
WriteBack(p) == /\ content[p] # stable[p]
                /\ SM!WritePage(p)
                /\ Pool!Persist(p)
                /\ UNCHANGED <<at, calls, root_page_id, history>>

-----------------------------------------------------------------------------
\* The end of the process.

\* Slip: what is dirty is not written.
ShutDown_Unwritten ==
  /\ at \in {"serving", "failed"}
  /\ SM!Stop
  /\ Pool!Crash
  /\ at' = "down"
  /\ root_page_id' = 0
  /\ UNCHANGED <<calls, history>>

\* RunServer returns, or Bootstrap has failed: main returns, and the destructors run.
\* That of the buffer pool writes the pages back one by one.
ShutDown ==
  \/ /\ at \in {"serving", "failed"}
     /\ at' = "closing"
     /\ UNCHANGED <<storage, pages, calls, root_page_id, history>>
  \/ /\ at = "closing" /\ content = stable
     /\ SM!Stop
     /\ Pool!Shutdown
     /\ at' = "down"
     /\ root_page_id' = 0
     /\ UNCHANGED <<calls, history>>

\* Anything else that ends it: a signal nobody handles, an exception that RunServer throws
\* (main does not catch it, so no destructor runs), or a null page that is written to.
Kill == /\ at # "down"
        /\ SM!Stop
        /\ Pool!Crash
        /\ at' = "down" /\ calls' = <<>> /\ root_page_id' = 0
        /\ sound' = (sound /\ at \in {"start", "open", "failed"})
        /\ torn' = (torn \/ pc = "format_db")
        /\ UNCHANGED tree

Next == \/ Open \/ Bootstrap \/ RequestMeta \/ LoadRoot
        \/ Grow \/ Shrink \/ AllocateNewPage \/ Allocated \/ PoolCall
        \/ \E p \in PoolPages : WriteBack(p)
        \/ ShutDown \/ Kill

Spec == Init /\ [][Next]_vars

-----------------------------------------------------------------------------
\* Properties.

TypeOK == /\ SM!TypeOK
          /\ content \in [PoolPages -> PoolPages \cup {Zero}] /\ stable \in [PoolPages -> PoolPages \cup {Zero}]
          /\ holders \in [PoolPages -> 0..1]
          /\ at = "down" <=> pc = "down"
          /\ calls # <<>> => at \in {"open", "split", "grow", "shrink"}

\* A server that starts finds the tree as it was: when every process that had served
\* before came to its end in order, however many were killed while they were starting.
TreeFound ==
  sound /\ at = "serving" =>
    /\ root_page_id = tree.root /\ root_page_id \in tree.pages
    /\ \A p \in tree.pages : content[p] = Node

\* The only thing that keeps a server from starting is a process that was killed while it
\* formatted the file, and that does for good: page 0 makes the file a database, and
\* nobody writes the page 1 it lacks.
StartsUnlessTorn == /\ at = "failed" => torn
                    /\ torn => at \notin {"open", "serving"}

\* Whenever a process is killed, the root that the meta page in the file names belongs to the
\* file, and will not be handed out again: the index in page 0 is ahead of it, though page 0 is
\* written past the buffer pool, and page 1 from it, whenever it likes.
RootIsKept ==
  stable[META] # Zero =>
    /\ stable[META] \in issued /\ stable[META] < size /\ stable[META] < next
    /\ pc \in {"running", "persist"} => stable[META] < new_page_offset_index
=============================================================================
