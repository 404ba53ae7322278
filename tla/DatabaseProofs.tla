---------------------------- MODULE DatabaseProofs ----------------------------
(***************************************************************************)
(* What is proved of the engine from start to start, for files of any      *)
(* size: the root that the file names is always a page of the file, a      *)
(* server that starts finds its tree, and nothing but a kill between the   *)
(* two writes that format the file keeps one from starting.                *)
(*                                                                         *)
(* The invariant says for each call of the buffer pool that is to come     *)
(* what the calls before it have left: which pages are held, what the meta *)
(* page says, and which root the tree has.  What it says of the storage    *)
(* manager is the invariant of StorageManagerProofs, without failures.     *)
(***************************************************************************)
EXTENDS Database, TLAPS

SMP == INSTANCE StorageManagerProofs WITH MaxFaults <- 0, faults <- 0

NoTree == [root |-> 0, pages |-> {}]

\* The page that was handed out last.
Newest == new_page_offset_index - 1

-----------------------------------------------------------------------------
\* The invariant.

Types == /\ content \in [PoolPages -> PoolPages \cup {Zero}]
         /\ stable \in [PoolPages -> PoolPages \cup {Zero}]
         /\ tree = [root |-> tree.root, pages |-> tree.pages]
         /\ sound \in BOOLEAN /\ torn \in BOOLEAN
         /\ at \in {"down", "start", "failed", "open", "serving", "split", "grow", "shrink", "closing"}

\* What the process does, and where the storage manager stands then.
Stages ==
  /\ at = "down" <=> pc = "down"
  /\ at = "start" => pc \in {"format", "format_db", "load", "running"}
  /\ at \in {"serving", "shrink", "closing", "failed"} => pc = "running"
  /\ at \in {"open", "split", "grow"} => pc \in {"running", "persist", "issue"}
  /\ pc \in {"persist", "issue"} => calls = <<>> /\ (at = "open" => content[META] = Zero)
  /\ calls # <<>> /\ at # "shrink" => Newest \in issued

\* How far the file was formatted.
Formatted ==
  /\ magic = "absent" => size = 0
  /\ size <= 1 => issued = {}
  /\ pc = "format_db" => size = 1
  /\ size = 1 => torn \/ pc = "format_db"
  /\ torn => /\ size = 1 /\ pc # "format_db" /\ content = stable
             /\ at \in {"down", "start", "failed", "closing"}
  /\ at = "failed" => size = 1
  /\ at \in {"open", "serving", "split", "grow", "shrink"} => size > 1

\* The meta page, in memory or in the file, never names a page that was not handed out.
Roots == /\ content[META] \in issued \cup {Zero} /\ stable[META] \in issued \cup {Zero}
         /\ tree.pages \subseteq issued

Holding(S) == holders = [q \in PoolPages |-> IF q \in S THEN 1 ELSE 0]

\* In memory there is one root, and it is that of the tree, or r.
Rooted(r) == /\ root_page_id = content[META] /\ content[META] # Zero
             /\ sound => content[META] = r

\* What holds before each call of the buffer pool.
Opening(p) ==
  \/ calls = <<>> /\ Holding({META})
  \/ /\ content[META] = Zero
     /\ \/ calls = NewTree(p) /\ Holding({META})
        \/ /\ calls = <<Write(p, Node), Release(p), Write(META, p), Release(META)>>
           /\ Holding({META, p})
        \/ /\ calls = <<Release(p), Write(META, p), Release(META)>>
           /\ Holding({META, p}) /\ content[p] = Node
        \/ calls = <<Write(META, p), Release(META)>> /\ Holding({META}) /\ content[p] = Node
  \/ /\ calls = <<Release(META)>> /\ Holding({META}) /\ content[p] = Node
     /\ content[META] = p /\ root_page_id = p

Splitting(p) ==
  /\ Rooted(tree.root)
  /\ \/ calls = <<>> /\ Holding({})
     \/ calls = NewNode(p) /\ Holding({})
     \/ calls = <<Write(p, Node), Release(p)>> /\ Holding({p})
     \/ calls = <<Release(p)>> /\ Holding({p}) /\ content[p] = Node

Growing(p) ==
  \/ /\ Rooted(tree.root)
     /\ \/ calls = <<>> /\ Holding({})
        \/ calls = NewRoot(p) /\ Holding({})
        \/ /\ calls = <<Write(p, Node), Request(META), Write(META, p), Release(META), Release(p)>>
           /\ Holding({p})
        \/ /\ calls = <<Request(META), Write(META, p), Release(META), Release(p)>>
           /\ Holding({p}) /\ content[p] = Node
        \/ /\ calls = <<Write(META, p), Release(META), Release(p)>>
           /\ Holding({p, META}) /\ content[p] = Node
  \/ /\ Rooted(p)
     /\ \/ /\ calls = <<Release(META), Release(p)>>
           /\ Holding({p, META}) /\ content[p] = Node
        \/ calls = <<Release(p)>> /\ Holding({p}) /\ content[p] = Node

Shrinking ==
  \/ /\ Rooted(tree.root)
     /\ \E p \in tree.pages :
          \/ calls = SetNewRoot(p) /\ Holding({})
          \/ calls = <<Write(META, p), Release(META)>> /\ Holding({META})
  \/ \E p \in tree.pages : Rooted(p) /\ calls = <<Release(META)>> /\ Holding({META})

Outline == /\ at = "open" => Opening(Newest)
           /\ at = "split" => Splitting(Newest)
           /\ at = "grow" => Growing(Newest)
           /\ at = "shrink" => Shrinking
           /\ at = "serving" => Rooted(tree.root)
           /\ at \notin {"open", "split", "grow", "shrink"} => calls = <<>> /\ Holding({})

\* c has the tree, or nothing when there is none yet.
TreeIn(c) ==
  \/ tree = NoTree /\ c[META] = Zero
  \/ c[META] = tree.root /\ tree.root \in tree.pages /\ \A p \in tree.pages : c[p] = Node

\* Where the tree is, as long as no process was killed that served.
Found == sound =>
  /\ at \in {"down", "start", "failed"} => content = stable /\ TreeIn(stable)
  /\ at = "open" => TreeIn(stable) /\ IF calls = <<>> THEN content = stable ELSE tree = NoTree
  /\ at \in {"serving", "split", "grow", "shrink"} =>
       tree.root \in tree.pages /\ \A p \in tree.pages : content[p] = Node
  /\ at = "closing" => TreeIn(content)

Engine == Types /\ Stages /\ Formatted /\ Roots /\ Outline /\ Found

Inv == SMP!SInv /\ Engine

\* What the storage manager's invariant says without failures.
Storage ==
  /\ size \in 0..MaxPages /\ new_page_offset_index \in 0..MaxPages
  /\ magic \in {"absent", "present"}
  /\ pc \in {"down", "format", "format_db", "load", "running", "persist", "issue"}
  /\ \A p \in issued : p \in PoolPages /\ META < p /\ p < next /\ p < size
  /\ IF magic = "present" THEN size > 0 ELSE issued = {}
  /\ pc \in {"load", "running", "persist", "issue", "format_db"} => magic = "present"
  /\ pc = "format" => magic = "absent"
  /\ pc = "format_db" => issued = {}
  /\ pc \in {"persist", "issue"} => new_page_offset_index < MaxPages
  /\ pc \in {"running", "persist", "issue"} =>
       /\ new_page_offset_index > META
       /\ \A p \in issued : p < new_page_offset_index

-----------------------------------------------------------------------------
\* The storage manager.

\* Every step of the engine is one of the storage manager, or none.
LEMMA StorageStep == [Next]_vars => [SMP!Next]_(SMP!vars)
<1> SUFFICES ASSUME [Next]_vars PROVE [SMP!Next]_(SMP!vars)
  OBVIOUS
<1> USE DatabaseAssumption
    DEF SMP!vars, SMP!file, SM!file, SM!Fault, SMP!Fault, SMP!STORAGE_MANAGER_META_PAGE_ID,
        SM!STORAGE_MANAGER_META_PAGE_ID, SMP!DATABASE_META_PAGE_ID, SM!DATABASE_META_PAGE_ID
<1>1. CASE \/ RequestMeta \/ LoadRoot \/ Grow \/ Shrink \/ PoolCall \/ UNCHANGED vars
  BY <1>1 DEF RequestMeta, LoadRoot, Grow, Shrink, PoolCall, vars, storage, file
<1>2. CASE Open
  BY <1>2 DEF Open, SM!Open, SMP!Next, SMP!Bootstrap, SMP!Open, SMP!IsDatabaseFile,
     SM!IsDatabaseFile
<1>3. CASE Bootstrap
  <2>1. \/ SM!FormatStorageMeta \/ SM!FormatDatabaseMeta \/ SM!LoadIndex
    BY <1>3 DEF Bootstrap
  <2>2. CASE SM!FormatStorageMeta
    BY <2>2 DEF SM!FormatStorageMeta, SMP!FormatStorageMeta, SM!Extended, SMP!Extended,
       SMP!Next, SMP!Bootstrap
  <2>3. CASE SM!FormatDatabaseMeta
    BY <2>3 DEF SM!FormatDatabaseMeta, SMP!FormatDatabaseMeta, SM!Extended, SMP!Extended,
       SMP!Next, SMP!Bootstrap
  <2>4. CASE SM!LoadIndex
    BY <2>4 DEF SM!LoadIndex, SMP!LoadIndex, SM!PageIDs, SMP!PageIDs, SMP!Next, SMP!Bootstrap
  <2> QED BY <2>1, <2>2, <2>3, <2>4
<1>4. CASE AllocateNewPage
  <2>1. SM!Fallocate \/ SM!PersistIndex
    BY <1>4 DEF AllocateNewPage
  <2>2. CASE SM!Fallocate
    BY <2>2 DEF SM!Fallocate, SMP!Fallocate, SM!Extended, SMP!Extended,
       SMP!Next, SMP!AllocateNewPage
  <2>3. CASE SM!PersistIndex
    BY <2>3 DEF SM!PersistIndex, SMP!PersistIndex, SM!StoredIndex, SMP!StoredIndex,
       SM!Extended, SMP!Extended, SMP!Next, SMP!AllocateNewPage
  <2> QED BY <2>1, <2>2, <2>3
<1>5. CASE Allocated
  BY <1>5 DEF Allocated, SM!Issue, SMP!Issue, SMP!Next, SMP!AllocateNewPage
<1>6. ASSUME NEW p \in PoolPages, WriteBack(p) PROVE [SMP!Next]_(SMP!vars)
  BY <1>6 DEF WriteBack, SM!WritePage, SMP!WritePage, SM!Extended, SMP!Extended, SMP!Next,
     SMP!PageIDs, PoolPages, META
<1>7. CASE ShutDown
  BY <1>7 DEF ShutDown, SM!Stop, SMP!Stop, SMP!Next, storage, file
<1>8. CASE Kill
  BY <1>8 DEF Kill, SM!Stop, SMP!Stop, SMP!Next
<1> QED
  BY <1>1, <1>2, <1>3, <1>4, <1>5, <1>6, <1>7, <1>8 DEF Next

LEMMA StorageKept == SMP!SInv /\ [Next]_vars => SMP!SInv'
BY DatabaseAssumption, StorageStep, SMP!NextSInv DEF SMP!StorageAssumption

LEMMA StorageFacts == SMP!SInv => Storage
BY DatabaseAssumption
   DEF SMP!SInv, SMP!TypeOK, SMP!OrderOK, SMP!Recognised, SMP!New, SMP!InMemory, Storage,
   META, PoolPages, SMP!DATABASE_META_PAGE_ID, SMP!STORAGE_MANAGER_META_PAGE_ID, SMP!PageIDs

\* A step leaves it as it should be.
LEMMA StorageNext == SMP!SInv /\ [Next]_vars => Storage /\ Storage'
<1>1. SMP!SInv' => Storage'
  BY StorageFacts, PTL
<1> QED BY <1>1, StorageFacts, StorageKept

\* A tree has a root.
LEMMA RootOfTree ==
  ASSUME Types, Roots, Storage, NEW c, TreeIn(c), tree # NoTree
  PROVE  c[META] = tree.root /\ c[META] # Zero
BY DEF Roots, Storage, TreeIn, META, Zero

-----------------------------------------------------------------------------
\* The buffer pool.

\* A page is requested that nobody holds.
LEMMA RequestStep ==
  ASSUME NEW p \in PoolPages, NEW S \in SUBSET PoolPages, p \notin S, Holding(S),
         PoolCall, Head(calls) = Request(p)
  PROVE  Holding(S \cup {p})' /\ UNCHANGED <<content, stable, root_page_id>>
<1>1. Head(calls).op = "request" /\ Head(calls).page = p
  BY DEF Request
<1>2. Pool!Acquire(p) /\ UNCHANGED root_page_id
  BY <1>1 DEF PoolCall
<1>3. holders' = [holders EXCEPT ![p] = @ + 1] /\ UNCHANGED <<content, stable>>
  BY <1>2 DEF Pool!Acquire
<1>4. holders' = [q \in PoolPages |-> IF q \in S \cup {p} THEN 1 ELSE 0]
  BY <1>3 DEF Holding
<1> QED BY <1>2, <1>3, <1>4 DEF Holding

\* A page that is held is written.
LEMMA WriteStep ==
  ASSUME NEW p \in PoolPages, NEW d, NEW S \in SUBSET PoolPages, Holding(S), Types,
         PoolCall, Head(calls) = Write(p, d)
  PROVE  /\ Holding(S)' /\ UNCHANGED stable
         /\ content'[p] = d /\ \A q \in PoolPages \ {p} : content'[q] = content[q]
         /\ d \in PoolPages \cup {Zero} => content' \in [PoolPages -> PoolPages \cup {Zero}]
         /\ root_page_id' = IF p = META THEN d ELSE root_page_id
<1>1. Head(calls).op = "write" /\ Head(calls).page = p /\ Head(calls).data = d
  BY DEF Write
<1>2. Pool!Modify(p, d) /\ root_page_id' = IF p = META THEN d ELSE root_page_id
  BY <1>1 DEF PoolCall
<1>3. content' = [content EXCEPT ![p] = d] /\ UNCHANGED <<holders, stable>>
  BY <1>2 DEF Pool!Modify
<1>4. holders' = [q \in PoolPages |-> IF q \in S THEN 1 ELSE 0]
  BY <1>3 DEF Holding
<1> QED BY <1>2, <1>3, <1>4 DEF Holding, Types

\* A page is released, by the only one who held it.
LEMMA ReleaseStep ==
  ASSUME NEW p \in PoolPages, NEW S \in SUBSET PoolPages, Holding(S),
         PoolCall, Head(calls) = Release(p)
  PROVE  Holding(S \ {p})' /\ UNCHANGED <<content, stable, root_page_id>>
<1>1. Head(calls).op = "release" /\ Head(calls).page = p
  BY DEF Release
<1>2. Pool!Release(p) /\ UNCHANGED root_page_id
  BY <1>1 DEF PoolCall
<1>3. holders[p] > 0 /\ holders' = [holders EXCEPT ![p] = @ - 1] /\ UNCHANGED <<content, stable>>
  BY <1>2 DEF Pool!Release
<1>4. holders' = [q \in PoolPages |-> IF q \in S \ {p} THEN 1 ELSE 0]
  BY <1>3 DEF Holding
<1> QED BY <1>2, <1>3, <1>4 DEF Holding

-----------------------------------------------------------------------------
\* The actions that call the storage manager.

LEMMA OpenKeeps == ASSUME Engine, Storage, Storage', Open PROVE Engine'
<1>1. /\ UNCHANGED <<size, magic, issued, new_page_offset_index, pages, calls, root_page_id, history>>
      /\ pc = "down" /\ pc' \in {"load", "format"} /\ at' = "start"
      /\ pc' = "format" => size = 0 \/ magic = "absent"
  BY DEF Open, SM!Open, SM!file, SM!Fault, SM!IsDatabaseFile, SM!STORAGE_MANAGER_META_PAGE_ID, Storage
<1> USE <1>1 DEF Engine
<1>2. at = "down"
  BY DEF Stages
<1>3. Types' /\ Roots'
  BY DEF Types, Roots, pages, history
<1>4. Stages' /\ Outline'
  BY <1>2 DEF Stages, Outline, Holding, pages
<1>5. Formatted'
  BY <1>2 DEF Formatted, Storage, pages, history
<1>6. Found'
  BY <1>2 DEF Found, TreeIn, NoTree, pages, history
<1> QED BY <1>3, <1>4, <1>5, <1>6

LEMMA BootstrapKeeps == ASSUME Engine, Storage, Storage', Bootstrap PROVE Engine'
<1>1. /\ UNCHANGED <<issued, at, content, stable, holders, calls, root_page_id, history>>
      /\ \/ /\ pc = "format" /\ pc' = "format_db" /\ size' = IF size > 0 THEN size ELSE 1
            /\ magic' = "present"
         \/ /\ pc = "format_db" /\ pc' = "load" /\ size' = IF size > 1 THEN size ELSE 2
            /\ UNCHANGED magic
         \/ pc = "load" /\ pc' = "running" /\ UNCHANGED <<size, magic>>
  BY DEF Bootstrap, SM!FormatStorageMeta, SM!FormatDatabaseMeta, SM!LoadIndex, SM!Fault, SM!file,
     SM!Extended, SM!STORAGE_MANAGER_META_PAGE_ID, SM!DATABASE_META_PAGE_ID, Storage, pages, Pool!Allocate
<1> USE <1>1 DEF Engine
<1>2. at = "start"
  BY DEF Stages, Types
<1>3. Types' /\ Roots'
  BY DEF Types, Roots, history
<1>4. Stages' /\ Outline'
  BY <1>2 DEF Stages, Outline, Holding
<1>5. Formatted'
  BY <1>2 DEF Formatted, Storage, history
<1>6. Found'
  BY <1>2 DEF Found, TreeIn, NoTree, history
<1> QED BY <1>3, <1>4, <1>5, <1>6

LEMMA AllocateNewPageKeeps == ASSUME Engine, Storage, Storage', AllocateNewPage PROVE Engine'
<1>1. /\ UNCHANGED <<issued, new_page_offset_index, content, stable, holders, at, calls, root_page_id, history>>
      /\ Allocating /\ calls = <<>>
      /\ pc \in {"running", "persist"} /\ pc' \in {"persist", "issue"}
      /\ size' \in Nat /\ size' >= size /\ magic' = magic
  BY DEF AllocateNewPage, SM!Fallocate, SM!PersistIndex, SM!Fault, SM!Extended,
     SM!STORAGE_MANAGER_META_PAGE_ID, Storage, pages
<1> USE <1>1 DEF Engine
<1>2. at \in {"open", "split", "grow"} /\ (at = "open" => content[META] = Zero) /\ size > 1 /\ ~torn
  BY DEF Allocating, Formatted, Storage
<1>3. Types' /\ Roots'
  BY DEF Types, Roots, history
<1>4. Stages'
  BY <1>2 DEF Stages
<1>5. Formatted'
  BY <1>2 DEF Formatted, Storage, history
<1>6. Found'
  BY <1>2 DEF Found, TreeIn, NoTree, history
<1>7. Outline'
  BY <1>2 DEF Outline, Opening, Splitting, Growing, Rooted, Newest, Holding, history
<1> QED BY <1>3, <1>4, <1>5, <1>6, <1>7

LEMMA AllocatedKeeps == ASSUME Engine, Storage, Storage', Allocated PROVE Engine'
<1>1. /\ UNCHANGED <<size, magic, content, stable, holders, at, root_page_id, history>>
      /\ pc = "issue" /\ pc' = "running"
      /\ new_page_offset_index' = new_page_offset_index + 1
      /\ issued' = issued \cup {new_page_offset_index}
      /\ calls' = Plan(new_page_offset_index)
  BY DEF Allocated, SM!Issue, SM!file, Pool!Allocate
<1>2. Newest' = new_page_offset_index /\ new_page_offset_index \in PoolPages
  BY <1>1 DEF Newest, Storage
<1> USE <1>1 DEF Engine
<1>3. calls = <<>> /\ at \in {"open", "split", "grow"} /\ (at = "open" => content[META] = Zero) /\ size > 1
  BY DEF Stages, Formatted, Storage, Types
<1>4. Types' /\ Roots'
  BY DEF Types, Roots, history
<1>5. Stages'
  BY <1>2, <1>3 DEF Stages
<1>6. Formatted'
  BY <1>3 DEF Formatted, Storage, history
<1>7. Found'
  <2>1. sound /\ at = "open" => tree = NoTree
    BY <1>3, RootOfTree DEF Found
  <2> QED BY <1>3, <2>1 DEF Found, TreeIn, history
<1>8. Outline'
  BY <1>2, <1>3 DEF Outline, Opening, Splitting, Growing, Rooted, Plan, Holding, history, NewTree, NewNode, NewRoot
<1> QED BY <1>4, <1>5, <1>6, <1>7, <1>8

-----------------------------------------------------------------------------
\* The actions of the tree and of the process.

LEMMA RequestMetaKeeps == ASSUME Engine, Storage, RequestMeta PROVE Engine'
<1>1. /\ UNCHANGED <<storage, calls, root_page_id, history>> /\ at = "start" /\ pc = "running"
      /\ \/ size > META /\ Pool!Acquire(META) /\ at' = "open"
         \/ size <= META /\ UNCHANGED pages /\ at' = "failed"
  BY DEF RequestMeta
<1>2. UNCHANGED <<size, magic, issued, pc, new_page_offset_index, content, stable, tree, sound, torn>>
  BY <1>1 DEF storage, file, history, pages, Pool!Acquire
<1>3. calls = <<>> /\ Holding({}) /\ META \in PoolPages
  BY <1>1, DatabaseAssumption DEF Engine, Outline, META, PoolPages
<1>4. Types' /\ Roots'
  BY <1>1, <1>2 DEF Engine, Types, Roots
<1>5. Stages'
  BY <1>1, <1>2, <1>3 DEF Engine, Stages
<1>6. Formatted'
  BY <1>1, <1>2 DEF Engine, Formatted, Storage, META
<1>7. Outline'
  <2>1. CASE at' = "open"
    <3>1. holders' = [holders EXCEPT ![META] = @ + 1]
      BY <1>1, <2>1 DEF Pool!Acquire
    <3>2. holders' = [q \in PoolPages |-> IF q \in {META} THEN 1 ELSE 0]
      BY <1>3, <3>1 DEF Holding
    <3> QED BY <1>1, <1>3, <2>1, <3>2 DEF Outline, Opening, Holding
  <2>2. CASE at' = "failed"
    BY <1>1, <1>3, <2>2 DEF Outline, Holding, pages
  <2> QED BY <1>1, <2>1, <2>2
<1>8. Found'
  BY <1>1, <1>2, <1>3 DEF Engine, Found, TreeIn, NoTree
<1> QED BY <1>4, <1>5, <1>6, <1>7, <1>8 DEF Engine

LEMMA LoadRootKeeps == ASSUME Engine, Storage, LoadRoot PROVE Engine'
<1>1. /\ UNCHANGED <<size, magic, issued, pc, new_page_offset_index, content, stable, tree, sound, torn, calls>>
      /\ at = "open" /\ calls = <<>> /\ content[META] # Zero
      /\ root_page_id' = content[META] /\ at' = "serving"
      /\ holders' = [holders EXCEPT ![META] = @ - 1]
  BY DEF LoadRoot, storage, file, history, Pool!Release
<1>2. META \in PoolPages /\ Holding({META})
  BY <1>1, DatabaseAssumption DEF Engine, Outline, Opening, META, PoolPages
<1>3. Types' /\ Roots' /\ Stages' /\ Formatted'
  BY <1>1 DEF Engine, Types, Roots, Stages, Formatted
<1>4. sound => /\ tree.root \in tree.pages /\ content = stable
               /\ content[META] = tree.root /\ \A p \in tree.pages : content[p] = Node
  BY <1>1, RootOfTree DEF Engine, Found, TreeIn, NoTree, Zero
<1>5. holders' = [q \in PoolPages |-> IF q \in {} THEN 1 ELSE 0]
  BY <1>1, <1>2 DEF Holding
<1>6. Outline'
  BY <1>1, <1>4, <1>5 DEF Outline, Rooted, Holding
<1>7. Found'
  BY <1>1, <1>4 DEF Found
<1> QED BY <1>3, <1>6, <1>7 DEF Engine

LEMMA GrowKeeps == ASSUME Engine, Storage, Grow PROVE Engine'
<1> USE DEF Engine
<1>1. /\ UNCHANGED <<size, magic, issued, pc, new_page_offset_index, content, stable, holders,
                     calls, root_page_id, tree, sound, torn>>
      /\ at = "serving" /\ at' \in {"split", "grow"}
  BY DEF Grow, storage, file, history, pages
<1>2. Types' /\ Roots' /\ Formatted'
  BY <1>1 DEF Types, Roots, Formatted
<1>3. Stages'
  BY <1>1 DEF Stages, Outline
<1>4. Outline'
  BY <1>1 DEF Outline, Splitting, Growing, Rooted, Holding
<1>5. Found'
  BY <1>1 DEF Found
<1> QED BY <1>2, <1>3, <1>4, <1>5

LEMMA ShrinkKeeps == ASSUME Engine, Storage, Shrink PROVE Engine'
<1> USE DEF Engine
<1>1. /\ UNCHANGED <<size, magic, issued, pc, new_page_offset_index, content, stable, holders,
                     root_page_id, tree, sound, torn>>
      /\ at = "serving" /\ at' = "shrink"
      /\ \E p \in tree.pages : calls' = SetNewRoot(p)
  BY DEF Shrink, storage, file, history, pages
<1>2. Types' /\ Roots' /\ Formatted' /\ Stages'
  BY <1>1 DEF Types, Roots, Formatted, Stages
<1>3. Outline'
  BY <1>1 DEF Outline, Shrinking, Rooted, Holding
<1>4. Found'
  BY <1>1 DEF Found
<1> QED BY <1>2, <1>3, <1>4

LEMMA WriteBackKeeps ==
  ASSUME Engine, Storage, Storage', NEW p \in PoolPages, WriteBack(p)  PROVE Engine'
<1> USE DEF Engine
<1>1. /\ UNCHANGED <<magic, issued, pc, new_page_offset_index, content, holders,
                     at, calls, root_page_id, tree, sound, torn>>
      /\ content[p] # stable[p] /\ holders[p] = 0 /\ stable' = [stable EXCEPT ![p] = content[p]]
      /\ pc = "running" /\ p \in issued \cup {META} /\ size' = IF size > p THEN size ELSE p + 1
  BY DEF WriteBack, SM!WritePage, SM!Extended, Pool!Persist, history, META, SM!DATABASE_META_PAGE_ID
<1>2. at = "open" => Holding({META}) \/ \E q : Holding({META, q})
  BY DEF Outline, Opening
<1>3. at = "open" => stable'[META] = stable[META]
  BY <1>1, <1>2, DatabaseAssumption DEF Holding, PoolPages, META, Types
<1>4. Types' /\ Roots'
  BY <1>1 DEF Types, Roots
<1>5. Stages' /\ Outline'
  BY <1>1 DEF Stages, Outline, Opening, Splitting, Growing, Shrinking, Rooted, Holding, Newest
<1>6. Formatted'
  BY <1>1 DEF Formatted, Storage, PoolPages, META
<1>7. Found'
  BY <1>1, <1>3 DEF Found, TreeIn, NoTree
<1> QED BY <1>4, <1>5, <1>6, <1>7

LEMMA ShutDownKeeps == ASSUME Engine, Storage, Storage', ShutDown PROVE Engine'
<1> USE DEF Engine
<1>1. UNCHANGED <<size, magic, issued, holders, calls, tree, sound, torn>>
  BY DEF ShutDown, SM!Stop, SM!file, Pool!Shutdown, storage, file, pages, history
<1>2. \/ /\ at \in {"serving", "failed"} /\ at' = "closing"
         /\ UNCHANGED <<pc, new_page_offset_index, content, stable, root_page_id>>
      \/ /\ at = "closing" /\ at' = "down" /\ content = stable /\ pc' = "down"
         /\ content' = content /\ stable' = stable
  <2>1. SUFFICES ASSUME at = "closing", content = stable, SM!Stop, Pool!Shutdown, at' = "down"
                 PROVE pc' = "down" /\ content' = content /\ stable' = stable
    BY DEF ShutDown, storage, file, pages
  <2>2. stable' = content' /\ content' = [q \in PoolPages |-> content[q]]
    BY <2>1 DEF Pool!Shutdown
  <2> QED BY <2>1, <2>2 DEF SM!Stop, Types
<1>3. calls = <<>> /\ Holding({})
  BY <1>2 DEF Outline
<1>4. Types' /\ Roots'
  BY <1>1, <1>2 DEF Types, Roots
<1>5. Stages' /\ Outline'
  BY <1>1, <1>2, <1>3 DEF Stages, Outline, Holding, Types
<1>6. Formatted'
  BY <1>1, <1>2 DEF Formatted, Stages
<1>7. Found'
  BY <1>1, <1>2 DEF Found, TreeIn, NoTree, Outline, Rooted
<1> QED BY <1>4, <1>5, <1>6, <1>7

LEMMA KillKeeps == ASSUME Engine, Storage, Storage', Kill PROVE Engine'
<1> USE DEF Engine
<1>1. /\ UNCHANGED <<size, magic, issued, stable, tree>>
      /\ pc' = "down" /\ at # "down" /\ at' = "down" /\ calls' = <<>> /\ content' = stable
      /\ holders' = [q \in PoolPages |-> 0]
      /\ sound' = (sound /\ at \in {"start", "open", "failed"})
      /\ torn' = (torn \/ pc = "format_db")
  BY DEF Kill, SM!Stop, SM!file, Pool!Crash
<1>2. Types' /\ Roots'
  BY <1>1 DEF Types, Roots
<1>3. Stages' /\ Outline'
  BY <1>1 DEF Stages, Outline, Holding
<1>4. Formatted'
  BY <1>1 DEF Formatted, Storage
<1>5. Found'
  BY <1>1 DEF Found, TreeIn, NoTree
<1> QED BY <1>2, <1>3, <1>4, <1>5

-----------------------------------------------------------------------------
\* The calls of the buffer pool.

\* What no call changes, and what the last one does.
LEMMA PoolCallFrame ==
  ASSUME PoolCall
  PROVE  /\ calls # <<>> /\ calls' = Tail(calls)
         /\ UNCHANGED <<size, magic, issued, pc, new_page_offset_index, sound, torn>>
         /\ calls' = <<>> => at' = "serving" /\ tree' = TreeAfter(root_page_id')
         /\ calls' # <<>> => at' = at /\ tree' = tree
BY DEF PoolCall, storage, file

\* What the calls to come are when one was made.
LEMMA OpeningCall ==
  ASSUME Engine, Storage, PoolCall, at = "open", NEW p \in issued, Opening(p)
  PROVE  /\ content' \in [PoolPages -> PoolPages \cup {Zero}] /\ stable' = stable
         /\ content'[META] \in {content[META], p}
         /\ IF calls' = <<>>
            THEN Holding({})' /\ root_page_id' = p /\ content'[META] = p /\ content'[p] = Node
            ELSE Opening(p)'
<1> USE DEF Opening, NewTree
<1>1. /\ META \in PoolPages /\ p \in PoolPages /\ p # META /\ Node \in PoolPages
      /\ {META} \in SUBSET PoolPages /\ {META, p} \in SUBSET PoolPages
      /\ {META} \cup {p} = {META, p} /\ {META, p} \ {p} = {META} /\ {META} \ {META} = {}
  BY DatabaseAssumption DEF META, PoolPages, Node, Storage
<1>2. Types /\ content \in [PoolPages -> PoolPages \cup {Zero}]
  BY DEF Engine, Types
<1>3. calls # <<>> /\ calls' = Tail(calls)
  BY PoolCallFrame
<1>4. CASE calls = NewTree(p) /\ Holding({META}) /\ content[META] = Zero
  <2>1. Head(calls) = Request(p)
        /\ Tail(calls) = <<Write(p, Node), Release(p), Write(META, p), Release(META)>>
    BY <1>4
  <2>2. Holding({META, p})' /\ UNCHANGED <<content, stable, root_page_id>>
    BY <1>1, <1>4, <2>1, RequestStep
  <2> QED BY <1>2, <1>3, <1>4, <2>1, <2>2
<1>5. CASE /\ calls = <<Write(p, Node), Release(p), Write(META, p), Release(META)>>
           /\ Holding({META, p}) /\ content[META] = Zero
  <2>1. /\ Head(calls) = Write(p, Node)
        /\ Tail(calls) = <<Release(p), Write(META, p), Release(META)>>
    BY <1>5
  <2>2. /\ Holding({META, p})' /\ UNCHANGED <<stable, root_page_id>>
        /\ content' \in [PoolPages -> PoolPages \cup {Zero}]
        /\ content'[p] = Node /\ content'[META] = content[META]
    BY <1>1, <1>2, <1>5, <2>1, WriteStep
  <2> QED BY <1>3, <1>5, <2>1, <2>2
<1>6. CASE /\ calls = <<Release(p), Write(META, p), Release(META)>>
           /\ Holding({META, p}) /\ content[p] = Node /\ content[META] = Zero
  <2>1. Head(calls) = Release(p) /\ Tail(calls) = <<Write(META, p), Release(META)>>
    BY <1>6
  <2>2. Holding({META})' /\ UNCHANGED <<content, stable, root_page_id>>
    BY <1>1, <1>6, <2>1, ReleaseStep
  <2> QED BY <1>2, <1>3, <1>6, <2>1, <2>2
<1>7. CASE /\ calls = <<Write(META, p), Release(META)>>
           /\ Holding({META}) /\ content[p] = Node /\ content[META] = Zero
  <2>1. Head(calls) = Write(META, p) /\ Tail(calls) = <<Release(META)>>
    BY <1>7
  <2>2. /\ Holding({META})' /\ stable' = stable /\ root_page_id' = p
        /\ content' \in [PoolPages -> PoolPages \cup {Zero}]
        /\ content'[META] = p /\ content'[p] = content[p]
    BY <1>1, <1>2, <1>7, <2>1, WriteStep
  <2> QED BY <1>3, <1>7, <2>1, <2>2
<1>8. CASE /\ calls = <<Release(META)>> /\ Holding({META}) /\ content[p] = Node
           /\ content[META] = p /\ root_page_id = p
  <2>1. Head(calls) = Release(META) /\ Tail(calls) = <<>>
    BY <1>8
  <2>2. Holding({})' /\ UNCHANGED <<content, stable, root_page_id>>
    BY <1>1, <1>8, <2>1, ReleaseStep
  <2> QED BY <1>2, <1>3, <1>8, <2>1, <2>2
<1> QED BY <1>3, <1>4, <1>5, <1>6, <1>7, <1>8

\* The same for a page that a split adds.
LEMMA SplittingCall ==
  ASSUME Engine, Storage, PoolCall, at = "split", NEW p \in issued, Splitting(p)
  PROVE  /\ content' \in [PoolPages -> PoolPages \cup {Zero}] /\ stable' = stable
         /\ root_page_id' = root_page_id
         /\ \A q \in PoolPages : content'[q] = content[q] \/ (q = p /\ content'[q] = Node)
         /\ IF calls' = <<>> THEN Holding({})' /\ content'[p] = Node
            ELSE \/ calls' = <<Write(p, Node), Release(p)>> /\ Holding({p})'
                 \/ calls' = <<Release(p)>> /\ Holding({p})' /\ content'[p] = Node
<1> USE DEF Splitting, NewNode
<1>1. /\ p \in PoolPages /\ p # META /\ Node \in PoolPages
      /\ {} \in SUBSET PoolPages /\ {p} \in SUBSET PoolPages
      /\ {} \cup {p} = {p} /\ {p} \ {p} = {}
  BY DatabaseAssumption DEF META, PoolPages, Node, Storage
<1>2. Types /\ content \in [PoolPages -> PoolPages \cup {Zero}]
  BY DEF Engine, Types
<1>3. calls # <<>> /\ calls' = Tail(calls)
  BY PoolCallFrame
<1>4. CASE calls = NewNode(p) /\ Holding({})
  <2>1. Head(calls) = Request(p) /\ Tail(calls) = <<Write(p, Node), Release(p)>>
    BY <1>4
  <2>2. Holding({p})' /\ UNCHANGED <<content, stable, root_page_id>>
    BY <1>1, <1>4, <2>1, RequestStep
  <2> QED BY <1>2, <1>3, <2>1, <2>2
<1>5. CASE calls = <<Write(p, Node), Release(p)>> /\ Holding({p})
  <2>1. Head(calls) = Write(p, Node) /\ Tail(calls) = <<Release(p)>>
    BY <1>5
  <2>2. /\ Holding({p})' /\ UNCHANGED <<stable, root_page_id>>
        /\ content' \in [PoolPages -> PoolPages \cup {Zero}]
        /\ content'[p] = Node /\ \A q \in PoolPages \ {p} : content'[q] = content[q]
    BY <1>1, <1>2, <1>5, <2>1, WriteStep
  <2> QED BY <1>3, <2>1, <2>2
<1>6. CASE calls = <<Release(p)>> /\ Holding({p}) /\ content[p] = Node
  <2>1. Head(calls) = Release(p) /\ Tail(calls) = <<>>
    BY <1>6
  <2>2. Holding({})' /\ UNCHANGED <<content, stable, root_page_id>>
    BY <1>1, <1>6, <2>1, ReleaseStep
  <2> QED BY <1>2, <1>3, <1>6, <2>1, <2>2
<1> QED BY <1>3, <1>4, <1>5, <1>6

\* The same for a new root.
LEMMA GrowingCall ==
  ASSUME Engine, Storage, PoolCall, at = "grow", NEW p \in issued, Growing(p)
  PROVE  /\ content' \in [PoolPages -> PoolPages \cup {Zero}] /\ stable' = stable
         /\ content'[META] \in {content[META], p}
         /\ \A q \in PoolPages \ {META} :
              content'[q] = content[q] \/ (q = p /\ content'[q] = Node)
         /\ IF calls' = <<>> THEN Holding({})' /\ content'[p] = Node /\ Rooted(p)'
            ELSE Growing(p)'
<1> USE DEF Growing, NewRoot, Rooted
<1>1. /\ META \in PoolPages /\ p \in PoolPages /\ p # META /\ Node \in PoolPages /\ p # Zero
      /\ {} \in SUBSET PoolPages /\ {p} \in SUBSET PoolPages /\ {p, META} \in SUBSET PoolPages
      /\ {} \cup {p} = {p} /\ {p} \ {p} = {} /\ {p} \cup {META} = {p, META}
      /\ {p, META} \ {META} = {p}
  BY DatabaseAssumption DEF META, PoolPages, Node, Storage, Zero
<1>2. Types /\ content \in [PoolPages -> PoolPages \cup {Zero}]
  BY DEF Engine, Types
<1>3. /\ calls # <<>> /\ calls' = Tail(calls) /\ sound' = sound
      /\ calls' # <<>> => tree' = tree
  BY PoolCallFrame
<1>4. CASE calls = NewRoot(p) /\ Holding({}) /\ Rooted(tree.root)
  <2>1. /\ Head(calls) = Request(p)
        /\ Tail(calls) = <<Write(p, Node), Request(META), Write(META, p), Release(META), Release(p)>>
    BY <1>4
  <2>2. Holding({p})' /\ UNCHANGED <<content, stable, root_page_id>>
    BY <1>1, <1>4, <2>1, RequestStep
  <2> QED BY <1>2, <1>3, <1>4, <2>1, <2>2
<1>5. CASE /\ calls = <<Write(p, Node), Request(META), Write(META, p), Release(META), Release(p)>>
           /\ Holding({p}) /\ Rooted(tree.root)
  <2>1. /\ Head(calls) = Write(p, Node)
        /\ Tail(calls) = <<Request(META), Write(META, p), Release(META), Release(p)>>
    BY <1>5
  <2>2. /\ Holding({p})' /\ UNCHANGED <<stable, root_page_id>>
        /\ content' \in [PoolPages -> PoolPages \cup {Zero}]
        /\ content'[p] = Node /\ \A q \in PoolPages \ {p} : content'[q] = content[q]
    BY <1>1, <1>2, <1>5, <2>1, WriteStep
  <2> QED BY <1>1, <1>3, <1>5, <2>1, <2>2
<1>6. CASE /\ calls = <<Request(META), Write(META, p), Release(META), Release(p)>>
           /\ Holding({p}) /\ content[p] = Node /\ Rooted(tree.root)
  <2>1. /\ Head(calls) = Request(META)
        /\ Tail(calls) = <<Write(META, p), Release(META), Release(p)>>
    BY <1>6
  <2>2. Holding({p, META})' /\ UNCHANGED <<content, stable, root_page_id>>
    BY <1>1, <1>6, <2>1, RequestStep
  <2> QED BY <1>2, <1>3, <1>6, <2>1, <2>2
<1>7. CASE /\ calls = <<Write(META, p), Release(META), Release(p)>>
           /\ Holding({p, META}) /\ content[p] = Node /\ Rooted(tree.root)
  <2>1. Head(calls) = Write(META, p) /\ Tail(calls) = <<Release(META), Release(p)>>
    BY <1>7
  <2>2. /\ Holding({p, META})' /\ stable' = stable /\ root_page_id' = p
        /\ content' \in [PoolPages -> PoolPages \cup {Zero}]
        /\ content'[META] = p /\ \A q \in PoolPages \ {META} : content'[q] = content[q]
    BY <1>1, <1>2, <1>7, <2>1, WriteStep
  <2> QED BY <1>1, <1>3, <1>7, <2>1, <2>2
<1>8. CASE /\ calls = <<Release(META), Release(p)>> /\ Holding({p, META})
           /\ content[p] = Node /\ Rooted(p)
  <2>1. Head(calls) = Release(META) /\ Tail(calls) = <<Release(p)>>
    BY <1>8
  <2>2. Holding({p})' /\ UNCHANGED <<content, stable, root_page_id>>
    BY <1>1, <1>8, <2>1, ReleaseStep
  <2> QED BY <1>2, <1>3, <1>8, <2>1, <2>2
<1>9. CASE calls = <<Release(p)>> /\ Holding({p}) /\ content[p] = Node /\ Rooted(p)
  <2>1. Head(calls) = Release(p) /\ Tail(calls) = <<>>
    BY <1>9
  <2>2. Holding({})' /\ UNCHANGED <<content, stable, root_page_id>>
    BY <1>1, <1>9, <2>1, ReleaseStep
  <2> QED BY <1>2, <1>3, <1>9, <2>1, <2>2
<1> QED BY <1>3, <1>4, <1>5, <1>6, <1>7, <1>8, <1>9

\* The same when the root is replaced by the leaf that is left.
LEMMA ShrinkingCall ==
  ASSUME Engine, Storage, PoolCall, at = "shrink"
  PROVE  \E p \in tree.pages :
           /\ content' \in [PoolPages -> PoolPages \cup {Zero}] /\ stable' = stable
           /\ content'[META] \in {content[META], p}
           /\ \A q \in PoolPages \ {META} : content'[q] = content[q]
           /\ IF calls' = <<>> THEN Holding({})' /\ Rooted(p)'
              ELSE Shrinking'
<1> USE DEF Shrinking, SetNewRoot, Rooted
<1>1. PICK p \in tree.pages :
        \/ /\ Rooted(tree.root)
           /\ \/ calls = SetNewRoot(p) /\ Holding({})
              \/ calls = <<Write(META, p), Release(META)>> /\ Holding({META})
        \/ Rooted(p) /\ calls = <<Release(META)>> /\ Holding({META})
  BY DEF Engine, Outline
<1>2. /\ META \in PoolPages /\ p \in PoolPages /\ p # META /\ p # Zero
      /\ {} \in SUBSET PoolPages /\ {META} \in SUBSET PoolPages
      /\ {} \cup {META} = {META} /\ {META} \ {META} = {}
  BY DatabaseAssumption DEF META, PoolPages, Storage, Zero, Engine, Roots
<1>3. Types /\ content \in [PoolPages -> PoolPages \cup {Zero}]
  BY DEF Engine, Types
<1>4. /\ calls # <<>> /\ calls' = Tail(calls) /\ sound' = sound
      /\ calls' # <<>> => tree' = tree
  BY PoolCallFrame
<1>5. CASE calls = SetNewRoot(p) /\ Holding({}) /\ Rooted(tree.root)
  <2>1. Head(calls) = Request(META) /\ Tail(calls) = <<Write(META, p), Release(META)>>
    BY <1>5
  <2>2. Holding({META})' /\ UNCHANGED <<content, stable, root_page_id>>
    BY <1>2, <1>5, <2>1, RequestStep
  <2> QED BY <1>3, <1>4, <1>5, <2>1, <2>2
<1>6. CASE calls = <<Write(META, p), Release(META)>> /\ Holding({META}) /\ Rooted(tree.root)
  <2>1. Head(calls) = Write(META, p) /\ Tail(calls) = <<Release(META)>>
    BY <1>6
  <2>2. /\ Holding({META})' /\ stable' = stable /\ root_page_id' = p
        /\ content' \in [PoolPages -> PoolPages \cup {Zero}]
        /\ content'[META] = p /\ \A q \in PoolPages \ {META} : content'[q] = content[q]
    BY <1>2, <1>3, <1>6, <2>1, WriteStep
  <2> QED BY <1>2, <1>4, <1>6, <2>1, <2>2
<1>7. CASE calls = <<Release(META)>> /\ Holding({META}) /\ Rooted(p)
  <2>1. Head(calls) = Release(META) /\ Tail(calls) = <<>>
    BY <1>7
  <2>2. Holding({})' /\ UNCHANGED <<content, stable, root_page_id>>
    BY <1>2, <1>7, <2>1, ReleaseStep
  <2> QED BY <1>3, <1>4, <1>7, <2>1, <2>2
<1> QED BY <1>1, <1>5, <1>6, <1>7

LEMMA PoolCallKeeps == ASSUME Engine, Storage, PoolCall PROVE Engine'
<1>1. /\ calls # <<>>
      /\ UNCHANGED <<size, magic, issued, pc, new_page_offset_index, sound, torn>>
      /\ calls' = <<>> => at' = "serving" /\ tree' = TreeAfter(root_page_id')
      /\ calls' # <<>> => at' = at /\ tree' = tree
  BY PoolCallFrame
<1>2. Types /\ Stages /\ Formatted /\ Roots /\ Outline /\ Found
  BY DEF Engine
<1>3. pc = "running" /\ size > 1 /\ ~torn /\ at \in {"open", "split", "grow", "shrink"}
  BY <1>1, <1>2 DEF Stages, Formatted, Storage, Types, Outline
<1>4. Stages' /\ Formatted'
  BY <1>1, <1>2, <1>3 DEF Stages, Formatted, Newest
<1>5. Newest \in issued \/ at = "shrink"
  BY <1>1, <1>2 DEF Stages
<1>6. \A q \in issued : q \in PoolPages /\ q # META /\ q # Zero
  BY DEF Storage, PoolPages, META, Zero
<1>7. CASE at = "open"
  <2>1. PICK p \in issued : p = Newest
    BY <1>5, <1>7
  <2>2. p = Newest' /\ Opening(p)
    BY <1>1, <1>2, <1>7, <2>1 DEF Newest, Outline
  <2>3. /\ content' \in [PoolPages -> PoolPages \cup {Zero}] /\ stable' = stable
        /\ content'[META] \in {content[META], p}
        /\ IF calls' = <<>>
           THEN Holding({})' /\ root_page_id' = p /\ content'[META] = p /\ content'[p] = Node
           ELSE Opening(p)'
    BY <1>7, <2>2, OpeningCall
  <2>4. calls' = <<>> => tree' = [root |-> p, pages |-> tree.pages \cup {p}]
    BY <1>1, <1>7, <2>1, <2>3 DEF TreeAfter, Newest
  <2>5. sound => tree = NoTree /\ TreeIn(stable)
    BY <1>1, <1>2, <1>7 DEF Found
  <2>6. Types' /\ Roots'
    BY <1>1, <1>2, <2>3, <2>4 DEF Types, Roots
  <2>7. Outline'
    <3>1. CASE calls' = <<>>
      BY <1>1, <1>6, <2>3, <2>4, <3>1 DEF Outline, Rooted
    <3>2. CASE calls' # <<>>
      BY <1>1, <1>7, <2>2, <2>3, <3>2 DEF Outline
    <3> QED BY <3>1, <3>2
  <2>8. Found'
    BY <1>1, <1>7, <2>3, <2>4, <2>5 DEF Found, NoTree, TreeIn
  <2> QED BY <1>4, <2>6, <2>7, <2>8 DEF Engine
<1>8. CASE at = "split"
  <2>1. PICK p \in issued : p = Newest
    BY <1>5, <1>8
  <2>2. p = Newest' /\ Splitting(p)
    BY <1>1, <1>2, <1>8, <2>1 DEF Newest, Outline
  <2>3. /\ content' \in [PoolPages -> PoolPages \cup {Zero}] /\ stable' = stable
        /\ root_page_id' = root_page_id
        /\ \A q \in PoolPages : content'[q] = content[q] \/ (q = p /\ content'[q] = Node)
        /\ IF calls' = <<>> THEN Holding({})' /\ content'[p] = Node
           ELSE \/ calls' = <<Write(p, Node), Release(p)>> /\ Holding({p})'
                \/ calls' = <<Release(p)>> /\ Holding({p})' /\ content'[p] = Node
    BY <1>8, <2>2, SplittingCall
  <2>4. calls' = <<>> => tree' = [root |-> root_page_id, pages |-> tree.pages \cup {p}]
    BY <1>1, <1>8, <2>1, <2>3 DEF TreeAfter, Newest
  <2>5. /\ content'[META] = content[META] /\ Rooted(tree.root)
        /\ tree.pages \subseteq issued
        /\ sound => tree.root \in tree.pages /\ \A q \in tree.pages : content[q] = Node
    BY <1>2, <1>6, <1>8, <2>2, <2>3, DatabaseAssumption
       DEF Found, Splitting, Roots, PoolPages, META
  <2>6. Types' /\ Roots'
    BY <1>1, <1>2, <2>3, <2>4, <2>5 DEF Types, Roots
  <2>7. Outline'
    <3>1. CASE calls' = <<>>
      BY <1>1, <2>3, <2>4, <2>5, <3>1 DEF Outline, Rooted
    <3>2. CASE calls' # <<>>
      BY <1>1, <1>8, <2>2, <2>3, <2>5, <3>2 DEF Outline, Splitting, Rooted
    <3> QED BY <3>1, <3>2
  <2>8. Found'
    <3>1. CASE calls' = <<>>
      BY <1>1, <1>6, <2>3, <2>4, <2>5, <3>1 DEF Found, Rooted
    <3>2. CASE calls' # <<>>
      BY <1>1, <1>6, <1>8, <2>3, <2>5, <3>2 DEF Found
    <3> QED BY <3>1, <3>2
  <2> QED BY <1>4, <2>6, <2>7, <2>8 DEF Engine
<1>9. CASE at = "grow"
  <2>1. PICK p \in issued : p = Newest
    BY <1>5, <1>9
  <2>2. p = Newest' /\ Growing(p)
    BY <1>1, <1>2, <1>9, <2>1 DEF Newest, Outline
  <2>3. /\ content' \in [PoolPages -> PoolPages \cup {Zero}] /\ stable' = stable
        /\ content'[META] \in {content[META], p}
        /\ \A q \in PoolPages \ {META} :
             content'[q] = content[q] \/ (q = p /\ content'[q] = Node)
        /\ IF calls' = <<>> THEN Holding({})' /\ content'[p] = Node /\ Rooted(p)'
           ELSE Growing(p)'
    BY <1>9, <2>2, GrowingCall
  <2>4. calls' = <<>> => tree' = [root |-> root_page_id', pages |-> tree.pages \cup {p}]
    BY <1>1, <1>9, <2>1, <2>3 DEF TreeAfter, Newest
  <2>5. /\ tree.pages \subseteq issued
        /\ sound => tree.root \in tree.pages /\ \A q \in tree.pages : content'[q] = Node
    BY <1>2, <1>6, <1>9, <2>3 DEF Found, Roots
  <2>6. Types' /\ Roots'
    BY <1>1, <1>2, <2>3, <2>4 DEF Types, Roots
  <2>7. Outline'
    <3>1. CASE calls' = <<>>
      BY <1>1, <2>3, <2>4, <3>1 DEF Outline, Rooted
    <3>2. CASE calls' # <<>>
      BY <1>1, <1>9, <2>2, <2>3, <3>2 DEF Outline
    <3> QED BY <3>1, <3>2
  <2>8. Found'
    <3>1. CASE calls' = <<>>
      BY <1>1, <2>3, <2>4, <2>5, <3>1 DEF Found, Rooted
    <3>2. CASE calls' # <<>>
      BY <1>1, <1>9, <2>5, <3>2 DEF Found
    <3> QED BY <3>1, <3>2
  <2> QED BY <1>4, <2>6, <2>7, <2>8 DEF Engine
<1>10. CASE at = "shrink"
  <2>1. PICK p \in tree.pages :
          /\ content' \in [PoolPages -> PoolPages \cup {Zero}] /\ stable' = stable
          /\ content'[META] \in {content[META], p}
          /\ \A q \in PoolPages \ {META} : content'[q] = content[q]
          /\ IF calls' = <<>> THEN Holding({})' /\ Rooted(p)' ELSE Shrinking'
    BY <1>10, ShrinkingCall
  <2>2. calls' = <<>> => tree' = [root |-> root_page_id', pages |-> {root_page_id'}]
    BY <1>1, <1>10 DEF TreeAfter
  <2>3. /\ tree.pages \subseteq issued /\ p \in issued
        /\ sound => tree.root \in tree.pages /\ \A q \in tree.pages : content'[q] = Node
    BY <1>2, <1>6, <1>10, <2>1 DEF Found, Roots
  <2>4. Types' /\ Roots'
    BY <1>1, <1>2, <2>1, <2>2, <2>3 DEF Types, Roots, Rooted
  <2>5. Outline'
    <3>1. CASE calls' = <<>>
      BY <1>1, <2>1, <2>2, <3>1 DEF Outline, Rooted
    <3>2. CASE calls' # <<>>
      BY <1>1, <1>10, <2>1, <3>2 DEF Outline
    <3> QED BY <3>1, <3>2
  <2>6. Found'
    <3>1. CASE calls' = <<>>
      BY <1>1, <2>1, <2>2, <2>3, <3>1 DEF Found, Rooted
    <3>2. CASE calls' # <<>>
      BY <1>1, <1>10, <2>3, <3>2 DEF Found
    <3> QED BY <3>1, <3>2
  <2> QED BY <1>4, <2>4, <2>5, <2>6 DEF Engine
<1> QED BY <1>3, <1>7, <1>8, <1>9, <1>10

-----------------------------------------------------------------------------
\* The invariant, and what follows from it.

LEMMA InitInv == Init => Inv
<1> SUFFICES ASSUME Init PROVE Inv
  OBVIOUS
<1>1. SMP!SInv
  BY DatabaseAssumption, SMP!InitSInv DEF Init, SM!Init, SMP!Init, SMP!StorageAssumption
<1>2. Types
  BY DEF Init, Types
<1>3. Stages /\ Formatted
  BY DEF Init, SM!Init, Stages, Formatted
<1>4. Roots
  BY DatabaseAssumption DEF Init, SM!Init, Roots, META, PoolPages
<1>5. Outline /\ Found
  BY DatabaseAssumption
     DEF Init, SM!Init, Outline, Found, Holding, TreeIn, NoTree, META, PoolPages, Zero
<1> QED BY <1>1, <1>2, <1>3, <1>4, <1>5 DEF Inv, Engine

LEMMA NextInv == Inv /\ [Next]_vars => Inv'
<1> SUFFICES ASSUME Inv, [Next]_vars PROVE Inv'
  OBVIOUS
<1>1. Engine /\ Storage /\ Storage' /\ SMP!SInv'
  BY StorageNext, StorageKept DEF Inv
<1>2. ASSUME UNCHANGED vars PROVE Engine'
  BY <1>1, <1>2 DEF vars, storage, file, pages, history, Engine, Types, Stages, Formatted, Roots,
     Outline, Found, TreeIn, Opening, Splitting, Growing, Shrinking, Rooted, Holding, Newest
<1>3. ASSUME NEW p \in PoolPages, WriteBack(p) PROVE Engine'
  BY <1>1, <1>3, WriteBackKeeps
<1>4. Engine'
  BY <1>1, <1>2, <1>3, OpenKeeps, BootstrapKeeps, RequestMetaKeeps, LoadRootKeeps, GrowKeeps,
     ShrinkKeeps, AllocateNewPageKeeps, AllocatedKeeps, PoolCallKeeps, ShutDownKeeps, KillKeeps
     DEF Next
<1> QED BY <1>1, <1>4 DEF Inv

LEMMA AlwaysInv == Spec => []Inv
BY InitInv, NextInv, PTL DEF Spec

\* The types.
THEOREM TypeCorrect == Spec => []TypeOK
<1>1. Inv => TypeOK
  <2> SUFFICES ASSUME Inv PROVE TypeOK
    OBVIOUS
  <2>1. SM!TypeOK
    BY DEF Inv, SMP!SInv, SMP!TypeOK, SMP!PageIDs, SM!TypeOK, SM!PageIDs
  <2>2. \E S : Holding(S)
    BY DEF Inv, Engine, Types, Outline, Opening, Splitting, Growing, Shrinking
  <2>3. holders \in [PoolPages -> 0..1]
    BY <2>2 DEF Holding
  <2> QED BY <2>1, <2>3 DEF Inv, Engine, Types, Stages, Outline, TypeOK
<1> QED BY <1>1, AlwaysInv, PTL

\* Whenever the process is killed, the root that the meta page of the file names is a page that
\* was handed out and that no later process hands out again.
THEOREM RootKept == Spec => []RootIsKept
<1>1. Inv => RootIsKept
  BY StorageFacts DEF Inv, Engine, Roots, Storage, RootIsKept
<1> QED BY <1>1, AlwaysInv, PTL

\* A server that does not start was not the first to be stopped while it formatted the file,
\* and none starts after that one.
THEOREM OnlyTornFails == Spec => []StartsUnlessTorn
<1>1. Inv => StartsUnlessTorn
  BY DEF Inv, Engine, Formatted, Stages, StartsUnlessTorn
<1> QED BY <1>1, AlwaysInv, PTL

\* A server that starts finds the tree that the last one left, with all of its pages, if every
\* process that had served came to its end in order.
THEOREM TreeIsFound == Spec => []TreeFound
<1>1. Inv => TreeFound
  BY DEF Inv, Engine, Found, Outline, Rooted, TreeFound
<1> QED BY <1>1, AlwaysInv, PTL
=============================================================================
