---------------------------- MODULE StorageManager ----------------------------
(***************************************************************************)
(* The storage manager (database/src/impl/storageManager/): one file of    *)
(* fixed-size pages, opened and formatted by Bootstrap, and extended one   *)
(* page at a time by AllocateNewPage.                                      *)
(*                                                                         *)
(* Page 0 belongs to the storage manager: a magic number and the index of  *)
(* the next page to hand out.  Page 1 is the database's own meta page.     *)
(* Every system call is a step: it may fail, and the process may be killed *)
(* between any two of them.  What was written stays written.               *)
(***************************************************************************)
EXTENDS Naturals

CONSTANTS MaxPages,   \* bound: pages of the file
          MaxFaults   \* bound: system calls that fail

ASSUME StorageAssumption == /\ MaxPages \in Nat
                            /\ MaxPages > 2
                            /\ MaxFaults \in Nat

STORAGE_MANAGER_META_PAGE_ID == 0
DATABASE_META_PAGE_ID == 1
PageIDs == 0..(MaxPages - 1)

VARIABLES
  size,       \* st_size of the file, in pages
  magic,      \* the magic number at the start of page 0
  next,       \* the index stored in page 0
  dirtied,    \* pages of the file, page 0 aside, that are not all zeros
  new_page_offset_index,  \* the member of StorageManager
  pc,         \* what the process is about to do
  issued,     \* pages handed out since the file was created
  faults      \* system calls that failed

file == <<size, magic, next, dirtied>>
vars == <<file, new_page_offset_index, pc, issued, faults>>

\* A page written past the end of the file extends it.
Extended(p) == IF size > p THEN size ELSE p + 1

Init == /\ size = 0 /\ magic = "absent" /\ next = 0 /\ dirtied = {}
        /\ new_page_offset_index = 0 /\ pc = "down"
        /\ issued = {} /\ faults = 0

\* A system call fails, and nobody looks at its result.
Fault == /\ faults < MaxFaults
         /\ faults' = faults + 1

-----------------------------------------------------------------------------
\* Bootstrap.

\* Slip: page 0 is not asked for its magic number.
IsDatabaseFile_LooksAtSize == size > DATABASE_META_PAGE_ID + 1

\* A file is a database when it is long enough and has the magic number.
IsDatabaseFile == size > STORAGE_MANAGER_META_PAGE_ID /\ magic = "present"

\* Open the file (creating it if need be), and format what is no database.  If
\* fstat or pread fails, the file is taken for a new one.
Open == /\ pc = "down"
        /\ \/ pc' = (IF IsDatabaseFile THEN "load" ELSE "format") /\ UNCHANGED faults
           \/ Fault /\ pc' = "format"
        /\ UNCHANGED <<file, new_page_offset_index, issued>>

\* Page 0 first.
FormatStorageMeta ==
  /\ pc = "format"
  /\ \/ /\ magic' = "present"
        /\ next' = DATABASE_META_PAGE_ID + 1
        /\ size' = Extended(STORAGE_MANAGER_META_PAGE_ID)
        /\ UNCHANGED faults
     \/ Fault /\ UNCHANGED <<magic, next, size>>
  /\ pc' = "format_db"
  /\ UNCHANGED <<dirtied, new_page_offset_index, issued>>

\* Then page 1, zeroed.
FormatDatabaseMeta ==
  /\ pc = "format_db"
  /\ \/ /\ size' = Extended(DATABASE_META_PAGE_ID)
        /\ dirtied' = dirtied \ {DATABASE_META_PAGE_ID}
        /\ UNCHANGED faults
     \/ Fault /\ UNCHANGED <<size, dirtied>>
  /\ pc' = "load"
  /\ UNCHANGED <<magic, next, new_page_offset_index, issued>>

\* The index is read from page 0.  A read that fails, or finds no page, leaves
\* the buffer, and so the index, uninitialised.
LoadIndex ==
  /\ pc = "load"
  /\ \/ size > STORAGE_MANAGER_META_PAGE_ID /\ new_page_offset_index' = next /\ UNCHANGED faults
     \/ /\ \/ size = 0 /\ UNCHANGED faults
           \/ Fault
        /\ \E garbage \in PageIDs : new_page_offset_index' = garbage
  /\ pc' = "running"
  /\ UNCHANGED <<file, issued>>

-----------------------------------------------------------------------------
\* AllocateNewPage.

\* posix_fallocate reserves the page; on a full disk it does not, unnoticed.
Fallocate ==
  /\ pc = "running"
  /\ new_page_offset_index < MaxPages
  /\ \/ size' = Extended(new_page_offset_index) /\ UNCHANGED faults
     \/ Fault /\ UNCHANGED size
  /\ pc' = "persist"
  /\ UNCHANGED <<magic, next, dirtied, new_page_offset_index, issued>>

\* Slip: the index is stored before it is incremented.
StoredIndex_TooEarly == new_page_offset_index

\* The argument of SetNewPageOffsetIndex.
StoredIndex == new_page_offset_index + 1

\* SetNewPageOffsetIndex reads page 0, puts the index into it and writes it back.
\* If the read fails, the magic number is whatever was on the stack; if the write
\* fails, the page stays as it is.
PersistIndex ==
  /\ pc = "persist"
  /\ \/ /\ next' = StoredIndex
        /\ size' = Extended(STORAGE_MANAGER_META_PAGE_ID)
        /\ \/ size > STORAGE_MANAGER_META_PAGE_ID /\ UNCHANGED <<magic, faults>>
           \/ /\ \/ size = 0 /\ UNCHANGED faults
                 \/ Fault
              /\ magic' \in {"absent", "present"}
     \/ Fault /\ UNCHANGED <<next, magic, size>>
  /\ pc' = "issue"
  /\ UNCHANGED <<dirtied, new_page_offset_index, issued>>

\* The member is incremented, the page is the caller's.
Issue ==
  /\ pc = "issue"
  /\ issued' = issued \cup {new_page_offset_index}
  /\ new_page_offset_index' = new_page_offset_index + 1
  /\ pc' = "running"
  /\ UNCHANGED <<file, faults>>

-----------------------------------------------------------------------------
\* WritePage: the buffer pool writes back a page it was given, or the database's
\* meta page.  (Page 0 is refused.)  A write that fails is reported, and changes
\* nothing.

WritePage(p) ==
  /\ pc = "running"
  /\ p # STORAGE_MANAGER_META_PAGE_ID
  /\ p \in issued \cup {DATABASE_META_PAGE_ID}
  /\ size' = Extended(p)
  /\ dirtied' = dirtied \cup {p}
  /\ UNCHANGED <<magic, next, new_page_offset_index, pc, issued, faults>>

\* The process exits, or is killed anywhere.
Stop == /\ pc # "down"
        /\ pc' = "down"
        /\ new_page_offset_index' = 0
        /\ UNCHANGED <<file, issued, faults>>

Bootstrap == Open \/ FormatStorageMeta \/ FormatDatabaseMeta \/ LoadIndex
AllocateNewPage == Fallocate \/ PersistIndex \/ Issue

Next == Bootstrap \/ AllocateNewPage \/ (\E p \in PageIDs : WritePage(p)) \/ Stop

Spec == Init /\ [][Next]_vars

-----------------------------------------------------------------------------
\* Properties.

TypeOK == /\ size \in 0..MaxPages
          /\ magic \in {"absent", "present"}
          /\ next \in 0..MaxPages
          /\ dirtied \in SUBSET PageIDs
          /\ new_page_offset_index \in 0..MaxPages
          /\ pc \in {"down", "format", "format_db", "load", "running", "persist", "issue"}
          /\ pc \in {"persist", "issue"} => new_page_offset_index < MaxPages
          /\ issued \in SUBSET PageIDs
          /\ faults \in 0..MaxFaults

\* As long as no system call has failed, a page handed out by AllocateNewPage was
\* never handed out before, in this process or an earlier one, killed at whatever
\* point; it is in the file, still zero, and it is not a meta page.
FreshPages == [][Issue /\ faults = 0 =>
                   /\ new_page_offset_index \notin issued \cup dirtied
                   /\ new_page_offset_index < size
                   /\ new_page_offset_index > DATABASE_META_PAGE_ID]_vars

\* As long as no system call has failed, Bootstrap does not wipe the meta page of
\* a database it finds, wherever earlier processes were killed.
DatabaseKept == [][FormatDatabaseMeta /\ faults = 0 =>
                     DATABASE_META_PAGE_ID \notin dirtied]_vars

\* "Every page is uniquely identified by a PageID" (Architecture.md), whatever
\* fails: AllocateNewPage does not look at what SetNewPageOffsetIndex achieved.
PageIDsUnique == [][Issue => new_page_offset_index \notin issued]_vars
=============================================================================
