------------------------- MODULE StorageManagerProofs -------------------------
(***************************************************************************)
(* What is proved of the storage manager for files of any size: as long as *)
(* no system call fails, every page handed out is a fresh one, whenever    *)
(* the processes before were killed.                                       *)
(***************************************************************************)
EXTENDS StorageManager, TLAPS

\* The types, for every size of the file and every number of faults.
LEMMA NextTypeOK == TypeOK /\ [Next]_vars => TypeOK'
<1> SUFFICES ASSUME TypeOK, [Next]_vars PROVE TypeOK'
  OBVIOUS
<1> USE StorageAssumption DEF TypeOK, PageIDs, STORAGE_MANAGER_META_PAGE_ID,
        DATABASE_META_PAGE_ID, Extended
<1>1. CASE Open
  BY <1>1 DEF Open, IsDatabaseFile, file, Fault
<1>2. CASE FormatStorageMeta
  BY <1>2 DEF FormatStorageMeta, Fault
<1>3. CASE FormatDatabaseMeta
  <2>1. /\ size' \in {size, Extended(DATABASE_META_PAGE_ID)} /\ faults' \in 0..MaxFaults
        /\ dirtied' \subseteq dirtied /\ pc' = "load"
        /\ UNCHANGED <<magic, next, new_page_offset_index, issued>>
    BY <1>3 DEF FormatDatabaseMeta, Fault
  <2>2. size' \in 0..MaxPages
    BY <2>1
  <2> QED BY <2>1, <2>2
<1>4. CASE LoadIndex
  BY <1>4 DEF LoadIndex, file, Fault
<1>5. CASE Fallocate
  BY <1>5 DEF Fallocate, Fault
<1>6. CASE PersistIndex
  BY <1>6 DEF PersistIndex, StoredIndex, Fault
<1>7. CASE Issue
  BY <1>7 DEF Issue, file
<1>8. ASSUME NEW p \in PageIDs, WritePage(p) PROVE TypeOK'
  BY <1>8 DEF WritePage
<1>9. CASE Stop
  BY <1>9 DEF Stop, file
<1>10. CASE UNCHANGED vars
  BY <1>10 DEF vars, file
<1> QED
  BY <1>1, <1>2, <1>3, <1>4, <1>5, <1>6, <1>7, <1>8, <1>9, <1>10
     DEF Next, Bootstrap, AllocateNewPage

\* The type invariant of the storage manager.
THEOREM TypeCorrect == Spec => []TypeOK
<1>1. Init => TypeOK
  BY StorageAssumption DEF Init, TypeOK
<1> QED
  BY <1>1, NextTypeOK, PTL DEF Spec

-----------------------------------------------------------------------------
\* The index in page 0 runs ahead of the index in memory, never behind it, and
\* whatever was handed out or written lies below both.

Recognised == /\ size > STORAGE_MANAGER_META_PAGE_ID
              /\ next > DATABASE_META_PAGE_ID
              /\ \A p \in issued : DATABASE_META_PAGE_ID < p /\ p < next /\ p < size
              /\ dirtied \subseteq issued \cup {DATABASE_META_PAGE_ID}

New == issued = {} /\ dirtied = {}

InMemory == /\ pc \in {"running", "persist"} => new_page_offset_index = next
            /\ pc = "issue" => new_page_offset_index + 1 = next
            /\ pc \in {"persist", "issue"} => new_page_offset_index < size
            /\ pc \in {"running", "persist", "issue"} =>
                 /\ new_page_offset_index > DATABASE_META_PAGE_ID
                 /\ \A p \in issued : p < new_page_offset_index

OrderOK == /\ magic = "present" => Recognised
           /\ magic = "absent" => New
           /\ pc \in {"load", "running", "persist", "issue"} => magic = "present"
           /\ pc = "format" => magic = "absent"
           /\ pc = "format_db" => magic = "present" /\ New
           /\ InMemory

SInv == TypeOK /\ (faults = 0 => OrderOK)

LEMMA InitSInv == Init => SInv
BY StorageAssumption DEF Init, SInv, TypeOK, OrderOK, New, InMemory

LEMMA NextSInv == SInv /\ [Next]_vars => SInv'
<1> SUFFICES ASSUME SInv, [Next]_vars, faults' = 0 PROVE OrderOK'
  BY NextTypeOK DEF SInv
<1>1. TypeOK /\ TypeOK'
  BY NextTypeOK DEF SInv
<1>2. faults = 0 /\ ~Fault
  <2>1. faults \in Nat /\ faults <= faults'
    BY <1>1 DEF TypeOK, Next, Bootstrap, AllocateNewPage, Open, FormatStorageMeta,
       FormatDatabaseMeta, LoadIndex, Fallocate, PersistIndex, Issue, WritePage, Stop, Fault,
       vars
  <2> QED BY <1>1, <2>1 DEF TypeOK, Fault
<1>3. OrderOK
  BY <1>2 DEF SInv
<1> USE StorageAssumption DEF OrderOK, Recognised, New, InMemory, Extended, PageIDs,
        STORAGE_MANAGER_META_PAGE_ID, DATABASE_META_PAGE_ID
<1>4. CASE Open
  BY <1>1, <1>2, <1>3, <1>4 DEF Open, IsDatabaseFile, file, TypeOK
<1>5. CASE FormatStorageMeta
  BY <1>1, <1>2, <1>3, <1>5 DEF FormatStorageMeta, TypeOK
<1>6. CASE FormatDatabaseMeta
  <2>1. /\ pc' = "load" /\ issued' = {} /\ dirtied' = {} /\ magic' = magic /\ next' = next
        /\ size \in Nat /\ size' = IF size > 1 THEN size ELSE 2
    BY <1>1, <1>2, <1>3, <1>6 DEF FormatDatabaseMeta, TypeOK
  <2> QED BY <1>1, <1>3, <1>6, <2>1 DEF FormatDatabaseMeta
<1>7. CASE LoadIndex
  BY <1>1, <1>2, <1>3, <1>7 DEF LoadIndex, file, TypeOK
<1>8. CASE Fallocate
  BY <1>1, <1>2, <1>3, <1>8 DEF Fallocate, TypeOK
<1>9. CASE PersistIndex
  BY <1>1, <1>2, <1>3, <1>9 DEF PersistIndex, StoredIndex, TypeOK
<1>10. CASE Issue
  BY <1>1, <1>2, <1>3, <1>10 DEF Issue, file, TypeOK
<1>11. ASSUME NEW p \in PageIDs, WritePage(p) PROVE OrderOK'
  BY <1>1, <1>2, <1>3, <1>11 DEF WritePage, TypeOK
<1>12. CASE Stop
  BY <1>1, <1>2, <1>3, <1>12 DEF Stop, file, TypeOK
<1>13. CASE UNCHANGED vars
  BY <1>3, <1>13 DEF vars, file
<1> QED
  BY <1>4, <1>5, <1>6, <1>7, <1>8, <1>9, <1>10, <1>11, <1>12, <1>13
     DEF Next, Bootstrap, AllocateNewPage

\* AllocateNewPage hands out fresh pages: the index is made durable before the
\* page is used, so a crash can waste a page but never give it out twice.
THEOREM PagesAreFresh == Spec => FreshPages
<1>1. SInv /\ [Next]_vars =>
        [Issue /\ faults = 0 =>
           /\ new_page_offset_index \notin issued \cup dirtied
           /\ new_page_offset_index < size
           /\ new_page_offset_index > DATABASE_META_PAGE_ID]_vars
  <2> SUFFICES ASSUME SInv, Issue, faults = 0
               PROVE  /\ new_page_offset_index \notin issued \cup dirtied
                      /\ new_page_offset_index < size
                      /\ new_page_offset_index > DATABASE_META_PAGE_ID
    OBVIOUS
  <2> QED
    BY DEF Issue, SInv, TypeOK, OrderOK, Recognised, InMemory, DATABASE_META_PAGE_ID, PageIDs
<1> QED
  BY <1>1, InitSInv, NextSInv, PTL DEF Spec, FreshPages

\* Bootstrap formats only files that hold no database yet: page 0 gets its magic
\* number before page 1 is zeroed, and keeps it.
THEOREM DatabaseIsKept == Spec => DatabaseKept
<1>1. SInv /\ [Next]_vars =>
        [FormatDatabaseMeta /\ faults = 0 => DATABASE_META_PAGE_ID \notin dirtied]_vars
  BY DEF FormatDatabaseMeta, SInv, OrderOK, New
<1> QED
  BY <1>1, InitSInv, NextSInv, PTL DEF Spec, DatabaseKept
=============================================================================
