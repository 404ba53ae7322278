------------------------------ MODULE BufferPool ------------------------------
(***************************************************************************)
(* The buffer pool (database/src/impl/bufferpool/bufferpool.cpp): frames   *)
(* in memory, a page table, pin counts, and clock-sweep replacement over   *)
(* the queue unpinned_frames.                                              *)
(*                                                                         *)
(* One thread calls the pool, so at most one call is under way (pc tells   *)
(* where it is); between two calls the callers hold any number of          *)
(* pointers, write through them and give them back in any order.  Inside a *)
(* call each iteration of the sweep, the write-back and the read are steps *)
(* of their own, and the process can crash between any two of them.        *)
(*                                                                         *)
(* free_frames is a stack in the code; frames are interchangeable, so any  *)
(* free frame may be taken here.                                           *)
(***************************************************************************)
EXTENDS Naturals, Sequences, FiniteSets

CONSTANTS Frames,      \* the POOL_SIZE frames
          PageIDs,     \* pages the callers use (page 0 is the storage manager's own)
          Data,        \* contents of a page
          Zero,        \* content of a page that was just allocated
          NoFrame,     \* page_table.count(pid) = 0, and index = -1
          NoPage,      \* page_id of a frame that holds no page
          PinLimit,    \* a new page is requested only while fewer frames are pinned
          PinMax,      \* the largest value of pin_count (a uint16_t)
          HoldLimit,   \* bound: pointers of the callers to one page in one frame
          MaxFaults    \* bound: reads and writes of pages that fail in one process

ASSUME PoolAssumption ==
  /\ IsFiniteSet(Frames)
  /\ NoFrame \notin Frames
  /\ NoPage \notin PageIDs
  /\ Zero \in Data
  /\ PinLimit \in Nat
  /\ PinMax \in Nat
  /\ HoldLimit \in 1..PinMax
  /\ MaxFaults \in Nat

VARIABLES
  page_table,       \* PageID -> frame
  frame_page, pin_count, is_dirty, reference_bit, is_in_queue, \* buffer_pool_meta
  frame_data,       \* buffer_pool
  free_frames,
  unpinned_frames,  \* the clock queue
  pc, want, index, iter, max_iters,  \* the call under way and its locals
  disk,             \* the database file
  allocated,        \* pages below new_page_offset_index
  held,             \* pointers the callers hold: how many to page p in frame f
  unsaved,          \* pages modified through a pointer, not yet released as dirty
  lost              \* frames a failed read or write has taken out of circulation

meta  == <<frame_page, pin_count, is_dirty, reference_bit, is_in_queue>>
call  == <<pc, want, index, iter, max_iters>>
file  == <<disk, allocated>>
users == <<held, unsaved, lost>>
vars  == <<page_table, meta, frame_data, free_frames, unpinned_frames, call, file, users>>

-----------------------------------------------------------------------------
\* Helpers.

Mapped == {f \in Frames : frame_page[f] # NoPage}
PinnedFrames == {f \in Frames : pin_count[f] > 0}   \* GetTotalPinnedPages counts them

\* pin_count is unsigned and wraps around.
Incremented(n) == IF n = PinMax THEN 0 ELSE n + 1
Decremented(n) == IF n = 0 THEN PinMax ELSE n - 1

\* The call returns; its locals are gone.
Return == /\ pc' = "idle" /\ want' = NoPage /\ index' = NoFrame
          /\ iter' = 0 /\ max_iters' = 0

\* A pool just constructed: every frame free, the call stack empty.
NoPages    == [p \in PageIDs |-> NoFrame]
NoMeta(v)  == [f \in Frames |-> v]
NoPointers == [x \in PageIDs \X Frames |-> 0]

Init ==
  /\ page_table = NoPages
  /\ frame_page = NoMeta(NoPage) /\ pin_count = NoMeta(0) /\ is_dirty = NoMeta(FALSE)
  /\ reference_bit = NoMeta(0) /\ is_in_queue = NoMeta(FALSE)
  /\ frame_data = NoMeta(Zero)
  /\ free_frames = Frames /\ unpinned_frames = <<>>
  /\ pc = "idle" /\ want = NoPage /\ index = NoFrame /\ iter = 0 /\ max_iters = 0
  /\ held = NoPointers /\ unsaved = {} /\ lost = {}
  /\ disk = [p \in PageIDs |-> Zero]
  /\ allocated = {}

-----------------------------------------------------------------------------
\* RequestPage.

\* The page is cached: pin it and set its reference bit.
RequestHit(p) ==
  LET f == page_table[p] IN
  /\ pc = "idle"
  /\ f # NoFrame
  /\ held[<<p, f>>] < HoldLimit
  /\ pin_count' = [pin_count EXCEPT ![f] = Incremented(@)]
  /\ reference_bit' = [reference_bit EXCEPT ![f] = 1]
  /\ held' = [held EXCEPT ![<<p, f>>] = @ + 1]
  /\ UNCHANGED <<page_table, frame_page, is_dirty, is_in_queue, frame_data,
                 free_frames, unpinned_frames, call, file, unsaved, lost>>

\* Slip: one pass over the queue instead of two.
MAX_ITERS_OnePass == Len(unpinned_frames)

MAX_ITERS == 2 * Len(unpinned_frames)

\* The page is not cached: take a free frame, else start a sweep.
Miss(p) ==
  /\ want' = p
  /\ \/ /\ free_frames # {}
        /\ \E f \in free_frames : /\ free_frames' = free_frames \ {f}
                                  /\ index' = f
        /\ pc' = "load"
        /\ UNCHANGED <<iter, max_iters>>
     \/ /\ free_frames = {}
        /\ pc' = "sweep"
        /\ max_iters' = MAX_ITERS
        /\ UNCHANGED <<free_frames, index, iter>>
  /\ UNCHANGED <<page_table, meta, frame_data, unpinned_frames, users>>

\* Callers keep fewer than PinLimit frames pinned when they ask for a new page.
RequestMiss(p) ==
  /\ pc = "idle"
  /\ p \in allocated
  /\ page_table[p] = NoFrame
  /\ Cardinality(PinnedFrames) < PinLimit
  /\ Miss(p)
  /\ UNCHANGED file

\* AllocateNewPage: the storage manager hands out a zero-filled page, which is
\* then requested like any other.
AllocateNewPage(p) ==
  /\ pc = "idle"
  /\ p \notin allocated
  /\ Cardinality(PinnedFrames) < PinLimit
  /\ allocated' = allocated \cup {p}
  /\ disk' = [disk EXCEPT ![p] = Zero]
  /\ Miss(p)

-----------------------------------------------------------------------------
\* FindPageToEvict: one action per outcome of an iteration, one for its end.

Sweeping == pc = "sweep" /\ iter < max_iters /\ unpinned_frames # <<>>

\* Slip: the frame leaves the queue, its flag says it is still there.
SkipPinned_KeepsFlag ==
  /\ Sweeping
  /\ pin_count[Head(unpinned_frames)] > 0
  /\ index' = Head(unpinned_frames)
  /\ unpinned_frames' = Tail(unpinned_frames)
  /\ iter' = iter + 1
  /\ UNCHANGED <<page_table, meta, frame_data, free_frames, pc, want, max_iters, file, users>>

\* A frame pinned since it was queued leaves the queue.
SkipPinned ==
  LET f == Head(unpinned_frames) IN
  /\ Sweeping
  /\ pin_count[f] > 0
  /\ index' = f
  /\ unpinned_frames' = Tail(unpinned_frames)
  /\ is_in_queue' = [is_in_queue EXCEPT ![f] = FALSE]
  /\ iter' = iter + 1
  /\ UNCHANGED <<page_table, frame_page, pin_count, is_dirty, reference_bit,
                 frame_data, free_frames, pc, want, max_iters, file, users>>

\* A frame used since the last sweep goes to the back of the queue.
SecondChance ==
  LET f == Head(unpinned_frames) IN
  /\ Sweeping
  /\ pin_count[f] = 0
  /\ reference_bit[f] = 1
  /\ index' = f
  /\ unpinned_frames' = Append(Tail(unpinned_frames), f)
  /\ reference_bit' = [reference_bit EXCEPT ![f] = 0]
  /\ iter' = iter + 1
  /\ UNCHANGED <<page_table, frame_page, pin_count, is_dirty, is_in_queue,
                 frame_data, free_frames, pc, want, max_iters, file, users>>

\* Slip: the victim is popped before index is assigned.
TakeVictim_StaleIndex ==
  /\ Sweeping
  /\ pin_count[Head(unpinned_frames)] = 0
  /\ reference_bit[Head(unpinned_frames)] = 0
  /\ unpinned_frames' = Tail(unpinned_frames)
  /\ pc' = "evict"
  /\ iter' = 0 /\ max_iters' = 0
  /\ UNCHANGED <<page_table, meta, frame_data, free_frames, want, index, file, users>>

\* Any other frame is the victim.
TakeVictim ==
  LET f == Head(unpinned_frames) IN
  /\ Sweeping
  /\ pin_count[f] = 0
  /\ reference_bit[f] = 0
  /\ index' = f
  /\ unpinned_frames' = Tail(unpinned_frames)
  /\ pc' = "evict"
  /\ iter' = 0 /\ max_iters' = 0
  /\ UNCHANGED <<page_table, meta, frame_data, free_frames, want, file, users>>

\* The loop ended without a break.  index is then the last frame it popped; only
\* a queue that was empty from the start leaves it at -1 (AllPagesPinned).
SweepExhausted ==
  /\ pc = "sweep"
  /\ ~Sweeping
  /\ IF index = NoFrame
     THEN Return
     ELSE /\ pc' = "evict"
          /\ iter' = 0 /\ max_iters' = 0
          /\ UNCHANGED <<want, index>>
  /\ UNCHANGED <<page_table, meta, frame_data, free_frames, unpinned_frames, file, users>>

-----------------------------------------------------------------------------
\* EvictPage and the rest of RequestPage.

\* A read or write of the file fails: the call returns an error, and the frame it
\* was working on is in no list any more.
Fail == /\ Cardinality(lost) < MaxFaults
        /\ lost' = lost \cup {index}
        /\ Return

\* A dirty victim that cannot be written back keeps its page, and is_in_queue.
EvictWriteFails ==
  /\ pc = "evict"
  /\ is_dirty[index]
  /\ Fail
  /\ UNCHANGED <<page_table, meta, frame_data, free_frames, unpinned_frames, file,
                 held, unsaved>>

\* Slip: the write-back looks at the reference bit, not at is_dirty.
WrittenBack_WrongFlag(f) == IF reference_bit[f] = 1
                            THEN [disk EXCEPT ![frame_page[f]] = frame_data[f]]
                            ELSE disk

\* The file after the victim was written back.
WrittenBack(f) == IF is_dirty[f] THEN [disk EXCEPT ![frame_page[f]] = frame_data[f]]
                                 ELSE disk

\* Slip: the evicted page stays in the page table.
EvictPage_KeepsMapping ==
  /\ pc = "evict"
  /\ disk' = WrittenBack(index)
  /\ frame_page' = [frame_page EXCEPT ![index] = NoPage]
  /\ pin_count' = [pin_count EXCEPT ![index] = 0]
  /\ is_dirty' = [is_dirty EXCEPT ![index] = FALSE]
  /\ reference_bit' = [reference_bit EXCEPT ![index] = 0]
  /\ is_in_queue' = [is_in_queue EXCEPT ![index] = FALSE]
  /\ pc' = "load"
  /\ UNCHANGED <<page_table, frame_data, free_frames, unpinned_frames, want, index, iter,
                 max_iters, allocated, users>>

EvictPage ==
  /\ pc = "evict"
  /\ disk' = WrittenBack(index)
  /\ page_table' = [page_table EXCEPT ![frame_page[index]] = NoFrame]
  /\ frame_page' = [frame_page EXCEPT ![index] = NoPage]
  /\ pin_count' = [pin_count EXCEPT ![index] = 0]
  /\ is_dirty' = [is_dirty EXCEPT ![index] = FALSE]
  /\ reference_bit' = [reference_bit EXCEPT ![index] = 0]
  /\ is_in_queue' = [is_in_queue EXCEPT ![index] = FALSE]
  /\ pc' = "load"
  /\ UNCHANGED <<frame_data, free_frames, unpinned_frames, want, index, iter, max_iters,
                 allocated, users>>

\* The read failed: the frame taken for the page is not given back.
LoadFails ==
  /\ pc = "load"
  /\ Fail
  /\ UNCHANGED <<page_table, meta, frame_data, free_frames, unpinned_frames, file,
                 held, unsaved>>

LoadPage ==
  /\ pc = "load"
  /\ frame_data' = [frame_data EXCEPT ![index] = disk[want]]
  /\ pin_count' = [pin_count EXCEPT ![index] = 1]
  /\ frame_page' = [frame_page EXCEPT ![index] = want]
  /\ is_dirty' = [is_dirty EXCEPT ![index] = FALSE]
  /\ reference_bit' = [reference_bit EXCEPT ![index] = 1]
  /\ is_in_queue' = [is_in_queue EXCEPT ![index] = FALSE]
  /\ page_table' = [page_table EXCEPT ![want] = index]
  /\ held' = [held EXCEPT ![<<want, index>>] = @ + 1]
  /\ Return
  /\ UNCHANGED <<free_frames, unpinned_frames, file, unsaved, lost>>

-----------------------------------------------------------------------------
\* ReleasePage, and what the callers do with a pointer.

\* Slip: the last release decides.
MarkedDirty_Overwrites(was, now) == now

\* A page stays dirty whatever a later release says.
MarkedDirty(was, now) == was \/ now

\* The caller drops its pointer to p in frame f; the pool looks the page up by
\* its identifier, wherever it is now.  Whoever modified the page says so before
\* the last pointer to it goes.
ReleasePage(p, f, dirty) ==
  /\ pc = "idle"
  /\ held[<<p, f>>] > 0
  /\ held[<<p, f>>] = 1 /\ p \in unsaved => dirty
  /\ held' = [held EXCEPT ![<<p, f>>] = @ - 1]
  /\ unsaved' = IF dirty THEN unsaved \ {p} ELSE unsaved
  /\ LET g == page_table[p] IN
     IF g = NoFrame       \* PageNotFoundInBufferPool
     THEN UNCHANGED <<meta, unpinned_frames>>
     ELSE /\ pin_count' = [pin_count EXCEPT ![g] = Decremented(@)]
          /\ IF Decremented(pin_count[g]) = 0 /\ ~is_in_queue[g]
             THEN /\ unpinned_frames' = Append(unpinned_frames, g)
                  /\ is_in_queue' = [is_in_queue EXCEPT ![g] = TRUE]
             ELSE UNCHANGED <<unpinned_frames, is_in_queue>>
          /\ is_dirty' = [is_dirty EXCEPT ![g] = MarkedDirty(@, dirty)]
          /\ UNCHANGED <<frame_page, reference_bit>>
  /\ UNCHANGED <<page_table, frame_data, free_frames, call, file, lost>>

\* The B+ tree writes into the frame its pointer leads to.
WriteThrough(p, f, d) ==
  /\ pc = "idle"
  /\ held[<<p, f>>] > 0
  /\ frame_data' = [frame_data EXCEPT ![f] = d]
  /\ unsaved' = unsaved \cup {p}
  /\ UNCHANGED <<page_table, meta, free_frames, unpinned_frames, call, file, held, lost>>

-----------------------------------------------------------------------------
\* The end of the process, and the start of the next one.

Restart ==
  /\ page_table' = NoPages
  /\ frame_page' = NoMeta(NoPage) /\ pin_count' = NoMeta(0) /\ is_dirty' = NoMeta(FALSE)
  /\ reference_bit' = NoMeta(0) /\ is_in_queue' = NoMeta(FALSE)
  /\ frame_data' = NoMeta(Zero)
  /\ free_frames' = Frames /\ unpinned_frames' = <<>>
  /\ Return
  /\ held' = NoPointers /\ unsaved' = {} /\ lost' = {}

DirtyPages == {p \in PageIDs : page_table[p] # NoFrame /\ is_dirty[page_table[p]]}

\* The destructor writes every dirty frame (ignoring writes that fail), between
\* two requests, when the tree holds no page; the next process starts afresh.
Shutdown ==
  /\ pc = "idle"
  /\ \A x \in PageIDs \X Frames : held[x] = 0
  /\ \E flushed \in SUBSET DirtyPages :
       /\ flushed = DirtyPages \/ MaxFaults > 0
       /\ disk' = [p \in PageIDs |-> IF p \in flushed THEN frame_data[page_table[p]]
                                     ELSE disk[p]]
  /\ Restart
  /\ UNCHANGED allocated

\* The process is killed at any point: what was in memory is lost.
Crash == Restart /\ UNCHANGED file

Request(p) == RequestHit(p) \/ RequestMiss(p) \/ AllocateNewPage(p)
Sweep == SkipPinned \/ SecondChance \/ TakeVictim \/ SweepExhausted
Fill == EvictWriteFails \/ EvictPage \/ LoadFails \/ LoadPage
Use(p, f) == \/ \E dirty \in BOOLEAN : ReleasePage(p, f, dirty)
             \/ \E d \in Data : WriteThrough(p, f, d)

Next == \/ \E p \in PageIDs : Request(p)
        \/ Sweep
        \/ Fill
        \/ \E p \in PageIDs, f \in Frames : Use(p, f)
        \/ Shutdown
        \/ Crash

Spec == Init /\ [][Next]_vars

-----------------------------------------------------------------------------
\* Properties.

TableType == /\ page_table \in [PageIDs -> Frames \cup {NoFrame}]
             /\ frame_page \in [Frames -> PageIDs \cup {NoPage}]

MetaType == /\ pin_count \in [Frames -> 0..PinMax]
            /\ is_dirty \in [Frames -> BOOLEAN]
            /\ reference_bit \in [Frames -> {0, 1}]
            /\ is_in_queue \in [Frames -> BOOLEAN]

DataType == /\ frame_data \in [Frames -> Data]
            /\ disk \in [PageIDs -> Data]

ListType == /\ free_frames \in SUBSET Frames
            /\ unpinned_frames \in Seq(Frames)
            /\ lost \in SUBSET Frames

CallType == /\ pc \in {"idle", "sweep", "evict", "load"}
            /\ want \in PageIDs \cup {NoPage}
            /\ pc # "idle" => want \in PageIDs
            /\ index \in Frames \cup {NoFrame}
            /\ pc \in {"evict", "load"} => index \in Frames
            /\ iter \in Nat
            /\ max_iters \in Nat

UserType == /\ allocated \in SUBSET PageIDs
            /\ held \in [PageIDs \X Frames -> Nat]
            /\ unsaved \in SUBSET PageIDs

\* The state keeps its shape; a call that evicts or loads has its frame and page.
TypeOK == /\ TableType /\ MetaType /\ DataType /\ ListType
          /\ CallType /\ UserType

\* A pointer the B+ tree holds leads to the page it was handed out for: neither
\* another caller's miss nor an eviction moves the page from under it.
PointersValid == \A p \in PageIDs, f \in Frames :
                    held[<<p, f>>] > 0 => page_table[p] = f /\ frame_page[f] = p

\* The pin count of a frame is the number of pointers into it.
PinsMatchPointers == \A f \in Frames :
                        pin_count[f] = IF frame_page[f] = NoPage
                                       THEN 0 ELSE held[<<frame_page[f], f>>]

\* Pinning works (RequestPage, ReleasePage, FindPageToEvict): a page in use stays
\* in its frame, and is counted as in use exactly as often as it is.
PinSafety == PointersValid /\ PinsMatchPointers

\* No update is forgotten (is_dirty in ReleasePage, EvictPage, RequestPage): a
\* cached page that nobody is modifying and that is not marked dirty is what the
\* file has, so dropping it loses nothing.
CleanMatchesDisk == \A p \in PageIDs :
                       /\ page_table[p] # NoFrame
                       /\ ~is_dirty[page_table[p]]
                       /\ p \notin unsaved
                       => frame_data[page_table[p]] = disk[p]

Positions(f) == {i \in 1..Len(unpinned_frames) : unpinned_frames[i] = f}

\* Enough frames for what the callers pin and for what failures may take.
Capacity == PinLimit + MaxFaults <= Cardinality(Frames)

\* Frames are never leaked by the bookkeeping of is_in_queue and free_frames: a
\* frame nobody uses is free, or in the queue (once), or the one the call works
\* on, unless a failed read or write has taken it out of circulation.
Reclaimable == \A f \in Frames :
  /\ Cardinality(Positions(f)) <= 1
  /\ pin_count[f] = 0 =>
       \/ f \in free_frames /\ frame_page[f] = NoPage /\ Positions(f) = {}
       \/ f \notin free_frames /\ Positions(f) # {}
       \/ pc \in {"evict", "load"} /\ f = index /\ Positions(f) = {}
       \/ f \in lost

\* Even when the callers pin every frame and PinSafety is gone, the clock queue
\* stays sound (FindPageToEvict, ReleasePage): a frame in it is there once, holds
\* a page and knows that it is queued, and the sweep never hands out as its victim
\* a frame that it left in the queue, to be evicted again while it is being used.
QueueSound == \A f \in Frames : Positions(f) # {} =>
  /\ Cardinality(Positions(f)) = 1
  /\ is_in_queue[f]
  /\ frame_page[f] # NoPage
  /\ pc \in {"evict", "load"} => f # index

\* A request is served while the callers keep a frame unpinned: FindPageToEvict
\* does not report AllPagesPinned.
ServedWhileRoom == [][SweepExhausted => pc' # "idle"]_vars

\* What a page contains is what is in its frame, or in the file when it is not
\* cached; it has as many holders as its frame has pins.
Content == [p \in PageIDs |-> IF page_table[p] = NoFrame THEN disk[p]
                              ELSE frame_data[page_table[p]]]
Holders == [p \in PageIDs |-> IF page_table[p] = NoFrame THEN 0
                              ELSE pin_count[page_table[p]]]

\* The pool implements the store of pages: RequestPage, ReleasePage and the
\* evictions behind the callers' back never change what a page contains.
Store == INSTANCE PageStore WITH content <- Content, stable <- disk, holders <- Holders,
                                 WritesMayFail <- MaxFaults > 0
StoreSpec == Store!Spec
=============================================================================
