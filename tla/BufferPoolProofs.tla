--------------------------- MODULE BufferPoolProofs ---------------------------
(***************************************************************************)
(* What is proved of the buffer pool for any number of frames and pages.   *)
(*                                                                         *)
(* The invariants of BufferPool are not inductive by themselves.  IInv     *)
(* adds what makes them so: the page table and the frames' page_id are     *)
(* inverse to each other, the queue holds exactly the flagged frames that  *)
(* are neither being evicted nor lost, and the clock hand never makes more *)
(* than one round before it finds a victim.                                *)
(***************************************************************************)
EXTENDS BufferPool, TLAPS, FiniteSetTheorems

Cached(p) == page_table[p] # NoFrame
Holds(f)  == frame_page[f] # NoPage
InQueue(f) == \E i \in 1..Len(unpinned_frames) : unpinned_frames[i] = f

TableOK == /\ \A p \in PageIDs : Cached(p) => frame_page[page_table[p]] = p
           /\ \A f \in Frames : Holds(f) => page_table[frame_page[f]] = f

Bounded == \A p \in PageIDs, f \in Frames : held[<<p, f>>] <= HoldLimit

\* The queue: flagged frames that hold a page, each once.
QueueOK ==
  /\ \A i \in 1..Len(unpinned_frames) :
       /\ Holds(unpinned_frames[i])
       /\ is_in_queue[unpinned_frames[i]]
       /\ unpinned_frames[i] \notin lost
       /\ pc = "evict" => unpinned_frames[i] # index
  /\ \A i, j \in 1..Len(unpinned_frames) :
       unpinned_frames[i] = unpinned_frames[j] => i = j

\* Where a frame is.
PlaceOK ==
  \A f \in Frames :
    /\ Holds(f) /\ is_in_queue[f] => InQueue(f) \/ f \in lost \/ (pc = "evict" /\ f = index)
    /\ Holds(f) /\ (pin_count[f] = 0 \/ f \in lost) => is_in_queue[f]
    /\ ~Holds(f) => f \in free_frames \/ f \in lost \/ (pc = "load" /\ f = index)
    /\ f \in free_frames => ~Holds(f) /\ f \notin lost

\* What a call has established at each of its points.
CallOK ==
  /\ pc # "idle" => want \in allocated /\ ~Cached(want)
  /\ pc # "sweep" => iter = 0
  /\ pc \in {"sweep", "evict"} => free_frames = {}
  /\ pc = "evict" => pin_count[index] = 0 /\ Holds(index) /\ index \notin lost
  /\ pc = "load" => ~Holds(index) /\ index \notin free_frames /\ index \notin lost

\* Some frame can be evicted while the sweep runs, and what the hand has already
\* passed is at the end of the queue, unpinned and with its bit cleared.
SweepOK ==
  pc = "sweep" =>
    /\ \E f \in Frames : pin_count[f] = 0 /\ f \notin lost /\ Holds(f)
    /\ \E n \in Nat :
         /\ n > 0 /\ max_iters = 2 * n /\ iter <= n /\ Len(unpinned_frames) >= n - iter
         /\ \A j \in 1..Len(unpinned_frames) :
              j > n - iter => /\ reference_bit[unpinned_frames[j]] = 0
                              /\ pin_count[unpinned_frames[j]] = 0

SavedOK ==
  /\ \A p \in unsaved : Cached(p) /\ held[<<p, page_table[p]>>] > 0
  /\ \A p \in PageIDs \ allocated : ~Cached(p) /\ disk[p] = Zero

LostOK == Cardinality(lost) <= MaxFaults

IInv == /\ TypeOK /\ TableOK /\ PinSafety /\ Bounded /\ QueueOK /\ PlaceOK /\ CallOK
        /\ SweepOK /\ SavedOK /\ LostOK /\ CleanMatchesDisk

-----------------------------------------------------------------------------
\* Types.

\* A pin count stays within its width.
LEMMA CounterType == \A n \in 0..PinMax : /\ Incremented(n) \in 0..PinMax
                                          /\ Decremented(n) \in 0..PinMax
  BY PoolAssumption DEF Incremented, Decremented

\* The initial state is well-typed.
LEMMA InitTypeOK == Init => TypeOK
<1> SUFFICES ASSUME Init PROVE TypeOK
  OBVIOUS
<1> USE PoolAssumption DEF Init, NoPages, NoMeta, NoPointers
<1>1. TableType /\ MetaType
  BY DEF TableType, MetaType
<1>2. DataType /\ ListType
  BY DEF DataType, ListType
<1>3. CallType /\ UserType
  BY DEF CallType, UserType
<1> QED BY <1>1, <1>2, <1>3 DEF TypeOK

\* A restarted pool is well-typed, provided the file is.
LEMMA RestartTypeOK ==
  ASSUME TypeOK, Restart, UNCHANGED allocated, disk' \in [PageIDs -> Data]
  PROVE  TypeOK'
<1> USE PoolAssumption DEF Restart, NoPages, NoMeta, NoPointers
<1>1. (TableType /\ MetaType)'
  BY DEF TableType, MetaType
<1>2. (DataType /\ ListType)'
  BY DEF DataType, ListType
<1>3. CallType'
  BY DEF CallType, Return
<1>4. UserType'
  BY DEF TypeOK, UserType
<1> QED BY <1>1, <1>2, <1>3, <1>4 DEF TypeOK

\* What the requests for a page that is not cached do to the types.
LEMMA MissTypeOK ==
  ASSUME TypeOK, NEW p \in PageIDs, Miss(p), allocated' \in SUBSET PageIDs,
         disk' \in [PageIDs -> Data]
  PROVE  TypeOK'
<1>1. UNCHANGED <<page_table, frame_page, pin_count, is_dirty, reference_bit, is_in_queue,
                  frame_data, unpinned_frames, held, unsaved, lost>>
  BY DEF Miss, meta, users
<1>2. /\ want' = p /\ pc' \in {"load", "sweep"}
      /\ free_frames' \in SUBSET Frames
      /\ index' \in Frames \cup {NoFrame} /\ (pc' = "load" => index' \in Frames)
      /\ iter' \in Nat /\ max_iters' \in Nat
  BY DEF Miss, MAX_ITERS, TypeOK, ListType, CallType
<1>3. (TableType /\ MetaType /\ DataType)'
  BY <1>1 DEF TypeOK, TableType, MetaType, DataType
<1>4. (ListType /\ UserType)'
  BY <1>1, <1>2 DEF TypeOK, ListType, UserType
<1>5. CallType'
  BY <1>2 DEF CallType
<1> QED BY <1>3, <1>4, <1>5 DEF TypeOK

LEMMA RequestTypeOK ==
  ASSUME TypeOK, NEW p \in PageIDs, Request(p)
  PROVE  TypeOK'
<1>1. CASE RequestHit(p)
  <2>1. page_table[p] \in Frames
    BY <1>1 DEF TypeOK, TableType, RequestHit
  <2>2. UNCHANGED <<page_table, frame_page, is_dirty, is_in_queue, frame_data, free_frames,
                    unpinned_frames, pc, want, index, iter, max_iters, disk, allocated,
                    unsaved, lost>>
    BY <1>1 DEF RequestHit, call, file
  <2>3. (TableType /\ DataType /\ ListType /\ CallType)'
    BY <2>2 DEF TypeOK, TableType, DataType, ListType, CallType
  <2>4. MetaType'
    <3>1. pin_count' \in [Frames -> 0..PinMax]
      BY <1>1, <2>1, CounterType DEF TypeOK, MetaType, RequestHit
    <3>2. is_dirty' \in [Frames -> BOOLEAN]
      BY <1>1, <2>1, <2>2 DEF TypeOK, MetaType, RequestHit, Incremented
    <3>3. reference_bit' \in [Frames -> {0, 1}]
      BY <1>1, <2>1, <2>2 DEF TypeOK, MetaType, RequestHit, Incremented
    <3>4. is_in_queue' \in [Frames -> BOOLEAN]
      BY <1>1, <2>1, <2>2 DEF TypeOK, MetaType, RequestHit, Incremented
    <3> QED BY <3>1, <3>2, <3>3, <3>4 DEF MetaType
  <2>5. UserType'
    BY <1>1, <2>1, <2>2 DEF TypeOK, UserType, RequestHit
  <2> QED BY <2>3, <2>4, <2>5 DEF TypeOK
<1>2. CASE RequestMiss(p)
  <2>1. allocated' \in SUBSET PageIDs /\ disk' \in [PageIDs -> Data]
    BY <1>2 DEF RequestMiss, file, TypeOK, UserType, DataType
  <2> QED BY <1>2, <2>1, MissTypeOK DEF RequestMiss
<1>3. CASE AllocateNewPage(p)
  <2>1. allocated' \in SUBSET PageIDs /\ disk' \in [PageIDs -> Data]
    BY <1>3, PoolAssumption DEF AllocateNewPage, TypeOK, UserType, DataType
  <2> QED BY <1>3, <2>1, MissTypeOK DEF AllocateNewPage
<1> QED BY <1>1, <1>2, <1>3 DEF Request

LEMMA SweepTypeOK ==
  ASSUME TypeOK, Sweep
  PROVE  TypeOK'
<1>1. UNCHANGED <<page_table, frame_page, pin_count, is_dirty, frame_data, free_frames,
                  disk, allocated, held, unsaved, lost>>
  BY DEF Sweep, SkipPinned, SecondChance, TakeVictim, SweepExhausted, meta, file, users
<1>2. Sweeping => /\ Head(unpinned_frames) \in Frames
                  /\ Tail(unpinned_frames) \in Seq(Frames)
                  /\ Append(Tail(unpinned_frames), Head(unpinned_frames)) \in Seq(Frames)
  BY DEF Sweeping, TypeOK, ListType
<1>3. (TableType /\ DataType /\ UserType)'
  BY <1>1 DEF TypeOK, TableType, DataType, UserType
<1>4. ListType'
  BY <1>1, <1>2 DEF TypeOK, ListType, Sweep, SkipPinned, SecondChance, TakeVictim,
                    SweepExhausted
<1>5. reference_bit' \in [Frames -> {0, 1}] /\ is_in_queue' \in [Frames -> BOOLEAN]
  BY <1>2 DEF TypeOK, MetaType, Sweep, SkipPinned, SecondChance, TakeVictim,
              SweepExhausted, meta
<1>6. MetaType'
  BY <1>1, <1>5 DEF TypeOK, MetaType
<1>7. CallType'
  <2>1. want \in PageIDs
    BY DEF TypeOK, CallType, Sweep, SkipPinned, SecondChance, TakeVictim, SweepExhausted,
           Sweeping
  <2>2. CASE SkipPinned \/ SecondChance \/ TakeVictim
    BY <1>2, <2>1, <2>2 DEF TypeOK, CallType, SkipPinned, SecondChance, TakeVictim, Sweeping
  <2>3. CASE SweepExhausted
    BY <2>1, <2>3 DEF TypeOK, CallType, SweepExhausted, Return
  <2> QED BY <2>2, <2>3 DEF Sweep
<1> QED BY <1>3, <1>4, <1>6, <1>7 DEF TypeOK

LEMMA FillTypeOK ==
  ASSUME TypeOK, Fill
  PROVE  TypeOK'
<1>1. index \in Frames /\ want \in PageIDs
  BY DEF Fill, EvictWriteFails, EvictPage, LoadFails, LoadPage, TypeOK, CallType
<1>2. CASE EvictWriteFails \/ LoadFails
  <2>1. UNCHANGED <<page_table, frame_page, pin_count, is_dirty, reference_bit, is_in_queue,
                    frame_data, free_frames, unpinned_frames, disk, allocated, held, unsaved>>
    BY <1>2 DEF EvictWriteFails, LoadFails, meta, file
  <2>2. lost' = lost \cup {index} /\ Return
    BY <1>2 DEF EvictWriteFails, LoadFails, Fail
  <2>3. (TableType /\ MetaType /\ DataType /\ UserType)'
    BY <2>1 DEF TypeOK, TableType, MetaType, DataType, UserType
  <2>4. ListType'
    BY <1>1, <2>1, <2>2 DEF TypeOK, ListType
  <2>5. CallType'
    BY <2>2 DEF Return, CallType
  <2> QED BY <2>3, <2>4, <2>5 DEF TypeOK
<1>3. CASE EvictPage
  <2>1. UNCHANGED <<frame_data, free_frames, unpinned_frames, want, index, iter, max_iters,
                    allocated, held, unsaved, lost>>
    BY <1>3 DEF EvictPage, users
  <2>2. TableType'
    BY <1>3 DEF TypeOK, TableType, EvictPage
  <2>4. MetaType'
    <3>1. pin_count' \in [Frames -> 0..PinMax]
      BY <1>1, <1>3, PoolAssumption DEF TypeOK, MetaType, EvictPage
    <3>2. is_dirty' \in [Frames -> BOOLEAN]
      BY <1>1, <1>3 DEF TypeOK, MetaType, EvictPage
    <3>3. reference_bit' \in [Frames -> {0, 1}]
      BY <1>1, <1>3 DEF TypeOK, MetaType, EvictPage
    <3>4. is_in_queue' \in [Frames -> BOOLEAN]
      BY <1>1, <1>3 DEF TypeOK, MetaType, EvictPage
    <3> QED BY <3>1, <3>2, <3>3, <3>4 DEF MetaType
  <2>5. DataType'
    <3>1. frame_data[index] \in Data
      BY <1>1 DEF TypeOK, DataType
    <3>2. disk' \in [PageIDs -> Data]
      BY <3>1, <1>3 DEF TypeOK, DataType, EvictPage, WrittenBack
    <3> QED BY <2>1, <3>2 DEF TypeOK, DataType
  <2>6. (ListType /\ UserType)'
    BY <2>1 DEF TypeOK, ListType, UserType
  <2>7. CallType'
    BY <1>1, <1>3, <2>1 DEF TypeOK, CallType, EvictPage
  <2> QED BY <2>2, <2>4, <2>5, <2>6, <2>7 DEF TypeOK
<1>4. CASE LoadPage
  <2>1. UNCHANGED <<free_frames, unpinned_frames, disk, allocated, unsaved, lost>>
    BY <1>4 DEF LoadPage, file
  <2>2. TableType'
    BY <1>1, <1>4 DEF TypeOK, TableType, LoadPage
  <2>4. MetaType'
    <3>1. pin_count' \in [Frames -> 0..PinMax]
      BY <1>1, <1>4, PoolAssumption DEF TypeOK, MetaType, LoadPage
    <3>2. is_dirty' \in [Frames -> BOOLEAN]
      BY <1>1, <1>4, PoolAssumption DEF TypeOK, MetaType, LoadPage
    <3>3. reference_bit' \in [Frames -> {0, 1}]
      BY <1>1, <1>4, PoolAssumption DEF TypeOK, MetaType, LoadPage
    <3>4. is_in_queue' \in [Frames -> BOOLEAN]
      BY <1>1, <1>4, PoolAssumption DEF TypeOK, MetaType, LoadPage
    <3> QED BY <3>1, <3>2, <3>3, <3>4 DEF MetaType
  <2>5. DataType'
    BY <1>1, <1>4, <2>1 DEF TypeOK, DataType, LoadPage
  <2>6. ListType'
    BY <2>1 DEF TypeOK, ListType
  <2>7. UserType'
    BY <1>1, <1>4, <2>1 DEF TypeOK, UserType, LoadPage
  <2>8. CallType'
    BY <1>4 DEF CallType, LoadPage, Return
  <2> QED BY <2>2, <2>4, <2>5, <2>6, <2>7, <2>8 DEF TypeOK
<1> QED BY <1>2, <1>3, <1>4 DEF Fill

LEMMA UseTypeOK ==
  ASSUME TypeOK, NEW p \in PageIDs, NEW f \in Frames, Use(p, f)
  PROVE  TypeOK'
<1>1. ASSUME NEW dirty \in BOOLEAN, ReleasePage(p, f, dirty)
      PROVE  TypeOK'
  <2>1. UNCHANGED <<page_table, frame_page, reference_bit, frame_data, free_frames, pc, want,
                    index, iter, max_iters, disk, allocated, lost>>
    BY <1>1 DEF ReleasePage, meta, call, file
  <2>2. (TableType /\ DataType /\ CallType)'
    BY <2>1 DEF TypeOK, TableType, DataType, CallType
  <2>3. UserType'
    BY <1>1, <2>1 DEF TypeOK, UserType, ReleasePage
  <2>4. CASE page_table[p] = NoFrame
    <3>1. UNCHANGED <<pin_count, is_dirty, is_in_queue, unpinned_frames>>
      BY <1>1, <2>4 DEF ReleasePage, meta
    <3>2. (MetaType /\ ListType)'
      BY <2>1, <3>1 DEF TypeOK, MetaType, ListType
    <3> QED BY <2>2, <2>3, <3>2 DEF TypeOK
  <2>5. CASE page_table[p] # NoFrame
    <3>1. page_table[p] \in Frames
      BY <2>5 DEF TypeOK, TableType
    <3>2. MetaType'
      <4>1. pin_count' \in [Frames -> 0..PinMax]
        <5>1. pin_count \in [Frames -> 0..PinMax]
          BY DEF TypeOK, MetaType
        <5>2. pin_count' = [pin_count EXCEPT ![page_table[p]] =
                              Decremented(pin_count[page_table[p]])]
          BY <1>1, <2>5 DEF ReleasePage
        <5> QED BY <3>1, <5>1, <5>2, CounterType
      <4>2. is_dirty' \in [Frames -> BOOLEAN]
        BY <1>1, <2>1, <2>5, <3>1 DEF TypeOK, MetaType, ReleasePage, Decremented, MarkedDirty
      <4>3. reference_bit' \in [Frames -> {0, 1}]
        BY <1>1, <2>1, <2>5, <3>1 DEF TypeOK, MetaType, ReleasePage, Decremented, MarkedDirty
      <4>4. is_in_queue' \in [Frames -> BOOLEAN]
        BY <1>1, <2>1, <2>5, <3>1 DEF TypeOK, MetaType, ReleasePage, Decremented, MarkedDirty
      <4> QED BY <4>1, <4>2, <4>3, <4>4 DEF MetaType
    <3>3. ListType'
      <4>1. unpinned_frames \in Seq(Frames)
        BY DEF TypeOK, ListType
      <4>2. Append(unpinned_frames, page_table[p]) \in Seq(Frames)
        BY <3>1, <4>1
      <4>3. unpinned_frames' \in {unpinned_frames, Append(unpinned_frames, page_table[p])}
        BY <1>1, <2>5 DEF ReleasePage
      <4>4. unpinned_frames' \in Seq(Frames)
        BY <4>1, <4>2, <4>3
      <4> QED BY <2>1, <4>4 DEF TypeOK, ListType
    <3> QED BY <2>2, <2>3, <3>2, <3>3 DEF TypeOK
  <2> QED BY <2>4, <2>5
<1>2. ASSUME NEW d \in Data, WriteThrough(p, f, d)
      PROVE  TypeOK'
  <2>1. UNCHANGED <<page_table, frame_page, pin_count, is_dirty, reference_bit, is_in_queue,
                    free_frames, unpinned_frames, pc, want, index, iter, max_iters, disk,
                    allocated, held, lost>>
    BY <1>2 DEF WriteThrough, meta, call, file
  <2>2. (TableType /\ MetaType /\ ListType /\ CallType)'
    BY <2>1 DEF TypeOK, TableType, MetaType, ListType, CallType
  <2>3. (DataType /\ UserType)'
    BY <1>2, <2>1 DEF TypeOK, DataType, UserType, WriteThrough
  <2> QED BY <2>2, <2>3 DEF TypeOK
<1> QED BY <1>1, <1>2 DEF Use

\* Every variable keeps its type, whatever the callers and the disk do.
LEMMA NextTypeOK == TypeOK /\ [Next]_vars => TypeOK'
<1> SUFFICES ASSUME TypeOK, [Next]_vars PROVE TypeOK'
  OBVIOUS
<1>1. CASE Shutdown
  <2>1. disk' \in [PageIDs -> Data]
    <3>1. \A p \in DirtyPages : frame_data[page_table[p]] \in Data
      BY DEF DirtyPages, TypeOK, TableType, DataType
    <3> QED BY <1>1, <3>1 DEF Shutdown, TypeOK, DataType
  <2> QED BY <1>1, <2>1, RestartTypeOK DEF Shutdown
<1>2. CASE Crash
  BY <1>2, RestartTypeOK DEF Crash, file, TypeOK, DataType
<1>3. CASE UNCHANGED vars
  BY <1>3 DEF vars, meta, call, file, users, TypeOK, TableType, MetaType,
              DataType, ListType, CallType, UserType
<1> QED
  BY <1>1, <1>2, <1>3, RequestTypeOK, SweepTypeOK, FillTypeOK, UseTypeOK DEF Next

\* The type invariant of the pool, for every number of frames and pages.
THEOREM TypeCorrect == Spec => []TypeOK
<1>1. Init => TypeOK
  BY InitTypeOK
<1>2. TypeOK /\ [Next]_vars => TypeOK'
  BY NextTypeOK
<1> QED
  BY <1>1, <1>2, PTL DEF Spec

-----------------------------------------------------------------------------
\* Lemmas on the queue.

\* What is left of the queue when its head is popped.
LEMMA PopFacts ==
  ASSUME NEW q \in Seq(Frames), q # <<>>
  PROVE  /\ Len(q) \in Nat /\ Len(q) > 0
         /\ q[1] \in Frames /\ Head(q) = q[1]
         /\ Tail(q) \in Seq(Frames) /\ Len(Tail(q)) = Len(q) - 1
         /\ \A i \in 1..(Len(q) - 1) : Tail(q)[i] = q[i + 1]
  OBVIOUS

\* A frame pushed to the queue is its last element.
LEMMA PushFacts ==
  ASSUME NEW q \in Seq(Frames), NEW f \in Frames
  PROVE  /\ Len(q) \in Nat
         /\ Append(q, f) \in Seq(Frames) /\ Len(Append(q, f)) = Len(q) + 1
         /\ \A i \in 1..Len(q) : Append(q, f)[i] = q[i]
         /\ Append(q, f)[Len(q) + 1] = f
  OBVIOUS

\* If no frame can be evicted, the callers and the failures use them all up.
LEMMA SomeFrameLeft ==
  ASSUME Capacity, TypeOK, LostOK, Cardinality(PinnedFrames) < PinLimit
  PROVE  \E f \in Frames : pin_count[f] = 0 /\ f \notin lost
<1> SUFFICES ASSUME \A f \in Frames : pin_count[f] # 0 \/ f \in lost
             PROVE  FALSE
  OBVIOUS
<1>1. Frames \subseteq PinnedFrames \cup lost
  BY PoolAssumption DEF PinnedFrames, TypeOK, MetaType
<1>2. IsFiniteSet(PinnedFrames) /\ IsFiniteSet(lost)
  BY PoolAssumption, FS_Subset DEF PinnedFrames, TypeOK, ListType
<1>3. Cardinality(Frames) <= Cardinality(PinnedFrames \cup lost)
  BY <1>1, <1>2, FS_Union, FS_Subset
<1>4. Cardinality(PinnedFrames \cup lost) <= Cardinality(PinnedFrames) + Cardinality(lost)
  <2>1. /\ Cardinality(PinnedFrames) \in Nat /\ Cardinality(lost) \in Nat
        /\ Cardinality(PinnedFrames \cap lost) \in Nat
    BY <1>2, FS_CardinalityType, FS_Intersection
  <2>2. Cardinality(PinnedFrames \cup lost) =
          Cardinality(PinnedFrames) + Cardinality(lost) - Cardinality(PinnedFrames \cap lost)
    BY <1>2, FS_Union
  <2> QED BY <2>1, <2>2
<1>5. /\ Cardinality(PinnedFrames) \in Nat /\ Cardinality(lost) \in Nat
      /\ Cardinality(PinnedFrames \cup lost) \in Nat /\ Cardinality(Frames) \in Nat
  BY <1>2, PoolAssumption, FS_CardinalityType, FS_Union
<1> QED BY <1>3, <1>4, <1>5, PoolAssumption DEF Capacity, LostOK

-----------------------------------------------------------------------------
\* The invariant is inductive: one lemma per kind of step.

LEMMA InitIInv == Init => IInv
<1> SUFFICES ASSUME Init PROVE IInv
  OBVIOUS
<1> USE PoolAssumption
<1>1. TypeOK
  BY InitTypeOK
<1>2. TableOK
  BY DEF Init, NoPages, NoMeta, TableOK, Cached, Holds
<1>3. PinSafety /\ Bounded
  BY DEF Init, NoPages, NoMeta, NoPointers, PinSafety, PointersValid, PinsMatchPointers,
         Bounded
<1>4. QueueOK /\ PlaceOK
  BY DEF Init, NoMeta, QueueOK, PlaceOK, Holds
<1>5. CallOK /\ SweepOK
  BY DEF Init, CallOK, SweepOK
<1>6. SavedOK /\ CleanMatchesDisk
  BY DEF Init, NoPages, SavedOK, CleanMatchesDisk, Cached
<1>7. LostOK
  BY FS_EmptySet DEF Init, LostOK
<1> QED BY <1>1, <1>2, <1>3, <1>4, <1>5, <1>6, <1>7 DEF IInv

LEMMA RestartIInv ==
  ASSUME IInv, Restart, UNCHANGED allocated, TypeOK',
         \A p \in PageIDs \ allocated : disk'[p] = Zero
  PROVE  IInv'
<1> USE PoolAssumption
<1>2. TableOK'
  BY DEF Restart, NoPages, NoMeta, TableOK, Cached, Holds
<1>3. (PinSafety /\ Bounded)'
  BY DEF Restart, NoPages, NoMeta, NoPointers, PinSafety, PointersValid, PinsMatchPointers,
         Bounded
<1>4. (QueueOK /\ PlaceOK)'
  BY DEF Restart, NoMeta, QueueOK, PlaceOK, Holds
<1>5. (CallOK /\ SweepOK)'
  BY DEF Restart, Return, CallOK, SweepOK
<1>6. (SavedOK /\ CleanMatchesDisk)'
  BY DEF Restart, NoPages, SavedOK, CleanMatchesDisk, Cached
<1>7. LostOK'
  BY FS_EmptySet DEF Restart, LostOK
<1> QED BY <1>2, <1>3, <1>4, <1>5, <1>6, <1>7 DEF IInv

\* A hit pins the frame once more; no other frame is touched.
LEMMA HitIInv ==
  ASSUME IInv, NEW p \in PageIDs, RequestHit(p), TypeOK'
  PROVE  IInv'
<1> DEFINE f == page_table[p]
<1>1. /\ f \in Frames /\ f # NoFrame /\ pc = "idle" /\ held[<<p, f>>] < HoldLimit
      /\ frame_page[f] = p /\ frame_page[f] # NoPage
  BY PoolAssumption DEF IInv, TypeOK, TableType, TableOK, Cached, RequestHit
<1>2. UNCHANGED <<page_table, frame_page, is_dirty, is_in_queue, frame_data, free_frames,
                  unpinned_frames, pc, want, index, iter, max_iters, disk, allocated, unsaved,
                  lost>>
  BY DEF RequestHit, call, file
<1>3. /\ held' = [held EXCEPT ![<<p, f>>] = held[<<p, f>>] + 1]
      /\ pin_count' = [pin_count EXCEPT ![f] = Incremented(pin_count[f])]
  BY DEF RequestHit
<1>4. /\ held \in [PageIDs \X Frames -> Nat] /\ pin_count \in [Frames -> 0..PinMax]
      /\ held[<<p, f>>] \in Nat
  BY <1>1 DEF IInv, TypeOK, MetaType, UserType
<1>5. pin_count[f] = held[<<p, f>>]
  BY <1>1 DEF IInv, PinSafety, PinsMatchPointers
<1>6. pin_count'[f] = held[<<p, f>>] + 1 /\ held'[<<p, f>>] = held[<<p, f>>] + 1
  BY <1>1, <1>3, <1>4, <1>5, PoolAssumption DEF Incremented
<1>7. /\ \A g \in Frames \ {f} : pin_count'[g] = pin_count[g]
      /\ \A q \in PageIDs, g \in Frames : <<q, g>> # <<p, f>> =>
            held'[<<q, g>>] = held[<<q, g>>]
  BY <1>3, <1>4
<1> HIDE DEF f
<1>8. TableOK'
  BY <1>2 DEF IInv, TableOK, Cached, Holds
<1>9. PinSafety'
  <2>1. PointersValid'
    BY <1>1, <1>2, <1>7 DEF f, IInv, PinSafety, PointersValid
  <2>2. PinsMatchPointers'
    <3> SUFFICES ASSUME NEW g \in Frames
                 PROVE  pin_count'[g] = IF frame_page[g] = NoPage
                                        THEN 0 ELSE held'[<<frame_page[g], g>>]
      BY <1>2 DEF PinsMatchPointers
    <3>1. CASE g = f
      BY <1>1, <1>6, <3>1
    <3>2. CASE g # f /\ frame_page[g] = NoPage
      BY <1>7, <3>2 DEF IInv, PinSafety, PinsMatchPointers
    <3>3. CASE g # f /\ frame_page[g] # NoPage
      <4>1. frame_page[g] \in PageIDs
        BY <3>3 DEF IInv, TypeOK, TableType
      <4> QED BY <1>7, <3>3, <4>1 DEF IInv, PinSafety, PinsMatchPointers
    <3> QED BY <3>1, <3>2, <3>3
  <2> QED BY <2>1, <2>2 DEF PinSafety
<1>10. Bounded'
  <2> SUFFICES ASSUME NEW q \in PageIDs, NEW g \in Frames
               PROVE  held'[<<q, g>>] <= HoldLimit
    BY DEF Bounded
  <2>1. held[<<q, g>>] <= HoldLimit
    BY DEF IInv, Bounded
  <2>2. CASE <<q, g>> = <<p, f>>
    BY <1>1, <1>4, <1>6, <2>2, PoolAssumption
  <2> QED BY <1>7, <2>1, <2>2
<1>11. QueueOK'
  BY <1>2 DEF IInv, QueueOK, Holds
<1>12. PlaceOK'
  BY <1>1, <1>2, <1>4, <1>6, <1>7 DEF IInv, PlaceOK, Holds, InQueue
<1>13. (CallOK /\ SweepOK)'
  BY <1>1, <1>2 DEF IInv, CallOK, SweepOK, Cached
<1>14. SavedOK'
  <2>1. ASSUME NEW q \in unsaved PROVE held'[<<q, page_table[q]>>] > 0
    <3>1. q \in PageIDs /\ page_table[q] \in Frames /\ held[<<q, page_table[q]>>] > 0
      BY <2>1 DEF IInv, SavedOK, Cached, TypeOK, UserType, TableType
    <3> QED BY <1>4, <1>6, <1>7, <3>1
  <2> QED BY <1>2, <2>1 DEF IInv, SavedOK, Cached
<1>15. LostOK' /\ CleanMatchesDisk'
  BY <1>2 DEF IInv, LostOK, CleanMatchesDisk
<1> QED
  BY <1>8, <1>9, <1>10, <1>11, <1>12, <1>13, <1>14, <1>15 DEF IInv

\* A miss takes a free frame, or finds that some frame can be evicted.
LEMMA MissIInv ==
  ASSUME Capacity, IInv, NEW p \in PageIDs, pc = "idle", page_table[p] = NoFrame,
         Cardinality(PinnedFrames) < PinLimit, Miss(p),
         allocated \subseteq allocated', p \in allocated',
         \A q \in PageIDs : disk'[q] = disk[q],
         \A q \in PageIDs \ allocated' : disk'[q] = Zero,
         TypeOK'
  PROVE  IInv'
<1>1. UNCHANGED <<page_table, frame_page, pin_count, is_dirty, reference_bit, is_in_queue,
                  frame_data, unpinned_frames, held, unsaved, lost>>
  BY DEF Miss, meta, users
<1>2. (TableOK /\ PinSafety /\ Bounded /\ LostOK)'
  BY <1>1 DEF IInv, TableOK, PinSafety, PointersValid, PinsMatchPointers, Bounded, LostOK,
              Cached, Holds
<1>3. QueueOK'
  BY <1>1 DEF Miss, IInv, QueueOK, Holds
<1>4. SavedOK'
  BY <1>1 DEF IInv, SavedOK, Cached
<1>5. CleanMatchesDisk'
  BY <1>1 DEF IInv, CleanMatchesDisk
<1>6. CASE free_frames # {}
  <2>1. PICK f \in free_frames : free_frames' = free_frames \ {f} /\ index' = f
    BY <1>6 DEF Miss
  <2>2. pc' = "load" /\ want' = p /\ UNCHANGED iter
    BY <1>6 DEF Miss
  <2>3. f \in Frames /\ frame_page[f] = NoPage /\ f \notin lost
    BY <2>1 DEF IInv, PlaceOK, Holds, TypeOK, ListType
  <2>4. PlaceOK'
    BY <1>1, <2>1, <2>2, <2>3 DEF IInv, PlaceOK, Holds, InQueue
  <2>5. (CallOK /\ SweepOK)'
    BY <1>1, <2>1, <2>2, <2>3 DEF IInv, CallOK, SweepOK, Holds, Cached
  <2> QED BY <1>2, <1>3, <1>4, <1>5, <2>4, <2>5 DEF IInv
<1>7. CASE free_frames = {}
  <2>1. /\ pc' = "sweep" /\ want' = p /\ max_iters' = 2 * Len(unpinned_frames)
        /\ UNCHANGED <<free_frames, index, iter>>
    BY <1>7 DEF Miss, MAX_ITERS
  <2>2. PlaceOK'
    BY <1>1, <2>1 DEF IInv, PlaceOK, Holds, InQueue
  <2>3. CallOK'
    BY <1>1, <1>7, <2>1 DEF IInv, CallOK, Holds, Cached
  <2>4. PICK f \in Frames : pin_count[f] = 0 /\ f \notin lost
    BY SomeFrameLeft DEF IInv
  <2>5. Holds(f)
    BY <1>7, <2>4 DEF IInv, PlaceOK
  <2>6. Len(unpinned_frames) \in Nat /\ iter = 0
    BY DEF IInv, TypeOK, ListType, CallOK
  <2>8. Len(unpinned_frames) > 0
    <3>1. InQueue(f)
      BY <2>4, <2>5 DEF IInv, PlaceOK
    <3> QED BY <2>6, <3>1 DEF InQueue
  <2>7. SweepOK'
    BY <1>1, <2>1, <2>4, <2>5, <2>6, <2>8 DEF SweepOK, Holds
  <2> QED BY <1>2, <1>3, <1>4, <1>5, <2>2, <2>3, <2>7 DEF IInv
<1> QED BY <1>6, <1>7

LEMMA RequestIInv ==
  ASSUME Capacity, IInv, NEW p \in PageIDs, Request(p), TypeOK'
  PROVE  IInv'
<1>1. CASE RequestHit(p)
  BY <1>1, HitIInv
<1>2. CASE RequestMiss(p)
  <2>1. UNCHANGED <<disk, allocated>> /\ p \in allocated
    BY <1>2 DEF RequestMiss, file
  <2>2. \A q \in PageIDs \ allocated' : disk'[q] = Zero
    BY <2>1 DEF IInv, SavedOK
  <2> QED BY <1>2, <2>1, <2>2, MissIInv DEF RequestMiss
<1>3. CASE AllocateNewPage(p)
  <2>1. page_table[p] = NoFrame
    BY <1>3 DEF AllocateNewPage, IInv, SavedOK, Cached
  <2>2. allocated \subseteq allocated' /\ p \in allocated' /\ allocated' = allocated \cup {p}
    BY <1>3 DEF AllocateNewPage
  <2>3. disk' = [disk EXCEPT ![p] = Zero] /\ disk \in [PageIDs -> Data]
    BY <1>3 DEF AllocateNewPage, IInv, TypeOK, DataType
  <2>4. \A q \in PageIDs : disk'[q] = disk[q]
    BY <1>3, <2>3 DEF AllocateNewPage, IInv, SavedOK
  <2>5. \A q \in PageIDs \ allocated' : disk'[q] = Zero
    BY <2>2, <2>4 DEF IInv, SavedOK
  <2> QED BY <1>3, <2>1, <2>2, <2>4, <2>5, MissIInv DEF AllocateNewPage
<1> QED BY <1>1, <1>2, <1>3 DEF Request

\* The hand moves by one frame: SkipPinned, SecondChance, TakeVictim.
LEMMA HandIInv ==
  ASSUME IInv, SkipPinned \/ SecondChance \/ TakeVictim, TypeOK'
  PROVE  IInv'
<1> DEFINE h == unpinned_frames[1]
           rest == Tail(unpinned_frames)
<1>1. UNCHANGED <<page_table, frame_page, pin_count, is_dirty, frame_data, free_frames, want,
                  disk, allocated, held, unsaved, lost>>
  BY DEF SkipPinned, SecondChance, TakeVictim, meta, file, users
<1>2. /\ pc = "sweep" /\ iter < max_iters
      /\ unpinned_frames \in Seq(Frames) /\ unpinned_frames # <<>>
  BY DEF SkipPinned, SecondChance, TakeVictim, Sweeping, IInv, TypeOK, ListType
<1>3. /\ Len(unpinned_frames) \in Nat /\ Len(unpinned_frames) > 0
      /\ h \in Frames /\ Head(unpinned_frames) = h
      /\ rest \in Seq(Frames) /\ Len(rest) = Len(unpinned_frames) - 1
      /\ \A i \in 1..(Len(unpinned_frames) - 1) : rest[i] = unpinned_frames[i + 1]
  BY <1>2, PopFacts
<1>4. h \notin lost /\ Holds(h) /\ is_in_queue[h] /\ 1 \in 1..Len(unpinned_frames)
  BY <1>3 DEF IInv, QueueOK
<1>5. \A i \in 1..(Len(unpinned_frames) - 1) : rest[i] # h /\ rest[i] \in Frames
  BY <1>2, <1>3 DEF IInv, QueueOK
<1>6. (TableOK /\ PinSafety /\ Bounded /\ LostOK /\ SavedOK /\ CleanMatchesDisk)'
  BY <1>1 DEF IInv, TableOK, PinSafety, PointersValid, PinsMatchPointers, Bounded, LostOK,
              SavedOK, CleanMatchesDisk, Cached, Holds
<1>7. \A g \in Frames : InQueue(g) => g = h \/ \E i \in 1..Len(rest) : rest[i] = g
  BY <1>3 DEF InQueue
<1>8. \A i, j \in 1..Len(rest) : rest[i] = rest[j] => i = j
  BY <1>3 DEF IInv, QueueOK
<1>9. \A i \in 1..Len(rest) : Holds(rest[i]) /\ is_in_queue[rest[i]] /\ rest[i] \notin lost
  BY <1>3 DEF IInv, QueueOK
<1>10. free_frames = {} /\ want \in allocated /\ ~Cached(want)
  BY <1>2 DEF IInv, CallOK
<1>11. PICK n \in Nat :
         /\ n > 0 /\ max_iters = 2 * n /\ iter <= n /\ Len(unpinned_frames) >= n - iter
         /\ \A j \in 1..Len(unpinned_frames) :
              j > n - iter => /\ reference_bit[unpinned_frames[j]] = 0
                              /\ pin_count[unpinned_frames[j]] = 0
  BY <1>2 DEF IInv, SweepOK
<1>12. iter \in Nat /\ max_iters \in Nat
  BY DEF IInv, TypeOK, CallType
<1>13. PICK u \in Frames : pin_count[u] = 0 /\ u \notin lost /\ Holds(u)
  BY <1>2 DEF IInv, SweepOK
<1>14. CASE SkipPinned
  <2>1. /\ pin_count[h] > 0 /\ pc' = "sweep" /\ index' = h /\ unpinned_frames' = rest
        /\ is_in_queue' = [is_in_queue EXCEPT ![h] = FALSE]
        /\ iter' = iter + 1 /\ UNCHANGED <<reference_bit, max_iters>>
    BY <1>2, <1>3, <1>14 DEF SkipPinned
  <2>2. is_in_queue' [h] = FALSE /\ \A g \in Frames \ {h} : is_in_queue'[g] = is_in_queue[g]
    BY <1>3, <2>1 DEF IInv, TypeOK, MetaType
  <2> HIDE DEF h, rest
  <2>3. QueueOK'
    BY <1>1, <1>3, <1>5, <1>8, <1>9, <2>1, <2>2 DEF QueueOK, Holds
  <2>4. PlaceOK'
    BY <1>1, <1>2, <1>3, <1>4, <1>7, <2>1, <2>2 DEF IInv, PlaceOK, Holds, InQueue
  <2>5. CallOK'
    BY <1>1, <1>10, <2>1 DEF CallOK, Cached
  <2>6. n - iter > 0
    BY <1>3, <1>4, <1>11, <1>12, <2>1 DEF h
  <2>7. \A j \in 1..Len(rest) : j > n - (iter + 1) => /\ reference_bit[rest[j]] = 0
                                                      /\ pin_count[rest[j]] = 0
    BY <1>3, <1>11, <1>12
  <2>8. SweepOK'
    <3>1. \E f \in Frames : (pin_count[f] = 0 /\ f \notin lost /\ Holds(f))'
      BY <1>1, <1>13 DEF Holds
    <3>2. Len(rest) \in Nat /\ Len(rest) >= n - (iter + 1) /\ iter + 1 <= n
      BY ONLY n \in Nat, <1>3, <1>11, <1>12, <2>6
    <3>3. /\ max_iters' = 2 * n /\ iter' <= n /\ Len(unpinned_frames') >= n - iter'
          /\ \A j \in 1..Len(unpinned_frames') :
               j > n - iter' => /\ reference_bit'[unpinned_frames'[j]] = 0
                                /\ pin_count'[unpinned_frames'[j]] = 0
      BY ONLY <1>1, <1>11, <2>1, <2>7, <3>2
    <3> QED BY <1>11, <3>1, <3>3 DEF SweepOK
  <2> QED BY <1>6, <2>3, <2>4, <2>5, <2>8 DEF IInv
<1>15. CASE SecondChance
  <2> DEFINE q == Append(rest, h)
  <2>1. /\ pin_count[h] = 0 /\ reference_bit[h] = 1
        /\ pc' = "sweep" /\ index' = h /\ unpinned_frames' = q
        /\ reference_bit' = [reference_bit EXCEPT ![h] = 0]
        /\ iter' = iter + 1 /\ UNCHANGED <<is_in_queue, max_iters>>
    BY <1>2, <1>3, <1>15 DEF SecondChance
  <2>2. reference_bit'[h] = 0 /\ \A g \in Frames \ {h} : reference_bit'[g] = reference_bit[g]
    BY <1>3, <2>1 DEF IInv, TypeOK, MetaType
  <2>3. /\ Len(q) = Len(unpinned_frames) /\ q[Len(q)] = h
        /\ \A i \in 1..(Len(unpinned_frames) - 1) : q[i] = unpinned_frames[i + 1] /\ q[i] = rest[i]
    BY <1>3, PushFacts
  <2> HIDE DEF h, rest, q
  <2>4. QueueOK'
    <3>1. \A i \in 1..Len(q) : i = Len(q) \/ i \in 1..(Len(unpinned_frames) - 1)
      BY <1>3, <2>3
    <3>2. ASSUME NEW i \in 1..Len(q)
          PROVE  Holds(q[i]) /\ is_in_queue[q[i]] /\ q[i] \notin lost
      <4>1. CASE i = Len(q)
        BY <1>4, <2>3, <4>1
      <4>2. CASE i \in 1..(Len(unpinned_frames) - 1)
        <5>1. q[i] = rest[i] /\ i \in 1..Len(rest)
          BY <1>3, <2>3, <4>2
        <5> QED BY <1>9, <5>1
      <4> QED BY <3>1, <4>1, <4>2
    <3>3. ASSUME NEW i \in 1..Len(q), NEW j \in 1..Len(q), q[i] = q[j]
          PROVE  i = j
      BY <1>3, <1>5, <1>8, <2>3, <3>1, <3>3
    <3> QED BY <1>1, <2>1, <3>2, <3>3 DEF QueueOK, Holds
  <2>5. PlaceOK'
    <3>1. \A g \in Frames : InQueue(g) => \E i \in 1..Len(q) : q[i] = g
      BY <1>3, <1>7, <2>3
    <3> QED BY <1>1, <1>2, <2>1, <3>1 DEF IInv, PlaceOK, Holds, InQueue
  <2>6. CallOK'
    BY <1>1, <1>10, <2>1 DEF CallOK, Cached
  <2>7. n - iter > 0
    BY <1>3, <1>4, <1>11, <1>12, <2>1 DEF h
  <2>8. \A j \in 1..Len(q) : j > n - (iter + 1) => /\ reference_bit'[q[j]] = 0
                                                   /\ pin_count[q[j]] = 0
    <3> SUFFICES ASSUME NEW j \in 1..Len(q), j > n - (iter + 1)
                 PROVE  reference_bit'[q[j]] = 0 /\ pin_count[q[j]] = 0
      OBVIOUS
    <3>1. CASE j = Len(q)
      BY <2>1, <2>2, <2>3, <3>1
    <3>2. CASE j # Len(q)
      <4>1. j \in 1..(Len(unpinned_frames) - 1)
        BY <1>3, <2>3, <3>2
      <4>2. j + 1 \in 1..Len(unpinned_frames) /\ j + 1 > n - iter
        BY <1>3, <1>12, <4>1
      <4>3. reference_bit[q[j]] = 0 /\ pin_count[q[j]] = 0
        BY <1>11, <2>3, <4>1, <4>2
      <4>4. q[j] # h /\ q[j] \in Frames
        BY <1>5, <2>3, <4>1
      <4> QED BY <2>2, <4>3, <4>4
    <3> QED BY <3>1, <3>2
  <2>9. SweepOK'
    <3>1. \E f \in Frames : (pin_count[f] = 0 /\ f \notin lost /\ Holds(f))'
      BY <1>1, <1>13 DEF Holds
    <3>2. Len(q) \in Nat /\ Len(q) >= n - (iter + 1) /\ iter + 1 <= n
      BY ONLY n \in Nat, <1>3, <1>11, <1>12, <2>3, <2>7
    <3>3. /\ max_iters' = 2 * n /\ iter' <= n /\ Len(unpinned_frames') >= n - iter'
          /\ \A j \in 1..Len(unpinned_frames') :
               j > n - iter' => /\ reference_bit'[unpinned_frames'[j]] = 0
                                /\ pin_count'[unpinned_frames'[j]] = 0
      BY ONLY <1>1, <1>11, <2>1, <2>8, <3>2
    <3> QED BY <1>11, <3>1, <3>3 DEF SweepOK
  <2> QED BY <1>6, <2>4, <2>5, <2>6, <2>9 DEF IInv
<1>16. CASE TakeVictim
  <2>1. /\ pin_count[h] = 0 /\ pc' = "evict" /\ index' = h /\ unpinned_frames' = rest
        /\ iter' = 0 /\ UNCHANGED <<reference_bit, is_in_queue>>
    BY <1>2, <1>3, <1>16 DEF TakeVictim, meta
  <2> HIDE DEF h, rest
  <2>2. QueueOK'
    BY <1>1, <1>3, <1>5, <1>8, <1>9, <2>1 DEF QueueOK, Holds
  <2>3. PlaceOK'
    BY <1>1, <1>2, <1>3, <1>7, <2>1 DEF IInv, PlaceOK, Holds, InQueue
  <2>4. (CallOK /\ SweepOK)'
    BY <1>1, <1>4, <1>10, <2>1 DEF CallOK, SweepOK, Cached, Holds
  <2> QED BY <1>6, <2>2, <2>3, <2>4 DEF IInv
<1> QED BY <1>14, <1>15, <1>16

\* The hand always finds a victim: the loop never runs out.
LEMMA NeverExhausted == IInv => ~SweepExhausted
<1> SUFFICES ASSUME IInv, SweepExhausted PROVE FALSE
  OBVIOUS
<1>1. pc = "sweep" /\ (iter >= max_iters \/ unpinned_frames = <<>>)
  BY DEF SweepExhausted, Sweeping, IInv, TypeOK, CallType
<1>2. PICK u \in Frames : pin_count[u] = 0 /\ u \notin lost /\ Holds(u)
  BY <1>1 DEF IInv, SweepOK
<1>3. InQueue(u)
  BY <1>1, <1>2 DEF IInv, PlaceOK
<1>4. Len(unpinned_frames) \in Nat /\ Len(unpinned_frames) > 0 /\ unpinned_frames # <<>>
  BY <1>3 DEF InQueue, IInv, TypeOK, ListType
<1>5. PICK n \in Nat : n > 0 /\ max_iters = 2 * n /\ iter <= n
  BY <1>1 DEF IInv, SweepOK
<1>6. iter \in Nat
  BY DEF IInv, TypeOK, CallType
<1> QED BY <1>1, <1>4, <1>5, <1>6

\* A failed read or write costs the frame the call was working on.
LEMMA FailIInv ==
  ASSUME IInv, EvictWriteFails \/ LoadFails, TypeOK'
  PROVE  IInv'
<1>1. UNCHANGED <<page_table, frame_page, pin_count, is_dirty, reference_bit, is_in_queue,
                  frame_data, free_frames, unpinned_frames, disk, allocated, held, unsaved>>
  BY DEF EvictWriteFails, LoadFails, meta, file
<1>2. /\ pc \in {"evict", "load"} /\ Cardinality(lost) < MaxFaults
      /\ lost' = lost \cup {index} /\ pc' = "idle" /\ iter' = 0
  BY DEF EvictWriteFails, LoadFails, Fail, Return
<1>3. index \in Frames /\ index \notin free_frames
  BY <1>2 DEF IInv, TypeOK, CallType, CallOK, PlaceOK
<1>4. Holds(index) => is_in_queue[index]
  BY <1>2, <1>3 DEF IInv, CallOK, PlaceOK
<1>5. (TableOK /\ PinSafety /\ Bounded /\ SavedOK /\ CleanMatchesDisk)'
  BY <1>1 DEF IInv, TableOK, PinSafety, PointersValid, PinsMatchPointers, Bounded,
              SavedOK, CleanMatchesDisk, Cached, Holds
<1>6. QueueOK'
  <2>1. \A i \in 1..Len(unpinned_frames) : unpinned_frames[i] # index
    BY <1>2 DEF IInv, QueueOK, CallOK
  <2> QED BY <1>1, <1>2, <2>1 DEF IInv, QueueOK, Holds
<1>7. PlaceOK'
  BY <1>1, <1>2, <1>3, <1>4 DEF IInv, PlaceOK, Holds, InQueue
<1>8. (CallOK /\ SweepOK)'
  BY <1>2 DEF CallOK, SweepOK
<1>9. LostOK'
  <2>1. IsFiniteSet(lost) /\ Cardinality(lost) \in Nat
    BY PoolAssumption, FS_Subset, FS_CardinalityType DEF IInv, TypeOK, ListType
  <2>2. Cardinality(lost \cup {index}) \in {Cardinality(lost), Cardinality(lost) + 1}
    BY <2>1, FS_AddElement
  <2>3. Cardinality(lost') \in {Cardinality(lost), Cardinality(lost) + 1}
    BY <1>2, <2>2
  <2> QED BY <1>2, <2>1, <2>3, PoolAssumption DEF LostOK
<1> QED BY <1>5, <1>6, <1>7, <1>8, <1>9 DEF IInv

\* The victim leaves the table; its page is in the file as it was in the frame.
LEMMA EvictIInv ==
  ASSUME IInv, EvictPage, TypeOK'
  PROVE  IInv'
<1> DEFINE v == index
           e == frame_page[v]
<1>1. UNCHANGED <<frame_data, free_frames, unpinned_frames, want, index, iter, allocated,
                  held, unsaved, lost>>
  BY DEF EvictPage, users
<1>2. /\ pc = "evict" /\ pc' = "load" /\ v \in Frames /\ pin_count[v] = 0 /\ e # NoPage
      /\ v \notin lost /\ free_frames = {} /\ want \in allocated /\ ~Cached(want) /\ iter = 0
  BY DEF EvictPage, IInv, TypeOK, CallType, CallOK, Holds
<1>3. e \in PageIDs /\ page_table[e] = v /\ v # NoFrame
  BY <1>2, PoolAssumption DEF IInv, TypeOK, TableType, TableOK, Holds
<1>4. held[<<e, v>>] = 0
  BY <1>2, <1>3 DEF IInv, PinSafety, PinsMatchPointers
<1>5. \A p \in PageIDs \ {e} : page_table[p] # v
  BY <1>3 DEF IInv, TableOK, Cached
<1>6. \A f \in Frames \ {v} : frame_page[f] # e
  BY <1>2, <1>3 DEF IInv, TableOK, Holds
<1>7. /\ page_table'[e] = NoFrame
      /\ \A p \in PageIDs \ {e} : page_table'[p] = page_table[p] /\ disk'[p] = disk[p]
  BY <1>3 DEF EvictPage, WrittenBack, IInv, TypeOK, TableType, DataType
<1>8. /\ frame_page'[v] = NoPage /\ pin_count'[v] = 0
      /\ \A f \in Frames \ {v} : /\ frame_page'[f] = frame_page[f]
                                 /\ pin_count'[f] = pin_count[f]
  BY <1>2 DEF EvictPage, IInv, TypeOK, TableType, MetaType
<1>9. \A f \in Frames \ {v} : /\ is_in_queue'[f] = is_in_queue[f]
                              /\ is_dirty'[f] = is_dirty[f]
  BY <1>2 DEF EvictPage, IInv, TypeOK, MetaType
<1> HIDE DEF v, e
<1>10. TableOK'
  <2>1. ASSUME NEW p \in PageIDs, page_table'[p] # NoFrame
        PROVE  frame_page'[page_table'[p]] = p
    <3>1. p # e /\ page_table'[p] = page_table[p] /\ page_table[p] # v
      BY <1>5, <1>7, <2>1
    <3>2. page_table[p] \in Frames /\ frame_page[page_table[p]] = p
      BY <2>1, <3>1 DEF IInv, TypeOK, TableType, TableOK, Cached
    <3> QED BY <1>8, <3>1, <3>2
  <2>2. ASSUME NEW f \in Frames, frame_page'[f] # NoPage
        PROVE  page_table'[frame_page'[f]] = f
    <3>1. f # v /\ frame_page'[f] = frame_page[f] /\ frame_page[f] # e
      BY <1>6, <1>8, <2>2
    <3>2. frame_page[f] \in PageIDs /\ page_table[frame_page[f]] = f
      BY <2>2, <3>1 DEF IInv, TypeOK, TableType, TableOK, Holds
    <3> QED BY <1>7, <3>1, <3>2
  <2> QED BY <2>1, <2>2 DEF TableOK, Cached, Holds
<1>11. PinSafety'
  <2>1. ASSUME NEW p \in PageIDs, NEW f \in Frames, held[<<p, f>>] > 0
        PROVE  page_table'[p] = f /\ frame_page'[f] = p
    <3>1. page_table[p] = f /\ frame_page[f] = p
      BY <2>1 DEF IInv, PinSafety, PointersValid
    <3>2. p # e /\ f # v
      BY <1>3, <1>4, <2>1, <3>1 DEF e
    <3> QED BY <1>7, <1>8, <3>1, <3>2
  <2>2. ASSUME NEW f \in Frames
        PROVE  pin_count'[f] = IF frame_page'[f] = NoPage THEN 0
                               ELSE held[<<frame_page'[f], f>>]
    BY <1>8 DEF IInv, PinSafety, PinsMatchPointers
  <2> QED BY <1>1, <2>1, <2>2 DEF PinSafety, PointersValid, PinsMatchPointers
<1>12. (Bounded /\ LostOK)'
  BY <1>1 DEF IInv, Bounded, LostOK
<1>13. QueueOK'
  <2>1. \A i \in 1..Len(unpinned_frames) : unpinned_frames[i] \in Frames \ {v}
    BY <1>2 DEF IInv, QueueOK, TypeOK, ListType, v
  <2> QED BY <1>1, <1>2, <1>8, <1>9, <2>1 DEF IInv, QueueOK, Holds
<1>14. PlaceOK'
  BY <1>1, <1>2, <1>8, <1>9 DEF IInv, PlaceOK, Holds, InQueue, v
<1>15. (CallOK /\ SweepOK)'
  <2>1. want \in PageIDs /\ page_table'[want] = NoFrame
    BY <1>2, <1>7 DEF Cached, IInv, TypeOK, UserType
  <2> QED BY <1>1, <1>2, <1>8, <2>1 DEF CallOK, SweepOK, Cached, Holds, v
<1>16. SavedOK'
  <2>1. ASSUME NEW p \in unsaved PROVE page_table'[p] # NoFrame /\ held[<<p, page_table'[p]>>] > 0
    <3>1. p \in PageIDs /\ page_table[p] # NoFrame /\ held[<<p, page_table[p]>>] > 0
      BY <2>1 DEF IInv, SavedOK, Cached, TypeOK, UserType
    <3>2. p # e
      BY <1>3, <1>4, <3>1
    <3> QED BY <1>7, <3>1, <3>2
  <2>2. ASSUME NEW p \in PageIDs \ allocated PROVE page_table'[p] = NoFrame /\ disk'[p] = Zero
    <3>1. page_table[p] = NoFrame /\ disk[p] = Zero
      BY <2>2 DEF IInv, SavedOK, Cached
    <3> QED BY <1>3, <1>7, <3>1
  <2> QED BY <1>1, <2>1, <2>2 DEF SavedOK, Cached
<1>17. CleanMatchesDisk'
  <2> SUFFICES ASSUME NEW p \in PageIDs, page_table'[p] # NoFrame,
                      ~is_dirty'[page_table'[p]], p \notin unsaved
               PROVE  frame_data[page_table'[p]] = disk'[p]
    BY <1>1 DEF CleanMatchesDisk
  <2>1. p # e /\ page_table'[p] = page_table[p] /\ disk'[p] = disk[p] /\ page_table[p] # v
    BY <1>5, <1>7
  <2>2. page_table[p] \in Frames
    BY <2>1 DEF IInv, TypeOK, TableType
  <2>3. ~is_dirty[page_table[p]]
    BY <1>9, <2>1, <2>2
  <2> QED BY <2>1, <2>3 DEF IInv, CleanMatchesDisk
<1> QED
  BY <1>10, <1>11, <1>12, <1>13, <1>14, <1>15, <1>16, <1>17 DEF IInv

\* The page that was asked for is in its frame, pinned once.
LEMMA LoadIInv ==
  ASSUME IInv, LoadPage, TypeOK'
  PROVE  IInv'
<1> DEFINE v == index
           w == want
<1>1. UNCHANGED <<free_frames, unpinned_frames, disk, allocated, unsaved, lost>>
  BY DEF LoadPage, file
<1>2. /\ pc = "load" /\ pc' = "idle" /\ iter' = 0 /\ v \in Frames /\ w \in PageIDs
      /\ w \in allocated /\ page_table[w] = NoFrame /\ frame_page[v] = NoPage
      /\ v \notin free_frames /\ v \notin lost /\ v # NoFrame /\ w # NoPage
  BY PoolAssumption
     DEF LoadPage, Return, IInv, TypeOK, CallType, CallOK, Holds, Cached
<1>3. \A p \in PageIDs : page_table[p] # v
  BY <1>2, PoolAssumption DEF IInv, TableOK, Cached
<1>4. \A f \in Frames : frame_page[f] # w
  BY <1>2, PoolAssumption DEF IInv, TableOK, Holds
<1>5. \A f \in Frames : held[<<w, f>>] = 0
  BY <1>2, PoolAssumption DEF IInv, PinSafety, PointersValid, TypeOK, UserType
<1>6. /\ page_table'[w] = v
      /\ \A p \in PageIDs \ {w} : page_table'[p] = page_table[p]
  BY <1>2 DEF LoadPage, IInv, TypeOK, TableType
<1>7. /\ frame_page'[v] = w /\ pin_count'[v] = 1
      /\ \A f \in Frames \ {v} : /\ frame_page'[f] = frame_page[f]
                                 /\ pin_count'[f] = pin_count[f]
  BY <1>2 DEF LoadPage, IInv, TypeOK, TableType, MetaType
<1>8. /\ is_in_queue'[v] = FALSE
      /\ \A f \in Frames \ {v} : /\ is_in_queue'[f] = is_in_queue[f]
                                 /\ is_dirty'[f] = is_dirty[f]
  BY <1>2 DEF LoadPage, IInv, TypeOK, MetaType
<1>9. /\ frame_data'[v] = disk[w]
      /\ \A f \in Frames \ {v} : frame_data'[f] = frame_data[f]
  BY <1>2 DEF LoadPage, IInv, TypeOK, DataType
<1>10. /\ held'[<<w, v>>] = 1
       /\ \A p \in PageIDs, f \in Frames : <<p, f>> # <<w, v>> =>
             held'[<<p, f>>] = held[<<p, f>>]
  BY <1>2, <1>5 DEF LoadPage, IInv, TypeOK, UserType
<1> HIDE DEF v, w
<1>11. TableOK'
  <2>1. ASSUME NEW p \in PageIDs, page_table'[p] # NoFrame
        PROVE  frame_page'[page_table'[p]] = p
    <3>1. CASE p = w
      BY <1>6, <1>7, <3>1
    <3>2. CASE p # w
      <4>1. page_table'[p] = page_table[p] /\ page_table[p] \in Frames \ {v}
        BY <1>3, <1>6, <2>1, <3>2 DEF IInv, TypeOK, TableType
      <4>2. frame_page[page_table[p]] = p
        BY <2>1, <4>1 DEF IInv, TableOK, Cached
      <4> QED BY <1>7, <4>1, <4>2
    <3> QED BY <3>1, <3>2
  <2>2. ASSUME NEW f \in Frames, frame_page'[f] # NoPage
        PROVE  page_table'[frame_page'[f]] = f
    <3>1. CASE f = v
      BY <1>6, <1>7, <3>1
    <3>2. CASE f # v
      <4>1. frame_page'[f] = frame_page[f] /\ frame_page[f] \in PageIDs \ {w}
        BY <1>4, <1>7, <2>2, <3>2 DEF IInv, TypeOK, TableType
      <4>2. page_table[frame_page[f]] = f
        BY <2>2, <4>1 DEF IInv, TableOK, Holds
      <4> QED BY <1>6, <4>1, <4>2
    <3> QED BY <3>1, <3>2
  <2> QED BY <2>1, <2>2 DEF TableOK, Cached, Holds
<1>12. PinSafety'
  <2>1. ASSUME NEW p \in PageIDs, NEW f \in Frames, held'[<<p, f>>] > 0
        PROVE  page_table'[p] = f /\ frame_page'[f] = p
    <3>1. CASE p = w /\ f = v
      BY <1>6, <1>7, <3>1
    <3>2. CASE ~(p = w /\ f = v)
      <4>1. held[<<p, f>>] > 0
        BY <1>10, <2>1, <3>2
      <4>2. page_table[p] = f /\ frame_page[f] = p
        BY <4>1 DEF IInv, PinSafety, PointersValid
      <4>3. p # w /\ f # v
        BY <1>3, <1>4, <4>2
      <4> QED BY <1>6, <1>7, <4>2, <4>3
    <3> QED BY <3>1, <3>2
  <2>2. ASSUME NEW f \in Frames
        PROVE  pin_count'[f] = IF frame_page'[f] = NoPage THEN 0
                               ELSE held'[<<frame_page'[f], f>>]
    <3>1. CASE f = v
      BY <1>2, <1>7, <1>10, <3>1 DEF w
    <3>2. CASE f # v /\ frame_page[f] = NoPage
      BY <1>7, <3>2 DEF IInv, PinSafety, PinsMatchPointers
    <3>3. CASE f # v /\ frame_page[f] # NoPage
      <4>1. frame_page[f] \in PageIDs
        BY <3>3 DEF IInv, TypeOK, TableType
      <4> QED BY <1>7, <1>10, <3>3, <4>1 DEF IInv, PinSafety, PinsMatchPointers
    <3> QED BY <3>1, <3>2, <3>3
  <2> QED BY <2>1, <2>2 DEF PinSafety, PointersValid, PinsMatchPointers
<1>13. Bounded'
  <2> SUFFICES ASSUME NEW p \in PageIDs, NEW f \in Frames
               PROVE  held'[<<p, f>>] <= HoldLimit
    BY DEF Bounded
  <2>1. held[<<p, f>>] <= HoldLimit
    BY DEF IInv, Bounded
  <2>2. CASE <<p, f>> = <<w, v>>
    BY <1>10, <2>2, PoolAssumption
  <2> QED BY <1>10, <2>1, <2>2
<1>14. QueueOK'
  <2>1. \A i \in 1..Len(unpinned_frames) : unpinned_frames[i] \in Frames \ {v}
    BY <1>2 DEF IInv, QueueOK, TypeOK, ListType, Holds
  <2>2. \A f \in Frames \ {v} : Holds(f) => frame_page'[f] # NoPage
    BY <1>7 DEF Holds
  <2> QED BY <1>1, <1>2, <1>8, <2>1, <2>2 DEF IInv, QueueOK, Holds
<1>15. PlaceOK'
  BY <1>1, <1>2, <1>7, <1>8 DEF IInv, PlaceOK, Holds, InQueue, v
<1>16. (CallOK /\ SweepOK)'
  BY <1>2 DEF CallOK, SweepOK
<1>17. SavedOK'
  <2>1. ASSUME NEW p \in unsaved
        PROVE  page_table'[p] # NoFrame /\ held'[<<p, page_table'[p]>>] > 0
    <3>1. p \in PageIDs /\ page_table[p] # NoFrame /\ held[<<p, page_table[p]>>] > 0
      BY <2>1 DEF IInv, SavedOK, Cached, TypeOK, UserType
    <3>2. p # w /\ page_table[p] \in Frames
      BY <1>2, <3>1 DEF IInv, TypeOK, TableType, w
    <3> QED BY <1>6, <1>10, <3>1, <3>2
  <2>2. ASSUME NEW p \in PageIDs \ allocated PROVE page_table'[p] = NoFrame /\ disk[p] = Zero
    BY <1>2, <1>6 DEF IInv, SavedOK, Cached
  <2> QED BY <1>1, <2>1, <2>2 DEF SavedOK, Cached
<1>18. CleanMatchesDisk'
  <2> SUFFICES ASSUME NEW p \in PageIDs, page_table'[p] # NoFrame,
                      ~is_dirty'[page_table'[p]], p \notin unsaved
               PROVE  frame_data'[page_table'[p]] = disk[p]
    BY <1>1 DEF CleanMatchesDisk
  <2>1. CASE p = w
    BY <1>6, <1>9, <2>1
  <2>2. CASE p # w
    <3>1. page_table'[p] = page_table[p] /\ page_table[p] \in Frames \ {v}
      BY <1>3, <1>6, <2>2 DEF IInv, TypeOK, TableType
    <3>2. ~is_dirty[page_table[p]]
      BY <1>8, <3>1
    <3> QED BY <1>9, <3>1, <3>2 DEF IInv, CleanMatchesDisk
  <2> QED BY <2>1, <2>2
<1>19. LostOK'
  BY <1>1 DEF IInv, LostOK
<1> QED
  BY <1>11, <1>12, <1>13, <1>14, <1>15, <1>16, <1>17, <1>18, <1>19 DEF IInv

\* What holding a pointer means before a release or a write.
LEMMA PointerFacts ==
  ASSUME IInv, NEW p \in PageIDs, NEW f \in Frames, held[<<p, f>>] > 0
  PROVE  /\ page_table[p] = f /\ frame_page[f] = p /\ f # NoFrame /\ p # NoPage
         /\ pin_count[f] = held[<<p, f>>] /\ held[<<p, f>>] \in Nat
         /\ \A q \in PageIDs \ {p} : page_table[q] # f
<1>1. page_table[p] = f /\ frame_page[f] = p
  BY DEF IInv, PinSafety, PointersValid
<1>2. f # NoFrame /\ p # NoPage
  BY PoolAssumption
<1>3. pin_count[f] = held[<<p, f>>]
  BY <1>1, <1>2 DEF IInv, PinSafety, PinsMatchPointers
<1>4. \A q \in PageIDs \ {p} : page_table[q] # f
  BY <1>1, <1>2 DEF IInv, TableOK, Cached
<1>5. held[<<p, f>>] \in Nat
  BY DEF IInv, TypeOK, UserType
<1> QED BY <1>1, <1>2, <1>3, <1>4, <1>5

\* A release unpins the page's frame; the last one queues it.
LEMMA ReleaseIInv ==
  ASSUME IInv, NEW p \in PageIDs, NEW f \in Frames, NEW dirty \in BOOLEAN,
         ReleasePage(p, f, dirty), TypeOK'
  PROVE  IInv'
<1>1. UNCHANGED <<page_table, frame_page, reference_bit, frame_data, free_frames, pc, want,
                  index, iter, max_iters, disk, allocated, lost>>
  BY DEF ReleasePage, meta, call, file
<1>2. /\ pc = "idle" /\ held[<<p, f>>] > 0
      /\ (held[<<p, f>>] = 1 /\ p \in unsaved) => dirty
      /\ held' = [held EXCEPT ![<<p, f>>] = held[<<p, f>>] - 1]
      /\ unsaved' = IF dirty THEN unsaved \ {p} ELSE unsaved
  BY DEF ReleasePage
<1>3. /\ page_table[p] = f /\ frame_page[f] = p /\ f # NoFrame /\ p # NoPage
      /\ pin_count[f] = held[<<p, f>>] /\ held[<<p, f>>] \in Nat
      /\ \A q \in PageIDs \ {p} : page_table[q] # f
  BY <1>2, PointerFacts
<1>4. /\ pin_count' = [pin_count EXCEPT ![f] = Decremented(pin_count[f])]
      /\ is_dirty' = [is_dirty EXCEPT ![f] = MarkedDirty(is_dirty[f], dirty)]
      /\ IF Decremented(pin_count[f]) = 0 /\ ~is_in_queue[f]
         THEN /\ unpinned_frames' = Append(unpinned_frames, f)
              /\ is_in_queue' = [is_in_queue EXCEPT ![f] = TRUE]
         ELSE UNCHANGED <<unpinned_frames, is_in_queue>>
  BY <1>3 DEF ReleasePage
<1>5. Decremented(pin_count[f]) = held[<<p, f>>] - 1
  BY <1>2, <1>3 DEF Decremented
<1>6. /\ pin_count \in [Frames -> 0..PinMax] /\ held \in [PageIDs \X Frames -> Nat]
      /\ is_dirty \in [Frames -> BOOLEAN] /\ is_in_queue \in [Frames -> BOOLEAN]
      /\ unpinned_frames \in Seq(Frames)
  BY DEF IInv, TypeOK, MetaType, UserType, ListType
<1>7. /\ pin_count'[f] = held[<<p, f>>] - 1
      /\ \A g \in Frames \ {f} : pin_count'[g] = pin_count[g]
  BY <1>4, <1>5, <1>6
<1>8. /\ held'[<<p, f>>] = held[<<p, f>>] - 1
      /\ \A q \in PageIDs, g \in Frames : <<q, g>> # <<p, f>> =>
            held'[<<q, g>>] = held[<<q, g>>]
  BY <1>2, <1>6
<1>9. /\ is_dirty'[f] = (is_dirty[f] \/ dirty)
      /\ \A g \in Frames \ {f} : is_dirty'[g] = is_dirty[g]
  BY <1>4, <1>6 DEF MarkedDirty
<1>10. /\ \A g \in Frames \ {f} : is_in_queue'[g] = is_in_queue[g]
       /\ is_in_queue'[f] = (is_in_queue[f] \/ pin_count'[f] = 0)
  BY <1>4, <1>5, <1>6, <1>7
<1>11. (TableOK /\ LostOK)'
  BY <1>1 DEF IInv, TableOK, LostOK, Cached, Holds
<1>12. PinSafety'
  <2>1. PointersValid'
    <3> SUFFICES ASSUME NEW q \in PageIDs, NEW g \in Frames, held'[<<q, g>>] > 0
                 PROVE  page_table[q] = g /\ frame_page[g] = q
      BY <1>1 DEF PointersValid
    <3>1. held[<<q, g>>] > 0
      BY <1>2, <1>8
    <3> QED BY <3>1 DEF IInv, PinSafety, PointersValid
  <2>2. PinsMatchPointers'
    <3> SUFFICES ASSUME NEW g \in Frames
                 PROVE  pin_count'[g] = IF frame_page[g] = NoPage
                                        THEN 0 ELSE held'[<<frame_page[g], g>>]
      BY <1>1 DEF PinsMatchPointers
    <3>1. CASE g = f
      BY <1>3, <1>7, <1>8, <3>1
    <3>2. CASE g # f /\ frame_page[g] = NoPage
      BY <1>7, <3>2 DEF IInv, PinSafety, PinsMatchPointers
    <3>3. CASE g # f /\ frame_page[g] # NoPage
      <4>1. frame_page[g] \in PageIDs
        BY <3>3 DEF IInv, TypeOK, TableType
      <4> QED BY <1>7, <1>8, <3>3, <4>1 DEF IInv, PinSafety, PinsMatchPointers
    <3> QED BY <3>1, <3>2, <3>3
  <2> QED BY <2>1, <2>2 DEF PinSafety
<1>13. Bounded'
  <2> SUFFICES ASSUME NEW q \in PageIDs, NEW g \in Frames
               PROVE  held'[<<q, g>>] <= HoldLimit
    BY DEF Bounded
  <2>1. held[<<q, g>>] <= HoldLimit
    BY DEF IInv, Bounded
  <2>2. CASE <<q, g>> = <<p, f>>
    BY <1>3, <1>8, <2>1, <2>2, PoolAssumption
  <2> QED BY <1>8, <2>1, <2>2
<1>14. \A i \in 1..Len(unpinned_frames) :
          /\ unpinned_frames[i] \in Frames /\ is_in_queue[unpinned_frames[i]]
          /\ Holds(unpinned_frames[i]) /\ unpinned_frames[i] \notin lost
  BY <1>6 DEF IInv, QueueOK
<1>15. Holds(f) /\ (f \in lost => is_in_queue[f])
  BY <1>3 DEF IInv, PlaceOK, Holds
<1>16. QueueOK' /\ PlaceOK'
  <2>1. CASE pin_count'[f] = 0 /\ ~is_in_queue[f]
    <3> DEFINE q == Append(unpinned_frames, f)
    <3>1. unpinned_frames' = q
      BY <1>4, <1>5, <1>7, <2>1
    <3>2. /\ Len(unpinned_frames) \in Nat /\ Len(q) = Len(unpinned_frames) + 1
          /\ \A i \in 1..Len(unpinned_frames) : q[i] = unpinned_frames[i]
          /\ q[Len(unpinned_frames) + 1] = f
      BY <1>6, PushFacts
    <3> HIDE DEF q
    <3>3. \A i \in 1..Len(q) : i = Len(q) \/ i \in 1..Len(unpinned_frames)
      BY <3>2
    <3>4. \A i \in 1..Len(unpinned_frames) : unpinned_frames[i] # f
      BY <1>14, <2>1
    <3>5. ASSUME NEW i \in 1..Len(q)
          PROVE  Holds(q[i]) /\ is_in_queue'[q[i]] /\ q[i] \notin lost
      <4>1. CASE i = Len(q)
        <5>1. q[i] = f /\ f \notin lost
          BY <1>15, <2>1, <3>2, <4>1
        <5>2. is_in_queue'[f]
          BY <1>10, <2>1
        <5> QED BY <1>15, <5>1, <5>2
      <4>2. CASE i # Len(q)
        <5>1. i \in 1..Len(unpinned_frames) /\ q[i] = unpinned_frames[i]
          BY <3>2, <3>3, <4>2
        <5>2. q[i] \in Frames \ {f} /\ is_in_queue[q[i]] /\ Holds(q[i]) /\ q[i] \notin lost
          BY <1>14, <3>4, <5>1
        <5> QED BY <1>10, <5>2
      <4> QED BY <4>1, <4>2
    <3>6. ASSUME NEW i \in 1..Len(q), NEW j \in 1..Len(q), q[i] = q[j]
          PROVE  i = j
      BY <3>2, <3>3, <3>4, <3>6 DEF IInv, QueueOK
    <3>7. QueueOK'
      BY <1>1, <1>2, <3>1, <3>5, <3>6 DEF QueueOK, Holds
    <3>8. \A g \in Frames : InQueue(g) \/ g = f => \E i \in 1..Len(q) : q[i] = g
      BY <3>2 DEF InQueue
    <3>9. PlaceOK'
      BY <1>1, <1>2, <1>7, <1>10, <1>15, <3>1, <3>8
         DEF IInv, PlaceOK, Holds, InQueue
    <3> QED BY <3>7, <3>9
  <2>2. CASE ~(pin_count'[f] = 0 /\ ~is_in_queue[f])
    <3>1. UNCHANGED <<unpinned_frames, is_in_queue>>
      BY <1>4, <1>5, <1>7, <2>2
    <3>2. QueueOK'
      BY <1>1, <3>1 DEF IInv, QueueOK, Holds
    <3>3. PlaceOK'
      BY <1>1, <1>7, <2>2, <3>1 DEF IInv, PlaceOK, Holds, InQueue
    <3> QED BY <3>2, <3>3
  <2> QED BY <2>1, <2>2
<1>17. (CallOK /\ SweepOK)'
  BY <1>1, <1>2 DEF IInv, CallOK, SweepOK, Cached
<1>18. SavedOK'
  <2>1. ASSUME NEW q \in unsaved'
        PROVE  page_table[q] # NoFrame /\ held'[<<q, page_table[q]>>] > 0
    <3>1. q \in unsaved
      BY <1>2, <2>1
    <3>2. q \in PageIDs /\ page_table[q] \in Frames /\ held[<<q, page_table[q]>>] > 0
          /\ page_table[q] # NoFrame
      BY <3>1 DEF IInv, SavedOK, Cached, TypeOK, UserType, TableType
    <3>3. q = p => held[<<p, f>>] # 1
      BY <1>2, <2>1
    <3> QED BY <1>3, <1>8, <3>2, <3>3
  <2> QED BY <1>1, <2>1 DEF IInv, SavedOK, Cached
<1>19. CleanMatchesDisk'
  <2> SUFFICES ASSUME NEW q \in PageIDs, page_table[q] # NoFrame,
                      ~is_dirty'[page_table[q]], q \notin unsaved'
               PROVE  frame_data[page_table[q]] = disk[q]
    BY <1>1 DEF CleanMatchesDisk
  <2>1. page_table[q] \in Frames
    BY DEF IInv, TypeOK, TableType
  <2>2. CASE q = p
    <3>1. ~is_dirty[f] /\ ~dirty
      BY <1>3, <1>9, <2>2
    <3> QED BY <1>2, <1>3, <2>2, <3>1 DEF IInv, CleanMatchesDisk
  <2>3. CASE q # p
    <3>1. q \notin unsaved
      BY <1>2, <2>3
    <3>2. ~is_dirty[page_table[q]]
      BY <1>3, <1>9, <2>1, <2>3
    <3> QED BY <3>1, <3>2 DEF IInv, CleanMatchesDisk
  <2> QED BY <2>2, <2>3
<1> QED
  BY <1>11, <1>12, <1>13, <1>16, <1>17, <1>18, <1>19 DEF IInv

\* A write goes to the frame of the page it is meant for, and to no other page's.
LEMMA WriteIInv ==
  ASSUME IInv, NEW p \in PageIDs, NEW f \in Frames, NEW d \in Data,
         WriteThrough(p, f, d), TypeOK'
  PROVE  IInv'
<1>1. UNCHANGED <<page_table, frame_page, pin_count, is_dirty, reference_bit, is_in_queue,
                  free_frames, unpinned_frames, pc, want, index, iter, max_iters, disk,
                  allocated, held, lost>>
  BY DEF WriteThrough, meta, call, file
<1>2. /\ pc = "idle" /\ held[<<p, f>>] > 0 /\ unsaved' = unsaved \cup {p}
      /\ frame_data' = [frame_data EXCEPT ![f] = d]
  BY DEF WriteThrough
<1>3. page_table[p] = f /\ f # NoFrame /\ \A q \in PageIDs \ {p} : page_table[q] # f
  BY <1>2, PointerFacts
<1>4. (TableOK /\ PinSafety /\ Bounded /\ LostOK)'
  BY <1>1 DEF IInv, TableOK, PinSafety, PointersValid, PinsMatchPointers, Bounded, LostOK,
              Cached, Holds
<1>5. QueueOK' /\ PlaceOK'
  BY <1>1 DEF IInv, QueueOK, PlaceOK, Holds, InQueue
<1>6. (CallOK /\ SweepOK)'
  BY <1>1, <1>2 DEF IInv, CallOK, SweepOK, Cached
<1>7. SavedOK'
  BY <1>1, <1>2, <1>3 DEF IInv, SavedOK, Cached
<1>8. CleanMatchesDisk'
  <2> SUFFICES ASSUME NEW q \in PageIDs, page_table[q] # NoFrame,
                      ~is_dirty[page_table[q]], q \notin unsaved'
               PROVE  frame_data'[page_table[q]] = disk[q]
    BY <1>1 DEF CleanMatchesDisk
  <2>1. q # p /\ q \notin unsaved
    BY <1>2
  <2>2. page_table[q] \in Frames \ {f}
    BY <1>3, <2>1 DEF IInv, TypeOK, TableType
  <2>3. frame_data'[page_table[q]] = frame_data[page_table[q]]
    BY <1>2, <2>2 DEF IInv, TypeOK, DataType
  <2> QED BY <2>1, <2>3 DEF IInv, CleanMatchesDisk
<1> QED BY <1>4, <1>5, <1>6, <1>7, <1>8 DEF IInv

\* Every step keeps the invariant, provided there are enough frames.
LEMMA NextIInv == Capacity /\ IInv /\ [Next]_vars => IInv'
<1> SUFFICES ASSUME Capacity, IInv, [Next]_vars PROVE IInv'
  OBVIOUS
<1>1. TypeOK'
  BY NextTypeOK DEF IInv
<1>2. CASE \E p \in PageIDs : Request(p)
  BY <1>1, <1>2, RequestIInv
<1>3. CASE Sweep
  BY <1>1, <1>3, HandIInv, NeverExhausted DEF Sweep
<1>4. CASE Fill
  BY <1>1, <1>4, FailIInv, EvictIInv, LoadIInv DEF Fill
<1>5. CASE \E p \in PageIDs, f \in Frames : Use(p, f)
  BY <1>1, <1>5, ReleaseIInv, WriteIInv DEF Use
<1>6. CASE Shutdown
  <2>1. \A p \in PageIDs \ allocated : p \notin DirtyPages
    BY DEF DirtyPages, IInv, SavedOK, Cached
  <2>2. \A p \in PageIDs \ allocated : disk'[p] = disk[p]
    BY <1>6, <2>1 DEF Shutdown
  <2>3. \A p \in PageIDs \ allocated : disk'[p] = Zero
    BY <2>2 DEF IInv, SavedOK
  <2> QED BY <1>1, <1>6, <2>3, RestartIInv DEF Shutdown
<1>7. CASE Crash
  <2>1. \A p \in PageIDs \ allocated : disk'[p] = Zero
    BY <1>7 DEF Crash, file, IInv, SavedOK
  <2> QED BY <1>1, <1>7, <2>1, RestartIInv DEF Crash, file
<1>8. CASE UNCHANGED vars
  <2>1. UNCHANGED <<page_table, frame_page, pin_count, is_dirty, reference_bit, is_in_queue,
                    frame_data, free_frames, unpinned_frames, pc, want, index, iter,
                    max_iters, disk, allocated, held, unsaved, lost>>
    BY <1>8 DEF vars, meta, call, file, users
  <2>2. (TableOK /\ PinSafety /\ Bounded /\ LostOK /\ SavedOK /\ CleanMatchesDisk)'
    BY <2>1 DEF IInv, TableOK, PinSafety, PointersValid, PinsMatchPointers, Bounded, LostOK,
                SavedOK, CleanMatchesDisk, Cached, Holds
  <2>3. QueueOK' /\ PlaceOK'
    BY <2>1 DEF IInv, QueueOK, PlaceOK, Holds, InQueue
  <2>4. (CallOK /\ SweepOK)'
    BY <2>1 DEF IInv, CallOK, SweepOK, Cached, Holds
  <2> QED BY <1>1, <2>2, <2>3, <2>4 DEF IInv
<1> QED
  BY <1>2, <1>3, <1>4, <1>5, <1>6, <1>7, <1>8 DEF Next

-----------------------------------------------------------------------------
\* The theorems.

\* The inductive invariant holds in every reachable state.
THEOREM Invariance == ASSUME Capacity PROVE Spec => []IInv
<1>1. Init => IInv
  BY InitIInv
<1>2. IInv /\ [Next]_vars => IInv'
  BY NextIInv
<1> QED
  BY <1>1, <1>2, PTL DEF Spec

\* A page somebody holds a pointer to stays in its frame, and pin counts are
\* exact (RequestPage, ReleasePage, FindPageToEvict), if there are enough frames.
THEOREM PinningIsSafe == ASSUME Capacity PROVE Spec => []PinSafety
<1>1. IInv => PinSafety
  BY DEF IInv
<1> QED
  BY <1>1, Invariance, PTL

\* A clean page that nobody is modifying is what the file has, so the frame can
\* be reused without a write (EvictPage, ReleasePage, RequestPage).
THEOREM NoUpdateForgotten == ASSUME Capacity PROVE Spec => []CleanMatchesDisk
<1>1. IInv => CleanMatchesDisk
  BY DEF IInv
<1> QED
  BY <1>1, Invariance, PTL

\* Every frame nobody uses can be found again: on the free list, once in the
\* queue, with the call that works on it, or taken by a fault.
THEOREM FramesReclaimable == ASSUME Capacity PROVE Spec => []Reclaimable
<1>1. IInv => Reclaimable
  <2> SUFFICES ASSUME IInv, NEW f \in Frames
               PROVE  /\ Cardinality(Positions(f)) <= 1
                      /\ pin_count[f] = 0 =>
                           \/ f \in free_frames /\ frame_page[f] = NoPage /\ Positions(f) = {}
                           \/ f \notin free_frames /\ Positions(f) # {}
                           \/ pc \in {"evict", "load"} /\ f = index /\ Positions(f) = {}
                           \/ f \in lost
    BY DEF Reclaimable
  <2>1. \A i, j \in Positions(f) : i = j
    BY DEF Positions, IInv, QueueOK
  <2>2. Cardinality(Positions(f)) <= 1
    <3>1. CASE Positions(f) = {}
      BY <3>1, FS_EmptySet
    <3>2. CASE Positions(f) # {}
      <4>1. PICK i \in Positions(f) : Positions(f) = {i}
        BY <2>1, <3>2
      <4> QED BY <4>1, FS_Singleton
    <3> QED BY <3>1, <3>2
  <2>3. Positions(f) # {} <=> InQueue(f)
    BY DEF Positions, InQueue
  <2>4. InQueue(f) => Holds(f) /\ (pc = "evict" => f # index)
    BY DEF InQueue, IInv, QueueOK
  <2>5. ASSUME pin_count[f] = 0
        PROVE  \/ f \in free_frames /\ frame_page[f] = NoPage /\ Positions(f) = {}
               \/ f \notin free_frames /\ Positions(f) # {}
               \/ pc \in {"evict", "load"} /\ f = index /\ Positions(f) = {}
               \/ f \in lost
    BY <2>3, <2>4, <2>5 DEF IInv, PlaceOK, Holds
  <2> QED BY <2>2, <2>5
<1> QED
  BY <1>1, Invariance, PTL

\* With enough frames the sweep always ends with a victim: the callers never see
\* AllPagesPinned (FindPageToEvict, RequestPage).
THEOREM RequestsAreServed == ASSUME Capacity PROVE Spec => ServedWhileRoom
<1>1. IInv /\ [Next]_vars => [SweepExhausted => pc' # "idle"]_vars
  BY NeverExhausted
<1> QED
  BY <1>1, Invariance, PTL DEF Spec, ServedWhileRoom

-----------------------------------------------------------------------------
(***************************************************************************)
(* The buffer pool implements the store of pages, for any number of frames *)
(* and pages: each step of BufferPool is a step of PageStore, or leaves    *)
(* contents, file, holders and allocated pages alone.                      *)
(***************************************************************************)

\* What the mapping gives for one page.
LEMMA Mapping ==
  ASSUME NEW p \in PageIDs
  PROVE  /\ ~Cached(p) => Content[p] = disk[p] /\ Holders[p] = 0
         /\ Cached(p) => /\ Content[p] = frame_data[page_table[p]]
                         /\ Holders[p] = pin_count[page_table[p]]
BY DEF Content, Holders, Cached

\* The variables the mapping reads; a step that leaves them alone is a stutter.
Read == <<page_table, pin_count, frame_data, disk, allocated>>

LEMMA Stutter == UNCHANGED Read => UNCHANGED Store!vars
BY DEF Read, Store!vars, Content, Holders

LEMMA InitRefines == Init => Store!Init
BY DEF Init, Store!Init, Content, Holders, NoPages

LEMMA HitRefines ==
  ASSUME IInv, NEW p \in PageIDs, RequestHit(p)
  PROVE  Store!Acquire(p)
<1> DEFINE f == page_table[p]
<1>1. UNCHANGED <<page_table, frame_data, disk, allocated>>
  BY DEF RequestHit, file
<1>2. f \in Frames /\ f # NoFrame /\ p \in allocated /\ held[<<p, f>>] < HoldLimit
  BY DEF RequestHit, IInv, TypeOK, TableType, SavedOK, Cached
<1>3. frame_page[f] = p /\ p # NoPage
  BY <1>2, PoolAssumption DEF IInv, TableOK, Cached
<1>4. pin_count[f] = held[<<p, f>>] /\ held[<<p, f>>] \in Nat
  BY <1>2, <1>3 DEF IInv, PinSafety, PinsMatchPointers, TypeOK, UserType
<1>5. Incremented(pin_count[f]) = pin_count[f] + 1
  BY <1>2, <1>4, PoolAssumption DEF Incremented
<1>6. \A q \in PageIDs \ {p} : page_table[q] # f
  BY <1>2, <1>3 DEF IInv, TableOK, Cached
<1>7. /\ pin_count'[f] = pin_count[f] + 1
      /\ \A g \in Frames \ {f} : pin_count'[g] = pin_count[g]
  BY <1>2, <1>5 DEF RequestHit, IInv, TypeOK, MetaType
<1> HIDE DEF f
<1>8. Holders' = [Holders EXCEPT ![p] = Holders[p] + 1]
  <2> SUFFICES ASSUME NEW q \in PageIDs
               PROVE  (IF page_table[q] = NoFrame THEN 0 ELSE pin_count'[page_table[q]]) =
                      (IF q = p THEN Holders[q] + 1 ELSE Holders[q])
    BY <1>1 DEF Holders
  <2>1. CASE q = p
    BY <1>2, <1>7, <2>1 DEF f, Holders
  <2>2. CASE q # p /\ page_table[q] = NoFrame
    BY <2>2 DEF Holders
  <2>3. CASE q # p /\ page_table[q] # NoFrame
    <3>1. page_table[q] \in Frames \ {f}
      BY <1>6, <2>3 DEF IInv, TypeOK, TableType
    <3> QED BY <1>7, <2>3, <3>1 DEF Holders
  <2> QED BY <2>1, <2>2, <2>3
<1>9. UNCHANGED Content
  BY <1>1 DEF Content
<1> QED BY <1>1, <1>2, <1>8, <1>9 DEF Store!Acquire

LEMMA AllocateRefines ==
  ASSUME IInv, NEW p \in PageIDs, AllocateNewPage(p)
  PROVE  Store!Allocate(p)
<1>1. UNCHANGED <<page_table, pin_count, frame_data>>
  BY DEF AllocateNewPage, Miss, meta
<1>2. UNCHANGED disk
  <2>1. disk[p] = Zero /\ disk' = [disk EXCEPT ![p] = Zero] /\ disk \in [PageIDs -> Data]
    BY DEF AllocateNewPage, IInv, SavedOK, TypeOK, DataType
  <2> QED BY <2>1
<1> QED BY <1>1, <1>2 DEF AllocateNewPage, Store!Allocate, Content, Holders

\* Evicting is the moment a page may become durable.
LEMMA EvictRefines ==
  ASSUME IInv, EvictPage
  PROVE  Store!Persist(frame_page[index])
<1> DEFINE v == index
           e == frame_page[v]
<1>1. UNCHANGED <<frame_data, allocated, held, unsaved>>
  BY DEF EvictPage, users
<1>2. pc = "evict" /\ v \in Frames /\ pin_count[v] = 0 /\ e # NoPage
  BY DEF EvictPage, IInv, TypeOK, CallType, CallOK, Holds
<1>3. e \in PageIDs /\ page_table[e] = v /\ v # NoFrame
  BY <1>2, PoolAssumption DEF IInv, TypeOK, TableType, TableOK, Holds
<1>4. held[<<e, v>>] = 0 /\ e \notin unsaved
  BY <1>2, <1>3 DEF IInv, PinSafety, PinsMatchPointers, SavedOK
<1>5. \A p \in PageIDs \ {e} : page_table[p] # v
  BY <1>3 DEF IInv, TableOK, Cached
<1>6. Content[e] = frame_data[v] /\ Holders[e] = 0
  BY <1>2, <1>3 DEF Content, Holders
<1>7. disk' = [disk EXCEPT ![e] = frame_data[v]]
  <2>1. CASE is_dirty[v]
    BY <2>1 DEF EvictPage, WrittenBack
  <2>2. CASE ~is_dirty[v]
    <3>1. frame_data[v] = disk[e]
      BY <1>3, <1>4, <2>2 DEF IInv, CleanMatchesDisk
    <3>2. disk' = disk /\ disk \in [PageIDs -> Data]
      BY <2>2 DEF EvictPage, WrittenBack, IInv, TypeOK, DataType
    <3> QED BY <3>1, <3>2
  <2> QED BY <2>1, <2>2
<1>8. /\ page_table'[e] = NoFrame
      /\ \A p \in PageIDs \ {e} : page_table'[p] = page_table[p] /\ disk'[p] = disk[p]
      /\ disk'[e] = frame_data[v]
  BY <1>3, <1>7 DEF EvictPage, IInv, TypeOK, TableType, DataType
<1>9. \A f \in Frames \ {v} : pin_count'[f] = pin_count[f]
  BY <1>2 DEF EvictPage, IInv, TypeOK, MetaType
<1> HIDE DEF v, e
<1>10. UNCHANGED Content
  <2> SUFFICES ASSUME NEW p \in PageIDs
               PROVE  (IF page_table'[p] = NoFrame THEN disk'[p]
                       ELSE frame_data[page_table'[p]]) = Content[p]
    BY <1>1 DEF Content
  <2> QED BY <1>6, <1>8 DEF Content
<1>11. UNCHANGED Holders
  <2> SUFFICES ASSUME NEW p \in PageIDs
               PROVE  (IF page_table'[p] = NoFrame THEN 0
                       ELSE pin_count'[page_table'[p]]) = Holders[p]
    BY DEF Holders
  <2>1. CASE p = e
    BY <1>6, <1>8, <2>1
  <2>2. CASE p # e
    <3>1. page_table[p] # NoFrame => page_table[p] \in Frames \ {v}
      BY <1>5, <2>2 DEF IInv, TypeOK, TableType
    <3> QED BY <1>8, <1>9, <2>2, <3>1 DEF Holders
  <2> QED BY <2>1, <2>2
<1>12. disk' = [disk EXCEPT ![e] = Content[e]]
  BY <1>6, <1>7
<1> QED BY <1>1, <1>6, <1>10, <1>11, <1>12 DEF Store!Persist, v, e

LEMMA LoadRefines ==
  ASSUME IInv, LoadPage
  PROVE  Store!Acquire(want)
<1> DEFINE v == index
           w == want
<1>1. UNCHANGED <<disk, allocated>>
  BY DEF LoadPage, file
<1>2. /\ v \in Frames /\ w \in PageIDs /\ w \in allocated /\ page_table[w] = NoFrame
      /\ frame_page[v] = NoPage /\ v # NoFrame
  BY PoolAssumption DEF LoadPage, IInv, TypeOK, CallType, CallOK, Holds, Cached
<1>3. \A p \in PageIDs : page_table[p] # v
  BY <1>2, PoolAssumption DEF IInv, TableOK, Cached
<1>4. /\ page_table'[w] = v
      /\ \A p \in PageIDs \ {w} : page_table'[p] = page_table[p]
  BY <1>2 DEF LoadPage, IInv, TypeOK, TableType
<1>5. /\ pin_count'[v] = 1 /\ frame_data'[v] = disk[w]
      /\ \A f \in Frames \ {v} : /\ pin_count'[f] = pin_count[f]
                                 /\ frame_data'[f] = frame_data[f]
  BY <1>2 DEF LoadPage, IInv, TypeOK, MetaType, DataType
<1> HIDE DEF v, w
<1>6. \A p \in PageIDs \ {w} : page_table[p] # NoFrame => page_table[p] \in Frames \ {v}
  BY <1>3 DEF IInv, TypeOK, TableType
<1>7. UNCHANGED Content
  <2> SUFFICES ASSUME NEW p \in PageIDs
               PROVE  (IF page_table'[p] = NoFrame THEN disk[p]
                       ELSE frame_data'[page_table'[p]]) = Content[p]
    BY <1>1 DEF Content
  <2>1. CASE p = w
    BY <1>2, <1>4, <1>5, <2>1 DEF Content
  <2>2. CASE p # w
    BY <1>4, <1>5, <1>6, <2>2 DEF Content
  <2> QED BY <2>1, <2>2
<1>8. Holders' = [Holders EXCEPT ![w] = Holders[w] + 1]
  <2> SUFFICES ASSUME NEW p \in PageIDs
               PROVE  (IF page_table'[p] = NoFrame THEN 0 ELSE pin_count'[page_table'[p]]) =
                      (IF p = w THEN Holders[p] + 1 ELSE Holders[p])
    BY DEF Holders
  <2>1. CASE p = w
    BY <1>2, <1>4, <1>5, <2>1 DEF Holders
  <2>2. CASE p # w
    BY <1>4, <1>5, <1>6, <2>2 DEF Holders
  <2> QED BY <2>1, <2>2
<1> QED BY <1>1, <1>2, <1>7, <1>8 DEF Store!Acquire, w

LEMMA ReleaseRefines ==
  ASSUME IInv, NEW p \in PageIDs, NEW f \in Frames, NEW dirty \in BOOLEAN,
         ReleasePage(p, f, dirty)
  PROVE  Store!Release(p)
<1>1. UNCHANGED <<page_table, frame_data, disk, allocated>> /\ held[<<p, f>>] > 0
  BY DEF ReleasePage, file
<1>2. /\ page_table[p] = f /\ f # NoFrame
      /\ pin_count[f] = held[<<p, f>>] /\ held[<<p, f>>] \in Nat
      /\ \A q \in PageIDs \ {p} : page_table[q] # f
  BY <1>1, PointerFacts
<1>3. pin_count' = [pin_count EXCEPT ![f] = Decremented(pin_count[f])]
  BY <1>2 DEF ReleasePage
<1>4. /\ pin_count'[f] = pin_count[f] - 1
      /\ \A g \in Frames \ {f} : pin_count'[g] = pin_count[g]
  BY <1>1, <1>2, <1>3 DEF Decremented, IInv, TypeOK, MetaType
<1>5. Holders' = [Holders EXCEPT ![p] = Holders[p] - 1]
  <2> SUFFICES ASSUME NEW q \in PageIDs
               PROVE  (IF page_table[q] = NoFrame THEN 0 ELSE pin_count'[page_table[q]]) =
                      (IF q = p THEN Holders[q] - 1 ELSE Holders[q])
    BY <1>1 DEF Holders
  <2>1. CASE q = p
    BY <1>2, <1>4, <2>1 DEF Holders
  <2>2. CASE q # p
    <3>1. page_table[q] # NoFrame => page_table[q] \in Frames \ {f}
      BY <1>2, <2>2 DEF IInv, TypeOK, TableType
    <3> QED BY <1>4, <2>2, <3>1 DEF Holders
  <2> QED BY <2>1, <2>2
<1>6. Holders[p] > 0
  BY <1>1, <1>2 DEF Holders
<1>7. UNCHANGED Content
  BY <1>1 DEF Content
<1> QED BY <1>1, <1>5, <1>6, <1>7 DEF Store!Release

LEMMA WriteRefines ==
  ASSUME IInv, NEW p \in PageIDs, NEW f \in Frames, NEW d \in Data,
         WriteThrough(p, f, d)
  PROVE  Store!Modify(p, d)
<1>1. /\ UNCHANGED <<page_table, pin_count, disk, allocated>> /\ held[<<p, f>>] > 0
      /\ frame_data' = [frame_data EXCEPT ![f] = d]
  BY DEF WriteThrough, file, meta
<1>2. /\ page_table[p] = f /\ f # NoFrame /\ pin_count[f] = held[<<p, f>>]
      /\ \A q \in PageIDs \ {p} : page_table[q] # f
  BY <1>1, PointerFacts
<1>3. Content' = [Content EXCEPT ![p] = d]
  <2> SUFFICES ASSUME NEW q \in PageIDs
               PROVE  (IF page_table[q] = NoFrame THEN disk[q]
                       ELSE frame_data'[page_table[q]]) =
                      (IF q = p THEN d ELSE Content[q])
    BY <1>1 DEF Content
  <2>1. CASE q = p
    BY <1>1, <1>2, <2>1 DEF IInv, TypeOK, DataType
  <2>2. CASE q # p
    <3>1. page_table[q] # NoFrame => page_table[q] \in Frames \ {f}
      BY <1>2, <2>2 DEF IInv, TypeOK, TableType
    <3>2. \A g \in Frames \ {f} : frame_data'[g] = frame_data[g]
      BY <1>1 DEF IInv, TypeOK, DataType
    <3> QED BY <2>2, <3>1, <3>2 DEF Content
  <2> QED BY <2>1, <2>2
<1>4. Holders[p] > 0 /\ UNCHANGED Holders
  BY <1>1, <1>2 DEF Holders
<1> QED BY <1>1, <1>3, <1>4 DEF Store!Modify

\* Whatever was not dirty is already in the file.
LEMMA ShutdownRefines ==
  ASSUME IInv, Shutdown
  PROVE  Store!Shutdown
<1>1. \A x \in PageIDs \X Frames : held[x] = 0
  BY DEF Shutdown
<1>2. PICK flushed \in SUBSET DirtyPages :
        /\ flushed = DirtyPages \/ MaxFaults > 0
        /\ disk' = [p \in PageIDs |-> IF p \in flushed THEN frame_data[page_table[p]]
                                      ELSE disk[p]]
  BY DEF Shutdown
<1>3. page_table' = [p \in PageIDs |-> NoFrame] /\ UNCHANGED allocated
  BY DEF Shutdown, Restart, NoPages
<1>4. Content' = disk'
  BY <1>2, <1>3 DEF Content
<1>5. \A p \in PageIDs : Holders[p] = 0
  <2> SUFFICES ASSUME NEW p \in PageIDs, page_table[p] # NoFrame
               PROVE  pin_count[page_table[p]] = 0
    BY DEF Holders
  <2>1. page_table[p] \in Frames /\ frame_page[page_table[p]] = p /\ p # NoPage
    BY PoolAssumption DEF IInv, TypeOK, TableType, TableOK, Cached
  <2>2. held[<<p, page_table[p]>>] = 0
    BY <1>1, <2>1
  <2> QED BY <2>1, <2>2 DEF IInv, PinSafety, PinsMatchPointers
<1>6. UNCHANGED Holders
  BY <1>3, <1>5 DEF Holders
<1>7. \A p \in PageIDs \ DirtyPages : Content[p] = disk[p]
  <2> SUFFICES ASSUME NEW p \in PageIDs \ DirtyPages, page_table[p] # NoFrame
               PROVE  frame_data[page_table[p]] = disk[p]
    BY DEF Content
  <2>1. page_table[p] \in Frames
    BY DEF IInv, TypeOK, TableType
  <2>2. p \notin unsaved
    <3>1. held[<<p, page_table[p]>>] = 0
      BY <1>1, <2>1
    <3> QED BY <3>1 DEF IInv, SavedOK
  <2>3. ~is_dirty[page_table[p]]
    BY DEF DirtyPages
  <2> QED BY <2>2, <2>3 DEF IInv, CleanMatchesDisk
<1>8. \A p \in DirtyPages : p \in PageIDs /\ Content[p] = frame_data[page_table[p]]
  BY DEF DirtyPages, Content
<1>9. \E written \in SUBSET PageIDs :
        /\ written = PageIDs \/ MaxFaults > 0
        /\ Content' = [p \in PageIDs |-> IF p \in written THEN Content[p] ELSE disk[p]]
  <2>1. CASE flushed = DirtyPages
    <3>1. Content' = [p \in PageIDs |-> IF p \in PageIDs THEN Content[p] ELSE disk[p]]
      <4>1. \A p \in PageIDs : (IF p \in flushed THEN frame_data[page_table[p]] ELSE disk[p])
                               = Content[p]
        BY <1>7, <1>8, <2>1
      <4> QED BY <1>2, <1>4, <4>1
    <3> QED BY <3>1
  <2>2. CASE flushed # DirtyPages
    <3>1. flushed \in SUBSET PageIDs
      BY DEF DirtyPages
    <3>2. Content' = [p \in PageIDs |-> IF p \in flushed THEN Content[p] ELSE disk[p]]
      BY <1>2, <1>4, <1>8
    <3> QED BY <1>2, <2>2, <3>1, <3>2
  <2> QED BY <2>1, <2>2
<1> QED BY <1>3, <1>4, <1>5, <1>6, <1>9 DEF Store!Shutdown

LEMMA CrashRefines ==
  ASSUME IInv, Crash
  PROVE  Store!Crash
<1>1. page_table' = [p \in PageIDs |-> NoFrame] /\ UNCHANGED <<disk, allocated>>
  BY DEF Crash, Restart, NoPages, file
<1>2. Content' = disk /\ disk \in [PageIDs -> Data]
  BY <1>1 DEF Content, IInv, TypeOK, DataType
<1>3. Holders' = [p \in PageIDs |-> 0]
  BY <1>1 DEF Holders
<1> QED BY <1>1, <1>2, <1>3 DEF Store!Crash

\* Every step of the pool is a step of the store, or a stutter.
LEMMA StepRefines == IInv /\ [Next]_vars => [Store!Next]_(Store!vars)
<1> SUFFICES ASSUME IInv, [Next]_vars PROVE [Store!Next]_(Store!vars)
  OBVIOUS
<1>1. ASSUME NEW p \in PageIDs, Request(p) PROVE [Store!Next]_(Store!vars)
  <2>1. CASE RequestHit(p)
    BY <2>1, HitRefines DEF Store!Next
  <2>2. CASE RequestMiss(p)
    BY <2>2, Stutter DEF RequestMiss, Miss, Read, meta, file
  <2>3. CASE AllocateNewPage(p)
    BY <2>3, AllocateRefines DEF Store!Next
  <2> QED BY <1>1, <2>1, <2>2, <2>3 DEF Request
<1>2. CASE Sweep
  BY <1>2, Stutter DEF Sweep, SkipPinned, SecondChance, TakeVictim, SweepExhausted, Read,
                       meta, file
<1>3. CASE EvictWriteFails \/ LoadFails
  BY <1>3, Stutter DEF EvictWriteFails, LoadFails, Read, meta, file
<1>4. CASE EvictPage
  <2>1. frame_page[index] \in PageIDs
    BY <1>4 DEF EvictPage, IInv, TypeOK, TableType, CallType, CallOK, Holds
  <2> QED BY <1>4, <2>1, EvictRefines DEF Store!Next
<1>5. CASE LoadPage
  <2>1. want \in PageIDs
    BY <1>5 DEF LoadPage, IInv, TypeOK, CallType
  <2> QED BY <1>5, <2>1, LoadRefines DEF Store!Next
<1>6. ASSUME NEW p \in PageIDs, NEW f \in Frames, Use(p, f)
      PROVE  [Store!Next]_(Store!vars)
  BY <1>6, ReleaseRefines, WriteRefines DEF Use, Store!Next
<1>7. CASE Shutdown
  BY <1>7, ShutdownRefines DEF Store!Next
<1>8. CASE Crash
  BY <1>8, CrashRefines DEF Store!Next
<1>9. CASE UNCHANGED vars
  BY <1>9, Stutter DEF vars, Read, meta, file
<1> QED
  BY <1>1, <1>2, <1>3, <1>4, <1>5, <1>6, <1>7, <1>8, <1>9 DEF Next, Fill

\* The buffer pool is a store of pages (PageStore), if there are enough frames:
\* no eviction, load or release changes what a page contains, a page becomes
\* durable only while nobody holds it, and a shutdown makes every page durable.
THEOREM ImplementsStore == ASSUME Capacity PROVE Spec => StoreSpec
<1>1. Init => Store!Init
  BY InitRefines
<1>2. IInv /\ [Next]_vars => [Store!Next]_(Store!vars)
  BY StepRefines
<1> QED
  BY <1>1, <1>2, Invariance, PTL DEF Spec, StoreSpec, Store!Spec

-----------------------------------------------------------------------------
(***************************************************************************)
(* What is proved of the clock queue whatever the callers pin.             *)
(*                                                                         *)
(* IInv needs Capacity: without it a frame in use may be evicted, and      *)
(* pointers and pin counts mean nothing.  The queue does not depend on     *)
(* them.  QInv is what it depends on: the page table leads to frames that  *)
(* hold a page, free frames hold none, and the hand ends its walk with an  *)
(* empty queue unless it finds a victim.                                   *)
(***************************************************************************)

\* ReleasePage finds a frame that holds a page.
TableLeads == \A p \in PageIDs : Cached(p) => frame_page[page_table[p]] = p

\* The queue has each frame once, flagged, with a page, and never the one that is
\* being evicted or loaded.
QueueKept ==
  /\ \A i \in 1..Len(unpinned_frames) :
       /\ Holds(unpinned_frames[i])
       /\ is_in_queue[unpinned_frames[i]]
       /\ pc \in {"evict", "load"} => unpinned_frames[i] # index
  /\ \A i, j \in 1..Len(unpinned_frames) :
       unpinned_frames[i] = unpinned_frames[j] => i = j

\* A frame is free or in use, not both.
FreeKept == \A f \in free_frames : ~Holds(f)

\* Where index stands at each point of a call.
IndexKept ==
  /\ pc = "idle" => index = NoFrame
  /\ pc # "sweep" => iter = 0
  /\ pc = "sweep" /\ index # NoFrame => Holds(index)
  /\ pc = "evict" => Holds(index)
  /\ pc = "load" => ~Holds(index) /\ index \notin free_frames

\* The frames the hand has passed, and put back, are at the end of the queue, unpinned
\* and with their bit cleared: half of max_iters steps take it past all others.
HandKept ==
  pc = "sweep" =>
    \E n \in Nat :
      /\ max_iters = 2 * n /\ iter <= n
      /\ Len(unpinned_frames) <= n /\ Len(unpinned_frames) >= n - iter
      /\ \A j \in 1..Len(unpinned_frames) :
           j > n - iter => /\ reference_bit[unpinned_frames[j]] = 0
                           /\ pin_count[unpinned_frames[j]] = 0

QInv == TypeOK /\ TableLeads /\ QueueKept /\ FreeKept /\ IndexKept /\ HandKept

-----------------------------------------------------------------------------
\* A pool that was just constructed has an empty queue.
LEMMA FreshQueue ==
  ASSUME page_table = NoPages, frame_page = NoMeta(NoPage), unpinned_frames = <<>>,
         free_frames = Frames, pc = "idle", index = NoFrame, iter = 0
  PROVE  TableLeads /\ QueueKept /\ FreeKept /\ IndexKept /\ HandKept
<1> USE PoolAssumption
<1>1. TableLeads /\ FreeKept /\ IndexKept
  BY DEF TableLeads, FreeKept, IndexKept, NoPages, NoMeta, Cached, Holds
<1>2. QueueKept /\ HandKept
  BY DEF QueueKept, HandKept
<1> QED BY <1>1, <1>2

LEMMA InitQInv == Init => QInv
  BY InitTypeOK, FreshQueue DEF QInv, Init

\* What the queue depends on.
Queued == <<page_table, frame_page, is_in_queue, free_frames, unpinned_frames>>

\* Steps between two calls that leave the queue alone: hits and writes.
LEMMA OutsideQInv ==
  ASSUME QInv, TypeOK', UNCHANGED <<Queued, call>>, pc = "idle"
  PROVE  QInv'
<1>1. (TableLeads /\ QueueKept /\ FreeKept)'
  BY DEF QInv, Queued, call, TableLeads, QueueKept, FreeKept, Cached, Holds
<1>2. (IndexKept /\ HandKept)'
  BY DEF QInv, Queued, call, IndexKept, HandKept, Holds
<1> QED BY <1>1, <1>2 DEF QInv

\* A miss takes a free frame, which is in no queue, or starts a sweep with all of the
\* queue before the hand.
LEMMA MissQInv ==
  ASSUME QInv, TypeOK', NEW p \in PageIDs, pc = "idle", Miss(p)
  PROVE  QInv'
<1>1. UNCHANGED <<page_table, frame_page, is_in_queue, unpinned_frames>>
  BY DEF Miss, meta
<1>2. index = NoFrame /\ iter = 0
  BY DEF QInv, IndexKept
<1>3. Len(unpinned_frames) \in Nat
  BY DEF QInv, TypeOK, ListType
<1>4. TableLeads'
  BY <1>1 DEF QInv, TableLeads, Cached
<1>5. CASE free_frames # {}
  <2>1. PICK f \in free_frames : free_frames' = free_frames \ {f} /\ index' = f
    BY <1>5 DEF Miss
  <2>2. pc' = "load" /\ iter' = 0
    BY <1>2, <1>5 DEF Miss
  <2>3. ~Holds(f)
    BY DEF QInv, FreeKept
  <2>4. QueueKept'
    BY <1>1, <2>1, <2>3 DEF QInv, QueueKept, Holds
  <2>5. (FreeKept /\ IndexKept /\ HandKept)'
    BY <1>1, <2>1, <2>2, <2>3 DEF QInv, FreeKept, IndexKept, HandKept, Holds
  <2> QED BY <1>4, <2>4, <2>5 DEF QInv
<1>6. CASE free_frames = {}
  <2>1. /\ pc' = "sweep" /\ max_iters' = 2 * Len(unpinned_frames)
        /\ UNCHANGED <<free_frames, index, iter>>
    BY <1>6 DEF Miss, MAX_ITERS
  <2>2. (QueueKept /\ FreeKept /\ IndexKept)'
    BY <1>1, <1>2, <2>1 DEF QInv, QueueKept, FreeKept, IndexKept, Holds
  <2>3. HandKept'
    <3> DEFINE n == Len(unpinned_frames)
    <3>1. /\ max_iters' = 2 * n /\ iter' <= n
          /\ Len(unpinned_frames') <= n /\ Len(unpinned_frames') >= n - iter'
      BY <1>1, <1>2, <1>3, <2>1
    <3>2. \A j \in 1..Len(unpinned_frames') : ~(j > n - iter')
      BY <1>1, <1>2, <1>3, <2>1
    <3> QED BY <1>3, <3>1, <3>2 DEF HandKept
  <2> QED BY <1>4, <2>2, <2>3 DEF QInv
<1> QED BY <1>5, <1>6

\* The hand moves by one frame.  It leaves the frame behind, or puts it back with its bit
\* cleared, or hands it out as the victim.
LEMMA HandQInv ==
  ASSUME QInv, SkipPinned \/ SecondChance \/ TakeVictim, TypeOK'
  PROVE  QInv'
<1> DEFINE h == unpinned_frames[1]
           rest == Tail(unpinned_frames)
<1>1. UNCHANGED <<page_table, frame_page, pin_count, free_frames>>
  BY DEF SkipPinned, SecondChance, TakeVictim, meta
<1>2. /\ pc = "sweep" /\ iter < max_iters
      /\ unpinned_frames \in Seq(Frames) /\ unpinned_frames # <<>>
  BY DEF SkipPinned, SecondChance, TakeVictim, Sweeping, QInv, TypeOK, ListType
<1>3. /\ Len(unpinned_frames) \in Nat /\ Len(unpinned_frames) > 0
      /\ h \in Frames /\ Head(unpinned_frames) = h
      /\ rest \in Seq(Frames) /\ Len(rest) = Len(unpinned_frames) - 1
      /\ \A i \in 1..(Len(unpinned_frames) - 1) : rest[i] = unpinned_frames[i + 1]
  BY <1>2, PopFacts
<1>4. Holds(h) /\ is_in_queue[h] /\ 1 \in 1..Len(unpinned_frames)
  BY <1>3 DEF QInv, QueueKept
<1>5. \A i \in 1..Len(rest) : /\ rest[i] # h /\ rest[i] \in Frames
                              /\ Holds(rest[i]) /\ is_in_queue[rest[i]]
  BY <1>2, <1>3 DEF QInv, QueueKept
<1>6. \A i, j \in 1..Len(rest) : rest[i] = rest[j] => i = j
  BY <1>3 DEF QInv, QueueKept
<1>7. (TableLeads /\ FreeKept)'
  BY <1>1 DEF QInv, TableLeads, FreeKept, Cached, Holds
<1>8. PICK n \in Nat :
        /\ max_iters = 2 * n /\ iter <= n
        /\ Len(unpinned_frames) <= n /\ Len(unpinned_frames) >= n - iter
        /\ \A j \in 1..Len(unpinned_frames) :
             j > n - iter => /\ reference_bit[unpinned_frames[j]] = 0
                             /\ pin_count[unpinned_frames[j]] = 0
  BY <1>2 DEF QInv, HandKept
<1>9. iter \in Nat
  BY DEF QInv, TypeOK, CallType
<1>10. CASE SkipPinned
  <2>1. /\ pin_count[h] > 0 /\ pc' = "sweep" /\ index' = h /\ unpinned_frames' = rest
        /\ is_in_queue' = [is_in_queue EXCEPT ![h] = FALSE]
        /\ iter' = iter + 1 /\ UNCHANGED <<reference_bit, max_iters>>
    BY <1>2, <1>3, <1>10 DEF SkipPinned
  <2>2. \A g \in Frames \ {h} : is_in_queue'[g] = is_in_queue[g]
    BY <1>3, <2>1 DEF QInv, TypeOK, MetaType
  <2> HIDE DEF h, rest
  <2>3. (QueueKept /\ IndexKept)'
    <3>1. \A i \in 1..Len(rest) : Holds(rest[i]) /\ is_in_queue'[rest[i]]
      BY <1>5, <2>2
    <3>2. QueueKept'
      BY <1>1, <1>6, <2>1, <3>1 DEF QueueKept, Holds
    <3>3. IndexKept'
      BY <1>1, <1>4, <2>1 DEF IndexKept, Holds
    <3> QED BY <3>2, <3>3
  <2>4. n - iter > 0
    BY <1>3, <1>4, <1>8, <1>9, <2>1 DEF h
  <2>5. ASSUME NEW j \in 1..Len(rest), j > n - (iter + 1)
        PROVE  reference_bit[rest[j]] = 0 /\ pin_count[rest[j]] = 0
    <3>1. j + 1 \in 1..Len(unpinned_frames) /\ j + 1 > n - iter
      BY <1>3, <1>9, <2>5
    <3>2. rest[j] = unpinned_frames[j + 1]
      BY <1>3
    <3> QED BY <1>8, <3>1, <3>2
  <2>6. HandKept'
    BY <1>1, <1>3, <1>8, <1>9, <2>1, <2>4, <2>5 DEF HandKept
  <2> QED BY <1>7, <2>3, <2>6 DEF QInv
<1>11. CASE SecondChance
  <2> DEFINE q == Append(rest, h)
  <2>1. /\ pin_count[h] = 0 /\ reference_bit[h] = 1
        /\ pc' = "sweep" /\ index' = h /\ unpinned_frames' = q
        /\ reference_bit' = [reference_bit EXCEPT ![h] = 0]
        /\ iter' = iter + 1 /\ UNCHANGED <<is_in_queue, max_iters>>
    BY <1>2, <1>3, <1>11 DEF SecondChance
  <2>2. reference_bit'[h] = 0 /\ \A g \in Frames \ {h} : reference_bit'[g] = reference_bit[g]
    BY <1>3, <2>1 DEF QInv, TypeOK, MetaType
  <2>3. /\ Len(q) = Len(unpinned_frames) /\ q[Len(q)] = h
        /\ \A i \in 1..Len(rest) : q[i] = unpinned_frames[i + 1] /\ q[i] = rest[i]
        /\ \A i \in 1..Len(q) : i = Len(q) \/ i \in 1..Len(rest)
    BY <1>3, PushFacts
  <2> HIDE DEF h, rest, q
  <2>4. (QueueKept /\ IndexKept)'
    <3>1. ASSUME NEW i \in 1..Len(q) PROVE Holds(q[i]) /\ is_in_queue[q[i]]
      BY <1>4, <1>5, <2>3
    <3>2. ASSUME NEW i \in 1..Len(q), NEW j \in 1..Len(q), q[i] = q[j]
          PROVE  i = j
      BY <1>5, <1>6, <2>3, <3>2
    <3> QED BY <1>1, <1>4, <2>1, <3>1, <3>2 DEF QueueKept, IndexKept, Holds
  <2>5. n - iter > 0
    BY <1>3, <1>4, <1>8, <1>9, <2>1 DEF h
  <2>6. ASSUME NEW j \in 1..Len(q), j > n - (iter + 1)
        PROVE  reference_bit'[q[j]] = 0 /\ pin_count[q[j]] = 0
    <3>1. CASE j = Len(q)
      BY <2>1, <2>2, <2>3, <3>1
    <3>2. CASE j # Len(q)
      <4>1. j \in 1..Len(rest)
        BY <2>3, <3>2
      <4>2. j + 1 \in 1..Len(unpinned_frames) /\ j + 1 > n - iter
        BY <1>3, <1>9, <2>6, <4>1
      <4>3. reference_bit[q[j]] = 0 /\ pin_count[q[j]] = 0
        BY <1>8, <2>3, <4>1, <4>2
      <4>4. q[j] # h /\ q[j] \in Frames
        BY <1>5, <2>3, <4>1
      <4> QED BY <2>2, <4>3, <4>4
    <3> QED BY <3>1, <3>2
  <2>7. HandKept'
    BY <1>1, <1>3, <1>8, <1>9, <2>1, <2>3, <2>5, <2>6 DEF HandKept
  <2> QED BY <1>7, <2>4, <2>7 DEF QInv
<1>12. CASE TakeVictim
  <2>1. /\ pc' = "evict" /\ index' = h /\ unpinned_frames' = rest
        /\ iter' = 0 /\ UNCHANGED is_in_queue
    BY <1>2, <1>3, <1>12 DEF TakeVictim, meta
  <2> HIDE DEF h, rest
  <2>2. (QueueKept /\ IndexKept /\ HandKept)'
    BY <1>1, <1>4, <1>5, <1>6, <2>1 DEF QueueKept, IndexKept, HandKept, Holds
  <2> QED BY <1>7, <2>2 DEF QInv
<1> QED BY <1>10, <1>11, <1>12

\* A loop that ends without a victim has emptied the queue: the frame it popped last is
\* not in it, pinned or not.
LEMMA ExhaustedQInv ==
  ASSUME QInv, SweepExhausted, TypeOK'
  PROVE  QInv'
<1>1. /\ pc = "sweep" /\ (iter >= max_iters \/ unpinned_frames = <<>>)
      /\ UNCHANGED Queued
  BY DEF SweepExhausted, Sweeping, QInv, TypeOK, CallType, Queued, meta
<1>2. PICK n \in Nat : max_iters = 2 * n /\ iter <= n /\ Len(unpinned_frames) <= n
  BY <1>1 DEF QInv, HandKept
<1>3. Len(unpinned_frames) \in Nat /\ iter \in Nat
  BY DEF QInv, TypeOK, ListType, CallType
<1>4. 1..Len(unpinned_frames) = {}
  <2>1. CASE iter >= max_iters
    <3>1. Len(unpinned_frames) <= 0
      BY <1>2, <1>3, <2>1
    <3> QED BY <1>3, <3>1
  <2>2. CASE unpinned_frames = <<>>
    BY <2>2
  <2> QED BY <1>1, <2>1, <2>2
<1>5. \/ pc' = "idle" /\ index' = NoFrame /\ iter' = 0
      \/ pc' = "evict" /\ index' = index /\ index # NoFrame /\ iter' = 0
  BY DEF SweepExhausted, Return
<1>6. (TableLeads /\ FreeKept)'
  BY <1>1 DEF QInv, Queued, TableLeads, FreeKept, Cached, Holds
<1>7. QueueKept'
  BY <1>1, <1>4 DEF QueueKept, Queued
<1>8. (IndexKept /\ HandKept)'
  BY <1>1, <1>5 DEF QInv, Queued, IndexKept, HandKept, Holds
<1> QED BY <1>6, <1>7, <1>8 DEF QInv

\* A failed read or write ends the call.
LEMMA FailQInv ==
  ASSUME QInv, EvictWriteFails \/ LoadFails, TypeOK'
  PROVE  QInv'
<1>1. UNCHANGED Queued /\ pc' = "idle" /\ index' = NoFrame /\ iter' = 0
  BY DEF EvictWriteFails, LoadFails, Fail, Return, Queued, meta
<1>2. (TableLeads /\ QueueKept /\ FreeKept)'
  BY <1>1 DEF QInv, Queued, TableLeads, QueueKept, FreeKept, Cached, Holds
<1>3. (IndexKept /\ HandKept)'
  BY <1>1 DEF IndexKept, HandKept
<1> QED BY <1>2, <1>3 DEF QInv

\* The victim, whoever uses it, loses its page.  It is not in the queue.
LEMMA EvictQInv ==
  ASSUME QInv, EvictPage, TypeOK'
  PROVE  QInv'
<1> DEFINE was == frame_page[index]
<1>1. /\ pc = "evict" /\ pc' = "load" /\ iter' = iter
      /\ UNCHANGED <<free_frames, unpinned_frames, index>>
      /\ page_table' = [page_table EXCEPT ![was] = NoFrame]
      /\ frame_page' = [frame_page EXCEPT ![index] = NoPage]
      /\ is_in_queue' = [is_in_queue EXCEPT ![index] = FALSE]
  BY DEF EvictPage
<1>2. index \in Frames /\ was \in PageIDs /\ iter = 0 /\ index \notin free_frames
  BY <1>1 DEF QInv, TypeOK, CallType, TableType, IndexKept, FreeKept, Holds
<1>3. \A f \in Frames : frame_page'[f] = IF f = index THEN NoPage ELSE frame_page[f]
  BY <1>1 DEF QInv, TypeOK, TableType
<1>4. \A f \in Frames : f # index => is_in_queue'[f] = is_in_queue[f]
  BY <1>1 DEF QInv, TypeOK, MetaType
<1>5. \A p \in PageIDs : page_table'[p] = IF p = was THEN NoFrame ELSE page_table[p]
  BY <1>1 DEF QInv, TypeOK, TableType
<1>6. TableLeads'
  <2> SUFFICES ASSUME NEW p \in PageIDs, page_table'[p] # NoFrame
               PROVE  frame_page'[page_table'[p]] = p
    BY DEF TableLeads, Cached
  <2>1. p # was /\ page_table'[p] = page_table[p] /\ page_table[p] \in Frames
    BY <1>5 DEF QInv, TypeOK, TableType
  <2>2. frame_page[page_table[p]] = p
    BY <2>1 DEF QInv, TableLeads, Cached
  <2> QED BY <1>3, <2>1, <2>2
<1>7. \A i \in 1..Len(unpinned_frames) :
        unpinned_frames[i] \in Frames /\ unpinned_frames[i] # index
  BY <1>1 DEF QInv, QueueKept, TypeOK, ListType
<1>8. QueueKept'
  BY <1>1, <1>3, <1>4, <1>7 DEF QInv, QueueKept, Holds
<1>9. FreeKept'
  BY <1>1, <1>2, <1>3 DEF QInv, FreeKept, Holds, TypeOK, ListType
<1>10. (IndexKept /\ HandKept)'
  BY <1>1, <1>2, <1>3 DEF IndexKept, HandKept, Holds
<1> QED BY <1>6, <1>8, <1>9, <1>10 DEF QInv

\* The frame that gets the page is not in the queue.
LEMMA LoadQInv ==
  ASSUME QInv, LoadPage, TypeOK'
  PROVE  QInv'
<1>1. /\ pc = "load" /\ pc' = "idle" /\ index' = NoFrame /\ iter' = 0
      /\ UNCHANGED <<free_frames, unpinned_frames>>
      /\ page_table' = [page_table EXCEPT ![want] = index]
      /\ frame_page' = [frame_page EXCEPT ![index] = want]
      /\ is_in_queue' = [is_in_queue EXCEPT ![index] = FALSE]
  BY DEF LoadPage, Return
<1>2. /\ index \in Frames /\ want \in PageIDs /\ index \notin free_frames
      /\ frame_page[index] = NoPage
  BY <1>1 DEF QInv, TypeOK, CallType, IndexKept, Holds
<1>3. \A f \in Frames : frame_page'[f] = IF f = index THEN want ELSE frame_page[f]
  BY <1>1 DEF QInv, TypeOK, TableType
<1>4. \A f \in Frames : f # index => is_in_queue'[f] = is_in_queue[f]
  BY <1>1 DEF QInv, TypeOK, MetaType
<1>5. \A p \in PageIDs : page_table'[p] = IF p = want THEN index ELSE page_table[p]
  BY <1>1 DEF QInv, TypeOK, TableType
<1>6. TableLeads'
  <2> SUFFICES ASSUME NEW p \in PageIDs, page_table'[p] # NoFrame
               PROVE  frame_page'[page_table'[p]] = p
    BY DEF TableLeads, Cached
  <2>1. CASE p = want
    BY <1>2, <1>3, <1>5, <2>1
  <2>2. CASE p # want
    <3>1. page_table'[p] = page_table[p] /\ page_table[p] \in Frames
      BY <1>5, <2>2 DEF QInv, TypeOK, TableType
    <3>2. frame_page[page_table[p]] = p
      BY <3>1 DEF QInv, TableLeads, Cached
    <3>3. page_table[p] # index
      BY <1>2, <3>2, PoolAssumption
    <3> QED BY <1>3, <3>1, <3>2, <3>3
  <2> QED BY <2>1, <2>2
<1>7. \A i \in 1..Len(unpinned_frames) :
        unpinned_frames[i] \in Frames /\ unpinned_frames[i] # index
  BY <1>1 DEF QInv, QueueKept, TypeOK, ListType
<1>8. QueueKept'
  BY <1>1, <1>3, <1>4, <1>7 DEF QInv, QueueKept, Holds
<1>9. FreeKept'
  BY <1>1, <1>2, <1>3 DEF QInv, FreeKept, Holds, TypeOK, ListType
<1>10. (IndexKept /\ HandKept)'
  BY <1>1 DEF IndexKept, HandKept
<1> QED BY <1>6, <1>8, <1>9, <1>10 DEF QInv

\* A release queues the frame its page is in, unless its flag says that it is queued.
LEMMA ReleaseQInv ==
  ASSUME QInv, NEW p \in PageIDs, NEW f \in Frames, NEW dirty \in BOOLEAN,
         ReleasePage(p, f, dirty), TypeOK'
  PROVE  QInv'
<1> DEFINE g == page_table[p]
           q == Append(unpinned_frames, g)
<1>1. pc = "idle" /\ UNCHANGED <<page_table, free_frames, call>>
  BY DEF ReleasePage
<1>2. UNCHANGED frame_page
  BY DEF ReleasePage, meta
<1>3. CASE UNCHANGED <<is_in_queue, unpinned_frames>>
  BY <1>1, <1>2, <1>3, OutsideQInv DEF Queued
<1>4. CASE ~UNCHANGED <<is_in_queue, unpinned_frames>>
  <2>1. /\ g # NoFrame /\ ~is_in_queue[g]
        /\ unpinned_frames' = q
        /\ is_in_queue' = [is_in_queue EXCEPT ![g] = TRUE]
    BY <1>4 DEF ReleasePage, meta
  <2>2. g \in Frames /\ unpinned_frames \in Seq(Frames)
    BY <2>1 DEF QInv, TypeOK, TableType, ListType
  <2>3. Holds(g)
    BY <2>1, PoolAssumption DEF QInv, TableLeads, Cached, Holds
  <2>4. /\ is_in_queue'[g]
        /\ \A e \in Frames : is_in_queue[e] => is_in_queue'[e]
    BY <2>1, <2>2 DEF QInv, TypeOK, MetaType
  <2>5. \A i \in 1..Len(unpinned_frames) :
          /\ unpinned_frames[i] # g /\ unpinned_frames[i] \in Frames
          /\ Holds(unpinned_frames[i]) /\ is_in_queue[unpinned_frames[i]]
    BY <2>1, <2>2 DEF QInv, QueueKept
  <2>6. /\ Len(q) \in Nat /\ q[Len(q)] = g
        /\ \A i \in 1..Len(q) : i = Len(q) \/ i \in 1..Len(unpinned_frames)
        /\ \A i \in 1..Len(unpinned_frames) : q[i] = unpinned_frames[i]
    BY <2>2, PushFacts
  <2>7. \A i, j \in 1..Len(unpinned_frames) :
          unpinned_frames[i] = unpinned_frames[j] => i = j
    BY DEF QInv, QueueKept
  <2> HIDE DEF g, q
  <2>8. ASSUME NEW i \in 1..Len(q) PROVE Holds(q[i]) /\ is_in_queue'[q[i]]
    BY <2>3, <2>4, <2>5, <2>6
  <2>9. ASSUME NEW i \in 1..Len(q), NEW j \in 1..Len(q), q[i] = q[j]
        PROVE  i = j
    BY <2>5, <2>6, <2>7, <2>9
  <2>10. QueueKept'
    BY <1>1, <1>2, <2>1, <2>8, <2>9 DEF QueueKept, Holds, call
  <2>11. (TableLeads /\ FreeKept /\ IndexKept /\ HandKept)'
    BY <1>1, <1>2 DEF QInv, TableLeads, FreeKept, IndexKept, HandKept, Cached, Holds, call
  <2> QED BY <2>10, <2>11 DEF QInv
<1> QED BY <1>3, <1>4

\* Every step keeps the queue sound, however many frames are pinned.
LEMMA NextQInv == QInv /\ [Next]_vars => QInv'
<1> SUFFICES ASSUME QInv, [Next]_vars PROVE QInv'
  OBVIOUS
<1>1. TypeOK'
  BY NextTypeOK DEF QInv
<1>2. ASSUME NEW p \in PageIDs, Request(p) PROVE QInv'
  <2>1. CASE RequestHit(p)
    BY <1>1, <2>1, OutsideQInv DEF RequestHit, Queued
  <2>2. CASE RequestMiss(p) \/ AllocateNewPage(p)
    BY <1>1, <2>2, MissQInv DEF RequestMiss, AllocateNewPage
  <2> QED BY <1>2, <2>1, <2>2 DEF Request
<1>3. CASE Sweep
  BY <1>1, <1>3, HandQInv, ExhaustedQInv DEF Sweep
<1>4. CASE Fill
  BY <1>1, <1>4, FailQInv, EvictQInv, LoadQInv DEF Fill
<1>5. ASSUME NEW p \in PageIDs, NEW f \in Frames, Use(p, f) PROVE QInv'
  <2>1. ASSUME NEW dirty \in BOOLEAN, ReleasePage(p, f, dirty) PROVE QInv'
    BY <1>1, <2>1, ReleaseQInv
  <2>2. ASSUME NEW d \in Data, WriteThrough(p, f, d) PROVE QInv'
    BY <1>1, <2>2, OutsideQInv DEF WriteThrough, Queued, meta
  <2> QED BY <1>5, <2>1, <2>2 DEF Use
<1>6. CASE Shutdown \/ Crash
  <2>1. Restart
    BY <1>6 DEF Shutdown, Crash
  <2>2. (TableLeads /\ QueueKept /\ FreeKept /\ IndexKept /\ HandKept)'
    <3> USE PoolAssumption
    <3>1. (TableLeads /\ FreeKept /\ IndexKept)'
      BY <2>1 DEF Restart, Return, TableLeads, FreeKept, IndexKept, NoPages, NoMeta, Cached, Holds
    <3>2. (QueueKept /\ HandKept)'
      BY <2>1 DEF Restart, Return, QueueKept, HandKept
    <3> QED BY <3>1, <3>2
  <2> QED BY <1>1, <2>2 DEF QInv
<1>7. CASE UNCHANGED vars
  <2>1. UNCHANGED <<Queued, call>> /\ UNCHANGED <<reference_bit, pin_count>>
    BY <1>7 DEF vars, Queued, meta
  <2>2. (TableLeads /\ QueueKept /\ FreeKept)'
    BY <2>1 DEF QInv, Queued, call, TableLeads, QueueKept, FreeKept, Cached, Holds
  <2>3. (IndexKept /\ HandKept)'
    BY <2>1 DEF QInv, Queued, call, IndexKept, HandKept, Holds
  <2> QED BY <1>1, <2>2, <2>3 DEF QInv
<1> QED BY <1>2, <1>3, <1>4, <1>5, <1>6, <1>7 DEF Next

\* The clock queue is sound whatever the callers pin (FindPageToEvict, ReleasePage):
\* each frame in it is there once, with a page and its flag, and none of them is the
\* victim, not even when the sweep found no frame to evict.
THEOREM QueueIsSound == Spec => []QueueSound
<1>1. QInv => QueueSound
  <2> SUFFICES ASSUME QInv, NEW f \in Frames, Positions(f) # {}
               PROVE  /\ Cardinality(Positions(f)) = 1
                      /\ is_in_queue[f]
                      /\ frame_page[f] # NoPage
                      /\ pc \in {"evict", "load"} => f # index
    BY DEF QueueSound
  <2>1. PICK i \in 1..Len(unpinned_frames) : unpinned_frames[i] = f
    BY DEF Positions
  <2>2. Positions(f) = {i}
    BY <2>1 DEF Positions, QInv, QueueKept
  <2>3. Cardinality(Positions(f)) = 1
    BY <2>2, FS_Singleton
  <2> QED BY <2>1, <2>3 DEF QInv, QueueKept, Holds
<1>2. QInv /\ [Next]_vars => QInv'
  BY NextQInv
<1> QED
  BY <1>1, <1>2, InitQInv, PTL DEF Spec
=============================================================================
