------------------------------- MODULE LeafPage -------------------------------
(***************************************************************************)
(* The inside of leaf pages (database/src/impl/page/leaf_page.cpp), in a   *)
(* tree that is one leaf, or a root over two (b-tree.cpp).  Module BTree   *)
(* takes a leaf for the sequence of its live tuples; here are its slots,   *)
(* those of deleted tuples among them, and where its bytes are.            *)
(*                                                                         *)
(* The slot array grows from the page's header upwards, tuples are added   *)
(* from the end of the page downwards: a tuple's offset follows from the   *)
(* lengths of those that were added before, and is left out.               *)
(*                                                                         *)
(* Keys are not unique: Insert does not look for the key first.            *)
(***************************************************************************)
EXTENDS Integers, FiniteSets, SequencesExt

CONSTANTS
  Keys,
  Size,                \* of each key's tuple: slot, header and what is to be stored
  LEAF_SPACE,          \* PAGE_SIZE - LEAF_PAGE_HEADER_SIZE
  SLOT_SIZE,
  TUPLE_MIN,           \* size of a tuple's header and its key
  MIN_LEAF_PAGE_DATA, MAX_LEAF_PAGE_DATA, LEAF_UNDERFLOW_THRESHOLD,
  MaxTuples            \* bound: tuples in the tree

ASSUME LeafPageAssumption ==
  /\ {LEAF_SPACE, SLOT_SIZE, MIN_LEAF_PAGE_DATA, MAX_LEAF_PAGE_DATA,
      LEAF_UNDERFLOW_THRESHOLD} \subseteq Nat /\ TUPLE_MIN \in Nat \ {0}
  /\ Keys \subseteq Nat \ {0}
  /\ Size \in [Keys -> Nat] /\ \A k \in Keys : Size[k] >= SLOT_SIZE + TUPLE_MIN
  /\ SLOT_SIZE + TUPLE_MIN <= MIN_LEAF_PAGE_DATA
  /\ MIN_LEAF_PAGE_DATA <= MAX_LEAF_PAGE_DATA
  /\ MIN_LEAF_PAGE_DATA + MAX_LEAF_PAGE_DATA <= LEAF_SPACE
  /\ 2 * LEAF_UNDERFLOW_THRESHOLD + MAX_LEAF_PAGE_DATA <= LEAF_SPACE
  \* The slots of deleted tuples alone do not keep a page from an underflow.
  /\ \A n \in 0..LEAF_SPACE : n * (SLOT_SIZE + TUPLE_MIN) <= LEAF_SPACE =>
                               n * SLOT_SIZE <= LEAF_UNDERFLOW_THRESHOLD

VARIABLES
  leaves,    \* the pages, from left to right: one, or two
  boundary,  \* the key in the root between them
  thrown     \* MergePages found too much data for a page

vars == <<leaves, boundary, thrown>>

-----------------------------------------------------------------------------
\* Slots and pages.

Live(key, length) == [is_deleted |-> FALSE, key |-> key, length |-> length]
Deleted == [is_deleted |-> TRUE, key |-> 0, length |-> 0]

LiveSlots(slots) ==
  FoldLeft(LAMBDA live, s : IF s.is_deleted THEN live ELSE Append(live, s), <<>>, slots)
Bytes(slots) == FoldLeft(LAMBDA sum, s : sum + s.length, 0, slots)
First(s, n) == SubSeq(s, 1, n)
Least(a, b) == IF a < b THEN a ELSE b
Minimum(S) == CHOOSE m \in S : \A n \in S : m <= n

\* Compacts the slots, and the tuples with them.  free_space_end counts from the
\* header: the slot array and the free bytes.
MakePage(slots) ==
  LET live == LiveSlots(slots)
  IN  [slots |-> live, free_space_end |-> LEAF_SPACE - Bytes(live), garbage_bytes |-> 0]

EmptyPage == MakePage(<<>>)
DefragmentPage(p) == MakePage(p.slots)

CheckAvailableSpace(p) == p.free_space_end - Len(p.slots) * SLOT_SIZE
TotalSpace(p) == CheckAvailableSpace(p) + p.garbage_bytes
UsedSpace(p) == LEAF_SPACE - TotalSpace(p)

\* Slip: a bound may be the slot of a deleted tuple.
Bisect_DeadSlot(slots, before) ==
  LET n == Len(slots)
      search[p \in (1..(n + 1)) \X (0..n) \X (1..(n + 1))] ==
        LET l == p[1]
            r == p[2]
            ans == p[3]
            original_mid == l + (r - l) \div 2
            mid == Minimum({m \in original_mid..n : ~slots[m].is_deleted} \cup {n + 1})
        IN  IF l > r THEN ans
            ELSE IF mid > n THEN search[<<l, original_mid - 1, ans>>]
            ELSE IF slots[mid].key \in before THEN search[<<mid + 1, r, ans>>]
            ELSE search[<<l, original_mid - 1, original_mid>>]
  IN  search[<<1, n, n + 1>>]

\* The binary search for the first live slot whose key is not one of those before.
\* It looks at the next live slot where it falls on that of a deleted tuple.
Bisect(slots, before) ==
  LET n == Len(slots)
      search[p \in (1..(n + 1)) \X (0..n) \X (1..(n + 1))] ==
        LET l == p[1]
            r == p[2]
            ans == p[3]
            original_mid == l + (r - l) \div 2
            mid == Minimum({m \in original_mid..n : ~slots[m].is_deleted} \cup {n + 1})
        IN  IF l > r THEN ans
            ELSE IF mid > n THEN search[<<l, original_mid - 1, ans>>]
            ELSE IF slots[mid].key \in before THEN search[<<mid + 1, r, ans>>]
            ELSE search[<<l, original_mid - 1, mid>>]
  IN  search[<<1, n, n + 1>>]

lower_bound(slots, x) == Bisect(slots, {k \in Keys : k < x})
upper_bound(slots, x) == Bisect(slots, {k \in Keys : k <= x})

\* Slip: any slot of a deleted tuple is used again.
Placed_AnySlot(slots, it, slot) ==
  LET dead == {n \in DOMAIN slots : slots[n].is_deleted}
  IN  IF dead # {} THEN [slots EXCEPT ![Minimum(dead)] = slot] ELSE InsertAt(slots, it, slot)

\* The slot before the insertion point is used again when its tuple was deleted.
Placed(slots, it, slot) ==
  IF it > 1 /\ slots[it - 1].is_deleted THEN [slots EXCEPT ![it - 1] = slot]
  ELSE InsertAt(slots, it, slot)

\* Slip: the bytes of deleted tuples are taken for free.
WriteChunkLeaf_NoDefragment(p, key, size) ==
  LET length == Least(Least(size, MAX_LEAF_PAGE_DATA), TotalSpace(p)) - SLOT_SIZE
  IN  [p EXCEPT !.slots = Placed(@, upper_bound(@, key), Live(key, length)),
                !.free_space_end = @ - length]

\* The tuple is cut to the most a leaf keeps of one, or to the room there is.
WriteChunkLeaf(p, key, size) ==
  LET data_size == Least(Least(size, MAX_LEAF_PAGE_DATA), TotalSpace(p))
      length == data_size - SLOT_SIZE
      page == IF data_size > CheckAvailableSpace(p) THEN DefragmentPage(p) ELSE p
  IN  [page EXCEPT !.slots = Placed(@, upper_bound(@, key), Live(key, length)),
                   !.free_space_end = @ - length]

\* The first live slot of the new page: that behind the one with which the tuples
\* exceed half the page, else the middle one.
NewPageStart(slots) ==
  LET live == {n \in DOMAIN slots : ~slots[n].is_deleted}
      over == {n \in live : Bytes(First(slots, n)) > LEAF_SPACE \div 2}
      rest == {n \in live : \E m \in over : m < n}
  IN  IF rest # {} THEN Minimum(rest)
      ELSE CHOOSE n \in live :
             Cardinality({m \in live : m <= n}) = Cardinality(live) \div 2 + 1

HandleSplit(p) == LET start == NewPageStart(p.slots)
                  IN  <<MakePage(First(p.slots, start - 1)),
                        MakePage(SubSeq(p.slots, start, Len(p.slots)))>>

GetPageFirstKey(p) == LET live == LiveSlots(p.slots) IN IF live = <<>> THEN 0 ELSE Head(live).key

FoundIn(p, key) == LET it == lower_bound(p.slots, key)
                   IN  it <= Len(p.slots) /\ p.slots[it].key = key

\* Slots of p become those of deleted tuples.
Without(p, gone) ==
  LET slots == First([n \in DOMAIN p.slots |-> IF n \in gone THEN Deleted ELSE p.slots[n]],
                     Len(p.slots))
  IN  [p EXCEPT !.slots = slots, !.garbage_bytes = @ + Bytes(p.slots) - Bytes(slots)]

\* Slip: the bytes of the tuple are not counted as garbage.
DeleteTuple_NotCounted(p, key) ==
  IF FoundIn(p, key) THEN [p EXCEPT !.slots[lower_bound(p.slots, key)] = Deleted] ELSE p

DeleteTuple(p, key) ==
  IF FoundIn(p, key) THEN Without(p, {lower_bound(p.slots, key)}) ELSE p

-----------------------------------------------------------------------------
\* Tuples that move to the neighbour.

\* Slip: one tuple is lent, or none.
Lends_One(p, live, needed) ==
  IF live = <<>> THEN 0 ELSE
  LET space == live[1].length + SLOT_SIZE
  IN  IF space >= needed /\ UsedSpace(p) - space > LEAF_UNDERFLOW_THRESHOLD THEN 1 ELSE 0

\* How many of the live tuples, from one end, make up for what is needed; none unless
\* the lender keeps more than an underflow.  Slots of deleted tuples count as used.
Lends(p, live, needed) ==
  LET space == [n \in DOMAIN live |-> Bytes(First(live, n)) + n * SLOT_SIZE]
      enough == {n \in DOMAIN live : space[n] >= needed}
  IN  IF enough = {} \/ UsedSpace(p) - space[Minimum(enough)] <= LEAF_UNDERFLOW_THRESHOLD
      THEN 0 ELSE Minimum(enough)

Needed(p) == LEAF_UNDERFLOW_THRESHOLD + 1 - UsedSpace(p)
CanLendFromRight(p, needed) == Lends(p, Reverse(LiveSlots(p.slots)), needed)
CanLendFromLeft(p, needed) == Lends(p, LiveSlots(p.slots), needed)

\* The places of the first live slots, or of the last.
FirstPlaces(slots, count) == {n \in DOMAIN slots : /\ ~slots[n].is_deleted
                                                   /\ Len(LiveSlots(First(slots, n))) <= count}
LastPlaces(slots, count) ==
  {n \in DOMAIN slots : /\ ~slots[n].is_deleted
                        /\ Len(LiveSlots(SubSeq(slots, n, Len(slots)))) <= count}

Receives(p, tuples) ==
  FoldLeft(LAMBDA page, t : WriteChunkLeaf(page, t.key, t.length + SLOT_SIZE), p, tuples)

MergeFits(to, from) ==
  LET tuples == LiveSlots(from.slots)
  IN  \A n \in DOMAIN tuples :
        TotalSpace(Receives(to, First(tuples, n - 1))) >= tuples[n].length + SLOT_SIZE

MergePages(to, from) == Receives(to, LiveSlots(from.slots))

-----------------------------------------------------------------------------
\* BTree::Insert and BTree::Delete.

Init == leaves = <<EmptyPage>> /\ boundary = 0 /\ thrown = FALSE

Child(key) == IF Len(leaves) = 2 /\ key >= boundary THEN 2 ELSE 1

\* Slip: the slot is left out of the account.
RoomFor_NoSlot(p, key) == Least(MIN_LEAF_PAGE_DATA, Size[key]) - SLOT_SIZE <= TotalSpace(p)

\* FindPageToWrite splits the leaf when it has no room for some of the tuple.
RoomFor(p, key) == Least(MIN_LEAF_PAGE_DATA, Size[key]) <= TotalSpace(p)

Tuples == FoldLeft(LAMBDA sum, p : sum + Len(LiveSlots(p.slots)), 0, leaves)

Insert(key) == /\ ~thrown /\ Tuples < MaxTuples
               /\ RoomFor(leaves[Child(key)], key)
               /\ leaves' = [leaves EXCEPT ![Child(key)] = WriteChunkLeaf(@, key, Size[key])]
               /\ UNCHANGED <<boundary, thrown>>

\* The tree is left with two leaves at most: a bound of the model.
InsertSplits(key) ==
  LET halves == HandleSplit(leaves[1]) IN
  /\ ~thrown /\ Tuples < MaxTuples
  /\ Len(leaves) = 1
  /\ ~RoomFor(leaves[1], key)
  /\ boundary' = GetPageFirstKey(halves[2])
  /\ leaves' = [halves EXCEPT ![IF key >= boundary' THEN 2 ELSE 1] =
                  WriteChunkLeaf(@, key, Size[key])]
  /\ UNCHANGED thrown

\* The leaf, from which the key was deleted if it was found, is looked at for underflow
\* in any case.
After(key) == [leaves EXCEPT ![Child(key)] = DeleteTuple(@, key)]
Underflown(now, key) == Len(now) = 2 /\ UsedSpace(now[Child(key)]) <= LEAF_UNDERFLOW_THRESHOLD

Delete(key) == LET now == After(key) IN
               /\ ~thrown
               /\ ~Underflown(now, key)
               /\ leaves' = now
               /\ UNCHANGED <<boundary, thrown>>

\* How much the neighbour of the leaf of key lends.
Loan(now, key) == IF Child(key) = 2 THEN CanLendFromRight(now[1], Needed(now[2]))
                  ELSE CanLendFromLeft(now[2], Needed(now[1]))

\* Slip: what was lent is also kept.
HandleLeftBorrow_Keeps(lender, borrower, count) ==
  LET tuples == Reverse(LiveSlots(lender.slots))
  IN  <<lender, Receives(borrower, First(tuples, count))>>

\* The last tuples of the lender, the last one first.
HandleLeftBorrow(lender, borrower, count) ==
  LET tuples == Reverse(LiveSlots(lender.slots))
  IN  <<Without(lender, LastPlaces(lender.slots, count)),
        Receives(borrower, First(tuples, count))>>

HandleRightBorrow(borrower, lender, count) ==
  <<Receives(borrower, First(LiveSlots(lender.slots), count)),
    Without(lender, FirstPlaces(lender.slots, count))>>

DeleteBorrows(key) ==
  LET now == After(key)
      count == Loan(now, key)
  IN
  /\ ~thrown
  /\ Underflown(now, key)
  /\ count > 0
  /\ leaves' = IF Child(key) = 2 THEN HandleLeftBorrow(now[1], now[2], count)
               ELSE HandleRightBorrow(now[1], now[2], count)
  /\ boundary' = GetPageFirstKey(leaves'[2])
  /\ UNCHANGED thrown

\* The right page goes into the left one, which becomes the root.
DeleteMerges(key) ==
  LET now == After(key) IN
  /\ ~thrown
  /\ Underflown(now, key)
  /\ Loan(now, key) = 0
  /\ IF MergeFits(now[1], now[2])
     THEN leaves' = <<MergePages(now[1], now[2])>> /\ boundary' = 0 /\ UNCHANGED thrown
     ELSE thrown' = TRUE /\ UNCHANGED <<leaves, boundary>>

Next == \E key \in Keys : \/ Insert(key) \/ InsertSplits(key)
                          \/ Delete(key) \/ DeleteBorrows(key) \/ DeleteMerges(key)

Spec == Init /\ [][Next]_vars

Search(key) == FoundIn(leaves[Child(key)], key)

-----------------------------------------------------------------------------
\* Properties.

TypeOK ==
  /\ leaves \in Seq([slots : Seq([is_deleted : BOOLEAN, key : Keys \cup {0}, length : Nat]),
                     free_space_end : Nat, garbage_bytes : Nat])
  /\ Len(leaves) \in {1, 2}
  /\ boundary \in Keys \cup {0} /\ boundary # 0 <=> Len(leaves) = 2
  /\ thrown \in BOOLEAN

\* Whatever was deleted, used again, moved and compacted, every byte of a page is in
\* one place: the slots do not run into the tuples (WriteChunkLeaf), and what is not a
\* live tuple below the free space is garbage.
Accounting ==
  /\ TypeOK
  /\ \A i \in DOMAIN leaves :
       /\ CheckAvailableSpace(leaves[i]) >= 0
       /\ leaves[i].free_space_end + Bytes(LiveSlots(leaves[i].slots)) + leaves[i].garbage_bytes
            = LEAF_SPACE

\* WriteChunkLeaf is only called for a page with room for a tuple's header and key,
\* also behind a split, which does not look whether there is.
KeysAreWhole ==
  \A i \in DOMAIN leaves : \A s \in ToSet(LiveSlots(leaves[i].slots)) : s.length >= TUPLE_MIN

\* The binary searches find what a search from the left does, whichever slots of
\* deleted tuples lie where they look.
FirstLive(slots, S) ==
  Minimum({n \in DOMAIN slots : ~slots[n].is_deleted /\ slots[n].key \in S} \cup {Len(slots) + 1})
SearchesAgree ==
  \A i \in DOMAIN leaves, x \in Keys :
    /\ lower_bound(leaves[i].slots, x) = FirstLive(leaves[i].slots, {k \in Keys : k >= x})
    /\ upper_bound(leaves[i].slots, x) = FirstLive(leaves[i].slots, {k \in Keys : k > x})

\* A search finds every key that is stored, but for one: the boundary, when a split came
\* between tuples of the same key and those on the right were deleted since.
StoredIn(i, key) == \E s \in ToSet(leaves[i].slots) : s = Live(key, s.length)
SearchFinds ==
  \A key \in Keys :
    Search(key) <=> /\ \E i \in DOMAIN leaves : StoredIn(i, key)
                    /\ key = boundary => StoredIn(2, key)

\* MergePages never throws: a lender that refuses has little enough for one page, with
\* the slots of deleted tuples counted on both sides.
MergesFit == ~thrown

\* An insert adds one tuple, a delete takes away one of its key if it finds one, and no
\* split, borrowing, merge or compaction loses, doubles or cuts a tuple.
Contents(pages) ==
  LET all == IF Len(pages) = 1 THEN pages[1].slots ELSE pages[1].slots \o pages[2].slots
  IN  [key \in Keys |->
        FoldLeft(LAMBDA sum, s : IF s.key = key THEN [count |-> sum.count + 1,
                                                      bytes |-> sum.bytes + s.length] ELSE sum,
                 [count |-> 0, bytes |-> 0], all)]
OneMore(contents, key) == {[contents EXCEPT ![key].count = @ + 1, ![key].bytes = @ + length] :
                             length \in 1..MAX_LEAF_PAGE_DATA}
ContentsKept ==
  [][LET before == Contents(leaves)
         after == Contents(leaves')
     IN  \E key \in Keys :
           \/ after \in OneMore(before, key) /\ (Insert(key) \/ InsertSplits(key))
           \/ /\ IF Search(key) THEN before \in OneMore(after, key) ELSE after = before
              /\ Delete(key) \/ DeleteBorrows(key) \/ DeleteMerges(key)]_vars
=============================================================================
