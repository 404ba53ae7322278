-------------------------------- MODULE BTree --------------------------------
(***************************************************************************)
(* The B+ tree (database/src/impl/b-tree/b-tree.cpp) over internal and     *)
(* leaf pages (database/src/impl/page/).                                   *)
(*                                                                         *)
(* A call descends from the root, and works its way back up when pages     *)
(* were split or have underflown.  One level of the recursion is one step: *)
(* stack holds the pages of the frames below, in which the call is still   *)
(* to continue, cur the page the innermost frame was called for, report    *)
(* what the last frame returned.                                           *)
(*                                                                         *)
(* Pages are what the buffer pool hands out (module BufferPool): a step    *)
(* says which it requests, and which it releases as clean or dirty.  A     *)
(* leaf is the sequence of its live tuples; where they lie in the page,    *)
(* and the slots of deleted ones, are left out, and so are the overflow    *)
(* pages of long tuples.  Sizes are in units of the page's bytes, and      *)
(* internal pages are measured in pairs of a key and a child.              *)
(*                                                                         *)
(* A page that drops out of the tree is never used again in the code.      *)
(* Here its identifier is, which bounds the number of pages.               *)
(***************************************************************************)
EXTENDS Integers, FiniteSets, SequencesExt

CONSTANTS
  Keys,                \* the keys of the requests
  Sizes,               \* sizes of the tuples inserted: slot, header and payload
  PageIDs,             \* enough page identifiers for every tree over Keys
  LEAF_SPACE,          \* PAGE_SIZE - LEAF_PAGE_HEADER_SIZE
  SLOT_SIZE,           \* part of a tuple's size that is its slot
  MIN_LEAF_PAGE_DATA,  \* room a tuple must find in its leaf, unless it is smaller
  MAX_LEAF_PAGE_DATA,  \* the most of a tuple that is kept in the leaf
  LEAF_UNDERFLOW_THRESHOLD,
  NUM_KEY_SLOTS,       \* keys an internal page has room for
  INTERNAL_UNDERFLOW_THRESHOLD,  \* an internal page with so many keys has underflown
  WORD,                \* 2^w of the unsigned arithmetic on internal pages
  Residues             \* what CheckUnderflow may find in its uninitialised argument

NoPage == 0

ASSUME BTreeAssumption ==
  /\ Keys \subseteq Nat
  /\ IsFiniteSet(PageIDs) /\ PageIDs \subseteq Nat \ {NoPage}
  /\ Sizes \subseteq Nat /\ \A s \in Sizes : s > SLOT_SIZE
  /\ {LEAF_SPACE, SLOT_SIZE, MIN_LEAF_PAGE_DATA, MAX_LEAF_PAGE_DATA,
      LEAF_UNDERFLOW_THRESHOLD} \subseteq Nat
  /\ SLOT_SIZE < MIN_LEAF_PAGE_DATA /\ MIN_LEAF_PAGE_DATA <= MAX_LEAF_PAGE_DATA
  /\ MIN_LEAF_PAGE_DATA + MAX_LEAF_PAGE_DATA <= LEAF_SPACE
  /\ 2 * LEAF_UNDERFLOW_THRESHOLD + MAX_LEAF_PAGE_DATA <= LEAF_SPACE
  /\ \/ \A s \in Sizes : s >= MIN_LEAF_PAGE_DATA
     \/ /\ \A s \in Sizes : s >= 3 * SLOT_SIZE
        /\ MIN_LEAF_PAGE_DATA >= 3 * SLOT_SIZE
        /\ 4 * (MIN_LEAF_PAGE_DATA + MAX_LEAF_PAGE_DATA) <= LEAF_SPACE
  /\ INTERNAL_UNDERFLOW_THRESHOLD \in Nat /\ WORD \in Nat
  /\ 2 * INTERNAL_UNDERFLOW_THRESHOLD + 2 = NUM_KEY_SLOTS
  /\ NUM_KEY_SLOTS < WORD
  /\ Residues \subseteq 0..(WORD - 1)

VARIABLES
  pages,    \* page identifier -> page
  root,     \* root_page_id, in memory and on the database's meta page
  request,  \* the call under way: its kind, key and (insert) size
  pc,       \* idle, or what the call is doing
  cur, stack, report, to_write_page,
  answer,   \* what the call will return
  pins,     \* pages requested and not yet released, with how many times
  unsaved   \* pages modified and not yet released as dirty

tree  == <<pages, root>>
frame == <<cur, stack, report, to_write_page>>
pool  == <<pins, unsaved>>
vars  == <<tree, request, pc, frame, answer, pool>>

-----------------------------------------------------------------------------
\* Pages.

Leaf(tuples, left, right) == [type |-> "leaf", tuples |-> tuples,
                              left_pid |-> left, right_pid |-> right]
Internal(keys, children) == [type |-> "internal", keys |-> keys, children |-> children]
Free == [type |-> "free"]

IsLeaf(p) == pages[p].type = "leaf"
IsInternal(p) == pages[p].type = "internal"

\* AllocateNewPage hands out a page that is in no use.
NewPage == CHOOSE p \in PageIDs : /\ pages[p] = Free
                                  /\ \A q \in PageIDs : pages[q] = Free => p <= q

Least(a, b) == IF a < b THEN a ELSE b

\* Number of keys up to k: what std::upper_bound points behind.
UpTo(keys, k) == Cardinality({i \in DOMAIN keys : keys[i] <= k})

\* Slip: a key equal to the boundary goes to the left.
GetChildPageID_LowerBound(p, k) ==
  pages[p].children[Cardinality({n \in DOMAIN pages[p].keys : pages[p].keys[n] < k}) + 1]

\* The child to continue with.
GetChildPageID(p, k) == pages[p].children[UpTo(pages[p].keys, k) + 1]

KeysOf(tuples) == [i \in DOMAIN tuples |-> tuples[i].key]
Space(tuples) == FoldLeft(LAMBDA sum, t : sum + t.size, 0, tuples)
FirstTuples(tuples, n) == SubSeq(tuples, 1, n)
LastTuples(tuples, n) == SubSeq(tuples, Len(tuples) - n + 1, Len(tuples))

\* A tuple that does not fit is cut, and the rest goes to overflow pages.
WriteChunkLeaf(tuples, t) ==
  LET size == Least(Least(t.size, MAX_LEAF_PAGE_DATA), LEAF_SPACE - Space(tuples))
  IN  InsertAt(tuples, UpTo(KeysOf(tuples), t.key) + 1, [t EXCEPT !.size = size])

WriteAll(tuples, others) == FoldLeft(WriteChunkLeaf, tuples, others)

\* How many tuples stay in a leaf that is split: as many as it takes for their
\* payload to exceed half the page, else half of them.
Kept(tuples) ==
  LET Payload(n) == Space(FirstTuples(tuples, n)) - n * SLOT_SIZE
      over == {n \in DOMAIN tuples : Payload(n) > LEAF_SPACE \div 2}
      n == CHOOSE m \in over : \A o \in over : m <= o
  IN  IF over = {} \/ over = {Len(tuples)} THEN Len(tuples) \div 2 ELSE n

\* Slip: the tuple at the place of the key goes, whatever its key.
DeleteTuple_NoCompare(tuples, k) ==
  LET n == Cardinality({m \in DOMAIN tuples : tuples[m].key < k}) + 1
  IN  IF n \in DOMAIN tuples THEN RemoveAt(tuples, n) ELSE tuples

\* The tuple that std::lower_bound finds is compared with the key first.
DeleteTuple(tuples, k) ==
  LET n == Cardinality({m \in DOMAIN tuples : tuples[m].key < k}) + 1
  IN  IF n \in DOMAIN tuples /\ tuples[n].key = k THEN RemoveAt(tuples, n) ELSE tuples

\* Slip: the lender must stay half full.
Lends_HalfFull(tuples, taken, needed) ==
  LET enough == {n \in DOMAIN tuples : Space(taken[n]) >= needed}
      n == CHOOSE m \in enough : \A o \in enough : m <= o
  IN  IF enough = {} THEN 0
      ELSE IF Space(tuples) - Space(taken[n]) > LEAF_SPACE \div 2 THEN n ELSE 0

\* The fewest tuples, taken from one end (taken[n] are n of them), that make up for
\* what is needed; none unless the lender keeps more than an underflow.
Lends(tuples, taken, needed) ==
  LET enough == {n \in DOMAIN tuples : Space(taken[n]) >= needed}
      n == CHOOSE m \in enough : \A o \in enough : m <= o
  IN  IF enough = {} THEN 0
      ELSE IF Space(tuples) - Space(taken[n]) > LEAF_UNDERFLOW_THRESHOLD THEN n ELSE 0

CanLendFromRight(p, needed) ==
  LET ts == pages[p].tuples IN Lends(ts, [n \in DOMAIN ts |-> LastTuples(ts, n)], needed)
CanLendFromLeft(p, needed) ==
  LET ts == pages[p].tuples IN Lends(ts, [n \in DOMAIN ts |-> FirstTuples(ts, n)], needed)

\* Slip: the lender may be left with too few keys.
CanLend_OffByOne(p, pairs) ==
  (Len(pages[p].keys) - pairs) % WORD >= INTERNAL_UNDERFLOW_THRESHOLD

\* Slip: a lender must have one key more to spare.
CanLend_TooStrict(p, pairs) ==
  (Len(pages[p].keys) - pairs) % WORD > INTERNAL_UNDERFLOW_THRESHOLD + 1

\* InternalPage::CanLend, with the subtraction of unsigned numbers.
CanLend(p, pairs) == (Len(pages[p].keys) - pairs) % WORD > INTERNAL_UNDERFLOW_THRESHOLD

-----------------------------------------------------------------------------
\* The buffer pool, as the tree uses it.

Count(p, S) == IF p \in S THEN 1 ELSE 0

\* A step requests some pages and releases some, clean or dirty.  Pages dropped
\* from the tree are not read again.
Pool(requested, clean, dirty) ==
  LET changed == {p \in PageIDs : pages'[p] # pages[p]} IN
  /\ pins' = [p \in PageIDs |-> pins[p] + Count(p, requested)
                                        - Count(p, clean) - Count(p, dirty)]
  /\ unsaved' = {p \in (unsaved \cup changed) \ dirty : pages'[p] # Free}

NoRequest == [kind |-> "none"]
NoReport == [type |-> "none"]

Init == /\ \E p \in PageIDs :
             /\ root = p /\ \A q \in PageIDs : p <= q
             /\ pages = [q \in PageIDs |-> IF q = p THEN Leaf(<<>>, NoPage, NoPage)
                                           ELSE Free]
        /\ request = NoRequest /\ pc = "idle"
        /\ cur = NoPage /\ stack = <<>> /\ report = NoReport /\ to_write_page = NoPage
        /\ answer = FALSE
        /\ pins = [p \in PageIDs |-> 0] /\ unsaved = {}

\* The leaves from left to right, along right_pid.
LeftmostLeaf ==
  LET down[p \in PageIDs] == IF IsInternal(p) THEN down[pages[p].children[1]] ELSE p
  IN  down[root]

Chain ==
  LET along[p \in PageIDs] == IF IsLeaf(p) /\ pages[p].right_pid # NoPage
                              THEN <<p>> \o along[pages[p].right_pid] ELSE <<p>>
  IN  along[LeftmostLeaf]

AllTuples == LET chain == Chain
             IN  FlattenSeq([n \in DOMAIN chain |-> pages[chain[n]].tuples])
StoredKeys == {t.key : t \in ToSet(AllTuples)}

-----------------------------------------------------------------------------
\* A call starts, and returns.

\* The tree does not look for the key it inserts; here keys are unique.
Call(kind, k, s) ==
  /\ pc = "idle"
  /\ kind = "insert" => k \notin StoredKeys
  /\ request' = [kind |-> kind, key |-> k, size |-> s]
  /\ pc' = kind
  /\ cur' = root
  /\ UNCHANGED <<tree, stack, report, to_write_page, answer, pool>>

Return ==
  /\ pc = "return"
  /\ request' = NoRequest
  /\ pc' = "idle"
  /\ answer' = FALSE
  /\ UNCHANGED <<tree, frame, pool>>

\* The innermost frame requests an internal page, and keeps it.
Descend ==
  /\ pc \in {"insert", "delete"}
  /\ IsInternal(cur)
  /\ stack' = Append(stack, cur)
  /\ cur' = GetChildPageID(cur, request.key)
  /\ UNCHANGED <<tree, request, pc, report, to_write_page, answer>>
  /\ Pool({cur}, {}, {})

\* The frame for the last page of the stack returns what "reported" says.
Ascend(reported) ==
  /\ cur' = Last(stack)
  /\ stack' = Front(stack)
  /\ report' = reported

-----------------------------------------------------------------------------
\* Insert: FindPageToWrite.

NoSplit == [type |-> "no split"]
Split(p, k) == [type |-> "split", new_page_id |-> p, boundary_key |-> k]

\* The leaf has room, also for the smallest part of a tuple that may stay in it.
Fits(p) == Least(MIN_LEAF_PAGE_DATA, request.size) <= LEAF_SPACE - Space(pages[p].tuples)

FindFits ==
  /\ pc = "insert"
  /\ IsLeaf(cur)
  /\ Fits(cur)
  /\ to_write_page' = cur
  /\ report' = NoSplit
  /\ pc' = "unwind"
  /\ UNCHANGED <<tree, request, cur, stack, answer>>
  /\ Pool({cur}, {}, {})

\* Slip: the new leaf is taken for the last one.
HandleSplit_LosesRight(p, new) ==
  LET ts == pages[p].tuples IN
  [pages EXCEPT ![p] = Leaf(FirstTuples(ts, Kept(ts)), @.left_pid, new),
                ![new] = Leaf(LastTuples(ts, Len(ts) - Kept(ts)), p, NoPage)]

\* LeafPage::HandleSplit: the last tuples move to the new leaf.
HandleSplit(p, new) ==
  LET ts == pages[p].tuples IN
  [pages EXCEPT ![p] = Leaf(FirstTuples(ts, Kept(ts)), @.left_pid, new),
                ![new] = Leaf(LastTuples(ts, Len(ts) - Kept(ts)), p, pages[p].right_pid)]

\* Else it is split; the tuple goes to one half, the other is released.
FindSplit ==
  LET ts == pages[cur].tuples
      new == NewPage
      boundary == ts[Kept(ts) + 1].key
      other == IF request.key >= boundary THEN cur ELSE new
  IN
  /\ pc = "insert"
  /\ IsLeaf(cur)
  /\ ~Fits(cur)
  /\ pages' = HandleSplit(cur, new)
  /\ to_write_page' = IF request.key >= boundary THEN new ELSE cur
  /\ report' = Split(new, boundary)
  /\ pc' = "unwind"
  /\ UNCHANGED <<root, request, cur, stack, answer>>
  /\ Pool({cur, new}, {}, {other})

\* Keys and children of internal page p with one more of each.
InsertKeyValue(p, k, child) ==
  LET i == UpTo(pages[p].keys, k)
  IN  Internal(InsertAt(pages[p].keys, i + 1, k), InsertAt(pages[p].children, i + 2, child))

\* Slip: the page is kept.
UnwindNoSplit_KeepsPin ==
  /\ pc = "unwind"
  /\ stack # <<>>
  /\ report = NoSplit
  /\ Ascend(NoSplit)
  /\ UNCHANGED <<tree, request, pc, to_write_page, answer, pool>>

UnwindNoSplit ==
  /\ pc = "unwind"
  /\ stack # <<>>
  /\ report = NoSplit
  /\ Ascend(NoSplit)
  /\ UNCHANGED <<tree, request, pc, to_write_page, answer>>
  /\ Pool({}, {Last(stack)}, {})

\* Slip: the changed parent is released as clean.
UnwindInsert_Clean ==
  LET p == Last(stack) IN
  /\ pc = "unwind"
  /\ stack # <<>>
  /\ report.type = "split"
  /\ Len(pages[p].keys) < NUM_KEY_SLOTS
  /\ pages' = [pages EXCEPT ![p] = InsertKeyValue(p, report.boundary_key, report.new_page_id)]
  /\ Ascend(NoSplit)
  /\ UNCHANGED <<root, request, pc, to_write_page, answer>>
  /\ Pool({}, {p}, {})

\* There is a free slot in the parent.
UnwindInsert ==
  LET p == Last(stack) IN
  /\ pc = "unwind"
  /\ stack # <<>>
  /\ report.type = "split"
  /\ Len(pages[p].keys) < NUM_KEY_SLOTS
  /\ pages' = [pages EXCEPT ![p] = InsertKeyValue(p, report.boundary_key, report.new_page_id)]
  /\ Ascend(NoSplit)
  /\ UNCHANGED <<root, request, pc, to_write_page, answer>>
  /\ Pool({}, {}, {p})

\* InternalPage::HandleSplit: the middle key moves up.
UnwindSplit ==
  LET p == Last(stack)
      new == NewPage
      full == InsertKeyValue(p, report.boundary_key, report.new_page_id)
      m == Len(full.keys) \div 2
  IN
  /\ pc = "unwind"
  /\ stack # <<>>
  /\ report.type = "split"
  /\ Len(pages[p].keys) = NUM_KEY_SLOTS
  /\ pages' = [pages EXCEPT
       ![p] = Internal(SubSeq(full.keys, 1, m), SubSeq(full.children, 1, m + 1)),
       ![new] = Internal(SubSeq(full.keys, m + 2, Len(full.keys)),
                         SubSeq(full.children, m + 2, Len(full.children)))]
  /\ Ascend(Split(new, full.keys[m + 1]))
  /\ UNCHANGED <<root, request, pc, to_write_page, answer>>
  /\ Pool({new}, {}, {p, new})

\* Insert: a root that was split gets a parent.
NewRoot ==
  LET new == NewPage IN
  /\ pc = "unwind"
  /\ stack = <<>>
  /\ report.type = "split"
  /\ pages' = [pages EXCEPT
       ![new] = Internal(<<report.boundary_key>>, <<root, report.new_page_id>>)]
  /\ root' = new
  /\ report' = NoSplit
  /\ UNCHANGED <<request, pc, cur, stack, to_write_page, answer>>
  /\ Pool({new}, {}, {new})

WriteTuple ==
  /\ pc = "unwind"
  /\ stack = <<>>
  /\ report = NoSplit
  /\ pages' = [pages EXCEPT ![to_write_page].tuples =
                 WriteChunkLeaf(@, [key |-> request.key, size |-> request.size])]
  /\ answer' = TRUE
  /\ pc' = "return"
  /\ cur' = NoPage /\ report' = NoReport /\ to_write_page' = NoPage
  /\ UNCHANGED <<root, request, stack>>
  /\ Pool({}, {}, {to_write_page})

FindPageToWrite == FindFits \/ FindSplit \/ UnwindNoSplit \/ UnwindInsert \/ UnwindSplit
Insert == FindPageToWrite \/ NewRoot \/ WriteTuple

-----------------------------------------------------------------------------
\* Search.  It holds one page at a time.

\* Slip: the page is searched again instead of its child.
SearchDescend_SamePage ==
  /\ pc = "search"
  /\ IsInternal(cur)
  /\ UNCHANGED vars

SearchDescend ==
  /\ pc = "search"
  /\ IsInternal(cur)
  /\ cur' = GetChildPageID(cur, request.key)
  /\ UNCHANGED <<tree, request, pc, stack, report, to_write_page, answer, pool>>

SearchLeaf ==
  /\ pc = "search"
  /\ IsLeaf(cur)
  /\ answer' = (\E i \in DOMAIN pages[cur].tuples : pages[cur].tuples[i].key = request.key)
  /\ pc' = "return"
  /\ cur' = NoPage
  /\ UNCHANGED <<tree, request, stack, report, to_write_page, pool>>

Search == SearchDescend \/ SearchLeaf

-----------------------------------------------------------------------------
\* Delete.

Status(type, underflown, size) ==
  [type |-> type, underflown |-> underflown, current_size |-> size]
Settled == Status("InternalPage", FALSE, 0)

\* The leaf is looked at, whether or not it had the key.
DeleteLeaf ==
  LET kept == DeleteTuple(pages[cur].tuples, request.key)
      found == kept # pages[cur].tuples
      used == Space(kept)
  IN
  /\ pc = "delete"
  /\ IsLeaf(cur)
  /\ pages' = [pages EXCEPT ![cur].tuples = kept]
  /\ answer' = found
  /\ report' = Status("LeafPage", used <= LEAF_UNDERFLOW_THRESHOLD, used)
  /\ pc' = "rebalance"
  /\ UNCHANGED <<root, request, cur, stack, to_write_page>>
  /\ IF found THEN Pool({cur}, {}, {cur}) ELSE Pool({cur}, {cur}, {})

DeleteReturns ==
  /\ pc = "rebalance"
  /\ stack = <<>>
  /\ pc' = "return"
  /\ cur' = NoPage /\ report' = NoReport
  /\ UNCHANGED <<tree, request, stack, to_write_page, answer, pool>>

\* The innermost frame is that of internal page parent; cur is the child that
\* returned to it.
parent == Last(stack)
parentPage == pages[parent]
childIndex == CHOOSE n \in DOMAIN parentPage.children : parentPage.children[n] = cur
HasLeft == childIndex > 1
HasRight == childIndex < Len(parentPage.children)
leftSibling == parentPage.children[childIndex - 1]
rightSibling == parentPage.children[childIndex + 1]

Returned(type) == pc = "rebalance" /\ stack # <<>> /\ report.type = type
Underflown(type) == Returned(type) /\ report.underflown

\* The parent, with key k between its n-th child and the next.
SetNewBoundaryKey(n, k) == [parentPage EXCEPT !.keys[n] = k]

NoUnderflow ==
  /\ Returned("LeafPage") \/ Returned("InternalPage")
  /\ ~report.underflown
  /\ Ascend(Settled)
  /\ UNCHANGED <<tree, request, pc, to_write_page, answer>>
  /\ Pool({}, {}, {parent})

\* An only child is left as it is, and the call is reported to have failed.
NoSibling ==
  /\ Underflown("LeafPage") \/ Underflown("InternalPage")
  /\ ~HasLeft /\ ~HasRight
  /\ Ascend(Settled)
  /\ answer' = FALSE
  /\ UNCHANGED <<tree, request, pc, to_write_page>>
  /\ Pool({}, {parent}, {})

\* A leaf borrows tuples.
LeafNeeded == LEAF_UNDERFLOW_THRESHOLD + 1 - report.current_size
LeftLeafLends == IF HasLeft THEN CanLendFromRight(leftSibling, LeafNeeded) ELSE 0
RightLeafLends == IF HasRight THEN CanLendFromLeft(rightSibling, LeafNeeded) ELSE 0

LeafLeftBorrow ==
  LET n == LeftLeafLends
      kept == Len(pages[leftSibling].tuples) - n
      taken == LastTuples(pages[leftSibling].tuples, n)
      filled == WriteAll(pages[cur].tuples, Reverse(taken))
  IN
  /\ Underflown("LeafPage")
  /\ n > 0
  /\ pages' = [pages EXCEPT ![leftSibling].tuples = FirstTuples(@, kept),
                            ![cur].tuples = filled,
                            ![parent] = SetNewBoundaryKey(childIndex - 1, filled[1].key)]
  /\ Ascend(Settled)
  /\ UNCHANGED <<root, request, pc, to_write_page, answer>>
  /\ Pool({leftSibling, cur}, {}, {leftSibling, cur, parent})

LeafRightBorrow ==
  LET n == RightLeafLends
      taken == FirstTuples(pages[rightSibling].tuples, n)
      kept == LastTuples(pages[rightSibling].tuples, Len(pages[rightSibling].tuples) - n)
  IN
  /\ Underflown("LeafPage")
  /\ LeftLeafLends = 0
  /\ n > 0
  /\ pages' = [pages EXCEPT ![rightSibling].tuples = kept,
                            ![cur].tuples = WriteAll(@, taken),
                            ![parent] = SetNewBoundaryKey(childIndex, kept[1].key)]
  /\ Ascend(Settled)
  /\ UNCHANGED <<root, request, pc, to_write_page, answer>>
  /\ Pool({rightSibling, cur}, {}, {rightSibling, cur, parent})

\* The merges take two adjacent children of the parent.
MergeAt == IF HasLeft THEN childIndex - 1 ELSE childIndex
toPage == parentPage.children[MergeAt]
fromPage == parentPage.children[MergeAt + 1]

\* Slip: the child in front of the key goes.
DeleteKeyAndChildPtr_WrongChild(n) ==
  Internal(RemoveAt(parentPage.keys, n), RemoveAt(parentPage.children, n))

\* The parent without its n-th key and the child behind it.
DeleteKeyAndChildPtr(n) ==
  Internal(RemoveAt(parentPage.keys, n), RemoveAt(parentPage.children, n + 1))

LeafMergeDue == /\ Underflown("LeafPage")
                /\ HasLeft \/ HasRight
                /\ LeftLeafLends = 0 /\ RightLeafLends = 0

\* The pages after the leaves were merged; the one behind them learns of it.
LeavesMerged(shrunk) ==
  LET behind == pages[fromPage].right_pid
      merged == Leaf(WriteAll(pages[toPage].tuples, pages[fromPage].tuples),
                     pages[toPage].left_pid, behind)
      told == IF behind = NoPage THEN pages ELSE [pages EXCEPT ![behind].left_pid = toPage]
  IN  [told EXCEPT ![toPage] = merged, ![fromPage] = Free, ![parent] = shrunk]
Behind == {pages[fromPage].right_pid} \ {NoPage}

\* InternalPage::CheckUnderflow adds to what usedspace happens to contain.
CheckUnderflow(p, residue) ==
  LET usedspace == (residue + Len(p.keys)) % WORD
  IN  Status("InternalPage", usedspace <= INTERNAL_UNDERFLOW_THRESHOLD, usedspace)

LeafMerge ==
  LET shrunk == DeleteKeyAndChildPtr(MergeAt) IN
  /\ LeafMergeDue
  /\ parent # root \/ shrunk.keys # <<>>
  /\ pages' = LeavesMerged(shrunk)
  /\ \E residue \in Residues : Ascend(CheckUnderflow(shrunk, residue))
  /\ UNCHANGED <<root, request, pc, to_write_page, answer>>
  /\ Pool({toPage, fromPage} \cup Behind, {fromPage}, {toPage, parent} \cup Behind)

\* The last two leaves: the merged one is the root, and the frames are done.
RootLeafMerge ==
  /\ LeafMergeDue
  /\ parent = root /\ Len(parentPage.keys) = 1
  /\ pages' = LeavesMerged(Free)
  /\ root' = toPage
  /\ Ascend(Status("InvalidPage", FALSE, 0))
  /\ UNCHANGED <<request, pc, to_write_page, answer>>
  /\ Pool({toPage, fromPage} \cup Behind, {fromPage, parent}, {toPage} \cup Behind)

\* An internal page borrows pairs.
PairsNeeded == INTERNAL_UNDERFLOW_THRESHOLD + 1 - report.current_size
LeftLends == HasLeft /\ CanLend(leftSibling, PairsNeeded)
RightLends == HasRight /\ CanLend(rightSibling, PairsNeeded)

InternalLeftBorrow ==
  LET n == PairsNeeded
      lender == pages[leftSibling]
      k == Len(lender.keys)
  IN
  /\ Underflown("InternalPage")
  /\ LeftLends
  /\ pages' = [pages EXCEPT
       ![leftSibling] = Internal(SubSeq(lender.keys, 1, k - n),
                                 SubSeq(lender.children, 1, k + 1 - n)),
       ![cur] = Internal(SubSeq(lender.keys, k - n + 2, k)
                           \o <<parentPage.keys[childIndex - 1]>> \o @.keys,
                         SubSeq(lender.children, k + 2 - n, k + 1) \o @.children),
       ![parent] = SetNewBoundaryKey(childIndex - 1, lender.keys[k - n + 1])]
  /\ Ascend(Settled)
  /\ UNCHANGED <<root, request, pc, to_write_page, answer>>
  /\ Pool({leftSibling, cur}, {}, {leftSibling, cur, parent})

InternalRightBorrow ==
  LET n == PairsNeeded
      lender == pages[rightSibling]
      k == Len(lender.keys)
  IN
  /\ Underflown("InternalPage")
  /\ ~LeftLends
  /\ RightLends
  /\ pages' = [pages EXCEPT
       ![cur] = Internal(@.keys \o <<parentPage.keys[childIndex]>> \o SubSeq(lender.keys, 1, n - 1),
                         @.children \o SubSeq(lender.children, 1, n)),
       ![rightSibling] = Internal(SubSeq(lender.keys, n + 1, k),
                                  SubSeq(lender.children, n + 1, k + 1)),
       ![parent] = SetNewBoundaryKey(childIndex, lender.keys[n])]
  /\ Ascend(Settled)
  /\ UNCHANGED <<root, request, pc, to_write_page, answer>>
  /\ Pool({rightSibling, cur}, {}, {rightSibling, cur, parent})

InternalMergeDue == /\ Underflown("InternalPage")
                    /\ HasLeft \/ HasRight
                    /\ ~LeftLends /\ ~RightLends

\* The parent's key comes down between them.  Even a root that loses its last key
\* remains the root.
InternalMerge ==
  LET shrunk == DeleteKeyAndChildPtr(MergeAt) IN
  /\ InternalMergeDue
  /\ pages' = [pages EXCEPT
       ![toPage] = Internal(@.keys \o <<parentPage.keys[MergeAt]>> \o pages[fromPage].keys,
                        @.children \o pages[fromPage].children),
       ![fromPage] = Free,
       ![parent] = shrunk]
  /\ \E residue \in Residues : Ascend(CheckUnderflow(shrunk, residue))
  /\ UNCHANGED <<root, request, pc, to_write_page, answer>>
  /\ Pool({toPage, fromPage}, {fromPage}, {toPage, parent})

RebalanceLeaf == LeafLeftBorrow \/ LeafRightBorrow \/ LeafMerge \/ RootLeafMerge
RebalanceInternal == InternalLeftBorrow \/ InternalRightBorrow \/ InternalMerge
Delete == \/ DeleteLeaf \/ DeleteReturns \/ NoUnderflow \/ NoSibling
          \/ RebalanceLeaf \/ RebalanceInternal

-----------------------------------------------------------------------------
Step == Descend \/ Insert \/ Search \/ Delete \/ Return

Calls == \E k \in Keys : \/ \E s \in Sizes : Call("insert", k, s)
                         \/ Call("delete", k, 0)
                         \/ Call("search", k, 0)

Next == Calls \/ Step

\* A call that was made goes on: the tree runs in the server's thread.
Spec == Init /\ [][Next]_vars /\ WF_vars(Step)

-----------------------------------------------------------------------------
\* Properties.

PageType(p) ==
  \/ /\ IsLeaf(p)
     /\ pages[p].tuples \in Seq([key : Keys, size : Nat \ {0}])
     /\ {pages[p].left_pid, pages[p].right_pid} \subseteq PageIDs \cup {NoPage}
  \/ /\ IsInternal(p)
     /\ pages[p].keys \in Seq(Keys)
     /\ pages[p].children \in Seq(PageIDs)
     /\ Len(pages[p].children) = Len(pages[p].keys) + 1
  \/ pages[p] = Free

\* The state keeps its shape; nothing refers to a page that is in no use.
TypeOK ==
  /\ \A p \in PageIDs : PageType(p)
  /\ \A p \in PageIDs : IsInternal(p) => Free \notin {pages[c] : c \in ToSet(pages[p].children)}
  /\ root \in PageIDs /\ pages[root] # Free
  /\ pc \in {"idle", "insert", "unwind", "delete", "rebalance", "search", "return"}
  /\ request # NoRequest => request.key \in Keys
  /\ cur \in PageIDs \cup {NoPage} /\ to_write_page \in PageIDs \cup {NoPage}
  /\ stack \in Seq(PageIDs)
  /\ answer \in BOOLEAN
  /\ pins \in [PageIDs -> Nat]
  /\ unsaved \subseteq PageIDs

\* The leaves below the root, from left to right.
BottomLevel ==
  LET below[p \in PageIDs] ==
        IF IsInternal(p)
        THEN FlattenSeq([n \in DOMAIN pages[p].children |-> below[pages[p].children[n]]])
        ELSE <<p>>
  IN  below[root]

EquallyDeep ==
  LET depth[p \in PageIDs] == IF IsInternal(p) THEN 1 + depth[pages[p].children[1]] ELSE 0
  IN  \A p \in PageIDs : IsInternal(p) =>
        \A c \in ToSet(pages[p].children) : depth[c] = depth[p] - 1

\* Where a search for k ends.
Found(k) ==
  LET down[p \in PageIDs] == IF IsInternal(p) THEN down[GetChildPageID(p, k)] ELSE p
  IN  down[root]

Ascending(keys) == \A m, n \in DOMAIN keys : m < n => keys[m] < keys[n]

\* The chain of leaves survives every split and merge (right_pid in HandleSplit
\* and MergePages): it has all keys, in order and once, also while the pages above
\* do not lead to a new leaf yet; when they do, it is the bottom of the tree.
ChainInOrder == /\ Ascending(KeysOf(AllTuples))
                /\ pc # "unwind" => Chain = BottomLevel

\* Whatever splits, borrowed entries and merges did to internal pages
\* (SetNewBoundaryKey, HandleSplit, DeleteKeyAndChildPtr), all leaves are equally
\* deep, and a search for a stored key ends in the leaf that has it, even between
\* two levels of a rebalancing.
SearchTree ==
  pc # "unwind" =>
    /\ EquallyDeep
    /\ \A p \in PageIDs : IsInternal(p) => Ascending(pages[p].keys)
    /\ \A p \in ToSet(Chain) : \A t \in ToSet(pages[p].tuples) : Found(t.key) = p

\* Two leaves are only merged when all their tuples fit into one (MergePages would
\* throw), and the leaf a tuple is written to has the room FindPageToWrite asked for,
\* also after it was split.
TuplesFit ==
  /\ LeafMergeDue => Space(pages[toPage].tuples) + Space(pages[fromPage].tuples) <= LEAF_SPACE
  /\ pc = "unwind" => Fits(to_write_page)

\* The keys of an internal page never run into the children behind them: a split comes
\* in time, and where InternalPage::CanLend finds that neither sibling can spare pairs,
\* one page has room for the keys of two and the one between.
KeysFit ==
  /\ \A p \in PageIDs : IsInternal(p) => Len(pages[p].keys) <= NUM_KEY_SLOTS
  /\ InternalMergeDue =>
       Len(pages[toPage].keys) + 1 + Len(pages[fromPage].keys) <= NUM_KEY_SLOTS

\* "Every underflow can always be resolved through redistribution or merging":
\* once a call is done with them, only an only child has too few keys.
InternalOccupied ==
  pc # "rebalance" =>
    \A p \in PageIDs : IsInternal(p) /\ pages[p].keys # <<>> =>
      \A c \in ToSet(pages[p].children) :
        IsInternal(c) => Len(pages[c].keys) > INTERNAL_UNDERFLOW_THRESHOLD

\* A page is pinned exactly while a frame of the recursion, or the insertion to
\* come, uses it: every path through the code releases what it requested.
PinsMatchUse ==
  pins = [p \in PageIDs |-> Cardinality({n \in DOMAIN stack : stack[n] = p})
                              + (IF p = to_write_page THEN 1 ELSE 0)]

\* A page of the tree that was modified is released as dirty before its last pin
\* goes, which is what the buffer pool relies on: no change is lost by an eviction.
ModifiedArePinned == \A p \in unsaved : pins[p] > 0

\* What is stored, and how a call affects it: the tree implements the dictionary.
Contents == LET ts == AllTuples
                At(k) == CHOOSE n \in DOMAIN ts : ts[n].key = k
            IN  [k \in StoredKeys |-> ts[At(k)].size]

D == INSTANCE Dictionary WITH
       Requests <- [kind : {"insert", "delete", "search"}, key : Keys, size : Sizes \cup {0}],
       Tuples <- 1..MAX_LEAF_PAGE_DATA,
       contents <- Contents,
       applied <- pc \in {"rebalance", "return"}

\* Each request takes effect once; tuples move between pages whole, none appears,
\* disappears or is shortened on the way; searches answer right, and a delete that
\* says it removed its key did.
ImplementsDictionary == D!Spec

\* Every call returns: the way down ends in a leaf, the way up at the root.
CallsReturn == pc # "idle" ~> pc = "idle"

\* A delete that removed its key says so (tests/b-tree.cpp).
DeletedIsReported == [][pc = "rebalance" /\ answer => answer']_vars

\* "No merge can ever overflow the destination page" (Architecture.md).
NoMergeOverflows ==
  /\ LeafMergeDue => Space(pages[toPage].tuples) + Space(pages[fromPage].tuples) <= LEAF_SPACE
  /\ InternalMergeDue =>
       Len(pages[toPage].keys) + 1 + Len(pages[fromPage].keys) <= NUM_KEY_SLOTS
=============================================================================
