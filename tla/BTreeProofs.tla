------------------------------ MODULE BTreeProofs ------------------------------
(***************************************************************************)
(* What is proved of the order of the B+ tree, and what follows for it from *)
(* its shape and its order, whatever its sizes and keys.                   *)
(*                                                                         *)
(* Each page is for a range of numbers, the keys of an internal page divide *)
(* its range among its children, a leaf has its tuples in order and within *)
(* its range, and right_pid leads from each leaf to the one for the next   *)
(* range.  It holds between any two steps; while a page that was split off *)
(* is not known to its parent, the two halves share what the parent takes  *)
(* for one.  Each step keeps this order.                                   *)
(*                                                                         *)
(* Then walks in the tree reach all of it, the chain of leaves is its      *)
(* bottom and tells a call of Insert that the tree does not have its key,  *)
(* and a search ends in the leaf that has the key.  Then the pages that a  *)
(* call holds, the types of the state, and at last what the tree is for: it *)
(* implements a dictionary.                                                *)
(*                                                                         *)
(* A walk is a recursive function: where it goes is proved by induction on *)
(* the height of the pages, or on their place in the chain.                *)
(*                                                                         *)
(* The premises are those of module BTreeShape.                            *)
(***************************************************************************)
EXTENDS BTreeShape
-----------------------------------------------------------------------------
\* The order of the tree.  R says which keys a page is for, Q which keys lie below it
\* and below a page that was split off it and that its parent does not know yet.

Leaves == {p \in PageIDs : IsLeaf(p)}
Right == [p \in PageIDs |-> pages[p].right_pid]

Ranges(R) == \A p \in PageIDs : Used(p) => R[p] \in SUBSET Int /\ R[p] # {} /\ Convex(R[p])
LeafOrder(p, R) ==
  IsLeaf(p) => /\ Held(pages[p].tuples, R[p]) /\ Space(pages[p].tuples) <= LEAF_SPACE
               /\ pages[p].left_pid \in PageIDs \cup {NoPage}
NodeOrder(p, R, Q) == IsInternal(p) => Node(pages[p].keys, Kids(p), R[p], Q)

Ordered(R, Q) ==
  /\ Ranges(R)
  /\ \A p \in PageIDs : LeafOrder(p, R)
  /\ \A p \in PageIDs : NodeOrder(p, R, Q)
  /\ Chained(Leaves, Right, R)
  /\ Q[root] = Int

Cleft(R, Q) ==
  /\ ~Splitting => \A p \in PageIDs : Q[p] = R[p]
  /\ Splitting => /\ report.boundary_key \in Keys
                  /\ Q[cur] \in SUBSET Int /\ report.boundary_key \in Q[cur]
                  /\ R[cur] = Below(Q[cur], report.boundary_key)
                  /\ R[report.new_page_id] = From(Q[cur], report.boundary_key)
                  /\ \A p \in PageIDs : p # cur => Q[p] = R[p]

\* What a call looks for lies where it looks, and where it is about to write.
Missing(k) == \A p \in PageIDs : IsLeaf(p) => ~Has(pages[p].tuples, k)
Reported ==
  pc = "rebalance" /\ report.type = "LeafPage" =>
    /\ report.current_size = Space(pages[cur].tuples)
    /\ report.underflown => report.current_size <= LEAF_UNDERFLOW_THRESHOLD
Aimed(R) ==
  /\ pc = "idle" => request = NoRequest
  /\ pc # "idle" => request.key \in Keys
  /\ pc \in {"insert", "delete", "search"} => /\ cur \in PageIDs /\ Used(cur)
                                              /\ request.key \in R[cur]
  /\ pc \in {"insert", "unwind"} => request.size \in Sizes /\ Missing(request.key)
  /\ pc = "unwind" => request.key \in R[to_write_page] /\ Fits(to_write_page)
  /\ Reported

OInv == \E R, Q : Ordered(R, Q) /\ Cleft(R, Q) /\ Aimed(R)

-----------------------------------------------------------------------------
\* What a step leaves alone.

LEMMA OtherNode ==
  ASSUME Pages, NEW h, NEW up, NEW place, Tree(h, up, place),
         NEW p \in PageIDs, NEW R, NEW Q, NodeOrder(p, R, Q), NEW R2, NEW Q2,
         pages'[p] = pages[p] /\ R2[p] = R[p] /\ \A c \in PageIDs : up[c] = p => Q2[c] = Q[c]
  PROVE  NodeOrder(p, R2, Q2)'
<1> SUFFICES ASSUME IsInternal(p)' PROVE Node(pages'[p].keys, Kids(p)', R2[p], Q2)
  BY DEF NodeOrder
<1>1. IsInternal(p) /\ Kids(p)' = Kids(p)
  BY SameShape
<1>2. PageShape(p)
  BY DEF Pages
<1>3. Kids(p) \in Seq(PageIDs)
  BY <1>1, <1>2, Kinds
<1>4. \A i \in 1..Len(Kids(p)) : Kids(p)[i] \in PageIDs /\ up[Kids(p)[i]] = p
  <2> TAKE i \in 1..Len(Kids(p))
  <2>1. Kids(p)[i] \in PageIDs
    BY <1>3, ElementOfSeq
  <2>2. up[Kids(p)[i]] = p
    BY <1>1 DEF Tree, Holds
  <2> QED BY <2>1, <2>2
<1>5. \A i \in 1..Len(Kids(p)) : Q2[Kids(p)[i]] = Q[Kids(p)[i]]
  BY <1>4
<1>6. Node(pages[p].keys, Kids(p), R[p], Q)
  BY <1>1 DEF NodeOrder
<1>7. Node(pages[p].keys, Kids(p), R[p], Q2)
  BY <1>5, <1>6, NodeSame
<1> QED BY <1>1, <1>7

LEMMA OtherLeaf ==
  ASSUME NEW p \in PageIDs, NEW R, LeafOrder(p, R), NEW R2,
         pages'[p] = pages[p] /\ R2[p] = R[p]
  PROVE  LeafOrder(p, R2)'
BY DEF LeafOrder, IsLeaf

LEMMA ChainSame ==
  ASSUME NEW L, NEW N, NEW R, Chained(L, N, R), NEW N2, NEW R2,
         \A p \in L : N2[p] = N[p] /\ R2[p] = R[p]
  PROVE  Chained(L, N2, R2)
BY DEF Chained

\* A step that changes no page.
LEMMA OrderStays ==
  ASSUME NEW R, NEW Q, Ordered(R, Q), Cleft(R, Q), ~Splitting, ~Splitting',
         pages' = pages, root' = root
  PROVE  Ordered(R, Q)' /\ Cleft(R, Q)'
<1>1. \A p : /\ IsLeaf(p)' = IsLeaf(p) /\ IsInternal(p)' = IsInternal(p)
             /\ Used(p)' = Used(p) /\ Kids(p)' = Kids(p)
  BY DEF IsLeaf, IsInternal, Used, Kids
<1>2. Ranges(R)'
  BY <1>1 DEF Ordered, Ranges
<1>3. \A p \in PageIDs : LeafOrder(p, R)'
  BY <1>1 DEF Ordered, LeafOrder
<1>4. \A p \in PageIDs : NodeOrder(p, R, Q)'
  BY <1>1 DEF Ordered, NodeOrder
<1>5. Leaves' = Leaves /\ Right' = Right
  BY <1>1 DEF Leaves, Right
<1>6. Chained(Leaves, Right, R)'
  BY <1>5 DEF Ordered, Chained
<1>7. Q[root'] = Int
  BY DEF Ordered
<1>8. Cleft(R, Q)'
  BY DEF Cleft
<1> QED BY <1>2, <1>3, <1>4, <1>6, <1>7, <1>8 DEF Ordered

LEMMA MissingStays ==
  ASSUME NEW k, Missing(k), pages' = pages
  PROVE  Missing(k)'
BY DEF Missing, IsLeaf

-----------------------------------------------------------------------------
\* Steps that change no page.

LEMMA CallOrders ==
  ASSUME BInv, OInv, NEW kind \in {"insert", "delete", "search"}, NEW k \in Keys, NEW s,
         Call(kind, k, s), kind = "insert" => s \in Sizes /\ Missing(k)
  PROVE  OInv'
<1>1. PICK R, Q : Ordered(R, Q) /\ Cleft(R, Q) /\ Aimed(R)
  BY DEF OInv
<1>2. /\ pages' = pages /\ root' = root /\ pc = "idle" /\ pc' = kind /\ cur' = root
      /\ request' = [kind |-> kind, key |-> k, size |-> s]
  BY DEF Call, tree
<1>3. ~Splitting /\ ~Splitting'
  BY <1>2 DEF Splitting
<1>4. Ordered(R, Q)' /\ Cleft(R, Q)'
  BY <1>1, <1>2, <1>3, OrderStays
<1>5. request'.key = k /\ request'.size = s
  BY <1>2
<1>6. root \in PageIDs /\ Used(root)
  BY DEF BInv, Control
<1>7. k \in R[root]
  <2>1. Q[root] = Int /\ Q[root] = R[root]
    BY <1>1, <1>3, <1>6 DEF Ordered, Cleft
  <2>2. k \in Int
    BY Limits
  <2> QED BY <2>1, <2>2
<1>8. kind = "insert" => Missing(k)'
  BY <1>2, MissingStays
<1>9. \A p : Used(p)' = Used(p)
  BY <1>2 DEF Used, IsLeaf, IsInternal
<1>10. Aimed(R)'
  <2>1. pc' \notin {"idle", "unwind", "rebalance"}
    BY <1>2
  <2>2. cur' \in PageIDs /\ Used(cur)' /\ request'.key \in R[cur']
    BY <1>2, <1>5, <1>6, <1>7 DEF Used, IsLeaf, IsInternal
  <2>3. pc' \in {"insert", "unwind"} => request'.size \in Sizes /\ Missing(request.key)'
    BY <1>2, <1>5, <1>8 DEF Missing, IsLeaf
  <2>4. Reported'
    BY <2>1 DEF Reported
  <2> QED BY <1>5, <2>1, <2>2, <2>3, <2>4 DEF Aimed
<1> QED BY <1>4, <1>10 DEF OInv

LEMMA ReturnOrders == ASSUME OInv, Return PROVE OInv'
<1>1. PICK R, Q : Ordered(R, Q) /\ Cleft(R, Q) /\ Aimed(R)
  BY DEF OInv
<1>2. pages' = pages /\ root' = root /\ pc = "return" /\ pc' = "idle" /\ request' = NoRequest
  BY DEF Return, tree
<1>3. ~Splitting /\ ~Splitting'
  BY <1>2 DEF Splitting
<1>4. Ordered(R, Q)' /\ Cleft(R, Q)'
  BY <1>1, <1>2, <1>3, OrderStays
<1>5. Aimed(R)'
  BY <1>2 DEF Aimed, Reported
<1> QED BY <1>4, <1>5 DEF OInv

\* A key leads to a child that is for it.
LEMMA ChildIsFor ==
  ASSUME Pages, NEW h, NEW up, NEW place, Tree(h, up, place), NEW R, NEW Q, Ordered(R, Q),
         NEW p \in PageIDs, IsInternal(p), NEW k, k \in R[p],
         NEW c, c = GetChildPageID(p, k)
  PROVE  c \in PageIDs /\ Used(c) /\ up[c] = p /\ k \in Q[c]
<1>1. Node(pages[p].keys, Kids(p), R[p], Q)
  BY DEF Ordered, NodeOrder
<1>2. PICK u : u = UpTo(pages[p].keys, k)
  OBVIOUS
<1>3. u + 1 \in 1..Len(Kids(p)) /\ k \in Q[Kids(p)[u + 1]]
  BY <1>1, <1>2, WhichChild
<1>4. c = Kids(p)[u + 1]
  BY <1>2 DEF GetChildPageID, Kids
<1>5. Kids(p) \in Seq(PageIDs)
  BY Kinds DEF Pages
<1>6. c \in PageIDs
  BY <1>3, <1>4, <1>5, ElementOfSeq
<1>7. Used(c) /\ up[c] = p
  BY <1>3, <1>4 DEF Tree, Holds
<1> QED BY <1>3, <1>4, <1>6, <1>7

LEMMA DescendOrders == ASSUME BInv, OInv, Descend PROVE OInv'
<1>1. PICK R, Q : Ordered(R, Q) /\ Cleft(R, Q) /\ Aimed(R)
  BY DEF OInv
<1>2. PICK h, up, place : Structure(h, up, place)
  BY DEF BInv
<1>3. /\ pages' = pages /\ root' = root /\ pc' = pc /\ pc \in {"insert", "delete"}
      /\ cur' = GetChildPageID(cur, request.key) /\ IsInternal(cur) /\ request' = request
  BY DEF Descend, tree
<1>4. ~Splitting /\ ~Splitting'
  BY <1>3 DEF Splitting
<1>5. Ordered(R, Q)' /\ Cleft(R, Q)'
  BY <1>1, <1>3, <1>4, OrderStays
<1>6. cur \in PageIDs /\ request.key \in R[cur] /\ request.key \in Keys
  BY <1>1, <1>3 DEF Aimed
<1>7. cur' \in PageIDs /\ Used(cur') /\ request.key \in Q[cur']
  BY <1>1, <1>2, <1>3, <1>6, ChildIsFor DEF BInv, Structure
<1>8. request.key \in R[cur']
  BY <1>1, <1>4, <1>7 DEF Cleft
<1>9. Aimed(R)'
  <2>1. pc' \notin {"idle", "unwind", "rebalance"}
    BY <1>3
  <2>2. cur' \in PageIDs /\ Used(cur)' /\ request'.key \in R[cur']
    BY <1>3, <1>7, <1>8 DEF Used, IsLeaf, IsInternal
  <2>3. pc' \in {"insert", "unwind"} => request'.size \in Sizes /\ Missing(request.key)'
    BY <1>1, <1>3 DEF Aimed, Missing, IsLeaf
  <2>4. Reported'
    BY <2>1 DEF Reported
  <2> QED BY <1>3, <1>6, <2>1, <2>2, <2>3, <2>4 DEF Aimed
<1> QED BY <1>5, <1>9 DEF OInv

LEMMA SearchOrders == ASSUME BInv, OInv, Search PROVE OInv'
<1>1. PICK R, Q : Ordered(R, Q) /\ Cleft(R, Q) /\ Aimed(R)
  BY DEF OInv
<1>2. PICK h, up, place : Structure(h, up, place)
  BY DEF BInv
<1>3. /\ pages' = pages /\ root' = root /\ pc = "search" /\ request' = request
      /\ \/ pc' = "return"
         \/ pc' = "search" /\ IsInternal(cur) /\ cur' = GetChildPageID(cur, request.key)
  BY DEF Search, SearchDescend, SearchLeaf, tree
<1>4. ~Splitting /\ ~Splitting'
  BY <1>3 DEF Splitting
<1>5. Ordered(R, Q)' /\ Cleft(R, Q)'
  BY <1>1, <1>3, <1>4, OrderStays
<1>6. cur \in PageIDs /\ request.key \in R[cur] /\ request.key \in Keys
  BY <1>1, <1>3 DEF Aimed
<1>7. CASE pc' = "return"
  <2>1. Aimed(R)'
    BY <1>3, <1>6, <1>7 DEF Aimed, Reported
  <2> QED BY <1>5, <2>1 DEF OInv
<1>8. CASE pc' = "search" /\ IsInternal(cur) /\ cur' = GetChildPageID(cur, request.key)
  <2>1. cur' \in PageIDs /\ Used(cur') /\ request.key \in Q[cur']
    BY <1>1, <1>2, <1>6, <1>8, ChildIsFor DEF BInv, Structure
  <2>2. request.key \in R[cur']
    BY <1>1, <1>4, <2>1 DEF Cleft
  <2>3. Aimed(R)'
    <3>1. cur' \in PageIDs /\ Used(cur)' /\ request'.key \in R[cur']
      BY <1>3, <2>1, <2>2 DEF Used, IsLeaf, IsInternal
    <3> QED BY <1>3, <1>6, <1>8, <3>1 DEF Aimed, Reported
  <2> QED BY <1>5, <2>3 DEF OInv
<1> QED BY <1>3, <1>7, <1>8

LEMMA FindFitsOrders == ASSUME BInv, OInv, FindFits PROVE OInv'
<1>1. PICK R, Q : Ordered(R, Q) /\ Cleft(R, Q) /\ Aimed(R)
  BY DEF OInv
<1>2. /\ pages' = pages /\ root' = root /\ pc = "insert" /\ pc' = "unwind" /\ request' = request
      /\ to_write_page' = cur /\ report'.type = "no split" /\ Fits(cur)
  BY DEF FindFits, tree, NoSplit
<1>3. ~Splitting /\ ~Splitting'
  BY <1>2 DEF Splitting
<1>4. Ordered(R, Q)' /\ Cleft(R, Q)'
  BY <1>1, <1>2, <1>3, OrderStays
<1>5. request.key \in R[cur] /\ request.key \in Keys /\ request.size \in Sizes /\ Missing(request.key)
  BY <1>1, <1>2 DEF Aimed
<1>6. Fits(to_write_page)'
  BY <1>2 DEF Fits
<1>7. Missing(request.key)'
  BY <1>2, <1>5 DEF Missing, IsLeaf
<1>8. Aimed(R)'
  BY <1>2, <1>5, <1>6, <1>7 DEF Aimed, Reported
<1> QED BY <1>4, <1>8 DEF OInv

LEMMA UnwindNoSplitOrders == ASSUME BInv, OInv, UnwindNoSplit PROVE OInv'
<1>1. PICK R, Q : Ordered(R, Q) /\ Cleft(R, Q) /\ Aimed(R)
  BY DEF OInv
<1>2. /\ pages' = pages /\ root' = root /\ pc = "unwind" /\ pc' = "unwind" /\ request' = request
      /\ to_write_page' = to_write_page /\ report.type = "no split" /\ report'.type = "no split"
  BY DEF UnwindNoSplit, Ascend, tree, NoSplit
<1>3. ~Splitting /\ ~Splitting'
  BY <1>2 DEF Splitting
<1>4. Ordered(R, Q)' /\ Cleft(R, Q)'
  BY <1>1, <1>2, <1>3, OrderStays
<1>5. /\ request.key \in R[to_write_page] /\ Fits(to_write_page) /\ request.key \in Keys
      /\ request.size \in Sizes /\ Missing(request.key)
  BY <1>1, <1>2 DEF Aimed
<1>6. Fits(to_write_page)'
  BY <1>2, <1>5 DEF Fits
<1>7. Missing(request.key)'
  BY <1>2, <1>5 DEF Missing, IsLeaf
<1>8. Aimed(R)'
  BY <1>2, <1>5, <1>6, <1>7 DEF Aimed, Reported
<1> QED BY <1>4, <1>8 DEF OInv

\* The way up of a delete, when no page is touched.
LEMMA QuietReturnOrders ==
  ASSUME OInv, pages' = pages, root' = root, pc = "rebalance", request' = request,
         \/ pc' = "return"
         \/ pc' = "rebalance" /\ report'.type # "LeafPage"
  PROVE  OInv'
<1>1. PICK R, Q : Ordered(R, Q) /\ Cleft(R, Q) /\ Aimed(R)
  BY DEF OInv
<1>2. ~Splitting /\ ~Splitting'
  BY DEF Splitting
<1>3. Ordered(R, Q)' /\ Cleft(R, Q)'
  BY <1>1, <1>2, OrderStays
<1>4. request.key \in Keys
  BY <1>1 DEF Aimed
<1>5. Aimed(R)'
  BY <1>4 DEF Aimed, Reported
<1> QED BY <1>3, <1>5 DEF OInv

LEMMA QuietDeleteOrders ==
  ASSUME OInv, DeleteReturns \/ NoUnderflow \/ NoSibling
  PROVE  OInv'
<1>1. /\ pages' = pages /\ root' = root /\ pc = "rebalance" /\ request' = request
      /\ \/ pc' = "return"
         \/ pc' = "rebalance" /\ report'.type # "LeafPage"
  BY DEF DeleteReturns, NoUnderflow, NoSibling, Underflown, Returned, Ascend, tree, Settled, Status
<1> QED BY <1>1, QuietReturnOrders

-----------------------------------------------------------------------------
\* Steps that write one leaf.

Rewriting(R, Q, p, t) ==
  /\ Pages /\ Ordered(R, Q) /\ p \in PageIDs /\ IsLeaf(p) /\ root' = root
  /\ pages' = [pages EXCEPT ![p].tuples = t]
  /\ Held(t, R[p]) /\ Space(t) <= LEAF_SPACE

LEMMA LeafWritten ==
  ASSUME NEW R, NEW Q, NEW p, NEW t, Rewriting(R, Q, p, t)
  PROVE  /\ Ordered(R, Q)' /\ pages'[p].tuples = t
         /\ \A q \in PageIDs : q # p => pages'[q] = pages[q]
         /\ \A q \in PageIDs : IsLeaf(q)' <=> IsLeaf(q)
<1> Pages /\ Ordered(R, Q) /\ p \in PageIDs /\ IsLeaf(p) /\ root' = root
  BY DEF Rewriting
<1> /\ pages' = [pages EXCEPT ![p].tuples = t]
    /\ Held(t, R[p]) /\ Space(t) <= LEAF_SPACE
  BY DEF Rewriting
<1>1. Pages' /\ Alike
  BY LeafRewritten
<1>2. pages = [q \in PageIDs |-> pages[q]] /\ PageShape(p)
  BY DEF Pages
<1>3. /\ pages'[p] = [pages[p] EXCEPT !.tuples = t]
      /\ \A q \in PageIDs : q # p => pages'[q] = pages[q]
  BY <1>2
<1>4. pages'[p] = Leaf(t, pages[p].left_pid, pages[p].right_pid)
  BY <1>2, <1>3, WithTuples
<1>5. pages'[p].tuples = t /\ pages'[p].left_pid = pages[p].left_pid /\ pages'[p].right_pid = pages[p].right_pid
  BY <1>4, Shapes
<1>6. \A q \in PageIDs : /\ IsLeaf(q)' <=> IsLeaf(q)
                         /\ IsInternal(q)' <=> IsInternal(q)
                         /\ Used(q)' <=> Used(q)
  BY <1>1, AlikeKinds
<1>7. Ranges(R)'
  BY <1>6 DEF Ordered, Ranges
<1>8. \A q \in PageIDs : LeafOrder(q, R)'
  BY <1>3, <1>5, <1>6 DEF Ordered, LeafOrder
<1>9. \A q \in PageIDs : NodeOrder(q, R, Q)'
  <2> SUFFICES ASSUME NEW q \in PageIDs, IsInternal(q)' PROVE Node(pages'[q].keys, Kids(q)', R[q], Q)
    BY DEF NodeOrder
  <2>1. IsInternal(q) /\ q # p
    BY <1>6 DEF IsLeaf, IsInternal
  <2>2. pages'[q] = pages[q] /\ Kids(q)' = Kids(q)
    BY <1>3, <2>1 DEF Kids
  <2> QED BY <2>1, <2>2 DEF Ordered, NodeOrder
<1>10. Leaves' = Leaves
  BY <1>6 DEF Leaves
<1>11. \A q \in Leaves : Right'[q] = Right[q]
  BY <1>3, <1>5 DEF Right, Leaves
<1>12. Chained(Leaves', Right', R)
  <2>1. Chained(Leaves, Right, R)
    BY DEF Ordered
  <2>2. Chained(Leaves, Right', R)
    BY <1>11, <2>1, ChainSame
  <2> QED BY <1>10, <2>2
<1>13. Q[root'] = Int
  BY DEF Ordered
<1> QED BY <1>3, <1>5, <1>6, <1>7, <1>8, <1>9, <1>12, <1>13 DEF Ordered, Chained

LEMMA WriteTupleOrders == ASSUME BInv, OInv, WriteTuple PROVE OInv'
<1>1. PICK R, Q : Ordered(R, Q) /\ Cleft(R, Q) /\ Aimed(R)
  BY DEF OInv
<1>2. PICK p, w, k, s : /\ p = to_write_page /\ k = request.key /\ s = request.size
                        /\ w = WriteChunkLeaf(pages[p].tuples, [key |-> k, size |-> s])
  OBVIOUS
<1>3. /\ root' = root /\ pc = "unwind" /\ pc' = "return" /\ request' = request
      /\ report.type = "no split"
      /\ pages' = [pages EXCEPT ![p].tuples = WriteChunkLeaf(@, [key |-> k, size |-> s])]
  BY <1>2 DEF WriteTuple, NoSplit
<1>4. p \in PageIDs /\ IsLeaf(p) /\ Pages
  BY <1>2, <1>3 DEF BInv, Control
<1>5. k \in R[p] /\ Fits(p) /\ k \in Keys /\ s \in Sizes /\ ~Has(pages[p].tuples, k)
  BY <1>1, <1>2, <1>3, <1>4 DEF Aimed, Missing
<1>6. Held(pages[p].tuples, R[p])
  BY <1>1, <1>4 DEF Ordered, LeafOrder
<1>7. Least(MIN_LEAF_PAGE_DATA, s) <= LEAF_SPACE - Space(pages[p].tuples)
  BY <1>2, <1>5 DEF Fits
<1>8. Held(w, R[p]) /\ Space(w) <= LEAF_SPACE
  <2>1. PICK ts, S : ts = pages[p].tuples /\ S = R[p]
    OBVIOUS
  <2>2. Writing(ts, S, k, s, w)
    BY <1>2, <1>5, <1>6, <1>7, <2>1 DEF Writing
  <2>3. Held(w, S) /\ Space(w) <= LEAF_SPACE
    BY <2>2, HeldWrite DEF Wrote
  <2> QED BY <2>1, <2>3
<1>9. pages' = [pages EXCEPT ![p].tuples = w]
  BY <1>2, <1>3
<1>10. Ordered(R, Q)'
  <2>1. Rewriting(R, Q, p, w)
    BY <1>1, <1>3, <1>4, <1>8, <1>9 DEF Rewriting
  <2> QED BY <2>1, LeafWritten
<1>11. Cleft(R, Q)'
  BY <1>1, <1>3 DEF Cleft, Splitting
<1>12. Aimed(R)'
  BY <1>2, <1>3, <1>5 DEF Aimed, Reported
<1> QED BY <1>10, <1>11, <1>12 DEF OInv

LEMMA DeleteLeafOrders == ASSUME BInv, OInv, DeleteLeaf PROVE OInv'
<1>1. PICK R, Q : Ordered(R, Q) /\ Cleft(R, Q) /\ Aimed(R)
  BY DEF OInv
<1>2. PICK p, w, k : p = cur /\ k = request.key /\ w = DeleteTuple(pages[p].tuples, k)
  OBVIOUS
<1>3. /\ root' = root /\ pc = "delete" /\ pc' = "rebalance" /\ request' = request /\ cur' = cur
      /\ IsLeaf(p)
      /\ pages' = [pages EXCEPT ![p].tuples = w]
      /\ report' = Status("LeafPage", Space(w) <= LEAF_UNDERFLOW_THRESHOLD, Space(w))
  BY <1>2 DEF DeleteLeaf
<1>4. p \in PageIDs /\ k \in Keys /\ Pages
  BY <1>1, <1>2, <1>3 DEF Aimed, BInv
<1>5. Held(pages[p].tuples, R[p]) /\ Space(pages[p].tuples) <= LEAF_SPACE
  BY <1>1, <1>3, <1>4 DEF Ordered, LeafOrder
<1>6. Held(w, R[p]) /\ Space(w) <= Space(pages[p].tuples)
  BY <1>2, <1>4, <1>5, HeldRemove
<1>7. Space(w) <= LEAF_SPACE
  <2>1. Space(w) \in Nat /\ Space(pages[p].tuples) \in Nat
    BY <1>5, <1>6, SpaceNat DEF Held
  <2> QED BY <1>5, <1>6, <2>1, Limits
<1>8. Ordered(R, Q)' /\ pages'[p].tuples = w
  <2>1. Held(w, R[p]) /\ Space(w) <= LEAF_SPACE
    BY <1>6, <1>7
  <2>2. Rewriting(R, Q, p, w)
    BY <1>1, <1>3, <1>4, <2>1 DEF Rewriting
  <2> QED BY <2>2, LeafWritten
<1>9. Cleft(R, Q)'
  BY <1>1, <1>3 DEF Cleft, Splitting
<1>10. /\ report'.current_size = Space(w)
       /\ report'.underflown = (Space(w) <= LEAF_UNDERFLOW_THRESHOLD)
  BY <1>3 DEF Status
<1>11. Reported'
  BY <1>2, <1>3, <1>8, <1>10 DEF Reported
<1>12. Aimed(R)'
  BY <1>2, <1>3, <1>4, <1>11 DEF Aimed
<1> QED BY <1>8, <1>9, <1>12 DEF OInv

-----------------------------------------------------------------------------
\* A leaf is split.

LEMMA FindSplitOrders == ASSUME BInv, OInv, RoomToGrow, FindSplit PROVE OInv'
<1>1. PICK R, Q : Ordered(R, Q) /\ Cleft(R, Q) /\ Aimed(R)
  BY DEF OInv
<1>2. PICK h, up, place : Structure(h, up, place)
  BY DEF BInv
<1>3. PICK c, n, ts, m, x, a, b, k : /\ c = cur /\ n = NewPage /\ ts = pages[c].tuples /\ m = Kept(ts)
                                     /\ x = ts[m + 1].key /\ a = FirstTuples(ts, m)
                                     /\ b = LastTuples(ts, Len(ts) - m) /\ k = request.key
  OBVIOUS
<1>4. /\ root' = root /\ pc = "insert" /\ pc' = "unwind" /\ request' = request /\ cur' = c
      /\ IsLeaf(c) /\ ~Fits(c)
      /\ to_write_page' = IF k >= x THEN n ELSE c
      /\ report' = Split(n, x)
      /\ pages' = HandleSplit(c, n)
  BY <1>3 DEF FindSplit
<1>5. /\ c \in PageIDs /\ n \in PageIDs /\ pages[n] = Free /\ Pages /\ ~Used(n) /\ n # c
      /\ root \in PageIDs /\ Used(root) /\ root # n
  <2>1. /\ c \in PageIDs /\ n \in PageIDs /\ pages[n] = Free /\ Pages
        /\ root \in PageIDs /\ Used(root)
    BY <1>1, <1>3, <1>4, NewPageIsFree DEF BInv, Aimed, Control
  <2>2. ~Used(n)
    BY <2>1, Kinds DEF Pages
  <2> QED BY <1>4, <2>1, <2>2 DEF Used
<1>6. /\ pages' = [q \in PageIDs |-> pages'[q]]
      /\ pages'[c] = Leaf(a, pages[c].left_pid, n)
      /\ pages'[n] = Leaf(b, c, pages[c].right_pid)
      /\ \A q \in PageIDs : q \notin {c, n} => pages'[q] = pages[q]
  <2>1. PICK y, z : /\ y = Leaf(a, pages[c].left_pid, n) /\ z = Leaf(b, c, pages[c].right_pid)
                    /\ pages' = [pages EXCEPT ![c] = y, ![n] = z]
    BY <1>3, <1>4 DEF HandleSplit
  <2>2. pages = [q \in PageIDs |-> pages[q]]
    BY <1>5 DEF Pages
  <2>3. /\ pages' = [q \in PageIDs |-> pages'[q]]
        /\ pages'[c] = y /\ pages'[n] = z
        /\ \A q \in PageIDs : q \notin {c, n} => pages'[q] = pages[q]
    BY <1>5, <2>1, <2>2
  <2> QED BY <2>1, <2>3
<1>7. /\ IsLeaf(c)' /\ ~IsInternal(c)' /\ IsLeaf(n)' /\ ~IsInternal(n)'
      /\ pages'[c].tuples = a /\ pages'[c].left_pid = pages[c].left_pid /\ pages'[c].right_pid = n
      /\ pages'[n].tuples = b /\ pages'[n].left_pid = c /\ pages'[n].right_pid = pages[c].right_pid
  BY <1>6, LeafShape, Shapes
<1>8. /\ Held(ts, R[c]) /\ Space(ts) <= LEAF_SPACE /\ ts \in Seq(Entry)
      /\ pages[c].left_pid \in PageIDs \cup {NoPage} /\ R[c] \in SUBSET Int /\ Convex(R[c])
  BY <1>1, <1>3, <1>4, <1>5 DEF Ordered, LeafOrder, Held, Ranges, Used
<1>9. k \in R[c] /\ k \in Keys /\ k \in Int /\ request.size \in Sizes /\ Missing(k)
  BY <1>1, <1>3, <1>4, Limits DEF Aimed
<1>10. LEAF_SPACE - Space(ts) < MIN_LEAF_PAGE_DATA
  <2>1. ~(Least(MIN_LEAF_PAGE_DATA, request.size) <= LEAF_SPACE - Space(ts))
    BY <1>3, <1>4 DEF Fits
  <2>2. Space(ts) \in Nat /\ request.size \in Nat
    BY <1>8, <1>9, SpaceNat, Limits
  <2>3. PICK y, z, w : y = LEAF_SPACE - Space(ts) /\ z = request.size /\ w = MIN_LEAF_PAGE_DATA
    OBVIOUS
  <2>4. y \in Int /\ z \in Int /\ w \in Int /\ ~(Least(w, z) <= y)
    BY <2>1, <2>2, <2>3, Limits
  <2>5. y < w
    BY ONLY <2>4 DEF Least
  <2> QED BY <2>3, <2>5
<1>11. /\ m \in 1..(Len(ts) - 1)
       /\ MIN_LEAF_PAGE_DATA <= LEAF_SPACE - Space(SubSeq(ts, 1, m))
       /\ MIN_LEAF_PAGE_DATA <= LEAF_SPACE - Space(SubSeq(ts, m + 1, Len(ts)))
  BY <1>3, <1>8, <1>10, SplitRoom
<1>12. a = SubSeq(ts, 1, m) /\ b = SubSeq(ts, m + 1, Len(ts))
  <2>1. Len(ts) \in Nat /\ m \in Nat
    BY <1>8, <1>11, EntriesAt
  <2>2. Len(ts) - (Len(ts) - m) + 1 = m + 1
    BY <2>1
  <2> QED BY <1>3, <2>2 DEF FirstTuples, LastTuples
<1>13. /\ x \in Keys /\ x \in Int /\ x \in R[c]
       /\ Held(a, Below(R[c], x)) /\ Below(R[c], x) # {}
       /\ Held(b, From(R[c], x)) /\ From(R[c], x) # {}
       /\ \A y : Has(ts, y) <=> Has(a, y) \/ Has(b, y)
  <2>1. PICK S : S = R[c]
    OBVIOUS
  <2>2. Cutting(ts, S, m, a, b, x)
    BY <1>3, <1>8, <1>11, <1>12, <2>1 DEF Cutting
  <2>3. /\ x \in Keys /\ x \in Int /\ x \in S
        /\ Held(a, Below(S, x)) /\ Below(S, x) # {}
        /\ Held(b, From(S, x)) /\ From(S, x) # {}
        /\ \A y : Has(ts, y) <=> Has(a, y) \/ Has(b, y)
    BY ONLY <2>2, HeldCut
  <2> QED BY <2>1, <2>3
<1>14. /\ Space(a) \in Nat /\ Space(b) \in Nat
       /\ MIN_LEAF_PAGE_DATA <= LEAF_SPACE - Space(a) /\ MIN_LEAF_PAGE_DATA <= LEAF_SPACE - Space(b)
       /\ Space(a) <= LEAF_SPACE /\ Space(b) <= LEAF_SPACE
  <2>1. Space(a) \in Nat /\ Space(b) \in Nat
    BY <1>13, SpaceNat DEF Held
  <2> QED BY <1>11, <1>12, <2>1, Limits
<1>15. PICK R2 : R2 = [q \in PageIDs |-> IF q = c THEN Below(R[c], x)
                                         ELSE IF q = n THEN From(R[c], x) ELSE R[q]]
  OBVIOUS
<1>16. PICK Q2 : Q2 = [q \in PageIDs |-> IF q = c THEN R[c] ELSE R2[q]]
  OBVIOUS
<1>17. /\ R2[c] = Below(R[c], x) /\ R2[n] = From(R[c], x) /\ Q2[c] = R[c]
       /\ \A q \in PageIDs : q # c /\ q # n => R2[q] = R[q] /\ Q2[q] = R[q]
       /\ \A q \in PageIDs : q # c => Q2[q] = R2[q]
  BY <1>5, <1>15, <1>16
<1>18. \A q \in PageIDs : q \notin {c, n} => /\ IsLeaf(q)' = IsLeaf(q) /\ IsInternal(q)' = IsInternal(q)
                                             /\ Used(q)' = Used(q)
  BY <1>6 DEF Used, IsLeaf, IsInternal
<1>19. ~Splitting /\ Splitting'
  BY <1>4, Shapes DEF Splitting, Split
<1>20. \A q \in PageIDs : Q[q] = R[q]
  BY <1>1, <1>19 DEF Cleft
<1>21. Ranges(R2)'
  <2> SUFFICES ASSUME NEW q \in PageIDs, Used(q)' PROVE R2[q] \in SUBSET Int /\ R2[q] # {} /\ Convex(R2[q])
    BY DEF Ranges
  <2>1. Convex(Below(R[c], x)) /\ Convex(From(R[c], x))
    BY <1>8, <1>13, CutConvex
  <2>2. Below(R[c], x) \in SUBSET Int /\ From(R[c], x) \in SUBSET Int
    BY <1>8 DEF Below, From
  <2>3. CASE q \in {c, n}
    BY <1>13, <1>17, <2>1, <2>2, <2>3
  <2>4. CASE q \notin {c, n}
    BY <1>1, <1>17, <1>18, <2>4 DEF Ordered, Ranges
  <2> QED BY <2>3, <2>4
<1>22. \A q \in PageIDs : LeafOrder(q, R2)'
  <2> TAKE q \in PageIDs
  <2>1. CASE q = c
    BY <1>7, <1>8, <1>13, <1>14, <1>17, <2>1 DEF LeafOrder
  <2>2. CASE q = n
    BY <1>5, <1>7, <1>13, <1>14, <1>17, <2>2 DEF LeafOrder
  <2>3. CASE q \notin {c, n}
    <3>1. pages'[q] = pages[q] /\ R2[q] = R[q] /\ LeafOrder(q, R)
      BY <1>1, <1>6, <1>17, <2>3 DEF Ordered
    <3> QED BY <3>1, OtherLeaf
  <2> QED BY <2>1, <2>2, <2>3
<1>23. \A q \in PageIDs : NodeOrder(q, R2, Q2)'
  <2> TAKE q \in PageIDs
  <2>1. CASE q \in {c, n}
    BY <1>7, <2>1 DEF NodeOrder
  <2>2. CASE q \notin {c, n}
    <3>1. pages'[q] = pages[q] /\ R2[q] = R[q] /\ NodeOrder(q, R, Q)
      BY <1>1, <1>6, <1>17, <2>2 DEF Ordered
    <3>2. \A y \in PageIDs : up[y] = q => Used(y)
      BY <1>2, <1>5, Heights, BTreeAssumption DEF Structure
    <3>3. \A y \in PageIDs : up[y] = q => Q2[y] = Q[y]
      BY <1>5, <1>17, <1>20, <3>2
    <3> QED BY <1>2, <1>5, <3>1, <3>3, OtherNode DEF Structure
  <2> QED BY <2>1, <2>2
<1>24. Leaves' = Leaves \cup {n}
  BY <1>4, <1>5, <1>7, <1>18 DEF Leaves
<1>25. Chained(Leaves \cup {n}, Right', R2)
  <2>1. Chained(Leaves, Right, R) /\ c \in Leaves /\ n \notin Leaves /\ NoPage \notin Leaves /\ n # NoPage
    BY <1>1, <1>4, <1>5, BTreeAssumption DEF Ordered, Leaves, Used
  <2>2. /\ Right'[c] = n /\ Right'[n] = Right[c]
        /\ \A q \in Leaves : q # c => Right'[q] = Right[q]
    BY <1>5, <1>6, <1>7, <2>1 DEF Right, Leaves
  <2>3. \A q \in Leaves : q # c => R2[q] = R[q]
    BY <1>17, <2>1 DEF Leaves
  <2>4. Parted(Leaves, Right, R, c, n, x, Right', R2)
    BY <1>13, <1>17, <2>1, <2>2, <2>3 DEF Parted
  <2> QED BY <2>4, ChainSplit
<1>26. Q2[root'] = Int
  <2>1. Q[root] = Int
    BY <1>1 DEF Ordered
  <2> QED BY <1>4, <1>5, <1>17, <1>20, <2>1
<1>27. Ordered(R2, Q2)'
  BY <1>21, <1>22, <1>23, <1>24, <1>25, <1>26 DEF Ordered
<1>28. report'.boundary_key = x /\ report'.new_page_id = n /\ report'.type = "split"
  BY <1>4 DEF Split
<1>29. Cleft(R2, Q2)'
  BY <1>4, <1>8, <1>13, <1>17, <1>19, <1>28 DEF Cleft
<1>30. Missing(k)'
  <2> SUFFICES ASSUME NEW q \in PageIDs, IsLeaf(q)' PROVE ~Has(pages'[q].tuples, k)
    BY DEF Missing
  <2>1. ~Has(ts, k)
    BY <1>3, <1>4, <1>5, <1>9 DEF Missing
  <2>2. CASE q \in {c, n}
    BY <1>7, <1>13, <2>1, <2>2
  <2>3. CASE q \notin {c, n}
    BY <1>6, <1>9, <1>18, <2>3 DEF Missing
  <2> QED BY <2>2, <2>3
<1>31. PICK w : w = to_write_page'
  OBVIOUS
<1>32. w = (IF k >= x THEN n ELSE c) /\ k \in R2[w]
  <2>1. k >= x \/ k < x
    BY <1>9, <1>13
  <2>2. CASE k >= x
    <3>1. x <= k
      BY <1>9, <1>13, <2>2
    <3> QED BY <1>4, <1>9, <1>17, <1>31, <2>2, <3>1 DEF From
  <2>3. CASE k < x
    <3>1. ~(k >= x)
      BY <1>9, <1>13, <2>3
    <3> QED BY <1>4, <1>9, <1>17, <1>31, <2>3, <3>1 DEF Below
  <2> QED BY <2>1, <2>2, <2>3
<1>33. Least(MIN_LEAF_PAGE_DATA, request.size) <= LEAF_SPACE - Space(pages'[w].tuples)
  <2>1. pages'[w].tuples = a \/ pages'[w].tuples = b
    BY <1>7, <1>32
  <2>2. PICK t : t = pages'[w].tuples
    OBVIOUS
  <2>3. MIN_LEAF_PAGE_DATA <= LEAF_SPACE - Space(t) /\ Space(t) \in Nat
    BY <1>14, <2>1, <2>2
  <2>4. PICK y, z, v : y = LEAF_SPACE - Space(t) /\ z = request.size /\ v = MIN_LEAF_PAGE_DATA
    OBVIOUS
  <2>5. y \in Int /\ z \in Int /\ v \in Int /\ v <= y
    BY <1>9, <2>3, <2>4, Limits
  <2>6. Least(v, z) <= y
    BY ONLY <2>5 DEF Least
  <2> QED BY <2>2, <2>4, <2>6
<1>34. Fits(to_write_page)'
  BY <1>4, <1>31, <1>33 DEF Fits
<1>35. Aimed(R2)'
  <2>1. Missing(request.key)'
    BY <1>3, <1>4, <1>30 DEF Missing, IsLeaf
  <2>2. request'.key \in Keys /\ request'.size \in Sizes /\ request'.key \in R2[to_write_page']
    BY <1>3, <1>4, <1>9, <1>31, <1>32
  <2> QED BY <1>4, <1>34, <2>1, <2>2 DEF Aimed, Reported
<1> QED BY <1>27, <1>29, <1>35 DEF OInv

-----------------------------------------------------------------------------
\* Steps that change internal pages only, those in G.

LeavesKept(G, R, R2) ==
  /\ \A q \in PageIDs : q \notin G => pages'[q] = pages[q] /\ R2[q] = R[q]
  /\ \A q \in PageIDs : q \in G => ~IsLeaf(q) /\ ~IsLeaf(q)'

LEMMA LeavesStay ==
  ASSUME NEW R, NEW Q, Ordered(R, Q), NEW G, NEW R2, LeavesKept(G, R, R2)
  PROVE  /\ \A q \in PageIDs : LeafOrder(q, R2)'
         /\ Chained(Leaves, Right, R2)'
         /\ \A k : Missing(k) => Missing(k)'
<1>1. \A q \in PageIDs : IsLeaf(q)' <=> IsLeaf(q)
  BY DEF LeavesKept, IsLeaf
<1>2. \A q \in PageIDs : IsLeaf(q) => pages'[q] = pages[q] /\ R2[q] = R[q]
  BY DEF LeavesKept
<1>3. \A q \in PageIDs : LeafOrder(q, R2)'
  BY <1>1, <1>2 DEF Ordered, LeafOrder
<1>4. Leaves' = Leaves
  BY <1>1 DEF Leaves
<1>5. \A q \in Leaves : Right'[q] = Right[q] /\ R2[q] = R[q]
  BY <1>2 DEF Right, Leaves
<1>6. Chained(Leaves', Right', R2)
  <2>1. Chained(Leaves, Right, R)
    BY DEF Ordered
  <2>2. Chained(Leaves, Right', R2)
    BY <1>5, <2>1, ChainSame
  <2> QED BY <1>4, <2>2
<1>7. Chained(Leaves, Right, R2)'
  BY <1>6 DEF Chained
<1>8. \A k : Missing(k) => Missing(k)'
  BY <1>1, <1>2 DEF Missing
<1> QED BY <1>3, <1>7, <1>8

LEMMA UnwindAims ==
  ASSUME NEW R, NEW Q, Ordered(R, Q), Aimed(R), NEW G, NEW R2, LeavesKept(G, R, R2),
         pc = "unwind", pc' = "unwind", request' = request, to_write_page' = to_write_page,
         to_write_page \in PageIDs, IsLeaf(to_write_page)
  PROVE  Aimed(R2)'
<1>1. pages'[to_write_page] = pages[to_write_page] /\ R2[to_write_page] = R[to_write_page]
  BY DEF LeavesKept
<1>2. /\ request.key \in R[to_write_page] /\ Fits(to_write_page) /\ request.key \in Keys
      /\ request.size \in Sizes /\ Missing(request.key)
  BY DEF Aimed
<1>3. Fits(to_write_page)'
  BY <1>1, <1>2 DEF Fits
<1>4. Missing(request.key)'
  <2>1. PICK k : k = request.key
    OBVIOUS
  <2>2. Missing(k)'
    BY <1>2, <2>1, LeavesStay
  <2> QED BY <2>1, <2>2 DEF Missing, IsLeaf
<1> QED BY <1>1, <1>2, <1>3, <1>4 DEF Aimed, Reported

-----------------------------------------------------------------------------
\* Splits on the way up.

\* The parent with the new page, that was split off cur, has what it had.
LEMMA Grown ==
  ASSUME NEW h, NEW up, NEW place, Pages, Control, Structure(h, up, place),
         NEW R, NEW Q, Ordered(R, Q), Cleft(R, Q),
         pc = "unwind", stack # <<>>, report.type = "split",
         NEW p, p = parent, NEW w, w = report.new_page_id
  PROVE  /\ p \in PageIDs /\ IsInternal(p) /\ p # cur /\ cur \in PageIDs /\ up[cur] = p /\ root # cur
         /\ \E ks, cs : /\ InsertKeyValue(p, report.boundary_key, w) = Internal(ks, cs)
                        /\ Node(ks, cs, R[p], R)
<1>1. OnWay /\ Splitting /\ Witnesses(h, up, place) /\ Tree(h, up, place) /\ Way(h, up)
  BY DEF OnWay, Splitting, Structure
<1>2. /\ p \in PageIDs /\ IsInternal(p) /\ cur \in PageIDs /\ Used(cur)
      /\ up[cur] = p /\ h[p] = h[cur] + 1 /\ p # NoPage /\ up[root] = NoPage
  BY <1>1, OnTop, BTreeAssumption DEF Structure
<1>3. p # cur /\ root # cur
  <2>1. h[cur] \in Nat
    BY <1>1, <1>2 DEF Witnesses
  <2> QED BY <1>2, <2>1
<1>4. w \in PageIDs /\ Used(w)
  BY <1>1 DEF Structure, Orphan
<1>5. PICK ko, co, b, c : /\ ko = pages[p].keys /\ co = Kids(p) /\ b = report.boundary_key /\ c = cur
  OBVIOUS
<1>6. /\ b \in Keys /\ b \in Q[c] /\ R[c] = Below(Q[c], b) /\ R[w] = From(Q[c], b)
      /\ \A q \in PageIDs : q # c => Q[q] = R[q]
  BY <1>1, <1>4, <1>5 DEF Cleft
<1>7. Node(ko, co, R[p], Q)
  BY <1>2, <1>5 DEF Ordered, NodeOrder
<1>8. PICK i : i = place[c]
  OBVIOUS
<1>9. i \in 1..Len(co) /\ co[i] = c
  BY <1>1, <1>2, <1>5, <1>8 DEF Tree, Hangs
<1>10. co \in Seq(PageIDs) /\ \A j \in 1..Len(co) : co[j] \in PageIDs /\ (j # i => co[j] # c)
  <2>1. co \in Seq(PageIDs)
    BY <1>2, <1>5, Kinds DEF Pages
  <2>2. \A j \in 1..Len(co) : co[j] \in PageIDs
    BY <2>1, ElementOfSeq
  <2>3. \A j \in 1..Len(co) : place[co[j]] = j
    BY <1>1, <1>2, <1>5 DEF Tree, Holds
  <2> QED BY <1>8, <2>1, <2>2, <2>3
<1>11. PICK u : u = UpTo(ko, b)
  OBVIOUS
<1>12. i = u + 1 /\ u \in Int
  <2>1. b \in R[p]
    BY <1>6, <1>7, <1>9 DEF Node, Slice
  <2>2. /\ u \in 0..Len(ko)
        /\ \A j \in 1..Len(co) : b \in Q[co[j]] => j = u + 1
    BY <1>7, <1>11, <2>1, WhichChild
  <2>3. u \in Int
    BY <1>7, <2>2, LenProperties DEF Node
  <2> QED BY <1>6, <1>9, <2>2, <2>3
<1>13. PICK ks, cs : ks = InsertAt(ko, i, b) /\ cs = InsertAt(co, i + 1, w)
  OBVIOUS
<1>14. InsertKeyValue(p, b, w) = Internal(ks, cs)
  <2>1. u + 2 = i + 1
    BY <1>12
  <2> QED BY <1>5, <1>11, <1>12, <1>13, <2>1 DEF InsertKeyValue, Kids
<1>15. Node(ks, cs, R[p], R)
  <2>1. /\ b \in Q[co[i]] /\ R[co[i]] = Below(Q[co[i]], b) /\ R[co[i]] # {}
        /\ R[w] = From(Q[co[i]], b) /\ R[w] # {}
        /\ \A j \in 1..Len(co) : j # i => R[co[j]] = Q[co[j]]
    BY <1>2, <1>4, <1>5, <1>6, <1>9, <1>10 DEF Ordered, Ranges
  <2> QED BY <1>4, <1>6, <1>7, <1>9, <1>13, <2>1, NodeInsert
<1> QED BY <1>2, <1>3, <1>5, <1>14, <1>15

LEMMA UnwindInsertOrders == ASSUME BInv, OInv, UnwindInsert PROVE OInv'
<1>1. PICK R, Q : Ordered(R, Q) /\ Cleft(R, Q) /\ Aimed(R)
  BY DEF OInv
<1>2. PICK h, up, place : Structure(h, up, place)
  BY DEF BInv
<1>3. PICK p, w : p = parent /\ w = report.new_page_id
  OBVIOUS
<1>4. /\ root' = root /\ pc' = "unwind" /\ pc = "unwind" /\ stack # <<>> /\ report.type = "split"
      /\ report'.type = "no split" /\ request' = request /\ to_write_page' = to_write_page
      /\ pages' = [pages EXCEPT ![p] = InsertKeyValue(p, report.boundary_key, w)]
  BY <1>3 DEF UnwindInsert, Ascend, NoSplit, parent
<1>5. /\ Control /\ Pages /\ Tree(h, up, place) /\ root \in PageIDs
      /\ to_write_page \in PageIDs /\ IsLeaf(to_write_page)
  BY <1>2, <1>4 DEF BInv, Structure, Control
<1>6. /\ p \in PageIDs /\ IsInternal(p) /\ p # cur /\ cur \in PageIDs /\ up[cur] = p /\ root # cur
      /\ \E ks, cs : /\ InsertKeyValue(p, report.boundary_key, w) = Internal(ks, cs)
                     /\ Node(ks, cs, R[p], R)
  BY <1>1, <1>2, <1>3, <1>4, <1>5, Grown
<1>7. PICK ks, cs : /\ InsertKeyValue(p, report.boundary_key, w) = Internal(ks, cs)
                    /\ Node(ks, cs, R[p], R)
  BY <1>6
<1>8. pages'[p] = Internal(ks, cs) /\ \A q \in PageIDs : q # p => pages'[q] = pages[q]
  <2>1. pages = [q \in PageIDs |-> pages[q]]
    BY <1>5 DEF Pages
  <2> QED BY <1>4, <1>6, <1>7, <2>1, Update
<1>9. /\ ~IsLeaf(p) /\ ~IsLeaf(p)' /\ IsInternal(p)' /\ Used(p)' /\ Used(p)
      /\ pages'[p].keys = ks /\ Kids(p)' = cs
  BY <1>6, <1>8, Shapes DEF IsLeaf, IsInternal, Kids, Used
<1>10. LeavesKept({p}, R, R)
  BY <1>8, <1>9 DEF LeavesKept
<1>11. \A q \in PageIDs : q # cur => Q[q] = R[q]
  BY <1>1, <1>4 DEF Cleft, Splitting
<1>12. \A q \in PageIDs : NodeOrder(q, R, R)'
  <2> TAKE q \in PageIDs
  <2>1. CASE q = p
    BY <1>7, <1>9, <2>1 DEF NodeOrder
  <2>2. CASE q # p
    <3>1. /\ pages'[q] = pages[q] /\ R[q] = R[q]
          /\ \A y \in PageIDs : up[y] = q => R[y] = Q[y]
      BY <1>6, <1>8, <1>11, <2>2
    <3>2. NodeOrder(q, R, Q)
      BY <1>1 DEF Ordered
    <3> QED BY <1>5, <3>1, <3>2, OtherNode
  <2> QED BY <2>1, <2>2
<1>13. Ranges(R)'
  <2>1. \A q \in PageIDs : Used(q)' => Used(q)
    BY <1>8, <1>9 DEF Used, IsLeaf, IsInternal
  <2> QED BY <1>1, <2>1 DEF Ordered, Ranges
<1>14. R[root'] = Int
  BY <1>1, <1>4, <1>5, <1>6, <1>11 DEF Ordered
<1>15. Ordered(R, R)'
  <2>1. (\A q \in PageIDs : LeafOrder(q, R)') /\ Chained(Leaves, Right, R)'
    BY <1>1, <1>10, LeavesStay
  <2> QED BY <1>12, <1>13, <1>14, <2>1 DEF Ordered
<1>16. Cleft(R, R)'
  BY <1>4 DEF Cleft, Splitting
<1>17. Aimed(R)'
  BY <1>1, <1>4, <1>5, <1>10, UnwindAims
<1> QED BY <1>15, <1>16, <1>17 DEF OInv

\* Page p keeps the first half, the new page n gets the second.
LEMMA UnwindSplitOrders == ASSUME BInv, OInv, RoomToGrow, UnwindSplit PROVE OInv'
<1>1. PICK R, Q : Ordered(R, Q) /\ Cleft(R, Q) /\ Aimed(R)
  BY DEF OInv
<1>2. PICK h, up, place : Structure(h, up, place)
  BY DEF BInv
<1>3. PICK p, w, n, m : p = parent /\ w = report.new_page_id /\ n = NewPage /\ m = M + 1
  OBVIOUS
<1>4. /\ root' = root /\ pc' = "unwind" /\ pc = "unwind" /\ stack # <<>> /\ report.type = "split"
      /\ request' = request /\ to_write_page' = to_write_page /\ cur' = p
      /\ Width(p) = NUM_KEY_SLOTS
  BY <1>3 DEF UnwindSplit, Ascend, parent, Width
<1>5. /\ Control /\ Pages /\ Tree(h, up, place) /\ Witnesses(h, up, place) /\ root \in PageIDs /\ Used(root)
      /\ to_write_page \in PageIDs /\ IsLeaf(to_write_page)
  BY <1>2, <1>4 DEF BInv, Structure, Control
<1>6. /\ p \in PageIDs /\ IsInternal(p) /\ p # cur /\ cur \in PageIDs /\ up[cur] = p /\ root # cur
      /\ \E ks, cs : /\ InsertKeyValue(p, report.boundary_key, w) = Internal(ks, cs)
                     /\ Node(ks, cs, R[p], R)
  BY <1>1, <1>2, <1>3, <1>4, <1>5, Grown
<1>7. PICK ks, cs : /\ InsertKeyValue(p, report.boundary_key, w) = Internal(ks, cs)
                    /\ Node(ks, cs, R[p], R)
  BY <1>6
<1>8. n \in PageIDs /\ pages[n] = Free /\ ~Used(n) /\ n # p /\ n # root
  <2>1. n \in PageIDs /\ pages[n] = Free
    BY <1>3, NewPageIsFree
  <2> QED BY <1>5, <1>6, <2>1, Kinds DEF Pages, Used
<1>9. m \in Nat /\ NUM_KEY_SLOTS = 2 * m /\ m > 0
  BY <1>3, BTreeAssumption DEF M
<1>10. Len(ks) = 2 * m + 1 /\ Len(cs) = 2 * m + 2
  <2>1. PICK k2, c2, pos : /\ InsertKeyValue(p, report.boundary_key, w) = Internal(k2, c2)
                           /\ Joining(h, up, p, w, k2, c2, pos)
    BY <1>2, <1>3, <1>4, <1>5, Joins
  <2>2. k2 = ks /\ c2 = cs
    <3>1. PICK full : full = InsertKeyValue(p, report.boundary_key, w)
      OBVIOUS
    <3>2. full.keys = k2 /\ full.children = c2
      BY <2>1, <3>1, Shapes
    <3>3. full.keys = ks /\ full.children = cs
      BY <1>7, <3>1, Shapes
    <3> QED BY <3>2, <3>3
  <2>3. Len(ks) = Width(p) + 1 /\ Len(cs) = Width(p) + 2
    BY <2>1, <2>2 DEF Joining
  <2> QED BY <1>4, <1>9, <2>3
<1>11. PICK ka, ca, kb, cb, x :
         /\ ka = SubSeq(ks, 1, m) /\ ca = SubSeq(cs, 1, m + 1)
         /\ kb = SubSeq(ks, m + 2, Len(ks)) /\ cb = SubSeq(cs, m + 2, Len(cs)) /\ x = ks[m + 1]
  OBVIOUS
<1>12. /\ pages'[p] = Internal(ka, ca) /\ pages'[n] = Internal(kb, cb)
       /\ \A q \in PageIDs : q \notin {p, n} => pages'[q] = pages[q]
       /\ report' = Split(n, x)
  <2>1. PICK full, y, z : /\ full = InsertKeyValue(p, report.boundary_key, w)
                          /\ y = Internal(SubSeq(full.keys, 1, Len(full.keys) \div 2),
                                          SubSeq(full.children, 1, Len(full.keys) \div 2 + 1))
                          /\ z = Internal(SubSeq(full.keys, Len(full.keys) \div 2 + 2, Len(full.keys)),
                                          SubSeq(full.children, Len(full.keys) \div 2 + 2,
                                                 Len(full.children)))
                          /\ pages' = [pages EXCEPT ![p] = y, ![n] = z]
                          /\ report' = Split(n, full.keys[Len(full.keys) \div 2 + 1])
    BY <1>3 DEF UnwindSplit, parent, Ascend
  <2>2. full.keys = ks /\ full.children = cs
    BY <1>7, <2>1, Shapes
  <2>3. Len(ks) \div 2 = m
    BY <1>9, <1>10
  <2>4. y = Internal(ka, ca) /\ z = Internal(kb, cb) /\ report' = Split(n, x)
    BY <1>11, <2>1, <2>2, <2>3
  <2>5. pages = [q \in PageIDs |-> pages[q]]
    BY <1>5 DEF Pages
  <2>6. /\ pages'[p] = y /\ pages'[n] = z
        /\ \A q \in PageIDs : q \notin {p, n} => pages'[q] = pages[q]
    BY <1>6, <1>8, <2>1, <2>5
  <2> QED BY <2>4, <2>6
<1>13. PICK S : S = R[p] /\ S \in SUBSET Int /\ Convex(S)
  BY <1>1, <1>6 DEF Ordered, Ranges, Used
<1>14. m + 1 \in 1..Len(ks) /\ x \in Keys /\ x \in Int /\ x \in S
  <2>1. m + 1 \in 1..Len(ks)
    BY <1>9, <1>10
  <2>2. ks \in Seq(Keys)
    BY <1>7 DEF Node
  <2>3. x \in Keys
    BY <1>11, <2>1, <2>2, ElementOfSeq
  <2>4. x \in S
    BY <1>7, <1>11, <1>13, <2>1, KeysInside
  <2> QED BY <1>13, <2>1, <2>3, <2>4
<1>15. Node(ka, ca, Below(S, x), R) /\ Node(kb, cb, From(S, x), R)
  <2>1. /\ Node(SubSeq(ks, 1, (m + 1) - 1), SubSeq(cs, 1, m + 1), Below(S, ks[m + 1]), R)
        /\ Node(SubSeq(ks, (m + 1) + 1, Len(ks)), SubSeq(cs, (m + 1) + 1, Len(cs)), From(S, ks[m + 1]), R)
    BY <1>7, <1>13, <1>14, NodeCut
  <2>2. (m + 1) - 1 = m /\ (m + 1) + 1 = m + 2
    BY <1>9
  <2> QED BY <1>11, <2>1, <2>2
<1>16. Below(S, x) # {} /\ From(S, x) # {} /\ Below(S, x) \in SUBSET Int /\ From(S, x) \in SUBSET Int
       /\ Convex(Below(S, x)) /\ Convex(From(S, x))
  <2>1. From(S, x) # {}
    <3>1. x <= x
      BY <1>14
    <3> QED BY <1>14, <3>1 DEF From
  <2>2. Below(S, x) # {}
    <3>1. Len(ka) = m /\ Len(ca) = m + 1 /\ 1 \in 1..Len(ca)
      <4>1. ca \in Seq(PageIDs) /\ Len(ca) = Len(ka) + 1 /\ ks \in Seq(Keys)
        BY <1>7, <1>15 DEF Node
      <4>2. Len(ca) \in Nat /\ Len(ka) \in Nat
        BY <1>15, <4>1, LenProperties DEF Node
      <4> QED BY <1>9, <1>10, <1>11, <4>1, <4>2, SliceFacts
    <3>2. R[ca[1]] # {} /\ R[ca[1]] = Slice(ka, Below(S, x), 1)
      BY <1>15, <3>1 DEF Node
    <3> QED BY <3>2 DEF Slice
  <2>3. Below(S, x) \in SUBSET Int /\ From(S, x) \in SUBSET Int
    BY <1>13 DEF Below, From
  <2> QED BY <1>13, <1>14, <2>1, <2>2, <2>3, CutConvex
<1>17. PICK R2 : R2 = [q \in PageIDs |-> IF q = p THEN Below(S, x) ELSE IF q = n THEN From(S, x) ELSE R[q]]
  OBVIOUS
<1>18. PICK Q2 : Q2 = [q \in PageIDs |-> IF q = p THEN S ELSE R2[q]]
  OBVIOUS
<1>19. /\ R2[p] = Below(S, x) /\ R2[n] = From(S, x) /\ Q2[p] = S /\ Q2[n] = From(S, x)
       /\ \A q \in PageIDs : q \notin {p, n} => R2[q] = R[q] /\ Q2[q] = R[q]
       /\ \A q \in PageIDs : q # p => Q2[q] = R2[q]
  BY <1>6, <1>8, <1>17, <1>18
<1>20. /\ ~IsLeaf(p) /\ ~IsLeaf(p)' /\ ~IsLeaf(n) /\ ~IsLeaf(n)'
       /\ pages'[p].keys = ka /\ Kids(p)' = ca /\ pages'[n].keys = kb /\ Kids(n)' = cb
  BY <1>6, <1>8, <1>12, Shapes DEF IsLeaf, IsInternal, Kids, Used
<1>21. LeavesKept({p, n}, R, R2)
  BY <1>12, <1>19, <1>20 DEF LeavesKept
<1>22. \A q \in PageIDs : q # cur => Q[q] = R[q]
  BY <1>1, <1>4 DEF Cleft, Splitting
<1>23. \A y \in PageIDs : up[y] # NoPage => Used(y) /\ up[y] \in PageIDs
  BY <1>5, Heights
<1>24. \A j \in 1..Len(ks) + 1 : cs[j] \in PageIDs /\ cs[j] # p /\ cs[j] # n
  <2>1. PICK k2, c2, pos : /\ InsertKeyValue(p, report.boundary_key, w) = Internal(k2, c2)
                           /\ Joining(h, up, p, w, k2, c2, pos)
    BY <1>2, <1>3, <1>4, <1>5, Joins
  <2>2. k2 = ks /\ c2 = cs
    <3>1. PICK full : full = InsertKeyValue(p, report.boundary_key, w)
      OBVIOUS
    <3>2. full.keys = k2 /\ full.children = c2
      BY <2>1, <3>1, Shapes
    <3>3. full.keys = ks /\ full.children = cs
      BY <1>7, <3>1, Shapes
    <3> QED BY <3>2, <3>3
  <2>3. \A j \in 1..Len(cs) : Used(cs[j]) /\ h[p] = h[cs[j]] + 1 /\ cs[j] \in PageIDs
    BY <2>1, <2>2, ElementOfSeq DEF Joining
  <2>4. \A j \in 1..Len(cs) : h[cs[j]] \in Nat
    BY <1>5, <2>3 DEF Witnesses
  <2>5. \A j \in 1..Len(cs) : cs[j] \in PageIDs /\ cs[j] # p /\ cs[j] # n
    BY <1>8, <2>3, <2>4
  <2>6. Len(cs) = Len(ks) + 1
    BY <1>9, <1>10
  <2> QED BY <2>5, <2>6
<1>25. Node(ka, ca, Below(S, x), Q2) /\ Node(kb, cb, From(S, x), Q2)
  <2>1. \A j \in 1..Len(cs) : Q2[cs[j]] = R[cs[j]]
    <3>1. Len(cs) = Len(ks) + 1
      BY <1>9, <1>10
    <3> QED BY <1>19, <1>24, <3>1
  <2>2. Node(ks, cs, S, Q2)
    BY <1>7, <1>13, <2>1, NodeSame
  <2>3. /\ Node(SubSeq(ks, 1, (m + 1) - 1), SubSeq(cs, 1, m + 1), Below(S, ks[m + 1]), Q2)
        /\ Node(SubSeq(ks, (m + 1) + 1, Len(ks)), SubSeq(cs, (m + 1) + 1, Len(cs)), From(S, ks[m + 1]), Q2)
    BY <1>14, <2>2, NodeCut
  <2>4. (m + 1) - 1 = m /\ (m + 1) + 1 = m + 2
    BY <1>9
  <2> QED BY <1>11, <2>3, <2>4
<1>26. \A q \in PageIDs : NodeOrder(q, R2, Q2)'
  <2> TAKE q \in PageIDs
  <2>1. CASE q \in {p, n}
    BY <1>19, <1>20, <1>25, <2>1 DEF NodeOrder
  <2>2. CASE q \notin {p, n}
    <3>1. \A y \in PageIDs : up[y] = q => Q2[y] = Q[y]
      <4> SUFFICES ASSUME NEW y \in PageIDs, up[y] = q PROVE Q2[y] = Q[y]
        OBVIOUS
      <4>1. y # n /\ y # cur
        BY <1>6, <1>8, <1>23, <2>2, BTreeAssumption
      <4>2. Q2[y] = R[y]
        BY <1>13, <1>19, <4>1
      <4> QED BY <1>22, <4>1, <4>2
    <3>2. pages'[q] = pages[q] /\ R2[q] = R[q] /\ \A y \in PageIDs : up[y] = q => Q2[y] = Q[y]
      BY <1>12, <1>19, <2>2, <3>1
    <3>3. NodeOrder(q, R, Q)
      BY <1>1 DEF Ordered
    <3> QED BY <1>5, <3>2, <3>3, OtherNode
  <2> QED BY <2>1, <2>2
<1>27. Ranges(R2)'
  <2> SUFFICES ASSUME NEW q \in PageIDs, Used(q)' PROVE R2[q] \in SUBSET Int /\ R2[q] # {} /\ Convex(R2[q])
    BY DEF Ranges
  <2>1. CASE q \in {p, n}
    BY <1>16, <1>19, <2>1
  <2>2. CASE q \notin {p, n}
    <3>1. Used(q)
      BY <1>12, <2>2 DEF Used, IsLeaf, IsInternal
    <3> QED BY <1>1, <1>19, <2>2, <3>1 DEF Ordered, Ranges
  <2> QED BY <2>1, <2>2
<1>28. Q2[root'] = Int
  BY <1>1, <1>4, <1>5, <1>6, <1>8, <1>13, <1>19, <1>22 DEF Ordered
<1>29. Ordered(R2, Q2)'
  <2>1. (\A q \in PageIDs : LeafOrder(q, R2)') /\ Chained(Leaves, Right, R2)'
    BY <1>1, <1>21, LeavesStay
  <2> QED BY <1>26, <1>27, <1>28, <2>1 DEF Ordered
<1>30. Cleft(R2, Q2)'
  <2>1. Splitting' /\ report'.new_page_id = n /\ report'.boundary_key = x
    BY <1>4, <1>12 DEF Splitting, Split
  <2> QED BY <1>4, <1>13, <1>14, <1>19, <2>1 DEF Cleft
<1>31. Aimed(R2)'
  BY <1>1, <1>4, <1>5, <1>21, UnwindAims
<1> QED BY <1>29, <1>30, <1>31 DEF OInv

\* A root that was split gets a parent.
LEMMA NewRootOrders == ASSUME BInv, OInv, RoomToGrow, NewRoot PROVE OInv'
<1>1. PICK R, Q : Ordered(R, Q) /\ Cleft(R, Q) /\ Aimed(R)
  BY DEF OInv
<1>2. PICK h, up, place : Structure(h, up, place)
  BY DEF BInv
<1>3. PICK n, w, c, k : n = NewPage /\ w = report.new_page_id /\ c = root /\ k = report.boundary_key
  OBVIOUS
<1>4. /\ root' = n /\ pc' = "unwind" /\ pc = "unwind" /\ stack = <<>>
      /\ report.type = "split" /\ report'.type = "no split" /\ to_write_page' = to_write_page
      /\ request' = request
      /\ pages' = [pages EXCEPT ![n] = Internal(<<k>>, <<c, w>>)]
  BY <1>3 DEF NewRoot, NoSplit
<1>5. /\ Control /\ OnWay /\ Pages /\ Way(h, up) /\ Witnesses(h, up, place) /\ Tree(h, up, place)
      /\ Splitting /\ to_write_page \in PageIDs /\ IsLeaf(to_write_page)
  BY <1>2, <1>4 DEF BInv, OnWay, Structure, Splitting, Control
<1>6. cur = c /\ c \in PageIDs /\ Used(c) /\ up[c] = NoPage
  <2>1. Follows(0) = cur
    BY <1>4 DEF Follows
  <2> QED BY <1>2, <1>3, <1>5, <2>1 DEF Way, Structure
<1>7. w \in PageIDs /\ Used(w) /\ w # c
  BY <1>2, <1>3, <1>5, <1>6 DEF Structure, Orphan
<1>8. n \in PageIDs /\ ~Used(n) /\ n # c /\ n # w
  <2>1. n \in PageIDs /\ pages[n] = Free
    BY <1>3, NewPageIsFree
  <2> QED BY <1>5, <1>6, <1>7, <2>1, Kinds DEF Pages
<1>9. /\ pages'[n] = Internal(<<k>>, <<c, w>>) /\ \A q \in PageIDs : q # n => pages'[q] = pages[q]
  <2>1. pages = [q \in PageIDs |-> pages[q]]
    BY <1>5 DEF Pages
  <2> QED BY <1>4, <1>8, <2>1, Update
<1>10. /\ k \in Keys /\ k \in Int /\ Q[c] = Int /\ R[c] = Below(Int, k) /\ R[w] = From(Int, k)
       /\ R[c] # {} /\ R[w] # {} /\ \A q \in PageIDs : q # c => Q[q] = R[q]
  <2>1. Q[c] = Int
    BY <1>1, <1>3 DEF Ordered
  <2>2. R[c] # {} /\ R[w] # {}
    BY <1>1, <1>6, <1>7 DEF Ordered, Ranges
  <2> QED BY <1>1, <1>3, <1>5, <1>6, <2>1, <2>2 DEF Cleft
<1>11. PICK R2 : R2 = [q \in PageIDs |-> IF q = n THEN Int ELSE R[q]]
  OBVIOUS
<1>12. R2[n] = Int /\ \A q \in PageIDs : q # n => R2[q] = R[q]
  BY <1>8, <1>11
<1>13. Node(<<k>>, <<c, w>>, Int, R2)
  <2>1. PICK ks, cs : ks = <<k>> /\ cs = <<c, w>>
    OBVIOUS
  <2>2. /\ ks \in Seq(Keys) /\ Len(ks) = 1 /\ ks[1] = k
        /\ cs \in Seq(PageIDs) /\ Len(cs) = 2 /\ cs[1] = c /\ cs[2] = w
    BY <1>6, <1>7, <1>10, <2>1
  <2>3. R2[c] = Below(Int, k) /\ R2[w] = From(Int, k) /\ R2[c] # {} /\ R2[w] # {}
    BY <1>6, <1>7, <1>8, <1>10, <1>12
  <2>4. \A i \in 1..1 : ks[i] \in Keys /\ ks[i] \in Int
    BY <1>10, <2>2
  <2>5. \A i \in 1..2 : cs[i] \in PageIDs /\ R2[cs[i]] # {} /\ R2[cs[i]] \in SUBSET Int
    <3> TAKE i \in 1..2
    <3>1. i = 1 \/ i = 2
      OBVIOUS
    <3> QED BY <1>6, <1>7, <2>2, <2>3, <3>1 DEF Below, From
  <2>6. \A i \in 1..2 : \A y : y \in R2[cs[i]] <=> /\ y \in Int
                                                   /\ i = 1 \/ ks[i - 1] <= y
                                                   /\ i = 2 \/ y < ks[i]
    <3> TAKE i \in 1..2
    <3>1. CASE i = 1
      BY <2>2, <2>3, <3>1 DEF Below
    <3>2. CASE i = 2
      <4>1. ks[i - 1] = k
        BY <2>2, <3>2
      <4> QED BY <2>2, <2>3, <3>2, <4>1 DEF From
    <3> QED BY <3>1, <3>2
  <2>7. NodeIs(ks, cs, Int, R2, 1)
    <3>1. \A i, j \in 1..1 : i < j => ks[i] < ks[j]
      OBVIOUS
    <3>2. 1 + 1 = 2 /\ 1 \in Nat
      OBVIOUS
    <3> QED BY <2>2, <2>4, <2>5, <2>6, <3>1, <3>2 DEF NodeIs
  <2> QED BY <2>1, <2>7, IsNode
<1>14. /\ ~IsLeaf(n) /\ ~IsLeaf(n)' /\ pages'[n].keys = <<k>> /\ Kids(n)' = <<c, w>>
  BY <1>8, <1>9, Shapes DEF IsLeaf, Kids, Used
<1>15. LeavesKept({n}, R, R2)
  BY <1>9, <1>12, <1>14 DEF LeavesKept
<1>16. \A q \in PageIDs : NodeOrder(q, R2, R2)'
  <2> TAKE q \in PageIDs
  <2>1. CASE q = n
    BY <1>12, <1>13, <1>14, <2>1 DEF NodeOrder
  <2>2. CASE q # n
    <3>1. \A y \in PageIDs : up[y] = q => R2[y] = Q[y]
      <4> SUFFICES ASSUME NEW y \in PageIDs, up[y] = q PROVE R2[y] = Q[y]
        OBVIOUS
      <4>1. y # n /\ y # c
        <5>1. up[y] # NoPage
          BY BTreeAssumption
        <5>2. Used(y)
          BY <1>5, <5>1, Heights
        <5> QED BY <1>6, <1>8, <5>1, <5>2
      <4> QED BY <1>10, <1>12, <4>1
    <3>2. pages'[q] = pages[q] /\ R2[q] = R[q] /\ \A y \in PageIDs : up[y] = q => R2[y] = Q[y]
      BY <1>9, <1>12, <2>2, <3>1
    <3>3. NodeOrder(q, R, Q)
      BY <1>1 DEF Ordered
    <3> QED BY <1>5, <3>2, <3>3, OtherNode
  <2> QED BY <2>1, <2>2
<1>17. Ranges(R2)'
  <2> SUFFICES ASSUME NEW q \in PageIDs, Used(q)' PROVE R2[q] \in SUBSET Int /\ R2[q] # {} /\ Convex(R2[q])
    BY DEF Ranges
  <2>1. CASE q = n
    BY <1>12, <2>1 DEF Convex
  <2>2. CASE q # n
    <3>1. Used(q)
      BY <1>9, <2>2 DEF Used, IsLeaf, IsInternal
    <3> QED BY <1>1, <1>12, <2>2, <3>1 DEF Ordered, Ranges
  <2> QED BY <2>1, <2>2
<1>18. Ordered(R2, R2)'
  <2>1. (\A q \in PageIDs : LeafOrder(q, R2)') /\ Chained(Leaves, Right, R2)'
    BY <1>1, <1>15, LeavesStay
  <2>2. R2[root'] = Int
    BY <1>4, <1>12
  <2> QED BY <1>16, <1>17, <2>1, <2>2 DEF Ordered
<1>19. Cleft(R2, R2)'
  BY <1>4 DEF Cleft, Splitting
<1>20. Aimed(R2)'
  BY <1>1, <1>4, <1>5, <1>15, UnwindAims
<1> QED BY <1>18, <1>19, <1>20 DEF OInv

-----------------------------------------------------------------------------
\* Two neighbours share what they have anew, from x on it is the second's.

Shared(R, Q, i, p, a, b, x, R2) ==
  /\ Ordered(R, Q) /\ Cleft(R, Q) /\ ~Splitting /\ root' = root
  /\ pc = "rebalance" /\ stack # <<>> /\ report.type # "InvalidPage"
  /\ p = parent /\ i \in 1..Width(p) /\ a = Kids(p)[i] /\ b = Kids(p)[i + 1]
  /\ x \in Keys /\ x \in R[a] \cup R[b]
  /\ R2[a] = Below(R[a] \cup R[b], x) /\ R2[a] # {}
  /\ R2[b] = From(R[a] \cup R[b], x) /\ R2[b] # {}
  /\ \A q \in PageIDs : q \notin {a, b} => R2[q] = R[q]
  /\ pages'[p] = Internal([pages[p].keys EXCEPT ![i] = x], Kids(p))
  /\ \A q \in PageIDs : q \notin {a, b, p} => pages'[q] = pages[q]

\* What a parent's neighbouring children are for.
Facing(R, Q, i, p, a, b) ==
  /\ BInv /\ Ordered(R, Q) /\ Cleft(R, Q) /\ ~Splitting
  /\ pc = "rebalance" /\ stack # <<>> /\ report.type # "InvalidPage"
  /\ p = parent /\ i \in 1..Width(p) /\ a = Kids(p)[i] /\ b = Kids(p)[i + 1]

LEMMA Neighbours ==
  ASSUME NEW R, NEW Q, NEW i, NEW p, NEW a, NEW b, Facing(R, Q, i, p, a, b)
  PROVE  /\ Node(pages[p].keys, Kids(p), R[p], R) /\ R[p] \in SUBSET Int /\ Convex(R[p])
         /\ i \in 1..Len(pages[p].keys) /\ i \in 1..Len(Kids(p)) /\ i + 1 \in 1..Len(Kids(p))
         /\ Before(R[a], R[b]) /\ Next2(R[a], R[b])
         /\ R[a] \in SUBSET Int /\ R[b] \in SUBSET Int /\ R[a] # {} /\ R[b] # {}
         /\ Convex(R[a]) /\ Convex(R[b]) /\ Convex(R[a] \cup R[b])
         /\ a \in PageIDs /\ b \in PageIDs /\ p \in PageIDs /\ a # b /\ p # a /\ p # b
         /\ a # root /\ b # root /\ IsInternal(p)
<1> /\ BInv /\ Ordered(R, Q) /\ Cleft(R, Q) /\ ~Splitting
    /\ pc = "rebalance" /\ stack # <<>> /\ report.type # "InvalidPage"
    /\ p = parent /\ i \in 1..Width(p) /\ a = Kids(p)[i] /\ b = Kids(p)[i + 1]
  BY DEF Facing
<1>1. PICK h, up, place : Structure(h, up, place)
  BY DEF BInv
<1>2. /\ Pages /\ Control /\ OnWay
  BY DEF BInv, OnWay
<1>3. /\ a \in PageIDs /\ b \in PageIDs /\ p \in PageIDs
      /\ p # a /\ p # b /\ a # b /\ p # NoPage
      /\ Used(a) /\ Used(b) /\ IsInternal(p) /\ Used(p)
      /\ up[a] = p /\ up[b] = p
  BY <1>1, <1>2, Siblings
<1>4. a # root /\ b # root
  BY <1>1, <1>3 DEF Structure
<1>5. \A q \in PageIDs : Q[q] = R[q]
  BY DEF Cleft
<1>6. Node(pages[p].keys, Kids(p), R[p], Q)
  BY <1>3 DEF Ordered, NodeOrder
<1>7. Kids(p) \in Seq(PageIDs) /\ Len(Kids(p)) = Width(p) + 1 /\ Width(p) \in Nat
  BY <1>2, <1>3, Kinds DEF Pages
<1>8. Node(pages[p].keys, Kids(p), R[p], R)
  <2>1. \A j \in 1..Len(Kids(p)) : Kids(p)[j] \in PageIDs
    BY <1>7, ElementOfSeq
  <2>2. \A j \in 1..Len(Kids(p)) : R[Kids(p)[j]] = Q[Kids(p)[j]]
    BY <1>5, <2>1
  <2> QED BY <1>6, <2>2, NodeSame
<1>9. /\ i \in 1..Len(pages[p].keys) /\ i \in 1..Len(Kids(p)) /\ i + 1 \in 1..Len(Kids(p)) /\ i < i + 1
  BY <1>7 DEF Width
<1>10. R[p] \in SUBSET Int /\ Convex(R[p]) /\ R[a] # {} /\ R[b] # {}
       /\ R[a] \in SUBSET Int /\ R[b] \in SUBSET Int /\ Convex(R[a]) /\ Convex(R[b])
  BY <1>3 DEF Ordered, Ranges
<1>11. Before(R[a], R[b])
  BY <1>8, <1>9, PartsInOrder
<1>12. Next2(R[a], R[b])
  BY <1>8, <1>9, <1>10, PartsNext
<1>13. Convex(R[a] \cup R[b])
  BY <1>10, <1>12, JoinConvex
<1> QED BY <1>3, <1>4, <1>8, <1>9, <1>10, <1>11, <1>12, <1>13

LEMMA SharedOrder ==
  ASSUME BInv, NEW R, NEW Q, NEW i, NEW p, NEW a, NEW b, NEW x, NEW R2,
         Shared(R, Q, i, p, a, b, x, R2)
  PROVE  /\ \A q \in PageIDs : q \notin {a, b} => NodeOrder(q, R2, R2)'
         /\ (\A q \in PageIDs : q \notin {a, b} => LeafOrder(q, R2)')
         /\ Ranges(R2)' /\ R2[root'] = Int
<1>1. PICK h, up, place : Structure(h, up, place)
  BY DEF BInv
<1>2. /\ Ordered(R, Q) /\ Cleft(R, Q) /\ ~Splitting /\ root' = root
      /\ pc = "rebalance" /\ stack # <<>> /\ report.type # "InvalidPage"
      /\ p = parent /\ i \in 1..Width(p) /\ a = Kids(p)[i] /\ b = Kids(p)[i + 1]
  BY DEF Shared
<1>3. /\ Node(pages[p].keys, Kids(p), R[p], R) /\ R[p] \in SUBSET Int /\ Convex(R[p])
      /\ i \in 1..Len(pages[p].keys) /\ i \in 1..Len(Kids(p)) /\ i + 1 \in 1..Len(Kids(p))
      /\ Before(R[a], R[b]) /\ Next2(R[a], R[b])
      /\ R[a] \in SUBSET Int /\ R[b] \in SUBSET Int /\ R[a] # {} /\ R[b] # {}
      /\ Convex(R[a]) /\ Convex(R[b]) /\ Convex(R[a] \cup R[b])
      /\ a \in PageIDs /\ b \in PageIDs /\ p \in PageIDs /\ a # b /\ p # a /\ p # b
      /\ a # root /\ b # root /\ IsInternal(p)
  <2>1. Facing(R, Q, i, p, a, b)
    BY <1>2 DEF Facing
  <2> QED BY <2>1, Neighbours
<1>4. PICK U : U = R[a] \cup R[b]
  OBVIOUS
<1>5. /\ x \in Keys /\ x \in U /\ R2[a] = Below(U, x) /\ R2[a] # {} /\ R2[b] = From(U, x) /\ R2[b] # {}
      /\ \A q \in PageIDs : q \notin {a, b} => R2[q] = R[q]
      /\ pages'[p] = Internal([pages[p].keys EXCEPT ![i] = x], Kids(p))
      /\ \A q \in PageIDs : q \notin {a, b, p} => pages'[q] = pages[q]
  BY <1>4 DEF Shared
<1>6. /\ Pages /\ Tree(h, up, place) /\ up[a] = p /\ up[b] = p
      /\ \A q \in PageIDs : Q[q] = R[q]
      /\ Kids(p) \in Seq(PageIDs) /\ \A j \in 1..Len(Kids(p)) : place[Kids(p)[j]] = j
      /\ root \in PageIDs
  <2>1. Pages /\ Tree(h, up, place) /\ root \in PageIDs
    BY <1>1 DEF BInv, Structure, Control
  <2>2. up[a] = p /\ up[b] = p
    BY <1>2, <1>3, <2>1 DEF Tree, Holds
  <2>3. \A q \in PageIDs : Q[q] = R[q]
    BY <1>2 DEF Cleft
  <2>4. Kids(p) \in Seq(PageIDs)
    BY <1>3, <2>1, Kinds DEF Pages
  <2>5. \A j \in 1..Len(Kids(p)) : place[Kids(p)[j]] = j
    BY <1>3, <2>1 DEF Tree, Holds
  <2> QED BY <2>1, <2>2, <2>3, <2>4, <2>5
<1>7. Node([pages[p].keys EXCEPT ![i] = x], Kids(p), R[p], R2)
  <2>1. PICK ks, cs : ks = pages[p].keys /\ cs = Kids(p)
    OBVIOUS
  <2>2. /\ Node(ks, cs, R[p], R) /\ i \in 1..Len(ks)
        /\ U = R[cs[i]] \cup R[cs[i + 1]]
        /\ R2[cs[i]] = Below(U, x) /\ R2[cs[i]] # {}
        /\ R2[cs[i + 1]] = From(U, x) /\ R2[cs[i + 1]] # {}
    BY <1>2, <1>3, <1>4, <1>5, <2>1
  <2>3. \A j, k \in 1..Len(cs) : j # k => cs[j] # cs[k]
    BY <1>6, <2>1
  <2>4. \A j \in 1..Len(cs) : j # i /\ j # i + 1 => R2[cs[j]] = R[cs[j]]
    <3> SUFFICES ASSUME NEW j \in 1..Len(cs), j # i, j # i + 1 PROVE R2[cs[j]] = R[cs[j]]
      OBVIOUS
    <3>1. cs[j] \in PageIDs
      BY <1>6, <2>1, ElementOfSeq
    <3>2. cs[j] # a /\ cs[j] # b
      BY <1>2, <1>3, <2>1, <2>3
    <3> QED BY <1>5, <3>1, <3>2
  <2>5. Redivided(ks, cs, R[p], R, i, x, U, R2)
    BY <1>5, <2>2, <2>3, <2>4 DEF Redivided
  <2> QED BY <2>1, <2>5, NodeSet
<1>8. \A q \in PageIDs : q \notin {a, b} => NodeOrder(q, R2, R2)'
  <2> SUFFICES ASSUME NEW q \in PageIDs, q \notin {a, b} PROVE NodeOrder(q, R2, R2)'
    OBVIOUS
  <2>1. CASE q = p
    <3>1. pages'[q].keys = [pages[p].keys EXCEPT ![i] = x] /\ Kids(q)' = Kids(p) /\ R2[q] = R[p]
      BY <1>3, <1>5, <2>1, Shapes DEF Kids
    <3> QED BY <1>7, <3>1 DEF NodeOrder
  <2>2. CASE q # p
    <3>1. pages'[q] = pages[q] /\ R2[q] = R[q] /\ \A y \in PageIDs : up[y] = q => R2[y] = Q[y]
      BY <1>5, <1>6, <2>2
    <3>2. NodeOrder(q, R, Q)
      BY <1>2 DEF Ordered
    <3> QED BY <1>6, <3>1, <3>2, OtherNode
  <2> QED BY <2>1, <2>2
<1>9. \A q \in PageIDs : q \notin {a, b} => LeafOrder(q, R2)'
  <2> SUFFICES ASSUME NEW q \in PageIDs, q \notin {a, b} PROVE LeafOrder(q, R2)'
    OBVIOUS
  <2>1. CASE q = p
    BY <1>5, <2>1, Shapes DEF LeafOrder, IsLeaf
  <2>2. CASE q # p
    <3>1. pages'[q] = pages[q] /\ R2[q] = R[q] /\ LeafOrder(q, R)
      BY <1>2, <1>5, <2>2 DEF Ordered
    <3> QED BY <3>1, OtherLeaf
  <2> QED BY <2>1, <2>2
<1>10. Ranges(R2)'
  <2> SUFFICES ASSUME NEW q \in PageIDs, Used(q)' PROVE R2[q] \in SUBSET Int /\ R2[q] # {} /\ Convex(R2[q])
    BY DEF Ranges
  <2>1. CASE q \in {a, b}
    <3>1. U \in SUBSET Int /\ Convex(U) /\ x \in Int
      BY <1>3, <1>4, <1>5, Limits
    <3>2. Convex(Below(U, x)) /\ Convex(From(U, x))
      BY <3>1, CutConvex
    <3>3. Below(U, x) \in SUBSET Int /\ From(U, x) \in SUBSET Int
      BY <3>1 DEF Below, From
    <3> QED BY <1>5, <2>1, <3>2, <3>3
  <2>2. CASE q \notin {a, b}
    <3>1. Used(q)
      BY <1>3, <1>5, <2>2 DEF Used, IsLeaf, IsInternal
    <3> QED BY <1>2, <1>5, <2>2, <3>1 DEF Ordered, Ranges
  <2> QED BY <2>1, <2>2
<1>11. R2[root'] = Int
  BY <1>2, <1>3, <1>5, <1>6 DEF Ordered
<1> QED BY <1>8, <1>9, <1>10, <1>11

-----------------------------------------------------------------------------
\* Leaves lend tuples.

TuplesCut(a, b, m, ta, tb, x) ==
  /\ LET all == pages[a].tuples \o pages[b].tuples IN
     /\ m \in 1..(Len(all) - 1)
     /\ ta = SubSeq(all, 1, m) /\ tb = SubSeq(all, m + 1, Len(all)) /\ x = all[m + 1].key
  /\ Space(ta) <= LEAF_SPACE /\ Space(tb) <= LEAF_SPACE

Recut(i, p, a, b, m, ta, tb, x) ==
  /\ root' = root /\ pc = "rebalance" /\ pc' = "rebalance" /\ stack # <<>>
  /\ report.type = "LeafPage" /\ report'.type # "LeafPage" /\ request' = request
  /\ p = parent /\ i \in 1..Width(p) /\ a = Kids(p)[i] /\ b = Kids(p)[i + 1]
  /\ TuplesCut(a, b, m, ta, tb, x)
  /\ pages'[a] = Leaf(ta, pages[a].left_pid, pages[a].right_pid)
  /\ pages'[b] = Leaf(tb, pages[b].left_pid, pages[b].right_pid)
  /\ pages'[p] = Internal([pages[p].keys EXCEPT ![i] = x], Kids(p))
  /\ \A q \in PageIDs : q \notin {a, b, p} => pages'[q] = pages[q]

LEMMA RecutOrders ==
  ASSUME BInv, OInv, NEW i, NEW p, NEW a, NEW b, NEW m, NEW ta, NEW tb, NEW x,
         Recut(i, p, a, b, m, ta, tb, x)
  PROVE  OInv'
<1>1. PICK R, Q : Ordered(R, Q) /\ Cleft(R, Q) /\ Aimed(R)
  BY DEF OInv
<1>2. /\ root' = root /\ pc = "rebalance" /\ pc' = "rebalance" /\ stack # <<>>
      /\ report.type = "LeafPage" /\ report'.type # "LeafPage" /\ request' = request
      /\ p = parent /\ i \in 1..Width(p) /\ a = Kids(p)[i] /\ b = Kids(p)[i + 1]
      /\ Space(ta) <= LEAF_SPACE /\ Space(tb) <= LEAF_SPACE
      /\ pages'[a] = Leaf(ta, pages[a].left_pid, pages[a].right_pid)
      /\ pages'[b] = Leaf(tb, pages[b].left_pid, pages[b].right_pid)
      /\ pages'[p] = Internal([pages[p].keys EXCEPT ![i] = x], Kids(p))
      /\ \A q \in PageIDs : q \notin {a, b, p} => pages'[q] = pages[q]
  BY ZenonT(40) DEF TuplesCut, Recut
<1>3. PICK all : all = pages[a].tuples \o pages[b].tuples
  BY Zenon
<1>4. /\ m \in 1..(Len(all) - 1) /\ ta = SubSeq(all, 1, m) /\ tb = SubSeq(all, m + 1, Len(all))
      /\ x = all[m + 1].key
  BY <1>3, Zenon DEF TuplesCut, Recut
<1>5. ~Splitting /\ ~Splitting'
  BY <1>2 DEF Splitting
<1>6. /\ Before(R[a], R[b]) /\ Next2(R[a], R[b]) /\ R[a] \in SUBSET Int /\ R[b] \in SUBSET Int
      /\ a \in PageIDs /\ b \in PageIDs /\ p \in PageIDs /\ a # b /\ p # a /\ p # b /\ IsInternal(p)
  <2>1. Facing(R, Q, i, p, a, b)
    BY <1>1, <1>2, <1>5 DEF Facing
  <2> QED BY <2>1, Neighbours
<1>7. IsLeaf(a) /\ IsLeaf(b)
  <2>1. PICK h, up, place : Structure(h, up, place)
    BY DEF BInv
  <2>2. IsLeaf(cur) /\ Pages /\ Control /\ OnWay
    BY <1>2 DEF BInv, Control, OnWay
  <2> QED BY <1>2, <2>1, <2>2, Siblings
<1>8. /\ Held(pages[a].tuples, R[a]) /\ Held(pages[b].tuples, R[b])
      /\ pages[a].left_pid \in PageIDs \cup {NoPage} /\ pages[b].left_pid \in PageIDs \cup {NoPage}
  BY <1>1, <1>6, <1>7 DEF Ordered, LeafOrder
<1>9. PICK U : U = R[a] \cup R[b]
  OBVIOUS
<1>10. Held(all, U)
  BY <1>3, <1>6, <1>8, <1>9, HeldJoin
<1>11. /\ x \in Keys /\ x \in Int /\ x \in U
       /\ Held(ta, Below(U, x)) /\ Below(U, x) # {} /\ Held(tb, From(U, x)) /\ From(U, x) # {}
  <2>1. Cutting(all, U, m, ta, tb, x)
    BY <1>4, <1>6, <1>9, <1>10 DEF Cutting
  <2> QED BY <2>1, HeldCut
<1>12. PICK R2 : R2 = [q \in PageIDs |-> IF q = a THEN Below(U, x) ELSE IF q = b THEN From(U, x) ELSE R[q]]
  OBVIOUS
<1>13. /\ R2[a] = Below(U, x) /\ R2[b] = From(U, x)
       /\ \A q \in PageIDs : q \notin {a, b} => R2[q] = R[q]
  BY <1>6, <1>12
<1>14. Shared(R, Q, i, p, a, b, x, R2)
  BY <1>1, <1>2, <1>5, <1>9, <1>11, <1>13 DEF Shared
<1>15. /\ \A q \in PageIDs : q \notin {a, b} => NodeOrder(q, R2, R2)'
       /\ (\A q \in PageIDs : q \notin {a, b} => LeafOrder(q, R2)')
       /\ Ranges(R2)' /\ R2[root'] = Int
  BY <1>14, SharedOrder
<1>16. /\ pages'[a].tuples = ta /\ pages'[a].left_pid = pages[a].left_pid /\ pages'[a].right_pid = pages[a].right_pid
       /\ pages'[b].tuples = tb /\ pages'[b].left_pid = pages[b].left_pid /\ pages'[b].right_pid = pages[b].right_pid
       /\ IsLeaf(a)' /\ IsLeaf(b)' /\ ~IsInternal(a)' /\ ~IsInternal(b)'
       /\ ~IsLeaf(p) /\ ~IsLeaf(p)'
  BY <1>2, <1>6, Shapes DEF IsLeaf, IsInternal
<1>17. \A q \in PageIDs : NodeOrder(q, R2, R2)'
  BY <1>15, <1>16 DEF NodeOrder
<1>18. \A q \in PageIDs : LeafOrder(q, R2)'
  <2>1. LeafOrder(a, R2)' /\ LeafOrder(b, R2)'
    BY <1>2, <1>8, <1>11, <1>13, <1>16 DEF LeafOrder
  <2> QED BY <1>15, <2>1
<1>19. Leaves' = Leaves
  <2>1. \A q \in PageIDs : IsLeaf(q)' <=> IsLeaf(q)
    BY <1>2, <1>7, <1>16 DEF IsLeaf
  <2> QED BY <2>1 DEF Leaves
<1>20. Chained(Leaves, Right, R2)'
  <2>1. \A q \in Leaves : Right'[q] = Right[q]
    BY <1>2, <1>16 DEF Right, Leaves
  <2>2. /\ Leaves \in SUBSET PageIDs /\ Chained(Leaves, Right, R) /\ NoPage \notin Leaves
        /\ a \in Leaves /\ b \in Leaves
    BY <1>1, <1>6, <1>7, BTreeAssumption DEF Leaves, Ordered
  <2>3. /\ R2[a] # {} /\ R2[b] # {} /\ \A q \in Leaves : q # a /\ q # b => R2[q] = R[q]
    BY <1>11, <1>13, <2>2
  <2>4. Recoupled(Leaves, Right, R, a, b, U, x, Right', R2)
    BY <1>6, <1>9, <1>11, <1>13, <2>1, <2>2, <2>3 DEF Recoupled
  <2>5. Chained(Leaves, Right', R2)
    BY <2>4, ChainShift
  <2> QED BY <1>19, <2>5 DEF Chained
<1>21. Ordered(R2, R2)'
  BY <1>15, <1>17, <1>18, <1>20 DEF Ordered
<1>22. Cleft(R2, R2)'
  BY <1>5 DEF Cleft
<1>23. Aimed(R2)'
  <2>1. request.key \in Keys
    BY <1>1, <1>2 DEF Aimed
  <2> QED BY <1>2, <2>1 DEF Aimed, Reported
<1> QED BY <1>21, <1>22, <1>23 DEF OInv

\* Where two sequences, one behind the other, are cut.
LEMMA CutFirst ==
  ASSUME NEW S, NEW s \in Seq(S), NEW t \in Seq(S), NEW m \in 0..Len(s)
  PROVE  /\ SubSeq(s \o t, 1, m) = SubSeq(s, 1, m)
         /\ SubSeq(s \o t, m + 1, Len(s \o t)) = SubSeq(s, m + 1, Len(s)) \o t
<1>1. PICK n, k, w : n = Len(s) /\ k = Len(t) /\ w = s \o t
  OBVIOUS
<1>2. n \in Nat /\ k \in Nat /\ m \in Nat /\ m <= n
  BY <1>1, LenProperties
<1>3. w \in Seq(S) /\ Len(w) = n + k /\ \A j \in 1..(n + k) : w[j] = IF j <= n THEN s[j] ELSE t[j - n]
  BY <1>1, JoinFacts
<1>4. PICK a, b, c : a = SubSeq(s, 1, m) /\ b = SubSeq(s, m + 1, Len(s)) /\ c = b \o t
  OBVIOUS
<1>5. /\ a \in Seq(S) /\ Len(a) = m /\ \A j \in 1..m : a[j] = s[j]
      /\ b \in Seq(S) /\ Len(b) = n - m /\ \A j \in 1..(n - m) : b[j] = s[m + j]
  BY <1>1, <1>4, CutFacts
<1>6. /\ c \in Seq(S) /\ Len(c) = (n - m) + k
      /\ \A j \in 1..((n - m) + k) : c[j] = IF j <= n - m THEN b[j] ELSE t[j - (n - m)]
  <2>1. b \in Seq(S) /\ t \in Seq(S) /\ c = b \o t /\ Len(b) = n - m /\ Len(t) = k
    BY <1>1, <1>4, <1>5
  <2>2. /\ c \in Seq(S) /\ Len(c) = Len(b) + Len(t)
        /\ \A j \in 1..(Len(b) + Len(t)) : c[j] = IF j <= Len(b) THEN b[j] ELSE t[j - Len(b)]
    BY ONLY <2>1, JoinFacts
  <2> QED BY <2>1, <2>2
<1>7. PICK y, z : y = SubSeq(w, 1, m) /\ z = SubSeq(w, m + 1, Len(w))
  OBVIOUS
<1>8. /\ y \in Seq(S) /\ Len(y) = m /\ \A j \in 1..m : y[j] = w[j]
      /\ z \in Seq(S) /\ Len(z) = (n + k) - m /\ \A j \in 1..((n + k) - m) : z[j] = w[m + j]
  <2>1. m \in 0..Len(w)
    BY <1>2, <1>3
  <2> QED BY <1>3, <1>7, <2>1, CutFacts
<1>9. y = a
  <2>1. \A j \in 1..m : y[j] = a[j]
    <3> TAKE j \in 1..m
    <3>1. j \in Nat /\ j <= n /\ j \in 1..(n + k)
      BY <1>2
    <3>2. y[j] = w[j] /\ a[j] = s[j]
      BY <1>5, <1>8
    <3>3. w[j] = s[j]
      BY <1>3, <3>1
    <3> QED BY <3>2, <3>3
  <2> QED BY <1>5, <1>8, <2>1, SeqEqual
<1>10. z = c
  <2>1. Len(z) = Len(c) /\ Len(z) = (n + k) - m
    BY <1>2, <1>6, <1>8
  <2>2. \A j \in 1..((n + k) - m) : z[j] = c[j]
    <3> TAKE j \in 1..((n + k) - m)
    <3>1. /\ j \in Nat /\ j > 0 /\ m + j \in 1..(n + k) /\ j \in 1..((n - m) + k)
          /\ j \in 1..((n + k) - m)
      BY <1>2
    <3>2. z[j] = w[m + j]
      BY <1>8, <3>1
    <3>3. CASE j <= n - m
      <4>1. m + j <= n /\ j \in 1..(n - m)
        BY <1>2, <3>1, <3>3
      <4>2. w[m + j] = s[m + j] /\ b[j] = s[m + j]
        BY <1>3, <1>5, <3>1, <4>1
      <4>3. c[j] = b[j]
        BY <1>6, <3>1, <3>3
      <4> QED BY <3>2, <4>2, <4>3
    <3>4. CASE ~(j <= n - m)
      <4>1. ~(m + j <= n) /\ (m + j) - n = j - (n - m)
        BY <1>2, <3>1, <3>4
      <4>2. w[m + j] = t[(m + j) - n]
        BY <1>3, <3>1, <4>1
      <4>3. c[j] = t[j - (n - m)]
        BY <1>6, <3>1, <3>4
      <4> QED BY <3>2, <4>1, <4>2, <4>3
    <3> QED BY <3>3, <3>4
  <2> QED BY <1>6, <1>8, <2>1, <2>2, SeqEqual
<1> QED BY <1>1, <1>4, <1>7, <1>9, <1>10

CutsSecond(S, s, t, r, m, u, v, w, x) ==
  /\ s \in Seq(S) /\ t \in Seq(S) /\ r \in 0..Len(t) /\ m = Len(s) + r
  /\ u = SubSeq(t, 1, r) /\ v = SubSeq(t, r + 1, Len(t)) /\ w = s \o t /\ x = s \o u

LEMMA CutSecond ==
  ASSUME NEW S, NEW s, NEW t, NEW r, NEW m, NEW u, NEW v, NEW w, NEW x,
         CutsSecond(S, s, t, r, m, u, v, w, x)
  PROVE  SubSeq(w, 1, m) = x /\ SubSeq(w, m + 1, Len(w)) = v
<1>0. /\ s \in Seq(S) /\ t \in Seq(S) /\ r \in 0..Len(t) /\ m = Len(s) + r
      /\ u = SubSeq(t, 1, r) /\ v = SubSeq(t, r + 1, Len(t)) /\ w = s \o t /\ x = s \o u
  BY DEF CutsSecond
<1>1. PICK n, k : n = Len(s) /\ k = Len(t)
  OBVIOUS
<1>2. n \in Nat /\ k \in Nat /\ r \in Nat /\ r <= k /\ m \in Nat /\ m = n + r
  BY <1>0, <1>1, LenProperties
<1>3. w \in Seq(S) /\ Len(w) = n + k /\ \A j \in 1..(n + k) : w[j] = IF j <= n THEN s[j] ELSE t[j - n]
  BY <1>0, <1>1, JoinFacts
<1>4. PICK a, b, c : a = u /\ b = v /\ c = x
  OBVIOUS
<1>5. /\ a \in Seq(S) /\ Len(a) = r /\ \A j \in 1..r : a[j] = t[j]
      /\ b \in Seq(S) /\ Len(b) = k - r /\ \A j \in 1..(k - r) : b[j] = t[r + j]
  BY <1>0, <1>1, <1>4, CutFacts
<1>6. /\ c \in Seq(S) /\ Len(c) = n + r
      /\ \A j \in 1..(n + r) : c[j] = IF j <= n THEN s[j] ELSE a[j - n]
  <2>1. c = s \o a /\ s \in Seq(S) /\ a \in Seq(S) /\ n = Len(s) /\ r = Len(a)
    BY <1>0, <1>1, <1>4, <1>5
  <2> QED BY <2>1, JoinFacts
<1>7. PICK y, z : y = SubSeq(w, 1, m) /\ z = SubSeq(w, m + 1, Len(w))
  OBVIOUS
<1>8. /\ y \in Seq(S) /\ Len(y) = m /\ \A j \in 1..m : y[j] = w[j]
      /\ z \in Seq(S) /\ Len(z) = (n + k) - m /\ \A j \in 1..((n + k) - m) : z[j] = w[m + j]
  <2>1. m \in 0..Len(w)
    BY <1>2, <1>3
  <2> QED BY <1>3, <1>7, <2>1, CutFacts
<1>9. y = c
  <2>1. \A j \in 1..m : y[j] = c[j]
    <3> TAKE j \in 1..m
    <3>1. j \in Nat /\ j > 0 /\ j \in 1..(n + k) /\ j \in 1..(n + r)
      BY <1>2
    <3>2. y[j] = w[j]
      BY <1>8
    <3>3. CASE j <= n
      <4>1. w[j] = s[j] /\ c[j] = s[j]
        BY <1>3, <1>6, <3>1, <3>3
      <4> QED BY <3>2, <4>1
    <3>4. CASE ~(j <= n)
      <4>1. j - n \in 1..r
        BY <1>2, <3>1, <3>4
      <4>2. w[j] = t[j - n] /\ c[j] = a[j - n]
        BY <1>3, <1>6, <3>1, <3>4
      <4>3. a[j - n] = t[j - n]
        BY <1>5, <4>1
      <4> QED BY <3>2, <4>2, <4>3
    <3> QED BY <3>3, <3>4
  <2> QED BY <1>2, <1>6, <1>8, <2>1, SeqEqual
<1>10. z = b
  <2>1. Len(z) = Len(b) /\ Len(z) = k - r
    BY <1>2, <1>5, <1>8
  <2>2. \A j \in 1..(k - r) : z[j] = b[j]
    <3> TAKE j \in 1..(k - r)
    <3>1. j \in 1..((n + k) - m) /\ m + j \in 1..(n + k) /\ ~(m + j <= n) /\ (m + j) - n = r + j
      BY <1>2
    <3>2. z[j] = w[m + j] /\ b[j] = t[r + j]
      BY <1>5, <1>8, <3>1
    <3>3. w[m + j] = t[(m + j) - n]
      BY <1>3, <3>1
    <3> QED BY <3>1, <3>2, <3>3
  <2> QED BY <1>5, <1>8, <2>1, <2>2, SeqEqual
<1> QED BY <1>1, <1>4, <1>7, <1>9, <1>10

-----------------------------------------------------------------------------
\* Two neighbouring leaves.

LEMMA LeafPair ==
  ASSUME NEW R, NEW Q, NEW i, NEW p, NEW a, NEW b, Facing(R, Q, i, p, a, b), report.type = "LeafPage"
  PROVE  /\ a \in PageIDs /\ b \in PageIDs /\ p \in PageIDs /\ a # b /\ p # a /\ p # b
         /\ IsLeaf(a) /\ IsLeaf(b) /\ IsInternal(p)
         /\ pages = [q \in PageIDs |-> pages[q]] /\ PageShape(a) /\ PageShape(b) /\ PageShape(p)
         /\ Held(pages[a].tuples, R[a]) /\ Space(pages[a].tuples) <= LEAF_SPACE
         /\ Held(pages[b].tuples, R[b]) /\ Space(pages[b].tuples) <= LEAF_SPACE
         /\ Held(pages[a].tuples \o pages[b].tuples, R[a] \cup R[b])
         /\ Space(pages[a].tuples \o pages[b].tuples) = Space(pages[a].tuples) + Space(pages[b].tuples)
         /\ \A k : Has(pages[a].tuples \o pages[b].tuples, k) <=> Has(pages[a].tuples, k) \/ Has(pages[b].tuples, k)
<1>1. /\ Before(R[a], R[b])
      /\ a \in PageIDs /\ b \in PageIDs /\ p \in PageIDs /\ a # b /\ p # a /\ p # b /\ IsInternal(p)
  BY Neighbours
<1>2. /\ BInv /\ Ordered(R, Q) /\ pc = "rebalance" /\ stack # <<>>
      /\ p = parent /\ i \in 1..Width(p) /\ a = Kids(p)[i] /\ b = Kids(p)[i + 1]
  BY DEF Facing
<1>3. IsLeaf(a) /\ IsLeaf(b)
  <2>1. PICK h, up, place : Structure(h, up, place)
    BY <1>2 DEF BInv
  <2>2. IsLeaf(cur) /\ Pages /\ Control /\ OnWay
    BY <1>2 DEF BInv, Control, OnWay
  <2> QED BY <1>2, <2>1, <2>2, Siblings
<1>4. /\ Held(pages[a].tuples, R[a]) /\ Held(pages[b].tuples, R[b])
      /\ Space(pages[a].tuples) <= LEAF_SPACE /\ Space(pages[b].tuples) <= LEAF_SPACE
  BY <1>1, <1>2, <1>3 DEF Ordered, LeafOrder
<1>5. PICK s, t : s = pages[a].tuples /\ t = pages[b].tuples
  OBVIOUS
<1>6. /\ Held(s \o t, R[a] \cup R[b]) /\ Space(s \o t) = Space(s) + Space(t)
      /\ \A k : Has(s \o t, k) <=> Has(s, k) \/ Has(t, k)
  <2>1. PICK A, B : A = R[a] /\ B = R[b]
    OBVIOUS
  <2>2. Held(s, A) /\ Held(t, B) /\ Before(A, B)
    BY <1>1, <1>4, <1>5, <2>1
  <2>3. /\ Held(s \o t, A \cup B) /\ Space(s \o t) = Space(s) + Space(t)
        /\ \A k : Has(s \o t, k) <=> Has(s, k) \/ Has(t, k)
    BY ONLY <2>2, HeldJoin
  <2> QED BY <2>1, <2>3
<1>7. pages = [q \in PageIDs |-> pages[q]] /\ PageShape(a) /\ PageShape(b) /\ PageShape(p)
  BY <1>1, <1>2 DEF BInv, Pages
<1> QED BY <1>1, <1>3, <1>4, <1>5, <1>6, <1>7

\* What a leaf that has underflown asks for.
LEMMA LeafNeeds ==
  ASSUME NEW R, NEW Q, Ordered(R, Q), Aimed(R), Underflown("LeafPage"), BInv,
         NEW w, w = Space(pages[cur].tuples)
  PROVE  /\ w \in Nat /\ LeafNeeded = LEAF_UNDERFLOW_THRESHOLD + 1 - w
         /\ LeafNeeded \in Nat /\ LeafNeeded > 0
<1>1. pc = "rebalance" /\ report.type = "LeafPage" /\ report.underflown /\ stack # <<>>
  BY DEF Underflown, Returned
<1>2. report.current_size = w /\ report.current_size <= LEAF_UNDERFLOW_THRESHOLD
  BY <1>1 DEF Aimed, Reported
<1>3. PICK h, up, place : Structure(h, up, place)
  BY DEF BInv
<1>4. IsLeaf(cur) /\ cur \in PageIDs
  BY <1>1, <1>3, OnTop DEF BInv, Control, OnWay, Structure
<1>5. w \in Nat
  BY <1>4, SpaceNat DEF Ordered, LeafOrder, Held
<1> QED BY <1>2, <1>5, Limits DEF LeafNeeded

\* The last n tuples of leaf a go to leaf b ...
LendsLast(a, b, s, t, needed, n, m, f) ==
  /\ s = pages[a].tuples /\ t = pages[b].tuples
  /\ needed \in Nat /\ needed > 0 /\ needed = LEAF_UNDERFLOW_THRESHOLD + 1 - Space(t)
  /\ n = Lends(s, [j \in DOMAIN s |-> LastTuples(s, j)], needed) /\ n > 0
  /\ m = Len(s) - n /\ f = WriteAll(t, Reverse(LastTuples(s, n)))

LEMMA LastLent ==
  ASSUME NEW R, NEW Q, NEW i, NEW p, NEW a, NEW b, Facing(R, Q, i, p, a, b), report.type = "LeafPage",
         NEW s, NEW t, NEW needed, NEW n, NEW m, NEW f, LendsLast(a, b, s, t, needed, n, m, f)
  PROVE  TuplesCut(a, b, m, FirstTuples(s, m), f, f[1].key)
<1> /\ s = pages[a].tuples /\ t = pages[b].tuples
    /\ needed \in Nat /\ needed > 0 /\ needed = LEAF_UNDERFLOW_THRESHOLD + 1 - Space(t)
    /\ n = Lends(s, [j \in DOMAIN s |-> LastTuples(s, j)], needed) /\ n > 0
    /\ m = Len(s) - n /\ f = WriteAll(t, Reverse(LastTuples(s, n)))
  BY DEF LendsLast
<1>1. /\ Held(s, R[a]) /\ Space(s) <= LEAF_SPACE /\ Held(t, R[b]) /\ Held(s \o t, R[a] \cup R[b])
  BY LeafPair
<1>2. /\ R[a] \in SUBSET Int /\ R[b] \in SUBSET Int
  BY Neighbours
<1>3. /\ s \in Seq(Entry) /\ t \in Seq(Entry) /\ s \in Seq(Raw) /\ t \in Seq(Raw)
      /\ Len(s) \in Nat /\ Len(t) \in Nat /\ Space(s) \in Nat /\ Space(t) \in Nat
  BY <1>1, HeldFacts, SpaceNat DEF Held
<1>4. PICK u, v, w : u = SubSeq(s, 1, m) /\ v = SubSeq(s, m + 1, Len(s)) /\ w = s \o t
  OBVIOUS
<1>5. /\ n \in 1..(Len(s) - 1) /\ m \in 1..(Len(s) - 1)
      /\ Space(v) < needed + MAX_LEAF_PAGE_DATA
  <2>1. /\ n # 0 => /\ n \in 1..(Len(s) - 1) /\ Len(s) - n \in 1..(Len(s) - 1)
                    /\ Space(SubSeq(s, (Len(s) - n) + 1, Len(s))) < needed + MAX_LEAF_PAGE_DATA
        /\ n \in Nat
    <3>1. GivesLast(s, needed, n)
      BY <1>3 DEF GivesLast
    <3>2. GaveLast(s, needed, n)
      BY ONLY <3>1, LendLast
    <3> QED BY ONLY <3>2 DEF GaveLast
  <2>2. m = Len(s) - n /\ n > 0
    OBVIOUS
  <2> QED BY ONLY <1>4, <2>1, <2>2
<1>6. m \in 0..Len(s) /\ m \in Nat /\ n \in Nat
  BY <1>3, <1>5
<1>7. /\ u \in Seq(Entry) /\ v \in Seq(Entry) /\ Space(s) = Space(u) + Space(v)
      /\ SubSeq(w, 1, m) = u /\ SubSeq(w, m + 1, Len(w)) = v \o t
      /\ w \in Seq(Entry) /\ Len(w) = Len(s) + Len(t)
  <2>1. u \in Seq(Entry) /\ v \in Seq(Entry)
    BY <1>3, <1>4, <1>6, CutFacts
  <2>2. Space(s) = Space(u) + Space(v)
    BY <1>3, <1>4, <1>6, SpaceCut
  <2>3. SubSeq(w, 1, m) = u /\ SubSeq(w, m + 1, Len(w)) = v \o t
    <3>1. s \in Seq(Entry) /\ t \in Seq(Entry) /\ m \in 0..Len(s)
      BY <1>3, <1>6
    <3>2. /\ SubSeq(s \o t, 1, m) = SubSeq(s, 1, m)
          /\ SubSeq(s \o t, m + 1, Len(s \o t)) = SubSeq(s, m + 1, Len(s)) \o t
      BY ONLY <3>1, CutFirst
    <3> QED BY <1>4, <3>2, Zenon
  <2>4. w \in Seq(Entry) /\ Len(w) = Len(s) + Len(t)
    BY <1>3, <1>4, JoinFacts
  <2> QED BY <2>1, <2>2, <2>3, <2>4
<1>8. m \in 1..(Len(w) - 1)
  <2>1. PICK y, z : y = Len(s) /\ z = Len(t)
    OBVIOUS
  <2>2. y \in Nat /\ z \in Nat /\ m \in 1..(y - 1)
    BY <1>3, <1>5, <2>1
  <2>3. m \in 1..((y + z) - 1)
    BY ONLY <2>2
  <2> QED BY <1>7, <2>1, <2>3
<1>9. PICK x : x = w[m + 1].key
  OBVIOUS
<1>10. Held(v \o t, From(R[a] \cup R[b], x)) /\ (v \o t)[1].key = x
  <2>1. PICK U, z : U = R[a] \cup R[b] /\ z = v \o t
    BY Zenon
  <2>2. Cutting(w, U, m, u, z, x)
    BY <1>1, <1>2, <1>4, <1>7, <1>8, <1>9, <2>1, Zenon DEF Cutting
  <2>3. Held(z, From(U, x)) /\ z[1].key = x
    BY ONLY <2>2, HeldCut
  <2> QED BY <2>1, <2>3
<1>11. /\ Space(u) \in Nat /\ Space(v) \in Nat /\ Space(u) <= LEAF_SPACE
       /\ Space(t) + Space(v) <= LEAF_SPACE /\ Space(v \o t) = Space(v) + Space(t)
  <2>1. Space(u) \in Nat /\ Space(v) \in Nat
    BY <1>7, SpaceNat
  <2>2. Space(v \o t) = Space(v) + Space(t)
    <3>1. /\ s \in Seq(Raw) /\ t \in Seq(Raw) /\ u \in Seq(Raw) /\ v \in Seq(Raw)
      BY ONLY <1>3, <1>7, EntryFacts
    <3> QED BY ONLY <3>1, SpaceJoin
  <2>3. Space(u) <= LEAF_SPACE
    <3>1. PICK c, y, z : c = Space(u) /\ y = Space(v) /\ z = Space(s)
      OBVIOUS
    <3>2. c \in Nat /\ y \in Nat /\ z = c + y
      BY <1>7, <2>1, <3>1
    <3>3. z <= LEAF_SPACE /\ LEAF_SPACE \in Nat
      BY ONLY <1>1, <3>1, Limits
    <3>4. c <= LEAF_SPACE
      BY ONLY <3>2, <3>3
    <3> QED BY <3>1, <3>4
  <2>4. PICK y, z : y = Space(t) /\ z = Space(v)
    OBVIOUS
  <2>5. y \in Nat /\ z \in Nat /\ z < needed + MAX_LEAF_PAGE_DATA /\ needed = LEAF_UNDERFLOW_THRESHOLD + 1 - y
    BY <1>3, <1>5, <2>1, <2>4
  <2>6. y + z <= LEAF_SPACE
    BY <2>5, Limits
  <2> QED BY <2>1, <2>2, <2>3, <2>4, <2>6
<1>12. f = v \o t
  <2>1. LastTuples(s, n) = v
    BY <1>4, <1>6, ZenonT(40) DEF LastTuples
  <2>2. Ascends(v \o t)
    BY <1>10 DEF Held
  <2>3. WriteAll(t, Reverse(v)) = v \o t
    BY <1>3, <1>7, <1>11, <2>2, WriteAllInFront
  <2> QED BY <2>1, <2>3, ZenonT(40)
<1>13. Space(f) <= LEAF_SPACE
  <2>1. PICK y, z, g : y = Space(t) /\ z = Space(v) /\ g = Space(f)
    OBVIOUS
  <2>2. y \in Nat /\ z \in Nat /\ g = z + y /\ y + z <= LEAF_SPACE
    BY <1>3, <1>11, <1>12, <2>1
  <2>3. g <= LEAF_SPACE
    BY <2>2
  <2> QED BY <2>1, <2>3
<1>14. FirstTuples(s, m) = u
  BY <1>4 DEF FirstTuples
<1>15. /\ m \in 1..(Len(w) - 1) /\ FirstTuples(s, m) = SubSeq(w, 1, m)
       /\ f = SubSeq(w, m + 1, Len(w)) /\ f[1].key = w[m + 1].key
       /\ Space(FirstTuples(s, m)) <= LEAF_SPACE /\ Space(f) <= LEAF_SPACE
  BY <1>7, <1>8, <1>9, <1>10, <1>11, <1>12, <1>13, <1>14, ZenonT(40)
<1> QED BY <1>4, <1>15, Zenon DEF TuplesCut

\* ... or the first n of leaf b go to leaf a.
LendsFirst(a, b, s, t, needed, n, m, f, g) ==
  /\ s = pages[a].tuples /\ t = pages[b].tuples
  /\ needed \in Nat /\ needed > 0 /\ needed = LEAF_UNDERFLOW_THRESHOLD + 1 - Space(s)
  /\ n = Lends(t, [j \in DOMAIN t |-> FirstTuples(t, j)], needed) /\ n > 0
  /\ m = Len(s) + n /\ f = WriteAll(s, FirstTuples(t, n))
  /\ g = LastTuples(t, Len(t) - n)

LEMMA FirstLent ==
  ASSUME NEW R, NEW Q, NEW i, NEW p, NEW a, NEW b, Facing(R, Q, i, p, a, b), report.type = "LeafPage",
         NEW s, NEW t, NEW needed, NEW n, NEW m, NEW f, NEW g, LendsFirst(a, b, s, t, needed, n, m, f, g)
  PROVE  TuplesCut(a, b, m, f, g, g[1].key)
<1> /\ s = pages[a].tuples /\ t = pages[b].tuples
    /\ needed \in Nat /\ needed > 0 /\ needed = LEAF_UNDERFLOW_THRESHOLD + 1 - Space(s)
    /\ n = Lends(t, [j \in DOMAIN t |-> FirstTuples(t, j)], needed) /\ n > 0
    /\ m = Len(s) + n /\ f = WriteAll(s, FirstTuples(t, n))
    /\ g = LastTuples(t, Len(t) - n)
  BY DEF LendsFirst
<1>1. /\ Held(s, R[a]) /\ Held(t, R[b]) /\ Space(t) <= LEAF_SPACE /\ Held(s \o t, R[a] \cup R[b])
  BY LeafPair
<1>2. /\ R[a] \in SUBSET Int /\ R[b] \in SUBSET Int
  BY Neighbours
<1>3. /\ s \in Seq(Entry) /\ t \in Seq(Entry) /\ s \in Seq(Raw) /\ t \in Seq(Raw)
      /\ Len(s) \in Nat /\ Len(t) \in Nat /\ Space(s) \in Nat /\ Space(t) \in Nat
  BY <1>1, HeldFacts, SpaceNat DEF Held
<1>4. PICK u, v, w : u = SubSeq(t, 1, n) /\ v = SubSeq(t, n + 1, Len(t)) /\ w = s \o t
  OBVIOUS
<1>5. n \in 1..(Len(t) - 1) /\ Space(u) < needed + MAX_LEAF_PAGE_DATA
  <2>1. /\ n # 0 => /\ n \in 1..(Len(t) - 1)
                    /\ Space(SubSeq(t, 1, n)) < needed + MAX_LEAF_PAGE_DATA
        /\ n \in Nat
    <3>1. GivesFirst(t, needed, n)
      BY <1>3 DEF GivesFirst
    <3>2. GaveFirst(t, needed, n)
      BY ONLY <3>1, LendFirst
    <3> QED BY ONLY <3>2 DEF GaveFirst
  <2>2. n > 0
    OBVIOUS
  <2> QED BY ONLY <1>4, <2>1, <2>2
<1>6. n \in 0..Len(t) /\ m \in Nat /\ n \in Nat
  BY <1>3, <1>5
<1>7. /\ u \in Seq(Entry) /\ v \in Seq(Entry) /\ Space(t) = Space(u) + Space(v)
      /\ SubSeq(w, 1, m) = s \o u /\ SubSeq(w, m + 1, Len(w)) = v
      /\ w \in Seq(Entry) /\ Len(w) = Len(s) + Len(t)
  <2>1. u \in Seq(Entry) /\ v \in Seq(Entry)
    BY <1>3, <1>4, <1>6, CutFacts
  <2>2. Space(t) = Space(u) + Space(v)
    BY <1>3, <1>4, <1>6, SpaceCut
  <2>3. SubSeq(w, 1, m) = s \o u /\ SubSeq(w, m + 1, Len(w)) = v
    <3>1. PICK x : x = s \o u
      BY ZenonT(40)
    <3>2. CutsSecond(Entry, s, t, n, m, u, v, w, x)
      BY <1>3, <1>4, <1>6, <3>1, ZenonT(40) DEF CutsSecond
    <3>3. SubSeq(w, 1, m) = x /\ SubSeq(w, m + 1, Len(w)) = v
      BY ONLY <3>2, CutSecond
    <3> QED BY <3>1, <3>3
  <2>4. w \in Seq(Entry) /\ Len(w) = Len(s) + Len(t)
    BY <1>3, <1>4, JoinFacts
  <2> QED BY <2>1, <2>2, <2>3, <2>4
<1>8. m \in 1..(Len(w) - 1)
  <2>1. PICK y, z : y = Len(s) /\ z = Len(t)
    OBVIOUS
  <2>2. y \in Nat /\ z \in Nat /\ n \in 1..(z - 1) /\ m = y + n
    BY <1>3, <1>5, <2>1
  <2>3. m \in 1..((y + z) - 1)
    BY ONLY <2>2
  <2> QED BY <1>7, <2>1, <2>3
<1>9. PICK x : x = w[m + 1].key
  OBVIOUS
<1>10. Held(s \o u, Below(R[a] \cup R[b], x)) /\ v[1].key = x
  <2>1. PICK U, z : U = R[a] \cup R[b] /\ z = s \o u
    BY Zenon
  <2>2. Cutting(w, U, m, z, v, x)
    BY <1>1, <1>2, <1>4, <1>7, <1>8, <1>9, <2>1, Zenon DEF Cutting
  <2>3. Held(z, Below(U, x)) /\ v[1].key = x
    BY ONLY <2>2, HeldCut
  <2> QED BY <2>1, <2>3
<1>11. /\ Space(u) \in Nat /\ Space(v) \in Nat /\ Space(v) <= LEAF_SPACE
       /\ Space(s) + Space(u) <= LEAF_SPACE /\ Space(s \o u) = Space(s) + Space(u)
  <2>1. Space(u) \in Nat /\ Space(v) \in Nat
    BY <1>7, SpaceNat
  <2>2. Space(s \o u) = Space(s) + Space(u)
    <3>1. /\ s \in Seq(Raw) /\ t \in Seq(Raw) /\ u \in Seq(Raw) /\ v \in Seq(Raw)
      BY ONLY <1>3, <1>7, EntryFacts
    <3> QED BY ONLY <3>1, SpaceJoin
  <2>3. Space(v) <= LEAF_SPACE
    <3>1. PICK c, y, z : c = Space(u) /\ y = Space(v) /\ z = Space(t)
      OBVIOUS
    <3>2. c \in Nat /\ y \in Nat /\ z = c + y
      BY <1>7, <2>1, <3>1
    <3>3. z <= LEAF_SPACE /\ LEAF_SPACE \in Nat
      BY ONLY <1>1, <3>1, Limits
    <3>4. y <= LEAF_SPACE
      BY ONLY <3>2, <3>3
    <3> QED BY <3>1, <3>4
  <2>4. PICK y, z : y = Space(s) /\ z = Space(u)
    OBVIOUS
  <2>5. y \in Nat /\ z \in Nat /\ z < needed + MAX_LEAF_PAGE_DATA /\ needed = LEAF_UNDERFLOW_THRESHOLD + 1 - y
    BY <1>3, <1>5, <2>1, <2>4
  <2>6. y + z <= LEAF_SPACE
    BY <2>5, Limits
  <2> QED BY <2>1, <2>2, <2>3, <2>4, <2>6
<1>12. f = s \o u
  <2>1. FirstTuples(t, n) = u
    BY <1>4 DEF FirstTuples
  <2>2. Ascends(s \o u)
    BY <1>10 DEF Held
  <2>3. WriteAll(s, u) = s \o u
    BY <1>3, <1>7, <1>11, <2>2, WriteAllBehind
  <2> QED BY <2>1, <2>3
<1>13. g = v
  <2>1. Len(t) - (Len(t) - n) + 1 = n + 1
    BY <1>3, <1>6
  <2> QED BY <1>4, <2>1 DEF LastTuples
<1>14. /\ m \in 1..(Len(w) - 1) /\ f = SubSeq(w, 1, m)
       /\ g = SubSeq(w, m + 1, Len(w)) /\ g[1].key = w[m + 1].key
       /\ Space(f) <= LEAF_SPACE /\ Space(g) <= LEAF_SPACE
  <2>1. Space(f) <= LEAF_SPACE
    <3>1. PICK c, d, e : c = Space(s) /\ d = Space(u) /\ e = Space(f)
      OBVIOUS
    <3>2. e = c + d /\ c + d <= LEAF_SPACE
      BY <1>11, <1>12, <3>1
    <3> QED BY <3>1, <3>2
  <2> QED BY <1>7, <1>8, <1>9, <1>10, <1>11, <1>12, <1>13, <2>1, Zenon
<1> QED BY <1>4, <1>14, Zenon DEF TuplesCut

-----------------------------------------------------------------------------
Recuts == \E i, p, a, b, m, ta, tb, x : Recut(i, p, a, b, m, ta, tb, x)

\* A leaf borrows from its left neighbour ...
LEMMA LeafLeftBorrowCuts ==
  ASSUME BInv, OInv, LeafLeftBorrow
  PROVE  Recuts
<1>1. PICK R, Q : Ordered(R, Q) /\ Cleft(R, Q) /\ Aimed(R)
  BY DEF OInv
<1>2. /\ pc = "rebalance" /\ stack # <<>> /\ report.type = "LeafPage" /\ root' = root /\ pc' = "rebalance"
      /\ report'.type = "InternalPage" /\ LeftLeafLends > 0 /\ request' = request /\ ~Splitting
      /\ Underflown("LeafPage")
  BY DEF LeafLeftBorrow, Underflown, Returned, Ascend, Settled, Status, Splitting
<1>3. HasLeft
  BY <1>2 DEF LeftLeafLends
<1>4. PICK h, up, place : Structure(h, up, place)
  BY DEF BInv
<1>5. /\ childIndex \in 1..Len(Kids(parent)) /\ Width(parent) \in Nat
      /\ Len(Kids(parent)) = Width(parent) + 1 /\ Kids(parent)[childIndex] = cur
  BY <1>2, <1>4, Family DEF BInv, OnWay
<1>6. PICK i : i = childIndex - 1
  OBVIOUS
<1>7. i \in 1..Width(parent) /\ i + 1 = childIndex
  BY <1>3, <1>5, <1>6 DEF HasLeft
<1>8. PICK a, b, p : a = leftSibling /\ b = cur /\ p = parent
  OBVIOUS
<1>9. a = Kids(p)[i] /\ b = Kids(p)[i + 1]
  BY <1>5, <1>6, <1>7, <1>8 DEF leftSibling, parentPage, Kids
<1>10. Facing(R, Q, i, p, a, b)
  BY <1>1, <1>2, <1>7, <1>8, <1>9 DEF Facing
<1>11. /\ a \in PageIDs /\ b \in PageIDs /\ p \in PageIDs /\ a # b /\ p # a /\ p # b
       /\ IsLeaf(a) /\ IsLeaf(b) /\ IsInternal(p)
       /\ pages = [q \in PageIDs |-> pages[q]] /\ PageShape(a) /\ PageShape(b) /\ PageShape(p)
  BY <1>2, <1>10, LeafPair
<1>12. PICK s, t, n, needed : s = pages[a].tuples /\ t = pages[b].tuples /\ n = LeftLeafLends /\ needed = LeafNeeded
  OBVIOUS
<1>13. /\ needed \in Nat /\ needed > 0 /\ needed = LEAF_UNDERFLOW_THRESHOLD + 1 - Space(t)
  BY <1>1, <1>2, <1>8, <1>12, LeafNeeds
<1>14. n = Lends(s, [j \in DOMAIN s |-> LastTuples(s, j)], needed) /\ n > 0
  BY <1>2, <1>3, <1>8, <1>12 DEF LeftLeafLends, CanLendFromRight
<1>15. PICK m, f, g, x : /\ m = Len(s) - n /\ g = FirstTuples(s, m)
                         /\ f = WriteAll(t, Reverse(LastTuples(s, n))) /\ x = f[1].key
  OBVIOUS
<1>16. TuplesCut(a, b, m, g, f, x)
  <2>1. LendsLast(a, b, s, t, needed, n, m, f)
    BY <1>12, <1>13, <1>14, <1>15 DEF LendsLast
  <2> QED BY <1>2, <1>10, <1>15, <2>1, LastLent
<1>17. pages' = [pages EXCEPT ![a].tuples = g, ![b].tuples = f, ![p] = SetNewBoundaryKey(i, x)]
  BY <1>6, <1>8, <1>12, <1>15 DEF LeafLeftBorrow
<1>18. SetNewBoundaryKey(i, x) = Internal([pages[p].keys EXCEPT ![i] = x], Kids(p))
  <2>1. pages[p] = Internal(pages[p].keys, Kids(p))
    BY <1>11, Shapes DEF PageShape, IsLeaf, IsInternal
  <2> QED BY <1>8, <2>1 DEF SetNewBoundaryKey, parentPage, Internal
<1>19. /\ pages'[a] = [pages[a] EXCEPT !.tuples = g]
       /\ pages'[b] = [pages[b] EXCEPT !.tuples = f]
       /\ pages'[p] = Internal([pages[p].keys EXCEPT ![i] = x], Kids(p))
       /\ \A q \in PageIDs : q \notin {a, b, p} => pages'[q] = pages[q]
  BY <1>11, <1>17, <1>18
<1>20. /\ pages'[a] = Leaf(g, pages[a].left_pid, pages[a].right_pid)
       /\ pages'[b] = Leaf(f, pages[b].left_pid, pages[b].right_pid)
  BY <1>11, <1>19, WithTuples
<1>21. Recut(i, p, a, b, m, g, f, x)
  BY <1>2, <1>7, <1>8, <1>9, <1>16, <1>19, <1>20 DEF Recut
<1> QED BY <1>21 DEF Recuts

\* ... or from its right neighbour.
LEMMA LeafRightBorrowCuts ==
  ASSUME BInv, OInv, LeafRightBorrow
  PROVE  Recuts
<1>1. PICK R, Q : Ordered(R, Q) /\ Cleft(R, Q) /\ Aimed(R)
  BY DEF OInv
<1>2. /\ pc = "rebalance" /\ stack # <<>> /\ report.type = "LeafPage" /\ root' = root /\ pc' = "rebalance"
      /\ report'.type = "InternalPage" /\ RightLeafLends > 0 /\ request' = request /\ ~Splitting
      /\ Underflown("LeafPage")
  BY DEF LeafRightBorrow, Underflown, Returned, Ascend, Settled, Status, Splitting
<1>3. HasRight
  BY <1>2 DEF RightLeafLends
<1>4. PICK h, up, place : Structure(h, up, place)
  BY DEF BInv
<1>5. /\ childIndex \in 1..Len(Kids(parent)) /\ Width(parent) \in Nat
      /\ Len(Kids(parent)) = Width(parent) + 1 /\ Kids(parent)[childIndex] = cur
  BY <1>2, <1>4, Family DEF BInv, OnWay
<1>6. PICK i : i = childIndex
  OBVIOUS
<1>7. i \in 1..Width(parent)
  BY <1>3, <1>5, <1>6 DEF HasRight, parentPage, Kids
<1>8. PICK a, b, p : a = cur /\ b = rightSibling /\ p = parent
  OBVIOUS
<1>9. a = Kids(p)[i] /\ b = Kids(p)[i + 1]
  BY <1>5, <1>6, <1>7, <1>8 DEF rightSibling, parentPage, Kids
<1>10. Facing(R, Q, i, p, a, b)
  BY <1>1, <1>2, <1>7, <1>8, <1>9 DEF Facing
<1>11. /\ a \in PageIDs /\ b \in PageIDs /\ p \in PageIDs /\ a # b /\ p # a /\ p # b
       /\ IsLeaf(a) /\ IsLeaf(b) /\ IsInternal(p)
       /\ pages = [q \in PageIDs |-> pages[q]] /\ PageShape(a) /\ PageShape(b) /\ PageShape(p)
  BY <1>2, <1>10, LeafPair
<1>12. PICK s, t, n, needed : s = pages[a].tuples /\ t = pages[b].tuples /\ n = RightLeafLends /\ needed = LeafNeeded
  OBVIOUS
<1>13. /\ needed \in Nat /\ needed > 0 /\ needed = LEAF_UNDERFLOW_THRESHOLD + 1 - Space(s)
  BY <1>1, <1>2, <1>8, <1>12, LeafNeeds
<1>14. n = Lends(t, [j \in DOMAIN t |-> FirstTuples(t, j)], needed) /\ n > 0
  BY <1>2, <1>3, <1>8, <1>12 DEF RightLeafLends, CanLendFromLeft
<1>15. PICK m, f, g, x : /\ m = Len(s) + n /\ f = WriteAll(s, FirstTuples(t, n))
                         /\ g = LastTuples(t, Len(t) - n) /\ x = g[1].key
  OBVIOUS
<1>16. TuplesCut(a, b, m, f, g, x)
  <2>1. LendsFirst(a, b, s, t, needed, n, m, f, g)
    BY <1>12, <1>13, <1>14, <1>15 DEF LendsFirst
  <2> QED BY <1>2, <1>10, <1>15, <2>1, FirstLent
<1>17. pages' = [pages EXCEPT ![b].tuples = g, ![a].tuples = f, ![p] = SetNewBoundaryKey(i, x)]
  BY <1>6, <1>8, <1>11, <1>12, <1>15 DEF LeafRightBorrow
<1>18. SetNewBoundaryKey(i, x) = Internal([pages[p].keys EXCEPT ![i] = x], Kids(p))
  <2>1. pages[p] = Internal(pages[p].keys, Kids(p))
    BY <1>11, Shapes DEF PageShape, IsLeaf, IsInternal
  <2> QED BY <1>8, <2>1 DEF SetNewBoundaryKey, parentPage, Internal
<1>19. /\ pages'[a] = [pages[a] EXCEPT !.tuples = f]
       /\ pages'[b] = [pages[b] EXCEPT !.tuples = g]
       /\ pages'[p] = Internal([pages[p].keys EXCEPT ![i] = x], Kids(p))
       /\ \A q \in PageIDs : q \notin {a, b, p} => pages'[q] = pages[q]
  BY <1>11, <1>17, <1>18
<1>20. /\ pages'[a] = Leaf(f, pages[a].left_pid, pages[a].right_pid)
       /\ pages'[b] = Leaf(g, pages[b].left_pid, pages[b].right_pid)
  BY <1>11, <1>19, WithTuples
<1>21. Recut(i, p, a, b, m, f, g, x)
  BY <1>2, <1>7, <1>8, <1>9, <1>16, <1>19, <1>20 DEF Recut
<1> QED BY <1>21 DEF Recuts

LEMMA LeafLeftBorrowOrders == ASSUME BInv, OInv, LeafLeftBorrow PROVE OInv'
<1>1. Recuts
  BY LeafLeftBorrowCuts
<1> QED BY <1>1, RecutOrders DEF Recuts

LEMMA LeafRightBorrowOrders == ASSUME BInv, OInv, LeafRightBorrow PROVE OInv'
<1>1. Recuts
  BY LeafRightBorrowCuts
<1> QED BY <1>1, RecutOrders DEF Recuts

-----------------------------------------------------------------------------
\* Internal pages lend pairs: the keys and children of both are cut elsewhere.

Spliced(J, C, m, ka, ca, kb, cb, y) ==
  /\ m \in 1..Len(J)
  /\ ka = SubSeq(J, 1, m - 1) /\ ca = SubSeq(C, 1, m)
  /\ kb = SubSeq(J, m + 1, Len(J)) /\ cb = SubSeq(C, m + 1, Len(C)) /\ y = J[m]

CutsFirst(S, s, t, m, u, v, w, x) ==
  /\ s \in Seq(S) /\ t \in Seq(S) /\ m \in 0..Len(s)
  /\ u = SubSeq(s, 1, m) /\ v = SubSeq(s, m + 1, Len(s)) /\ w = s \o t /\ x = v \o t

LEMMA CutAhead ==
  ASSUME NEW S, NEW s, NEW t, NEW m, NEW u, NEW v, NEW w, NEW x,
         CutsFirst(S, s, t, m, u, v, w, x)
  PROVE  SubSeq(w, 1, m) = u /\ SubSeq(w, m + 1, Len(w)) = x
<1>1. s \in Seq(S) /\ t \in Seq(S) /\ m \in 0..Len(s)
  BY DEF CutsFirst
<1>2. /\ SubSeq(s \o t, 1, m) = SubSeq(s, 1, m)
      /\ SubSeq(s \o t, m + 1, Len(s \o t)) = SubSeq(s, m + 1, Len(s)) \o t
  BY ONLY <1>1, CutFirst
<1> QED BY <1>2 DEF CutsFirst

\* Two pages with the key between them.
LEMMA Joined ==
  ASSUME NEW lk \in Seq(Keys), NEW rk \in Seq(Keys), NEW x \in Keys, NEW J, J = lk \o <<x>> \o rk
  PROVE  /\ J \in Seq(Keys) /\ Len(J) = Len(lk) + 1 + Len(rk) /\ lk \o <<x>> \in Seq(Keys)
         /\ <<x>> \o rk \in Seq(Keys) /\ J = lk \o (<<x>> \o rk) /\ Len(lk \o <<x>>) = Len(lk) + 1
         /\ \A j \in 1..Len(lk) : J[j] = lk[j]
         /\ \A j \in 1..Len(rk) : J[Len(lk) + 1 + j] = rk[j]
<1>1. PICK v, w, z, n, k : v = <<x>> /\ w = lk \o v /\ z = v \o rk /\ n = Len(lk) /\ k = Len(rk)
  OBVIOUS
<1>2. v \in Seq(Keys) /\ Len(v) = 1 /\ v[1] = x /\ n \in Nat /\ k \in Nat
  BY <1>1, LenProperties
<1>3. w \in Seq(Keys) /\ Len(w) = n + 1 /\ \A j \in 1..(n + 1) : w[j] = IF j <= n THEN lk[j] ELSE v[j - n]
  BY <1>1, <1>2, JoinFacts
<1>4. z \in Seq(Keys)
  BY <1>1, <1>2, JoinFacts
<1>5. J = w \o rk
  BY <1>1
<1>6. /\ J \in Seq(Keys) /\ Len(J) = (n + 1) + k
      /\ \A j \in 1..((n + 1) + k) : J[j] = IF j <= n + 1 THEN w[j] ELSE rk[j - (n + 1)]
  BY <1>1, <1>3, <1>5, JoinFacts
<1>7. J = lk \o z
  BY <1>1, <1>2, ConcatAssociative
<1>8. \A j \in 1..n : J[j] = lk[j]
  <2> TAKE j \in 1..n
  <2>1. j \in 1..((n + 1) + k) /\ j <= n + 1 /\ j \in 1..(n + 1) /\ j <= n
    BY <1>2
  <2> QED BY <1>3, <1>6, <2>1
<1>9. \A j \in 1..k : J[n + 1 + j] = rk[j]
  <2> TAKE j \in 1..k
  <2>1. (n + 1) + j \in 1..((n + 1) + k) /\ ~((n + 1) + j <= n + 1) /\ ((n + 1) + j) - (n + 1) = j
    BY <1>2
  <2> QED BY <1>2, <1>6, <2>1
<1> QED BY <1>1, <1>3, <1>4, <1>6, <1>7, <1>8, <1>9

SpliceRight(lk, lc, n, x, rk, rc, ka, ca, kb, cb, J, C, m) ==
  /\ LentToRight(lk, lc, n, x, rk, rc, ka, ca, kb, cb)
  /\ lk \in Seq(Keys) /\ rk \in Seq(Keys) /\ x \in Keys
  /\ J = lk \o <<x>> \o rk /\ C = lc \o rc /\ m = Len(lk) - n + 1

LEMMA SplicedRight ==
  ASSUME NEW lk, NEW lc, NEW n, NEW x, NEW rk, NEW rc, NEW ka, NEW ca, NEW kb, NEW cb,
         NEW J, NEW C, NEW m, SpliceRight(lk, lc, n, x, rk, rc, ka, ca, kb, cb, J, C, m)
  PROVE  Spliced(J, C, m, ka, ca, kb, cb, lk[m])
<1>1. /\ lk \in Seq(Keys) /\ rk \in Seq(Keys) /\ x \in Keys
      /\ J = lk \o <<x>> \o rk /\ C = lc \o rc /\ m = Len(lk) - n + 1
      /\ LentToRight(lk, lc, n, x, rk, rc, ka, ca, kb, cb)
  BY DEF SpliceRight
<1>2. /\ lc \in Seq(PageIDs) /\ rc \in Seq(PageIDs)
      /\ Len(lc) = Len(lk) + 1 /\ n \in 1..Len(lk)
      /\ ka = SubSeq(lk, 1, Len(lk) - n) /\ ca = SubSeq(lc, 1, Len(lk) + 1 - n)
      /\ kb = SubSeq(lk, Len(lk) - n + 2, Len(lk)) \o <<x>> \o rk
      /\ cb = SubSeq(lc, Len(lk) + 2 - n, Len(lk) + 1) \o rc
  BY <1>1 DEF LentToRight
<1>3. /\ J \in Seq(Keys) /\ Len(J) = Len(lk) + 1 + Len(rk)
      /\ <<x>> \o rk \in Seq(Keys) /\ J = lk \o (<<x>> \o rk)
      /\ \A j \in 1..Len(lk) : J[j] = lk[j]
  BY <1>1, Joined
<1>4. PICK k, z, l : k = Len(lk) /\ z = <<x>> \o rk /\ l = Len(rk)
  OBVIOUS
<1>5. /\ k \in Nat /\ n \in Nat /\ n \in 1..k /\ m = k - n + 1 /\ m \in 1..k /\ m - 1 = k - n /\ m - 1 \in 0..k /\ m \in 0..k
      /\ k - n + 2 = m + 1 /\ k + 1 - n = m /\ k + 2 - n = m + 1 /\ m \in 0..(k + 1) /\ l \in Nat
      /\ m \in 1..(k + 1 + l)
  <2>1. k \in Nat /\ l \in Nat /\ n \in 1..k /\ m = k - n + 1
    BY <1>1, <1>2, <1>4, LenProperties
  <2> QED BY ONLY <2>1
<1>6. PICK v0, v, b, y : /\ v0 = SubSeq(lk, m, Len(lk)) /\ v = SubSeq(lk, m + 1, Len(lk)) /\ b = v \o z
                      /\ y = v0 \o z
  OBVIOUS
<1>7. ka = SubSeq(J, 1, m - 1)
  <2>1. CutsFirst(Keys, lk, z, m - 1, ka, v0, J, y)
    <3>1. (m - 1) + 1 = m
      BY <1>5
    <3> QED BY <1>1, <1>2, <1>3, <1>4, <1>5, <1>6, <3>1 DEF CutsFirst
  <2>2. SubSeq(J, 1, m - 1) = ka
    BY ONLY <2>1, CutAhead
  <2> QED BY <2>2
<1>8. PICK e : e = SubSeq(lk, 1, m)
  OBVIOUS
<1>9. b = SubSeq(J, m + 1, Len(J))
  <2>1. CutsFirst(Keys, lk, z, m, e, v, J, b)
    BY <1>1, <1>3, <1>4, <1>5, <1>6, <1>8 DEF CutsFirst
  <2>2. SubSeq(J, m + 1, Len(J)) = b
    BY ONLY <2>1, CutAhead
  <2> QED BY <2>2
<1>10. kb = b
  <2>1. v \in Seq(Keys)
    BY <1>1, <1>5, <1>4, <1>6, CutFacts
  <2>2. PICK o : o = <<x>>
    OBVIOUS
  <2>3. o \in Seq(Keys)
    BY <1>1, <2>2
  <2>4. (v \o o) \o rk = v \o (o \o rk)
    <3>1. v \in Seq(Keys) /\ o \in Seq(Keys) /\ rk \in Seq(Keys)
      BY <1>1, <2>1, <2>3
    <3> QED BY ONLY <3>1, ConcatAssociative
  <2>5. kb = (v \o o) \o rk
    BY <1>2, <1>4, <1>5, <1>6, <2>2
  <2> QED BY <1>4, <1>6, <2>2, <2>4, <2>5
<1>11. ca = SubSeq(C, 1, m) /\ cb = SubSeq(C, m + 1, Len(C))
  <2>1. PICK f : f = SubSeq(lc, m + 1, Len(lc))
    OBVIOUS
  <2>2. CutsFirst(PageIDs, lc, rc, m, ca, f, C, cb)
    BY <1>1, <1>2, <1>4, <1>5, <2>1 DEF CutsFirst
  <2>3. SubSeq(C, 1, m) = ca /\ SubSeq(C, m + 1, Len(C)) = cb
    BY ONLY <2>2, CutAhead
  <2> QED BY <2>3
<1>12. m \in 1..Len(J) /\ lk[m] = J[m]
  BY <1>3, <1>4, <1>5
<1> QED BY <1>7, <1>9, <1>10, <1>11, <1>12 DEF Spliced

SpliceLeft(lk, lc, n, x, rk, rc, ka, ca, kb, cb, J, C, m) ==
  /\ LentToLeft(lk, lc, n, x, rk, rc, ka, ca, kb, cb)
  /\ lk \in Seq(Keys) /\ rk \in Seq(Keys) /\ x \in Keys /\ Len(lc) = Len(lk) + 1
  /\ J = lk \o <<x>> \o rk /\ C = lc \o rc /\ m = Len(lk) + 1 + n

LEMMA SplicedLeft ==
  ASSUME NEW lk, NEW lc, NEW n, NEW x, NEW rk, NEW rc, NEW ka, NEW ca, NEW kb, NEW cb,
         NEW J, NEW C, NEW m, SpliceLeft(lk, lc, n, x, rk, rc, ka, ca, kb, cb, J, C, m)
  PROVE  Spliced(J, C, m, ka, ca, kb, cb, rk[n])
<1>1. /\ lk \in Seq(Keys) /\ rk \in Seq(Keys) /\ x \in Keys /\ Len(lc) = Len(lk) + 1
      /\ J = lk \o <<x>> \o rk /\ C = lc \o rc /\ m = Len(lk) + 1 + n
      /\ LentToLeft(lk, lc, n, x, rk, rc, ka, ca, kb, cb)
  BY DEF SpliceLeft
<1>2. /\ lc \in Seq(PageIDs) /\ rc \in Seq(PageIDs)
      /\ Len(rc) = Len(rk) + 1 /\ n \in 1..Len(rk)
      /\ ka = lk \o <<x>> \o SubSeq(rk, 1, n - 1) /\ ca = lc \o SubSeq(rc, 1, n)
      /\ kb = SubSeq(rk, n + 1, Len(rk)) /\ cb = SubSeq(rc, n + 1, Len(rk) + 1)
  BY <1>1 DEF LentToLeft
<1>3. PICK s, k, l : s = lk \o <<x>> /\ k = Len(rk) /\ l = Len(lk)
  OBVIOUS
<1>4. /\ J \in Seq(Keys) /\ Len(J) = l + 1 + k /\ s \in Seq(Keys) /\ J = s \o rk /\ Len(s) = l + 1
      /\ \A j \in 1..k : J[l + 1 + j] = rk[j]
  BY <1>1, <1>3, Joined
<1>5. /\ k \in Nat /\ l \in Nat /\ n \in 1..k /\ n \in Nat /\ m = l + 1 + n /\ m - 1 = (l + 1) + (n - 1)
      /\ n - 1 \in 0..k /\ n \in 0..k /\ n \in 0..(k + 1) /\ m \in 1..(l + 1 + k) /\ (n - 1) + 1 = n
  <2>1. k \in Nat /\ l \in Nat /\ n \in 1..k /\ m = l + 1 + n
    BY <1>1, <1>2, <1>3, LenProperties
  <2> QED BY ONLY <2>1
<1>6. ka = SubSeq(J, 1, m - 1)
  <2>1. PICK u, v : u = SubSeq(rk, 1, n - 1) /\ v = SubSeq(rk, (n - 1) + 1, Len(rk))
    OBVIOUS
  <2>2. CutsSecond(Keys, s, rk, n - 1, m - 1, u, v, J, ka)
    BY <1>1, <1>2, <1>3, <1>4, <1>5, <2>1 DEF CutsSecond
  <2>3. SubSeq(J, 1, m - 1) = ka
    BY ONLY <2>2, CutSecond
  <2> QED BY <2>3
<1>7. kb = SubSeq(J, m + 1, Len(J))
  <2>1. PICK u, z : u = SubSeq(rk, 1, n) /\ z = s \o u
    OBVIOUS
  <2>2. CutsSecond(Keys, s, rk, n, m, u, kb, J, z)
    BY <1>1, <1>2, <1>3, <1>4, <1>5, <2>1 DEF CutsSecond
  <2>3. SubSeq(J, m + 1, Len(J)) = kb
    BY ONLY <2>2, CutSecond
  <2> QED BY <2>3
<1>8. ca = SubSeq(C, 1, m) /\ cb = SubSeq(C, m + 1, Len(C))
  <2>1. PICK u : u = SubSeq(rc, 1, n)
    OBVIOUS
  <2>2. CutsSecond(PageIDs, lc, rc, n, m, u, cb, C, ca)
    BY <1>1, <1>2, <1>3, <1>4, <1>5, <2>1 DEF CutsSecond
  <2>3. SubSeq(C, 1, m) = ca /\ SubSeq(C, m + 1, Len(C)) = cb
    BY ONLY <2>2, CutSecond
  <2> QED BY <2>3
<1>9. m \in 1..Len(J) /\ rk[n] = J[m]
  BY <1>4, <1>5
<1> QED BY <1>6, <1>7, <1>8, <1>9 DEF Spliced

\* The pages after they shared anew what they had.
Reshelved(i, p, a, b, m, ka, ca, kb, cb, x) ==
  /\ root' = root /\ pc = "rebalance" /\ pc' = "rebalance" /\ stack # <<>>
  /\ report.type = "InternalPage" /\ report'.type # "LeafPage" /\ request' = request
  /\ p = parent /\ i \in 1..Width(p) /\ a = Kids(p)[i] /\ b = Kids(p)[i + 1]
  /\ IsInternal(a) /\ IsInternal(b)
  /\ Spliced(pages[a].keys \o <<pages[p].keys[i]>> \o pages[b].keys, Kids(a) \o Kids(b),
             m, ka, ca, kb, cb, x)
  /\ pages'[a] = Internal(ka, ca) /\ pages'[b] = Internal(kb, cb)
  /\ pages'[p] = Internal([pages[p].keys EXCEPT ![i] = x], Kids(p))
  /\ \A q \in PageIDs : q \notin {a, b, p} => pages'[q] = pages[q]

\* Two neighbours in one.
LEMMA NodesJoined ==
  ASSUME NEW R, NEW Q, NEW i, NEW p, NEW a, NEW b, Facing(R, Q, i, p, a, b),
         IsInternal(a), IsInternal(b)
  PROVE  /\ Node(pages[a].keys, Kids(a), R[a], R) /\ Node(pages[b].keys, Kids(b), R[b], R)
         /\ pages[p].keys[i] \in Keys
         /\ Node(pages[a].keys \o <<pages[p].keys[i]>> \o pages[b].keys, Kids(a) \o Kids(b),
                 R[a] \cup R[b], R)
<1>1. /\ Node(pages[p].keys, Kids(p), R[p], R) /\ Convex(R[p])
      /\ i \in 1..Len(pages[p].keys) /\ a \in PageIDs /\ b \in PageIDs
  BY Neighbours
<1>2. /\ BInv /\ Ordered(R, Q) /\ Cleft(R, Q) /\ ~Splitting /\ a = Kids(p)[i] /\ b = Kids(p)[i + 1]
  BY DEF Facing
<1>3. \A q \in PageIDs : Q[q] = R[q]
  BY <1>2 DEF Cleft
<1>4. PICK h, up, place : Structure(h, up, place)
  BY <1>2 DEF BInv
<1>5. \A q \in {a, b} : Node(pages[q].keys, Kids(q), R[q], R)
  <2> TAKE q \in {a, b}
  <2>1. Node(pages[q].keys, Kids(q), R[q], Q)
    BY <1>1, <1>2 DEF Ordered, NodeOrder
  <2>2. \A j \in 1..Len(Kids(q)) : R[Kids(q)[j]] = Q[Kids(q)[j]]
    <3>1. Kids(q) \in Seq(PageIDs)
      BY <2>1 DEF Node
    <3>2. \A j \in 1..Len(Kids(q)) : Kids(q)[j] \in PageIDs
      BY <3>1, ElementOfSeq
    <3> QED BY <1>3, <3>2
  <2> QED BY <2>1, <2>2, NodeSame
<1>6. PICK x, ka, ca, kb, cb, S, T : /\ x = pages[p].keys[i] /\ S = R[a] /\ T = R[b]
                                    /\ ka = pages[a].keys /\ ca = Kids(a)
                                    /\ kb = pages[b].keys /\ cb = Kids(b)
  OBVIOUS
<1>7. /\ \A k \in S : k < x
      /\ \A k \in T : x <= k
  BY <1>1, <1>2, <1>6, KeysInside
<1>8. x \in Keys
  <2>1. pages[p].keys \in Seq(Keys)
    BY <1>1 DEF Node
  <2> QED BY <1>1, <1>6, <2>1, ElementOfSeq
<1>9. Node(ka, ca, S, R) /\ Node(kb, cb, T, R)
  BY <1>5, <1>6
<1>10. Node(ka \o <<x>> \o kb, ca \o cb, S \cup T, R)
  BY ONLY <1>7, <1>8, <1>9, NodeJoin
<1> QED BY <1>6, <1>8, <1>9, <1>10

-----------------------------------------------------------------------------
\* Neighbours are nobody's children but their parent's.
BothKids(a, b, C) == C = Kids(a) \o Kids(b)

LEMMA NotTheirOwn ==
  ASSUME NEW R, NEW Q, NEW i, NEW p, NEW a, NEW b, Facing(R, Q, i, p, a, b),
         IsInternal(a), IsInternal(b), NEW C, BothKids(a, b, C)
  PROVE  /\ C \in Seq(PageIDs)
         /\ \A j \in 1..Len(C) : C[j] \in PageIDs /\ C[j] \notin {a, b}
<1> C = Kids(a) \o Kids(b)
  BY DEF BothKids
<1>1. /\ BInv /\ pc = "rebalance" /\ stack # <<>> /\ report.type # "InvalidPage"
      /\ p = parent /\ i \in 1..Width(p) /\ a = Kids(p)[i] /\ b = Kids(p)[i + 1]
  BY DEF Facing
<1>2. PICK h, up, place : Structure(h, up, place)
  BY <1>1 DEF BInv
<1>3. /\ Pages /\ Control /\ OnWay
  BY <1>1 DEF BInv, OnWay
<1>4. /\ a \in PageIDs /\ b \in PageIDs /\ p # a /\ p # b /\ up[a] = p /\ up[b] = p
  BY <1>1, <1>2, <1>3, Siblings
<1>5. \A q \in {a, b} : /\ Kids(q) \in Seq(PageIDs)
                        /\ \A j \in 1..Len(Kids(q)) : Kids(q)[j] \in PageIDs /\ Kids(q)[j] \notin {a, b}
  <2> TAKE q \in {a, b}
  <2>1. IsInternal(q) /\ q \in PageIDs /\ Kids(q) \in Seq(PageIDs)
    BY <1>3, <1>4, Kinds DEF Pages
  <2>2. \A j \in 1..Len(Kids(q)) : up[Kids(q)[j]] = q
    BY <1>2, <2>1 DEF Structure, Tree, Holds
  <2>3. \A j \in 1..Len(Kids(q)) : Kids(q)[j] \in PageIDs
    BY <2>1, ElementOfSeq
  <2>4. q # p
    BY <1>4
  <2> QED BY <1>4, <2>1, <2>2, <2>3, <2>4
<1>6. PICK s, t : s = Kids(a) /\ t = Kids(b)
  OBVIOUS
<1>7. /\ s \in Seq(PageIDs) /\ t \in Seq(PageIDs)
      /\ \A j \in 1..Len(s) : s[j] \in PageIDs /\ s[j] \notin {a, b}
      /\ \A j \in 1..Len(t) : t[j] \in PageIDs /\ t[j] \notin {a, b}
  BY <1>5, <1>6
<1>8. /\ C \in Seq(PageIDs) /\ Len(C) = Len(s) + Len(t)
      /\ \A j \in 1..(Len(s) + Len(t)) : C[j] = IF j <= Len(s) THEN s[j] ELSE t[j - Len(s)]
  BY <1>6, <1>7, JoinFacts
<1>9. \A j \in 1..Len(C) : C[j] \in PageIDs /\ C[j] \notin {a, b}
  <2> TAKE j \in 1..Len(C)
  <2>1. PICK k, l : k = Len(s) /\ l = Len(t)
    OBVIOUS
  <2>2. k \in Nat /\ l \in Nat /\ j \in 1..(k + l)
    BY <1>7, <1>8, <2>1, LenProperties
  <2>3. CASE j <= k
    BY <1>7, <1>8, <2>1, <2>2, <2>3
  <2>4. CASE ~(j <= k)
    <3>1. j - k \in 1..l
      BY <2>2, <2>4
    <3> QED BY <1>7, <1>8, <2>1, <2>2, <2>4, <3>1
  <2> QED BY <2>3, <2>4
<1> QED BY <1>8, <1>9

LEMMA ReshelvedOrders ==
  ASSUME BInv, OInv, NEW i, NEW p, NEW a, NEW b, NEW m, NEW ka, NEW ca, NEW kb, NEW cb, NEW x,
         Reshelved(i, p, a, b, m, ka, ca, kb, cb, x)
  PROVE  OInv'
<1>1. PICK R, Q : Ordered(R, Q) /\ Cleft(R, Q) /\ Aimed(R)
  BY DEF OInv
<1>2. /\ root' = root /\ pc = "rebalance" /\ pc' = "rebalance" /\ stack # <<>>
      /\ report.type = "InternalPage" /\ report'.type # "LeafPage" /\ request' = request
      /\ p = parent /\ i \in 1..Width(p) /\ a = Kids(p)[i] /\ b = Kids(p)[i + 1]
      /\ IsInternal(a) /\ IsInternal(b)
      /\ pages'[a] = Internal(ka, ca) /\ pages'[b] = Internal(kb, cb)
      /\ pages'[p] = Internal([pages[p].keys EXCEPT ![i] = x], Kids(p))
      /\ \A q \in PageIDs : q \notin {a, b, p} => pages'[q] = pages[q]
  BY DEF Reshelved
<1>3. PICK J, C : J = pages[a].keys \o <<pages[p].keys[i]>> \o pages[b].keys /\ C = Kids(a) \o Kids(b)
  OBVIOUS
<1>4. Spliced(J, C, m, ka, ca, kb, cb, x)
  BY <1>3 DEF Reshelved
<1>5. /\ m \in 1..Len(J)
      /\ ka = SubSeq(J, 1, m - 1) /\ ca = SubSeq(C, 1, m)
      /\ kb = SubSeq(J, m + 1, Len(J)) /\ cb = SubSeq(C, m + 1, Len(C)) /\ x = J[m]
  BY <1>4 DEF Spliced
<1>6. ~Splitting /\ ~Splitting'
  BY <1>2 DEF Splitting
<1>7. Facing(R, Q, i, p, a, b)
  BY <1>1, <1>2, <1>6 DEF Facing
<1>8. /\ Convex(R[a] \cup R[b]) /\ R[a] \in SUBSET Int /\ R[b] \in SUBSET Int
      /\ a \in PageIDs /\ b \in PageIDs /\ p \in PageIDs /\ a # b /\ p # a /\ p # b /\ IsInternal(p)
  BY <1>7, Neighbours
<1>9. PICK U : U = R[a] \cup R[b]
  OBVIOUS
<1>10. Node(J, C, U, R)
  BY <1>2, <1>3, <1>7, <1>9, NodesJoined
<1>11. C \in Seq(PageIDs) /\ \A j \in 1..Len(C) : C[j] \in PageIDs /\ C[j] \notin {a, b}
  <2>1. BothKids(a, b, C)
    BY <1>3 DEF BothKids
  <2> QED BY <1>2, <1>7, <2>1, NotTheirOwn
<1>12. Node(ka, ca, Below(U, x), R) /\ Node(kb, cb, From(U, x), R)
  <2>1. /\ Node(SubSeq(J, 1, m - 1), SubSeq(C, 1, m), Below(U, J[m]), R)
        /\ Node(SubSeq(J, m + 1, Len(J)), SubSeq(C, m + 1, Len(C)), From(U, J[m]), R)
    BY ONLY <1>5, <1>10, NodeCut
  <2> QED BY <1>5, <2>1
<1>13. x \in Keys /\ x \in U
  <2>1. Convex(U)
    BY <1>8, <1>9
  <2>2. J[m] \in U
    BY ONLY <1>5, <1>10, <2>1, KeysInside
  <2>3. J \in Seq(Keys)
    BY <1>10 DEF Node
  <2>4. J[m] \in Keys
    BY ONLY <1>5, <2>3, ElementOfSeq
  <2> QED BY <1>5, <2>2, <2>4
<1>14. Below(U, x) # {} /\ From(U, x) # {}
  <2>1. x \in From(U, x)
    BY <1>13, Limits DEF From
  <2>2. NodeIs(ka, ca, Below(U, x), R, Len(ka))
    BY <1>12, NodeFacts
  <2>3. R[ca[1]] # {} /\ R[ca[1]] \in SUBSET Below(U, x)
    <3>1. PICK n : n = Len(ka)
      OBVIOUS
    <3>2. n \in Nat /\ \A j \in 1..(n + 1) : R[ca[j]] # {} /\ R[ca[j]] \in SUBSET Below(U, x)
      BY <2>2, <3>1 DEF NodeIs
    <3> QED BY <3>2
  <2> QED BY <2>1, <2>3
<1>15. PICK R2 : R2 = [q \in PageIDs |-> IF q = a THEN Below(U, x) ELSE IF q = b THEN From(U, x) ELSE R[q]]
  OBVIOUS
<1>16. /\ R2[a] = Below(U, x) /\ R2[b] = From(U, x)
       /\ \A q \in PageIDs : q \notin {a, b} => R2[q] = R[q]
  BY <1>8, <1>15
<1>17. Shared(R, Q, i, p, a, b, x, R2)
  BY <1>1, <1>2, <1>6, <1>9, <1>13, <1>14, <1>16 DEF Shared
<1>18. /\ \A q \in PageIDs : q \notin {a, b} => NodeOrder(q, R2, R2)'
       /\ Ranges(R2)' /\ R2[root'] = Int
  BY <1>17, SharedOrder
<1>19. \A j \in 1..Len(C) : R2[C[j]] = R[C[j]]
  BY <1>11, <1>16
<1>20. Node(ka, ca, Below(U, x), R2) /\ Node(kb, cb, From(U, x), R2)
  <2>1. PICK k : k = Len(C)
    OBVIOUS
  <2>2. /\ ca \in Seq(PageIDs) /\ Len(ca) = m /\ \A j \in 1..m : ca[j] = C[j]
        /\ Len(cb) = k - m /\ (\A j \in 1..(k - m) : cb[j] = C[m + j])
        /\ k \in Nat /\ m \in 1..k
    <3>1. Len(C) = Len(J) + 1 /\ J \in Seq(Keys)
      BY <1>10 DEF Node
    <3>2. m \in 0..Len(C) /\ m \in 1..Len(C) /\ Len(C) \in Nat
      BY <1>5, <3>1, LenProperties
    <3> QED BY <1>5, <1>11, <2>1, <3>2, CutFacts
  <2>3. \A j \in 1..Len(ca) : R2[ca[j]] = R[ca[j]]
    <3> TAKE j \in 1..Len(ca)
    <3>1. j \in 1..m /\ j \in 1..Len(C)
      BY <2>1, <2>2
    <3> QED BY <1>19, <2>2, <3>1
  <2>4. \A j \in 1..Len(cb) : R2[cb[j]] = R[cb[j]]
    <3> TAKE j \in 1..Len(cb)
    <3>1. j \in 1..(k - m) /\ m + j \in 1..Len(C)
      BY <2>1, <2>2
    <3> QED BY <1>19, <2>2, <3>1
  <2> QED BY <1>12, <2>3, <2>4, NodeSame
<1>21. /\ pages'[a].keys = ka /\ Kids(a)' = ca /\ pages'[b].keys = kb /\ Kids(b)' = cb
       /\ IsInternal(a)' /\ IsInternal(b)'
       /\ \A q \in {a, b, p} : ~IsLeaf(q) /\ ~IsLeaf(q)'
  BY <1>2, <1>8, Shapes DEF IsLeaf, IsInternal, Kids
<1>22. \A q \in PageIDs : NodeOrder(q, R2, R2)'
  <2>1. NodeOrder(a, R2, R2)'
    BY <1>16, <1>20, <1>21 DEF NodeOrder
  <2>2. NodeOrder(b, R2, R2)'
    BY <1>16, <1>20, <1>21 DEF NodeOrder
  <2> QED BY <1>18, <2>1, <2>2
<1>23. LeavesKept({a, b, p}, R, R2)
  BY <1>2, <1>16, <1>21 DEF LeavesKept
<1>24. (\A q \in PageIDs : LeafOrder(q, R2)') /\ Chained(Leaves, Right, R2)'
  BY <1>1, <1>23, LeavesStay
<1>25. Ordered(R2, R2)'
  BY <1>18, <1>22, <1>24 DEF Ordered
<1>26. Cleft(R2, R2)'
  BY <1>6 DEF Cleft
<1>27. Aimed(R2)'
  <2>1. request.key \in Keys
    BY <1>1, <1>2 DEF Aimed
  <2> QED BY <1>2, <2>1 DEF Aimed, Reported
<1> QED BY <1>25, <1>26, <1>27 DEF OInv

-----------------------------------------------------------------------------
\* An internal page borrows pairs from its left neighbour ...
LEMMA InternalLeftBorrowOrders == ASSUME BInv, OInv, InternalLeftBorrow PROVE OInv'
<1>1. PICK h, up, place : Structure(h, up, place)
  BY DEF BInv
<1>2. /\ pc = "rebalance" /\ stack # <<>> /\ Lacking /\ root' = root /\ pc' = "rebalance"
      /\ report.type = "InternalPage" /\ report'.type # "LeafPage" /\ request' = request /\ LeftLends
  BY DEF InternalLeftBorrow, Underflown, Returned, Lacking, Ascend, Settled, Status
<1>3. Control /\ OnWay /\ Pages
  BY <1>2 DEF BInv, OnWay
<1>4. HasLeft
  BY <1>2 DEF LeftLends
<1>5. /\ childIndex \in 1..Len(Kids(parent)) /\ Width(parent) \in Nat
      /\ Len(Kids(parent)) = Width(parent) + 1 /\ Kids(parent)[childIndex] = cur
  BY <1>1, <1>2, <1>3, Family
<1>6. PICK i, p : i = childIndex - 1 /\ p = parent
  OBVIOUS
<1>7. i \in 1..Width(p) /\ i + 1 = childIndex /\ Width(p) \in Nat
  BY <1>4, <1>5, <1>6 DEF HasLeft
<1>8. PICK a, c, n : a = leftSibling /\ c = cur /\ n = PairsNeeded
  OBVIOUS
<1>9. a = Kids(p)[i] /\ c = Kids(p)[i + 1]
  BY <1>5, <1>6, <1>7, <1>8 DEF leftSibling, parentPage, Kids
<1>10. a # c /\ IsInternal(c)
  <2>1. IsInternal(cur)
    BY <1>1, <1>2 DEF Structure, Occupied
  <2> QED BY <1>1, <1>2, <1>3, <1>6, <1>7, <1>8, <1>9, <2>1, Siblings
<1>11. /\ a \in PageIDs /\ c \in PageIDs /\ p \in PageIDs /\ p # a /\ p # c
       /\ IsInternal(a) /\ IsInternal(c) /\ IsInternal(p) /\ n \in 1..Width(a)
  <2>1. Lending(i, p, a, c, a, c, n)
    BY <1>2, <1>6, <1>7, <1>8, <1>9, <1>10 DEF Lending
  <2> QED BY <2>1, Lender
<1>12. /\ IsSeq(pages[a].keys) /\ Kids(a) \in Seq(PageIDs) /\ Len(Kids(a)) = Width(a) + 1
       /\ IsSeq(pages[c].keys) /\ Kids(c) \in Seq(PageIDs)
       /\ PageShape(p) /\ pages = [q \in PageIDs |-> pages[q]]
  BY <1>3, <1>11, Kinds DEF Pages
<1>13. PICK R, Q : Ordered(R, Q) /\ Cleft(R, Q)
  BY DEF OInv
<1>14. Facing(R, Q, i, p, a, c)
  <2>1. ~Splitting
    BY <1>2 DEF Splitting
  <2> QED BY <1>2, <1>6, <1>7, <1>9, <1>13, <2>1 DEF Facing
<1>15. pages[a].keys \in Seq(Keys) /\ pages[c].keys \in Seq(Keys) /\ pages[p].keys[i] \in Keys
  BY <1>11, <1>14, NodesJoined DEF Node
<1>16. PICK lk, lc, rk, rc, x, m, y :
         /\ lk = pages[a].keys /\ lc = Kids(a) /\ rk = pages[c].keys /\ rc = Kids(c)
         /\ x = pages[p].keys[i] /\ m = Len(lk) - n + 1 /\ y = lk[m]
  OBVIOUS
<1>17. PICK ka, ca, kb, cb, J, C :
         /\ ka = SubSeq(lk, 1, Len(lk) - n) /\ ca = SubSeq(lc, 1, Len(lk) + 1 - n)
         /\ kb = SubSeq(lk, Len(lk) - n + 2, Len(lk)) \o <<x>> \o rk
         /\ cb = SubSeq(lc, Len(lk) + 2 - n, Len(lk) + 1) \o rc
         /\ J = lk \o <<x>> \o rk /\ C = lc \o rc
  OBVIOUS
<1>18. SpliceRight(lk, lc, n, x, rk, rc, ka, ca, kb, cb, J, C, m)
  <2>1. /\ IsSeq(lk) /\ IsSeq(rk) /\ lc \in Seq(PageIDs) /\ rc \in Seq(PageIDs)
        /\ Len(lc) = Len(lk) + 1 /\ n \in 1..Len(lk)
    BY <1>11, <1>12, <1>16 DEF Width
  <2>2. LentToRight(lk, lc, n, x, rk, rc, ka, ca, kb, cb)
    BY ONLY <1>17, <2>1 DEF LentToRight
  <2>3. lk \in Seq(Keys) /\ rk \in Seq(Keys) /\ x \in Keys /\ m = Len(lk) - n + 1
    BY <1>15, <1>16
  <2> QED BY ONLY <1>17, <2>2, <2>3 DEF SpliceRight
<1>19. Spliced(J, C, m, ka, ca, kb, cb, y)
  BY <1>16, <1>18, SplicedRight
<1>20. PICK z : z = SetNewBoundaryKey(childIndex - 1, y)
  OBVIOUS
<1>21. z = Internal([pages[p].keys EXCEPT ![i] = y], Kids(p))
  <2>1. pages[p] = Internal(pages[p].keys, Kids(p))
    BY <1>11, <1>12, Shapes DEF PageShape, IsLeaf, IsInternal
  <2> QED BY <1>6, <1>20, <2>1 DEF SetNewBoundaryKey, parentPage, Internal
<1>22. pages' = [pages EXCEPT ![a] = Internal(ka, ca), ![c] = Internal(kb, cb), ![p] = z]
  BY <1>6, <1>8, <1>16, <1>17, <1>20, Zenon DEF InternalLeftBorrow, Kids, parentPage
<1>23. /\ pages'[a] = Internal(ka, ca) /\ pages'[c] = Internal(kb, cb) /\ pages'[p] = z
       /\ \A q \in PageIDs : q \notin {a, c, p} => pages'[q] = pages[q]
  BY <1>10, <1>11, <1>12, <1>22, Update3
<1>24. Reshelved(i, p, a, c, m, ka, ca, kb, cb, y)
  <2>1. Spliced(pages[a].keys \o <<pages[p].keys[i]>> \o pages[c].keys, Kids(a) \o Kids(c),
                m, ka, ca, kb, cb, y)
    BY <1>16, <1>17, <1>19, Zenon
  <2> QED BY <1>2, <1>6, <1>7, <1>9, <1>11, <1>21, <1>23, <2>1 DEF Reshelved
<1> QED BY <1>24, ReshelvedOrders

\* ... or from its right one.
LEMMA InternalRightBorrowOrders == ASSUME BInv, OInv, InternalRightBorrow PROVE OInv'
<1>1. PICK h, up, place : Structure(h, up, place)
  BY DEF BInv
<1>2. /\ pc = "rebalance" /\ stack # <<>> /\ Lacking /\ root' = root /\ pc' = "rebalance"
      /\ report.type = "InternalPage" /\ report'.type # "LeafPage" /\ request' = request /\ RightLends
  BY DEF InternalRightBorrow, Underflown, Returned, Lacking, Ascend, Settled, Status
<1>3. Control /\ OnWay /\ Pages
  BY <1>2 DEF BInv, OnWay
<1>4. HasRight
  BY <1>2 DEF RightLends
<1>5. /\ childIndex \in 1..Len(Kids(parent)) /\ Width(parent) \in Nat
      /\ Len(Kids(parent)) = Width(parent) + 1 /\ Kids(parent)[childIndex] = cur
  BY <1>1, <1>2, <1>3, Family
<1>6. PICK i, p : i = childIndex /\ p = parent
  OBVIOUS
<1>7. i \in 1..Width(p) /\ Width(p) \in Nat
  <2>1. i < Len(Kids(p))
    BY <1>4, <1>6 DEF HasRight, parentPage, Kids
  <2> QED BY <1>5, <1>6, <2>1
<1>8. PICK c, b, n : c = cur /\ b = rightSibling /\ n = PairsNeeded
  OBVIOUS
<1>9. c = Kids(p)[i] /\ b = Kids(p)[i + 1]
  BY <1>5, <1>6, <1>7, <1>8 DEF rightSibling, parentPage, Kids
<1>10. c # b /\ IsInternal(c)
  <2>1. IsInternal(cur)
    BY <1>1, <1>2 DEF Structure, Occupied
  <2> QED BY <1>1, <1>2, <1>3, <1>6, <1>7, <1>8, <1>9, <2>1, Siblings
<1>11. /\ b \in PageIDs /\ c \in PageIDs /\ p \in PageIDs /\ p # b /\ p # c
       /\ IsInternal(b) /\ IsInternal(c) /\ IsInternal(p) /\ n \in 1..Width(b)
  <2>1. Lending(i, p, c, b, b, c, n)
    BY <1>2, <1>6, <1>7, <1>8, <1>9, <1>10 DEF Lending
  <2> QED BY <2>1, Lender
<1>12. /\ IsSeq(pages[b].keys) /\ Kids(b) \in Seq(PageIDs) /\ Len(Kids(b)) = Width(b) + 1
       /\ IsSeq(pages[c].keys) /\ Kids(c) \in Seq(PageIDs) /\ Len(Kids(c)) = Width(c) + 1
       /\ PageShape(p) /\ pages = [q \in PageIDs |-> pages[q]]
  BY <1>3, <1>11, Kinds DEF Pages
<1>13. PICK R, Q : Ordered(R, Q) /\ Cleft(R, Q)
  BY DEF OInv
<1>14. Facing(R, Q, i, p, c, b)
  <2>1. ~Splitting
    BY <1>2 DEF Splitting
  <2> QED BY <1>2, <1>6, <1>7, <1>9, <1>13, <2>1 DEF Facing
<1>15. pages[c].keys \in Seq(Keys) /\ pages[b].keys \in Seq(Keys) /\ pages[p].keys[i] \in Keys
  BY <1>11, <1>14, NodesJoined DEF Node
<1>16. PICK lk, lc, rk, rc, x, m, y :
         /\ lk = pages[c].keys /\ lc = Kids(c) /\ rk = pages[b].keys /\ rc = Kids(b)
         /\ x = pages[p].keys[i] /\ m = Len(lk) + 1 + n /\ y = rk[n]
  OBVIOUS
<1>17. PICK ka, ca, kb, cb, J, C :
         /\ ka = lk \o <<x>> \o SubSeq(rk, 1, n - 1) /\ ca = lc \o SubSeq(rc, 1, n)
         /\ kb = SubSeq(rk, n + 1, Len(rk)) /\ cb = SubSeq(rc, n + 1, Len(rk) + 1)
         /\ J = lk \o <<x>> \o rk /\ C = lc \o rc
  OBVIOUS
<1>18. SpliceLeft(lk, lc, n, x, rk, rc, ka, ca, kb, cb, J, C, m)
  <2>1. /\ IsSeq(lk) /\ IsSeq(rk) /\ lc \in Seq(PageIDs) /\ rc \in Seq(PageIDs)
        /\ Len(rc) = Len(rk) + 1 /\ Len(lc) = Len(lk) + 1 /\ n \in 1..Len(rk)
    BY <1>11, <1>12, <1>16 DEF Width
  <2>2. LentToLeft(lk, lc, n, x, rk, rc, ka, ca, kb, cb)
    BY ONLY <1>17, <2>1 DEF LentToLeft
  <2>3. lk \in Seq(Keys) /\ rk \in Seq(Keys) /\ x \in Keys /\ m = Len(lk) + 1 + n
    BY <1>15, <1>16
  <2> QED BY ONLY <1>17, <2>1, <2>2, <2>3 DEF SpliceLeft
<1>19. Spliced(J, C, m, ka, ca, kb, cb, y)
  BY <1>16, <1>18, SplicedLeft
<1>20. PICK z : z = SetNewBoundaryKey(childIndex, y)
  OBVIOUS
<1>21. z = Internal([pages[p].keys EXCEPT ![i] = y], Kids(p))
  <2>1. pages[p] = Internal(pages[p].keys, Kids(p))
    BY <1>11, <1>12, Shapes DEF PageShape, IsLeaf, IsInternal
  <2> QED BY <1>6, <1>20, <2>1 DEF SetNewBoundaryKey, parentPage, Internal
<1>22. pages' = [pages EXCEPT ![c] = Internal(ka, ca), ![b] = Internal(kb, cb), ![p] = z]
  BY <1>6, <1>8, <1>16, <1>17, <1>20 DEF InternalRightBorrow, Kids, parentPage
<1>23. /\ pages'[c] = Internal(ka, ca) /\ pages'[b] = Internal(kb, cb) /\ pages'[p] = z
       /\ \A q \in PageIDs : q \notin {c, b, p} => pages'[q] = pages[q]
  BY <1>10, <1>11, <1>12, <1>22, Update3
<1>24. Reshelved(i, p, c, b, m, ka, ca, kb, cb, y)
  <2>1. Spliced(pages[c].keys \o <<pages[p].keys[i]>> \o pages[b].keys, Kids(c) \o Kids(b),
                m, ka, ca, kb, cb, y)
    BY <1>16, <1>17, <1>19
  <2> QED BY <1>2, <1>6, <1>7, <1>9, <1>11, <1>21, <1>23, <2>1 DEF Reshelved
<1> QED BY <1>24, ReshelvedOrders

-----------------------------------------------------------------------------
\* Page a takes what its neighbour b had.

\* Of a leaf only what is on its left may become another.
SameBut(q, l) == \/ pages'[q] = pages[q]
                 \/ IsLeaf(q) /\ pages'[q] = Leaf(pages[q].tuples, l, pages[q].right_pid)

Combined(R, Q, i, p, a, b, R2) ==
  /\ Facing(R, Q, i, p, a, b)
  /\ R2[a] = R[a] \cup R[b] /\ \A q \in PageIDs : q # a => R2[q] = R[q]
  /\ pages'[b] = Free
  /\ \A q \in PageIDs : q \notin {a, b, p} => SameBut(q, a)

LEMMA CombinedOrder ==
  ASSUME NEW R, NEW Q, NEW i, NEW p, NEW a, NEW b, NEW R2, Combined(R, Q, i, p, a, b, R2)
  PROVE  /\ Node(RemoveAt(pages[p].keys, i), RemoveAt(Kids(p), i + 1), R[p], R2)
         /\ \A q \in PageIDs : q \notin {a, p} => NodeOrder(q, R2, R2)'
         /\ (\A q \in PageIDs : q \notin {a, p} => LeafOrder(q, R2)')
         /\ Ranges(R2)' /\ R2[root] = Int /\ R2[p] = R[p]
<1>1. /\ Facing(R, Q, i, p, a, b) /\ R2[a] = R[a] \cup R[b] /\ pages'[b] = Free
      /\ \A q \in PageIDs : q # a => R2[q] = R[q]
      /\ \A q \in PageIDs : q \notin {a, b, p} => SameBut(q, a)
  BY DEF Combined
<1>2. /\ BInv /\ Ordered(R, Q) /\ Cleft(R, Q) /\ ~Splitting
      /\ pc = "rebalance" /\ stack # <<>> /\ report.type # "InvalidPage"
      /\ p = parent /\ i \in 1..Width(p) /\ a = Kids(p)[i] /\ b = Kids(p)[i + 1]
  BY <1>1 DEF Facing
<1>3. PICK h, up, place : Structure(h, up, place)
  BY <1>2 DEF BInv
<1>4. /\ Node(pages[p].keys, Kids(p), R[p], R) /\ R[p] \in SUBSET Int /\ Convex(R[p])
      /\ i \in 1..Len(pages[p].keys) /\ i \in 1..Len(Kids(p)) /\ i + 1 \in 1..Len(Kids(p))
      /\ R[a] \in SUBSET Int /\ R[b] \in SUBSET Int /\ R[a] # {} /\ R[b] # {}
      /\ Convex(R[a] \cup R[b])
      /\ a \in PageIDs /\ b \in PageIDs /\ p \in PageIDs /\ a # b /\ p # a /\ p # b
      /\ a # root /\ b # root /\ IsInternal(p)
  BY <1>1, Neighbours
<1>5. /\ Pages /\ Tree(h, up, place) /\ up[a] = p /\ up[b] = p
      /\ \A q \in PageIDs : Q[q] = R[q]
      /\ Kids(p) \in Seq(PageIDs) /\ \A j \in 1..Len(Kids(p)) : place[Kids(p)[j]] = j
      /\ root \in PageIDs
  <2>1. Pages /\ Tree(h, up, place) /\ root \in PageIDs
    BY <1>2, <1>3 DEF BInv, Structure, Control
  <2>2. up[a] = p /\ up[b] = p
    BY <1>2, <1>4, <2>1 DEF Tree, Holds
  <2>3. \A q \in PageIDs : Q[q] = R[q]
    BY <1>2 DEF Cleft
  <2>4. Kids(p) \in Seq(PageIDs)
    BY <1>4, <2>1, Kinds DEF Pages
  <2>5. \A j \in 1..Len(Kids(p)) : place[Kids(p)[j]] = j
    BY <1>4, <2>1 DEF Tree, Holds
  <2> QED BY <2>1, <2>2, <2>3, <2>4, <2>5
<1>6. Node(RemoveAt(pages[p].keys, i), RemoveAt(Kids(p), i + 1), R[p], R2)
  <2>1. PICK ks, cs, S : ks = pages[p].keys /\ cs = Kids(p) /\ S = R[p]
    OBVIOUS
  <2>2. Node(ks, cs, S, R) /\ i \in 1..Len(ks) /\ R2[cs[i]] = R[cs[i]] \cup R[cs[i + 1]]
    BY <1>1, <1>2, <1>4, <2>1
  <2>3. \A j \in 1..Len(cs) : j # i /\ j # i + 1 => R2[cs[j]] = R[cs[j]]
    <3> SUFFICES ASSUME NEW j \in 1..Len(cs), j # i, j # i + 1 PROVE R2[cs[j]] = R[cs[j]]
      OBVIOUS
    <3>1. cs[j] \in PageIDs
      BY <1>5, <2>1, ElementOfSeq
    <3>2. cs[j] # a
      BY <1>2, <1>4, <1>5, <2>1
    <3> QED BY <1>1, <3>1, <3>2
  <2>4. PICK ks2, cs2 : ks2 = RemoveAt(ks, i) /\ cs2 = RemoveAt(cs, i + 1)
    OBVIOUS
  <2>5. Absorbing(ks, cs, S, R, i, R2, ks2, cs2)
    BY <2>2, <2>3, <2>4 DEF Absorbing
  <2>6. Node(ks2, cs2, S, R2)
    BY ONLY <2>5, NodeRemove
  <2> QED BY <2>1, <2>4, <2>6
<1>7. \A q \in PageIDs : q \notin {a, p} => NodeOrder(q, R2, R2)' /\ LeafOrder(q, R2)'
  <2> SUFFICES ASSUME NEW q \in PageIDs, q \notin {a, p} PROVE NodeOrder(q, R2, R2)' /\ LeafOrder(q, R2)'
    OBVIOUS
  <2>1. NodeOrder(q, R, Q) /\ LeafOrder(q, R) /\ R2[q] = R[q]
    BY <1>1, <1>2 DEF Ordered
  <2>2. CASE q = b
    BY <1>1, <2>2, Shapes DEF NodeOrder, LeafOrder, IsLeaf, IsInternal
  <2>3. CASE pages'[q] = pages[q]
    <3>1. \A y \in PageIDs : up[y] = q => R2[y] = Q[y]
      BY <1>1, <1>5
    <3>2. NodeOrder(q, R2, R2)'
      BY <1>5, <2>1, <2>3, <3>1, OtherNode
    <3>3. LeafOrder(q, R2)'
      BY <2>1, <2>3, OtherLeaf
    <3> QED BY <3>2, <3>3
  <2>4. CASE IsLeaf(q) /\ pages'[q] = Leaf(pages[q].tuples, a, pages[q].right_pid)
    <3>1. IsLeaf(q)' /\ ~IsInternal(q)' /\ pages'[q].tuples = pages[q].tuples /\ pages'[q].left_pid = a
      BY <2>4, Shapes DEF IsLeaf, IsInternal
    <3> QED BY <1>4, <2>1, <2>4, <3>1 DEF NodeOrder, LeafOrder
  <2> QED BY <1>1, <2>2, <2>3, <2>4 DEF SameBut
<1>8. Ranges(R2)'
  <2> SUFFICES ASSUME NEW q \in PageIDs, Used(q)' PROVE R2[q] \in SUBSET Int /\ R2[q] # {} /\ Convex(R2[q])
    BY DEF Ranges
  <2>1. CASE q = a
    BY <1>1, <1>4, <2>1
  <2>2. CASE q # a
    <3>1. q # b
      BY <1>1, Shapes DEF Used, IsLeaf, IsInternal
    <3>2. Used(q)
      <4>1. CASE q = p
        BY <1>4, <4>1 DEF Used
      <4>2. CASE q # p
        BY <1>1, <2>2, <3>1, <4>2 DEF SameBut, Used, IsLeaf, IsInternal
      <4> QED BY <4>1, <4>2
    <3> QED BY <1>1, <1>2, <2>2, <3>2 DEF Ordered, Ranges
  <2> QED BY <2>1, <2>2
<1>9. R2[root] = Int
  BY <1>1, <1>2, <1>4, <1>5 DEF Ordered
<1> QED BY <1>1, <1>4, <1>6, <1>7, <1>8, <1>9

\* Two leaves that merge have room for the tuples of both.
LEMMA LeavesFit ==
  ASSUME BInv, NEW R, NEW Q, Ordered(R, Q), Cleft(R, Q), Aimed(R), LeafMergeDue,
         NEW i, NEW p, NEW a, NEW b, i = MergeAt, p = parent, a = toPage, b = fromPage
  PROVE  /\ Facing(R, Q, i, p, a, b) /\ report.type = "LeafPage"
         /\ Space(pages[a].tuples) + Space(pages[b].tuples) <= LEAF_SPACE
<1>1. PICK h, up, place : Structure(h, up, place)
  BY DEF BInv
<1>2. /\ Underflown("LeafPage")
      /\ LeftLeafLends = 0 /\ RightLeafLends = 0
      /\ pc = "rebalance" /\ stack # <<>> /\ report.type = "LeafPage"
  BY DEF LeafMergeDue, Underflown, Returned
<1>3. /\ Pages /\ Control /\ OnWay
  BY <1>2 DEF BInv, OnWay
<1>4. HasLeft \/ HasRight
  BY DEF LeafMergeDue
<1>5. /\ i \in 1..Width(p) /\ a = Kids(p)[i] /\ b = Kids(p)[i + 1]
      /\ HasLeft => a = leftSibling /\ b = cur
      /\ ~HasLeft => HasRight /\ a = cur /\ b = rightSibling
  BY <1>1, <1>2, <1>3, <1>4, MergePlace
<1>6. Facing(R, Q, i, p, a, b)
  <2>1. ~Splitting
    BY <1>2 DEF Splitting
  <2> QED BY <1>2, <1>5, <2>1 DEF Facing
<1>7. PICK s, t, w, needed : s = pages[a].tuples /\ t = pages[b].tuples /\ w = Space(pages[cur].tuples) /\ needed = LeafNeeded
  OBVIOUS
<1>8. /\ w \in Nat /\ needed = LEAF_UNDERFLOW_THRESHOLD + 1 - w /\ needed \in Nat /\ needed > 0
  <2>1. LeafMergeDue => Underflown("LeafPage")
    BY DEF LeafMergeDue
  <2> QED BY <1>7, <2>1, LeafNeeds
<1>9. Held(s, R[a]) /\ Held(t, R[b])
  BY <1>2, <1>6, <1>7, LeafPair
<1>10. s \in Seq(Entry) /\ t \in Seq(Entry)
  BY <1>9 DEF Held
<1>11. Space(s) \in Nat /\ Space(t) \in Nat
  BY <1>10, SpaceNat
<1>12. LeftLeafLends = 0 /\ RightLeafLends = 0
  BY DEF LeafMergeDue
<1>13. \/ w = Space(t) /\ Space(s) < LEAF_UNDERFLOW_THRESHOLD + needed + MAX_LEAF_PAGE_DATA
       \/ w = Space(s) /\ Space(t) < LEAF_UNDERFLOW_THRESHOLD + needed + MAX_LEAF_PAGE_DATA
  <2>1. CASE HasLeft
    <3>1. PICK r : r = Lends(s, [j \in DOMAIN s |-> LastTuples(s, j)], needed)
      OBVIOUS
    <3>2. r = 0
      BY <1>5, <1>7, <1>12, <2>1, <3>1 DEF LeftLeafLends, CanLendFromRight
    <3>3. Space(s) < LEAF_UNDERFLOW_THRESHOLD + needed + MAX_LEAF_PAGE_DATA
      <4>1. GivesLast(s, needed, r)
        BY <1>8, <1>10, <3>1 DEF GivesLast
      <4>2. GaveLast(s, needed, r)
        BY ONLY <4>1, LendLast
      <4> QED BY <3>2, <4>2 DEF GaveLast
    <3> QED BY <1>5, <1>7, <2>1, <3>3
  <2>2. CASE ~HasLeft
    <3>1. PICK r : r = Lends(t, [j \in DOMAIN t |-> FirstTuples(t, j)], needed)
      OBVIOUS
    <3>2. r = 0
      BY <1>5, <1>7, <1>12, <2>2, <3>1 DEF RightLeafLends, CanLendFromLeft
    <3>3. Space(t) < LEAF_UNDERFLOW_THRESHOLD + needed + MAX_LEAF_PAGE_DATA
      <4>1. GivesFirst(t, needed, r)
        BY <1>8, <1>10, <3>1 DEF GivesFirst
      <4>2. GaveFirst(t, needed, r)
        BY ONLY <4>1, LendFirst
      <4> QED BY <3>2, <4>2 DEF GaveFirst
    <3> QED BY <1>5, <1>7, <2>2, <3>3
  <2> QED BY <2>1, <2>2
<1>14. Space(s) + Space(t) <= LEAF_SPACE
  <2>1. PICK y, z : y = Space(s) /\ z = Space(t)
    OBVIOUS
  <2>2. /\ y \in Nat /\ z \in Nat
        /\ \/ z < LEAF_UNDERFLOW_THRESHOLD + (LEAF_UNDERFLOW_THRESHOLD + 1 - y) + MAX_LEAF_PAGE_DATA
           \/ y < LEAF_UNDERFLOW_THRESHOLD + (LEAF_UNDERFLOW_THRESHOLD + 1 - z) + MAX_LEAF_PAGE_DATA
    BY <1>8, <1>11, <1>13, <2>1
  <2>3. y + z <= LEAF_SPACE
    BY <2>2, Limits
  <2> QED BY <2>1, <2>3
<1> QED BY <1>2, <1>6, <1>7, <1>14

-----------------------------------------------------------------------------
\* What MergePages of two leaves leaves behind.
MergedPages(a, b, p, z) ==
  /\ pages'[a] = Leaf(pages[a].tuples \o pages[b].tuples, pages[a].left_pid, pages[b].right_pid)
  /\ pages'[b] = Free /\ pages'[p] = z
  /\ \A q \in PageIDs : q \notin {a, b, p} => SameBut(q, a)

LEMMA LeavesMergedAre ==
  ASSUME BInv, NEW R, NEW Q, Ordered(R, Q), Cleft(R, Q), Aimed(R), LeafMergeDue,
         NEW i, NEW p, NEW a, NEW b, i = MergeAt, p = parent, a = toPage, b = fromPage,
         NEW z, pages' = LeavesMerged(z)
  PROVE  MergedPages(a, b, p, z)
<1>1. /\ Facing(R, Q, i, p, a, b) /\ report.type = "LeafPage"
      /\ Space(pages[a].tuples) + Space(pages[b].tuples) <= LEAF_SPACE
  BY LeavesFit
<1>2. /\ a \in PageIDs /\ b \in PageIDs /\ p \in PageIDs /\ a # b /\ p # a /\ p # b
      /\ Held(pages[a].tuples, R[a]) /\ Held(pages[b].tuples, R[b])
      /\ Held(pages[a].tuples \o pages[b].tuples, R[a] \cup R[b])
  BY <1>1, LeafPair
<1>3. Pages
  BY DEF BInv
<1>4. PICK s, t, behind : /\ s = pages[a].tuples /\ t = pages[b].tuples
                          /\ behind = pages[fromPage].right_pid
  OBVIOUS
<1>0. PICK told : told = IF behind = NoPage THEN pages ELSE [pages EXCEPT ![behind].left_pid = a]
  OBVIOUS
<1>5. /\ told = [q \in PageIDs |-> told[q]]
      /\ \A q \in PageIDs : \/ told[q] = pages[q]
                            \/ IsLeaf(q) /\ told[q] = Leaf(pages[q].tuples, a, pages[q].right_pid)
  <2>1. ToldOf(told, behind, a)
    BY <1>0 DEF ToldOf
  <2>2. ToldIs(told, a)
    BY ONLY <1>3, <2>1, Told
  <2> QED BY <2>2 DEF ToldIs
<1>6. WriteAll(s, t) = s \o t
  <2>1. s \in Seq(Entry) /\ t \in Seq(Entry) /\ Ascends(s \o t) /\ Space(s) + Space(t) <= LEAF_SPACE
    BY <1>1, <1>2, <1>4 DEF Held
  <2> QED BY ONLY <2>1, WriteAllBehind
<1>7. PICK w, l : w = WriteAll(pages[toPage].tuples, pages[fromPage].tuples) /\ l = pages[toPage].left_pid
  OBVIOUS
<1>8. PICK m, f : m = Leaf(w, l, behind) /\ f = Free
  OBVIOUS
<1>9. pages' = [told EXCEPT ![a] = m, ![b] = f, ![p] = z]
  BY <1>0, <1>4, <1>7, <1>8 DEF LeavesMerged
<1>10. /\ pages'[a] = m /\ pages'[b] = f /\ pages'[p] = z
       /\ \A q \in PageIDs : q \notin {a, b, p} => pages'[q] = told[q]
  BY <1>2, <1>5, <1>9, Update3
<1>11. m = Leaf(pages[a].tuples \o pages[b].tuples, pages[a].left_pid, pages[b].right_pid)
  BY <1>4, <1>6, <1>7, <1>8
<1> QED BY <1>5, <1>8, <1>10, <1>11 DEF MergedPages, SameBut

LEMMA LeavesMergedOrder ==
  ASSUME BInv, NEW R, NEW Q, Ordered(R, Q), Cleft(R, Q), Aimed(R), LeafMergeDue,
         NEW i, NEW p, NEW a, NEW b, i = MergeAt, p = parent, a = toPage, b = fromPage,
         NEW z, pages' = LeavesMerged(z), z.type # "leaf",
         NEW R2, R2 = [q \in PageIDs |-> IF q = a THEN R[a] \cup R[b] ELSE R[q]]
  PROVE  /\ Combined(R, Q, i, p, a, b, R2) /\ MergedPages(a, b, p, z)
         /\ LeafOrder(a, R2)' /\ NodeOrder(a, R2, R2)' /\ Chained(Leaves, Right, R2)'
<1>1. /\ Facing(R, Q, i, p, a, b) /\ report.type = "LeafPage"
      /\ Space(pages[a].tuples) + Space(pages[b].tuples) <= LEAF_SPACE
  BY LeavesFit
<1>2. /\ a \in PageIDs /\ b \in PageIDs /\ p \in PageIDs /\ a # b /\ p # a /\ p # b
      /\ IsLeaf(a) /\ IsLeaf(b) /\ IsInternal(p)
  BY <1>1, LeafPair
<1>0. PICK w, S : w = pages[a].tuples \o pages[b].tuples /\ S = R[a] \cup R[b]
  OBVIOUS
<1>14. Held(w, S) /\ Space(w) = Space(pages[a].tuples) + Space(pages[b].tuples)
  <2>1. PICK s, t, A, B : s = pages[a].tuples /\ t = pages[b].tuples /\ A = R[a] /\ B = R[b]
    OBVIOUS
  <2>2. Held(pages[a].tuples, R[a]) /\ Held(pages[b].tuples, R[b])
    BY ONLY <1>1, LeafPair
  <2>3. Before(R[a], R[b])
    BY <1>1, Neighbours
  <2>4. Held(s, A) /\ Held(t, B) /\ Before(A, B)
    BY <2>1, <2>2, <2>3
  <2>5. Held(s \o t, A \cup B) /\ Space(s \o t) = Space(s) + Space(t)
    BY ONLY <2>4, HeldJoin
  <2> QED BY <1>0, <2>1, <2>5
<1>3. MergedPages(a, b, p, z)
  BY LeavesMergedAre
<1>4. /\ pages'[a] = Leaf(w, pages[a].left_pid, pages[b].right_pid)
      /\ pages'[b] = Free /\ pages'[p] = z
      /\ \A q \in PageIDs : q \notin {a, b, p} => SameBut(q, a)
  BY <1>0, <1>3 DEF MergedPages
<1>5. R2[a] = R[a] \cup R[b] /\ \A q \in PageIDs : q # a => R2[q] = R[q]
  BY <1>2
<1>6. Combined(R, Q, i, p, a, b, R2)
  BY <1>1, <1>4, <1>5 DEF Combined
<1>7. /\ IsLeaf(a)' /\ ~IsInternal(a)' /\ pages'[a].tuples = w
      /\ pages'[a].left_pid = pages[a].left_pid /\ pages'[a].right_pid = pages[b].right_pid
      /\ ~IsLeaf(b)' /\ ~IsLeaf(p)' /\ ~IsLeaf(p)
  BY <1>2, <1>4, Shapes DEF IsLeaf, IsInternal
<1>8. LeafOrder(a, R2)'
  <2>1. pages[a].left_pid \in PageIDs \cup {NoPage}
    BY <1>2 DEF Ordered, LeafOrder
  <2> QED BY <1>0, <1>1, <1>14, <1>5, <1>7, <2>1 DEF LeafOrder
<1>9. \A q \in PageIDs : q \notin {a, b, p} =>
         /\ IsLeaf(q)' <=> IsLeaf(q)
         /\ IsLeaf(q) => pages'[q].right_pid = pages[q].right_pid
  <2> SUFFICES ASSUME NEW q \in PageIDs, q \notin {a, b, p}
               PROVE  /\ IsLeaf(q)' <=> IsLeaf(q)
                      /\ IsLeaf(q) => pages'[q].right_pid = pages[q].right_pid
    OBVIOUS
  <2>1. CASE pages'[q] = pages[q]
    BY <2>1 DEF IsLeaf
  <2>2. CASE IsLeaf(q) /\ pages'[q] = Leaf(pages[q].tuples, a, pages[q].right_pid)
    BY <2>2, Shapes DEF IsLeaf
  <2> QED BY <1>4, <2>1, <2>2 DEF SameBut
<1>10. Leaves' = Leaves \ {b}
  BY <1>2, <1>7, <1>9 DEF Leaves
<1>11. United(Leaves, Right, R, a, b, Right', R2)
  <2>1. Chained(Leaves, Right, R) /\ NoPage \notin Leaves /\ a \in Leaves /\ b \in Leaves
    BY <1>2, BTreeAssumption DEF Leaves, Ordered
  <2>2. Next2(R[a], R[b])
    BY <1>1, Neighbours
  <2>3. Right'[a] = Right[b]
    BY <1>2, <1>7 DEF Right
  <2>4. \A q \in Leaves : q # a /\ q # b => Right'[q] = Right[q] /\ R2[q] = R[q]
    BY <1>5, <1>7, <1>9 DEF Leaves, Right
  <2> QED BY <1>5, <2>1, <2>2, <2>3, <2>4 DEF United
<1>12. Chained(Leaves \ {b}, Right', R2)
  BY <1>11, ChainMerge
<1>13. Chained(Leaves, Right, R2)'
  BY <1>10, <1>12 DEF Chained
<1> QED BY <1>3, <1>6, <1>7, <1>8, <1>13 DEF NodeOrder

LEMMA MergeAims ==
  ASSUME NEW R, Aimed(R), pc = "rebalance", pc' = "rebalance", request' = request,
         report'.type # "LeafPage", NEW R2
  PROVE  Aimed(R2)'
<1>1. request.key \in Keys
  BY DEF Aimed
<1> QED BY <1>1 DEF Aimed, Reported

\* Two leaves become one ...
LEMMA LeafMergeOrders == ASSUME BInv, OInv, Residues = {0}, LeafMerge PROVE OInv'
<1>1. PICK R, Q : Ordered(R, Q) /\ Cleft(R, Q) /\ Aimed(R)
  BY DEF OInv
<1>2. PICK i, p, a, b, z : /\ i = MergeAt /\ p = parent /\ a = toPage /\ b = fromPage
                           /\ z = DeleteKeyAndChildPtr(i)
  OBVIOUS
<1>3. /\ LeafMergeDue /\ root' = root /\ pc' = "rebalance" /\ pc = "rebalance" /\ request' = request
      /\ report'.type # "LeafPage" /\ pages' = LeavesMerged(z)
  BY <1>2 DEF LeafMerge, LeafMergeDue, Underflown, Returned, Ascend, CheckUnderflow, Status
<1>4. z = Internal(RemoveAt(pages[p].keys, i), RemoveAt(Kids(p), i + 1))
  BY <1>2 DEF DeleteKeyAndChildPtr, parentPage, Kids
<1>5. z.type # "leaf" /\ z.keys = RemoveAt(pages[p].keys, i) /\ z.children = RemoveAt(Kids(p), i + 1)
  BY <1>4, Shapes
<1>6. PICK R2 : R2 = [q \in PageIDs |-> IF q = a THEN R[a] \cup R[b] ELSE R[q]]
  OBVIOUS
<1>7. /\ Combined(R, Q, i, p, a, b, R2) /\ MergedPages(a, b, p, z)
      /\ LeafOrder(a, R2)' /\ NodeOrder(a, R2, R2)' /\ Chained(Leaves, Right, R2)'
  BY <1>1, <1>2, <1>3, <1>5, <1>6, LeavesMergedOrder
<1>8. /\ Node(RemoveAt(pages[p].keys, i), RemoveAt(Kids(p), i + 1), R[p], R2)
      /\ \A q \in PageIDs : q \notin {a, p} => NodeOrder(q, R2, R2)'
      /\ (\A q \in PageIDs : q \notin {a, p} => LeafOrder(q, R2)')
      /\ Ranges(R2)' /\ R2[root] = Int /\ R2[p] = R[p]
  BY <1>7, CombinedOrder
<1>9. pages'[p] = z
  BY <1>7 DEF MergedPages
<1>10. NodeOrder(p, R2, R2)' /\ LeafOrder(p, R2)'
  BY <1>5, <1>8, <1>9 DEF NodeOrder, LeafOrder, IsLeaf, Kids
<1>11. Ordered(R2, R2)'
  <2>1. (\A q \in PageIDs : NodeOrder(q, R2, R2)') /\ \A q \in PageIDs : LeafOrder(q, R2)'
    BY <1>7, <1>8, <1>10
  <2> QED BY <1>3, <1>7, <1>8, <2>1 DEF Ordered
<1>12. Cleft(R2, R2)'
  BY <1>3 DEF Cleft, Splitting
<1>13. Aimed(R2)'
  BY <1>1, <1>3, MergeAims
<1> QED BY <1>11, <1>12, <1>13 DEF OInv

\* ... also the last two, of which one becomes the root.
LEMMA RootLeafMergeOrders == ASSUME BInv, OInv, RootLeafMerge PROVE OInv'
<1>1. PICK R, Q : Ordered(R, Q) /\ Cleft(R, Q) /\ Aimed(R)
  BY DEF OInv
<1>2. PICK i, p, a, b, z : /\ i = MergeAt /\ p = parent /\ a = toPage /\ b = fromPage
                           /\ z = Free
  OBVIOUS
<1>3. /\ LeafMergeDue /\ root' = a /\ p = root /\ Len(pages[p].keys) = 1
      /\ pc' = "rebalance" /\ pc = "rebalance" /\ request' = request
      /\ report'.type # "LeafPage" /\ pages' = LeavesMerged(z)
  BY <1>2 DEF RootLeafMerge, LeafMergeDue, Underflown, Returned, Ascend, Status, parentPage
<1>4. z.type # "leaf" /\ z.type # "internal"
  BY <1>2, Shapes
<1>5. PICK R2 : R2 = [q \in PageIDs |-> IF q = a THEN R[a] \cup R[b] ELSE R[q]]
  OBVIOUS
<1>6. /\ Combined(R, Q, i, p, a, b, R2) /\ MergedPages(a, b, p, z)
      /\ LeafOrder(a, R2)' /\ NodeOrder(a, R2, R2)' /\ Chained(Leaves, Right, R2)'
  BY <1>1, <1>2, <1>3, <1>4, <1>5, LeavesMergedOrder
<1>7. /\ \A q \in PageIDs : q \notin {a, p} => NodeOrder(q, R2, R2)'
      /\ (\A q \in PageIDs : q \notin {a, p} => LeafOrder(q, R2)')
      /\ Ranges(R2)' /\ R2[root] = Int /\ R2[p] = R[p]
  BY <1>6, CombinedOrder
<1>8. pages'[p] = z
  BY <1>6 DEF MergedPages
<1>9. NodeOrder(p, R2, R2)' /\ LeafOrder(p, R2)'
  BY <1>4, <1>8 DEF NodeOrder, LeafOrder, IsLeaf, IsInternal
<1>10. R2[root'] = Int
  <2>1. /\ Facing(R, Q, i, p, a, b) /\ R2[a] = R[a] \cup R[b]
    BY <1>6 DEF Combined
  <2>2. /\ Node(pages[p].keys, Kids(p), R[p], R) /\ i \in 1..Len(pages[p].keys)
        /\ R[a] \in SUBSET Int /\ R[b] \in SUBSET Int /\ a = Kids(p)[i] /\ b = Kids(p)[i + 1]
    BY <2>1, Neighbours DEF Facing
  <2>3. i = 1
    BY <1>3, <2>2
  <2>4. R[p] = Int
    BY <1>3, <1>7
  <2>5. \A k \in Int : k \in R[a] \/ k \in R[b]
    <3> TAKE k \in Int
    <3>1. PICK u : u = UpTo(pages[p].keys, k)
      OBVIOUS
    <3>2. u \in 0..1 /\ k \in R[Kids(p)[u + 1]]
      <4>0. PICK ks, cs, S : ks = pages[p].keys /\ cs = Kids(p) /\ S = R[p]
        OBVIOUS
      <4>2. Node(ks, cs, S, R) /\ k \in S /\ u = UpTo(ks, k)
        BY <2>2, <2>4, <3>1, <4>0
      <4>3. u \in 0..Len(ks) /\ k \in R[cs[u + 1]]
        BY ONLY <4>2, WhichChild
      <4>1. /\ u \in 0..Len(pages[p].keys) /\ k \in R[Kids(p)[u + 1]]
        BY <4>0, <4>3
      <4> QED BY <1>3, <4>1
    <3>3. u = 0 \/ u = 1
      BY <3>2
    <3>4. CASE u = 0
      <4>1. u + 1 = 1
        BY <3>4
      <4> QED BY <2>2, <2>3, <3>2, <4>1
    <3>5. CASE u = 1
      <4>1. u + 1 = i + 1
        BY <2>3, <3>5
      <4> QED BY <2>2, <2>3, <3>2, <4>1
    <3> QED BY <3>3, <3>4, <3>5
  <2> QED BY <1>3, <2>1, <2>2, <2>5
<1>11. Ordered(R2, R2)'
  <2>1. (\A q \in PageIDs : NodeOrder(q, R2, R2)') /\ \A q \in PageIDs : LeafOrder(q, R2)'
    BY <1>6, <1>7, <1>9
  <2> QED BY <1>6, <1>7, <1>10, <2>1 DEF Ordered
<1>12. Cleft(R2, R2)'
  BY <1>3 DEF Cleft, Splitting
<1>13. Aimed(R2)'
  BY <1>1, <1>3, MergeAims
<1> QED BY <1>11, <1>12, <1>13 DEF OInv

-----------------------------------------------------------------------------
\* The pages after two internal ones were merged.
NodesMerged(a, b, p, t, C, z) ==
  /\ pages'[a] = Internal(t, C) /\ pages'[b] = Free /\ pages'[p] = z
  /\ \A q \in PageIDs : q \notin {a, b, p} => pages'[q] = pages[q]

LEMMA InternalMergePages ==
  ASSUME BInv, InternalMerge, NEW R, NEW Q, NEW i, NEW p, NEW a, NEW b, Facing(R, Q, i, p, a, b),
         i = MergeAt, a = toPage, b = fromPage,
         NEW t, t = pages[a].keys \o <<pages[p].keys[i]>> \o pages[b].keys,
         NEW C, BothKids(a, b, C), NEW z, z = DeleteKeyAndChildPtr(i)
  PROVE  NodesMerged(a, b, p, t, C, z)
<1>1. /\ a \in PageIDs /\ b \in PageIDs /\ p \in PageIDs /\ a # b /\ p # a /\ p # b
      /\ p = parent
  BY Neighbours DEF Facing
<1>2. pages = [q \in PageIDs |-> pages[q]]
  BY DEF BInv, Pages
<1>3. PICK m, f : m = Internal(t, C) /\ f = Free
  OBVIOUS
<1>4. pages' = [pages EXCEPT ![a] = m, ![b] = f, ![p] = z]
  BY <1>1, <1>3 DEF InternalMerge, Kids, BothKids, parentPage
<1>5. /\ pages' = [q \in PageIDs |-> pages'[q]] /\ pages'[a] = m /\ pages'[b] = f /\ pages'[p] = z
      /\ \A q \in PageIDs : q \notin {a, b, p} => pages'[q] = pages[q]
  <2>1. a # p /\ b # p /\ a # b /\ a \in PageIDs /\ b \in PageIDs /\ p \in PageIDs
    BY <1>1
  <2> QED BY ONLY <1>2, <1>4, <2>1, Update3
<1> QED BY <1>3, <1>5 DEF NodesMerged

\* Two internal pages become one.
LEMMA InternalMergeOrders == ASSUME BInv, OInv, Residues = {0}, InternalMerge PROVE OInv'
<1>1. PICK R, Q : Ordered(R, Q) /\ Cleft(R, Q) /\ Aimed(R)
  BY DEF OInv
<1>2. InternalMergeDue
  BY DEF InternalMerge
<1>3. PICK i, p, a, b, z : /\ i = MergeAt /\ p = parent /\ a = toPage /\ b = fromPage
                           /\ z = DeleteKeyAndChildPtr(i)
  OBVIOUS
<1>4. /\ root' = root /\ pc' = "rebalance" /\ pc = "rebalance" /\ request' = request
      /\ report'.type # "LeafPage" /\ report.type = "InternalPage" /\ stack # <<>>
  BY <1>2, <1>3 DEF InternalMerge, InternalMergeDue, Underflown, Returned, Ascend, CheckUnderflow, Status
<1>5. /\ i \in 1..Width(p) /\ a = Kids(p)[i] /\ b = Kids(p)[i + 1]
      /\ IsInternal(a) /\ IsInternal(b) /\ IsInternal(p)
      /\ a \in PageIDs /\ b \in PageIDs /\ p \in PageIDs /\ a # b /\ p # a /\ p # b
  BY <1>2, <1>3, MergeFits
<1>6. Facing(R, Q, i, p, a, b)
  BY <1>1, <1>3, <1>4, <1>5 DEF Facing, Splitting
<1>7. PICK t, C, S : /\ t = pages[a].keys \o <<pages[p].keys[i]>> \o pages[b].keys
                     /\ C = Kids(a) \o Kids(b) /\ S = R[a] \cup R[b]
  OBVIOUS
<1>8. BothKids(a, b, C)
  BY <1>7 DEF BothKids
<1>9. /\ pages'[a] = Internal(t, C) /\ pages'[b] = Free /\ pages'[p] = z
      /\ \A q \in PageIDs : q \notin {a, b, p} => pages'[q] = pages[q]
  <2>1. NodesMerged(a, b, p, t, C, z)
    BY <1>3, <1>6, <1>7, <1>8, InternalMergePages
  <2> QED BY <2>1 DEF NodesMerged
<1>10. Node(t, C, S, R)
  <2>1. Node(pages[a].keys \o <<pages[p].keys[i]>> \o pages[b].keys, Kids(a) \o Kids(b), R[a] \cup R[b], R)
    BY ONLY <1>5, <1>6, NodesJoined
  <2> QED BY <1>7, <2>1
<1>11. /\ C \in Seq(PageIDs)
       /\ \A j \in 1..Len(C) : C[j] \in PageIDs /\ C[j] \notin {a, b}
  BY ONLY <1>5, <1>6, <1>8, NotTheirOwn
<1>12. PICK R2 : R2 = [q \in PageIDs |-> IF q = a THEN S ELSE R[q]]
  OBVIOUS
<1>13. R2[a] = S /\ \A q \in PageIDs : q # a => R2[q] = R[q]
  BY <1>5, <1>12
<1>14. Combined(R, Q, i, p, a, b, R2)
  BY <1>6, <1>7, <1>9, <1>13 DEF Combined, SameBut
<1>15. /\ Node(RemoveAt(pages[p].keys, i), RemoveAt(Kids(p), i + 1), R[p], R2)
       /\ \A q \in PageIDs : q \notin {a, p} => NodeOrder(q, R2, R2)'
       /\ Ranges(R2)' /\ R2[root] = Int /\ R2[p] = R[p]
  BY <1>14, CombinedOrder
<1>16. z = Internal(RemoveAt(pages[p].keys, i), RemoveAt(Kids(p), i + 1))
  BY <1>3 DEF DeleteKeyAndChildPtr, parentPage, Kids
<1>17. z.type # "leaf" /\ z.keys = RemoveAt(pages[p].keys, i) /\ z.children = RemoveAt(Kids(p), i + 1)
  BY <1>16, Shapes
<1>18. NodeOrder(p, R2, R2)'
  BY <1>9, <1>15, <1>17 DEF NodeOrder, Kids
<1>19. NodeOrder(a, R2, R2)'
  <2>1. Node(t, C, S, R2)
    <3>1. \A j \in 1..Len(C) : R2[C[j]] = R[C[j]]
      BY <1>11, <1>13
    <3> QED BY ONLY <1>10, <3>1, NodeSame
  <2>2. pages'[a].keys = t /\ pages'[a].children = C
    BY <1>9, Shapes
  <2> QED BY <1>13, <2>1, <2>2 DEF NodeOrder, Kids
<1>20. LeavesKept({a, b, p}, R, R2)
  <2>1. ~IsLeaf(a) /\ ~IsLeaf(b) /\ ~IsLeaf(p)
    BY <1>5 DEF IsLeaf, IsInternal
  <2>2. ~IsLeaf(a)' /\ ~IsLeaf(b)' /\ ~IsLeaf(p)'
    BY <1>9, <1>17, Shapes DEF IsLeaf
  <2> QED BY <1>9, <1>13, <2>1, <2>2 DEF LeavesKept
<1>21. (\A q \in PageIDs : LeafOrder(q, R2)') /\ Chained(Leaves, Right, R2)'
  BY <1>1, <1>20, LeavesStay
<1>22. Ordered(R2, R2)'
  <2>1. \A q \in PageIDs : NodeOrder(q, R2, R2)'
    BY <1>15, <1>18, <1>19
  <2> QED BY <1>4, <1>15, <1>21, <2>1 DEF Ordered
<1>23. Cleft(R2, R2)'
  BY <1>4 DEF Cleft, Splitting
<1>24. Aimed(R2)'
  BY <1>1, <1>4, MergeAims
<1> QED BY <1>22, <1>23, <1>24 DEF OInv

-----------------------------------------------------------------------------
\* Walks through the tree.

LEMMA Bounded ==
  ASSUME NEW S, IsFiniteSet(S), NEW m \in [S -> Nat]
  PROVE  \E b \in Nat : \A s \in S : m[s] < b
<1> DEFINE T == {n \in Nat : \A P \in SUBSET S : Cardinality(P) = n => \E b \in Nat : \A s \in P : m[s] < b}
<1>1. 0 \in T
  <2> SUFFICES ASSUME NEW P \in SUBSET S, Cardinality(P) = 0 PROVE \E b \in Nat : \A s \in P : m[s] < b
    OBVIOUS
  <2>1. P = {}
    BY FS_Subset, FS_EmptySet
  <2> QED BY <2>1
<1>2. ASSUME NEW n \in Nat, n \in T PROVE n + 1 \in T
  <2> SUFFICES ASSUME NEW P \in SUBSET S, Cardinality(P) = n + 1 PROVE \E b \in Nat : \A s \in P : m[s] < b
    OBVIOUS
  <2>1. IsFiniteSet(P) /\ P # {}
    BY FS_Subset, FS_EmptySet
  <2>2. PICK x \in P : TRUE
    BY <2>1
  <2>3. PICK c : c = Cardinality(P \ {x})
    OBVIOUS
  <2>4. c = (n + 1) - 1
    BY <2>1, <2>2, <2>3, FS_RemoveElement
  <2>5. Cardinality(P \ {x}) = n /\ P \ {x} \in SUBSET S
    BY <2>3, <2>4
  <2>6. PICK b \in Nat : \A s \in P \ {x} : m[s] < b
    BY <1>2, <2>5
  <2>7. PICK d : d = m[x] + b + 1
    OBVIOUS
  <2>8. d \in Nat /\ m[x] < d /\ b < d
    BY <2>7
  <2>9. \A s \in P : m[s] < d
    <3> TAKE s \in P
    <3>1. CASE s = x
      BY <2>8, <3>1
    <3>2. CASE s # x
      <4>1. m[s] < b /\ m[s] \in Nat
        BY <2>6, <3>2
      <4> QED BY <2>8, <4>1
    <3> QED BY <3>1, <3>2
  <2> QED BY <2>8, <2>9
<1> HIDE DEF T
<1>3. \A n \in Nat : n \in T
  BY <1>1, <1>2, Induction
<1>4. Cardinality(S) \in T
  BY <1>3, FS_CardinalityType
<1> QED BY <1>4 DEF T

\* A walk from p goes on to next[p] while it is at an inner place; G says what it makes of
\* what comes back.
Walks(Dom, V, m, inner, next, G, base) ==
  /\ IsFiniteSet(Dom) /\ m \in [Dom -> Nat] /\ inner \in SUBSET Dom /\ V # {}
  /\ \A p \in inner : next[p] \in Dom /\ m[next[p]] < m[p]
  /\ \A p \in inner : \A v \in V : G[p][v] \in V
  /\ \A p \in Dom : p \notin inner => base[p] \in V

LEMMA Walk ==
  ASSUME NEW Dom, NEW V, NEW m, NEW inner, NEW next, NEW G, NEW base,
         Walks(Dom, V, m, inner, next, G, base)
  PROVE  \E f \in [Dom -> V] : \A p \in Dom : f[p] = IF p \in inner THEN G[p][f[next[p]]] ELSE base[p]
<1> DEFINE F == [p \in Dom |-> [f \in [Dom -> V] |-> IF p \in inner THEN G[p][f[next[p]]] ELSE base[p]]]
<1>1. /\ IsFiniteSet(Dom) /\ m \in [Dom -> Nat] /\ inner \in SUBSET Dom /\ V # {}
      /\ \A p \in inner : next[p] \in Dom /\ m[next[p]] < m[p]
      /\ \A p \in inner : \A v \in V : G[p][v] \in V
      /\ \A p \in Dom : p \notin inner => base[p] \in V
  BY DEF Walks
<1>2. \A p \in Dom : \A f \in [Dom -> V] : F[p][f] = IF p \in inner THEN G[p][f[next[p]]] ELSE base[p]
  OBVIOUS
<1>3. \A p \in Dom : \A f \in [Dom -> V] : (IF p \in inner THEN G[p][f[next[p]]] ELSE base[p]) \in V
  <2> TAKE p \in Dom
  <2> TAKE f \in [Dom -> V]
  <2>1. CASE p \in inner
    <3>1. f[next[p]] \in V
      BY <1>1, <2>1
    <3> QED BY <1>1, <2>1, <3>1
  <2>2. CASE p \notin inner
    BY <1>1, <2>2
  <2> QED BY <2>1, <2>2
<1>4. F \in [Dom -> [[Dom -> V] -> V]]
  BY <1>3
<1> HIDE DEF F
<1>5. \A p \in Dom : \A f, g \in [Dom -> V] :
         (\A q \in Dom : m[q] < m[p] => f[q] = g[q]) => F[p][f] = F[p][g]
  <2> TAKE p \in Dom
  <2> TAKE f, g \in [Dom -> V]
  <2> HAVE \A q \in Dom : m[q] < m[p] => f[q] = g[q]
  <2>1. CASE p \in inner
    <3>1. f[next[p]] = g[next[p]]
      BY <1>1, <2>1
    <3> QED BY <1>2, <2>1, <3>1
  <2>2. CASE p \notin inner
    BY <1>2, <2>2
  <2> QED BY <2>1, <2>2
<1>6. Recursive(Dom, V, m, F)
  BY <1>1, <1>4, <1>5 DEF Recursive
<1>7. PICK v : v \in V
  BY <1>1
<1>8. PICK b \in Nat : \A p \in Dom : m[p] < b
  BY <1>1, Bounded
<1>9. PICK f \in [Dom -> V] : \A p \in Dom : f[p] = F[p][f]
  BY <1>6, <1>7, <1>8, Recursion
<1> QED BY <1>2, <1>9

\* Sequences of sequences, one behind the other.
Flattens(seqs, S, n, f) ==
  /\ n = Len(seqs) /\ n \in Nat /\ n >= 1 /\ f \in [1..n -> Seq(S)]
  /\ f[1] = seqs[1] /\ FlattenSeq(seqs) = f[n]
  /\ \A i \in 2..n : i \in 1..n /\ i - 1 \in 1..n /\ f[i] = f[i - 1] \o seqs[i]

LEMMA FlattenSteps ==
  ASSUME NEW S, NEW seqs \in Seq(Seq(S)), Len(seqs) # 0
  PROVE  \E f : Flattens(seqs, S, Len(seqs), f)
<1>1. PICK n : n = Len(seqs)
  OBVIOUS
<1>2. n \in Nat /\ n >= 1 /\ \A i \in 1..n : seqs[i] \in Seq(S)
  <2>1. n \in Nat /\ n # 0
    BY <1>1, LenProperties
  <2>2. \A i \in 1..n : seqs[i] \in Seq(S)
    BY <1>1, ElementOfSeq
  <2> QED BY <2>1, <2>2
<1> DEFINE body(f) == [i \in 1..n |-> IF i = 1 THEN seqs[i] ELSE f[i - 1] \o seqs[i]]
           flatten == CHOOSE f : f = body(f)
<1>3. FlattenSeq(seqs) = flatten[n]
  BY <1>1, <1>2 DEF FlattenSeq
<1>4. \E f \in [1..n -> Seq(S)] : f = body(f)
  <2> DEFINE G == [i \in 2..n |-> [v \in Seq(S) |-> v \o seqs[i]]]
             next == [i \in 2..n |-> i - 1]
             m == [i \in 1..n |-> i]
  <2>1. \A i \in 2..n : i \in 1..n /\ next[i] \in 1..n /\ next[i] = i - 1 /\ m[next[i]] < m[i]
    <3> TAKE i \in 2..n
    <3>1. i \in 1..n /\ i - 1 \in 1..n /\ i - 1 < i
      BY <1>2
    <3> QED BY <3>1
  <2>2. \A i \in 2..n : \A v \in Seq(S) : G[i][v] = v \o seqs[i] /\ G[i][v] \in Seq(S)
    <3> TAKE i \in 2..n
    <3> TAKE v \in Seq(S)
    <3>1. seqs[i] \in Seq(S)
      BY <1>2, <2>1
    <3>2. v \o seqs[i] \in Seq(S)
      BY <3>1, JoinFacts
    <3> QED BY <3>2
  <2>3. m \in [1..n -> Nat] /\ IsFiniteSet(1..n) /\ Seq(S) # {} /\ 2..n \in SUBSET (1..n)
    <3>1. m \in [1..n -> Nat]
      BY <1>2
    <3>2. IsFiniteSet(1..n)
      BY <1>2, FS_Interval
    <3>3. <<>> \in Seq(S)
      OBVIOUS
    <3>4. 2..n \in SUBSET (1..n)
      BY <2>1
    <3> QED BY <3>1, <3>2, <3>3, <3>4
  <2>4. \A i \in 1..n : i \in 2..n <=> i # 1
    BY <1>2
  <2> HIDE DEF G, m, next
  <2>5. Walks(1..n, Seq(S), m, 2..n, next, G, seqs)
    BY <1>2, <2>1, <2>2, <2>3 DEF Walks
  <2>6. PICK f \in [1..n -> Seq(S)] :
           \A i \in 1..n : f[i] = IF i \in 2..n THEN G[i][f[next[i]]] ELSE seqs[i]
    <3>1. PICK Dom, V, inner : Dom = 1..n /\ V = Seq(S) /\ inner = 2..n
      OBVIOUS
    <3>2. Walks(Dom, V, m, inner, next, G, seqs)
      BY <2>5, <3>1
    <3>3. \E f \in [Dom -> V] : \A i \in Dom : f[i] = IF i \in inner THEN G[i][f[next[i]]] ELSE seqs[i]
      BY ONLY <3>2, Walk
    <3> QED BY <3>1, <3>3
  <2>7. \A i \in 1..n : f[i] = IF i = 1 THEN seqs[i] ELSE f[i - 1] \o seqs[i]
    <3> TAKE i \in 1..n
    <3>1. CASE i = 1
      BY <2>4, <2>6, <3>1
    <3>2. CASE i # 1
      <4>1. i \in 2..n /\ next[i] = i - 1 /\ next[i] \in 1..n
        BY <2>1, <2>4, <3>2
      <4>2. f[next[i]] \in Seq(S)
        BY <4>1
      <4>3. f[i] = G[i][f[next[i]]]
        BY <2>6, <4>1
      <4>4. G[i][f[next[i]]] = f[next[i]] \o seqs[i]
        BY <2>2, <4>1, <4>2, Zenon
      <4> QED BY <3>2, <4>1, <4>3, <4>4
    <3> QED BY <3>1, <3>2
  <2>8. f = body(f)
    BY <2>7, Zenon
  <2> QED BY <2>8
<1>5. flatten = body(flatten)
  BY <1>4, Zenon
<1> HIDE DEF flatten
<1>6. \A i \in 1..n : flatten[i] = IF i = 1 THEN seqs[i] ELSE flatten[i - 1] \o seqs[i]
  BY <1>5
<1>7. flatten = [i \in 1..n |-> flatten[i]]
  BY <1>5
<1>8. \A i \in 1..n : flatten[i] \in Seq(S)
  <2> DEFINE T == {i \in Nat : i + 1 \in 1..n => flatten[i + 1] \in Seq(S)}
  <2>1. 0 \in T
    BY <1>2, <1>6
  <2>2. ASSUME NEW i \in Nat, i \in T PROVE i + 1 \in T
    <3> SUFFICES ASSUME (i + 1) + 1 \in 1..n PROVE flatten[(i + 1) + 1] \in Seq(S)
      OBVIOUS
    <3>1. i + 1 \in 1..n /\ (i + 1) + 1 # 1 /\ ((i + 1) + 1) - 1 = i + 1
      BY <1>2
    <3>2. flatten[i + 1] \in Seq(S) /\ seqs[(i + 1) + 1] \in Seq(S)
      BY <1>2, <2>2, <3>1
    <3>3. flatten[(i + 1) + 1] = flatten[i + 1] \o seqs[(i + 1) + 1]
      BY <1>6, <3>1
    <3> QED BY <3>2, <3>3, JoinFacts
  <2> HIDE DEF T
  <2>3. \A i \in Nat : i \in T
    BY <2>1, <2>2, Induction
  <2> TAKE i \in 1..n
  <2>4. i - 1 \in Nat /\ (i - 1) + 1 = i
    BY <1>2
  <2>5. i - 1 \in T
    BY <2>3, <2>4
  <2> QED BY <2>4, <2>5 DEF T
<1>9. flatten \in [1..n -> Seq(S)]
  BY <1>7, <1>8
<1>10. 1 \in 1..n
  BY <1>2
<1>11. \A i \in 2..n : i \in 1..n /\ i - 1 \in 1..n /\ i # 1
  BY <1>2
<1>12. Flattens(seqs, S, n, flatten)
  BY <1>1, <1>2, <1>3, <1>6, <1>9, <1>10, <1>11 DEF Flattens
<1> QED BY <1>1, <1>12

-----------------------------------------------------------------------------
\* The chain has all leaves, from left to right.

Bottom(S) == \A x \in S : \A k \in Int : k <= x => k \in S

LEMMA Apart ==
  ASSUME NEW S \in SUBSET Int, NEW T \in SUBSET Int, S # {}, T # {}, Convex(S), Convex(T), S \cap T = {}
  PROVE  Before(S, T) \/ Before(T, S)
<1>1. SUFFICES ASSUME ~Before(S, T), ~Before(T, S) PROVE FALSE
  OBVIOUS
<1>2. PICK x \in S, y \in T : ~(x < y)
  BY <1>1 DEF Before
<1>3. PICK u \in T, v \in S : ~(u < v)
  BY <1>1 DEF Before
<1>4. x \in Int /\ y \in Int /\ u \in Int /\ v \in Int /\ y <= x /\ v <= u
  BY <1>2, <1>3
<1>5. CASE y <= v
  BY <1>4, <1>5, <1>2, <1>3 DEF Convex
<1>6. CASE v <= y
  <2>1. CASE y <= x
    BY <1>2, <1>3, <1>4, <1>6, <2>1 DEF Convex
  <2> QED BY <1>4, <2>1
<1> QED BY <1>4, <1>5, <1>6

\* What lies behind S, when T comes next.
LEMMA NextBefore ==
  ASSUME NEW S \in SUBSET Int, NEW T \in SUBSET Int, NEW U \in SUBSET Int, S # {}, T # {}, U # {},
         Convex(T), Convex(U), Next2(S, T), S \cap U = {}, T \cap U = {}
  PROVE  /\ Before(S, T)
         /\ Before(S, U) <=> Before(T, U)
<1>1. Before(S, T)
  BY DEF Next2, Before
<1>2. ASSUME Before(T, U) PROVE Before(S, U)
  <2>1. PICK t \in T : TRUE
    OBVIOUS
  <2> QED BY <1>1, <1>2, <2>1 DEF Before
<1>3. ASSUME Before(S, U), ~Before(T, U) PROVE FALSE
  <2>1. Before(U, T)
    BY <1>3, Apart
  <2>2. PICK x \in S, y \in U, z \in T : TRUE
    OBVIOUS
  <2>3. x < y /\ y < z /\ x \in Int /\ y \in Int /\ z \in Int
    BY <1>3, <2>1, <2>2 DEF Before
  <2>4. y \in S \/ y \in T
    BY <2>2, <2>3 DEF Next2
  <2> QED BY <2>2, <2>4
<1> QED BY <1>1, <1>2, <1>3

Ahead(L, R, p) == {q \in L : Before(R[p], R[q])}

LEMMA ChainShortens ==
  ASSUME NEW L, L \in SUBSET PageIDs, NEW N, NEW R, Chained(L, N, R), NoPage \notin L, NEW p \in L, N[p] # NoPage
  PROVE  /\ N[p] \in L /\ Before(R[p], R[N[p]])
         /\ \A q \in L : q \in Ahead(L, R, p) <=> q = N[p] \/ q \in Ahead(L, R, N[p])
         /\ N[p] \notin Ahead(L, R, N[p])
<1>1. PICK n : n = N[p]
  OBVIOUS
<1>2. n \in L /\ Next2(R[p], R[n])
  BY <1>1 DEF Chained
<1>3. \A q \in L : R[q] \in SUBSET Int /\ R[q] # {} /\ Convex(R[q])
  BY DEF Chained
<1>4. \A q, r \in L : q # r => R[q] \cap R[r] = {}
  BY DEF Chained
<1>5. Before(R[p], R[n])
  BY <1>2 DEF Before, Next2
<1>6. ~Before(R[n], R[n]) /\ ~Before(R[p], R[p])
  <2>1. PICK x \in R[n], y \in R[p] : x \in Int /\ y \in Int
    BY <1>2, <1>3
  <2> QED BY <2>1 DEF Before
<1>7. \A q \in L : Before(R[p], R[q]) <=> q = n \/ Before(R[n], R[q])
  <2> TAKE q \in L
  <2>1. CASE q = n
    BY <1>5, <2>1
  <2>2. CASE q = p
    <3>1. ~Before(R[n], R[p])
      <4>1. PICK x \in R[n], y \in R[p] : x \in Int /\ y \in Int
        BY <1>2, <1>3
      <4> QED BY <1>5, <4>1 DEF Before
    <3>2. p # n
      BY <1>5, <1>6
    <3> QED BY <1>6, <2>2, <3>1, <3>2
  <2>3. CASE q # n /\ q # p
    <3>1. R[p] \cap R[q] = {} /\ R[n] \cap R[q] = {}
      BY <1>2, <1>4, <2>3
    <3>2. PICK S, T, U : S = R[p] /\ T = R[n] /\ U = R[q]
      OBVIOUS
    <3>3. /\ S \in SUBSET Int /\ T \in SUBSET Int /\ U \in SUBSET Int /\ S # {} /\ T # {} /\ U # {}
          /\ Convex(T) /\ Convex(U) /\ Next2(S, T) /\ S \cap U = {} /\ T \cap U = {}
      BY <1>2, <1>3, <3>1, <3>2
    <3>4. Before(S, U) <=> Before(T, U)
      BY ONLY <3>3, NextBefore
    <3> QED BY <2>3, <3>2, <3>4
  <2> QED BY <2>1, <2>2, <2>3
<1> QED BY <1>1, <1>2, <1>5, <1>6, <1>7 DEF Ahead

\* The leaves from p on.
Along(L, N, f) ==
  \A p \in PageIDs : f[p] = IF p \in L /\ N[p] # NoPage THEN <<p>> \o f[N[p]] ELSE <<p>>

LEMMA AlongExists ==
  ASSUME NEW L, L \in SUBSET PageIDs, NEW N, NEW R, Chained(L, N, R), NoPage \notin L
  PROVE  \E f \in [PageIDs -> Seq(PageIDs)] : Along(L, N, f)
<1> DEFINE m == [p \in PageIDs |-> Cardinality(Ahead(L, R, p))]
           inner == {p \in L : N[p] # NoPage}
           G == [p \in PageIDs |-> [v \in Seq(PageIDs) |-> <<p>> \o v]]
           base == [p \in PageIDs |-> <<p>>]
<1>1. \A p \in PageIDs : IsFiniteSet(Ahead(L, R, p)) /\ m[p] \in Nat
  <2> TAKE p \in PageIDs
  <2>1. Ahead(L, R, p) \in SUBSET PageIDs
    BY DEF Ahead
  <2>2. IsFiniteSet(Ahead(L, R, p))
    BY <2>1, FS_Subset, BTreeAssumption
  <2> QED BY <2>2, FS_CardinalityType
<1>2. \A p \in inner : N[p] \in PageIDs /\ m[N[p]] < m[p]
  <2> TAKE p \in inner
  <2>1. p \in L /\ N[p] # NoPage /\ p \in PageIDs
    OBVIOUS
  <2>2. PICK n, A, B : n = N[p] /\ A = Ahead(L, R, p) /\ B = Ahead(L, R, n)
    OBVIOUS
  <2>3. /\ n \in L /\ n \in A /\ n \notin B
        /\ \A q \in L : q \in A <=> q = n \/ q \in B
    BY <2>1, <2>2, ChainShortens DEF Ahead
  <2>4. n \in PageIDs /\ B = A \ {n} /\ IsFiniteSet(A)
    <3>1. A \in SUBSET L /\ B \in SUBSET L
      BY <2>2 DEF Ahead
    <3> QED BY <1>1, <2>1, <2>2, <2>3, <3>1
  <2>5. Cardinality(B) = Cardinality(A) - 1 /\ Cardinality(A) \in Nat
    BY <2>3, <2>4, FS_RemoveElement, FS_CardinalityType
  <2>6. m[p] = Cardinality(A) /\ m[n] = Cardinality(B)
    BY <2>1, <2>2, <2>4
  <2> QED BY <2>2, <2>4, <2>5, <2>6
<1>3. m \in [PageIDs -> Nat]
  <2>1. \A p \in PageIDs : Cardinality(Ahead(L, R, p)) \in Nat
    BY <1>1
  <2> QED BY <2>1
<1>4. \A p \in PageIDs : base[p] = <<p>> /\ base[p] \in Seq(PageIDs)
  OBVIOUS
<1>5. \A p \in PageIDs : \A v \in Seq(PageIDs) : G[p][v] = <<p>> \o v /\ G[p][v] \in Seq(PageIDs)
  <2> TAKE p \in PageIDs
  <2> TAKE v \in Seq(PageIDs)
  <2>1. <<p>> \in Seq(PageIDs)
    OBVIOUS
  <2>2. <<p>> \o v \in Seq(PageIDs)
    BY <2>1, JoinFacts
  <2> QED BY <2>2
<1>6. inner \in SUBSET PageIDs /\ IsFiniteSet(PageIDs) /\ Seq(PageIDs) # {}
  <2>1. <<>> \in Seq(PageIDs)
    OBVIOUS
  <2> QED BY <2>1, BTreeAssumption
<1>7. \A p \in PageIDs : p \in inner <=> p \in L /\ N[p] # NoPage
  OBVIOUS
<1> HIDE DEF m, inner, G, base
<1>8. Walks(PageIDs, Seq(PageIDs), m, inner, N, G, base)
  BY <1>2, <1>3, <1>4, <1>5, <1>6 DEF Walks
<1>9. PICK V : V = Seq(PageIDs)
  OBVIOUS
<1>10. PICK f \in [PageIDs -> V] : \A p \in PageIDs : f[p] = IF p \in inner THEN G[p][f[N[p]]] ELSE base[p]
  <2>1. Walks(PageIDs, V, m, inner, N, G, base)
    BY <1>8, <1>9
  <2> QED BY ONLY <2>1, Walk
<1>11. \A p \in PageIDs : f[p] = IF p \in L /\ N[p] # NoPage THEN <<p>> \o f[N[p]] ELSE <<p>>
  <2> TAKE p \in PageIDs
  <2>1. CASE p \in inner
    <3>1. N[p] \in PageIDs
      BY <1>2, <2>1
    <3>2. f[N[p]] \in Seq(PageIDs)
      BY <1>9, <3>1
    <3>3. f[p] = G[p][f[N[p]]]
      BY <1>10, <2>1
    <3>4. G[p][f[N[p]]] = <<p>> \o f[N[p]]
      BY <1>5, <3>2
    <3> QED BY <1>7, <2>1, <3>3, <3>4
  <2>2. CASE p \notin inner
    BY <1>4, <1>7, <1>10, <2>2
  <2> QED BY <2>1, <2>2
<1> QED BY <1>9, <1>11 DEF Along

-----------------------------------------------------------------------------
\* C are the leaves from p on, in order.
InOrder(R, C) == \A i, j \in 1..Len(C) : i < j => Before(R[C[i]], R[C[j]])
Line(L, R, p, C) ==
  /\ C \in Seq(PageIDs) /\ Len(C) \in Nat /\ Len(C) >= 1 /\ C[1] = p
  /\ \A i \in 1..Len(C) : C[i] \in L
  /\ InOrder(R, C)
  /\ \A q \in Ahead(L, R, p) : \E i \in 1..Len(C) : C[i] = q

LEMMA LineOfOne ==
  ASSUME NEW L, L \in SUBSET PageIDs, NEW N, NEW R, Chained(L, N, R), NEW p \in L, N[p] = NoPage, NoPage \notin L,
         NEW C, C = <<p>>
  PROVE  Line(L, R, p, C)
<1>1. C \in Seq(PageIDs) /\ Len(C) = 1 /\ C[1] = p
  OBVIOUS
<1>2. Ahead(L, R, p) = {}
  <2>1. Top(R[p]) /\ R[p] \in SUBSET Int /\ R[p] # {}
    BY DEF Chained
  <2> SUFFICES ASSUME NEW q \in L, Before(R[p], R[q]) PROVE FALSE
    BY DEF Ahead
  <2>2. R[q] \in SUBSET Int /\ R[q] # {}
    BY DEF Chained
  <2>3. PICK x \in R[p], y \in R[q] : x \in Int /\ y \in Int
    BY <2>1, <2>2
  <2>4. x < y
    BY <2>3 DEF Before
  <2>5. y \in R[p]
    BY <2>1, <2>3, <2>4 DEF Top
  <2>6. y < y
    BY <2>5 DEF Before
  <2> QED BY <2>3, <2>6
<1>3. \A i \in 1..Len(C) : C[i] \in L
  BY <1>1
<1>4. InOrder(R, C)
  BY <1>1 DEF InOrder
<1> QED BY <1>1, <1>2, <1>3, <1>4 DEF Line

LEMMA LineOfMore ==
  ASSUME NEW L, L \in SUBSET PageIDs, NEW N, NEW R, Chained(L, N, R), NoPage \notin L, NEW p \in L, N[p] # NoPage,
         NEW B, Line(L, R, N[p], B), NEW C, C = <<p>> \o B
  PROVE  Line(L, R, p, C)
<1>1. PICK n, k, o : n = N[p] /\ k = Len(B) /\ o = <<p>>
  OBVIOUS
<1>2. /\ n \in L /\ Before(R[p], R[n])
      /\ \A q \in L : q \in Ahead(L, R, p) <=> q = n \/ q \in Ahead(L, R, n)
  BY <1>1, ChainShortens
<1>3. /\ B \in Seq(PageIDs) /\ k \in Nat /\ k >= 1 /\ B[1] = n
      /\ \A i \in 1..k : B[i] \in L
      /\ \A i, j \in 1..k : i < j => Before(R[B[i]], R[B[j]])
      /\ \A q \in Ahead(L, R, n) : \E i \in 1..k : B[i] = q
  BY <1>1 DEF Line, InOrder
<1>4. o \in Seq(PageIDs) /\ Len(o) = 1 /\ o[1] = p
  BY <1>1
<1>5. /\ C \in Seq(PageIDs) /\ Len(C) = 1 + k
      /\ \A j \in 1..(1 + k) : C[j] = IF j <= 1 THEN o[j] ELSE B[j - 1]
  BY <1>1, <1>3, <1>4, JoinFacts
<1>6. C[1] = p /\ \A j \in 2..(1 + k) : j - 1 \in 1..k /\ C[j] = B[j - 1]
  BY <1>3, <1>4, <1>5
<1>7. \A j \in 1..(1 + k) : j = 1 \/ j \in 2..(1 + k)
  BY <1>3
<1>8. \A j \in 1..(1 + k) : C[j] \in L
  BY <1>3, <1>6, <1>7
<1>9. \A j \in 1..k : Before(R[p], R[B[j]])
  <2> TAKE j \in 1..k
  <2>1. CASE j = 1
    BY <1>2, <1>3, <2>1
  <2>2. CASE j # 1
    <3>1. 1 < j /\ 1 \in 1..k
      BY <1>3, <2>2
    <3>2. Before(R[n], R[B[j]])
      BY <1>3, <3>1
    <3>3. B[j] \in Ahead(L, R, n) /\ B[j] \in L
      BY <1>3, <3>2 DEF Ahead
    <3>4. B[j] \in Ahead(L, R, p)
      BY <1>2, <3>3
    <3> QED BY <3>4 DEF Ahead
  <2> QED BY <2>1, <2>2
<1>10. \A i, j \in 1..(1 + k) : i < j => Before(R[C[i]], R[C[j]])
  <2> TAKE i, j \in 1..(1 + k)
  <2> HAVE i < j
  <2>0. k \in Nat /\ i \in 1..(1 + k) /\ j \in 1..(1 + k) /\ i < j
    BY <1>3
  <2>4. j \in 2..(1 + k)
    BY ONLY <2>0
  <2>1. j \in 2..(1 + k) /\ j - 1 \in 1..k /\ C[j] = B[j - 1]
    BY <1>6, <2>4
  <2>2. CASE i = 1
    BY <1>6, <1>9, <2>1, <2>2
  <2>3. CASE i # 1
    <3>1. i \in 2..(1 + k) /\ i - 1 < j - 1
      BY <1>3, <2>3
    <3>2. i - 1 \in 1..k /\ C[i] = B[i - 1]
      BY <1>6, <3>1
    <3> QED BY <1>3, <2>1, <3>1, <3>2
  <2> QED BY <2>2, <2>3
<1>11. \A q \in Ahead(L, R, p) : \E i \in 1..(1 + k) : C[i] = q
  <2> TAKE q \in Ahead(L, R, p)
  <2>1. \E i \in 1..k : B[i] = q
    <3>1. q \in L
      BY DEF Ahead
    <3>2. CASE q = n
      <4>1. 1 \in 1..k
        BY <1>3
      <4> QED BY <1>3, <3>2, <4>1
    <3>3. CASE q # n
      BY <1>2, <1>3, <3>1, <3>3
    <3> QED BY <3>2, <3>3
  <2>2. PICK i \in 1..k : B[i] = q
    BY <2>1
  <2>3. i + 1 \in 2..(1 + k) /\ (i + 1) - 1 = i /\ i + 1 \in 1..(1 + k)
    BY <1>3
  <2> QED BY <1>6, <2>2, <2>3
<1>12. Len(C) \in Nat /\ Len(C) >= 1
  BY <1>3, <1>5
<1> QED BY <1>5, <1>6, <1>8, <1>10, <1>11, <1>12 DEF Line, InOrder

LEMMA AlongIsLine ==
  ASSUME NEW L, L \in SUBSET PageIDs, NEW N, NEW R, Chained(L, N, R), NoPage \notin L,
         NEW f, Along(L, N, f), NEW p \in L
  PROVE  Line(L, R, p, f[p])
<1> DEFINE T == {i \in Nat : \A q \in L : Cardinality(Ahead(L, R, q)) = i => Line(L, R, q, f[q])}
<1>1. \A q \in L : q \in PageIDs /\ f[q] = IF N[q] # NoPage THEN <<q>> \o f[N[q]] ELSE <<q>>
  BY DEF Along
<1>2. \A q \in PageIDs : IsFiniteSet(Ahead(L, R, q)) /\ Cardinality(Ahead(L, R, q)) \in Nat
  <2> TAKE q \in PageIDs
  <2>1. Ahead(L, R, q) \in SUBSET PageIDs
    BY DEF Ahead
  <2>2. IsFiniteSet(Ahead(L, R, q))
    BY <2>1, FS_Subset, BTreeAssumption
  <2> QED BY <2>2, FS_CardinalityType
<1>3. \A q \in L : N[q] # NoPage => N[q] \in L /\ Cardinality(Ahead(L, R, q)) = Cardinality(Ahead(L, R, N[q])) + 1
  <2> SUFFICES ASSUME NEW q \in L, N[q] # NoPage
               PROVE  N[q] \in L /\ Cardinality(Ahead(L, R, q)) = Cardinality(Ahead(L, R, N[q])) + 1
    OBVIOUS
  <2>1. PICK n, A, B : n = N[q] /\ A = Ahead(L, R, q) /\ B = Ahead(L, R, n)
    OBVIOUS
  <2>2. /\ n \in L /\ n \in A /\ n \notin B
        /\ \A r \in L : r \in A <=> r = n \/ r \in B
    BY <2>1, ChainShortens DEF Ahead
  <2>3. A \in SUBSET L /\ B \in SUBSET L
    BY <2>1 DEF Ahead
  <2>4. B = A \ {n} /\ IsFiniteSet(A) /\ Cardinality(A) \in Nat
    BY <1>1, <1>2, <2>1, <2>2, <2>3
  <2>5. Cardinality(B) = Cardinality(A) - 1
    BY <2>2, <2>4, FS_RemoveElement
  <2> QED BY <2>1, <2>2, <2>4, <2>5
<1>4. 0 \in T
  <2> SUFFICES ASSUME NEW q \in L, Cardinality(Ahead(L, R, q)) = 0 PROVE Line(L, R, q, f[q])
    OBVIOUS
  <2>1. N[q] = NoPage
    <3> SUFFICES ASSUME N[q] # NoPage PROVE FALSE
      OBVIOUS
    <3>1. PICK k : k = Cardinality(Ahead(L, R, N[q]))
      OBVIOUS
    <3>2. k \in Nat /\ 0 = k + 1
      BY <1>1, <1>2, <1>3, <3>1
    <3> QED BY <3>2
  <2>2. f[q] = <<q>>
    BY <1>1, <2>1
  <2> QED BY <2>1, <2>2, LineOfOne
<1>5. ASSUME NEW i \in Nat, i \in T PROVE i + 1 \in T
  <2> SUFFICES ASSUME NEW q \in L, Cardinality(Ahead(L, R, q)) = i + 1 PROVE Line(L, R, q, f[q])
    OBVIOUS
  <2>1. CASE N[q] = NoPage
    <3>1. f[q] = <<q>>
      BY <1>1, <2>1
    <3> QED BY <2>1, <3>1, LineOfOne
  <2>2. CASE N[q] # NoPage
    <3>1. PICK k : k = Cardinality(Ahead(L, R, N[q]))
      OBVIOUS
    <3>2. N[q] \in L /\ k \in Nat /\ i + 1 = k + 1
      BY <1>1, <1>2, <1>3, <2>2, <3>1
    <3>3. k = i
      BY <3>2
    <3>4. Line(L, R, N[q], f[N[q]])
      BY <1>5, <3>1, <3>2, <3>3
    <3>5. PICK B, C : B = f[N[q]] /\ C = f[q]
      OBVIOUS
    <3>6. Line(L, R, N[q], B) /\ C = <<q>> \o B
      BY <1>1, <2>2, <3>4, <3>5
    <3>7. Line(L, R, q, C)
      BY <2>2, <3>6, LineOfMore
    <3> QED BY <3>5, <3>7
  <2> QED BY <2>1, <2>2
<1> HIDE DEF T
<1>6. \A i \in Nat : i \in T
  BY <1>4, <1>5, Induction
<1>7. Cardinality(Ahead(L, R, p)) \in T
  BY <1>1, <1>2, <1>6
<1> QED BY <1>7 DEF T

-----------------------------------------------------------------------------
\* The way down, from each page to one of its children.

Downwards(next) ==
  \A p \in PageIDs : IsInternal(p) => \E j \in 1..Len(Kids(p)) : next[p] = Kids(p)[j]
Ways(next, f) == \A p \in PageIDs : f[p] = IF IsInternal(p) THEN f[next[p]] ELSE p

LEMMA ChildIsLower ==
  ASSUME Pages, NEW h, NEW up, NEW place, Structure(h, up, place), NEW next, Downwards(next),
         NEW p \in PageIDs, IsInternal(p)
  PROVE  next[p] \in PageIDs /\ Used(next[p]) /\ h[p] = h[next[p]] + 1
<1>1. PICK j \in 1..Len(Kids(p)) : next[p] = Kids(p)[j]
  BY DEF Downwards
<1>2. Kids(p) \in Seq(PageIDs)
  BY Kinds DEF Pages
<1>3. next[p] \in PageIDs
  BY <1>1, <1>2, ElementOfSeq
<1> QED BY <1>1, <1>3 DEF Structure, Tree, Holds

LEMMA WayExists ==
  ASSUME Pages, NEW h, NEW up, NEW place, Structure(h, up, place), NEW next, Downwards(next)
  PROVE  \E f \in [PageIDs -> PageIDs] : Ways(next, f)
<1> DEFINE inner == {p \in PageIDs : IsInternal(p)}
           G == [p \in PageIDs |-> [v \in PageIDs |-> v]]
           base == [p \in PageIDs |-> p]
<1>1. h \in [PageIDs -> Nat]
  BY DEF Structure, Witnesses
<1>2. \A p \in inner : next[p] \in PageIDs /\ h[next[p]] < h[p]
  <2> TAKE p \in inner
  <2>1. next[p] \in PageIDs /\ h[p] = h[next[p]] + 1
    BY ChildIsLower
  <2>2. h[next[p]] \in Nat
    BY <2>1 DEF Structure, Witnesses
  <2> QED BY <2>1, <2>2
<1>3. CASE PageIDs = {}
  <2>1. [p \in PageIDs |-> p] \in [PageIDs -> PageIDs]
    OBVIOUS
  <2> QED BY <1>3, <2>1 DEF Ways
<1>4. CASE PageIDs # {}
  <2>1. /\ inner \in SUBSET PageIDs /\ IsFiniteSet(PageIDs) /\ h \in [PageIDs -> Nat]
        /\ \A p \in PageIDs : p \in inner <=> IsInternal(p)
        /\ \A p \in PageIDs : base[p] = p
        /\ \A p \in PageIDs : \A v \in PageIDs : G[p][v] = v
    BY BTreeAssumption DEF Structure, Witnesses
  <2> HIDE DEF inner, G, base
  <2>2. Walks(PageIDs, PageIDs, h, inner, next, G, base)
    BY <1>2, <1>4, <2>1 DEF Walks
  <2>3. PICK f \in [PageIDs -> PageIDs] : \A p \in PageIDs : f[p] = IF p \in inner THEN G[p][f[next[p]]] ELSE base[p]
    BY ONLY <2>2, Walk
  <2>4. \A p \in PageIDs : f[p] = IF IsInternal(p) THEN f[next[p]] ELSE p
    <3> TAKE p \in PageIDs
    <3>1. CASE p \in inner
      <4>1. next[p] \in PageIDs
        BY <1>2, <3>1
      <4>2. f[next[p]] \in PageIDs
        BY <4>1
      <4> QED BY <2>1, <2>3, <3>1, <4>2
    <3>2. CASE p \notin inner
      BY <2>1, <2>3, <3>2
    <3> QED BY <3>1, <3>2
  <2> QED BY <2>4 DEF Ways
<1> QED BY <1>3, <1>4

\* A way through pages of P ends in a leaf of P.
LEMMA WayEnds ==
  ASSUME Pages, NEW h, NEW up, NEW place, Structure(h, up, place), NEW next, Downwards(next),
         NEW f, Ways(next, f),
         NEW P \in SUBSET PageIDs, \A p \in P : Used(p) /\ (IsInternal(p) => next[p] \in P)
  PROVE  \A p \in P : f[p] \in P /\ IsLeaf(f[p])
<1> DEFINE T == {i \in Nat : \A p \in P : h[p] = i => f[p] \in P /\ IsLeaf(f[p])}
<1>1. \A p \in P : /\ p \in PageIDs /\ h[p] \in Nat
                   /\ IsInternal(p) => next[p] \in P /\ h[p] = h[next[p]] + 1 /\ f[p] = f[next[p]]
                   /\ ~IsInternal(p) => IsLeaf(p) /\ f[p] = p
  <2> TAKE p \in P
  <2>1. p \in PageIDs /\ h[p] \in Nat
    BY DEF Structure, Witnesses
  <2>2. IsInternal(p) => next[p] \in P /\ h[p] = h[next[p]] + 1 /\ f[p] = f[next[p]]
    BY <2>1, ChildIsLower DEF Ways
  <2>3. ~IsInternal(p) => IsLeaf(p) /\ f[p] = p
    BY <2>1 DEF Ways, Used
  <2> QED BY <2>1, <2>2, <2>3
<1>2. 0 \in T
  <2> SUFFICES ASSUME NEW p \in P, h[p] = 0 PROVE f[p] \in P /\ IsLeaf(f[p])
    OBVIOUS
  <2>1. ~IsInternal(p)
    <3> SUFFICES ASSUME IsInternal(p) PROVE FALSE
      OBVIOUS
    <3>1. PICK k : k = h[next[p]]
      OBVIOUS
    <3>2. k \in Nat /\ 0 = k + 1
      BY <1>1, <3>1
    <3> QED BY <3>2
  <2> QED BY <1>1, <2>1
<1>3. ASSUME NEW i \in Nat, i \in T PROVE i + 1 \in T
  <2> SUFFICES ASSUME NEW p \in P, h[p] = i + 1 PROVE f[p] \in P /\ IsLeaf(f[p])
    OBVIOUS
  <2>1. CASE ~IsInternal(p)
    BY <1>1, <2>1
  <2>2. CASE IsInternal(p)
    <3>1. PICK k : k = h[next[p]]
      OBVIOUS
    <3>2. next[p] \in P /\ k \in Nat /\ i + 1 = k + 1
      BY <1>1, <2>2, <3>1
    <3>3. k = i
      BY <3>2
    <3> QED BY <1>1, <1>3, <2>2, <3>1, <3>2, <3>3
  <2> QED BY <2>1, <2>2
<1> HIDE DEF T
<1>4. \A i \in Nat : i \in T
  BY <1>2, <1>3, Induction
<1> TAKE p \in P
<1>5. h[p] \in T
  BY <1>1, <1>4
<1> QED BY <1>5 DEF T

\* The first child's part is at the bottom if its parent's is.
LEMMA FirstPart ==
  ASSUME NEW ks, NEW cs, NEW S, NEW Q, Node(ks, cs, S, Q), Bottom(S)
  PROVE  Bottom(Q[cs[1]])
<1>1. PICK n : n = Len(ks)
  OBVIOUS
<1>2. NodeIs(ks, cs, S, Q, n)
  BY <1>1, NodeFacts
<1>3. /\ n \in Nat /\ \A k : k \in Q[cs[1]] <=> k \in S /\ (1 = n + 1 \/ k < ks[1])
      /\ S \in SUBSET Int /\ \A i \in 1..n : ks[i] \in Int
  <2>1. n \in Nat /\ S \in SUBSET Int /\ \A i \in 1..n : ks[i] \in Int
    BY <1>2 DEF NodeIs
  <2>2. 1 \in 1..(n + 1)
    BY <2>1
  <2> QED BY <1>2, <2>1, <2>2 DEF NodeIs
<1> SUFFICES ASSUME NEW x \in Q[cs[1]], NEW k \in Int, k <= x PROVE k \in Q[cs[1]]
  BY DEF Bottom
<1>4. x \in S /\ x \in Int /\ (1 = n + 1 \/ x < ks[1])
  BY <1>3
<1>5. k \in S
  BY <1>4 DEF Bottom
<1>6. CASE 1 = n + 1
  BY <1>3, <1>5, <1>6
<1>7. CASE 1 # n + 1
  <2>1. 1 \in 1..n
    BY <1>3, <1>7
  <2>2. ks[1] \in Int /\ x < ks[1]
    BY <1>3, <1>4, <1>7, <2>1
  <2>3. k < ks[1]
    BY <1>4, <2>2
  <2> QED BY <1>3, <1>5, <2>3
<1> QED BY <1>6, <1>7

LEMMA BottomOf ==
  ASSUME NEW R, NEW Q, Cleft(R, Q), NEW p \in PageIDs, Bottom(Q[p])
  PROVE  Bottom(R[p])
<1>1. CASE Splitting /\ p = cur
  <2>1. R[p] = Below(Q[p], report.boundary_key) /\ Q[p] \in SUBSET Int /\ report.boundary_key \in Keys
    BY <1>1 DEF Cleft
  <2>2. report.boundary_key \in Int
    BY <2>1, Limits
  <2>3. PICK S, b : S = Q[p] /\ b = report.boundary_key
    OBVIOUS
  <2> SUFFICES ASSUME NEW x \in Below(S, b), NEW k \in Int, k <= x PROVE k \in Below(S, b)
    BY <2>1, <2>3 DEF Bottom
  <2>4. x \in S /\ x \in Int /\ x < b /\ b \in Int
    BY <2>1, <2>2, <2>3 DEF Below
  <2>5. k \in S
    BY <2>3, <2>4 DEF Bottom
  <2>6. k < b
    BY <2>4
  <2> QED BY <2>5, <2>6 DEF Below
<1>2. CASE ~(Splitting /\ p = cur)
  BY <1>2 DEF Cleft
<1> QED BY <1>1, <1>2

\* The leftmost leaf has the lowest keys.
LEMMA LeftmostIs ==
  ASSUME BInv, NEW R, NEW Q, Ordered(R, Q), Cleft(R, Q)
  PROVE  LeftmostLeaf \in PageIDs /\ IsLeaf(LeftmostLeaf) /\ Bottom(R[LeftmostLeaf])
<1>1. PICK h, up, place : Structure(h, up, place)
  BY DEF BInv
<1>2. Pages /\ Tree(h, up, place) /\ root \in PageIDs /\ Used(root)
  BY <1>1 DEF BInv, Control, Structure
<1>3. PICK next : next = [p \in PageIDs |-> pages[p].children[1]]
  OBVIOUS
<1>4. \A p \in PageIDs : next[p] = pages[p].children[1]
  BY <1>3
<1>5. Downwards(next)
  <2> SUFFICES ASSUME NEW p \in PageIDs, IsInternal(p) PROVE \E j \in 1..Len(Kids(p)) : next[p] = Kids(p)[j]
    BY DEF Downwards
  <2>1. Width(p) \in Nat /\ Len(Kids(p)) = Width(p) + 1
    BY <1>2, Kinds DEF Pages
  <2>2. 1 \in 1..Len(Kids(p))
    BY <2>1
  <2> QED BY <1>4, <2>2 DEF Kids
<1> DEFINE body(f) == [p \in PageIDs |-> IF IsInternal(p) THEN f[pages[p].children[1]] ELSE p]
           down == CHOOSE f : f = body(f)
<1>6. LeftmostLeaf = down[root]
  BY DEF LeftmostLeaf
<1>7. \E f : f = body(f)
  <2>1. PICK f \in [PageIDs -> PageIDs] : Ways(next, f)
    BY <1>1, <1>2, <1>5, WayExists
  <2>2. \A p \in PageIDs : f[p] = IF IsInternal(p) THEN f[pages[p].children[1]] ELSE p
    BY <1>4, <2>1 DEF Ways
  <2>3. f = [p \in PageIDs |-> f[p]]
    OBVIOUS
  <2>4. f = body(f)
    BY <2>2, <2>3
  <2> QED BY <2>4
<1>8. down = body(down)
  BY <1>7
<1> HIDE DEF down
<1>9. Ways(next, down)
  BY <1>4, <1>8 DEF Ways
<1>10. PICK P : P = {p \in PageIDs : Used(p) /\ Bottom(R[p])}
  OBVIOUS
<1>11. \A p \in P : Used(p) /\ (IsInternal(p) => next[p] \in P)
  <2> TAKE p \in P
  <2>1. p \in PageIDs /\ Used(p) /\ Bottom(R[p])
    BY <1>10
  <2>2. ASSUME IsInternal(p) PROVE next[p] \in P
    <3>1. next[p] \in PageIDs /\ Used(next[p])
      BY <1>1, <1>2, <1>5, <2>1, <2>2, ChildIsLower
    <3>2. Node(pages[p].keys, Kids(p), R[p], Q)
      BY <2>1, <2>2 DEF Ordered, NodeOrder
    <3>3. Bottom(Q[Kids(p)[1]])
      BY <2>1, <3>2, FirstPart
    <3>4. Bottom(Q[next[p]])
      BY <1>4, <2>1, <3>3 DEF Kids
    <3>5. Bottom(R[next[p]])
      BY <3>1, <3>4, BottomOf
    <3> QED BY <1>10, <3>1, <3>5
  <2> QED BY <2>1, <2>2
<1>12. root \in P
  <2>1. Q[root] = Int
    BY DEF Ordered
  <2>2. Bottom(Q[root])
    BY <2>1 DEF Bottom
  <2> QED BY <1>2, <1>10, <2>2, BottomOf
<1>13. P \in SUBSET PageIDs
  BY <1>10
<1>14. down[root] \in P /\ IsLeaf(down[root])
  BY <1>1, <1>2, <1>5, <1>9, <1>11, <1>12, <1>13, WayEnds
<1> QED BY <1>6, <1>10, <1>14

-----------------------------------------------------------------------------
\* The chain, and the tuples along it.

\* C are all leaves, in order.
LinedUp(L, R, C) ==
  /\ C \in Seq(PageIDs) /\ Len(C) \in Nat /\ Len(C) >= 1
  /\ \A i \in 1..Len(C) : C[i] \in L
  /\ InOrder(R, C)
  /\ \A q \in L : \E i \in 1..Len(C) : C[i] = q

LEMMA LeavesChained ==
  ASSUME NEW R, NEW Q, Ordered(R, Q)
  PROVE  Leaves \in SUBSET PageIDs /\ NoPage \notin Leaves /\ Chained(Leaves, Right, R)
  BY BTreeAssumption DEF Leaves, Ordered

LEMMA ChainIs ==
  ASSUME BInv, NEW R, NEW Q, Ordered(R, Q), Cleft(R, Q)
  PROVE  LinedUp(Leaves, R, Chain)
<1>1. Leaves \in SUBSET PageIDs /\ NoPage \notin Leaves /\ Chained(Leaves, Right, R)
  BY LeavesChained
<1> DEFINE body(f) == [p \in PageIDs |-> IF IsLeaf(p) /\ pages[p].right_pid # NoPage
                                         THEN <<p>> \o f[pages[p].right_pid] ELSE <<p>>]
           along == CHOOSE f : f = body(f)
<1>2. Chain = along[LeftmostLeaf]
  BY DEF Chain
<1>3. \A p \in PageIDs : p \in Leaves <=> IsLeaf(p)
  BY DEF Leaves
<1>4. \A p \in PageIDs : Right[p] = pages[p].right_pid
  BY DEF Right
<1>5. \E f : f = body(f)
  <2>1. PICK f \in [PageIDs -> Seq(PageIDs)] : Along(Leaves, Right, f)
    BY <1>1, AlongExists
  <2>2. \A p \in PageIDs : f[p] = IF IsLeaf(p) /\ pages[p].right_pid # NoPage
                                  THEN <<p>> \o f[pages[p].right_pid] ELSE <<p>>
    BY <1>3, <1>4, <2>1 DEF Along
  <2>3. f = [p \in PageIDs |-> f[p]]
    OBVIOUS
  <2>4. f = body(f)
    BY <2>2, <2>3, Zenon
  <2> QED BY <2>4
<1>6. along = body(along)
  BY <1>5, Zenon
<1> HIDE DEF along
<1>7. Along(Leaves, Right, along)
  BY <1>3, <1>4, <1>6 DEF Along
<1>8. PICK first : first = LeftmostLeaf
  OBVIOUS
<1>9. first \in Leaves /\ Bottom(R[first])
  BY <1>8, LeftmostIs DEF Leaves
<1>10. PICK C : C = along[first]
  OBVIOUS
<1>11. Line(Leaves, R, first, C)
  BY <1>1, <1>7, <1>9, <1>10, AlongIsLine
<1>12. \A q \in Leaves : q = first \/ q \in Ahead(Leaves, R, first)
  <2> SUFFICES ASSUME NEW q \in Leaves, q # first PROVE Before(R[first], R[q])
    BY DEF Ahead
  <2>1. PICK S, T : S = R[first] /\ T = R[q]
    OBVIOUS
  <2>2. /\ S \in SUBSET Int /\ T \in SUBSET Int /\ S # {} /\ T # {} /\ Convex(S) /\ Convex(T)
        /\ S \cap T = {} /\ Bottom(S)
    BY <1>1, <1>9, <2>1 DEF Chained
  <2>3. ~Before(T, S)
    <3> SUFFICES ASSUME Before(T, S) PROVE FALSE
      OBVIOUS
    <3>1. PICK x \in S, y \in T : x \in Int /\ y \in Int
      BY <2>2
    <3>2. y < x
      BY <3>1 DEF Before
    <3>3. y \in S
      BY <2>2, <3>1, <3>2 DEF Bottom
    <3> QED BY <2>2, <3>1, <3>3
  <2>4. Before(S, T)
    BY <2>2, <2>3, Apart
  <2> QED BY <2>1, <2>4
<1>13. /\ C \in Seq(PageIDs) /\ Len(C) \in Nat /\ Len(C) >= 1 /\ C[1] = first
       /\ \A i \in 1..Len(C) : C[i] \in Leaves
       /\ InOrder(R, C)
       /\ \A q \in Ahead(Leaves, R, first) : \E i \in 1..Len(C) : C[i] = q
  BY <1>11 DEF Line
<1>14. \A q \in Leaves : \E i \in 1..Len(C) : C[i] = q
  <2> TAKE q \in Leaves
  <2>1. 1 \in 1..Len(C)
    BY <1>13
  <2> QED BY <1>12, <1>13, <2>1
<1>15. LinedUp(Leaves, R, C)
  BY <1>13, <1>14 DEF LinedUp
<1> QED BY <1>2, <1>8, <1>10, <1>15

\* The keys of the first i leaves of C.
Upto(R, C, i) == {k \in Int : \E j \in 1..i : k \in R[C[j]]}

LEMMA TuplesAlong ==
  ASSUME NEW R, NEW Q, Ordered(R, Q), NEW C, LinedUp(Leaves, R, C),
         NEW all, all = FlattenSeq([n \in DOMAIN C |-> pages[C[n]].tuples])
  PROVE  /\ Held(all, Int)
         /\ \A k : Has(all, k) <=> \E p \in Leaves : Has(pages[p].tuples, k)
         /\ \A t : In(all, t) <=> \E p \in Leaves : In(pages[p].tuples, t)
<1>1. PICK n : n = Len(C)
  OBVIOUS
<1>2. /\ C \in Seq(PageIDs) /\ n \in Nat /\ n >= 1 /\ DOMAIN C = 1..n
      /\ \A i \in 1..n : C[i] \in Leaves
      /\ \A i, j \in 1..n : i < j => Before(R[C[i]], R[C[j]])
      /\ \A q \in Leaves : \E i \in 1..n : C[i] = q
  BY <1>1, LenProperties DEF LinedUp, InOrder
<1>3. \A p \in Leaves : Held(pages[p].tuples, R[p]) /\ R[p] \in SUBSET Int /\ pages[p].tuples \in Seq(Entry)
  BY DEF Leaves, Ordered, LeafOrder, Ranges, Used, Held
<1>4. PICK seqs : seqs = [m \in DOMAIN C |-> pages[C[m]].tuples]
  OBVIOUS
<1>5. \A i \in 1..n : seqs[i] = pages[C[i]].tuples /\ seqs[i] \in Seq(Entry)
  BY <1>2, <1>3, <1>4
<1>6. seqs \in Seq(Seq(Entry)) /\ Len(seqs) = n
  <2>1. PICK V : V = Seq(Entry)
    OBVIOUS
  <2>2. seqs = [i \in 1..n |-> seqs[i]] /\ \A i \in 1..n : seqs[i] \in V
    BY <1>2, <1>4, <1>5, <2>1
  <2>3. seqs \in [1..n -> V]
    BY <2>2
  <2>4. seqs \in Seq(V) /\ Len(seqs) = n
    BY <1>2, <2>3
  <2> QED BY <2>1, <2>4
<1>7. PICK f : Flattens(seqs, Entry, n, f)
  <2>1. Len(seqs) # 0
    BY <1>2, <1>6
  <2>2. \E f : Flattens(seqs, Entry, Len(seqs), f)
    BY <1>6, <2>1, FlattenSteps
  <2> QED BY <1>6, <2>2
<1>8. /\ f[1] = seqs[1] /\ all = f[n]
      /\ \A i \in 2..n : i \in 1..n /\ i - 1 \in 1..n /\ f[i] = f[i - 1] \o seqs[i]
  BY <1>4, <1>7 DEF Flattens
<1> DEFINE Good(i) == /\ Held(f[i], Upto(R, C, i))
                      /\ \A t : In(f[i], t) <=> \E j \in 1..i : In(seqs[j], t)
           T == {i \in Nat : i + 1 \in 1..n => Good(i + 1)}
<1>9. 0 \in T
  <2>1. 1 \in 1..n /\ f[1] = seqs[1] /\ seqs[1] = pages[C[1]].tuples /\ C[1] \in Leaves
    BY <1>2, <1>5, <1>8
  <2>2. Held(f[1], R[C[1]]) /\ R[C[1]] \in SUBSET Int
    BY <1>3, <2>1
  <2>3. R[C[1]] \subseteq Upto(R, C, 1)
    BY <2>2 DEF Upto
  <2>4. Held(f[1], Upto(R, C, 1))
    BY <2>2, <2>3, HeldMore
  <2>5. \A t : In(f[1], t) <=> \E j \in 1..1 : In(seqs[j], t)
    <3>1. \A j : j \in 1..1 <=> j = 1
      OBVIOUS
    <3> QED BY <2>1, <3>1
  <2> QED BY <2>4, <2>5
<1>10. ASSUME NEW i \in Nat, i \in T PROVE i + 1 \in T
  <2> SUFFICES ASSUME (i + 1) + 1 \in 1..n PROVE Good((i + 1) + 1)
    OBVIOUS
  <2>1. i + 1 \in 1..n /\ (i + 1) + 1 \in 2..n /\ ((i + 1) + 1) - 1 = i + 1
    BY <1>2
  <2>2. Good(i + 1)
    BY <1>10, <2>1
  <2> HIDE DEF T, Good
  <2>3. PICK m, u, s, g : m = i + 1 /\ u = (i + 1) + 1 /\ s = f[i + 1] /\ g = seqs[(i + 1) + 1]
    OBVIOUS
  <2>4. m \in 1..n /\ u \in 2..n /\ u \in 1..n /\ m \in Nat /\ u = m + 1 /\ m < u
    BY <1>2, <2>1, <2>3
  <2>5. f[u] = s \o g
    BY <1>8, <2>1, <2>3
  <2>6. PICK A, B : A = Upto(R, C, m) /\ B = R[C[u]]
    OBVIOUS
  <2>7. Held(s, A) /\ \A t : In(s, t) <=> \E j \in 1..m : In(seqs[j], t)
    BY <2>2, <2>3, <2>6 DEF Good
  <2>8. Held(g, B) /\ B \in SUBSET Int
    <3>1. g = pages[C[u]].tuples /\ C[u] \in Leaves
      BY <1>2, <1>5, <2>3, <2>4
    <3> QED BY <1>3, <2>6, <3>1
  <2>9. \A j \in 1..m : j \in 1..n /\ j < u
    BY <2>4, <1>2
  <2>10. Before(A, B)
    <3> SUFFICES ASSUME NEW x \in A, NEW y \in B PROVE x < y
      BY DEF Before
    <3>1. PICK j \in 1..m : x \in R[C[j]]
      BY <2>6 DEF Upto
    <3>2. Before(R[C[j]], R[C[u]])
      BY <1>2, <2>4, <2>9
    <3> QED BY <2>6, <3>1, <3>2 DEF Before
  <2>11. PICK w, S : w = s \o g /\ S = A \cup B
    OBVIOUS
  <2>12. Held(w, S) /\ \A t : In(w, t) <=> In(s, t) \/ In(g, t)
    <3>1. Held(s \o g, A \cup B)
      BY ONLY <2>7, <2>8, <2>10, HeldJoin
    <3>2. s \in Seq(Entry) /\ g \in Seq(Entry) /\ w = s \o g
      BY <2>7, <2>8, <2>11, HeldFacts
    <3>3. \A t : In(w, t) <=> In(s, t) \/ In(g, t)
      BY ONLY <3>2, InJoin
    <3> QED BY <2>11, <3>1, <3>3
  <2>13. \A j : j \in 1..u <=> j \in 1..m \/ j = u
    BY ONLY <2>4
  <2>14. S \subseteq Upto(R, C, u)
    BY <2>6, <2>8, <2>11, <2>13 DEF Upto
  <2>15. Held(w, Upto(R, C, u))
    BY <2>12, <2>14, HeldMore
  <2>16. \A t : In(w, t) <=> \E j \in 1..u : In(seqs[j], t)
    <3>1. g = seqs[u]
      BY <2>3
    <3> QED BY <2>7, <2>12, <2>13, <3>1
  <2> QED BY <2>3, <2>5, <2>11, <2>15, <2>16 DEF Good
<1> HIDE DEF T
<1>11. \A i \in Nat : i \in T
  BY <1>9, <1>10, Induction
<1>12. Good(n)
  <2>1. n - 1 \in Nat /\ (n - 1) + 1 = n /\ n \in 1..n
    BY <1>2
  <2>2. n - 1 \in T
    BY <1>11, <2>1
  <2> HIDE DEF Good
  <2>3. Good((n - 1) + 1)
    BY <2>1, <2>2 DEF T
  <2> QED BY <2>1, <2>3
<1>13. Held(all, Int)
  <2>1. Upto(R, C, n) \subseteq Int
    BY DEF Upto
  <2> QED BY <1>8, <1>12, <2>1, HeldMore
<1>14. \A t : In(all, t) <=> \E p \in Leaves : In(pages[p].tuples, t)
  BY <1>2, <1>5, <1>8, <1>12
<1>15. \A ts, k : Has(ts, k) <=> \E t : In(ts, t) /\ t.key = k
  BY DEF Has, In
<1>16. \A k : Has(all, k) <=> \E p \in Leaves : Has(pages[p].tuples, k)
  BY <1>14, <1>15
<1> QED BY <1>13, <1>14, <1>16

LEMMA TuplesStored ==
  ASSUME BInv, NEW R, NEW Q, Ordered(R, Q), Cleft(R, Q)
  PROVE  /\ Held(AllTuples, Int) /\ \A k : k \notin StoredKeys => Missing(k)
         /\ \A k : k \in StoredKeys <=> Has(AllTuples, k)
         /\ \A t : In(AllTuples, t) <=> \E p \in Leaves : In(pages[p].tuples, t)
<1>1. PICK C, all : C = Chain /\ all = FlattenSeq([n \in DOMAIN C |-> pages[C[n]].tuples])
  OBVIOUS
<1>2. LinedUp(Leaves, R, C)
  BY <1>1, ChainIs
<1>3. /\ Held(all, Int) /\ \A k : Has(all, k) <=> \E p \in Leaves : Has(pages[p].tuples, k)
      /\ \A t : In(all, t) <=> \E p \in Leaves : In(pages[p].tuples, t)
  BY <1>1, <1>2, TuplesAlong
<1>4. all = AllTuples
  BY <1>1 DEF AllTuples
<1>5. \A k : k \in StoredKeys <=> Has(all, k)
  <2>1. Len(all) \in Nat /\ DOMAIN all = 1..Len(all)
    BY <1>3, HeldFacts
  <2> QED BY <1>4, <2>1 DEF StoredKeys, ToSet, Has
<1> QED BY <1>3, <1>4, <1>5 DEF Missing, Leaves

-----------------------------------------------------------------------------
\* The order of the tree is kept.

LEMMA InitOrders == ASSUME Init PROVE OInv
<1>1. PICK r \in PageIDs : /\ root = r
                           /\ pages = [q \in PageIDs |-> IF q = r THEN Leaf(<<>>, NoPage, NoPage) ELSE Free]
  BY DEF Init
<1>2. pc = "idle" /\ request = NoRequest /\ report = NoReport
  BY DEF Init
<1>3. PICK l : l = Leaf(<<>>, NoPage, NoPage)
  OBVIOUS
<1>4. /\ l.type = "leaf" /\ l.tuples = <<>> /\ l.left_pid = NoPage /\ l.right_pid = NoPage
      /\ Free.type = "free"
  BY <1>3, Shapes
<1>5. \A p \in PageIDs : /\ p = r => pages[p] = l
                         /\ p # r => pages[p] = Free
  BY <1>1, <1>3
<1>6. \A p \in PageIDs : /\ IsLeaf(p) <=> p = r
                         /\ ~IsInternal(p)
  BY <1>4, <1>5 DEF IsLeaf, IsInternal
<1>7. PICK R : R = [q \in PageIDs |-> Int]
  OBVIOUS
<1>8. \A p \in PageIDs : R[p] = Int
  BY <1>7
<1>9. Ranges(R)
  BY <1>8 DEF Ranges, Convex
<1>10. \A p \in PageIDs : LeafOrder(p, R)
  <2>1. Held(<<>>, Int)
    <3>1. Len(<<>>) = 0 /\ <<>> \in Seq(Entry)
      OBVIOUS
    <3> QED BY <3>1 DEF Held, Ascends, Within
  <2>2. Space(<<>>) <= LEAF_SPACE
    BY SpaceEmpty, Limits
  <2> QED BY <1>4, <1>5, <1>6, <1>8, <2>1, <2>2 DEF LeafOrder
<1>11. \A p \in PageIDs : NodeOrder(p, R, R)
  BY <1>6 DEF NodeOrder
<1>12. Chained(Leaves, Right, R)
  <2>1. Leaves = {r}
    BY <1>6 DEF Leaves
  <2>2. Right[r] = NoPage
    BY <1>4, <1>5 DEF Right
  <2>3. Top(Int) /\ Convex(Int)
    BY DEF Top, Convex
  <2>4. R[r] = Int
    BY <1>8
  <2> QED BY <2>1, <2>2, <2>3, <2>4 DEF Chained
<1>13. Ordered(R, R)
  BY <1>1, <1>8, <1>9, <1>10, <1>11, <1>12 DEF Ordered
<1>14. Cleft(R, R)
  BY <1>2 DEF Cleft, Splitting
<1>15. Aimed(R)
  BY <1>2 DEF Aimed, Reported
<1> QED BY <1>13, <1>14, <1>15 DEF OInv

\* The tree does not have the key it is to insert.
LEMMA CallsOrder == ASSUME BInv, OInv, Calls PROVE OInv'
<1>1. PICK R, Q : Ordered(R, Q) /\ Cleft(R, Q)
  BY DEF OInv
<1>2. \A k : k \notin StoredKeys => Missing(k)
  BY <1>1, TuplesStored
<1>3. ASSUME NEW k \in Keys, NEW s \in Sizes, Call("insert", k, s) PROVE OInv'
  <2>1. Missing(k)
    BY <1>2, <1>3 DEF Call
  <2> QED BY <1>3, <2>1, CallOrders
<1>4. ASSUME NEW k \in Keys, Call("delete", k, 0) PROVE OInv'
  BY <1>4, CallOrders
<1>5. ASSUME NEW k \in Keys, Call("search", k, 0) PROVE OInv'
  BY <1>5, CallOrders
<1> QED BY <1>3, <1>4, <1>5 DEF Calls

LEMMA StutterOrders == ASSUME OInv, UNCHANGED vars PROVE OInv'
<1>1. /\ pages' = pages /\ root' = root /\ pc' = pc /\ cur' = cur /\ stack' = stack
      /\ report' = report /\ to_write_page' = to_write_page /\ request' = request
  BY DEF vars, tree, frame
<1>2. PICK R, Q : Ordered(R, Q) /\ Cleft(R, Q) /\ Aimed(R)
  BY DEF OInv
<1>3. \A p : /\ IsLeaf(p)' = IsLeaf(p) /\ IsInternal(p)' = IsInternal(p)
             /\ Used(p)' = Used(p) /\ Kids(p)' = Kids(p)
  BY <1>1 DEF IsLeaf, IsInternal, Used, Kids
<1>4. Ordered(R, Q)'
  <2>1. Ranges(R)'
    BY <1>2, <1>3 DEF Ordered, Ranges
  <2>2. \A p \in PageIDs : LeafOrder(p, R)'
    BY <1>1, <1>2, <1>3 DEF Ordered, LeafOrder
  <2>3. \A p \in PageIDs : NodeOrder(p, R, Q)'
    BY <1>1, <1>2, <1>3 DEF Ordered, NodeOrder
  <2>4. Leaves' = Leaves /\ Right' = Right
    BY <1>1, <1>3 DEF Leaves, Right
  <2>5. Chained(Leaves, Right, R)'
    BY <1>2, <2>4 DEF Ordered, Chained
  <2> QED BY <1>1, <1>2, <2>1, <2>2, <2>3, <2>5 DEF Ordered
<1>5. Cleft(R, Q)'
  BY <1>1, <1>2 DEF Cleft, Splitting
<1>6. Aimed(R)'
  <2>1. \A k : Missing(k) => Missing(k)'
    BY <1>1, MissingStays
  <2>2. Fits(to_write_page) => Fits(to_write_page)'
    BY <1>1 DEF Fits
  <2>3. Reported'
    BY <1>1, <1>2 DEF Aimed, Reported
  <2> QED BY <1>1, <1>2, <1>3, <2>1, <2>2, <2>3 DEF Aimed
<1> QED BY <1>4, <1>5, <1>6 DEF OInv

LEMMA StepOrders == ASSUME BInv, OInv, RoomToGrow, Residues = {0}, [Next]_vars PROVE OInv'
<1>1. ASSUME Calls PROVE OInv'
  BY <1>1, CallsOrder
<1>2. ASSUME Descend PROVE OInv'
  BY <1>2, DescendOrders
<1>3. ASSUME Insert PROVE OInv'
  BY <1>3, FindFitsOrders, FindSplitOrders, UnwindNoSplitOrders, UnwindInsertOrders,
     UnwindSplitOrders, NewRootOrders, WriteTupleOrders DEF Insert, FindPageToWrite
<1>4. ASSUME Search PROVE OInv'
  BY <1>4, SearchOrders
<1>5. ASSUME Delete PROVE OInv'
  BY <1>5, DeleteLeafOrders, QuietDeleteOrders, LeafLeftBorrowOrders, LeafRightBorrowOrders,
     LeafMergeOrders, RootLeafMergeOrders, InternalLeftBorrowOrders, InternalRightBorrowOrders,
     InternalMergeOrders DEF Delete, RebalanceLeaf, RebalanceInternal
<1>6. ASSUME Return PROVE OInv'
  BY <1>6, ReturnOrders
<1>7. ASSUME UNCHANGED vars PROVE OInv'
  BY <1>7, StutterOrders
<1> QED BY <1>1, <1>2, <1>3, <1>4, <1>5, <1>6, <1>7 DEF Next, Step

-----------------------------------------------------------------------------
\* Theorems.

\* The order of the tree holds throughout, also between two levels of a recursion: keys
\* and leaves divide the numbers among them, and the chain follows the leaves.
THEOREM Order == ASSUME Residues = {0} PROVE Spec /\ []RoomToGrow => [](BInv /\ OInv)
<1>1. Init => BInv /\ OInv
  BY InitShape, InitOrders
<1>2. BInv /\ OInv /\ RoomToGrow /\ [Next]_vars => BInv' /\ OInv'
  BY StepKeeps, StepOrders
<1> QED BY <1>1, <1>2, PTL DEF Spec

\* Merged leaves have room for the tuples of both, and a leaf has the room for the tuple
\* it was found for.
THEOREM LeavesHaveRoom == ASSUME Residues = {0} PROVE Spec /\ []RoomToGrow => []TuplesFit
<1>1. BInv /\ OInv => TuplesFit
  <2> SUFFICES ASSUME BInv, OInv PROVE TuplesFit
    OBVIOUS
  <2>1. PICK R, Q : Ordered(R, Q) /\ Cleft(R, Q) /\ Aimed(R)
    BY DEF OInv
  <2>2. ASSUME LeafMergeDue
        PROVE  Space(pages[toPage].tuples) + Space(pages[fromPage].tuples) <= LEAF_SPACE
    BY <2>1, <2>2, LeavesFit
  <2>3. pc = "unwind" => Fits(to_write_page)
    BY <2>1 DEF Aimed
  <2> QED BY <2>2, <2>3 DEF TuplesFit
<1> QED BY <1>1, Order, PTL

-----------------------------------------------------------------------------
\* The bottom of the tree.

\* C are leaves in order, which are for the keys of S.
Covers(L, R, S, C) ==
  /\ C \in Seq(PageIDs) /\ Len(C) \in Nat /\ Len(C) >= 1
  /\ \A i \in 1..Len(C) : C[i] \in L
  /\ InOrder(R, C)
  /\ \A k : k \in S <=> \E i \in 1..Len(C) : k \in R[C[i]]

LEMMA CoversOne ==
  ASSUME NEW L, L \in SUBSET PageIDs, NEW R, NEW p \in L, NEW C, C = <<p>>
  PROVE  Covers(L, R, R[p], C)
<1>1. C \in Seq(PageIDs) /\ Len(C) = 1 /\ C[1] = p
  OBVIOUS
<1>2. \A i : i \in 1..1 <=> i = 1
  OBVIOUS
<1>3. InOrder(R, C)
  <2>1. \A i, j \in 1..1 : ~(i < j)
    OBVIOUS
  <2> QED BY <1>1, <2>1 DEF InOrder
<1> QED BY <1>1, <1>2, <1>3 DEF Covers

LEMMA CoversJoin ==
  ASSUME NEW L, NEW R, NEW S, NEW T, NEW B, NEW C, Covers(L, R, S, B), Covers(L, R, T, C),
         Before(S, T), NEW E, E = B \o C, NEW U, U = S \cup T
  PROVE  Covers(L, R, U, E)
<1>1. PICK m, n : m = Len(B) /\ n = Len(C)
  OBVIOUS
<1>2. /\ B \in Seq(PageIDs) /\ m \in Nat /\ m >= 1 /\ \A i \in 1..m : B[i] \in L
      /\ \A i, j \in 1..m : i < j => Before(R[B[i]], R[B[j]])
      /\ \A k : k \in S <=> \E i \in 1..m : k \in R[B[i]]
  BY <1>1 DEF Covers, InOrder
<1>3. /\ C \in Seq(PageIDs) /\ n \in Nat /\ n >= 1 /\ \A i \in 1..n : C[i] \in L
      /\ \A i, j \in 1..n : i < j => Before(R[C[i]], R[C[j]])
      /\ \A k : k \in T <=> \E i \in 1..n : k \in R[C[i]]
  BY <1>1 DEF Covers, InOrder
<1>4. /\ E \in Seq(PageIDs) /\ Len(E) = m + n
      /\ \A i \in 1..m : E[i] = B[i]
      /\ \A i \in 1..n : E[m + i] = C[i]
  BY <1>1, <1>2, <1>3, JoinFacts
<1>5. \A i \in 1..(m + n) : i \in 1..m \/ (i - m \in 1..n /\ m + (i - m) = i)
  BY <1>2, <1>3
<1>6. \A i \in 1..n : m + i \in 1..(m + n)
  BY <1>2, <1>3
<1>7. \A i \in 1..m : i \in 1..(m + n)
  BY <1>2, <1>3
<1>8. \A i \in 1..(m + n) : \/ i \in 1..m /\ E[i] = B[i]
                            \/ i - m \in 1..n /\ E[i] = C[i - m]
  BY <1>4, <1>5
<1>9. \A i \in 1..(m + n) : E[i] \in L
  BY <1>2, <1>3, <1>8
<1>10. \A k : k \in U <=> \E i \in 1..(m + n) : k \in R[E[i]]
  <2> TAKE k
  <2>1. ASSUME k \in S PROVE \E i \in 1..(m + n) : k \in R[E[i]]
    <3>1. PICK i \in 1..m : k \in R[B[i]]
      BY <1>2, <2>1
    <3> QED BY <1>4, <1>7, <3>1
  <2>2. ASSUME k \in T PROVE \E i \in 1..(m + n) : k \in R[E[i]]
    <3>1. PICK i \in 1..n : k \in R[C[i]]
      BY <1>3, <2>2
    <3>2. m + i \in 1..(m + n) /\ E[m + i] = C[i]
      BY <1>4, <1>6
    <3> QED BY <3>1, <3>2
  <2>3. ASSUME NEW i \in 1..(m + n), k \in R[E[i]] PROVE k \in S \/ k \in T
    BY <1>2, <1>3, <1>8, <2>3
  <2> QED BY <2>1, <2>2, <2>3
<1>11. \A i, j \in 1..(m + n) : i < j => Before(R[E[i]], R[E[j]])
  <2> SUFFICES ASSUME NEW i \in 1..(m + n), NEW j \in 1..(m + n), i < j PROVE Before(R[E[i]], R[E[j]])
    OBVIOUS
  <2>1. CASE j \in 1..m
    <3>1. i \in 1..m
      BY <1>2, <1>3, <2>1
    <3> QED BY <1>2, <1>4, <2>1, <3>1
  <2>2. CASE j \notin 1..m /\ i \in 1..m
    <3>1. j - m \in 1..n /\ E[j] = C[j - m] /\ E[i] = B[i]
      BY <1>4, <1>8, <2>2
    <3>2. \A x \in R[E[i]] : x \in S
      BY <1>2, <2>2, <3>1
    <3>3. \A y \in R[E[j]] : y \in T
      BY <1>3, <3>1
    <3> QED BY <3>2, <3>3 DEF Before
  <2>3. CASE i \notin 1..m /\ j \notin 1..m
    <3>1. j - m \in 1..n /\ E[j] = C[j - m] /\ i - m \in 1..n /\ E[i] = C[i - m]
      BY <1>8, <2>3
    <3>2. i - m < j - m
      BY <1>2, <1>3
    <3> QED BY <1>3, <3>1, <3>2
  <2> QED BY <2>1, <2>2, <2>3
<1>12. Len(E) \in Nat /\ Len(E) >= 1
  BY <1>2, <1>3, <1>4
<1> QED BY <1>4, <1>9, <1>10, <1>11, <1>12 DEF Covers, InOrder

\* The first i parts.
PartsUpto(P, i) == {k \in Int : \E j \in 1..i : k \in P[j]}

LEMMA CoversAll ==
  ASSUME NEW L, NEW R, NEW n \in Nat, n >= 1, NEW P, NEW seqs \in Seq(Seq(PageIDs)), Len(seqs) = n,
         \A i \in 1..n : P[i] \in SUBSET Int /\ Covers(L, R, P[i], seqs[i]),
         \A i, j \in 1..n : i < j => Before(P[i], P[j]),
         NEW all, all = FlattenSeq(seqs)
  PROVE  Covers(L, R, PartsUpto(P, n), all)
<1>1. PICK f : Flattens(seqs, PageIDs, n, f)
  <2>1. Len(seqs) # 0
    OBVIOUS
  <2> QED BY <2>1, FlattenSteps
<1>2. /\ f[1] = seqs[1] /\ all = f[n]
      /\ \A i \in 2..n : i \in 1..n /\ i - 1 \in 1..n /\ f[i] = f[i - 1] \o seqs[i]
  BY <1>1 DEF Flattens
<1> DEFINE Good(i) == Covers(L, R, PartsUpto(P, i), f[i])
           T == {i \in Nat : i + 1 \in 1..n => Good(i + 1)}
<1>3. 0 \in T
  <2>1. 1 \in 1..n /\ f[1] = seqs[1]
    BY <1>2
  <2>2. \A j : j \in 1..1 <=> j = 1
    OBVIOUS
  <2>3. PartsUpto(P, 1) = P[1]
    BY <2>1, <2>2 DEF PartsUpto
  <2> QED BY <2>1, <2>3
<1>4. ASSUME NEW i \in Nat, i \in T PROVE i + 1 \in T
  <2> SUFFICES ASSUME (i + 1) + 1 \in 1..n PROVE Good((i + 1) + 1)
    OBVIOUS
  <2>1. i + 1 \in 1..n /\ (i + 1) + 1 \in 2..n /\ ((i + 1) + 1) - 1 = i + 1
    OBVIOUS
  <2>2. Good(i + 1)
    BY <1>4, <2>1
  <2> HIDE DEF T
  <2>3. PICK m, u, s, g, w : m = i + 1 /\ u = (i + 1) + 1 /\ s = f[i + 1] /\ g = seqs[(i + 1) + 1] /\ w = f[(i + 1) + 1]
    OBVIOUS
  <2>4. m \in 1..n /\ u \in 1..n /\ m \in Nat /\ u = m + 1 /\ m < u
    BY <2>1, <2>3
  <2>5. w = s \o g
    BY <1>2, <2>1, <2>3
  <2>6. PICK A, B, S : A = PartsUpto(P, m) /\ B = P[u] /\ S = A \cup B
    OBVIOUS
  <2>7. Covers(L, R, A, s)
    BY <2>2, <2>3, <2>6
  <2>8. Covers(L, R, B, g) /\ B \in SUBSET Int
    BY <2>3, <2>4, <2>6
  <2>9. \A j \in 1..m : j \in 1..n /\ j < u
    BY <2>4
  <2>10. Before(A, B)
    <3> SUFFICES ASSUME NEW x \in A, NEW y \in B PROVE x < y
      BY DEF Before
    <3>1. PICK j \in 1..m : x \in P[j]
      BY <2>6 DEF PartsUpto
    <3>2. Before(P[j], P[u])
      BY <2>4, <2>9
    <3> QED BY <2>6, <3>1, <3>2 DEF Before
  <2>11. Covers(L, R, S, w)
    BY <2>5, <2>6, <2>7, <2>8, <2>10, CoversJoin
  <2>12. \A j : j \in 1..u <=> j \in 1..m \/ j = u
    BY ONLY <2>4
  <2>13. S = PartsUpto(P, u)
    BY <2>6, <2>8, <2>12 DEF PartsUpto
  <2> QED BY <2>3, <2>11, <2>13
<1> HIDE DEF T
<1>5. \A i \in Nat : i \in T
  BY <1>3, <1>4, Induction
<1>6. n - 1 \in Nat /\ (n - 1) + 1 = n /\ n \in 1..n
  OBVIOUS
<1>7. n - 1 \in T
  BY <1>5, <1>6
<1> HIDE DEF Good
<1>8. Good((n - 1) + 1)
  BY <1>6, <1>7 DEF T
<1>9. Good(n)
  BY <1>6, <1>8
<1> QED BY <1>2, <1>9 DEF Good

-----------------------------------------------------------------------------
\* The leaves below each page.
Belows(f) ==
  \A p \in PageIDs : f[p] = IF IsInternal(p)
                            THEN FlattenSeq([n \in DOMAIN Kids(p) |-> f[Kids(p)[n]]]) ELSE <<p>>

\* A page's children, in use and one level lower.
LEMMA KidsFacts ==
  ASSUME Pages, NEW h, NEW up, NEW place, Structure(h, up, place), NEW p \in PageIDs, IsInternal(p)
  PROVE  /\ Kids(p) \in Seq(PageIDs) /\ Len(Kids(p)) \in Nat /\ Len(Kids(p)) >= 1
         /\ DOMAIN Kids(p) = 1..Len(Kids(p))
         /\ \A i \in 1..Len(Kids(p)) : /\ Kids(p)[i] \in PageIDs /\ Used(Kids(p)[i])
                                       /\ h[Kids(p)[i]] \in Nat /\ h[p] = h[Kids(p)[i]] + 1
<1>1. Kids(p) \in Seq(PageIDs) /\ Width(p) \in Nat /\ Len(Kids(p)) = Width(p) + 1
  BY Kinds DEF Pages
<1>2. Len(Kids(p)) \in Nat /\ Len(Kids(p)) >= 1 /\ DOMAIN Kids(p) = 1..Len(Kids(p))
  BY <1>1, LenProperties
<1>3. \A i \in 1..Len(Kids(p)) : Kids(p)[i] \in PageIDs
  BY <1>1, ElementOfSeq
<1>4. \A i \in 1..Len(Kids(p)) : Used(Kids(p)[i]) /\ h[p] = h[Kids(p)[i]] + 1
  BY DEF Structure, Tree, Holds
<1>5. \A q \in PageIDs : h[q] \in Nat
  BY DEF Structure, Witnesses
<1> QED BY <1>1, <1>2, <1>3, <1>4, <1>5

LEMMA FlattenIn ==
  ASSUME NEW S, NEW seqs \in Seq(Seq(S)), Len(seqs) # 0
  PROVE  FlattenSeq(seqs) \in Seq(S)
<1>1. PICK n : n = Len(seqs)
  OBVIOUS
<1>2. PICK f : Flattens(seqs, S, n, f)
  BY <1>1, FlattenSteps
<1>3. n \in Nat /\ n >= 1 /\ f \in [1..n -> Seq(S)] /\ FlattenSeq(seqs) = f[n]
  BY <1>2 DEF Flattens
<1>4. n \in 1..n
  BY <1>3
<1> QED BY <1>3, <1>4

LEMMA BelowsExist ==
  ASSUME Pages, NEW h, NEW up, NEW place, Structure(h, up, place)
  PROVE  \E f \in [PageIDs -> Seq(PageIDs)] : Belows(f)
<1>1. PICK V : V = Seq(PageIDs)
  OBVIOUS
<1> DEFINE Row2(p, f) == [n \in DOMAIN Kids(p) |-> f[Kids(p)[n]]]
           F == [p \in PageIDs |-> [f \in [PageIDs -> V] |->
                   IF IsInternal(p) THEN FlattenSeq(Row2(p, f)) ELSE <<p>>]]
<1>2. \A p \in PageIDs : \A f \in [PageIDs -> V] :
         F[p][f] = IF IsInternal(p) THEN FlattenSeq(Row2(p, f)) ELSE <<p>>
  OBVIOUS
<1>3. \A p \in PageIDs : \A f \in [PageIDs -> V] :
         (IF IsInternal(p) THEN FlattenSeq(Row2(p, f)) ELSE <<p>>) \in V
  <2> TAKE p \in PageIDs
  <2> TAKE f \in [PageIDs -> V]
  <2>1. CASE IsInternal(p)
    <3>1. PICK cs, n : cs = Kids(p) /\ n = Len(Kids(p))
      OBVIOUS
    <3>2. n \in Nat /\ n >= 1 /\ DOMAIN cs = 1..n /\ \A i \in 1..n : cs[i] \in PageIDs
      BY <2>1, <3>1, KidsFacts
    <3>3. PICK seqs : seqs = Row2(p, f)
      OBVIOUS
    <3>4. seqs = [i \in 1..n |-> f[cs[i]]] /\ \A i \in 1..n : f[cs[i]] \in V
      BY <3>1, <3>2, <3>3
    <3>5. seqs \in [1..n -> V]
      BY <3>4
    <3>6. seqs \in Seq(V) /\ Len(seqs) = n
      BY <3>2, <3>5
    <3>7. seqs \in Seq(Seq(PageIDs)) /\ Len(seqs) # 0
      BY <1>1, <3>2, <3>6
    <3>8. FlattenSeq(seqs) \in Seq(PageIDs)
      BY <3>7, FlattenIn
    <3> QED BY <1>1, <2>1, <3>3, <3>8
  <2>2. CASE ~IsInternal(p)
    <3>1. <<p>> \in Seq(PageIDs)
      OBVIOUS
    <3> QED BY <1>1, <2>2, <3>1
  <2> QED BY <2>1, <2>2
<1>4. F \in [PageIDs -> [[PageIDs -> V] -> V]]
  BY <1>3
<1> HIDE DEF F
<1>5. h \in [PageIDs -> Nat]
  BY DEF Structure, Witnesses
<1>6. \A p \in PageIDs : \A f, g \in [PageIDs -> V] :
         (\A q \in PageIDs : h[q] < h[p] => f[q] = g[q]) => F[p][f] = F[p][g]
  <2> TAKE p \in PageIDs
  <2> TAKE f, g \in [PageIDs -> V]
  <2> HAVE \A q \in PageIDs : h[q] < h[p] => f[q] = g[q]
  <2>1. CASE IsInternal(p)
    <3>1. \A i \in DOMAIN Kids(p) : Kids(p)[i] \in PageIDs /\ h[Kids(p)[i]] < h[p]
      <4>1. DOMAIN Kids(p) = 1..Len(Kids(p))
        BY <2>1, KidsFacts
      <4> TAKE i \in DOMAIN Kids(p)
      <4>2. i \in 1..Len(Kids(p))
        BY <4>1
      <4>3. PICK a, b : a = h[p] /\ b = h[Kids(p)[i]]
        OBVIOUS
      <4>4. Kids(p)[i] \in PageIDs /\ b \in Nat /\ a = b + 1
        BY <2>1, <4>2, <4>3, KidsFacts
      <4>5. b < a
        BY <4>4
      <4> QED BY <4>3, <4>4, <4>5
    <3>2. \A i \in DOMAIN Kids(p) : f[Kids(p)[i]] = g[Kids(p)[i]]
      BY <3>1
    <3>3. Row2(p, f) = Row2(p, g)
      BY <3>2
    <3> QED BY <1>2, <2>1, <3>3
  <2>2. CASE ~IsInternal(p)
    BY <1>2, <2>2
  <2> QED BY <2>1, <2>2
<1>7. Recursive(PageIDs, V, h, F)
  BY <1>4, <1>5, <1>6 DEF Recursive
<1>8. <<>> \in V
  BY <1>1
<1>9. PICK b \in Nat : \A p \in PageIDs : h[p] < b
  BY <1>5, BTreeAssumption, Bounded
<1>10. PICK f \in [PageIDs -> V] : \A p \in PageIDs : f[p] = F[p][f]
  BY <1>7, <1>8, <1>9, Recursion
<1>11. \A p \in PageIDs : f[p] = IF IsInternal(p) THEN FlattenSeq(Row2(p, f)) ELSE <<p>>
  BY <1>2, <1>10
<1>12. Belows(f)
  BY <1>11 DEF Belows
<1> QED BY <1>1, <1>10, <1>12

LEMMA BelowCovers ==
  ASSUME Pages, NEW h, NEW up, NEW place, Structure(h, up, place),
         NEW R, NEW Q, Ordered(R, Q), \A p \in PageIDs : Q[p] = R[p], NEW f, Belows(f)
  PROVE  \A p \in PageIDs : Used(p) => Covers(Leaves, R, R[p], f[p])
<1> DEFINE T == {i \in Nat : \A p \in PageIDs : Used(p) /\ h[p] = i => Covers(Leaves, R, R[p], f[p])}
<1>1. \A p \in PageIDs : h[p] \in Nat
  BY DEF Structure, Witnesses
<1>2. Leaves \in SUBSET PageIDs
  BY DEF Leaves
<1>3. ASSUME NEW p \in PageIDs, Used(p), ~IsInternal(p) PROVE Covers(Leaves, R, R[p], f[p])
  <2>1. p \in Leaves /\ f[p] = <<p>>
    BY <1>3 DEF Used, Leaves, Belows
  <2> QED BY <1>2, <2>1, CoversOne
<1>4. 0 \in T
  <2> SUFFICES ASSUME NEW p \in PageIDs, Used(p), h[p] = 0 PROVE Covers(Leaves, R, R[p], f[p])
    OBVIOUS
  <2>1. ~IsInternal(p)
    <3> SUFFICES ASSUME IsInternal(p) PROVE FALSE
      OBVIOUS
    <3>1. 1 \in 1..Len(Kids(p))
      <4>1. Len(Kids(p)) \in Nat /\ Len(Kids(p)) >= 1
        BY KidsFacts
      <4> QED BY <4>1
    <3>2. PICK b : b = h[Kids(p)[1]]
      OBVIOUS
    <3>3. b \in Nat /\ 0 = b + 1
      BY <3>1, <3>2, KidsFacts
    <3> QED BY <3>3
  <2> QED BY <1>3, <2>1
<1>5. ASSUME NEW i \in Nat, i \in T PROVE i + 1 \in T
  <2> SUFFICES ASSUME NEW p \in PageIDs, Used(p), h[p] = i + 1 PROVE Covers(Leaves, R, R[p], f[p])
    OBVIOUS
  <2>1. CASE ~IsInternal(p)
    BY <1>3, <2>1
  <2>2. CASE IsInternal(p)
    <3>1. PICK ks, cs, S, n, m : ks = pages[p].keys /\ cs = Kids(p) /\ S = R[p] /\ n = Len(cs) /\ m = Len(ks)
      OBVIOUS
    <3>2. Node(ks, cs, S, Q)
      BY <2>2, <3>1 DEF Ordered, NodeOrder
    <3>3. NodeIs(ks, cs, S, Q, m)
      BY <3>1, <3>2, NodeFacts
    <3>4. n \in Nat /\ n >= 1 /\ DOMAIN cs = 1..n /\ \A j \in 1..n : cs[j] \in PageIDs /\ Used(cs[j])
      BY <2>2, <3>1, KidsFacts
    <3>5. \A j \in 1..n : h[cs[j]] = i
      <4> TAKE j \in 1..n
      <4>1. PICK b : b = h[cs[j]]
        OBVIOUS
      <4>2. b \in Nat /\ i + 1 = b + 1
        BY <2>2, <3>1, <4>1, KidsFacts
      <4>3. b = i
        BY <4>2
      <4> QED BY <4>1, <4>3
    <3>6. \A j \in 1..n : Covers(Leaves, R, R[cs[j]], f[cs[j]])
      BY <1>5, <3>4, <3>5
    <3>7. PICK P : P = [j \in 1..n |-> R[cs[j]]]
      OBVIOUS
    <3>8. PICK seqs : seqs = [j \in DOMAIN cs |-> f[cs[j]]]
      OBVIOUS
    <3>9. \A j \in 1..n : P[j] = R[cs[j]] /\ P[j] = Q[cs[j]] /\ seqs[j] = f[cs[j]]
      BY <3>4, <3>7, <3>8
    <3>10. \A j \in 1..n : Covers(Leaves, R, P[j], seqs[j])
      BY <3>6, <3>9
    <3>11. \A j \in 1..n : P[j] \in SUBSET Int /\ P[j] \in SUBSET S
      <4> TAKE j \in 1..n
      <4>1. S \in SUBSET Int /\ Len(cs) = m + 1 /\ \A a \in 1..(m + 1) : Q[cs[a]] \in SUBSET S
        BY <3>3 DEF NodeIs
      <4>2. j \in 1..(m + 1)
        BY <3>1, <4>1
      <4> QED BY <3>9, <4>1, <4>2
    <3>12. \A j, l \in 1..n : j < l => Before(P[j], P[l])
      <4> SUFFICES ASSUME NEW j \in 1..n, NEW l \in 1..n, j < l PROVE Before(P[j], P[l])
        OBVIOUS
      <4>1. Before(Q[cs[j]], Q[cs[l]])
        BY <3>1, <3>2, PartsInOrder
      <4> QED BY <3>9, <4>1
    <3>13. seqs \in Seq(Seq(PageIDs)) /\ Len(seqs) = n
      <4>1. PICK V : V = Seq(PageIDs)
        OBVIOUS
      <4>2. \A j \in 1..n : seqs[j] \in V
        BY <3>10, <4>1 DEF Covers
      <4>3. seqs = [j \in 1..n |-> seqs[j]]
        BY <3>4, <3>8
      <4>4. seqs \in [1..n -> V]
        BY <4>2, <4>3
      <4>5. seqs \in Seq(V) /\ Len(seqs) = n
        BY <3>4, <4>4
      <4> QED BY <4>1, <4>5
    <3>14. PICK all, U : all = FlattenSeq(seqs) /\ U = PartsUpto(P, n)
      OBVIOUS
    <3>15. Covers(Leaves, R, U, all)
      BY <3>4, <3>10, <3>11, <3>12, <3>13, <3>14, CoversAll
    <3>16. U = S
      <4>1. \A k \in S : \E j \in 1..n : k \in P[j]
        <5> TAKE k \in S
        <5>1. PICK u : u = UpTo(ks, k)
          OBVIOUS
        <5>2. u + 1 \in 1..n /\ k \in Q[cs[u + 1]]
          BY <3>1, <3>2, <5>1, WhichChild
        <5> QED BY <3>9, <5>2
      <4>2. S \in SUBSET Int
        BY <3>3 DEF NodeIs
      <4> QED BY <3>11, <3>14, <4>1, <4>2 DEF PartsUpto
    <3>17. f[p] = all
      BY <2>2, <3>1, <3>8, <3>14 DEF Belows
    <3> QED BY <3>1, <3>15, <3>16, <3>17
  <2> QED BY <2>1, <2>2
<1> HIDE DEF T
<1>6. \A i \in Nat : i \in T
  BY <1>4, <1>5, Induction
<1> SUFFICES ASSUME NEW p \in PageIDs, Used(p) PROVE Covers(Leaves, R, R[p], f[p])
  OBVIOUS
<1>7. h[p] \in T
  BY <1>1, <1>6
<1> QED BY <1>7 DEF T

-----------------------------------------------------------------------------
\* There is one way to line up the leaves.

Lines(R, C, E, n, m) ==
  /\ \A i, j \in 1..n : i < j => Before(R[C[i]], R[C[j]])
  /\ \A i, j \in 1..m : i < j => Before(R[E[i]], R[E[j]])
  /\ \A i \in 1..n : R[C[i]] \in SUBSET Int /\ R[C[i]] # {} /\ \E j \in 1..m : E[j] = C[i]
  /\ \A i \in 1..m : \E j \in 1..n : C[j] = E[i]

LEMMA LinesAgree ==
  ASSUME NEW R, NEW C, NEW E, NEW n \in Nat, NEW m \in Nat, Lines(R, C, E, n, m)
  PROVE  \A j \in 1..n : j \in 1..m /\ C[j] = E[j]
<1>1. /\ \A i, j \in 1..n : i < j => Before(R[C[i]], R[C[j]])
      /\ \A i, j \in 1..m : i < j => Before(R[E[i]], R[E[j]])
      /\ \A i \in 1..n : R[C[i]] \in SUBSET Int /\ R[C[i]] # {} /\ \E j \in 1..m : E[j] = C[i]
      /\ \A i \in 1..m : \E j \in 1..n : C[j] = E[i]
  BY DEF Lines
<1>2. \A i, j \in 1..n : ~(Before(R[C[i]], R[C[j]]) /\ Before(R[C[j]], R[C[i]]))
  <2> SUFFICES ASSUME NEW i \in 1..n, NEW j \in 1..n, Before(R[C[i]], R[C[j]]), Before(R[C[j]], R[C[i]])
               PROVE  FALSE
    OBVIOUS
  <2>1. PICK x \in R[C[i]], y \in R[C[j]] : x \in Int /\ y \in Int
    BY <1>1
  <2>2. x < y /\ y < x
    BY <2>1 DEF Before
  <2> QED BY <2>1, <2>2
<1> DEFINE T == {i \in Nat : \A j \in 1..n : j <= i => j \in 1..m /\ C[j] = E[j]}
<1>3. 0 \in T
  OBVIOUS
<1>4. ASSUME NEW i \in Nat, i \in T PROVE i + 1 \in T
  <2>1. \A j \in 1..n : j <= i => j \in 1..m /\ C[j] = E[j]
    BY <1>4
  <2>2. PICK u : u = i + 1
    OBVIOUS
  <2>3. u \in Nat /\ u >= 1 /\ i = u - 1
    BY <2>2
  <2>4. ASSUME u \in 1..n PROVE u \in 1..m /\ C[u] = E[u]
    <3>1. \A a : a \in Nat /\ a >= 1 /\ a < u => a \in 1..n /\ a <= i
      BY <2>3, <2>4
    <3>2. PICK a \in 1..m : E[a] = C[u]
      BY <1>1, <2>4
    <3>3. ~(a < u)
      <4> SUFFICES ASSUME a < u PROVE FALSE
        OBVIOUS
      <4>1. a \in 1..n /\ a <= i
        BY <3>1
      <4>2. C[a] = C[u]
        BY <2>1, <3>2, <4>1
      <4>3. Before(R[C[a]], R[C[u]])
        BY <1>1, <2>4, <4>1
      <4> QED BY <1>2, <2>4, <4>1, <4>2, <4>3
    <3>4. u \in 1..m
      BY <2>3, <3>2, <3>3
    <3>5. PICK b \in 1..n : C[b] = E[u]
      BY <1>1, <3>4
    <3>6. ~(b < u)
      <4> SUFFICES ASSUME b < u PROVE FALSE
        OBVIOUS
      <4>1. b \in 1..n /\ b <= i
        BY <3>1
      <4>2. b \in 1..m /\ C[b] = E[b]
        BY <2>1, <4>1
      <4>3. Before(R[E[b]], R[E[u]])
        BY <1>1, <3>4, <4>2
      <4> QED BY <1>2, <3>5, <4>1, <4>2, <4>3
    <3>7. CASE a = u
      BY <3>2, <3>4, <3>7
    <3>8. CASE b = u
      BY <3>4, <3>5, <3>8
    <3>9. CASE a # u /\ b # u
      <4>1. u < a /\ u < b
        BY <2>3, <3>3, <3>6, <3>9
      <4>2. Before(R[E[u]], R[E[a]])
        BY <1>1, <3>4, <4>1
      <4>3. Before(R[C[b]], R[C[u]])
        BY <3>2, <3>5, <4>2
      <4>4. Before(R[C[u]], R[C[b]])
        BY <1>1, <2>4, <4>1
      <4> QED BY <1>2, <2>4, <4>3, <4>4
    <3> QED BY <3>7, <3>8, <3>9
  <2>5. \A j \in 1..n : j <= u => j <= i \/ j = u
    BY <2>3
  <2>6. \A j \in 1..n : j <= u => j \in 1..m /\ C[j] = E[j]
    BY <2>1, <2>4, <2>5
  <2> QED BY <2>2, <2>3, <2>6
<1> HIDE DEF T
<1>5. \A i \in Nat : i \in T
  BY <1>3, <1>4, Induction
<1>6. n \in T
  BY <1>5
<1>7. \A j \in 1..n : j <= n => j \in 1..m /\ C[j] = E[j]
  BY <1>6 DEF T
<1> QED BY <1>7

LEMMA OneLine ==
  ASSUME NEW L, NEW N, NEW R, Chained(L, N, R), NEW C, LinedUp(L, R, C), NEW E, LinedUp(L, R, E)
  PROVE  C = E
<1>1. PICK n, m : n = Len(C) /\ m = Len(E)
  OBVIOUS
<1>2. /\ C \in Seq(PageIDs) /\ n \in Nat /\ \A i \in 1..n : C[i] \in L
      /\ \A i, j \in 1..n : i < j => Before(R[C[i]], R[C[j]])
      /\ \A q \in L : \E i \in 1..n : C[i] = q
  BY <1>1 DEF LinedUp, InOrder
<1>3. /\ E \in Seq(PageIDs) /\ m \in Nat /\ \A i \in 1..m : E[i] \in L
      /\ \A i, j \in 1..m : i < j => Before(R[E[i]], R[E[j]])
      /\ \A q \in L : \E i \in 1..m : E[i] = q
  BY <1>1 DEF LinedUp, InOrder
<1>4. \A p \in L : R[p] \in SUBSET Int /\ R[p] # {}
  BY DEF Chained
<1>5. Lines(R, C, E, n, m)
  BY <1>2, <1>3, <1>4 DEF Lines
<1>6. Lines(R, E, C, m, n)
  BY <1>2, <1>3, <1>4 DEF Lines
<1>7. \A j \in 1..n : j \in 1..m /\ C[j] = E[j]
  BY <1>2, <1>3, <1>5, LinesAgree
<1>8. \A j \in 1..m : j \in 1..n /\ E[j] = C[j]
  BY <1>2, <1>3, <1>6, LinesAgree
<1>9. n = m
  <2>1. n >= 1 => n <= m
    <3>1. n >= 1 => n \in 1..n
      BY <1>2
    <3>2. n \in 1..n => n \in 1..m
      BY <1>7
    <3>3. n \in 1..m => n <= m
      BY <1>2, <1>3
    <3> QED BY <3>1, <3>2, <3>3
  <2>2. m >= 1 => m <= n
    <3>1. m >= 1 => m \in 1..m
      BY <1>3
    <3>2. m \in 1..m => m \in 1..n
      BY <1>8
    <3>3. m \in 1..n => m <= n
      BY <1>2, <1>3
    <3> QED BY <3>1, <3>2, <3>3
  <2>3. n \in Nat /\ m \in Nat
    BY <1>2, <1>3
  <2> QED BY ONLY <2>1, <2>2, <2>3
<1> QED BY <1>1, <1>2, <1>3, <1>7, <1>9, SeqEqual

-----------------------------------------------------------------------------
\* The bottom of the tree is the chain.

LEMMA BottomIs ==
  ASSUME BInv, NEW R, NEW Q, Ordered(R, Q), \A p \in PageIDs : Q[p] = R[p]
  PROVE  LinedUp(Leaves, R, BottomLevel)
<1>1. PICK h, up, place : Structure(h, up, place)
  BY DEF BInv
<1>2. Pages /\ root \in PageIDs /\ Used(root)
  BY DEF BInv, Control
<1> DEFINE body(f) == [p \in PageIDs |->
                         IF IsInternal(p)
                         THEN FlattenSeq([n \in DOMAIN pages[p].children |-> f[pages[p].children[n]]])
                         ELSE <<p>>]
           below == CHOOSE f : f = body(f)
<1>3. BottomLevel = below[root]
  BY DEF BottomLevel
<1>4. \E f : f = body(f)
  <2>1. PICK f \in [PageIDs -> Seq(PageIDs)] : Belows(f)
    BY <1>1, <1>2, BelowsExist
  <2>2. \A p \in PageIDs :
          f[p] = IF IsInternal(p)
                 THEN FlattenSeq([n \in DOMAIN pages[p].children |-> f[pages[p].children[n]]]) ELSE <<p>>
    BY <2>1 DEF Belows, Kids
  <2>3. f = [p \in PageIDs |-> f[p]]
    OBVIOUS
  <2>4. f = body(f)
    BY <2>2, <2>3
  <2> QED BY <2>4
<1>5. below = body(below)
  BY <1>4, ZenonT(40)
<1> HIDE DEF below
<1>6. Belows(below)
  BY <1>5 DEF Belows, Kids
<1>7. PICK C : C = below[root]
  OBVIOUS
<1>8. Covers(Leaves, R, R[root], C)
  BY <1>1, <1>2, <1>6, <1>7, BelowCovers
<1>9. R[root] = Int
  BY <1>2 DEF Ordered
<1>10. /\ C \in Seq(PageIDs) /\ Len(C) \in Nat /\ Len(C) >= 1
       /\ \A i \in 1..Len(C) : C[i] \in Leaves
       /\ InOrder(R, C)
       /\ \A k \in Int : \E i \in 1..Len(C) : k \in R[C[i]]
  BY <1>8, <1>9 DEF Covers
<1>11. \A q \in Leaves : \E i \in 1..Len(C) : C[i] = q
  <2> TAKE q \in Leaves
  <2>1. /\ R[q] \in SUBSET Int /\ R[q] # {}
        /\ \A p \in Leaves : p # q => R[p] \cap R[q] = {}
    BY DEF Ordered, Chained
  <2>2. PICK k : k \in R[q] /\ k \in Int
    BY <2>1
  <2>3. PICK i \in 1..Len(C) : k \in R[C[i]]
    BY <1>10, <2>2
  <2> QED BY <1>10, <2>1, <2>2, <2>3
<1> QED BY <1>3, <1>7, <1>10, <1>11 DEF LinedUp

LEMMA KeysAscend ==
  ASSUME NEW ts, NEW S, Held(ts, S)
  PROVE  Ascending(KeysOf(ts))
<1>1. DOMAIN ts = 1..Len(ts) /\ \A i, j \in 1..Len(ts) : i < j => ts[i].key < ts[j].key
  BY HeldFacts DEF Held, Ascends
<1>2. DOMAIN KeysOf(ts) = 1..Len(ts) /\ \A i \in 1..Len(ts) : KeysOf(ts)[i] = ts[i].key
  BY <1>1 DEF KeysOf
<1> QED BY <1>1, <1>2 DEF Ascending

LEMMA ChainIsInOrder == ASSUME BInv, OInv PROVE ChainInOrder
<1>1. PICK R, Q : Ordered(R, Q) /\ Cleft(R, Q)
  BY DEF OInv
<1>2. Ascending(KeysOf(AllTuples))
  <2>1. Held(AllTuples, Int)
    BY <1>1, TuplesStored
  <2>2. PICK ts : ts = AllTuples
    OBVIOUS
  <2>3. Ascending(KeysOf(ts))
    BY <2>1, <2>2, KeysAscend
  <2> QED BY <2>2, <2>3
<1>3. ASSUME pc # "unwind" PROVE Chain = BottomLevel
  <2>1. \A p \in PageIDs : Q[p] = R[p]
    BY <1>1, <1>3 DEF Cleft, Splitting
  <2>2. PICK C, E : C = Chain /\ E = BottomLevel
    OBVIOUS
  <2>3. LinedUp(Leaves, R, C) /\ LinedUp(Leaves, R, E)
    BY <1>1, <2>1, <2>2, ChainIs, BottomIs
  <2>4. Chained(Leaves, Right, R)
    BY <1>1, LeavesChained
  <2>5. C = E
    BY <2>3, <2>4, OneLine
  <2> QED BY <2>2, <2>5
<1> QED BY <1>2, <1>3 DEF ChainInOrder

-----------------------------------------------------------------------------
\* Searches.

LEMMA DepthIs == ASSUME BInv PROVE EquallyDeep
<1>1. PICK h, up, place : Structure(h, up, place)
  BY DEF BInv
<1>2. Pages
  BY DEF BInv
<1> DEFINE body(f) == [p \in PageIDs |-> IF IsInternal(p) THEN 1 + f[pages[p].children[1]] ELSE 0]
           depth == CHOOSE f : f = body(f)
<1>3. \A p \in PageIDs : h[p] \in Nat /\ (IsLeaf(p) => h[p] = 0)
  BY <1>1 DEF Structure, Witnesses, Tree
<1>4. \A p \in PageIDs : IsInternal(p) =>
         \A i \in 1..Len(Kids(p)) : /\ Kids(p)[i] \in PageIDs /\ Used(Kids(p)[i])
                                    /\ h[Kids(p)[i]] \in Nat /\ h[p] = h[Kids(p)[i]] + 1
  BY <1>1, <1>2, KidsFacts
<1>5. \A p \in PageIDs : IsInternal(p) => 1 \in 1..Len(Kids(p)) /\ DOMAIN Kids(p) = 1..Len(Kids(p))
  <2> SUFFICES ASSUME NEW p \in PageIDs, IsInternal(p)
               PROVE  1 \in 1..Len(Kids(p)) /\ DOMAIN Kids(p) = 1..Len(Kids(p))
    OBVIOUS
  <2>1. Len(Kids(p)) \in Nat /\ Len(Kids(p)) >= 1 /\ DOMAIN Kids(p) = 1..Len(Kids(p))
    BY <1>1, <1>2, KidsFacts
  <2> QED BY <2>1
<1>6. \E f : f = body(f)
  <2>1. PICK f : f = [p \in PageIDs |-> IF Used(p) THEN h[p] ELSE 0]
    OBVIOUS
  <2>2. \A p \in PageIDs : f[p] = IF IsInternal(p) THEN 1 + f[pages[p].children[1]] ELSE 0
    <3> TAKE p \in PageIDs
    <3>1. CASE IsInternal(p)
      <4>1. PICK c : c = Kids(p)[1]
        OBVIOUS
      <4>2. c \in PageIDs /\ Used(c) /\ h[c] \in Nat /\ h[p] = h[c] + 1
        BY <1>4, <1>5, <3>1, <4>1
      <4>3. f[c] = h[c] /\ f[p] = h[p]
        BY <2>1, <3>1, <4>2 DEF Used
      <4>4. h[p] = 1 + h[c]
        BY <4>2
      <4> QED BY <3>1, <4>1, <4>3, <4>4 DEF Kids
    <3>2. CASE ~IsInternal(p)
      BY <1>3, <2>1, <3>2 DEF Used
    <3> QED BY <3>1, <3>2
  <2>3. f = [p \in PageIDs |-> f[p]]
    BY <2>1
  <2>4. f = body(f)
    BY <2>2, <2>3
  <2> QED BY <2>4
<1>7. depth = body(depth)
  BY <1>6, Zenon
<1>8. EquallyDeep <=> \A p \in PageIDs : IsInternal(p) =>
                        \A c \in ToSet(pages[p].children) : depth[c] = depth[p] - 1
  BY DEF EquallyDeep
<1> HIDE DEF depth
<1>9. \A p \in PageIDs : depth[p] = IF IsInternal(p) THEN 1 + depth[Kids(p)[1]] ELSE 0
  BY <1>7 DEF Kids
<1> DEFINE T == {i \in Nat : \A p \in PageIDs : Used(p) /\ h[p] = i => depth[p] = i}
<1>10. 0 \in T
  <2> SUFFICES ASSUME NEW p \in PageIDs, Used(p), h[p] = 0 PROVE depth[p] = 0
    OBVIOUS
  <2>1. ~IsInternal(p)
    <3> SUFFICES ASSUME IsInternal(p) PROVE FALSE
      OBVIOUS
    <3>1. PICK b : b = h[Kids(p)[1]]
      OBVIOUS
    <3>2. b \in Nat /\ 0 = b + 1
      BY <1>4, <1>5, <3>1
    <3> QED BY <3>2
  <2> QED BY <1>9, <2>1
<1>11. ASSUME NEW i \in Nat, i \in T PROVE i + 1 \in T
  <2> SUFFICES ASSUME NEW p \in PageIDs, Used(p), h[p] = i + 1 PROVE depth[p] = i + 1
    OBVIOUS
  <2>1. IsInternal(p)
    <3> SUFFICES ASSUME ~IsInternal(p) PROVE FALSE
      OBVIOUS
    <3>1. 0 = i + 1
      BY <1>3 DEF Used
    <3> QED BY <3>1
  <2>2. PICK c, b : c = Kids(p)[1] /\ b = h[c]
    OBVIOUS
  <2>3. c \in PageIDs /\ Used(c) /\ b \in Nat /\ i + 1 = b + 1
    BY <1>4, <1>5, <2>1, <2>2
  <2>4. b = i
    BY <2>3
  <2>5. depth[c] = i
    BY <1>11, <2>2, <2>3, <2>4
  <2>6. depth[p] = 1 + i
    BY <1>9, <2>1, <2>2, <2>5
  <2> QED BY <2>6
<1> HIDE DEF T
<1>12. \A i \in Nat : i \in T
  BY <1>10, <1>11, Induction
<1>13. \A p \in PageIDs : Used(p) => depth[p] = h[p]
  <2> SUFFICES ASSUME NEW p \in PageIDs, Used(p) PROVE depth[p] = h[p]
    OBVIOUS
  <2>1. h[p] \in T
    BY <1>3, <1>12
  <2> QED BY <2>1 DEF T
<1>14. \A p \in PageIDs : IsInternal(p) =>
         \A c \in ToSet(pages[p].children) : depth[c] = depth[p] - 1
  <2> SUFFICES ASSUME NEW p \in PageIDs, IsInternal(p), NEW c \in ToSet(pages[p].children)
               PROVE  depth[c] = depth[p] - 1
    OBVIOUS
  <2>1. PICK i \in 1..Len(Kids(p)) : c = Kids(p)[i]
    BY <1>5 DEF ToSet, Kids
  <2>2. PICK a, b : a = h[p] /\ b = h[c]
    OBVIOUS
  <2>3. c \in PageIDs /\ Used(c) /\ b \in Nat /\ a = b + 1
    BY <1>4, <2>1, <2>2
  <2>4. depth[c] = b /\ depth[p] = a
    BY <1>13, <2>2, <2>3 DEF Used
  <2>5. b = a - 1
    BY <2>3
  <2> QED BY <2>4, <2>5
<1> QED BY <1>8, <1>14

LEMMA FoundIs ==
  ASSUME BInv, NEW R, NEW Q, Ordered(R, Q), \A p \in PageIDs : Q[p] = R[p],
         NEW k \in Int, NEW p \in PageIDs, IsLeaf(p), k \in R[p]
  PROVE  Found(k) = p
<1>1. PICK h, up, place : Structure(h, up, place)
  BY DEF BInv
<1>2. Pages /\ Tree(h, up, place) /\ root \in PageIDs /\ Used(root)
  BY <1>1 DEF BInv, Control, Structure
<1>3. PICK next : next = [q \in PageIDs |-> GetChildPageID(q, k)]
  OBVIOUS
<1>4. \A q \in PageIDs : next[q] = GetChildPageID(q, k)
  BY <1>3
<1>5. Downwards(next)
  <2> SUFFICES ASSUME NEW q \in PageIDs, IsInternal(q) PROVE \E j \in 1..Len(Kids(q)) : next[q] = Kids(q)[j]
    BY DEF Downwards
  <2>1. IsSeq(pages[q].keys) /\ Width(q) \in Nat /\ Len(Kids(q)) = Width(q) + 1
    BY <1>2, Kinds DEF Pages
  <2>2. PICK u : u = UpTo(pages[q].keys, k)
    OBVIOUS
  <2>3. u \in 0..Width(q)
    BY <2>1, <2>2, UpToFacts DEF Width
  <2>4. u + 1 \in 1..Len(Kids(q))
    BY <2>1, <2>3
  <2>5. next[q] = Kids(q)[u + 1]
    BY <1>4, <2>2 DEF GetChildPageID, Kids
  <2> QED BY <2>4, <2>5
<1> DEFINE body(f) == [q \in PageIDs |-> IF IsInternal(q) THEN f[GetChildPageID(q, k)] ELSE q]
           down == CHOOSE f : f = body(f)
<1>6. Found(k) = down[root]
  BY DEF Found
<1>7. \E f : f = body(f)
  <2>1. PICK f \in [PageIDs -> PageIDs] : Ways(next, f)
    BY <1>1, <1>2, <1>5, WayExists
  <2>2. \A q \in PageIDs : f[q] = IF IsInternal(q) THEN f[GetChildPageID(q, k)] ELSE q
    BY <1>4, <2>1 DEF Ways
  <2>3. f = [q \in PageIDs |-> f[q]]
    OBVIOUS
  <2>4. f = body(f)
    BY <2>2, <2>3
  <2> QED BY <2>4
<1>8. down = body(down)
  BY <1>7
<1> HIDE DEF down
<1>9. Ways(next, down)
  BY <1>4, <1>8 DEF Ways
<1>10. PICK P : P = {q \in PageIDs : Used(q) /\ k \in R[q]}
  OBVIOUS
<1>11. \A q \in P : Used(q) /\ (IsInternal(q) => next[q] \in P)
  <2> TAKE q \in P
  <2>1. q \in PageIDs /\ Used(q) /\ k \in R[q]
    BY <1>10
  <2>2. ASSUME IsInternal(q) PROVE next[q] \in P
    <3>1. PICK c : c = GetChildPageID(q, k)
      OBVIOUS
    <3>2. c \in PageIDs /\ Used(c) /\ k \in Q[c]
      BY <1>2, <2>1, <2>2, <3>1, ChildIsFor
    <3> QED BY <1>4, <1>10, <2>1, <3>1, <3>2
  <2> QED BY <2>1, <2>2
<1>12. root \in P
  <2>1. R[root] = Int
    BY <1>2 DEF Ordered
  <2> QED BY <1>2, <1>10, <2>1
<1>13. P \in SUBSET PageIDs
  BY <1>10
<1>14. down[root] \in P /\ IsLeaf(down[root])
  BY <1>1, <1>2, <1>5, <1>9, <1>11, <1>12, <1>13, WayEnds
<1>15. down[root] \in Leaves /\ k \in R[down[root]] /\ p \in Leaves
  BY <1>10, <1>14 DEF Leaves
<1>16. \A a, b \in Leaves : a # b => R[a] \cap R[b] = {}
  BY DEF Ordered, Chained
<1> QED BY <1>6, <1>15, <1>16

LEMMA TreeIsSearchTree == ASSUME BInv, OInv PROVE SearchTree
<1>1. PICK R, Q : Ordered(R, Q) /\ Cleft(R, Q)
  BY DEF OInv
<1> SUFFICES ASSUME pc # "unwind"
             PROVE  /\ EquallyDeep
                    /\ \A p \in PageIDs : IsInternal(p) => Ascending(pages[p].keys)
                    /\ \A p \in ToSet(Chain) : \A t \in ToSet(pages[p].tuples) : Found(t.key) = p
  BY DEF SearchTree
<1>2. \A p \in PageIDs : Q[p] = R[p]
  BY <1>1 DEF Cleft, Splitting
<1>3. \A p \in PageIDs : IsInternal(p) => Ascending(pages[p].keys)
  <2> SUFFICES ASSUME NEW p \in PageIDs, IsInternal(p) PROVE Ascending(pages[p].keys)
    OBVIOUS
  <2>1. Node(pages[p].keys, Kids(p), R[p], Q)
    BY <1>1 DEF Ordered, NodeOrder
  <2>2. PICK ks : ks = pages[p].keys
    OBVIOUS
  <2>3. ks \in Seq(Keys) /\ \A i, j \in 1..Len(ks) : i < j => ks[i] < ks[j]
    BY <2>1, <2>2 DEF Node
  <2>4. DOMAIN ks = 1..Len(ks)
    BY <2>3, LenProperties
  <2>5. Ascending(ks)
    BY <2>3, <2>4 DEF Ascending
  <2> QED BY <2>2, <2>5
<1>4. ASSUME NEW p \in ToSet(Chain), NEW t \in ToSet(pages[p].tuples) PROVE Found(t.key) = p
  <2>1. PICK C : C = Chain
    OBVIOUS
  <2>2. LinedUp(Leaves, R, C)
    BY <1>1, <2>1, ChainIs
  <2>3. C \in Seq(PageIDs) /\ \A i \in 1..Len(C) : C[i] \in Leaves
    BY <2>2 DEF LinedUp
  <2>4. p \in Leaves
    <3>1. p \in ToSet(C)
      BY <1>4, <2>1
    <3>2. PICK i \in DOMAIN C : p = C[i]
      BY <3>1 DEF ToSet
    <3>3. DOMAIN C = 1..Len(C)
      BY <2>3, LenProperties
    <3> QED BY <2>3, <3>2, <3>3
  <2>5. p \in PageIDs /\ IsLeaf(p)
    BY <2>4 DEF Leaves
  <2>6. Held(pages[p].tuples, R[p])
    BY <1>1, <2>5 DEF Ordered, LeafOrder
  <2>7. PICK ts : ts = pages[p].tuples
    OBVIOUS
  <2>8. DOMAIN ts = 1..Len(ts) /\ \A i \in 1..Len(ts) : ts[i].key \in Int /\ ts[i].key \in R[p]
    BY <2>6, <2>7, HeldFacts
  <2>9. PICK i \in DOMAIN ts : t = ts[i]
    <3>1. t \in ToSet(ts)
      BY <1>4, <2>7
    <3> QED BY <3>1 DEF ToSet
  <2>10. PICK k : k = t.key
    OBVIOUS
  <2>11. k \in Int /\ k \in R[p]
    BY <2>8, <2>9, <2>10
  <2>12. Found(k) = p
    BY <1>1, <1>2, <2>5, <2>11, FoundIs
  <2> QED BY <2>10, <2>12
<1> QED BY <1>3, <1>4, DepthIs

\* The chain survives every split and merge, and is the bottom of the tree.
THEOREM ChainStays == ASSUME Residues = {0} PROVE Spec /\ []RoomToGrow => []ChainInOrder
<1>1. BInv /\ OInv => ChainInOrder
  BY ChainIsInOrder
<1> QED BY <1>1, Order, PTL

\* All leaves are equally deep, and a search for a stored key ends in the leaf that has it.
THEOREM Searches == ASSUME Residues = {0} PROVE Spec /\ []RoomToGrow => []SearchTree
<1>1. BInv /\ OInv => SearchTree
  BY TreeIsSearchTree
<1> QED BY <1>1, Order, PTL

-----------------------------------------------------------------------------
\* Pins.

InStack(s, p) == Cardinality({n \in DOMAIN s : s[n] = p})
Uses(p) == InStack(stack, p) + (IF p = to_write_page THEN 1 ELSE 0)

\* A page stays pinned and modified only for the tuple that is to come.
PInv ==
  /\ pc \in {"idle", "insert", "unwind", "delete", "rebalance", "search", "return"}
  /\ cur \in PageIDs \cup {NoPage} /\ answer \in BOOLEAN
  /\ to_write_page \in PageIDs \cup {NoPage}
  /\ pc # "unwind" => to_write_page = NoPage
  /\ PinsMatchUse
  /\ unsaved \subseteq PageIDs /\ unsaved \subseteq {to_write_page}

LEMMA InStackAppend ==
  ASSUME NEW s \in Seq(PageIDs), NEW c \in PageIDs, NEW p
  PROVE  /\ InStack(s, p) \in Nat
         /\ InStack(Append(s, c), p) = InStack(s, p) + (IF p = c THEN 1 ELSE 0)
<1>1. PICK n : n = Len(s)
  OBVIOUS
<1>2. n \in Nat /\ DOMAIN s = 1..n
  BY <1>1, LenProperties
<1>3. PICK a : a = Append(s, c)
  OBVIOUS
<1>4. /\ a \in Seq(PageIDs) /\ Len(a) = n + 1 /\ a[n + 1] = c
      /\ \A i \in 1..n : a[i] = s[i]
  BY <1>1, <1>2, <1>3, AppendProperties
<1>5. DOMAIN a = 1..(n + 1)
  BY <1>4, LenProperties
<1>6. PICK A, B : A = {i \in DOMAIN s : s[i] = p} /\ B = {i \in DOMAIN a : a[i] = p}
  OBVIOUS
<1>7. IsFiniteSet(A) /\ Cardinality(A) \in Nat
  <2>1. A \in SUBSET (1..n) /\ IsFiniteSet(1..n)
    BY <1>2, <1>6, FS_Interval
  <2> QED BY <2>1, FS_Subset, FS_CardinalityType
<1>8. n + 1 \notin A
  BY <1>2, <1>6
<1>9. \A i : i \in 1..(n + 1) <=> i \in 1..n \/ i = n + 1
  BY <1>2
<1>10. InStack(s, p) = Cardinality(A) /\ InStack(Append(s, c), p) = Cardinality(B)
  BY <1>3, <1>6 DEF InStack
<1>11. CASE p = c
  <2>1. B = A \cup {n + 1}
    BY <1>2, <1>4, <1>5, <1>6, <1>9, <1>11
  <2>2. Cardinality(B) = Cardinality(A) + 1
    BY <1>7, <1>8, <2>1, FS_AddElement
  <2> QED BY <1>7, <1>10, <1>11, <2>2
<1>12. CASE p # c
  <2>1. B = A
    BY <1>2, <1>4, <1>5, <1>6, <1>9, <1>12
  <2> QED BY <1>7, <1>10, <1>12, <2>1
<1> QED BY <1>11, <1>12

LEMMA InStackFront ==
  ASSUME NEW s \in Seq(PageIDs), s # <<>>, NEW p
  PROVE  InStack(Front(s), p) = InStack(s, p) - (IF p = Last(s) THEN 1 ELSE 0)
<1>1. PICK n, f, l : n = Len(s) /\ f = Front(s) /\ l = Last(s)
  OBVIOUS
<1>2. /\ n \in Nat /\ n > 0 /\ l = s[n] /\ l \in PageIDs
      /\ f \in Seq(PageIDs) /\ Len(f) = n - 1
      /\ \A i \in 1..(n - 1) : f[i] = s[i]
  BY <1>1, FrontFacts
<1>3. PICK a : a = Append(f, l)
  OBVIOUS
<1>4. /\ a \in Seq(PageIDs) /\ Len(a) = (n - 1) + 1 /\ a[(n - 1) + 1] = l
      /\ \A i \in 1..(n - 1) : a[i] = f[i]
  BY <1>2, <1>3, AppendProperties
<1>5. Len(a) = n /\ a[n] = l
  <2>1. (n - 1) + 1 = n
    BY <1>2
  <2> QED BY <1>4, <2>1
<1>6. \A i \in 1..n : a[i] = s[i]
  <2> TAKE i \in 1..n
  <2>1. i = n \/ i \in 1..(n - 1)
    BY <1>2
  <2> QED BY <1>2, <1>4, <1>5, <2>1
<1>7. a = s
  BY <1>1, <1>4, <1>5, <1>6, SeqEqual
<1>8. InStack(f, p) \in Nat /\ InStack(a, p) = InStack(f, p) + (IF p = l THEN 1 ELSE 0)
  BY <1>2, <1>3, InStackAppend
<1>9. PICK x, y : x = InStack(f, p) /\ y = InStack(a, p)
  OBVIOUS
<1>10. x \in Nat /\ y = x + (IF p = l THEN 1 ELSE 0)
  BY <1>8, <1>9
<1>11. x = y - (IF p = l THEN 1 ELSE 0)
  BY <1>10
<1> QED BY <1>1, <1>7, <1>9, <1>11

LEMMA UsesNat == ASSUME stack \in Seq(PageIDs), NEW p \in PageIDs PROVE Uses(p) \in Nat
<1>1. InStack(stack, p) \in Nat
  BY InStackAppend
<1> QED BY <1>1 DEF Uses

LEMMA PoolPins ==
  ASSUME PinsMatchUse, stack \in Seq(PageIDs), NEW A, NEW B, NEW E, Pool(A, B, E),
         \A p \in PageIDs : Uses(p)' = Uses(p) + Count(p, A) - Count(p, B) - Count(p, E)
  PROVE  PinsMatchUse'
<1>1. pins = [p \in PageIDs |-> Uses(p)]
  BY DEF PinsMatchUse, Uses, InStack
<1>2. pins' = [p \in PageIDs |-> pins[p] + Count(p, A) - Count(p, B) - Count(p, E)]
  BY DEF Pool
<1>3. pins' = [p \in PageIDs |-> Uses(p)']
  <2>1. \A p \in PageIDs : pins[p] + Count(p, A) - Count(p, B) - Count(p, E) = Uses(p)'
    BY <1>1
  <2> QED BY <1>2, <2>1
<1> QED BY <1>3 DEF PinsMatchUse, Uses, InStack

\* What a step requests, it releases ...
LEMMA EvenPins ==
  ASSUME PinsMatchUse, stack \in Seq(PageIDs), NEW A, NEW B, NEW E, Pool(A, B, E),
         A = B \cup E, B \cap E = {}, stack' = stack, to_write_page' = to_write_page
  PROVE  PinsMatchUse'
<1>1. ASSUME NEW p \in PageIDs PROVE Uses(p)' = Uses(p) + Count(p, A) - Count(p, B) - Count(p, E)
  <2>1. Uses(p)' = Uses(p)
    BY DEF Uses
  <2>2. Uses(p) \in Nat
    BY UsesNat
  <2>3. CASE p \in B
    <3>1. Count(p, A) = 1 /\ Count(p, B) = 1 /\ Count(p, E) = 0
      BY <2>3 DEF Count
    <3> QED BY <2>1, <2>2, <3>1
  <2>4. CASE p \in E
    <3>1. Count(p, A) = 1 /\ Count(p, B) = 0 /\ Count(p, E) = 1
      BY <2>4 DEF Count
    <3> QED BY <2>1, <2>2, <3>1
  <2>5. CASE p \notin A
    <3>1. Count(p, A) = 0 /\ Count(p, B) = 0 /\ Count(p, E) = 0
      BY <2>5 DEF Count
    <3> QED BY <2>1, <2>2, <3>1
  <2> QED BY <2>3, <2>4, <2>5
<1>2. \A p \in PageIDs : Uses(p)' = Uses(p) + Count(p, A) - Count(p, B) - Count(p, E)
  BY <1>1
<1>3. PinsMatchUse /\ stack \in Seq(PageIDs) /\ Pool(A, B, E)
  OBVIOUS
<1> QED BY ONLY <1>2, <1>3, PoolPins

\* ... and the innermost frame its page too when it returns.
LEMMA AscendPins ==
  ASSUME PinsMatchUse, stack \in Seq(PageIDs), NEW A, NEW B, NEW E, Pool(A, B, E),
         stack # <<>>, stack' = Front(stack), to_write_page' = to_write_page,
         NEW l, l = Last(stack), l \notin A, A \cup {l} = B \cup E, B \cap E = {}
  PROVE  PinsMatchUse'
<1>1. ASSUME NEW p \in PageIDs PROVE Uses(p)' = Uses(p) + Count(p, A) - Count(p, B) - Count(p, E)
  <2>1. PICK x, y, w : /\ x = InStack(stack, p) /\ y = InStack(stack', p)
                       /\ w = IF p = to_write_page THEN 1 ELSE 0
    OBVIOUS
  <2>2. x \in Nat /\ w \in Nat
    BY <2>1, InStackAppend
  <2>3. y = x - (IF p = l THEN 1 ELSE 0)
    BY <2>1, InStackFront
  <2>4. Uses(p) = x + w
    BY <2>1 DEF Uses
  <2>5. Uses(p)' = y + w
    BY <2>1 DEF Uses
  <2>6. CASE p = l /\ p \in B
    <3>1. Count(p, A) = 0 /\ Count(p, B) = 1 /\ Count(p, E) = 0
      BY <2>6 DEF Count
    <3> QED BY <2>2, <2>3, <2>4, <2>5, <2>6, <3>1
  <2>7. CASE p = l /\ p \in E
    <3>1. Count(p, A) = 0 /\ Count(p, B) = 0 /\ Count(p, E) = 1
      BY <2>7 DEF Count
    <3> QED BY <2>2, <2>3, <2>4, <2>5, <2>7, <3>1
  <2>8. CASE p # l /\ p \in B
    <3>1. Count(p, A) = 1 /\ Count(p, B) = 1 /\ Count(p, E) = 0
      BY <2>8 DEF Count
    <3> QED BY <2>2, <2>3, <2>4, <2>5, <2>8, <3>1
  <2>9. CASE p # l /\ p \in E
    <3>1. Count(p, A) = 1 /\ Count(p, B) = 0 /\ Count(p, E) = 1
      BY <2>9 DEF Count
    <3> QED BY <2>2, <2>3, <2>4, <2>5, <2>9, <3>1
  <2>10. CASE p # l /\ p \notin A
    <3>1. Count(p, A) = 0 /\ Count(p, B) = 0 /\ Count(p, E) = 0
      BY <2>10 DEF Count
    <3> QED BY <2>2, <2>3, <2>4, <2>5, <2>10, <3>1
  <2> QED BY <2>6, <2>7, <2>8, <2>9, <2>10
<1> QED BY <1>1, PoolPins

\* What a step changes it releases as dirty, or drops.
LEMMA NoneUnsaved ==
  ASSUME NEW A, NEW B, NEW E, Pool(A, B, E), NEW w, unsaved \subseteq {w},
         \A q \in PageIDs : q \in E \/ q = w \/ pages'[q] = pages[q] \/ pages'[q] = Free,
         unsaved \subseteq PageIDs
  PROVE  unsaved' \subseteq PageIDs /\ unsaved' \subseteq {w}
<1>1. unsaved' = {p \in (unsaved \cup {q \in PageIDs : pages'[q] # pages[q]}) \ E : pages'[p] # Free}
  BY DEF Pool
<1> QED BY <1>1

-----------------------------------------------------------------------------
\* Steps, as to what they pin.

Phases == {"idle", "insert", "unwind", "delete", "rebalance", "search", "return"}

\* No page is requested or released.
Untouched ==
  /\ pages' = pages /\ pins' = pins /\ unsaved' = unsaved
  /\ stack' = stack /\ to_write_page' = to_write_page
  /\ pc' \in Phases /\ (pc' # "unwind" => to_write_page = NoPage)
  /\ cur' \in PageIDs \cup {NoPage} /\ answer' \in BOOLEAN

LEMMA UntouchedPins == ASSUME PInv, Untouched PROVE PInv'
<1>1. PinsMatchUse'
  BY DEF PInv, Untouched, PinsMatchUse
<1> QED BY <1>1 DEF PInv, Untouched, Phases

\* What is requested is released in the same step.
Brief(A, B, E) ==
  /\ Pool(A, B, E) /\ A = B \cup E /\ B \cap E = {}
  /\ \A q \in PageIDs : q \notin E => pages'[q] = pages[q] \/ pages'[q] = Free
  /\ stack' = stack /\ to_write_page' = to_write_page
  /\ pc' \in Phases /\ (pc' # "unwind" => to_write_page = NoPage)
  /\ cur' \in PageIDs \cup {NoPage} /\ answer' \in BOOLEAN

LEMMA BriefPins ==
  ASSUME PInv, stack \in Seq(PageIDs), NEW A, NEW B, NEW E, Brief(A, B, E)
  PROVE  PInv'
<1>1. PinsMatchUse'
  <2>1. /\ PinsMatchUse /\ stack \in Seq(PageIDs) /\ Pool(A, B, E)
        /\ A = B \cup E /\ B \cap E = {} /\ stack' = stack /\ to_write_page' = to_write_page
    BY DEF PInv, Brief
  <2> QED BY ONLY <2>1, EvenPins
<1>2. unsaved' \subseteq PageIDs /\ unsaved' \subseteq {to_write_page'}
  <2>1. PICK w : w = to_write_page
    OBVIOUS
  <2>2. /\ Pool(A, B, E) /\ unsaved \subseteq {w} /\ unsaved \subseteq PageIDs
        /\ \A q \in PageIDs : q \in E \/ q = w \/ pages'[q] = pages[q] \/ pages'[q] = Free
    BY <2>1 DEF PInv, Brief
  <2>3. unsaved' \subseteq PageIDs /\ unsaved' \subseteq {w}
    BY ONLY <2>2, NoneUnsaved
  <2> QED BY <2>1, <2>3 DEF Brief
<1> QED BY <1>1, <1>2 DEF PInv, Brief, Phases

\* The innermost frame returns.
Leaving(A, B, E, l) ==
  /\ Pool(A, B, E) /\ l = Last(stack) /\ l \notin A /\ A \cup {l} = B \cup E /\ B \cap E = {}
  /\ \A q \in PageIDs : q \notin E => pages'[q] = pages[q] \/ pages'[q] = Free
  /\ stack # <<>> /\ stack' = Front(stack) /\ cur' = Last(stack)
  /\ pc' = pc /\ to_write_page' = to_write_page /\ answer' \in BOOLEAN

LEMMA LeavingPins ==
  ASSUME PInv, stack \in Seq(PageIDs), NEW A, NEW B, NEW E, NEW l, Leaving(A, B, E, l)
  PROVE  PInv'
<1>1. PinsMatchUse'
  <2>1. /\ PinsMatchUse /\ stack \in Seq(PageIDs) /\ Pool(A, B, E)
        /\ l = Last(stack) /\ l \notin A /\ A \cup {l} = B \cup E /\ B \cap E = {}
        /\ stack # <<>> /\ stack' = Front(stack) /\ to_write_page' = to_write_page
    BY DEF PInv, Leaving
  <2> QED BY ONLY <2>1, AscendPins
<1>2. unsaved' \subseteq PageIDs /\ unsaved' \subseteq {to_write_page'}
  <2>1. PICK w : w = to_write_page
    OBVIOUS
  <2>2. unsaved' \subseteq PageIDs /\ unsaved' \subseteq {w}
    BY <2>1, NoneUnsaved DEF PInv, Leaving
  <2> QED BY <2>1, <2>2 DEF Leaving
<1>3. cur' \in PageIDs
  BY FrontFacts DEF Leaving
<1> QED BY <1>1, <1>2, <1>3 DEF PInv, Leaving

LEMMA CallPins ==
  ASSUME PInv, Control, NEW kind \in {"insert", "delete", "search"}, NEW k, NEW s, Call(kind, k, s)
  PROVE  PInv'
<1>1. Untouched
  BY DEF PInv, Control, Call, tree, pool, Untouched, Phases
<1> QED BY <1>1, UntouchedPins

LEMMA ReturnPins == ASSUME PInv, Return PROVE PInv'
<1>1. Untouched
  BY DEF PInv, Return, tree, frame, pool, Untouched, Phases
<1> QED BY <1>1, UntouchedPins

LEMMA SearchPins == ASSUME PInv, OInv', Search PROVE PInv'
<1>1. ASSUME SearchDescend PROVE Untouched
  <2>1. pc' = "search" /\ pc = "search"
    BY <1>1 DEF SearchDescend
  <2>2. cur' \in PageIDs
    BY <2>1 DEF OInv, Aimed
  <2> QED BY <1>1, <2>1, <2>2 DEF PInv, SearchDescend, tree, pool, Untouched, Phases
<1>2. ASSUME SearchLeaf PROVE Untouched
  BY <1>2 DEF PInv, SearchLeaf, tree, pool, Untouched, Phases
<1> QED BY <1>1, <1>2, UntouchedPins DEF Search

LEMMA DeleteReturnsPins == ASSUME PInv, DeleteReturns PROVE PInv'
<1>1. Untouched
  BY DEF PInv, DeleteReturns, tree, pool, Untouched, Phases
<1> QED BY <1>1, UntouchedPins

LEMMA DescendPins == ASSUME PInv, BInv, BInv', Descend PROVE PInv'
<1>1. PICK c, s : c = cur /\ s = stack
  OBVIOUS
<1>2. /\ pc \in {"insert", "delete"} /\ pc' = pc /\ pages' = pages /\ answer' = answer
      /\ stack' = Append(s, c) /\ to_write_page' = to_write_page /\ Pool({c}, {}, {})
  BY <1>1 DEF Descend, tree
<1>3. c \in PageIDs /\ s \in Seq(PageIDs)
  <2>1. PICK h, up, place : Structure(h, up, place)
    BY DEF BInv
  <2> QED BY <1>1, <1>2, <2>1 DEF BInv, Control, Structure, Way, OnWay
<1>4. cur' \in PageIDs
  <2>1. PICK h, up, place : Structure(h, up, place)'
    BY DEF BInv
  <2> QED BY <1>2, <2>1 DEF Structure, Way, OnWay
<1>5. PinsMatchUse'
  <2>1. ASSUME NEW p \in PageIDs
        PROVE  Uses(p)' = Uses(p) + Count(p, {c}) - Count(p, {}) - Count(p, {})
    <3>1. PICK x, y, w : x = InStack(s, p) /\ y = InStack(stack', p) /\ w = IF p = to_write_page THEN 1 ELSE 0
      OBVIOUS
    <3>2. x \in Nat /\ w \in Nat /\ y = x + (IF p = c THEN 1 ELSE 0)
      BY <1>2, <1>3, <3>1, InStackAppend
    <3>3. Uses(p) = x + w
      BY <1>1, <3>1 DEF Uses
    <3>4. Uses(p)' = y + w
      BY <1>2, <3>1 DEF Uses
    <3>5. Count(p, {c}) = (IF p = c THEN 1 ELSE 0) /\ Count(p, {}) = 0
      BY DEF Count
    <3> QED BY <3>2, <3>3, <3>4, <3>5
  <2>2. \A p \in PageIDs : Uses(p)' = Uses(p) + Count(p, {c}) - Count(p, {}) - Count(p, {})
    BY <2>1
  <2>3. PinsMatchUse /\ stack \in Seq(PageIDs) /\ Pool({c}, {}, {})
    BY <1>1, <1>2, <1>3 DEF PInv
  <2> QED BY ONLY <2>2, <2>3, PoolPins
<1>6. unsaved' \subseteq PageIDs /\ unsaved' \subseteq {to_write_page'}
  <2>1. PICK w : w = to_write_page
    OBVIOUS
  <2>2. unsaved' \subseteq PageIDs /\ unsaved' \subseteq {w}
    BY <1>2, <2>1, NoneUnsaved DEF PInv
  <2> QED BY <1>2, <2>1, <2>2
<1> QED BY <1>2, <1>4, <1>5, <1>6 DEF PInv

LEMMA UnwindNoSplitPins == ASSUME PInv, Control, UnwindNoSplit PROVE PInv'
<1>1. PICK l : l = Last(stack)
  OBVIOUS
<1>2. Leaving({}, {l}, {}, l)
  BY <1>1 DEF PInv, UnwindNoSplit, Ascend, tree, Leaving
<1> QED BY <1>2, LeavingPins DEF Control

LEMMA NoUnderflowPins == ASSUME PInv, Control, NoUnderflow PROVE PInv'
<1>1. PICK l : l = Last(stack)
  OBVIOUS
<1>2. Leaving({}, {}, {l}, l)
  BY <1>1 DEF PInv, NoUnderflow, Returned, Ascend, tree, parent, Leaving
<1> QED BY <1>2, LeavingPins DEF Control

LEMMA NoSiblingPins == ASSUME PInv, Control, NoSibling PROVE PInv'
<1>1. PICK l : l = Last(stack)
  OBVIOUS
<1>2. Leaving({}, {l}, {}, l)
  BY <1>1 DEF PInv, NoSibling, Underflown, Returned, Ascend, tree, parent, Leaving
<1> QED BY <1>2, LeavingPins DEF Control

-----------------------------------------------------------------------------
\* An insertion, as to what it pins.

LEMMA ToWrite ==
  ASSUME PInv, stack \in Seq(PageIDs), to_write_page = NoPage, pc' = "unwind",
         cur' \in PageIDs \cup {NoPage}, answer' = answer, stack' = stack,
         NEW w \in PageIDs, to_write_page' = w, NEW E, w \notin E, Pool({w} \cup E, {}, E),
         \A q \in PageIDs : q \in E \/ q = w \/ pages'[q] = pages[q]
  PROVE  PInv'
<1>1. PICK A : A = {w} \cup E
  OBVIOUS
<1>2. NoPage \notin PageIDs
  BY BTreeAssumption
<1>3. ASSUME NEW p \in PageIDs
      PROVE  Uses(p)' = Uses(p) + Count(p, A) - Count(p, {}) - Count(p, E)
  <2>1. PICK x : x = InStack(stack, p)
    OBVIOUS
  <2>2. x \in Nat
    BY <2>1, InStackAppend
  <2>3. Uses(p) = x
    BY <1>2, <2>1, <2>2 DEF Uses
  <2>4. Uses(p)' = x + (IF p = w THEN 1 ELSE 0)
    BY <2>1 DEF Uses
  <2>5. Count(p, {}) = 0 /\ Count(p, A) = IF p = w \/ p \in E THEN 1 ELSE 0
    BY <1>1 DEF Count
  <2>6. Count(p, E) = IF p \in E THEN 1 ELSE 0
    BY DEF Count
  <2>7. CASE p = w
    BY <2>2, <2>3, <2>4, <2>5, <2>6, <2>7
  <2>8. CASE p \in E
    BY <2>2, <2>3, <2>4, <2>5, <2>6, <2>8
  <2>9. CASE p # w /\ p \notin E
    BY <2>2, <2>3, <2>4, <2>5, <2>6, <2>9
  <2> QED BY <2>7, <2>8, <2>9
<1>4. PinsMatchUse'
  <2>1. /\ PinsMatchUse /\ stack \in Seq(PageIDs) /\ Pool(A, {}, E)
        /\ \A p \in PageIDs : Uses(p)' = Uses(p) + Count(p, A) - Count(p, {}) - Count(p, E)
    BY <1>1, <1>3 DEF PInv
  <2> QED BY ONLY <2>1, PoolPins
<1>5. unsaved = {}
  BY <1>2 DEF PInv
<1>6. unsaved' \subseteq PageIDs /\ unsaved' \subseteq {w}
  <2>1. /\ Pool(A, {}, E) /\ unsaved \subseteq {w} /\ unsaved \subseteq PageIDs
        /\ \A q \in PageIDs : q \in E \/ q = w \/ pages'[q] = pages[q] \/ pages'[q] = Free
    BY <1>1, <1>5
  <2> QED BY ONLY <2>1, NoneUnsaved
<1> QED BY <1>4, <1>6 DEF PInv

LEMMA FindFitsPins == ASSUME PInv, BInv, OInv, FindFits PROVE PInv'
<1>1. PICK w : w = cur
  OBVIOUS
<1>2. /\ pc = "insert" /\ pc' = "unwind" /\ pages' = pages /\ answer' = answer /\ stack' = stack
      /\ cur' = w /\ to_write_page' = w /\ Pool({w}, {}, {})
  BY <1>1 DEF FindFits, tree
<1>3. w \in PageIDs
  BY <1>1, <1>2 DEF OInv, Aimed
<1>4. Pool({w} \cup {}, {}, {})
  <2>1. {w} \cup {} = {w}
    OBVIOUS
  <2> QED BY <1>2, <2>1
<1>5. /\ to_write_page = NoPage /\ stack \in Seq(PageIDs)
  BY <1>2 DEF PInv, BInv, Control
<1> QED BY <1>2, <1>3, <1>4, <1>5, ToWrite

LEMMA FindSplitPins == ASSUME PInv, BInv, OInv, RoomToGrow, FindSplit PROVE PInv'
<1>1. PICK c, n, w, o : /\ c = cur /\ n = NewPage /\ w = to_write_page'
                        /\ o = IF w = n THEN c ELSE n
  OBVIOUS
<1>2. /\ pc = "insert" /\ pc' = "unwind" /\ answer' = answer /\ stack' = stack /\ cur' = c
      /\ IsLeaf(c) /\ pages' = HandleSplit(c, n)
  BY <1>1 DEF FindSplit
<1>3. /\ c \in PageIDs /\ n \in PageIDs /\ pages[n] = Free /\ Pages
      /\ to_write_page = NoPage /\ stack \in Seq(PageIDs)
  BY <1>1, <1>2, NewPageIsFree DEF OInv, Aimed, PInv, BInv, Control
<1>4. c # n
  BY <1>2, <1>3, Shapes DEF IsLeaf
<1>5. w \in {c, n} /\ {w} \cup {o} = {c, n} /\ w \notin {o} /\ Pool({c, n}, {}, {o})
  BY <1>1, <1>4 DEF FindSplit
<1>6. \A q \in PageIDs : q \in {c, n} \/ pages'[q] = pages[q]
  <2>1. PICK y, z : pages' = [pages EXCEPT ![c] = y, ![n] = z]
    BY <1>2 DEF HandleSplit
  <2>2. pages = [q \in PageIDs |-> pages[q]]
    BY <1>3 DEF Pages
  <2> QED BY <2>1, <2>2
<1>7. PICK E : E = {o}
  OBVIOUS
<1>8. /\ w \notin E /\ Pool({w} \cup E, {}, E)
      /\ \A q \in PageIDs : q \in E \/ q = w \/ pages'[q] = pages[q]
  BY <1>5, <1>6, <1>7
<1>9. /\ w \in PageIDs /\ to_write_page' = w /\ cur' \in PageIDs \cup {NoPage}
  BY <1>1, <1>2, <1>3, <1>5
<1>10. PInv
  OBVIOUS
<1> QED BY ONLY <1>2, <1>3, <1>8, <1>9, <1>10, ToWrite

-----------------------------------------------------------------------------
\* Only some pages are changed.
LEMMA OnePage ==
  ASSUME Pages, NEW a, NEW x, pages' = [pages EXCEPT ![a] = x]
  PROVE  \A q \in PageIDs : q # a => pages'[q] = pages[q]
<1>1. pages = [q \in PageIDs |-> pages[q]]
  BY DEF Pages
<1> QED BY <1>1

LEMMA TwoPages ==
  ASSUME Pages, NEW a, NEW x, NEW b, NEW y, pages' = [pages EXCEPT ![a] = x, ![b] = y]
  PROVE  \A q \in PageIDs : q \notin {a, b} => pages'[q] = pages[q]
<1>1. pages = [q \in PageIDs |-> pages[q]]
  BY DEF Pages
<1> QED BY <1>1

LEMMA ThreePages ==
  ASSUME Pages, NEW a, NEW x, NEW b, NEW y, NEW c, NEW z,
         pages' = [pages EXCEPT ![a] = x, ![b] = y, ![c] = z]
  PROVE  \A q \in PageIDs : q \notin {a, b, c} => pages'[q] = pages[q]
<1>1. pages = [q \in PageIDs |-> pages[q]]
  BY DEF Pages
<1> QED BY <1>1

LEMMA UnwindInsertPins == ASSUME PInv, BInv, UnwindInsert PROVE PInv'
<1>1. PICK l, E, x : l = Last(stack) /\ E = {l} /\ pages' = [pages EXCEPT ![l] = x]
  BY DEF UnwindInsert
<1>2. \A q \in PageIDs : q \notin E => pages'[q] = pages[q]
  BY <1>1, OnePage DEF BInv
<1>3. /\ Pool({}, {}, E) /\ stack # <<>> /\ stack' = Front(stack) /\ cur' = Last(stack)
      /\ pc' = pc /\ to_write_page' = to_write_page /\ answer' = answer
  BY <1>1 DEF UnwindInsert, Ascend
<1>4. Leaving({}, {}, E, l)
  BY <1>1, <1>2, <1>3 DEF PInv, Leaving
<1> QED BY <1>4, LeavingPins DEF BInv, Control

LEMMA UnwindSplitPins == ASSUME PInv, BInv, RoomToGrow, UnwindSplit PROVE PInv'
<1>1. PICK l, n, x, y : l = Last(stack) /\ n = NewPage /\ pages' = [pages EXCEPT ![l] = x, ![n] = y]
  BY DEF UnwindSplit
<1>2. \A q \in PageIDs : q \notin {l, n} => pages'[q] = pages[q]
  BY <1>1, TwoPages DEF BInv
<1>3. /\ Pool({n}, {}, {l, n}) /\ stack # <<>> /\ stack' = Front(stack) /\ cur' = Last(stack)
      /\ pc' = pc /\ to_write_page' = to_write_page /\ answer' = answer
      /\ pc = "unwind" /\ report.type = "split"
  BY <1>1 DEF UnwindSplit, Ascend
<1>4. l # n
  <2>1. PICK h, up, place : Structure(h, up, place)
    BY DEF BInv
  <2>2. IsInternal(l)
    BY <1>1, <1>3, <2>1, OnTop DEF BInv, Structure, OnWay, parent
  <2>3. pages[n] = Free
    BY <1>1, NewPageIsFree
  <2> QED BY <2>2, <2>3, Shapes DEF IsInternal
<1>5. Leaving({n}, {}, {l, n}, l)
  BY <1>1, <1>2, <1>3, <1>4 DEF PInv, Leaving
<1> QED BY <1>5, LeavingPins DEF BInv, Control

LEMMA NewRootPins == ASSUME PInv, BInv, NewRoot PROVE PInv'
<1>1. PICK n, E, x : n = NewPage /\ E = {n} /\ pages' = [pages EXCEPT ![n] = x]
  BY DEF NewRoot
<1>2. \A q \in PageIDs : q \notin E => pages'[q] = pages[q]
  BY <1>1, OnePage DEF BInv
<1>3. /\ Pool(E, {}, E) /\ stack' = stack /\ cur' = cur
      /\ pc' = "unwind" /\ to_write_page' = to_write_page /\ answer' = answer
  BY <1>1 DEF NewRoot
<1>4. Brief(E, {}, E)
  BY <1>2, <1>3 DEF PInv, Brief, Phases
<1> QED BY <1>4, BriefPins DEF BInv, Control

LEMMA WriteTuplePins == ASSUME PInv, BInv, WriteTuple PROVE PInv'
<1>1. PICK w, E : w = to_write_page /\ E = {w}
  OBVIOUS
<1>2. /\ pc = "unwind" /\ pc' = "return" /\ answer' = TRUE /\ cur' = NoPage /\ to_write_page' = NoPage
      /\ stack' = stack /\ Pool({}, {}, E)
  BY <1>1 DEF WriteTuple
<1>3. w \in PageIDs /\ w # NoPage /\ NoPage \notin PageIDs /\ stack \in Seq(PageIDs)
  BY <1>1, <1>2, BTreeAssumption DEF BInv, Control
<1>4. \A q \in PageIDs : q \notin E => pages'[q] = pages[q]
  <2>1. PICK x : pages' = [pages EXCEPT ![w] = x]
    BY <1>1 DEF WriteTuple
  <2> QED BY <1>1, <2>1, OnePage DEF BInv
<1>5. ASSUME NEW p \in PageIDs
      PROVE  Uses(p)' = Uses(p) + Count(p, {}) - Count(p, {}) - Count(p, E)
  <2>1. PICK x : x = InStack(stack, p)
    OBVIOUS
  <2>2. x \in Nat
    BY <1>3, <2>1, InStackAppend
  <2>3. Uses(p) = x + (IF p = w THEN 1 ELSE 0)
    BY <1>1, <2>1 DEF Uses
  <2>4. Uses(p)' = x
    BY <1>2, <1>3, <2>1, <2>2 DEF Uses
  <2>5. Count(p, {}) = 0 /\ Count(p, E) = IF p = w THEN 1 ELSE 0
    BY <1>1 DEF Count
  <2> QED BY <2>2, <2>3, <2>4, <2>5
<1>6. PinsMatchUse'
  <2>1. /\ PinsMatchUse /\ stack \in Seq(PageIDs) /\ Pool({}, {}, E)
        /\ \A p \in PageIDs : Uses(p)' = Uses(p) + Count(p, {}) - Count(p, {}) - Count(p, E)
    BY <1>2, <1>3, <1>5 DEF PInv
  <2> QED BY ONLY <2>1, PoolPins
<1>7. unsaved' \subseteq PageIDs /\ unsaved' \subseteq {w}
  <2>1. /\ Pool({}, {}, E) /\ unsaved \subseteq {w} /\ unsaved \subseteq PageIDs
        /\ \A q \in PageIDs : q \in E \/ q = w \/ pages'[q] = pages[q] \/ pages'[q] = Free
    BY <1>1, <1>2, <1>4 DEF PInv
  <2> QED BY ONLY <2>1, NoneUnsaved
<1>8. w \notin unsaved'
  BY <1>1, <1>2 DEF Pool
<1> QED BY <1>2, <1>6, <1>7, <1>8 DEF PInv

LEMMA DeleteLeafPins == ASSUME PInv, BInv, OInv, DeleteLeaf PROVE PInv'
<1>1. PICK c, k, A : c = cur /\ k = DeleteTuple(pages[c].tuples, request.key) /\ A = {c}
  OBVIOUS
<1>2. /\ pc = "delete" /\ pc' = "rebalance" /\ stack' = stack /\ cur' = c /\ IsLeaf(c)
      /\ to_write_page' = to_write_page /\ answer' \in BOOLEAN
      /\ pages' = [pages EXCEPT ![c].tuples = k]
      /\ \/ Pool(A, {}, A)
         \/ k = pages[c].tuples /\ Pool(A, A, {})
  BY <1>1 DEF DeleteLeaf
<1>3. c \in PageIDs
  BY <1>1, <1>2 DEF OInv, Aimed
<1>4. /\ pages'[c] = [pages[c] EXCEPT !.tuples = k]
      /\ \A q \in PageIDs : q \notin A => pages'[q] = pages[q]
  <2>1. pages = [q \in PageIDs |-> pages[q]]
    BY DEF BInv, Pages
  <2> QED BY <1>1, <1>2, <1>3, <2>1
<1>5. CASE Pool(A, {}, A)
  <2>1. Brief(A, {}, A)
    BY <1>2, <1>3, <1>4, <1>5 DEF PInv, Brief, Phases
  <2> QED BY <2>1, BriefPins DEF BInv, Control
<1>6. CASE k = pages[c].tuples /\ Pool(A, A, {})
  <2>1. pages'[c] = pages[c]
    <3>1. PageShape(c)
      BY <1>3 DEF BInv, Pages
    <3>2. [pages[c] EXCEPT !.tuples = k] = Leaf(k, pages[c].left_pid, pages[c].right_pid)
      BY <1>2, <3>1, WithTuples
    <3>3. pages[c] = Leaf(pages[c].tuples, pages[c].left_pid, pages[c].right_pid)
      BY <1>2, <3>1, Shapes DEF PageShape, IsLeaf, IsInternal
    <3> QED BY <1>4, <1>6, <3>2, <3>3
  <2>2. \A q \in PageIDs : pages'[q] = pages[q]
    BY <1>1, <1>4, <2>1
  <2>3. Brief(A, A, {})
    BY <1>2, <1>3, <1>6, <2>2 DEF PInv, Brief, Phases
  <2> QED BY <2>3, BriefPins DEF BInv, Control
<1> QED BY <1>2, <1>5, <1>6

-----------------------------------------------------------------------------
\* Siblings lend: both are requested, and released with the parent.

LEMMA BorrowPins ==
  ASSUME PInv, BInv, NEW l, NEW c, NEW p, p = parent, p # l, p # c, stack # <<>>,
         Pool({l, c}, {}, {l, c, p}), Ascend(Settled), pc' = pc, to_write_page' = to_write_page,
         answer' = answer, \A q \in PageIDs : q \notin {l, c, p} => pages'[q] = pages[q]
  PROVE  PInv'
<1>1. Leaving({l, c}, {}, {l, c, p}, p)
  BY DEF PInv, Leaving, Ascend, parent
<1> QED BY <1>1, LeavingPins DEF BInv, Control

LEMMA LeafLeftBorrowPins == ASSUME PInv, BInv, LeafLeftBorrow PROVE PInv'
<1>1. PICK h, up, place : Structure(h, up, place)
  BY DEF BInv
<1>2. /\ pc = "rebalance" /\ stack # <<>> /\ report.type = "LeafPage" /\ pc' = pc
      /\ Ascend(Settled) /\ LeftLeafLends > 0 /\ answer' = answer /\ to_write_page' = to_write_page
  BY DEF LeafLeftBorrow, Underflown, Returned
<1>3. HasLeft
  BY <1>2 DEF LeftLeafLends
<1>4. /\ childIndex \in 1..Len(Kids(parent)) /\ Width(parent) \in Nat
      /\ Len(Kids(parent)) = Width(parent) + 1
  BY <1>1, <1>2, Family DEF BInv, OnWay
<1>5. PICK i : i = childIndex - 1
  OBVIOUS
<1>6. i \in 1..Len(Kids(parent)) /\ i # childIndex
  BY <1>3, <1>4, <1>5 DEF HasLeft
<1>7. PICK l, c, p, t, u, x :
        /\ l = leftSibling /\ c = cur /\ p = parent
        /\ pages' = [pages EXCEPT ![l].tuples = t, ![c].tuples = u, ![p] = x]
  BY DEF LeafLeftBorrow
<1>8. l = Kids(parent)[i]
  BY <1>5, <1>7 DEF leftSibling, parentPage, Kids
<1>9. p # l /\ p # c
  BY <1>2, <1>6, <1>7, <1>8, LeafFamily
<1>10. \A q \in PageIDs : q \notin {l, c, p} => pages'[q] = pages[q]
  BY <1>7 DEF BInv, Pages
<1>11. Pool({l, c}, {}, {l, c, p})
  BY <1>7 DEF LeafLeftBorrow
<1> QED BY <1>2, <1>7, <1>9, <1>10, <1>11, BorrowPins

LEMMA LeafRightBorrowPins == ASSUME PInv, BInv, LeafRightBorrow PROVE PInv'
<1>1. PICK h, up, place : Structure(h, up, place)
  BY DEF BInv
<1>2. /\ pc = "rebalance" /\ stack # <<>> /\ report.type = "LeafPage" /\ pc' = pc
      /\ Ascend(Settled) /\ RightLeafLends > 0 /\ answer' = answer /\ to_write_page' = to_write_page
  BY DEF LeafRightBorrow, Underflown, Returned
<1>3. HasRight
  BY <1>2 DEF RightLeafLends
<1>4. /\ childIndex \in 1..Len(Kids(parent)) /\ Width(parent) \in Nat
      /\ Len(Kids(parent)) = Width(parent) + 1
  BY <1>1, <1>2, Family DEF BInv, OnWay
<1>5. PICK i : i = childIndex + 1
  OBVIOUS
<1>6. i \in 1..Len(Kids(parent)) /\ i # childIndex
  BY <1>3, <1>4, <1>5 DEF HasRight, parentPage, Kids
<1>7. PICK l, c, p, t, u, x :
        /\ l = rightSibling /\ c = cur /\ p = parent
        /\ pages' = [pages EXCEPT ![l].tuples = t, ![c].tuples = u, ![p] = x]
  BY DEF LeafRightBorrow
<1>8. l = Kids(parent)[i]
  BY <1>5, <1>7 DEF rightSibling, parentPage, Kids
<1>9. p # l /\ p # c
  BY <1>2, <1>6, <1>7, <1>8, LeafFamily
<1>10. \A q \in PageIDs : q \notin {l, c, p} => pages'[q] = pages[q]
  BY <1>7 DEF BInv, Pages
<1>11. Pool({l, c}, {}, {l, c, p})
  BY <1>7 DEF LeafRightBorrow
<1> QED BY <1>2, <1>7, <1>9, <1>10, <1>11, BorrowPins

LEMMA InternalLeftBorrowPins == ASSUME PInv, BInv, InternalLeftBorrow PROVE PInv'
<1>1. PICK h, up, place : Structure(h, up, place)
  BY DEF BInv
<1>2. /\ pc = "rebalance" /\ stack # <<>> /\ report.type = "InternalPage" /\ pc' = pc
      /\ Ascend(Settled) /\ HasLeft /\ answer' = answer /\ to_write_page' = to_write_page
  BY DEF InternalLeftBorrow, LeftLends, Underflown, Returned
<1>3. Control /\ OnWay /\ Pages
  BY <1>2 DEF BInv, OnWay
<1>4. /\ childIndex \in 1..Len(Kids(parent)) /\ Width(parent) \in Nat
      /\ Len(Kids(parent)) = Width(parent) + 1 /\ Kids(parent)[childIndex] = cur
  BY <1>1, <1>2, <1>3, Family
<1>5. PICK i : i = childIndex - 1
  OBVIOUS
<1>6. i \in 1..Width(parent) /\ i + 1 = childIndex
  BY <1>2, <1>4, <1>5 DEF HasLeft
<1>7. PICK l, c, p, x, y, z :
        /\ l = leftSibling /\ c = cur /\ p = parent
        /\ pages' = [pages EXCEPT ![l] = x, ![c] = y, ![p] = z]
  BY DEF InternalLeftBorrow
<1>8. l = Kids(p)[i] /\ c = Kids(p)[i + 1]
  BY <1>4, <1>5, <1>6, <1>7 DEF leftSibling, parentPage, Kids
<1>9. p # l /\ p # c
  BY <1>1, <1>2, <1>3, <1>6, <1>7, <1>8, Siblings
<1>10. \A q \in PageIDs : q \notin {l, c, p} => pages'[q] = pages[q]
  BY <1>3, <1>7 DEF Pages
<1>11. Pool({l, c}, {}, {l, c, p})
  BY <1>7 DEF InternalLeftBorrow
<1> QED BY <1>2, <1>7, <1>9, <1>10, <1>11, BorrowPins

LEMMA InternalRightBorrowPins == ASSUME PInv, BInv, InternalRightBorrow PROVE PInv'
<1>1. PICK h, up, place : Structure(h, up, place)
  BY DEF BInv
<1>2. /\ pc = "rebalance" /\ stack # <<>> /\ report.type = "InternalPage" /\ pc' = pc
      /\ Ascend(Settled) /\ HasRight /\ answer' = answer /\ to_write_page' = to_write_page
  BY DEF InternalRightBorrow, RightLends, Underflown, Returned
<1>3. Control /\ OnWay /\ Pages
  BY <1>2 DEF BInv, OnWay
<1>4. /\ childIndex \in 1..Len(Kids(parent)) /\ Width(parent) \in Nat
      /\ Len(Kids(parent)) = Width(parent) + 1 /\ Kids(parent)[childIndex] = cur
  BY <1>1, <1>2, <1>3, Family
<1>5. PICK i : i = childIndex
  OBVIOUS
<1>6. i \in 1..Width(parent)
  BY <1>2, <1>4, <1>5 DEF HasRight, parentPage, Kids
<1>7. PICK l, c, p, x, y, z :
        /\ l = rightSibling /\ c = cur /\ p = parent
        /\ pages' = [pages EXCEPT ![c] = x, ![l] = y, ![p] = z]
  BY DEF InternalRightBorrow
<1>8. c = Kids(p)[i] /\ l = Kids(p)[i + 1]
  BY <1>4, <1>5, <1>6, <1>7 DEF rightSibling, parentPage, Kids
<1>9. p # l /\ p # c
  BY <1>1, <1>2, <1>3, <1>6, <1>7, <1>8, Siblings
<1>10. \A q \in PageIDs : q \notin {l, c, p} => pages'[q] = pages[q]
  BY <1>3, <1>7 DEF Pages
<1>11. Pool({l, c}, {}, {l, c, p})
  BY <1>7 DEF InternalRightBorrow
<1> QED BY <1>2, <1>7, <1>9, <1>10, <1>11, BorrowPins

-----------------------------------------------------------------------------
\* Merges: what is dropped is released as clean, the rest with the parent.

LEMMA BehindIsElsewhere ==
  ASSUME BInv, OInv, LeafMergeDue, NEW a, NEW b, NEW p, a = toPage, b = fromPage, p = parent
  PROVE  /\ a # b /\ p # a /\ p # b /\ b \notin Behind /\ p \notin Behind
         /\ a \in PageIDs /\ b \in PageIDs /\ p \in PageIDs /\ IsLeaf(a)
<1>1. PICK h, up, place : Structure(h, up, place)
  BY DEF BInv
<1>2. PICK R, Q : Ordered(R, Q)
  BY DEF OInv
<1>3. PICK i : i = MergeAt
  OBVIOUS
<1>4. /\ a \in PageIDs /\ b \in PageIDs /\ p \in PageIDs /\ a # b /\ p # a /\ p # b
      /\ IsLeaf(a) /\ IsLeaf(b) /\ IsInternal(p) /\ PageShape(p)
  BY <1>1, <1>3, LeafPlace
<1>5. b \in Leaves /\ p \notin Leaves
  BY <1>4, Kinds DEF Leaves
<1>6. Right[b] = pages[b].right_pid
  BY <1>4 DEF Right
<1>7. PICK n : n = Right[b]
  OBVIOUS
<1>8. R[b] \in SUBSET Int /\ R[b] # {} /\ (n = NoPage \/ (n \in Leaves /\ Next2(R[b], R[n])))
  BY <1>2, <1>5, <1>7 DEF Ordered, Chained
<1>9. n = NoPage \/ n \notin {b, p}
  <2>1. ~Next2(R[b], R[b])
    BY <1>8 DEF Next2
  <2> QED BY <1>5, <1>8, <2>1
<1>10. Behind = {n} \ {NoPage}
  BY <1>6, <1>7 DEF Behind
<1> QED BY <1>4, <1>9, <1>10

LEMMA LeavesMergedElsewhere ==
  ASSUME Pages, NEW z, pages' = LeavesMerged(z), NEW G, G = {toPage, fromPage, parent} \cup Behind
  PROVE  \A q \in PageIDs : q \notin G => pages'[q] = pages[q]
<1>1. PICK behind, told, a, b, p :
        /\ behind = pages[fromPage].right_pid /\ a = toPage /\ b = fromPage /\ p = parent
        /\ told = IF behind = NoPage THEN pages ELSE [pages EXCEPT ![behind].left_pid = a]
  OBVIOUS
<1>2. pages = [q \in PageIDs |-> pages[q]]
  BY DEF Pages
<1>3. /\ told = [q \in PageIDs |-> told[q]]
      /\ \A q \in PageIDs : q # behind \/ behind = NoPage => told[q] = pages[q]
  BY <1>1, <1>2
<1>4. PICK m, f : pages' = [told EXCEPT ![a] = m, ![b] = f, ![p] = z]
  BY <1>1 DEF LeavesMerged
<1>5. \A q \in PageIDs : q \notin {a, b, p} => pages'[q] = told[q]
  BY <1>3, <1>4
<1>6. \A q \in PageIDs : q \notin G => q \notin {a, b, p} /\ (q # behind \/ behind = NoPage)
  BY <1>1 DEF Behind
<1> QED BY <1>3, <1>5, <1>6

Merges(a, b, p, H) ==
  /\ a # b /\ p # a /\ p # b /\ b \notin H /\ p \notin H
  /\ pages'[b] = Free
  /\ \A q \in PageIDs : q \notin {a, b, p} \cup H => pages'[q] = pages[q]
  /\ p = Last(stack) /\ stack # <<>> /\ stack' = Front(stack) /\ cur' = Last(stack)
  /\ pc' = pc /\ to_write_page' = to_write_page /\ answer' \in BOOLEAN

LEMMA MergesPins ==
  ASSUME PInv, stack \in Seq(PageIDs), NEW a, NEW b, NEW p, NEW H, Merges(a, b, p, H),
         Pool({a, b} \cup H, {b}, {a, p} \cup H)
  PROVE  PInv'
<1>1. PICK A, B, E : A = {a, b} \cup H /\ B = {b} /\ E = {a, p} \cup H
  OBVIOUS
<1>2. p \notin A /\ A \cup {p} = B \cup E /\ B \cap E = {}
  BY <1>1 DEF Merges
<1>3. \A q \in PageIDs : q \notin E => pages'[q] = pages[q] \/ pages'[q] = Free
  <2>1. \A q \in PageIDs : q \notin E => q = b \/ q \notin {a, b, p} \cup H
    BY <1>1
  <2> QED BY <2>1 DEF Merges
<1>4. Pool(A, B, E)
  BY <1>1
<1>5. Leaving(A, B, E, p)
  BY <1>2, <1>3, <1>4 DEF Leaving, Merges
<1> QED BY <1>5, LeavingPins

\* The last two leaves are merged, and their parent is dropped too.
LEMMA RootMergesPins ==
  ASSUME PInv, stack \in Seq(PageIDs), NEW a, NEW b, NEW p, NEW H, Merges(a, b, p, H),
         pages'[p] = Free, Pool({a, b} \cup H, {b, p}, {a} \cup H)
  PROVE  PInv'
<1>1. PICK A, B, E : A = {a, b} \cup H /\ B = {b, p} /\ E = {a} \cup H
  OBVIOUS
<1>2. p \notin A /\ A \cup {p} = B \cup E /\ B \cap E = {}
  BY <1>1 DEF Merges
<1>3. \A q \in PageIDs : q \notin E => pages'[q] = pages[q] \/ pages'[q] = Free
  <2>1. \A q \in PageIDs : q \notin E => q = b \/ q = p \/ q \notin {a, b, p} \cup H
    BY <1>1
  <2> QED BY <2>1 DEF Merges
<1>4. Pool(A, B, E)
  BY <1>1
<1>5. Leaving(A, B, E, p)
  BY <1>2, <1>3, <1>4 DEF Leaving, Merges
<1> QED BY <1>5, LeavingPins

LEMMA LeafMergePins == ASSUME PInv, BInv, OInv, LeafMerge PROVE PInv'
<1>1. PICK a, b, p, H, z : /\ a = toPage /\ b = fromPage /\ p = parent /\ H = Behind
                           /\ z = DeleteKeyAndChildPtr(MergeAt)
  OBVIOUS
<1>2. /\ LeafMergeDue /\ pages' = LeavesMerged(z)
      /\ stack' = Front(stack) /\ cur' = Last(stack)
      /\ pc' = pc /\ to_write_page' = to_write_page /\ answer' = answer
      /\ Pool({a, b} \cup H, {b}, {a, p} \cup H)
  BY <1>1 DEF LeafMerge, Ascend
<1>3. /\ a # b /\ p # a /\ p # b /\ b \notin H /\ p \notin H
      /\ a \in PageIDs /\ b \in PageIDs /\ p \in PageIDs /\ IsLeaf(a)
  BY <1>1, <1>2, BehindIsElsewhere
<1>4. pages'[b] = Free
  BY <1>1, <1>2, <1>3, LeavesMergedFacts DEF BInv
<1>5. \A q \in PageIDs : q \notin {a, b, p} \cup H => pages'[q] = pages[q]
  BY <1>1, <1>2, LeavesMergedElsewhere DEF BInv
<1>6. stack # <<>> /\ stack \in Seq(PageIDs) /\ answer \in BOOLEAN
  BY <1>2 DEF LeafMergeDue, Underflown, Returned, BInv, Control, PInv
<1>7. Merges(a, b, p, H)
  BY <1>1, <1>2, <1>3, <1>4, <1>5, <1>6 DEF Merges, parent
<1> QED BY <1>2, <1>6, <1>7, MergesPins

LEMMA RootLeafMergePins == ASSUME PInv, BInv, OInv, RootLeafMerge PROVE PInv'
<1>1. PICK a, b, p, H, z : a = toPage /\ b = fromPage /\ p = parent /\ H = Behind /\ z = Free
  OBVIOUS
<1>2. /\ LeafMergeDue /\ pages' = LeavesMerged(z)
      /\ stack' = Front(stack) /\ cur' = Last(stack)
      /\ pc' = pc /\ to_write_page' = to_write_page /\ answer' = answer
      /\ Pool({a, b} \cup H, {b, p}, {a} \cup H)
  BY <1>1 DEF RootLeafMerge, Ascend
<1>3. /\ a # b /\ p # a /\ p # b /\ b \notin H /\ p \notin H
      /\ a \in PageIDs /\ b \in PageIDs /\ p \in PageIDs /\ IsLeaf(a)
  BY <1>1, <1>2, BehindIsElsewhere
<1>4. pages'[b] = Free /\ pages'[p] = Free
  BY <1>1, <1>2, <1>3, LeavesMergedFacts DEF BInv
<1>5. \A q \in PageIDs : q \notin {a, b, p} \cup H => pages'[q] = pages[q]
  BY <1>1, <1>2, LeavesMergedElsewhere DEF BInv
<1>6. stack # <<>> /\ stack \in Seq(PageIDs) /\ answer \in BOOLEAN
  BY <1>2 DEF LeafMergeDue, Underflown, Returned, BInv, Control, PInv
<1>7. Merges(a, b, p, H)
  BY <1>1, <1>2, <1>3, <1>4, <1>5, <1>6 DEF Merges, parent
<1> QED BY <1>2, <1>4, <1>6, <1>7, RootMergesPins

LEMMA InternalMergePins == ASSUME PInv, BInv, InternalMerge PROVE PInv'
<1>1. PICK a, b, p, i, x, f, z :
        /\ a = toPage /\ b = fromPage /\ p = parent /\ i = MergeAt /\ f = Free
        /\ pages' = [pages EXCEPT ![a] = x, ![b] = f, ![p] = z]
  BY DEF InternalMerge
<1>2. /\ InternalMergeDue /\ stack' = Front(stack) /\ cur' = Last(stack)
      /\ pc' = pc /\ to_write_page' = to_write_page /\ answer' = answer
      /\ Pool({a, b}, {b}, {a, p})
  BY <1>1 DEF InternalMerge, Ascend
<1>3. /\ a # b /\ p # a /\ p # b /\ a \in PageIDs /\ b \in PageIDs /\ p \in PageIDs
  BY <1>1, <1>2, MergeFits
<1>4. pages = [q \in PageIDs |-> pages[q]]
  BY DEF BInv, Pages
<1>5. pages'[b] = f /\ \A q \in PageIDs : q \notin {a, b, p} => pages'[q] = pages[q]
  BY <1>1, <1>3, <1>4, Update3
<1>6. stack # <<>> /\ stack \in Seq(PageIDs) /\ answer \in BOOLEAN
  BY <1>2 DEF InternalMergeDue, Underflown, Returned, BInv, Control, PInv
<1>7. PICK H : H = {}
  OBVIOUS
<1>8. {a, b} = {a, b} \cup H /\ {a, p} = {a, p} \cup H /\ {a, b, p} \cup H = {a, b, p}
  BY <1>7
<1>9. Merges(a, b, p, H)
  BY <1>1, <1>2, <1>3, <1>5, <1>6, <1>7, <1>8 DEF Merges, parent
<1>10. Pool({a, b} \cup H, {b}, {a, p} \cup H)
  BY <1>2, <1>8
<1> QED BY <1>6, <1>9, <1>10, MergesPins

-----------------------------------------------------------------------------
\* Every step, as to what is pinned.

LEMMA InitPins == ASSUME Init PROVE PInv
<1>1. /\ pc = "idle" /\ cur = NoPage /\ stack = <<>> /\ to_write_page = NoPage /\ answer = FALSE
      /\ pins = [p \in PageIDs |-> 0] /\ unsaved = {}
  BY DEF Init
<1>2. \A p \in PageIDs : p # NoPage /\ InStack(stack, p) = 0
  <2> TAKE p \in PageIDs
  <2>1. p # NoPage
    BY BTreeAssumption
  <2>2. {n \in DOMAIN stack : stack[n] = p} = {}
    BY <1>1
  <2>3. InStack(stack, p) = Cardinality({})
    BY <2>2 DEF InStack
  <2> QED BY <2>1, <2>3, FS_EmptySet
<1>3. PinsMatchUse
  <2>1. pins = [p \in PageIDs |-> InStack(stack, p) + (IF p = to_write_page THEN 1 ELSE 0)]
    BY <1>1, <1>2
  <2> QED BY <2>1 DEF PinsMatchUse, InStack
<1> QED BY <1>1, <1>3 DEF PInv

LEMMA StutterPins == ASSUME PInv, UNCHANGED vars PROVE PInv'
<1>1. Untouched
  BY DEF vars, tree, frame, pool, Untouched, PInv, Phases
<1> QED BY <1>1, UntouchedPins

LEMMA StepPins == ASSUME PInv, BInv, OInv, BInv', OInv', RoomToGrow, [Next]_vars PROVE PInv'
<1>1. Control
  BY DEF BInv
<1>2. ASSUME Calls PROVE PInv'
  BY <1>1, <1>2, CallPins DEF Calls
<1>3. ASSUME Descend PROVE PInv'
  BY <1>3, DescendPins
<1>4. ASSUME Insert PROVE PInv'
  BY <1>1, <1>4, FindFitsPins, FindSplitPins, UnwindNoSplitPins, UnwindInsertPins,
     UnwindSplitPins, NewRootPins, WriteTuplePins DEF Insert, FindPageToWrite
<1>5. ASSUME Search PROVE PInv'
  BY <1>5, SearchPins
<1>6. ASSUME Delete PROVE PInv'
  BY <1>1, <1>6, DeleteLeafPins, DeleteReturnsPins, NoUnderflowPins, NoSiblingPins,
     LeafLeftBorrowPins, LeafRightBorrowPins, LeafMergePins, RootLeafMergePins,
     InternalLeftBorrowPins, InternalRightBorrowPins, InternalMergePins
     DEF Delete, RebalanceLeaf, RebalanceInternal
<1>7. ASSUME Return PROVE PInv'
  BY <1>7, ReturnPins
<1>8. ASSUME UNCHANGED vars PROVE PInv'
  BY <1>8, StutterPins
<1> QED BY <1>2, <1>3, <1>4, <1>5, <1>6, <1>7, <1>8 DEF Next, Step

\* Types.

LEMMA PageTypes == ASSUME BInv, OInv, NEW p \in PageIDs PROVE PageType(p)
<1>1. PICK R, Q : Ordered(R, Q)
  BY DEF OInv
<1>2. PageShape(p)
  BY DEF BInv, Pages
<1>3. CASE IsLeaf(p)
  <2>1. /\ Held(pages[p].tuples, R[p]) /\ pages[p].left_pid \in PageIDs \cup {NoPage}
    BY <1>1, <1>3 DEF Ordered, LeafOrder
  <2>2. pages[p].right_pid \in PageIDs \cup {NoPage}
    <3>1. p \in Leaves /\ Right[p] = pages[p].right_pid
      BY <1>3 DEF Leaves, Right
    <3>2. Right[p] = NoPage \/ Right[p] \in Leaves
      BY <1>1, <3>1 DEF Ordered, Chained
    <3> QED BY <3>1, <3>2 DEF Leaves
  <2>3. pages[p].tuples \in Seq([key : Keys, size : Nat \ {0}])
    <3>1. PICK T, s : T = [key : Keys, size : Nat \ {0}] /\ s = pages[p].tuples
      OBVIOUS
    <3>2. \A t \in Entry : t \in T
      BY <3>1 DEF Entry
    <3>3. s \in Seq(Entry)
      BY <2>1, <3>1 DEF Held
    <3>4. s \in Seq(T)
      BY ONLY <3>2, <3>3
    <3> QED BY <3>1, <3>4
  <2> QED BY <1>3, <2>1, <2>2, <2>3 DEF PageType
<1>4. CASE IsInternal(p)
  BY <1>1, <1>4 DEF PageType, Ordered, NodeOrder, Node, Kids
<1>5. CASE pages[p] = Free
  BY <1>5 DEF PageType
<1> QED BY <1>2, <1>3, <1>4, <1>5 DEF PageShape

LEMMA KidsAreInUse ==
  ASSUME BInv, NEW p \in PageIDs, IsInternal(p), NEW c \in ToSet(pages[p].children)
  PROVE  pages[c] # Free
<1>1. PICK h, up, place : Structure(h, up, place)
  BY DEF BInv
<1>2. PICK i \in DOMAIN Kids(p) : c = Kids(p)[i]
  BY DEF ToSet, Kids
<1>3. c \in PageIDs /\ Used(c)
  BY <1>1, <1>2, KidsFacts DEF BInv
<1> QED BY <1>3, Kinds DEF BInv, Pages

LEMMA TypesOK == ASSUME BInv, OInv, PInv PROVE TypeOK
<1>1. PICK R, Q : Aimed(R)
  BY DEF OInv
<1>2. \A p \in PageIDs : PageType(p)
  BY PageTypes
<1>3. \A p \in PageIDs : IsInternal(p) => Free \notin {pages[c] : c \in ToSet(pages[p].children)}
  BY KidsAreInUse
<1>4. root \in PageIDs /\ pages[root] # Free
  BY Kinds DEF BInv, Control, Pages
<1>5. request # NoRequest => request.key \in Keys
  BY <1>1 DEF Aimed
<1>6. stack \in Seq(PageIDs)
  BY DEF BInv, Control
<1>7. pins \in [PageIDs -> Nat]
  <2>1. pins = [p \in PageIDs |-> Uses(p)]
    BY DEF PInv, PinsMatchUse, Uses, InStack
  <2> QED BY <1>6, <2>1, UsesNat
<1> QED BY <1>2, <1>3, <1>4, <1>5, <1>6, <1>7 DEF TypeOK, PInv

LEMMA UnsavedPinned == ASSUME BInv, PInv PROVE ModifiedArePinned
<1> SUFFICES ASSUME NEW p \in unsaved PROVE pins[p] > 0
  BY DEF ModifiedArePinned
<1>1. p \in PageIDs /\ p = to_write_page
  BY DEF PInv
<1>2. InStack(stack, p) \in Nat
  BY <1>1, InStackAppend DEF BInv, Control
<1>3. pins[p] = InStack(stack, p) + 1
  BY <1>1 DEF PInv, PinsMatchUse, InStack
<1> QED BY <1>2, <1>3

-----------------------------------------------------------------------------
\* Theorems.

\* Between any two steps of a call the tree holds the pages its frames need, and the leaf
\* it is to write to, and none but this leaf is changed and not yet released as dirty.
THEOREM Pinning == ASSUME Residues = {0} PROVE Spec /\ []RoomToGrow => [](BInv /\ OInv /\ PInv)
<1>1. Init => PInv
  BY InitPins
<1>2. PInv /\ BInv /\ OInv /\ BInv' /\ OInv' /\ RoomToGrow /\ [Next]_vars => PInv'
  BY StepPins
<1> QED BY <1>1, <1>2, Order, PTL DEF Spec

\* The state of the tree has its types throughout: pages, children, the stack of frames.
THEOREM Types == ASSUME Residues = {0} PROVE Spec /\ []RoomToGrow => []TypeOK
<1>1. BInv /\ OInv /\ PInv => TypeOK
  BY TypesOK
<1> QED BY <1>1, Pinning, PTL

\* Every path through InsertTuple, FindPageToWrite and Delete releases the pages it
\* requested, also when pages are split, lend or are merged.
THEOREM PinsAreReleased == ASSUME Residues = {0} PROVE Spec /\ []RoomToGrow => []PinsMatchUse
<1>1. PInv => PinsMatchUse
  BY DEF PInv
<1> QED BY <1>1, Pinning, PTL

\* A modified page is pinned until it is released as dirty, so that no eviction takes it
\* before the pool knows that it is to be saved.
THEOREM ChangesAreSafe == ASSUME Residues = {0} PROVE Spec /\ []RoomToGrow => []ModifiedArePinned
<1>1. BInv /\ PInv => ModifiedArePinned
  BY UnsavedPinned
<1> QED BY <1>1, Pinning, PTL

-----------------------------------------------------------------------------
\* What is stored: the tuples of all leaves.

Lies(q, t) == IsLeaf(q) /\ In(pages[q].tuples, t)
Stock == {t \in Entry : \E q \in PageIDs : Lies(q, t)}

\* What the chain of leaves is read as.
Shelf ==
  /\ Contents = [k \in StoredKeys |-> Contents[k]]
  /\ \A k : k \in StoredKeys <=> \E t \in Stock : t.key = k
  /\ \A t \in Stock : Contents[t.key] = t.size

LEMMA ShelfIs == ASSUME BInv, OInv PROVE Shelf
<1>1. PICK R, Q : Ordered(R, Q) /\ Cleft(R, Q)
  BY DEF OInv
<1>2. PICK ts : ts = AllTuples
  OBVIOUS
<1>3. /\ Held(ts, Int) /\ \A k : k \in StoredKeys <=> Has(ts, k)
      /\ \A t : In(ts, t) <=> \E p \in Leaves : In(pages[p].tuples, t)
  BY <1>1, <1>2, TuplesStored
<1>4. PICK n : n = Len(ts)
  OBVIOUS
<1>5. /\ n \in Nat /\ DOMAIN ts = 1..n /\ \A i \in 1..n : ts[i] \in Entry /\ ts[i].key \in Int
      /\ \A i, j \in 1..n : i < j => ts[i].key < ts[j].key
  BY <1>3, <1>4, HeldFacts
<1>6. \A t : t \in Stock <=> In(ts, t)
  <2>1. \A t : In(ts, t) => t \in Entry
    BY <1>4, <1>5 DEF In
  <2> QED BY <1>3, <2>1 DEF Stock, Lies, Leaves
<1>7. Contents = [k \in StoredKeys |-> ts[CHOOSE i \in DOMAIN ts : ts[i].key = k].size]
  BY <1>2 DEF Contents
<1>8. \A k : k \in StoredKeys <=> \E t \in Stock : t.key = k
  BY <1>3, <1>6 DEF Has, In
<1>9. ASSUME NEW t \in Stock PROVE Contents[t.key] = t.size
  <2>1. PICK i \in 1..n : ts[i] = t
    BY <1>4, <1>6 DEF In
  <2>2. PICK j : j = CHOOSE m \in DOMAIN ts : ts[m].key = t.key
    OBVIOUS
  <2>3. j \in 1..n /\ ts[j].key = t.key
    BY <1>5, <2>1, <2>2
  <2>4. i = j
    <3>1. ~(ts[i].key < ts[j].key) /\ ~(ts[j].key < ts[i].key)
      BY <1>5, <2>1, <2>3
    <3>2. ~(i < j) /\ ~(j < i)
      BY <1>5, <2>1, <2>3, <3>1
    <3> QED BY <1>5, <2>1, <2>3, <3>2
  <2>5. t.key \in StoredKeys
    BY <1>8
  <2> QED BY <1>7, <2>1, <2>2, <2>4, <2>5
<1>10. Contents = [k \in StoredKeys |-> Contents[k]]
  BY <1>7
<1> QED BY <1>8, <1>9, <1>10 DEF Shelf

\* How what is read changes with what is stored.

LEMMA SameStock ==
  ASSUME Shelf, Shelf', Stock' = Stock
  PROVE  Contents' = Contents
<1>1. PICK c, d, K, L : c = Contents /\ d = Contents' /\ K = StoredKeys /\ L = StoredKeys'
  OBVIOUS
<1>2. /\ c = [k \in K |-> c[k]] /\ d = [k \in L |-> d[k]]
      /\ \A k : k \in K <=> \E t \in Stock : t.key = k
      /\ \A k : k \in L <=> \E t \in Stock : t.key = k
      /\ \A t \in Stock : c[t.key] = t.size /\ d[t.key] = t.size
  BY <1>1 DEF Shelf
<1>3. K = L
  BY <1>2
<1>4. \A k \in K : c[k] = d[k]
  BY <1>2
<1>5. c = d
  BY <1>2, <1>3, <1>4
<1> QED BY <1>1, <1>5

LEMMA MoreStock ==
  ASSUME Shelf, Shelf', NEW u, Stock' = Stock \cup {u}, u.key \notin StoredKeys
  PROVE  /\ DOMAIN Contents = StoredKeys
         /\ Contents' = [j \in DOMAIN Contents \cup {u.key} |-> IF j = u.key THEN u.size ELSE Contents[j]]
<1>1. PICK c, d, K, L : c = Contents /\ d = Contents' /\ K = StoredKeys /\ L = StoredKeys'
  OBVIOUS
<1>2. /\ c = [k \in K |-> c[k]] /\ d = [k \in L |-> d[k]] /\ u.key \notin K
      /\ \A k : k \in K <=> \E t \in Stock : t.key = k
      /\ \A k : k \in L <=> \E t \in Stock \cup {u} : t.key = k
      /\ \A t \in Stock : c[t.key] = t.size /\ d[t.key] = t.size
      /\ d[u.key] = u.size
  BY <1>1 DEF Shelf
<1>3. L = K \cup {u.key} /\ DOMAIN c = K
  BY <1>2
<1>4. \A k \in L : d[k] = IF k = u.key THEN u.size ELSE c[k]
  <2> SUFFICES ASSUME NEW k \in L, k # u.key PROVE d[k] = c[k]
    BY <1>2
  <2>1. PICK t \in Stock : t.key = k
    BY <1>2
  <2> QED BY <1>2, <2>1
<1>5. d = [k \in L |-> IF k = u.key THEN u.size ELSE c[k]]
  BY <1>2, <1>4
<1> QED BY <1>1, <1>3, <1>5

LEMMA LessStock ==
  ASSUME Shelf, Shelf', NEW k, Stock' = {t \in Stock : t.key # k}
  PROVE  /\ DOMAIN Contents = StoredKeys
         /\ Contents' = [j \in DOMAIN Contents \ {k} |-> Contents[j]]
<1>1. PICK c, d, K, L : c = Contents /\ d = Contents' /\ K = StoredKeys /\ L = StoredKeys'
  OBVIOUS
<1>2. /\ c = [j \in K |-> c[j]] /\ d = [j \in L |-> d[j]]
      /\ \A j : j \in K <=> \E t \in Stock : t.key = j
      /\ \A j : j \in L <=> \E t \in Stock : t.key # k /\ t.key = j
      /\ \A t \in Stock : c[t.key] = t.size
      /\ \A t \in Stock : t.key # k => d[t.key] = t.size
  BY <1>1 DEF Shelf
<1>3. L = K \ {k} /\ DOMAIN c = K
  BY <1>2
<1>4. \A j \in L : d[j] = c[j]
  BY <1>2
<1>5. d = [j \in L |-> c[j]]
  BY <1>2, <1>4
<1> QED BY <1>1, <1>3, <1>5

-----------------------------------------------------------------------------
\* Steps that store nothing and remove nothing.

\* Pages outside G keep what lies in them, those in G keep it among them.
Shifted(G) ==
  /\ G \subseteq PageIDs
  /\ \A q \in PageIDs \ G : \A t : Lies(q, t)' <=> Lies(q, t)
  /\ \A t : (\E q \in G : Lies(q, t)') <=> (\E q \in G : Lies(q, t))

LEMMA StockStays == ASSUME NEW G, Shifted(G) PROVE Stock' = Stock
<1>1. \A t : (\E q \in PageIDs : Lies(q, t)') <=> (\E q \in PageIDs : Lies(q, t))
  BY DEF Shifted
<1> QED BY <1>1 DEF Stock

\* Internal pages have no tuples.
LEMMA NoTuples ==
  ASSUME NEW G, G \subseteq PageIDs, \A q \in PageIDs \ G : pages'[q] = pages[q],
         \A q \in G : ~IsLeaf(q) /\ ~IsLeaf(q)'
  PROVE  Stock' = Stock
<1>1. \A q \in PageIDs \ G : \A t : Lies(q, t)' <=> Lies(q, t)
  BY DEF Lies, IsLeaf
<1>2. \A q \in G : \A t : ~Lies(q, t) /\ ~Lies(q, t)'
  BY DEF Lies
<1> QED BY <1>1, <1>2, StockStays DEF Shifted

-----------------------------------------------------------------------------
\* What a call is about.
Suits ==
  /\ pc \in {"insert", "unwind"} => request.kind = "insert"
  /\ pc \in {"delete", "rebalance"} => request.kind = "delete"
  /\ pc = "search" => request.kind = "search"

LEMMA InitSuits == ASSUME Init PROVE Suits
  BY DEF Init, Suits

LEMMA StepSuits == ASSUME Suits, [Next]_vars PROVE Suits'
<1>1. CASE Calls
  BY <1>1 DEF Calls, Call, Suits
<1>2. CASE Descend
  BY <1>2 DEF Descend, Suits
<1>3. CASE Insert
  BY <1>3 DEF Insert, FindPageToWrite, FindFits, FindSplit, UnwindNoSplit, UnwindInsert,
              UnwindSplit, NewRoot, WriteTuple, Suits
<1>4. CASE Search
  BY <1>4 DEF Search, SearchDescend, SearchLeaf, Suits
<1>5. CASE DeleteLeaf \/ DeleteReturns \/ NoUnderflow \/ NoSibling
  BY <1>5 DEF DeleteLeaf, DeleteReturns, NoUnderflow, NoSibling, Suits, Underflown, Returned
<1>6. CASE RebalanceLeaf
  BY <1>6 DEF RebalanceLeaf, LeafLeftBorrow, LeafRightBorrow, LeafMerge, RootLeafMerge, Suits,
              LeafMergeDue, Underflown, Returned
<1>7. CASE RebalanceInternal
  BY <1>7 DEF RebalanceInternal, InternalLeftBorrow, InternalRightBorrow, InternalMerge, Suits,
              InternalMergeDue, Underflown, Returned
<1>8. CASE Return
  BY <1>8 DEF Return, Suits
<1>9. CASE UNCHANGED vars
  BY <1>9 DEF vars, frame, tree, Suits
<1> QED BY <1>1, <1>2, <1>3, <1>4, <1>5, <1>6, <1>7, <1>8, <1>9 DEF Next, Step, Delete

-----------------------------------------------------------------------------
\* A key is stored in the leaf that is for it, or nowhere.

LEMMA LeafAlone ==
  ASSUME BInv, NEW R, NEW Q, Ordered(R, Q), Cleft(R, Q),
         NEW p \in PageIDs, NEW q \in PageIDs, IsLeaf(p), IsLeaf(q), NEW k \in Int, k \in R[p], k \in R[q]
  PROVE  p = q
<1>1. PICK C : LinedUp(Leaves, R, C)
  BY ChainIs
<1>2. PICK n : n = Len(C)
  OBVIOUS
<1>3. /\ n \in Nat /\ \A i, j \in 1..n : i < j => Before(R[C[i]], R[C[j]])
      /\ \A o \in Leaves : \E i \in 1..n : C[i] = o
  BY <1>1, <1>2 DEF LinedUp, InOrder
<1>4. PICK i \in 1..n, j \in 1..n : C[i] = p /\ C[j] = q
  BY <1>3 DEF Leaves
<1>5. ~(i < j) /\ ~(j < i)
  BY <1>3, <1>4 DEF Before
<1>6. i = j
  BY <1>3, <1>5
<1> QED BY <1>4, <1>6

LEMMA OnlyHere ==
  ASSUME BInv, Shelf, NEW R, NEW Q, Ordered(R, Q), Cleft(R, Q),
         NEW p \in PageIDs, IsLeaf(p), NEW k \in Int, k \in R[p]
  PROVE  /\ k \in StoredKeys <=> Has(pages[p].tuples, k)
         /\ \A q \in PageIDs : \A t : Lies(q, t) /\ t.key = k => q = p
<1>1. \A q \in PageIDs : IsLeaf(q) => Held(pages[q].tuples, R[q])
  BY DEF Ordered, LeafOrder
<1>2. ASSUME NEW q \in PageIDs, NEW t, Lies(q, t), t.key = k PROVE q = p
  <2>1. PICK i \in 1..Len(pages[q].tuples) : pages[q].tuples[i] = t
    BY <1>2 DEF Lies, In
  <2>2. k \in R[q] /\ IsLeaf(q)
    BY <1>1, <1>2, <2>1, HeldFacts DEF Lies
  <2> QED BY <2>2, LeafAlone
<1>3. ASSUME k \in StoredKeys PROVE Has(pages[p].tuples, k)
  <2>1. PICK t \in Stock : t.key = k
    BY <1>3 DEF Shelf
  <2>2. PICK q \in PageIDs : Lies(q, t)
    BY DEF Stock
  <2> QED BY <1>2, <2>1, <2>2 DEF Lies, In, Has
<1>4. ASSUME Has(pages[p].tuples, k) PROVE k \in StoredKeys
  <2>1. PICK i \in 1..Len(pages[p].tuples) : pages[p].tuples[i].key = k
    BY <1>4 DEF Has
  <2>2. pages[p].tuples[i] \in Entry
    BY <1>1, <2>1, HeldFacts
  <2>3. pages[p].tuples[i] \in Stock
    BY <2>1, <2>2 DEF Stock, Lies, In
  <2> QED BY <2>1, <2>3 DEF Shelf
<1> QED BY <1>2, <1>3, <1>4

-----------------------------------------------------------------------------
\* One leaf is written.
LEMMA OneLeaf ==
  ASSUME NEW R, NEW Q, NEW p, NEW w, Rewriting(R, Q, p, w)
  PROVE  /\ \A q \in PageIDs : q # p => \A t : Lies(q, t)' <=> Lies(q, t)
         /\ \A t : /\ Lies(p, t) <=> In(pages[p].tuples, t)
                   /\ Lies(p, t)' <=> In(w, t)
<1>1. p \in PageIDs /\ IsLeaf(p)
  BY DEF Rewriting
<1>2. /\ pages'[p].tuples = w /\ \A q \in PageIDs : q # p => pages'[q] = pages[q]
      /\ \A q \in PageIDs : IsLeaf(q)' <=> IsLeaf(q)
  BY LeafWritten
<1>3. \A q \in PageIDs : \A t : Lies(q, t)' <=> IsLeaf(q) /\ In(pages'[q].tuples, t)
  BY <1>2 DEF Lies
<1> QED BY <1>1, <1>2, <1>3 DEF Lies

LEMMA MissingIs ==
  ASSUME Shelf, NEW k, Missing(k)
  PROVE  k \notin StoredKeys
<1> SUFFICES ASSUME k \in StoredKeys PROVE FALSE
  OBVIOUS
<1>1. PICK t \in Stock : t.key = k
  BY DEF Shelf
<1>2. PICK q \in PageIDs : IsLeaf(q) /\ In(pages[q].tuples, t)
  BY DEF Stock, Lies
<1>3. Has(pages[q].tuples, k)
  BY <1>1, <1>2 DEF In, Has
<1> QED BY <1>2, <1>3 DEF Missing

\* Insert takes effect when the tuple is written.
LEMMA WriteApplies == ASSUME BInv, OInv, Suits, Shelf, Shelf', WriteTuple PROVE D!Apply
<1>1. PICK R, Q : Ordered(R, Q) /\ Cleft(R, Q) /\ Aimed(R)
  BY DEF OInv
<1>2. PICK p, w, k, s, ts : /\ p = to_write_page /\ k = request.key /\ s = request.size
                            /\ ts = pages[p].tuples
                            /\ w = WriteChunkLeaf(ts, [key |-> k, size |-> s])
  OBVIOUS
<1>3. /\ root' = root /\ pc = "unwind" /\ pc' = "return" /\ request' = request /\ answer' = TRUE
      /\ pages' = [pages EXCEPT ![p].tuples = WriteChunkLeaf(@, [key |-> k, size |-> s])]
  BY <1>2 DEF WriteTuple
<1>4. p \in PageIDs /\ IsLeaf(p) /\ Pages
  BY <1>2, <1>3 DEF BInv, Control
<1>5. k \in R[p] /\ Fits(p) /\ k \in Keys /\ s \in Sizes /\ ~Has(ts, k) /\ Missing(k)
  BY <1>1, <1>2, <1>3, <1>4 DEF Aimed, Missing
<1>6. PICK S : S = R[p]
  OBVIOUS
<1>7. Writing(ts, S, k, s, w)
  <2>1. Held(ts, S)
    BY <1>1, <1>2, <1>4, <1>6 DEF Ordered, LeafOrder
  <2>2. Least(MIN_LEAF_PAGE_DATA, s) <= LEAF_SPACE - Space(ts)
    BY <1>2, <1>5 DEF Fits
  <2> QED BY <1>2, <1>5, <1>6, <2>1, <2>2 DEF Writing
<1>8. /\ Held(w, S) /\ Space(w) <= LEAF_SPACE
      /\ \E u : PutBehind(u, ts, k, s, w)
  BY <1>7, HeldWrite DEF Wrote
<1>9. PICK u, x : u \in 0..Len(ts) /\ x = [key |-> k, size |-> Room(ts, s)] /\ w = InsertAt(ts, u + 1, x)
  BY <1>8 DEF PutBehind
<1>10. x \in Entry /\ \A t : In(w, t) <=> In(ts, t) \/ t = x
  <2>1. ts \in Seq(Raw) /\ Len(ts) \in Nat
    BY <1>7, HeldFacts DEF Writing
  <2>2. u + 1 \in 1..(Len(ts) + 1)
    BY <1>9, <2>1
  <2>3. x \in Raw
    <3>1. k \in Int /\ s \in Int /\ Space(ts) \in Int
      BY <1>5, <2>1, Limits, SpaceInt
    <3>2. Room(ts, s) \in Int
      BY <3>1, RoomFacts
    <3> QED BY <1>9, <3>1, <3>2 DEF Raw
  <2>4. \A t : In(w, t) <=> In(ts, t) \/ t = x
    BY ONLY <1>9, <2>1, <2>2, <2>3, InInserted
  <2>5. In(w, x)
    BY <2>4
  <2>6. x \in Entry
    BY <1>8, <2>5, HeldFacts DEF In
  <2> QED BY <2>4, <2>6
<1>11. Rewriting(R, Q, p, w)
  <2>1. pages' = [pages EXCEPT ![p].tuples = w]
    BY <1>2, <1>3
  <2> QED BY <1>1, <1>3, <1>4, <1>6, <1>8, <2>1 DEF Rewriting
<1>12. Stock' = Stock \cup {x}
  <2>1. /\ \A q \in PageIDs : q # p => \A t : Lies(q, t)' <=> Lies(q, t)
        /\ \A t : (Lies(p, t) <=> In(ts, t)) /\ (Lies(p, t)' <=> In(w, t))
    BY <1>2, <1>11, OneLeaf
  <2>2. \A t : (\E q \in PageIDs : Lies(q, t)') <=> (\E q \in PageIDs : Lies(q, t)) \/ t = x
    BY <1>4, <1>10, <2>1
  <2> QED BY <1>10, <2>2 DEF Stock
<1>13. x.key = k /\ x.size \in 1..MAX_LEAF_PAGE_DATA
  <2>1. x.key = k
    BY <1>9
  <2>2. x.size \in Nat /\ 0 < x.size /\ x.size <= MAX_LEAF_PAGE_DATA
    BY <1>10, EntryFacts
  <2> QED BY <2>1, <2>2, Limits
<1>14. k \notin StoredKeys
  BY <1>5, MissingIs
<1>15. Contents' = [j \in DOMAIN Contents \cup {k} |-> IF j = k THEN x.size ELSE Contents[j]]
  <2>1. Contents' = [j \in DOMAIN Contents \cup {x.key} |-> IF j = x.key THEN x.size ELSE Contents[j]]
    BY <1>12, <1>13, <1>14, MoreStock
  <2> QED BY <1>13, <2>1
<1>16. D!Insert(request.key, x.size)
  BY <1>2, <1>3, <1>15 DEF D!Insert
<1>17. request.kind = "insert" /\ request # NoRequest
  BY <1>3 DEF Suits, NoRequest
<1>18. ~(pc \in {"rebalance", "return"}) /\ (pc' \in {"rebalance", "return"})
  BY <1>3
<1> QED BY <1>3, <1>13, <1>16, <1>17, <1>18 DEF D!Apply

\* Delete takes effect in the leaf.
LEMMA DeleteApplies == ASSUME BInv, OInv, Suits, Shelf, Shelf', DeleteLeaf PROVE D!Apply
<1>1. PICK R, Q : Ordered(R, Q) /\ Cleft(R, Q) /\ Aimed(R)
  BY DEF OInv
<1>2. PICK p, w, k, ts : p = cur /\ k = request.key /\ ts = pages[p].tuples /\ w = DeleteTuple(ts, k)
  OBVIOUS
<1>3. /\ root' = root /\ pc = "delete" /\ pc' = "rebalance" /\ request' = request
      /\ IsLeaf(p) /\ answer' = (w # ts)
      /\ pages' = [pages EXCEPT ![p].tuples = w]
  BY <1>2 DEF DeleteLeaf
<1>4. p \in PageIDs /\ k \in Keys /\ k \in R[p] /\ Pages /\ k \in Int
  BY <1>1, <1>2, <1>3, Limits DEF Aimed, BInv
<1>5. Held(ts, R[p]) /\ Space(ts) <= LEAF_SPACE
  BY <1>1, <1>2, <1>3, <1>4 DEF Ordered, LeafOrder
<1>6. /\ Held(w, R[p]) /\ Space(w) <= Space(ts) /\ (w # ts <=> Has(ts, k))
      /\ \A t : In(w, t) <=> In(ts, t) /\ t.key # k
  BY <1>2, <1>4, <1>5, HeldRemove
<1>7. Rewriting(R, Q, p, w)
  <2>1. Space(w) \in Nat /\ Space(ts) \in Nat
    BY <1>5, <1>6, SpaceNat DEF Held
  <2>2. Space(w) <= LEAF_SPACE
    BY <1>5, <1>6, <2>1, Limits
  <2> QED BY <1>1, <1>3, <1>4, <1>6, <2>2 DEF Rewriting
<1>8. /\ k \in StoredKeys <=> Has(ts, k)
      /\ \A q \in PageIDs : \A t : Lies(q, t) /\ t.key = k => q = p
  BY <1>1, <1>2, <1>3, <1>4, OnlyHere
<1>9. Stock' = {t \in Stock : t.key # k}
  <2>1. /\ \A q \in PageIDs : q # p => \A t : Lies(q, t)' <=> Lies(q, t)
        /\ \A t : (Lies(p, t) <=> In(ts, t)) /\ (Lies(p, t)' <=> In(w, t))
    BY <1>2, <1>7, OneLeaf
  <2>2. \A t : (\E q \in PageIDs : Lies(q, t)') <=> (\E q \in PageIDs : Lies(q, t)) /\ t.key # k
    BY <1>4, <1>6, <1>8, <2>1
  <2> QED BY <2>2 DEF Stock
<1>10. DOMAIN Contents = StoredKeys /\ Contents' = [j \in DOMAIN Contents \ {k} |-> Contents[j]]
  BY <1>9, LessStock
<1>11. answer' = (k \in DOMAIN Contents)
  BY <1>3, <1>6, <1>8, <1>10
<1>12. D!Delete(request.key)
  BY <1>2, <1>10, <1>11 DEF D!Delete, D!Stored
<1>13. request.kind = "delete" /\ request # NoRequest
  BY <1>3 DEF Suits, NoRequest
<1>14. ~(pc \in {"rebalance", "return"}) /\ (pc' \in {"rebalance", "return"})
  BY <1>3
<1> QED BY <1>3, <1>12, <1>13, <1>14 DEF D!Apply

\* Search answers from the leaf that the key leads to.
LEMMA SearchApplies == ASSUME BInv, OInv, Suits, Shelf, Shelf', SearchLeaf PROVE D!Apply
<1>1. PICK R, Q : Ordered(R, Q) /\ Cleft(R, Q) /\ Aimed(R)
  BY DEF OInv
<1>2. PICK p, k, ts : p = cur /\ k = request.key /\ ts = pages[p].tuples
  OBVIOUS
<1>3. /\ pc = "search" /\ pc' = "return" /\ request' = request /\ pages' = pages
      /\ IsLeaf(p) /\ answer' = (\E i \in DOMAIN ts : ts[i].key = k)
  BY <1>2 DEF SearchLeaf, tree
<1>4. p \in PageIDs /\ k \in R[p] /\ k \in Int
  BY <1>1, <1>2, <1>3, Limits DEF Aimed
<1>5. k \in StoredKeys <=> Has(ts, k)
  BY <1>1, <1>2, <1>3, <1>4, OnlyHere
<1>6. answer' = (k \in StoredKeys)
  <2>1. Held(ts, R[p])
    BY <1>1, <1>2, <1>3, <1>4 DEF Ordered, LeafOrder
  <2>2. DOMAIN ts = 1..Len(ts)
    BY <2>1, HeldFacts
  <2>3. (\E i \in DOMAIN ts : ts[i].key = k) <=> k \in StoredKeys
    BY <1>5, <2>2 DEF Has
  <2>4. PICK b, K : b = answer' /\ K = StoredKeys
    OBVIOUS
  <2>5. b \in BOOLEAN /\ (b <=> \E i \in DOMAIN ts : ts[i].key = k)
    BY <1>3, <2>4
  <2>6. b <=> k \in K
    BY <2>3, <2>4, <2>5
  <2>7. b = (k \in K)
    BY ONLY <2>5, <2>6
  <2> QED BY <2>4, <2>7
<1>7. Contents' = Contents
  <2>1. Stock' = Stock
    BY <1>3 DEF Stock, Lies, IsLeaf
  <2> QED BY <2>1, SameStock
<1>8. DOMAIN Contents = StoredKeys
  BY DEF Shelf
<1>9. D!Search(request.key)
  <2>1. answer' = (k \in DOMAIN Contents)
    BY <1>6, <1>8
  <2> QED BY <1>2, <1>7, <2>1 DEF D!Search, D!Stored
<1>10. request.kind = "search" /\ request # NoRequest
  BY <1>3 DEF Suits, NoRequest
<1>11. ~(pc \in {"rebalance", "return"}) /\ (pc' \in {"rebalance", "return"})
  BY <1>3
<1> QED BY <1>3, <1>9, <1>10, <1>11 DEF D!Apply

-----------------------------------------------------------------------------
\* Steps that only change internal pages.
Inner(q) == pages[q].type # "leaf"

LEMMA Restocked ==
  ASSUME Pages, NEW a \in PageIDs, NEW b \in PageIDs, NEW p \in PageIDs, Inner(a), Inner(b), Inner(p),
         \A q \in PageIDs : q \notin {a, b, p} => pages'[q] = pages[q], Inner(a)', Inner(b)', Inner(p)'
  PROVE  Stock' = Stock
<1>1. PICK G : G = {a, b, p}
  OBVIOUS
<1>2. G \subseteq PageIDs /\ \A q \in PageIDs \ G : pages'[q] = pages[q]
  BY <1>1
<1>3. \A q \in G : ~IsLeaf(q) /\ ~IsLeaf(q)'
  BY <1>1 DEF Inner, IsLeaf
<1> QED BY <1>2, <1>3, NoTuples

LEMMA InnerKinds == ASSUME NEW q, IsInternal(q) \/ pages[q] = Free PROVE Inner(q)
  BY Shapes DEF Inner, IsInternal

LEMMA OuterFrame ==
  ASSUME BInv, OnWay, stack # <<>>
  PROVE  /\ parent \in PageIDs /\ Inner(parent) /\ IsInternal(parent)
         /\ \A n, k : SetNewBoundaryKey(n, k).type = "internal"
<1>1. PICK h, up, place : Structure(h, up, place)
  BY DEF BInv
<1>2. parent \in PageIDs /\ IsInternal(parent)
  BY <1>1, OnTop DEF BInv, Structure
<1>3. pages[parent] = Internal(pages[parent].keys, Kids(parent))
  BY <1>2, Shapes DEF BInv, Pages, PageShape, IsLeaf, IsInternal
<1>4. \A n, k : SetNewBoundaryKey(n, k) = Internal([pages[parent].keys EXCEPT ![n] = k], Kids(parent))
  BY <1>3 DEF SetNewBoundaryKey, parentPage, Internal
<1> QED BY <1>2, <1>4, InnerKinds, Shapes, ZenonT(40)

LEMMA UnwindInsertStock == ASSUME BInv, UnwindInsert PROVE Stock' = Stock
<1>1. PICK l, x : /\ l = parent /\ x = InsertKeyValue(l, report.boundary_key, report.new_page_id)
                  /\ pages' = [pages EXCEPT ![l] = x]
  BY DEF UnwindInsert, parent
<1>2. stack # <<>> /\ OnWay
  BY DEF UnwindInsert, OnWay
<1>3. l \in PageIDs /\ Inner(l) /\ Pages
  BY <1>1, <1>2, OuterFrame DEF BInv
<1>4. x.type = "internal"
  BY <1>1, Shapes DEF InsertKeyValue
<1>5. pages'[l] = x /\ \A q \in PageIDs : q # l => pages'[q] = pages[q]
  BY <1>1, <1>3, Update DEF Pages
<1>6. Inner(l)'
  BY <1>4, <1>5 DEF Inner
<1>7. \A q \in PageIDs : q \notin {l, l, l} => pages'[q] = pages[q]
  BY <1>5
<1> QED BY <1>3, <1>6, <1>7, Restocked

LEMMA UnwindSplitStock == ASSUME BInv, RoomToGrow, UnwindSplit PROVE Stock' = Stock
<1>1. PICK l, n, x, y, k, c, j, d : /\ l = parent /\ n = NewPage /\ x = Internal(k, c) /\ y = Internal(j, d)
                                    /\ pages' = [pages EXCEPT ![l] = x, ![n] = y]
  BY DEF UnwindSplit, parent
<1>2. stack # <<>> /\ OnWay
  BY DEF UnwindSplit, OnWay
<1>3. l \in PageIDs /\ Inner(l) /\ Pages /\ n \in PageIDs /\ Inner(n)
  BY <1>1, <1>2, OuterFrame, NewPageIsFree, InnerKinds DEF BInv
<1>4. x.type = "internal" /\ y.type = "internal"
  BY <1>1, Shapes
<1>5. \A q \in PageIDs : q \notin {l, n} => pages'[q] = pages[q]
  BY <1>1, <1>3, TwoPages
<1>6. pages'[l] \in {x, y} /\ pages'[n] = y
  BY <1>1, <1>3 DEF Pages
<1>7. Inner(l)' /\ Inner(n)'
  BY <1>4, <1>6 DEF Inner
<1>8. \A q \in PageIDs : q \notin {l, n, n} => pages'[q] = pages[q]
  BY <1>5
<1> QED BY <1>3, <1>7, <1>8, Restocked

LEMMA NewRootStock == ASSUME BInv, RoomToGrow, NewRoot PROVE Stock' = Stock
<1>1. PICK n, x, k, c : /\ n = NewPage /\ x = Internal(k, c) /\ pages' = [pages EXCEPT ![n] = x]
  BY DEF NewRoot
<1>2. n \in PageIDs /\ Inner(n) /\ Pages
  BY <1>1, NewPageIsFree, InnerKinds DEF BInv
<1>3. pages'[n] = x /\ \A q \in PageIDs : q # n => pages'[q] = pages[q]
  BY <1>1, <1>2, Update DEF Pages
<1>4. Inner(n)'
  BY <1>1, <1>3, Shapes DEF Inner
<1>5. \A q \in PageIDs : q \notin {n, n, n} => pages'[q] = pages[q]
  BY <1>3
<1> QED BY <1>2, <1>4, <1>5, Restocked

\* Internal pages lend each other pairs.
Exchange(l, c, p, x, y, z) ==
  /\ l \in PageIDs /\ c \in PageIDs /\ p \in PageIDs /\ Pages
  /\ Inner(l) /\ Inner(c) /\ Inner(p)
  /\ pages' = [pages EXCEPT ![l] = x, ![c] = y, ![p] = z]
  /\ x.type # "leaf" /\ y.type # "leaf" /\ z.type # "leaf"

LEMMA ExchangeStock ==
  ASSUME NEW l, NEW c, NEW p, NEW x, NEW y, NEW z, Exchange(l, c, p, x, y, z)
  PROVE  Stock' = Stock
<1>1. /\ l \in PageIDs /\ c \in PageIDs /\ p \in PageIDs /\ Pages
      /\ Inner(l) /\ Inner(c) /\ Inner(p)
      /\ pages' = [pages EXCEPT ![l] = x, ![c] = y, ![p] = z]
      /\ x.type # "leaf" /\ y.type # "leaf" /\ z.type # "leaf"
  BY DEF Exchange
<1>2. \A q \in PageIDs : q \notin {l, c, p} => pages'[q] = pages[q]
  BY <1>1 DEF Pages
<1>3. pages'[l] \in {x, y, z} /\ pages'[c] \in {x, y, z} /\ pages'[p] = z
  BY <1>1 DEF Pages
<1>4. Inner(l)' /\ Inner(c)' /\ Inner(p)'
  BY <1>1, <1>3 DEF Inner
<1> QED BY <1>1, <1>2, <1>4, Restocked

LEMMA InternalLeftBorrowStock == ASSUME BInv, InternalLeftBorrow PROVE Stock' = Stock
<1>1. PICK h, up, place : Structure(h, up, place)
  BY DEF BInv
<1>2. /\ pc = "rebalance" /\ stack # <<>> /\ report.type = "InternalPage" /\ HasLeft /\ Lacking
  BY DEF InternalLeftBorrow, LeftLends, Underflown, Returned, Lacking
<1>3. Control /\ OnWay /\ Pages
  BY <1>2 DEF BInv, OnWay
<1>4. /\ childIndex \in 1..Len(Kids(parent)) /\ Width(parent) \in Nat
      /\ Len(Kids(parent)) = Width(parent) + 1 /\ Kids(parent)[childIndex] = cur
  BY <1>1, <1>2, <1>3, Family
<1>5. PICK i : i = childIndex - 1
  OBVIOUS
<1>6. i \in 1..Width(parent) /\ i + 1 = childIndex
  BY <1>2, <1>4, <1>5 DEF HasLeft
<1>7. PICK l, c, p, x, y, z, k, d, j, e, n, m :
        /\ l = leftSibling /\ c = cur /\ p = parent
        /\ x = Internal(k, d) /\ y = Internal(j, e) /\ z = SetNewBoundaryKey(n, m)
        /\ pages' = [pages EXCEPT ![l] = x, ![c] = y, ![p] = z]
  BY DEF InternalLeftBorrow
<1>8. l = Kids(p)[i] /\ c = Kids(p)[i + 1]
  BY <1>4, <1>5, <1>6, <1>7 DEF leftSibling, parentPage, Kids
<1>9. /\ l \in PageIDs /\ c \in PageIDs /\ p \in PageIDs /\ IsInternal(p)
      /\ IsInternal(cur) => IsInternal(l) /\ IsInternal(c)
  BY <1>1, <1>2, <1>3, <1>6, <1>7, <1>8, Siblings
<1>10. IsInternal(cur)
  BY <1>1, <1>2 DEF Structure, Occupied
<1>11. Exchange(l, c, p, x, y, z)
  BY <1>2, <1>3, <1>7, <1>9, <1>10, InnerKinds, OuterFrame, Shapes DEF Exchange
<1> QED BY <1>11, ExchangeStock

LEMMA InternalRightBorrowStock == ASSUME BInv, InternalRightBorrow PROVE Stock' = Stock
<1>1. PICK h, up, place : Structure(h, up, place)
  BY DEF BInv
<1>2. /\ pc = "rebalance" /\ stack # <<>> /\ report.type = "InternalPage" /\ HasRight /\ Lacking
  BY DEF InternalRightBorrow, RightLends, Underflown, Returned, Lacking
<1>3. Control /\ OnWay /\ Pages
  BY <1>2 DEF BInv, OnWay
<1>4. /\ childIndex \in 1..Len(Kids(parent)) /\ Width(parent) \in Nat
      /\ Len(Kids(parent)) = Width(parent) + 1 /\ Kids(parent)[childIndex] = cur
  BY <1>1, <1>2, <1>3, Family
<1>5. PICK i : i = childIndex
  OBVIOUS
<1>6. i \in 1..Width(parent)
  BY <1>2, <1>4, <1>5 DEF HasRight, parentPage, Kids
<1>7. PICK l, c, p, x, y, z, k, d, j, e, n, m :
        /\ l = cur /\ c = rightSibling /\ p = parent
        /\ x = Internal(k, d) /\ y = Internal(j, e) /\ z = SetNewBoundaryKey(n, m)
        /\ pages' = [pages EXCEPT ![l] = x, ![c] = y, ![p] = z]
  BY DEF InternalRightBorrow
<1>8. l = Kids(p)[i] /\ c = Kids(p)[i + 1]
  BY <1>4, <1>5, <1>6, <1>7 DEF rightSibling, parentPage, Kids
<1>9. /\ l \in PageIDs /\ c \in PageIDs /\ p \in PageIDs /\ IsInternal(p)
      /\ IsInternal(cur) => IsInternal(l) /\ IsInternal(c)
  BY <1>1, <1>2, <1>3, <1>6, <1>7, <1>8, Siblings
<1>10. IsInternal(cur)
  BY <1>1, <1>2 DEF Structure, Occupied
<1>11. Exchange(l, c, p, x, y, z)
  BY <1>2, <1>3, <1>7, <1>9, <1>10, InnerKinds, OuterFrame, Shapes DEF Exchange
<1> QED BY <1>11, ExchangeStock

LEMMA InternalMergeStock == ASSUME BInv, InternalMerge PROVE Stock' = Stock
<1>1. PICK a, b, p, i, x, f, z, k, d :
        /\ a = toPage /\ b = fromPage /\ p = parent /\ i = MergeAt /\ x = Internal(k, d) /\ f = Free
        /\ z = DeleteKeyAndChildPtr(i) /\ pages' = [pages EXCEPT ![a] = x, ![b] = f, ![p] = z]
  BY DEF InternalMerge
<1>2. InternalMergeDue
  BY DEF InternalMerge
<1>3. /\ a \in PageIDs /\ b \in PageIDs /\ p \in PageIDs
      /\ IsInternal(a) /\ IsInternal(b) /\ IsInternal(p)
  BY <1>1, <1>2, MergeFits
<1>4. x.type = "internal" /\ f.type = "free" /\ z.type = "internal"
  BY <1>1, Shapes DEF DeleteKeyAndChildPtr
<1>5. Exchange(a, b, p, x, f, z)
  BY <1>1, <1>3, <1>4, InnerKinds DEF Exchange, BInv
<1> QED BY <1>5, ExchangeStock

-----------------------------------------------------------------------------
\* Steps that move tuples: a leaf is split.
LEMMA FindSplitStock == ASSUME BInv, OInv, RoomToGrow, FindSplit PROVE Stock' = Stock
<1>1. PICK R, Q : Ordered(R, Q) /\ Cleft(R, Q) /\ Aimed(R)
  BY DEF OInv
<1>2. PICK h, up, place : Structure(h, up, place)
  BY DEF BInv
<1>3. PICK c, n, ts, m, x, a, b, k : /\ c = cur /\ n = NewPage /\ ts = pages[c].tuples /\ m = Kept(ts)
                                     /\ x = ts[m + 1].key /\ a = FirstTuples(ts, m)
                                     /\ b = LastTuples(ts, Len(ts) - m) /\ k = request.key
  OBVIOUS
<1>4. /\ root' = root /\ pc = "insert" /\ pc' = "unwind" /\ request' = request /\ cur' = c
      /\ IsLeaf(c) /\ ~Fits(c)
      /\ to_write_page' = IF k >= x THEN n ELSE c
      /\ report' = Split(n, x)
      /\ pages' = HandleSplit(c, n)
  BY <1>3 DEF FindSplit
<1>5. /\ c \in PageIDs /\ n \in PageIDs /\ pages[n] = Free /\ Pages /\ ~Used(n) /\ n # c
      /\ root \in PageIDs /\ Used(root) /\ root # n
  <2>1. /\ c \in PageIDs /\ n \in PageIDs /\ pages[n] = Free /\ Pages
        /\ root \in PageIDs /\ Used(root)
    BY <1>1, <1>3, <1>4, NewPageIsFree DEF BInv, Aimed, Control
  <2>2. ~Used(n)
    BY <2>1, Kinds DEF Pages
  <2> QED BY <1>4, <2>1, <2>2 DEF Used
<1>6. /\ pages' = [q \in PageIDs |-> pages'[q]]
      /\ pages'[c] = Leaf(a, pages[c].left_pid, n)
      /\ pages'[n] = Leaf(b, c, pages[c].right_pid)
      /\ \A q \in PageIDs : q \notin {c, n} => pages'[q] = pages[q]
  <2>1. PICK y, z : /\ y = Leaf(a, pages[c].left_pid, n) /\ z = Leaf(b, c, pages[c].right_pid)
                    /\ pages' = [pages EXCEPT ![c] = y, ![n] = z]
    BY <1>3, <1>4 DEF HandleSplit
  <2>2. pages = [q \in PageIDs |-> pages[q]]
    BY <1>5 DEF Pages
  <2>3. /\ pages' = [q \in PageIDs |-> pages'[q]]
        /\ pages'[c] = y /\ pages'[n] = z
        /\ \A q \in PageIDs : q \notin {c, n} => pages'[q] = pages[q]
    BY <1>5, <2>1, <2>2
  <2> QED BY <2>1, <2>3
<1>7. /\ IsLeaf(c)' /\ ~IsInternal(c)' /\ IsLeaf(n)' /\ ~IsInternal(n)'
      /\ pages'[c].tuples = a /\ pages'[c].left_pid = pages[c].left_pid /\ pages'[c].right_pid = n
      /\ pages'[n].tuples = b /\ pages'[n].left_pid = c /\ pages'[n].right_pid = pages[c].right_pid
  BY <1>6, LeafShape, Shapes
<1>8. /\ Held(ts, R[c]) /\ Space(ts) <= LEAF_SPACE /\ ts \in Seq(Entry)
      /\ pages[c].left_pid \in PageIDs \cup {NoPage} /\ R[c] \in SUBSET Int /\ Convex(R[c])
  BY <1>1, <1>3, <1>4, <1>5 DEF Ordered, LeafOrder, Held, Ranges, Used
<1>9. k \in R[c] /\ k \in Keys /\ k \in Int /\ request.size \in Sizes /\ Missing(k)
  BY <1>1, <1>3, <1>4, Limits DEF Aimed
<1>10. LEAF_SPACE - Space(ts) < MIN_LEAF_PAGE_DATA
  <2>1. ~(Least(MIN_LEAF_PAGE_DATA, request.size) <= LEAF_SPACE - Space(ts))
    BY <1>3, <1>4 DEF Fits
  <2>2. Space(ts) \in Nat /\ request.size \in Nat
    BY <1>8, <1>9, SpaceNat, Limits
  <2>3. PICK y, z, w : y = LEAF_SPACE - Space(ts) /\ z = request.size /\ w = MIN_LEAF_PAGE_DATA
    OBVIOUS
  <2>4. y \in Int /\ z \in Int /\ w \in Int /\ ~(Least(w, z) <= y)
    BY <2>1, <2>2, <2>3, Limits
  <2>5. y < w
    BY ONLY <2>4 DEF Least
  <2> QED BY <2>3, <2>5
<1>11. /\ m \in 1..(Len(ts) - 1)
       /\ MIN_LEAF_PAGE_DATA <= LEAF_SPACE - Space(SubSeq(ts, 1, m))
       /\ MIN_LEAF_PAGE_DATA <= LEAF_SPACE - Space(SubSeq(ts, m + 1, Len(ts)))
  BY <1>3, <1>8, <1>10, SplitRoom
<1>12. a = SubSeq(ts, 1, m) /\ b = SubSeq(ts, m + 1, Len(ts))
  <2>1. Len(ts) \in Nat /\ m \in Nat
    BY <1>8, <1>11, EntriesAt
  <2>2. Len(ts) - (Len(ts) - m) + 1 = m + 1
    BY <2>1
  <2> QED BY <1>3, <2>2 DEF FirstTuples, LastTuples
<1>13. \A t : In(ts, t) <=> In(a, t) \/ In(b, t)
  <2>1. m \in 0..Len(ts)
    BY <1>8, <1>11, EntriesAt
  <2>2. PICK S : S = Entry
    OBVIOUS
  <2>3. ts \in Seq(S)
    BY <1>8, <2>2
  <2>4. HalvesOf(S, ts, m, a, b)
    BY <1>12, <2>1, <2>3 DEF HalvesOf
  <2> QED BY ONLY <2>4, InCut
<1>14. \A t : /\ Lies(c, t) <=> In(ts, t)
              /\ Lies(n, t) <=> FALSE
              /\ Lies(c, t)' <=> In(a, t)
              /\ Lies(n, t)' <=> In(b, t)
  BY <1>3, <1>4, <1>5, <1>7 DEF Lies, Used
<1>15. PICK G : G = {c, n}
  OBVIOUS
<1>16. \A q \in PageIDs \ G : \A t : Lies(q, t)' <=> Lies(q, t)
  BY <1>6, <1>15 DEF Lies, IsLeaf
<1>17. Shifted(G)
  <2>1. \A t : (\E q \in G : Lies(q, t)') <=> Lies(c, t)' \/ Lies(n, t)'
    BY <1>15
  <2>2. \A t : (\E q \in G : Lies(q, t)) <=> Lies(c, t) \/ Lies(n, t)
    BY <1>15
  <2> QED BY <1>5, <1>13, <1>14, <1>15, <1>16, <2>1, <2>2 DEF Shifted
<1> QED BY <1>17, StockStays

\* Tuples of two leaves are shared anew, or all go to one.
Together(a, b, p, s, t, u, v, w) ==
  /\ a \in PageIDs /\ b \in PageIDs /\ p \in PageIDs /\ a # b
  /\ IsLeaf(a) /\ IsLeaf(b) /\ Inner(p) /\ Inner(p)'
  /\ s = pages[a].tuples /\ t = pages[b].tuples /\ s \in Seq(Entry) /\ t \in Seq(Entry) /\ w = s \o t
  /\ IsLeaf(a)' /\ pages'[a].tuples = u
  /\ \A x : Lies(b, x)' <=> In(v, x)
  /\ \A x : In(w, x) <=> In(u, x) \/ In(v, x)
  /\ \A q \in PageIDs : q \notin {a, b, p} => SameBut(q, a)

LEMMA TogetherStock ==
  ASSUME NEW a, NEW b, NEW p, NEW s, NEW t, NEW u, NEW v, NEW w, Together(a, b, p, s, t, u, v, w)
  PROVE  Stock' = Stock
<1>1. /\ a \in PageIDs /\ b \in PageIDs /\ p \in PageIDs /\ a # b
      /\ IsLeaf(a) /\ IsLeaf(b) /\ Inner(p) /\ Inner(p)'
      /\ s = pages[a].tuples /\ t = pages[b].tuples /\ s \in Seq(Entry) /\ t \in Seq(Entry) /\ w = s \o t
      /\ IsLeaf(a)' /\ pages'[a].tuples = u
      /\ \A x : Lies(b, x)' <=> In(v, x)
      /\ \A x : In(w, x) <=> In(u, x) \/ In(v, x)
  BY DEF Together
<1>2. \A q \in PageIDs : q \notin {a, b, p} => SameBut(q, a)
  BY DEF Together
<1>3. \A x : In(w, x) <=> In(s, x) \/ In(t, x)
  <2>1. PICK S : S = Entry
    OBVIOUS
  <2>2. s \in Seq(S) /\ t \in Seq(S) /\ w = s \o t
    BY <1>1, <2>1
  <2> QED BY ONLY <2>2, InJoin
<1>4. \A x : /\ Lies(a, x) <=> In(s, x)
             /\ Lies(b, x) <=> In(t, x)
             /\ Lies(a, x)' <=> In(u, x)
             /\ ~Lies(p, x) /\ ~Lies(p, x)'
  BY <1>1 DEF Lies, Inner, IsLeaf
<1>5. PICK G : G = {a, b, p}
  OBVIOUS
<1>6. \A q \in PageIDs \ G : \A x : Lies(q, x)' <=> Lies(q, x)
  <2> TAKE q \in PageIDs \ G
  <2>1. SameBut(q, a)
    BY <1>2, <1>5
  <2>2. CASE pages'[q] = pages[q]
    BY <2>2 DEF Lies, IsLeaf
  <2>3. CASE IsLeaf(q) /\ pages'[q] = Leaf(pages[q].tuples, a, pages[q].right_pid)
    BY <2>3, Shapes DEF Lies, IsLeaf
  <2> QED BY <2>1, <2>2, <2>3 DEF SameBut
<1>7. Shifted(G)
  <2>1. \A x : (\E q \in G : Lies(q, x)') <=> Lies(a, x)' \/ Lies(b, x)' \/ Lies(p, x)'
    BY <1>5
  <2>2. \A x : (\E q \in G : Lies(q, x)) <=> Lies(a, x) \/ Lies(b, x) \/ Lies(p, x)
    BY <1>5
  <2>3. \A x : (\E q \in G : Lies(q, x)') <=> (\E q \in G : Lies(q, x))
    BY <1>1, <1>3, <1>4, <2>1, <2>2
  <2> QED BY <1>1, <1>5, <1>6, <2>3 DEF Shifted
<1> QED BY <1>7, StockStays

LEMMA RecutStock == ASSUME BInv, OInv, Recuts PROVE Stock' = Stock
<1>1. PICK R, Q : Ordered(R, Q) /\ Cleft(R, Q) /\ Aimed(R)
  BY DEF OInv
<1>2. PICK i, p, a, b, m, ta, tb, x : Recut(i, p, a, b, m, ta, tb, x)
  BY DEF Recuts
<1>3. Facing(R, Q, i, p, a, b) /\ report.type = "LeafPage"
  BY <1>1, <1>2 DEF Recut, Facing, Splitting
<1>4. /\ a \in PageIDs /\ b \in PageIDs /\ p \in PageIDs /\ a # b /\ p # a /\ p # b
      /\ IsLeaf(a) /\ IsLeaf(b) /\ IsInternal(p)
      /\ Held(pages[a].tuples, R[a]) /\ Held(pages[b].tuples, R[b])
  <2>1. a \in PageIDs /\ b \in PageIDs /\ p \in PageIDs /\ a # b /\ p # a /\ p # b
    BY <1>3, Neighbours
  <2>3. IsLeaf(a) /\ IsLeaf(b) /\ IsInternal(p)
    BY <1>3, LeafPair
  <2>2. /\ Held(pages[a].tuples, R[a]) /\ Held(pages[b].tuples, R[b])
        /\ Held(pages[a].tuples \o pages[b].tuples, R[a] \cup R[b])
    BY <1>3, LeafPair
  <2> QED BY <2>1, <2>2, <2>3
<1>5. PICK s, t, w : s = pages[a].tuples /\ t = pages[b].tuples /\ w = s \o t
  OBVIOUS
<1>6. s \in Seq(Entry) /\ t \in Seq(Entry)
  BY <1>4, <1>5 DEF Held
<1>7. /\ pages'[a] = Leaf(ta, pages[a].left_pid, pages[a].right_pid)
      /\ pages'[b] = Leaf(tb, pages[b].left_pid, pages[b].right_pid)
      /\ pages'[p] = Internal([pages[p].keys EXCEPT ![i] = x], Kids(p))
      /\ \A q \in PageIDs : q \notin {a, b, p} => pages'[q] = pages[q]
  BY <1>2 DEF Recut
<1>8. m \in 1..(Len(w) - 1) /\ ta = SubSeq(w, 1, m) /\ tb = SubSeq(w, m + 1, Len(w))
  BY <1>2, <1>5, Zenon DEF Recut, TuplesCut
<1>9. w \in Seq(Entry) /\ m \in 0..Len(w)
  <2>1. w \in Seq(Entry)
    BY ONLY <1>5, <1>6, ConcatProperties
  <2>2. Len(w) \in Nat
    BY <2>1
  <2> QED BY <1>8, <2>1, <2>2
<1>10. \A y : In(w, y) <=> In(ta, y) \/ In(tb, y)
  <2>1. PICK S : S = Entry
    OBVIOUS
  <2>2. HalvesOf(S, w, m, ta, tb)
    BY <1>8, <1>9, <2>1 DEF HalvesOf
  <2> QED BY ONLY <2>2, InCut
<1>11. /\ Inner(p) /\ Inner(p)' /\ IsLeaf(a)' /\ IsLeaf(b)'
       /\ pages'[a].tuples = ta /\ pages'[b].tuples = tb
  BY <1>4, <1>7, InnerKinds, Shapes DEF Inner, IsLeaf
<1>12. \A y : Lies(b, y)' <=> In(tb, y)
  BY <1>11 DEF Lies
<1>13. Together(a, b, p, s, t, ta, tb, w)
  BY <1>4, <1>5, <1>6, <1>7, <1>10, <1>11, <1>12 DEF Together, SameBut
<1> QED BY <1>13, TogetherStock

LEMMA MergedStock ==
  ASSUME BInv, OInv, LeafMergeDue, NEW z, pages' = LeavesMerged(z), z.type # "leaf"
  PROVE  Stock' = Stock
<1>1. PICK R, Q : Ordered(R, Q) /\ Cleft(R, Q) /\ Aimed(R)
  BY DEF OInv
<1>2. PICK i, p, a, b : i = MergeAt /\ p = parent /\ a = toPage /\ b = fromPage
  OBVIOUS
<1>3. MergedPages(a, b, p, z)
  BY <1>1, <1>2, LeavesMergedAre
<1>4. Facing(R, Q, i, p, a, b) /\ report.type = "LeafPage"
  BY <1>1, <1>2, LeavesFit
<1>5. /\ a \in PageIDs /\ b \in PageIDs /\ p \in PageIDs /\ a # b /\ p # a /\ p # b
      /\ IsLeaf(a) /\ IsLeaf(b) /\ IsInternal(p)
      /\ Held(pages[a].tuples, R[a]) /\ Held(pages[b].tuples, R[b])
  <2>1. a \in PageIDs /\ b \in PageIDs /\ p \in PageIDs /\ a # b /\ p # a /\ p # b
    BY <1>4, Neighbours
  <2>3. IsLeaf(a) /\ IsLeaf(b) /\ IsInternal(p)
    BY <1>4, LeafPair
  <2>2. /\ Held(pages[a].tuples, R[a]) /\ Held(pages[b].tuples, R[b])
        /\ Held(pages[a].tuples \o pages[b].tuples, R[a] \cup R[b])
    BY <1>4, LeafPair
  <2> QED BY <2>1, <2>2, <2>3
<1>6. PICK s, t, w, v : s = pages[a].tuples /\ t = pages[b].tuples /\ w = s \o t /\ v = <<>>
  OBVIOUS
<1>7. s \in Seq(Entry) /\ t \in Seq(Entry)
  BY <1>5, <1>6 DEF Held
<1>8. /\ pages'[a] = Leaf(w, pages[a].left_pid, pages[b].right_pid)
      /\ pages'[b] = Free /\ pages'[p] = z
      /\ \A q \in PageIDs : q \notin {a, b, p} => SameBut(q, a)
  BY <1>3, <1>6 DEF MergedPages
<1>9. Inner(p) /\ Inner(p)' /\ IsLeaf(a)' /\ pages'[a].tuples = w /\ ~IsLeaf(b)'
  BY <1>5, <1>8, InnerKinds, Shapes DEF Inner, IsLeaf
<1>10. \A y : ~In(v, y)
  BY <1>6 DEF In
<1>11. \A y : Lies(b, y)' <=> In(v, y)
  BY <1>9, <1>10 DEF Lies
<1>12. Together(a, b, p, s, t, w, v, w)
  BY <1>5, <1>6, <1>7, <1>8, <1>9, <1>10, <1>11 DEF Together
<1> QED BY <1>12, TogetherStock

LEMMA LeafMergeStock == ASSUME BInv, OInv, LeafMerge \/ RootLeafMerge PROVE Stock' = Stock
<1>1. PICK z : LeafMergeDue /\ pages' = LeavesMerged(z) /\ (z = Free \/ z = DeleteKeyAndChildPtr(MergeAt))
  BY DEF LeafMerge, RootLeafMerge
<1>2. z.type # "leaf"
  BY <1>1, Shapes DEF DeleteKeyAndChildPtr
<1> QED BY <1>1, <1>2, MergedStock

-----------------------------------------------------------------------------
\* The dictionary is what the tree implements.
Done == pc \in {"rebalance", "return"}

\* What the dictionary does not see.
Hidden == Stock' = Stock /\ request' = request /\ answer' = answer /\ (Done' <=> Done)

LEMMA HiddenStutters == ASSUME Shelf, Shelf', Hidden PROVE UNCHANGED D!vars
<1>1. Contents' = Contents
  BY SameStock DEF Hidden
<1> QED BY <1>1 DEF Hidden, Done, D!vars

LEMMA TreeStays == ASSUME pages' = pages PROVE Stock' = Stock
  BY DEF Stock, Lies, IsLeaf

LEMMA WaysHidden ==
  ASSUME Descend \/ FindFits \/ UnwindNoSplit \/ SearchDescend \/ DeleteReturns \/ NoUnderflow
  PROVE  Hidden
<1>1. pages' = pages
  BY DEF Descend, FindFits, UnwindNoSplit, SearchDescend, DeleteReturns, NoUnderflow, tree
<1>2. request' = request /\ answer' = answer
  BY DEF Descend, FindFits, UnwindNoSplit, SearchDescend, DeleteReturns, NoUnderflow
<1>3. Done' <=> Done
  BY DEF Done, Descend, FindFits, UnwindNoSplit, SearchDescend, DeleteReturns, NoUnderflow, Returned
<1> QED BY <1>1, <1>2, <1>3, TreeStays DEF Hidden

LEMMA SplitsHidden ==
  ASSUME BInv, OInv, RoomToGrow, FindSplit \/ UnwindInsert \/ UnwindSplit \/ NewRoot
  PROVE  Hidden
<1>1. Stock' = Stock
  BY FindSplitStock, UnwindInsertStock, UnwindSplitStock, NewRootStock
<1>2. request' = request /\ answer' = answer
  BY DEF FindSplit, UnwindInsert, UnwindSplit, NewRoot
<1>3. Done' <=> Done
  BY DEF Done, FindSplit, UnwindInsert, UnwindSplit, NewRoot
<1> QED BY <1>1, <1>2, <1>3 DEF Hidden

LEMMA RebalancingHidden ==
  ASSUME BInv, OInv, RebalanceLeaf \/ RebalanceInternal
  PROVE  Hidden
<1>1. Stock' = Stock
  <2>1. CASE LeafLeftBorrow \/ LeafRightBorrow
    BY <2>1, LeafLeftBorrowCuts, LeafRightBorrowCuts, RecutStock
  <2>2. CASE LeafMerge \/ RootLeafMerge
    BY <2>2, LeafMergeStock
  <2>3. CASE RebalanceInternal
    BY <2>3, InternalLeftBorrowStock, InternalRightBorrowStock, InternalMergeStock DEF RebalanceInternal
  <2> QED BY <2>1, <2>2, <2>3 DEF RebalanceLeaf
<1>2. request' = request /\ answer' = answer /\ pc' = pc
  BY DEF RebalanceLeaf, LeafLeftBorrow, LeafRightBorrow, LeafMerge, RootLeafMerge,
         RebalanceInternal, InternalLeftBorrow, InternalRightBorrow, InternalMerge
<1> QED BY <1>1, <1>2 DEF Hidden, Done

\* A call that starts, and one that returns.
LEMMA CallsAre == ASSUME OInv, Shelf, Shelf', Calls PROVE D!Call
<1>1. PICK kind, k, s : /\ Call(kind, k, s) /\ k \in Keys
                        /\ \/ kind = "insert" /\ s \in Sizes
                           \/ kind \in {"delete", "search"} /\ s = 0
  BY DEF Calls
<1>2. /\ pc = "idle" /\ pages' = pages /\ pc' = kind /\ answer' = answer
      /\ request' = [kind |-> kind, key |-> k, size |-> s]
      /\ kind = "insert" => k \notin StoredKeys
  BY <1>1 DEF Call, tree
<1>3. request = NoRequest
  BY <1>2 DEF OInv, Aimed
<1>4. Contents' = Contents
  BY <1>2, TreeStays, SameStock
<1>5. request' \in [kind : {"insert", "delete", "search"}, key : Keys, size : Sizes \cup {0}]
  BY <1>1, <1>2
<1>6. request'.kind = "insert" => ~(request'.key \in DOMAIN Contents)
  BY <1>2 DEF Shelf
<1>7. (pc' \in {"rebalance", "return"}) = (pc \in {"rebalance", "return"})
  BY <1>1, <1>2
<1> QED BY <1>2, <1>3, <1>4, <1>5, <1>6, <1>7 DEF D!Call, D!Stored

LEMMA ReturnIs == ASSUME Shelf, Shelf', Return PROVE D!Return
<1>1. Contents' = Contents
  BY TreeStays, SameStock DEF Return, tree
<1>2. /\ pc \in {"rebalance", "return"} /\ (pc' \in {"rebalance", "return"}) = FALSE
      /\ request' = NoRequest /\ answer' = FALSE
  BY DEF Return
<1> QED BY <1>1, <1>2 DEF D!Return

\* A delete that leaves an only child as it is says that it failed.
LEMMA NoSiblingIs == ASSUME Suits, Shelf, Shelf', NoSibling PROVE D!Understate
<1>1. Contents' = Contents
  BY TreeStays, SameStock DEF NoSibling, tree
<1>2. /\ pc = "rebalance" /\ pc' = "rebalance" /\ request' = request /\ answer' = FALSE
      /\ request.kind = "delete"
  BY DEF NoSibling, Underflown, Returned, Suits
<1>3. pc \in {"rebalance", "return"} /\ (pc' \in {"rebalance", "return"}) = (pc \in {"rebalance", "return"})
  BY <1>2
<1> QED BY <1>1, <1>2, <1>3 DEF D!Understate

-----------------------------------------------------------------------------
LEMMA InitIsEmpty == ASSUME Init, Shelf PROVE D!Init
<1>1. PICK p \in PageIDs : pages = [q \in PageIDs |-> IF q = p THEN Leaf(<<>>, NoPage, NoPage) ELSE Free]
  BY DEF Init
<1>2. \A q \in PageIDs : pages[q] = Leaf(<<>>, NoPage, NoPage) \/ pages[q] = Free
  BY <1>1
<1>3. \A q \in PageIDs : \A t : ~Lies(q, t)
  <2> SUFFICES ASSUME NEW q \in PageIDs, IsLeaf(q), NEW t, In(pages[q].tuples, t) PROVE FALSE
    BY DEF Lies
  <2>1. pages[q].tuples = <<>>
    BY <1>2, Shapes DEF IsLeaf
  <2> QED BY <2>1 DEF In
<1>4. StoredKeys = {}
  BY <1>3 DEF Shelf, Stock
<1>5. PICK c, K : c = Contents /\ K = StoredKeys /\ c = [k \in K |-> c[k]]
  BY DEF Shelf
<1>6. c = <<>>
  BY <1>4, <1>5
<1>7. request = NoRequest /\ answer = FALSE /\ (pc \in {"rebalance", "return"}) = FALSE
  BY DEF Init
<1> QED BY <1>5, <1>6, <1>7 DEF D!Init

LEMMA StepImplements ==
  ASSUME BInv, OInv, Suits, Shelf, Shelf', RoomToGrow, [Next]_vars
  PROVE  [D!Next]_(D!vars)
<1>1. CASE Calls
  BY <1>1, CallsAre DEF D!Next
<1>2. CASE Return
  BY <1>2, ReturnIs DEF D!Next
<1>3. CASE NoSibling
  BY <1>3, NoSiblingIs DEF D!Next
<1>4. CASE WriteTuple \/ DeleteLeaf \/ SearchLeaf
  BY <1>4, WriteApplies, DeleteApplies, SearchApplies DEF D!Next
<1>5. CASE \/ Descend \/ FindFits \/ UnwindNoSplit \/ SearchDescend \/ DeleteReturns \/ NoUnderflow
           \/ FindSplit \/ UnwindInsert \/ UnwindSplit \/ NewRoot \/ RebalanceLeaf \/ RebalanceInternal
  <2>1. Hidden
    BY <1>5, WaysHidden, SplitsHidden, RebalancingHidden
  <2> QED BY <2>1, HiddenStutters
<1>6. CASE UNCHANGED vars
  <2>1. Hidden
    BY <1>6, TreeStays DEF Hidden, Done, vars, tree
  <2> QED BY <2>1, HiddenStutters
<1> QED BY <1>1, <1>2, <1>3, <1>4, <1>5, <1>6 DEF Next, Step, Insert, FindPageToWrite, Search, Delete

\* The tree is a dictionary to its callers (BPlusTree::InsertTuple, DeleteTuple and
\* SearchTuple): each call takes effect once, in one step, and whatever splits, lends and
\* merges around it, no tuple appears, is lost, or becomes another one.
THEOREM IsADictionary == ASSUME Residues = {0} PROVE Spec /\ []RoomToGrow => ImplementsDictionary
<1>1. BInv /\ OInv => Shelf
  BY ShelfIs
<1>2. Init /\ Shelf => D!Init
  BY InitIsEmpty
<1>3. Init => Suits
  BY InitSuits
<1>4. Suits /\ [Next]_vars => Suits'
  BY StepSuits
<1>5. BInv /\ OInv /\ Suits /\ Shelf /\ Shelf' /\ RoomToGrow /\ [Next]_vars => [D!Next]_(D!vars)
  BY StepImplements
<1> QED BY <1>1, <1>2, <1>3, <1>4, <1>5, Order, PTL DEF Spec, ImplementsDictionary, D!Spec
==============================================================================
