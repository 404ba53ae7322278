------------------------------ MODULE BTreeShape ------------------------------
(***************************************************************************)
(* What is proved of the shape of the B+ tree, for any sizes of its pages  *)
(* and any keys: it is a tree whose leaves are equally deep, and whose     *)
(* internal pages are neither overfull nor, but for only children,         *)
(* underfull, also between two levels of a split or a rebalancing.         *)
(*                                                                         *)
(* Its invariant says nothing of tuples; that is for module BTreeProofs.   *)
(* Whichever leaves are split, lend or are merged, the pages above them    *)
(* depend only on how many there are.                                      *)
(*                                                                         *)
(* h is the height of each page above the leaves, up and place say where   *)
(* in the tree it hangs: it is the place-th child of up.                   *)
(*                                                                         *)
(* Lemmas on tuples follow: what they sum up to, and what writing one or   *)
(* several into a leaf makes of it.  The sums are recursive functions, and *)
(* what they compute is proved by induction on how many tuples there are.  *)
(*                                                                         *)
(* At last come lemmas on the order of the tree, for module BTreeProofs:   *)
(* on the ranges of the children of a page, on the chain of leaves and on  *)
(* the tuples of a leaf in their order.                                    *)
(*                                                                         *)
(* The theorems have two premises.  What CheckUnderflow starts to count    *)
(* from is zero, which the code does not see to (run btree_residue shows   *)
(* what happens when it is not).  And there is always an identifier for a  *)
(* new page: the code has 2^64 of them, PageIDs may be any finite set.     *)
(***************************************************************************)
EXTENDS BTree, SequenceTheorems, FiniteSetTheorems, WellFoundedInduction, TLAPS
-----------------------------------------------------------------------------
\* What the operators on sequences that module BTree is written with give, element by element.

\* A piece of a sequence.
LEMMA SliceFacts ==
  ASSUME NEW S, NEW s \in Seq(S), NEW m \in 1..(Len(s) + 1), NEW n \in (m - 1)..Len(s)
  PROVE  /\ SubSeq(s, m, n) \in Seq(S) /\ Len(SubSeq(s, m, n)) = n - m + 1
         /\ \A j \in 1..(n - m + 1) : SubSeq(s, m, n)[j] = s[m + j - 1]
<1>1. Len(s) \in Nat /\ m \in Int /\ n \in Int
  OBVIOUS
<1>2. \A i \in m..n : s[i] \in S
  BY <1>1, ElementOfSeq
<1>3. (IF m <= n THEN n - m + 1 ELSE 0) = n - m + 1
  BY <1>1
<1> QED BY <1>1, <1>2, <1>3, SubSeqProperties

\* Two sequences, one behind the other.
LEMMA JoinFacts ==
  ASSUME NEW S, NEW s \in Seq(S), NEW t \in Seq(S)
  PROVE  /\ s \o t \in Seq(S) /\ Len(s \o t) = Len(s) + Len(t)
         /\ \A j \in 1..(Len(s) + Len(t)) : (s \o t)[j] = IF j <= Len(s) THEN s[j] ELSE t[j - Len(s)]
  BY ConcatProperties

\* A sequence with x as its i-th element.
InsertedAt(S, s, i, x, w) ==
  /\ w \in Seq(S) /\ Len(w) = Len(s) + 1
  /\ \A j \in 1..(Len(s) + 1) : w[j] = IF j < i THEN s[j] ELSE IF j = i THEN x ELSE s[j - 1]

LEMMA InsertIs ==
  ASSUME NEW S, NEW s \in Seq(S), NEW x \in S, NEW i \in 1..(Len(s) + 1)
  PROVE  InsertedAt(S, s, i, x, InsertAt(s, i, x))
<1> DEFINE a == SubSeq(s, 1, i - 1)
           b == SubSeq(s, i, Len(s))
           c == a \o <<x>>
<1>0. Len(s) \in Nat /\ i \in Nat
  OBVIOUS
<1>1. /\ a \in Seq(S) /\ Len(a) = i - 1
      /\ \A j \in 1..(i - 1) : a[j] = s[j]
  BY <1>0, SliceFacts
<1>2. /\ b \in Seq(S) /\ Len(b) = Len(s) - i + 1
      /\ \A j \in 1..(Len(s) - i + 1) : b[j] = s[i + j - 1]
  BY <1>0, SliceFacts
<1>3. <<x>> \in Seq(S) /\ Len(<<x>>) = 1 /\ <<x>>[1] = x
  OBVIOUS
<1>4. InsertAt(s, i, x) = c \o b
  BY DEF InsertAt
<1> HIDE DEF a, b
<1>5. /\ c \in Seq(S) /\ Len(c) = i
      /\ \A j \in 1..i : c[j] = IF j <= i - 1 THEN a[j] ELSE <<x>>[j - (i - 1)]
  BY <1>0, <1>1, <1>3, JoinFacts
<1>6. \A j \in 1..i : c[j] = IF j < i THEN s[j] ELSE x
  BY <1>0, <1>1, <1>3, <1>5
<1> HIDE DEF c
<1>7. /\ c \o b \in Seq(S) /\ Len(c \o b) = Len(c) + Len(b)
      /\ \A j \in 1..(Len(c) + Len(b)) : (c \o b)[j] = IF j <= Len(c) THEN c[j] ELSE b[j - Len(c)]
  BY <1>2, <1>5, JoinFacts
<1>8. Len(c) = i /\ Len(c) + Len(b) = Len(s) + 1
  BY <1>0, <1>2, <1>5
<1>9. \A j \in 1..(Len(s) + 1) :
         (c \o b)[j] = IF j < i THEN s[j] ELSE IF j = i THEN x ELSE s[j - 1]
  <2> TAKE j \in 1..(Len(s) + 1)
  <2>0. j \in Nat /\ (j <= i \/ j > i)
    BY <1>0
  <2>1. CASE j <= i
    BY <2>1, <1>0, <1>6, <1>7, <1>8
  <2>2. CASE j > i
    <3>1. j - i \in 1..(Len(s) - i + 1) /\ i + (j - i) - 1 = j - 1
      BY <2>2, <1>0
    <3>2. b[j - i] = s[i + (j - i) - 1]
      BY <3>1, <1>2
    <3> QED BY <2>2, <3>1, <3>2, <1>0, <1>7, <1>8
  <2> QED BY <2>0, <2>1, <2>2
<1>10. PICK w : w = c \o b
  OBVIOUS
<1>11. InsertedAt(S, s, i, x, w)
  BY <1>7, <1>8, <1>9, <1>10 DEF InsertedAt
<1> QED BY <1>4, <1>10, <1>11

LEMMA InsertFacts ==
  ASSUME NEW S, NEW s \in Seq(S), NEW x \in S, NEW i \in 1..(Len(s) + 1)
  PROVE  InsertAt(s, i, x) \in Seq(S) /\ Len(InsertAt(s, i, x)) = Len(s) + 1
<1>1. PICK w : w = InsertAt(s, i, x)
  OBVIOUS
<1>2. InsertedAt(S, s, i, x, w)
  BY <1>1, InsertIs
<1> QED BY <1>1, <1>2 DEF InsertedAt

\* A sequence without its i-th element.
LEMMA RemoveFacts ==
  ASSUME NEW S, NEW s \in Seq(S), NEW i \in 1..Len(s)
  PROVE  /\ RemoveAt(s, i) \in Seq(S) /\ Len(RemoveAt(s, i)) = Len(s) - 1
         /\ \A j \in 1..(Len(s) - 1) :
              RemoveAt(s, i)[j] = IF j < i THEN s[j] ELSE s[j + 1]
<1> DEFINE a == SubSeq(s, 1, i - 1)
           b == SubSeq(s, i + 1, Len(s))
<1>0. Len(s) \in Nat /\ i \in Nat
  OBVIOUS
<1>1. /\ a \in Seq(S) /\ Len(a) = i - 1
      /\ \A j \in 1..(i - 1) : a[j] = s[j]
  BY <1>0, SliceFacts
<1>2. /\ b \in Seq(S) /\ Len(b) = Len(s) - i
      /\ \A j \in 1..(Len(s) - i) : b[j] = s[i + j]
  BY <1>0, SliceFacts
<1>3. RemoveAt(s, i) = a \o b
  BY DEF RemoveAt
<1> HIDE DEF a, b
<1>4. /\ a \o b \in Seq(S) /\ Len(a \o b) = Len(a) + Len(b)
      /\ \A j \in 1..(Len(a) + Len(b)) : (a \o b)[j] = IF j <= Len(a) THEN a[j] ELSE b[j - Len(a)]
  BY <1>1, <1>2, JoinFacts
<1>5. Len(a) = i - 1 /\ Len(a) + Len(b) = Len(s) - 1
  BY <1>0, <1>1, <1>2
<1>6. \A j \in 1..(Len(s) - 1) : (a \o b)[j] = IF j < i THEN s[j] ELSE s[j + 1]
  <2> TAKE j \in 1..(Len(s) - 1)
  <2>0. j \in Nat /\ (j < i \/ j >= i)
    BY <1>0
  <2>1. CASE j < i
    BY <2>1, <1>0, <1>1, <1>4, <1>5
  <2>2. CASE j >= i
    <3>1. j - (i - 1) \in 1..(Len(s) - i) /\ i + (j - (i - 1)) = j + 1
      BY <2>2, <1>0
    <3>2. b[j - (i - 1)] = s[i + (j - (i - 1))]
      BY <3>1, <1>2
    <3> QED BY <2>2, <3>1, <3>2, <1>0, <1>4, <1>5
  <2> QED BY <2>0, <2>1, <2>2
<1> QED BY <1>3, <1>4, <1>5, <1>6

\* A sequence without its last element.
LEMMA FrontFacts ==
  ASSUME NEW S, NEW s \in Seq(S), s # <<>>
  PROVE  /\ Len(s) \in Nat /\ Len(s) > 0 /\ Last(s) = s[Len(s)] /\ s[Len(s)] \in S
         /\ Front(s) \in Seq(S) /\ Len(Front(s)) = Len(s) - 1
         /\ \A n \in 1..(Len(s) - 1) : Front(s)[n] = s[n]
<1>1. Len(s) \in Nat /\ Len(s) > 0
  BY EmptySeq
<1>2. /\ SubSeq(s, 1, Len(s) - 1) \in Seq(S) /\ Len(SubSeq(s, 1, Len(s) - 1)) = (Len(s) - 1) - 1 + 1
      /\ \A n \in 1..((Len(s) - 1) - 1 + 1) : SubSeq(s, 1, Len(s) - 1)[n] = s[1 + n - 1]
  <2>1. 1 \in 1..(Len(s) + 1) /\ Len(s) - 1 \in (1 - 1)..Len(s)
    BY <1>1
  <2> QED BY <2>1, SliceFacts
<1>3. s[Len(s)] \in S
  BY <1>1, ElementOfSeq
<1> QED BY <1>1, <1>2, <1>3 DEF Front, Last

-----------------------------------------------------------------------------
\* Sequences of something.

IsSeq(s) == s \in Seq({s[i] : i \in DOMAIN s})

LEMMA SeqIs == ASSUME NEW S, NEW s \in Seq(S) PROVE IsSeq(s) /\ Len(s) \in Nat
<1>1. DOMAIN s = 1..Len(s) /\ Len(s) \in Nat /\ s \in [1..Len(s) -> S]
  BY LenProperties
<1>2. s \in [1..Len(s) -> {s[i] : i \in DOMAIN s}]
  BY <1>1
<1>3. s \in Seq({s[i] : i \in DOMAIN s})
  BY <1>1, <1>2, SeqDef
<1> QED BY <1>1, <1>3 DEF IsSeq

LEMMA KeysInsert ==
  ASSUME NEW s, IsSeq(s), NEW x, NEW i \in 1..(Len(s) + 1)
  PROVE  IsSeq(InsertAt(s, i, x)) /\ Len(InsertAt(s, i, x)) = Len(s) + 1
<1> DEFINE T == {s[j] : j \in DOMAIN s}
           S == T \cup {x}
<1>1. s \in Seq(T) /\ T \subseteq S /\ x \in S
  BY DEF IsSeq
<1> HIDE DEF T, S
<1>2. s \in Seq(S)
  BY <1>1, SeqMonotonic
<1>3. InsertAt(s, i, x) \in Seq(S) /\ Len(InsertAt(s, i, x)) = Len(s) + 1
  BY <1>1, <1>2, InsertFacts
<1> QED BY <1>3, SeqIs

LEMMA KeysRemove ==
  ASSUME NEW s, IsSeq(s), NEW i \in 1..Len(s)
  PROVE  IsSeq(RemoveAt(s, i)) /\ Len(RemoveAt(s, i)) = Len(s) - 1
<1> DEFINE T == {s[j] : j \in DOMAIN s}
<1>1. s \in Seq(T)
  BY DEF IsSeq
<1> HIDE DEF T
<1>2. RemoveAt(s, i) \in Seq(T) /\ Len(RemoveAt(s, i)) = Len(s) - 1
  BY <1>1, RemoveFacts
<1> QED BY <1>2, SeqIs

LEMMA KeysSlice ==
  ASSUME NEW s, IsSeq(s), NEW m \in 1..(Len(s) + 1), NEW n \in (m - 1)..Len(s)
  PROVE  IsSeq(SubSeq(s, m, n)) /\ Len(SubSeq(s, m, n)) = n - m + 1
<1> DEFINE T == {s[j] : j \in DOMAIN s}
<1>1. s \in Seq(T)
  BY DEF IsSeq
<1> HIDE DEF T
<1>2. SubSeq(s, m, n) \in Seq(T) /\ Len(SubSeq(s, m, n)) = n - m + 1
  BY <1>1, SliceFacts
<1> QED BY <1>2, SeqIs

LEMMA KeysJoin ==
  ASSUME NEW s, NEW t, IsSeq(s), IsSeq(t)
  PROVE  IsSeq(s \o t) /\ Len(s \o t) = Len(s) + Len(t)
<1> DEFINE A == {s[j] : j \in DOMAIN s}
           B == {t[j] : j \in DOMAIN t}
           S == A \cup B
<1>1. s \in Seq(A) /\ t \in Seq(B) /\ A \subseteq S /\ B \subseteq S
  BY DEF IsSeq
<1> HIDE DEF A, B, S
<1>2. s \in Seq(S) /\ t \in Seq(S)
  BY <1>1, SeqMonotonic
<1>3. s \o t \in Seq(S) /\ Len(s \o t) = Len(s) + Len(t)
  BY <1>2, JoinFacts
<1> QED BY <1>3, SeqIs

LEMMA KeysOne == ASSUME NEW x PROVE IsSeq(<<x>>) /\ Len(<<x>>) = 1
<1>1. <<x>> \in Seq({x}) /\ Len(<<x>>) = 1
  OBVIOUS
<1> QED BY <1>1, SeqIs

LEMMA KeysSet ==
  ASSUME NEW s, IsSeq(s), NEW i \in 1..Len(s), NEW x
  PROVE  IsSeq([s EXCEPT ![i] = x]) /\ Len([s EXCEPT ![i] = x]) = Len(s)
<1> DEFINE T == {s[j] : j \in DOMAIN s}
           S == T \cup {x}
<1>1. s \in Seq(T) /\ T \subseteq S /\ x \in S
  BY DEF IsSeq
<1> HIDE DEF T, S
<1>2. s \in Seq(S)
  BY <1>1, SeqMonotonic
<1>3. [s EXCEPT ![i] = x] \in Seq(S) /\ Len([s EXCEPT ![i] = x]) = Len(s)
  BY <1>1, <1>2, ExceptSeq
<1> QED BY <1>3, SeqIs

LEMMA IsSeqLen == ASSUME NEW s, IsSeq(s) PROVE Len(s) \in Nat /\ DOMAIN s = 1..Len(s)
  BY LenProperties DEF IsSeq

-----------------------------------------------------------------------------
\* The shape of the tree.

\* NewPage finds one.
RoomToGrow == \E p \in PageIDs : pages[p] = Free

M == INTERNAL_UNDERFLOW_THRESHOLD
Kids(p) == pages[p].children
Width(p) == Len(pages[p].keys)
Used(p) == IsLeaf(p) \/ IsInternal(p)

\* Pages are well-formed; what a leaf has is left open.
PageShape(p) ==
  \/ pages[p] = Free
  \/ IsLeaf(p) /\ pages[p] = Leaf(pages[p].tuples, pages[p].left_pid, pages[p].right_pid)
  \/ /\ IsInternal(p)
     /\ pages[p] = Internal(pages[p].keys, Kids(p))
     /\ IsSeq(pages[p].keys) /\ Width(p) <= NUM_KEY_SLOTS
     /\ Kids(p) \in Seq(PageIDs) /\ Len(Kids(p)) = Width(p) + 1

Pages == /\ pages = [p \in PageIDs |-> pages[p]]
         /\ \A p \in PageIDs : PageShape(p)

Witnesses(h, up, place) == /\ h \in [PageIDs -> Nat]
                           /\ up \in [PageIDs -> PageIDs \cup {NoPage}]
                           /\ place \in [PageIDs -> Nat]

\* The children of p are in use, one level lower, and nowhere else in the tree.
Holds(p, h, up, place) ==
  IsInternal(p) => \A i \in 1..Len(Kids(p)) :
                     LET c == Kids(p)[i] IN Used(c) /\ h[p] = h[c] + 1 /\ up[c] = p /\ place[c] = i
Hangs(c, up, place) ==
  /\ IsInternal(up[c])
  /\ place[c] \in 1..Len(Kids(up[c]))
  /\ Kids(up[c])[place[c]] = c

Tree(h, up, place) ==
  \A p \in PageIDs : /\ IsLeaf(p) => h[p] = 0
                     /\ Holds(p, h, up, place)
                     /\ up[p] # NoPage => Hangs(p, up, place)

\* The frames of a call have the way from the root to cur.  It is over when a root was
\* added or dropped.
Follows(n) == IF n = Len(stack) THEN cur ELSE stack[n + 1]
OnWay == \/ pc \in {"insert", "delete"}
         \/ pc = "unwind" /\ (stack # <<>> \/ report.type = "split")
         \/ pc = "rebalance" /\ (stack # <<>> \/ report.type # "InvalidPage")
Way(h, up) ==
  OnWay =>
    /\ cur \in PageIDs /\ Used(cur)
    /\ \A n \in 1..Len(stack) : /\ IsInternal(stack[n])
                                /\ up[Follows(n)] = stack[n]
                                /\ h[stack[n]] = h[cur] + (Len(stack) + 1 - n)
    /\ root = Follows(0)

\* The page that a split has made, before its parent knows of it.
Splitting == pc = "unwind" /\ report.type = "split"
Orphan(h, up) ==
  Splitting => LET new == report.new_page_id IN
    /\ new \in PageIDs /\ Used(new) /\ new # root
    /\ up[new] = NoPage /\ h[new] = h[cur]

Control ==
  /\ stack \in Seq(PageIDs)
  /\ root \in PageIDs /\ Used(root)
  /\ pc \notin {"insert", "unwind", "delete", "rebalance"} => stack = <<>>
  /\ pc = "unwind" => to_write_page \in PageIDs /\ IsLeaf(to_write_page)
  /\ pc = "rebalance" /\ report.type = "LeafPage" => IsLeaf(cur)

\* cur has too few keys, and its parent is about to see to it.
Lacking == pc = "rebalance" /\ report.type = "InternalPage" /\ report.underflown
Wide(c) == IsInternal(c) => Width(c) > M

\* Only cur, and only children, have too few keys.
Occupied(up) ==
  /\ \A c \in PageIDs : up[c] # NoPage => Wide(c) \/ Width(up[c]) = 0 \/ (Lacking /\ c = cur)
  /\ Lacking => /\ IsInternal(cur) /\ report.current_size = Width(cur) /\ Width(cur) <= M
                /\ \A c \in PageIDs : up[c] = cur => Wide(c)
  /\ Splitting => Wide(cur) /\ Wide(report.new_page_id)

Structure(h, up, place) ==
  /\ Witnesses(h, up, place) /\ Tree(h, up, place) /\ up[root] = NoPage
  /\ Way(h, up) /\ Orphan(h, up) /\ Occupied(up)

BInv == Pages /\ Control /\ \E h, up, place : Structure(h, up, place)

-----------------------------------------------------------------------------
\* Pages and functions.

\* A function with one value changed.
LEMMA Update ==
  ASSUME NEW P, NEW f, f = [p \in P |-> f[p]], NEW a \in P, NEW x, NEW g, g = [f EXCEPT ![a] = x]
  PROVE  /\ g = [p \in P |-> g[p]] /\ g[a] = x
         /\ \A p \in P : p # a => g[p] = f[p]
<1>1. DOMAIN f = P
  OBVIOUS
<1>2. g = [p \in P |-> IF p = a THEN x ELSE f[p]]
  BY <1>1
<1> QED BY <1>2

LEMMA Update3 ==
  ASSUME NEW P, NEW f, f = [p \in P |-> f[p]], NEW a \in P, NEW b \in P, NEW c \in P,
         a # b, a # c, b # c, NEW x, NEW y, NEW z, NEW g,
         g = [f EXCEPT ![a] = x, ![b] = y, ![c] = z]
  PROVE  /\ g = [p \in P |-> g[p]] /\ g[a] = x /\ g[b] = y /\ g[c] = z
         /\ \A p \in P : p \notin {a, b, c} => g[p] = f[p]
<1>1. DOMAIN f = P
  OBVIOUS
<1>2. g = [p \in P |-> IF p = c THEN z ELSE IF p = b THEN y ELSE IF p = a THEN x ELSE f[p]]
  BY <1>1
<1> QED BY <1>2

\* The kinds of pages are told apart by their type.
LEMMA Kinds ==
  ASSUME NEW p, PageShape(p)
  PROVE  /\ pages[p] = Free <=> ~Used(p)
         /\ IsLeaf(p) => ~IsInternal(p) /\ pages[p] # Free
         /\ IsInternal(p) => /\ pages[p] # Free /\ IsSeq(pages[p].keys)
                             /\ Width(p) \in Nat /\ Width(p) <= NUM_KEY_SLOTS
                             /\ Kids(p) \in Seq(PageIDs) /\ Len(Kids(p)) = Width(p) + 1
<1>1. Free.type = "free"
  BY DEF Free
<1>2. IsInternal(p) => IsSeq(pages[p].keys)
  BY <1>1 DEF PageShape, IsLeaf, IsInternal
<1>3. IsInternal(p) => Width(p) \in Nat
  BY <1>2, IsSeqLen DEF Width
<1> QED BY <1>1, <1>2, <1>3 DEF PageShape, IsLeaf, IsInternal, Used

LEMMA NewPageIsFree ==
  ASSUME RoomToGrow
  PROVE  NewPage \in PageIDs /\ pages[NewPage] = Free
<1> DEFINE T == {p \in PageIDs : pages[p] = Free}
<1>1. T \subseteq Nat /\ T # {}
  BY BTreeAssumption DEF RoomToGrow
<1>2. \E x \in T : \A y \in T : ~(<<y, x>> \in OpToRel(<, Nat))
  BY <1>1, WFMin, NatLessThanWellFounded
<1>3. \E x \in T : \A y \in T : x <= y
  <2>1. PICK x \in T : \A y \in T : ~(<<y, x>> \in OpToRel(<, Nat))
    BY <1>2
  <2>2. \A y \in T : y < x => <<y, x>> \in OpToRel(<, Nat)
    <3> SUFFICES ASSUME NEW y \in T, y < x PROVE <<y, x>> \in OpToRel(<, Nat)
      OBVIOUS
    <3>1. <<y, x>> \in Nat \X Nat /\ <<y, x>>[1] < <<y, x>>[2]
      BY <1>1
    <3> QED BY <3>1 DEF OpToRel
  <2>3. ASSUME NEW y \in T PROVE x <= y
    <3>1. x \in Nat /\ y \in Nat
      BY <1>1
    <3>2. ~(y < x)
      BY <2>1, <2>2
    <3> QED BY <3>1, <3>2
  <2> QED BY <2>3
<1>4. \E p \in PageIDs : pages[p] = Free /\ \A q \in PageIDs : pages[q] = Free => p <= q
  BY <1>3
<1> QED BY <1>4 DEF NewPage

\* Where a key goes among the keys of an internal page.
LEMMA UpToFacts ==
  ASSUME NEW keys, IsSeq(keys), NEW k
  PROVE  UpTo(keys, k) \in 0..Len(keys)
<1>1. DOMAIN keys = 1..Len(keys) /\ Len(keys) \in Nat
  BY IsSeqLen
<1>2. {i \in DOMAIN keys : keys[i] <= k} \in SUBSET (1..Len(keys))
  BY <1>1
<1>3. IsFiniteSet(1..Len(keys)) /\ Cardinality(1..Len(keys)) = Len(keys)
  <2>1. 1 \in Int /\ Len(keys) \in Int /\ (IF 1 > Len(keys) THEN 0 ELSE Len(keys) - 1 + 1) = Len(keys)
    BY <1>1
  <2> QED BY <2>1, FS_Interval
<1>4. /\ IsFiniteSet({i \in DOMAIN keys : keys[i] <= k})
      /\ Cardinality({i \in DOMAIN keys : keys[i] <= k}) <= Len(keys)
  BY <1>2, <1>3, FS_Subset
<1>5. Cardinality({i \in DOMAIN keys : keys[i] <= k}) \in Nat
  BY <1>4, FS_CardinalityType
<1> QED BY <1>1, <1>4, <1>5 DEF UpTo

\* What the pages on the way to cur have in common: see Way.
LEMMA Heights ==
  ASSUME Pages, NEW h, NEW up, NEW place, Witnesses(h, up, place), Tree(h, up, place)
  PROVE  /\ \A p \in PageIDs : IsLeaf(p) => h[p] = 0
         /\ \A p \in PageIDs : IsInternal(p) => h[p] > 0
         /\ \A p \in PageIDs : up[p] # NoPage => /\ up[p] \in PageIDs /\ IsInternal(up[p])
                                                 /\ Used(p) /\ h[up[p]] = h[p] + 1
<1>1. \A p \in PageIDs : PageShape(p)
  BY DEF Pages
<1>2. \A p \in PageIDs : IsInternal(p) =>
         Width(p) \in Nat /\ Kids(p) \in Seq(PageIDs) /\ Len(Kids(p)) = Width(p) + 1
  BY <1>1, Kinds
<1>3. \A p \in PageIDs : IsInternal(p) => h[p] > 0
  <2> SUFFICES ASSUME NEW p \in PageIDs, IsInternal(p) PROVE h[p] > 0
    OBVIOUS
  <2>1. 1 \in 1..Len(Kids(p)) /\ Kids(p)[1] \in PageIDs
    BY <1>2, ElementOfSeq
  <2>2. h[p] = h[Kids(p)[1]] + 1
    BY <2>1 DEF Tree, Holds
  <2>3. h[Kids(p)[1]] \in Nat
    BY <2>1 DEF Witnesses
  <2> QED BY <2>2, <2>3
<1>4. \A p \in PageIDs : up[p] # NoPage => up[p] \in PageIDs
  BY DEF Witnesses
<1>5. \A p \in PageIDs : up[p] # NoPage => /\ IsInternal(up[p])
                                           /\ Used(p) /\ h[up[p]] = h[p] + 1
  BY <1>4 DEF Tree, Hangs, Holds
<1> QED BY <1>3, <1>4, <1>5 DEF Tree

-----------------------------------------------------------------------------
\* Trees.

\* Pages keep their kinds, internal pages their number of keys and their children.
AlikeAt(p) ==
  /\ pages'[p].type = pages[p].type
  /\ IsInternal(p) => Len(pages'[p].keys) = Width(p) /\ pages'[p].children = Kids(p)
Alike == \A p \in PageIDs : AlikeAt(p)

LEMMA AlikeTree ==
  ASSUME NEW h, NEW up, NEW place, Pages, Witnesses(h, up, place), Tree(h, up, place), Alike
  PROVE  Tree(h, up, place)'
<1>1. \A p \in PageIDs : /\ IsInternal(p)' <=> IsInternal(p)
                         /\ IsLeaf(p)' <=> IsLeaf(p)
                         /\ Used(p)' <=> Used(p)
  BY DEF Alike, AlikeAt, IsInternal, IsLeaf, Used
<1>2. \A p \in PageIDs : IsInternal(p) => Kids(p)' = Kids(p)
  BY DEF Alike, AlikeAt, Kids
<1>3. \A p \in PageIDs : IsInternal(p) => \A i \in 1..Len(Kids(p)) : Kids(p)[i] \in PageIDs
  BY Kinds, ElementOfSeq DEF Pages
<1>4. \A p \in PageIDs : Holds(p, h, up, place)'
  BY <1>1, <1>2, <1>3 DEF Holds, Tree
<1>5. \A p \in PageIDs : up[p] # NoPage => up[p] \in PageIDs
  BY DEF Witnesses
<1>6. \A p \in PageIDs : up[p] # NoPage => Hangs(p, up, place)'
  BY <1>1, <1>2, <1>5 DEF Hangs, Tree
<1>7. \A p \in PageIDs : IsLeaf(p)' => h[p] = 0
  BY <1>1 DEF Tree
<1> QED BY <1>4, <1>6, <1>7 DEF Tree

LEMMA AlikeFacts ==
  ASSUME NEW p, AlikeAt(p)
  PROVE  /\ IsInternal(p)' <=> IsInternal(p)
         /\ IsLeaf(p)' <=> IsLeaf(p)
         /\ Used(p)' <=> Used(p)
         /\ Wide(p)' <=> Wide(p)
         /\ IsInternal(p) => Kids(p)' = Kids(p) /\ Width(p)' = Width(p)
  BY DEF AlikeAt, IsInternal, IsLeaf, Used, Kids, Width, Wide

\* A step that changes only the pages in G.  Pages may come and go, and those that hang
\* below pages in G may be moved.
Regrouping(h, up, place, h2, up2, place2, G) ==
  /\ \A p \in PageIDs : p \notin G => AlikeAt(p)
  /\ \A c \in PageIDs : Used(c) => h2[c] = h[c]
  /\ \A c \in PageIDs : up[c] # NoPage /\ up[c] \notin G =>
       (pages'[c].type = "leaf" \/ pages'[c].type = "internal")
         /\ up2[c] = up[c] /\ place2[c] = place[c]
  /\ \A c \in PageIDs : up2[c] # NoPage => up2[c] = up[c] \/ up2[c] \in G
  /\ \A p \in G : (IsLeaf(p)' => h2[p] = 0) /\ Holds(p, h2, up2, place2)'
  /\ \A c \in PageIDs : up2[c] \in G => Hangs(c, up2, place2)'

LEMMA Regroup ==
  ASSUME NEW h, NEW up, NEW place, NEW h2, NEW up2, NEW place2, NEW G \in SUBSET PageIDs,
         Pages, Witnesses(h, up, place), Tree(h, up, place), Witnesses(h2, up2, place2),
         Regrouping(h, up, place, h2, up2, place2, G)
  PROVE  Tree(h2, up2, place2)'
<1> USE DEF Regrouping
<1>0. NoPage \notin PageIDs
  BY BTreeAssumption
<1>1. \A p \in PageIDs : p \notin G => /\ IsInternal(p)' <=> IsInternal(p)
                                       /\ IsLeaf(p)' <=> IsLeaf(p)
                                       /\ IsInternal(p) => Kids(p)' = Kids(p)
  BY AlikeFacts
<1>2. \A p \in PageIDs : IsInternal(p) => \A i \in 1..Len(Kids(p)) : Kids(p)[i] \in PageIDs
  BY Kinds, ElementOfSeq DEF Pages
<1>3. \A p \in PageIDs : p \notin G => Holds(p, h2, up2, place2)'
  <2> SUFFICES ASSUME NEW p \in PageIDs, p \notin G, IsInternal(p)', NEW i \in 1..Len(Kids(p)),
                      NEW c, c = Kids(p)[i]
               PROVE  Used(c)' /\ h2[p] = h2[c] + 1 /\ up2[c] = p /\ place2[c] = i
    BY <1>1 DEF Holds, Used, IsLeaf, IsInternal
  <2>1. IsInternal(p) /\ c \in PageIDs
    BY <1>1, <1>2
  <2>2. Used(c) /\ h[p] = h[c] + 1 /\ up[c] = p /\ place[c] = i
    BY <2>1 DEF Tree, Holds
  <2>3. Used(p)
    BY <2>1 DEF Used
  <2>4. Used(c)' /\ up2[c] = p /\ place2[c] = i
    BY <1>0, <2>1, <2>2 DEF Used, IsLeaf, IsInternal
  <2>5. h2[p] = h[p] /\ h2[c] = h[c]
    BY <2>1, <2>2, <2>3
  <2> QED BY <2>2, <2>4, <2>5
<1>4. \A c \in PageIDs : up2[c] # NoPage /\ up2[c] \notin G => Hangs(c, up2, place2)'
  <2> SUFFICES ASSUME NEW c \in PageIDs, up2[c] # NoPage, up2[c] \notin G
               PROVE  Hangs(c, up2, place2)'
    OBVIOUS
  <2>1. up2[c] = up[c] /\ up[c] \in PageIDs /\ place2[c] = place[c]
    BY DEF Witnesses
  <2>2. Hangs(c, up, place)
    BY <2>1 DEF Tree
  <2> QED BY <1>1, <2>1, <2>2 DEF Hangs
<1>5. \A p \in PageIDs : p \notin G /\ IsLeaf(p)' => h2[p] = 0
  BY <1>1 DEF Tree, Used
<1> QED BY <1>3, <1>4, <1>5 DEF Tree

\* The frame that a page is returned to.
LEMMA OnTop ==
  ASSUME NEW h, NEW up, NEW place, Control, Witnesses(h, up, place), Way(h, up), OnWay, stack # <<>>
  PROVE  /\ cur \in PageIDs /\ Used(cur)
         /\ parent \in PageIDs /\ IsInternal(parent)
         /\ up[cur] = parent /\ h[parent] = h[cur] + 1
<1>1. /\ Len(stack) \in Nat /\ Len(stack) > 0
      /\ parent = stack[Len(stack)] /\ parent \in PageIDs
  BY FrontFacts DEF Control, parent
<1>2. /\ cur \in PageIDs /\ Used(cur)
      /\ \A n \in 1..Len(stack) : /\ IsInternal(stack[n])
                                  /\ up[Follows(n)] = stack[n]
                                  /\ h[stack[n]] = h[cur] + (Len(stack) + 1 - n)
  BY DEF Way
<1>3. Len(stack) \in 1..Len(stack) /\ Follows(Len(stack)) = cur
  BY <1>1 DEF Follows
<1>4. Len(stack) + 1 - Len(stack) = 1
  BY <1>1
<1> QED BY <1>1, <1>2, <1>3, <1>4

\* A call returns to the frame below.  What lies above cur's level did not move.
LEMMA AscendWay ==
  ASSUME NEW h, NEW up, NEW place, NEW h2, NEW up2,
         Control, Witnesses(h, up, place), Way(h, up), OnWay, stack # <<>>,
         cur' = Last(stack), stack' = Front(stack), root' = root,
         \A q \in PageIDs : IsInternal(q) /\ h[q] > h[cur] =>
            pages'[q].type = "internal" /\ h2[q] = h[q] /\ up2[q] = up[q]
  PROVE  Way(h2, up2)'
<1> DEFINE n == Len(stack)
<1>1. /\ n \in Nat /\ n > 0 /\ cur' = stack[n] /\ cur' \in PageIDs
      /\ stack' \in Seq(PageIDs) /\ Len(stack') = n - 1
      /\ \A m \in 1..(n - 1) : stack'[m] = stack[m]
  BY FrontFacts DEF Control
<1>2. \A m \in 1..n : stack[m] \in PageIDs
  BY <1>1, ElementOfSeq DEF Control
<1>3. /\ cur \in PageIDs /\ Used(cur) /\ h[cur] \in Nat
      /\ \A m \in 1..n : /\ IsInternal(stack[m])
                         /\ up[Follows(m)] = stack[m]
                         /\ h[stack[m]] = h[cur] + (n + 1 - m)
      /\ root = Follows(0)
  BY DEF Way, Witnesses
<1> HIDE DEF n
<1>4. \A m \in 1..n : h[stack[m]] > h[cur]
  BY <1>1, <1>3
<1>5. \A m \in 1..n : /\ pages'[stack[m]].type = "internal" /\ h2[stack[m]] = h[stack[m]]
                      /\ up2[stack[m]] = up[stack[m]]
  BY <1>2, <1>3, <1>4
<1>6. \A m \in 0..(n - 1) : Follows(m)' = Follows(m) /\ Follows(m) = stack[m + 1]
  <2> SUFFICES ASSUME NEW m \in 0..(n - 1)
               PROVE  Follows(m)' = Follows(m) /\ Follows(m) = stack[m + 1]
    OBVIOUS
  <2>1. Follows(m) = stack[m + 1]
    BY <1>1 DEF Follows, n
  <2>2. CASE m = n - 1
    BY <1>1, <2>1, <2>2 DEF Follows
  <2>3. CASE m # n - 1
    <3>1. m + 1 \in 1..(n - 1)
      BY <1>1, <2>3
    <3> QED BY <1>1, <2>1, <2>3, <3>1 DEF Follows
  <2> QED BY <2>2, <2>3
<1>7. cur' \in PageIDs /\ Used(cur)'
  BY <1>1, <1>5 DEF Used, IsInternal
<1>8. \A m \in 1..(n - 1) : /\ pages'[stack[m]].type = "internal" /\ up2[Follows(m)'] = stack[m]
                            /\ h2[stack[m]] = h2[cur'] + (n - m)
  <2> SUFFICES ASSUME NEW m \in 1..(n - 1)
               PROVE  /\ pages'[stack[m]].type = "internal" /\ up2[Follows(m)'] = stack[m]
                      /\ h2[stack[m]] = h2[cur'] + (n - m)
    OBVIOUS
  <2>1. m \in 1..n /\ m \in 0..(n - 1) /\ m + 1 \in 1..n /\ n \in 1..n
    BY <1>1
  <2>2. h2[cur'] = h[cur] + (n + 1 - n) /\ h2[stack[m]] = h[cur] + (n + 1 - m)
    BY <1>1, <1>3, <1>5, <2>1
  <2>3. h2[stack[m]] = h2[cur'] + (n - m)
    <3>1. n \in Nat /\ m \in Nat /\ h[cur] \in Nat
      BY <1>1, <1>3
    <3>2. h[cur] + (n + 1 - m) = (h[cur] + (n + 1 - n)) + (n - m)
      BY ONLY <3>1
    <3> QED BY <2>2, <3>2
  <2>4. up2[Follows(m)'] = stack[m]
    <3>1. up[Follows(m)] = stack[m]
      BY <1>3, <2>1
    <3>2. Follows(m)' = stack[m + 1] /\ Follows(m) = stack[m + 1]
      BY <1>6, <2>1
    <3>3. up2[stack[m + 1]] = up[stack[m + 1]]
      BY <1>5, <2>1
    <3> QED BY <3>1, <3>2, <3>3
  <2> QED BY <1>5, <2>1, <2>3, <2>4
<1>9. root' = Follows(0)'
  BY <1>1, <1>3, <1>6
<1>10. \A m \in 1..Len(stack') : /\ stack'[m] = stack[m] /\ m \in 1..(n - 1)
                                 /\ Len(stack') + 1 - m = n - m
  BY <1>1
<1>11. \A m \in 1..Len(stack') : /\ pages'[stack'[m]].type = "internal"
                                 /\ up2[Follows(m)'] = stack'[m]
                                 /\ h2[stack'[m]] = h2[cur'] + (Len(stack') + 1 - m)
  BY <1>8, <1>10
<1> QED BY <1>7, <1>9, <1>11 DEF Way, IsInternal

\* A step that leaves the call where it is.
LEMMA WayStays ==
  ASSUME NEW h, NEW up, NEW h2, NEW up2, Control, Way(h, up), OnWay,
         cur' = cur, stack' = stack, root' = root,
         \A q \in PageIDs : Used(q) => /\ pages'[q].type = pages[q].type
                                      /\ h2[q] = h[q] /\ up2[q] = up[q]
  PROVE  Way(h2, up2)'
<1>1. \A n \in 1..Len(stack) : stack[n] \in PageIDs
  BY ElementOfSeq DEF Control
<1>2. /\ cur \in PageIDs /\ Used(cur)
      /\ \A n \in 1..Len(stack) : /\ IsInternal(stack[n])
                                  /\ up[Follows(n)] = stack[n]
                                  /\ h[stack[n]] = h[cur] + (Len(stack) + 1 - n)
      /\ root = Follows(0)
  BY DEF Way
<1>3. \A n : Follows(n)' = Follows(n)
  BY DEF Follows
<1>4. cur' \in PageIDs /\ Used(cur)'
  BY <1>2 DEF Used, IsLeaf, IsInternal
<1>5. \A n \in 1..Len(stack) : Follows(n) \in PageIDs /\ Used(Follows(n))
  <2> SUFFICES ASSUME NEW n \in 1..Len(stack) PROVE Follows(n) \in PageIDs /\ Used(Follows(n))
    OBVIOUS
  <2>1. CASE n = Len(stack)
    BY <2>1, <1>2 DEF Follows
  <2>2. CASE n # Len(stack)
    <3>1. n + 1 \in 1..Len(stack)
      BY <2>2, LenProperties DEF Control
    <3> QED BY <2>2, <3>1, <1>1, <1>2 DEF Follows, Used
  <2> QED BY <2>1, <2>2
<1>6. \A n \in 1..Len(stack) : /\ pages'[stack[n]].type = "internal"
                              /\ up2[Follows(n)] = stack[n]
                              /\ h2[stack[n]] = h2[cur] + (Len(stack) + 1 - n)
  BY <1>1, <1>2, <1>5 DEF IsInternal, Used
<1>7. \A n \in 1..Len(stack') : /\ IsInternal(stack[n])'
                               /\ up2[Follows(n)'] = stack'[n]
                               /\ h2[stack'[n]] = h2[cur'] + (Len(stack') + 1 - n)
  BY <1>3, <1>6 DEF IsInternal
<1> QED BY <1>2, <1>3, <1>4, <1>7 DEF Way

-----------------------------------------------------------------------------
\* Steps that move no page.

LEMMA Shapes ==
  /\ \A t, l, r : /\ Leaf(t, l, r).type = "leaf" /\ Leaf(t, l, r).tuples = t
                  /\ Leaf(t, l, r).left_pid = l /\ Leaf(t, l, r).right_pid = r
  /\ \A k, c : /\ Internal(k, c).type = "internal"
               /\ Internal(k, c).keys = k /\ Internal(k, c).children = c
  /\ Free.type = "free"
  BY DEF Leaf, Internal, Free

LEMMA LeafShape ==
  ASSUME NEW p, NEW t, NEW l, NEW r, pages'[p] = Leaf(t, l, r)
  PROVE  PageShape(p)' /\ IsLeaf(p)' /\ Used(p)' /\ ~IsInternal(p)'
  BY Shapes DEF PageShape, IsLeaf, IsInternal, Used

LEMMA InternalShape ==
  ASSUME NEW p, NEW k, NEW c, pages'[p] = Internal(k, c),
         IsSeq(k), Len(k) <= NUM_KEY_SLOTS, c \in Seq(PageIDs), Len(c) = Len(k) + 1
  PROVE  /\ PageShape(p)' /\ IsInternal(p)' /\ Used(p)' /\ ~IsLeaf(p)'
         /\ Width(p)' = Len(k) /\ Kids(p)' = c
  BY Shapes DEF PageShape, IsLeaf, IsInternal, Used, Kids, Width

LEMMA FreeShape ==
  ASSUME NEW p, pages'[p] = Free
  PROVE  PageShape(p)' /\ ~Used(p)' /\ ~IsLeaf(p)' /\ ~IsInternal(p)'
  BY Shapes DEF PageShape, IsLeaf, IsInternal, Used

LEMMA SameShape ==
  ASSUME NEW p, pages'[p] = pages[p]
  PROVE  /\ PageShape(p)' <=> PageShape(p)
         /\ IsLeaf(p)' <=> IsLeaf(p)
         /\ IsInternal(p)' <=> IsInternal(p)
         /\ Used(p)' <=> Used(p)
         /\ Wide(p)' <=> Wide(p)
         /\ Kids(p)' = Kids(p) /\ Width(p)' = Width(p)
  BY DEF PageShape, IsLeaf, IsInternal, Used, Kids, Width, Wide

\* A field of a page is changed.
LEMMA WithTuples ==
  ASSUME NEW p, IsLeaf(p), PageShape(p), NEW t
  PROVE  [pages[p] EXCEPT !.tuples = t] = Leaf(t, pages[p].left_pid, pages[p].right_pid)
<1>1. pages[p] = Leaf(pages[p].tuples, pages[p].left_pid, pages[p].right_pid)
  BY Kinds, Shapes DEF PageShape, IsLeaf, IsInternal
<1> QED BY <1>1 DEF Leaf

LEMMA WithKeys ==
  ASSUME NEW p, IsInternal(p), PageShape(p), NEW n, NEW k
  PROVE  [pages[p] EXCEPT !.keys[n] = k] = Internal([pages[p].keys EXCEPT ![n] = k], Kids(p))
<1>1. pages[p] = Internal(pages[p].keys, Kids(p))
  BY Kinds, Shapes DEF PageShape, IsLeaf, IsInternal
<1> QED BY <1>1 DEF Internal, Kids

\* No page that has siblings has too few keys.
Roomy(up) == \A c \in PageIDs : up[c] # NoPage => Wide(c) \/ Width(up[c]) = 0

LEMMA AlikeKeeps ==
  ASSUME NEW h, NEW up, NEW place, Pages, Structure(h, up, place), Roomy(up), Alike,
         Pages', root' = root, Control', Way(h, up)', ~Lacking', ~Splitting'
  PROVE  BInv'
<1>1. Witnesses(h, up, place)' /\ up[root'] = NoPage
  BY DEF Structure, Witnesses
<1>2. Tree(h, up, place)'
  BY AlikeTree DEF Structure
<1>3. Orphan(h, up)'
  BY DEF Orphan
<1>4. Occupied(up)'
  <2>1. \A c \in PageIDs : up[c] # NoPage => up[c] \in PageIDs /\ IsInternal(up[c])
    BY Heights DEF Structure
  <2>2. \A c \in PageIDs : /\ IsInternal(c)' <=> IsInternal(c)
                           /\ IsInternal(c) => Width(c)' = Width(c)
    BY DEF Alike, AlikeAt, IsInternal, Width
  <2>3. \A c \in PageIDs : up[c] # NoPage => Wide(c)' \/ Width(up[c])' = 0
    BY <2>1, <2>2 DEF Roomy, Wide
  <2> QED BY <2>3 DEF Occupied
<1>5. Structure(h, up, place)'
  BY <1>1, <1>2, <1>3, <1>4 DEF Structure
<1> QED BY <1>5 DEF BInv

LEMMA QuietKeeps ==
  ASSUME NEW h, NEW up, NEW place, Pages, Structure(h, up, place), Roomy(up),
         pages' = pages, root' = root, Control', Way(h, up)', ~Lacking', ~Splitting'
  PROVE  BInv'
<1>1. Pages'
  BY DEF Pages, PageShape, IsLeaf, IsInternal, Kids, Width
<1>2. Alike
  BY DEF Alike, AlikeAt, Width, Kids
<1> QED BY <1>1, <1>2, AlikeKeeps

\* The way up, when nothing was moved.
LEMMA QuietAscend ==
  ASSUME NEW h, NEW up, NEW place, Control, Structure(h, up, place), OnWay, stack # <<>>,
         cur' = Last(stack), stack' = Front(stack), pages' = pages, root' = root
  PROVE  Way(h, up)'
<1>1. \A q \in PageIDs : IsInternal(q) /\ h[q] > h[cur] => pages'[q].type = "internal"
  BY DEF IsInternal
<1> QED BY <1>1, AscendWay DEF Structure

LEMMA CallKeeps == ASSUME BInv, NEW kind \in {"insert", "delete", "search"}, NEW k, NEW s, Call(kind, k, s)
                   PROVE  BInv'
<1>1. PICK h, up, place : Structure(h, up, place)
  BY DEF BInv
<1>2. /\ pages' = pages /\ root' = root /\ stack' = stack /\ pc' = kind /\ cur' = root
      /\ pc = "idle" /\ report' = report /\ to_write_page' = to_write_page
  BY DEF Call, tree
<1>3. stack = <<>> /\ Control
  BY <1>2 DEF BInv, Control
<1>4. Roomy(up) /\ ~Lacking' /\ ~Splitting'
  BY <1>1, <1>2 DEF Structure, Occupied, Roomy, Lacking, Splitting
<1>5. Control'
  BY <1>2, <1>3 DEF Control, Used, IsLeaf, IsInternal
<1>6. Way(h, up)'
  <2>1. Len(stack) = 0
    BY <1>3
  <2> QED BY <1>2, <1>3, <2>1 DEF Way, Follows, Control, Used, IsLeaf, IsInternal
<1> QED BY <1>1, <1>2, <1>4, <1>5, <1>6, QuietKeeps DEF BInv

LEMMA ReturnKeeps == ASSUME BInv, Return PROVE BInv'
<1>1. PICK h, up, place : Structure(h, up, place)
  BY DEF BInv
<1>2. /\ pages' = pages /\ root' = root /\ stack' = stack /\ pc' = "idle" /\ pc = "return"
  BY DEF Return, tree, frame
<1>3. stack = <<>> /\ Control
  BY <1>2 DEF BInv, Control
<1>4. Roomy(up) /\ ~Lacking' /\ ~Splitting'
  BY <1>1, <1>2 DEF Structure, Occupied, Roomy, Lacking, Splitting
<1>5. Control' /\ Way(h, up)'
  BY <1>2, <1>3 DEF Control, Used, IsLeaf, IsInternal, Way, OnWay
<1> QED BY <1>1, <1>2, <1>4, <1>5, QuietKeeps DEF BInv

LEMMA SearchKeeps == ASSUME BInv, Search PROVE BInv'
<1>1. PICK h, up, place : Structure(h, up, place)
  BY DEF BInv
<1>2. /\ pages' = pages /\ root' = root /\ stack' = stack /\ pc' \in {"search", "return"} /\ pc = "search"
  BY DEF Search, SearchDescend, SearchLeaf, tree
<1>3. stack = <<>> /\ Control
  BY <1>2 DEF BInv, Control
<1>4. Roomy(up) /\ ~Lacking' /\ ~Splitting'
  BY <1>1, <1>2 DEF Structure, Occupied, Roomy, Lacking, Splitting
<1>5. Control' /\ Way(h, up)'
  BY <1>2, <1>3 DEF Control, Used, IsLeaf, IsInternal, Way, OnWay
<1> QED BY <1>1, <1>2, <1>4, <1>5, QuietKeeps DEF BInv

LEMMA FindFitsKeeps == ASSUME BInv, FindFits PROVE BInv'
<1>1. PICK h, up, place : Structure(h, up, place)
  BY DEF BInv
<1>2. /\ pages' = pages /\ root' = root /\ stack' = stack /\ pc' = "unwind" /\ pc = "insert"
      /\ cur' = cur /\ to_write_page' = cur /\ report'.type = "no split" /\ IsLeaf(cur)
  BY DEF FindFits, tree, NoSplit
<1>3. Control /\ Way(h, up) /\ OnWay /\ cur \in PageIDs
  BY <1>1, <1>2 DEF BInv, Structure, Way, OnWay
<1>4. Roomy(up) /\ ~Lacking' /\ ~Splitting'
  BY <1>1, <1>2 DEF Structure, Occupied, Roomy, Lacking, Splitting
<1>5. Control'
  BY <1>2, <1>3 DEF Control, Used, IsLeaf, IsInternal
<1>6. Way(h, up)'
  BY <1>2, <1>3 DEF Way, Follows, Used, IsLeaf, IsInternal
<1> QED BY <1>1, <1>2, <1>4, <1>5, <1>6, QuietKeeps DEF BInv

\* One level down: the way gets longer.
LEMMA DescendKeeps == ASSUME BInv, Descend PROVE BInv'
<1>0. PICK n : n = Len(stack)
  OBVIOUS
<1>1. PICK h, up, place : Structure(h, up, place)
  BY DEF BInv
<1>2. /\ pages' = pages /\ root' = root /\ pc' = pc /\ pc \in {"insert", "delete"}
      /\ stack' = Append(stack, cur) /\ cur' = GetChildPageID(cur, request.key) /\ IsInternal(cur)
      /\ to_write_page' = to_write_page
  BY DEF Descend, tree
<1>3. /\ Control /\ Way(h, up) /\ OnWay /\ cur \in PageIDs /\ Used(cur)
      /\ \A m \in 1..n : /\ IsInternal(stack[m]) /\ up[Follows(m)] = stack[m]
                         /\ h[stack[m]] = h[cur] + (n + 1 - m)
      /\ root = Follows(0) /\ Tree(h, up, place) /\ Witnesses(h, up, place)
  BY <1>0, <1>1, <1>2 DEF BInv, Structure, Way, OnWay
<1>4. Roomy(up) /\ ~Lacking' /\ ~Splitting'
  BY <1>1, <1>2 DEF Structure, Occupied, Roomy, Lacking, Splitting
<1>5. /\ n \in Nat /\ stack' \in Seq(PageIDs) /\ Len(stack') = n + 1
      /\ \A m \in 1..n : stack'[m] = stack[m]
      /\ stack'[n + 1] = cur
  BY <1>0, <1>2, <1>3, AppendProperties, LenProperties DEF Control
<1>6. /\ cur' \in PageIDs /\ Used(cur') /\ up[cur'] = cur /\ h[cur] = h[cur'] + 1
  <2>1. IsSeq(pages[cur].keys) /\ Kids(cur) \in Seq(PageIDs) /\ Len(Kids(cur)) = Width(cur) + 1
    BY <1>2, <1>3, Kinds DEF BInv, Pages
  <2>2. UpTo(pages[cur].keys, request.key) + 1 \in 1..Len(Kids(cur))
    BY <2>1, UpToFacts, IsSeqLen DEF Width
  <2>3. cur' = Kids(cur)[UpTo(pages[cur].keys, request.key) + 1]
    BY <1>2 DEF GetChildPageID, Kids
  <2> QED BY <1>2, <1>3, <2>1, <2>2, <2>3, ElementOfSeq DEF Tree, Holds
<1>7. Control'
  BY <1>2, <1>3, <1>5 DEF Control, Used, IsLeaf, IsInternal
<1>8. Way(h, up)'
  <2>1. cur' \in PageIDs /\ Used(cur)'
    BY <1>2, <1>6 DEF Used, IsLeaf, IsInternal
  <2>2. \A m \in 0..n : Follows(m)' = Follows(m)
    <3> SUFFICES ASSUME NEW m \in 0..n PROVE Follows(m)' = Follows(m)
      OBVIOUS
    <3>1. Follows(m)' = stack'[m + 1]
      BY <1>5 DEF Follows
    <3>2. CASE m = n
      BY <3>1, <3>2, <1>0, <1>5 DEF Follows
    <3>3. CASE m # n
      <4>1. m + 1 \in 1..n
        BY <3>3, <1>5
      <4> QED BY <3>1, <3>3, <4>1, <1>0, <1>5 DEF Follows
    <3> QED BY <3>2, <3>3
  <2>3. Follows(n + 1)' = cur'
    BY <1>5 DEF Follows
  <2>4. h[cur] \in Nat /\ h[cur'] \in Nat
    BY <1>3, <1>6 DEF Witnesses
  <2>5. \A m \in 1..(n + 1) : /\ pages'[stack'[m]].type = "internal"
                              /\ up[Follows(m)'] = stack'[m]
                              /\ h[stack'[m]] = h[cur'] + (n + 1 + 1 - m)
    <3> SUFFICES ASSUME NEW m \in 1..(n + 1)
                 PROVE  /\ pages'[stack'[m]].type = "internal"
                        /\ up[Follows(m)'] = stack'[m]
                        /\ h[stack'[m]] = h[cur'] + (n + 1 + 1 - m)
      OBVIOUS
    <3>1. CASE m = n + 1
      <4>1. n + 1 + 1 - m = 1
        BY <3>1, <1>5
      <4>2. stack'[m] = cur /\ Follows(m)' = cur' /\ h[cur'] + (n + 1 + 1 - m) = h[cur]
        BY <3>1, <4>1, <1>5, <1>6, <2>3, <2>4
      <4> QED BY <4>2, <1>2, <1>6 DEF IsInternal
    <3>2. CASE m # n + 1
      <4>1. m \in 1..n /\ m \in 0..n
        BY <3>2, <1>5
      <4>2. h[cur] + (n + 1 - m) = h[cur'] + (n + 1 + 1 - m)
        BY <4>1, <1>5, <1>6, <2>4
      <4>3. stack'[m] = stack[m] /\ Follows(m)' = Follows(m)
        BY <1>5, <2>2, <4>1
      <4>4. IsInternal(stack[m]) /\ up[Follows(m)] = stack[m] /\ h[stack[m]] = h[cur] + (n + 1 - m)
        BY <1>3, <4>1
      <4> QED BY <1>2, <4>2, <4>3, <4>4 DEF IsInternal
    <3> QED BY <3>1, <3>2
  <2>6. root' = Follows(0)'
    BY <1>2, <1>3, <1>5, <2>2
  <2> QED BY <1>5, <2>1, <2>5, <2>6 DEF Way, IsInternal
<1> QED BY <1>1, <1>2, <1>4, <1>7, <1>8, QuietKeeps DEF BInv

LEMMA UnwindNoSplitKeeps == ASSUME BInv, UnwindNoSplit PROVE BInv'
<1>1. PICK h, up, place : Structure(h, up, place)
  BY DEF BInv
<1>2. /\ pages' = pages /\ root' = root /\ pc' = "unwind" /\ pc = "unwind" /\ stack # <<>>
      /\ cur' = Last(stack) /\ stack' = Front(stack) /\ report'.type = "no split"
      /\ report.type = "no split" /\ to_write_page' = to_write_page
  BY DEF UnwindNoSplit, Ascend, tree, NoSplit
<1>3. Control /\ OnWay /\ Front(stack) \in Seq(PageIDs)
  BY <1>2, FrontFacts DEF BInv, Control, OnWay
<1>4. Roomy(up) /\ ~Lacking' /\ ~Splitting'
  BY <1>1, <1>2 DEF Structure, Occupied, Roomy, Lacking, Splitting
<1>5. Control'
  BY <1>2, <1>3 DEF Control, Used, IsLeaf, IsInternal
<1>6. Way(h, up)'
  BY <1>1, <1>2, <1>3, QuietAscend
<1> QED BY <1>1, <1>2, <1>4, <1>5, <1>6, QuietKeeps DEF BInv

LEMMA DeleteReturnsKeeps == ASSUME BInv, DeleteReturns PROVE BInv'
<1>1. PICK h, up, place : Structure(h, up, place)
  BY DEF BInv
<1>2. /\ pages' = pages /\ root' = root /\ pc' = "return" /\ pc = "rebalance" /\ stack = <<>>
      /\ stack' = stack
  BY DEF DeleteReturns, tree
<1>3. Control
  BY DEF BInv
<1>4. Roomy(up)
  <2>1. Lacking => cur = root
    BY <1>1, <1>2 DEF Lacking, Structure, Way, OnWay, Follows
  <2> QED BY <1>1, <2>1 DEF Structure, Occupied, Roomy
<1>5. ~Lacking' /\ ~Splitting' /\ Control' /\ Way(h, up)'
  BY <1>2, <1>3 DEF Lacking, Splitting, Control, Used, IsLeaf, IsInternal, Way, OnWay
<1> QED BY <1>1, <1>2, <1>4, <1>5, QuietKeeps DEF BInv

\* The frame a rebalancing works in.
LEMMA Family ==
  ASSUME NEW h, NEW up, NEW place, Pages, Control, Structure(h, up, place), OnWay, stack # <<>>
  PROVE  /\ childIndex \in 1..Len(Kids(parent)) /\ Kids(parent)[childIndex] = cur
         /\ \A i \in 1..Len(Kids(parent)) :
              /\ Kids(parent)[i] \in PageIDs /\ Used(Kids(parent)[i])
              /\ h[Kids(parent)[i]] = h[cur]
              /\ up[Kids(parent)[i]] = parent /\ place[Kids(parent)[i]] = i
         /\ IsSeq(pages[parent].keys) /\ Width(parent) \in Nat /\ Width(parent) <= NUM_KEY_SLOTS
         /\ Kids(parent) \in Seq(PageIDs) /\ Len(Kids(parent)) = Width(parent) + 1
         /\ h[cur] \in Nat /\ h[parent] = h[cur] + 1
<1>1. /\ cur \in PageIDs /\ Used(cur)
      /\ parent \in PageIDs /\ IsInternal(parent)
      /\ up[cur] = parent /\ h[parent] = h[cur] + 1
  BY OnTop DEF Structure
<1>2. /\ IsSeq(pages[parent].keys) /\ Width(parent) \in Nat /\ Width(parent) <= NUM_KEY_SLOTS
      /\ Kids(parent) \in Seq(PageIDs) /\ Len(Kids(parent)) = Width(parent) + 1
  BY <1>1, Kinds DEF Pages
<1>3. \A q \in PageIDs : h[q] \in Nat
  BY DEF Structure, Witnesses
<1>4. \A i \in 1..Len(Kids(parent)) :
        /\ Kids(parent)[i] \in PageIDs /\ Used(Kids(parent)[i])
        /\ h[Kids(parent)[i]] = h[cur]
        /\ up[Kids(parent)[i]] = parent /\ place[Kids(parent)[i]] = i
  <2> SUFFICES ASSUME NEW i \in 1..Len(Kids(parent)), NEW c, c = Kids(parent)[i]
               PROVE  c \in PageIDs /\ Used(c) /\ h[c] = h[cur] /\ up[c] = parent /\ place[c] = i
    OBVIOUS
  <2>1. c \in PageIDs
    BY <1>2, ElementOfSeq
  <2>2. Used(c) /\ h[parent] = h[c] + 1 /\ up[c] = parent /\ place[c] = i
    BY <1>1 DEF Structure, Tree, Holds
  <2>3. h[c] = h[cur]
    BY <1>1, <1>3, <2>1, <2>2
  <2> QED BY <2>1, <2>2, <2>3
<1>5. place[cur] \in 1..Len(Kids(parent)) /\ Kids(parent)[place[cur]] = cur
  <2>1. parent # NoPage
    BY <1>1, BTreeAssumption
  <2> QED BY <1>1, <2>1 DEF Structure, Tree, Hangs
<1>6. DOMAIN parentPage.children = 1..Len(Kids(parent)) /\ parentPage.children = Kids(parent)
  BY <1>2, LenProperties DEF Kids, parentPage
<1>7. childIndex \in 1..Len(Kids(parent)) /\ Kids(parent)[childIndex] = cur
  BY <1>5, <1>6 DEF childIndex
<1> QED BY <1>1, <1>2, <1>3, <1>4, <1>7

LEMMA NoUnderflowKeeps == ASSUME BInv, NoUnderflow PROVE BInv'
<1>1. PICK h, up, place : Structure(h, up, place)
  BY DEF BInv
<1>2. /\ pages' = pages /\ root' = root /\ pc' = "rebalance" /\ pc = "rebalance" /\ stack # <<>>
      /\ cur' = Last(stack) /\ stack' = Front(stack) /\ ~report.underflown
      /\ report'.type = "InternalPage" /\ report'.underflown = FALSE
  BY DEF NoUnderflow, Returned, Ascend, tree, Settled, Status
<1>3. Control /\ OnWay /\ Front(stack) \in Seq(PageIDs)
  BY <1>2, FrontFacts DEF BInv, Control, OnWay
<1>4. Roomy(up) /\ ~Lacking' /\ ~Splitting'
  BY <1>1, <1>2 DEF Structure, Occupied, Roomy, Lacking, Splitting
<1>5. Control'
  BY <1>2, <1>3 DEF Control, Used, IsLeaf, IsInternal
<1>6. Way(h, up)'
  BY <1>1, <1>2, <1>3, QuietAscend
<1> QED BY <1>1, <1>2, <1>4, <1>5, <1>6, QuietKeeps DEF BInv

\* An only child may stay as it is.
LEMMA NoSiblingKeeps == ASSUME BInv, NoSibling PROVE BInv'
<1>1. PICK h, up, place : Structure(h, up, place)
  BY DEF BInv
<1>2. /\ pages' = pages /\ root' = root /\ pc' = "rebalance" /\ pc = "rebalance" /\ stack # <<>>
      /\ cur' = Last(stack) /\ stack' = Front(stack) /\ ~HasLeft /\ ~HasRight
      /\ report'.type = "InternalPage" /\ report'.underflown = FALSE
  BY DEF NoSibling, Underflown, Returned, Ascend, tree, Settled, Status
<1>3. Control /\ OnWay /\ Front(stack) \in Seq(PageIDs) /\ Pages
  BY <1>2, FrontFacts DEF BInv, Control, OnWay
<1>4. Roomy(up)
  <2>1. /\ childIndex \in 1..Len(Kids(parent)) /\ Width(parent) \in Nat
        /\ Len(Kids(parent)) = Width(parent) + 1
    BY <1>1, <1>2, <1>3, Family
  <2>2. Width(parent) = 0
    BY <1>2, <2>1 DEF HasLeft, HasRight, parentPage, Kids
  <2>3. up[cur] = parent
    BY <1>1, <1>2, <1>3, OnTop DEF Structure
  <2> QED BY <1>1, <2>2, <2>3 DEF Structure, Occupied, Roomy
<1>5. ~Lacking' /\ ~Splitting'
  BY <1>2 DEF Lacking, Splitting
<1>6. Control'
  BY <1>2, <1>3 DEF Control, Used, IsLeaf, IsInternal
<1>7. Way(h, up)'
  BY <1>1, <1>2, <1>3, QuietAscend
<1> QED BY <1>1, <1>2, <1>3, <1>4, <1>5, <1>6, <1>7, QuietKeeps

-----------------------------------------------------------------------------
\* Steps that change tuples, and keys, in place.

LEMMA AlikeKinds ==
  ASSUME Alike, NEW p \in PageIDs
  PROVE  /\ IsLeaf(p)' <=> IsLeaf(p)
         /\ IsInternal(p)' <=> IsInternal(p)
         /\ Used(p)' <=> Used(p)
  BY DEF Alike, AlikeAt, IsLeaf, IsInternal, Used

LEMMA LeafRewritten ==
  ASSUME Pages, NEW p \in PageIDs, IsLeaf(p), NEW t, pages' = [pages EXCEPT ![p].tuples = t]
  PROVE  Pages' /\ Alike
<1>1. pages = [q \in PageIDs |-> pages[q]] /\ \A q \in PageIDs : PageShape(q)
  BY DEF Pages
<1>2. pages' = [pages EXCEPT ![p] = [pages[p] EXCEPT !.tuples = t]]
  OBVIOUS
<1>3. /\ pages' = [q \in PageIDs |-> pages'[q]]
      /\ pages'[p] = [pages[p] EXCEPT !.tuples = t]
      /\ \A q \in PageIDs : q # p => pages'[q] = pages[q]
  BY <1>1, <1>2, Update
<1>4. pages'[p] = Leaf(t, pages[p].left_pid, pages[p].right_pid)
  BY <1>1, <1>3, WithTuples
<1>5. \A q \in PageIDs : PageShape(q)'
  BY <1>1, <1>3, <1>4, LeafShape, SameShape
<1>6. Alike
  <2>1. pages'[p].type = pages[p].type
    BY <1>4, Shapes DEF IsLeaf
  <2>2. ~IsInternal(p)
    BY DEF IsLeaf, IsInternal
  <2> QED BY <1>3, <2>1, <2>2 DEF Alike, AlikeAt, Width, Kids
<1> QED BY <1>3, <1>5, <1>6 DEF Pages

\* Leaves l and c exchange tuples, page p between them gets another key.
Borrowed(l, c, p, t, u, ks) ==
  /\ IsSeq(ks) /\ Len(ks) = Width(p)
  /\ pages' = [q \in PageIDs |-> pages'[q]]
  /\ pages'[l] = Leaf(t, pages[l].left_pid, pages[l].right_pid)
  /\ pages'[c] = Leaf(u, pages[c].left_pid, pages[c].right_pid)
  /\ pages'[p] = Internal(ks, Kids(p))
  /\ \A q \in PageIDs : q \notin {l, c, p} => pages'[q] = pages[q]

LEMMA TuplesMoved ==
  ASSUME Pages, NEW l \in PageIDs, NEW c \in PageIDs, NEW p \in PageIDs,
         IsLeaf(l), IsLeaf(c), IsInternal(p),
         NEW t, NEW u, NEW ks, Borrowed(l, c, p, t, u, ks)
  PROVE  Pages' /\ Alike
<1>0. /\ IsSeq(ks) /\ Len(ks) = Width(p)
      /\ pages' = [q \in PageIDs |-> pages'[q]]
      /\ pages'[l] = Leaf(t, pages[l].left_pid, pages[l].right_pid)
      /\ pages'[c] = Leaf(u, pages[c].left_pid, pages[c].right_pid)
      /\ pages'[p] = Internal(ks, Kids(p))
      /\ \A q \in PageIDs : q \notin {l, c, p} => pages'[q] = pages[q]
  BY DEF Borrowed
<1>1. \A q \in PageIDs : PageShape(q)
  BY DEF Pages
<1>2. PageShape(p)' /\ Width(p)' = Width(p) /\ Kids(p)' = Kids(p) /\ IsInternal(p)'
  <2>1. Kids(p) \in Seq(PageIDs) /\ Len(Kids(p)) = Width(p) + 1 /\ Width(p) <= NUM_KEY_SLOTS
    BY <1>1, Kinds
  <2> QED BY <1>0, <1>1, <2>1, Kinds, InternalShape
<1>3. \A q \in PageIDs : PageShape(q)'
  <2>1. PageShape(l)' /\ PageShape(c)'
    BY <1>0, LeafShape
  <2>2. \A q \in PageIDs : q \notin {l, c, p} => PageShape(q)'
    BY <1>0, <1>1, SameShape
  <2> QED BY <1>2, <2>1, <2>2
<1>4. Alike
  <2>1. /\ pages'[l].type = pages[l].type /\ ~IsInternal(l)
        /\ pages'[c].type = pages[c].type /\ ~IsInternal(c)
    BY <1>0, Shapes DEF IsLeaf, IsInternal
  <2>2. /\ pages'[p].type = pages[p].type
        /\ Len(pages'[p].keys) = Width(p) /\ pages'[p].children = Kids(p)
    BY <1>2 DEF IsInternal, Width, Kids
  <2> QED BY <1>0, <2>1, <2>2 DEF Alike, AlikeAt, Width, Kids
<1> QED BY <1>0, <1>3, <1>4 DEF Pages

LEMMA WriteTupleKeeps == ASSUME BInv, WriteTuple PROVE BInv'
<1>1. PICK h, up, place : Structure(h, up, place)
  BY DEF BInv
<1>2. /\ root' = root /\ pc' = "return" /\ pc = "unwind" /\ stack = <<>> /\ stack' = stack
      /\ report.type = "no split"
  BY DEF WriteTuple, NoSplit
<1>3. Control /\ Pages
  BY DEF BInv
<1>4. PICK p, t : p = to_write_page /\ pages' = [pages EXCEPT ![p].tuples = t]
  BY DEF WriteTuple
<1>5. Pages' /\ Alike
  BY <1>2, <1>3, <1>4, LeafRewritten DEF Control
<1>6. Roomy(up) /\ ~Lacking' /\ ~Splitting'
  BY <1>1, <1>2 DEF Structure, Occupied, Roomy, Lacking, Splitting
<1>7. Control' /\ Way(h, up)'
  <2>1. root \in PageIDs /\ Used(root)'
    <3>1. PICK r : r = root
      OBVIOUS
    <3>2. r \in PageIDs /\ Used(r)'
      BY <1>3, <1>5, <3>1, AlikeKinds DEF Control
    <3> QED BY <1>2, <3>1, <3>2 DEF Used, IsLeaf, IsInternal
  <2> QED BY <1>2, <1>3, <2>1 DEF Control, Way, OnWay
<1> QED BY <1>1, <1>2, <1>3, <1>5, <1>6, <1>7, AlikeKeeps

LEMMA DeleteLeafKeeps == ASSUME BInv, DeleteLeaf PROVE BInv'
<1>1. PICK h, up, place : Structure(h, up, place)
  BY DEF BInv
<1>2. /\ root' = root /\ pc' = "rebalance" /\ pc = "delete" /\ stack' = stack /\ cur' = cur
      /\ report'.type = "LeafPage" /\ IsLeaf(cur)
  BY DEF DeleteLeaf, Status
<1>3. Control /\ Pages /\ OnWay /\ Way(h, up)
  BY <1>1, <1>2 DEF BInv, OnWay, Structure
<1>4. PICK c, r, t : c = cur /\ r = root /\ pages' = [pages EXCEPT ![c].tuples = t]
  BY DEF DeleteLeaf
<1>5. c \in PageIDs /\ IsLeaf(c) /\ r \in PageIDs /\ Used(r)
  BY <1>2, <1>3, <1>4 DEF Way, Control
<1>6. Pages' /\ Alike
  BY <1>3, <1>4, <1>5, LeafRewritten
<1>7. Roomy(up) /\ ~Lacking' /\ ~Splitting'
  BY <1>1, <1>2 DEF Structure, Occupied, Roomy, Lacking, Splitting
<1>8. \A q \in PageIDs : pages'[q].type = pages[q].type
  BY <1>6 DEF Alike, AlikeAt
<1>9. Control'
  BY <1>2, <1>3, <1>4, <1>5, <1>8 DEF Control, Used, IsLeaf, IsInternal
<1>10. Way(h, up)'
  BY <1>2, <1>3, <1>8, WayStays
<1> QED BY <1>1, <1>2, <1>3, <1>6, <1>7, <1>9, <1>10, AlikeKeeps

\* The siblings of a leaf are leaves.
LEMMA LeafFamily ==
  ASSUME BInv, pc = "rebalance", stack # <<>>, report.type = "LeafPage",
         NEW i \in 1..Len(Kids(parent)),
         NEW l, NEW c, NEW p, l = Kids(parent)[i], c = cur, p = parent
  PROVE  /\ l \in PageIDs /\ c \in PageIDs /\ p \in PageIDs
         /\ IsLeaf(l) /\ IsLeaf(c) /\ IsInternal(p) /\ p # l /\ p # c
         /\ i # childIndex => l # c
<1>1. PICK h, up, place : Structure(h, up, place)
  BY DEF BInv
<1>2. Control /\ OnWay /\ Pages /\ IsLeaf(c)
  BY DEF BInv, OnWay, Control
<1>3. c \in PageIDs /\ p \in PageIDs /\ IsInternal(p)
  BY <1>1, <1>2, OnTop DEF Structure
<1>4. /\ l \in PageIDs /\ Used(l) /\ h[l] = h[c] /\ place[l] = i
      /\ childIndex \in 1..Len(Kids(p)) /\ place[c] = childIndex
  BY <1>1, <1>2, Family
<1>5. h[c] = 0 /\ (IsInternal(l) => h[l] > 0)
  BY <1>1, <1>2, <1>3, <1>4, Heights DEF Structure
<1>6. IsLeaf(l)
  BY <1>4, <1>5 DEF Used
<1>7. p # l /\ p # c
  BY <1>2, <1>3, <1>6 DEF IsLeaf, IsInternal
<1> QED BY <1>2, <1>3, <1>4, <1>6, <1>7

\* Tuples come from a sibling leaf, and the key between the two is set.
LEMMA LeafBorrowKeeps ==
  ASSUME BInv, pc = "rebalance", stack # <<>>, report.type = "LeafPage",
         root' = root, pc' = pc, Ascend(Settled),
         NEW i \in 1..Len(Kids(parent)), i # childIndex,
         NEW l, NEW c, NEW p, l = Kids(parent)[i], c = cur, p = parent,
         NEW t, NEW u, NEW ks, Borrowed(l, c, p, t, u, ks)
  PROVE  BInv'
<1>1. PICK h, up, place : Structure(h, up, place)
  BY DEF BInv
<1>2. /\ cur' = Last(stack) /\ stack' = Front(stack)
      /\ report'.type = "InternalPage" /\ report'.underflown = FALSE
  BY DEF Ascend, Settled, Status
<1>3. Control /\ OnWay /\ Pages /\ IsLeaf(cur) /\ Front(stack) \in Seq(PageIDs)
  BY FrontFacts DEF BInv, OnWay, Control
<1>4. PICK r : r = root
  OBVIOUS
<1>5. /\ l \in PageIDs /\ c \in PageIDs /\ p \in PageIDs /\ r \in PageIDs
      /\ IsLeaf(l) /\ IsLeaf(c) /\ IsInternal(p) /\ Used(r)
  BY <1>3, <1>4, LeafFamily DEF Control
<1>7. Pages' /\ Alike
  BY <1>3, <1>5, TuplesMoved
<1>8. Roomy(up) /\ ~Lacking' /\ ~Splitting'
  BY <1>1, <1>2 DEF Structure, Occupied, Roomy, Lacking, Splitting
<1>9. \A q \in PageIDs : pages'[q].type = pages[q].type
  BY <1>7 DEF Alike, AlikeAt
<1>10. Control'
  BY <1>2, <1>3, <1>4, <1>5, <1>9 DEF Control, Used, IsLeaf, IsInternal
<1>11. Way(h, up)'
  <2>1. \A q \in PageIDs : IsInternal(q) /\ h[q] > h[cur] => pages'[q].type = "internal"
    BY <1>9 DEF IsInternal
  <2> QED BY <1>1, <1>2, <1>3, <2>1, AscendWay DEF Structure
<1> QED BY <1>1, <1>3, <1>7, <1>8, <1>10, <1>11, AlikeKeeps

LEMMA LeafLeftBorrowKeeps == ASSUME BInv, LeafLeftBorrow PROVE BInv'
<1>1. PICK h, up, place : Structure(h, up, place)
  BY DEF BInv
<1>2. /\ pc = "rebalance" /\ stack # <<>> /\ report.type = "LeafPage" /\ root' = root /\ pc' = pc
      /\ Ascend(Settled) /\ LeftLeafLends > 0
  BY DEF LeafLeftBorrow, Underflown, Returned
<1>3. HasLeft
  BY <1>2 DEF LeftLeafLends
<1>4. /\ childIndex \in 1..Len(Kids(parent)) /\ Width(parent) \in Nat
      /\ Len(Kids(parent)) = Width(parent) + 1
  BY <1>1, <1>2, Family DEF BInv, OnWay
<1>5. PICK i : i = childIndex - 1
  OBVIOUS
<1>6. i \in 1..Len(Kids(parent)) /\ i \in 1..Width(parent) /\ i # childIndex
  BY <1>3, <1>4, <1>5 DEF HasLeft
<1>7. PICK l, c, p, t, u, k :
        /\ l = leftSibling /\ c = cur /\ p = parent
        /\ pages' = [pages EXCEPT ![l].tuples = t, ![c].tuples = u, ![p] = SetNewBoundaryKey(childIndex - 1, k)]
  BY DEF LeafLeftBorrow
<1>8. l = Kids(parent)[i]
  BY <1>5, <1>7 DEF leftSibling, parentPage, Kids
<1>9. /\ l \in PageIDs /\ c \in PageIDs /\ p \in PageIDs
      /\ IsLeaf(l) /\ IsLeaf(c) /\ IsInternal(p) /\ p # l /\ p # c /\ l # c
  BY <1>2, <1>6, <1>7, <1>8, LeafFamily
<1>10. PICK ks : ks = [pages[p].keys EXCEPT ![i] = k]
  OBVIOUS
<1>11. /\ PageShape(l) /\ PageShape(c) /\ PageShape(p)
       /\ pages = [q \in PageIDs |-> pages[q]]
  BY <1>9 DEF BInv, Pages
<1>12. IsSeq(ks) /\ Len(ks) = Width(p)
  <2>1. IsSeq(pages[p].keys) /\ i \in 1..Len(pages[p].keys)
    BY <1>6, <1>7, <1>9, <1>11, Kinds DEF Width
  <2> QED BY <1>10, <2>1, KeysSet DEF Width
<1>13. PICK x : x = SetNewBoundaryKey(childIndex - 1, k)
  OBVIOUS
<1>14. x = Internal(ks, Kids(p))
  <2>1. pages[p] = Internal(pages[p].keys, Kids(p))
    BY <1>9, <1>11, Shapes DEF PageShape, IsLeaf, IsInternal
  <2> QED BY <1>5, <1>7, <1>10, <1>13, <2>1 DEF SetNewBoundaryKey, parentPage, Internal
<1>15. /\ pages' = [q \in PageIDs |-> pages'[q]]
       /\ pages'[l] = [pages[l] EXCEPT !.tuples = t]
       /\ pages'[c] = [pages[c] EXCEPT !.tuples = u]
       /\ pages'[p] = x
       /\ \A q \in PageIDs : q \notin {l, c, p} => pages'[q] = pages[q]
  BY <1>7, <1>9, <1>11, <1>13
<1>16. /\ pages'[l] = Leaf(t, pages[l].left_pid, pages[l].right_pid)
       /\ pages'[c] = Leaf(u, pages[c].left_pid, pages[c].right_pid)
  BY <1>9, <1>11, <1>15, WithTuples
<1>17. Borrowed(l, c, p, t, u, ks)
  BY <1>12, <1>14, <1>15, <1>16 DEF Borrowed
<1> QED BY <1>2, <1>6, <1>7, <1>8, <1>17, LeafBorrowKeeps

LEMMA LeafRightBorrowKeeps == ASSUME BInv, LeafRightBorrow PROVE BInv'
<1>1. PICK h, up, place : Structure(h, up, place)
  BY DEF BInv
<1>2. /\ pc = "rebalance" /\ stack # <<>> /\ report.type = "LeafPage" /\ root' = root /\ pc' = pc
      /\ Ascend(Settled) /\ RightLeafLends > 0
  BY DEF LeafRightBorrow, Underflown, Returned
<1>3. HasRight
  BY <1>2 DEF RightLeafLends
<1>4. /\ childIndex \in 1..Len(Kids(parent)) /\ Width(parent) \in Nat
      /\ Len(Kids(parent)) = Width(parent) + 1
  BY <1>1, <1>2, Family DEF BInv, OnWay
<1>5. PICK n, i : n = childIndex /\ i = childIndex + 1
  OBVIOUS
<1>6. i \in 1..Len(Kids(parent)) /\ n \in 1..Width(parent) /\ i # childIndex
  BY <1>3, <1>4, <1>5 DEF HasRight, parentPage, Kids
<1>7. PICK l, c, p, t, u, k :
        /\ l = rightSibling /\ c = cur /\ p = parent
        /\ pages' = [pages EXCEPT ![l].tuples = t, ![c].tuples = u, ![p] = SetNewBoundaryKey(childIndex, k)]
  BY DEF LeafRightBorrow
<1>8. l = Kids(parent)[i]
  BY <1>5, <1>7 DEF rightSibling, parentPage, Kids
<1>9. /\ l \in PageIDs /\ c \in PageIDs /\ p \in PageIDs
      /\ IsLeaf(l) /\ IsLeaf(c) /\ IsInternal(p) /\ p # l /\ p # c /\ l # c
  BY <1>2, <1>6, <1>7, <1>8, LeafFamily
<1>10. PICK ks : ks = [pages[p].keys EXCEPT ![n] = k]
  OBVIOUS
<1>11. /\ PageShape(l) /\ PageShape(c) /\ PageShape(p)
       /\ pages = [q \in PageIDs |-> pages[q]]
  BY <1>9 DEF BInv, Pages
<1>12. IsSeq(ks) /\ Len(ks) = Width(p)
  <2>1. IsSeq(pages[p].keys) /\ n \in 1..Len(pages[p].keys)
    BY <1>6, <1>7, <1>9, <1>11, Kinds DEF Width
  <2> QED BY <1>10, <2>1, KeysSet DEF Width
<1>13. PICK x : x = SetNewBoundaryKey(childIndex, k)
  OBVIOUS
<1>14. x = Internal(ks, Kids(p))
  <2>1. pages[p] = Internal(pages[p].keys, Kids(p))
    BY <1>9, <1>11, Shapes DEF PageShape, IsLeaf, IsInternal
  <2> QED BY <1>5, <1>7, <1>10, <1>13, <2>1 DEF SetNewBoundaryKey, parentPage, Internal
<1>15. /\ pages' = [q \in PageIDs |-> pages'[q]]
       /\ pages'[l] = [pages[l] EXCEPT !.tuples = t]
       /\ pages'[c] = [pages[c] EXCEPT !.tuples = u]
       /\ pages'[p] = x
       /\ \A q \in PageIDs : q \notin {l, c, p} => pages'[q] = pages[q]
  BY <1>7, <1>9, <1>11, <1>13
<1>16. /\ pages'[l] = Leaf(t, pages[l].left_pid, pages[l].right_pid)
       /\ pages'[c] = Leaf(u, pages[c].left_pid, pages[c].right_pid)
  BY <1>9, <1>11, <1>15, WithTuples
<1>17. Borrowed(l, c, p, t, u, ks)
  BY <1>12, <1>14, <1>15, <1>16 DEF Borrowed
<1> QED BY <1>2, <1>6, <1>7, <1>8, <1>17, LeafBorrowKeeps

-----------------------------------------------------------------------------
\* Steps that split pages.

Update2(a, x, b, y) ==
  /\ pages' = [q \in PageIDs |-> pages'[q]]
  /\ pages'[a] = x /\ pages'[b] = y
  /\ \A q \in PageIDs : q \notin {a, b} => pages'[q] = pages[q]

\* A leaf is split.
LEMMA FindSplitKeeps == ASSUME BInv, RoomToGrow, FindSplit PROVE BInv'
<1>1. PICK h, up, place : Structure(h, up, place)
  BY DEF BInv
<1>2. PICK c, n, r : c = cur /\ n = NewPage /\ r = root
  OBVIOUS
<1>3. /\ root' = root /\ pc' = "unwind" /\ pc = "insert" /\ stack' = stack /\ cur' = cur
      /\ IsLeaf(c) /\ report'.type = "split" /\ report'.new_page_id = n
      /\ to_write_page' \in {c, n}
  BY <1>2 DEF FindSplit, Split
<1>4. Control /\ OnWay /\ Pages /\ Way(h, up) /\ Witnesses(h, up, place) /\ Tree(h, up, place)
  BY <1>1, <1>3 DEF BInv, OnWay, Structure
<1>5. /\ c \in PageIDs /\ n \in PageIDs /\ pages[n] = Free /\ r \in PageIDs /\ Used(r)
      /\ ~Used(n) /\ n # c /\ n # r /\ h[c] = 0 /\ h[n] \in Nat
  <2>1. c \in PageIDs /\ n \in PageIDs /\ pages[n] = Free /\ r \in PageIDs /\ Used(r)
    BY <1>2, <1>4, NewPageIsFree DEF Way, Control
  <2>2. ~Used(n)
    BY <1>4, <2>1, Kinds DEF Pages
  <2> QED BY <1>3, <1>4, <2>1, <2>2 DEF Used, Tree, Witnesses
<1>6. PICK t, u, b : /\ pages'[c] = Leaf(t, pages[c].left_pid, n)
                     /\ pages'[n] = Leaf(u, c, b)
                     /\ pages' = [q \in PageIDs |-> pages'[q]]
                     /\ \A q \in PageIDs : q \notin {c, n} => pages'[q] = pages[q]
  <2>1. PICK t, u, b, x, y : /\ x = Leaf(t, pages[c].left_pid, n) /\ y = Leaf(u, c, b)
                             /\ pages' = [pages EXCEPT ![c] = x, ![n] = y]
    BY <1>2 DEF FindSplit, HandleSplit
  <2>2. pages = [q \in PageIDs |-> pages[q]]
    BY <1>4 DEF Pages
  <2>3. /\ pages' = [q \in PageIDs |-> pages'[q]]
        /\ pages'[c] = x /\ pages'[n] = y
        /\ \A q \in PageIDs : q \notin {c, n} => pages'[q] = pages[q]
    BY <1>5, <2>1, <2>2
  <2> QED BY <2>1, <2>3
<1>7. /\ PageShape(c)' /\ IsLeaf(c)' /\ Used(c)' /\ ~IsInternal(c)'
      /\ PageShape(n)' /\ IsLeaf(n)' /\ Used(n)' /\ ~IsInternal(n)'
  BY <1>6, LeafShape
<1>8. Pages'
  <2>1. \A q \in PageIDs : q \notin {c, n} => PageShape(q)'
    BY <1>4, <1>6, SameShape DEF Pages
  <2> QED BY <1>6, <1>7, <2>1 DEF Pages
<1>9. PICK h2 : h2 = [h EXCEPT ![n] = 0]
  OBVIOUS
<1>10. /\ h2 \in [PageIDs -> Nat] /\ h2[n] = 0 /\ h2[c] = 0
       /\ \A q \in PageIDs : Used(q) => h2[q] = h[q]
  BY <1>4, <1>5, <1>9 DEF Witnesses
<1>11. Witnesses(h2, up, place) /\ Witnesses(h2, up, place)'
  BY <1>4, <1>10 DEF Witnesses
<1>12. \A q \in PageIDs : up[q] # NoPage => /\ up[q] \in PageIDs /\ IsInternal(up[q])
                                            /\ Used(q) /\ up[q] \notin {c, n}
  <2>1. \A q \in PageIDs : up[q] # NoPage => up[q] \in PageIDs /\ IsInternal(up[q]) /\ Used(q)
    BY <1>4, Heights
  <2>2. ~IsInternal(c) /\ ~IsInternal(n)
    BY <1>3, <1>5 DEF IsLeaf, IsInternal, Used
  <2> QED BY <2>1, <2>2
<1>13. \A q \in PageIDs : q \notin {c, n} => AlikeAt(q)
  BY <1>6 DEF AlikeAt, Width, Kids
<1>14. Regrouping(h, up, place, h2, up, place, {c, n})
  <2>1. \A q \in PageIDs : up[q] # NoPage => pages'[q].type = "leaf" \/ pages'[q].type = "internal"
    <3> SUFFICES ASSUME NEW q \in PageIDs, up[q] # NoPage
                 PROVE  pages'[q].type = "leaf" \/ pages'[q].type = "internal"
      OBVIOUS
    <3>1. Used(q) /\ q # n
      BY <1>5, <1>12
    <3>2. CASE q = c
      BY <1>7, <3>2 DEF IsLeaf
    <3>3. CASE q # c
      BY <1>6, <3>1, <3>3 DEF Used, IsLeaf, IsInternal
    <3> QED BY <3>2, <3>3
  <2>2. \A q \in {c, n} : (IsLeaf(q)' => h2[q] = 0) /\ Holds(q, h2, up, place)'
    BY <1>7, <1>10 DEF Holds
  <2>3. \A q \in PageIDs : up[q] \notin {c, n}
    BY <1>5, <1>12, BTreeAssumption
  <2> QED BY <1>10, <1>13, <2>1, <2>2, <2>3 DEF Regrouping
<1>15. Tree(h2, up, place)'
  BY <1>4, <1>5, <1>11, <1>14, Regroup
<1>16. Way(h2, up)'
  <2>1. \A q \in PageIDs : Used(q) => pages'[q].type = pages[q].type
    BY <1>3, <1>5, <1>6, <1>7 DEF IsLeaf
  <2> QED BY <1>3, <1>4, <1>10, <2>1, WayStays
<1>17. Control'
  <2>1. Used(r)' /\ r = root' /\ r \in PageIDs
    BY <1>2, <1>3, <1>5, <1>6, <1>7 DEF Used, IsLeaf, IsInternal
  <2>2. to_write_page' \in PageIDs /\ pages'[to_write_page'].type = "leaf"
    BY <1>3, <1>5, <1>7 DEF IsLeaf
  <2> QED BY <1>3, <1>4, <2>1, <2>2 DEF Control, Used, IsLeaf, IsInternal
<1>18. Orphan(h2, up)'
  <2>1. up[n] = NoPage
    BY <1>5, <1>12
  <2> QED BY <1>2, <1>3, <1>5, <1>7, <1>10, <2>1 DEF Orphan, Used, IsLeaf, IsInternal
<1>19. Occupied(up)'
  <2>1. Roomy(up)
    BY <1>1, <1>3 DEF Structure, Occupied, Roomy, Lacking
  <2>2. \A q \in PageIDs : up[q] # NoPage => Wide(q)' \/ Width(up[q])' = 0
    <3> SUFFICES ASSUME NEW q \in PageIDs, up[q] # NoPage, NEW p, p = up[q]
                 PROVE  Wide(q)' \/ Width(p)' = 0
      OBVIOUS
    <3>1. p \in PageIDs /\ IsInternal(p) /\ p \notin {c, n} /\ (Wide(q) \/ Width(p) = 0)
      BY <1>12, <2>1 DEF Roomy
    <3>2. Width(p)' = Width(p)
      BY <1>13, <3>1, AlikeFacts
    <3>3. CASE q \in {c, n}
      BY <1>7, <3>3 DEF Wide
    <3>4. CASE q \notin {c, n}
      BY <1>13, <3>1, <3>2, <3>4, AlikeFacts
    <3> QED BY <3>3, <3>4
  <2>3. ~Lacking'
    BY <1>3 DEF Lacking
  <2>4. \A p : p = cur' \/ p = report'.new_page_id => Wide(p)'
    BY <1>2, <1>3, <1>7 DEF Wide
  <2>5. Wide(cur)' /\ Wide(report.new_page_id)'
    BY <2>4 DEF Wide, IsInternal, Width
  <2> QED BY <2>2, <2>3, <2>5 DEF Occupied
<1>20. Structure(h2, up, place)'
  <2>1. up[root'] = NoPage
    BY <1>1, <1>3 DEF Structure
  <2> QED BY <1>11, <1>15, <1>16, <1>18, <1>19, <2>1 DEF Structure
<1> QED BY <1>8, <1>17, <1>20 DEF BInv

\* Page p with one more key and with child w, which is cs[pos[w]]; Holds and Hangs for it.
Joining(h, up, p, w, ks, cs, pos) ==
  /\ IsSeq(ks) /\ Len(ks) = Width(p) + 1 /\ cs \in Seq(PageIDs) /\ Len(cs) = Width(p) + 2
  /\ pos \in [PageIDs -> Nat]
  /\ \A j \in 1..Len(cs) : /\ Used(cs[j]) /\ h[p] = h[cs[j]] + 1
                           /\ cs[j] = w \/ up[cs[j]] = p
                           /\ pos[cs[j]] = j
  /\ \A c \in PageIDs : c = w \/ up[c] = p =>
       /\ pos[c] \in 1..Len(cs) /\ cs[pos[c]] = c
       /\ Wide(c)

LEMMA Joins ==
  ASSUME NEW h, NEW up, NEW place, Pages, Control, Structure(h, up, place),
         pc = "unwind", stack # <<>>, report.type = "split",
         NEW p, p = parent, NEW w, w = report.new_page_id
  PROVE  \E ks, cs, pos : /\ InsertKeyValue(p, report.boundary_key, w) = Internal(ks, cs)
                          /\ Joining(h, up, p, w, ks, cs, pos)
<1>1. OnWay /\ Splitting /\ Way(h, up) /\ Witnesses(h, up, place) /\ Tree(h, up, place)
  BY DEF OnWay, Splitting, Structure
<1>2. PICK c, k, i : c = cur /\ k = report.boundary_key /\ i = UpTo(pages[p].keys, k)
  OBVIOUS
<1>3. /\ p \in PageIDs /\ IsInternal(p) /\ c \in PageIDs /\ Used(c)
      /\ up[c] = p /\ h[p] = h[c] + 1 /\ p # NoPage
  BY <1>1, <1>2, OnTop, BTreeAssumption
<1>4. w \in PageIDs /\ Used(w) /\ up[w] = NoPage /\ h[w] = h[c]
  BY <1>1, <1>2 DEF Structure, Orphan
<1>5. /\ IsSeq(pages[p].keys) /\ Width(p) \in Nat
      /\ Kids(p) \in Seq(PageIDs) /\ Len(Kids(p)) = Width(p) + 1
  BY <1>3, Kinds DEF Pages
<1>6. i \in 0..Width(p)
  BY <1>2, <1>5, UpToFacts DEF Width
<1>7. PICK ks, cs : ks = InsertAt(pages[p].keys, i + 1, k) /\ cs = InsertAt(Kids(p), i + 2, w)
  OBVIOUS
<1>8. IsSeq(ks) /\ Len(ks) = Width(p) + 1
  <2>1. i + 1 \in 1..(Len(pages[p].keys) + 1)
    BY <1>5, <1>6 DEF Width
  <2> QED BY <1>5, <1>7, <2>1, KeysInsert DEF Width
<1>9. /\ cs \in Seq(PageIDs) /\ Len(cs) = Width(p) + 2
      /\ \A j \in 1..(Width(p) + 2) :
           cs[j] = IF j < i + 2 THEN Kids(p)[j] ELSE IF j = i + 2 THEN w ELSE Kids(p)[j - 1]
  <2>1. i + 2 \in 1..(Len(Kids(p)) + 1)
    BY <1>5, <1>6
  <2>2. /\ cs \in Seq(PageIDs) /\ Len(cs) = Len(Kids(p)) + 1
        /\ \A j \in 1..(Len(Kids(p)) + 1) :
             cs[j] = IF j < i + 2 THEN Kids(p)[j] ELSE IF j = i + 2 THEN w ELSE Kids(p)[j - 1]
    <3>1. PICK s, x : s = Kids(p) /\ x = i + 2
      OBVIOUS
    <3>2. cs = InsertAt(s, x, w)
      BY <1>7, <3>1
    <3>3. s \in Seq(PageIDs) /\ w \in PageIDs /\ x \in 1..(Len(s) + 1)
      BY <1>4, <1>5, <2>1, <3>1
    <3>4. InsertedAt(PageIDs, s, x, w, cs)
      BY ONLY <3>2, <3>3, InsertIs
    <3> QED BY <3>1, <3>4 DEF InsertedAt
  <2>3. Len(Kids(p)) + 1 = Width(p) + 2
    BY <1>5
  <2> QED BY <2>2, <2>3
<1>10. PICK pos : pos = [q \in PageIDs |-> IF q = w THEN i + 2
                                           ELSE IF place[q] >= i + 2 THEN place[q] + 1 ELSE place[q]]
  OBVIOUS
<1>11. pos \in [PageIDs -> Nat]
  BY <1>1, <1>6, <1>10 DEF Witnesses
<1>12. \A j \in 1..(Width(p) + 1) :
          /\ Kids(p)[j] \in PageIDs /\ Used(Kids(p)[j]) /\ h[p] = h[Kids(p)[j]] + 1
          /\ up[Kids(p)[j]] = p /\ place[Kids(p)[j]] = j /\ Kids(p)[j] # w
  <2>1. \A j \in 1..(Width(p) + 1) : Kids(p)[j] \in PageIDs
    BY <1>5, ElementOfSeq
  <2>2. \A j \in 1..(Width(p) + 1) :
          /\ Used(Kids(p)[j]) /\ h[p] = h[Kids(p)[j]] + 1
          /\ up[Kids(p)[j]] = p /\ place[Kids(p)[j]] = j
    BY <1>1, <1>3, <1>5 DEF Tree, Holds
  <2> QED BY <1>3, <1>4, <2>1, <2>2
<1>13. \A j \in 1..(Width(p) + 2) : /\ Used(cs[j]) /\ h[p] = h[cs[j]] + 1
                                    /\ cs[j] = w \/ up[cs[j]] = p
                                    /\ pos[cs[j]] = j
  <2> SUFFICES ASSUME NEW j \in 1..(Width(p) + 2)
               PROVE  /\ Used(cs[j]) /\ h[p] = h[cs[j]] + 1
                      /\ cs[j] = w \/ up[cs[j]] = p
                      /\ pos[cs[j]] = j
    OBVIOUS
  <2>1. CASE j = i + 2
    BY <2>1, <1>3, <1>4, <1>9, <1>10
  <2>2. CASE j < i + 2
    <3>1. j \in 1..(Width(p) + 1)
      BY <2>2, <1>5, <1>6
    <3>2. cs[j] = Kids(p)[j]
      BY <2>2, <1>9
    <3>3. ~(j >= i + 2)
      BY <2>2, <1>6, <3>1
    <3>4. pos[Kids(p)[j]] = j
      BY <1>10, <1>12, <3>1, <3>3
    <3> QED BY <1>12, <3>1, <3>2, <3>4
  <2>3. CASE j > i + 2
    <3>1. j - 1 \in 1..(Width(p) + 1) /\ j - 1 >= i + 2 /\ (j - 1) + 1 = j
      BY <2>3, <1>5, <1>6
    <3>2. cs[j] = Kids(p)[j - 1]
      BY <2>3, <1>6, <1>9
    <3>3. pos[Kids(p)[j - 1]] = j
      BY <1>10, <1>12, <3>1
    <3> QED BY <1>12, <3>1, <3>2, <3>3
  <2> QED BY <1>5, <1>6, <2>1, <2>2, <2>3
<1>14. \A q \in PageIDs : up[q] = p => place[q] \in 1..(Width(p) + 1) /\ Kids(p)[place[q]] = q
  BY <1>1, <1>3, <1>5 DEF Tree, Hangs
<1>15. \A q \in PageIDs : q = w \/ up[q] = p => pos[q] \in 1..(Width(p) + 2) /\ cs[pos[q]] = q
  <2> SUFFICES ASSUME NEW q \in PageIDs, q = w \/ up[q] = p
               PROVE  pos[q] \in 1..(Width(p) + 2) /\ cs[pos[q]] = q
    OBVIOUS
  <2>1. CASE q = w
    BY <2>1, <1>5, <1>6, <1>9, <1>10
  <2>2. CASE q # w /\ place[q] >= i + 2
    <3>1. pos[q] = place[q] + 1 /\ place[q] \in 1..(Width(p) + 1)
      BY <2>2, <1>10, <1>14
    <3>2. /\ pos[q] \in 1..(Width(p) + 2) /\ ~(pos[q] < i + 2) /\ pos[q] # i + 2
          /\ pos[q] - 1 = place[q]
      BY <2>2, <1>5, <1>6, <3>1
    <3>3. cs[pos[q]] = Kids(p)[pos[q] - 1]
      BY <1>9, <3>2
    <3> QED BY <2>2, <1>14, <3>2, <3>3
  <2>3. CASE q # w /\ ~(place[q] >= i + 2)
    <3>1. pos[q] = place[q] /\ place[q] \in 1..(Width(p) + 1)
      BY <2>3, <1>10, <1>14
    <3>2. pos[q] \in 1..(Width(p) + 2) /\ pos[q] < i + 2
      BY <2>3, <1>5, <1>6, <3>1
    <3> QED BY <2>3, <1>9, <1>14, <3>1, <3>2
  <2> QED BY <2>1, <2>2, <2>3
<1>16. \A q \in PageIDs : q = w \/ up[q] = p => Wide(q)
  <2>1. Wide(c) /\ Wide(w)
    BY <1>1, <1>2 DEF Structure, Occupied
  <2>2. \A q \in PageIDs : up[q] = p => Wide(q) \/ Width(p) = 0
    BY <1>1, <1>3 DEF Structure, Occupied, Splitting, Lacking
  <2>3. ASSUME Width(p) = 0, NEW q \in PageIDs, up[q] = p PROVE q = c
    <3>1. place[q] = 1 /\ place[c] = 1
      BY <2>3, <1>3, <1>14
    <3> QED BY <2>3, <1>3, <1>14, <3>1
  <2> QED BY <2>1, <2>2, <2>3
<1>17. Joining(h, up, p, w, ks, cs, pos)
  BY <1>8, <1>9, <1>11, <1>13, <1>15, <1>16 DEF Joining
<1>18. InsertKeyValue(p, report.boundary_key, w) = Internal(ks, cs)
  BY <1>2, <1>7 DEF InsertKeyValue, Kids
<1> QED BY <1>17, <1>18

LEMMA UnwindInsertKeeps == ASSUME BInv, UnwindInsert PROVE BInv'
<1>1. PICK h, up, place : Structure(h, up, place)
  BY DEF BInv
<1>2. PICK p, w, c, r : p = parent /\ w = report.new_page_id /\ c = cur /\ r = root
  OBVIOUS
<1>3. /\ root' = root /\ pc' = "unwind" /\ pc = "unwind" /\ stack # <<>> /\ report.type = "split"
      /\ cur' = p /\ cur' = Last(stack) /\ stack' = Front(stack) /\ report'.type = "no split"
      /\ Width(p) < NUM_KEY_SLOTS /\ to_write_page' = to_write_page
      /\ pages' = [pages EXCEPT ![p] = InsertKeyValue(p, report.boundary_key, w)]
  BY <1>2 DEF UnwindInsert, Ascend, NoSplit, parent, Width
<1>4. /\ Control /\ OnWay /\ Pages /\ Way(h, up) /\ Witnesses(h, up, place) /\ Tree(h, up, place)
      /\ Splitting /\ r \in PageIDs /\ Used(r)
  BY <1>1, <1>2, <1>3 DEF BInv, OnWay, Structure, Splitting, Control
<1>5. /\ p \in PageIDs /\ IsInternal(p) /\ c \in PageIDs /\ Used(c)
      /\ up[c] = p /\ h[p] = h[c] + 1 /\ p # NoPage
      /\ h[c] \in Nat /\ h[p] \in Nat
  BY <1>2, <1>3, <1>4, OnTop, BTreeAssumption DEF Witnesses
<1>6. w \in PageIDs /\ Used(w) /\ up[w] = NoPage /\ h[w] = h[c] /\ w # r /\ w # p
  BY <1>1, <1>2, <1>4, <1>5 DEF Structure, Orphan
<1>7. PICK ks, cs, pos : /\ InsertKeyValue(p, report.boundary_key, w) = Internal(ks, cs)
                         /\ Joining(h, up, p, w, ks, cs, pos)
  BY <1>1, <1>2, <1>3, <1>4, Joins
<1>8. /\ IsSeq(ks) /\ Len(ks) = Width(p) + 1 /\ cs \in Seq(PageIDs) /\ Len(cs) = Width(p) + 2
      /\ Len(cs) = Len(ks) + 1 /\ Len(ks) <= NUM_KEY_SLOTS /\ Width(p) \in Nat
  <2>1. Width(p) \in Nat
    BY <1>4, <1>5, Kinds DEF Pages
  <2>2. NUM_KEY_SLOTS \in Nat
    BY BTreeAssumption
  <2>3. IsSeq(ks) /\ Len(ks) = Width(p) + 1 /\ cs \in Seq(PageIDs) /\ Len(cs) = Width(p) + 2
    BY <1>7 DEF Joining
  <2>4. Width(p) < NUM_KEY_SLOTS
    BY <1>3
  <2>5. Width(p) + 2 = (Width(p) + 1) + 1 /\ Width(p) + 1 <= NUM_KEY_SLOTS
    BY ONLY <2>1, <2>2, <2>4
  <2> QED BY ONLY <2>1, <2>3, <2>5
<1>9. /\ pages' = [q \in PageIDs |-> pages'[q]] /\ pages'[p] = Internal(ks, cs)
      /\ \A q \in PageIDs : q # p => pages'[q] = pages[q]
  <2>1. pages = [q \in PageIDs |-> pages[q]]
    BY <1>4 DEF Pages
  <2> QED BY <1>3, <1>5, <1>7, <2>1, Update
<1>10. /\ PageShape(p)' /\ IsInternal(p)' /\ Used(p)' /\ ~IsLeaf(p)'
       /\ Width(p)' = Len(ks) /\ Kids(p)' = cs
  BY <1>8, <1>9, InternalShape
<1>11. Pages'
  <2>1. \A q \in PageIDs : q # p => PageShape(q)'
    BY <1>4, <1>9, SameShape DEF Pages
  <2> QED BY <1>9, <1>10, <2>1 DEF Pages
<1>12. PICK up2, place2 :
         /\ up2 = [q \in PageIDs |-> IF q = w THEN p ELSE up[q]]
         /\ place2 = [q \in PageIDs |-> IF q = w \/ up[q] = p THEN pos[q] ELSE place[q]]
  OBVIOUS
<1>13. Witnesses(h, up2, place2) /\ Witnesses(h, up2, place2)'
  BY <1>4, <1>5, <1>7, <1>12 DEF Witnesses, Joining
<1>14. \A q \in PageIDs : q # p => AlikeAt(q)
  BY <1>9 DEF AlikeAt, Width, Kids
<1>15. \A q \in PageIDs : up[q] # NoPage => up[q] \in PageIDs /\ Used(q) /\ h[up[q]] = h[q] + 1
  BY <1>4, Heights
<1>16. \A q \in PageIDs : Used(q) => Used(q)' /\ pages'[q].type = pages[q].type
  BY <1>5, <1>9, <1>10 DEF Used, IsLeaf, IsInternal
<1>17. Regrouping(h, up, place, h, up2, place2, {p})
  <2>1. \A q \in PageIDs : up[q] # NoPage => pages'[q].type = "leaf" \/ pages'[q].type = "internal"
    BY <1>15, <1>16 DEF Used, IsLeaf, IsInternal
  <2>2. \A q \in PageIDs : up[q] # NoPage /\ up[q] # p => up2[q] = up[q] /\ place2[q] = place[q]
    BY <1>6, <1>12
  <2>3. Holds(p, h, up2, place2)'
    <3> SUFFICES ASSUME NEW j \in 1..Len(cs), NEW q, q = cs[j]
                 PROVE  Used(q)' /\ h[p] = h[q] + 1 /\ up2[q] = p /\ place2[q] = j
      BY <1>10 DEF Holds, Used, IsLeaf, IsInternal
    <3>1. q \in PageIDs
      BY <1>8, ElementOfSeq
    <3> QED BY <3>1, <1>7, <1>12, <1>16 DEF Joining
  <2>4. \A q \in PageIDs : up2[q] = p => Hangs(q, up2, place2)'
    BY <1>7, <1>10, <1>12 DEF Hangs, Joining
  <2>5. \A q \in PageIDs : up2[q] = up[q] \/ up2[q] = p
    BY <1>12
  <2> QED BY <1>10, <1>14, <2>1, <2>2, <2>3, <2>4, <2>5 DEF Regrouping
<1>18. Tree(h, up2, place2)'
  BY <1>4, <1>5, <1>13, <1>17, Regroup
<1>19. Way(h, up2)'
  <2>0. PICK h2 : h2 = h
    OBVIOUS
  <2>1. \A q \in PageIDs : IsInternal(q) /\ h[q] > h[cur] =>
           pages'[q].type = "internal" /\ h2[q] = h[q] /\ up2[q] = up[q]
    <3> SUFFICES ASSUME NEW q \in PageIDs, IsInternal(q), h[q] > h[c]
                 PROVE  pages'[q].type = "internal" /\ up2[q] = up[q]
      BY <1>2, <2>0
    <3>1. q # w
      BY <1>5, <1>6
    <3> QED BY <3>1, <1>12, <1>16 DEF Used, IsInternal
  <2>2. Way(h2, up2)'
    <3>1. /\ cur' = Last(stack) /\ stack' = Front(stack) /\ root' = root /\ stack # <<>>
          /\ Control /\ OnWay /\ Way(h, up) /\ Witnesses(h, up, place)
      BY <1>3, <1>4
    <3> QED BY ONLY <2>1, <3>1, AscendWay
  <2> QED BY <2>0, <2>2
<1>20. Control'
  <2>1. Used(r)' /\ r = root' /\ r \in PageIDs
    BY <1>2, <1>3, <1>4, <1>16
  <2>2. to_write_page' \in PageIDs /\ pages'[to_write_page'].type = "leaf"
    BY <1>3, <1>4, <1>16 DEF Control, Used, IsLeaf
  <2>3. Front(stack) \in Seq(PageIDs)
    BY <1>3, <1>4, FrontFacts DEF Control
  <2> QED BY <1>3, <2>1, <2>2, <2>3 DEF Control, Used, IsLeaf, IsInternal
<1>21. Occupied(up2)'
  <2>1. \A q \in PageIDs : up2[q] # NoPage => Wide(q)' \/ Width(up2[q])' = 0
    <3> SUFFICES ASSUME NEW q \in PageIDs, up2[q] # NoPage, NEW b, b = up2[q]
                 PROVE  Wide(q)' \/ Width(b)' = 0
      OBVIOUS
    <3>1. CASE q = w \/ up[q] = p
      <4>1. q # p
        BY <3>1, <1>5, <1>6, <1>15
      <4> QED BY <3>1, <4>1, <1>7, <1>9, SameShape DEF Joining
    <3>2. CASE q # w /\ up[q] # p
      <4>1. b = up[q] /\ b \in PageIDs /\ b # p
        BY <3>2, <1>12, <1>15
      <4>2. Wide(q) \/ Width(b) = 0
        BY <4>1, <1>1, <1>3 DEF Structure, Occupied, Lacking
      <4>3. Width(b)' = Width(b)
        BY <4>1, <1>9, SameShape
      <4>4. Wide(q) => Wide(q)'
        <5>1. CASE q = p
          <6>1. M \in Nat
            BY BTreeAssumption DEF M
          <6> QED BY <5>1, <6>1, <1>5, <1>8, <1>10 DEF Wide
        <5>2. CASE q # p
          BY <5>2, <1>9, SameShape
        <5> QED BY <5>1, <5>2
      <4> QED BY <4>2, <4>3, <4>4
    <3> QED BY <3>1, <3>2
  <2>2. ~Lacking' /\ ~Splitting'
    BY <1>3 DEF Lacking, Splitting
  <2> QED BY <2>1, <2>2 DEF Occupied
<1>22. Structure(h, up2, place2)'
  <2>1. up2[root'] = NoPage
    BY <1>1, <1>2, <1>3, <1>4, <1>6, <1>12 DEF Structure
  <2>2. Orphan(h, up2)'
    BY <1>3 DEF Orphan, Splitting
  <2> QED BY <1>13, <1>18, <1>19, <1>21, <2>1, <2>2 DEF Structure
<1> QED BY <1>11, <1>20, <1>22 DEF BInv

LEMMA NewRootKeeps == ASSUME BInv, RoomToGrow, NewRoot PROVE BInv'
<1>1. PICK h, up, place : Structure(h, up, place)
  BY DEF BInv
<1>2. PICK n, w, c, k : n = NewPage /\ w = report.new_page_id /\ c = root /\ k = report.boundary_key
  OBVIOUS
<1>3. /\ root' = n /\ pc' = "unwind" /\ pc = "unwind" /\ stack = <<>> /\ stack' = <<>>
      /\ report.type = "split" /\ report'.type = "no split" /\ to_write_page' = to_write_page
      /\ pages' = [pages EXCEPT ![n] = Internal(<<k>>, <<c, w>>)]
  BY <1>2 DEF NewRoot, NoSplit
<1>4. /\ Control /\ OnWay /\ Pages /\ Way(h, up) /\ Witnesses(h, up, place) /\ Tree(h, up, place)
      /\ Splitting
  BY <1>1, <1>3 DEF BInv, OnWay, Structure, Splitting
<1>5. cur = c /\ c \in PageIDs /\ Used(c) /\ up[c] = NoPage /\ h[c] \in Nat
  <2>1. Follows(0) = cur
    BY <1>3 DEF Follows
  <2> QED BY <1>1, <1>2, <1>4, <2>1 DEF Way, Structure, Witnesses
<1>6. w \in PageIDs /\ Used(w) /\ up[w] = NoPage /\ h[w] = h[c] /\ w # c
  BY <1>1, <1>2, <1>4, <1>5 DEF Structure, Orphan
<1>7. n \in PageIDs /\ pages[n] = Free /\ ~Used(n) /\ ~IsInternal(n) /\ n # c /\ n # w /\ n # NoPage
  <2>1. n \in PageIDs /\ pages[n] = Free
    BY <1>2, NewPageIsFree
  <2> QED BY <1>4, <1>5, <1>6, <2>1, Kinds, BTreeAssumption DEF Pages, Used
<1>8. PICK ks, cs : ks = <<k>> /\ cs = <<c, w>>
  OBVIOUS
<1>9. /\ IsSeq(ks) /\ Len(ks) = 1 /\ Len(ks) <= NUM_KEY_SLOTS
      /\ cs \in Seq(PageIDs) /\ Len(cs) = 2 /\ Len(cs) = Len(ks) + 1
      /\ cs[1] = c /\ cs[2] = w
  <2>1. IsSeq(ks) /\ Len(ks) = 1
    BY <1>8, KeysOne
  <2>2. 1 <= NUM_KEY_SLOTS
    BY BTreeAssumption
  <2>3. cs \in Seq(PageIDs) /\ Len(cs) = 2 /\ cs[1] = c /\ cs[2] = w
    BY <1>5, <1>6, <1>8
  <2> QED BY <2>1, <2>2, <2>3
<1>10. /\ pages' = [q \in PageIDs |-> pages'[q]] /\ pages'[n] = Internal(ks, cs)
       /\ \A q \in PageIDs : q # n => pages'[q] = pages[q]
  <2>1. pages = [q \in PageIDs |-> pages[q]]
    BY <1>4 DEF Pages
  <2> QED BY <1>3, <1>7, <1>8, <2>1, Update
<1>11. /\ PageShape(n)' /\ IsInternal(n)' /\ Used(n)' /\ ~IsLeaf(n)' /\ Kids(n)' = cs
  BY <1>9, <1>10, InternalShape
<1>12. Pages'
  <2>1. \A q \in PageIDs : q # n => PageShape(q)'
    BY <1>4, <1>10, SameShape DEF Pages
  <2> QED BY <1>10, <1>11, <2>1 DEF Pages
<1>13. PICK h2, up2, place2 :
         /\ h2 = [q \in PageIDs |-> IF q = n THEN h[c] + 1 ELSE h[q]]
         /\ up2 = [q \in PageIDs |-> IF q \in {c, w} THEN n ELSE up[q]]
         /\ place2 = [q \in PageIDs |-> IF q = c THEN 1 ELSE IF q = w THEN 2 ELSE place[q]]
  OBVIOUS
<1>14. Witnesses(h2, up2, place2) /\ Witnesses(h2, up2, place2)'
  BY <1>4, <1>5, <1>7, <1>13 DEF Witnesses
<1>15. \A q \in PageIDs : q # n => AlikeAt(q)
  BY <1>10 DEF AlikeAt, Width, Kids
<1>16. \A q \in PageIDs : up[q] # NoPage => up[q] \in PageIDs /\ IsInternal(up[q]) /\ up[q] # n /\ Used(q)
  BY <1>4, <1>7, Heights
<1>17. \A q \in PageIDs : Used(q) => q # n /\ Used(q)'
  BY <1>7, <1>10 DEF Used, IsLeaf, IsInternal
<1>18. Regrouping(h, up, place, h2, up2, place2, {n})
  <2>1. \A q \in PageIDs : up[q] # NoPage =>
            /\ pages'[q].type = "leaf" \/ pages'[q].type = "internal"
            /\ up2[q] = up[q] /\ place2[q] = place[q]
    BY <1>5, <1>6, <1>13, <1>16, <1>17 DEF Used, IsLeaf, IsInternal
  <2>2. Holds(n, h2, up2, place2)'
    <3> SUFFICES ASSUME NEW j \in 1..2, NEW q, q = cs[j]
                 PROVE  Used(q)' /\ h2[n] = h2[q] + 1 /\ up2[q] = n /\ place2[q] = j
      BY <1>9, <1>11 DEF Holds, Used, IsLeaf, IsInternal
    <3>1. (j = 1 /\ q = c) \/ (j = 2 /\ q = w)
      <4>1. j = 1 \/ j = 2
        OBVIOUS
      <4>2. cs[1] = c /\ cs[2] = w
        BY <1>9
      <4> QED BY ONLY <4>1, <4>2, q = cs[j]
    <3>2. q \in PageIDs /\ Used(q)' /\ q # n /\ h[q] = h[c] /\ q \in {c, w}
      <4>1. CASE q = c
        BY <4>1, <1>5, <1>7, <1>17
      <4>2. CASE q = w
        BY <4>2, <1>6, <1>7, <1>17
      <4> QED BY <3>1, <4>1, <4>2
    <3>3. h2[n] = h[c] + 1 /\ h2[q] = h[c]
      BY <3>2, <1>7, <1>13
    <3>4. up2[q] = n /\ place2[q] = j
      BY <3>1, <3>2, <1>6, <1>13
    <3> QED BY <3>2, <3>3, <3>4
  <2>3. \A q \in PageIDs : up2[q] = n => Hangs(q, up2, place2)'
    <3> SUFFICES ASSUME NEW q \in PageIDs, up2[q] = n PROVE Hangs(q, up2, place2)'
      OBVIOUS
    <3>1. q = c \/ q = w
      BY <1>7, <1>13, <1>16
    <3>2. place2[q] \in 1..2 /\ cs[place2[q]] = q
      BY <3>1, <1>6, <1>9, <1>13
    <3> QED BY <3>2, <1>9, <1>11 DEF Hangs
  <2>4. \A q \in PageIDs : Used(q) => h2[q] = h[q]
    BY <1>13, <1>17
  <2>5. \A q \in PageIDs : up2[q] = up[q] \/ up2[q] = n
    BY <1>13
  <2> QED BY <1>11, <1>15, <2>1, <2>2, <2>3, <2>4, <2>5 DEF Regrouping
<1>19. Tree(h2, up2, place2)'
  BY <1>4, <1>7, <1>14, <1>18, Regroup
<1>20. Control' /\ Way(h2, up2)'
  <2>1. to_write_page' \in PageIDs /\ pages'[to_write_page'].type = "leaf"
    <3>1. PICK t : t = to_write_page
      OBVIOUS
    <3>2. t \in PageIDs /\ IsLeaf(t)
      BY <1>3, <1>4, <3>1 DEF Control
    <3>3. pages'[t] = pages[t]
      BY <3>2, <1>10, <1>17 DEF Used
    <3> QED BY <1>3, <3>1, <3>2, <3>3 DEF IsLeaf
  <2>2. Used(n)' /\ root' = n /\ n \in PageIDs /\ stack' \in Seq(PageIDs)
    BY <1>3, <1>4, <1>7, <1>11 DEF Control
  <2> QED BY <1>3, <2>1, <2>2 DEF Control, Used, IsLeaf, IsInternal, Way, OnWay
<1>21. Occupied(up2)'
  <2>1. \A q \in PageIDs : up2[q] # NoPage => Wide(q)' \/ Width(up2[q])' = 0
    <3> SUFFICES ASSUME NEW q \in PageIDs, up2[q] # NoPage, NEW b, b = up2[q]
                 PROVE  Wide(q)' \/ Width(b)' = 0
      OBVIOUS
    <3>1. CASE q \in {c, w}
      <4>1. Wide(q)
        <5>1. Wide(cur) /\ Wide(report.new_page_id)
          BY <1>1, <1>4 DEF Structure, Occupied
        <5>2. CASE q = c
          BY <5>1, <5>2, <1>5
        <5>3. CASE q = w
          BY <5>1, <5>3, <1>2
        <5> QED BY <3>1, <5>2, <5>3
      <4> QED BY <3>1, <4>1, <1>7, <1>10, SameShape
    <3>2. CASE q \notin {c, w}
      <4>1. b = up[q] /\ b \in PageIDs /\ b # n /\ q # n
        BY <3>2, <1>13, <1>16, <1>17
      <4>2. Wide(q) \/ Width(b) = 0
        BY <4>1, <1>1, <1>3 DEF Structure, Occupied, Lacking
      <4> QED BY <4>1, <4>2, <1>10, SameShape
    <3> QED BY <3>1, <3>2
  <2>2. ~Lacking' /\ ~Splitting'
    BY <1>3 DEF Lacking, Splitting
  <2> QED BY <2>1, <2>2 DEF Occupied
<1>22. Structure(h2, up2, place2)'
  <2>1. up2[root'] = NoPage
    <3>1. n \notin {c, w} /\ up[n] = NoPage
      BY <1>7, <1>16
    <3> QED BY <3>1, <1>3, <1>7, <1>13
  <2>2. Orphan(h2, up2)'
    BY <1>3 DEF Orphan, Splitting
  <2> QED BY <1>14, <1>19, <1>20, <1>21, <2>1, <2>2 DEF Structure
<1> QED BY <1>12, <1>20, <1>22 DEF BInv

\* A full page with one more key, and its halves; m keys stay in each.
Halved(ks, S, cs, m, ka, ca, kb, cb) ==
  /\ IsSeq(ks) /\ cs \in Seq(S) /\ m \in Nat
  /\ Len(ks) = 2 * m + 1 /\ Len(cs) = 2 * m + 2
  /\ ka = SubSeq(ks, 1, m) /\ ca = SubSeq(cs, 1, m + 1)
  /\ kb = SubSeq(ks, m + 2, Len(ks)) /\ cb = SubSeq(cs, m + 2, Len(cs))

LEMMA Halves ==
  ASSUME NEW ks, NEW S, NEW cs, NEW m, NEW ka, NEW ca, NEW kb, NEW cb,
         Halved(ks, S, cs, m, ka, ca, kb, cb)
  PROVE  /\ IsSeq(ka) /\ Len(ka) = m /\ IsSeq(kb) /\ Len(kb) = m
         /\ ca \in Seq(S) /\ Len(ca) = m + 1 /\ \A j \in 1..(m + 1) : ca[j] = cs[j]
         /\ cb \in Seq(S) /\ Len(cb) = m + 1 /\ \A j \in 1..(m + 1) : cb[j] = cs[m + 1 + j]
<1>0. /\ IsSeq(ks) /\ cs \in Seq(S) /\ m \in Nat
      /\ Len(ks) = 2 * m + 1 /\ Len(cs) = 2 * m + 2
      /\ ka = SubSeq(ks, 1, m) /\ ca = SubSeq(cs, 1, m + 1)
      /\ kb = SubSeq(ks, m + 2, Len(ks)) /\ cb = SubSeq(cs, m + 2, Len(cs))
  BY DEF Halved
<1> USE <1>0
<1>1. IsSeq(ka) /\ Len(ka) = m
  <2>1. 1 \in 1..(Len(ks) + 1) /\ m \in (1 - 1)..Len(ks) /\ m - 1 + 1 = m
    OBVIOUS
  <2>2. IsSeq(SubSeq(ks, 1, m)) /\ Len(SubSeq(ks, 1, m)) = m - 1 + 1
    BY <2>1, KeysSlice
  <2> QED BY <2>1, <2>2
<1>2. IsSeq(kb) /\ Len(kb) = m
  <2>1. /\ m + 2 \in 1..(Len(ks) + 1) /\ Len(ks) \in (m + 2 - 1)..Len(ks)
        /\ Len(ks) - (m + 2) + 1 = m
    OBVIOUS
  <2>2. /\ IsSeq(SubSeq(ks, m + 2, Len(ks)))
        /\ Len(SubSeq(ks, m + 2, Len(ks))) = Len(ks) - (m + 2) + 1
    BY <2>1, KeysSlice
  <2> QED BY <2>1, <2>2
<1>3. ca \in Seq(S) /\ Len(ca) = m + 1 /\ \A j \in 1..(m + 1) : ca[j] = cs[j]
  <2>1. /\ 1 \in 1..(Len(cs) + 1) /\ m + 1 \in (1 - 1)..Len(cs) /\ m + 1 - 1 + 1 = m + 1
        /\ \A j \in 1..(m + 1) : 1 + j - 1 = j
    OBVIOUS
  <2>2. /\ SubSeq(cs, 1, m + 1) \in Seq(S) /\ Len(SubSeq(cs, 1, m + 1)) = m + 1 - 1 + 1
        /\ \A j \in 1..(m + 1 - 1 + 1) : SubSeq(cs, 1, m + 1)[j] = cs[1 + j - 1]
    BY <2>1, SliceFacts
  <2> QED BY <2>1, <2>2
<1>4. cb \in Seq(S) /\ Len(cb) = m + 1 /\ \A j \in 1..(m + 1) : cb[j] = cs[m + 1 + j]
  <2>1. /\ m + 2 \in 1..(Len(cs) + 1) /\ Len(cs) \in (m + 2 - 1)..Len(cs)
        /\ Len(cs) - (m + 2) + 1 = m + 1
        /\ \A j \in 1..(m + 1) : m + 2 + j - 1 = m + 1 + j
    OBVIOUS
  <2>2. /\ SubSeq(cs, m + 2, Len(cs)) \in Seq(S)
        /\ Len(SubSeq(cs, m + 2, Len(cs))) = Len(cs) - (m + 2) + 1
        /\ \A j \in 1..(Len(cs) - (m + 2) + 1) : SubSeq(cs, m + 2, Len(cs))[j] = cs[m + 2 + j - 1]
    BY <2>1, SliceFacts
  <2> QED BY <2>1, <2>2
<1> QED BY <1>1, <1>2, <1>3, <1>4

LEMMA UnwindSplitKeeps == ASSUME BInv, RoomToGrow, UnwindSplit PROVE BInv'
<1>1. PICK h, up, place : Structure(h, up, place)
  BY DEF BInv
<1>2. PICK p, w, n, c, r, m :
        p = parent /\ w = report.new_page_id /\ n = NewPage /\ c = cur /\ r = root /\ m = M + 1
  OBVIOUS
<1>3. /\ root' = root /\ pc' = "unwind" /\ pc = "unwind" /\ stack # <<>> /\ report.type = "split"
      /\ cur' = p /\ cur' = Last(stack) /\ stack' = Front(stack)
      /\ report'.type = "split" /\ report'.new_page_id = n
      /\ Width(p) = NUM_KEY_SLOTS /\ to_write_page' = to_write_page
  BY <1>2 DEF UnwindSplit, Ascend, Split, parent, Width
<1>4. /\ Control /\ OnWay /\ Pages /\ Way(h, up) /\ Witnesses(h, up, place) /\ Tree(h, up, place)
      /\ Splitting /\ r \in PageIDs /\ Used(r)
  BY <1>1, <1>2, <1>3 DEF BInv, OnWay, Structure, Splitting, Control
<1>5. /\ p \in PageIDs /\ IsInternal(p) /\ Used(p) /\ c \in PageIDs /\ Used(c)
      /\ up[c] = p /\ h[p] = h[c] + 1 /\ p # NoPage
      /\ h[c] \in Nat /\ h[p] \in Nat
  BY <1>2, <1>3, <1>4, OnTop, BTreeAssumption DEF Witnesses, Used
<1>6. w \in PageIDs /\ Used(w) /\ up[w] = NoPage /\ h[w] = h[c] /\ w # r /\ w # p
  BY <1>1, <1>2, <1>4, <1>5 DEF Structure, Orphan
<1>7. n \in PageIDs /\ ~Used(n) /\ ~IsInternal(n) /\ n # p /\ n # w /\ n # r /\ n # NoPage
  <2>1. n \in PageIDs /\ pages[n] = Free
    BY <1>2, NewPageIsFree
  <2> QED BY <1>4, <1>5, <1>6, <2>1, Kinds, BTreeAssumption DEF Pages, Used
<1>8. m \in Nat /\ m > M /\ NUM_KEY_SLOTS = 2 * m /\ m <= NUM_KEY_SLOTS
  BY <1>2, BTreeAssumption DEF M
<1>9. PICK ks, cs, pos : /\ InsertKeyValue(p, report.boundary_key, w) = Internal(ks, cs)
                         /\ Joining(h, up, p, w, ks, cs, pos)
  BY <1>1, <1>2, <1>3, <1>4, Joins
<1>10. /\ IsSeq(ks) /\ Len(ks) = 2 * m + 1 /\ cs \in Seq(PageIDs) /\ Len(cs) = 2 * m + 2
  BY <1>3, <1>8, <1>9 DEF Joining
<1>11. PICK ka, ca, kb, cb :
         /\ ka = SubSeq(ks, 1, m) /\ ca = SubSeq(cs, 1, m + 1)
         /\ kb = SubSeq(ks, m + 2, Len(ks)) /\ cb = SubSeq(cs, m + 2, Len(cs))
  OBVIOUS
<1>12. /\ IsSeq(ka) /\ Len(ka) = m /\ IsSeq(kb) /\ Len(kb) = m
       /\ ca \in Seq(PageIDs) /\ Len(ca) = m + 1 /\ \A j \in 1..(m + 1) : ca[j] = cs[j]
       /\ cb \in Seq(PageIDs) /\ Len(cb) = m + 1 /\ \A j \in 1..(m + 1) : cb[j] = cs[m + 1 + j]
  <2>1. Halved(ks, PageIDs, cs, m, ka, ca, kb, cb)
    BY <1>8, <1>10, <1>11 DEF Halved
  <2> QED BY <2>1, Halves
<1>13. /\ pages' = [q \in PageIDs |-> pages'[q]]
       /\ pages'[p] = Internal(ka, ca) /\ pages'[n] = Internal(kb, cb)
       /\ \A q \in PageIDs : q \notin {p, n} => pages'[q] = pages[q]
  <2>1. PICK full, x, y : /\ full = InsertKeyValue(p, report.boundary_key, w)
                          /\ x = Internal(SubSeq(full.keys, 1, Len(full.keys) \div 2),
                                          SubSeq(full.children, 1, Len(full.keys) \div 2 + 1))
                          /\ y = Internal(SubSeq(full.keys, Len(full.keys) \div 2 + 2, Len(full.keys)),
                                          SubSeq(full.children, Len(full.keys) \div 2 + 2,
                                                 Len(full.children)))
                          /\ pages' = [pages EXCEPT ![p] = x, ![n] = y]
    BY <1>2 DEF UnwindSplit, parent
  <2>2. full.keys = ks /\ full.children = cs
    BY <1>9, <2>1, Shapes
  <2>3. Len(ks) \div 2 = m
    BY <1>8, <1>10
  <2>4. x = Internal(ka, ca) /\ y = Internal(kb, cb)
    BY <1>11, <2>1, <2>2, <2>3
  <2>5. pages = [q \in PageIDs |-> pages[q]]
    BY <1>4 DEF Pages
  <2>6. /\ pages' = [q \in PageIDs |-> pages'[q]]
        /\ pages'[p] = x /\ pages'[n] = y
        /\ \A q \in PageIDs : q \notin {p, n} => pages'[q] = pages[q]
    BY <1>5, <1>7, <2>1, <2>5
  <2> QED BY <2>4, <2>6
<1>14. /\ PageShape(p)' /\ IsInternal(p)' /\ Used(p)' /\ ~IsLeaf(p)' /\ Width(p)' = m /\ Kids(p)' = ca
       /\ PageShape(n)' /\ IsInternal(n)' /\ Used(n)' /\ ~IsLeaf(n)' /\ Width(n)' = m /\ Kids(n)' = cb
  <2>1. Len(ka) <= NUM_KEY_SLOTS /\ Len(kb) <= NUM_KEY_SLOTS /\ Len(ca) = Len(ka) + 1 /\ Len(cb) = Len(kb) + 1
    BY <1>8, <1>12
  <2>2. /\ PageShape(p)' /\ IsInternal(p)' /\ Used(p)' /\ ~IsLeaf(p)' /\ Width(p)' = Len(ka) /\ Kids(p)' = ca
    <3>1. IsSeq(ka) /\ ca \in Seq(PageIDs) /\ pages'[p] = Internal(ka, ca)
      BY <1>12, <1>13
    <3> QED BY ONLY <2>1, <3>1, InternalShape
  <2>3. /\ PageShape(n)' /\ IsInternal(n)' /\ Used(n)' /\ ~IsLeaf(n)' /\ Width(n)' = Len(kb) /\ Kids(n)' = cb
    <3>1. IsSeq(kb) /\ cb \in Seq(PageIDs) /\ pages'[n] = Internal(kb, cb)
      BY <1>12, <1>13
    <3> QED BY ONLY <2>1, <3>1, InternalShape
  <2> QED BY <1>12, <2>2, <2>3
<1>15. Wide(p)' /\ Wide(n)'
  BY <1>8, <1>14 DEF Wide
<1>16. Pages'
  <2>1. \A q \in PageIDs : q \notin {p, n} => PageShape(q)'
    BY <1>4, <1>13, SameShape DEF Pages
  <2> QED BY <1>13, <1>14, <2>1 DEF Pages
<1>17. PICK h2, up2, place2 :
         /\ h2 = [q \in PageIDs |-> IF q = n THEN h[p] ELSE h[q]]
         /\ up2 = [q \in PageIDs |-> IF q = w \/ up[q] = p
                                     THEN IF pos[q] <= m + 1 THEN p ELSE n ELSE up[q]]
         /\ place2 = [q \in PageIDs |-> IF q = w \/ up[q] = p
                                        THEN IF pos[q] <= m + 1 THEN pos[q] ELSE pos[q] - (m + 1)
                                        ELSE place[q]]
  OBVIOUS
<1>18. Witnesses(h2, up2, place2) /\ Witnesses(h2, up2, place2)'
  <2>1. h2 \in [PageIDs -> Nat]
    BY <1>4, <1>5, <1>17 DEF Witnesses
  <2>2. up2 \in [PageIDs -> PageIDs \cup {NoPage}]
    BY <1>4, <1>5, <1>7, <1>17 DEF Witnesses
  <2>3. place2 \in [PageIDs -> Nat]
    <3>1. \A q \in PageIDs : pos[q] \in Nat /\ place[q] \in Nat
      BY <1>4, <1>9 DEF Witnesses, Joining
    <3>2. \A q \in PageIDs : pos[q] <= m + 1 \/ pos[q] - (m + 1) \in Nat
      BY <1>8, <3>1
    <3> QED BY <1>17, <3>1, <3>2
  <2> QED BY <2>1, <2>2, <2>3 DEF Witnesses
<1>19. \A q \in PageIDs : q \notin {p, n} => AlikeAt(q)
  BY <1>13 DEF AlikeAt, Width, Kids
<1>20. \A q \in PageIDs : up[q] # NoPage => /\ up[q] \in PageIDs /\ up[q] # n
                                            /\ Used(q) /\ h[up[q]] = h[q] + 1
  BY <1>4, <1>7, Heights
<1>21. \A q \in PageIDs : Used(q) => q # n /\ Used(q)' /\ pages'[q].type = pages[q].type
  BY <1>5, <1>7, <1>13, <1>14 DEF Used, IsLeaf, IsInternal
<1>22. \A q \in PageIDs : q = w \/ up[q] = p =>
          pos[q] \in 1..(2 * m + 2) /\ cs[pos[q]] = q /\ Wide(q) /\ q # p /\ q # n
  <2>1. \A q \in PageIDs : q = w \/ up[q] = p => pos[q] \in 1..(2 * m + 2) /\ cs[pos[q]] = q /\ Wide(q)
    BY <1>9, <1>10 DEF Joining
  <2>2. \A q \in PageIDs : q = w \/ up[q] = p => q # p /\ q # n
    BY <1>5, <1>6, <1>7, <1>20, <1>21
  <2> QED BY <2>1, <2>2
<1>23. \A j \in 1..(2 * m + 2) : /\ cs[j] \in PageIDs /\ Used(cs[j]) /\ h[p] = h[cs[j]] + 1
                                 /\ cs[j] = w \/ up[cs[j]] = p
                                 /\ pos[cs[j]] = j
  <2>1. \A j \in 1..(2 * m + 2) : cs[j] \in PageIDs
    BY <1>8, <1>10, ElementOfSeq
  <2> QED BY <1>9, <1>10, <2>1 DEF Joining
<1>24. Holds(p, h2, up2, place2)'
  <2> SUFFICES ASSUME NEW j \in 1..(m + 1), NEW q, q = ca[j]
               PROVE  Used(q)' /\ h2[p] = h2[q] + 1 /\ up2[q] = p /\ place2[q] = j
    BY <1>12, <1>14 DEF Holds, Used, IsLeaf, IsInternal
  <2>1. j \in 1..(2 * m + 2) /\ j <= m + 1
    BY <1>8
  <2>2. /\ q = cs[j] /\ q \in PageIDs /\ Used(q) /\ h[p] = h[q] + 1
        /\ q = w \/ up[q] = p
        /\ pos[q] = j
    BY <1>12, <1>23, <2>1
  <2>3. h2[p] = h[p] /\ h2[q] = h[q] /\ Used(q)'
    BY <1>5, <1>7, <1>17, <1>21, <2>2
  <2>4. up2[q] = p /\ place2[q] = j
    BY <1>17, <2>1, <2>2
  <2> QED BY <2>2, <2>3, <2>4
<1>25. Holds(n, h2, up2, place2)'
  <2> SUFFICES ASSUME NEW j \in 1..(m + 1), NEW q, q = cb[j]
               PROVE  Used(q)' /\ h2[n] = h2[q] + 1 /\ up2[q] = n /\ place2[q] = j
    BY <1>12, <1>14 DEF Holds, Used, IsLeaf, IsInternal
  <2>1. m + 1 + j \in 1..(2 * m + 2) /\ ~(m + 1 + j <= m + 1) /\ (m + 1 + j) - (m + 1) = j
    BY <1>8
  <2>2. /\ q = cs[m + 1 + j] /\ q \in PageIDs /\ Used(q) /\ h[p] = h[q] + 1
        /\ q = w \/ up[q] = p
        /\ pos[q] = m + 1 + j
    <3>1. q = cs[m + 1 + j]
      BY <1>12
    <3> QED BY <1>23, <2>1, <3>1
  <2>3. h2[n] = h[p] /\ h2[q] = h[q] /\ Used(q)'
    BY <1>7, <1>17, <1>21, <2>2
  <2>4. up2[q] = n /\ place2[q] = j
    BY <1>17, <2>1, <2>2
  <2> QED BY <2>2, <2>3, <2>4
<1>26. \A q \in PageIDs : up2[q] \in {p, n} => Hangs(q, up2, place2)'
  <2> SUFFICES ASSUME NEW q \in PageIDs, up2[q] \in {p, n} PROVE Hangs(q, up2, place2)'
    OBVIOUS
  <2>1. q = w \/ up[q] = p
    BY <1>5, <1>7, <1>17, <1>20
  <2>2. pos[q] \in 1..(2 * m + 2) /\ cs[pos[q]] = q
    BY <1>22, <2>1
  <2>3. CASE pos[q] <= m + 1
    <3>1. up2[q] = p /\ place2[q] = pos[q] /\ pos[q] \in 1..(m + 1)
      BY <1>8, <1>17, <2>1, <2>2, <2>3
    <3> QED BY <1>12, <1>14, <2>2, <3>1 DEF Hangs
  <2>4. CASE ~(pos[q] <= m + 1)
    <3>1. up2[q] = n /\ place2[q] = pos[q] - (m + 1)
      BY <1>17, <2>1, <2>4
    <3>2. pos[q] - (m + 1) \in 1..(m + 1) /\ m + 1 + (pos[q] - (m + 1)) = pos[q]
      BY <1>8, <2>2, <2>4
    <3>3. cb[pos[q] - (m + 1)] = q
      BY <1>12, <2>2, <3>2
    <3> QED BY <1>12, <1>14, <3>1, <3>2, <3>3 DEF Hangs
  <2> QED BY <2>3, <2>4
<1>27. Regrouping(h, up, place, h2, up2, place2, {p, n})
  <2>1. \A q \in PageIDs : up[q] # NoPage => pages'[q].type = "leaf" \/ pages'[q].type = "internal"
    BY <1>20, <1>21 DEF Used, IsLeaf, IsInternal
  <2>2. \A q \in PageIDs : up[q] # NoPage /\ up[q] \notin {p, n} => up2[q] = up[q] /\ place2[q] = place[q]
    BY <1>6, <1>17
  <2>3. \A q \in PageIDs : up2[q] = up[q] \/ up2[q] \in {p, n}
    BY <1>17
  <2>4. \A q \in PageIDs : Used(q) => h2[q] = h[q]
    BY <1>17, <1>21
  <2>5. \A q \in {p, n} : (IsLeaf(q)' => h2[q] = 0) /\ Holds(q, h2, up2, place2)'
    BY <1>14, <1>24, <1>25
  <2> QED BY <1>19, <1>26, <2>1, <2>2, <2>3, <2>4, <2>5 DEF Regrouping
<1>28. Tree(h2, up2, place2)'
  BY <1>4, <1>5, <1>7, <1>18, <1>27, Regroup
<1>29. Way(h2, up2)'
  <2>1. \A q \in PageIDs : IsInternal(q) /\ h[q] > h[cur] =>
           pages'[q].type = "internal" /\ h2[q] = h[q] /\ up2[q] = up[q]
    <3> SUFFICES ASSUME NEW q \in PageIDs, IsInternal(q), h[q] > h[c]
                 PROVE  pages'[q].type = "internal" /\ h2[q] = h[q] /\ up2[q] = up[q]
      BY <1>2
    <3>1. q # n /\ pages'[q].type = "internal"
      BY <1>21 DEF Used, IsInternal
    <3>2. q # w /\ up[q] # p
      <4>1. h[q] \in Nat
        BY <1>4 DEF Witnesses
      <4> QED BY <4>1, <1>5, <1>6, <1>20
    <3> QED BY <3>1, <3>2, <1>17
  <2>2. /\ cur' = Last(stack) /\ stack' = Front(stack) /\ root' = root /\ stack # <<>>
        /\ Control /\ OnWay /\ Way(h, up) /\ Witnesses(h, up, place)
    BY <1>3, <1>4
  <2> QED BY ONLY <2>1, <2>2, AscendWay
<1>30. Control'
  <2>1. Used(r)' /\ r = root' /\ r \in PageIDs
    BY <1>2, <1>3, <1>4, <1>21
  <2>2. to_write_page' \in PageIDs /\ pages'[to_write_page'].type = "leaf"
    BY <1>3, <1>4, <1>21 DEF Control, Used, IsLeaf
  <2>3. Front(stack) \in Seq(PageIDs)
    BY <1>3, <1>4, FrontFacts DEF Control
  <2> QED BY <1>3, <2>1, <2>2, <2>3 DEF Control, Used, IsLeaf, IsInternal
<1>31. up[n] = NoPage /\ up2[n] = NoPage
  BY <1>7, <1>17, <1>20, <1>5
<1>32. Orphan(h2, up2)'
  <2>1. h2[n] = h[p] /\ h2[p] = h[p]
    BY <1>5, <1>7, <1>17
  <2> QED BY <1>2, <1>3, <1>7, <1>14, <1>31, <2>1 DEF Orphan, Used, IsLeaf, IsInternal
<1>33. Occupied(up2)'
  <2>1. \A q \in PageIDs : up2[q] # NoPage => Wide(q)' \/ Width(up2[q])' = 0
    <3> SUFFICES ASSUME NEW q \in PageIDs, up2[q] # NoPage, NEW b, b = up2[q]
                 PROVE  Wide(q)' \/ Width(b)' = 0
      OBVIOUS
    <3>1. CASE q = w \/ up[q] = p
      BY <3>1, <1>13, <1>22, SameShape
    <3>2. CASE q # w /\ up[q] # p
      <4>1. b = up[q] /\ b \in PageIDs /\ b \notin {p, n}
        BY <3>2, <1>17, <1>20
      <4>2. Wide(q) \/ Width(b) = 0
        BY <4>1, <1>1, <1>3 DEF Structure, Occupied, Lacking
      <4>3. Width(b)' = Width(b)
        BY <4>1, <1>13, SameShape
      <4>4. Wide(q) => Wide(q)'
        <5>1. CASE q \in {p, n}
          BY <5>1, <1>15
        <5>2. CASE q \notin {p, n}
          BY <5>2, <1>13, SameShape
        <5> QED BY <5>1, <5>2
      <4> QED BY <4>2, <4>3, <4>4
    <3> QED BY <3>1, <3>2
  <2>2. ~Lacking'
    BY <1>3 DEF Lacking
  <2>3. \A q : q = cur' \/ q = report'.new_page_id => Wide(q)'
    BY <1>3, <1>15
  <2>4. Wide(cur)' /\ Wide(report.new_page_id)'
    BY <2>3 DEF Wide, IsInternal, Width
  <2> QED BY <2>1, <2>2, <2>4 DEF Occupied
<1>34. Structure(h2, up2, place2)'
  <2>1. up2[root'] = NoPage
    BY <1>1, <1>2, <1>3, <1>4, <1>5, <1>6, <1>17 DEF Structure
  <2> QED BY <1>18, <1>28, <1>29, <1>32, <1>33, <2>1 DEF Structure
<1> QED BY <1>16, <1>30, <1>34 DEF BInv

\* Steps that move children between two siblings, or merge them.

\* The i-th child of the parent and the next.
LEMMA Siblings ==
  ASSUME NEW h, NEW up, NEW place, Pages, Control, Structure(h, up, place), OnWay, stack # <<>>,
         NEW p, NEW i, NEW a, NEW b,
         p = parent, i \in 1..Width(p), a = Kids(p)[i], b = Kids(p)[i + 1]
  PROVE  /\ a \in PageIDs /\ b \in PageIDs /\ p \in PageIDs /\ cur \in PageIDs
         /\ p # a /\ p # b /\ a # b /\ p # cur /\ up[cur] = p
         /\ a # NoPage /\ b # NoPage /\ p # NoPage
         /\ Used(a) /\ Used(b) /\ IsInternal(p) /\ Used(p)
         /\ up[a] = p /\ up[b] = p /\ place[a] = i /\ place[b] = i + 1
         /\ h[a] \in Nat /\ h[a] = h[cur] /\ h[b] = h[a] /\ h[p] = h[a] + 1
         /\ IsInternal(cur) => IsInternal(a) /\ IsInternal(b)
         /\ IsLeaf(cur) => IsLeaf(a) /\ IsLeaf(b)
<1>1. /\ cur \in PageIDs /\ Used(cur) /\ p \in PageIDs /\ IsInternal(p)
      /\ up[cur] = p /\ h[p] = h[cur] + 1
  BY OnTop DEF Structure
<1>2. /\ Width(p) \in Nat /\ Len(Kids(p)) = Width(p) + 1 /\ h[cur] \in Nat
      /\ \A n \in 1..Len(Kids(p)) :
            /\ Kids(p)[n] \in PageIDs /\ Used(Kids(p)[n]) /\ h[Kids(p)[n]] = h[cur]
            /\ up[Kids(p)[n]] = p /\ place[Kids(p)[n]] = n
  BY Family
<1>3. i \in Nat /\ i \in 1..Len(Kids(p)) /\ i + 1 \in 1..Len(Kids(p)) /\ i # i + 1
  BY <1>2
<1>4. /\ a \in PageIDs /\ Used(a) /\ h[a] = h[cur] /\ up[a] = p /\ place[a] = i
      /\ b \in PageIDs /\ Used(b) /\ h[b] = h[cur] /\ up[b] = p /\ place[b] = i + 1
  BY <1>2, <1>3
<1>5. /\ \A q \in PageIDs : IsLeaf(q) => h[q] = 0
      /\ \A q \in PageIDs : IsInternal(q) => h[q] > 0
  BY Heights DEF Structure
<1>6. /\ IsInternal(cur) => IsInternal(a) /\ IsInternal(b)
      /\ IsLeaf(cur) => IsLeaf(a) /\ IsLeaf(b)
  BY <1>1, <1>4, <1>5 DEF Used
<1>7. p # a /\ p # b /\ a # b /\ p # cur
  BY <1>1, <1>2, <1>3, <1>4
<1>8. a # NoPage /\ b # NoPage /\ p # NoPage
  BY <1>1, <1>4, BTreeAssumption
<1>9. Used(p)
  BY <1>1 DEF Used
<1> QED BY <1>1, <1>2, <1>4, <1>6, <1>7, <1>8, <1>9

\* The children of a and b, one behind the other, and their places in the row.
InRow(h, up, place, a, b, all, pos) ==
  /\ all = Kids(a) \o Kids(b)
  /\ Len(all) = Len(Kids(a)) + Len(Kids(b)) /\ all \in Seq(PageIDs)
  /\ pos \in [PageIDs -> Nat]
  /\ \A q \in PageIDs : up[q] = b => pos[q] = Len(Kids(a)) + place[q]
  /\ \A q \in PageIDs : up[q] # b => pos[q] = place[q]
  /\ \A j \in 1..Len(all) : /\ all[j] \in PageIDs /\ Used(all[j]) /\ h[a] = h[all[j]] + 1
                            /\ up[all[j]] \in {a, b} /\ pos[all[j]] = j
  /\ \A q \in PageIDs : up[q] \in {a, b} => pos[q] \in 1..Len(all) /\ all[pos[q]] = q

LEMMA Row ==
  ASSUME NEW h, NEW up, NEW place, Pages, Witnesses(h, up, place), Tree(h, up, place),
         NEW a \in PageIDs, NEW b \in PageIDs, IsInternal(a), IsInternal(b), a # b, h[a] = h[b]
  PROVE  \E all, pos : InRow(h, up, place, a, b, all, pos)
<1>0. PICK all, pos :
        /\ all = Kids(a) \o Kids(b)
        /\ pos = [q \in PageIDs |-> IF up[q] = b THEN Len(Kids(a)) + place[q] ELSE place[q]]
  OBVIOUS
<1>1. /\ Kids(a) \in Seq(PageIDs) /\ Kids(b) \in Seq(PageIDs)
      /\ Len(Kids(a)) \in Nat /\ Len(Kids(b)) \in Nat
  BY Kinds, LenProperties DEF Pages
<1>2. PICK s, t, m, n : s = Kids(a) /\ t = Kids(b) /\ m = Len(s) /\ n = Len(t)
  OBVIOUS
<1>3. /\ all \in Seq(PageIDs) /\ Len(all) = m + n /\ m \in Nat /\ n \in Nat
      /\ \A j \in 1..(m + n) : all[j] = IF j <= m THEN s[j] ELSE t[j - m]
  <2>1. s \in Seq(PageIDs) /\ t \in Seq(PageIDs) /\ all = s \o t /\ m \in Nat /\ n \in Nat
    <3>1. all = s \o t
      BY <1>0, <1>2
    <3>2. s \in Seq(PageIDs) /\ t \in Seq(PageIDs)
      BY <1>1, <1>2
    <3>3. m \in Nat /\ n \in Nat
      BY <1>1, <1>2
    <3> QED BY <3>1, <3>2, <3>3
  <2>2. /\ s \o t \in Seq(PageIDs) /\ Len(s \o t) = Len(s) + Len(t)
        /\ \A j \in 1..(Len(s) + Len(t)) :
              (s \o t)[j] = IF j <= Len(s) THEN s[j] ELSE t[j - Len(s)]
    BY ONLY <2>1, JoinFacts
  <2> QED BY <1>2, <2>1, <2>2
<1>4. \A q \in PageIDs : place[q] \in Nat /\ h[q] \in Nat
  BY DEF Witnesses
<1>5. pos \in [PageIDs -> Nat]
  BY <1>0, <1>1, <1>4
<1>6. \A j \in 1..m : /\ s[j] \in PageIDs /\ Used(s[j]) /\ h[a] = h[s[j]] + 1
                      /\ up[s[j]] = a /\ place[s[j]] = j
  <2>1. \A j \in 1..m : s[j] \in PageIDs
    BY <1>1, <1>2, ElementOfSeq
  <2> QED BY <1>2, <2>1 DEF Tree, Holds
<1>7. \A j \in 1..n : /\ t[j] \in PageIDs /\ Used(t[j]) /\ h[a] = h[t[j]] + 1
                      /\ up[t[j]] = b /\ place[t[j]] = j
  <2>1. \A j \in 1..n : t[j] \in PageIDs
    BY <1>1, <1>2, ElementOfSeq
  <2> QED BY <1>2, <2>1 DEF Tree, Holds
<1>8. ASSUME NEW j \in 1..(m + n)
      PROVE  /\ all[j] \in PageIDs /\ Used(all[j]) /\ h[a] = h[all[j]] + 1
             /\ up[all[j]] \in {a, b} /\ pos[all[j]] = j
  <2>1. CASE j <= m
    <3>1. j \in 1..m /\ all[j] = s[j]
      BY <1>3, <2>1
    <3>2. pos[s[j]] = place[s[j]]
      BY <1>0, <1>6, <3>1
    <3> QED BY <1>6, <3>1, <3>2
  <2>2. CASE ~(j <= m)
    <3>1. j - m \in 1..n /\ m + (j - m) = j
      BY <1>3, <2>2
    <3>2. all[j] = t[j - m]
      BY <1>3, <2>2
    <3>3. pos[t[j - m]] = m + place[t[j - m]]
      BY <1>0, <1>2, <1>7, <3>1
    <3> QED BY <1>7, <3>1, <3>2, <3>3
  <2> QED BY <2>1, <2>2
<1>9. ASSUME NEW q \in PageIDs, up[q] \in {a, b}
      PROVE  pos[q] \in 1..(m + n) /\ all[pos[q]] = q
  <2>0. NoPage \notin {a, b}
    BY BTreeAssumption
  <2>1. CASE up[q] = a
    <3>1. place[q] \in 1..m /\ s[place[q]] = q /\ pos[q] = place[q]
      BY <1>0, <1>2, <2>0, <2>1 DEF Tree, Hangs
    <3>2. pos[q] \in 1..(m + n) /\ pos[q] <= m
      BY <1>3, <3>1
    <3> QED BY <1>3, <3>1, <3>2
  <2>2. CASE up[q] = b
    <3>1. place[q] \in 1..n /\ t[place[q]] = q /\ pos[q] = m + place[q]
      BY <1>0, <1>2, <2>0, <2>2 DEF Tree, Hangs
    <3>2. pos[q] \in 1..(m + n) /\ ~(pos[q] <= m) /\ pos[q] - m = place[q]
      BY <1>3, <3>1
    <3>3. all[pos[q]] = t[pos[q] - m]
      BY <1>3, <3>2
    <3> QED BY <3>1, <3>2, <3>3
  <2> QED BY <1>9, <2>1, <2>2
<1>10. /\ \A q \in PageIDs : up[q] = b => pos[q] = Len(Kids(a)) + place[q]
       /\ \A q \in PageIDs : up[q] # b => pos[q] = place[q]
  BY <1>0
<1>11. Len(all) = Len(Kids(a)) + Len(Kids(b)) /\ Len(all) = m + n
  BY <1>2, <1>3
<1>12. all = Kids(a) \o Kids(b)
  BY <1>0
<1>13. InRow(h, up, place, a, b, all, pos)
  BY <1>3, <1>5, <1>8, <1>9, <1>10, <1>11, <1>12 DEF InRow
<1> QED BY <1>13

\* Pages a and b share their children anew, with enough keys for both, and page p
\* above them gets another key between them.
Shift(a, b, p, ka, ca, kb, cb, ks) ==
  /\ IsSeq(ka) /\ Len(ka) \in Nat /\ Len(ka) > M /\ Len(ka) <= NUM_KEY_SLOTS
  /\ IsSeq(kb) /\ Len(kb) \in Nat /\ Len(kb) > M /\ Len(kb) <= NUM_KEY_SLOTS
  /\ ca \in Seq(PageIDs) /\ Len(ca) = Len(ka) + 1
  /\ cb \in Seq(PageIDs) /\ Len(cb) = Len(kb) + 1
  /\ Len(ca) + Len(cb) = Len(Kids(a) \o Kids(b))
  /\ \A j \in 1..Len(ca) : ca[j] = (Kids(a) \o Kids(b))[j]
  /\ \A j \in 1..Len(cb) : cb[j] = (Kids(a) \o Kids(b))[Len(ca) + j]
  /\ IsSeq(ks) /\ Len(ks) = Width(p)
  /\ pages' = [q \in PageIDs |-> pages'[q]]
  /\ pages'[a] = Internal(ka, ca) /\ pages'[b] = Internal(kb, cb)
  /\ pages'[p] = Internal(ks, Kids(p))
  /\ \A q \in PageIDs : q \notin {a, b, p} => pages'[q] = pages[q]

LEMMA ShiftKeeps ==
  ASSUME BInv, Lacking, stack # <<>>, root' = root, pc' = pc, Ascend(Settled),
         NEW p, NEW i, NEW a, NEW b,
         p = parent, i \in 1..Width(p), a = Kids(p)[i], b = Kids(p)[i + 1], cur \in {a, b},
         NEW ka, NEW ca, NEW kb, NEW cb, NEW ks, Shift(a, b, p, ka, ca, kb, cb, ks)
  PROVE  BInv'
<1>1. PICK h, up, place : Structure(h, up, place)
  BY DEF BInv
<1>2. PICK c, r : c = cur /\ r = root
  OBVIOUS
<1>3. /\ cur' = Last(stack) /\ stack' = Front(stack) /\ pc = "rebalance"
      /\ report'.type = "InternalPage" /\ report'.underflown = FALSE
  BY DEF Ascend, Settled, Status, Lacking
<1>4. /\ Control /\ OnWay /\ Pages /\ Way(h, up) /\ Witnesses(h, up, place) /\ Tree(h, up, place)
      /\ Front(stack) \in Seq(PageIDs) /\ r \in PageIDs /\ Used(r)
  BY <1>1, <1>2, <1>3, FrontFacts DEF BInv, OnWay, Structure, Control
<1>5. IsInternal(c) /\ c \in {a, b}
  BY <1>1, <1>2 DEF Structure, Occupied
<1>6. /\ a \in PageIDs /\ b \in PageIDs /\ p \in PageIDs /\ c \in PageIDs
      /\ p # a /\ p # b /\ a # b /\ up[c] = p
      /\ a # NoPage /\ b # NoPage /\ p # NoPage
      /\ IsInternal(a) /\ IsInternal(b) /\ IsInternal(p)
      /\ up[a] = p /\ up[b] = p /\ h[a] \in Nat
      /\ h[a] = h[c] /\ h[b] = h[a] /\ h[p] = h[a] + 1
  BY <1>1, <1>2, <1>4, <1>5, Siblings
<1>7. PICK all, pos : InRow(h, up, place, a, b, all, pos)
  BY <1>4, <1>6, Row
<1>8. /\ pos \in [PageIDs -> Nat]
      /\ \A j \in 1..Len(all) : /\ all[j] \in PageIDs /\ Used(all[j]) /\ h[a] = h[all[j]] + 1
                                /\ up[all[j]] \in {a, b} /\ pos[all[j]] = j
      /\ \A q \in PageIDs : up[q] \in {a, b} => pos[q] \in 1..Len(all) /\ all[pos[q]] = q
  BY <1>7 DEF InRow
<1>9. PICK x, y : x = Len(ca) /\ y = Len(cb)
  OBVIOUS
<1>10. /\ x \in Nat /\ y \in Nat /\ Len(all) = x + y
       /\ \A j \in 1..x : ca[j] = all[j]
       /\ \A j \in 1..y : cb[j] = all[x + j]
  <2>0. all = Kids(a) \o Kids(b)
    BY <1>7 DEF InRow
  <2>1. /\ Len(ca) \in Nat /\ Len(cb) \in Nat
        /\ Len(ca) + Len(cb) = Len(Kids(a) \o Kids(b))
    BY DEF Shift
  <2>2. \A j \in 1..Len(ca) : ca[j] = (Kids(a) \o Kids(b))[j]
    BY DEF Shift
  <2>3. \A j \in 1..Len(cb) : cb[j] = (Kids(a) \o Kids(b))[Len(ca) + j]
    BY DEF Shift
  <2> QED BY <1>9, <2>0, <2>1, <2>2, <2>3
<1>11. /\ pages' = [q \in PageIDs |-> pages'[q]]
       /\ pages'[a] = Internal(ka, ca) /\ pages'[b] = Internal(kb, cb)
       /\ pages'[p] = Internal(ks, Kids(p))
       /\ \A q \in PageIDs : q \notin {a, b, p} => pages'[q] = pages[q]
  BY DEF Shift
<1>12. /\ PageShape(a)' /\ IsInternal(a)' /\ Used(a)' /\ ~IsLeaf(a)' /\ Width(a)' > M /\ Kids(a)' = ca
  <2>1. /\ IsSeq(ka) /\ Len(ka) > M /\ Len(ka) <= NUM_KEY_SLOTS
        /\ ca \in Seq(PageIDs) /\ Len(ca) = Len(ka) + 1
    BY DEF Shift
  <2> QED BY <1>11, <2>1, InternalShape
<1>13. /\ PageShape(b)' /\ IsInternal(b)' /\ Used(b)' /\ ~IsLeaf(b)' /\ Width(b)' > M /\ Kids(b)' = cb
  <2>1. /\ IsSeq(kb) /\ Len(kb) > M /\ Len(kb) <= NUM_KEY_SLOTS
        /\ cb \in Seq(PageIDs) /\ Len(cb) = Len(kb) + 1
    BY DEF Shift
  <2> QED BY <1>11, <2>1, InternalShape, ZenonT(40)
<1>14. /\ PageShape(p)' /\ IsInternal(p)' /\ Used(p)' /\ ~IsLeaf(p)'
       /\ Width(p)' = Width(p) /\ Kids(p)' = Kids(p)
  <2>1. /\ IsSeq(ks) /\ Len(ks) = Width(p)
    BY DEF Shift
  <2>2. Width(p) <= NUM_KEY_SLOTS /\ Kids(p) \in Seq(PageIDs) /\ Len(Kids(p)) = Width(p) + 1
    BY <1>4, <1>6, Kinds DEF Pages
  <2> QED BY <1>11, <2>1, <2>2, InternalShape
<1>15. Pages'
  <2>1. \A q \in PageIDs : q \notin {a, b, p} => PageShape(q)'
    BY <1>4, <1>11, SameShape DEF Pages
  <2> QED BY <1>11, <1>12, <1>13, <1>14, <2>1 DEF Pages
<1>16. PICK up2, place2 :
         /\ up2 = [q \in PageIDs |-> IF up[q] \in {a, b}
                                     THEN IF pos[q] <= x THEN a ELSE b ELSE up[q]]
         /\ place2 = [q \in PageIDs |-> IF up[q] \in {a, b}
                                        THEN IF pos[q] <= x THEN pos[q] ELSE pos[q] - x
                                        ELSE place[q]]
  OBVIOUS
<1>17. Witnesses(h, up2, place2) /\ Witnesses(h, up2, place2)'
  <2>1. up2 \in [PageIDs -> PageIDs \cup {NoPage}]
    BY <1>4, <1>6, <1>16 DEF Witnesses
  <2>2. place2 \in [PageIDs -> Nat]
    <3>1. \A q \in PageIDs : pos[q] \in Nat /\ place[q] \in Nat
      BY <1>4, <1>8 DEF Witnesses
    <3>2. \A q \in PageIDs : pos[q] <= x \/ pos[q] - x \in Nat
      BY <1>10, <3>1
    <3> QED BY <1>16, <3>1, <3>2
  <2> QED BY <1>4, <2>1, <2>2 DEF Witnesses
<1>18. \A q \in PageIDs : q \notin {a, b, p} => AlikeAt(q)
  BY <1>11 DEF AlikeAt, Width, Kids
<1>19. \A q \in PageIDs : up[q] # NoPage => /\ up[q] \in PageIDs /\ IsInternal(up[q])
                                            /\ Used(q) /\ h[up[q]] = h[q] + 1
  BY <1>4, Heights
<1>20. \A q \in PageIDs : Used(q) => Used(q)' /\ pages'[q].type = pages[q].type
  BY <1>6, <1>11, <1>12, <1>13, <1>14 DEF Used, IsLeaf, IsInternal
<1>21. Holds(a, h, up2, place2)'
  <2> SUFFICES ASSUME NEW j \in 1..x, NEW q, q = ca[j]
               PROVE  Used(q)' /\ h[a] = h[q] + 1 /\ up2[q] = a /\ place2[q] = j
    BY <1>9, <1>12 DEF Holds, Used, IsLeaf, IsInternal
  <2>1. j \in 1..Len(all) /\ j <= x
    BY <1>10
  <2>2. q = all[j]
    BY <1>10
  <2>3. q \in PageIDs /\ Used(q) /\ h[a] = h[q] + 1 /\ up[q] \in {a, b} /\ pos[q] = j
    BY <1>8, <2>1, <2>2
  <2>4. up2[q] = a /\ place2[q] = j
    BY <1>16, <2>1, <2>3
  <2> QED BY <1>20, <2>3, <2>4
<1>22. Holds(b, h, up2, place2)'
  <2> SUFFICES ASSUME NEW j \in 1..y, NEW q, q = cb[j]
               PROVE  Used(q)' /\ h[b] = h[q] + 1 /\ up2[q] = b /\ place2[q] = j
    BY <1>9, <1>13 DEF Holds, Used, IsLeaf, IsInternal
  <2>1. x + j \in 1..Len(all) /\ ~(x + j <= x) /\ (x + j) - x = j
    BY <1>10
  <2>2. q = all[x + j]
    BY <1>10
  <2>3. q \in PageIDs /\ Used(q) /\ h[a] = h[q] + 1 /\ up[q] \in {a, b} /\ pos[q] = x + j
    BY <1>8, <2>1, <2>2
  <2>4. up2[q] = b /\ place2[q] = j
    BY <1>16, <2>1, <2>3
  <2> QED BY <1>6, <1>20, <2>3, <2>4
<1>23. Holds(p, h, up2, place2)'
  <2> SUFFICES ASSUME NEW j \in 1..Len(Kids(p)), NEW q, q = Kids(p)[j]
               PROVE  Used(q)' /\ h[p] = h[q] + 1 /\ up2[q] = p /\ place2[q] = j
    BY <1>14 DEF Holds, Used, IsLeaf, IsInternal
  <2>1. q \in PageIDs
    BY <1>4, <1>6, Kinds, ElementOfSeq DEF Pages
  <2>2. Used(q) /\ h[p] = h[q] + 1 /\ up[q] = p /\ place[q] = j
    BY <1>4, <1>6 DEF Tree, Holds
  <2> QED BY <1>6, <1>16, <1>20, <2>1, <2>2
<1>24. \A q \in PageIDs : up2[q] \in {a, b, p} => Hangs(q, up2, place2)'
  <2> SUFFICES ASSUME NEW q \in PageIDs, up2[q] \in {a, b, p} PROVE Hangs(q, up2, place2)'
    OBVIOUS
  <2>1. CASE up[q] \in {a, b}
    <3>1. pos[q] \in 1..(x + y) /\ all[pos[q]] = q
      BY <1>8, <1>10, <2>1
    <3>2. CASE pos[q] <= x
      <4>1. up2[q] = a /\ place2[q] = pos[q] /\ pos[q] \in 1..x
        BY <1>10, <1>16, <2>1, <3>1, <3>2
      <4>2. ca[pos[q]] = q
        BY <1>10, <3>1, <4>1
      <4> QED BY <1>9, <1>12, <4>1, <4>2 DEF Hangs
    <3>3. CASE ~(pos[q] <= x)
      <4>1. up2[q] = b /\ place2[q] = pos[q] - x
        BY <1>16, <2>1, <3>3
      <4>2. pos[q] - x \in 1..y /\ x + (pos[q] - x) = pos[q]
        BY <1>10, <3>1, <3>3
      <4>3. cb[pos[q] - x] = q
        BY <1>10, <3>1, <4>2
      <4> QED BY <1>9, <1>13, <4>1, <4>2, <4>3 DEF Hangs
    <3> QED BY <3>2, <3>3
  <2>2. CASE up[q] \notin {a, b}
    <3>1. up2[q] = up[q] /\ place2[q] = place[q] /\ up[q] = p
      BY <1>16, <2>2
    <3>2. Hangs(q, up, place)
      BY <1>4, <1>6, <3>1 DEF Tree
    <3> QED BY <1>14, <3>1, <3>2 DEF Hangs
  <2> QED BY <2>1, <2>2
<1>25. Regrouping(h, up, place, h, up2, place2, {a, b, p})
  <2>1. \A q \in PageIDs : up[q] # NoPage => pages'[q].type = "leaf" \/ pages'[q].type = "internal"
    BY <1>19, <1>20 DEF Used, IsLeaf, IsInternal
  <2>2. \A q \in PageIDs : up[q] # NoPage /\ up[q] \notin {a, b, p} => up2[q] = up[q] /\ place2[q] = place[q]
    BY <1>16
  <2>3. \A q \in PageIDs : up2[q] = up[q] \/ up2[q] \in {a, b, p}
    BY <1>16
  <2>4. \A q \in {a, b, p} : (IsLeaf(q)' => h[q] = 0) /\ Holds(q, h, up2, place2)'
    BY <1>12, <1>13, <1>14, <1>21, <1>22, <1>23
  <2> QED BY <1>18, <1>24, <2>1, <2>2, <2>3, <2>4 DEF Regrouping
<1>26. Tree(h, up2, place2)'
  BY <1>4, <1>6, <1>17, <1>25, Regroup
<1>27. Way(h, up2)'
  <2>0. PICK h2 : h2 = h
    OBVIOUS
  <2>1. \A q \in PageIDs : IsInternal(q) /\ h[q] > h[cur] =>
           pages'[q].type = "internal" /\ h2[q] = h[q] /\ up2[q] = up[q]
    <3> SUFFICES ASSUME NEW q \in PageIDs, IsInternal(q), h[q] > h[c]
                 PROVE  pages'[q].type = "internal" /\ up2[q] = up[q]
      BY <1>2, <2>0
    <3>1. pages'[q].type = "internal"
      BY <1>20 DEF Used, IsInternal
    <3>2. up[q] \notin {a, b}
      <4>1. h[q] \in Nat
        BY <1>4 DEF Witnesses
      <4> QED BY <4>1, <1>6, <1>19
    <3> QED BY <3>1, <3>2, <1>16
  <2>2. /\ cur' = Last(stack) /\ stack' = Front(stack) /\ root' = root /\ stack # <<>>
        /\ Control /\ OnWay /\ Way(h, up) /\ Witnesses(h, up, place)
    BY <1>3, <1>4
  <2>3. Way(h2, up2)'
    BY ONLY <2>1, <2>2, AscendWay
  <2> QED BY <2>0, <2>3
<1>28. Control'
  <2>1. Used(r)' /\ r = root' /\ r \in PageIDs
    BY <1>2, <1>4, <1>20
  <2> QED BY <1>3, <1>4, <2>1 DEF Control, Used, IsLeaf, IsInternal
<1>29. \A q \in PageIDs : up[q] \in {a, b} => Wide(q)
  <2> SUFFICES ASSUME NEW q \in PageIDs, up[q] \in {a, b} PROVE Wide(q)
    OBVIOUS
  <2>1. q # c
    BY <1>6
  <2>2. CASE up[q] = c
    BY <1>1, <1>2, <2>2 DEF Structure, Occupied
  <2>3. CASE up[q] # c
    <3>1. PICK o : o = up[q]
      OBVIOUS
    <3>2. o \in {a, b} /\ o # c /\ up[o] = p /\ o \in PageIDs /\ IsInternal(o)
      BY <1>6, <2>3, <3>1
    <3>3. Width(p) # 0
      OBVIOUS
    <3>4. Wide(o)
      BY <1>1, <1>2, <1>6, <3>2, <3>3 DEF Structure, Occupied
    <3>5. Width(o) > M /\ M \in Nat
      BY <3>2, <3>4, BTreeAssumption DEF Wide, M
    <3>6. up[q] # NoPage /\ Width(o) # 0
      BY <1>6, <3>1, <3>2, <3>5
    <3> QED BY <1>1, <1>2, <2>1, <3>1, <3>6 DEF Structure, Occupied
  <2> QED BY <2>2, <2>3
<1>30. Occupied(up2)'
  <2>1. \A q \in PageIDs : up2[q] # NoPage => Wide(q)' \/ Width(up2[q])' = 0
    <3> SUFFICES ASSUME NEW q \in PageIDs, up2[q] # NoPage, NEW o, o = up2[q]
                 PROVE  Wide(q)' \/ Width(o)' = 0
      OBVIOUS
    <3>1. CASE q \in {a, b}
      BY <3>1, <1>12, <1>13 DEF Wide
    <3>2. CASE q \notin {a, b}
      <4>1. Wide(q)' <=> Wide(q)
        <5>1. CASE q = p
          BY <5>1, <1>6, <1>14 DEF Wide
        <5>2. CASE q # p
          BY <5>2, <3>2, <1>11, SameShape
        <5> QED BY <5>1, <5>2
      <4>2. CASE up[q] \in {a, b}
        BY <4>1, <4>2, <1>29
      <4>3. CASE up[q] \notin {a, b}
        <5>1. o = up[q] /\ o \in PageIDs /\ q # c
          BY <4>3, <3>2, <1>5, <1>16, <1>19
        <5>2. Wide(q) \/ Width(o) = 0
          BY <5>1, <1>1, <1>2 DEF Structure, Occupied
        <5>3. Width(o)' = Width(o)
          <6>1. CASE o = p
            BY <6>1, <1>14
          <6>2. CASE o # p
            BY <6>2, <5>1, <4>3, <1>11, SameShape
          <6> QED BY <6>1, <6>2
        <5> QED BY <4>1, <5>2, <5>3
      <4> QED BY <4>2, <4>3
    <3> QED BY <3>1, <3>2
  <2>2. ~Lacking' /\ ~Splitting'
    BY <1>3 DEF Lacking, Splitting
  <2> QED BY <2>1, <2>2 DEF Occupied
<1>31. Structure(h, up2, place2)'
  <2>1. up2[root'] = NoPage
    BY <1>1, <1>2, <1>4, <1>6, <1>16 DEF Structure
  <2>2. Orphan(h, up2)'
    BY <1>3 DEF Orphan, Splitting
  <2> QED BY <1>17, <1>26, <1>27, <1>30, <2>1, <2>2 DEF Structure
<1> QED BY <1>15, <1>28, <1>31 DEF BInv

\* The pairs at the end of one page go to the front of the next ...
LentToRight(lk, lc, n, x, rk, rc, ka, ca, kb, cb) ==
  /\ IsSeq(lk) /\ IsSeq(rk) /\ lc \in Seq(PageIDs) /\ rc \in Seq(PageIDs)
  /\ Len(lc) = Len(lk) + 1 /\ n \in 1..Len(lk)
  /\ ka = SubSeq(lk, 1, Len(lk) - n) /\ ca = SubSeq(lc, 1, Len(lk) + 1 - n)
  /\ kb = SubSeq(lk, Len(lk) - n + 2, Len(lk)) \o <<x>> \o rk
  /\ cb = SubSeq(lc, Len(lk) + 2 - n, Len(lk) + 1) \o rc

LoanToRight(lk, lc, n, rk, rc, ka, ca, kb, cb) ==
  /\ IsSeq(ka) /\ Len(ka) = Len(lk) - n /\ IsSeq(kb) /\ Len(kb) = n + Len(rk)
  /\ ca \in Seq(PageIDs) /\ Len(ca) = Len(lk) + 1 - n
  /\ cb \in Seq(PageIDs) /\ Len(cb) = n + Len(rc)
  /\ Len(ca) + Len(cb) = Len(lc \o rc)
  /\ \A j \in 1..Len(ca) : ca[j] = (lc \o rc)[j]
  /\ \A j \in 1..Len(cb) : cb[j] = (lc \o rc)[Len(ca) + j]

LEMMA LentToRightFacts ==
  ASSUME NEW lk, NEW lc, NEW n, NEW x, NEW rk, NEW rc, NEW ka, NEW ca, NEW kb, NEW cb,
         LentToRight(lk, lc, n, x, rk, rc, ka, ca, kb, cb)
  PROVE  LoanToRight(lk, lc, n, rk, rc, ka, ca, kb, cb)
<1>0. /\ IsSeq(lk) /\ IsSeq(rk) /\ lc \in Seq(PageIDs) /\ rc \in Seq(PageIDs)
      /\ Len(lc) = Len(lk) + 1 /\ n \in 1..Len(lk)
      /\ ka = SubSeq(lk, 1, Len(lk) - n) /\ ca = SubSeq(lc, 1, Len(lk) + 1 - n)
      /\ kb = SubSeq(lk, Len(lk) - n + 2, Len(lk)) \o <<x>> \o rk
      /\ cb = SubSeq(lc, Len(lk) + 2 - n, Len(lk) + 1) \o rc
  BY DEF LentToRight
<1>1. PICK k, d : k = Len(lk) /\ d = Len(rc)
  OBVIOUS
<1>2. k \in Nat /\ d \in Nat /\ n \in 1..k /\ Len(lc) = k + 1 /\ Len(rk) \in Nat
  BY <1>0, <1>1, IsSeqLen, LenProperties
<1>3. IsSeq(ka) /\ Len(ka) = k - n
  <2>1. 1 \in 1..(Len(lk) + 1) /\ k - n \in (1 - 1)..Len(lk) /\ k - n - 1 + 1 = k - n
    BY <1>1, <1>2
  <2>2. IsSeq(SubSeq(lk, 1, k - n)) /\ Len(SubSeq(lk, 1, k - n)) = k - n - 1 + 1
    BY <1>0, <2>1, KeysSlice
  <2> QED BY <1>0, <1>1, <2>1, <2>2
<1>4. IsSeq(kb) /\ Len(kb) = n + Len(rk)
  <2>0. PICK u : u = k - n + 2
    OBVIOUS
  <2>1. u \in 1..(k + 1) /\ k \in (u - 1)..k /\ k - u + 1 = n - 1
    BY ONLY <1>2, <2>0
  <2>2. PICK s, t : s = SubSeq(lk, u, k) /\ t = s \o <<x>>
    OBVIOUS
  <2>3. IsSeq(s) /\ Len(s) = k - u + 1
    <3>1. IsSeq(lk) /\ u \in 1..(Len(lk) + 1) /\ k \in (u - 1)..Len(lk)
      <4>1. IsSeq(lk)
        BY <1>0
      <4> QED BY ONLY <1>1, <2>1, <4>1
    <3>2. IsSeq(SubSeq(lk, u, k)) /\ Len(SubSeq(lk, u, k)) = k - u + 1
      BY ONLY <3>1, KeysSlice
    <3> QED BY <2>2, <3>2
  <2>4. IsSeq(<<x>>) /\ Len(<<x>>) = 1
    BY KeysOne
  <2>5. IsSeq(s \o <<x>>) /\ Len(s \o <<x>>) = Len(s) + Len(<<x>>)
    BY <2>3, <2>4, KeysJoin
  <2>6. IsSeq(t \o rk) /\ Len(t \o rk) = Len(t) + Len(rk)
    BY <1>0, <2>2, <2>5, KeysJoin
  <2>7. kb = t \o rk
    BY <1>0, <1>1, <2>0, <2>2
  <2>8. Len(t) = n
    BY <1>2, <2>1, <2>2, <2>3, <2>4, <2>5
  <2> QED BY <2>6, <2>7, <2>8
<1>5. ca \in Seq(PageIDs) /\ Len(ca) = k + 1 - n /\ \A j \in 1..(k + 1 - n) : ca[j] = lc[j]
  <2>0. PICK v : v = k + 1 - n
    OBVIOUS
  <2>1. /\ 1 \in 1..(Len(lc) + 1) /\ v \in (1 - 1)..Len(lc)
        /\ v - 1 + 1 = k + 1 - n /\ \A j \in 1..(k + 1 - n) : 1 + j - 1 = j
    BY ONLY <1>2, <2>0
  <2>2. /\ SubSeq(lc, 1, v) \in Seq(PageIDs) /\ Len(SubSeq(lc, 1, v)) = v - 1 + 1
        /\ \A j \in 1..(v - 1 + 1) : SubSeq(lc, 1, v)[j] = lc[1 + j - 1]
    <3>1. lc \in Seq(PageIDs) /\ 1 \in 1..(Len(lc) + 1) /\ v \in (1 - 1)..Len(lc)
      BY <1>0, <2>1
    <3> QED BY ONLY <3>1, SliceFacts
  <2>3. ca = SubSeq(lc, 1, v)
    BY <1>0, <1>1, <2>0
  <2> QED BY ONLY <2>1, <2>2, <2>3
<1>6. PICK s : s = SubSeq(lc, k + 2 - n, k + 1)
  OBVIOUS
<1>7. s \in Seq(PageIDs) /\ Len(s) = n /\ \A j \in 1..n : s[j] = lc[k + 1 - n + j]
  <2>2. PICK u, v : u = k + 2 - n /\ v = k + 1
    OBVIOUS
  <2>1. /\ u \in 1..(Len(lc) + 1) /\ v \in (u - 1)..Len(lc)
        /\ v - u + 1 = n
        /\ \A j \in 1..n : u + j - 1 = k + 1 - n + j
    BY ONLY <1>2, <2>2
  <2>3. /\ SubSeq(lc, u, v) \in Seq(PageIDs) /\ Len(SubSeq(lc, u, v)) = v - u + 1
        /\ \A j \in 1..(v - u + 1) : SubSeq(lc, u, v)[j] = lc[u + j - 1]
    <3>1. lc \in Seq(PageIDs) /\ u \in 1..(Len(lc) + 1) /\ v \in (u - 1)..Len(lc)
      BY <1>0, <2>1
    <3> QED BY ONLY <3>1, SliceFacts
  <2>4. s = SubSeq(lc, u, v)
    BY <1>6, <2>2
  <2> QED BY ONLY <2>1, <2>3, <2>4
<1>8. /\ cb \in Seq(PageIDs) /\ Len(cb) = n + d
      /\ \A j \in 1..(n + d) : cb[j] = IF j <= n THEN s[j] ELSE rc[j - n]
  <2>1. /\ s \o rc \in Seq(PageIDs) /\ Len(s \o rc) = Len(s) + Len(rc)
        /\ \A j \in 1..(Len(s) + Len(rc)) : (s \o rc)[j] = IF j <= Len(s) THEN s[j] ELSE rc[j - Len(s)]
    BY <1>0, <1>7, JoinFacts
  <2>2. cb = s \o rc
    BY <1>0, <1>1, <1>6
  <2> QED BY <1>1, <1>7, <2>1, <2>2
<1>9. PICK all : all = lc \o rc
  OBVIOUS
<1>10. /\ Len(all) = k + 1 + d
       /\ \A j \in 1..(k + 1 + d) : all[j] = IF j <= k + 1 THEN lc[j] ELSE rc[j - (k + 1)]
  <2>1. /\ Len(lc \o rc) = Len(lc) + Len(rc)
        /\ \A j \in 1..(Len(lc) + Len(rc)) : (lc \o rc)[j] = IF j <= Len(lc) THEN lc[j] ELSE rc[j - Len(lc)]
    BY <1>0, JoinFacts
  <2> QED BY <1>1, <1>2, <1>9, <2>1
<1>11. ASSUME NEW j \in 1..(k + 1 - n) PROVE ca[j] = all[j]
  <2>1. j \in 1..(k + 1 + d) /\ j <= k + 1
    BY <1>2
  <2> QED BY <1>5, <1>10, <2>1
<1>12. ASSUME NEW j \in 1..(n + d) PROVE cb[j] = all[k + 1 - n + j]
  <2>1. k + 1 - n + j \in 1..(k + 1 + d)
    BY <1>2
  <2>2. CASE j <= n
    <3>1. j \in 1..n /\ k + 1 - n + j <= k + 1
      BY <1>2, <2>2
    <3> QED BY <1>7, <1>8, <1>10, <2>1, <2>2, <3>1
  <2>3. CASE ~(j <= n)
    <3>1. ~(k + 1 - n + j <= k + 1) /\ (k + 1 - n + j) - (k + 1) = j - n
      BY <1>2, <2>3
    <3> QED BY <1>8, <1>10, <2>1, <2>3, <3>1
  <2> QED BY <2>2, <2>3
<1>13. Len(ca) = k + 1 - n /\ Len(cb) = n + d /\ Len(ca) + Len(cb) = Len(all)
  BY <1>2, <1>5, <1>8, <1>10
<1> QED BY <1>1, <1>3, <1>4, <1>5, <1>8, <1>9, <1>11, <1>12, <1>13 DEF LoanToRight

\* ... and those at the front of one to the end of the one before.
LentToLeft(lk, lc, n, x, rk, rc, ka, ca, kb, cb) ==
  /\ IsSeq(lk) /\ IsSeq(rk) /\ lc \in Seq(PageIDs) /\ rc \in Seq(PageIDs)
  /\ Len(rc) = Len(rk) + 1 /\ n \in 1..Len(rk)
  /\ ka = lk \o <<x>> \o SubSeq(rk, 1, n - 1) /\ ca = lc \o SubSeq(rc, 1, n)
  /\ kb = SubSeq(rk, n + 1, Len(rk)) /\ cb = SubSeq(rc, n + 1, Len(rk) + 1)

LoanToLeft(lk, lc, n, rk, rc, ka, ca, kb, cb) ==
  /\ IsSeq(ka) /\ Len(ka) = Len(lk) + n /\ IsSeq(kb) /\ Len(kb) = Len(rk) - n
  /\ ca \in Seq(PageIDs) /\ Len(ca) = Len(lc) + n
  /\ cb \in Seq(PageIDs) /\ Len(cb) = Len(rk) + 1 - n
  /\ Len(ca) + Len(cb) = Len(lc \o rc)
  /\ \A j \in 1..Len(ca) : ca[j] = (lc \o rc)[j]
  /\ \A j \in 1..Len(cb) : cb[j] = (lc \o rc)[Len(ca) + j]

LEMMA LentToLeftFacts ==
  ASSUME NEW lk, NEW lc, NEW n, NEW x, NEW rk, NEW rc, NEW ka, NEW ca, NEW kb, NEW cb,
         LentToLeft(lk, lc, n, x, rk, rc, ka, ca, kb, cb)
  PROVE  LoanToLeft(lk, lc, n, rk, rc, ka, ca, kb, cb)
<1>0. /\ IsSeq(lk) /\ IsSeq(rk) /\ lc \in Seq(PageIDs) /\ rc \in Seq(PageIDs)
      /\ Len(rc) = Len(rk) + 1 /\ n \in 1..Len(rk)
      /\ ka = lk \o <<x>> \o SubSeq(rk, 1, n - 1) /\ ca = lc \o SubSeq(rc, 1, n)
      /\ kb = SubSeq(rk, n + 1, Len(rk)) /\ cb = SubSeq(rc, n + 1, Len(rk) + 1)
  BY DEF LentToLeft
<1>1. PICK k, d : k = Len(rk) /\ d = Len(lc)
  OBVIOUS
<1>2. k \in Nat /\ d \in Nat /\ n \in 1..k /\ Len(rc) = k + 1 /\ Len(lk) \in Nat
  BY <1>0, <1>1, IsSeqLen, LenProperties
<1>3. IsSeq(kb) /\ Len(kb) = k - n
  <2>1. /\ n + 1 \in 1..(Len(rk) + 1) /\ k \in (n + 1 - 1)..Len(rk) /\ k - (n + 1) + 1 = k - n
    BY <1>1, <1>2
  <2>2. PICK u : u = n + 1
    OBVIOUS
  <2>3. IsSeq(SubSeq(rk, u, k)) /\ Len(SubSeq(rk, u, k)) = k - u + 1
    <3>1. IsSeq(rk) /\ u \in 1..(Len(rk) + 1) /\ k \in (u - 1)..Len(rk)
      BY <1>0, <2>1, <2>2
    <3> QED BY ONLY <3>1, KeysSlice
  <2> QED BY <1>0, <1>1, <2>1, <2>2, <2>3
<1>4. IsSeq(ka) /\ Len(ka) = Len(lk) + n
  <2>1. 1 \in 1..(Len(rk) + 1) /\ n - 1 \in (1 - 1)..Len(rk) /\ n - 1 - 1 + 1 = n - 1
    BY <1>1, <1>2
  <2>2. PICK s, t : s = SubSeq(rk, 1, n - 1) /\ t = lk \o <<x>>
    OBVIOUS
  <2>3. IsSeq(s) /\ Len(s) = n - 1 - 1 + 1
    BY <1>0, <2>1, <2>2, KeysSlice
  <2>4. IsSeq(<<x>>) /\ Len(<<x>>) = 1
    BY KeysOne
  <2>5. IsSeq(lk \o <<x>>) /\ Len(lk \o <<x>>) = Len(lk) + Len(<<x>>)
    BY <1>0, <2>4, KeysJoin
  <2>6. IsSeq(t \o s) /\ Len(t \o s) = Len(t) + Len(s)
    BY <2>2, <2>3, <2>5, KeysJoin
  <2>7. ka = t \o s
    BY <1>0, <1>1, <2>2
  <2>8. Len(t) + Len(s) = Len(lk) + n
    <3>1. Len(t) = Len(lk) + 1 /\ Len(s) = n - 1 - 1 + 1
      BY <2>2, <2>3, <2>4, <2>5
    <3> QED BY ONLY <1>2, <3>1
  <2> QED BY <2>6, <2>7, <2>8
<1>5. cb \in Seq(PageIDs) /\ Len(cb) = k + 1 - n /\ \A j \in 1..(k + 1 - n) : cb[j] = rc[n + j]
  <2>2. PICK u, v : u = n + 1 /\ v = k + 1
    OBVIOUS
  <2>1. /\ u \in 1..(Len(rc) + 1) /\ v \in (u - 1)..Len(rc)
        /\ v - u + 1 = k + 1 - n /\ \A j \in 1..(k + 1 - n) : u + j - 1 = n + j
    BY ONLY <1>2, <2>2
  <2>3. /\ SubSeq(rc, u, v) \in Seq(PageIDs) /\ Len(SubSeq(rc, u, v)) = v - u + 1
        /\ \A j \in 1..(v - u + 1) : SubSeq(rc, u, v)[j] = rc[u + j - 1]
    <3>1. rc \in Seq(PageIDs) /\ u \in 1..(Len(rc) + 1) /\ v \in (u - 1)..Len(rc)
      BY <1>0, <2>1
    <3> QED BY ONLY <3>1, SliceFacts
  <2>4. cb = SubSeq(rc, u, v)
    BY <1>0, <1>1, <2>2
  <2> QED BY ONLY <2>1, <2>3, <2>4
<1>6. PICK s : s = SubSeq(rc, 1, n)
  OBVIOUS
<1>7. s \in Seq(PageIDs) /\ Len(s) = n /\ \A j \in 1..n : s[j] = rc[j]
  <2>1. /\ 1 \in 1..(Len(rc) + 1) /\ n \in (1 - 1)..Len(rc)
        /\ n - 1 + 1 = n /\ \A j \in 1..n : 1 + j - 1 = j
    BY <1>2
  <2>2. /\ SubSeq(rc, 1, n) \in Seq(PageIDs) /\ Len(SubSeq(rc, 1, n)) = n - 1 + 1
        /\ \A j \in 1..(n - 1 + 1) : SubSeq(rc, 1, n)[j] = rc[1 + j - 1]
    BY <1>0, <2>1, SliceFacts
  <2> QED BY <1>6, <2>1, <2>2
<1>8. /\ ca \in Seq(PageIDs) /\ Len(ca) = d + n
      /\ \A j \in 1..(d + n) : ca[j] = IF j <= d THEN lc[j] ELSE s[j - d]
  <2>1. /\ lc \o s \in Seq(PageIDs) /\ Len(lc \o s) = Len(lc) + Len(s)
        /\ \A j \in 1..(Len(lc) + Len(s)) : (lc \o s)[j] = IF j <= Len(lc) THEN lc[j] ELSE s[j - Len(lc)]
    BY <1>0, <1>7, JoinFacts
  <2>2. ca = lc \o s
    BY <1>0, <1>1, <1>6
  <2> QED BY <1>1, <1>7, <2>1, <2>2
<1>9. PICK all : all = lc \o rc
  OBVIOUS
<1>10. /\ Len(all) = d + (k + 1)
       /\ \A j \in 1..(d + (k + 1)) : all[j] = IF j <= d THEN lc[j] ELSE rc[j - d]
  <2>1. /\ Len(lc \o rc) = Len(lc) + Len(rc)
        /\ \A j \in 1..(Len(lc) + Len(rc)) : (lc \o rc)[j] = IF j <= Len(lc) THEN lc[j] ELSE rc[j - Len(lc)]
    BY <1>0, JoinFacts
  <2> QED BY <1>1, <1>2, <1>9, <2>1
<1>11. ASSUME NEW j \in 1..(d + n) PROVE ca[j] = all[j]
  <2>1. j \in 1..(d + (k + 1))
    BY <1>2
  <2>2. CASE j <= d
    BY <1>8, <1>10, <2>1, <2>2
  <2>3. CASE ~(j <= d)
    <3>1. j - d \in 1..n
      BY <1>2, <2>3
    <3> QED BY <1>7, <1>8, <1>10, <2>1, <2>3, <3>1
  <2> QED BY <2>2, <2>3
<1>12. ASSUME NEW j \in 1..(k + 1 - n) PROVE cb[j] = all[d + n + j]
  <2>1. d + n + j \in 1..(d + (k + 1)) /\ ~(d + n + j <= d) /\ d + n + j - d = n + j
    BY <1>2
  <2>2. cb[j] = rc[n + j]
    BY <1>5
  <2>3. PICK l : l = d + n + j
    OBVIOUS
  <2>4. l \in 1..(d + (k + 1)) /\ ~(l <= d) /\ l - d = n + j
    BY <1>2, <2>3
  <2>5. all[l] = rc[l - d]
    BY <1>10, <2>4
  <2> QED BY <2>2, <2>3, <2>4, <2>5
<1>13. Len(ca) = d + n /\ Len(cb) = k + 1 - n /\ Len(ca) + Len(cb) = Len(all)
  BY <1>2, <1>5, <1>8, <1>10
<1> QED BY <1>1, <1>3, <1>4, <1>5, <1>8, <1>9, <1>11, <1>12, <1>13 DEF LoanToLeft

LEMMA SmallMod == ASSUME NEW w \in Nat, NEW x \in 0..(w - 1) PROVE x % w = x
  OBVIOUS

\* Sibling l of c may lend it n pairs; a and b are the two in order.
Lending(i, p, a, b, l, c, n) ==
  /\ Lacking /\ stack # <<>> /\ p = parent /\ i \in 1..Width(p)
  /\ a = Kids(p)[i] /\ b = Kids(p)[i + 1]
  /\ l \in {a, b} /\ c \in {a, b} /\ l # c /\ c = cur /\ n = PairsNeeded

LEMMA Lender ==
  ASSUME BInv, NEW i, NEW p, NEW a, NEW b, NEW l, NEW c, NEW n, Lending(i, p, a, b, l, c, n)
  PROVE  /\ l \in PageIDs /\ c \in PageIDs /\ p \in PageIDs /\ p # l /\ p # c
         /\ IsInternal(l) /\ IsInternal(c) /\ IsInternal(p)
         /\ Width(l) \in Nat /\ Width(c) \in Nat /\ M \in Nat
         /\ Width(l) > M /\ Width(l) <= NUM_KEY_SLOTS
         /\ n = M + 1 - Width(c) /\ n \in 1..Width(l)
         /\ (Width(l) - n) % WORD = Width(l) - n
<1>1. PICK h, up, place : Structure(h, up, place)
  BY DEF BInv
<1>0. /\ Lacking /\ stack # <<>> /\ p = parent /\ i \in 1..Width(p)
      /\ a = Kids(p)[i] /\ b = Kids(p)[i + 1]
      /\ l \in {a, b} /\ c \in {a, b} /\ l # c /\ c = cur /\ n = PairsNeeded
  BY DEF Lending
<1> USE <1>0
<1>2. Control /\ OnWay /\ Pages
  BY DEF BInv, OnWay, Lacking
<1>3. IsInternal(c) /\ report.current_size = Width(c) /\ Width(c) <= M
  BY <1>1 DEF Structure, Occupied
<1>4. /\ a \in PageIDs /\ b \in PageIDs /\ p \in PageIDs /\ c \in PageIDs
      /\ p # a /\ p # b /\ a # b /\ IsInternal(p) /\ p # NoPage
      /\ IsInternal(a) /\ IsInternal(b) /\ up[a] = p /\ up[b] = p
  BY <1>1, <1>2, <1>3, Siblings
<1>5. l \in {a, b} /\ c \in {a, b}
  OBVIOUS
<1>6. /\ Width(l) \in Nat /\ Width(l) <= NUM_KEY_SLOTS /\ Width(c) \in Nat /\ Width(p) \in Nat
  BY <1>2, <1>4, <1>5, Kinds DEF Pages
<1>7. M \in Nat /\ NUM_KEY_SLOTS = 2 * M + 2 /\ NUM_KEY_SLOTS < WORD /\ WORD \in Nat
  BY BTreeAssumption DEF M
<1>8. Width(l) > M
  <2>1. up[l] = p /\ l \in PageIDs /\ IsInternal(l) /\ Width(p) # 0
    BY <1>4, <1>5, <1>6
  <2>2. Wide(l)
    BY <1>1, <1>4, <2>1 DEF Structure, Occupied
  <2> QED BY <2>1, <2>2 DEF Wide
<1>9. n = M + 1 - Width(c)
  BY <1>3 DEF PairsNeeded, M
<1>10. PICK k, v : k = Width(l) /\ v = Width(c)
  OBVIOUS
<1>11. n \in 1..k /\ k - n \in 0..(WORD - 1)
  <2>1. v \in Nat /\ v <= M /\ k \in Nat /\ k > M /\ k <= NUM_KEY_SLOTS /\ n = M + 1 - v
    BY <1>3, <1>6, <1>8, <1>9, <1>10
  <2> QED BY ONLY <1>7, <2>1
<1>12. (k - n) % WORD = k - n
  BY <1>7, <1>11, SmallMod
<1> QED BY <1>3, <1>4, <1>5, <1>6, <1>7, <1>8, <1>9, <1>10, <1>11, <1>12

LEMMA InternalLeftBorrowKeeps == ASSUME BInv, InternalLeftBorrow PROVE BInv'
<1>1. PICK h, up, place : Structure(h, up, place)
  BY DEF BInv
<1>2. /\ pc = "rebalance" /\ stack # <<>> /\ Lacking /\ root' = root /\ pc' = pc
      /\ Ascend(Settled) /\ LeftLends
  BY DEF InternalLeftBorrow, Underflown, Returned, Lacking
<1>3. Control /\ OnWay /\ Pages
  BY <1>2 DEF BInv, OnWay
<1>4. HasLeft /\ CanLend(leftSibling, PairsNeeded)
  BY <1>2 DEF LeftLends
<1>5. /\ childIndex \in 1..Len(Kids(parent)) /\ Width(parent) \in Nat
      /\ Len(Kids(parent)) = Width(parent) + 1 /\ Kids(parent)[childIndex] = cur
  BY <1>1, <1>2, <1>3, Family
<1>6. PICK i, p : i = childIndex - 1 /\ p = parent
  OBVIOUS
<1>7. i \in 1..Width(p) /\ i + 1 = childIndex /\ Width(p) \in Nat
  BY <1>4, <1>5, <1>6 DEF HasLeft
<1>8. PICK a, c, n : a = leftSibling /\ c = cur /\ n = PairsNeeded
  OBVIOUS
<1>9. a = Kids(p)[i] /\ c = Kids(p)[i + 1]
  BY <1>5, <1>6, <1>7, <1>8 DEF leftSibling, parentPage, Kids
<1>10. a # c /\ IsInternal(c)
  <2>1. IsInternal(cur)
    BY <1>1, <1>2 DEF Structure, Occupied
  <2> QED BY <1>1, <1>2, <1>3, <1>6, <1>7, <1>8, <1>9, <2>1, Siblings
<1>11. /\ a \in PageIDs /\ c \in PageIDs /\ p \in PageIDs /\ p # a /\ p # c
       /\ IsInternal(a) /\ IsInternal(c) /\ IsInternal(p)
       /\ Width(a) \in Nat /\ Width(c) \in Nat /\ M \in Nat
       /\ Width(a) > M /\ Width(a) <= NUM_KEY_SLOTS
       /\ n = M + 1 - Width(c) /\ n \in 1..Width(a)
       /\ (Width(a) - n) % WORD = Width(a) - n
  <2>1. Lending(i, p, a, c, a, c, n)
    BY <1>2, <1>6, <1>7, <1>8, <1>9, <1>10 DEF Lending
  <2> QED BY <2>1, Lender
<1>12. Width(a) - n > M
  BY <1>4, <1>8, <1>11 DEF CanLend, M, Width
<1>13. /\ IsSeq(pages[a].keys) /\ Kids(a) \in Seq(PageIDs) /\ Len(Kids(a)) = Width(a) + 1
       /\ IsSeq(pages[c].keys) /\ Kids(c) \in Seq(PageIDs) /\ Len(Kids(c)) = Width(c) + 1
       /\ IsSeq(pages[p].keys) /\ PageShape(p)
       /\ pages = [q \in PageIDs |-> pages[q]]
  BY <1>3, <1>11, Kinds DEF Pages
<1>14. PICK lk, lc, rk, rc, x, y, ks :
         /\ lk = pages[a].keys /\ lc = Kids(a) /\ rk = pages[c].keys /\ rc = Kids(c)
         /\ x = parentPage.keys[childIndex - 1] /\ y = lk[Len(lk) - n + 1]
         /\ ks = [pages[p].keys EXCEPT ![i] = y]
  OBVIOUS
<1>15. PICK ka, ca, kb, cb :
         /\ ka = SubSeq(lk, 1, Len(lk) - n) /\ ca = SubSeq(lc, 1, Len(lk) + 1 - n)
         /\ kb = SubSeq(lk, Len(lk) - n + 2, Len(lk)) \o <<x>> \o rk
         /\ cb = SubSeq(lc, Len(lk) + 2 - n, Len(lk) + 1) \o rc
  OBVIOUS
<1>16. Len(lk) = Width(a) /\ Len(rk) = Width(c)
  BY <1>14 DEF Width
<1>17. LentToRight(lk, lc, n, x, rk, rc, ka, ca, kb, cb)
  <2>1. /\ IsSeq(lk) /\ IsSeq(rk) /\ lc \in Seq(PageIDs) /\ rc \in Seq(PageIDs)
        /\ Len(lc) = Len(lk) + 1 /\ n \in 1..Len(lk)
    BY <1>11, <1>13, <1>14, <1>16
  <2> QED BY ONLY <1>15, <2>1 DEF LentToRight
<1>18. /\ IsSeq(ka) /\ Len(ka) = Len(lk) - n /\ IsSeq(kb) /\ Len(kb) = n + Len(rk)
       /\ ca \in Seq(PageIDs) /\ Len(ca) = Len(lk) + 1 - n
       /\ cb \in Seq(PageIDs) /\ Len(cb) = n + Len(rc)
       /\ Len(ca) + Len(cb) = Len(lc \o rc)
       /\ \A j \in 1..Len(ca) : ca[j] = (lc \o rc)[j]
       /\ \A j \in 1..Len(cb) : cb[j] = (lc \o rc)[Len(ca) + j]
  <2>1. LoanToRight(lk, lc, n, rk, rc, ka, ca, kb, cb)
    BY ONLY <1>17, LentToRightFacts
  <2> QED BY ONLY <2>1 DEF LoanToRight
<1>19. /\ Len(ka) \in Nat /\ Len(ka) > M /\ Len(ka) <= NUM_KEY_SLOTS /\ Len(ca) = Len(ka) + 1
       /\ Len(kb) \in Nat /\ Len(kb) > M /\ Len(kb) <= NUM_KEY_SLOTS /\ Len(cb) = Len(kb) + 1
  <2>1. NUM_KEY_SLOTS = 2 * M + 2 /\ M \in Nat
    BY BTreeAssumption DEF M
  <2>2. Len(rc) = Len(rk) + 1
    BY <1>13, <1>14, <1>16
  <2>3. PICK k, v : k = Width(a) /\ v = Width(c)
    OBVIOUS
  <2>4. /\ Len(ka) = k - n /\ Len(kb) = n + v /\ Len(ca) = k + 1 - n /\ Len(cb) = n + (v + 1)
        /\ k \in Nat /\ v \in Nat /\ k <= NUM_KEY_SLOTS /\ n = M + 1 - v /\ k - n > M /\ n \in Nat
    BY <1>11, <1>12, <1>16, <1>18, <2>2, <2>3
  <2> QED BY ONLY <2>1, <2>4
<1>20. IsSeq(ks) /\ Len(ks) = Width(p)
  <2>1. IsSeq(pages[p].keys) /\ i \in 1..Len(pages[p].keys)
    BY <1>7, <1>13 DEF Width
  <2>2. ks = [pages[p].keys EXCEPT ![i] = y]
    BY <1>14
  <2>3. IsSeq(ks) /\ Len(ks) = Len(pages[p].keys)
    BY ONLY <2>1, <2>2, KeysSet
  <2> QED BY <2>3 DEF Width
<1>21. PICK z : z = SetNewBoundaryKey(childIndex - 1, y)
  OBVIOUS
<1>22. z = Internal(ks, Kids(p))
  <2>1. pages[p] = Internal(pages[p].keys, Kids(p))
    BY <1>11, <1>13, Shapes DEF PageShape, IsLeaf, IsInternal
  <2> QED BY <1>6, <1>14, <1>21, <2>1 DEF SetNewBoundaryKey, parentPage, Internal
<1>23. pages' = [pages EXCEPT ![a] = Internal(ka, ca), ![c] = Internal(kb, cb), ![p] = z]
  BY <1>6, <1>8, <1>14, <1>15, <1>21, Zenon DEF InternalLeftBorrow, Kids
<1>24. /\ pages' = [q \in PageIDs |-> pages'[q]]
       /\ pages'[a] = Internal(ka, ca) /\ pages'[c] = Internal(kb, cb) /\ pages'[p] = z
       /\ \A q \in PageIDs : q \notin {a, c, p} => pages'[q] = pages[q]
  BY <1>10, <1>11, <1>13, <1>23, Update3
<1>25. Shift(a, c, p, ka, ca, kb, cb, ks)
  <2>1. /\ Len(ca) + Len(cb) = Len(Kids(a) \o Kids(c))
        /\ \A j \in 1..Len(ca) : ca[j] = (Kids(a) \o Kids(c))[j]
        /\ \A j \in 1..Len(cb) : cb[j] = (Kids(a) \o Kids(c))[Len(ca) + j]
    BY <1>14, <1>18
  <2>2. IsSeq(ka) /\ IsSeq(kb) /\ ca \in Seq(PageIDs) /\ cb \in Seq(PageIDs)
    BY <1>18
  <2> QED BY <1>19, <1>20, <1>22, <1>24, <2>1, <2>2 DEF Shift
<1> QED BY <1>2, <1>6, <1>7, <1>8, <1>9, <1>25, ShiftKeeps

LEMMA InternalRightBorrowKeeps == ASSUME BInv, InternalRightBorrow PROVE BInv'
<1>1. PICK h, up, place : Structure(h, up, place)
  BY DEF BInv
<1>2. /\ pc = "rebalance" /\ stack # <<>> /\ Lacking /\ root' = root /\ pc' = pc
      /\ Ascend(Settled) /\ RightLends
  BY DEF InternalRightBorrow, Underflown, Returned, Lacking
<1>3. Control /\ OnWay /\ Pages
  BY <1>2 DEF BInv, OnWay
<1>4. HasRight /\ CanLend(rightSibling, PairsNeeded)
  BY <1>2 DEF RightLends
<1>5. /\ childIndex \in 1..Len(Kids(parent)) /\ Width(parent) \in Nat
      /\ Len(Kids(parent)) = Width(parent) + 1 /\ Kids(parent)[childIndex] = cur
  BY <1>1, <1>2, <1>3, Family
<1>6. PICK i, p : i = childIndex /\ p = parent
  OBVIOUS
<1>7. i \in 1..Width(p) /\ Width(p) \in Nat
  <2>1. i < Len(Kids(p))
    BY <1>4, <1>6 DEF HasRight, parentPage, Kids
  <2> QED BY <1>5, <1>6, <2>1
<1>8. PICK c, b, n : c = cur /\ b = rightSibling /\ n = PairsNeeded
  OBVIOUS
<1>9. c = Kids(p)[i] /\ b = Kids(p)[i + 1]
  BY <1>5, <1>6, <1>7, <1>8 DEF rightSibling, parentPage, Kids
<1>10. c # b /\ IsInternal(c)
  <2>1. IsInternal(cur)
    BY <1>1, <1>2 DEF Structure, Occupied
  <2> QED BY <1>1, <1>2, <1>3, <1>6, <1>7, <1>8, <1>9, <2>1, Siblings
<1>11. /\ b \in PageIDs /\ c \in PageIDs /\ p \in PageIDs /\ p # b /\ p # c
       /\ IsInternal(b) /\ IsInternal(c) /\ IsInternal(p)
       /\ Width(b) \in Nat /\ Width(c) \in Nat /\ M \in Nat
       /\ Width(b) > M /\ Width(b) <= NUM_KEY_SLOTS
       /\ n = M + 1 - Width(c) /\ n \in 1..Width(b)
       /\ (Width(b) - n) % WORD = Width(b) - n
  <2>1. Lending(i, p, c, b, b, c, n)
    BY <1>2, <1>6, <1>7, <1>8, <1>9, <1>10 DEF Lending
  <2> QED BY <2>1, Lender
<1>12. Width(b) - n > M
  BY <1>4, <1>8, <1>11 DEF CanLend, M, Width
<1>13. /\ IsSeq(pages[b].keys) /\ Kids(b) \in Seq(PageIDs) /\ Len(Kids(b)) = Width(b) + 1
       /\ IsSeq(pages[c].keys) /\ Kids(c) \in Seq(PageIDs) /\ Len(Kids(c)) = Width(c) + 1
       /\ IsSeq(pages[p].keys) /\ PageShape(p)
       /\ pages = [q \in PageIDs |-> pages[q]]
  BY <1>3, <1>11, Kinds DEF Pages
<1>14. PICK lk, lc, rk, rc, x, y, ks :
         /\ lk = pages[c].keys /\ lc = Kids(c) /\ rk = pages[b].keys /\ rc = Kids(b)
         /\ x = parentPage.keys[childIndex] /\ y = rk[n]
         /\ ks = [pages[p].keys EXCEPT ![i] = y]
  OBVIOUS
<1>15. PICK ka, ca, kb, cb :
         /\ ka = lk \o <<x>> \o SubSeq(rk, 1, n - 1) /\ ca = lc \o SubSeq(rc, 1, n)
         /\ kb = SubSeq(rk, n + 1, Len(rk)) /\ cb = SubSeq(rc, n + 1, Len(rk) + 1)
  OBVIOUS
<1>16. Len(lk) = Width(c) /\ Len(rk) = Width(b)
  BY <1>14 DEF Width
<1>17. LentToLeft(lk, lc, n, x, rk, rc, ka, ca, kb, cb)
  <2>1. /\ IsSeq(lk) /\ IsSeq(rk) /\ lc \in Seq(PageIDs) /\ rc \in Seq(PageIDs)
        /\ Len(rc) = Len(rk) + 1 /\ n \in 1..Len(rk)
    BY <1>11, <1>13, <1>14, <1>16
  <2> QED BY ONLY <1>15, <2>1 DEF LentToLeft
<1>18. /\ IsSeq(ka) /\ Len(ka) = Len(lk) + n /\ IsSeq(kb) /\ Len(kb) = Len(rk) - n
       /\ ca \in Seq(PageIDs) /\ Len(ca) = Len(lc) + n
       /\ cb \in Seq(PageIDs) /\ Len(cb) = Len(rk) + 1 - n
       /\ Len(ca) + Len(cb) = Len(lc \o rc)
       /\ \A j \in 1..Len(ca) : ca[j] = (lc \o rc)[j]
       /\ \A j \in 1..Len(cb) : cb[j] = (lc \o rc)[Len(ca) + j]
  <2>1. LoanToLeft(lk, lc, n, rk, rc, ka, ca, kb, cb)
    BY ONLY <1>17, LentToLeftFacts
  <2> QED BY ONLY <2>1 DEF LoanToLeft
<1>19. /\ Len(ka) \in Nat /\ Len(ka) > M /\ Len(ka) <= NUM_KEY_SLOTS /\ Len(ca) = Len(ka) + 1
       /\ Len(kb) \in Nat /\ Len(kb) > M /\ Len(kb) <= NUM_KEY_SLOTS /\ Len(cb) = Len(kb) + 1
  <2>1. NUM_KEY_SLOTS = 2 * M + 2 /\ M \in Nat
    BY BTreeAssumption DEF M
  <2>2. Len(lc) = Len(lk) + 1
    BY <1>13, <1>14, <1>16
  <2>3. PICK k, v : k = Width(b) /\ v = Width(c)
    OBVIOUS
  <2>4. /\ Len(kb) = k - n /\ Len(ka) = v + n /\ Len(cb) = k + 1 - n /\ Len(ca) = (v + 1) + n
        /\ k \in Nat /\ v \in Nat /\ k <= NUM_KEY_SLOTS /\ n = M + 1 - v /\ k - n > M /\ n \in Nat
    BY <1>11, <1>12, <1>16, <1>18, <2>2, <2>3
  <2> QED BY ONLY <2>1, <2>4
<1>20. IsSeq(ks) /\ Len(ks) = Width(p)
  <2>1. IsSeq(pages[p].keys) /\ i \in 1..Len(pages[p].keys)
    BY <1>7, <1>13 DEF Width
  <2>2. ks = [pages[p].keys EXCEPT ![i] = y]
    BY <1>14
  <2>3. IsSeq(ks) /\ Len(ks) = Len(pages[p].keys)
    BY ONLY <2>1, <2>2, KeysSet
  <2> QED BY <2>3 DEF Width
<1>21. PICK z : z = SetNewBoundaryKey(childIndex, y)
  OBVIOUS
<1>22. z = Internal(ks, Kids(p))
  <2>1. pages[p] = Internal(pages[p].keys, Kids(p))
    BY <1>11, <1>13, Shapes DEF PageShape, IsLeaf, IsInternal
  <2> QED BY <1>6, <1>14, <1>21, <2>1 DEF SetNewBoundaryKey, parentPage, Internal
<1>23. pages' = [pages EXCEPT ![c] = Internal(ka, ca), ![b] = Internal(kb, cb), ![p] = z]
  BY <1>6, <1>8, <1>14, <1>15, <1>21 DEF InternalRightBorrow, Kids
<1>24. /\ pages' = [q \in PageIDs |-> pages'[q]]
       /\ pages'[c] = Internal(ka, ca) /\ pages'[b] = Internal(kb, cb) /\ pages'[p] = z
       /\ \A q \in PageIDs : q \notin {c, b, p} => pages'[q] = pages[q]
  BY <1>10, <1>11, <1>13, <1>23, Update3
<1>25. Shift(c, b, p, ka, ca, kb, cb, ks)
  <2>1. /\ Len(ca) + Len(cb) = Len(Kids(c) \o Kids(b))
        /\ \A j \in 1..Len(ca) : ca[j] = (Kids(c) \o Kids(b))[j]
        /\ \A j \in 1..Len(cb) : cb[j] = (Kids(c) \o Kids(b))[Len(ca) + j]
    BY <1>14, <1>18
  <2>2. IsSeq(ka) /\ IsSeq(kb) /\ ca \in Seq(PageIDs) /\ cb \in Seq(PageIDs)
    BY <1>18
  <2> QED BY <1>19, <1>20, <1>22, <1>24, <2>1, <2>2 DEF Shift
<1> QED BY <1>2, <1>6, <1>7, <1>8, <1>9, <1>25, ShiftKeeps

-----------------------------------------------------------------------------
\* Merges.

\* The children of a and b, one behind the other; leaves have none.
Gathered(h, up, place, a, b, all, pos) ==
  /\ all \in Seq(PageIDs) /\ pos \in [PageIDs -> Nat]
  /\ \A j \in 1..Len(all) : /\ all[j] \in PageIDs /\ Used(all[j]) /\ h[a] = h[all[j]] + 1
                            /\ up[all[j]] \in {a, b} /\ pos[all[j]] = j
  /\ \A q \in PageIDs : up[q] \in {a, b} => pos[q] \in 1..Len(all) /\ all[pos[q]] = q

\* All they have goes to a, and page p above them gives up b.
Merging(a, b, p, i, all) ==
  /\ pages' = [q \in PageIDs |-> pages'[q]]
  /\ PageShape(a)' /\ pages'[a].type = pages[a].type
  /\ IsInternal(a) => Kids(a)' = all /\ Wide(a)'
  /\ pages'[b] = Free
  /\ PageShape(p)' /\ IsInternal(p)'
  /\ Width(p)' = Width(p) - 1 /\ Kids(p)' = RemoveAt(Kids(p), i + 1)
  /\ \A q \in PageIDs : q \notin {a, b, p} => AlikeAt(q) /\ PageShape(q)'

\* The children that p is left with.
LEMMA Remaining ==
  ASSUME NEW h, NEW up, NEW place, Pages, Witnesses(h, up, place), Tree(h, up, place),
         NEW p \in PageIDs, IsInternal(p), NEW i \in 1..Width(p), NEW left, left = RemoveAt(Kids(p), i + 1)
  PROVE  /\ Len(left) = Width(p) /\ Width(p) \in Nat
         /\ \A j \in 1..Len(left) :
              LET q == left[j] IN
              /\ q \in PageIDs /\ Used(q) /\ h[p] = h[q] + 1 /\ up[q] = p
              /\ place[q] # i + 1 /\ j = IF place[q] > i + 1 THEN place[q] - 1 ELSE place[q]
         /\ \A q \in PageIDs : up[q] = p /\ place[q] # i + 1 =>
              LET j == IF place[q] > i + 1 THEN place[q] - 1 ELSE place[q]
              IN  j \in 1..Len(left) /\ left[j] = q
<1>1. PICK s, w : s = Kids(p) /\ w = Width(p)
  OBVIOUS
<1>2. s \in Seq(PageIDs) /\ Len(s) = w + 1 /\ w \in Nat /\ i \in 1..w /\ i + 1 \in 1..Len(s)
  <2>1. PageShape(p)
    BY DEF Pages
  <2>2. Width(p) \in Nat /\ Kids(p) \in Seq(PageIDs) /\ Len(Kids(p)) = Width(p) + 1
    BY <2>1, Kinds
  <2> QED BY <1>1, <2>2
<1>3. \A j \in 1..(w + 1) : /\ s[j] \in PageIDs /\ Used(s[j]) /\ h[p] = h[s[j]] + 1
                            /\ up[s[j]] = p /\ place[s[j]] = j
  <2>1. \A j \in 1..(w + 1) : s[j] \in PageIDs
    BY <1>2, ElementOfSeq
  <2>2. Holds(p, h, up, place)
    BY DEF Tree
  <2>3. \A j \in 1..Len(s) : LET c == s[j] IN Used(c) /\ h[p] = h[c] + 1 /\ up[c] = p /\ place[c] = j
    BY <1>1, <2>2 DEF Holds
  <2> QED BY <1>2, <2>1, <2>3
<1>4. \A q \in PageIDs : up[q] = p => place[q] \in 1..(w + 1) /\ s[place[q]] = q
  <2>1. p # NoPage
    BY BTreeAssumption
  <2> QED BY <1>1, <1>2, <2>1 DEF Tree, Hangs
<1>5. Len(left) = w /\ \A j \in 1..w : left[j] = IF j < i + 1 THEN s[j] ELSE s[j + 1]
  <2>1. PICK u : u = i + 1
    OBVIOUS
  <2>2. /\ Len(RemoveAt(s, u)) = Len(s) - 1
        /\ \A j \in 1..(Len(s) - 1) : RemoveAt(s, u)[j] = IF j < u THEN s[j] ELSE s[j + 1]
    <3>1. s \in Seq(PageIDs) /\ u \in 1..Len(s)
      BY <1>2, <2>1
    <3> QED BY ONLY <3>1, RemoveFacts
  <2>3. left = RemoveAt(s, u)
    BY <1>1, <2>1
  <2>4. Len(s) - 1 = w
    BY <1>2
  <2> QED BY <2>1, <2>2, <2>3, <2>4
<1>6. ASSUME NEW j \in 1..w, NEW q, q = left[j]
      PROVE  /\ q \in PageIDs /\ Used(q) /\ h[p] = h[q] + 1 /\ up[q] = p
             /\ place[q] # i + 1 /\ j = IF place[q] > i + 1 THEN place[q] - 1 ELSE place[q]
  <2>1. CASE j < i + 1
    <3>1. q = s[j] /\ j \in 1..(w + 1)
      BY <1>2, <1>5, <1>6, <2>1
    <3>2. j # i + 1 /\ ~(j > i + 1)
      BY <1>2, <2>1
    <3> QED BY <1>3, <3>1, <3>2
  <2>2. CASE ~(j < i + 1)
    <3>1. q = s[j + 1] /\ j + 1 \in 1..(w + 1)
      BY <1>2, <1>5, <1>6, <2>2
    <3>2. j + 1 # i + 1 /\ j + 1 > i + 1 /\ j + 1 - 1 = j
      BY <1>2, <2>2
    <3>3. place[q] = j + 1
      BY <1>3, <3>1
    <3> QED BY <1>3, <3>1, <3>2, <3>3
  <2> QED BY <2>1, <2>2
<1>7. ASSUME NEW q \in PageIDs, up[q] = p, place[q] # i + 1,
             NEW j, j = IF place[q] > i + 1 THEN place[q] - 1 ELSE place[q]
      PROVE  j \in 1..w /\ left[j] = q
  <2>1. place[q] \in 1..(w + 1) /\ s[place[q]] = q
    BY <1>4, <1>7
  <2>2. CASE place[q] > i + 1
    <3>1. j \in 1..w /\ ~(j < i + 1) /\ j + 1 = place[q]
      BY <1>2, <1>7, <2>1, <2>2
    <3> QED BY <1>5, <2>1, <3>1
  <2>3. CASE ~(place[q] > i + 1)
    <3>1. j \in 1..w /\ j < i + 1 /\ j = place[q]
      BY <1>2, <1>7, <2>1, <2>3
    <3> QED BY <1>5, <2>1, <3>1
  <2> QED BY <2>2, <2>3
<1> QED BY <1>1, <1>2, <1>5, <1>6, <1>7

\* What a merge says of the parent is where the way up goes on.
Merged(h, up, place, p, i, a, b, all, pos) ==
  /\ Structure(h, up, place)
  /\ pc = "rebalance" /\ stack # <<>> /\ root' = root /\ pc' = pc
  /\ cur' = Last(stack) /\ stack' = Front(stack)
  /\ report' = Status("InternalPage", Width(p) - 1 <= M, Width(p) - 1)
  /\ IsLeaf(cur) \/ Lacking
  /\ p = parent /\ i \in 1..Width(p) /\ a = Kids(p)[i] /\ b = Kids(p)[i + 1]
  /\ cur \in {a, b}
  /\ Gathered(h, up, place, a, b, all, pos)
  /\ Merging(a, b, p, i, all)

LEMMA MergeKeeps ==
  ASSUME BInv, NEW h, NEW up, NEW place, NEW p, NEW i, NEW a, NEW b, NEW all, NEW pos,
         Merged(h, up, place, p, i, a, b, all, pos)
  PROVE  BInv'
<1>0. /\ Structure(h, up, place)
      /\ pc = "rebalance" /\ stack # <<>> /\ root' = root /\ pc' = pc
      /\ cur' = Last(stack) /\ stack' = Front(stack)
      /\ report' = Status("InternalPage", Width(p) - 1 <= M, Width(p) - 1)
      /\ IsLeaf(cur) \/ Lacking
      /\ p = parent /\ i \in 1..Width(p) /\ a = Kids(p)[i] /\ b = Kids(p)[i + 1]
      /\ cur \in {a, b}
  BY DEF Merged
<1>1. Gathered(h, up, place, a, b, all, pos) /\ Merging(a, b, p, i, all)
  BY DEF Merged
<1>2. PICK c, r : c = cur /\ r = root
  OBVIOUS
<1>3. /\ report'.type = "InternalPage" /\ report'.underflown = (Width(p) - 1 <= M)
      /\ report'.current_size = Width(p) - 1
  BY <1>0 DEF Status
<1>4. /\ Control /\ OnWay /\ Pages /\ Way(h, up) /\ Witnesses(h, up, place) /\ Tree(h, up, place)
      /\ Front(stack) \in Seq(PageIDs) /\ r \in PageIDs /\ Used(r) /\ up[r] = NoPage
  BY <1>0, <1>2, FrontFacts DEF BInv, OnWay, Structure, Control
<1>5. /\ a \in PageIDs /\ b \in PageIDs /\ p \in PageIDs /\ c \in PageIDs
      /\ p # a /\ p # b /\ a # b /\ up[c] = p
      /\ a # NoPage /\ b # NoPage /\ p # NoPage
      /\ Used(a) /\ Used(b) /\ IsInternal(p)
      /\ up[a] = p /\ up[b] = p /\ place[a] = i /\ place[b] = i + 1 /\ h[a] \in Nat
      /\ h[a] = h[c] /\ h[b] = h[a] /\ h[p] = h[a] + 1
      /\ IsInternal(c) => IsInternal(a) /\ IsInternal(b)
      /\ IsLeaf(c) => IsLeaf(a) /\ IsLeaf(b)
  BY <1>0, <1>2, <1>4, Siblings
<1>6. /\ all \in Seq(PageIDs) /\ pos \in [PageIDs -> Nat]
      /\ \A j \in 1..Len(all) : /\ all[j] \in PageIDs /\ Used(all[j]) /\ h[a] = h[all[j]] + 1
                                /\ up[all[j]] \in {a, b} /\ pos[all[j]] = j
      /\ \A q \in PageIDs : up[q] \in {a, b} => pos[q] \in 1..Len(all) /\ all[pos[q]] = q
  BY <1>1 DEF Gathered
<1>7. /\ pages' = [q \in PageIDs |-> pages'[q]]
      /\ PageShape(a)' /\ pages'[a].type = pages[a].type
      /\ IsInternal(a) => Kids(a)' = all /\ Wide(a)'
      /\ pages'[b] = Free
      /\ PageShape(p)' /\ IsInternal(p)'
      /\ Width(p)' = Width(p) - 1 /\ Kids(p)' = RemoveAt(Kids(p), i + 1)
      /\ \A q \in PageIDs : q \notin {a, b, p} => AlikeAt(q) /\ PageShape(q)'
  BY <1>1 DEF Merging
<1>8. /\ IsInternal(a)' <=> IsInternal(a)
      /\ IsLeaf(a)' <=> IsLeaf(a)
      /\ Used(a)' /\ Wide(a)'
      /\ ~IsInternal(b)' /\ ~IsLeaf(b)' /\ PageShape(b)'
      /\ Used(p)' /\ ~IsLeaf(p)'
  <2>1. (IsInternal(a)' <=> IsInternal(a)) /\ (IsLeaf(a)' <=> IsLeaf(a)) /\ Used(a)'
    BY <1>5, <1>7 DEF Used, IsLeaf, IsInternal
  <2>2. Wide(a)'
    BY <1>7, <2>1 DEF Wide
  <2>3. ~IsInternal(b)' /\ ~IsLeaf(b)' /\ PageShape(b)'
    BY <1>7, FreeShape
  <2>4. Used(p)' /\ ~IsLeaf(p)'
    BY <1>7 DEF Used, IsLeaf, IsInternal
  <2> QED BY <2>1, <2>2, <2>3, <2>4
<1>9. Pages'
  BY <1>7, <1>8 DEF Pages
<1>10. PICK left : left = RemoveAt(Kids(p), i + 1)
  OBVIOUS
<1>11. /\ Len(left) = Width(p) /\ Width(p) \in Nat
       /\ \A j \in 1..Len(left) :
            LET q == left[j] IN
            /\ q \in PageIDs /\ Used(q) /\ h[p] = h[q] + 1 /\ up[q] = p
            /\ place[q] # i + 1 /\ j = IF place[q] > i + 1 THEN place[q] - 1 ELSE place[q]
       /\ \A q \in PageIDs : up[q] = p /\ place[q] # i + 1 =>
            LET j == IF place[q] > i + 1 THEN place[q] - 1 ELSE place[q]
            IN  j \in 1..Len(left) /\ left[j] = q
  BY <1>0, <1>4, <1>5, <1>10, Remaining
<1>12. PICK up2, place2 :
         /\ up2 = [q \in PageIDs |-> IF q = b THEN NoPage ELSE IF up[q] = b THEN a ELSE up[q]]
         /\ place2 = [q \in PageIDs |->
                        IF up[q] \in {a, b} THEN pos[q]
                        ELSE IF up[q] = p /\ place[q] > i + 1 THEN place[q] - 1 ELSE place[q]]
  OBVIOUS
<1>13. Witnesses(h, up2, place2) /\ Witnesses(h, up2, place2)'
  <2>1. up2 \in [PageIDs -> PageIDs \cup {NoPage}]
    BY <1>4, <1>5, <1>12 DEF Witnesses
  <2>2. place2 \in [PageIDs -> Nat]
    <3>1. \A q \in PageIDs : pos[q] \in Nat /\ place[q] \in Nat
      BY <1>4, <1>6 DEF Witnesses
    <3>2. \A q \in PageIDs : place[q] > i + 1 => place[q] - 1 \in Nat
      BY <1>0, <1>11, <3>1
    <3> QED BY <1>12, <3>1, <3>2
  <2> QED BY <1>4, <2>1, <2>2 DEF Witnesses
<1>14. \A q \in PageIDs : up[q] # NoPage => /\ up[q] \in PageIDs /\ IsInternal(up[q])
                                            /\ Used(q) /\ h[up[q]] = h[q] + 1
  BY <1>4, Heights
<1>15. \A q \in PageIDs : Used(q) /\ q # b => Used(q)' /\ pages'[q].type = pages[q].type
  <2> SUFFICES ASSUME NEW q \in PageIDs, Used(q), q # b
               PROVE  Used(q)' /\ pages'[q].type = pages[q].type
    OBVIOUS
  <2>1. CASE q = a
    BY <1>7, <1>8, <2>1
  <2>2. CASE q = p
    BY <1>5, <1>7, <1>8, <2>2 DEF IsInternal
  <2>3. CASE q \notin {a, b, p}
    BY <1>7, <2>3, AlikeFacts DEF AlikeAt
  <2> QED BY <2>1, <2>2, <2>3
<1>16. Holds(a, h, up2, place2)'
  <2> SUFFICES ASSUME IsInternal(a), NEW j \in 1..Len(all), NEW q, q = all[j]
               PROVE  Used(q)' /\ h[a] = h[q] + 1 /\ up2[q] = a /\ place2[q] = j
    BY <1>7, <1>8 DEF Holds, Used, IsLeaf, IsInternal
  <2>1. q \in PageIDs /\ Used(q) /\ h[a] = h[q] + 1 /\ up[q] \in {a, b} /\ pos[q] = j
    BY <1>6
  <2>2. q # b
    BY <1>5, <2>1
  <2> QED BY <1>12, <1>15, <2>1, <2>2
<1>17. Holds(p, h, up2, place2)'
  <2> SUFFICES ASSUME NEW j \in 1..Len(left), NEW q, q = left[j]
               PROVE  Used(q)' /\ h[p] = h[q] + 1 /\ up2[q] = p /\ place2[q] = j
    BY <1>7, <1>10 DEF Holds, Used, IsLeaf, IsInternal
  <2>1. /\ q \in PageIDs /\ Used(q) /\ h[p] = h[q] + 1 /\ up[q] = p
        /\ place[q] # i + 1 /\ j = IF place[q] > i + 1 THEN place[q] - 1 ELSE place[q]
    BY <1>11
  <2>2. q # b
    BY <1>5, <2>1
  <2> QED BY <1>5, <1>12, <1>15, <2>1, <2>2
<1>18. \A q \in PageIDs : up2[q] \in {a, b, p} => Hangs(q, up2, place2)'
  <2> SUFFICES ASSUME NEW q \in PageIDs, up2[q] \in {a, b, p} PROVE Hangs(q, up2, place2)'
    OBVIOUS
  <2>1. q # b
    BY <1>5, <1>12
  <2>2. CASE up[q] \in {a, b}
    <3>1. up2[q] = a /\ place2[q] = pos[q]
      BY <1>12, <2>1, <2>2
    <3>2. pos[q] \in 1..Len(all) /\ all[pos[q]] = q
      BY <1>6, <2>2
    <3>3. IsInternal(a)
      <4>1. up[q] # NoPage /\ IsInternal(up[q])
        BY <1>5, <1>14, <2>2
      <4>2. h[up[q]] > 0
        BY <1>4, <1>5, <2>2, <4>1, Heights
      <4>3. h[a] > 0
        BY <1>5, <2>2, <4>2
      <4> QED BY <1>4, <1>5, <4>3, Heights DEF Used
    <3> QED BY <1>7, <1>8, <3>1, <3>2, <3>3 DEF Hangs
  <2>3. CASE up[q] \notin {a, b}
    <3>1. up2[q] = p /\ up[q] = p
      BY <1>12, <2>1, <2>3
    <3>2. place[q] # i + 1
      <4>1. Hangs(q, up, place)
        BY <1>4, <1>5, <3>1 DEF Tree
      <4> QED BY <1>0, <2>1, <3>1, <4>1 DEF Hangs
    <3>3. place2[q] = IF place[q] > i + 1 THEN place[q] - 1 ELSE place[q]
      BY <1>12, <2>3, <3>1
    <3>4. place2[q] \in 1..Len(left) /\ left[place2[q]] = q
      BY <1>11, <3>1, <3>2, <3>3
    <3> QED BY <1>7, <1>10, <3>1, <3>4 DEF Hangs
  <2> QED BY <2>2, <2>3
<1>19. Regrouping(h, up, place, h, up2, place2, {a, b, p})
  <2>1. \A q \in PageIDs : up[q] # NoPage /\ up[q] \notin {a, b, p} =>
             (pages'[q].type = "leaf" \/ pages'[q].type = "internal")
               /\ up2[q] = up[q] /\ place2[q] = place[q]
    <3> SUFFICES ASSUME NEW q \in PageIDs, up[q] # NoPage, up[q] \notin {a, b, p}
                 PROVE  (pages'[q].type = "leaf" \/ pages'[q].type = "internal")
                          /\ up2[q] = up[q] /\ place2[q] = place[q]
      OBVIOUS
    <3>1. q # b /\ Used(q)
      BY <1>5, <1>14
    <3>2. pages'[q].type = "leaf" \/ pages'[q].type = "internal"
      BY <1>15, <3>1 DEF Used, IsLeaf, IsInternal
    <3> QED BY <1>12, <3>1, <3>2
  <2>2. \A q \in PageIDs : up2[q] # NoPage => up2[q] = up[q] \/ up2[q] \in {a, b, p}
    BY <1>12
  <2>3. \A q \in {a, b, p} : (IsLeaf(q)' => h[q] = 0) /\ Holds(q, h, up2, place2)'
    <3>1. IsLeaf(a)' => h[a] = 0
      BY <1>4, <1>5, <1>8, Heights
    <3>2. Holds(b, h, up2, place2)'
      BY <1>8 DEF Holds
    <3> QED BY <1>8, <1>16, <1>17, <3>1, <3>2
  <2>4. \A q \in PageIDs : q \notin {a, b, p} => AlikeAt(q)
    BY <1>7
  <2> QED BY <1>18, <2>1, <2>2, <2>3, <2>4 DEF Regrouping
<1>20. Tree(h, up2, place2)'
  BY <1>4, <1>5, <1>13, <1>19, Regroup
<1>21. Way(h, up2)'
  <2>0. PICK h2 : h2 = h
    OBVIOUS
  <2>1. \A q \in PageIDs : IsInternal(q) /\ h[q] > h[cur] =>
           pages'[q].type = "internal" /\ h2[q] = h[q] /\ up2[q] = up[q]
    <3> SUFFICES ASSUME NEW q \in PageIDs, IsInternal(q), h[q] > h[c]
                 PROVE  pages'[q].type = "internal" /\ up2[q] = up[q]
      BY <1>2, <2>0
    <3>0. h[q] \in Nat /\ h[b] \in Nat
      BY <1>4, <1>5 DEF Witnesses
    <3>1. q # b /\ Used(q)
      BY <1>5, <3>0 DEF Used
    <3>2. pages'[q].type = "internal"
      BY <1>15, <3>1 DEF IsInternal
    <3>3. up[q] # b
      BY <1>5, <1>14, <3>0
    <3> QED BY <1>12, <3>1, <3>2, <3>3
  <2>2. /\ cur' = Last(stack) /\ stack' = Front(stack) /\ root' = root /\ stack # <<>>
        /\ Control /\ OnWay /\ Way(h, up) /\ Witnesses(h, up, place)
    BY <1>0, <1>4
  <2>3. Way(h2, up2)'
    BY ONLY <2>1, <2>2, AscendWay
  <2> QED BY <2>0, <2>3
<1>22. Control'
  <2>1. r # b
    BY <1>4, <1>5
  <2>2. Used(r)' /\ r = root' /\ r \in PageIDs
    BY <1>0, <1>2, <1>4, <1>15, <2>1
  <2> QED BY <1>0, <1>3, <1>4, <2>2 DEF Control, Used, IsLeaf, IsInternal
<1>23. \A q \in PageIDs : up[q] \in {a, b} => Wide(q)
  <2> SUFFICES ASSUME NEW q \in PageIDs, up[q] \in {a, b} PROVE Wide(q)
    OBVIOUS
  <2>1. q # c
    BY <1>5
  <2>2. CASE up[q] = c
    <3>1. IsInternal(c)
      BY <1>5, <1>14, <2>2
    <3>2. Lacking
      BY <1>0, <1>2, <3>1 DEF IsLeaf, IsInternal
    <3> QED BY <1>0, <1>2, <2>2, <3>2 DEF Structure, Occupied
  <2>3. CASE up[q] # c
    <3>1. PICK o : o = up[q]
      OBVIOUS
    <3>2. o \in {a, b} /\ o # c /\ up[o] = p /\ o \in PageIDs /\ IsInternal(o)
      BY <1>5, <1>14, <2>3, <3>1
    <3>3. Width(p) # 0
      BY <1>0, <1>11
    <3>4. Wide(o)
      BY <1>0, <1>2, <1>5, <3>2, <3>3 DEF Structure, Occupied
    <3>5. Width(o) > M /\ M \in Nat
      BY <3>2, <3>4, BTreeAssumption DEF Wide, M
    <3>6. up[q] # NoPage /\ Width(o) # 0
      BY <1>5, <3>1, <3>2, <3>5
    <3> QED BY <1>0, <1>2, <2>1, <3>1, <3>6 DEF Structure, Occupied
  <2> QED BY <2>2, <2>3
<1>24. \A q \in PageIDs : q \notin {a, b, p} => Wide(q)' = Wide(q)
  <2> SUFFICES ASSUME NEW q \in PageIDs, q \notin {a, b, p} PROVE Wide(q)' <=> Wide(q)
    BY DEF Wide
  <2>1. AlikeAt(q)
    BY <1>7
  <2> QED BY <2>1, AlikeFacts
\* The children of p, and those of a, have enough keys.
<1>25. \A q \in PageIDs : up2[q] \in {a, p} => Wide(q)'
  <2> SUFFICES ASSUME NEW q \in PageIDs, up2[q] \in {a, p} PROVE Wide(q)'
    OBVIOUS
  <2>1. q # b
    BY <1>5, <1>12
  <2>2. up[q] \in {a, b, p}
    BY <1>12, <2>1
  <2>3. q # p
    <3>1. h[p] \in Nat /\ h[a] \in Nat /\ h[b] \in Nat
      BY <1>4, <1>5 DEF Witnesses
    <3>2. h[up[q]] = h[q] + 1
      BY <1>5, <1>14, <2>2
    <3> QED BY <1>5, <2>2, <3>1, <3>2
  <2>4. CASE q = a
    BY <1>8, <2>4
  <2>5. CASE q # a
    <3>1. Wide(q)' <=> Wide(q)
      BY <1>24, <2>1, <2>3, <2>5
    <3>2. CASE up[q] \in {a, b}
      BY <1>23, <3>1, <3>2
    <3>3. CASE up[q] \notin {a, b}
      <4>1. up[q] = p /\ Width(p) # 0 /\ q # c
        BY <1>0, <1>2, <1>11, <2>1, <2>2, <2>5, <3>3
      <4> QED BY <1>0, <1>2, <1>5, <3>1, <4>1 DEF Structure, Occupied
    <3> QED BY <3>2, <3>3
  <2> QED BY <2>4, <2>5
<1>26. M \in Nat
  BY BTreeAssumption DEF M
<1>27. cur' = p /\ pc' = "rebalance"
  BY <1>0 DEF parent
<1>28. Lacking' <=> Width(p) - 1 <= M
  BY <1>3, <1>27 DEF Lacking
<1>29. Occupied(up2)'
  <2>1. \A q \in PageIDs : up2[q] # NoPage =>
           Wide(q)' \/ Width(up2[q])' = 0 \/ (Lacking' /\ q = cur')
    <3> SUFFICES ASSUME NEW q \in PageIDs, up2[q] # NoPage, NEW o, o = up2[q]
                 PROVE  Wide(q)' \/ Width(o)' = 0 \/ (Lacking' /\ q = cur')
      OBVIOUS
    <3>1. CASE o \in {a, p}
      BY <1>25, <3>1
    <3>2. CASE o \notin {a, p}
      <4>1. q # b /\ o = up[q] /\ o \notin {a, b, p}
        BY <1>12, <3>2
      <4>2. CASE q = p
        <5>1. Wide(p)' \/ Width(p)' <= M
          BY <1>7, <1>11, <1>26 DEF Wide
        <5> QED BY <1>7, <1>27, <1>28, <4>2, <5>1
      <4>3. CASE q # p
        <5>1. q # a /\ q # c
          BY <1>5, <4>1
        <5>2. Wide(q) \/ Width(o) = 0
          BY <1>0, <1>2, <4>1, <5>1 DEF Structure, Occupied
        <5>3. o \in PageIDs /\ IsInternal(o)
          BY <1>14, <4>1
        <5>4. Width(o)' = Width(o)
          BY <1>7, <4>1, <5>3, AlikeFacts
        <5>5. Wide(q)' <=> Wide(q)
          BY <1>24, <4>1, <4>3, <5>1
        <5> QED BY <5>2, <5>4, <5>5
      <4> QED BY <4>2, <4>3
    <3> QED BY <3>1, <3>2
  <2>2. Lacking' => /\ IsInternal(p)' /\ report'.current_size = Width(p)' /\ Width(p)' <= M
                    /\ \A q \in PageIDs : up2[q] = p => Wide(q)'
    BY <1>3, <1>7, <1>25, <1>28
  <2>3. Lacking' => /\ IsInternal(cur)' /\ report'.current_size = Width(cur)' /\ Width(cur)' <= M
                    /\ \A q \in PageIDs : up2[q] = cur' => Wide(q)'
    BY <1>27, <2>2 DEF IsInternal, Width
  <2>4. ~Splitting'
    BY <1>27 DEF Splitting
  <2> QED BY <2>1, <2>3, <2>4 DEF Occupied
<1>30. Structure(h, up2, place2)'
  <2>1. up2[root'] = NoPage
    BY <1>0, <1>2, <1>4, <1>5, <1>12
  <2>2. Orphan(h, up2)'
    BY <1>27 DEF Orphan, Splitting
  <2> QED BY <1>13, <1>20, <1>21, <1>29, <2>1, <2>2 DEF Structure
<1> QED BY <1>9, <1>22, <1>30 DEF BInv

\* What CheckUnderflow says of a parent that gave up a child, when what it starts from
\* is zero.
LEMMA ParentShrinks ==
  ASSUME Residues = {0}, NEW p, p = parent, PageShape(p), IsInternal(p),
         NEW i \in 1..Width(p), NEW z, z = DeleteKeyAndChildPtr(i),
         \E residue \in Residues : Ascend(CheckUnderflow(z, residue))
  PROVE  /\ cur' = Last(stack) /\ stack' = Front(stack)
         /\ report' = Status("InternalPage", Width(p) - 1 <= M, Width(p) - 1)
         /\ Width(p) \in Nat /\ Width(p) - 1 <= NUM_KEY_SLOTS
         /\ z = Internal(z.keys, RemoveAt(Kids(p), i + 1))
         /\ IsSeq(z.keys) /\ Len(z.keys) = Width(p) - 1
         /\ RemoveAt(Kids(p), i + 1) \in Seq(PageIDs)
         /\ Len(RemoveAt(Kids(p), i + 1)) = Width(p)
<1>1. /\ IsSeq(pages[p].keys) /\ Width(p) \in Nat /\ Width(p) <= NUM_KEY_SLOTS
      /\ Kids(p) \in Seq(PageIDs) /\ Len(Kids(p)) = Width(p) + 1
  BY Kinds
<1>2. z = Internal(RemoveAt(pages[p].keys, i), RemoveAt(Kids(p), i + 1))
  BY DEF DeleteKeyAndChildPtr, parentPage, Kids
<1>3. z.keys = RemoveAt(pages[p].keys, i)
  BY <1>2, Shapes
<1>4. IsSeq(z.keys) /\ Len(z.keys) = Width(p) - 1
  <2>1. IsSeq(pages[p].keys) /\ i \in 1..Len(pages[p].keys)
    BY <1>1 DEF Width
  <2>2. IsSeq(RemoveAt(pages[p].keys, i)) /\ Len(RemoveAt(pages[p].keys, i)) = Len(pages[p].keys) - 1
    BY ONLY <2>1, KeysRemove
  <2> QED BY <1>3, <2>2 DEF Width
<1>5. RemoveAt(Kids(p), i + 1) \in Seq(PageIDs) /\ Len(RemoveAt(Kids(p), i + 1)) = Width(p)
  <2>1. PICK s, u : s = Kids(p) /\ u = i + 1
    OBVIOUS
  <2>2. s \in Seq(PageIDs) /\ u \in 1..Len(s) /\ Len(s) - 1 = Width(p)
    BY <1>1, <2>1
  <2>3. RemoveAt(s, u) \in Seq(PageIDs) /\ Len(RemoveAt(s, u)) = Len(s) - 1
    BY ONLY <2>2, RemoveFacts
  <2> QED BY <2>1, <2>2, <2>3
<1>6. Ascend(CheckUnderflow(z, 0))
  OBVIOUS
<1>7. PICK w : w = Width(p) - 1
  OBVIOUS
<1>8. (0 + Len(z.keys)) % WORD = w
  <2>1. NUM_KEY_SLOTS \in Nat /\ WORD \in Nat /\ NUM_KEY_SLOTS < WORD
    BY BTreeAssumption
  <2>2. w \in 0..(WORD - 1)
    BY <1>1, <1>7, <2>1
  <2>3. w % WORD = w
    BY <2>1, <2>2, SmallMod
  <2>4. 0 + Len(z.keys) = w
    BY <1>1, <1>4, <1>7
  <2> QED BY <2>3, <2>4
<1>9. report' = Status("InternalPage", w <= M, w)
  BY <1>6, <1>8 DEF Ascend, CheckUnderflow, M
<1>10. cur' = Last(stack) /\ stack' = Front(stack)
  BY <1>6 DEF Ascend
<1>11. NUM_KEY_SLOTS \in Nat
  BY BTreeAssumption
<1>12. w <= NUM_KEY_SLOTS
  BY <1>1, <1>7, <1>11
<1> QED BY <1>1, <1>2, <1>3, <1>4, <1>5, <1>7, <1>9, <1>10, <1>12

\* The two that are merged are cur and its sibling.
LEMMA MergePlace ==
  ASSUME NEW h, NEW up, NEW place, Pages, Control, Structure(h, up, place), OnWay, stack # <<>>,
         HasLeft \/ HasRight, NEW i, NEW p, NEW a, NEW b,
         i = MergeAt, p = parent, a = toPage, b = fromPage
  PROVE  /\ i \in 1..Width(p) /\ a = Kids(p)[i] /\ b = Kids(p)[i + 1]
         /\ HasLeft => a = leftSibling /\ b = cur
         /\ ~HasLeft => HasRight /\ a = cur /\ b = rightSibling
<1>1. /\ childIndex \in 1..Len(Kids(p)) /\ Width(p) \in Nat
      /\ Len(Kids(p)) = Width(p) + 1 /\ Kids(p)[childIndex] = cur
  BY Family
<1>2. a = Kids(p)[i] /\ b = Kids(p)[i + 1]
  BY DEF toPage, fromPage, parentPage, Kids
<1>3. CASE HasLeft
  <2>1. i = childIndex - 1
    BY <1>3 DEF MergeAt
  <2>2. childIndex > 1
    BY <1>3 DEF HasLeft
  <2>3. i \in 1..Width(p) /\ i + 1 = childIndex
    BY <1>1, <2>1, <2>2
  <2>4. a = leftSibling
    BY <1>2, <2>1 DEF leftSibling, parentPage, Kids
  <2> QED BY <1>1, <1>2, <1>3, <2>3, <2>4
<1>4. CASE ~HasLeft
  <2>1. i = childIndex
    BY <1>4 DEF MergeAt
  <2>2. HasRight /\ childIndex < Len(Kids(p))
    BY <1>4 DEF HasRight, parentPage, Kids
  <2>3. i \in 1..Width(p)
    BY <1>1, <2>1, <2>2
  <2>4. b = rightSibling
    BY <1>2, <2>1 DEF rightSibling, parentPage, Kids
  <2> QED BY <1>1, <1>2, <1>4, <2>1, <2>2, <2>3, <2>4
<1> QED BY <1>3, <1>4

\* When neither sibling can lend, there is room for all keys and the one between.
LEMMA MergeFits ==
  ASSUME BInv, InternalMergeDue, NEW i, NEW p, NEW a, NEW b,
         i = MergeAt, p = parent, a = toPage, b = fromPage
  PROVE  /\ i \in 1..Width(p) /\ a = Kids(p)[i] /\ b = Kids(p)[i + 1] /\ cur \in {a, b}
         /\ a \in PageIDs /\ b \in PageIDs /\ p \in PageIDs /\ a # b /\ p # a /\ p # b
         /\ IsInternal(a) /\ IsInternal(b) /\ IsInternal(p)
         /\ Width(a) \in Nat /\ Width(b) \in Nat
         /\ Width(a) + 1 + Width(b) <= NUM_KEY_SLOTS /\ Width(a) + 1 + Width(b) > M
<1>1. PICK h, up, place : Structure(h, up, place)
  BY DEF BInv
<1>2. /\ pc = "rebalance" /\ stack # <<>> /\ Lacking
      /\ HasLeft \/ HasRight
      /\ ~LeftLends /\ ~RightLends
  BY DEF InternalMergeDue, Underflown, Returned, Lacking
<1>3. Control /\ OnWay /\ Pages
  BY <1>2 DEF BInv, OnWay
<1>4. /\ i \in 1..Width(p) /\ a = Kids(p)[i] /\ b = Kids(p)[i + 1]
      /\ HasLeft => a = leftSibling /\ b = cur
      /\ ~HasLeft => HasRight /\ a = cur /\ b = rightSibling
  BY <1>1, <1>2, <1>3, MergePlace
<1>5. PICK l, c, n : /\ l = (IF HasLeft THEN a ELSE b) /\ c = cur /\ n = PairsNeeded
  OBVIOUS
<1>6. ~CanLend(l, n) /\ l \in {a, b} /\ c \in {a, b}
  <2>1. CASE HasLeft
    BY <1>2, <1>4, <1>5, <2>1 DEF LeftLends
  <2>2. CASE ~HasLeft
    BY <1>2, <1>4, <1>5, <2>2 DEF RightLends
  <2> QED BY <2>1, <2>2
<1>7. IsInternal(cur)
  BY <1>1, <1>2 DEF Structure, Occupied
<1>8. a # b /\ p # a /\ p # b /\ a \in PageIDs /\ b \in PageIDs
  BY <1>1, <1>2, <1>3, <1>4, <1>7, Siblings
<1>9. l # c /\ {l, c} = {a, b}
  BY <1>4, <1>5, <1>8
<1>10. /\ l \in PageIDs /\ c \in PageIDs /\ p \in PageIDs
       /\ IsInternal(l) /\ IsInternal(c) /\ IsInternal(p)
       /\ Width(l) \in Nat /\ Width(c) \in Nat /\ M \in Nat
       /\ Width(l) > M
       /\ n = M + 1 - Width(c) /\ n \in 1..Width(l)
       /\ (Width(l) - n) % WORD = Width(l) - n
  <2>1. Lending(i, p, a, b, l, c, n)
    BY <1>2, <1>4, <1>5, <1>6, <1>9 DEF Lending
  <2> QED BY <2>1, Lender
<1>11. ~(Width(l) - n > M)
  BY <1>6, <1>10 DEF CanLend, M, Width
<1>12. PICK k, v : k = Width(l) /\ v = Width(c)
  OBVIOUS
<1>13. k + 1 + v <= NUM_KEY_SLOTS /\ k + 1 + v > M
  <2>1. /\ k \in Nat /\ v \in Nat /\ M \in Nat /\ k > M
        /\ n = M + 1 - v /\ ~(k - n > M)
    BY <1>10, <1>11, <1>12
  <2>2. NUM_KEY_SLOTS = 2 * M + 2
    BY BTreeAssumption DEF M
  <2> QED BY ONLY <2>1, <2>2
<1>14. /\ IsInternal(a) /\ IsInternal(b) /\ Width(a) \in Nat /\ Width(b) \in Nat
       /\ Width(a) + 1 + Width(b) = k + 1 + v
  <2>1. CASE l = a
    <3>1. c = b
      BY <1>9, <2>1
    <3> QED BY <1>10, <1>12, <2>1, <3>1
  <2>2. CASE l = b
    <3>1. c = a
      BY <1>9, <2>2
    <3> QED BY <1>10, <1>12, <2>2, <3>1
  <2> QED BY <1>9, <2>1, <2>2
<1> QED BY <1>4, <1>5, <1>6, <1>8, <1>10, <1>13, <1>14

LEMMA InternalMergeKeeps == ASSUME BInv, Residues = {0}, InternalMerge PROVE BInv'
<1>1. PICK h, up, place : Structure(h, up, place)
  BY DEF BInv
<1>2. InternalMergeDue
  BY DEF InternalMerge
<1>3. /\ pc = "rebalance" /\ stack # <<>> /\ Lacking /\ root' = root /\ pc' = pc
  BY DEF InternalMerge, InternalMergeDue, Underflown, Returned, Lacking
<1>4. Control /\ OnWay /\ Pages
  BY <1>3 DEF BInv, OnWay
<1>5. PICK i, p, a, b : i = MergeAt /\ p = parent /\ a = toPage /\ b = fromPage
  OBVIOUS
<1>6. /\ i \in 1..Width(p) /\ a = Kids(p)[i] /\ b = Kids(p)[i + 1] /\ cur \in {a, b}
      /\ a \in PageIDs /\ b \in PageIDs /\ p \in PageIDs /\ a # b /\ p # a /\ p # b
      /\ IsInternal(a) /\ IsInternal(b) /\ IsInternal(p)
      /\ Width(a) \in Nat /\ Width(b) \in Nat
      /\ Width(a) + 1 + Width(b) <= NUM_KEY_SLOTS /\ Width(a) + 1 + Width(b) > M
  BY <1>2, <1>5, MergeFits
<1>7. /\ IsSeq(pages[a].keys) /\ IsSeq(pages[b].keys) /\ PageShape(p)
      /\ Len(Kids(a)) = Width(a) + 1 /\ Len(Kids(b)) = Width(b) + 1
      /\ pages = [q \in PageIDs |-> pages[q]]
  BY <1>4, <1>6, Kinds DEF Pages
<1>8. PICK x, z, s, t : /\ x = parentPage.keys[MergeAt] /\ z = DeleteKeyAndChildPtr(i)
                        /\ s = pages[a].keys \o <<x>> /\ t = s \o pages[b].keys
  OBVIOUS
<1>9. /\ cur' = Last(stack) /\ stack' = Front(stack)
      /\ report' = Status("InternalPage", Width(p) - 1 <= M, Width(p) - 1)
      /\ Width(p) \in Nat /\ Width(p) - 1 <= NUM_KEY_SLOTS
      /\ z = Internal(z.keys, RemoveAt(Kids(p), i + 1))
      /\ IsSeq(z.keys) /\ Len(z.keys) = Width(p) - 1
      /\ RemoveAt(Kids(p), i + 1) \in Seq(PageIDs)
      /\ Len(RemoveAt(Kids(p), i + 1)) = Width(p)
  <2>1. \E residue \in Residues : Ascend(CheckUnderflow(z, residue))
    BY <1>5, <1>8 DEF InternalMerge
  <2> QED BY <1>5, <1>6, <1>7, <1>8, <2>1, ParentShrinks, Zenon
<1>10. IsSeq(t) /\ Len(t) = Width(a) + 1 + Width(b)
  <2>1. IsSeq(<<x>>) /\ Len(<<x>>) = 1
    BY KeysOne
  <2>2. IsSeq(s) /\ Len(s) = Len(pages[a].keys) + Len(<<x>>)
    BY <1>7, <1>8, <2>1, KeysJoin
  <2>3. IsSeq(t) /\ Len(t) = Len(s) + Len(pages[b].keys)
    BY <1>7, <1>8, <2>2, KeysJoin
  <2> QED BY <2>1, <2>2, <2>3 DEF Width
<1>11. h[a] = h[b]
  BY <1>1, <1>3, <1>4, <1>5, <1>6, Siblings
<1>12. PICK all, pos : InRow(h, up, place, a, b, all, pos)
  BY <1>1, <1>4, <1>6, <1>11, Row DEF Structure
<1>13. /\ all = Kids(a) \o Kids(b) /\ all \in Seq(PageIDs)
       /\ Len(all) = Len(Kids(a)) + Len(Kids(b))
       /\ Gathered(h, up, place, a, b, all, pos)
  BY <1>12 DEF InRow, Gathered
<1>14. /\ pages' = [q \in PageIDs |-> pages'[q]]
       /\ pages'[a] = Internal(t, all) /\ pages'[b] = Free /\ pages'[p] = z
       /\ \A q \in PageIDs : q \notin {a, b, p} => pages'[q] = pages[q]
  <2>0. PICK m, f : m = Internal(t, all) /\ f = Free
    OBVIOUS
  <2>1. pages' = [pages EXCEPT ![a] = m, ![b] = f, ![p] = z]
    BY <1>5, <1>8, <1>13, <2>0 DEF InternalMerge, Kids
  <2>2. /\ pages = [q \in PageIDs |-> pages[q]]
        /\ a \in PageIDs /\ b \in PageIDs /\ p \in PageIDs /\ a # b /\ a # p /\ b # p
    BY <1>6, <1>7
  <2>3. /\ pages' = [q \in PageIDs |-> pages'[q]] /\ pages'[a] = m /\ pages'[b] = f /\ pages'[p] = z
        /\ \A q \in PageIDs : q \notin {a, b, p} => pages'[q] = pages[q]
    BY ONLY <2>1, <2>2, Update3
  <2> QED BY <2>0, <2>3
<1>15. PageShape(a)' /\ IsInternal(a)' /\ Kids(a)' = all /\ Width(a)' > M
  <2>1. Len(all) = Len(t) + 1
    BY <1>6, <1>7, <1>10, <1>13
  <2>2. /\ pages'[a] = Internal(t, all) /\ IsSeq(t) /\ Len(t) <= NUM_KEY_SLOTS /\ Len(t) > M
        /\ all \in Seq(PageIDs) /\ Len(all) = Len(t) + 1
    BY <1>6, <1>10, <1>13, <1>14, <2>1
  <2> QED BY <2>2, InternalShape
<1>16. /\ PageShape(p)' /\ IsInternal(p)' /\ Width(p)' = Width(p) - 1
       /\ Kids(p)' = RemoveAt(Kids(p), i + 1)
  <2>1. Len(RemoveAt(Kids(p), i + 1)) = Len(z.keys) + 1
    BY <1>9
  <2> QED BY <1>9, <1>14, <2>1, InternalShape
<1>17. \A q \in PageIDs : q \notin {a, b, p} => AlikeAt(q) /\ PageShape(q)'
  <2> SUFFICES ASSUME NEW q \in PageIDs, q \notin {a, b, p} PROVE AlikeAt(q) /\ PageShape(q)'
    OBVIOUS
  <2>1. pages'[q] = pages[q] /\ PageShape(q)
    BY <1>4, <1>14 DEF Pages
  <2> QED BY <2>1, SameShape DEF AlikeAt, Width, Kids
<1>18. Merging(a, b, p, i, all)
  <2>1. Wide(a)' /\ pages'[a].type = pages[a].type
    BY <1>6, <1>15 DEF Wide, IsInternal
  <2> QED BY <1>14, <1>15, <1>16, <1>17, <2>1 DEF Merging
<1>19. Merged(h, up, place, p, i, a, b, all, pos)
  BY <1>1, <1>3, <1>5, <1>6, <1>9, <1>13, <1>18 DEF Merged
<1> QED BY <1>19, MergeKeeps

\* Only leaves have a page on their left; for other pages nothing is changed.
LEMMA WithLeft ==
  ASSUME NEW p, PageShape(p), NEW l, NEW page, page = [pages[p] EXCEPT !.left_pid = l]
  PROVE  \/ IsLeaf(p) /\ page = Leaf(pages[p].tuples, l, pages[p].right_pid)
         \/ ~IsLeaf(p) /\ page = pages[p]
<1>1. CASE pages[p] = Free
  <2>1. [Free EXCEPT !.left_pid = l] = Free
    BY DEF Free
  <2> QED BY <1>1, <2>1, Shapes DEF IsLeaf
<1>2. CASE IsLeaf(p) /\ pages[p] = Leaf(pages[p].tuples, pages[p].left_pid, pages[p].right_pid)
  BY <1>2 DEF Leaf
<1>3. CASE IsInternal(p) /\ pages[p] = Internal(pages[p].keys, Kids(p))
  <2>1. \A k, c : [Internal(k, c) EXCEPT !.left_pid = l] = Internal(k, c)
    BY DEF Internal
  <2> QED BY <1>3, <2>1 DEF IsLeaf, IsInternal
<1> QED BY <1>1, <1>2, <1>3 DEF PageShape

\* The leaf behind the merged ones.
ToldOf(told, behind, l) ==
  told = IF behind = NoPage THEN pages ELSE [pages EXCEPT ![behind].left_pid = l]
ToldIs(told, l) ==
  /\ told = [q \in PageIDs |-> told[q]]
  /\ \A q \in PageIDs : \/ told[q] = pages[q]
                        \/ IsLeaf(q) /\ told[q] = Leaf(pages[q].tuples, l, pages[q].right_pid)

LEMMA Told ==
  ASSUME Pages, NEW behind, NEW l, NEW told, ToldOf(told, behind, l)
  PROVE  ToldIs(told, l)
<1> told = IF behind = NoPage THEN pages ELSE [pages EXCEPT ![behind].left_pid = l]
  BY DEF ToldOf
<1>1. pages = [q \in PageIDs |-> pages[q]] /\ \A q \in PageIDs : PageShape(q)
  BY DEF Pages
<1>2. CASE behind = NoPage
  <2>1. told = pages
    BY <1>2
  <2> QED BY <1>1, <2>1 DEF ToldIs
<1>3. CASE behind # NoPage
  <2>1. told = [pages EXCEPT ![behind] = [pages[behind] EXCEPT !.left_pid = l]]
    BY <1>3
  <2>2. PICK x : x = [pages[behind] EXCEPT !.left_pid = l]
    OBVIOUS
  <2>3. told = [pages EXCEPT ![behind] = x]
    BY <2>1, <2>2
  <2>4. DOMAIN pages = PageIDs
    BY <1>1
  <2>5. told = [q \in PageIDs |-> IF q = behind THEN x ELSE pages[q]]
    BY <2>3, <2>4
  <2>6. ASSUME behind \in PageIDs
        PROVE  x = pages[behind] \/ (IsLeaf(behind) /\ x = Leaf(pages[behind].tuples, l, pages[behind].right_pid))
    BY <1>1, <2>2, <2>6, WithLeft
  <2>7. told = [q \in PageIDs |-> told[q]]
    BY <2>5
  <2>8. ASSUME NEW q \in PageIDs
        PROVE  \/ told[q] = pages[q]
               \/ IsLeaf(q) /\ told[q] = Leaf(pages[q].tuples, l, pages[q].right_pid)
    <3>1. CASE q = behind
      BY <2>5, <2>6, <3>1
    <3>2. CASE q # behind
      BY <2>5, <3>2
    <3> QED BY <3>1, <3>2
  <2> QED BY <2>7, <2>8 DEF ToldIs
<1> QED BY <1>2, <1>3

LEMMA LeavesMergedFacts ==
  ASSUME Pages, NEW a \in PageIDs, NEW b \in PageIDs, NEW p \in PageIDs, a # b, p # a, p # b,
         a = toPage, b = fromPage, p = parent, IsLeaf(a), NEW z, pages' = LeavesMerged(z)
  PROVE  /\ pages' = [q \in PageIDs |-> pages'[q]]
         /\ PageShape(a)' /\ pages'[a].type = "leaf"
         /\ pages'[b] = Free /\ pages'[p] = z
         /\ \A q \in PageIDs : q \notin {a, b, p} => AlikeAt(q) /\ PageShape(q)'
<1>1. PICK behind, told :
        /\ behind = pages[fromPage].right_pid
        /\ told = IF behind = NoPage THEN pages ELSE [pages EXCEPT ![behind].left_pid = a]
  OBVIOUS
<1>2. /\ told = [q \in PageIDs |-> told[q]]
      /\ \A q \in PageIDs : \/ told[q] = pages[q]
                            \/ IsLeaf(q) /\ told[q] = Leaf(pages[q].tuples, a, pages[q].right_pid)
  <2>1. ToldOf(told, behind, a)
    BY <1>1 DEF ToldOf
  <2>2. ToldIs(told, a)
    BY <2>1, Told
  <2> QED BY <2>2 DEF ToldIs
<1>3. PICK t, l : t = WriteAll(pages[toPage].tuples, pages[fromPage].tuples) /\ l = pages[toPage].left_pid
  OBVIOUS
<1>4. PICK m, f : m = Leaf(t, l, behind) /\ f = Free
  OBVIOUS
<1>5. pages' = [told EXCEPT ![a] = m, ![b] = f, ![p] = z]
  BY <1>1, <1>3, <1>4 DEF LeavesMerged
<1>6. /\ pages' = [q \in PageIDs |-> pages'[q]] /\ pages'[a] = m /\ pages'[b] = f /\ pages'[p] = z
      /\ \A q \in PageIDs : q \notin {a, b, p} => pages'[q] = told[q]
  BY <1>2, <1>5, Update3
<1>7. PageShape(a)' /\ pages'[a].type = "leaf"
  BY <1>4, <1>6, LeafShape DEF IsLeaf
<1>8. ASSUME NEW q \in PageIDs, q \notin {a, b, p} PROVE AlikeAt(q) /\ PageShape(q)'
  <2>1. PageShape(q)
    BY DEF Pages
  <2>2. CASE pages'[q] = pages[q]
    BY <2>1, <2>2, SameShape DEF AlikeAt, Width, Kids
  <2>3. CASE IsLeaf(q) /\ pages'[q] = Leaf(pages[q].tuples, a, pages[q].right_pid)
    <3>1. PageShape(q)' /\ IsLeaf(q)'
      BY <2>3, LeafShape
    <3>2. AlikeAt(q)
      BY <2>3, <3>1 DEF AlikeAt, IsLeaf, IsInternal
    <3> QED BY <3>1, <3>2
  <2> QED BY <1>2, <1>6, <1>8, <2>2, <2>3
<1> QED BY <1>4, <1>6, <1>7, <1>8

\* The two leaves that are merged.
LEMMA LeafPlace ==
  ASSUME BInv, LeafMergeDue, NEW h, NEW up, NEW place, Structure(h, up, place),
         NEW i, NEW p, NEW a, NEW b, i = MergeAt, p = parent, a = toPage, b = fromPage
  PROVE  /\ pc = "rebalance" /\ stack # <<>> /\ Control /\ OnWay /\ Pages /\ ~Lacking
         /\ i \in 1..Width(p) /\ a = Kids(p)[i] /\ b = Kids(p)[i + 1]
         /\ a \in PageIDs /\ b \in PageIDs /\ p \in PageIDs /\ a # b /\ p # a /\ p # b
         /\ cur \in {a, b} /\ IsLeaf(cur)
         /\ IsLeaf(a) /\ IsLeaf(b) /\ IsInternal(p) /\ PageShape(p)
<1>1. /\ pc = "rebalance" /\ stack # <<>> /\ report.type = "LeafPage"
      /\ HasLeft \/ HasRight
  BY DEF LeafMergeDue, Underflown, Returned
<1>2. Control /\ OnWay /\ Pages /\ IsLeaf(cur) /\ ~Lacking
  BY <1>1 DEF BInv, OnWay, Control, Lacking
<1>3. /\ i \in 1..Width(p) /\ a = Kids(p)[i] /\ b = Kids(p)[i + 1]
      /\ HasLeft => a = leftSibling /\ b = cur
      /\ ~HasLeft => HasRight /\ a = cur /\ b = rightSibling
  BY <1>1, <1>2, MergePlace
<1>4. /\ a \in PageIDs /\ b \in PageIDs /\ p \in PageIDs /\ a # b /\ p # a /\ p # b
      /\ IsLeaf(a) /\ IsLeaf(b) /\ IsInternal(p)
  BY <1>1, <1>2, <1>3, Siblings
<1>5. PageShape(p)
  BY <1>2, <1>4 DEF Pages
<1> QED BY <1>1, <1>2, <1>3, <1>4, <1>5

LEMMA LeafMergeKeeps == ASSUME BInv, Residues = {0}, LeafMerge PROVE BInv'
<1>1. PICK h, up, place : Structure(h, up, place)
  BY DEF BInv
<1>2. LeafMergeDue /\ root' = root /\ pc' = pc
  BY DEF LeafMerge
<1>3. PICK i, p, a, b : i = MergeAt /\ p = parent /\ a = toPage /\ b = fromPage
  OBVIOUS
<1>4. /\ pc = "rebalance" /\ stack # <<>> /\ Control /\ OnWay /\ Pages /\ ~Lacking
      /\ i \in 1..Width(p) /\ a = Kids(p)[i] /\ b = Kids(p)[i + 1]
      /\ a \in PageIDs /\ b \in PageIDs /\ p \in PageIDs /\ a # b /\ p # a /\ p # b
      /\ cur \in {a, b} /\ IsLeaf(cur)
      /\ IsLeaf(a) /\ IsLeaf(b) /\ IsInternal(p) /\ PageShape(p)
  BY <1>1, <1>2, <1>3, LeafPlace
<1>5. PICK z : z = DeleteKeyAndChildPtr(i)
  OBVIOUS
<1>6. pages' = LeavesMerged(z) /\ \E residue \in Residues : Ascend(CheckUnderflow(z, residue))
  BY <1>3, <1>5 DEF LeafMerge
<1>7. /\ cur' = Last(stack) /\ stack' = Front(stack)
      /\ report' = Status("InternalPage", Width(p) - 1 <= M, Width(p) - 1)
      /\ Width(p) \in Nat /\ Width(p) - 1 <= NUM_KEY_SLOTS
      /\ z = Internal(z.keys, RemoveAt(Kids(p), i + 1))
      /\ IsSeq(z.keys) /\ Len(z.keys) = Width(p) - 1
      /\ RemoveAt(Kids(p), i + 1) \in Seq(PageIDs)
      /\ Len(RemoveAt(Kids(p), i + 1)) = Width(p)
  BY <1>3, <1>4, <1>5, <1>6, ParentShrinks
<1>8. /\ pages' = [q \in PageIDs |-> pages'[q]]
      /\ PageShape(a)' /\ pages'[a].type = "leaf"
      /\ pages'[b] = Free /\ pages'[p] = z
      /\ \A q \in PageIDs : q \notin {a, b, p} => AlikeAt(q) /\ PageShape(q)'
  BY <1>3, <1>4, <1>6, LeavesMergedFacts
<1>9. /\ PageShape(p)' /\ IsInternal(p)' /\ Width(p)' = Width(p) - 1
      /\ Kids(p)' = RemoveAt(Kids(p), i + 1)
  <2>1. Len(RemoveAt(Kids(p), i + 1)) = Len(z.keys) + 1
    BY <1>7
  <2> QED BY <1>7, <1>8, <2>1, InternalShape
<1>10. PICK all : all = <<>>
  OBVIOUS
<1>11. Merging(a, b, p, i, all)
  BY <1>4, <1>8, <1>9 DEF Merging, IsLeaf, IsInternal
<1>12. Gathered(h, up, place, a, b, all, place)
  <2>1. all \in Seq(PageIDs) /\ Len(all) = 0
    BY <1>10
  <2>2. \A q \in PageIDs : up[q] \notin {a, b}
    <3>1. \A q \in PageIDs : up[q] # NoPage => IsInternal(up[q])
      BY <1>1, <1>4, Heights DEF Structure
    <3>2. ~IsInternal(a) /\ ~IsInternal(b) /\ a # NoPage /\ b # NoPage
      BY <1>4, BTreeAssumption DEF IsLeaf, IsInternal
    <3> QED BY <3>1, <3>2
  <2>3. place \in [PageIDs -> Nat]
    BY <1>1 DEF Structure, Witnesses
  <2> QED BY <2>1, <2>2, <2>3 DEF Gathered
<1>13. Merged(h, up, place, p, i, a, b, all, place)
  BY <1>1, <1>2, <1>3, <1>4, <1>7, <1>11, <1>12 DEF Merged
<1> QED BY <1>13, MergeKeeps

\* Only the innermost frame can be that of the root.
LEMMA RootFrame ==
  ASSUME NEW h, NEW up, NEW place, Control, Witnesses(h, up, place), Way(h, up), OnWay,
         stack # <<>>, parent = root
  PROVE  Front(stack) = <<>>
<1>1. PICK n : n = Len(stack)
  OBVIOUS
<1>2. /\ n \in Nat /\ n > 0 /\ parent = stack[n] /\ stack[n] \in PageIDs
      /\ Front(stack) \in Seq(PageIDs) /\ Len(Front(stack)) = n - 1
  BY <1>1, FrontFacts DEF Control, parent
<1>3. /\ \A m \in 1..n : h[stack[m]] = h[cur] + (n + 1 - m)
      /\ root = Follows(0) /\ cur \in PageIDs
  BY <1>1 DEF Way
<1>4. root = stack[1]
  <2>1. n # 0 /\ 0 + 1 = 1
    BY <1>2
  <2>2. Follows(0) = stack[0 + 1]
    BY <1>1, <2>1 DEF Follows
  <2> QED BY <1>3, <2>1, <2>2
<1>5. h[cur] \in Nat
  BY <1>3 DEF Witnesses
<1>6. 1 \in 1..n /\ n \in 1..n
  BY <1>2
<1>7. h[root] = h[cur] + (n + 1 - 1) /\ h[root] = h[cur] + (n + 1 - n)
  BY <1>2, <1>3, <1>4, <1>6
<1>8. n = 1
  BY <1>2, <1>5, <1>7
<1>9. Len(Front(stack)) = 0
  BY <1>2, <1>8
<1> QED BY <1>2, <1>9, EmptySeq

LEMMA RootLeafMergeKeeps == ASSUME BInv, RootLeafMerge PROVE BInv'
<1>1. PICK h, up, place : Structure(h, up, place)
  BY DEF BInv
<1>2. /\ LeafMergeDue /\ root' = toPage /\ pc' = pc /\ parent = root /\ Len(parentPage.keys) = 1
      /\ cur' = Last(stack) /\ stack' = Front(stack)
      /\ report'.type = "InvalidPage" /\ report'.underflown = FALSE
  BY DEF RootLeafMerge, Ascend, Status
<1>3. PICK i, p, a, b : i = MergeAt /\ p = parent /\ a = toPage /\ b = fromPage
  OBVIOUS
<1>4. /\ pc = "rebalance" /\ stack # <<>> /\ Control /\ OnWay /\ Pages /\ ~Lacking
      /\ i \in 1..Width(p) /\ a = Kids(p)[i] /\ b = Kids(p)[i + 1]
      /\ a \in PageIDs /\ b \in PageIDs /\ p \in PageIDs /\ a # b /\ p # a /\ p # b
      /\ cur \in {a, b} /\ IsLeaf(cur)
      /\ IsLeaf(a) /\ IsLeaf(b) /\ IsInternal(p) /\ PageShape(p)
  BY <1>1, <1>2, <1>3, LeafPlace
<1>5. /\ Witnesses(h, up, place) /\ Tree(h, up, place) /\ Way(h, up) /\ up[p] = NoPage
      /\ a # NoPage /\ b # NoPage /\ p # NoPage
  BY <1>1, <1>2, <1>3, <1>4, BTreeAssumption DEF Structure
<1>6. Width(p) = 1 /\ Len(Kids(p)) = 2 /\ Kids(p)[1] = a /\ Kids(p)[2] = b
  <2>1. Width(p) = 1 /\ Len(Kids(p)) = Width(p) + 1
    BY <1>2, <1>3, <1>4, Kinds DEF Width, parentPage
  <2>2. i = 1
    BY <1>4, <2>1
  <2> QED BY <1>4, <2>1, <2>2
<1>7. stack' = <<>>
  BY <1>2, <1>4, <1>5, RootFrame
<1>8. /\ pages' = [q \in PageIDs |-> pages'[q]]
      /\ PageShape(a)' /\ pages'[a].type = "leaf"
      /\ pages'[b] = Free /\ pages'[p] = Free
      /\ \A q \in PageIDs : q \notin {a, b, p} => AlikeAt(q) /\ PageShape(q)'
  <2>1. PICK z : z = Free
    OBVIOUS
  <2>2. pages' = LeavesMerged(z)
    BY <2>1 DEF RootLeafMerge
  <2> QED BY <1>3, <1>4, <2>1, <2>2, LeavesMergedFacts
<1>9. /\ IsLeaf(a)' /\ Used(a)' /\ ~IsInternal(a)'
      /\ ~IsLeaf(b)' /\ ~IsInternal(b)' /\ PageShape(b)'
      /\ ~IsLeaf(p)' /\ ~IsInternal(p)' /\ PageShape(p)'
  <2>1. IsLeaf(a)' /\ Used(a)' /\ ~IsInternal(a)'
    BY <1>8 DEF Used, IsLeaf, IsInternal
  <2> QED BY <1>8, <2>1, FreeShape
<1>10. Pages'
  BY <1>8, <1>9 DEF Pages
<1>11. PICK up2 : up2 = [q \in PageIDs |-> IF q \in {a, b} THEN NoPage ELSE up[q]]
  OBVIOUS
<1>12. Witnesses(h, up2, place) /\ Witnesses(h, up2, place)'
  <2>1. up2 \in [PageIDs -> PageIDs \cup {NoPage}]
    BY <1>5, <1>11 DEF Witnesses
  <2> QED BY <1>5, <2>1 DEF Witnesses
<1>13. \A q \in PageIDs : up[q] # NoPage => up[q] \in PageIDs /\ IsInternal(up[q]) /\ Used(q)
  BY <1>4, <1>5, Heights
<1>14. \A q \in PageIDs : up2[q] # NoPage => up2[q] = up[q] /\ q \notin {a, b, p} /\ up[q] \notin {a, b, p}
  <2> SUFFICES ASSUME NEW q \in PageIDs, up2[q] # NoPage
               PROVE  up2[q] = up[q] /\ q \notin {a, b, p} /\ up[q] \notin {a, b, p}
    OBVIOUS
  <2>1. q \notin {a, b} /\ up2[q] = up[q]
    BY <1>11
  <2>2. q # p
    BY <1>5, <2>1
  <2>3. up[q] \notin {a, b}
    BY <1>4, <1>13, <2>1 DEF IsLeaf, IsInternal
  <2>4. ASSUME up[q] = p PROVE FALSE
    <3>1. place[q] \in 1..Len(Kids(p)) /\ Kids(p)[place[q]] = q
      BY <1>5, <2>4 DEF Tree, Hangs
    <3>2. place[q] = 1 \/ place[q] = 2
      BY <1>6, <3>1
    <3> QED BY <1>6, <2>1, <3>1, <3>2
  <2> QED BY <2>1, <2>2, <2>3, <2>4
<1>15. Regrouping(h, up, place, h, up2, place, {a, b, p})
  <2>1. \A q \in PageIDs : up[q] # NoPage /\ up[q] \notin {a, b, p} =>
             (pages'[q].type = "leaf" \/ pages'[q].type = "internal") /\ up2[q] = up[q]
    <3> SUFFICES ASSUME NEW q \in PageIDs, up[q] # NoPage, up[q] \notin {a, b, p}
                 PROVE  (pages'[q].type = "leaf" \/ pages'[q].type = "internal") /\ up2[q] = up[q]
      OBVIOUS
    <3>1. q \notin {a, b}
      <4>1. up[a] = p /\ up[b] = p
        BY <1>1, <1>3, <1>4, Siblings
      <4> QED BY <4>1
    <3>2. q # p /\ Used(q)
      BY <1>5, <1>13
    <3>3. AlikeAt(q)
      BY <1>8, <3>1, <3>2
    <3>4. pages'[q].type = "leaf" \/ pages'[q].type = "internal"
      BY <3>2, <3>3 DEF AlikeAt, Used, IsLeaf, IsInternal
    <3> QED BY <1>11, <3>1, <3>4
  <2>2. \A q \in {a, b, p} : (IsLeaf(q)' => h[q] = 0) /\ Holds(q, h, up2, place)'
    <3>1. h[a] = 0
      BY <1>4, <1>5 DEF Tree
    <3> QED BY <1>9, <3>1 DEF Holds
  <2>3. \A q \in PageIDs : q \notin {a, b, p} => AlikeAt(q)
    BY <1>8
  <2>4. \A q \in PageIDs : up2[q] # NoPage => up2[q] = up[q]
    BY <1>14
  <2>5. \A q \in PageIDs : up2[q] \notin {a, b, p}
    BY <1>5, <1>14
  <2> QED BY <2>1, <2>2, <2>3, <2>4, <2>5 DEF Regrouping
<1>16. Tree(h, up2, place)'
  BY <1>4, <1>5, <1>12, <1>15, Regroup
<1>17. ~OnWay' /\ ~Lacking' /\ ~Splitting'
  BY <1>2, <1>4, <1>7 DEF OnWay, Lacking, Splitting
<1>18. Control'
  <2>1. Used(a)' /\ a = root' /\ stack' \in Seq(PageIDs)
    BY <1>2, <1>3, <1>7, <1>9
  <2> QED BY <1>2, <1>4, <2>1 DEF Control, Used, IsLeaf, IsInternal
<1>19. Occupied(up2)'
  <2>1. \A q \in PageIDs : up2[q] # NoPage => Wide(q)' \/ Width(up2[q])' = 0
    <3> SUFFICES ASSUME NEW q \in PageIDs, NEW o, o = up2[q], o # NoPage
                 PROVE  Wide(q)' \/ Width(o)' = 0
      OBVIOUS
    <3>1. o = up[q] /\ q \notin {a, b, p} /\ o \notin {a, b, p} /\ o \in PageIDs /\ IsInternal(o)
      BY <1>13, <1>14
    <3>2. Wide(q) \/ Width(o) = 0
      BY <1>1, <1>4, <3>1 DEF Structure, Occupied
    <3>3. AlikeAt(q) /\ AlikeAt(o)
      BY <1>8, <3>1
    <3>4. (Wide(q)' <=> Wide(q)) /\ Width(o)' = Width(o)
      BY <3>1, <3>3, AlikeFacts
    <3> QED BY <3>2, <3>4
  <2> QED BY <1>17, <2>1 DEF Occupied
<1>20. Structure(h, up2, place)'
  <2>1. up2[root'] = NoPage
    BY <1>2, <1>3, <1>4, <1>11
  <2> QED BY <1>12, <1>16, <1>17, <1>19, <2>1 DEF Structure, Way, Orphan
<1> QED BY <1>10, <1>18, <1>20 DEF BInv

-----------------------------------------------------------------------------
\* Every step.

LEMMA InitShape == Init => BInv
<1> SUFFICES ASSUME Init PROVE BInv
  OBVIOUS
<1>1. PICK r \in PageIDs :
        /\ root = r
        /\ pages = [q \in PageIDs |-> IF q = r THEN Leaf(<<>>, NoPage, NoPage) ELSE Free]
  BY DEF Init
<1>2. /\ pc = "idle" /\ cur = NoPage /\ stack = <<>>
  BY DEF Init
<1>3. PICK h, up : h = [q \in PageIDs |-> 0] /\ up = [q \in PageIDs |-> NoPage]
  OBVIOUS
<1>4. IsLeaf(r) /\ Used(r)
  BY <1>1, Shapes DEF IsLeaf, Used
<1>5. \A q \in PageIDs : PageShape(q) /\ ~IsInternal(q)
  BY <1>1, Shapes DEF PageShape, IsLeaf, IsInternal
<1>6. Pages
  BY <1>1, <1>5 DEF Pages
<1>7. Control
  BY <1>1, <1>2, <1>4 DEF Control
<1>8. Witnesses(h, up, h)
  BY <1>3 DEF Witnesses
<1>9. Tree(h, up, h)
  BY <1>3, <1>5 DEF Tree, Holds
<1>10. ~OnWay /\ ~Splitting /\ ~Lacking
  BY <1>2 DEF OnWay, Splitting, Lacking
<1>11. Structure(h, up, h)
  BY <1>1, <1>3, <1>8, <1>9, <1>10 DEF Structure, Way, Orphan, Occupied
<1> QED BY <1>6, <1>7, <1>11 DEF BInv

LEMMA Stutters == ASSUME BInv, UNCHANGED vars PROVE BInv'
<1>1. /\ pages' = pages /\ root' = root /\ pc' = pc /\ cur' = cur /\ stack' = stack
      /\ report' = report /\ to_write_page' = to_write_page
  BY DEF vars, tree, frame
<1>2. PICK h, up, place : Structure(h, up, place)
  BY DEF BInv
<1>3. Pages'
  BY <1>1 DEF BInv, Pages, PageShape, IsLeaf, IsInternal, Kids, Width
<1>4. Control'
  BY <1>1 DEF BInv, Control, Used, IsLeaf, IsInternal
<1>5. Witnesses(h, up, place)' /\ up[root'] = NoPage
  BY <1>1, <1>2 DEF Structure, Witnesses
<1>6. Tree(h, up, place)'
  BY <1>1, <1>2 DEF Structure, Tree, Holds, Hangs, Used, IsLeaf, IsInternal, Kids
<1>7. Way(h, up)'
  BY <1>1, <1>2 DEF Structure, Way, OnWay, Follows, Used, IsLeaf, IsInternal
<1>8. (Splitting' <=> Splitting) /\ (Lacking' <=> Lacking)
  BY <1>1 DEF Splitting, Lacking
<1>9. Orphan(h, up)'
  BY <1>1, <1>2, <1>8 DEF Structure, Orphan, Used, IsLeaf, IsInternal
<1>10. \A q : (Wide(q)' <=> Wide(q)) /\ Width(q)' = Width(q) /\ (IsInternal(q)' <=> IsInternal(q))
  BY <1>1 DEF Wide, Width, IsInternal
<1>11. Wide(cur)' <=> Wide(cur)
  BY <1>1 DEF Wide, Width, IsInternal
<1>12. Occupied(up)'
  <2>1. \A q \in PageIDs : up[q] # NoPage => Wide(q)' \/ Width(up[q])' = 0 \/ (Lacking' /\ q = cur')
    BY <1>1, <1>2, <1>8, <1>10 DEF Structure, Occupied
  <2>2. Lacking' => /\ IsInternal(cur)' /\ report'.current_size = Width(cur)' /\ Width(cur)' <= M
                    /\ \A q \in PageIDs : up[q] = cur' => Wide(q)'
    BY <1>1, <1>2, <1>8, <1>10 DEF Structure, Occupied, IsInternal, Width
  <2>3. Splitting' => Wide(cur)' /\ Wide(report.new_page_id)'
    BY <1>1, <1>2, <1>8, <1>11 DEF Structure, Occupied, Wide, Width, IsInternal
  <2> QED BY <2>1, <2>2, <2>3 DEF Occupied
<1>13. Structure(h, up, place)'
  BY <1>5, <1>6, <1>7, <1>9, <1>12 DEF Structure
<1> QED BY <1>3, <1>4, <1>13 DEF BInv

LEMMA StepKeeps == ASSUME BInv, RoomToGrow, Residues = {0}, [Next]_vars PROVE BInv'
<1>1. ASSUME Calls PROVE BInv'
  BY <1>1, CallKeeps DEF Calls
<1>2. ASSUME Descend PROVE BInv'
  BY <1>2, DescendKeeps
<1>3. ASSUME Insert PROVE BInv'
  BY <1>3, FindFitsKeeps, FindSplitKeeps, UnwindNoSplitKeeps, UnwindInsertKeeps, UnwindSplitKeeps,
     NewRootKeeps, WriteTupleKeeps DEF Insert, FindPageToWrite
<1>4. ASSUME Search PROVE BInv'
  BY <1>4, SearchKeeps
<1>5. ASSUME Delete PROVE BInv'
  BY <1>5, DeleteLeafKeeps, DeleteReturnsKeeps, NoUnderflowKeeps, NoSiblingKeeps,
     LeafLeftBorrowKeeps, LeafRightBorrowKeeps, LeafMergeKeeps, RootLeafMergeKeeps,
     InternalLeftBorrowKeeps, InternalRightBorrowKeeps, InternalMergeKeeps
     DEF Delete, RebalanceLeaf, RebalanceInternal
<1>6. ASSUME Return PROVE BInv'
  BY <1>6, ReturnKeeps
<1>7. ASSUME UNCHANGED vars PROVE BInv'
  BY <1>7, Stutters
<1> QED BY <1>1, <1>2, <1>3, <1>4, <1>5, <1>6, <1>7 DEF Next, Step

-----------------------------------------------------------------------------
\* Theorems.

\* The shape of the tree holds throughout, also between two levels of a recursion, of
\* FindPageToWrite or of Delete.
THEOREM Shape == ASSUME Residues = {0} PROVE Spec /\ []RoomToGrow => []BInv
<1>1. Init => BInv
  BY InitShape
<1>2. BInv /\ RoomToGrow /\ [Next]_vars => BInv'
  BY StepKeeps
<1> QED BY <1>1, <1>2, PTL DEF Spec

\* What an internal page has are children: they are in use, no page is the child of two
\* or twice of one, and from each page all ways down to a leaf are equally long, h[p]
\* many levels.
IsTree ==
  /\ \A p, q \in PageIDs : IsInternal(p) /\ IsInternal(q) =>
       \A i \in 1..Len(Kids(p)), j \in 1..Len(Kids(q)) :
         Kids(p)[i] = Kids(q)[j] => p = q /\ i = j
  /\ \E h \in [PageIDs -> Nat] : \A p \in PageIDs :
       /\ IsLeaf(p) => h[p] = 0
       /\ IsInternal(p) => \A i \in 1..Len(Kids(p)) :
                             Used(Kids(p)[i]) /\ h[p] = h[Kids(p)[i]] + 1

\* Whatever HandleSplit, SetNewBoundaryKey, MergePages and DeleteKeyAndChildPtr do to it,
\* it remains a tree, with all leaves equally deep.
THEOREM StaysATree == ASSUME Residues = {0} PROVE Spec /\ []RoomToGrow => []IsTree
<1>1. BInv => IsTree
  <2> SUFFICES ASSUME BInv PROVE IsTree
    OBVIOUS
  <2>1. PICK h, up, place : Structure(h, up, place)
    BY DEF BInv
  <2>2. h \in [PageIDs -> Nat] /\ \A p \in PageIDs : (IsLeaf(p) => h[p] = 0) /\ Holds(p, h, up, place)
    BY <2>1 DEF Structure, Witnesses, Tree
  <2>3. \A p \in PageIDs : IsInternal(p) => \A i \in 1..Len(Kids(p)) :
          /\ Used(Kids(p)[i]) /\ h[p] = h[Kids(p)[i]] + 1
          /\ up[Kids(p)[i]] = p /\ place[Kids(p)[i]] = i
    BY <2>2 DEF Holds
  <2> QED BY <2>2, <2>3 DEF IsTree
<1> QED BY <1>1, Shape, PTL

\* The keys of internal pages have room, and an internal page that merges with a
\* sibling finds room for all of its keys (InternalPage::CanLend and MergePages).
THEOREM KeysHaveRoom == ASSUME Residues = {0} PROVE Spec /\ []RoomToGrow => []KeysFit
<1>1. BInv => KeysFit
  <2> SUFFICES ASSUME BInv PROVE KeysFit
    OBVIOUS
  <2>1. ASSUME NEW p \in PageIDs, IsInternal(p) PROVE Len(pages[p].keys) <= NUM_KEY_SLOTS
    BY <2>1, Kinds DEF BInv, Pages, Width
  <2>2. ASSUME InternalMergeDue
        PROVE  Len(pages[toPage].keys) + 1 + Len(pages[fromPage].keys) <= NUM_KEY_SLOTS
    BY <2>2, MergeFits DEF Width
  <2> QED BY <2>1, <2>2 DEF KeysFit
<1> QED BY <1>1, Shape, PTL

\* Once Delete is done with them, internal pages with siblings are at least half full:
\* whatever it borrowed or merged, on whatever level, it resolved every underflow.
THEOREM Occupancy == ASSUME Residues = {0} PROVE Spec /\ []RoomToGrow => []InternalOccupied
<1>1. BInv => InternalOccupied
  <2> SUFFICES ASSUME BInv, pc # "rebalance", NEW p \in PageIDs, IsInternal(p), pages[p].keys # <<>>,
                      NEW c \in ToSet(pages[p].children), IsInternal(c)
               PROVE  Len(pages[c].keys) > INTERNAL_UNDERFLOW_THRESHOLD
    BY DEF InternalOccupied
  <2>1. PICK h, up, place : Structure(h, up, place)
    BY DEF BInv
  <2>2. /\ IsSeq(pages[p].keys) /\ Width(p) \in Nat
        /\ Kids(p) \in Seq(PageIDs)
    BY Kinds DEF BInv, Pages
  <2>3. PICK i \in 1..Len(Kids(p)) : c = Kids(p)[i]
    BY <2>2, LenProperties DEF ToSet, Kids
  <2>4. c \in PageIDs /\ p # NoPage
    BY <2>2, <2>3, ElementOfSeq, BTreeAssumption
  <2>5. up[c] = p
    BY <2>1, <2>3 DEF Structure, Tree, Holds
  <2>6. Width(p) # 0
    <3>1. ASSUME Len(pages[p].keys) = 0 PROVE FALSE
      BY <2>2, <3>1, EmptySeq DEF IsSeq
    <3> QED BY <3>1 DEF Width
  <2>7. Wide(c)
    BY <2>1, <2>4, <2>5, <2>6 DEF Structure, Occupied, Lacking
  <2> QED BY <2>7 DEF Wide, Width, M
<1> QED BY <1>1, Shape, PTL

-----------------------------------------------------------------------------
\* Induction, and what is defined by recursion.

LEMMA Induction ==
  ASSUME NEW S, 0 \in S, \A i \in Nat : i \in S => i + 1 \in S
  PROVE  \A i \in Nat : i \in S
<1> DEFINE T == Nat \ S
<1> SUFFICES ASSUME T # {} PROVE FALSE
  OBVIOUS
<1>1. PICK x \in T : \A y \in T : ~(<<y, x>> \in OpToRel(<, Nat))
  <2>1. T \subseteq Nat
    OBVIOUS
  <2> QED BY <2>1, WFMin, NatLessThanWellFounded
<1>2. x \in Nat /\ x \notin S /\ x # 0
  OBVIOUS
<1>3. PICK y : y = x - 1
  OBVIOUS
<1>4. y \in Nat /\ x = y + 1 /\ y < x
  BY <1>2, <1>3
<1>5. y \notin S
  BY <1>2, <1>4
<1>6. <<y, x>> \in OpToRel(<, Nat)
  <2>1. <<y, x>> \in Nat \X Nat /\ <<y, x>>[1] < <<y, x>>[2]
    BY <1>2, <1>4
  <2> QED BY <2>1 DEF OpToRel
<1> QED BY <1>1, <1>4, <1>5, <1>6

\* F[p][f] is the value at p of a function whose values at places of a lower measure
\* are those of f; then there is a function that has all of them.
Recursive(Dom, V, m, F) ==
  /\ F \in [Dom -> [[Dom -> V] -> V]]
  /\ m \in [Dom -> Nat]
  /\ \A p \in Dom : \A f, g \in [Dom -> V] :
       (\A q \in Dom : m[q] < m[p] => f[q] = g[q]) => F[p][f] = F[p][g]

LEMMA RecursionBelow ==
  ASSUME NEW Dom, NEW V, NEW m, NEW F, Recursive(Dom, V, m, F), NEW v \in V
  PROVE  \A k \in Nat : \E f \in [Dom -> V] : \A p \in Dom : m[p] < k => f[p] = F[p][f]
<1> DEFINE S == {k \in Nat : \E f \in [Dom -> V] : \A p \in Dom : m[p] < k => f[p] = F[p][f]}
<1>1. 0 \in S
  <2>1. [p \in Dom |-> v] \in [Dom -> V]
    OBVIOUS
  <2>2. \A p \in Dom : ~(m[p] < 0)
    BY DEF Recursive
  <2> QED BY <2>1, <2>2
<1>2. ASSUME NEW k \in Nat, k \in S PROVE k + 1 \in S
  <2>1. PICK f \in [Dom -> V] : \A p \in Dom : m[p] < k => f[p] = F[p][f]
    BY <1>2
  <2>2. PICK g : g = [p \in Dom |-> IF m[p] < k THEN f[p] ELSE F[p][f]]
    OBVIOUS
  <2>3. \A p \in Dom : F[p][f] \in V
    BY DEF Recursive
  <2>4. g \in [Dom -> V]
    BY <2>2, <2>3
  <2>5. \A p \in Dom : m[p] \in Nat
    BY DEF Recursive
  <2>6. ASSUME NEW p \in Dom, m[p] < k + 1 PROVE g[p] = F[p][g]
    <3>1. \A q \in Dom : m[q] < m[p] => m[q] < k
      BY <2>5, <2>6
    <3>2. \A q \in Dom : m[q] < m[p] => f[q] = g[q]
      BY <2>2, <3>1
    <3>3. F[p][f] = F[p][g]
      BY <2>4, <3>2 DEF Recursive
    <3>4. g[p] = F[p][f]
      BY <2>1, <2>2
    <3> QED BY <3>3, <3>4
  <2> QED BY <2>4, <2>6
<1> HIDE DEF S
<1>3. \A k \in Nat : k \in S
  BY <1>1, <1>2, Induction
<1> QED BY <1>3 DEF S

LEMMA Recursion ==
  ASSUME NEW Dom, NEW V, NEW m, NEW F, Recursive(Dom, V, m, F), NEW v \in V,
         NEW b \in Nat, \A p \in Dom : m[p] < b
  PROVE  \E f \in [Dom -> V] : \A p \in Dom : f[p] = F[p][f]
<1>1. PICK f \in [Dom -> V] : \A p \in Dom : m[p] < b => f[p] = F[p][f]
  BY RecursionBelow
<1> QED BY <1>1

-----------------------------------------------------------------------------
\* Folds, step by step.

LEMMA MaxFacts ==
  ASSUME NEW n \in Nat, NEW s \in SUBSET (1..n), s # {}
  PROVE  Max(s) \in s /\ \A y \in s : y <= Max(s)
<1> DEFINE T == {i \in Nat : \A t \in SUBSET (1..i) : t # {} => \E x \in t : \A y \in t : x >= y}
<1>1. 0 \in T
  <2>1. 1..0 = {}
    OBVIOUS
  <2> QED BY <2>1
<1>2. ASSUME NEW i \in Nat, i \in T PROVE i + 1 \in T
  <2> SUFFICES ASSUME NEW t \in SUBSET (1..(i + 1)), t # {}
               PROVE  \E x \in t : \A y \in t : x >= y
    OBVIOUS
  <2>1. CASE i + 1 \in t
    <3>1. \A y \in t : i + 1 >= y
      OBVIOUS
    <3> QED BY <2>1, <3>1
  <2>2. CASE i + 1 \notin t
    <3>1. \A y \in t : y \in 1..i
      <4> TAKE y \in t
      <4>1. y \in 1..(i + 1) /\ y # i + 1
        BY <2>2
      <4> QED BY <4>1
    <3> QED BY <1>2, <3>1
  <2> QED BY <2>1, <2>2
<1> HIDE DEF T
<1>3. n \in T
  BY <1>1, <1>2, Induction
<1>4. \E x \in s : \A y \in s : x >= y
  BY <1>3 DEF T
<1>5. Max(s) \in s /\ \A y \in s : Max(s) >= y
  BY <1>4 DEF Max
<1>6. \A y \in s : y \in Int
  OBVIOUS
<1> QED BY <1>5, <1>6

LEMMA MaxOfFirst ==
  ASSUME NEW i \in Nat, i # 0
  PROVE  Max(1..i) = i /\ (1..i) \ {i} = 1..(i - 1)
<1>1. i \in 1..i /\ 1..i # {} /\ 1..i \in SUBSET (1..i)
  OBVIOUS
<1>2. Max(1..i) \in 1..i /\ i <= Max(1..i)
  BY <1>1, MaxFacts
<1> QED BY <1>2

\* G[a][i] is what the i-th element makes of a.
Folds(f, n, V, base, G) ==
  /\ f \in [SUBSET (1..n) -> V]
  /\ \A s \in SUBSET (1..n) : f[s] = IF s = {} THEN base ELSE G[f[s \ {Max(s)}]][Max(s)]

LEMMA FoldExists ==
  ASSUME NEW V, NEW base \in V, NEW n \in Nat, NEW G \in [V -> [1..n -> V]]
  PROVE  \E f : Folds(f, n, V, base, G)
<1> DEFINE Dom == SUBSET (1..n)
           m == [s \in Dom |-> IF s = {} THEN 0 ELSE Max(s)]
           F == [s \in Dom |-> [f \in [Dom -> V] |->
                   IF s = {} THEN base ELSE G[f[s \ {Max(s)}]][Max(s)]]]
<1>1. \A s \in Dom : s # {} => Max(s) \in s /\ Max(s) \in 1..n /\ s \ {Max(s)} \in Dom
  BY MaxFacts
<1>2. \A s \in Dom : m[s] \in 0..n
  <2> TAKE s \in Dom
  <2>1. m[s] = IF s = {} THEN 0 ELSE Max(s)
    OBVIOUS
  <2>2. s # {} => Max(s) \in 1..n
    BY <1>1
  <2> HIDE DEF m, Dom
  <2>3. s # {} => m[s] \in 0..n
    BY <2>1, <2>2
  <2>4. s = {} => m[s] \in 0..n
    BY <2>1
  <2> QED BY <2>3, <2>4
<1>3. \A s \in Dom : \A f \in [Dom -> V] :
         F[s][f] = IF s = {} THEN base ELSE G[f[s \ {Max(s)}]][Max(s)]
  OBVIOUS
<1>4. F \in [Dom -> [[Dom -> V] -> V]]
  <2>1. ASSUME NEW s \in Dom, NEW f \in [Dom -> V]
        PROVE  (IF s = {} THEN base ELSE G[f[s \ {Max(s)}]][Max(s)]) \in V
    <3>1. CASE s # {}
      <4>1. f[s \ {Max(s)}] \in V /\ Max(s) \in 1..n
        BY <1>1, <3>1
      <4>2. G[f[s \ {Max(s)}]] \in [1..n -> V]
        BY <4>1
      <4> QED BY <3>1, <4>1, <4>2
    <3> QED BY <3>1
  <2> QED BY <2>1
<1>5. ASSUME NEW s \in Dom, s # {} PROVE m[s \ {Max(s)}] < m[s]
  <2>1. s \ {Max(s)} \in Dom /\ Max(s) \in 1..n /\ \A y \in s : y <= Max(s)
    BY <1>1, <1>5, MaxFacts
  <2>2. m[s] = Max(s)
    BY <1>5
  <2>3. CASE s \ {Max(s)} = {}
    BY <2>1, <2>2, <2>3
  <2>4. CASE s \ {Max(s)} # {}
    <3>1. m[s \ {Max(s)}] = Max(s \ {Max(s)})
      BY <2>1, <2>4
    <3>2. Max(s \ {Max(s)}) \in s \ {Max(s)} /\ Max(s \ {Max(s)}) \in 1..n
      BY <1>1, <2>1, <2>4
    <3>3. PICK x, y : x = Max(s) /\ y = Max(s \ {Max(s)})
      OBVIOUS
    <3>4. x \in 1..n /\ y \in 1..n /\ y <= x /\ y # x
      BY <2>1, <3>2, <3>3
    <3>5. y < x
      BY <3>4
    <3> QED BY <2>2, <3>1, <3>3, <3>5
  <2> QED BY <2>3, <2>4
<1> HIDE DEF F, m
<1>6. m \in [Dom -> Nat]
  <2>1. m = [s \in Dom |-> m[s]]
    BY DEF m
  <2> HIDE DEF Dom, m
  <2>2. \A s \in Dom : m[s] \in Nat
    <3> TAKE s \in Dom
    <3>1. m[s] \in 0..n
      BY <1>2
    <3> QED BY <3>1
  <2> QED BY <2>1, <2>2
<1>7. \A s \in Dom : \A f, g \in [Dom -> V] :
         (\A q \in Dom : m[q] < m[s] => f[q] = g[q]) => F[s][f] = F[s][g]
  <2> TAKE s \in Dom
  <2> TAKE f, g \in [Dom -> V]
  <2> HAVE \A q \in Dom : m[q] < m[s] => f[q] = g[q]
  <2>1. CASE s # {}
    <3>1. s \ {Max(s)} \in Dom /\ f[s \ {Max(s)}] = g[s \ {Max(s)}]
      BY <1>1, <1>5, <2>1
    <3>2. F[s][f] = G[f[s \ {Max(s)}]][Max(s)] /\ F[s][g] = G[g[s \ {Max(s)}]][Max(s)]
      BY <1>3, <2>1
    <3> QED BY <3>1, <3>2
  <2>2. CASE s = {}
    BY <1>3, <2>2
  <2> QED BY <2>1, <2>2
<1>8. Recursive(Dom, V, m, F)
  BY <1>4, <1>6, <1>7 DEF Recursive
<1>9. \A s \in Dom : m[s] < n + 1
  BY <1>2
<1>10. PICK f \in [Dom -> V] : \A s \in Dom : f[s] = F[s][f]
  <2>1. n + 1 \in Nat
    OBVIOUS
  <2> HIDE DEF Dom
  <2> QED BY <1>8, <1>9, <2>1, Recursion
<1>11. \A s \in Dom : f[s] = IF s = {} THEN base ELSE G[f[s \ {Max(s)}]][Max(s)]
  BY <1>3, <1>10
<1> QED BY <1>11 DEF Folds

-----------------------------------------------------------------------------
\* The sizes of tuples, summed up.

Raw == [key : Int, size : Int]

Sums(ts, f) == /\ f \in [0..Len(ts) -> Int] /\ f[0] = 0
               /\ \A i \in 1..Len(ts) : f[i] = f[i - 1] + ts[i].size

LEMMA RawAt ==
  ASSUME NEW ts \in Seq(Raw)
  PROVE  /\ Len(ts) \in Nat /\ DOMAIN ts = 1..Len(ts)
         /\ \A i \in 1..Len(ts) : ts[i] \in Raw /\ ts[i].size \in Int /\ ts[i].key \in Int
<1>1. Len(ts) \in Nat /\ DOMAIN ts = 1..Len(ts)
  BY LenProperties
<1>2. \A i \in 1..Len(ts) : ts[i] \in Raw
  BY ElementOfSeq
<1>3. \A t \in Raw : t.size \in Int /\ t.key \in Int
  BY DEF Raw
<1> QED BY <1>1, <1>2, <1>3

LEMMA SpaceSteps ==
  ASSUME NEW ts \in Seq(Raw)
  PROVE  \E f : Sums(ts, f) /\ Space(ts) = f[Len(ts)]
<1>1. PICK n : n = Len(ts)
  OBVIOUS
<1>2. n \in Nat /\ DOMAIN ts = 1..n /\ \A i \in 1..n : ts[i].size \in Int
  BY <1>1, RawAt
<1> DEFINE Dom == SUBSET (1..n)
           body(f) == [s \in Dom |-> IF s = {} THEN 0 ELSE f[s \ {Max(s)}] + ts[Max(s)].size]
           iter == CHOOSE f : f = body(f)
           G == [a \in Int |-> [i \in 1..n |-> a + ts[i].size]]
<1>3. Space(ts) = iter[1..n]
  BY <1>2 DEF Space, FoldLeft, MapThenFoldSet
<1>4. \E f : f = body(f)
  <2>1. G \in [Int -> [1..n -> Int]]
    BY <1>2
  <2>2. \A a \in Int : \A i \in 1..n : G[a][i] = a + ts[i].size
    OBVIOUS
  <2> HIDE DEF G
  <2>3. PICK f : Folds(f, n, Int, 0, G)
    <3>1. 0 \in Int /\ n \in Nat
      BY <1>2
    <3> QED BY ONLY <2>1, <3>1, FoldExists
  <2>4. f \in [Dom -> Int] /\ \A s \in Dom : f[s] = IF s = {} THEN 0 ELSE G[f[s \ {Max(s)}]][Max(s)]
    BY <2>3 DEF Folds
  <2>5. \A s \in Dom : f[s] = IF s = {} THEN 0 ELSE f[s \ {Max(s)}] + ts[Max(s)].size
    <3> TAKE s \in Dom
    <3>1. CASE s # {}
      <4>1. Max(s) \in 1..n /\ s \ {Max(s)} \in Dom
        BY <1>2, <3>1, MaxFacts
      <4>2. f[s \ {Max(s)}] \in Int
        BY <2>4, <4>1
      <4>3. G[f[s \ {Max(s)}]][Max(s)] = f[s \ {Max(s)}] + ts[Max(s)].size
        BY <2>2, <4>1, <4>2
      <4>4. f[s] = G[f[s \ {Max(s)}]][Max(s)]
        BY <2>4, <3>1
      <4> QED BY <3>1, <4>3, <4>4
    <3>2. CASE s = {}
      BY <2>4, <3>2
    <3> QED BY <3>1, <3>2
  <2>6. f = [s \in Dom |-> f[s]]
    BY <2>4
  <2>7. f = body(f)
    BY <2>5, <2>6
  <2> QED BY <2>7
<1>5. iter = body(iter)
  BY <1>4
<1> HIDE DEF iter
<1>6. \A s \in Dom : iter[s] = IF s = {} THEN 0 ELSE iter[s \ {Max(s)}] + ts[Max(s)].size
  BY <1>5
<1>7. PICK f : f = [i \in 0..n |-> iter[1..i]]
  OBVIOUS
<1>8. f[0] = 0
  <2>1. 1..0 = {} /\ 0 \in 0..n
    BY <1>2
  <2> QED BY <1>6, <1>7, <2>1
<1>9. ASSUME NEW i \in 1..n PROVE f[i] = f[i - 1] + ts[i].size
  <2>4. i \in Nat /\ i # 0 /\ i \in 0..n /\ i - 1 \in 0..n
    BY <1>2
  <2>5. \A j \in 1..i : j \in 1..n
    BY <1>2
  <2>6. 1..i \in Dom /\ 1 \in 1..i
    BY <2>4, <2>5
  <2>1. i \in Nat /\ i # 0 /\ i \in 0..n /\ i - 1 \in 0..n /\ 1..i \in Dom /\ 1..i # {}
    BY <2>4, <2>6
  <2>2. Max(1..i) = i /\ (1..i) \ {i} = 1..(i - 1)
    BY <2>1, MaxOfFirst
  <2>3. iter[1..i] = iter[(1..i) \ {Max(1..i)}] + ts[Max(1..i)].size
    BY <1>6, <2>1
  <2> QED BY <1>7, <2>1, <2>2, <2>3
<1> DEFINE T == {i \in Nat : i <= n => f[i] \in Int}
<1>10. 0 \in T
  BY <1>8
<1>11. ASSUME NEW i \in Nat, i \in T PROVE i + 1 \in T
  <2> SUFFICES ASSUME i + 1 <= n PROVE f[i + 1] \in Int
    OBVIOUS
  <2>0. n \in Nat
    BY <1>2
  <2>1. i + 1 \in 1..n /\ (i + 1) - 1 = i /\ i <= n
    BY ONLY <2>0, <1>11, i + 1 <= n
  <2>2. f[i + 1] = f[i] + ts[i + 1].size
    BY <1>9, <2>1
  <2> QED BY <1>2, <1>11, <2>1, <2>2
<1> HIDE DEF T
<1>12. \A i \in Nat : i \in T
  BY <1>10, <1>11, Induction
<1>13. \A i \in 0..n : f[i] \in Int
  BY <1>12 DEF T
<1>14. Sums(ts, f)
  BY <1>1, <1>7, <1>8, <1>9, <1>13 DEF Sums
<1> QED BY <1>1, <1>2, <1>3, <1>7, <1>14

LEMMA SpaceIs ==
  ASSUME NEW ts \in Seq(Raw), NEW f, Sums(ts, f)
  PROVE  Space(ts) = f[Len(ts)] /\ Space(ts) \in Int
<1>1. PICK n : n = Len(ts)
  OBVIOUS
<1>2. PICK g : Sums(ts, g) /\ Space(ts) = g[n]
  BY <1>1, SpaceSteps
<1>3. n \in Nat
  BY <1>1, RawAt
<1> DEFINE T == {i \in Nat : i <= n => f[i] = g[i]}
<1>4. 0 \in T
  BY <1>2 DEF Sums
<1>5. ASSUME NEW i \in Nat, i \in T PROVE i + 1 \in T
  <2> SUFFICES ASSUME i + 1 <= n PROVE f[i + 1] = g[i + 1]
    OBVIOUS
  <2>1. i + 1 \in 1..n /\ (i + 1) - 1 = i /\ i <= n
    BY <1>3
  <2>2. f[i + 1] = f[i] + ts[i + 1].size /\ g[i + 1] = g[i] + ts[i + 1].size
    BY <1>1, <1>2, <2>1 DEF Sums
  <2> QED BY <1>5, <2>1, <2>2
<1> HIDE DEF T
<1>6. n \in T
  BY <1>3, <1>4, <1>5, Induction
<1>7. f[n] = g[n]
  BY <1>3, <1>6 DEF T
<1>8. g[n] \in Int
  BY <1>1, <1>2, <1>3 DEF Sums
<1> QED BY <1>1, <1>2, <1>7, <1>8

LEMMA SpaceEmpty == Space(<<>>) = 0
<1>1. <<>> \in Seq(Raw) /\ Len(<<>>) = 0
  OBVIOUS
<1>2. PICK f : f = [i \in 0..0 |-> 0]
  OBVIOUS
<1>3. Sums(<<>>, f)
  BY <1>2 DEF Sums
<1> QED BY <1>1, <1>2, <1>3, SpaceIs

LEMMA SpaceJoin ==
  ASSUME NEW a \in Seq(Raw), NEW b \in Seq(Raw)
  PROVE  Space(a \o b) = Space(a) + Space(b)
<1>1. PICK n, m : n = Len(a) /\ m = Len(b)
  OBVIOUS
<1>2. PICK f : Sums(a, f) /\ Space(a) = f[n]
  BY <1>1, SpaceSteps
<1>3. PICK g : Sums(b, g) /\ Space(b) = g[m]
  BY <1>1, SpaceSteps
<1>4. n \in Nat /\ m \in Nat
  BY <1>1, RawAt
<1>5. PICK c : c = a \o b
  OBVIOUS
<1>6. /\ c \in Seq(Raw) /\ Len(c) = n + m
      /\ \A j \in 1..(n + m) : c[j] = IF j <= n THEN a[j] ELSE b[j - n]
  <2> HIDE DEF Raw
  <2> QED BY <1>1, <1>5, JoinFacts
<1>7. /\ f \in [0..n -> Int] /\ f[0] = 0
      /\ \A i \in 1..n : f[i] = f[i - 1] + a[i].size
      /\ g \in [0..m -> Int] /\ g[0] = 0
      /\ \A i \in 1..m : g[i] = g[i - 1] + b[i].size
  BY <1>1, <1>2, <1>3 DEF Sums
<1>8. f[n] \in Int
  BY <1>4, <1>7
<1>9. PICK h : h = [i \in 0..(n + m) |-> IF i <= n THEN f[i] ELSE f[n] + g[i - n]]
  OBVIOUS
<1>10. h \in [0..(n + m) -> Int]
  <2>1. ASSUME NEW i \in 0..(n + m) PROVE (IF i <= n THEN f[i] ELSE f[n] + g[i - n]) \in Int
    <3>1. CASE i <= n
      <4>1. i \in 0..n
        BY <1>4, <3>1
      <4> QED BY <1>7, <3>1, <4>1
    <3>2. CASE ~(i <= n)
      <4>1. i - n \in 0..m
        BY <1>4, <3>2
      <4>2. g[i - n] \in Int
        BY <1>7, <4>1
      <4> QED BY <1>8, <3>2, <4>2
    <3> QED BY <3>1, <3>2
  <2> QED BY <1>9, <2>1
<1>11. h[0] = 0
  BY <1>4, <1>7, <1>9
<1>12. ASSUME NEW i \in 1..(n + m) PROVE h[i] = h[i - 1] + c[i].size
  <2>1. i \in 0..(n + m) /\ i - 1 \in 0..(n + m)
    BY <1>4
  <2>2. CASE i <= n
    <3>1. i \in 1..n /\ i - 1 <= n
      BY <1>4, <2>2
    <3> QED BY <1>6, <1>7, <1>9, <2>1, <2>2, <3>1
  <2>3. CASE i = n + 1
    <3>1. ~(i <= n) /\ i - n = 1 /\ i - 1 = n /\ i - 1 <= n /\ 1 \in 1..m /\ 1 - 1 = 0
      BY <1>4, <2>3
    <3>2. h[i] = f[n] + g[1] /\ h[i - 1] = f[n] /\ c[i] = b[1]
      BY <1>6, <1>9, <2>1, <3>1
    <3>3. g[1] = 0 + b[1].size
      BY <1>7, <3>1
    <3>4. b[1].size \in Int
      BY <1>1, <3>1, RawAt
    <3> QED BY <1>8, <3>2, <3>3, <3>4
  <2>4. CASE i > n + 1
    <3>1. PICK j : j = i - n
      OBVIOUS
    <3>2. ~(i <= n) /\ ~(i - 1 <= n) /\ (i - 1) - n = j - 1 /\ j \in 1..m /\ j - 1 \in 0..m
      BY <1>4, <2>4, <3>1
    <3>3. h[i] = f[n] + g[j] /\ h[i - 1] = f[n] + g[j - 1] /\ c[i] = b[j]
      BY <1>6, <1>9, <2>1, <3>1, <3>2
    <3>4. g[j] = g[j - 1] + b[j].size /\ g[j - 1] \in Int
      BY <1>7, <3>2
    <3>5. b[j].size \in Int
      BY <1>1, <3>2, RawAt
    <3> QED BY <1>8, <3>3, <3>4, <3>5
  <2> QED BY <1>4, <2>2, <2>3, <2>4
<1>13. Sums(c, h)
  BY <1>6, <1>10, <1>11, <1>12 DEF Sums
<1>14. Space(c) = h[n + m]
  BY <1>6, <1>13, SpaceIs
<1>15. h[n + m] = f[n] + g[m]
  <2>1. CASE m = 0
    <3>1. n + m = n /\ n \in 0..(n + m)
      BY <1>4, <2>1
    <3> QED BY <1>7, <1>8, <1>9, <2>1, <3>1
  <2>2. CASE m # 0
    <3>1. ~(n + m <= n) /\ (n + m) - n = m /\ n + m \in 0..(n + m)
      BY <1>4, <2>2
    <3> QED BY <1>9, <3>1
  <2> QED BY <2>1, <2>2
<1> QED BY <1>2, <1>3, <1>5, <1>14, <1>15

LEMMA SpaceOne == ASSUME NEW t \in Raw PROVE Space(<<t>>) = t.size
<1>1. PICK o : o = <<t>>
  OBVIOUS
<1>2. o \in Seq(Raw) /\ Len(o) = 1 /\ o[1] = t
  <2> HIDE DEF Raw
  <2> QED BY <1>1
<1>3. t.size \in Int
  BY DEF Raw
<1>4. PICK f : f = [i \in 0..1 |-> IF i = 0 THEN 0 ELSE t.size]
  OBVIOUS
<1>5. f \in [0..1 -> Int] /\ f[0] = 0 /\ f[1] = t.size
  BY <1>3, <1>4
<1>6. \A i \in 1..1 : f[i] = f[i - 1] + o[i].size
  <2> TAKE i \in 1..1
  <2>1. i = 1 /\ i - 1 = 0
    OBVIOUS
  <2> QED BY <1>2, <1>3, <1>5, <2>1
<1>7. Sums(o, f)
  BY <1>2, <1>5, <1>6 DEF Sums
<1> QED BY <1>1, <1>2, <1>5, <1>7, SpaceIs

-----------------------------------------------------------------------------
LEMMA CutFacts ==
  ASSUME NEW S, NEW s \in Seq(S), NEW m \in 0..Len(s)
  PROVE  /\ SubSeq(s, 1, m) \in Seq(S) /\ Len(SubSeq(s, 1, m)) = m
         /\ \A j \in 1..m : SubSeq(s, 1, m)[j] = s[j]
         /\ SubSeq(s, m + 1, Len(s)) \in Seq(S) /\ Len(SubSeq(s, m + 1, Len(s))) = Len(s) - m
         /\ \A j \in 1..(Len(s) - m) : SubSeq(s, m + 1, Len(s))[j] = s[m + j]
         /\ SubSeq(s, 1, m) \o SubSeq(s, m + 1, Len(s)) = s
<1>0. PICK n : n = Len(s)
  OBVIOUS
<1>1. n \in Nat /\ m \in Nat /\ m <= n
  BY <1>0, LenProperties
<1>2. PICK a : a = SubSeq(s, 1, m)
  OBVIOUS
<1>3. a \in Seq(S) /\ Len(a) = m /\ \A j \in 1..m : a[j] = s[j]
  <2>1. 1 \in 1..(Len(s) + 1) /\ m \in (1 - 1)..Len(s)
    BY <1>0, <1>1
  <2>2. a \in Seq(S) /\ Len(a) = m - 1 + 1 /\ \A j \in 1..(m - 1 + 1) : a[j] = s[1 + j - 1]
    BY <1>2, <2>1, SliceFacts
  <2>3. m - 1 + 1 = m /\ \A j \in 1..m : 1 + j - 1 = j
    BY <1>1
  <2> QED BY <2>2, <2>3
<1>4. PICK b : b = SubSeq(s, m + 1, n)
  OBVIOUS
<1>5. b \in Seq(S) /\ Len(b) = n - m /\ \A j \in 1..(n - m) : b[j] = s[m + j]
  <2>1. PICK o : o = m + 1
    OBVIOUS
  <2>2. o \in 1..(Len(s) + 1) /\ n \in (o - 1)..Len(s)
    BY <1>0, <1>1, <2>1
  <2>3. b = SubSeq(s, o, n)
    BY <1>4, <2>1
  <2>4. b \in Seq(S) /\ Len(b) = n - o + 1 /\ \A j \in 1..(n - o + 1) : b[j] = s[o + j - 1]
    BY <2>2, <2>3, SliceFacts
  <2>5. n - o + 1 = n - m /\ \A j \in 1..(n - m) : o + j - 1 = m + j
    BY <1>1, <2>1
  <2> QED BY <2>4, <2>5
<1>6. a \o b = s
  <2>1. PICK c : c = a \o b
    OBVIOUS
  <2>2. /\ c \in Seq(S) /\ Len(c) = m + (n - m)
        /\ \A j \in 1..(m + (n - m)) : c[j] = IF j <= m THEN a[j] ELSE b[j - m]
    <3>1. /\ c \in Seq(S) /\ Len(c) = Len(a) + Len(b)
          /\ \A j \in 1..(Len(a) + Len(b)) : c[j] = IF j <= Len(a) THEN a[j] ELSE b[j - Len(a)]
      BY ONLY <1>3, <1>5, <2>1, JoinFacts
    <3> QED BY <1>3, <1>5, <3>1
  <2>3. m + (n - m) = n
    BY <1>1
  <2>4. \A j \in 1..n : c[j] = s[j]
    <3> TAKE j \in 1..n
    <3>1. CASE j <= m
      <4>1. j \in 1..m
        BY <1>1, <3>1
      <4> QED BY <1>3, <2>2, <2>3, <3>1, <4>1
    <3>2. CASE ~(j <= m)
      <4>1. j - m \in 1..(n - m) /\ m + (j - m) = j
        BY <1>1, <3>2
      <4> QED BY <1>5, <2>2, <2>3, <3>2, <4>1
    <3> QED BY <3>1, <3>2
  <2>5. c = s
    BY <1>0, <2>2, <2>3, <2>4, SeqEqual
  <2> QED BY <2>1, <2>5
<1> QED BY <1>0, <1>2, <1>3, <1>4, <1>5, <1>6

LEMMA SpaceCut ==
  ASSUME NEW ts \in Seq(Raw), NEW m \in 0..Len(ts)
  PROVE  Space(ts) = Space(SubSeq(ts, 1, m)) + Space(SubSeq(ts, m + 1, Len(ts)))
<1> HIDE DEF Raw
<1>1. PICK a, b : a = SubSeq(ts, 1, m) /\ b = SubSeq(ts, m + 1, Len(ts))
  OBVIOUS
<1>2. a \in Seq(Raw) /\ b \in Seq(Raw) /\ a \o b = ts
  BY <1>1, CutFacts
<1>3. Space(a \o b) = Space(a) + Space(b)
  BY <1>2, SpaceJoin
<1> QED BY <1>1, <1>2, <1>3

LEMMA SpaceInt == ASSUME NEW ts \in Seq(Raw) PROVE Space(ts) \in Int
<1>1. PICK f : Sums(ts, f) /\ Space(ts) = f[Len(ts)]
  BY SpaceSteps
<1> QED BY <1>1, SpaceIs

LEMMA SpaceInsert ==
  ASSUME NEW ts \in Seq(Raw), NEW i \in 1..(Len(ts) + 1), NEW t \in Raw
  PROVE  Space(InsertAt(ts, i, t)) = Space(ts) + t.size
<1> HIDE DEF Raw
<1>1. PICK m \in 0..Len(ts) : m = i - 1
  <2>1. Len(ts) \in Nat
    BY RawAt
  <2>2. i - 1 \in 0..Len(ts)
    BY <2>1
  <2> QED BY <2>2
<1>2. m + 1 = i
  BY <1>1
<1>3. PICK a, b, o : a = SubSeq(ts, 1, m) /\ b = SubSeq(ts, m + 1, Len(ts)) /\ o = <<t>>
  OBVIOUS
<1>4. a \in Seq(Raw) /\ b \in Seq(Raw) /\ o \in Seq(Raw)
  BY <1>3, CutFacts
<1>5. InsertAt(ts, i, t) = a \o o \o b
  BY <1>1, <1>2, <1>3 DEF InsertAt
<1>6. a \o o \in Seq(Raw)
  BY <1>4
<1>7. Space(a \o o) = Space(a) + Space(o) /\ Space(a \o o \o b) = Space(a \o o) + Space(b)
  BY <1>4, <1>6, SpaceJoin
<1>8. Space(o) = t.size /\ Space(ts) = Space(a) + Space(b)
  BY <1>3, SpaceOne, SpaceCut
<1>9. Space(a) \in Int /\ Space(b) \in Int /\ Space(o) \in Int
  BY <1>4, SpaceInt
<1> QED BY <1>5, <1>7, <1>8, <1>9

LEMMA SpaceRemove ==
  ASSUME NEW ts \in Seq(Raw), NEW i \in 1..Len(ts)
  PROVE  Space(ts) = Space(RemoveAt(ts, i)) + ts[i].size
<1> HIDE DEF Raw
<1>1. PICK n : n = Len(ts) /\ n \in Nat
  BY RawAt
<1>2. PICK m \in 0..Len(ts) : m = i - 1
  <2>1. i - 1 \in 0..Len(ts)
    BY <1>1
  <2> QED BY <2>1
<1>3. m + 1 = i /\ i \in 0..Len(ts)
  BY <1>1, <1>2
<1>4. PICK a, c : a = SubSeq(ts, 1, m) /\ c = SubSeq(ts, 1, i)
  OBVIOUS
<1>5. PICK b : b = SubSeq(ts, i + 1, Len(ts))
  OBVIOUS
<1>6. a \in Seq(Raw) /\ b \in Seq(Raw) /\ c \in Seq(Raw) /\ ts[i] \in Raw
  BY <1>3, <1>4, <1>5, CutFacts, RawAt
<1>7. RemoveAt(ts, i) = a \o b
  BY <1>2, <1>4, <1>5 DEF RemoveAt
<1>8. c = Append(a, ts[i]) /\ c = a \o <<ts[i]>>
  <2>1. Len(a) = m /\ (\A j \in 1..m : a[j] = ts[j]) /\ Len(c) = i /\ \A j \in 1..i : c[j] = ts[j]
    BY <1>3, <1>4, CutFacts
  <2>2. PICK d : d = Append(a, ts[i])
    OBVIOUS
  <2>3. d \in Seq(Raw) /\ Len(d) = m + 1 /\ d[m + 1] = ts[i] /\ \A j \in 1..m : d[j] = a[j]
    <3>1. /\ d \in Seq(Raw) /\ Len(d) = Len(a) + 1 /\ d[Len(a) + 1] = ts[i]
          /\ \A j \in 1..Len(a) : d[j] = a[j]
      BY ONLY <1>6, <2>2, AppendProperties
    <3> QED BY <2>1, <3>1
  <2>4. \A j \in 1..i : d[j] = c[j]
    <3> TAKE j \in 1..i
    <3>1. j \in 1..m \/ j = m + 1
      BY <1>2, <1>3
    <3> QED BY <1>3, <2>1, <2>3, <3>1
  <2>5. d = c
    BY <1>3, <1>6, <2>1, <2>3, <2>4, SeqEqual
  <2>6. d = a \o <<ts[i]>>
    BY <1>6, <2>2, AppendIsConcat
  <2> QED BY <2>2, <2>5, <2>6
<1>9. <<ts[i]>> \in Seq(Raw)
  BY <1>6
<1>10. Space(c) = Space(a) + Space(<<ts[i]>>) /\ Space(<<ts[i]>>) = ts[i].size
  BY <1>6, <1>8, <1>9, SpaceJoin, SpaceOne
<1>11. Space(ts) = Space(c) + Space(b) /\ Space(a \o b) = Space(a) + Space(b)
  BY <1>3, <1>4, <1>5, <1>6, SpaceCut, SpaceJoin
<1>12. Space(a) \in Int /\ Space(b) \in Int /\ ts[i].size \in Int
  BY <1>6, SpaceInt, RawAt
<1> QED BY <1>7, <1>10, <1>11, <1>12

\* The numbers of a set that has, with each, all those in front of it.
LEMMA FirstNumbers ==
  ASSUME NEW n \in Nat, NEW s \in SUBSET (1..n),
         \A i \in s : \A j \in 1..n : j <= i => j \in s
  PROVE  Cardinality(s) \in 0..n /\ \A i \in 1..n : i \in s <=> i <= Cardinality(s)
<1>1. CASE s = {}
  <2>1. Cardinality(s) = 0
    BY <1>1, FS_EmptySet
  <2>2. 0 \in 0..n /\ \A i \in 1..n : ~(i <= 0)
    OBVIOUS
  <2> QED BY <1>1, <2>1, <2>2
<1>2. CASE s # {}
  <2>1. PICK m : m = Max(s) /\ m \in s /\ \A y \in s : y <= m
    BY <1>2, MaxFacts
  <2>2. m \in 1..n
    BY <2>1
  <2>3. \A i \in 1..n : i \in s <=> i <= m
    BY <2>1, <2>2
  <2>4. s = 1..m
    <3>1. \A i \in s : i \in 1..m
      <4> TAKE i \in s
      <4>1. i \in 1..n /\ i <= m
        BY <2>1
      <4> QED BY <4>1
    <3>2. \A i \in 1..m : i \in s
      <4> TAKE i \in 1..m
      <4>1. i \in 1..n /\ i <= m
        BY <2>2
      <4> QED BY <2>3, <4>1
    <3> QED BY <3>1, <3>2
  <2>5. 1 \in Int /\ m \in Int /\ (IF 1 > m THEN 0 ELSE m - 1 + 1) = m
    BY <2>2
  <2>6. Cardinality(1..m) = m
    BY <2>5, FS_Interval
  <2> QED BY <2>2, <2>3, <2>4, <2>6
<1> QED BY <1>1, <1>2

LEMMA UpToIs ==
  ASSUME NEW keys, IsSeq(keys), NEW k \in Int,
         \A i \in 1..Len(keys) : keys[i] \in Int,
         \A i, j \in 1..Len(keys) : i < j => keys[i] < keys[j]
  PROVE  /\ UpTo(keys, k) \in 0..Len(keys)
         /\ \A i \in 1..Len(keys) : keys[i] <= k <=> i <= UpTo(keys, k)
<1>1. PICK n : n = Len(keys) /\ n \in Nat /\ DOMAIN keys = 1..n
  BY IsSeqLen
<1>2. PICK s : s = {i \in 1..n : keys[i] <= k}
  OBVIOUS
<1>3. UpTo(keys, k) = Cardinality(s)
  BY <1>1, <1>2 DEF UpTo
<1>4. ASSUME NEW i \in s, NEW j \in 1..n, j <= i PROVE j \in s
  <2>1. i \in 1..n /\ keys[i] <= k /\ keys[i] \in Int /\ keys[j] \in Int
    BY <1>1, <1>2
  <2>2. j = i \/ keys[j] < keys[i]
    BY <1>1, <1>4, <2>1
  <2> QED BY <1>2, <2>1, <2>2
<1>5. s \in SUBSET (1..n)
  BY <1>2
<1>6. Cardinality(s) \in 0..n /\ \A i \in 1..n : i \in s <=> i <= Cardinality(s)
  BY <1>1, <1>4, <1>5, FirstNumbers
<1> QED BY <1>1, <1>2, <1>3, <1>6

-----------------------------------------------------------------------------
\* Tuples as leaves have them: cut to what a leaf keeps at most, and to no less than
\* what it keeps at least.
Entry == [key : Keys, size : {s \in Nat : /\ 0 < s /\ s <= MAX_LEAF_PAGE_DATA
                                          /\ \E z \in Sizes : Least(MIN_LEAF_PAGE_DATA, z) <= s}]

LEMMA Limits ==
  /\ LEAF_SPACE \in Nat /\ SLOT_SIZE \in Nat /\ MIN_LEAF_PAGE_DATA \in Nat
  /\ MAX_LEAF_PAGE_DATA \in Nat /\ LEAF_UNDERFLOW_THRESHOLD \in Nat
  /\ SLOT_SIZE < MIN_LEAF_PAGE_DATA /\ MIN_LEAF_PAGE_DATA <= MAX_LEAF_PAGE_DATA
  /\ MIN_LEAF_PAGE_DATA + MAX_LEAF_PAGE_DATA <= LEAF_SPACE
  /\ 2 * LEAF_UNDERFLOW_THRESHOLD + MAX_LEAF_PAGE_DATA <= LEAF_SPACE
  /\ \A k \in Keys : k \in Nat /\ k \in Int
  /\ \A s \in Sizes : s \in Nat /\ s > SLOT_SIZE
<1>1. \A k \in Keys : k \in Nat /\ k \in Int
  BY BTreeAssumption
<1>2. \A s \in Sizes : s \in Nat /\ s > SLOT_SIZE
  BY BTreeAssumption
<1> QED BY <1>1, <1>2, BTreeAssumption

LEMMA EntryFacts ==
  /\ \A t \in Entry : /\ t \in Raw /\ t = [key |-> t.key, size |-> t.size]
                      /\ t.key \in Keys /\ t.key \in Nat /\ t.size \in Nat
                      /\ 0 < t.size /\ t.size <= MAX_LEAF_PAGE_DATA
                      /\ \E z \in Sizes : Least(MIN_LEAF_PAGE_DATA, z) <= t.size
  /\ Seq(Entry) \subseteq Seq(Raw)
<1>1. \A t \in Entry : /\ t = [key |-> t.key, size |-> t.size]
                       /\ t.key \in Keys /\ t.size \in Nat
                       /\ 0 < t.size /\ t.size <= MAX_LEAF_PAGE_DATA
                       /\ \E z \in Sizes : Least(MIN_LEAF_PAGE_DATA, z) <= t.size
  BY DEF Entry
<1>2. \A t \in Entry : t.key \in Nat /\ t \in Raw
  <2> TAKE t \in Entry
  <2>1. t.key \in Nat /\ t.key \in Int /\ t.size \in Int /\ t = [key |-> t.key, size |-> t.size]
    BY <1>1, Limits
  <2>2. [key |-> t.key, size |-> t.size] \in Raw
    BY <2>1 DEF Raw
  <2> QED BY <2>1, <2>2
<1>3. Entry \subseteq Raw
  BY <1>2
<1>4. Seq(Entry) \subseteq Seq(Raw)
  <2> HIDE DEF Entry, Raw
  <2> QED BY <1>3, SeqMonotonic
<1> QED BY <1>1, <1>2, <1>4

LEMMA EntriesAt ==
  ASSUME NEW ts \in Seq(Entry)
  PROVE  /\ Len(ts) \in Nat /\ DOMAIN ts = 1..Len(ts) /\ ts \in Seq(Raw)
         /\ \A i \in 1..Len(ts) : /\ ts[i] \in Entry /\ ts[i].key \in Keys /\ ts[i].key \in Nat
                                  /\ ts[i].size \in Nat /\ 0 < ts[i].size
                                  /\ ts[i].size <= MAX_LEAF_PAGE_DATA
<1> HIDE DEF Entry, Raw
<1>1. ts \in Seq(Raw) /\ Len(ts) \in Nat /\ DOMAIN ts = 1..Len(ts)
  BY EntryFacts, LenProperties
<1>2. \A i \in 1..Len(ts) : ts[i] \in Entry
  BY ElementOfSeq
<1> QED BY <1>1, <1>2, EntryFacts

LEMMA SpaceNat == ASSUME NEW ts \in Seq(Entry) PROVE Space(ts) \in Nat
<1>1. PICK n : n = Len(ts) /\ n \in Nat /\ ts \in Seq(Raw) /\ \A i \in 1..n : ts[i].size \in Nat
  BY EntriesAt
<1>2. PICK f : Sums(ts, f) /\ Space(ts) = f[n]
  BY <1>1, SpaceSteps
<1> DEFINE T == {i \in Nat : i <= n => f[i] \in Nat}
<1>3. 0 \in T
  BY <1>2 DEF Sums
<1>4. ASSUME NEW i \in Nat, i \in T PROVE i + 1 \in T
  <2> SUFFICES ASSUME i + 1 <= n PROVE f[i + 1] \in Nat
    OBVIOUS
  <2>1. i + 1 \in 1..n /\ (i + 1) - 1 = i /\ i <= n
    BY <1>1
  <2>2. f[i + 1] = f[i] + ts[i + 1].size
    BY <1>1, <1>2, <2>1 DEF Sums
  <2>3. f[i] \in Nat /\ ts[i + 1].size \in Nat
    BY <1>1, <1>4, <2>1
  <2> QED BY <2>2, <2>3
<1> HIDE DEF T
<1>5. n \in T
  BY <1>1, <1>3, <1>4, Induction
<1> QED BY <1>1, <1>2, <1>5 DEF T

LEMMA SpaceOfEach ==
  ASSUME NEW ts \in Seq(Entry), NEW i \in 1..Len(ts)
  PROVE  ts[i].size <= Space(ts) /\ 0 < Space(ts)
<1> HIDE DEF Entry, Raw
<1>1. RemoveAt(ts, i) \in Seq(Entry)
  BY RemoveFacts
<1>2. Space(ts) = Space(RemoveAt(ts, i)) + ts[i].size
  BY EntriesAt, SpaceRemove
<1>3. Space(RemoveAt(ts, i)) \in Nat /\ ts[i].size \in Nat /\ 0 < ts[i].size
  BY <1>1, SpaceNat, EntriesAt
<1> QED BY <1>2, <1>3

\* The keys of a leaf ascend, and lie in S.
Ascends(ts) == \A i, j \in 1..Len(ts) : i < j => ts[i].key < ts[j].key
Within(ts, S) == \A i \in 1..Len(ts) : ts[i].key \in S
Held(ts, S) == ts \in Seq(Entry) /\ Ascends(ts) /\ Within(ts, S)
Has(ts, k) == \E i \in 1..Len(ts) : ts[i].key = k
In(ts, t) == \E i \in 1..Len(ts) : ts[i] = t

\* A tuple is written in its place, with what room there is.
Room(ts, s) == Least(Least(s, MAX_LEAF_PAGE_DATA), LEAF_SPACE - Space(ts))

LEMMA RoomFacts ==
  ASSUME NEW ts, Space(ts) \in Int, NEW s \in Int
  PROVE  /\ Room(ts, s) \in Int /\ Room(ts, s) <= LEAF_SPACE - Space(ts)
         /\ Room(ts, s) <= MAX_LEAF_PAGE_DATA /\ Room(ts, s) <= s
         /\ 0 < s /\ Space(ts) < LEAF_SPACE => 0 < Room(ts, s)
         /\ s <= MAX_LEAF_PAGE_DATA /\ s <= LEAF_SPACE - Space(ts) => Room(ts, s) = s
         /\ Least(MIN_LEAF_PAGE_DATA, s) <= LEAF_SPACE - Space(ts)
              => Least(MIN_LEAF_PAGE_DATA, s) <= Room(ts, s)
<1>1. MIN_LEAF_PAGE_DATA \in Nat /\ MIN_LEAF_PAGE_DATA <= MAX_LEAF_PAGE_DATA /\ 0 < MAX_LEAF_PAGE_DATA /\ MAX_LEAF_PAGE_DATA \in Nat /\ LEAF_SPACE \in Nat
  BY Limits
<1> QED BY <1>1 DEF Room, Least

LEMMA WriteIs ==
  ASSUME NEW ts, NEW t, t = [key |-> t.key, size |-> t.size]
  PROVE  WriteChunkLeaf(ts, t) =
           InsertAt(ts, UpTo(KeysOf(ts), t.key) + 1, [key |-> t.key, size |-> Room(ts, t.size)])
<1>1. [t EXCEPT !.size = Room(ts, t.size)] = [key |-> t.key, size |-> Room(ts, t.size)]
  BY ONLY t = [key |-> t.key, size |-> t.size]
<1> QED BY <1>1 DEF WriteChunkLeaf, Room

LEMMA KeysOfSeq ==
  ASSUME NEW ts \in Seq(Raw)
  PROVE  /\ IsSeq(KeysOf(ts)) /\ Len(KeysOf(ts)) = Len(ts)
         /\ \A i \in 1..Len(ts) : KeysOf(ts)[i] = ts[i].key /\ KeysOf(ts)[i] \in Int
<1>1. PICK n : n = Len(ts) /\ n \in Nat /\ DOMAIN ts = 1..n /\ \A i \in 1..n : ts[i].key \in Int
  BY RawAt
<1>2. KeysOf(ts) = [i \in 1..n |-> ts[i].key]
  BY <1>1 DEF KeysOf
<1>3. KeysOf(ts) \in [1..n -> Int]
  BY <1>1, <1>2
<1>4. KeysOf(ts) \in Seq(Int) /\ Len(KeysOf(ts)) = n
  BY <1>1, <1>3
<1> QED BY <1>1, <1>2, <1>4, SeqIs

LEMMA WriteRaw ==
  ASSUME NEW ts \in Seq(Raw), NEW t \in Raw
  PROVE  WriteChunkLeaf(ts, t) \in Seq(Raw)
<1>1. t = [key |-> t.key, size |-> t.size] /\ t.key \in Int /\ t.size \in Int
  BY DEF Raw
<1>2. PICK u : u = UpTo(KeysOf(ts), t.key)
  OBVIOUS
<1>3. u \in 0..Len(ts) /\ Len(ts) \in Nat
  BY <1>2, KeysOfSeq, UpToFacts, RawAt
<1>4. Room(ts, t.size) \in Int
  BY <1>1, SpaceInt, RoomFacts
<1>5. PICK r : r = [key |-> t.key, size |-> Room(ts, t.size)]
  OBVIOUS
<1>6. r \in Raw
  BY <1>1, <1>4, <1>5 DEF Raw
<1>7. PICK i \in 1..(Len(ts) + 1) : i = u + 1
  BY <1>3
<1> HIDE DEF Raw
<1>8. InsertAt(ts, i, r) \in Seq(Raw)
  BY <1>6, InsertFacts
<1> QED BY <1>1, <1>2, <1>5, <1>7, <1>8, WriteIs

\* Into a leaf in which the key is missing and that has room.
Writing(ts, S, k, s, w) ==
  /\ Held(ts, S) /\ k \in Keys /\ k \in S /\ ~Has(ts, k) /\ s \in Sizes
  /\ Least(MIN_LEAF_PAGE_DATA, s) <= LEAF_SPACE - Space(ts)
  /\ w = WriteChunkLeaf(ts, [key |-> k, size |-> s])

\* The tuple is behind the first u, cut to the room there was.
PutBehind(u, ts, k, s, w) ==
  /\ u \in 0..Len(ts) /\ w = InsertAt(ts, u + 1, [key |-> k, size |-> Room(ts, s)])
  /\ \A i \in 1..Len(ts) : ts[i].key <= k <=> i <= u
Wrote(ts, S, k, s, w) ==
  /\ Held(w, S) /\ Space(w) <= LEAF_SPACE /\ Space(w) = Space(ts) + Room(ts, s)
  /\ \A x : Has(w, x) <=> Has(ts, x) \/ x = k
  /\ \E u : PutBehind(u, ts, k, s, w)

LEMMA HeldWrite ==
  ASSUME NEW S, NEW ts, NEW k, NEW s, NEW w, Writing(ts, S, k, s, w)
  PROVE  Wrote(ts, S, k, s, w)
<1> k \in Keys /\ s \in Sizes /\ Held(ts, S) /\ k \in S /\ ~Has(ts, k)
  BY DEF Writing
<1> /\ Least(MIN_LEAF_PAGE_DATA, s) <= LEAF_SPACE - Space(ts)
    /\ w = WriteChunkLeaf(ts, [key |-> k, size |-> s])
  BY DEF Writing
<1>0. ts \in Seq(Entry) /\ ts \in Seq(Raw) /\ Ascends(ts) /\ Within(ts, S) /\ Space(ts) \in Nat
  BY EntriesAt, SpaceNat DEF Held
<1>1. PICK n : n = Len(ts) /\ n \in Nat /\ \A i \in 1..n : ts[i].key \in Nat /\ ts[i] \in Entry
  BY <1>0, EntriesAt
<1>2. PICK u : u = UpTo(KeysOf(ts), k)
  OBVIOUS
<1>3. k \in Int /\ k \in Nat
  BY Limits
<1>4. u \in 0..n /\ \A i \in 1..n : ts[i].key <= k <=> i <= u
  <2>1. PICK keys : keys = KeysOf(ts)
    OBVIOUS
  <2>2. IsSeq(keys) /\ Len(keys) = n /\ \A i \in 1..n : keys[i] = ts[i].key /\ keys[i] \in Int
    BY <1>0, <1>1, <2>1, KeysOfSeq
  <2>3. \A i, j \in 1..Len(keys) : i < j => keys[i] < keys[j]
    BY <1>0, <1>1, <2>2 DEF Ascends
  <2>4. \A i \in 1..Len(keys) : keys[i] \in Int
    BY <2>2
  <2>5. UpTo(keys, k) \in 0..Len(keys) /\ \A i \in 1..Len(keys) : keys[i] <= k <=> i <= UpTo(keys, k)
    BY <1>3, <2>2, <2>3, <2>4, UpToIs
  <2> QED BY <1>2, <2>1, <2>2, <2>5
<1>5. PICK z : z = Room(ts, s)
  OBVIOUS
<1>6. /\ z \in Nat /\ 0 < z /\ z <= MAX_LEAF_PAGE_DATA /\ z <= LEAF_SPACE - Space(ts)
      /\ Least(MIN_LEAF_PAGE_DATA, s) <= z
  <2>1. s \in Nat /\ 0 < s /\ s \in Int /\ 0 < MIN_LEAF_PAGE_DATA /\ MIN_LEAF_PAGE_DATA \in Nat
        /\ LEAF_SPACE \in Nat
    BY Limits
  <2>2. 0 < Least(MIN_LEAF_PAGE_DATA, s) /\ Least(MIN_LEAF_PAGE_DATA, s) \in Int
    BY <2>1 DEF Least
  <2>3. Space(ts) < LEAF_SPACE /\ Space(ts) \in Int
    BY <1>0, <2>1, <2>2
  <2>4. z \in Int /\ z <= MAX_LEAF_PAGE_DATA /\ z <= LEAF_SPACE - Space(ts) /\ 0 < z
        /\ Least(MIN_LEAF_PAGE_DATA, s) <= z
    BY <1>5, <2>1, <2>3, RoomFacts
  <2> QED BY <2>4
<1>7. PICK r : r = [key |-> k, size |-> z]
  OBVIOUS
<1>8. r \in Entry /\ r.key = k /\ r.size = z
  BY <1>6, <1>7 DEF Entry
<1>9. w = InsertAt(ts, u + 1, r)
  <2>1. PICK t : t = [key |-> k, size |-> s]
    OBVIOUS
  <2>2. t.key = k /\ t.size = s /\ t = [key |-> t.key, size |-> t.size]
    BY <2>1
  <2>3. WriteChunkLeaf(ts, t) = InsertAt(ts, UpTo(KeysOf(ts), t.key) + 1, [key |-> t.key, size |-> Room(ts, t.size)])
    BY <2>2, WriteIs
  <2> QED BY <1>2, <1>5, <1>7, <2>1, <2>2, <2>3
<1>10. PICK i : i = u + 1
  OBVIOUS
<1>11. i \in 1..(Len(ts) + 1) /\ i \in 1..(n + 1)
  BY <1>1, <1>4, <1>10
<1> HIDE DEF Entry, Raw
<1>12. /\ w \in Seq(Entry) /\ Len(w) = n + 1
       /\ \A j \in 1..(n + 1) : w[j] = IF j < i THEN ts[j] ELSE IF j = i THEN r ELSE ts[j - 1]
  <2>1. w = InsertAt(ts, i, r)
    BY <1>9, <1>10
  <2>2. /\ w \in Seq(Entry) /\ Len(w) = Len(ts) + 1
        /\ \A j \in 1..(Len(ts) + 1) : w[j] = IF j < i THEN ts[j] ELSE IF j = i THEN r ELSE ts[j - 1]
    <3>1. ts \in Seq(Entry) /\ r \in Entry /\ i \in 1..(Len(ts) + 1)
      BY <1>0, <1>8, <1>11
    <3>2. InsertedAt(Entry, ts, i, r, w)
      BY ONLY <2>1, <3>1, InsertIs
    <3> QED BY <3>2 DEF InsertedAt
  <2> QED BY <1>1, <2>2
<1>13. Space(w) = Space(ts) + z
  BY <1>0, <1>8, <1>9, <1>10, <1>11, SpaceInsert, EntryFacts
<1>14. \A j \in 1..n : (j < i => ts[j].key < k) /\ (i <= j => k < ts[j].key)
  <2> TAKE j \in 1..n
  <2>1. ts[j].key # k /\ ts[j].key \in Nat
    BY <1>1 DEF Has
  <2>2. (j < i <=> j <= u) /\ (i <= j <=> ~(j <= u))
    BY <1>4, <1>10
  <2> QED BY <1>3, <1>4, <2>1, <2>2
<1>15. Ascends(w)
  <2> SUFFICES ASSUME NEW p \in 1..(n + 1), NEW q \in 1..(n + 1), p < q PROVE w[p].key < w[q].key
    BY <1>12 DEF Ascends
  <2>1. CASE q < i
    <3>1. p \in 1..n /\ q \in 1..n /\ p < i
      BY <1>1, <1>11, <2>1
    <3>2. w[p] = ts[p] /\ w[q] = ts[q]
      BY <1>12, <2>1, <3>1
    <3>3. ts[p].key < ts[q].key
      BY <1>0, <1>1, <3>1 DEF Ascends
    <3> QED BY <3>2, <3>3
  <2>2. CASE q = i
    <3>1. p \in 1..n /\ p < i /\ ~(q < i)
      BY <1>1, <1>11, <2>2
    <3>2. w[p] = ts[p] /\ w[q] = r
      BY <1>12, <2>2, <3>1
    <3> QED BY <1>8, <1>14, <3>1, <3>2
  <2>3. CASE p = i
    <3>1. q - 1 \in 1..n /\ i <= q - 1 /\ ~(q < i) /\ q # i /\ ~(p < i)
      BY <1>1, <1>11, <2>3
    <3>2. w[p] = r /\ w[q] = ts[q - 1]
      BY <1>12, <2>3, <3>1
    <3> QED BY <1>8, <1>14, <3>1, <3>2
  <2>4. CASE p < i /\ i < q
    <3>1. p \in 1..n /\ q - 1 \in 1..n /\ p < q - 1 /\ ~(q < i) /\ q # i
      BY <1>1, <1>11, <2>4
    <3>2. w[p] = ts[p] /\ w[q] = ts[q - 1]
      BY <1>12, <2>4, <3>1
    <3>3. ts[p].key < ts[q - 1].key
      BY <1>0, <1>1, <3>1 DEF Ascends
    <3> QED BY <3>2, <3>3
  <2>5. CASE i < p
    <3>1. p - 1 \in 1..n /\ q - 1 \in 1..n /\ p - 1 < q - 1 /\ ~(q < i) /\ q # i /\ ~(p < i) /\ p # i
      BY <1>1, <1>11, <2>5
    <3>2. w[p] = ts[p - 1] /\ w[q] = ts[q - 1]
      BY <1>12, <3>1
    <3>3. ts[p - 1].key < ts[q - 1].key
      BY <1>0, <1>1, <3>1 DEF Ascends
    <3> QED BY <3>2, <3>3
  <2> QED BY <1>11, <2>1, <2>2, <2>3, <2>4, <2>5
<1>16. \A x : Has(w, x) <=> Has(ts, x) \/ x = k
  <2> TAKE x
  <2>1. ASSUME Has(w, x) PROVE Has(ts, x) \/ x = k
    <3>1. PICK j \in 1..(n + 1) : w[j].key = x
      BY <1>12, <2>1 DEF Has
    <3>2. CASE j < i
      <4>1. j \in 1..n
        BY <1>1, <1>11, <3>2
      <4> QED BY <1>1, <1>12, <3>1, <3>2, <4>1 DEF Has
    <3>3. CASE j = i
      <4>1. w[j] = r
        BY <1>12, <3>3
      <4> QED BY <1>8, <3>1, <4>1
    <3>4. CASE i < j
      <4>1. j - 1 \in 1..n /\ ~(j < i) /\ j # i
        BY <1>1, <1>11, <3>4
      <4> QED BY <1>1, <1>12, <3>1, <4>1 DEF Has
    <3> QED BY <1>11, <3>2, <3>3, <3>4
  <2>2. ASSUME Has(ts, x) PROVE Has(w, x)
    <3>1. PICK j \in 1..n : ts[j].key = x
      BY <1>1, <2>2 DEF Has
    <3>2. CASE j < i
      <4>1. j \in 1..(n + 1)
        BY <1>1
      <4> QED BY <1>12, <3>1, <3>2, <4>1 DEF Has
    <3>3. CASE ~(j < i)
      <4>1. j + 1 \in 1..(n + 1) /\ ~(j + 1 < i) /\ j + 1 # i /\ (j + 1) - 1 = j
        BY <1>1, <1>11, <3>3
      <4>2. w[j + 1] = ts[j]
        BY <1>12, <4>1
      <4> QED BY <1>12, <3>1, <4>1, <4>2 DEF Has
    <3> QED BY <3>2, <3>3
  <2>3. Has(w, k)
    <3>1. w[i] = r
      BY <1>11, <1>12
    <3> QED BY <1>8, <1>11, <1>12, <3>1 DEF Has
  <2> QED BY <2>1, <2>2, <2>3
<1>17. Within(w, S)
  <2> SUFFICES ASSUME NEW j \in 1..(n + 1) PROVE w[j].key \in S
    BY <1>12 DEF Within
  <2>1. Has(w, w[j].key)
    BY <1>12 DEF Has
  <2>2. CASE w[j].key = k
    BY <2>2
  <2>3. CASE Has(ts, w[j].key)
    BY <1>0, <2>3 DEF Within, Has
  <2> QED BY <1>16, <2>1, <2>2, <2>3
<1>18. Space(w) <= LEAF_SPACE
  <2>1. LEAF_SPACE \in Nat
    BY Limits
  <2> QED BY <1>0, <1>6, <1>13, <2>1
<1>19. Held(w, S)
  BY <1>12, <1>15, <1>17 DEF Held
<1>20. PutBehind(u, ts, k, s, w)
  BY <1>1, <1>4, <1>5, <1>7, <1>9 DEF PutBehind
<1> QED BY <1>5, <1>13, <1>16, <1>18, <1>19, <1>20 DEF Wrote

-----------------------------------------------------------------------------
\* Tuples that are written one after the other.

LEMMA WriteAllSteps ==
  ASSUME NEW ts \in Seq(Raw), NEW s \in Seq(Raw)
  PROVE  \E h : /\ h[0] = ts
                /\ \A i \in 1..Len(s) : h[i] = WriteChunkLeaf(h[i - 1], s[i])
                /\ WriteAll(ts, s) = h[Len(s)]
<1>1. PICK n : n = Len(s)
  OBVIOUS
<1>2. n \in Nat /\ DOMAIN s = 1..n /\ \A i \in 1..n : s[i] \in Raw
  BY <1>1, RawAt
<1> DEFINE Dom == SUBSET (1..n)
           V == Seq(Raw)
           body(f) == [x \in Dom |-> IF x = {} THEN ts ELSE WriteChunkLeaf(f[x \ {Max(x)}], s[Max(x)])]
           iter == CHOOSE f : f = body(f)
           G == [a \in V |-> [i \in 1..n |-> WriteChunkLeaf(a, s[i])]]
<1>3. WriteAll(ts, s) = iter[1..n]
  BY <1>2 DEF WriteAll, FoldLeft, MapThenFoldSet
<1>4. \E f : f = body(f)
  <2>0. \A a \in V : \A i \in 1..n : WriteChunkLeaf(a, s[i]) \in V
    BY <1>2, WriteRaw
  <2>1. G \in [V -> [1..n -> V]]
    BY <2>0
  <2>2. \A a \in V : \A i \in 1..n : G[a][i] = WriteChunkLeaf(a, s[i])
    OBVIOUS
  <2> HIDE DEF G, V
  <2>3. PICK f : Folds(f, n, V, ts, G)
    <3>1. ts \in V /\ n \in Nat
      BY <1>2 DEF V
    <3> QED BY ONLY <2>1, <3>1, FoldExists
  <2>4. f \in [Dom -> V] /\ \A x \in Dom : f[x] = IF x = {} THEN ts ELSE G[f[x \ {Max(x)}]][Max(x)]
    BY <2>3 DEF Folds
  <2>5. \A x \in Dom : f[x] = IF x = {} THEN ts ELSE WriteChunkLeaf(f[x \ {Max(x)}], s[Max(x)])
    <3> TAKE x \in Dom
    <3>1. CASE x # {}
      <4>1. Max(x) \in 1..n /\ x \ {Max(x)} \in Dom
        BY <1>2, <3>1, MaxFacts
      <4>2. f[x \ {Max(x)}] \in V
        BY <2>4, <4>1
      <4>3. G[f[x \ {Max(x)}]][Max(x)] = WriteChunkLeaf(f[x \ {Max(x)}], s[Max(x)])
        BY <2>2, <4>1, <4>2
      <4>4. f[x] = G[f[x \ {Max(x)}]][Max(x)]
        BY <2>4, <3>1
      <4> QED BY <3>1, <4>3, <4>4
    <3>2. CASE x = {}
      BY <2>4, <3>2
    <3> QED BY <3>1, <3>2
  <2>6. f = [x \in Dom |-> f[x]]
    BY <2>4
  <2>7. f = body(f)
    BY <2>5, <2>6
  <2> QED BY <2>7
<1>5. iter = body(iter)
  BY <1>4
<1> HIDE DEF iter
<1>6. \A x \in Dom : iter[x] = IF x = {} THEN ts ELSE WriteChunkLeaf(iter[x \ {Max(x)}], s[Max(x)])
  BY <1>5
<1>7. PICK h : h = [i \in 0..n |-> iter[1..i]]
  OBVIOUS
<1>8. h[0] = ts
  <2>1. 1..0 = {} /\ 0 \in 0..n
    BY <1>2
  <2> QED BY <1>6, <1>7, <2>1
<1>9. ASSUME NEW i \in 1..n PROVE h[i] = WriteChunkLeaf(h[i - 1], s[i])
  <2>4. i \in Nat /\ i # 0 /\ i \in 0..n /\ i - 1 \in 0..n
    BY <1>2
  <2>5. \A j \in 1..i : j \in 1..n
    BY <1>2
  <2>6. 1..i \in Dom /\ 1 \in 1..i
    BY <2>4, <2>5
  <2>2. Max(1..i) = i /\ (1..i) \ {i} = 1..(i - 1)
    BY <2>4, MaxOfFirst
  <2>3. iter[1..i] = WriteChunkLeaf(iter[(1..i) \ {Max(1..i)}], s[Max(1..i)])
    BY <1>6, <2>6
  <2> QED BY <1>7, <2>4, <2>2, <2>3
<1>10. h[n] = iter[1..n]
  BY <1>2, <1>7
<1> QED BY <1>1, <1>3, <1>8, <1>9, <1>10

\* A whole tuple, in a leaf with the room for it.
LEMMA WriteWhole ==
  ASSUME NEW a \in Seq(Entry), Ascends(a), NEW t \in Entry, NEW u \in 0..Len(a),
         \A i \in 1..Len(a) : a[i].key <= t.key <=> i <= u,
         Space(a) + t.size <= LEAF_SPACE
  PROVE  WriteChunkLeaf(a, t) = InsertAt(a, u + 1, t)
<1>1. t = [key |-> t.key, size |-> t.size] /\ t.key \in Nat /\ t.size \in Nat /\ t.size <= MAX_LEAF_PAGE_DATA
  BY EntryFacts
<1>2. PICK n : n = Len(a) /\ n \in Nat /\ a \in Seq(Raw) /\ \A i \in 1..n : a[i].key \in Nat
  BY EntriesAt
<1>3. PICK keys : keys = KeysOf(a)
  OBVIOUS
<1>4. IsSeq(keys) /\ Len(keys) = n /\ \A i \in 1..n : keys[i] = a[i].key /\ keys[i] \in Int
  BY <1>2, <1>3, KeysOfSeq
<1>5. \A i, j \in 1..Len(keys) : i < j => keys[i] < keys[j]
  BY <1>2, <1>4 DEF Ascends
<1>6. \A i \in 1..Len(keys) : keys[i] \in Int
  BY <1>4
<1>7. t.key \in Int
  BY <1>1
<1>8. UpTo(keys, t.key) \in 0..Len(keys) /\ \A i \in 1..Len(keys) : keys[i] <= t.key <=> i <= UpTo(keys, t.key)
  BY <1>4, <1>5, <1>6, <1>7, UpToIs
<1>9. PICK v : v = UpTo(keys, t.key)
  OBVIOUS
<1>10. v = u
  <2>1. v \in 0..n /\ u \in 0..n /\ \A i \in 1..n : i <= v <=> i <= u
    BY <1>2, <1>4, <1>8, <1>9
  <2>2. v > u => v \in 1..n /\ v <= v /\ ~(v <= u)
    BY <2>1
  <2>3. u > v => u \in 1..n /\ u <= u /\ ~(u <= v)
    BY <2>1
  <2>4. ~(v > u) /\ ~(u > v)
    BY <2>1, <2>2, <2>3
  <2> QED BY <2>1, <2>4
<1>11. Room(a, t.size) = t.size
  <2>1. Space(a) \in Nat /\ LEAF_SPACE \in Nat
    BY SpaceNat, Limits
  <2>2. t.size <= LEAF_SPACE - Space(a) /\ Space(a) \in Int /\ t.size \in Int
    BY <1>1, <2>1
  <2> QED BY <1>1, <2>2, RoomFacts
<1> QED BY <1>1, <1>3, <1>9, <1>10, <1>11, WriteIs

\* One more of c.
LEMMA WriteNext ==
  ASSUME NEW c \in Seq(Entry), Ascends(c), Space(c) <= LEAF_SPACE, NEW m \in 0..Len(c), m < Len(c)
  PROVE  WriteChunkLeaf(SubSeq(c, 1, m), c[m + 1]) = SubSeq(c, 1, m + 1)
<1> HIDE DEF Entry, Raw
<1>1. PICK n : n = Len(c) /\ n \in Nat /\ c \in Seq(Raw) /\ \A i \in 1..n : c[i] \in Entry /\ c[i].key \in Nat /\ c[i].size \in Nat
  BY EntriesAt
<1>2. PICK o \in 0..Len(c) : o = m + 1
  BY <1>1
<1>3. PICK a, b, t : a = SubSeq(c, 1, m) /\ b = SubSeq(c, 1, o) /\ t = c[o]
  OBVIOUS
<1>4. a \in Seq(Entry) /\ Len(a) = m /\ \A j \in 1..m : a[j] = c[j]
  BY <1>3, CutFacts
<1>5. b \in Seq(Entry) /\ Len(b) = o /\ \A j \in 1..o : b[j] = c[j]
  BY <1>3, CutFacts
<1>6. o \in 1..n /\ t \in Entry /\ t.key \in Nat /\ t.size \in Nat /\ m \in Nat
  BY <1>1, <1>2, <1>3
<1>7. PICK i : i = o
  OBVIOUS
<1>8. PICK d : d = InsertAt(a, i, t)
  OBVIOUS
<1>9. d \in Seq(Entry) /\ Len(d) = Len(a) + 1 /\ \A j \in 1..(Len(a) + 1) :
         d[j] = IF j < i THEN a[j] ELSE IF j = i THEN t ELSE a[j - 1]
  <2>1. a \in Seq(Entry) /\ t \in Entry /\ i \in 1..(Len(a) + 1)
    BY <1>1, <1>2, <1>4, <1>6, <1>7
  <2>2. d = InsertAt(a, i, t)
    BY <1>8
  <2>3. InsertedAt(Entry, a, i, t, d)
    BY ONLY <2>1, <2>2, InsertIs
  <2> QED BY <2>3 DEF InsertedAt
<1>10. d = b
  <2>1. \A j \in 1..o : d[j] = b[j]
    <3> TAKE j \in 1..o
    <3>1. j \in 1..(Len(a) + 1) /\ (j < i => j \in 1..m) /\ (j = i \/ j < i)
      BY <1>2, <1>4, <1>6, <1>7
    <3> QED BY <1>3, <1>4, <1>5, <1>7, <1>9, <3>1
  <2>2. Len(d) = o
    BY <1>2, <1>4, <1>9
  <2> QED BY <1>5, <1>9, <2>1, <2>2, SeqEqual
<1>11. Space(b) = Space(a) + t.size
  <2>1. a \in Seq(Raw) /\ t \in Raw
    BY <1>4, <1>6, EntryFacts
  <2>2. i \in 1..(Len(a) + 1)
    BY <1>1, <1>2, <1>4, <1>6, <1>7
  <2>3. Space(InsertAt(a, i, t)) = Space(a) + t.size
    BY ONLY <2>1, <2>2, SpaceInsert
  <2> QED BY <1>8, <1>10, <2>3
<1>12. Space(a) + t.size <= LEAF_SPACE
  <2>1. Space(c) = Space(b) + Space(SubSeq(c, o + 1, Len(c)))
    BY <1>1, <1>3, SpaceCut
  <2>2. SubSeq(c, o + 1, Len(c)) \in Seq(Entry)
    BY CutFacts
  <2>3. Space(SubSeq(c, o + 1, Len(c))) \in Nat /\ Space(a) \in Nat /\ LEAF_SPACE \in Nat /\ Space(b) \in Nat
    BY <1>4, <1>5, <2>2, SpaceNat, Limits
  <2> QED BY <1>11, <2>1, <2>3
<1>13. Ascends(a)
  <2>1. \A j \in 1..m : j \in 1..n
    BY <1>1, <1>6
  <2> QED BY <1>1, <1>4, <2>1 DEF Ascends
<1>14. \A j \in 1..Len(a) : a[j].key <= t.key <=> j <= m
  <2> TAKE j \in 1..Len(a)
  <2>1. j \in 1..m /\ j \in 1..n /\ j < o /\ j <= m
    BY <1>1, <1>2, <1>4, <1>6
  <2>2. c[j].key < c[o].key /\ c[j].key \in Nat /\ c[o].key \in Nat
    BY <1>1, <1>6, <2>1 DEF Ascends
  <2> QED BY <1>3, <1>4, <2>1, <2>2
<1>15. WriteChunkLeaf(a, t) = InsertAt(a, m + 1, t)
  <2>1. m \in 0..Len(a)
    BY <1>4, <1>6
  <2> QED BY <1>4, <1>6, <1>12, <1>13, <1>14, <2>1, WriteWhole
<1> QED BY <1>2, <1>3, <1>7, <1>8, <1>10, <1>15

LEMMA WritePrevious ==
  ASSUME NEW c \in Seq(Entry), Ascends(c), Space(c) <= LEAF_SPACE, NEW m \in 0..Len(c), 0 < m
  PROVE  WriteChunkLeaf(SubSeq(c, m + 1, Len(c)), c[m]) = SubSeq(c, m, Len(c))
<1> HIDE DEF Entry, Raw
<1>1. PICK n : n = Len(c) /\ n \in Nat /\ c \in Seq(Raw) /\ \A i \in 1..n : c[i] \in Entry /\ c[i].key \in Nat /\ c[i].size \in Nat
  BY EntriesAt
<1>2. PICK o \in 0..Len(c) : o = m - 1
  BY <1>1
<1>3. PICK a, b, t : a = SubSeq(c, m + 1, Len(c)) /\ b = SubSeq(c, o + 1, Len(c)) /\ t = c[m]
  OBVIOUS
<1>4. a \in Seq(Entry) /\ Len(a) = n - m /\ \A j \in 1..(n - m) : a[j] = c[m + j]
  BY <1>1, <1>3, CutFacts
<1>5. b \in Seq(Entry) /\ Len(b) = n - o /\ \A j \in 1..(n - o) : b[j] = c[o + j]
  BY <1>1, <1>3, CutFacts
<1>6. m \in 1..n /\ t \in Entry /\ t.key \in Nat /\ t.size \in Nat /\ m \in Nat /\ o \in Nat /\ m = o + 1
  BY <1>1, <1>2, <1>3
<1>7. PICK i : i = 1
  OBVIOUS
<1>8. PICK d : d = InsertAt(a, i, t)
  OBVIOUS
<1>9. d \in Seq(Entry) /\ Len(d) = Len(a) + 1 /\ \A j \in 1..(Len(a) + 1) :
         d[j] = IF j < i THEN a[j] ELSE IF j = i THEN t ELSE a[j - 1]
  <2>1. a \in Seq(Entry) /\ t \in Entry /\ i \in 1..(Len(a) + 1)
    BY <1>1, <1>2, <1>4, <1>6, <1>7
  <2>2. d = InsertAt(a, i, t)
    BY <1>8
  <2>3. InsertedAt(Entry, a, i, t, d)
    BY ONLY <2>1, <2>2, InsertIs
  <2> QED BY <2>3 DEF InsertedAt
<1>10. d = b
  <2>2. Len(d) = n - o
    BY <1>1, <1>4, <1>6, <1>9
  <2>1. \A j \in 1..(n - o) : d[j] = b[j]
    <3> TAKE j \in 1..(n - o)
    <3>1. j \in 1..(Len(a) + 1) /\ ~(j < i)
      BY <1>1, <1>4, <1>6, <1>7
    <3>2. CASE j = 1
      <4>1. o + j = m
        BY <1>6, <3>2
      <4> QED BY <1>3, <1>5, <1>7, <1>9, <3>1, <3>2, <4>1
    <3>3. CASE j # 1
      <4>1. j - 1 \in 1..(n - m) /\ m + (j - 1) = o + j
        BY <1>1, <1>6, <3>3
      <4> QED BY <1>4, <1>5, <1>7, <1>9, <3>1, <3>3, <4>1
    <3> QED BY <3>2, <3>3
  <2> QED BY <1>5, <1>9, <2>1, <2>2, SeqEqual
<1>11. Space(b) = Space(a) + t.size
  <2>1. a \in Seq(Raw) /\ t \in Raw
    BY <1>4, <1>6, EntryFacts
  <2>2. i \in 1..(Len(a) + 1)
    BY <1>1, <1>2, <1>4, <1>6, <1>7
  <2>3. Space(InsertAt(a, i, t)) = Space(a) + t.size
    BY ONLY <2>1, <2>2, SpaceInsert
  <2> QED BY <1>8, <1>10, <2>3
<1>12. Space(a) + t.size <= LEAF_SPACE
  <2>1. Space(c) = Space(SubSeq(c, 1, o)) + Space(b)
    BY <1>1, <1>3, SpaceCut
  <2>2. SubSeq(c, 1, o) \in Seq(Entry)
    BY CutFacts
  <2>3. Space(SubSeq(c, 1, o)) \in Nat /\ Space(a) \in Nat /\ LEAF_SPACE \in Nat /\ Space(b) \in Nat
    BY <1>4, <1>5, <2>2, SpaceNat, Limits
  <2> QED BY <1>11, <2>1, <2>3
<1>13. Ascends(a)
  <2>1. \A j \in 1..(n - m) : m + j \in 1..n
    BY <1>1, <1>6
  <2>2. ASSUME NEW p \in 1..(n - m), NEW q \in 1..(n - m), p < q PROVE a[p].key < a[q].key
    <3>1. m + p \in 1..n /\ m + q \in 1..n /\ m + p < m + q
      BY <1>1, <1>6, <2>1, <2>2
    <3> QED BY <1>1, <1>4, <3>1 DEF Ascends
  <2> QED BY <1>4, <2>2 DEF Ascends
<1>14. \A j \in 1..Len(a) : a[j].key <= t.key <=> j <= 0
  <2> TAKE j \in 1..Len(a)
  <2>1. j \in 1..(n - m) /\ m + j \in 1..n /\ m < m + j /\ ~(j <= 0)
    BY <1>1, <1>4, <1>6
  <2>2. c[m].key < c[m + j].key /\ c[m].key \in Nat /\ c[m + j].key \in Nat
    BY <1>1, <1>6, <2>1 DEF Ascends
  <2>3. a[j] = c[m + j] /\ t = c[m]
    BY <1>3, <1>4, <2>1
  <2>4. t.key < a[j].key /\ t.key \in Nat /\ a[j].key \in Nat
    BY <2>2, <2>3
  <2> QED BY <2>1, <2>4
<1>15. WriteChunkLeaf(a, t) = InsertAt(a, 0 + 1, t)
  <2>1. 0 \in 0..Len(a)
    BY <1>1, <1>4, <1>6
  <2> QED BY <1>4, <1>6, <1>12, <1>13, <1>14, <2>1, WriteWhole
<1> QED BY <1>3, <1>6, <1>7, <1>8, <1>10, <1>15

-----------------------------------------------------------------------------
LEMMA WriteAllBehind ==
  ASSUME NEW ts \in Seq(Entry), NEW s \in Seq(Entry), Ascends(ts \o s),
         Space(ts) + Space(s) <= LEAF_SPACE
  PROVE  WriteAll(ts, s) = ts \o s
<1> HIDE DEF Entry, Raw
<1>1. PICK n, m : n = Len(ts) /\ m = Len(s)
  OBVIOUS
<1>2. n \in Nat /\ m \in Nat /\ ts \in Seq(Raw) /\ s \in Seq(Raw)
  BY <1>1, EntriesAt
<1>3. PICK c : c = ts \o s
  OBVIOUS
<1>4. /\ c \in Seq(Entry) /\ Len(c) = n + m
      /\ \A j \in 1..(n + m) : c[j] = IF j <= n THEN ts[j] ELSE s[j - n]
  <2>1. /\ c \in Seq(Entry) /\ Len(c) = Len(ts) + Len(s)
        /\ \A j \in 1..(Len(ts) + Len(s)) : c[j] = IF j <= Len(ts) THEN ts[j] ELSE s[j - Len(ts)]
    BY <1>3, JoinFacts
  <2> QED BY <1>1, <2>1
<1>5. Ascends(c) /\ Space(c) <= LEAF_SPACE
  BY <1>2, <1>3, SpaceJoin
<1>6. PICK h : /\ h[0] = ts
               /\ \A i \in 1..m : h[i] = WriteChunkLeaf(h[i - 1], s[i])
               /\ WriteAll(ts, s) = h[m]
  BY <1>1, <1>2, WriteAllSteps
<1> DEFINE T == {i \in Nat : i <= m => h[i] = SubSeq(c, 1, n + i)}
<1>7. 0 \in T
  <2>1. n \in 0..Len(c) /\ n + 0 = n
    BY <1>2, <1>4
  <2>2. PICK d : d = SubSeq(c, 1, n)
    OBVIOUS
  <2>3. d \in Seq(Entry) /\ Len(d) = n /\ \A j \in 1..n : d[j] = c[j]
    BY <1>4, <2>1, <2>2, CutFacts
  <2>4. \A j \in 1..n : j \in 1..(n + m) /\ j <= n
    BY <1>2
  <2>5. \A j \in 1..n : d[j] = ts[j]
    BY <1>4, <2>3, <2>4
  <2>6. d = ts
    BY <1>1, <2>3, <2>5, SeqEqual
  <2> QED BY <1>6, <2>1, <2>2, <2>6
<1>8. ASSUME NEW i \in Nat, i \in T PROVE i + 1 \in T
  <2> SUFFICES ASSUME i + 1 <= m PROVE h[i + 1] = SubSeq(c, 1, n + (i + 1))
    OBVIOUS
  <2>1. i + 1 \in 1..m /\ (i + 1) - 1 = i /\ i <= m
    BY <1>2
  <2>2. PICK o : o = n + i
    OBVIOUS
  <2>3. o \in 0..Len(c) /\ o < Len(c) /\ o + 1 = n + (i + 1)
    BY <1>2, <1>4, <2>1, <2>2
  <2>4. c[o + 1] = s[i + 1]
    <3>1. o + 1 \in 1..(n + m) /\ ~(o + 1 <= n) /\ (o + 1) - n = i + 1
      BY <1>2, <2>1, <2>2
    <3> QED BY <1>4, <3>1
  <2>5. WriteChunkLeaf(SubSeq(c, 1, o), c[o + 1]) = SubSeq(c, 1, o + 1)
    BY <1>4, <1>5, <2>3, WriteNext
  <2>6. h[i] = SubSeq(c, 1, o)
    BY <1>8, <2>1, <2>2
  <2>7. h[i + 1] = WriteChunkLeaf(h[i], s[i + 1])
    BY <1>6, <2>1
  <2> QED BY <2>3, <2>4, <2>5, <2>6, <2>7
<1> HIDE DEF T
<1>9. m \in T
  BY <1>2, <1>7, <1>8, Induction
<1>10. h[m] = SubSeq(c, 1, n + m)
  BY <1>2, <1>9 DEF T
<1>11. SubSeq(c, 1, n + m) = c
  <2>1. n + m \in 0..Len(c)
    BY <1>2, <1>4
  <2>2. PICK d : d = SubSeq(c, 1, n + m)
    OBVIOUS
  <2>3. d \in Seq(Entry) /\ Len(d) = n + m /\ \A j \in 1..(n + m) : d[j] = c[j]
    BY <1>4, <2>1, <2>2, CutFacts
  <2> QED BY <1>4, <2>2, <2>3, SeqEqual
<1> QED BY <1>3, <1>6, <1>10, <1>11

LEMMA ReverseFacts ==
  ASSUME NEW S, NEW s \in Seq(S)
  PROVE  /\ Reverse(s) \in Seq(S) /\ Len(Reverse(s)) = Len(s)
         /\ \A i \in 1..Len(s) : Reverse(s)[i] = s[(Len(s) - i) + 1]
<1>1. PICK n : n = Len(s) /\ n \in Nat
  BY LenProperties
<1>2. \A i \in 1..n : (n - i) + 1 \in 1..n
  BY <1>1
<1>3. \A i \in 1..n : s[(n - i) + 1] \in S
  BY <1>1, <1>2, ElementOfSeq
<1>4. Reverse(s) = [i \in 1..n |-> s[(n - i) + 1]]
  BY <1>1 DEF Reverse
<1>5. Reverse(s) \in [1..n -> S]
  BY <1>3, <1>4
<1>6. Reverse(s) \in Seq(S) /\ Len(Reverse(s)) = n
  BY <1>1, <1>5
<1> QED BY <1>1, <1>4, <1>6

LEMMA WriteAllInFront ==
  ASSUME NEW ts \in Seq(Entry), NEW s \in Seq(Entry), Ascends(s \o ts),
         Space(ts) + Space(s) <= LEAF_SPACE
  PROVE  WriteAll(ts, Reverse(s)) = s \o ts
<1> HIDE DEF Entry, Raw
<1>1. PICK n, m : n = Len(ts) /\ m = Len(s)
  OBVIOUS
<1>2. n \in Nat /\ m \in Nat /\ ts \in Seq(Raw) /\ s \in Seq(Raw)
  BY <1>1, EntriesAt
<1>3. PICK c : c = s \o ts
  OBVIOUS
<1>4. /\ c \in Seq(Entry) /\ Len(c) = m + n
      /\ \A j \in 1..(m + n) : c[j] = IF j <= m THEN s[j] ELSE ts[j - m]
  <2>1. /\ c \in Seq(Entry) /\ Len(c) = Len(s) + Len(ts)
        /\ \A j \in 1..(Len(s) + Len(ts)) : c[j] = IF j <= Len(s) THEN s[j] ELSE ts[j - Len(s)]
    BY <1>3, JoinFacts
  <2> QED BY <1>1, <2>1
<1>5. Ascends(c) /\ Space(c) <= LEAF_SPACE
  <2>1. Space(c) = Space(s) + Space(ts)
    BY <1>2, <1>3, SpaceJoin
  <2>2. Space(s) \in Int /\ Space(ts) \in Int
    BY <1>2, SpaceInt
  <2> QED BY <1>3, <2>1, <2>2
<1>6. PICK r : r = Reverse(s)
  OBVIOUS
<1>7. r \in Seq(Raw) /\ Len(r) = m /\ \A i \in 1..m : r[i] = s[(m - i) + 1]
  BY <1>1, <1>2, <1>6, ReverseFacts
<1>8. PICK h : /\ h[0] = ts
               /\ \A i \in 1..m : h[i] = WriteChunkLeaf(h[i - 1], r[i])
               /\ WriteAll(ts, r) = h[m]
  <2>1. \E h : /\ h[0] = ts
               /\ \A i \in 1..Len(r) : h[i] = WriteChunkLeaf(h[i - 1], r[i])
               /\ WriteAll(ts, r) = h[Len(r)]
    BY <1>2, <1>7, WriteAllSteps
  <2> QED BY <1>7, <2>1
<1> DEFINE T == {i \in Nat : i <= m => h[i] = SubSeq(c, (m - i) + 1, Len(c))}
<1>9. 0 \in T
  <2>1. m \in 0..Len(c) /\ (m - 0) + 1 = m + 1
    BY <1>2, <1>4
  <2>2. PICK d : d = SubSeq(c, m + 1, Len(c))
    OBVIOUS
  <2>3. d \in Seq(Entry) /\ Len(d) = Len(c) - m /\ \A j \in 1..(Len(c) - m) : d[j] = c[m + j]
    BY <1>4, <2>1, <2>2, CutFacts
  <2>4. Len(c) - m = n
    BY <1>2, <1>4
  <2>5. \A j \in 1..n : m + j \in 1..(m + n) /\ ~(m + j <= m) /\ (m + j) - m = j
    BY <1>2
  <2>6. \A j \in 1..n : d[j] = ts[j]
    BY <1>4, <2>3, <2>4, <2>5
  <2>7. d = ts
    BY <1>1, <2>3, <2>4, <2>6, SeqEqual
  <2> QED BY <1>8, <2>1, <2>2, <2>7
<1>10. ASSUME NEW i \in Nat, i \in T PROVE i + 1 \in T
  <2> SUFFICES ASSUME i + 1 <= m PROVE h[i + 1] = SubSeq(c, (m - (i + 1)) + 1, Len(c))
    OBVIOUS
  <2>1. i + 1 \in 1..m /\ (i + 1) - 1 = i /\ i <= m
    BY <1>2
  <2>2. PICK o : o = m - i
    OBVIOUS
  <2>3. o \in 0..Len(c) /\ 0 < o /\ o = (m - (i + 1)) + 1
    BY <1>2, <1>4, <2>1, <2>2
  <2>4. c[o] = r[i + 1]
    <3>1. o \in 1..(m + n) /\ o <= m
      BY <1>2, <2>1, <2>2
    <3>2. c[o] = s[o]
      BY <1>4, <3>1
    <3> QED BY <1>7, <2>1, <2>3, <3>2
  <2>5. WriteChunkLeaf(SubSeq(c, o + 1, Len(c)), c[o]) = SubSeq(c, o, Len(c))
    BY <1>4, <1>5, <2>3, WritePrevious
  <2>6. h[i] = SubSeq(c, o + 1, Len(c))
    BY <1>10, <2>1, <2>2
  <2>7. h[i + 1] = WriteChunkLeaf(h[i], r[i + 1])
    BY <1>8, <2>1
  <2> QED BY <2>3, <2>4, <2>5, <2>6, <2>7
<1> HIDE DEF T
<1>11. m \in T
  BY <1>2, <1>9, <1>10, Induction
<1>12. h[m] = SubSeq(c, 1, Len(c))
  <2>1. (m - m) + 1 = 1
    BY <1>2
  <2> QED BY <1>2, <1>11, <2>1 DEF T
<1>13. SubSeq(c, 1, Len(c)) = c
  <2>1. Len(c) \in 0..Len(c)
    BY <1>2, <1>4
  <2>2. PICK d : d = SubSeq(c, 1, Len(c))
    OBVIOUS
  <2>3. d \in Seq(Entry) /\ Len(d) = Len(c) /\ \A j \in 1..Len(c) : d[j] = c[j]
    BY <1>4, <2>1, <2>2, CutFacts
  <2> QED BY <1>4, <2>2, <2>3, SeqEqual
<1> QED BY <1>3, <1>6, <1>8, <1>12, <1>13

-----------------------------------------------------------------------------
\* The keys of an internal page divide what lies below it among its children.

Convex(S) == \A a, b \in S : \A k \in Int : a <= k /\ k <= b => k \in S

\* Numbers of one set lie before those of another.
Before(S, T) == \A x \in S, y \in T : x < y

Below(S, x) == {k \in S : k < x}
From(S, x) == {k \in S : x <= k}

\* What keys ks leave of S to the i-th child.
Slice(ks, S, i) == {k \in S : /\ i = 1 \/ ks[i - 1] <= k
                              /\ i = Len(ks) + 1 \/ k < ks[i]}

\* Q says what lies below each page: below the children cs of a page with keys ks it
\* is what they leave of S.
Node(ks, cs, S, Q) ==
  /\ ks \in Seq(Keys) /\ cs \in Seq(PageIDs) /\ Len(cs) = Len(ks) + 1
  /\ S \in SUBSET Int
  /\ \A i, j \in 1..Len(ks) : i < j => ks[i] < ks[j]
  /\ \A i \in 1..Len(cs) : Q[cs[i]] = Slice(ks, S, i) /\ Q[cs[i]] # {}

NodeIs(ks, cs, S, Q, n) ==
  /\ ks \in Seq(Keys) /\ cs \in Seq(PageIDs) /\ n \in Nat /\ n = Len(ks) /\ Len(cs) = n + 1
  /\ S \in SUBSET Int
  /\ \A i \in 1..n : ks[i] \in Keys /\ ks[i] \in Int
  /\ \A i \in 1..(n + 1) : cs[i] \in PageIDs /\ Q[cs[i]] # {} /\ Q[cs[i]] \in SUBSET S
  /\ \A i, j \in 1..n : i < j => ks[i] < ks[j]
  /\ \A i \in 1..(n + 1) : \A k : k \in Q[cs[i]] <=> /\ k \in S
                                                     /\ i = 1 \/ ks[i - 1] <= k
                                                     /\ i = n + 1 \/ k < ks[i]

LEMMA NodeFacts ==
  ASSUME NEW ks, NEW cs, NEW S, NEW Q, Node(ks, cs, S, Q)
  PROVE  NodeIs(ks, cs, S, Q, Len(ks))
<1>0. PICK n : n = Len(ks)
  OBVIOUS
<1>1. /\ ks \in Seq(Keys) /\ cs \in Seq(PageIDs) /\ n \in Nat /\ Len(cs) = n + 1
      /\ S \in SUBSET Int
      /\ \A i, j \in 1..n : i < j => ks[i] < ks[j]
      /\ \A i \in 1..(n + 1) : Q[cs[i]] = Slice(ks, S, i) /\ Q[cs[i]] # {}
  BY <1>0, LenProperties DEF Node
<1>2. \A i \in 1..n : ks[i] \in Keys
  BY <1>0, <1>1, ElementOfSeq
<1>3. \A i \in 1..n : ks[i] \in Int
  <2>1. \A k \in Keys : k \in Int
    BY Limits
  <2> QED BY <1>2, <2>1
<1>4. \A i \in 1..(n + 1) : cs[i] \in PageIDs
  BY <1>0, <1>1, ElementOfSeq
<1>5. \A i \in 1..(n + 1) : \A k : k \in Q[cs[i]] <=> /\ k \in S
                                                      /\ i = 1 \/ ks[i - 1] <= k
                                                      /\ i = n + 1 \/ k < ks[i]
  BY <1>0, <1>1 DEF Slice
<1>6. \A i \in 1..(n + 1) : Q[cs[i]] \in SUBSET S
  BY <1>0, <1>1 DEF Slice
<1> QED BY <1>0, <1>1, <1>2, <1>3, <1>4, <1>5, <1>6 DEF NodeIs

\* How a Node is recognised.
LEMMA IsNode ==
  ASSUME NEW ks, NEW cs, NEW S, NEW Q, NEW n, NodeIs(ks, cs, S, Q, n)
  PROVE  Node(ks, cs, S, Q)
<1>1. \A i \in 1..(n + 1) : Q[cs[i]] = Slice(ks, S, i)
  <2> TAKE i \in 1..(n + 1)
  <2>1. \A k : k \in Q[cs[i]] <=> k \in Slice(ks, S, i)
    BY DEF Slice, NodeIs
  <2> QED BY <2>1
<1> QED BY <1>1 DEF Node, NodeIs

LEMMA NodeSame ==
  ASSUME NEW ks, NEW cs, NEW S, NEW Q, Node(ks, cs, S, Q), NEW Q2,
         \A j \in 1..Len(cs) : Q2[cs[j]] = Q[cs[j]]
  PROVE  Node(ks, cs, S, Q2)
BY DEF Node

\* The keys lie in what they divide.
LEMMA KeysInside ==
  ASSUME NEW ks, NEW cs, NEW S, NEW Q, Node(ks, cs, S, Q), Convex(S), NEW i \in 1..Len(ks)
  PROVE  /\ ks[i] \in S /\ ks[i] \in Q[cs[i + 1]]
         /\ \A k \in Q[cs[i]] : k < ks[i]
         /\ \A k \in Q[cs[i + 1]] : ks[i] <= k
<1>1. PICK n : n = Len(ks) /\ NodeIs(ks, cs, S, Q, n)
  BY NodeFacts
<1>2. /\ n \in Nat /\ S \in SUBSET Int
      /\ \A j \in 1..n : ks[j] \in Int
      /\ \A j \in 1..(n + 1) : Q[cs[j]] # {}
      /\ \A p, q \in 1..n : p < q => ks[p] < ks[q]
      /\ \A j \in 1..(n + 1) : \A k : k \in Q[cs[j]] <=> /\ k \in S
                                                         /\ j = 1 \/ ks[j - 1] <= k
                                                         /\ j = n + 1 \/ k < ks[j]
  BY <1>1 DEF NodeIs
<1>3. i \in 1..n /\ i \in 1..(n + 1) /\ i + 1 \in 1..(n + 1) /\ (i + 1) - 1 = i /\ i # n + 1 /\ i + 1 # 1
  BY <1>1, <1>2
<1>4. \A k \in Q[cs[i]] : k \in S /\ k < ks[i]
  BY <1>2, <1>3
<1>5. \A k \in Q[cs[i + 1]] : k \in S /\ ks[i] <= k
  <2> TAKE k \in Q[cs[i + 1]]
  <2>1. k \in S /\ ks[(i + 1) - 1] <= k
    BY <1>2, <1>3
  <2> QED BY <1>3, <2>1
<1>6. ks[i] \in S
  <2>1. PICK a \in Q[cs[i]], b \in Q[cs[i + 1]] : TRUE
    BY <1>2, <1>3
  <2>2. a \in S /\ b \in S /\ a \in Int /\ b \in Int /\ ks[i] \in Int /\ a < ks[i] /\ ks[i] <= b
    BY <1>2, <1>3, <1>4, <1>5, <2>1
  <2>3. a <= ks[i]
    BY <2>2
  <2> QED BY <2>2, <2>3 DEF Convex
<1>7. ks[i] \in Q[cs[i + 1]]
  <2>1. i + 1 = n + 1 \/ ks[i] < ks[i + 1]
    <3>1. CASE i + 1 \in 1..n
      BY <1>2, <1>3, <3>1
    <3>2. CASE ~(i + 1 \in 1..n)
      BY <1>2, <1>3, <3>2
    <3> QED BY <3>1, <3>2
  <2>2. ks[i] <= ks[i] /\ ks[(i + 1) - 1] = ks[i]
    BY <1>2, <1>3
  <2> QED BY <1>2, <1>3, <1>6, <2>1, <2>2
<1> QED BY <1>4, <1>5, <1>6, <1>7

LEMMA SliceConvex ==
  ASSUME NEW ks, NEW cs, NEW S, NEW Q, Node(ks, cs, S, Q), Convex(S), NEW i \in 1..Len(cs)
  PROVE  Convex(Q[cs[i]]) /\ Q[cs[i]] \in SUBSET S
<1>1. PICK n : n = Len(ks) /\ NodeIs(ks, cs, S, Q, n)
  BY NodeFacts
<1>2. /\ n \in Nat /\ S \in SUBSET Int /\ Len(cs) = n + 1
      /\ \A j \in 1..n : ks[j] \in Int
      /\ \A j \in 1..(n + 1) : \A k : k \in Q[cs[j]] <=> /\ k \in S
                                                         /\ j = 1 \/ ks[j - 1] <= k
                                                         /\ j = n + 1 \/ k < ks[j]
  BY <1>1 DEF NodeIs
<1>3. ASSUME NEW a \in Q[cs[i]], NEW b \in Q[cs[i]], NEW k \in Int, a <= k, k <= b
      PROVE  k \in Q[cs[i]]
  <2>1. a \in S /\ b \in S /\ a \in Int /\ b \in Int /\ i \in 1..(n + 1)
    BY <1>2
  <2>2. k \in S
    BY <1>3, <2>1 DEF Convex
  <2>3. i = 1 \/ ks[i - 1] <= k
    <3>1. CASE i # 1
      <4>1. i - 1 \in 1..n
        BY <1>2, <2>1, <3>1
      <4>2. ks[i - 1] \in Int /\ ks[i - 1] <= a
        BY <1>2, <2>1, <3>1, <4>1
      <4> QED BY <1>3, <2>1, <4>2
    <3> QED BY <3>1
  <2>4. i = n + 1 \/ k < ks[i]
    <3>1. CASE i # n + 1
      <4>1. i \in 1..n
        BY <1>2, <2>1, <3>1
      <4>2. ks[i] \in Int /\ b < ks[i]
        BY <1>2, <2>1, <3>1, <4>1
      <4> QED BY <1>3, <2>1, <4>2
    <3> QED BY <3>1
  <2> QED BY <1>2, <2>1, <2>2, <2>3, <2>4
<1>4. Q[cs[i]] \in SUBSET S
  BY <1>2
<1> QED BY <1>3, <1>4 DEF Convex

\* A key leads to the child that has it in its part.
LEMMA WhichChild ==
  ASSUME NEW ks, NEW cs, NEW S, NEW Q, Node(ks, cs, S, Q), NEW k \in S, NEW u, u = UpTo(ks, k)
  PROVE  /\ u \in 0..Len(ks) /\ u + 1 \in 1..Len(cs) /\ k \in Q[cs[u + 1]]
         /\ \A i \in 1..Len(cs) : k \in Q[cs[i]] => i = u + 1
<1>1. PICK n : n = Len(ks) /\ NodeIs(ks, cs, S, Q, n)
  BY NodeFacts
<1>2. /\ n \in Nat /\ S \in SUBSET Int /\ Len(cs) = n + 1 /\ ks \in Seq(Keys)
      /\ \A j \in 1..n : ks[j] \in Int
      /\ \A p, q \in 1..n : p < q => ks[p] < ks[q]
      /\ \A j \in 1..(n + 1) : \A l : l \in Q[cs[j]] <=> /\ l \in S
                                                         /\ j = 1 \/ ks[j - 1] <= l
                                                         /\ j = n + 1 \/ l < ks[j]
  BY <1>1 DEF NodeIs
<1>3. k \in Int
  BY <1>2
<1>4. u \in 0..n /\ \A i \in 1..n : ks[i] <= k <=> i <= u
  <2>1. IsSeq(ks)
    BY <1>2, SeqIs
  <2>2. /\ \A i \in 1..Len(ks) : ks[i] \in Int
        /\ \A i, j \in 1..Len(ks) : i < j => ks[i] < ks[j]
    BY <1>1, <1>2
  <2>3. /\ UpTo(ks, k) \in 0..Len(ks)
        /\ \A i \in 1..Len(ks) : ks[i] <= k <=> i <= UpTo(ks, k)
    BY <1>3, <2>1, <2>2, UpToIs
  <2> QED BY <1>1, <2>3
<1>5. u + 1 \in 1..(n + 1)
  BY <1>2, <1>4
<1>6. k \in Q[cs[u + 1]]
  <2>1. u + 1 = 1 \/ ks[(u + 1) - 1] <= k
    <3>1. CASE u # 0
      <4>1. u \in 1..n /\ (u + 1) - 1 = u /\ u <= u
        BY <1>2, <1>4, <3>1
      <4> QED BY <1>4, <4>1
    <3> QED BY <3>1
  <2>2. u + 1 = n + 1 \/ k < ks[u + 1]
    <3>1. CASE u + 1 # n + 1
      <4>1. u + 1 \in 1..n /\ ~(u + 1 <= u)
        BY <1>2, <1>4, <3>1
      <4>2. ~(ks[u + 1] <= k) /\ ks[u + 1] \in Int
        BY <1>2, <1>4, <4>1
      <4> QED BY <1>3, <4>2
    <3> QED BY <3>1
  <2> QED BY <1>2, <1>5, <2>1, <2>2
<1>7. ASSUME NEW i \in 1..(n + 1), k \in Q[cs[i]] PROVE i = u + 1
  <2>1. (i = 1 \/ ks[i - 1] <= k) /\ (i = n + 1 \/ k < ks[i])
    BY <1>2, <1>7
  <2>2. ~(i < u + 1)
    <3> SUFFICES ASSUME i < u + 1 PROVE FALSE
      OBVIOUS
    <3>1. i \in 1..n /\ i <= u /\ i # n + 1
      BY <1>2, <1>4
    <3>2. ks[i] <= k /\ ks[i] \in Int /\ k < ks[i]
      BY <1>2, <1>4, <2>1, <3>1
    <3> QED BY <1>3, <3>2
  <2>3. ~(u + 1 < i)
    <3> SUFFICES ASSUME u + 1 < i PROVE FALSE
      OBVIOUS
    <3>1. i - 1 \in 1..n /\ ~(i - 1 <= u) /\ i # 1
      BY <1>2, <1>4
    <3>2. ~(ks[i - 1] <= k) /\ ks[i - 1] <= k
      BY <1>2, <1>4, <2>1, <3>1
    <3> QED BY <3>2
  <2> QED BY <1>2, <1>4, <2>2, <2>3
<1> QED BY <1>1, <1>2, <1>4, <1>5, <1>6, <1>7

\* The children's parts are disjoint, in order.
LEMMA PartsInOrder ==
  ASSUME NEW ks, NEW cs, NEW S, NEW Q, Node(ks, cs, S, Q),
         NEW i \in 1..Len(cs), NEW j \in 1..Len(cs), i < j
  PROVE  Before(Q[cs[i]], Q[cs[j]])
<1>1. PICK n : n = Len(ks) /\ NodeIs(ks, cs, S, Q, n)
  BY NodeFacts
<1>2. /\ n \in Nat /\ S \in SUBSET Int /\ Len(cs) = n + 1
      /\ \A p \in 1..n : ks[p] \in Int
      /\ \A p, q \in 1..n : p < q => ks[p] < ks[q]
      /\ \A p \in 1..(n + 1) : \A l : l \in Q[cs[p]] <=> /\ l \in S
                                                         /\ p = 1 \/ ks[p - 1] <= l
                                                         /\ p = n + 1 \/ l < ks[p]
  BY <1>1 DEF NodeIs
<1>3. i \in 1..n /\ j - 1 \in 1..n /\ i # n + 1 /\ j # 1 /\ (i = j - 1 \/ i < j - 1)
      /\ i \in 1..(n + 1) /\ j \in 1..(n + 1)
  BY <1>2
<1>4. ks[i] \in Int /\ ks[j - 1] \in Int /\ ks[i] <= ks[j - 1]
  BY <1>2, <1>3
<1>5. ASSUME NEW x \in Q[cs[i]], NEW y \in Q[cs[j]] PROVE x < y
  <2>1. x \in S /\ y \in S /\ x < ks[i] /\ ks[j - 1] <= y
    BY <1>2, <1>3
  <2> QED BY <1>2, <1>4, <2>1
<1> QED BY <1>5 DEF Before

-----------------------------------------------------------------------------
\* The i-th child has been split at x.
LEMMA NodeInsert ==
  ASSUME NEW ks, NEW cs, NEW S, NEW Q, Node(ks, cs, S, Q), NEW i \in 1..Len(cs),
         NEW x \in Keys, x \in Q[cs[i]], NEW new \in PageIDs, NEW Q2,
         Q2[cs[i]] = Below(Q[cs[i]], x), Q2[cs[i]] # {},
         Q2[new] = From(Q[cs[i]], x), Q2[new] # {},
         \A j \in 1..Len(cs) : j # i => Q2[cs[j]] = Q[cs[j]]
  PROVE  Node(InsertAt(ks, i, x), InsertAt(cs, i + 1, new), S, Q2)
<1>1. PICK n : n = Len(ks) /\ NodeIs(ks, cs, S, Q, n)
  BY NodeFacts
<1>2. /\ ks \in Seq(Keys) /\ cs \in Seq(PageIDs) /\ n \in Nat /\ Len(cs) = n + 1
      /\ S \in SUBSET Int
      /\ \A p \in 1..n : ks[p] \in Keys /\ ks[p] \in Int
      /\ \A p \in 1..(n + 1) : Q[cs[p]] # {}
      /\ \A p, q \in 1..n : p < q => ks[p] < ks[q]
      /\ \A p \in 1..(n + 1) : \A l : l \in Q[cs[p]] <=> /\ l \in S
                                                         /\ p = 1 \/ ks[p - 1] <= l
                                                         /\ p = n + 1 \/ l < ks[p]
  BY <1>1 DEF NodeIs
<1>3. x \in Int /\ i \in 1..(n + 1) /\ i \in Nat
  <2>1. \A k \in Keys : k \in Int
    BY Limits
  <2> QED BY <1>2, <2>1
<1>4. PICK ks2 : ks2 = InsertAt(ks, i, x)
  OBVIOUS
<1>5. /\ ks2 \in Seq(Keys) /\ Len(ks2) = n + 1
      /\ \A j \in 1..(n + 1) : ks2[j] = IF j < i THEN ks[j] ELSE IF j = i THEN x ELSE ks[j - 1]
  <2>1. i \in 1..(Len(ks) + 1)
    BY <1>1, <1>3
  <2>3. ks \in Seq(Keys) /\ x \in Keys /\ i \in 1..(Len(ks) + 1) /\ ks2 = InsertAt(ks, i, x)
    BY <1>2, <1>4, <2>1
  <2>2. /\ ks2 \in Seq(Keys) /\ Len(ks2) = Len(ks) + 1
        /\ \A j \in 1..(Len(ks) + 1) : ks2[j] = IF j < i THEN ks[j] ELSE IF j = i THEN x ELSE ks[j - 1]
    <3>1. InsertedAt(Keys, ks, i, x, ks2)
      BY ONLY <2>3, InsertIs
    <3> QED BY <3>1 DEF InsertedAt
  <2> QED BY <1>1, <2>2
<1>6. PICK cs2 : cs2 = InsertAt(cs, i + 1, new)
  OBVIOUS
<1>7. /\ cs2 \in Seq(PageIDs) /\ Len(cs2) = n + 2
      /\ \A j \in 1..(n + 2) : cs2[j] = IF j < i + 1 THEN cs[j] ELSE IF j = i + 1 THEN new ELSE cs[j - 1]
  <2>1. PICK o \in 1..(Len(cs) + 1) : o = i + 1
    BY <1>2, <1>3
  <2>4. cs2 = InsertAt(cs, o, new)
    BY <1>6, <2>1
  <2>5. cs \in Seq(PageIDs) /\ new \in PageIDs /\ o \in 1..(Len(cs) + 1)
    BY <1>2, <2>1
  <2>2. /\ cs2 \in Seq(PageIDs) /\ Len(cs2) = Len(cs) + 1
        /\ \A j \in 1..(Len(cs) + 1) : cs2[j] = IF j < o THEN cs[j] ELSE IF j = o THEN new ELSE cs[j - 1]
    <3>1. InsertedAt(PageIDs, cs, o, new, cs2)
      BY ONLY <2>4, <2>5, InsertIs
    <3> QED BY <3>1 DEF InsertedAt
  <2>3. Len(cs) + 1 = n + 2
    BY <1>2
  <2> QED BY <2>1, <2>2, <2>3
\* The keys are in order.
<1>8. i # 1 => i - 1 \in 1..n /\ ks[i - 1] < x
  <2> SUFFICES ASSUME i # 1 PROVE i - 1 \in 1..n /\ ks[i - 1] < x
    OBVIOUS
  <2>1. i - 1 \in 1..n
    BY <1>2, <1>3
  <2>2. PICK l \in Q[cs[i]] : l < x
    BY DEF Below
  <2>3. ks[i - 1] <= l /\ l \in Int /\ ks[i - 1] \in Int
    BY <1>2, <1>3, <2>1, <2>2
  <2> QED BY <1>3, <2>1, <2>2, <2>3
<1>9. i # n + 1 => i \in 1..n /\ x < ks[i]
  BY <1>2, <1>3
<1>10. \A j \in 1..n : (j < i => ks[j] < x) /\ (i <= j => x < ks[j])
  <2> TAKE j \in 1..n
  <2>1. ASSUME j < i PROVE ks[j] < x
    <3>1. i # 1 /\ (j = i - 1 \/ j < i - 1)
      BY <1>3, <2>1
    <3>2. i - 1 \in 1..n /\ ks[i - 1] < x /\ (j < i - 1 => ks[j] < ks[i - 1])
      BY <1>2, <1>8, <3>1
    <3>3. ks[j] \in Int /\ ks[i - 1] \in Int
      BY <1>2, <3>2
    <3> QED BY <1>3, <3>1, <3>2, <3>3
  <2>2. ASSUME i <= j PROVE x < ks[j]
    <3>1. i # n + 1 /\ (j = i \/ i < j)
      BY <1>2, <1>3, <2>2
    <3>2. i \in 1..n /\ x < ks[i] /\ (i < j => ks[i] < ks[j])
      BY <1>2, <1>9, <3>1
    <3>3. ks[j] \in Int /\ ks[i] \in Int
      BY <1>2, <3>2
    <3> QED BY <1>3, <3>1, <3>2, <3>3
  <2> QED BY <2>1, <2>2
<1>11. \A p, q \in 1..(n + 1) : p < q => ks2[p] < ks2[q]
  <2> SUFFICES ASSUME NEW p \in 1..(n + 1), NEW q \in 1..(n + 1), p < q PROVE ks2[p] < ks2[q]
    OBVIOUS
  <2>1. CASE q < i
    <3>1. p \in 1..n /\ q \in 1..n /\ p < i
      BY <1>2, <1>3, <2>1
    <3> QED BY <1>2, <1>5, <2>1, <3>1
  <2>2. CASE q = i
    <3>1. p \in 1..n /\ p < i /\ ~(q < i)
      BY <1>2, <1>3, <2>2
    <3>2. ks2[p] = ks[p] /\ ks2[q] = x
      BY <1>5, <2>2, <3>1
    <3> QED BY <1>10, <3>1, <3>2
  <2>3. CASE p = i
    <3>1. q - 1 \in 1..n /\ i <= q - 1 /\ ~(q < i) /\ q # i /\ ~(p < i)
      BY <1>2, <1>3, <2>3
    <3>2. ks2[p] = x /\ ks2[q] = ks[q - 1]
      BY <1>5, <2>3, <3>1
    <3> QED BY <1>10, <3>1, <3>2
  <2>4. CASE p < i /\ i < q
    <3>1. p \in 1..n /\ q - 1 \in 1..n /\ p < q - 1 /\ ~(q < i) /\ q # i
      BY <1>2, <1>3, <2>4
    <3>2. ks2[p] = ks[p] /\ ks2[q] = ks[q - 1]
      BY <1>5, <2>4, <3>1
    <3> QED BY <1>2, <3>1, <3>2
  <2>5. CASE i < p
    <3>1. p - 1 \in 1..n /\ q - 1 \in 1..n /\ p - 1 < q - 1 /\ ~(q < i) /\ q # i /\ ~(p < i) /\ p # i
      BY <1>2, <1>3, <2>5
    <3>2. ks2[p] = ks[p - 1] /\ ks2[q] = ks[q - 1]
      BY <1>5, <3>1
    <3> QED BY <1>2, <3>1, <3>2
  <2> QED BY <1>3, <2>1, <2>2, <2>3, <2>4, <2>5
\* What they divide.
<1>12. \A p \in 1..(n + 2) : Q2[cs2[p]] # {} /\
         \A l : l \in Q2[cs2[p]] <=> /\ l \in S
                                     /\ p = 1 \/ ks2[p - 1] <= l
                                     /\ p = n + 2 \/ l < ks2[p]
  <2> SUFFICES ASSUME NEW p \in 1..(n + 2)
               PROVE  Q2[cs2[p]] # {} /\
                      \A l : l \in Q2[cs2[p]] <=> /\ l \in S
                                                  /\ p = 1 \/ ks2[p - 1] <= l
                                                  /\ p = n + 2 \/ l < ks2[p]
    OBVIOUS
  <2>1. CASE p < i
    <3>1. p \in 1..(n + 1) /\ p # n + 1 /\ p # n + 2 /\ p < i + 1 /\ p \in 1..Len(cs) /\ p # i
      BY <1>2, <1>3, <2>1
    <3>2. cs2[p] = cs[p] /\ ks2[p] = ks[p]
      BY <1>5, <1>7, <2>1, <3>1
    <3>3. p = 1 \/ ks2[p - 1] = ks[p - 1]
      <4>1. p # 1 => p - 1 \in 1..(n + 1) /\ p - 1 < i
        BY <1>2, <1>3, <2>1, <3>1
      <4> QED BY <1>5, <4>1
    <3>4. Q2[cs2[p]] = Q[cs[p]]
      BY <3>1, <3>2
    <3> QED BY <1>2, <3>1, <3>2, <3>3, <3>4
  <2>2. CASE p = i
    <3>1. p \in 1..(n + 1) /\ p # n + 2 /\ p < i + 1 /\ ~(p < i)
      BY <1>2, <1>3, <2>2
    <3>2. cs2[p] = cs[p] /\ ks2[p] = x
      BY <1>5, <1>7, <2>2, <3>1
    <3>3. p = 1 \/ ks2[p - 1] = ks[p - 1]
      <4>1. p # 1 => p - 1 \in 1..(n + 1) /\ p - 1 < i
        BY <1>2, <1>3, <2>2, <3>1
      <4> QED BY <1>5, <4>1
    <3>4. \A l : l \in Q2[cs2[p]] <=> l \in Q[cs[p]] /\ l < x
      BY <2>2, <3>2 DEF Below
    <3>5. \A l \in S : p # n + 1 /\ l < x => l < ks[p]
      <4> SUFFICES ASSUME NEW l \in S, p # n + 1, l < x PROVE l < ks[p]
        OBVIOUS
      <4>1. l \in Int /\ p \in 1..n /\ ks[p] \in Int /\ x < ks[p]
        BY <1>2, <1>9, <2>2, <3>1
      <4> QED BY <1>3, <4>1
    <3>6. \A l : l \in Q[cs[p]] <=> /\ l \in S
                                    /\ p = 1 \/ ks[p - 1] <= l
                                    /\ p = n + 1 \/ l < ks[p]
      BY <1>2, <3>1
    <3>7. \A l : l \in Q2[cs2[p]] <=> /\ l \in S
                                      /\ p = 1 \/ ks2[p - 1] <= l
                                      /\ l < x
      BY <3>3, <3>4, <3>5, <3>6
    <3>8. Q2[cs2[p]] # {}
      BY <2>2, <3>2
    <3> QED BY <3>1, <3>2, <3>7, <3>8
  <2>3. CASE p = i + 1
    <3>1. /\ p \in 1..(n + 2) /\ ~(p < i + 1) /\ p # 1 /\ p - 1 = i /\ p - 1 \in 1..(n + 1)
          /\ ~(p - 1 < i)
      BY <1>2, <1>3, <2>3
    <3>2. cs2[p] = new /\ ks2[p - 1] = x
      BY <1>5, <1>7, <2>3, <3>1
    <3>3. p # n + 2 => ks2[p] = ks[i] /\ i # n + 1
      <4>1. p # n + 2 => p \in 1..(n + 1) /\ ~(p < i) /\ p # i /\ i # n + 1
        BY <1>2, <1>3, <2>3
      <4> QED BY <1>5, <3>1, <4>1
    <3>4. p = n + 2 => i = n + 1
      BY <1>2, <1>3, <2>3
    <3>5. \A l : l \in Q2[cs2[p]] <=> l \in Q[cs[i]] /\ x <= l
      BY <3>2 DEF From
    <3>6. \A l \in S : i # 1 /\ x <= l => ks[i - 1] <= l
      <4> SUFFICES ASSUME NEW l \in S, i # 1, x <= l PROVE ks[i - 1] <= l
        OBVIOUS
      <4>1. l \in Int /\ i - 1 \in 1..n /\ ks[i - 1] \in Int /\ ks[i - 1] < x
        BY <1>2, <1>8
      <4> QED BY <1>3, <4>1
    <3>7. \A l : l \in Q[cs[i]] <=> /\ l \in S
                                    /\ i = 1 \/ ks[i - 1] <= l
                                    /\ i = n + 1 \/ l < ks[i]
      BY <1>2, <1>3
    <3>8. \A l : l \in Q2[cs2[p]] <=> /\ l \in S
                                      /\ x <= l
                                      /\ i = n + 1 \/ l < ks[i]
      BY <3>5, <3>6, <3>7
    <3>9. Q2[cs2[p]] # {}
      BY <3>2
    <3> QED BY <3>1, <3>2, <3>3, <3>4, <3>8, <3>9
  <2>4. CASE i + 1 < p
    <3>1. PICK o : o = p - 1
      OBVIOUS
    <3>7. o \in 1..(n + 1) /\ o # i /\ o # 1 /\ p # 1 /\ ~(o < i)
      BY <1>2, <1>3, <2>4, <3>1
    <3>8. ~(p < i + 1) /\ p # i + 1
      BY <1>2, <1>3, <2>4
    <3>9. o = n + 1 <=> p = n + 2
      BY <1>2, <3>1
    <3>10. o - 1 \in 1..(n + 1) /\ ~(o - 1 < i)
      BY <1>2, <1>3, <2>4, <3>1
    <3>2. /\ o \in 1..(n + 1) /\ o # i /\ o # 1 /\ p # 1 /\ ~(p < i + 1) /\ p # i + 1
          /\ ~(o < i) /\ o \in 1..Len(cs) /\ (o = n + 1 <=> p = n + 2)
      BY <1>2, <3>7, <3>8, <3>9
    <3>3. cs2[p] = cs[o]
      BY <1>7, <3>1, <3>2
    <3>4. ks2[p - 1] = ks[o - 1]
      BY <1>5, <3>1, <3>2
    <3>5. p # n + 2 => ks2[p] = ks[o]
      <4>1. p # n + 2 => p \in 1..(n + 1) /\ ~(p < i) /\ p # i
        BY <1>2, <1>3, <2>4
      <4> QED BY <1>5, <3>1, <4>1
    <3>6. Q2[cs2[p]] = Q[cs[o]]
      BY <3>2, <3>3
    <3> QED BY <1>2, <3>2, <3>4, <3>5, <3>6
  <2> QED BY <1>3, <2>1, <2>2, <2>3, <2>4
<1>13. NodeIs(ks2, cs2, S, Q2, n + 1)
  <2>1. n + 1 \in Nat /\ (n + 1) + 1 = n + 2
    BY <1>2
  <2>2. \A p \in 1..(n + 1) : ks2[p] \in Keys
    BY <1>5, ElementOfSeq
  <2>3. \A k \in Keys : k \in Int
    BY Limits
  <2>4. \A p \in 1..(n + 2) : cs2[p] \in PageIDs
    BY <1>7, ElementOfSeq
  <2>5. \A p \in 1..(n + 2) : Q2[cs2[p]] \in SUBSET S
    BY <1>12
  <2> QED BY <1>2, <1>5, <1>7, <1>11, <1>12, <2>1, <2>2, <2>3, <2>4, <2>5 DEF NodeIs
<1> QED BY <1>4, <1>6, <1>13, IsNode

-----------------------------------------------------------------------------
\* A page cut in two at its m-th key, which goes to neither.
LEMMA NodeCut ==
  ASSUME NEW ks, NEW cs, NEW S, NEW Q, Node(ks, cs, S, Q), NEW m \in 1..Len(ks)
  PROVE  /\ Node(SubSeq(ks, 1, m - 1), SubSeq(cs, 1, m), Below(S, ks[m]), Q)
         /\ Node(SubSeq(ks, m + 1, Len(ks)), SubSeq(cs, m + 1, Len(cs)), From(S, ks[m]), Q)
<1>1. PICK n : n = Len(ks) /\ NodeIs(ks, cs, S, Q, n)
  BY NodeFacts
<1>2. /\ ks \in Seq(Keys) /\ cs \in Seq(PageIDs) /\ n \in Nat /\ Len(cs) = n + 1 /\ Len(ks) = n
      /\ S \in SUBSET Int
      /\ \A p \in 1..n : ks[p] \in Keys /\ ks[p] \in Int
      /\ \A p \in 1..(n + 1) : cs[p] \in PageIDs /\ Q[cs[p]] # {}
      /\ \A p, q \in 1..n : p < q => ks[p] < ks[q]
      /\ \A p \in 1..(n + 1) : \A l : l \in Q[cs[p]] <=> /\ l \in S
                                                         /\ p = 1 \/ ks[p - 1] <= l
                                                         /\ p = n + 1 \/ l < ks[p]
  BY <1>1 DEF NodeIs
<1>3. m \in 1..n /\ m \in Nat
  BY <1>2
<1>4. PICK x : x = ks[m]
  OBVIOUS
<1>5. x \in Int
  BY <1>2, <1>3, <1>4
<1>6. Node(SubSeq(ks, 1, m - 1), SubSeq(cs, 1, m), Below(S, x), Q)
  <2>1. PICK a : a = SubSeq(ks, 1, m - 1)
    OBVIOUS
  <2>2. PICK b : b = SubSeq(cs, 1, m)
    OBVIOUS
  <2>3. a \in Seq(Keys) /\ Len(a) = m - 1 /\ \A j \in 1..(m - 1) : a[j] = ks[j]
    BY <1>2, <1>3, <2>1, CutFacts
  <2>4. b \in Seq(PageIDs) /\ Len(b) = m /\ \A j \in 1..m : b[j] = cs[j]
    BY <1>2, <1>3, <2>2, CutFacts
  <2>5. m - 1 \in Nat /\ (m - 1) + 1 = m
    BY <1>3
  <2>6. \A j \in 1..(m - 1) : j \in 1..n
    BY <1>2, <1>3
  <2>7. \A j \in 1..m : j \in 1..(n + 1) /\ j \in 1..n /\ j # n + 1
    BY <1>2, <1>3
  <2>8. \A j \in 1..m : \A k : k \in Q[cs[j]] <=> /\ k \in Below(S, x)
                                                  /\ j = 1 \/ ks[j - 1] <= k
                                                  /\ j = m \/ k < ks[j]
    <3> SUFFICES ASSUME NEW j \in 1..m, NEW k
                 PROVE  k \in Q[cs[j]] <=> /\ k \in Below(S, x)
                                           /\ j = 1 \/ ks[j - 1] <= k
                                           /\ j = m \/ k < ks[j]
      OBVIOUS
    <3>1. k \in Q[cs[j]] <=> k \in S /\ (j = 1 \/ ks[j - 1] <= k) /\ k < ks[j]
      BY <1>2, <2>7
    <3>2. ASSUME k \in S PROVE k < ks[j] <=> k < x /\ (j = m \/ k < ks[j])
      <4>1. k \in Int /\ ks[j] \in Int /\ (j = m => ks[j] = x) /\ (j # m => ks[j] < x)
        <5>1. j # m => j < m
          BY <1>3
        <5>2. j # m => ks[j] < ks[m]
          BY <1>2, <1>3, <2>7, <5>1
        <5> QED BY <1>2, <1>4, <2>7, <3>2, <5>2
      <4> QED BY <1>5, <4>1
    <3> QED BY <3>1, <3>2 DEF Below
  <2>9. \A j \in 1..m : j # 1 => j - 1 \in 1..(m - 1)
    BY <1>3
  <2>10. \A j \in 1..m : j # m => j \in 1..(m - 1)
    BY <1>3
  <2>11. \A j \in 1..m : \A k : k \in Q[b[j]] <=> /\ k \in Below(S, x)
                                                  /\ j = 1 \/ a[j - 1] <= k
                                                  /\ j = m \/ k < a[j]
    BY <2>3, <2>4, <2>8, <2>9, <2>10
  <2>12. Below(S, x) \in SUBSET Int
    BY <1>2 DEF Below
  <2>13. \A j \in 1..m : b[j] \in PageIDs /\ Q[b[j]] # {} /\ Q[b[j]] \in SUBSET Below(S, x)
    BY <1>2, <2>4, <2>7, <2>11
  <2>14. \A p, q \in 1..(m - 1) : p < q => a[p] < a[q]
    BY <1>2, <2>3, <2>6
  <2>15. \A j \in 1..(m - 1) : a[j] \in Keys /\ a[j] \in Int
    BY <1>2, <2>3, <2>6
  <2>16. NodeIs(a, b, Below(S, x), Q, m - 1)
    BY <2>3, <2>4, <2>5, <2>11, <2>12, <2>13, <2>14, <2>15 DEF NodeIs
  <2> QED BY <2>1, <2>2, <2>16, IsNode
<1>7. Node(SubSeq(ks, m + 1, Len(ks)), SubSeq(cs, m + 1, Len(cs)), From(S, x), Q)
  <2>1. PICK a : a = SubSeq(ks, m + 1, Len(ks))
    OBVIOUS
  <2>2. PICK b : b = SubSeq(cs, m + 1, Len(cs))
    OBVIOUS
  <2>3. a \in Seq(Keys) /\ Len(a) = n - m /\ \A j \in 1..(n - m) : a[j] = ks[m + j]
    BY <1>2, <1>3, <2>1, CutFacts
  <2>4. b \in Seq(PageIDs) /\ Len(b) = (n + 1) - m /\ \A j \in 1..((n + 1) - m) : b[j] = cs[m + j]
    BY <1>2, <1>3, <2>2, CutFacts
  <2>5. n - m \in Nat /\ (n + 1) - m = (n - m) + 1
    BY <1>2, <1>3
  <2>6. \A j \in 1..(n - m) : m + j \in 1..n /\ m < m + j
    BY <1>2, <1>3
  <2>7. \A j \in 1..((n - m) + 1) : /\ m + j \in 1..(n + 1) /\ m + j # 1
                                    /\ (m + j) - 1 = m + (j - 1) /\ (m + j) - 1 \in 1..n
                                    /\ (j = 1 => (m + j) - 1 = m) /\ (j # 1 => m < (m + j) - 1)
                                    /\ (m + j = n + 1 <=> j = (n - m) + 1)
    BY <1>2, <1>3
  <2>8. \A j \in 1..((n - m) + 1) :
          \A k : k \in Q[cs[m + j]] <=> /\ k \in From(S, x)
                                        /\ j = 1 \/ ks[m + (j - 1)] <= k
                                        /\ j = (n - m) + 1 \/ k < ks[m + j]
    <3> SUFFICES ASSUME NEW j \in 1..((n - m) + 1), NEW k
                 PROVE  k \in Q[cs[m + j]] <=> /\ k \in From(S, x)
                                               /\ j = 1 \/ ks[m + (j - 1)] <= k
                                               /\ j = (n - m) + 1 \/ k < ks[m + j]
      OBVIOUS
    <3>0. PICK o \in 1..(n + 1) : o = m + j
      BY <2>7
    <3>1. k \in Q[cs[o]] <=> k \in S /\ ks[o - 1] <= k /\ (o = n + 1 \/ k < ks[o])
      BY <1>2, <2>7, <3>0
    <3>2. ASSUME k \in S PROVE ks[o - 1] <= k <=> x <= k /\ (j = 1 \/ ks[o - 1] <= k)
      <4>1. o - 1 \in 1..n /\ (j = 1 => o - 1 = m) /\ (j # 1 => m < o - 1)
        BY <2>7, <3>0
      <4>2. k \in Int /\ ks[o - 1] \in Int /\ (j = 1 => ks[o - 1] = x) /\ (j # 1 => x < ks[o - 1])
        BY <1>2, <1>3, <1>4, <3>2, <4>1
      <4> QED BY <1>5, <4>2
    <3>3. o - 1 = m + (j - 1) /\ (o = n + 1 <=> j = (n - m) + 1)
      BY <2>7, <3>0
    <3> QED BY <3>0, <3>1, <3>2, <3>3 DEF From
  <2>9. \A j \in 1..((n - m) + 1) : j # 1 => j - 1 \in 1..(n - m)
    BY <1>2, <1>3
  <2>10. \A j \in 1..((n - m) + 1) : j # (n - m) + 1 => j \in 1..(n - m)
    BY <1>2, <1>3
  <2>11. \A j \in 1..((n - m) + 1) : \A k : k \in Q[b[j]] <=> /\ k \in From(S, x)
                                                              /\ j = 1 \/ a[j - 1] <= k
                                                              /\ j = (n - m) + 1 \/ k < a[j]
    BY <2>3, <2>4, <2>5, <2>8, <2>9, <2>10
  <2>12. From(S, x) \in SUBSET Int
    BY <1>2 DEF From
  <2>13. \A j \in 1..((n - m) + 1) : b[j] \in PageIDs /\ Q[b[j]] # {} /\ Q[b[j]] \in SUBSET From(S, x)
    <3> TAKE j \in 1..((n - m) + 1)
    <3>1. PICK o \in 1..(n + 1) : o = m + j
      BY <2>7
    <3>2. b[j] = cs[o]
      BY <2>4, <2>5, <3>1
    <3>3. \A k \in Q[b[j]] : k \in From(S, x)
      BY <2>11
    <3> QED BY <1>2, <3>2, <3>3
  <2>14. \A p, q \in 1..(n - m) : p < q => a[p] < a[q]
    <3> TAKE p, q \in 1..(n - m)
    <3>1. m + p \in 1..n /\ m + q \in 1..n /\ (p < q => m + p < m + q)
      BY <1>3, <2>6
    <3> QED BY <1>2, <2>3, <3>1
  <2>15. \A j \in 1..(n - m) : a[j] \in Keys /\ a[j] \in Int
    BY <1>2, <2>3, <2>6
  <2>16. NodeIs(a, b, From(S, x), Q, n - m)
    BY <2>3, <2>4, <2>5, <2>11, <2>12, <2>13, <2>14, <2>15 DEF NodeIs
  <2> QED BY <2>1, <2>2, <2>16, IsNode
<1> QED BY <1>4, <1>6, <1>7

-----------------------------------------------------------------------------
\* Two pages in one, with a key between them.
LEMMA NodeJoin ==
  ASSUME NEW ka, NEW ca, NEW S, NEW Q, Node(ka, ca, S, Q),
         NEW kb, NEW cb, NEW T, Node(kb, cb, T, Q),
         NEW x \in Keys, \A k \in S : k < x, \A k \in T : x <= k
  PROVE  Node(ka \o <<x>> \o kb, ca \o cb, S \cup T, Q)
<1>1. PICK n : n = Len(ka) /\ NodeIs(ka, ca, S, Q, n)
  BY NodeFacts
<1>2. PICK m : m = Len(kb) /\ NodeIs(kb, cb, T, Q, m)
  BY NodeFacts
<1>3. /\ ka \in Seq(Keys) /\ ca \in Seq(PageIDs) /\ n \in Nat /\ Len(ca) = n + 1 /\ Len(ka) = n
      /\ S \in SUBSET Int
      /\ \A p \in 1..n : ka[p] \in Keys /\ ka[p] \in Int
      /\ \A p \in 1..(n + 1) : ca[p] \in PageIDs /\ Q[ca[p]] # {}
      /\ \A p, q \in 1..n : p < q => ka[p] < ka[q]
      /\ \A p \in 1..(n + 1) : \A l : l \in Q[ca[p]] <=> /\ l \in S
                                                         /\ p = 1 \/ ka[p - 1] <= l
                                                         /\ p = n + 1 \/ l < ka[p]
  BY <1>1 DEF NodeIs
<1>4. /\ kb \in Seq(Keys) /\ cb \in Seq(PageIDs) /\ m \in Nat /\ Len(cb) = m + 1 /\ Len(kb) = m
      /\ T \in SUBSET Int
      /\ \A p \in 1..m : kb[p] \in Keys /\ kb[p] \in Int
      /\ \A p \in 1..(m + 1) : cb[p] \in PageIDs /\ Q[cb[p]] # {}
      /\ \A p, q \in 1..m : p < q => kb[p] < kb[q]
      /\ \A p \in 1..(m + 1) : \A l : l \in Q[cb[p]] <=> /\ l \in T
                                                         /\ p = 1 \/ kb[p - 1] <= l
                                                         /\ p = m + 1 \/ l < kb[p]
  BY <1>2 DEF NodeIs
<1>5. x \in Int
  BY Limits
<1>6. PICK a : a = ka \o <<x>>
  OBVIOUS
<1>7. a \in Seq(Keys) /\ Len(a) = n + 1 /\ \A j \in 1..(n + 1) : a[j] = IF j <= n THEN ka[j] ELSE x
  <2>1. PICK o : o = <<x>>
    OBVIOUS
  <2>2. o \in Seq(Keys) /\ Len(o) = 1 /\ o[1] = x
    BY <2>1
  <2>3. a = ka \o o /\ ka \in Seq(Keys)
    BY <1>3, <1>6, <2>1
  <2>4. /\ a \in Seq(Keys) /\ Len(a) = Len(ka) + Len(o)
        /\ \A j \in 1..(Len(ka) + Len(o)) : a[j] = IF j <= Len(ka) THEN ka[j] ELSE o[j - Len(ka)]
    BY ONLY <2>2, <2>3, JoinFacts
  <2>5. \A j \in 1..(n + 1) : ~(j <= n) => j - n = 1
    BY <1>3
  <2> QED BY <1>3, <2>2, <2>4, <2>5
<1>8. PICK ks : ks = a \o kb
  OBVIOUS
<1>9. /\ ks \in Seq(Keys) /\ Len(ks) = n + 1 + m
      /\ \A j \in 1..(n + 1 + m) : ks[j] = IF j <= n + 1 THEN a[j] ELSE kb[j - (n + 1)]
  <2>1. a \in Seq(Keys) /\ kb \in Seq(Keys) /\ ks = a \o kb
    BY <1>4, <1>7, <1>8
  <2>2. /\ ks \in Seq(Keys) /\ Len(ks) = Len(a) + Len(kb)
        /\ \A j \in 1..(Len(a) + Len(kb)) : ks[j] = IF j <= Len(a) THEN a[j] ELSE kb[j - Len(a)]
    BY ONLY <2>1, JoinFacts
  <2> QED BY <1>4, <1>7, <2>2
<1>10. /\ \A j \in 1..n : ks[j] = ka[j]
       /\ ks[n + 1] = x
       /\ \A j \in 1..m : ks[(n + 1) + j] = kb[j]
  <2>1. \A j \in 1..n : j \in 1..(n + 1 + m) /\ j \in 1..(n + 1) /\ j <= n + 1 /\ j <= n
    BY <1>3, <1>4
  <2>2. n + 1 \in 1..(n + 1 + m) /\ n + 1 \in 1..(n + 1) /\ n + 1 <= n + 1 /\ ~(n + 1 <= n)
    BY <1>3, <1>4
  <2>3. \A j \in 1..m : /\ (n + 1) + j \in 1..(n + 1 + m) /\ ~((n + 1) + j <= n + 1)
                        /\ ((n + 1) + j) - (n + 1) = j
    BY <1>3, <1>4
  <2>4. \A j \in 1..n : ks[j] = ka[j]
    BY <1>7, <1>9, <2>1
  <2>5. ks[n + 1] = x
    BY <1>7, <1>9, <2>2
  <2>6. \A j \in 1..m : ks[(n + 1) + j] = kb[j]
    <3> TAKE j \in 1..m
    <3>1. PICK o : o = (n + 1) + j /\ o \in 1..(n + 1 + m) /\ ~(o <= n + 1) /\ o - (n + 1) = j
      BY <2>3
    <3> QED BY <1>9, <3>1
  <2> QED BY <2>4, <2>5, <2>6
<1>11. PICK cs : cs = ca \o cb
  OBVIOUS
<1>12. /\ cs \in Seq(PageIDs) /\ Len(cs) = (n + 1 + m) + 1
       /\ \A j \in 1..(n + 1) : cs[j] = ca[j]
       /\ \A j \in 1..(m + 1) : cs[(n + 1) + j] = cb[j]
  <2>0. ca \in Seq(PageIDs) /\ cb \in Seq(PageIDs) /\ cs = ca \o cb
    BY <1>3, <1>4, <1>11
  <2>1. /\ cs \in Seq(PageIDs) /\ Len(cs) = Len(ca) + Len(cb)
        /\ \A j \in 1..(Len(ca) + Len(cb)) : cs[j] = IF j <= Len(ca) THEN ca[j] ELSE cb[j - Len(ca)]
    BY ONLY <2>0, JoinFacts
  <2>2. \A j \in 1..(n + 1) : j \in 1..(Len(ca) + Len(cb)) /\ j <= Len(ca)
    BY <1>3, <1>4
  <2>3. \A j \in 1..(m + 1) : /\ (n + 1) + j \in 1..(Len(ca) + Len(cb))
                              /\ ~((n + 1) + j <= Len(ca)) /\ ((n + 1) + j) - Len(ca) = j
    BY <1>3, <1>4
  <2>4. Len(ca) + Len(cb) = (n + 1 + m) + 1
    BY <1>3, <1>4
  <2>5. \A j \in 1..(n + 1) : cs[j] = ca[j]
    BY <2>1, <2>2
  <2>6. \A j \in 1..(m + 1) : cs[(n + 1) + j] = cb[j]
    <3> TAKE j \in 1..(m + 1)
    <3>1. PICK o : o = (n + 1) + j /\ o \in 1..(Len(ca) + Len(cb)) /\ ~(o <= Len(ca)) /\ o - Len(ca) = j
      BY <2>3
    <3> QED BY <2>1, <3>1
  <2> QED BY <2>1, <2>4, <2>5, <2>6
\* The keys on either side of the one between.
<1>13. \A j \in 1..n : ka[j] < x
  <2> TAKE j \in 1..n
  <2>1. j + 1 \in 1..(n + 1) /\ j + 1 # 1 /\ (j + 1) - 1 = j
    BY <1>3
  <2>2. PICK l \in Q[ca[j + 1]] : TRUE
    BY <1>3, <2>1
  <2>3. l \in S /\ ka[j] <= l
    BY <1>3, <2>1, <2>2
  <2>4. l \in Int /\ l < x /\ ka[j] \in Int
    BY <1>3, <2>3
  <2> QED BY <1>5, <2>3, <2>4
<1>14. \A j \in 1..m : x < kb[j]
  <2> TAKE j \in 1..m
  <2>1. j \in 1..(m + 1) /\ j # m + 1
    BY <1>4
  <2>2. PICK l \in Q[cb[j]] : TRUE
    BY <1>4, <2>1
  <2>3. l \in T /\ l < kb[j]
    BY <1>4, <2>1, <2>2
  <2>4. l \in Int /\ x <= l /\ kb[j] \in Int
    BY <1>4, <2>3
  <2> QED BY <1>5, <2>3, <2>4
<1>15. \A j \in 1..(n + 1 + m) : \/ j \in 1..n
                                 \/ j = n + 1
                                 \/ \E i \in 1..m : j = (n + 1) + i
  <2> TAKE j \in 1..(n + 1 + m)
  <2>1. ~(j <= n + 1) => j - (n + 1) \in 1..m /\ j = (n + 1) + (j - (n + 1))
    BY <1>3, <1>4
  <2>2. j <= n + 1 => j \in 1..n \/ j = n + 1
    BY <1>3
  <2> QED BY <2>1, <2>2
<1>16. \A p, q \in 1..(n + 1 + m) : p < q => ks[p] < ks[q]
  <2> SUFFICES ASSUME NEW p \in 1..(n + 1 + m), NEW q \in 1..(n + 1 + m), p < q
               PROVE  ks[p] < ks[q]
    OBVIOUS
  <2>1. CASE p \in 1..n /\ q \in 1..n
    BY <1>3, <1>10, <2>1
  <2>2. CASE p \in 1..n /\ q = n + 1
    BY <1>10, <1>13, <2>2
  <2>3. CASE p \in 1..n /\ \E i \in 1..m : q = (n + 1) + i
    <3>1. PICK i \in 1..m : q = (n + 1) + i
      BY <2>3
    <3>2. ks[p] = ka[p] /\ ks[q] = kb[i] /\ ka[p] < x /\ x < kb[i] /\ ka[p] \in Int /\ kb[i] \in Int
      BY <1>3, <1>4, <1>10, <1>13, <1>14, <2>3, <3>1
    <3> QED BY <1>5, <3>2
  <2>4. CASE p = n + 1 /\ \E i \in 1..m : q = (n + 1) + i
    BY <1>10, <1>14, <2>4
  <2>5. CASE (\E i \in 1..m : p = (n + 1) + i) /\ (\E i \in 1..m : q = (n + 1) + i)
    <3>1. PICK i \in 1..m : p = (n + 1) + i
      BY <2>5
    <3>2. PICK j \in 1..m : q = (n + 1) + j
      BY <2>5
    <3>3. i < j
      BY <1>3, <3>1, <3>2
    <3> QED BY <1>4, <1>10, <3>1, <3>2, <3>3
  <2>6. ~(p = n + 1 /\ (q = n + 1 \/ q \in 1..n))
    BY <1>3
  <2>7. ~((\E i \in 1..m : p = (n + 1) + i) /\ (q = n + 1 \/ q \in 1..n))
    BY <1>3, <1>4
  <2> QED BY <1>15, <2>1, <2>2, <2>3, <2>4, <2>5, <2>6, <2>7
\* What lies below the children.
<1>17. \A p \in 1..(n + 1) : \A k : k \in Q[cs[p]] <=> /\ k \in S \cup T
                                                       /\ p = 1 \/ ks[p - 1] <= k
                                                       /\ p = (n + 1 + m) + 1 \/ k < ks[p]
  <2> SUFFICES ASSUME NEW p \in 1..(n + 1), NEW k
               PROVE  k \in Q[cs[p]] <=> /\ k \in S \cup T
                                         /\ p = 1 \/ ks[p - 1] <= k
                                         /\ p = (n + 1 + m) + 1 \/ k < ks[p]
    OBVIOUS
  <2>1. p # (n + 1 + m) + 1 /\ (p # n + 1 => p \in 1..n) /\ (p # 1 => p - 1 \in 1..n)
    BY <1>3, <1>4
  <2>2. cs[p] = ca[p] /\ (p # 1 => ks[p - 1] = ka[p - 1]) /\ (p # n + 1 => ks[p] = ka[p])
    BY <1>10, <1>12, <2>1
  <2>3. k \in Q[ca[p]] <=> /\ k \in S
                           /\ p = 1 \/ ka[p - 1] <= k
                           /\ p = n + 1 \/ k < ka[p]
    BY <1>3
  <2>4. k \in S => k < x
    OBVIOUS
  <2>5. k \in T /\ k < ks[p] => FALSE
    <3> SUFFICES ASSUME k \in T, k < ks[p] PROVE FALSE
      OBVIOUS
    <3>1. k \in Int /\ x <= k
      BY <1>4
    <3>2. ks[p] \in Int /\ ks[p] <= x
      BY <1>3, <1>5, <1>10, <1>13, <2>1, <2>2
    <3> QED BY <1>5, <3>1, <3>2
  <2>6. p = n + 1 => ks[p] = x
    BY <1>10
  <2> QED BY <2>1, <2>2, <2>3, <2>4, <2>5, <2>6
<1>18. \A p \in 1..(m + 1) : \A k : k \in Q[cs[(n + 1) + p]] <=> /\ k \in S \cup T
                                                                 /\ ks[n + p] <= k
                                                                 /\ p = m + 1 \/ k < ks[(n + 1) + p]
  <2> SUFFICES ASSUME NEW p \in 1..(m + 1), NEW k
               PROVE  k \in Q[cs[(n + 1) + p]] <=> /\ k \in S \cup T
                                                   /\ ks[n + p] <= k
                                                   /\ p = m + 1 \/ k < ks[(n + 1) + p]
    OBVIOUS
  <2>1. (p # m + 1 => p \in 1..m) /\ (p # 1 => p - 1 \in 1..m /\ n + p = (n + 1) + (p - 1)) /\ (p = 1 => n + p = n + 1)
    BY <1>3, <1>4
  <2>2. /\ cs[(n + 1) + p] = cb[p] /\ (p # 1 => ks[n + p] = kb[p - 1]) /\ (p = 1 => ks[n + p] = x)
        /\ (p # m + 1 => ks[(n + 1) + p] = kb[p])
    BY <1>10, <1>12, <2>1
  <2>3. k \in Q[cb[p]] <=> /\ k \in T
                           /\ p = 1 \/ kb[p - 1] <= k
                           /\ p = m + 1 \/ k < kb[p]
    BY <1>4
  <2>4. k \in T => x <= k
    OBVIOUS
  <2>5. k \in S /\ ks[n + p] <= k => FALSE
    <3> SUFFICES ASSUME k \in S, ks[n + p] <= k PROVE FALSE
      OBVIOUS
    <3>1. k \in Int /\ k < x
      BY <1>3
    <3>2. ks[n + p] \in Int /\ x <= ks[n + p]
      <4>1. CASE p = 1
        BY <1>5, <2>2, <4>1
      <4>2. CASE p # 1
        <5>1. PICK o \in 1..m : o = p - 1
          BY <2>1, <4>2
        <5>2. ks[n + p] = kb[o] /\ kb[o] \in Int /\ x < kb[o]
          BY <1>4, <1>14, <2>2, <4>2, <5>1
        <5> QED BY <1>5, <5>2
      <4> QED BY <4>1, <4>2
    <3> QED BY <1>5, <3>1, <3>2
  <2> QED BY <2>1, <2>2, <2>3, <2>4, <2>5
<1>19. \A p \in 1..((n + 1 + m) + 1) : p \in 1..(n + 1) \/ \E i \in 1..(m + 1) : p = (n + 1) + i /\ p - 1 = n + i
  <2> TAKE p \in 1..((n + 1 + m) + 1)
  <2>1. ~(p <= n + 1) => /\ p - (n + 1) \in 1..(m + 1) /\ p = (n + 1) + (p - (n + 1))
                         /\ p - 1 = n + (p - (n + 1))
    BY <1>3, <1>4
  <2>2. p <= n + 1 => p \in 1..(n + 1)
    BY <1>3
  <2> QED BY <2>1, <2>2
<1>20. \A p \in 1..((n + 1 + m) + 1) : Q[cs[p]] # {} /\
         \A k : k \in Q[cs[p]] <=> /\ k \in S \cup T
                                   /\ p = 1 \/ ks[p - 1] <= k
                                   /\ p = (n + 1 + m) + 1 \/ k < ks[p]
  <2> TAKE p \in 1..((n + 1 + m) + 1)
  <2>1. CASE p \in 1..(n + 1)
    BY <1>3, <1>12, <1>17, <2>1
  <2>2. CASE \E i \in 1..(m + 1) : p = (n + 1) + i /\ p - 1 = n + i
    <3>1. PICK i \in 1..(m + 1) : p = (n + 1) + i /\ p - 1 = n + i
      BY <2>2
    <3>3. n \in Nat /\ m \in Nat /\ i \in 1..(m + 1) /\ p = (n + 1) + i
      BY <1>3, <1>4, <3>1
    <3>4. p # 1
      BY ONLY <3>3
    <3>5. p = (n + 1 + m) + 1 <=> i = m + 1
      BY ONLY <3>3
    <3>2. p # 1 /\ (p = (n + 1 + m) + 1 <=> i = m + 1)
      BY <3>4, <3>5
    <3> QED BY <1>4, <1>12, <1>18, <3>1, <3>2
  <2> QED BY <1>19, <2>1, <2>2
<1>21. NodeIs(ks, cs, S \cup T, Q, n + 1 + m)
  <2>1. n + 1 + m \in Nat
    BY <1>3, <1>4
  <2>2. \A p \in 1..(n + 1 + m) : ks[p] \in Keys
    BY <1>9, ElementOfSeq
  <2>3. \A k \in Keys : k \in Int
    BY Limits
  <2>4. \A p \in 1..((n + 1 + m) + 1) : cs[p] \in PageIDs
    BY <1>12, ElementOfSeq
  <2>5. \A p \in 1..((n + 1 + m) + 1) : Q[cs[p]] \in SUBSET (S \cup T)
    <3> TAKE p \in 1..((n + 1 + m) + 1)
    <3>1. \A k \in Q[cs[p]] : k \in S \cup T
      BY <1>20
    <3> QED BY <3>1
  <2>6. S \cup T \in SUBSET Int
    BY <1>3, <1>4
  <2> QED BY <1>9, <1>12, <1>16, <1>20, <2>1, <2>2, <2>3, <2>4, <2>5, <2>6 DEF NodeIs
<1> QED BY <1>6, <1>8, <1>11, <1>21, IsNode

-----------------------------------------------------------------------------
LEMMA Inserted ==
  ASSUME NEW S, NEW s, NEW x, NEW i, NEW w,
         s \in Seq(S) /\ x \in S /\ i \in 1..(Len(s) + 1) /\ w = InsertAt(s, i, x)
  PROVE  InsertedAt(S, s, i, x, w)
  BY InsertIs

\* The i-th child takes what the next one had.
Absorbing(ks, cs, S, Q, i, Q2, ks2, cs2) ==
  /\ Node(ks, cs, S, Q) /\ i \in 1..Len(ks)
  /\ Q2[cs[i]] = Q[cs[i]] \cup Q[cs[i + 1]]
  /\ \A j \in 1..Len(cs) : j # i /\ j # i + 1 => Q2[cs[j]] = Q[cs[j]]
  /\ ks2 = RemoveAt(ks, i) /\ cs2 = RemoveAt(cs, i + 1)

LEMMA NodeRemove ==
  ASSUME NEW ks, NEW cs, NEW S, NEW Q, NEW i, NEW Q2, NEW ks2, NEW cs2,
         Absorbing(ks, cs, S, Q, i, Q2, ks2, cs2)
  PROVE  Node(ks2, cs2, S, Q2)
<1> /\ Node(ks, cs, S, Q) /\ i \in 1..Len(ks)
    /\ Q2[cs[i]] = Q[cs[i]] \cup Q[cs[i + 1]]
    /\ \A j \in 1..Len(cs) : j # i /\ j # i + 1 => Q2[cs[j]] = Q[cs[j]]
  BY DEF Absorbing
<1>1. PICK n : n = Len(ks) /\ NodeIs(ks, cs, S, Q, n)
  BY NodeFacts
<1>2. /\ ks \in Seq(Keys) /\ cs \in Seq(PageIDs) /\ n \in Nat /\ Len(cs) = n + 1
      /\ S \in SUBSET Int
      /\ \A p \in 1..n : ks[p] \in Keys /\ ks[p] \in Int
      /\ \A p \in 1..(n + 1) : Q[cs[p]] # {}
      /\ \A p, q \in 1..n : p < q => ks[p] < ks[q]
      /\ \A p \in 1..(n + 1) : \A l : l \in Q[cs[p]] <=> /\ l \in S
                                                         /\ p = 1 \/ ks[p - 1] <= l
                                                         /\ p = n + 1 \/ l < ks[p]
  BY <1>1 DEF NodeIs
<1>3. i \in 1..n /\ i \in Nat /\ i \in 1..(n + 1) /\ i + 1 \in 1..(n + 1) /\ (i + 1) - 1 = i
  BY <1>1, <1>2
<1>4. ks2 = RemoveAt(ks, i)
  BY DEF Absorbing
<1>5. /\ ks2 \in Seq(Keys) /\ Len(ks2) = n - 1
      /\ \A j \in 1..(n - 1) : ks2[j] = IF j < i THEN ks[j] ELSE ks[j + 1]
  <2>1. ks \in Seq(Keys) /\ i \in 1..Len(ks) /\ ks2 = RemoveAt(ks, i)
    BY <1>2, <1>4
  <2>2. /\ ks2 \in Seq(Keys) /\ Len(ks2) = Len(ks) - 1
        /\ \A j \in 1..(Len(ks) - 1) : ks2[j] = IF j < i THEN ks[j] ELSE ks[j + 1]
    BY ONLY <2>1, RemoveFacts
  <2> QED BY <1>1, <2>2
<1>6. cs2 = RemoveAt(cs, i + 1)
  BY DEF Absorbing
<1>7. /\ cs2 \in Seq(PageIDs) /\ Len(cs2) = n
      /\ \A j \in 1..n : cs2[j] = IF j < i + 1 THEN cs[j] ELSE cs[j + 1]
  <2>1. PICK o : o = i + 1
    OBVIOUS
  <2>2. cs \in Seq(PageIDs) /\ o \in 1..Len(cs) /\ cs2 = RemoveAt(cs, o)
    BY <1>2, <1>3, <1>6, <2>1
  <2>3. /\ cs2 \in Seq(PageIDs) /\ Len(cs2) = Len(cs) - 1
        /\ \A j \in 1..(Len(cs) - 1) : cs2[j] = IF j < o THEN cs[j] ELSE cs[j + 1]
    BY ONLY <2>2, RemoveFacts
  <2>4. Len(cs) - 1 = n
    BY <1>2
  <2> QED BY <2>1, <2>3, <2>4
<1>8. \A p, q \in 1..(n - 1) : p < q => ks2[p] < ks2[q]
  <2> SUFFICES ASSUME NEW p \in 1..(n - 1), NEW q \in 1..(n - 1), p < q PROVE ks2[p] < ks2[q]
    OBVIOUS
  <2>0. /\ p \in 1..n /\ q \in 1..n /\ p + 1 \in 1..n /\ q + 1 \in 1..n
        /\ p + 1 < q + 1 /\ p < q + 1 /\ p \in Nat /\ q \in Nat
    BY <1>2
  <2>1. CASE q < i
    <3>1. p < i
      BY <1>3, <2>0, <2>1
    <3> QED BY <1>2, <1>5, <2>0, <2>1, <3>1
  <2>2. CASE p < i /\ ~(q < i)
    <3>1. ks2[p] = ks[p] /\ ks2[q] = ks[q + 1]
      BY <1>5, <2>2
    <3> QED BY <1>2, <2>0, <3>1
  <2>3. CASE ~(p < i)
    <3>1. ~(q < i)
      BY <1>3, <2>0, <2>3
    <3>2. ks2[p] = ks[p + 1] /\ ks2[q] = ks[q + 1]
      BY <1>5, <2>3, <3>1
    <3> QED BY <1>2, <2>0, <3>2
  <2> QED BY <2>1, <2>2, <2>3
<1>9. ks[i] \in Int /\ \A l \in Q[cs[i]] : l \in S /\ l < ks[i]
  <2>1. i # n + 1
    BY <1>2, <1>3
  <2> QED BY <1>2, <1>3, <2>1
<1>10. \A l \in Q[cs[i + 1]] : l \in S /\ ks[i] <= l
  <2>1. i + 1 # 1
    BY <1>3
  <2> QED BY <1>2, <1>3, <2>1
\* What they divide.
<1>12. \A p \in 1..n : Q2[cs2[p]] # {} /\
         \A l : l \in Q2[cs2[p]] <=> /\ l \in S
                                     /\ p = 1 \/ ks2[p - 1] <= l
                                     /\ p = n \/ l < ks2[p]
  <2> SUFFICES ASSUME NEW p \in 1..n
               PROVE  Q2[cs2[p]] # {} /\
                      \A l : l \in Q2[cs2[p]] <=> /\ l \in S
                                                  /\ p = 1 \/ ks2[p - 1] <= l
                                                  /\ p = n \/ l < ks2[p]
    OBVIOUS
  <2>1. CASE p < i
    <3>1. /\ p \in 1..(n + 1) /\ p # n + 1 /\ p # n /\ p < i + 1 /\ p \in 1..Len(cs) /\ p # i
          /\ p # i + 1 /\ p \in 1..(n - 1)
      BY <1>2, <1>3, <2>1
    <3>2. cs2[p] = cs[p] /\ ks2[p] = ks[p]
      BY <1>5, <1>7, <2>1, <3>1
    <3>3. p = 1 \/ ks2[p - 1] = ks[p - 1]
      <4>1. p # 1 => p - 1 \in 1..(n - 1) /\ p - 1 < i
        BY <1>2, <1>3, <2>1, <3>1
      <4> QED BY <1>5, <4>1
    <3>4. Q2[cs2[p]] = Q[cs[p]]
      BY <3>1, <3>2
    <3> QED BY <1>2, <3>1, <3>2, <3>3, <3>4
  <2>2. CASE p = i
    <3>1. p < i + 1 /\ p \in 1..(n + 1)
      BY <1>2, <1>3, <2>2
    <3>2. cs2[p] = cs[i]
      BY <1>7, <2>2, <3>1
    <3>3. p = 1 \/ ks2[p - 1] = ks[i - 1]
      <4>1. p # 1 => p - 1 \in 1..(n - 1) /\ p - 1 < i
        BY <1>2, <1>3, <2>2, <3>1
      <4> QED BY <1>5, <2>2, <4>1
    <3>4. p # n => ks2[p] = ks[i + 1]
      <4>1. p # n => p \in 1..(n - 1) /\ ~(p < i)
        BY <1>2, <1>3, <2>2
      <4> QED BY <1>5, <2>2, <4>1
    <3>5. p = n <=> i + 1 = n + 1
      BY <1>2, <1>3, <2>2
    <3>6. \A l : l \in Q2[cs2[p]] <=> l \in Q[cs[i]] \/ l \in Q[cs[i + 1]]
      BY <3>2
    <3>7. \A l : l \in Q[cs[i]] <=> l \in S /\ (i = 1 \/ ks[i - 1] <= l) /\ l < ks[i]
      <4>1. i # n + 1
        BY <1>2, <1>3
      <4> QED BY <1>2, <1>3, <4>1
    <3>8. \A l : l \in Q[cs[i + 1]] <=> l \in S /\ ks[i] <= l /\ (i + 1 = n + 1 \/ l < ks[i + 1])
      <4>1. i + 1 # 1
        BY <1>3
      <4> QED BY <1>2, <1>3, <4>1
    <3>9. \A l \in S : ks[i] <= l => i = 1 \/ ks[i - 1] <= l
      <4> SUFFICES ASSUME NEW l \in S, ks[i] <= l, i # 1 PROVE ks[i - 1] <= l
        OBVIOUS
      <4>1. i - 1 \in 1..n /\ i - 1 < i
        BY <1>2, <1>3
      <4>2. ks[i - 1] < ks[i] /\ ks[i - 1] \in Int /\ ks[i] \in Int /\ l \in Int
        BY <1>2, <1>3, <4>1
      <4> QED BY <4>2
    <3>10. \A l \in S : l < ks[i] => i + 1 = n + 1 \/ l < ks[i + 1]
      <4> SUFFICES ASSUME NEW l \in S, l < ks[i], i + 1 # n + 1 PROVE l < ks[i + 1]
        OBVIOUS
      <4>1. i + 1 \in 1..n /\ i < i + 1
        BY <1>2, <1>3
      <4>2. ks[i] < ks[i + 1] /\ ks[i + 1] \in Int /\ ks[i] \in Int /\ l \in Int
        BY <1>2, <1>3, <4>1
      <4> QED BY <4>2
    <3>11. \A l \in S : l < ks[i] \/ ks[i] <= l
      BY <1>2, <1>3
    <3>12. \A l : l \in Q2[cs2[p]] <=> l \in S /\ (i = 1 \/ ks[i - 1] <= l) /\ (i + 1 = n + 1 \/ l < ks[i + 1])
      BY <3>6, <3>7, <3>8, <3>9, <3>10, <3>11
    <3>13. Q2[cs2[p]] # {}
      BY <1>2, <1>3, <3>2
    <3> QED BY <2>2, <3>3, <3>4, <3>5, <3>12, <3>13
  <2>3. CASE i < p
    <3>1. PICK o : o = p + 1
      OBVIOUS
    <3>2. o \in 1..(n + 1) /\ o # i /\ o # i + 1 /\ o # 1 /\ p # 1 /\ ~(p < i + 1)
      BY <1>2, <1>3, <2>3, <3>1
    <3>3. o = n + 1 <=> p = n
      BY <1>2, <3>1
    <3>4. p - 1 \in 1..(n - 1) /\ ~(p - 1 < i) /\ (p - 1) + 1 = o - 1
      BY <1>2, <1>3, <2>3, <3>1
    <3>5. cs2[p] = cs[o]
      BY <1>7, <3>1, <3>2
    <3>6. ks2[p - 1] = ks[o - 1]
      BY <1>5, <3>4
    <3>7. p # n => ks2[p] = ks[o]
      <4>1. p # n => p \in 1..(n - 1) /\ ~(p < i)
        BY <1>2, <1>3, <2>3
      <4> QED BY <1>5, <3>1, <4>1
    <3>8. Q2[cs2[p]] = Q[cs[o]]
      BY <1>2, <3>2, <3>5
    <3> QED BY <1>2, <3>2, <3>3, <3>6, <3>7, <3>8
  <2> QED BY <1>3, <2>1, <2>2, <2>3
<1>13. NodeIs(ks2, cs2, S, Q2, n - 1)
  <2>1. n - 1 \in Nat /\ (n - 1) + 1 = n
    BY <1>2, <1>3
  <2>2. \A p \in 1..(n - 1) : ks2[p] \in Keys
    BY <1>5, ElementOfSeq
  <2>3. \A k \in Keys : k \in Int
    BY Limits
  <2>4. \A p \in 1..n : cs2[p] \in PageIDs
    BY <1>7, ElementOfSeq
  <2>5. \A p \in 1..n : Q2[cs2[p]] \in SUBSET S
    BY <1>12
  <2> QED BY <1>2, <1>5, <1>7, <1>8, <1>12, <2>1, <2>2, <2>3, <2>4, <2>5 DEF NodeIs
<1> QED BY <1>4, <1>6, <1>13, IsNode

\* Two neighbours share what they have anew.
Redivided(ks, cs, S, Q, i, x, U, Q2) ==
  /\ Node(ks, cs, S, Q) /\ i \in 1..Len(ks)
  /\ \A p, q \in 1..Len(cs) : p # q => cs[p] # cs[q]
  /\ U = Q[cs[i]] \cup Q[cs[i + 1]] /\ x \in Keys /\ x \in U
  /\ Q2[cs[i]] = Below(U, x) /\ Q2[cs[i]] # {}
  /\ Q2[cs[i + 1]] = From(U, x) /\ Q2[cs[i + 1]] # {}
  /\ \A j \in 1..Len(cs) : j # i /\ j # i + 1 => Q2[cs[j]] = Q[cs[j]]

LEMMA NodeSet ==
  ASSUME NEW ks, NEW cs, NEW S, NEW Q, NEW i, NEW x, NEW U, NEW Q2,
         Redivided(ks, cs, S, Q, i, x, U, Q2)
  PROVE  Node([ks EXCEPT ![i] = x], cs, S, Q2)
<1> /\ Node(ks, cs, S, Q) /\ i \in 1..Len(ks)
    /\ \A p, q \in 1..Len(cs) : p # q => cs[p] # cs[q]
    /\ U = Q[cs[i]] \cup Q[cs[i + 1]] /\ x \in Keys /\ x \in U
  BY DEF Redivided
<1> /\ Q2[cs[i]] = Below(U, x) /\ Q2[cs[i]] # {}
    /\ Q2[cs[i + 1]] = From(U, x) /\ Q2[cs[i + 1]] # {}
    /\ \A j \in 1..Len(cs) : j # i /\ j # i + 1 => Q2[cs[j]] = Q[cs[j]]
  BY DEF Redivided
<1>1. PICK n : n = Len(ks) /\ NodeIs(ks, cs, S, Q, n)
  BY NodeFacts
<1>2. /\ ks \in Seq(Keys) /\ cs \in Seq(PageIDs) /\ n \in Nat /\ Len(cs) = n + 1
  BY <1>1 DEF NodeIs
<1>3. i \in 1..n /\ i \in Nat /\ i \in 1..(n + 1) /\ i + 1 \in 1..(n + 1) /\ (i + 1) - 1 = i
  BY <1>1, <1>2
<1>4. PICK Q1 : Q1 = [p \in PageIDs |-> IF p = cs[i] THEN U ELSE Q[p]]
  OBVIOUS
<1>5. \A j \in 1..(n + 1) : cs[j] \in PageIDs
  BY <1>2, ElementOfSeq
<1>6. Q1[cs[i]] = U /\ \A j \in 1..(n + 1) : j # i => Q1[cs[j]] = Q[cs[j]]
  BY <1>2, <1>3, <1>4, <1>5
<1>7. PICK ks1, cs1 : ks1 = RemoveAt(ks, i) /\ cs1 = RemoveAt(cs, i + 1)
  OBVIOUS
<1>8. Node(ks1, cs1, S, Q1)
  <2>1. Q1[cs[i]] = Q[cs[i]] \cup Q[cs[i + 1]]
    BY <1>6
  <2>2. \A j \in 1..Len(cs) : j # i /\ j # i + 1 => Q1[cs[j]] = Q[cs[j]]
    BY <1>2, <1>6
  <2>3. Absorbing(ks, cs, S, Q, i, Q1, ks1, cs1)
    BY <1>7, <2>1, <2>2 DEF Absorbing
  <2> QED BY ONLY <2>3, NodeRemove
<1>9. /\ ks1 \in Seq(Keys) /\ Len(ks1) = n - 1
      /\ \A j \in 1..(n - 1) : ks1[j] = IF j < i THEN ks[j] ELSE ks[j + 1]
  <2>1. ks \in Seq(Keys) /\ i \in 1..Len(ks) /\ ks1 = RemoveAt(ks, i)
    BY <1>2, <1>7
  <2>2. /\ ks1 \in Seq(Keys) /\ Len(ks1) = Len(ks) - 1
        /\ \A j \in 1..(Len(ks) - 1) : ks1[j] = IF j < i THEN ks[j] ELSE ks[j + 1]
    BY ONLY <2>1, RemoveFacts
  <2> QED BY <1>1, <2>2
<1>10. /\ cs1 \in Seq(PageIDs) /\ Len(cs1) = n
       /\ \A j \in 1..n : cs1[j] = IF j < i + 1 THEN cs[j] ELSE cs[j + 1]
  <2>1. PICK o : o = i + 1
    OBVIOUS
  <2>2. cs \in Seq(PageIDs) /\ o \in 1..Len(cs) /\ cs1 = RemoveAt(cs, o)
    BY <1>2, <1>3, <1>7, <2>1
  <2>3. /\ cs1 \in Seq(PageIDs) /\ Len(cs1) = Len(cs) - 1
        /\ \A j \in 1..(Len(cs) - 1) : cs1[j] = IF j < o THEN cs[j] ELSE cs[j + 1]
    BY ONLY <2>2, RemoveFacts
  <2>4. Len(cs) - 1 = n
    BY <1>2
  <2> QED BY <2>1, <2>3, <2>4
<1>11. cs1[i] = cs[i]
  <2>1. i \in 1..n /\ i < i + 1
    BY <1>2, <1>3
  <2> QED BY <1>10, <2>1
<1>12. \A j \in 1..Len(cs1) : j # i => Q2[cs1[j]] = Q1[cs1[j]]
  <2> SUFFICES ASSUME NEW j \in 1..n, j # i PROVE Q2[cs1[j]] = Q1[cs1[j]]
    BY <1>10
  <2>1. PICK o : o = IF j < i + 1 THEN j ELSE j + 1
    OBVIOUS
  <2>2. o \in 1..(n + 1) /\ o # i /\ o # i + 1
    BY <1>2, <1>3, <2>1
  <2>3. cs1[j] = cs[o]
    BY <1>10, <2>1
  <2> QED BY <1>2, <1>6, <2>2, <2>3
<1>13. Node(InsertAt(ks1, i, x), InsertAt(cs1, i + 1, cs[i + 1]), S, Q2)
  <2>1. i \in 1..Len(cs1) /\ cs[i + 1] \in PageIDs
    BY <1>3, <1>5, <1>10
  <2>2. x \in Q1[cs1[i]] /\ Q2[cs1[i]] = Below(Q1[cs1[i]], x) /\ Q2[cs1[i]] # {}
        /\ Q2[cs[i + 1]] = From(Q1[cs1[i]], x) /\ Q2[cs[i + 1]] # {}
    BY <1>6, <1>11
  <2>3. PICK d : d = cs[i + 1]
    OBVIOUS
  <2>4. /\ Node(ks1, cs1, S, Q1) /\ i \in 1..Len(cs1) /\ x \in Keys /\ x \in Q1[cs1[i]] /\ d \in PageIDs
        /\ Q2[cs1[i]] = Below(Q1[cs1[i]], x) /\ Q2[cs1[i]] # {}
        /\ Q2[d] = From(Q1[cs1[i]], x) /\ Q2[d] # {}
        /\ \A j \in 1..Len(cs1) : j # i => Q2[cs1[j]] = Q1[cs1[j]]
    BY <1>8, <1>12, <2>1, <2>2, <2>3
  <2>5. Node(InsertAt(ks1, i, x), InsertAt(cs1, i + 1, d), S, Q2)
    BY ONLY <2>4, NodeInsert
  <2> QED BY <2>3, <2>5
<1>14. InsertAt(ks1, i, x) = [ks EXCEPT ![i] = x]
  <2>1. PICK k2 : k2 = InsertAt(ks1, i, x)
    OBVIOUS
  <2>2. ks1 \in Seq(Keys) /\ x \in Keys /\ i \in 1..(Len(ks1) + 1) /\ k2 = InsertAt(ks1, i, x)
    BY <1>2, <1>3, <1>9, <2>1
  <2>3. /\ k2 \in Seq(Keys) /\ Len(k2) = Len(ks1) + 1
        /\ \A j \in 1..(Len(ks1) + 1) : k2[j] = IF j < i THEN ks1[j] ELSE IF j = i THEN x ELSE ks1[j - 1]
    <3>1. InsertedAt(Keys, ks1, i, x, k2)
      BY <2>2, Inserted
    <3> QED BY <3>1 DEF InsertedAt
  <2>4. Len(ks1) + 1 = n
    BY <1>2, <1>9
  <2>5. PICK k3 : k3 = [ks EXCEPT ![i] = x]
    OBVIOUS
  <2>6. k3 \in Seq(Keys) /\ Len(k3) = n /\ \A j \in 1..n : k3[j] = IF j = i THEN x ELSE ks[j]
    BY <1>1, <1>2, <1>3, <2>5
  <2>7. \A j \in 1..n : k2[j] = k3[j]
    <3> SUFFICES ASSUME NEW j \in 1..n PROVE k2[j] = k3[j]
      OBVIOUS
    <3>1. CASE j < i
      <4>1. j \in 1..(n - 1) /\ j # i
        BY <1>2, <1>3, <3>1
      <4> QED BY <1>9, <2>3, <2>4, <2>6, <3>1, <4>1
    <3>2. CASE j = i
      <4>1. ~(j < i)
        BY <1>3, <3>2
      <4> QED BY <2>3, <2>4, <2>6, <3>2, <4>1
    <3>3. CASE i < j
      <4>1. j - 1 \in 1..(n - 1) /\ ~(j - 1 < i) /\ (j - 1) + 1 = j /\ ~(j < i) /\ j # i
        BY <1>2, <1>3, <3>3
      <4> QED BY <1>9, <2>3, <2>4, <2>6, <4>1
    <3> QED BY <1>3, <3>1, <3>2, <3>3
  <2> QED BY <2>1, <2>3, <2>4, <2>5, <2>6, <2>7, SeqEqual
<1>15. InsertAt(cs1, i + 1, cs[i + 1]) = cs
  <2>1. PICK o : o = i + 1
    OBVIOUS
  <2>2. PICK c2 : c2 = InsertAt(cs1, o, cs[o])
    OBVIOUS
  <2>3. cs1 \in Seq(PageIDs) /\ cs[o] \in PageIDs /\ o \in 1..(Len(cs1) + 1) /\ c2 = InsertAt(cs1, o, cs[o])
    BY <1>2, <1>3, <1>5, <1>10, <2>1, <2>2
  <2>4. /\ c2 \in Seq(PageIDs) /\ Len(c2) = Len(cs1) + 1
        /\ \A j \in 1..(Len(cs1) + 1) : c2[j] = IF j < o THEN cs1[j] ELSE IF j = o THEN cs[o] ELSE cs1[j - 1]
    <3>1. PICK y : y = cs[o]
      OBVIOUS
    <3>2. cs1 \in Seq(PageIDs) /\ y \in PageIDs /\ o \in 1..(Len(cs1) + 1) /\ c2 = InsertAt(cs1, o, y)
      BY <2>3, <3>1
    <3>3. InsertedAt(PageIDs, cs1, o, y, c2)
      BY ONLY <3>2, InsertIs
    <3> QED BY <3>1, <3>3 DEF InsertedAt
  <2>5. \A j \in 1..(n + 1) : c2[j] = cs[j]
    <3> SUFFICES ASSUME NEW j \in 1..(n + 1) PROVE c2[j] = cs[j]
      OBVIOUS
    <3>1. CASE j < o
      <4>1. j \in 1..n
        BY <1>2, <1>3, <2>1, <3>1
      <4> QED BY <1>10, <2>1, <2>4, <3>1, <4>1
    <3>2. CASE j = o
      <4>1. ~(j < o)
        BY <1>3, <2>1, <3>2
      <4> QED BY <1>10, <2>4, <3>2, <4>1
    <3>3. CASE o < j
      <4>1. j - 1 \in 1..n /\ ~(j - 1 < o) /\ (j - 1) + 1 = j /\ ~(j < o) /\ j # o
        BY <1>2, <1>3, <2>1, <3>3
      <4> QED BY <1>10, <2>1, <2>4, <4>1
    <3> QED BY <1>3, <2>1, <3>1, <3>2, <3>3
  <2>6. Len(c2) = Len(cs)
    BY <1>2, <1>10, <2>4
  <2> QED BY <1>2, <2>1, <2>2, <2>4, <2>5, <2>6, SeqEqual
<1> QED BY <1>13, <1>14, <1>15

-----------------------------------------------------------------------------
\* The leaves in a chain.

\* T is what comes behind S; nothing comes behind S.
Next2(S, T) == \A x \in S, y \in T : x < y /\ \A k \in Int : x <= k /\ k <= y => k \in S \/ k \in T
Top(S) == \A x \in S : \A k \in Int : x <= k => k \in S

LEMMA CutConvex ==
  ASSUME NEW S \in SUBSET Int, Convex(S), NEW x \in Int
  PROVE  Convex(Below(S, x)) /\ Convex(From(S, x))
<1>1. Convex(Below(S, x))
  <2> SUFFICES ASSUME NEW a \in Below(S, x), NEW b \in Below(S, x), NEW k \in Int, a <= k, k <= b
               PROVE  k \in Below(S, x)
    BY DEF Convex
  <2>1. a \in S /\ b \in S /\ a \in Int /\ b \in Int /\ b < x
    BY DEF Below
  <2>2. k \in S
    BY <2>1 DEF Convex
  <2> QED BY <2>1, <2>2 DEF Below
<1>2. Convex(From(S, x))
  <2> SUFFICES ASSUME NEW a \in From(S, x), NEW b \in From(S, x), NEW k \in Int, a <= k, k <= b
               PROVE  k \in From(S, x)
    BY DEF Convex
  <2>1. a \in S /\ b \in S /\ a \in Int /\ b \in Int /\ x <= a
    BY DEF From
  <2>2. k \in S
    BY <2>1 DEF Convex
  <2> QED BY <2>1, <2>2 DEF From
<1> QED BY <1>1, <1>2

LEMMA JoinConvex ==
  ASSUME NEW S \in SUBSET Int, NEW T \in SUBSET Int, Convex(S), Convex(T), Next2(S, T)
  PROVE  Convex(S \cup T)
<1> SUFFICES ASSUME NEW a \in S \cup T, NEW b \in S \cup T, NEW k \in Int, a <= k, k <= b
             PROVE  k \in S \cup T
  BY DEF Convex
<1>0. a \in Int /\ b \in Int
  OBVIOUS
<1>1. CASE a \in S /\ b \in S
  BY <1>1 DEF Convex
<1>2. CASE a \in T /\ b \in T
  BY <1>2 DEF Convex
<1>3. CASE a \in S /\ b \in T
  BY <1>3 DEF Next2
<1>4. CASE a \in T /\ b \in S
  <2>1. b < a
    BY <1>4 DEF Next2
  <2> QED BY <1>0, <2>1
<1> QED BY <1>1, <1>2, <1>3, <1>4

LEMMA NextCut ==
  ASSUME NEW A \in SUBSET Int, Convex(A), NEW x \in Int
  PROVE  /\ Next2(Below(A, x), From(A, x))
         /\ \A P \in SUBSET Int : Next2(P, A) => Next2(P, Below(A, x))
         /\ \A P \in SUBSET Int : Next2(A, P) => Next2(From(A, x), P)
         /\ Top(A) => Top(From(A, x))
<1>1. Next2(Below(A, x), From(A, x))
  <2> SUFFICES ASSUME NEW a \in Below(A, x), NEW b \in From(A, x)
               PROVE  a < b /\ \A k \in Int : a <= k /\ k <= b => k \in Below(A, x) \/ k \in From(A, x)
    BY DEF Next2
  <2>1. a \in A /\ b \in A /\ a \in Int /\ b \in Int /\ a < x /\ x <= b
    BY DEF Below, From
  <2>2. \A k \in Int : a <= k /\ k <= b => k \in A
    BY <2>1 DEF Convex
  <2>3. \A k \in Int : k < x \/ x <= k
    OBVIOUS
  <2> QED BY <2>1, <2>2, <2>3 DEF Below, From
<1>2. ASSUME NEW P \in SUBSET Int, Next2(P, A) PROVE Next2(P, Below(A, x))
  <2> SUFFICES ASSUME NEW a \in P, NEW b \in Below(A, x)
               PROVE  a < b /\ \A k \in Int : a <= k /\ k <= b => k \in P \/ k \in Below(A, x)
    BY DEF Next2
  <2>1. b \in A /\ b < x /\ a \in Int /\ b \in Int
    BY DEF Below
  <2>2. a < b /\ \A k \in Int : a <= k /\ k <= b => k \in P \/ k \in A
    BY <1>2, <2>1 DEF Next2
  <2>3. \A k \in Int : k <= b => k < x
    BY <2>1
  <2> QED BY <2>2, <2>3 DEF Below
<1>3. ASSUME NEW P \in SUBSET Int, Next2(A, P) PROVE Next2(From(A, x), P)
  <2> SUFFICES ASSUME NEW a \in From(A, x), NEW b \in P
               PROVE  a < b /\ \A k \in Int : a <= k /\ k <= b => k \in From(A, x) \/ k \in P
    BY DEF Next2
  <2>1. a \in A /\ x <= a /\ a \in Int /\ b \in Int
    BY DEF From
  <2>2. a < b /\ \A k \in Int : a <= k /\ k <= b => k \in A \/ k \in P
    BY <1>3, <2>1 DEF Next2
  <2>3. \A k \in Int : a <= k => x <= k
    BY <2>1
  <2> QED BY <2>2, <2>3 DEF From
<1>4. ASSUME Top(A) PROVE Top(From(A, x))
  <2> SUFFICES ASSUME NEW a \in From(A, x), NEW k \in Int, a <= k PROVE k \in From(A, x)
    BY DEF Top
  <2>1. a \in A /\ x <= a /\ a \in Int
    BY DEF From
  <2>2. k \in A /\ x <= k
    BY <1>4, <2>1 DEF Top
  <2> QED BY <2>2 DEF From
<1> QED BY <1>1, <1>2, <1>3, <1>4

LEMMA NextJoin ==
  ASSUME NEW A \in SUBSET Int, NEW B \in SUBSET Int, A # {}, B # {}, Next2(A, B)
  PROVE  /\ \A P \in SUBSET Int : Next2(P, A) => Next2(P, A \cup B)
         /\ \A P \in SUBSET Int : Next2(B, P) => Next2(A \cup B, P)
         /\ Top(B) => Top(A \cup B)
<1>1. PICK a0 \in A, b0 \in B : a0 \in Int /\ b0 \in Int
  OBVIOUS
<1>2. ASSUME NEW P \in SUBSET Int, Next2(P, A) PROVE Next2(P, A \cup B)
  <2> SUFFICES ASSUME NEW p \in P, NEW y \in A \cup B
               PROVE  p < y /\ \A k \in Int : p <= k /\ k <= y => k \in P \/ k \in A \cup B
    BY DEF Next2
  <2>0. p \in Int /\ y \in Int
    OBVIOUS
  <2>1. CASE y \in A
    BY <1>2, <2>1 DEF Next2
  <2>2. CASE y \in B
    <3>1. p < a0 /\ a0 < y
      BY <1>1, <1>2, <2>2 DEF Next2
    <3>2. ASSUME NEW k \in Int, p <= k, k <= y PROVE k \in P \/ k \in A \cup B
      <4>1. CASE k <= a0
        BY <1>1, <1>2, <3>2, <4>1 DEF Next2
      <4>2. CASE a0 <= k
        BY <1>1, <2>2, <3>2, <4>2 DEF Next2
      <4> QED BY <1>1, <4>1, <4>2
    <3>3. p < y
      BY <1>1, <2>0, <3>1
    <3> QED BY <3>2, <3>3
  <2> QED BY <2>1, <2>2
<1>3. ASSUME NEW P \in SUBSET Int, Next2(B, P) PROVE Next2(A \cup B, P)
  <2> SUFFICES ASSUME NEW p \in P, NEW y \in A \cup B
               PROVE  y < p /\ \A k \in Int : y <= k /\ k <= p => k \in A \cup B \/ k \in P
    BY DEF Next2
  <2>0. p \in Int /\ y \in Int
    OBVIOUS
  <2>1. CASE y \in B
    BY <1>3, <2>1 DEF Next2
  <2>2. CASE y \in A
    <3>1. y < b0 /\ b0 < p
      BY <1>1, <1>3, <2>2 DEF Next2
    <3>2. ASSUME NEW k \in Int, y <= k, k <= p PROVE k \in A \cup B \/ k \in P
      <4>1. CASE k <= b0
        BY <1>1, <2>2, <3>2, <4>1 DEF Next2
      <4>2. CASE b0 <= k
        BY <1>1, <1>3, <3>2, <4>2 DEF Next2
      <4> QED BY <1>1, <4>1, <4>2
    <3>3. y < p
      BY <1>1, <2>0, <3>1
    <3> QED BY <3>2, <3>3
  <2> QED BY <2>1, <2>2
<1>4. ASSUME Top(B) PROVE Top(A \cup B)
  <2> SUFFICES ASSUME NEW y \in A \cup B, NEW k \in Int, y <= k PROVE k \in A \cup B
    BY DEF Top
  <2>1. CASE y \in B
    BY <1>4, <2>1 DEF Top
  <2>2. CASE y \in A /\ b0 <= k
    BY <1>1, <1>4, <2>2 DEF Top
  <2>3. CASE y \in A /\ k <= b0
    BY <1>1, <2>3 DEF Next2
  <2> QED BY <1>1, <2>1, <2>2, <2>3
<1> QED BY <1>2, <1>3, <1>4

\* Neighbours are unique.
LEMMA NextMeet ==
  ASSUME NEW A \in SUBSET Int, NEW B \in SUBSET Int, NEW C \in SUBSET Int, A # {}, B # {}, C # {}
  PROVE  /\ Next2(A, B) /\ Next2(A, C) => B \cap C # {}
         /\ Next2(A, C) /\ Next2(B, C) => A \cap B # {}
         /\ Next2(A, B) => ~Top(A)
<1>1. PICK a \in A, b \in B, c \in C : a \in Int /\ b \in Int /\ c \in Int
  OBVIOUS
<1>2. ASSUME Next2(A, B), Next2(A, C) PROVE B \cap C # {}
  <2>1. a < b /\ a < c
    BY <1>1, <1>2 DEF Next2
  <2>2. CASE b <= c
    <3>1. b \in A \/ b \in C
      BY <1>1, <1>2, <2>1, <2>2 DEF Next2
    <3>2. b \notin A
      BY <1>1, <1>2 DEF Next2
    <3> QED BY <1>1, <3>1, <3>2
  <2>3. CASE c <= b
    <3>1. c \in A \/ c \in B
      BY <1>1, <1>2, <2>1, <2>3 DEF Next2
    <3>2. c \notin A
      BY <1>1, <1>2 DEF Next2
    <3> QED BY <1>1, <3>1, <3>2
  <2> QED BY <1>1, <2>2, <2>3
<1>3. ASSUME Next2(A, C), Next2(B, C) PROVE A \cap B # {}
  <2>1. a < c /\ b < c
    BY <1>1, <1>3 DEF Next2
  <2>2. CASE a <= b
    <3>1. b \in A \/ b \in C
      BY <1>1, <1>3, <2>1, <2>2 DEF Next2
    <3>2. b \notin C
      BY <1>1, <1>3 DEF Next2
    <3> QED BY <1>1, <3>1, <3>2
  <2>3. CASE b <= a
    <3>1. a \in B \/ a \in C
      BY <1>1, <1>3, <2>1, <2>3 DEF Next2
    <3>2. a \notin C
      BY <1>1, <1>3 DEF Next2
    <3> QED BY <1>1, <3>1, <3>2
  <2> QED BY <1>1, <2>2, <2>3
<1>4. ASSUME Next2(A, B), Top(A) PROVE FALSE
  <2>1. a < b /\ b \notin A
    BY <1>1, <1>4 DEF Next2
  <2>2. b \in A
    BY <1>1, <1>4, <2>1 DEF Top
  <2> QED BY <2>1, <2>2
<1> QED BY <1>2, <1>3, <1>4

\* Adjacent children are neighbours.
LEMMA PartsNext ==
  ASSUME NEW ks, NEW cs, NEW S, NEW Q, Node(ks, cs, S, Q), Convex(S), NEW i \in 1..Len(ks)
  PROVE  Next2(Q[cs[i]], Q[cs[i + 1]])
<1>1. PICK n : n = Len(ks) /\ NodeIs(ks, cs, S, Q, n)
  BY NodeFacts
<1>2. /\ n \in Nat /\ S \in SUBSET Int /\ Len(cs) = n + 1
      /\ \A p \in 1..n : ks[p] \in Int
      /\ \A p, q \in 1..n : p < q => ks[p] < ks[q]
      /\ \A p \in 1..(n + 1) : \A l : l \in Q[cs[p]] <=> /\ l \in S
                                                         /\ p = 1 \/ ks[p - 1] <= l
                                                         /\ p = n + 1 \/ l < ks[p]
  BY <1>1 DEF NodeIs
<1>3. /\ i \in 1..n /\ i \in 1..(n + 1) /\ i + 1 \in 1..(n + 1) /\ i # n + 1 /\ i + 1 # 1
      /\ (i + 1) - 1 = i /\ ks[i] \in Int
  BY <1>1, <1>2
<1>4. \A l : l \in Q[cs[i]] <=> l \in S /\ (i = 1 \/ ks[i - 1] <= l) /\ l < ks[i]
  BY <1>2, <1>3
<1>5. \A l : l \in Q[cs[i + 1]] <=> l \in S /\ ks[i] <= l /\ (i + 1 = n + 1 \/ l < ks[i + 1])
  BY <1>2, <1>3
<1> SUFFICES ASSUME NEW x \in Q[cs[i]], NEW y \in Q[cs[i + 1]]
             PROVE  x < y /\ \A k \in Int : x <= k /\ k <= y => k \in Q[cs[i]] \/ k \in Q[cs[i + 1]]
  BY DEF Next2
<1>6. x \in S /\ y \in S /\ x \in Int /\ y \in Int /\ x < ks[i] /\ ks[i] <= y
  BY <1>2, <1>4, <1>5
<1>7. x < y
  BY <1>3, <1>6
<1>8. ASSUME NEW k \in Int, x <= k, k <= y PROVE k \in Q[cs[i]] \/ k \in Q[cs[i + 1]]
  <2>1. k \in S
    BY <1>6, <1>8 DEF Convex
  <2>2. CASE k < ks[i]
    <3>1. i = 1 \/ ks[i - 1] <= k
      <4> SUFFICES ASSUME i # 1 PROVE ks[i - 1] <= k
        OBVIOUS
      <4>1. i - 1 \in 1..n
        BY <1>2, <1>3
      <4>2. ks[i - 1] \in Int /\ ks[i - 1] <= x
        BY <1>2, <1>4, <4>1
      <4> QED BY <1>6, <1>8, <4>2
    <3> QED BY <1>4, <2>1, <2>2, <3>1
  <2>3. CASE ks[i] <= k
    <3>1. i + 1 = n + 1 \/ k < ks[i + 1]
      <4> SUFFICES ASSUME i + 1 # n + 1 PROVE k < ks[i + 1]
        OBVIOUS
      <4>1. i + 1 \in 1..n
        BY <1>2, <1>3
      <4>2. ks[i + 1] \in Int /\ y < ks[i + 1]
        BY <1>2, <1>5, <4>1
      <4> QED BY <1>6, <1>8, <4>2
    <3> QED BY <1>5, <2>1, <2>3, <3>1
  <2> QED BY <1>3, <2>2, <2>3
<1> QED BY <1>7, <1>8

-----------------------------------------------------------------------------
\* N leads along leaves L, in the order of what R says belongs to each; together they
\* leave out nothing.
Chained(L, N, R) ==
  /\ \A p \in L : R[p] \in SUBSET Int /\ R[p] # {} /\ Convex(R[p])
  /\ \A p \in L : \/ N[p] = NoPage /\ Top(R[p])
                  \/ N[p] \in L /\ Next2(R[p], R[N[p]])
  /\ \A p, q \in L : p # q => R[p] \cap R[q] = {}

LEMMA ChainNeighbours ==
  ASSUME NEW L, NEW N, NEW R, Chained(L, N, R), NEW a \in L, NEW b \in L, Next2(R[a], R[b])
  PROVE  N[a] = b /\ \A q \in L : N[q] = b => q = a \/ b = NoPage
<1>1. /\ \A p \in L : R[p] \in SUBSET Int /\ R[p] # {}
      /\ \A p \in L : \/ N[p] = NoPage /\ Top(R[p])
                      \/ N[p] \in L /\ Next2(R[p], R[N[p]])
      /\ \A p, q \in L : p # q => R[p] \cap R[q] = {}
  BY DEF Chained
<1>2. N[a] = b
  <2>1. ~Top(R[a])
    BY <1>1, NextMeet
  <2>2. N[a] \in L /\ Next2(R[a], R[N[a]])
    BY <1>1, <2>1
  <2>3. R[b] \cap R[N[a]] # {}
    BY <1>1, <2>2, NextMeet
  <2> QED BY <1>1, <2>2, <2>3
<1>3. ASSUME NEW q \in L, N[q] = b, b # NoPage PROVE q = a
  <2>1. Next2(R[q], R[b])
    BY <1>1, <1>3
  <2>2. R[q] \cap R[a] # {}
    BY <1>1, <2>1, NextMeet
  <2> QED BY <1>1, <2>2
<1> QED BY <1>2, <1>3

\* Leaf n takes over from a what begins with x.
Parted(L, N, R, a, n, x, N2, R2) ==
  /\ Chained(L, N, R) /\ NoPage \notin L /\ a \in L /\ n \notin L /\ n # NoPage /\ x \in Int
  /\ R2[a] = Below(R[a], x) /\ R2[a] # {} /\ R2[n] = From(R[a], x) /\ R2[n] # {}
  /\ \A q \in L : q # a => R2[q] = R[q]
  /\ N2[a] = n /\ N2[n] = N[a] /\ \A q \in L : q # a => N2[q] = N[q]

LEMMA ChainSplit ==
  ASSUME NEW L, NEW N, NEW R, NEW a, NEW n, NEW x, NEW N2, NEW R2,
         Parted(L, N, R, a, n, x, N2, R2)
  PROVE  Chained(L \cup {n}, N2, R2)
<1>0. /\ Chained(L, N, R) /\ NoPage \notin L /\ a \in L /\ n \notin L /\ n # NoPage /\ x \in Int
      /\ R2[a] = Below(R[a], x) /\ R2[a] # {} /\ R2[n] = From(R[a], x) /\ R2[n] # {}
      /\ \A q \in L : q # a => R2[q] = R[q]
      /\ N2[a] = n /\ N2[n] = N[a] /\ \A q \in L : q # a => N2[q] = N[q]
  BY DEF Parted
<1> USE <1>0
<1>1. /\ \A p \in L : R[p] \in SUBSET Int /\ R[p] # {} /\ Convex(R[p])
      /\ \A p \in L : \/ N[p] = NoPage /\ Top(R[p])
                      \/ N[p] \in L /\ Next2(R[p], R[N[p]])
      /\ \A p, q \in L : p # q => R[p] \cap R[q] = {}
  BY DEF Chained
<1>2. R2[a] \subseteq R[a] /\ R2[n] \subseteq R[a] /\ R2[a] \cap R2[n] = {}
  <2>1. \A k \in R[a] : ~(k < x /\ x <= k)
    BY <1>1
  <2> QED BY <2>1 DEF Below, From
<1>3. /\ Convex(R2[a]) /\ Convex(R2[n]) /\ Next2(R2[a], R2[n])
      /\ \A P \in SUBSET Int : Next2(P, R[a]) => Next2(P, R2[a])
      /\ \A P \in SUBSET Int : Next2(R[a], P) => Next2(R2[n], P)
      /\ Top(R[a]) => Top(R2[n])
  BY <1>1, CutConvex, NextCut
<1>4. N[a] # a
  <2> SUFFICES ASSUME N[a] = a PROVE FALSE
    OBVIOUS
  <2>1. Next2(R[a], R[a])
    BY <1>1
  <2>2. PICK k \in R[a] : k \in Int
    BY <1>1
  <2>3. k < k
    BY <2>1, <2>2 DEF Next2
  <2> QED BY <2>2, <2>3
<1>5. \A p \in L \cup {n} : R2[p] \in SUBSET Int /\ R2[p] # {} /\ Convex(R2[p])
  BY <1>1, <1>2, <1>3
<1>6. \A p \in L \cup {n} : \/ N2[p] = NoPage /\ Top(R2[p])
                            \/ N2[p] \in L \cup {n} /\ Next2(R2[p], R2[N2[p]])
  <2> SUFFICES ASSUME NEW p \in L \cup {n}
               PROVE  \/ N2[p] = NoPage /\ Top(R2[p])
                      \/ N2[p] \in L \cup {n} /\ Next2(R2[p], R2[N2[p]])
    OBVIOUS
  <2>1. CASE p = a
    BY <1>3, <2>1
  <2>2. CASE p = n
    <3>1. CASE N[a] = NoPage /\ Top(R[a])
      BY <1>3, <2>2, <3>1
    <3>2. CASE N[a] \in L /\ Next2(R[a], R[N[a]])
      <4>1. R2[N[a]] = R[N[a]]
        BY <1>4, <3>2
      <4>2. Next2(R2[n], R[N[a]])
        BY <1>1, <1>3, <3>2
      <4> QED BY <2>2, <3>2, <4>1, <4>2
    <3> QED BY <1>1, <3>1, <3>2
  <2>3. CASE p # a /\ p # n
    <3>1. p \in L /\ N2[p] = N[p] /\ R2[p] = R[p]
      BY <2>3
    <3>2. CASE N[p] = a
      <4>1. Next2(R[p], R[a])
        BY <1>1, <3>1, <3>2
      <4>2. Next2(R2[p], R2[a])
        BY <1>1, <1>3, <3>1, <4>1
      <4> QED BY <3>1, <3>2, <4>2
    <3>3. CASE N[p] # a
      BY <1>1, <3>1, <3>3
    <3> QED BY <3>2, <3>3
  <2> QED BY <2>1, <2>2, <2>3
<1>7. \A p, q \in L \cup {n} : p # q => R2[p] \cap R2[q] = {}
  <2> SUFFICES ASSUME NEW p \in L \cup {n}, NEW q \in L \cup {n}, p # q PROVE R2[p] \cap R2[q] = {}
    OBVIOUS
  <2>1. CASE p \in {a, n} /\ q \in {a, n}
    BY <1>2, <2>1
  <2>2. CASE p \in {a, n} /\ q \notin {a, n}
    <3>1. R2[p] \subseteq R[a] /\ R2[q] = R[q] /\ q \in L /\ q # a
      BY <1>2, <2>2
    <3> QED BY <1>1, <3>1
  <2>3. CASE p \notin {a, n} /\ q \in {a, n}
    <3>1. R2[q] \subseteq R[a] /\ R2[p] = R[p] /\ p \in L /\ p # a
      BY <1>2, <2>3
    <3> QED BY <1>1, <3>1
  <2>4. CASE p \notin {a, n} /\ q \notin {a, n}
    BY <1>1, <2>4
  <2> QED BY <2>1, <2>2, <2>3, <2>4
<1> QED BY <1>5, <1>6, <1>7 DEF Chained

\* Leaf a takes what its neighbour b had.
United(L, N, R, a, b, N2, R2) ==
  /\ Chained(L, N, R) /\ NoPage \notin L /\ a \in L /\ b \in L /\ Next2(R[a], R[b])
  /\ R2[a] = R[a] \cup R[b] /\ \A q \in L : q # a /\ q # b => R2[q] = R[q]
  /\ N2[a] = N[b] /\ \A q \in L : q # a /\ q # b => N2[q] = N[q]

LEMMA ChainMerge ==
  ASSUME NEW L, NEW N, NEW R, NEW a, NEW b, NEW N2, NEW R2, United(L, N, R, a, b, N2, R2)
  PROVE  Chained(L \ {b}, N2, R2) /\ a # b
<1>0. /\ Chained(L, N, R) /\ NoPage \notin L /\ a \in L /\ b \in L /\ Next2(R[a], R[b])
      /\ R2[a] = R[a] \cup R[b] /\ \A q \in L : q # a /\ q # b => R2[q] = R[q]
      /\ N2[a] = N[b] /\ \A q \in L : q # a /\ q # b => N2[q] = N[q]
  BY DEF United
<1> USE <1>0
<1>1. /\ \A p \in L : R[p] \in SUBSET Int /\ R[p] # {} /\ Convex(R[p])
      /\ \A p \in L : \/ N[p] = NoPage /\ Top(R[p])
                      \/ N[p] \in L /\ Next2(R[p], R[N[p]])
      /\ \A p, q \in L : p # q => R[p] \cap R[q] = {}
  BY DEF Chained
<1>2. N[a] = b /\ \A q \in L : N[q] = b => q = a
  BY ChainNeighbours
<1>3. \A q \in L : ~Next2(R[q], R[q])
  <2> SUFFICES ASSUME NEW q \in L, Next2(R[q], R[q]) PROVE FALSE
    OBVIOUS
  <2>1. PICK k \in R[q] : k \in Int
    BY <1>1
  <2>2. k < k
    BY <2>1 DEF Next2
  <2> QED BY <2>1, <2>2
<1>4. a # b /\ N[b] # b
  BY <1>1, <1>3
<1>5. N[b] # a
  <2> SUFFICES ASSUME N[b] = a PROVE FALSE
    OBVIOUS
  <2>1. Next2(R[b], R[a])
    BY <1>1
  <2>2. PICK k \in R[a], l \in R[b] : k \in Int /\ l \in Int
    BY <1>1
  <2>3. k < l /\ l < k
    BY <2>1, <2>2 DEF Next2
  <2> QED BY <2>2, <2>3
<1>6. /\ Convex(R2[a]) /\ R2[a] \in SUBSET Int /\ R2[a] # {}
      /\ \A P \in SUBSET Int : Next2(P, R[a]) => Next2(P, R2[a])
      /\ \A P \in SUBSET Int : Next2(R[b], P) => Next2(R2[a], P)
      /\ Top(R[b]) => Top(R2[a])
  <2>1. /\ R[a] \in SUBSET Int /\ R[b] \in SUBSET Int /\ R[a] # {} /\ R[b] # {}
        /\ Convex(R[a]) /\ Convex(R[b]) /\ Next2(R[a], R[b])
    BY <1>1
  <2>2. Convex(R[a] \cup R[b])
    BY ONLY <2>1, JoinConvex
  <2>3. \A P \in SUBSET Int : Next2(P, R[a]) => Next2(P, R[a] \cup R[b])
    BY ONLY <2>1, NextJoin
  <2>4. \A P \in SUBSET Int : Next2(R[b], P) => Next2(R[a] \cup R[b], P)
    BY ONLY <2>1, NextJoin
  <2>5. Top(R[b]) => Top(R[a] \cup R[b])
    BY ONLY <2>1, NextJoin
  <2> QED BY <2>1, <2>2, <2>3, <2>4, <2>5
<1>7. \A p \in L \ {b} : R2[p] \in SUBSET Int /\ R2[p] # {} /\ Convex(R2[p])
  <2> TAKE p \in L \ {b}
  <2>1. CASE p = a
    BY <1>6, <2>1
  <2>2. CASE p # a
    BY <1>1, <2>2
  <2> QED BY <2>1, <2>2
<1>8. \A p \in L \ {b} : \/ N2[p] = NoPage /\ Top(R2[p])
                         \/ N2[p] \in L \ {b} /\ Next2(R2[p], R2[N2[p]])
  <2> SUFFICES ASSUME NEW p \in L \ {b}
               PROVE  \/ N2[p] = NoPage /\ Top(R2[p])
                      \/ N2[p] \in L \ {b} /\ Next2(R2[p], R2[N2[p]])
    OBVIOUS
  <2>1. CASE p = a
    <3>1. CASE N[b] = NoPage /\ Top(R[b])
      BY <1>6, <2>1, <3>1
    <3>2. CASE N[b] \in L /\ Next2(R[b], R[N[b]])
      <4>1. R2[N[b]] = R[N[b]] /\ N[b] \in L \ {b}
        BY <1>4, <1>5, <3>2
      <4>2. Next2(R2[a], R[N[b]])
        BY <1>1, <1>6, <3>2
      <4> QED BY <2>1, <4>1, <4>2
    <3> QED BY <1>1, <3>1, <3>2
  <2>2. CASE p # a
    <3>1. p \in L /\ N2[p] = N[p] /\ R2[p] = R[p] /\ N[p] # b
      BY <1>2, <2>2
    <3>2. CASE N[p] = a
      <4>1. Next2(R[p], R[a])
        BY <1>1, <3>1, <3>2
      <4>2. Next2(R2[p], R2[a])
        BY <1>1, <1>6, <3>1, <4>1
      <4> QED BY <1>4, <3>1, <3>2, <4>2
    <3>3. CASE N[p] # a
      BY <1>1, <3>1, <3>3
    <3> QED BY <3>2, <3>3
  <2> QED BY <2>1, <2>2
<1>9. \A p, q \in L \ {b} : p # q => R2[p] \cap R2[q] = {}
  <2> SUFFICES ASSUME NEW p \in L \ {b}, NEW q \in L \ {b}, p # q PROVE R2[p] \cap R2[q] = {}
    OBVIOUS
  <2>1. CASE p = a
    <3>1. R2[q] = R[q] /\ R[q] \cap R[a] = {} /\ R[q] \cap R[b] = {}
      BY <1>1, <2>1
    <3> QED BY <2>1, <3>1
  <2>2. CASE q = a
    <3>1. R2[p] = R[p] /\ R[p] \cap R[a] = {} /\ R[p] \cap R[b] = {}
      BY <1>1, <2>2
    <3> QED BY <2>2, <3>1
  <2>3. CASE p # a /\ q # a
    BY <1>1, <2>3
  <2> QED BY <2>1, <2>2, <2>3
<1> QED BY <1>4, <1>7, <1>8, <1>9 DEF Chained

Recoupled(L, N, R, a, b, U, x, N2, R2) ==
  /\ L \in SUBSET PageIDs /\ Chained(L, N, R) /\ NoPage \notin L
  /\ a \in L /\ b \in L /\ Next2(R[a], R[b]) /\ U = R[a] \cup R[b] /\ x \in Int
  /\ R2[a] = Below(U, x) /\ R2[a] # {} /\ R2[b] = From(U, x) /\ R2[b] # {}
  /\ \A q \in L : q # a /\ q # b => R2[q] = R[q]
  /\ \A q \in L : N2[q] = N[q]

LEMMA ChainShift ==
  ASSUME NEW L, NEW N, NEW R, NEW a, NEW b, NEW U, NEW x, NEW N2, NEW R2,
         Recoupled(L, N, R, a, b, U, x, N2, R2)
  PROVE  Chained(L, N2, R2)
<1> /\ L \in SUBSET PageIDs /\ Chained(L, N, R) /\ NoPage \notin L
    /\ a \in L /\ b \in L /\ Next2(R[a], R[b]) /\ U = R[a] \cup R[b] /\ x \in Int
  BY DEF Recoupled
<1> /\ R2[a] = Below(U, x) /\ R2[a] # {} /\ R2[b] = From(U, x) /\ R2[b] # {}
    /\ \A q \in L : q # a /\ q # b => R2[q] = R[q]
    /\ \A q \in L : N2[q] = N[q]
  BY DEF Recoupled
<1>1. PICK R1 : R1 = [q \in PageIDs |-> IF q = a THEN U ELSE R[q]]
  OBVIOUS
<1>2. PICK N1 : N1 = [q \in PageIDs |-> IF q = a THEN N[b] ELSE N[q]]
  OBVIOUS
<1>3. Chained(L \ {b}, N1, R1) /\ a # b
  <2>1. R1[a] = R[a] \cup R[b] /\ N1[a] = N[b]
    BY <1>1, <1>2
  <2>2. \A q \in L : q # a /\ q # b => R1[q] = R[q] /\ N1[q] = N[q]
    BY <1>1, <1>2
  <2>3. /\ Chained(L, N, R) /\ NoPage \notin L /\ a \in L /\ b \in L /\ Next2(R[a], R[b])
        /\ R1[a] = R[a] \cup R[b] /\ \A q \in L : q # a /\ q # b => R1[q] = R[q]
        /\ N1[a] = N[b] /\ \A q \in L : q # a /\ q # b => N1[q] = N[q]
    BY <2>1, <2>2
  <2>4. United(L, N, R, a, b, N1, R1)
    BY ONLY <2>3 DEF United
  <2> QED BY <2>4, ChainMerge
<1>4. N[a] = b
  BY ChainNeighbours
<1>5. Chained((L \ {b}) \cup {b}, N2, R2)
  <2>1. PICK K : K = L \ {b}
    OBVIOUS
  <2>2. /\ Chained(K, N1, R1) /\ NoPage \notin K /\ a \in K /\ b \notin K /\ b # NoPage
    BY <1>3, <2>1
  <2>3. R2[a] = Below(R1[a], x) /\ R2[a] # {} /\ R2[b] = From(R1[a], x) /\ R2[b] # {}
    BY <1>1
  <2>4. \A q \in K : q # a => R2[q] = R1[q]
    BY <1>1, <2>1
  <2>5. N2[a] = b /\ N2[b] = N1[a]
    BY <1>2, <1>4
  <2>6. \A q \in K : q # a => N2[q] = N1[q]
    BY <1>2, <2>1
  <2>7. Chained(K \cup {b}, N2, R2)
    <3>1. /\ Chained(K, N1, R1) /\ NoPage \notin K /\ a \in K /\ b \notin K /\ b # NoPage /\ x \in Int
          /\ R2[a] = Below(R1[a], x) /\ R2[a] # {} /\ R2[b] = From(R1[a], x) /\ R2[b] # {}
          /\ \A q \in K : q # a => R2[q] = R1[q]
          /\ N2[a] = b /\ N2[b] = N1[a] /\ \A q \in K : q # a => N2[q] = N1[q]
      BY <2>2, <2>3, <2>4, <2>5, <2>6
    <3>2. Parted(K, N1, R1, a, b, x, N2, R2)
      BY ONLY <3>1 DEF Parted
    <3> QED BY <3>2, ChainSplit
  <2> QED BY <2>1, <2>7
<1>6. (L \ {b}) \cup {b} = L
  OBVIOUS
<1> QED BY <1>5, <1>6

-----------------------------------------------------------------------------
\* What happens to the tuples of a leaf.

LEMMA LeastNumber ==
  ASSUME NEW T \in SUBSET Nat, T # {}, NEW n, n = CHOOSE m \in T : \A o \in T : m <= o
  PROVE  n \in T /\ \A o \in T : n <= o
<1>2. \E x \in T : \A y \in T : ~(<<y, x>> \in OpToRel(<, Nat))
  BY WFMin, NatLessThanWellFounded
<1>3. \E x \in T : \A y \in T : x <= y
  <2>1. PICK x \in T : \A y \in T : ~(<<y, x>> \in OpToRel(<, Nat))
    BY <1>2
  <2>2. ASSUME NEW y \in T PROVE x <= y
    <3>1. y < x => <<y, x>> \in OpToRel(<, Nat)
      BY DEF OpToRel
    <3>2. x \in Nat /\ y \in Nat /\ ~(y < x)
      BY <2>1, <3>1
    <3> QED BY <3>2
  <2> QED BY <2>2
<1> QED BY <1>3

LEMMA HeldFacts ==
  ASSUME NEW ts, NEW S, Held(ts, S)
  PROVE  /\ ts \in Seq(Entry) /\ ts \in Seq(Raw) /\ Len(ts) \in Nat /\ DOMAIN ts = 1..Len(ts)
         /\ \A i \in 1..Len(ts) : /\ ts[i] \in Entry /\ ts[i].key \in Keys /\ ts[i].key \in Int
                                  /\ ts[i].key \in S
         /\ \A i, j \in 1..Len(ts) : i < j => ts[i].key < ts[j].key
<1>1. ts \in Seq(Entry)
  BY DEF Held
<1>2. /\ Len(ts) \in Nat /\ DOMAIN ts = 1..Len(ts) /\ ts \in Seq(Raw)
      /\ \A i \in 1..Len(ts) : ts[i] \in Entry /\ ts[i].key \in Keys
  BY <1>1, EntriesAt
<1>3. \A k \in Keys : k \in Int
  BY Limits
<1> QED BY <1>1, <1>2, <1>3 DEF Held, Ascends, Within

LEMMA HeldMore ==
  ASSUME NEW ts, NEW S, Held(ts, S), NEW T, S \subseteq T
  PROVE  Held(ts, T)
BY DEF Held, Within

\* Tuples behind one another.
LEMMA HeldJoin ==
  ASSUME NEW a, NEW S, Held(a, S), NEW b, NEW T, Held(b, T), Before(S, T)
  PROVE  /\ Held(a \o b, S \cup T) /\ Space(a \o b) = Space(a) + Space(b)
         /\ \A k : Has(a \o b, k) <=> Has(a, k) \/ Has(b, k)
<1> HIDE DEF Entry, Raw
<1>1. PICK n, m : n = Len(a) /\ m = Len(b)
  OBVIOUS
<1>2. /\ a \in Seq(Entry) /\ a \in Seq(Raw) /\ n \in Nat
      /\ \A i \in 1..n : a[i].key \in S
      /\ \A i, j \in 1..n : i < j => a[i].key < a[j].key
  BY <1>1, HeldFacts
<1>3. /\ b \in Seq(Entry) /\ b \in Seq(Raw) /\ m \in Nat
      /\ \A i \in 1..m : b[i].key \in T
      /\ \A i, j \in 1..m : i < j => b[i].key < b[j].key
  BY <1>1, HeldFacts
<1>4. PICK c : c = a \o b
  OBVIOUS
<1>5. /\ c \in Seq(Entry) /\ Len(c) = n + m
      /\ \A j \in 1..(n + m) : c[j] = IF j <= n THEN a[j] ELSE b[j - n]
  BY <1>1, <1>2, <1>3, <1>4, JoinFacts
<1>6. Space(c) = Space(a) + Space(b)
  BY <1>2, <1>3, <1>4, SpaceJoin
<1>7. \A i \in 1..n : i \in 1..(n + m) /\ c[i] = a[i]
  BY <1>2, <1>3, <1>5
<1>8. \A i \in 1..m : n + i \in 1..(n + m) /\ c[n + i] = b[i]
  <2> TAKE i \in 1..m
  <2>1. n + i \in 1..(n + m) /\ ~(n + i <= n) /\ (n + i) - n = i
    BY <1>2, <1>3
  <2> QED BY <1>5, <2>1
<1>9. \A j \in 1..(n + m) : j \in 1..n \/ (~(j <= n) /\ j - n \in 1..m /\ c[j] = b[j - n])
  <2> TAKE j \in 1..(n + m)
  <2>1. j \in 1..n \/ (~(j <= n) /\ j - n \in 1..m)
    BY <1>2, <1>3
  <2> QED BY <1>5, <2>1
<1>10. Within(c, S \cup T)
  <2>1. \A j \in 1..(n + m) : c[j].key \in S \cup T
    BY <1>2, <1>3, <1>7, <1>9
  <2> QED BY <1>5, <2>1 DEF Within
<1>11. Ascends(c)
  <2>1. ASSUME NEW i \in 1..(n + m), NEW j \in 1..(n + m), i < j PROVE c[i].key < c[j].key
    <3>1. CASE i \in 1..n /\ j \in 1..n
      BY <1>2, <1>7, <2>1, <3>1
    <3>2. CASE i \in 1..n /\ ~(j <= n)
      <4>1. a[i].key \in S /\ c[i] = a[i]
        BY <1>2, <1>7, <3>2
      <4>2. j \notin 1..n
        BY <1>2, <3>2
      <4>3. c[j] = b[j - n] /\ b[j - n].key \in T
        BY <1>3, <1>9, <4>2
      <4> QED BY <4>1, <4>3 DEF Before
    <3>3. CASE ~(i <= n)
      <4>3. i \in Nat /\ j \in Nat /\ ~(i <= n) /\ i < j /\ n \in Nat
        BY <1>2, <1>3, <2>1, <3>3
      <4>4. i \notin 1..n
        BY ONLY <4>3
      <4>5. j \notin 1..n
        BY ONLY <4>3
      <4>6. i - n < j - n
        BY ONLY <4>3
      <4>1. i \notin 1..n /\ j \notin 1..n /\ i - n < j - n
        BY <4>4, <4>5, <4>6
      <4>2. i - n \in 1..m /\ j - n \in 1..m /\ c[i] = b[i - n] /\ c[j] = b[j - n]
        BY <1>9, <4>1
      <4> QED BY <1>3, <4>1, <4>2
    <3>5. i \in 1..n \/ ~(i <= n)
      BY <1>2, <1>3
    <3>6. j \in 1..n \/ ~(j <= n)
      BY <1>2, <1>3
    <3>4. (i \in 1..n /\ j \in 1..n) \/ (i \in 1..n /\ ~(j <= n)) \/ ~(i <= n)
      BY <3>5, <3>6
    <3> QED BY <3>1, <3>2, <3>3, <3>4
  <2> QED BY <1>5, <2>1 DEF Ascends
<1>12. \A k : Has(c, k) <=> Has(a, k) \/ Has(b, k)
  <2>1. ASSUME NEW k, Has(c, k) PROVE Has(a, k) \/ Has(b, k)
    <3>1. PICK j \in 1..(n + m) : c[j].key = k
      BY <1>5, <2>1 DEF Has
    <3> QED BY <1>1, <1>7, <1>9, <3>1 DEF Has
  <2>2. ASSUME NEW k, Has(a, k) PROVE Has(c, k)
    BY <1>1, <1>5, <1>7, <2>2 DEF Has
  <2>3. ASSUME NEW k, Has(b, k) PROVE Has(c, k)
    <3>1. PICK i \in 1..m : b[i].key = k
      BY <1>1, <2>3 DEF Has
    <3>2. n + i \in 1..Len(c) /\ c[n + i].key = k
      BY <1>5, <1>8, <3>1
    <3> QED BY <3>2 DEF Has
  <2> QED BY <2>1, <2>2, <2>3
<1> QED BY <1>4, <1>5, <1>6, <1>10, <1>11, <1>12 DEF Held

\* The tuples of a leaf on two leaves.
Cutting(ts, S, m, a, b, x) ==
  /\ S \in SUBSET Int /\ Held(ts, S) /\ m \in 1..(Len(ts) - 1)
  /\ a = SubSeq(ts, 1, m) /\ b = SubSeq(ts, m + 1, Len(ts)) /\ x = ts[m + 1].key

LEMMA HeldCut ==
  ASSUME NEW ts, NEW S, NEW m, NEW a, NEW b, NEW x, Cutting(ts, S, m, a, b, x)
  PROVE  /\ x \in Keys /\ x \in Int /\ x \in S /\ b[1].key = x
         /\ Held(a, Below(S, x)) /\ Below(S, x) # {}
         /\ Held(b, From(S, x)) /\ From(S, x) # {}
         /\ Space(ts) = Space(a) + Space(b)
         /\ \A k : Has(ts, k) <=> Has(a, k) \/ Has(b, k)
<1> S \in SUBSET Int /\ Held(ts, S) /\ m \in 1..(Len(ts) - 1)
  BY DEF Cutting
<1> a = SubSeq(ts, 1, m) /\ b = SubSeq(ts, m + 1, Len(ts)) /\ x = ts[m + 1].key
  BY DEF Cutting
<1> HIDE DEF Entry, Raw
<1>1. PICK n : n = Len(ts)
  OBVIOUS
<1>2. /\ ts \in Seq(Entry) /\ ts \in Seq(Raw) /\ n \in Nat
      /\ \A i \in 1..n : ts[i].key \in S /\ ts[i].key \in Keys /\ ts[i].key \in Int
      /\ \A i, j \in 1..n : i < j => ts[i].key < ts[j].key
  BY <1>1, HeldFacts
<1>3. m \in 1..n /\ m \in 0..n /\ m + 1 \in 1..n /\ m \in Nat /\ 1 \in 1..(n - m) /\ 1 \in 1..n
  BY <1>1, <1>2
<1>4. /\ a \in Seq(Entry) /\ Len(a) = m /\ \A j \in 1..m : a[j] = ts[j]
      /\ b \in Seq(Entry) /\ Len(b) = n - m /\ \A j \in 1..(n - m) : b[j] = ts[m + j]
      /\ a \o b = ts
  <2>1. ts \in Seq(Entry) /\ m \in 0..Len(ts)
    BY <1>1, <1>2, <1>3
  <2> QED BY <1>1, <2>1, CutFacts
<1>5. Space(ts) = Space(a) + Space(b)
  <2>1. ts \in Seq(Raw) /\ m \in 0..Len(ts)
    BY <1>1, <1>2, <1>3
  <2> QED BY <2>1, SpaceCut
<1>6. x \in Keys /\ x \in Int /\ x \in S /\ b[1].key = x
  BY <1>2, <1>3, <1>4
<1>7. Held(a, Below(S, x)) /\ Below(S, x) # {}
  <2>1. \A j \in 1..m : j \in 1..n /\ j < m + 1
    BY <1>2, <1>3
  <2>2. \A j \in 1..m : a[j].key \in Below(S, x)
    BY <1>2, <1>3, <1>4, <2>1 DEF Below
  <2>3. \A i, j \in 1..m : i < j => a[i].key < a[j].key
    BY <1>2, <1>4, <2>1
  <2>4. Within(a, Below(S, x)) /\ Ascends(a)
    BY <1>4, <2>2, <2>3 DEF Within, Ascends
  <2>5. Held(a, Below(S, x))
    BY <1>4, <2>4 DEF Held
  <2>6. a[1].key \in Below(S, x)
    BY <1>3, <2>2
  <2> QED BY <2>5, <2>6
<1>8. Held(b, From(S, x)) /\ From(S, x) # {}
  <2>1. \A j \in 1..(n - m) : m + j \in 1..n /\ (m + 1 = m + j \/ m + 1 < m + j)
    BY <1>2, <1>3
  <2>2. \A j \in 1..(n - m) : b[j].key \in From(S, x)
    <3> TAKE j \in 1..(n - m)
    <3>1. b[j].key \in S /\ b[j].key \in Int /\ (b[j].key = x \/ x < b[j].key)
      BY <1>2, <1>3, <1>4, <2>1
    <3>3. PICK y : y = b[j].key
      OBVIOUS
    <3>4. y \in Int /\ x \in Int /\ (y = x \/ x < y)
      BY <1>6, <3>1, <3>3
    <3>5. x <= y
      BY ONLY <3>4
    <3>2. x <= b[j].key
      BY <3>3, <3>5
    <3> QED BY <3>1, <3>2 DEF From
  <2>3. \A i, j \in 1..(n - m) : i < j => b[i].key < b[j].key
    <3> SUFFICES ASSUME NEW i \in 1..(n - m), NEW j \in 1..(n - m), i < j PROVE b[i].key < b[j].key
      OBVIOUS
    <3>1. m + i < m + j
      BY <1>2, <1>3
    <3> QED BY <1>2, <1>4, <2>1, <3>1
  <2>4. From(S, x) # {}
    BY <1>6 DEF From
  <2> QED BY <1>4, <2>2, <2>3, <2>4 DEF Held, Within, Ascends
<1>9. Before(Below(S, x), From(S, x))
  <2>1. \A p \in Below(S, x), q \in From(S, x) : p \in Int /\ q \in Int /\ p < x /\ x <= q
    BY DEF Below, From
  <2> QED BY <1>6, <2>1 DEF Before
<1>10. \A k : Has(ts, k) <=> Has(a, k) \/ Has(b, k)
  <2>1. \A k : Has(a \o b, k) <=> Has(a, k) \/ Has(b, k)
    <3>1. PICK P, R : P = Below(S, x) /\ R = From(S, x)
      OBVIOUS
    <3>2. Held(a, P) /\ Held(b, R) /\ Before(P, R)
      BY <1>7, <1>8, <1>9, <3>1
    <3> QED BY ONLY <3>2, HeldJoin
  <2> QED BY <1>4, <2>1
<1> QED BY <1>5, <1>6, <1>7, <1>8, <1>10

\* DeleteTuple removes the tuple with the key, if there is one.
LEMMA HeldRemove ==
  ASSUME NEW ts, NEW S, Held(ts, S), NEW k \in Keys, NEW w, w = DeleteTuple(ts, k)
  PROVE  /\ Held(w, S) /\ Space(w) <= Space(ts) /\ (w # ts <=> Has(ts, k))
         /\ \A x : Has(w, x) <=> Has(ts, x) /\ x # k
         /\ \A t : In(w, t) <=> In(ts, t) /\ t.key # k
<1> HIDE DEF Entry, Raw
<1>0. k \in Int
  BY Limits
<1>1. PICK n : n = Len(ts)
  OBVIOUS
<1>2. /\ ts \in Seq(Entry) /\ ts \in Seq(Raw) /\ n \in Nat /\ DOMAIN ts = 1..n
      /\ \A i \in 1..n : ts[i].key \in S /\ ts[i].key \in Keys /\ ts[i].key \in Int
      /\ \A i, j \in 1..n : i < j => ts[i].key < ts[j].key
  BY <1>1, HeldFacts
<1>3. PICK s : s = {m \in DOMAIN ts : ts[m].key < k}
  OBVIOUS
<1>4. Cardinality(s) \in 0..n /\ \A i \in 1..n : i \in s <=> i <= Cardinality(s)
  <2>1. s \in SUBSET (1..n)
    BY <1>2, <1>3
  <2>2. \A i \in s : \A j \in 1..n : j <= i => j \in s
    <3> SUFFICES ASSUME NEW i \in s, NEW j \in 1..n, j <= i PROVE ts[j].key < k
      BY <1>2, <1>3
    <3>1. i \in 1..n /\ ts[i].key < k /\ (j = i \/ j < i)
      BY <1>2, <1>3
    <3>2. ts[i].key \in Int /\ ts[j].key \in Int /\ (j = i \/ ts[j].key < ts[i].key)
      BY <1>2, <3>1
    <3> QED BY <1>0, <3>1, <3>2
  <2> QED BY <1>2, <2>1, <2>2, FirstNumbers
<1>5. PICK c : c = Cardinality(s) + 1
  OBVIOUS
<1>6. c \in Nat /\ c \in 1..(n + 1) /\ \A i \in 1..n : ts[i].key < k <=> i < c
  <2>1. c \in Nat /\ c \in 1..(n + 1) /\ \A i \in 1..n : i <= Cardinality(s) <=> i < c
    BY <1>2, <1>4, <1>5
  <2> QED BY <1>2, <1>3, <1>4, <2>1
<1>7. w = IF c \in 1..n /\ ts[c].key = k THEN RemoveAt(ts, c) ELSE ts
  BY <1>2, <1>3, <1>5 DEF DeleteTuple
<1>8. Has(ts, k) <=> c \in 1..n /\ ts[c].key = k
  <2>1. ASSUME NEW j \in 1..n, ts[j].key = k PROVE c \in 1..n /\ ts[c].key = k
    <3>1. ~(j < c)
      BY <1>0, <1>6, <2>1
    <3>2. c \in 1..n /\ c <= j
      BY <1>2, <1>6, <3>1
    <3>3. ~(ts[c].key < k)
      BY <1>6, <3>2
    <3>4. ~(c < j)
      BY <1>2, <2>1, <3>2, <3>3
    <3>5. c = j
      BY <1>6, <3>2, <3>4
    <3> QED BY <2>1, <3>2, <3>5
  <2> QED BY <1>1, <2>1 DEF Has
<1>9. CASE ~Has(ts, k)
  <2>1. w = ts
    BY <1>7, <1>8, <1>9
  <2>2. Space(ts) \in Nat
    BY <1>2, SpaceNat
  <2>3. Space(w) <= Space(ts)
    BY <2>1, <2>2
  <2>4. \A x : Has(w, x) <=> Has(ts, x) /\ x # k
    BY <1>9, <2>1
  <2>5. \A t : In(w, t) <=> In(ts, t) /\ t.key # k
    BY <1>1, <1>9, <2>1 DEF In, Has
  <2> QED BY <1>9, <2>1, <2>3, <2>4, <2>5
<1>10. CASE Has(ts, k)
  <2>1. c \in 1..n /\ ts[c].key = k /\ w = RemoveAt(ts, c)
    BY <1>7, <1>8, <1>10
  <2>2. /\ w \in Seq(Entry) /\ Len(w) = n - 1
        /\ \A j \in 1..(n - 1) : w[j] = IF j < c THEN ts[j] ELSE ts[j + 1]
    <3>1. c \in 1..Len(ts)
      BY <1>1, <2>1
    <3>2. ts \in Seq(Entry) /\ c \in 1..Len(ts) /\ w = RemoveAt(ts, c)
      BY <1>2, <2>1, <3>1
    <3>3. /\ w \in Seq(Entry) /\ Len(w) = Len(ts) - 1
          /\ \A j \in 1..(Len(ts) - 1) : w[j] = IF j < c THEN ts[j] ELSE ts[j + 1]
      BY ONLY <3>2, RemoveFacts
    <3> QED BY <1>1, <3>3
  <2>3. Space(ts) = Space(w) + ts[c].size
    BY <1>1, <1>2, <2>1, SpaceRemove
  <2>4. Space(w) \in Nat /\ ts[c].size \in Nat
    BY <1>1, <1>2, <2>1, <2>2, SpaceNat, EntriesAt
  <2>5. Space(w) <= Space(ts)
    BY <2>3, <2>4
  <2>6. w # ts
    BY <1>1, <1>2, <2>2
  <2>7. \A j \in 1..(n - 1) : /\ j < c => j \in 1..n /\ w[j] = ts[j]
                              /\ ~(j < c) => j + 1 \in 1..n /\ c < j + 1 /\ w[j] = ts[j + 1]
    <3> TAKE j \in 1..(n - 1)
    <3>1. j \in 1..n /\ j + 1 \in 1..n /\ (~(j < c) => c < j + 1)
      BY <1>2, <2>1
    <3> QED BY <2>2, <3>1
  <2>8. Within(w, S)
    <3>1. \A j \in 1..(n - 1) : w[j].key \in S
      BY <1>2, <2>7
    <3> QED BY <2>2, <3>1 DEF Within
  <2>9. Ascends(w)
    <3>1. ASSUME NEW i \in 1..(n - 1), NEW j \in 1..(n - 1), i < j PROVE w[i].key < w[j].key
      <4>1. i + 1 < j + 1 /\ i < j + 1 /\ i \in 1..n /\ j \in 1..n /\ i + 1 \in 1..n /\ j + 1 \in 1..n
            /\ (j < c => i < c)
        BY <1>2, <2>1, <3>1
      <4> QED BY <1>2, <2>7, <3>1, <4>1
    <3> QED BY <2>2, <3>1 DEF Ascends
  <2>10. ASSUME NEW t, In(w, t) PROVE In(ts, t) /\ t.key # k
    <3>1. PICK j \in 1..(n - 1) : w[j] = t
      BY <2>2, <2>10 DEF In
    <3>2. CASE j < c
      <4>1. j \in 1..n /\ w[j] = ts[j] /\ ts[j].key < k
        BY <1>6, <2>7, <3>2
      <4>2. ts[j].key # k
        BY <1>0, <1>2, <4>1
      <4> QED BY <1>1, <3>1, <4>1, <4>2 DEF In
    <3>3. CASE ~(j < c)
      <4>1. j + 1 \in 1..n /\ c < j + 1 /\ w[j] = ts[j + 1]
        BY <2>7, <3>3
      <4>2. ts[c].key < ts[j + 1].key /\ ts[j + 1].key \in Int
        BY <1>2, <2>1, <4>1
      <4>3. ts[j + 1].key # k
        BY <1>0, <2>1, <4>2
      <4> QED BY <1>1, <3>1, <4>1, <4>3 DEF In
    <3> QED BY <3>2, <3>3
  <2>11. ASSUME NEW t, In(ts, t), t.key # k PROVE In(w, t)
    <3>1. PICK j \in 1..n : ts[j] = t
      BY <1>1, <2>11 DEF In
    <3>2. j # c
      BY <2>1, <2>11, <3>1
    <3>3. CASE j < c
      <4>1. j \in 1..(n - 1) /\ w[j] = ts[j]
        BY <1>2, <2>1, <2>2, <3>3
      <4> QED BY <2>2, <3>1, <4>1 DEF In
    <3>4. CASE c < j
      <4>1. j - 1 \in 1..(n - 1) /\ ~(j - 1 < c) /\ (j - 1) + 1 = j
        BY <1>2, <2>1, <3>4
      <4>2. w[j - 1] = ts[j]
        BY <2>2, <4>1
      <4> QED BY <2>2, <3>1, <4>1, <4>2 DEF In
    <3> QED BY <1>6, <3>2, <3>3, <3>4
  <2>12. \A x : Has(w, x) <=> Has(ts, x) /\ x # k
    <3>1. ASSUME NEW s2, NEW x PROVE Has(s2, x) <=> \E t : In(s2, t) /\ t.key = x
      BY DEF Has, In
    <3> QED BY <2>10, <2>11, <3>1
  <2> QED BY <1>10, <2>2, <2>5, <2>6, <2>8, <2>9, <2>10, <2>11, <2>12 DEF Held
<1> QED BY <1>9, <1>10

\* Tuples that are put somewhere else.

LEMMA InJoin ==
  ASSUME NEW S, NEW a \in Seq(S), NEW b \in Seq(S), NEW w, w = a \o b
  PROVE  \A t : In(w, t) <=> In(a, t) \/ In(b, t)
<1>1. PICK m, n : m = Len(a) /\ n = Len(b) /\ m \in Nat /\ n \in Nat
  BY LenProperties
<1>2. /\ Len(w) = m + n /\ \A i \in 1..m : w[i] = a[i]
      /\ \A i \in 1..n : w[m + i] = b[i]
  BY <1>1
<1>3. ASSUME NEW t, In(w, t) PROVE In(a, t) \/ In(b, t)
  <2>1. PICK i \in 1..(m + n) : w[i] = t
    BY <1>2, <1>3 DEF In
  <2>2. CASE i \in 1..m
    BY <1>1, <1>2, <2>1, <2>2 DEF In
  <2>3. CASE i \notin 1..m
    <3>1. PICK j : j = i - m
      OBVIOUS
    <3>2. j \in 1..n /\ i = m + j
      BY <1>1, <2>3, <3>1
    <3> QED BY <1>1, <1>2, <2>1, <3>2 DEF In
  <2> QED BY <2>2, <2>3
<1>4. ASSUME NEW t, In(a, t) PROVE In(w, t)
  <2>1. PICK i \in 1..m : a[i] = t
    BY <1>1, <1>4 DEF In
  <2>2. i \in 1..(m + n)
    BY <1>1
  <2> QED BY <1>2, <2>1, <2>2 DEF In
<1>5. ASSUME NEW t, In(b, t) PROVE In(w, t)
  <2>1. PICK i \in 1..n : b[i] = t
    BY <1>1, <1>5 DEF In
  <2>2. m + i \in 1..(m + n)
    BY <1>1
  <2> QED BY <1>2, <2>1, <2>2 DEF In
<1> QED BY <1>3, <1>4, <1>5

HalvesOf(S, s, m, a, b) ==
  /\ s \in Seq(S) /\ m \in 0..Len(s)
  /\ a = SubSeq(s, 1, m) /\ b = SubSeq(s, m + 1, Len(s))

LEMMA InCut ==
  ASSUME NEW S, NEW s, NEW m, NEW a, NEW b, HalvesOf(S, s, m, a, b)
  PROVE  \A t : In(s, t) <=> In(a, t) \/ In(b, t)
<1>1. s \in Seq(S) /\ m \in 0..Len(s) /\ a = SubSeq(s, 1, m) /\ b = SubSeq(s, m + 1, Len(s))
  BY DEF HalvesOf
<1>2. a \in Seq(S) /\ b \in Seq(S) /\ s = a \o b
  BY <1>1, CutFacts
<1> QED BY ONLY <1>2, InJoin

LEMMA InInserted ==
  ASSUME NEW S, NEW s \in Seq(S), NEW x \in S, NEW i \in 1..(Len(s) + 1), NEW w, w = InsertAt(s, i, x)
  PROVE  \A t : In(w, t) <=> In(s, t) \/ t = x
<1>1. PICK n : n = Len(s) /\ n \in Nat
  OBVIOUS
<1>2. Len(w) = n + 1 /\ \A j \in 1..(n + 1) : w[j] = IF j < i THEN s[j] ELSE IF j = i THEN x ELSE s[j - 1]
  <2>1. s \in Seq(S) /\ x \in S /\ i \in 1..(Len(s) + 1) /\ w = InsertAt(s, i, x)
    OBVIOUS
  <2>2. /\ Len(w) = Len(s) + 1
        /\ \A j \in 1..(Len(s) + 1) : w[j] = IF j < i THEN s[j] ELSE IF j = i THEN x ELSE s[j - 1]
    <3>1. InsertedAt(S, s, i, x, w)
      BY ONLY <2>1, Inserted
    <3> QED BY <3>1 DEF InsertedAt
  <2> QED BY <1>1, <2>2
<1>3. i \in 1..(n + 1) /\ w[i] = x
  BY <1>1, <1>2
<1>4. ASSUME NEW j \in 1..(n + 1), j # i PROVE \E k \in 1..n : w[j] = s[k]
  <2>1. CASE j < i
    <3>1. j \in 1..n
      BY <1>1, <1>3, <2>1
    <3> QED BY <1>2, <2>1, <3>1
  <2>2. CASE ~(j < i)
    <3>1. j - 1 \in 1..n
      BY <1>1, <1>3, <1>4, <2>2
    <3> QED BY <1>2, <1>4, <2>2, <3>1
  <2> QED BY <2>1, <2>2
<1>5. ASSUME NEW k \in 1..n PROVE \E j \in 1..(n + 1) : w[j] = s[k]
  <2>1. CASE k < i
    <3>1. k \in 1..(n + 1)
      BY <1>1
    <3> QED BY <1>2, <2>1, <3>1
  <2>2. CASE ~(k < i)
    <3>1. PICK j : j = k + 1
      OBVIOUS
    <3>2. j \in 1..(n + 1) /\ ~(j < i) /\ j # i /\ j - 1 = k
      BY <1>1, <1>3, <2>2, <3>1
    <3> QED BY <1>2, <3>2
  <2> QED BY <2>1, <2>2
<1> QED BY <1>1, <1>2, <1>3, <1>4, <1>5 DEF In

-----------------------------------------------------------------------------
\* The space of the first tuples, and of the last.
Prefix(ts, n, f) ==
  /\ n \in Nat /\ n = Len(ts) /\ f \in [0..n -> Nat] /\ f[0] = 0 /\ Space(ts) = f[n]
  /\ \A i \in 1..n : /\ i - 1 \in 0..n /\ i \in 0..n
                     /\ ts[i].size \in Nat /\ ts[i].size <= MAX_LEAF_PAGE_DATA
                     /\ f[i] = f[i - 1] + ts[i].size
  /\ \A j \in 0..n : /\ Space(SubSeq(ts, 1, j)) = f[j]
                     /\ Space(SubSeq(ts, j + 1, n)) = f[n] - f[j]

LEMMA PrefixSpaces ==
  ASSUME NEW ts, ts \in Seq(Entry)
  PROVE  \E f : Prefix(ts, Len(ts), f)
<1> HIDE DEF Entry, Raw
<1>1. PICK n : n = Len(ts)
  OBVIOUS
<1>2. /\ n \in Nat /\ ts \in Seq(Raw)
      /\ \A i \in 1..n : ts[i].size \in Nat /\ ts[i].size <= MAX_LEAF_PAGE_DATA
  BY <1>1, EntriesAt
<1>3. PICK f : Sums(ts, f) /\ Space(ts) = f[n]
  BY <1>1, <1>2, SpaceSteps
<1>4. /\ f \in [0..n -> Int] /\ f[0] = 0
      /\ \A i \in 1..n : f[i] = f[i - 1] + ts[i].size
  BY <1>1, <1>3 DEF Sums
<1>5. \A j \in 0..n : Space(SubSeq(ts, 1, j)) = f[j] /\ f[j] \in Nat
                      /\ Space(SubSeq(ts, j + 1, n)) = f[n] - f[j]
  <2> SUFFICES ASSUME NEW j \in 0..n
               PROVE  /\ Space(SubSeq(ts, 1, j)) = f[j] /\ f[j] \in Nat
                      /\ Space(SubSeq(ts, j + 1, n)) = f[n] - f[j]
    OBVIOUS
  <2>1. PICK a, b : a = SubSeq(ts, 1, j) /\ b = SubSeq(ts, j + 1, n)
    OBVIOUS
  <2>2. a \in Seq(Entry) /\ Len(a) = j /\ \A i \in 1..j : a[i] = ts[i]
    <3>1. ts \in Seq(Entry) /\ j \in 0..Len(ts)
      BY <1>1
    <3> QED BY <1>1, <2>1, <3>1, CutFacts
  <2>3. a \in Seq(Raw)
    BY <2>2, EntryFacts
  <2>4. PICK g : g = [i \in 0..j |-> f[i]]
    OBVIOUS
  <2>5. Sums(a, g)
    <3>1. \A i \in 0..j : i \in 0..n /\ g[i] = f[i]
      BY <1>2, <2>4
    <3>2. \A i \in 1..j : i \in 1..n /\ i \in 0..j /\ i - 1 \in 0..j
      BY <1>2
    <3>5. \A i \in 0..j : f[i] \in Int
      BY <1>4, <3>1
    <3>6. g \in [0..j -> Int]
      BY ONLY <2>4, <3>5
    <3>7. 0 \in 0..j
      BY <1>2
    <3>3. g \in [0..j -> Int] /\ g[0] = 0
      BY <1>4, <3>1, <3>6, <3>7
    <3>4. \A i \in 1..j : g[i] = g[i - 1] + a[i].size
      BY <1>4, <2>2, <3>1, <3>2
    <3> QED BY <2>2, <3>3, <3>4 DEF Sums
  <2>6. Space(a) = g[j]
    BY <2>2, <2>3, <2>5, SpaceIs
  <2>7. g[j] = f[j]
    BY <2>4
  <2>8. Space(a) \in Nat
    BY <2>2, SpaceNat
  <2>9. Space(ts) = Space(a) + Space(b)
    <3>1. ts \in Seq(Raw) /\ j \in 0..Len(ts)
      BY <1>1, <1>2
    <3> QED BY <1>1, <2>1, <3>1, SpaceCut
  <2>10. b \in Seq(Entry)
    <3>1. ts \in Seq(Entry) /\ j \in 0..Len(ts)
      BY <1>1
    <3> QED BY <1>1, <2>1, <3>1, CutFacts
  <2>11. Space(b) \in Nat
    BY <2>10, SpaceNat
  <2>12. Space(b) = f[n] - f[j]
    BY <1>3, <2>6, <2>7, <2>8, <2>9, <2>11
  <2> QED BY <2>1, <2>6, <2>7, <2>8, <2>12
<1>6. f \in [0..n -> Nat]
  BY <1>4, <1>5
<1>7. \A i \in 1..n : i - 1 \in 0..n /\ i \in 0..n
  BY <1>2
<1>8. Prefix(ts, n, f)
  BY <1>1, <1>2, <1>3, <1>4, <1>5, <1>6, <1>7 DEF Prefix
<1> QED BY <1>1, <1>8

\* Where a leaf is split.
ToSplit(ts, n, f, g, H, k) ==
  /\ Prefix(ts, n, f) /\ DOMAIN ts = 1..n /\ 2 <= n /\ k = Kept(ts)
  /\ g = [j \in 0..n |-> f[j] - j * SLOT_SIZE] /\ H = LEAF_SPACE \div 2

SplitsAt(k, n, g, H) ==
  /\ k \in 1..(n - 1)
  /\ \/ g[k] > H /\ \A j \in 1..n : g[j] > H => k <= j
     \/ \A j \in 1..(n - 1) : g[j] <= H

LEMMA KeptFacts ==
  ASSUME NEW ts, NEW n, NEW f, NEW g, NEW H, NEW k, ToSplit(ts, n, f, g, H, k)
  PROVE  SplitsAt(k, n, g, H)
<1> /\ Prefix(ts, n, f) /\ DOMAIN ts = 1..n /\ 2 <= n /\ k = Kept(ts)
    /\ g = [j \in 0..n |-> f[j] - j * SLOT_SIZE] /\ H = LEAF_SPACE \div 2
  BY DEF ToSplit
<1> DEFINE over == {m \in DOMAIN ts : Space(FirstTuples(ts, m)) - m * SLOT_SIZE > H}
<1>1. k = IF over = {} \/ over = {Len(ts)} THEN Len(ts) \div 2
          ELSE CHOOSE m \in over : \A o \in over : m <= o
  BY DEF Kept
<1>2. n \in Nat /\ n = Len(ts) /\ \A j \in 0..n : Space(SubSeq(ts, 1, j)) = f[j] /\ f[j] \in Nat
  BY DEF Prefix
<1>3. SLOT_SIZE \in Nat /\ H \in Nat
  BY Limits
<1>4. \A j \in 1..n : j \in 0..n /\ j * SLOT_SIZE \in Int /\ g[j] \in Int /\ (j \in over <=> g[j] > H)
  <2> TAKE j \in 1..n
  <2>1. j \in 0..n /\ j * SLOT_SIZE \in Int
    BY <1>2, <1>3
  <2>2. g[j] = f[j] - j * SLOT_SIZE /\ f[j] \in Nat
    BY <1>2, <2>1
  <2>3. g[j] \in Int
    BY <2>1, <2>2
  <2>4. Space(FirstTuples(ts, j)) - j * SLOT_SIZE = g[j]
    BY <1>2, <2>1, <2>2 DEF FirstTuples
  <2> QED BY <2>1, <2>3, <2>4
<1>5. over \in SUBSET (1..n)
  OBVIOUS
<1> HIDE DEF over
<1>6. CASE over = {} \/ over = {n}
  <2>1. k = n \div 2
    BY <1>1, <1>2, <1>6
  <2>2. k \in 1..(n - 1)
    <3>1. n \in Nat /\ 2 <= n /\ k = n \div 2
      BY <1>2, <2>1
    <3>2. n \div 2 \in Nat /\ 2 * (n \div 2) <= n /\ n <= 2 * (n \div 2) + 1
      BY ONLY <3>1
    <3>3. PICK y : y = n \div 2
      OBVIOUS
    <3>4. n \in Nat /\ 2 <= n /\ y \in Nat /\ 2 * y <= n /\ n <= 2 * y + 1
      BY <3>1, <3>2, <3>3
    <3>5. y \in 1..(n - 1)
      BY ONLY <3>4
    <3> QED BY <3>1, <3>3, <3>5
  <2>3. \A j \in 1..(n - 1) : g[j] <= H
    <3> TAKE j \in 1..(n - 1)
    <3>0. n \in Nat /\ j \in 1..(n - 1)
      BY <1>2
    <3>1. j \in 1..n /\ j # n
      BY ONLY <3>0
    <3>2. ~(g[j] > H) /\ g[j] \in Int
      BY <1>4, <1>6, <3>1
    <3> QED BY <1>3, <3>2
  <2> QED BY <2>2, <2>3 DEF SplitsAt
<1>7. CASE ~(over = {} \/ over = {n})
  <2>1. k = CHOOSE m \in over : \A o \in over : m <= o
    BY <1>1, <1>2, <1>7
  <2>2. over \in SUBSET Nat /\ over # {}
    BY <1>2, <1>5, <1>7
  <2>3. k \in over /\ \A o \in over : k <= o
    BY <2>1, <2>2, LeastNumber
  <2>4. \E o \in over : o # n
    BY <1>7, <2>2
  <2>5. k \in 1..n /\ k # n
    <3>1. PICK o \in over : o # n
      BY <2>4
    <3>2. n \in Nat /\ k \in 1..n /\ o \in 1..n /\ k <= o /\ o # n
      BY <1>2, <1>5, <2>3, <3>1, Zenon
    <3>3. k # n
      BY ONLY <3>2
    <3> QED BY <3>2, <3>3
  <2>6. k \in 1..(n - 1)
    BY <1>2, <2>5
  <2>7. g[k] > H /\ \A j \in 1..n : g[j] > H => k <= j
    BY <1>4, <2>3, <2>5
  <2> QED BY <2>6, <2>7 DEF SplitsAt
<1> QED BY <1>6, <1>7

\* Large tuples: the slots are a third of the space at most.
LEMMA SlotsAreFew ==
  ASSUME NEW ts, NEW n, NEW f, Prefix(ts, n, f), \A i \in 1..n : ts[i].size >= 3 * SLOT_SIZE
  PROVE  \A j \in 0..n : 3 * (j * SLOT_SIZE) <= f[j] /\ j * SLOT_SIZE \in Nat
<1>1. /\ n \in Nat /\ f \in [0..n -> Nat] /\ f[0] = 0
      /\ \A i \in 1..n : ts[i].size \in Nat /\ f[i] = f[i - 1] + ts[i].size
  BY DEF Prefix
<1>2. SLOT_SIZE \in Nat
  BY Limits
<1> DEFINE T == {j \in Nat : j <= n => 3 * (j * SLOT_SIZE) <= f[j]}
<1>3. 0 \in T
  BY <1>1, <1>2
<1>4. ASSUME NEW j \in Nat, j \in T PROVE j + 1 \in T
  <2> SUFFICES ASSUME j + 1 <= n PROVE 3 * ((j + 1) * SLOT_SIZE) <= f[j + 1]
    OBVIOUS
  <2>1. j + 1 \in 1..n /\ j <= n /\ (j + 1) - 1 = j /\ j \in 0..n
    BY <1>1
  <2>2. f[j + 1] = f[j] + ts[j + 1].size /\ ts[j + 1].size \in Nat /\ f[j] \in Nat
    BY <1>1, <2>1
  <2>3. 3 * (j * SLOT_SIZE) <= f[j] /\ ts[j + 1].size >= 3 * SLOT_SIZE
    BY <1>4, <2>1
  <2>4. (j + 1) * SLOT_SIZE = j * SLOT_SIZE + SLOT_SIZE /\ j * SLOT_SIZE \in Int
    BY <1>2
  <2> QED BY <1>2, <2>2, <2>3, <2>4
<1> HIDE DEF T
<1>5. \A j \in Nat : j \in T
  BY <1>3, <1>4, Induction
<1>6. \A j \in 0..n : j * SLOT_SIZE \in Nat
  BY <1>1, <1>2
<1> QED BY <1>5, <1>6 DEF T

\* After a split there is room for the tuple on both sides.
LEMMA SplitRoom ==
  ASSUME NEW ts \in Seq(Entry), Space(ts) <= LEAF_SPACE, LEAF_SPACE - Space(ts) < MIN_LEAF_PAGE_DATA,
         NEW k, k = Kept(ts)
  PROVE  /\ k \in 1..(Len(ts) - 1)
         /\ MIN_LEAF_PAGE_DATA <= LEAF_SPACE - Space(SubSeq(ts, 1, k))
         /\ MIN_LEAF_PAGE_DATA <= LEAF_SPACE - Space(SubSeq(ts, k + 1, Len(ts)))
<1> HIDE DEF Entry, Raw
<1>1. PICK n : n = Len(ts)
  OBVIOUS
<1>2. PICK f : Prefix(ts, n, f)
  <2>1. \E f : Prefix(ts, Len(ts), f)
    BY PrefixSpaces
  <2> QED BY <1>1, <2>1
<1>3. /\ n \in Nat /\ f \in [0..n -> Nat] /\ f[0] = 0 /\ Space(ts) = f[n]
      /\ \A i \in 1..n : /\ i - 1 \in 0..n /\ i \in 0..n
                         /\ ts[i].size \in Nat /\ ts[i].size <= MAX_LEAF_PAGE_DATA
                         /\ f[i] = f[i - 1] + ts[i].size
      /\ \A j \in 0..n : /\ Space(SubSeq(ts, 1, j)) = f[j]
                         /\ Space(SubSeq(ts, j + 1, n)) = f[n] - f[j]
  BY <1>2 DEF Prefix
<1>4. PICK L, N, X : L = LEAF_SPACE /\ N = MIN_LEAF_PAGE_DATA /\ X = MAX_LEAF_PAGE_DATA
  OBVIOUS
<1>5. L \in Nat /\ N \in Nat /\ X \in Nat /\ N + X <= L /\ f[n] <= L /\ L - f[n] < N
  BY <1>3, <1>4, Limits
<1>6. 2 <= n
  <2>1. n # 0
    BY <1>3, <1>5
  <2>2. n # 1
    <3> SUFFICES ASSUME n = 1 PROVE FALSE
      OBVIOUS
    <3>1. f[1] = f[0] + ts[1].size /\ ts[1].size <= X /\ ts[1].size \in Nat
      BY <1>3, <1>4
    <3> QED BY <1>3, <1>5, <3>1
  <2> QED BY <1>3, <2>1, <2>2
<1>7. PICK g : g = [j \in 0..n |-> f[j] - j * SLOT_SIZE]
  OBVIOUS
<1>8. PICK H : H = LEAF_SPACE \div 2
  OBVIOUS
<1>9. H \in Nat /\ 2 * H <= L /\ L <= 2 * H + 1
  BY <1>4, <1>5, <1>8
<1>10. /\ k \in 1..(n - 1)
       /\ \/ g[k] > H /\ \A j \in 1..n : g[j] > H => k <= j
          \/ \A j \in 1..(n - 1) : g[j] <= H
  <2>1. DOMAIN ts = 1..n
    BY <1>1, EntriesAt
  <2>2. ToSplit(ts, n, f, g, H, k)
    BY <1>2, <1>6, <1>7, <1>8, <2>1 DEF ToSplit
  <2>3. SplitsAt(k, n, g, H)
    BY ONLY <2>2, KeptFacts
  <2> QED BY <2>3 DEF SplitsAt
<1>11. k \in 1..n /\ k \in 0..n /\ k - 1 \in 0..n /\ k \in Nat /\ n - 1 \in 0..n /\ n \in 1..n
  <2>1. n \in Nat /\ 2 <= n /\ k \in 1..(n - 1)
    BY <1>3, <1>6, <1>10
  <2>2. k \in 1..n /\ k \in 0..n /\ k - 1 \in 0..n /\ k \in Nat
    BY ONLY <2>1
  <2>3. n - 1 \in 0..n /\ n \in 1..n
    BY ONLY <2>1
  <2> QED BY <2>2, <2>3
<1>12. /\ f[k] \in Nat /\ f[k - 1] \in Nat /\ f[n] \in Nat /\ f[n - 1] \in Nat
       /\ f[k] = f[k - 1] + ts[k].size /\ ts[k].size \in Nat /\ ts[k].size <= X
       /\ f[n] = f[n - 1] + ts[n].size /\ ts[n].size \in Nat /\ ts[n].size <= X
  BY <1>3, <1>4, <1>11
<1>13. Space(SubSeq(ts, 1, k)) = f[k] /\ Space(SubSeq(ts, k + 1, Len(ts))) = f[n] - f[k]
  BY <1>1, <1>3, <1>11
<1>14. f[k] <= L - N /\ f[n] - f[k] <= L - N
  <2>1. CASE \A s \in Sizes : s >= MIN_LEAF_PAGE_DATA
    <3>1. \A i \in 1..n : ts[i].size >= N
      <4> TAKE i \in 1..n
      <4>1. ts[i] \in Entry
        BY <1>1, EntriesAt
      <4>2. PICK z \in Sizes : Least(MIN_LEAF_PAGE_DATA, z) <= ts[i].size
        BY <4>1, EntryFacts
      <4>3. z >= N /\ z \in Nat /\ ts[i].size \in Nat
        BY <1>3, <1>4, <2>1, Limits
      <4> QED BY <1>4, <1>5, <4>2, <4>3 DEF Least
    <3>2. f[k] >= N
      <4>1. PICK x, y, z : x = f[k - 1] /\ y = f[k] /\ z = ts[k].size
        OBVIOUS
      <4>2. x \in Nat /\ z \in Nat /\ N \in Nat /\ y = x + z /\ z >= N
        BY <1>5, <1>11, <1>12, <3>1, <4>1
      <4>3. y >= N
        BY ONLY <4>2
      <4> QED BY <4>1, <4>3
    <3>3. f[k] <= f[n - 1]
      <4> DEFINE T == {j \in Nat : k + j <= n - 1 => f[k] <= f[k + j]}
      <4>1. 0 \in T
        BY <1>11, <1>12
      <4>2. ASSUME NEW j \in Nat, j \in T PROVE j + 1 \in T
        <5> SUFFICES ASSUME k + (j + 1) <= n - 1 PROVE f[k] <= f[k + (j + 1)]
          OBVIOUS
        <5>1. k + (j + 1) \in 1..n /\ (k + (j + 1)) - 1 = k + j /\ k + j <= n - 1 /\ k + j \in 0..n
          <6>1. k \in Nat /\ n \in Nat /\ j \in Nat /\ 1 <= k /\ k + (j + 1) <= n - 1
            BY <1>3, <1>11
          <6>2. k + (j + 1) \in 1..n
            BY ONLY <6>1
          <6>3. (k + (j + 1)) - 1 = k + j
            BY ONLY <6>1
          <6>4. k + j <= n - 1 /\ k + j \in 0..n
            BY ONLY <6>1
          <6> QED BY <6>2, <6>3, <6>4
        <5>2. f[k + (j + 1)] = f[k + j] + ts[k + (j + 1)].size /\ ts[k + (j + 1)].size \in Nat
              /\ f[k + j] \in Nat
          BY <1>3, <5>1
        <5>3. f[k] <= f[k + j]
          BY <4>2, <5>1
        <5>4. PICK w, x, y, z : w = f[k] /\ x = f[k + j] /\ y = f[k + (j + 1)] /\ z = ts[k + (j + 1)].size
          OBVIOUS
        <5>5. w \in Nat /\ x \in Nat /\ z \in Nat /\ w <= x /\ y = x + z
          BY <1>12, <5>2, <5>3, <5>4
        <5>6. w <= y
          BY ONLY <5>5
        <5> QED BY <5>4, <5>6
      <4> HIDE DEF T
      <4>3. (n - 1) - k \in T
        <5>1. (n - 1) - k \in Nat
          <6>1. n \in Nat /\ k \in 1..(n - 1)
            BY <1>3, <1>10
          <6> QED BY ONLY <6>1
        <5> QED BY <4>1, <4>2, <5>1, Induction
      <4>4. k + ((n - 1) - k) = n - 1 /\ n - 1 <= n - 1
        BY <1>3, <1>11
      <4> QED BY <4>3, <4>4 DEF T
    <3>4. f[n] - f[n - 1] >= N
      <4>1. PICK x, y, z : x = f[n - 1] /\ y = f[n] /\ z = ts[n].size
        OBVIOUS
      <4>2. x \in Nat /\ z \in Nat /\ N \in Nat /\ y = x + z /\ z >= N
        BY <1>5, <1>11, <1>12, <3>1, <4>1
      <4>3. y - x >= N
        BY ONLY <4>2
      <4> QED BY <4>1, <4>3
    <3>5. PICK u, v, w : u = f[k] /\ v = f[n - 1] /\ w = f[n]
      OBVIOUS
    <3>6. u \in Nat /\ v \in Nat /\ w \in Nat /\ L \in Nat /\ N \in Nat
          /\ u >= N /\ u <= v /\ w - v >= N /\ w <= L
      BY <1>5, <1>12, <3>2, <3>3, <3>4, <3>5
    <3>7. u <= L - N /\ w - u <= L - N
      BY ONLY <3>6
    <3> QED BY <3>5, <3>7
  <2>2. CASE /\ \A s \in Sizes : s >= 3 * SLOT_SIZE
             /\ MIN_LEAF_PAGE_DATA >= 3 * SLOT_SIZE
             /\ 4 * (MIN_LEAF_PAGE_DATA + MAX_LEAF_PAGE_DATA) <= LEAF_SPACE
    <3>0. SLOT_SIZE \in Nat /\ N >= 3 * SLOT_SIZE /\ 4 * (N + X) <= L
      BY <1>4, <2>2, Limits
    <3>1. \A i \in 1..n : ts[i].size >= 3 * SLOT_SIZE
      <4> TAKE i \in 1..n
      <4>1. ts[i] \in Entry
        BY <1>1, EntriesAt
      <4>2. PICK z \in Sizes : Least(MIN_LEAF_PAGE_DATA, z) <= ts[i].size
        BY <4>1, EntryFacts
      <4>3. z >= 3 * SLOT_SIZE /\ z \in Nat /\ ts[i].size \in Nat
        BY <1>3, <2>2, Limits
      <4> QED BY <1>4, <1>5, <3>0, <4>2, <4>3 DEF Least
    <3>2. \A j \in 0..n : 3 * (j * SLOT_SIZE) <= f[j] /\ j * SLOT_SIZE \in Nat
      BY <1>2, <3>1, SlotsAreFew
    <3>3. \A j \in 0..n : g[j] <= H => 4 * f[j] <= 3 * L
      <4> SUFFICES ASSUME NEW j \in 0..n, g[j] <= H PROVE 4 * f[j] <= 3 * L
        OBVIOUS
      <4>1. PICK y, z : y = j * SLOT_SIZE /\ z = f[j]
        OBVIOUS
      <4>2. y \in Nat /\ z \in Nat /\ 3 * y <= z /\ z - y <= H
        BY <1>3, <1>7, <3>2, <4>1
      <4>3. 4 * z <= 3 * L
        BY ONLY <1>5, <1>9, <4>2
      <4> QED BY <4>1, <4>3
    <3>4. CASE g[k] > H /\ \A j \in 1..n : g[j] > H => k <= j
      <4>1. 4 * f[k - 1] <= 3 * L
        <5>1. CASE k = 1
          BY <1>3, <1>5, <5>1
        <5>2. CASE k # 1
          <6>1. k - 1 \in 1..n /\ ~(k <= k - 1)
            BY <1>11, <5>2
          <6>2. g[k - 1] = f[k - 1] - (k - 1) * SLOT_SIZE /\ (k - 1) * SLOT_SIZE \in Nat
            BY <1>7, <1>11, <3>2
          <6>3. PICK x, y, z : x = g[k - 1] /\ y = f[k - 1] /\ z = (k - 1) * SLOT_SIZE
            OBVIOUS
          <6>4. y \in Nat /\ z \in Nat /\ H \in Nat /\ x = y - z
            BY <1>9, <1>12, <6>2, <6>3
          <6>5. ~(x > H)
            BY <3>4, <6>1, <6>3
          <6>6. x <= H
            BY ONLY <6>4, <6>5
          <6>7. g[k - 1] <= H
            BY <6>3, <6>6
          <6> QED BY <1>11, <3>3, <6>7
        <5> QED BY <5>1, <5>2
      <4>2. f[k] > H
        <5>1. g[k] = f[k] - k * SLOT_SIZE /\ k * SLOT_SIZE \in Nat
          BY <1>7, <1>11, <3>2
        <5> QED BY <1>9, <1>12, <3>4, <5>1
      <4>3. f[k] <= L - N
        <5>1. PICK u, v, w : u = f[k - 1] /\ v = f[k] /\ w = ts[k].size
          OBVIOUS
        <5>2. /\ u \in Nat /\ v = u + w /\ w \in Nat /\ w <= X /\ 4 * u <= 3 * L /\ 4 * (N + X) <= L
              /\ L \in Nat /\ N \in Nat /\ X \in Nat
          BY <1>5, <1>12, <3>0, <4>1, <5>1
        <5>3. v <= L - N
          BY ONLY <5>2
        <5> QED BY <5>1, <5>3
      <4>4. f[n] - f[k] <= L - N
        <5>1. PICK u, w : u = f[k] /\ w = f[n]
          OBVIOUS
        <5>2. /\ u \in Nat /\ w \in Nat /\ w <= L /\ u > H /\ H \in Nat /\ L <= 2 * H + 1
              /\ 4 * (N + X) <= L /\ L \in Nat /\ N \in Nat /\ X \in Nat
          BY <1>5, <1>9, <1>12, <3>0, <4>2, <5>1
        <5>3. w - u <= L - N
          BY ONLY <5>2
        <5> QED BY <5>1, <5>3
      <4> QED BY <4>3, <4>4
    <3>5. CASE \A j \in 1..(n - 1) : g[j] <= H
      <4>1. n - 1 \in 1..(n - 1)
        BY <1>3, <1>6
      <4>2. 4 * f[n - 1] <= 3 * L
        BY <1>11, <3>3, <3>5, <4>1
      <4>3. FALSE
        <5>1. PICK u, v, w : u = f[n - 1] /\ v = f[n] /\ w = ts[n].size
          OBVIOUS
        <5>2. /\ u \in Nat /\ v = u + w /\ w \in Nat /\ w <= X /\ 4 * u <= 3 * L /\ 4 * (N + X) <= L
              /\ L - v < N /\ L \in Nat /\ N \in Nat /\ X \in Nat
          BY <1>5, <1>12, <3>0, <4>2, <5>1
        <5> QED BY ONLY <5>2
      <4> QED BY <4>3
    <3> QED BY <1>10, <3>4, <3>5
  <2> QED BY <2>1, <2>2, BTreeAssumption
<1>15. PICK u, v : u = f[k] /\ v = f[n] - f[k]
  OBVIOUS
<1>16. u \in Int /\ v \in Int /\ u <= L - N /\ v <= L - N /\ L \in Nat /\ N \in Nat
  BY <1>5, <1>12, <1>14, <1>15
<1>17. N <= L - u /\ N <= L - v
  BY ONLY <1>16
<1> QED BY <1>1, <1>4, <1>10, <1>13, <1>15, <1>17

-----------------------------------------------------------------------------
\* What a leaf lends.  F[i] is the space of the i tuples at one end of it.
Ends(ts, n, F) ==
  /\ n \in Nat /\ F \in [0..n -> Nat] /\ F[0] = 0 /\ F[n] = Space(ts)
  /\ DOMAIN ts = 1..n
  /\ \A i \in 1..n : /\ i \in 0..n /\ i - 1 \in 0..n
                     /\ F[i] <= F[i - 1] + MAX_LEAF_PAGE_DATA

LEMMA LendsFacts ==
  ASSUME NEW ts, NEW n, NEW F, Ends(ts, n, F),
         NEW taken, \A i \in 1..n : Space(taken[i]) = F[i],
         NEW needed \in Nat, needed > 0,
         NEW r, r = Lends(ts, taken, needed)
  PROVE  /\ r = 0 => Space(ts) < LEAF_UNDERFLOW_THRESHOLD + needed + MAX_LEAF_PAGE_DATA
         /\ r # 0 => r \in 1..(n - 1) /\ F[r] < needed + MAX_LEAF_PAGE_DATA
         /\ r \in Nat
<1>1. PICK X, Th : X = MAX_LEAF_PAGE_DATA /\ Th = LEAF_UNDERFLOW_THRESHOLD
  OBVIOUS
<1>2. X \in Nat /\ Th \in Nat
  BY <1>1, Limits
<1>3. /\ n \in Nat /\ F \in [0..n -> Nat] /\ F[0] = 0 /\ F[n] = Space(ts)
      /\ DOMAIN ts = 1..n
      /\ \A i \in 1..n : i \in 0..n /\ i - 1 \in 0..n /\ F[i] <= F[i - 1] + X
  BY <1>1 DEF Ends
<1> DEFINE enough == {m \in DOMAIN ts : Space(taken[m]) >= needed}
<1> DEFINE least == CHOOSE m \in enough : \A o \in enough : m <= o
<1>4. r = IF enough = {} THEN 0
          ELSE IF Space(ts) - Space(taken[least]) > LEAF_UNDERFLOW_THRESHOLD THEN least ELSE 0
  BY DEF Lends
<1>5. \A i \in 1..n : i \in enough <=> F[i] >= needed
  BY <1>3
<1>6. enough \in SUBSET (1..n)
  BY <1>3
<1>7. PICK m : m = least
  OBVIOUS
<1>8. enough # {} => m \in enough /\ \A o \in enough : m <= o
  <2> HIDE DEF enough
  <2>1. enough \in SUBSET Nat
    BY <1>3, <1>6
  <2> QED BY <1>7, <2>1, LeastNumber
<1>9. r = IF enough = {} THEN 0 ELSE IF Space(ts) - Space(taken[m]) > Th THEN m ELSE 0
  BY <1>1, <1>4, <1>7
<1> HIDE DEF enough, least
<1>10. n \in 0..n
  BY <1>3
<1>11. F[n] \in Nat
  BY <1>3, <1>10
<1>12. CASE enough = {}
  <2>1. r = 0
    BY <1>9, <1>12
  <2>2. F[n] < needed
    <3>1. CASE n = 0
      BY <1>3, <3>1
    <3>2. CASE n # 0
      <4>1. n \in 1..n
        BY <1>3, <3>2
      <4>2. ~(F[n] >= needed)
        BY <1>5, <1>12, <4>1
      <4> QED BY <1>11, <4>2
    <3> QED BY <3>1, <3>2
  <2>3. PICK y : y = F[n]
    OBVIOUS
  <2>4. y \in Nat /\ y < needed /\ X \in Nat /\ Th \in Nat /\ needed \in Nat
    BY <1>2, <1>11, <2>2, <2>3
  <2>5. y < Th + needed + X
    BY ONLY <2>4
  <2> QED BY <1>1, <1>3, <2>1, <2>3, <2>5
<1>13. CASE enough # {}
  <2>1. m \in 1..n /\ m \in 0..n /\ m - 1 \in 0..n /\ F[m] <= F[m - 1] + X
    BY <1>3, <1>6, <1>8, <1>13
  <2>2. F[m] \in Nat /\ F[m - 1] \in Nat
    BY <1>3, <2>1
  <2>3. F[m - 1] < needed
    <3>1. CASE m = 1
      BY <1>3, <3>1
    <3>2. CASE m # 1
      <4>0. n \in Nat /\ m \in 1..n /\ m # 1
        BY <1>3, <2>1, <3>2
      <4>1. m - 1 \in 1..n /\ ~(m <= m - 1)
        BY ONLY <4>0
      <4>2. m - 1 \notin enough
        BY <1>8, <1>13, <4>1
      <4>3. ~(F[m - 1] >= needed)
        BY <1>5, <4>1, <4>2
      <4> QED BY <2>2, <4>3
    <3> QED BY <3>1, <3>2
  <2>4. PICK u, v, w : u = F[m - 1] /\ v = F[m] /\ w = F[n]
    OBVIOUS
  <2>5. /\ u \in Nat /\ v \in Nat /\ w \in Nat /\ X \in Nat /\ Th \in Nat /\ needed \in Nat
        /\ v <= u + X /\ u < needed
    BY <1>2, <1>11, <2>1, <2>2, <2>3, <2>4
  <2>6. v < needed + X
    BY ONLY <2>5
  <2>7. Space(taken[m]) = v /\ Space(ts) = w
    BY <1>3, <2>1, <2>4
  <2>8. CASE w - v > Th
    <3>1. r = m
      BY <1>9, <1>13, <2>7, <2>8
    <3>2. m # n
      BY <2>4, <2>5, <2>8
    <3>3. n \in Nat /\ m \in 1..n /\ m # n
      BY <1>3, <2>1, <3>2
    <3>4. m \in 1..(n - 1) /\ m # 0 /\ m \in Nat
      BY ONLY <3>3
    <3> QED BY <1>1, <2>4, <2>6, <3>1, <3>4
  <2>9. CASE ~(w - v > Th)
    <3>1. r = 0
      BY <1>9, <1>13, <2>7, <2>9
    <3>2. w < Th + needed + X
      BY ONLY <2>5, <2>6, <2>9
    <3> QED BY <1>1, <2>7, <3>1, <3>2
  <2> QED BY <2>8, <2>9
<1> QED BY <1>12, <1>13

GivesFirst(ts, needed, r) ==
  /\ ts \in Seq(Entry) /\ needed \in Nat /\ needed > 0
  /\ r = Lends(ts, [i \in DOMAIN ts |-> FirstTuples(ts, i)], needed)

GaveFirst(ts, needed, r) ==
  /\ r = 0 => Space(ts) < LEAF_UNDERFLOW_THRESHOLD + needed + MAX_LEAF_PAGE_DATA
  /\ r # 0 => /\ r \in 1..(Len(ts) - 1)
              /\ Space(SubSeq(ts, 1, r)) < needed + MAX_LEAF_PAGE_DATA
  /\ r \in Nat

LEMMA LendFirst ==
  ASSUME NEW ts, NEW needed, NEW r, GivesFirst(ts, needed, r)
  PROVE  GaveFirst(ts, needed, r)
<1> /\ ts \in Seq(Entry) /\ needed \in Nat /\ needed > 0
    /\ r = Lends(ts, [i \in DOMAIN ts |-> FirstTuples(ts, i)], needed)
  BY DEF GivesFirst
<1> HIDE DEF Entry, Raw
<1>1. PICK n : n = Len(ts)
  OBVIOUS
<1>2. PICK f : Prefix(ts, n, f)
  <2>1. \E f : Prefix(ts, Len(ts), f)
    BY PrefixSpaces
  <2> QED BY <1>1, <2>1
<1>3. /\ n \in Nat /\ f \in [0..n -> Nat] /\ f[0] = 0 /\ Space(ts) = f[n]
      /\ \A i \in 1..n : /\ i - 1 \in 0..n /\ i \in 0..n
                         /\ ts[i].size \in Nat /\ ts[i].size <= MAX_LEAF_PAGE_DATA
                         /\ f[i] = f[i - 1] + ts[i].size
      /\ \A j \in 0..n : /\ Space(SubSeq(ts, 1, j)) = f[j]
                         /\ Space(SubSeq(ts, j + 1, n)) = f[n] - f[j]
  BY <1>2 DEF Prefix
<1>4. DOMAIN ts = 1..n
  BY <1>1, EntriesAt
<1>5. \A i \in 1..n : f[i] <= f[i - 1] + MAX_LEAF_PAGE_DATA
  <2> TAKE i \in 1..n
  <2>1. PICK u, v, z, X : u = f[i - 1] /\ v = f[i] /\ z = ts[i].size /\ X = MAX_LEAF_PAGE_DATA
    OBVIOUS
  <2>2. u \in Nat /\ v = u + z /\ z \in Nat /\ z <= X /\ X \in Nat
    BY <1>3, <2>1, Limits
  <2>3. v <= u + X
    BY ONLY <2>2
  <2> QED BY <2>1, <2>3
<1>6. Ends(ts, n, f)
  BY <1>3, <1>4, <1>5 DEF Ends
<1>7. PICK taken : taken = [i \in DOMAIN ts |-> FirstTuples(ts, i)]
  OBVIOUS
<1>8. \A i \in 1..n : Space(taken[i]) = f[i]
  BY <1>3, <1>4, <1>7 DEF FirstTuples
<1>9. r = Lends(ts, taken, needed)
  BY <1>7
<1>10. /\ r = 0 => Space(ts) < LEAF_UNDERFLOW_THRESHOLD + needed + MAX_LEAF_PAGE_DATA
       /\ r # 0 => r \in 1..(n - 1) /\ f[r] < needed + MAX_LEAF_PAGE_DATA
       /\ r \in Nat
  BY <1>6, <1>8, <1>9, LendsFacts
<1>11. r # 0 => r \in 0..n
  BY <1>3, <1>10
<1> QED BY <1>1, <1>3, <1>10, <1>11 DEF GaveFirst

GivesLast(ts, needed, r) ==
  /\ ts \in Seq(Entry) /\ needed \in Nat /\ needed > 0
  /\ r = Lends(ts, [i \in DOMAIN ts |-> LastTuples(ts, i)], needed)

GaveLast(ts, needed, r) ==
  /\ r = 0 => Space(ts) < LEAF_UNDERFLOW_THRESHOLD + needed + MAX_LEAF_PAGE_DATA
  /\ r # 0 => /\ r \in 1..(Len(ts) - 1) /\ Len(ts) - r \in 1..(Len(ts) - 1)
              /\ Space(SubSeq(ts, (Len(ts) - r) + 1, Len(ts))) < needed + MAX_LEAF_PAGE_DATA
  /\ r \in Nat

LEMMA LendLast ==
  ASSUME NEW ts, NEW needed, NEW r, GivesLast(ts, needed, r)
  PROVE  GaveLast(ts, needed, r)
<1> /\ ts \in Seq(Entry) /\ needed \in Nat /\ needed > 0
    /\ r = Lends(ts, [i \in DOMAIN ts |-> LastTuples(ts, i)], needed)
  BY DEF GivesLast
<1> HIDE DEF Entry, Raw
<1>1. PICK n : n = Len(ts)
  OBVIOUS
<1>2. PICK f : Prefix(ts, n, f)
  <2>1. \E f : Prefix(ts, Len(ts), f)
    BY PrefixSpaces
  <2> QED BY <1>1, <2>1
<1>3. /\ n \in Nat /\ f \in [0..n -> Nat] /\ f[0] = 0 /\ Space(ts) = f[n]
      /\ \A i \in 1..n : /\ i - 1 \in 0..n /\ i \in 0..n
                         /\ ts[i].size \in Nat /\ ts[i].size <= MAX_LEAF_PAGE_DATA
                         /\ f[i] = f[i - 1] + ts[i].size
      /\ \A j \in 0..n : /\ Space(SubSeq(ts, 1, j)) = f[j]
                         /\ Space(SubSeq(ts, j + 1, n)) = f[n] - f[j]
  BY <1>2 DEF Prefix
<1>4. DOMAIN ts = 1..n
  BY <1>1, EntriesAt
<1>5. PICK F : F = [j \in 0..n |-> Space(SubSeq(ts, (n - j) + 1, n))]
  OBVIOUS
<1>6. \A j \in 0..n : n - j \in 0..n /\ F[j] = f[n] - f[n - j]
  <2> TAKE j \in 0..n
  <2>1. n - j \in 0..n
    BY <1>3
  <2>2. Space(SubSeq(ts, (n - j) + 1, n)) = f[n] - f[n - j]
    BY <1>3, <2>1
  <2> QED BY <1>5, <2>1, <2>2
<1>7. \A j \in 0..n : F[j] \in Nat
  <2> TAKE j \in 0..n
  <2>1. ts \in Seq(Entry) /\ n - j \in 0..Len(ts)
    BY <1>1, <1>6
  <2>2. PICK b : b = SubSeq(ts, (n - j) + 1, n)
    OBVIOUS
  <2>3. b \in Seq(Entry)
    BY <1>1, <2>1, <2>2, CutFacts
  <2>4. Space(b) \in Nat
    BY <2>3, SpaceNat
  <2> QED BY <1>5, <2>2, <2>4
<1>8. F \in [0..n -> Nat]
  BY <1>5, <1>7
<1>9. n \in 0..n /\ 0 \in 0..n /\ n - n = 0 /\ n - 0 = n
  BY <1>3
<1>10. f[n] \in Nat
  BY <1>3, <1>9
<1>11. F[0] = 0 /\ F[n] = Space(ts)
  <2>1. F[0] = f[n] - f[n]
    BY <1>6, <1>9
  <2>2. F[n] = f[n] - f[0]
    BY <1>6, <1>9
  <2> QED BY <1>3, <1>10, <2>1, <2>2
<1>12. \A i \in 1..n : i \in 0..n /\ i - 1 \in 0..n /\ F[i] <= F[i - 1] + MAX_LEAF_PAGE_DATA
  <2> TAKE i \in 1..n
  <2>0. n \in Nat /\ i \in 1..n
    BY <1>3
  <2>1. i \in 0..n
    BY ONLY <2>0
  <2>2. i - 1 \in 0..n
    BY ONLY <2>0
  <2>3. (n - i) + 1 \in 1..n
    BY ONLY <2>0
  <2>4. ((n - i) + 1) - 1 = n - i /\ n - (i - 1) = (n - i) + 1
    BY ONLY <2>0
  <2>5. PICK p : p = (n - i) + 1
    OBVIOUS
  <2>6. p \in 1..n /\ p - 1 = n - i /\ n - (i - 1) = p
    BY <2>3, <2>4, <2>5
  <2>7. f[p] = f[p - 1] + ts[p].size /\ p \in 0..n /\ p - 1 \in 0..n
    BY <1>3, <2>6
  <2>8. F[i] = f[n] - f[p - 1] /\ F[i - 1] = f[n] - f[p]
    BY <1>6, <2>1, <2>2, <2>6
  <2>9. PICK a, b, u, v, w, z, X : /\ a = F[i] /\ b = F[i - 1] /\ u = f[p - 1] /\ v = f[p] /\ w = f[n]
                                   /\ z = ts[p].size /\ X = MAX_LEAF_PAGE_DATA
    OBVIOUS
  <2>10. /\ u \in Nat /\ v \in Nat /\ w \in Nat /\ z \in Nat /\ X \in Nat /\ z <= X /\ v = u + z
         /\ a = w - u /\ b = w - v
    BY <1>3, <1>10, <2>6, <2>7, <2>8, <2>9, Limits
  <2>11. a <= b + X
    BY ONLY <2>10
  <2> QED BY <2>1, <2>2, <2>9, <2>11
<1>13. Ends(ts, n, F)
  BY <1>3, <1>4, <1>8, <1>11, <1>12 DEF Ends
<1>14. PICK taken : taken = [i \in DOMAIN ts |-> LastTuples(ts, i)]
  OBVIOUS
<1>15. \A i \in 1..n : Space(taken[i]) = F[i]
  <2> TAKE i \in 1..n
  <2>1. taken[i] = SubSeq(ts, n - i + 1, n)
    BY <1>1, <1>4, <1>14 DEF LastTuples
  <2>2. i \in 0..n
    BY <1>3
  <2> QED BY <1>5, <2>1, <2>2
<1>16. r = Lends(ts, taken, needed)
  BY <1>14
<1>17. /\ r = 0 => Space(ts) < LEAF_UNDERFLOW_THRESHOLD + needed + MAX_LEAF_PAGE_DATA
       /\ r # 0 => r \in 1..(n - 1) /\ F[r] < needed + MAX_LEAF_PAGE_DATA
       /\ r \in Nat
  BY <1>13, <1>15, <1>16, LendsFacts
<1>18. r # 0 => r \in 0..n /\ n - r \in 1..(n - 1)
  <2> SUFFICES ASSUME r # 0 PROVE r \in 0..n /\ n - r \in 1..(n - 1)
    OBVIOUS
  <2>1. r \in 1..(n - 1) /\ n \in Nat
    BY <1>3, <1>17
  <2> QED BY ONLY <2>1
<1> QED BY <1>1, <1>5, <1>17, <1>18 DEF GaveLast

==============================================================================
