--------------------------- MODULE LeafPageProofs ---------------------------
(***************************************************************************)
(* What is proved of the inside of leaf pages, for any sizes that fit the  *)
(* assumption of LeafPage, any keys and any number of tuples.              *)
(*                                                                         *)
(* The invariant is the conjunction of what holds of each page and of the  *)
(* tree: the bytes of a page add up, with a slot and at least the header   *)
(* and key of a tuple as garbage for each tuple that was deleted; its live *)
(* tuples are in order, each between the least and the most that a leaf    *)
(* stores of one; the boundary lies between the keys of the two pages; and *)
(* MergePages has not thrown.                                              *)
(*                                                                         *)
(* Most of the module is on the loops of leaf_page.cpp, which are folds    *)
(* and recursive functions: what Bisect finds (BisectIs), what writing a   *)
(* tuple makes of a page (WriteIs), and several (ReceivesAll), which       *)
(* tuples are lent and what the lender keeps (LendsIs, BorrowLeft,         *)
(* BorrowRight), that what is not lent can be merged (MergeIs), where a    *)
(* page is split (SplitIs).  Tuples are counted by key, and their bytes    *)
(* summed up (Number, Volume): it is by these sums that ContentsKept tells *)
(* trees apart.                                                            *)
(***************************************************************************)
EXTENDS LeafPage, SequenceTheorems, FiniteSetTheorems, WellFoundedInduction, TLAPS

\* A piece of a sequence.
LEMMA SliceFacts ==
  ASSUME NEW S, NEW s \in Seq(S), NEW m \in 1..(Len(s) + 1), NEW n \in (m - 1)..Len(s)
  PROVE  /\ SubSeq(s, m, n) \in Seq(S) /\ Len(SubSeq(s, m, n)) = n - m + 1
         /\ \A j \in 1..(n - m + 1) : SubSeq(s, m, n)[j] = s[m + j - 1]
<1>1. Len(s) \in Nat /\ m \in Int /\ n \in Int
  OBVIOUS
<1>2. \A i \in m..n : s[i] \in S
  BY <1>1, ElementOfSeq
<1>3. (IF m <= n THEN n - m + 1 ELSE 0) = n - m + 1
  BY <1>1
<1> QED BY <1>1, <1>2, <1>3, SubSeqProperties

\* Two sequences, one behind the other.
LEMMA JoinFacts ==
  ASSUME NEW S, NEW s \in Seq(S), NEW t \in Seq(S)
  PROVE  /\ s \o t \in Seq(S) /\ Len(s \o t) = Len(s) + Len(t)
         /\ \A j \in 1..(Len(s) + Len(t)) : (s \o t)[j] = IF j <= Len(s) THEN s[j] ELSE t[j - Len(s)]
  BY ConcatProperties

LEMMA CutFacts ==
  ASSUME NEW S, NEW s \in Seq(S), NEW m \in 0..Len(s)
  PROVE  /\ SubSeq(s, 1, m) \in Seq(S) /\ Len(SubSeq(s, 1, m)) = m
         /\ \A j \in 1..m : SubSeq(s, 1, m)[j] = s[j]
         /\ SubSeq(s, m + 1, Len(s)) \in Seq(S) /\ Len(SubSeq(s, m + 1, Len(s))) = Len(s) - m
         /\ \A j \in 1..(Len(s) - m) : SubSeq(s, m + 1, Len(s))[j] = s[m + j]
         /\ SubSeq(s, 1, m) \o SubSeq(s, m + 1, Len(s)) = s
<1>0. PICK n : n = Len(s)
  OBVIOUS
<1>1. n \in Nat /\ m \in Nat /\ m <= n
  BY <1>0, LenProperties
<1>2. PICK a : a = SubSeq(s, 1, m)
  OBVIOUS
<1>3. a \in Seq(S) /\ Len(a) = m /\ \A j \in 1..m : a[j] = s[j]
  <2>1. 1 \in 1..(Len(s) + 1) /\ m \in (1 - 1)..Len(s)
    BY <1>0, <1>1
  <2>2. a \in Seq(S) /\ Len(a) = m - 1 + 1 /\ \A j \in 1..(m - 1 + 1) : a[j] = s[1 + j - 1]
    BY <1>2, <2>1, SliceFacts
  <2>3. m - 1 + 1 = m /\ \A j \in 1..m : 1 + j - 1 = j
    BY <1>1
  <2> QED BY <2>2, <2>3
<1>4. PICK b : b = SubSeq(s, m + 1, n)
  OBVIOUS
<1>5. b \in Seq(S) /\ Len(b) = n - m /\ \A j \in 1..(n - m) : b[j] = s[m + j]
  <2>1. PICK o : o = m + 1
    OBVIOUS
  <2>2. o \in 1..(Len(s) + 1) /\ n \in (o - 1)..Len(s)
    BY <1>0, <1>1, <2>1
  <2>3. b = SubSeq(s, o, n)
    BY <1>4, <2>1
  <2>4. b \in Seq(S) /\ Len(b) = n - o + 1 /\ \A j \in 1..(n - o + 1) : b[j] = s[o + j - 1]
    BY <2>2, <2>3, SliceFacts
  <2>5. n - o + 1 = n - m /\ \A j \in 1..(n - m) : o + j - 1 = m + j
    BY <1>1, <2>1
  <2> QED BY <2>4, <2>5
<1>6. a \o b = s
  <2>1. PICK c : c = a \o b
    OBVIOUS
  <2>2. /\ c \in Seq(S) /\ Len(c) = m + (n - m)
        /\ \A j \in 1..(m + (n - m)) : c[j] = IF j <= m THEN a[j] ELSE b[j - m]
    <3>1. /\ c \in Seq(S) /\ Len(c) = Len(a) + Len(b)
          /\ \A j \in 1..(Len(a) + Len(b)) : c[j] = IF j <= Len(a) THEN a[j] ELSE b[j - Len(a)]
      BY ONLY <1>3, <1>5, <2>1, JoinFacts
    <3> QED BY <1>3, <1>5, <3>1
  <2>3. m + (n - m) = n
    BY <1>1
  <2>4. \A j \in 1..n : c[j] = s[j]
    <3> TAKE j \in 1..n
    <3>1. CASE j <= m
      <4>1. j \in 1..m
        BY <1>1, <3>1
      <4> QED BY <1>3, <2>2, <2>3, <3>1, <4>1
    <3>2. CASE ~(j <= m)
      <4>1. j - m \in 1..(n - m) /\ m + (j - m) = j
        BY <1>1, <3>2
      <4> QED BY <1>5, <2>2, <2>3, <3>2, <4>1
    <3> QED BY <3>1, <3>2
  <2>5. c = s
    BY <1>0, <2>2, <2>3, <2>4, SeqEqual
  <2> QED BY <2>1, <2>5
<1> QED BY <1>0, <1>2, <1>3, <1>4, <1>5, <1>6

LEMMA Induction ==
  ASSUME NEW S, 0 \in S, \A i \in Nat : i \in S => i + 1 \in S
  PROVE  \A i \in Nat : i \in S
<1> DEFINE T == Nat \ S
<1> SUFFICES ASSUME T # {} PROVE FALSE
  OBVIOUS
<1>1. PICK x \in T : \A y \in T : ~(<<y, x>> \in OpToRel(<, Nat))
  <2>1. T \subseteq Nat
    OBVIOUS
  <2> QED BY <2>1, WFMin, NatLessThanWellFounded
<1>2. x \in Nat /\ x \notin S /\ x # 0
  OBVIOUS
<1>3. PICK y : y = x - 1
  OBVIOUS
<1>4. y \in Nat /\ x = y + 1 /\ y < x
  BY <1>2, <1>3
<1>5. y \notin S
  BY <1>2, <1>4
<1>6. <<y, x>> \in OpToRel(<, Nat)
  <2>1. <<y, x>> \in Nat \X Nat /\ <<y, x>>[1] < <<y, x>>[2]
    BY <1>2, <1>4
  <2> QED BY <2>1 DEF OpToRel
<1> QED BY <1>1, <1>4, <1>5, <1>6

\* F[p][f] is the value at p of a function whose values at places of a lower measure
\* are those of f; then there is a function that has all of them.
Recursive(Dom, V, m, F) ==
  /\ F \in [Dom -> [[Dom -> V] -> V]]
  /\ m \in [Dom -> Nat]
  /\ \A p \in Dom : \A f, g \in [Dom -> V] :
       (\A q \in Dom : m[q] < m[p] => f[q] = g[q]) => F[p][f] = F[p][g]

LEMMA RecursionBelow ==
  ASSUME NEW Dom, NEW V, NEW m, NEW F, Recursive(Dom, V, m, F), NEW v \in V
  PROVE  \A k \in Nat : \E f \in [Dom -> V] : \A p \in Dom : m[p] < k => f[p] = F[p][f]
<1> DEFINE S == {k \in Nat : \E f \in [Dom -> V] : \A p \in Dom : m[p] < k => f[p] = F[p][f]}
<1>1. 0 \in S
  <2>1. [p \in Dom |-> v] \in [Dom -> V]
    OBVIOUS
  <2>2. \A p \in Dom : ~(m[p] < 0)
    BY DEF Recursive
  <2> QED BY <2>1, <2>2
<1>2. ASSUME NEW k \in Nat, k \in S PROVE k + 1 \in S
  <2>1. PICK f \in [Dom -> V] : \A p \in Dom : m[p] < k => f[p] = F[p][f]
    BY <1>2
  <2>2. PICK g : g = [p \in Dom |-> IF m[p] < k THEN f[p] ELSE F[p][f]]
    OBVIOUS
  <2>3. \A p \in Dom : F[p][f] \in V
    BY DEF Recursive
  <2>4. g \in [Dom -> V]
    BY <2>2, <2>3
  <2>5. \A p \in Dom : m[p] \in Nat
    BY DEF Recursive
  <2>6. ASSUME NEW p \in Dom, m[p] < k + 1 PROVE g[p] = F[p][g]
    <3>1. \A q \in Dom : m[q] < m[p] => m[q] < k
      BY <2>5, <2>6
    <3>2. \A q \in Dom : m[q] < m[p] => f[q] = g[q]
      BY <2>2, <3>1
    <3>3. F[p][f] = F[p][g]
      BY <2>4, <3>2 DEF Recursive
    <3>4. g[p] = F[p][f]
      BY <2>1, <2>2
    <3> QED BY <3>3, <3>4
  <2> QED BY <2>4, <2>6
<1> HIDE DEF S
<1>3. \A k \in Nat : k \in S
  BY <1>1, <1>2, Induction
<1> QED BY <1>3 DEF S

LEMMA Recursion ==
  ASSUME NEW Dom, NEW V, NEW m, NEW F, Recursive(Dom, V, m, F), NEW v \in V,
         NEW b \in Nat, \A p \in Dom : m[p] < b
  PROVE  \E f \in [Dom -> V] : \A p \in Dom : f[p] = F[p][f]
<1>1. PICK f \in [Dom -> V] : \A p \in Dom : m[p] < b => f[p] = F[p][f]
  BY RecursionBelow
<1> QED BY <1>1

LEMMA MaxFacts ==
  ASSUME NEW n \in Nat, NEW s \in SUBSET (1..n), s # {}
  PROVE  Max(s) \in s /\ \A y \in s : y <= Max(s)
<1> DEFINE T == {i \in Nat : \A t \in SUBSET (1..i) : t # {} => \E x \in t : \A y \in t : x >= y}
<1>1. 0 \in T
  <2>1. 1..0 = {}
    OBVIOUS
  <2> QED BY <2>1
<1>2. ASSUME NEW i \in Nat, i \in T PROVE i + 1 \in T
  <2> SUFFICES ASSUME NEW t \in SUBSET (1..(i + 1)), t # {}
               PROVE  \E x \in t : \A y \in t : x >= y
    OBVIOUS
  <2>1. CASE i + 1 \in t
    <3>1. \A y \in t : i + 1 >= y
      OBVIOUS
    <3> QED BY <2>1, <3>1
  <2>2. CASE i + 1 \notin t
    <3>1. \A y \in t : y \in 1..i
      <4> TAKE y \in t
      <4>1. y \in 1..(i + 1) /\ y # i + 1
        BY <2>2
      <4> QED BY <4>1
    <3> QED BY <1>2, <3>1
  <2> QED BY <2>1, <2>2
<1> HIDE DEF T
<1>3. n \in T
  BY <1>1, <1>2, Induction
<1>4. \E x \in s : \A y \in s : x >= y
  BY <1>3 DEF T
<1>5. Max(s) \in s /\ \A y \in s : Max(s) >= y
  BY <1>4 DEF Max
<1>6. \A y \in s : y \in Int
  OBVIOUS
<1> QED BY <1>5, <1>6

LEMMA MaxOfFirst ==
  ASSUME NEW i \in Nat, i # 0
  PROVE  Max(1..i) = i /\ (1..i) \ {i} = 1..(i - 1)
<1>1. i \in 1..i /\ 1..i # {} /\ 1..i \in SUBSET (1..i)
  OBVIOUS
<1>2. Max(1..i) \in 1..i /\ i <= Max(1..i)
  BY <1>1, MaxFacts
<1> QED BY <1>2

\* G[a][i] is what the i-th element makes of a.
Folds(f, n, V, base, G) ==
  /\ f \in [SUBSET (1..n) -> V]
  /\ \A s \in SUBSET (1..n) : f[s] = IF s = {} THEN base ELSE G[f[s \ {Max(s)}]][Max(s)]

LEMMA FoldExists ==
  ASSUME NEW V, NEW base \in V, NEW n \in Nat, NEW G \in [V -> [1..n -> V]]
  PROVE  \E f : Folds(f, n, V, base, G)
<1> DEFINE Dom == SUBSET (1..n)
           m == [s \in Dom |-> IF s = {} THEN 0 ELSE Max(s)]
           F == [s \in Dom |-> [f \in [Dom -> V] |->
                   IF s = {} THEN base ELSE G[f[s \ {Max(s)}]][Max(s)]]]
<1>1. \A s \in Dom : s # {} => Max(s) \in s /\ Max(s) \in 1..n /\ s \ {Max(s)} \in Dom
  BY MaxFacts
<1>2. \A s \in Dom : m[s] \in 0..n
  <2> TAKE s \in Dom
  <2>1. m[s] = IF s = {} THEN 0 ELSE Max(s)
    OBVIOUS
  <2>2. s # {} => Max(s) \in 1..n
    BY <1>1
  <2> HIDE DEF m, Dom
  <2>3. s # {} => m[s] \in 0..n
    BY <2>1, <2>2
  <2>4. s = {} => m[s] \in 0..n
    BY <2>1
  <2> QED BY <2>3, <2>4
<1>3. \A s \in Dom : \A f \in [Dom -> V] :
         F[s][f] = IF s = {} THEN base ELSE G[f[s \ {Max(s)}]][Max(s)]
  OBVIOUS
<1>4. F \in [Dom -> [[Dom -> V] -> V]]
  <2>1. ASSUME NEW s \in Dom, NEW f \in [Dom -> V]
        PROVE  (IF s = {} THEN base ELSE G[f[s \ {Max(s)}]][Max(s)]) \in V
    <3>1. CASE s # {}
      <4>1. f[s \ {Max(s)}] \in V /\ Max(s) \in 1..n
        BY <1>1, <3>1
      <4>2. G[f[s \ {Max(s)}]] \in [1..n -> V]
        BY <4>1
      <4> QED BY <3>1, <4>1, <4>2
    <3> QED BY <3>1
  <2> QED BY <2>1
<1>5. ASSUME NEW s \in Dom, s # {} PROVE m[s \ {Max(s)}] < m[s]
  <2>1. s \ {Max(s)} \in Dom /\ Max(s) \in 1..n /\ \A y \in s : y <= Max(s)
    BY <1>1, <1>5, MaxFacts
  <2>2. m[s] = Max(s)
    BY <1>5
  <2>3. CASE s \ {Max(s)} = {}
    BY <2>1, <2>2, <2>3
  <2>4. CASE s \ {Max(s)} # {}
    <3>1. m[s \ {Max(s)}] = Max(s \ {Max(s)})
      BY <2>1, <2>4
    <3>2. Max(s \ {Max(s)}) \in s \ {Max(s)} /\ Max(s \ {Max(s)}) \in 1..n
      BY <1>1, <2>1, <2>4
    <3>3. PICK x, y : x = Max(s) /\ y = Max(s \ {Max(s)})
      OBVIOUS
    <3>4. x \in 1..n /\ y \in 1..n /\ y <= x /\ y # x
      BY <2>1, <3>2, <3>3
    <3>5. y < x
      BY <3>4
    <3> QED BY <2>2, <3>1, <3>3, <3>5
  <2> QED BY <2>3, <2>4
<1> HIDE DEF F, m
<1>6. m \in [Dom -> Nat]
  <2>1. m = [s \in Dom |-> m[s]]
    BY DEF m
  <2> HIDE DEF Dom, m
  <2>2. \A s \in Dom : m[s] \in Nat
    <3> TAKE s \in Dom
    <3>1. m[s] \in 0..n
      BY <1>2
    <3> QED BY <3>1
  <2> QED BY <2>1, <2>2
<1>7. \A s \in Dom : \A f, g \in [Dom -> V] :
         (\A q \in Dom : m[q] < m[s] => f[q] = g[q]) => F[s][f] = F[s][g]
  <2> TAKE s \in Dom
  <2> TAKE f, g \in [Dom -> V]
  <2> HAVE \A q \in Dom : m[q] < m[s] => f[q] = g[q]
  <2>1. CASE s # {}
    <3>1. s \ {Max(s)} \in Dom /\ f[s \ {Max(s)}] = g[s \ {Max(s)}]
      BY <1>1, <1>5, <2>1
    <3>2. F[s][f] = G[f[s \ {Max(s)}]][Max(s)] /\ F[s][g] = G[g[s \ {Max(s)}]][Max(s)]
      BY <1>3, <2>1
    <3> QED BY <3>1, <3>2
  <2>2. CASE s = {}
    BY <1>3, <2>2
  <2> QED BY <2>1, <2>2
<1>8. Recursive(Dom, V, m, F)
  BY <1>4, <1>6, <1>7 DEF Recursive
<1>9. \A s \in Dom : m[s] < n + 1
  BY <1>2
<1>10. PICK f \in [Dom -> V] : \A s \in Dom : f[s] = F[s][f]
  <2>1. n + 1 \in Nat
    OBVIOUS
  <2> HIDE DEF Dom
  <2> QED BY <1>8, <1>9, <2>1, Recursion
<1>11. \A s \in Dom : f[s] = IF s = {} THEN base ELSE G[f[s \ {Max(s)}]][Max(s)]
  BY <1>3, <1>10
<1> QED BY <1>11 DEF Folds

-----------------------------------------------------------------------------
\* Sequences, one element longer each time.

\* A sequence that is not empty is its front and its last element.
LEMMA FrontLast ==
  ASSUME NEW S, NEW s \in Seq(S), NEW n \in Nat, Len(s) = n + 1
  PROVE  /\ SubSeq(s, 1, n) \in Seq(S) /\ Len(SubSeq(s, 1, n)) = n /\ s[n + 1] \in S
         /\ s = Append(SubSeq(s, 1, n), s[n + 1])
<1>1. PICK f : f = SubSeq(s, 1, n)
  OBVIOUS
<1>2. n \in 0..Len(s) /\ n + 1 \in 1..Len(s)
  OBVIOUS
<1>3. f \in Seq(S) /\ Len(f) = n /\ \A j \in 1..n : f[j] = s[j]
  BY <1>1, <1>2, CutFacts
<1>4. s[n + 1] \in S
  BY <1>2, ElementOfSeq
<1>5. PICK a : a = Append(f, s[n + 1])
  OBVIOUS
<1>6. a \in Seq(S) /\ Len(a) = n + 1 /\ a[n + 1] = s[n + 1] /\ \A j \in 1..n : a[j] = f[j]
  <2>1. /\ a \in Seq(S) /\ Len(a) = Len(f) + 1 /\ a[Len(f) + 1] = s[n + 1]
        /\ \A j \in 1..Len(f) : a[j] = f[j]
    BY ONLY <1>3, <1>4, <1>5, AppendProperties
  <2> QED BY <1>3, <2>1
<1>7. \A j \in 1..Len(s) : a[j] = s[j]
  <2> TAKE j \in 1..Len(s)
  <2>1. j \in 1..n \/ j = n + 1
    OBVIOUS
  <2> QED BY <1>3, <1>6, <2>1
<1>8. a = s
  BY <1>6, <1>7, SeqEqual
<1> QED BY <1>1, <1>3, <1>4, <1>5, <1>8

LEMMA SeqInduction ==
  ASSUME NEW S, NEW T, <<>> \in T, \A s \in Seq(S), x \in S : s \in T => Append(s, x) \in T
  PROVE  \A s \in Seq(S) : s \in T
<1> DEFINE N == {n \in Nat : \A s \in Seq(S) : Len(s) = n => s \in T}
<1>1. 0 \in N
  BY EmptySeq
<1>2. ASSUME NEW n \in Nat, n \in N PROVE n + 1 \in N
  <2> SUFFICES ASSUME NEW s \in Seq(S), Len(s) = n + 1 PROVE s \in T
    OBVIOUS
  <2>1. /\ SubSeq(s, 1, n) \in Seq(S) /\ Len(SubSeq(s, 1, n)) = n /\ s[n + 1] \in S
        /\ s = Append(SubSeq(s, 1, n), s[n + 1])
    BY FrontLast
  <2>2. SubSeq(s, 1, n) \in T
    BY <1>2, <2>1
  <2> QED BY <2>1, <2>2
<1> HIDE DEF N
<1>3. \A n \in Nat : n \in N
  BY <1>1, <1>2, Induction
<1> QED BY <1>3, LenProperties DEF N

LEMMA JoinAppend ==
  ASSUME NEW S, NEW s \in Seq(S), NEW t \in Seq(S), NEW x \in S
  PROVE  s \o Append(t, x) = Append(s \o t, x) /\ Append(t, x) \in Seq(S)
<1>1. PICK a, b, c : a = Append(t, x) /\ b = s \o t /\ c = Append(b, x)
  OBVIOUS
<1>2. Len(s) \in Nat /\ Len(t) \in Nat
  OBVIOUS
<1>3. a \in Seq(S) /\ Len(a) = Len(t) + 1 /\ a[Len(t) + 1] = x /\ \A j \in 1..Len(t) : a[j] = t[j]
  BY <1>1, AppendProperties
<1>4. b \in Seq(S) /\ Len(b) = Len(s) + Len(t)
      /\ \A j \in 1..(Len(s) + Len(t)) : b[j] = IF j <= Len(s) THEN s[j] ELSE t[j - Len(s)]
  BY <1>1, JoinFacts
<1>5. c \in Seq(S) /\ Len(c) = Len(b) + 1 /\ c[Len(b) + 1] = x /\ \A j \in 1..Len(b) : c[j] = b[j]
  BY <1>1, <1>4, AppendProperties
<1>6. PICK d : d = s \o a
  OBVIOUS
<1>7. d \in Seq(S) /\ Len(d) = Len(s) + Len(a)
      /\ \A j \in 1..(Len(s) + Len(a)) : d[j] = IF j <= Len(s) THEN s[j] ELSE a[j - Len(s)]
  <2>1. s \in Seq(S) /\ a \in Seq(S)
    BY <1>3
  <2> QED BY ONLY <1>6, <2>1, JoinFacts
<1>8. PICK m, n : m = Len(s) /\ n = Len(t) /\ m \in Nat /\ n \in Nat
  BY <1>2
<1>9. \A j \in 1..(m + (n + 1)) : d[j] = c[j]
  <2> TAKE j \in 1..(m + (n + 1))
  <2>1. CASE j <= m
    <3>1. j \in 1..(m + n)
      BY <1>8, <2>1
    <3> QED BY <1>3, <1>4, <1>5, <1>7, <1>8, <2>1, <3>1
  <2>2. CASE ~(j <= m) /\ j <= m + n
    <3>1. j \in 1..(m + n) /\ j - m \in 1..n
      BY <1>8, <2>2
    <3> QED BY <1>3, <1>4, <1>5, <1>7, <1>8, <2>2, <3>1
  <2>3. CASE j = m + n + 1
    <3>1. ~(j <= m) /\ j - m = n + 1
      BY <1>8, <2>3
    <3> QED BY <1>3, <1>4, <1>5, <1>7, <1>8, <2>3, <3>1
  <2> QED BY <1>8, <2>1, <2>2, <2>3
<1>10. Len(d) = m + (n + 1) /\ Len(c) = m + (n + 1)
  BY <1>3, <1>4, <1>5, <1>7, <1>8
<1>11. c = d
  BY <1>5, <1>7, <1>9, <1>10, SeqEqual
<1> QED BY <1>1, <1>3, <1>6, <1>11

-----------------------------------------------------------------------------
\* Slots, and what their tuples sum up to.

Raw == [is_deleted : BOOLEAN, key : Int, length : Int]

Sums(ts, f) == /\ f \in [0..Len(ts) -> Int] /\ f[0] = 0
               /\ \A i \in 1..Len(ts) : f[i] = f[i - 1] + ts[i].length

LEMMA RawAt ==
  ASSUME NEW ts \in Seq(Raw)
  PROVE  /\ Len(ts) \in Nat /\ DOMAIN ts = 1..Len(ts)
         /\ \A i \in 1..Len(ts) : /\ ts[i] \in Raw /\ ts[i].length \in Int /\ ts[i].key \in Int
                                  /\ ts[i].is_deleted \in BOOLEAN
<1>1. Len(ts) \in Nat /\ DOMAIN ts = 1..Len(ts)
  BY LenProperties
<1>2. \A i \in 1..Len(ts) : ts[i] \in Raw
  BY ElementOfSeq
<1>3. \A t \in Raw : t.length \in Int /\ t.key \in Int /\ t.is_deleted \in BOOLEAN
  BY DEF Raw
<1> QED BY <1>1, <1>2, <1>3

LEMMA BytesSteps ==
  ASSUME NEW ts \in Seq(Raw)
  PROVE  \E f : Sums(ts, f) /\ Bytes(ts) = f[Len(ts)]
<1>1. PICK n : n = Len(ts)
  OBVIOUS
<1>2. n \in Nat /\ DOMAIN ts = 1..n /\ \A i \in 1..n : ts[i].length \in Int
  BY <1>1, RawAt
<1> DEFINE Dom == SUBSET (1..n)
           body(f) == [s \in Dom |-> IF s = {} THEN 0 ELSE f[s \ {Max(s)}] + ts[Max(s)].length]
           iter == CHOOSE f : f = body(f)
           G == [a \in Int |-> [i \in 1..n |-> a + ts[i].length]]
<1>3. Bytes(ts) = iter[1..n]
  BY <1>2 DEF Bytes, FoldLeft, MapThenFoldSet
<1>4. \E f : f = body(f)
  <2>1. G \in [Int -> [1..n -> Int]]
    BY <1>2
  <2>2. \A a \in Int : \A i \in 1..n : G[a][i] = a + ts[i].length
    OBVIOUS
  <2> HIDE DEF G
  <2>3. PICK f : Folds(f, n, Int, 0, G)
    <3>1. 0 \in Int /\ n \in Nat
      BY <1>2
    <3> QED BY ONLY <2>1, <3>1, FoldExists
  <2>4. f \in [Dom -> Int] /\ \A s \in Dom : f[s] = IF s = {} THEN 0 ELSE G[f[s \ {Max(s)}]][Max(s)]
    BY <2>3 DEF Folds
  <2>5. \A s \in Dom : f[s] = IF s = {} THEN 0 ELSE f[s \ {Max(s)}] + ts[Max(s)].length
    <3> TAKE s \in Dom
    <3>1. CASE s # {}
      <4>1. Max(s) \in 1..n /\ s \ {Max(s)} \in Dom
        BY <1>2, <3>1, MaxFacts
      <4>2. f[s \ {Max(s)}] \in Int
        BY <2>4, <4>1
      <4>3. G[f[s \ {Max(s)}]][Max(s)] = f[s \ {Max(s)}] + ts[Max(s)].length
        BY <2>2, <4>1, <4>2
      <4>4. f[s] = G[f[s \ {Max(s)}]][Max(s)]
        BY <2>4, <3>1
      <4> QED BY <3>1, <4>3, <4>4
    <3>2. CASE s = {}
      BY <2>4, <3>2
    <3> QED BY <3>1, <3>2
  <2>6. f = [s \in Dom |-> f[s]]
    BY <2>4
  <2>7. f = body(f)
    BY <2>5, <2>6
  <2> QED BY <2>7
<1>5. iter = body(iter)
  BY <1>4
<1> HIDE DEF iter
<1>6. \A s \in Dom : iter[s] = IF s = {} THEN 0 ELSE iter[s \ {Max(s)}] + ts[Max(s)].length
  BY <1>5
<1>7. PICK f : f = [i \in 0..n |-> iter[1..i]]
  OBVIOUS
<1>8. f[0] = 0
  <2>1. 1..0 = {} /\ 0 \in 0..n
    BY <1>2
  <2> QED BY <1>6, <1>7, <2>1
<1>9. ASSUME NEW i \in 1..n PROVE f[i] = f[i - 1] + ts[i].length
  <2>4. i \in Nat /\ i # 0 /\ i \in 0..n /\ i - 1 \in 0..n
    BY <1>2
  <2>5. \A j \in 1..i : j \in 1..n
    BY <1>2
  <2>6. 1..i \in Dom /\ 1 \in 1..i
    BY <2>4, <2>5
  <2>1. i \in Nat /\ i # 0 /\ i \in 0..n /\ i - 1 \in 0..n /\ 1..i \in Dom /\ 1..i # {}
    BY <2>4, <2>6
  <2>2. Max(1..i) = i /\ (1..i) \ {i} = 1..(i - 1)
    BY <2>1, MaxOfFirst
  <2>3. iter[1..i] = iter[(1..i) \ {Max(1..i)}] + ts[Max(1..i)].length
    BY <1>6, <2>1
  <2> QED BY <1>7, <2>1, <2>2, <2>3
<1> DEFINE T == {i \in Nat : i <= n => f[i] \in Int}
<1>10. 0 \in T
  BY <1>8
<1>11. ASSUME NEW i \in Nat, i \in T PROVE i + 1 \in T
  <2> SUFFICES ASSUME i + 1 <= n PROVE f[i + 1] \in Int
    OBVIOUS
  <2>0. n \in Nat
    BY <1>2
  <2>1. i + 1 \in 1..n /\ (i + 1) - 1 = i /\ i <= n
    BY ONLY <2>0, <1>11, i + 1 <= n
  <2>2. f[i + 1] = f[i] + ts[i + 1].length
    BY <1>9, <2>1
  <2> QED BY <1>2, <1>11, <2>1, <2>2
<1> HIDE DEF T
<1>12. \A i \in Nat : i \in T
  BY <1>10, <1>11, Induction
<1>13. \A i \in 0..n : f[i] \in Int
  BY <1>12 DEF T
<1>14. Sums(ts, f)
  BY <1>1, <1>7, <1>8, <1>9, <1>13 DEF Sums
<1> QED BY <1>1, <1>2, <1>3, <1>7, <1>14

LEMMA BytesIs ==
  ASSUME NEW ts \in Seq(Raw), NEW f, Sums(ts, f)
  PROVE  Bytes(ts) = f[Len(ts)] /\ Bytes(ts) \in Int
<1>1. PICK n : n = Len(ts)
  OBVIOUS
<1>2. PICK g : Sums(ts, g) /\ Bytes(ts) = g[n]
  BY <1>1, BytesSteps
<1>3. n \in Nat
  BY <1>1, RawAt
<1> DEFINE T == {i \in Nat : i <= n => f[i] = g[i]}
<1>4. 0 \in T
  BY <1>2 DEF Sums
<1>5. ASSUME NEW i \in Nat, i \in T PROVE i + 1 \in T
  <2> SUFFICES ASSUME i + 1 <= n PROVE f[i + 1] = g[i + 1]
    OBVIOUS
  <2>1. i + 1 \in 1..n /\ (i + 1) - 1 = i /\ i <= n
    BY <1>3
  <2>2. f[i + 1] = f[i] + ts[i + 1].length /\ g[i + 1] = g[i] + ts[i + 1].length
    BY <1>1, <1>2, <2>1 DEF Sums
  <2> QED BY <1>5, <2>1, <2>2
<1> HIDE DEF T
<1>6. n \in T
  BY <1>3, <1>4, <1>5, Induction
<1>7. f[n] = g[n]
  BY <1>3, <1>6 DEF T
<1>8. g[n] \in Int
  BY <1>1, <1>2, <1>3 DEF Sums
<1> QED BY <1>1, <1>2, <1>7, <1>8

LEMMA BytesEmpty == Bytes(<<>>) = 0
<1>1. <<>> \in Seq(Raw) /\ Len(<<>>) = 0
  OBVIOUS
<1>2. PICK f : f = [i \in 0..0 |-> 0]
  OBVIOUS
<1>3. Sums(<<>>, f)
  BY <1>2 DEF Sums
<1> QED BY <1>1, <1>2, <1>3, BytesIs

LEMMA BytesAppend ==
  ASSUME NEW s \in Seq(Raw), NEW x \in Raw
  PROVE  /\ Bytes(Append(s, x)) = Bytes(s) + x.length /\ Bytes(s) \in Int /\ x.length \in Int
         /\ Append(s, x) \in Seq(Raw)
<1>1. PICK n, a : n = Len(s) /\ a = Append(s, x)
  OBVIOUS
<1>2. n \in Nat /\ x.length \in Int
  BY <1>1, RawAt DEF Raw
<1>3. a \in Seq(Raw) /\ Len(a) = n + 1 /\ a[n + 1] = x /\ \A j \in 1..n : a[j] = s[j]
  <2> HIDE DEF Raw
  <2> QED BY <1>1, AppendProperties
<1>4. PICK f : Sums(s, f) /\ Bytes(s) = f[n]
  BY <1>1, BytesSteps
<1>5. /\ f \in [0..n -> Int] /\ f[0] = 0 /\ \A i \in 1..n : f[i] = f[i - 1] + s[i].length
  BY <1>1, <1>4 DEF Sums
<1>6. f[n] \in Int
  BY <1>2, <1>5
<1>7. PICK g : g = [i \in 0..(n + 1) |-> IF i = n + 1 THEN f[n] + x.length ELSE f[i]]
  OBVIOUS
<1>8. g \in [0..(n + 1) -> Int]
  <2>1. \A i \in 0..(n + 1) : (IF i = n + 1 THEN f[n] + x.length ELSE f[i]) \in Int
    <3> TAKE i \in 0..(n + 1)
    <3>1. i = n + 1 \/ i \in 0..n
      BY <1>2
    <3>2. \A j \in 0..n : f[j] \in Int
      BY <1>5
    <3> QED BY <1>2, <1>6, <3>1, <3>2
  <2> QED BY <1>7, <2>1
<1>9. g[0] = 0
  <2>1. 0 \in 0..(n + 1) /\ 0 # n + 1
    BY <1>2
  <2> QED BY <1>5, <1>7, <2>1
<1>10. \A i \in 1..(n + 1) : g[i] = g[i - 1] + a[i].length
  <2> TAKE i \in 1..(n + 1)
  <2>1. CASE i = n + 1
    <3>1. i - 1 = n /\ n \in 0..(n + 1) /\ n # n + 1 /\ i \in 0..(n + 1)
      BY <1>2, <2>1
    <3> QED BY <1>3, <1>7, <2>1, <3>1
  <2>2. CASE i # n + 1
    <3>1. i \in 1..n /\ i \in 0..(n + 1) /\ i - 1 \in 0..(n + 1) /\ i - 1 # n + 1
      BY <1>2, <2>2
    <3> QED BY <1>3, <1>5, <1>7, <2>2, <3>1
  <2> QED BY <2>1, <2>2
<1>11. Sums(a, g)
  BY <1>3, <1>8, <1>9, <1>10 DEF Sums
<1>12. Bytes(a) = g[n + 1]
  BY <1>3, <1>11, BytesIs
<1>13. g[n + 1] = f[n] + x.length
  <2>1. n + 1 \in 0..(n + 1)
    BY <1>2
  <2> QED BY <1>7, <2>1
<1> QED BY <1>1, <1>2, <1>3, <1>4, <1>6, <1>12, <1>13

LEMMA BytesInt == ASSUME NEW s \in Seq(Raw) PROVE Bytes(s) \in Int
<1>1. PICK f : Sums(s, f) /\ Bytes(s) = f[Len(s)]
  BY BytesSteps
<1> QED BY <1>1, BytesIs

LEMMA BytesJoin ==
  ASSUME NEW a \in Seq(Raw), NEW b \in Seq(Raw)
  PROVE  Bytes(a \o b) = Bytes(a) + Bytes(b)
<1> HIDE DEF Raw
<1> DEFINE T == {t \in Seq(Raw) : Bytes(a \o t) = Bytes(a) + Bytes(t)}
<1>1. <<>> \in T
  <2>1. a \o <<>> = a
    BY ConcatEmptySeq
  <2> QED BY <2>1, BytesEmpty, BytesInt
<1>2. ASSUME NEW t \in Seq(Raw), NEW x \in Raw, t \in T PROVE Append(t, x) \in T
  <2>1. a \o Append(t, x) = Append(a \o t, x) /\ a \o t \in Seq(Raw)
    BY JoinAppend, JoinFacts
  <2>2. /\ Bytes(Append(a \o t, x)) = Bytes(a \o t) + x.length
        /\ Bytes(Append(t, x)) = Bytes(t) + x.length
        /\ Append(t, x) \in Seq(Raw) /\ x.length \in Int
    BY <2>1, BytesAppend
  <2>3. Bytes(a) \in Int /\ Bytes(t) \in Int
    BY BytesInt
  <2>4. Bytes(a \o t) = Bytes(a) + Bytes(t) /\ Append(t, x) \in Seq(Raw)
    BY <1>2, <2>2
  <2>5. Bytes(a \o Append(t, x)) = Bytes(a) + Bytes(Append(t, x))
    BY ONLY <2>1, <2>2, <2>3, <2>4
  <2> QED BY <2>4, <2>5
<1> HIDE DEF T
<1>3. b \in T
  BY <1>1, <1>2, SeqInduction
<1> QED BY <1>3 DEF T

-----------------------------------------------------------------------------
\* The slots that are not of deleted tuples.

Lives(ts, f) ==
  /\ f \in [0..Len(ts) -> Seq(Raw)] /\ f[0] = <<>>
  /\ \A i \in 1..Len(ts) : f[i] = IF ts[i].is_deleted THEN f[i - 1] ELSE Append(f[i - 1], ts[i])

LEMMA LiveSteps ==
  ASSUME NEW ts \in Seq(Raw)
  PROVE  \E f : Lives(ts, f) /\ LiveSlots(ts) = f[Len(ts)]
<1>1. PICK n : n = Len(ts)
  OBVIOUS
<1>2. n \in Nat /\ DOMAIN ts = 1..n /\ \A i \in 1..n : ts[i] \in Raw
  BY <1>1, RawAt
<1> HIDE DEF Raw
<1> DEFINE Dom == SUBSET (1..n)
           body(f) == [s \in Dom |-> IF s = {} THEN <<>>
                                     ELSE IF ts[Max(s)].is_deleted THEN f[s \ {Max(s)}]
                                     ELSE Append(f[s \ {Max(s)}], ts[Max(s)])]
           iter == CHOOSE f : f = body(f)
           G == [a \in Seq(Raw) |-> [i \in 1..n |->
                   IF ts[i].is_deleted THEN a ELSE Append(a, ts[i])]]
<1>3. LiveSlots(ts) = iter[1..n]
  BY <1>2 DEF LiveSlots, FoldLeft, MapThenFoldSet
<1>4. \E f : f = body(f)
  <2>1. G \in [Seq(Raw) -> [1..n -> Seq(Raw)]]
    <3>1. ASSUME NEW a \in Seq(Raw), NEW i \in 1..n
          PROVE  (IF ts[i].is_deleted THEN a ELSE Append(a, ts[i])) \in Seq(Raw)
      BY <1>2, AppendProperties
    <3> QED BY <3>1
  <2>2. \A a \in Seq(Raw) : \A i \in 1..n :
           G[a][i] = IF ts[i].is_deleted THEN a ELSE Append(a, ts[i])
    OBVIOUS
  <2> HIDE DEF G
  <2>3. PICK f : Folds(f, n, Seq(Raw), <<>>, G)
    <3>1. <<>> \in Seq(Raw) /\ n \in Nat
      BY <1>2
    <3> QED BY ONLY <2>1, <3>1, FoldExists
  <2>4. /\ f \in [Dom -> Seq(Raw)]
        /\ \A s \in Dom : f[s] = IF s = {} THEN <<>> ELSE G[f[s \ {Max(s)}]][Max(s)]
    BY <2>3 DEF Folds
  <2>5. \A s \in Dom : f[s] = IF s = {} THEN <<>>
                              ELSE IF ts[Max(s)].is_deleted THEN f[s \ {Max(s)}]
                              ELSE Append(f[s \ {Max(s)}], ts[Max(s)])
    <3> TAKE s \in Dom
    <3>1. CASE s # {}
      <4>1. Max(s) \in 1..n /\ s \ {Max(s)} \in Dom
        BY <1>2, <3>1, MaxFacts
      <4>2. f[s \ {Max(s)}] \in Seq(Raw)
        BY <2>4, <4>1
      <4>3. G[f[s \ {Max(s)}]][Max(s)] = IF ts[Max(s)].is_deleted THEN f[s \ {Max(s)}]
                                         ELSE Append(f[s \ {Max(s)}], ts[Max(s)])
        BY <2>2, <4>1, <4>2
      <4>4. f[s] = G[f[s \ {Max(s)}]][Max(s)]
        BY <2>4, <3>1
      <4> QED BY <3>1, <4>3, <4>4
    <3>2. CASE s = {}
      BY <2>4, <3>2
    <3> QED BY <3>1, <3>2
  <2>6. f = [s \in Dom |-> f[s]]
    BY <2>4
  <2>7. f = body(f)
    BY <2>5, <2>6
  <2> QED BY <2>7
<1>5. iter = body(iter)
  BY <1>4
<1> HIDE DEF iter
<1>6. \A s \in Dom : iter[s] = IF s = {} THEN <<>>
                               ELSE IF ts[Max(s)].is_deleted THEN iter[s \ {Max(s)}]
                               ELSE Append(iter[s \ {Max(s)}], ts[Max(s)])
  BY <1>5
<1>7. PICK f : f = [i \in 0..n |-> iter[1..i]]
  OBVIOUS
<1>8. f[0] = <<>>
  <2>1. 1..0 = {} /\ 0 \in 0..n
    BY <1>2
  <2> QED BY <1>6, <1>7, <2>1
<1>9. ASSUME NEW i \in 1..n
      PROVE  f[i] = IF ts[i].is_deleted THEN f[i - 1] ELSE Append(f[i - 1], ts[i])
  <2>1. i \in Nat /\ i # 0 /\ i \in 0..n /\ i - 1 \in 0..n
    BY <1>2
  <2>2. \A j \in 1..i : j \in 1..n
    BY <1>2
  <2>3. 1..i \in Dom /\ 1..i # {}
    <3>1. 1 \in 1..i
      BY <2>1
    <3> QED BY <2>2, <3>1
  <2>4. Max(1..i) = i /\ (1..i) \ {i} = 1..(i - 1)
    BY <2>1, MaxOfFirst
  <2>5. iter[1..i] = IF ts[i].is_deleted THEN iter[1..(i - 1)] ELSE Append(iter[1..(i - 1)], ts[i])
    BY <1>6, <2>3, <2>4
  <2> QED BY <1>7, <2>1, <2>5
<1> DEFINE T == {i \in Nat : i <= n => f[i] \in Seq(Raw)}
<1>10. 0 \in T
  <2>1. <<>> \in Seq(Raw)
    OBVIOUS
  <2> QED BY <1>8, <2>1
<1>11. ASSUME NEW i \in Nat, i \in T PROVE i + 1 \in T
  <2> SUFFICES ASSUME i + 1 <= n PROVE f[i + 1] \in Seq(Raw)
    OBVIOUS
  <2>1. i + 1 \in 1..n /\ (i + 1) - 1 = i /\ i <= n
    BY <1>2
  <2>2. f[i + 1] = IF ts[i + 1].is_deleted THEN f[i] ELSE Append(f[i], ts[i + 1])
    BY <1>9, <2>1
  <2>3. f[i] \in Seq(Raw) /\ ts[i + 1] \in Raw
    BY <1>2, <1>11, <2>1
  <2> QED BY <2>2, <2>3, AppendProperties
<1> HIDE DEF T
<1>12. \A i \in Nat : i \in T
  BY <1>10, <1>11, Induction
<1>13. \A i \in 0..n : f[i] \in Seq(Raw)
  BY <1>12 DEF T
<1>14. f \in [0..n -> Seq(Raw)]
  BY <1>7, <1>13
<1>15. Lives(ts, f)
  BY <1>1, <1>8, <1>9, <1>14 DEF Lives
<1>16. n \in 0..n
  BY <1>2
<1> QED BY <1>1, <1>3, <1>7, <1>15, <1>16

LEMMA LiveIs ==
  ASSUME NEW ts \in Seq(Raw), NEW f, Lives(ts, f)
  PROVE  LiveSlots(ts) = f[Len(ts)] /\ LiveSlots(ts) \in Seq(Raw)
<1> HIDE DEF Raw
<1>1. PICK n : n = Len(ts)
  OBVIOUS
<1>2. PICK g : Lives(ts, g) /\ LiveSlots(ts) = g[n]
  BY <1>1, LiveSteps
<1>3. n \in Nat
  BY <1>1, RawAt
<1> DEFINE T == {i \in Nat : i <= n => f[i] = g[i]}
<1>4. 0 \in T
  BY <1>2 DEF Lives
<1>5. ASSUME NEW i \in Nat, i \in T PROVE i + 1 \in T
  <2> SUFFICES ASSUME i + 1 <= n PROVE f[i + 1] = g[i + 1]
    OBVIOUS
  <2>1. i + 1 \in 1..n /\ (i + 1) - 1 = i /\ i <= n
    BY <1>3
  <2>2. /\ f[i + 1] = IF ts[i + 1].is_deleted THEN f[i] ELSE Append(f[i], ts[i + 1])
        /\ g[i + 1] = IF ts[i + 1].is_deleted THEN g[i] ELSE Append(g[i], ts[i + 1])
    BY <1>1, <1>2, <2>1 DEF Lives
  <2> QED BY <1>5, <2>1, <2>2
<1> HIDE DEF T
<1>6. n \in T
  BY <1>3, <1>4, <1>5, Induction
<1>7. f[n] = g[n]
  BY <1>3, <1>6 DEF T
<1>8. g[n] \in Seq(Raw)
  BY <1>1, <1>2, <1>3 DEF Lives
<1> QED BY <1>1, <1>2, <1>7, <1>8

LEMMA LiveEmpty == LiveSlots(<<>>) = <<>>
<1>1. <<>> \in Seq(Raw) /\ Len(<<>>) = 0
  OBVIOUS
<1>2. PICK f : f = [i \in 0..0 |-> <<>>]
  OBVIOUS
<1>3. f \in [0..0 -> Seq(Raw)] /\ f[0] = <<>>
  BY <1>1, <1>2
<1>4. Lives(<<>>, f)
  BY <1>1, <1>3 DEF Lives
<1> QED BY <1>1, <1>3, <1>4, LiveIs

LEMMA LiveAppend ==
  ASSUME NEW s \in Seq(Raw), NEW x \in Raw
  PROVE  /\ LiveSlots(s) \in Seq(Raw)
         /\ LiveSlots(Append(s, x)) = IF x.is_deleted THEN LiveSlots(s) ELSE Append(LiveSlots(s), x)
<1>1. PICK n, a : n = Len(s) /\ a = Append(s, x)
  OBVIOUS
<1>2. n \in Nat
  BY <1>1, RawAt
<1> HIDE DEF Raw
<1>3. a \in Seq(Raw) /\ Len(a) = n + 1 /\ a[n + 1] = x /\ \A j \in 1..n : a[j] = s[j]
  BY <1>1, AppendProperties
<1>4. PICK f : Lives(s, f) /\ LiveSlots(s) = f[n]
  BY <1>1, LiveSteps
<1>5. /\ f \in [0..n -> Seq(Raw)] /\ f[0] = <<>>
      /\ \A i \in 1..n : f[i] = IF s[i].is_deleted THEN f[i - 1] ELSE Append(f[i - 1], s[i])
  BY <1>1, <1>4 DEF Lives
<1>6. f[n] \in Seq(Raw)
  BY <1>2, <1>5
<1>7. PICK z : z = IF x.is_deleted THEN f[n] ELSE Append(f[n], x)
  OBVIOUS
<1>8. z \in Seq(Raw)
  BY <1>6, <1>7, AppendProperties
<1>9. PICK g : g = [i \in 0..(n + 1) |-> IF i = n + 1 THEN z ELSE f[i]]
  OBVIOUS
<1>10. g \in [0..(n + 1) -> Seq(Raw)]
  <2>1. \A i \in 0..(n + 1) : (IF i = n + 1 THEN z ELSE f[i]) \in Seq(Raw)
    <3> TAKE i \in 0..(n + 1)
    <3>1. i = n + 1 \/ i \in 0..n
      BY <1>2
    <3>2. \A j \in 0..n : f[j] \in Seq(Raw)
      BY <1>5
    <3> QED BY <1>8, <3>1, <3>2
  <2> QED BY <1>9, <2>1
<1>11. g[0] = <<>>
  <2>1. 0 \in 0..(n + 1) /\ 0 # n + 1
    BY <1>2
  <2> QED BY <1>5, <1>9, <2>1
<1>12. \A i \in 1..(n + 1) : g[i] = IF a[i].is_deleted THEN g[i - 1] ELSE Append(g[i - 1], a[i])
  <2> TAKE i \in 1..(n + 1)
  <2>1. CASE i = n + 1
    <3>1. i - 1 = n /\ n \in 0..(n + 1) /\ n # n + 1 /\ i \in 0..(n + 1)
      BY <1>2, <2>1
    <3> QED BY <1>3, <1>7, <1>9, <2>1, <3>1
  <2>2. CASE i # n + 1
    <3>1. i \in 1..n /\ i \in 0..(n + 1) /\ i - 1 \in 0..(n + 1) /\ i - 1 # n + 1
      BY <1>2, <2>2
    <3> QED BY <1>3, <1>5, <1>9, <2>2, <3>1
  <2> QED BY <2>1, <2>2
<1>13. Lives(a, g)
  BY <1>3, <1>10, <1>11, <1>12 DEF Lives
<1>14. LiveSlots(a) = g[n + 1]
  BY <1>3, <1>13, LiveIs
<1>15. g[n + 1] = z
  <2>1. n + 1 \in 0..(n + 1)
    BY <1>2
  <2> QED BY <1>9, <2>1
<1> QED BY <1>1, <1>4, <1>6, <1>7, <1>14, <1>15

LEMMA LiveJoin ==
  ASSUME NEW a \in Seq(Raw), NEW b \in Seq(Raw)
  PROVE  LiveSlots(a \o b) = LiveSlots(a) \o LiveSlots(b)
<1> HIDE DEF Raw
<1>0. LiveSlots(a) \in Seq(Raw)
  BY LiveSteps, LiveIs
<1> DEFINE T == {t \in Seq(Raw) : LiveSlots(a \o t) = LiveSlots(a) \o LiveSlots(t)}
<1>1. <<>> \in T
  <2>1. a \o <<>> = a /\ LiveSlots(a) \o <<>> = LiveSlots(a)
    BY <1>0, ConcatEmptySeq
  <2>2. <<>> \in Seq(Raw) /\ LiveSlots(<<>>) = <<>>
    BY LiveEmpty
  <2>3. LiveSlots(a \o <<>>) = LiveSlots(a) \o LiveSlots(<<>>)
    BY ONLY <2>1, <2>2
  <2> QED BY <2>2, <2>3
<1>2. ASSUME NEW t \in Seq(Raw), NEW x \in Raw, t \in T PROVE Append(t, x) \in T
  <2>1. a \o Append(t, x) = Append(a \o t, x) /\ a \o t \in Seq(Raw) /\ Append(t, x) \in Seq(Raw)
    BY JoinAppend, JoinFacts
  <2>2. /\ LiveSlots(Append(a \o t, x)) =
             IF x.is_deleted THEN LiveSlots(a \o t) ELSE Append(LiveSlots(a \o t), x)
        /\ LiveSlots(Append(t, x)) = IF x.is_deleted THEN LiveSlots(t) ELSE Append(LiveSlots(t), x)
        /\ LiveSlots(t) \in Seq(Raw)
    BY <2>1, LiveAppend
  <2>3. LiveSlots(a) \o Append(LiveSlots(t), x) = Append(LiveSlots(a) \o LiveSlots(t), x)
    BY <1>0, <2>2, JoinAppend
  <2> QED BY <1>2, <2>1, <2>2, <2>3
<1> HIDE DEF T
<1>3. b \in T
  BY <1>1, <1>2, SeqInduction
<1> QED BY <1>3 DEF T

-----------------------------------------------------------------------------
\* What is stored of a tuple, and its slot: between the least that is stored of any, and
\* the most.

Smallest == IF \A k \in Keys : Size[k] >= MIN_LEAF_PAGE_DATA THEN MIN_LEAF_PAGE_DATA
            ELSE SLOT_SIZE + TUPLE_MIN

Lengths == (Smallest - SLOT_SIZE)..(MAX_LEAF_PAGE_DATA - SLOT_SIZE)
Stored == {Live(k, l) : k \in Keys, l \in Lengths}
Slot == Stored \cup {Deleted}

Count(slots) == Len(LiveSlots(slots))

LEMMA Times == ASSUME NEW a \in Nat, NEW b \in Nat, NEW c \in Nat, a <= b PROVE a * c <= b * c
<1>1. PICK d \in Nat : b = a + d
  <2>1. b - a \in Nat /\ b = a + (b - a)
    OBVIOUS
  <2> QED BY <2>1
<1>2. b * c = a * c + d * c /\ d * c \in Nat /\ a * c \in Nat
  BY <1>1
<1> QED BY ONLY <1>2

LEMMA Limits ==
  /\ LEAF_SPACE \in Nat /\ SLOT_SIZE \in Nat /\ TUPLE_MIN \in Nat /\ TUPLE_MIN > 0
  /\ MIN_LEAF_PAGE_DATA \in Nat /\ MAX_LEAF_PAGE_DATA \in Nat /\ LEAF_UNDERFLOW_THRESHOLD \in Nat
  /\ Smallest \in Nat /\ SLOT_SIZE + TUPLE_MIN <= Smallest /\ Smallest <= MIN_LEAF_PAGE_DATA
  /\ Smallest <= MAX_LEAF_PAGE_DATA /\ MIN_LEAF_PAGE_DATA <= MAX_LEAF_PAGE_DATA
  /\ MIN_LEAF_PAGE_DATA + MAX_LEAF_PAGE_DATA <= LEAF_SPACE
  /\ 2 * LEAF_UNDERFLOW_THRESHOLD + MAX_LEAF_PAGE_DATA <= LEAF_SPACE
  /\ \A k \in Keys : k \in Nat /\ k # 0 /\ Size[k] \in Nat /\ Smallest <= Size[k]
<1>1. /\ LEAF_SPACE \in Nat /\ SLOT_SIZE \in Nat /\ TUPLE_MIN \in Nat /\ TUPLE_MIN > 0
      /\ MIN_LEAF_PAGE_DATA \in Nat /\ MAX_LEAF_PAGE_DATA \in Nat
      /\ LEAF_UNDERFLOW_THRESHOLD \in Nat
      /\ SLOT_SIZE + TUPLE_MIN <= MIN_LEAF_PAGE_DATA /\ MIN_LEAF_PAGE_DATA <= MAX_LEAF_PAGE_DATA
      /\ MIN_LEAF_PAGE_DATA + MAX_LEAF_PAGE_DATA <= LEAF_SPACE
      /\ 2 * LEAF_UNDERFLOW_THRESHOLD + MAX_LEAF_PAGE_DATA <= LEAF_SPACE
  BY LeafPageAssumption
<1>2. \A k \in Keys : k \in Nat /\ k # 0 /\ Size[k] \in Nat /\ Size[k] >= SLOT_SIZE + TUPLE_MIN
  BY LeafPageAssumption
<1>3. Smallest = MIN_LEAF_PAGE_DATA \/ Smallest = SLOT_SIZE + TUPLE_MIN
  BY DEF Smallest
<1>4. \A k \in Keys : Smallest <= Size[k]
  BY <1>1, <1>2 DEF Smallest
<1> QED BY <1>1, <1>2, <1>3, <1>4

LEMMA LengthIs ==
  ASSUME NEW l \in Lengths
  PROVE  /\ l \in Nat /\ Smallest <= l + SLOT_SIZE /\ l + SLOT_SIZE <= MAX_LEAF_PAGE_DATA
         /\ TUPLE_MIN <= l
BY Limits DEF Lengths

LEMMA SlotIs ==
  ASSUME NEW x \in Slot
  PROVE  /\ x \in Raw /\ x.is_deleted \in BOOLEAN
         /\ x.is_deleted => x = Deleted /\ x.length = 0 /\ x.key = 0
         /\ ~x.is_deleted => x \in Stored /\ x.key \in Keys /\ x.length \in Lengths
                             /\ x = Live(x.key, x.length)
<1>1. CASE x \in Stored
  <2>1. PICK k \in Keys, l \in Lengths : x = Live(k, l)
    BY <1>1 DEF Stored
  <2>2. x.key = k /\ x.length = l /\ x.is_deleted = FALSE
    BY <2>1 DEF Live
  <2>3. k \in Int /\ l \in Int
    BY Limits, LengthIs
  <2>4. x \in Raw
    BY <2>1, <2>3 DEF Live, Raw
  <2> QED BY <1>1, <2>1, <2>2, <2>4
<1>2. CASE x = Deleted
  BY <1>2 DEF Deleted, Raw
<1> QED BY <1>1, <1>2 DEF Slot

LEMMA StoredIs ==
  ASSUME NEW x \in Stored
  PROVE  /\ x \in Slot /\ x \in Raw /\ ~x.is_deleted /\ x.key \in Keys /\ x.length \in Lengths
         /\ x = Live(x.key, x.length)
<1>1. PICK k \in Keys, l \in Lengths : x = Live(k, l)
  BY DEF Stored
<1>2. x \in Slot /\ ~x.is_deleted
  BY <1>1 DEF Slot, Live
<1> QED BY <1>2, SlotIs

LEMMA LiveIsStored ==
  ASSUME NEW k \in Keys, NEW l \in Lengths
  PROVE  Live(k, l) \in Stored /\ Live(k, l).key = k /\ Live(k, l).length = l
<1>1. Live(k, l) \in Stored
  BY DEF Stored
<1>2. Live(k, l).key = k /\ Live(k, l).length = l
  BY DEF Live
<1> QED BY <1>1, <1>2

LEMMA DeletedIs == Deleted \in Slot /\ Deleted.is_deleted /\ Deleted.length = 0
BY DEF Slot, Deleted

LEMMA RawSlots == ASSUME NEW s \in Seq(Slot) PROVE s \in Seq(Raw)
<1>1. Slot \subseteq Raw
  BY SlotIs
<1> QED BY <1>1

LEMMA RawStored == ASSUME NEW s \in Seq(Stored) PROVE s \in Seq(Slot) /\ s \in Seq(Raw)
<1>1. Stored \subseteq Slot
  BY DEF Slot
<1>2. s \in Seq(Slot)
  BY <1>1
<1> QED BY <1>2, RawSlots

LEMMA SlotAt ==
  ASSUME NEW s \in Seq(Slot)
  PROVE  /\ Len(s) \in Nat /\ DOMAIN s = 1..Len(s)
         /\ \A i \in 1..Len(s) : s[i] \in Slot
<1> HIDE DEF Slot
<1> QED BY ElementOfSeq, LenProperties

\* The live slots of a page, their number and what they sum up to.
Totals(s) ==
  /\ LiveSlots(s) \in Seq(Stored) /\ Count(s) \in Nat /\ Count(s) <= Len(s)
  /\ Bytes(LiveSlots(s)) = Bytes(s) /\ Bytes(s) \in Nat
  /\ Count(s) * TUPLE_MIN <= Bytes(s)

LEMMA SlotTotals == ASSUME NEW s \in Seq(Slot) PROVE Totals(s)
<1> HIDE DEF Slot, Stored, Raw
<1> DEFINE T == {t \in Seq(Slot) : Totals(t)}
<1>1. <<>> \in T
  <2>1. LiveSlots(<<>>) = <<>> /\ Bytes(<<>>) = 0 /\ <<>> \in Seq(Stored) /\ <<>> \in Seq(Slot)
        /\ Len(<<>>) = 0
    BY LiveEmpty, BytesEmpty
  <2>2. 0 * TUPLE_MIN = 0
    BY Limits
  <2>3. PICK e : e = <<>>
    OBVIOUS
  <2>4. /\ e \in Seq(Slot) /\ LiveSlots(e) = e /\ e \in Seq(Stored) /\ Len(e) = 0 /\ Bytes(e) = 0
        /\ Count(e) = 0
    BY <2>1, <2>3 DEF Count
  <2>5. Totals(e)
    BY <2>2, <2>4 DEF Totals
  <2> QED BY <2>3, <2>4, <2>5
<1>2. ASSUME NEW t \in Seq(Slot), NEW x \in Slot, t \in T PROVE Append(t, x) \in T
  <2>1. PICK a : a = Append(t, x)
    OBVIOUS
  <2>2. a \in Seq(Slot) /\ Len(a) = Len(t) + 1 /\ Len(t) \in Nat
    BY <2>1, AppendProperties
  <2>3. t \in Seq(Raw) /\ x \in Raw
    BY RawSlots, SlotIs
  <2>4. /\ LiveSlots(a) = IF x.is_deleted THEN LiveSlots(t) ELSE Append(LiveSlots(t), x)
        /\ Bytes(a) = Bytes(t) + x.length
    BY <2>1, <2>3, LiveAppend, BytesAppend
  <2>5. /\ LiveSlots(t) \in Seq(Stored) /\ Count(t) \in Nat /\ Count(t) <= Len(t)
        /\ Bytes(LiveSlots(t)) = Bytes(t) /\ Bytes(t) \in Nat
        /\ Count(t) * TUPLE_MIN <= Bytes(t)
    BY <1>2 DEF Totals
  <2>6. CASE x.is_deleted
    <3>1. x.length = 0
      BY <2>6, SlotIs
    <3>2. Bytes(a) = Bytes(t) /\ LiveSlots(a) = LiveSlots(t) /\ Count(a) = Count(t)
      BY <2>4, <2>5, <2>6, <3>1 DEF Count
    <3>3. Count(t) <= Len(a)
      BY <2>2, <2>5
    <3> QED BY <2>1, <2>2, <2>5, <3>2, <3>3 DEF Totals
  <2>7. CASE ~x.is_deleted
    <3>1. x \in Stored /\ x.length \in Nat /\ TUPLE_MIN <= x.length
      BY <2>7, SlotIs, LengthIs
    <3>2. LiveSlots(a) = Append(LiveSlots(t), x)
      BY <2>4, <2>7
    <3>3. LiveSlots(a) \in Seq(Stored) /\ Count(a) = Count(t) + 1
      BY <2>5, <3>1, <3>2, AppendProperties DEF Count
    <3>4. LiveSlots(t) \in Seq(Raw)
      BY <2>5, RawStored
    <3>5. Bytes(LiveSlots(a)) = Bytes(t) + x.length
      BY <2>3, <2>5, <3>2, <3>4, BytesAppend
    <3>6. PICK c, b, n, l : c = Count(t) /\ b = Bytes(t) /\ n = Len(t) /\ l = x.length
      OBVIOUS
    <3>7. /\ c \in Nat /\ b \in Nat /\ n \in Nat /\ l \in Nat /\ TUPLE_MIN \in Nat
          /\ c <= n /\ c * TUPLE_MIN <= b /\ TUPLE_MIN <= l
      BY <2>2, <2>5, <3>1, <3>6, Limits
    <3>8. (c + 1) * TUPLE_MIN = c * TUPLE_MIN + TUPLE_MIN /\ c * TUPLE_MIN \in Nat
      BY ONLY <3>7
    <3>9. c + 1 \in Nat /\ c + 1 <= n + 1 /\ b + l \in Nat /\ (c + 1) * TUPLE_MIN <= b + l
      BY ONLY <3>7, <3>8
    <3>10. Count(a) = c + 1 /\ Len(a) = n + 1 /\ Bytes(a) = b + l
      BY <2>2, <2>4, <3>3, <3>6
    <3> QED BY <2>1, <2>2, <2>4, <2>5, <3>3, <3>5, <3>9, <3>10 DEF Totals
  <2> QED BY <2>6, <2>7
<1> HIDE DEF T
<1>3. s \in T
  BY <1>1, <1>2, SeqInduction
<1> QED BY <1>3 DEF T

\* Compacting the slots again changes nothing.
LEMMA LiveOfStored == ASSUME NEW s \in Seq(Stored) PROVE LiveSlots(s) = s /\ Count(s) = Len(s)
<1> HIDE DEF Stored, Raw
<1> DEFINE T == {t \in Seq(Stored) : LiveSlots(t) = t}
<1>1. <<>> \in T
  BY LiveEmpty
<1>2. ASSUME NEW t \in Seq(Stored), NEW x \in Stored, t \in T PROVE Append(t, x) \in T
  <2>1. t \in Seq(Raw) /\ x \in Raw /\ ~x.is_deleted
    BY RawStored, StoredIs
  <2>2. LiveSlots(Append(t, x)) = Append(LiveSlots(t), x)
    BY <2>1, LiveAppend
  <2>3. LiveSlots(t) = t
    BY <1>2
  <2>4. Append(t, x) \in Seq(Stored)
    BY AppendProperties
  <2> QED BY <2>2, <2>3, <2>4
<1> HIDE DEF T
<1>3. s \in T
  BY <1>1, <1>2, SeqInduction
<1> QED BY <1>3 DEF T, Count

LEMMA CountJoin ==
  ASSUME NEW a \in Seq(Slot), NEW b \in Seq(Slot)
  PROVE  /\ LiveSlots(a \o b) = LiveSlots(a) \o LiveSlots(b)
         /\ Count(a \o b) = Count(a) + Count(b) /\ Bytes(a \o b) = Bytes(a) + Bytes(b)
<1> HIDE DEF Slot, Stored
<1>1. a \in Seq(Raw) /\ b \in Seq(Raw)
  BY RawSlots
<1>2. LiveSlots(a) \in Seq(Stored) /\ LiveSlots(b) \in Seq(Stored)
  BY SlotTotals DEF Totals
<1>3. LiveSlots(a \o b) = LiveSlots(a) \o LiveSlots(b) /\ Bytes(a \o b) = Bytes(a) + Bytes(b)
  BY <1>1, LiveJoin, BytesJoin
<1>4. Len(LiveSlots(a) \o LiveSlots(b)) = Len(LiveSlots(a)) + Len(LiveSlots(b))
  BY <1>2, JoinFacts
<1> QED BY <1>3, <1>4 DEF Count

LEMMA CountOne ==
  ASSUME NEW x \in Slot
  PROVE  /\ <<x>> \in Seq(Slot) /\ Len(<<x>>) = 1 /\ Bytes(<<x>>) = x.length
         /\ LiveSlots(<<x>>) = IF x.is_deleted THEN <<>> ELSE <<x>>
         /\ Count(<<x>>) = IF x.is_deleted THEN 0 ELSE 1
<1> HIDE DEF Slot, Raw
<1>1. x \in Raw /\ <<>> \in Seq(Raw) /\ Append(<<>>, x) = <<x>> /\ Len(<<x>>) = 1
  BY SlotIs
<1>2. LiveSlots(Append(<<>>, x)) = IF x.is_deleted THEN LiveSlots(<<>>) ELSE Append(LiveSlots(<<>>), x)
  BY <1>1, LiveAppend
<1>3. Bytes(Append(<<>>, x)) = Bytes(<<>>) + x.length /\ x.length \in Int
  BY <1>1, BytesAppend
<1>4. LiveSlots(<<x>>) = IF x.is_deleted THEN <<>> ELSE <<x>>
  BY <1>1, <1>2, LiveEmpty
<1>5. Bytes(<<x>>) = x.length
  BY <1>1, <1>3, BytesEmpty
<1>6. <<x>> \in Seq(Slot) /\ Len(<<>>) = 0
  OBVIOUS
<1> QED BY <1>1, <1>4, <1>5, <1>6 DEF Count

-----------------------------------------------------------------------------
\* Pages.  The slots of deleted tuples are matched by garbage.

Page == [slots : Seq(Slot), free_space_end : Nat, garbage_bytes : Nat]

PageOK(p) ==
  /\ p \in Page
  /\ p.free_space_end + Bytes(p.slots) + p.garbage_bytes = LEAF_SPACE
  /\ Len(p.slots) * SLOT_SIZE <= p.free_space_end
  /\ (Len(p.slots) - Count(p.slots)) * TUPLE_MIN <= p.garbage_bytes

Content(p) == LiveSlots(p.slots)

\* What the live tuples and their slots take.
Taken(s) == Bytes(s) + Count(s) * SLOT_SIZE

PageFacts(p) ==
  /\ p.slots \in Seq(Slot) /\ Len(p.slots) \in Nat /\ Totals(p.slots)
  /\ Len(p.slots) * SLOT_SIZE \in Nat /\ Count(p.slots) * SLOT_SIZE \in Nat
  /\ TotalSpace(p) \in Nat /\ CheckAvailableSpace(p) \in Nat /\ UsedSpace(p) \in Nat
  /\ CheckAvailableSpace(p) <= TotalSpace(p)
  /\ CheckAvailableSpace(p) = p.free_space_end - Len(p.slots) * SLOT_SIZE
  /\ UsedSpace(p) = Bytes(p.slots) + Len(p.slots) * SLOT_SIZE
  /\ TotalSpace(p) = LEAF_SPACE - UsedSpace(p)
  /\ Taken(p.slots) \in Nat /\ Taken(p.slots) <= UsedSpace(p)
  /\ UsedSpace(p) <= Taken(p.slots) + LEAF_UNDERFLOW_THRESHOLD

LEMMA FewSlots ==
  ASSUME NEW n \in Nat, n * (SLOT_SIZE + TUPLE_MIN) <= LEAF_SPACE
  PROVE  n * SLOT_SIZE <= LEAF_UNDERFLOW_THRESHOLD
<1>1. SLOT_SIZE \in Nat /\ TUPLE_MIN \in Nat /\ TUPLE_MIN > 0 /\ LEAF_SPACE \in Nat
  BY Limits
<1>2. n * 1 <= n * (SLOT_SIZE + TUPLE_MIN)
  <2>1. 1 * n <= (SLOT_SIZE + TUPLE_MIN) * n
    BY <1>1, Times
  <2>2. 1 * n = n * 1 /\ (SLOT_SIZE + TUPLE_MIN) * n = n * (SLOT_SIZE + TUPLE_MIN)
    BY <1>1
  <2> QED BY <2>1, <2>2
<1>3. n \in 0..LEAF_SPACE
  <2>1. n * 1 = n /\ n * (SLOT_SIZE + TUPLE_MIN) \in Nat
    BY <1>1
  <2> QED BY <1>1, <1>2, <2>1
<1> QED BY <1>3, LeafPageAssumption

LEMMA PageIs == ASSUME NEW p, PageOK(p) PROVE PageFacts(p)
<1> HIDE DEF Slot
<1>1. p.slots \in Seq(Slot) /\ p.free_space_end \in Nat /\ p.garbage_bytes \in Nat
  BY DEF PageOK, Page
<1>2. Len(p.slots) \in Nat /\ Totals(p.slots)
  BY <1>1, SlotTotals
<1>3. PICK n, c, b, e, g : /\ n = Len(p.slots) /\ c = Count(p.slots) /\ b = Bytes(p.slots)
                           /\ e = p.free_space_end /\ g = p.garbage_bytes
  OBVIOUS
<1>4. /\ n \in Nat /\ c \in Nat /\ c <= n /\ b \in Nat /\ e \in Nat /\ g \in Nat
      /\ c * TUPLE_MIN <= b
  BY <1>1, <1>2, <1>3 DEF Totals
<1>5. e + b + g = LEAF_SPACE /\ n * SLOT_SIZE <= e /\ (n - c) * TUPLE_MIN <= g
  BY <1>3 DEF PageOK
<1>6. /\ SLOT_SIZE \in Nat /\ TUPLE_MIN \in Nat /\ LEAF_SPACE \in Nat
      /\ LEAF_UNDERFLOW_THRESHOLD \in Nat
  BY Limits
<1>7. PICK m \in Nat : n = c + m /\ n - c = m
  <2>1. n - c \in Nat /\ n = c + (n - c)
    BY ONLY <1>4
  <2> QED BY <2>1
<1>8. /\ n * SLOT_SIZE \in Nat /\ c * SLOT_SIZE \in Nat /\ m * SLOT_SIZE \in Nat
      /\ n * SLOT_SIZE = c * SLOT_SIZE + m * SLOT_SIZE
      /\ n * TUPLE_MIN = c * TUPLE_MIN + m * TUPLE_MIN
      /\ n * (SLOT_SIZE + TUPLE_MIN) = n * SLOT_SIZE + n * TUPLE_MIN
      /\ n * TUPLE_MIN \in Nat /\ c * TUPLE_MIN \in Nat /\ m * TUPLE_MIN \in Nat
  BY ONLY <1>4, <1>6, <1>7
<1>9. n * (SLOT_SIZE + TUPLE_MIN) <= LEAF_SPACE
  <2>1. m * TUPLE_MIN <= g
    BY <1>5, <1>7
  <2> QED BY ONLY <1>4, <1>5, <1>6, <1>8, <2>1
<1>10. n * SLOT_SIZE <= LEAF_UNDERFLOW_THRESHOLD
  BY <1>4, <1>9, FewSlots
<1>11. /\ CheckAvailableSpace(p) = e - n * SLOT_SIZE
       /\ TotalSpace(p) = e - n * SLOT_SIZE + g
       /\ UsedSpace(p) = LEAF_SPACE - (e - n * SLOT_SIZE + g)
       /\ Taken(p.slots) = b + c * SLOT_SIZE
  BY <1>3 DEF CheckAvailableSpace, TotalSpace, UsedSpace, Taken
<1>12. PICK x, y, z : x = n * SLOT_SIZE /\ y = c * SLOT_SIZE /\ z = m * SLOT_SIZE
  OBVIOUS
<1>13. x \in Nat /\ y \in Nat /\ z \in Nat /\ x = y + z /\ x <= e /\ x <= LEAF_UNDERFLOW_THRESHOLD
  BY <1>5, <1>8, <1>10, <1>12
<1>14. /\ e - x \in Nat /\ e - x + g \in Nat /\ e - x <= e - x + g
       /\ LEAF_SPACE - (e - x + g) = b + x /\ b + x \in Nat
       /\ e - x + g = LEAF_SPACE - (b + x) /\ b + y \in Nat
       /\ b + y <= b + x /\ b + x <= b + y + LEAF_UNDERFLOW_THRESHOLD
  BY ONLY <1>4, <1>5, <1>6, <1>13
<1> QED BY <1>1, <1>2, <1>3, <1>8, <1>11, <1>12, <1>14 DEF PageFacts

\* Compacting.
LEMMA MakePageIs ==
  ASSUME NEW s \in Seq(Slot), Taken(s) <= LEAF_SPACE
  PROVE  /\ PageOK(MakePage(s)) /\ Content(MakePage(s)) = LiveSlots(s)
         /\ MakePage(s).slots = LiveSlots(s)
         /\ CheckAvailableSpace(MakePage(s)) = LEAF_SPACE - Taken(s)
         /\ TotalSpace(MakePage(s)) = LEAF_SPACE - Taken(s)
<1> HIDE DEF Slot, Stored
<1>1. Totals(s)
  BY SlotTotals
<1>2. PICK live, p : live = LiveSlots(s) /\ p = MakePage(s)
  OBVIOUS
<1>3. live \in Seq(Stored) /\ live \in Seq(Slot) /\ LiveSlots(live) = live /\ Count(live) = Len(live)
  BY <1>1, <1>2, LiveOfStored, RawStored DEF Totals
<1>4. p = [slots |-> live, free_space_end |-> LEAF_SPACE - Bytes(live), garbage_bytes |-> 0]
  BY <1>2 DEF MakePage
<1>5. PICK b, c, x : b = Bytes(live) /\ c = Len(live) /\ x = c * SLOT_SIZE
  OBVIOUS
<1>6. b = Bytes(s) /\ c = Count(s)
  BY <1>1, <1>2, <1>5 DEF Totals, Count
<1>7. b \in Nat /\ c \in Nat /\ SLOT_SIZE \in Nat /\ LEAF_SPACE \in Nat /\ TUPLE_MIN \in Nat
  BY <1>1, <1>6, Limits DEF Totals
<1>8. x \in Nat
  BY <1>5, <1>7
<1>9. Taken(s) = b + x
  BY <1>5, <1>6 DEF Taken
<1>10. b + x <= LEAF_SPACE
  BY <1>9
<1>11. /\ LEAF_SPACE - b \in Nat /\ (LEAF_SPACE - b) + b + 0 = LEAF_SPACE /\ x <= LEAF_SPACE - b
       /\ (c - c) * TUPLE_MIN = 0 /\ LEAF_SPACE - b - x = LEAF_SPACE - (b + x)
       /\ LEAF_SPACE - b - x + 0 = LEAF_SPACE - (b + x)
  BY ONLY <1>7, <1>8, <1>10
<1>12. /\ p.slots = live /\ p.free_space_end = LEAF_SPACE - b /\ p.garbage_bytes = 0 /\ p \in Page
  BY <1>3, <1>4, <1>5, <1>11 DEF Page
<1>13. PageOK(p)
  BY <1>3, <1>5, <1>11, <1>12 DEF PageOK
<1>14. CheckAvailableSpace(p) = LEAF_SPACE - b - x
  BY <1>5, <1>12 DEF CheckAvailableSpace
<1>15. TotalSpace(p) = LEAF_SPACE - b - x + 0
  BY <1>12, <1>14 DEF TotalSpace
<1> QED BY <1>2, <1>3, <1>9, <1>11, <1>12, <1>13, <1>14, <1>15 DEF Content

LEMMA DefragmentIs ==
  ASSUME NEW p, PageOK(p)
  PROVE  /\ PageOK(DefragmentPage(p)) /\ Content(DefragmentPage(p)) = Content(p)
         /\ DefragmentPage(p).slots = Content(p)
         /\ CheckAvailableSpace(DefragmentPage(p)) = LEAF_SPACE - Taken(p.slots)
         /\ TotalSpace(DefragmentPage(p)) = LEAF_SPACE - Taken(p.slots)
<1>1. PageFacts(p)
  BY PageIs
<1>2. p.slots \in Seq(Slot)
  BY <1>1 DEF PageFacts
<1>3. Taken(p.slots) <= LEAF_SPACE
  <2>1. /\ TotalSpace(p) \in Nat /\ UsedSpace(p) \in Nat /\ Taken(p.slots) \in Nat
        /\ TotalSpace(p) = LEAF_SPACE - UsedSpace(p) /\ Taken(p.slots) <= UsedSpace(p)
    BY <1>1 DEF PageFacts
  <2>2. LEAF_SPACE \in Nat
    BY Limits
  <2> QED BY ONLY <2>1, <2>2
<1> QED BY <1>2, <1>3, MakePageIs DEF DefragmentPage, Content

\* The least number of a set.
LEMMA LeastIs ==
  ASSUME NEW S, S \subseteq Nat, S # {}
  PROVE  Minimum(S) \in S /\ \A n \in S : Minimum(S) <= n
<1> DEFINE T == {n \in Nat : (\E k \in S : k <= n) => \E m \in S : \A k \in S : m <= k}
<1>1. 0 \in T
  <2> SUFFICES ASSUME NEW k \in S, k <= 0 PROVE \E m \in S : \A j \in S : m <= j
    OBVIOUS
  <2>1. k = 0 /\ \A j \in S : 0 <= j
    OBVIOUS
  <2> QED BY <2>1
<1>2. ASSUME NEW n \in Nat, n \in T PROVE n + 1 \in T
  <2> SUFFICES ASSUME NEW k \in S, k <= n + 1 PROVE \E m \in S : \A j \in S : m <= j
    OBVIOUS
  <2>1. CASE \E j \in S : j <= n
    BY <1>2, <2>1
  <2>2. CASE ~\E j \in S : j <= n
    <3>1. \A j \in S : n + 1 <= j
      BY <2>2
    <3>2. k = n + 1
      BY <3>1
    <3> QED BY <3>1, <3>2
  <2> QED BY <2>1, <2>2
<1> HIDE DEF T
<1>3. \A n \in Nat : n \in T
  BY <1>1, <1>2, Induction
<1>4. PICK k \in S : TRUE
  OBVIOUS
<1>5. k \in Nat /\ k <= k
  OBVIOUS
<1>6. \E m \in S : \A n \in S : m <= n
  BY <1>3, <1>4, <1>5 DEF T
<1> QED BY <1>6 DEF Minimum

\* The first slot of those of live tuples for which a test holds, or the place behind the last.
IsFirst(n, P, x) ==
  /\ x \in 1..(n + 1) /\ (x <= n => x \in P)
  /\ \A i \in P : x <= i

LEMMA FirstIs ==
  ASSUME NEW n \in Nat, NEW P, P \subseteq 1..n
  PROVE  /\ IsFirst(n, P, Minimum(P \cup {n + 1}))
         /\ \A x : IsFirst(n, P, x) => x = Minimum(P \cup {n + 1})
<1>1. P \cup {n + 1} \subseteq Nat /\ P \cup {n + 1} # {}
  OBVIOUS
<1>2. PICK y : y = Minimum(P \cup {n + 1})
  OBVIOUS
<1>3. y \in P \cup {n + 1} /\ \A i \in P \cup {n + 1} : y <= i
  BY <1>1, <1>2, LeastIs
<1>4. y \in 1..(n + 1) /\ (y <= n => y \in P) /\ \A i \in P : y <= i
  BY <1>3
<1>5. ASSUME NEW x, IsFirst(n, P, x) PROVE x = y
  <2>1. x \in 1..(n + 1) /\ (x <= n => x \in P) /\ \A i \in P : x <= i
    BY <1>5 DEF IsFirst
  <2>2. CASE x <= n
    <3>1. y <= x /\ y <= n
      BY <1>3, <1>4, <2>1, <2>2
    <3>2. x <= y
      BY <1>4, <2>1, <3>1
    <3> QED BY <1>4, <2>1, <3>1, <3>2
  <2>3. CASE ~(x <= n)
    <3>1. x = n + 1 /\ ~(y <= n)
      BY <1>4, <2>1, <2>3
    <3> QED BY <1>4, <3>1
  <2> QED BY <2>2, <2>3
<1> QED BY <1>2, <1>4, <1>5 DEF IsFirst

-----------------------------------------------------------------------------
\* The binary search.

LiveOutside(s, before) == {i \in 1..Len(s) : ~s[i].is_deleted /\ s[i].key \notin before}

\* What lies before the sought place is all in front of the rest.
Ascends(s, before) ==
  \A i, j \in 1..Len(s) :
    i <= j /\ ~s[i].is_deleted /\ ~s[j].is_deleted /\ s[j].key \in before => s[i].key \in before

LEMMA BisectIs ==
  ASSUME NEW S, NEW s \in Seq(S), NEW before
  PROVE  /\ Bisect(s, before) \in 1..(Len(s) + 1)
         /\ Ascends(s, before) => IsFirst(Len(s), LiveOutside(s, before), Bisect(s, before))
<1> HIDE DEF Slot
<1>1. PICK n : n = Len(s)
  OBVIOUS
<1>2. n \in Nat
  BY <1>1
<1> DEFINE Dom == (1..(n + 1)) \X (0..n) \X (1..(n + 1))
           V == 1..(n + 1)
           middle(l, r) == l + (r - l) \div 2
           mid(l, r) == Minimum({m \in middle(l, r)..n : ~s[m].is_deleted} \cup {n + 1})
           next(l, r, ans) ==
             IF mid(l, r) > n THEN <<l, middle(l, r) - 1, ans>>
             ELSE IF s[mid(l, r)].key \in before THEN <<mid(l, r) + 1, r, ans>>
             ELSE <<l, middle(l, r) - 1, mid(l, r)>>
           body(f) == [p \in Dom |->
             IF p[1] > p[2] THEN p[3]
             ELSE IF mid(p[1], p[2]) > n THEN f[<<p[1], middle(p[1], p[2]) - 1, p[3]>>]
             ELSE IF s[mid(p[1], p[2])].key \in before THEN f[<<mid(p[1], p[2]) + 1, p[2], p[3]>>]
             ELSE f[<<p[1], middle(p[1], p[2]) - 1, mid(p[1], p[2])>>]]
           search == CHOOSE f : f = body(f)
<1>3. Bisect(s, before) = search[<<1, n, n + 1>>]
  BY <1>1 DEF Bisect
<1>4. ASSUME NEW l \in 1..(n + 1), NEW r \in 0..n, l <= r
      PROVE  /\ middle(l, r) \in l..r
             /\ mid(l, r) \in middle(l, r)..(n + 1)
             /\ mid(l, r) <= n => ~s[mid(l, r)].is_deleted
             /\ \A i \in middle(l, r)..n : ~s[i].is_deleted => mid(l, r) <= i
  <2>1. PICK d, h : d = r - l /\ h = d \div 2
    OBVIOUS
  <2>2. d \in Nat
    BY <1>2, <1>4, <2>1
  <2>3. h \in 0..d
    BY <2>1, <2>2
  <2>4. middle(l, r) = l + h
    BY <2>1
  <2>5. l + h \in l..r
    BY <1>2, <1>4, <2>1, <2>2, <2>3
  <2>6. PICK o : o = middle(l, r)
    OBVIOUS
  <2>7. o \in l..r /\ o \in 1..n
    BY <1>2, <2>4, <2>5, <2>6
  <2>8. PICK found : found = {m \in o..n : ~s[m].is_deleted} \cup {n + 1}
    OBVIOUS
  <2>9. found \subseteq Nat /\ found # {}
    BY <1>2, <2>7, <2>8
  <2>10. Minimum(found) \in found /\ \A i \in found : Minimum(found) <= i
    BY ONLY <2>9, LeastIs
  <2>11. mid(l, r) = Minimum(found)
    BY <2>6, <2>8
  <2>12. PICK m : m = Minimum(found)
    OBVIOUS
  <2>13. m \in o..(n + 1) /\ (m <= n => ~s[m].is_deleted) /\ \A i \in o..n : ~s[i].is_deleted => m <= i
    BY <1>2, <2>7, <2>8, <2>10, <2>12
  <2> QED BY <2>6, <2>7, <2>11, <2>12, <2>13
<1> HIDE DEF middle, mid
<1>5. ASSUME NEW l \in 1..(n + 1), NEW r \in 0..n, NEW ans \in 1..(n + 1), l <= r
      PROVE  /\ next(l, r, ans) \in Dom
             /\ next(l, r, ans)[2] < next(l, r, ans)[1]
                \/ next(l, r, ans)[2] - next(l, r, ans)[1] < r - l
  <2>1. PICK o, m : o = middle(l, r) /\ m = mid(l, r)
    OBVIOUS
  <2>2. o \in l..r /\ m \in o..(n + 1) /\ l \in 1..n /\ r \in 1..n
    BY <1>2, <1>4, <1>5, <2>1
  <2>3. CASE m > n
    <3>1. next(l, r, ans) = <<l, o - 1, ans>>
      BY <2>1, <2>3
    <3>2. l \in 1..(n + 1) /\ o - 1 \in 0..n /\ o - 1 - l < r - l
      BY <1>2, <2>2
    <3> QED BY <3>1, <3>2
  <2>4. CASE ~(m > n) /\ s[m].key \in before
    <3>1. next(l, r, ans) = <<m + 1, r, ans>>
      BY <2>1, <2>4
    <3>2. m + 1 \in 1..(n + 1) /\ r \in 0..n /\ r - (m + 1) < r - l
      BY <1>2, <2>2, <2>4
    <3> QED BY <3>1, <3>2
  <2>5. CASE ~(m > n) /\ s[m].key \notin before
    <3>1. next(l, r, ans) = <<l, o - 1, m>>
      BY <2>1, <2>5
    <3>2. l \in 1..(n + 1) /\ o - 1 \in 0..n /\ o - 1 - l < r - l /\ m \in 1..(n + 1)
      BY <1>2, <2>2
    <3> QED BY <3>1, <3>2
  <2> QED BY <2>3, <2>4, <2>5
<1> HIDE DEF next
<1> DEFINE m == [p \in Dom |-> IF p[1] > p[2] THEN 0 ELSE p[2] - p[1] + 1]
           F == [p \in Dom |-> [f \in [Dom -> V] |->
                   IF p[1] > p[2] THEN p[3] ELSE f[next(p[1], p[2], p[3])]]]
<1>6. ASSUME NEW p \in Dom
      PROVE  /\ p[1] \in 1..(n + 1) /\ p[2] \in 0..n /\ p[3] \in 1..(n + 1)
             /\ p = <<p[1], p[2], p[3]>>
  OBVIOUS
<1>7. \A p \in Dom : m[p] = IF p[1] > p[2] THEN 0 ELSE p[2] - p[1] + 1
  OBVIOUS
<1>8. m \in [Dom -> Nat] /\ \A p \in Dom : m[p] < n + 1
  <2>1. ASSUME NEW p \in Dom
        PROVE  (IF p[1] > p[2] THEN 0 ELSE p[2] - p[1] + 1) \in 0..n
    <3>1. p[1] \in 1..(n + 1) /\ p[2] \in 0..n
      BY <1>6
    <3>2. PICK a, b : a = p[1] /\ b = p[2]
      OBVIOUS
    <3>3. (IF a > b THEN 0 ELSE b - a + 1) \in 0..n
      BY <1>2, <3>1, <3>2
    <3> QED BY <3>2, <3>3
  <2> HIDE DEF Dom
  <2>2. m \in [Dom -> 0..n]
    BY <2>1
  <2>3. \A i \in 0..n : i \in Nat /\ i < n + 1
    BY <1>2
  <2> HIDE DEF m
  <2> QED BY <2>2, <2>3
<1>9. ASSUME NEW p \in Dom, ~(p[1] > p[2])
      PROVE  next(p[1], p[2], p[3]) \in Dom /\ m[next(p[1], p[2], p[3])] < m[p]
  <2>1. /\ p[1] \in 1..(n + 1) /\ p[2] \in 0..n /\ p[3] \in 1..(n + 1) /\ p[1] <= p[2]
    BY <1>2, <1>6, <1>9
  <2>2. PICK q : q = next(p[1], p[2], p[3])
    OBVIOUS
  <2>3. q \in Dom /\ (q[2] < q[1] \/ q[2] - q[1] < p[2] - p[1])
    BY <1>5, <2>1, <2>2
  <2>4. q[1] \in 1..(n + 1) /\ q[2] \in 0..n
    BY <1>6, <2>3
  <2>5. m[q] = (IF q[1] > q[2] THEN 0 ELSE q[2] - q[1] + 1) /\ m[p] = p[2] - p[1] + 1
    BY <1>7, <1>9, <2>3
  <2>6. PICK a, b, c, d : a = p[1] /\ b = p[2] /\ c = q[1] /\ d = q[2]
    OBVIOUS
  <2>7. /\ a \in Nat /\ b \in Nat /\ c \in Nat /\ d \in Nat /\ a <= b
        /\ d < c \/ d - c < b - a
    BY <1>2, <2>1, <2>3, <2>4, <2>6
  <2>8. (IF c > d THEN 0 ELSE d - c + 1) < b - a + 1
    BY ONLY <2>7
  <2> QED BY <2>2, <2>3, <2>5, <2>6, <2>8
<1>10. \A p \in Dom : \A f \in [Dom -> V] :
         F[p][f] = IF p[1] > p[2] THEN p[3] ELSE f[next(p[1], p[2], p[3])]
  OBVIOUS
<1>11. F \in [Dom -> [[Dom -> V] -> V]]
  <2>1. ASSUME NEW p \in Dom, NEW f \in [Dom -> V]
        PROVE  (IF p[1] > p[2] THEN p[3] ELSE f[next(p[1], p[2], p[3])]) \in V
    <3>1. CASE p[1] > p[2]
      BY <1>6, <3>1
    <3>2. CASE ~(p[1] > p[2])
      <4>1. next(p[1], p[2], p[3]) \in Dom
        BY <1>9, <3>2
      <4> HIDE DEF Dom, V
      <4> QED BY <3>2, <4>1
    <3> QED BY <3>1, <3>2
  <2> HIDE DEF Dom, V
  <2> QED BY <2>1
<1> HIDE DEF F, m
<1>12. \A p \in Dom : \A f, g \in [Dom -> V] :
         (\A q \in Dom : m[q] < m[p] => f[q] = g[q]) => F[p][f] = F[p][g]
  <2> TAKE p \in Dom
  <2> TAKE f, g \in [Dom -> V]
  <2> HAVE \A q \in Dom : m[q] < m[p] => f[q] = g[q]
  <2>1. CASE p[1] > p[2]
    <3> HIDE DEF Dom, V
    <3> QED BY <1>10, <2>1
  <2>2. CASE ~(p[1] > p[2])
    <3>1. f[next(p[1], p[2], p[3])] = g[next(p[1], p[2], p[3])]
      BY <1>9, <2>2
    <3> HIDE DEF Dom, V
    <3> QED BY <1>10, <2>2, <3>1
  <2> QED BY <2>1, <2>2
<1>13. PICK f \in [Dom -> V] : \A p \in Dom : f[p] = F[p][f]
  <2> HIDE DEF Dom, V
  <2>1. Recursive(Dom, V, m, F)
    BY <1>8, <1>11, <1>12 DEF Recursive
  <2>2. 1 \in V /\ n + 1 \in Nat
    BY <1>2 DEF V
  <2> QED BY ONLY <1>8, <2>1, <2>2, Recursion
<1>14. \A p \in Dom : f[p] = IF p[1] > p[2] THEN p[3] ELSE f[next(p[1], p[2], p[3])]
  <2> HIDE DEF Dom, V
  <2> QED BY <1>10, <1>13
<1>15. f = body(f)
  <2>1. ASSUME NEW p \in Dom
        PROVE  f[p] = IF p[1] > p[2] THEN p[3]
                      ELSE IF mid(p[1], p[2]) > n THEN f[<<p[1], middle(p[1], p[2]) - 1, p[3]>>]
                      ELSE IF s[mid(p[1], p[2])].key \in before
                           THEN f[<<mid(p[1], p[2]) + 1, p[2], p[3]>>]
                           ELSE f[<<p[1], middle(p[1], p[2]) - 1, mid(p[1], p[2])>>]
    <3>1. f[p] = IF p[1] > p[2] THEN p[3] ELSE f[next(p[1], p[2], p[3])]
      BY <1>14, <2>1
    <3> HIDE DEF Dom
    <3> QED BY <3>1 DEF next
  <2>2. f = [p \in Dom |-> f[p]]
    <3> HIDE DEF Dom, V
    <3> QED BY <1>13
  <2> HIDE DEF Dom
  <2> QED BY <2>1, <2>2
<1>16. search = body(search)
  <2> HIDE DEF body
  <2> QED BY <1>15
<1> HIDE DEF search
<1>17. ASSUME NEW p \in Dom
       PROVE  search[p] = IF p[1] > p[2] THEN p[3] ELSE search[next(p[1], p[2], p[3])]
  <2>1. search[p] = body(search)[p]
    BY <1>16
  <2> HIDE DEF Dom
  <2> QED BY <2>1 DEF next
\* What is in front of l lies before, and ans is the first place behind r that does not.
<1> DEFINE Good(l, r, ans) ==
             /\ \A i \in 1..n : i < l /\ ~s[i].is_deleted => s[i].key \in before
             /\ ans <= n => ~s[ans].is_deleted /\ s[ans].key \notin before /\ r < ans
             /\ \A i \in 1..n : r < i /\ ~s[i].is_deleted /\ s[i].key \notin before => ans <= i
<1>18. ASSUME NEW l \in 1..(n + 1), NEW r \in 0..n, NEW ans \in 1..(n + 1), l <= r,
              Ascends(s, before), Good(l, r, ans)
       PROVE  LET q == next(l, r, ans) IN Good(q[1], q[2], q[3])
  <2>1. PICK o, k : o = middle(l, r) /\ k = mid(l, r)
    OBVIOUS
  <2>2. /\ o \in l..r /\ k \in o..(n + 1) /\ (k <= n => ~s[k].is_deleted)
        /\ \A i \in o..n : ~s[i].is_deleted => k <= i
    BY <1>4, <1>18, <2>1
  <2>3. CASE k > n
    <3>1. next(l, r, ans) = <<l, o - 1, ans>>
      BY <2>1, <2>3 DEF next
    <3>2. \A i \in o..n : s[i].is_deleted
      BY <1>2, <2>2, <2>3
    <3>3. Good(l, o - 1, ans)
      BY <1>2, <1>18, <2>2, <3>2
    <3> QED BY <3>1, <3>3
  <2>4. CASE ~(k > n) /\ s[k].key \in before
    <3>1. next(l, r, ans) = <<k + 1, r, ans>>
      BY <2>1, <2>4 DEF next
    <3>2. ASSUME NEW i \in 1..n, i < k + 1, ~s[i].is_deleted PROVE s[i].key \in before
      <4>1. i <= k /\ k \in 1..n /\ ~s[k].is_deleted
        BY <1>2, <2>2, <2>4, <3>2
      <4> QED BY <1>1, <1>18, <2>4, <3>2, <4>1 DEF Ascends
    <3>3. Good(k + 1, r, ans)
      BY <1>18, <3>2
    <3> QED BY <3>1, <3>3
  <2>5. CASE ~(k > n) /\ s[k].key \notin before
    <3>1. next(l, r, ans) = <<l, o - 1, k>>
      BY <2>1, <2>5 DEF next
    <3>2. ~s[k].is_deleted /\ o - 1 < k
      BY <1>2, <2>2, <2>5
    <3>3. ASSUME NEW i \in 1..n, o - 1 < i, ~s[i].is_deleted PROVE k <= i
      BY <1>2, <2>2, <3>3
    <3>4. Good(l, o - 1, k)
      BY <1>18, <2>5, <3>2, <3>3
    <3> QED BY <3>1, <3>4
  <2> QED BY <2>3, <2>4, <2>5
<1> DEFINE Found(p) == /\ search[p] \in V
                       /\ Ascends(s, before) /\ Good(p[1], p[2], p[3]) =>
                            IsFirst(n, LiveOutside(s, before), search[p])
           T == {k \in Nat : \A p \in Dom : m[p] <= k => Found(p)}
<1>19. ASSUME NEW p \in Dom, p[1] > p[2] PROVE Found(p)
  <2>1. search[p] = p[3] /\ p[3] \in V
    BY <1>6, <1>17, <1>19
  <2>2. ASSUME Good(p[1], p[2], p[3]) PROVE IsFirst(n, LiveOutside(s, before), p[3])
    <3>1. PICK l, r, ans : l = p[1] /\ r = p[2] /\ ans = p[3]
      OBVIOUS
    <3>2. l \in 1..(n + 1) /\ r \in 0..n /\ ans \in 1..(n + 1) /\ l > r /\ Good(l, r, ans)
      BY <1>6, <1>19, <2>2, <3>1
    <3>3. IsFirst(n, LiveOutside(s, before), ans)
      BY <1>1, <1>2, <3>2 DEF IsFirst, LiveOutside
    <3> QED BY <3>1, <3>3
  <2> HIDE DEF Good, Dom, V
  <2> QED BY <2>1, <2>2
<1>20. ASSUME NEW p \in Dom, ~(p[1] > p[2]), Found(next(p[1], p[2], p[3])) PROVE Found(p)
  <2>1. PICK q : q = next(p[1], p[2], p[3])
    OBVIOUS
  <2>2. search[p] = search[q]
    BY <1>17, <1>20, <2>1
  <2>3. /\ p[1] \in 1..(n + 1) /\ p[2] \in 0..n /\ p[3] \in 1..(n + 1) /\ p[1] <= p[2]
    BY <1>2, <1>6, <1>20
  <2>4. ASSUME Ascends(s, before), Good(p[1], p[2], p[3]) PROVE Good(q[1], q[2], q[3])
    <3> HIDE DEF Good, Dom, V
    <3> QED BY <1>18, <2>1, <2>3, <2>4
  <2> HIDE DEF Good, Dom, V
  <2> QED BY <1>20, <2>1, <2>2, <2>4
<1> HIDE DEF Found, Dom
<1>21. 0 \in T
  <2>1. ASSUME NEW p \in Dom, m[p] <= 0 PROVE Found(p)
    <3>1. p[1] > p[2]
      <4>1. p[1] \in Nat /\ p[2] \in Nat
        BY <1>2, <1>6
      <4> QED BY <1>7, <2>1, <4>1
    <3> QED BY <1>19, <3>1
  <2> QED BY <2>1
<1>22. ASSUME NEW k \in Nat, k \in T PROVE k + 1 \in T
  <2>1. ASSUME NEW p \in Dom, m[p] <= k + 1 PROVE Found(p)
    <3>1. CASE p[1] > p[2]
      BY <1>19, <3>1
    <3>2. CASE ~(p[1] > p[2])
      <4>1. PICK q : q = next(p[1], p[2], p[3])
        OBVIOUS
      <4>2. q \in Dom /\ m[q] < m[p]
        BY <1>9, <3>2, <4>1
      <4>3. m[q] \in Nat /\ m[p] \in Nat
        BY <1>8, <4>2
      <4>4. m[q] <= k
        BY <2>1, <4>2, <4>3
      <4>5. Found(q)
        BY <1>22, <4>2, <4>4
      <4> QED BY <1>20, <3>2, <4>1, <4>5
    <3> QED BY <3>1, <3>2
  <2> QED BY <2>1
<1> HIDE DEF T
<1>23. \A k \in Nat : k \in T
  BY <1>21, <1>22, Induction
<1>24. PICK p : p = <<1, n, n + 1>>
  OBVIOUS
<1>25. p \in Dom /\ p[1] = 1 /\ p[2] = n /\ p[3] = n + 1
  BY <1>2, <1>24 DEF Dom
<1>26. Found(p)
  <2>1. m[p] \in Nat /\ m[p] <= m[p]
    BY <1>8, <1>25
  <2> QED BY <1>23, <1>25, <2>1 DEF T
<1>27. Good(1, n, n + 1)
  BY <1>2
<1> HIDE DEF Good
<1> QED BY <1>1, <1>3, <1>24, <1>25, <1>26, <1>27 DEF Found

-----------------------------------------------------------------------------
\* The keys of the live slots, and their order.

LivePlaces(s) == {i \in 1..Len(s) : ~s[i].is_deleted}
KeysOf(s) == {s[i].key : i \in LivePlaces(s)}
Below(A, B) == \A k \in A, l \in B : k <= l
Sorted(s) == \A i, j \in LivePlaces(s) : i <= j => s[i].key <= s[j].key

LEMMA KeysAre ==
  ASSUME NEW s \in Seq(Slot)
  PROVE  /\ KeysOf(s) \subseteq Keys /\ KeysOf(s) \subseteq Int
         /\ \A i \in LivePlaces(s) : s[i].key \in KeysOf(s) /\ s[i].key \in Int /\ i \in 1..Len(s)
<1> HIDE DEF Slot
<1>1. \A i \in LivePlaces(s) : i \in 1..Len(s) /\ s[i] \in Slot /\ ~s[i].is_deleted
  BY SlotAt DEF LivePlaces
<1>2. \A i \in LivePlaces(s) : s[i].key \in Keys
  BY <1>1, SlotIs
<1>3. \A k \in Keys : k \in Int
  BY Limits
<1> QED BY <1>1, <1>2, <1>3 DEF KeysOf

LEMMA JoinPlaces ==
  ASSUME NEW a \in Seq(Slot), NEW b \in Seq(Slot)
  PROVE  /\ \A i \in LivePlaces(a \o b) :
              \/ i \in LivePlaces(a) /\ (a \o b)[i] = a[i]
              \/ i - Len(a) \in LivePlaces(b) /\ (a \o b)[i] = b[i - Len(a)] /\ i > Len(a)
         /\ \A i \in LivePlaces(a) : i \in LivePlaces(a \o b) /\ (a \o b)[i] = a[i]
         /\ \A i \in LivePlaces(b) : i + Len(a) \in LivePlaces(a \o b) /\ (a \o b)[i + Len(a)] = b[i]
<1> HIDE DEF Slot
<1>1. PICK c : c = a \o b
  OBVIOUS
<1>2. PICK m, n : m = Len(a) /\ n = Len(b)
  OBVIOUS
<1>3. /\ m \in Nat /\ n \in Nat /\ Len(c) = m + n
      /\ \A j \in 1..(m + n) : c[j] = IF j <= m THEN a[j] ELSE b[j - m]
  BY <1>1, <1>2, JoinFacts, SlotAt
<1>4. ASSUME NEW i \in LivePlaces(c)
      PROVE  \/ i \in LivePlaces(a) /\ c[i] = a[i]
             \/ i - m \in LivePlaces(b) /\ c[i] = b[i - m] /\ i > m
  <2>1. i \in 1..(m + n) /\ ~c[i].is_deleted
    BY <1>3 DEF LivePlaces
  <2>2. CASE i <= m
    <3>1. i \in 1..m /\ c[i] = a[i]
      BY <1>3, <2>1, <2>2
    <3> QED BY <1>2, <2>1, <3>1 DEF LivePlaces
  <2>3. CASE ~(i <= m)
    <3>1. i - m \in 1..n /\ c[i] = b[i - m] /\ i > m
      BY <1>3, <2>1, <2>3
    <3> QED BY <1>2, <2>1, <3>1 DEF LivePlaces
  <2> QED BY <2>2, <2>3
<1>5. ASSUME NEW i \in LivePlaces(a) PROVE i \in LivePlaces(c) /\ c[i] = a[i]
  <2>1. i \in 1..m /\ ~a[i].is_deleted
    BY <1>2 DEF LivePlaces
  <2>2. i \in 1..(m + n) /\ c[i] = a[i]
    BY <1>3, <2>1
  <2> QED BY <1>3, <2>1, <2>2 DEF LivePlaces
<1>6. ASSUME NEW i \in LivePlaces(b) PROVE i + m \in LivePlaces(c) /\ c[i + m] = b[i]
  <2>1. i \in 1..n /\ ~b[i].is_deleted
    BY <1>2 DEF LivePlaces
  <2>2. i + m \in 1..(m + n) /\ ~(i + m <= m) /\ i + m - m = i
    BY <1>3, <2>1
  <2>3. c[i + m] = b[i]
    <3>1. PICK j : j = i + m
      OBVIOUS
    <3>2. j \in 1..(m + n) /\ ~(j <= m) /\ j - m = i
      BY <1>3, <2>1, <2>2, <3>1
    <3> QED BY <1>3, <3>1, <3>2
  <2> QED BY <1>3, <2>1, <2>2, <2>3 DEF LivePlaces
<1> QED BY <1>1, <1>2, <1>4, <1>5, <1>6

LEMMA JoinKeys ==
  ASSUME NEW a \in Seq(Slot), NEW b \in Seq(Slot)
  PROVE  KeysOf(a \o b) = KeysOf(a) \cup KeysOf(b)
<1> HIDE DEF Slot
<1>1. PICK c, m : c = a \o b /\ m = Len(a)
  OBVIOUS
<1>2. /\ \A i \in LivePlaces(c) : \/ i \in LivePlaces(a) /\ c[i] = a[i]
                                  \/ i - m \in LivePlaces(b) /\ c[i] = b[i - m]
      /\ \A i \in LivePlaces(a) : i \in LivePlaces(c) /\ c[i] = a[i]
      /\ \A i \in LivePlaces(b) : i + m \in LivePlaces(c) /\ c[i + m] = b[i]
  BY <1>1, JoinPlaces
<1>3. ASSUME NEW k \in KeysOf(c) PROVE k \in KeysOf(a) \cup KeysOf(b)
  BY <1>2, <1>3 DEF KeysOf
<1>4. ASSUME NEW k \in KeysOf(a) PROVE k \in KeysOf(c)
  BY <1>2, <1>4 DEF KeysOf
<1>5. ASSUME NEW k \in KeysOf(b) PROVE k \in KeysOf(c)
  BY <1>2, <1>5 DEF KeysOf
<1> QED BY <1>1, <1>3, <1>4, <1>5

LEMMA SortedJoin ==
  ASSUME NEW a \in Seq(Slot), NEW b \in Seq(Slot)
  PROVE  Sorted(a \o b) <=> Sorted(a) /\ Sorted(b) /\ Below(KeysOf(a), KeysOf(b))
<1> HIDE DEF Slot
<1>1. PICK c, m : c = a \o b /\ m = Len(a)
  OBVIOUS
<1>2. /\ \A i \in LivePlaces(c) : \/ i \in LivePlaces(a) /\ c[i] = a[i]
                                  \/ i - m \in LivePlaces(b) /\ c[i] = b[i - m] /\ i > m
      /\ \A i \in LivePlaces(a) : i \in LivePlaces(c) /\ c[i] = a[i]
      /\ \A i \in LivePlaces(b) : i + m \in LivePlaces(c) /\ c[i + m] = b[i]
  BY <1>1, JoinPlaces
<1>3. m \in Nat /\ c \in Seq(Slot)
  BY <1>1, SlotAt, JoinFacts
<1>4. /\ \A i \in LivePlaces(a) : a[i].key \in KeysOf(a) /\ a[i].key \in Int /\ i \in 1..m
      /\ \A i \in LivePlaces(b) : b[i].key \in KeysOf(b) /\ b[i].key \in Int /\ i \in 1..Len(b)
      /\ \A i \in LivePlaces(c) : c[i].key \in Int /\ i \in 1..Len(c)
  BY <1>1, <1>3, KeysAre
<1>5. Len(b) \in Nat /\ Len(c) \in Nat
  BY <1>3, SlotAt
<1>6. ASSUME Sorted(c) PROVE Sorted(a) /\ Sorted(b) /\ Below(KeysOf(a), KeysOf(b))
  <2>1. Sorted(a)
    BY <1>2, <1>6 DEF Sorted
  <2>2. ASSUME NEW i \in LivePlaces(b), NEW j \in LivePlaces(b), i <= j PROVE b[i].key <= b[j].key
    <3>1. i + m <= j + m
      BY <1>3, <1>4, <1>5, <2>2
    <3> QED BY <1>2, <1>6, <3>1 DEF Sorted
  <2>3. ASSUME NEW i \in LivePlaces(a), NEW j \in LivePlaces(b) PROVE a[i].key <= b[j].key
    <3>1. i \in 1..m /\ j \in 1..Len(b)
      BY <1>4
    <3>2. i <= j + m
      BY <1>3, <1>5, <3>1
    <3> QED BY <1>2, <1>6, <3>2 DEF Sorted
  <2>4. Below(KeysOf(a), KeysOf(b))
    BY <2>3 DEF Below, KeysOf
  <2> QED BY <2>1, <2>2, <2>4 DEF Sorted
<1>7. ASSUME Sorted(a), Sorted(b), Below(KeysOf(a), KeysOf(b)) PROVE Sorted(c)
  <2> SUFFICES ASSUME NEW i \in LivePlaces(c), NEW j \in LivePlaces(c), i <= j
               PROVE  c[i].key <= c[j].key
    BY DEF Sorted
  <2>1. i \in Int /\ j \in Int
    BY <1>4, <1>5
  <2>2. CASE i \in LivePlaces(a) /\ c[i] = a[i]
    <3>1. CASE j \in LivePlaces(a) /\ c[j] = a[j]
      BY <1>7, <2>2, <3>1 DEF Sorted
    <3>2. CASE j - m \in LivePlaces(b) /\ c[j] = b[j - m]
      BY <1>4, <1>7, <2>2, <3>2 DEF Below
    <3> QED BY <1>2, <3>1, <3>2
  <2>3. CASE i - m \in LivePlaces(b) /\ c[i] = b[i - m] /\ i > m
    <3>1. j > m
      BY <1>3, <2>1, <2>3
    <3>2. j - m \in LivePlaces(b) /\ c[j] = b[j - m]
      <4>1. j \notin LivePlaces(a)
        BY <1>3, <1>4, <2>1, <3>1
      <4> QED BY <1>2, <4>1
    <3>3. i - m <= j - m
      BY <1>3, <2>1
    <3> QED BY <1>7, <2>3, <3>2, <3>3 DEF Sorted
  <2> QED BY <1>2, <2>2, <2>3
<1> QED BY <1>1, <1>6, <1>7

LEMMA KeysOne ==
  ASSUME NEW x \in Slot
  PROVE  /\ KeysOf(<<x>>) = IF x.is_deleted THEN {} ELSE {x.key}
         /\ Sorted(<<x>>) /\ KeysOf(<<>>) = {} /\ Sorted(<<>>)
<1> HIDE DEF Slot
<1>1. LivePlaces(<<>>) = {}
  BY DEF LivePlaces
<1>2. LivePlaces(<<x>>) = IF x.is_deleted THEN {} ELSE {1}
  BY DEF LivePlaces
<1>3. \A i \in LivePlaces(<<x>>) : i = 1 /\ <<x>>[i] = x /\ ~x.is_deleted
  BY <1>2
<1>4. ~x.is_deleted => x.key \in Int
  BY SlotIs, Limits
<1>5. Sorted(<<x>>)
  BY <1>3, <1>4 DEF Sorted
<1> QED BY <1>1, <1>2, <1>3, <1>5 DEF Sorted, KeysOf

LEMMA AppendJoin ==
  ASSUME NEW S, NEW s \in Seq(S), NEW x \in S PROVE Append(s, x) = s \o <<x>> /\ <<x>> \in Seq(S)
OBVIOUS

LEMMA LiveKeys ==
  ASSUME NEW s \in Seq(Slot)
  PROVE  KeysOf(LiveSlots(s)) = KeysOf(s) /\ (Sorted(s) <=> Sorted(LiveSlots(s)))
<1> HIDE DEF Slot, Stored
<1> DEFINE T == {t \in Seq(Slot) : KeysOf(LiveSlots(t)) = KeysOf(t)
                                   /\ (Sorted(t) <=> Sorted(LiveSlots(t)))}
<1>1. <<>> \in T
  BY LiveEmpty
<1>2. ASSUME NEW t \in Seq(Slot), NEW x \in Slot, t \in T PROVE Append(t, x) \in T
  <2>1. Append(t, x) = t \o <<x>> /\ <<x>> \in Seq(Slot) /\ Append(t, x) \in Seq(Slot)
    BY AppendJoin, AppendProperties
  <2>2. LiveSlots(t) \in Seq(Slot)
    BY SlotTotals, RawStored DEF Totals
  <2>3. KeysOf(t \o <<x>>) = KeysOf(t) \cup KeysOf(<<x>>)
    BY <2>1, JoinKeys
  <2>4. Sorted(t \o <<x>>) <=> Sorted(t) /\ Sorted(<<x>>) /\ Below(KeysOf(t), KeysOf(<<x>>))
    BY <2>1, SortedJoin
  <2>5. LiveSlots(t \o <<x>>) = LiveSlots(t) \o LiveSlots(<<x>>)
    BY <2>1, CountJoin
  <2>6. KeysOf(LiveSlots(t)) = KeysOf(t) /\ (Sorted(t) <=> Sorted(LiveSlots(t)))
    BY <1>2
  <2>7. CASE x.is_deleted
    <3>1. LiveSlots(<<x>>) = <<>> /\ KeysOf(<<x>>) = {} /\ Sorted(<<x>>)
      BY <2>7, CountOne, KeysOne
    <3>2. LiveSlots(t) \o <<>> = LiveSlots(t)
      BY <2>2, ConcatEmptySeq
    <3>3. Below(KeysOf(t), {})
      BY DEF Below
    <3> QED BY <2>1, <2>3, <2>4, <2>5, <2>6, <3>1, <3>2, <3>3
  <2>8. CASE ~x.is_deleted
    <3>1. LiveSlots(<<x>>) = <<x>>
      BY <2>8, CountOne
    <3>2. KeysOf(LiveSlots(t) \o <<x>>) = KeysOf(LiveSlots(t)) \cup KeysOf(<<x>>)
      BY <2>1, <2>2, JoinKeys
    <3>3. Sorted(LiveSlots(t) \o <<x>>) <=>
            Sorted(LiveSlots(t)) /\ Sorted(<<x>>) /\ Below(KeysOf(LiveSlots(t)), KeysOf(<<x>>))
      BY <2>1, <2>2, SortedJoin
    <3> QED BY <2>1, <2>3, <2>4, <2>5, <2>6, <3>1, <3>2, <3>3
  <2> QED BY <2>7, <2>8
<1> HIDE DEF T
<1>3. s \in T
  BY <1>1, <1>2, SeqInduction
<1> QED BY <1>3 DEF T

-----------------------------------------------------------------------------
\* Where a tuple goes.

LEMMA SortedAscends ==
  ASSUME NEW s \in Seq(Slot), Sorted(s), NEW x \in Keys
  PROVE  Ascends(s, {k \in Keys : k < x}) /\ Ascends(s, {k \in Keys : k <= x})
<1> HIDE DEF Slot
<1>1. \A i \in 1..Len(s) : ~s[i].is_deleted => i \in LivePlaces(s) /\ s[i].key \in Keys
  BY SlotAt, SlotIs DEF LivePlaces
<1>2. \A k \in Keys : k \in Nat
  BY Limits
<1>3. ASSUME NEW i \in 1..Len(s), NEW j \in 1..Len(s), i <= j, ~s[i].is_deleted, ~s[j].is_deleted
      PROVE  s[i].key <= s[j].key /\ s[i].key \in Keys /\ s[j].key \in Keys
  BY <1>1, <1>3 DEF Sorted
<1>4. \A i, j \in 1..Len(s) : i <= j /\ ~s[i].is_deleted /\ ~s[j].is_deleted =>
        /\ s[j].key < x => s[i].key < x
        /\ s[j].key <= x => s[i].key <= x
  BY <1>2, <1>3
<1> QED BY <1>3, <1>4 DEF Ascends

LEMMA UpperIs ==
  ASSUME NEW s \in Seq(Slot), NEW x \in Keys
  PROVE  /\ upper_bound(s, x) \in 1..(Len(s) + 1)
         /\ Sorted(s) => \A i \in LivePlaces(s) : IF i < upper_bound(s, x) THEN s[i].key <= x
                                                  ELSE s[i].key > x
<1> HIDE DEF Slot
<1>1. PICK before, u : before = {k \in Keys : k <= x} /\ u = Bisect(s, before)
  OBVIOUS
<1>2. u = upper_bound(s, x)
  BY <1>1 DEF upper_bound
<1>3. u \in 1..(Len(s) + 1) /\ (Ascends(s, before) => IsFirst(Len(s), LiveOutside(s, before), u))
  BY <1>1, BisectIs
<1>4. ASSUME Sorted(s), NEW i \in LivePlaces(s)
      PROVE  IF i < u THEN s[i].key <= x ELSE s[i].key > x
  <2>1. Ascends(s, before) /\ IsFirst(Len(s), LiveOutside(s, before), u)
    BY <1>1, <1>3, <1>4, SortedAscends
  <2>2. i \in 1..Len(s) /\ ~s[i].is_deleted /\ s[i].key \in Keys /\ Len(s) \in Nat
    BY SlotAt, SlotIs DEF LivePlaces
  <2>3. s[i].key \in Nat /\ x \in Nat
    BY <2>2, Limits
  <2>4. CASE i < u
    <3>1. i \notin LiveOutside(s, before)
      <4>1. \A j \in LiveOutside(s, before) : u <= j
        BY <2>1 DEF IsFirst
      <4>2. i \in Nat /\ u \in Nat
        BY <1>3, <2>2
      <4> QED BY <2>4, <4>1, <4>2
    <3>2. s[i].key \in before
      BY <2>2, <3>1 DEF LiveOutside
    <3> QED BY <1>1, <2>4, <3>2
  <2>5. CASE ~(i < u)
    <3>1. u <= i /\ u \in 1..Len(s)
      BY <1>3, <2>2, <2>5
    <3>2. u \in LiveOutside(s, before)
      BY <2>1, <3>1 DEF IsFirst
    <3>3. s[i].key \notin before
      BY <2>1, <2>2, <3>1, <3>2 DEF Ascends, LiveOutside
    <3> QED BY <1>1, <2>2, <2>3, <2>5, <3>3
  <2> QED BY <2>4, <2>5
<1> QED BY <1>2, <1>3, <1>4

LEMMA PlacedIs ==
  ASSUME NEW s \in Seq(Slot), NEW it \in 1..(Len(s) + 1), NEW x \in Slot
  PROVE  \E a, b \in Seq(Slot), d \in {<<>>, <<Deleted>>} :
           /\ s = (a \o d) \o b /\ Placed(s, it, x) = (a \o <<x>>) \o b
           /\ Len(a \o d) = it - 1
<1> HIDE DEF Slot
<1>1. PICK n : n = Len(s)
  OBVIOUS
<1>2. n \in Nat /\ it \in 1..(n + 1)
  BY <1>1, SlotAt
<1>3. PICK f, b : f = SubSeq(s, 1, it - 1) /\ b = SubSeq(s, it, n)
  OBVIOUS
<1>4. /\ f \in Seq(Slot) /\ Len(f) = it - 1 /\ b \in Seq(Slot) /\ Len(b) = n - (it - 1)
      /\ \A j \in 1..(it - 1) : f[j] = s[j]
      /\ \A j \in 1..(n - (it - 1)) : b[j] = s[it - 1 + j]
      /\ f \o b = s
  <2>1. PICK m \in 0..Len(s) : m = it - 1
    BY <1>1, <1>2
  <2>2. m + 1 = it
    BY <1>2, <2>1
  <2>3. /\ SubSeq(s, 1, m) \in Seq(Slot) /\ Len(SubSeq(s, 1, m)) = m
        /\ \A j \in 1..m : SubSeq(s, 1, m)[j] = s[j]
        /\ SubSeq(s, m + 1, Len(s)) \in Seq(Slot) /\ Len(SubSeq(s, m + 1, Len(s))) = Len(s) - m
        /\ \A j \in 1..(Len(s) - m) : SubSeq(s, m + 1, Len(s))[j] = s[m + j]
        /\ SubSeq(s, 1, m) \o SubSeq(s, m + 1, Len(s)) = s
    BY CutFacts
  <2> QED BY <1>1, <1>3, <2>1, <2>2, <2>3
<1>5. CASE it > 1 /\ s[it - 1].is_deleted
  <2>1. PICK k \in Nat : k = it - 2
    BY <1>2, <1>5
  <2>2. k + 1 = it - 1 /\ k + 1 \in 1..n
    BY <1>2, <2>1
  <2>3. PICK a : a = SubSeq(f, 1, k)
    OBVIOUS
  <2>4. a \in Seq(Slot) /\ Len(a) = k /\ f = Append(a, f[k + 1]) /\ f[k + 1] \in Slot
    BY <1>4, <2>2, <2>3, FrontLast
  <2>5. f[k + 1] = Deleted
    <3>1. f[k + 1] = s[it - 1]
      BY <1>2, <1>4, <2>2
    <3> QED BY <1>5, <2>4, <3>1, SlotIs
  <2>6. f = a \o <<Deleted>>
    BY <2>4, <2>5, AppendJoin, DeletedIs
  <2>7. PICK r, q : r = (a \o <<x>>) \o b /\ q = [s EXCEPT ![it - 1] = x]
    OBVIOUS
  <2>8. <<x>> \in Seq(Slot) /\ Len(<<x>>) = 1 /\ <<x>>[1] = x
    OBVIOUS
  <2>9. /\ a \o <<x>> \in Seq(Slot) /\ Len(a \o <<x>>) = k + 1
        /\ \A j \in 1..(k + 1) : (a \o <<x>>)[j] = IF j <= k THEN a[j] ELSE <<x>>[j - k]
    BY <2>4, <2>8, JoinFacts
  <2>10. PICK ax : ax = a \o <<x>>
    OBVIOUS
  <2>11. ax \in Seq(Slot) /\ Len(ax) = k + 1 /\ ax[k + 1] = x /\ \A j \in 1..k : ax[j] = a[j]
    <3>1. /\ ax \in Seq(Slot) /\ Len(ax) = k + 1
          /\ \A j \in 1..(k + 1) : ax[j] = IF j <= k THEN a[j] ELSE <<x>>[j - k]
      BY <2>9, <2>10
    <3>2. ax[k + 1] = <<x>>[(k + 1) - k]
      <4>1. k + 1 \in 1..(k + 1) /\ ~(k + 1 <= k)
        BY <2>1
      <4> QED BY <3>1, <4>1
    <3>3. (k + 1) - k = 1
      BY <2>1
    <3>4. \A j \in 1..k : j \in 1..(k + 1) /\ j <= k
      BY <2>1
    <3> QED BY <2>8, <3>1, <3>2, <3>3, <3>4
  <2>12. \A j \in 1..k : a[j] = s[j]
    <3>1. Append(a, f[k + 1]) = f
      BY <2>4
    <3>2. \A j \in 1..k : Append(a, f[k + 1])[j] = a[j]
      BY <2>4, AppendProperties
    <3>3. \A j \in 1..k : f[j] = s[j]
      BY <1>4, <2>1, <2>2
    <3> QED BY <3>1, <3>2, <3>3
  <2>13. /\ r \in Seq(Slot) /\ Len(r) = n
         /\ \A j \in 1..n : r[j] = IF j <= k + 1 THEN ax[j] ELSE b[j - (k + 1)]
    <3>1. /\ ax \o b \in Seq(Slot) /\ Len(ax \o b) = Len(ax) + Len(b)
          /\ \A j \in 1..(Len(ax) + Len(b)) : (ax \o b)[j] = IF j <= Len(ax) THEN ax[j] ELSE b[j - Len(ax)]
      BY <1>4, <2>11, JoinFacts
    <3>2. Len(ax) + Len(b) = n
      BY <1>2, <1>4, <2>2, <2>11
    <3> QED BY <2>7, <2>10, <2>11, <3>1, <3>2
  <2>14. \A j \in 1..n : r[j] = IF j = it - 1 THEN x ELSE s[j]
    <3> TAKE j \in 1..n
    <3>1. CASE j <= k
      BY <2>1, <2>2, <2>11, <2>12, <2>13, <3>1
    <3>2. CASE j = k + 1
      BY <2>1, <2>2, <2>11, <2>13, <3>2
    <3>3. CASE j > k + 1
      <4>1. PICK i : i = j - (k + 1)
        OBVIOUS
      <4>2. i \in 1..(n - (it - 1)) /\ it - 1 + i = j
        BY <1>2, <2>1, <2>2, <3>3, <4>1
      <4>3. b[i] = s[j]
        BY <1>4, <4>2
      <4> QED BY <2>1, <2>2, <2>13, <3>3, <4>1, <4>3
    <3> QED BY <2>1, <3>1, <3>2, <3>3
  <2>15. s \in [1..n -> Slot]
    BY <1>1, LenProperties, ElementOfSeq
  <2>16. r \in [1..n -> Slot]
    BY <2>13, LenProperties, ElementOfSeq
  <2>17. q \in [1..n -> Slot] /\ \A j \in 1..n : q[j] = IF j = it - 1 THEN x ELSE s[j]
    BY <2>7, <2>15
  <2>18. r = q
    <3>1. \A j \in 1..n : r[j] = q[j]
      BY ONLY <2>14, <2>17
    <3>2. r = [j \in 1..n |-> r[j]] /\ q = [j \in 1..n |-> q[j]]
      BY ONLY <2>16, <2>17
    <3>3. [j \in 1..n |-> r[j]] = [j \in 1..n |-> q[j]]
      BY ONLY <3>1
    <3> QED BY ONLY <3>2, <3>3
  <2>19. Placed(s, it, x) = r
    BY <1>5, <2>7, <2>18 DEF Placed
  <2>20. s = (a \o <<Deleted>>) \o b /\ Len(a \o <<Deleted>>) = it - 1
    BY <1>4, <2>6
  <2> QED BY <1>4, <2>4, <2>7, <2>19, <2>20
<1>6. CASE ~(it > 1 /\ s[it - 1].is_deleted)
  <2>1. Placed(s, it, x) = (f \o <<x>>) \o b
    BY <1>1, <1>3, <1>6 DEF Placed, InsertAt
  <2>2. f \o <<>> = f
    BY <1>4, ConcatEmptySeq
  <2> QED BY <1>4, <2>1, <2>2
<1> QED BY <1>5, <1>6

-----------------------------------------------------------------------------
\* A tuple is written.

\* What is to be seen of a page to which the tuple x was added.
Wrote(p, q, x) ==
  /\ PageOK(q)
  /\ TotalSpace(q) >= TotalSpace(p) - (x.length + SLOT_SIZE)
  /\ \E a, b \in Seq(Stored) : Content(p) = a \o b /\ Content(q) = (a \o <<x>>) \o b
  /\ KeysOf(q.slots) = KeysOf(p.slots) \cup {x.key}
  /\ Sorted(p.slots) => Sorted(q.slots)

\* All live slots before it have keys that are not above k, those behind have greater ones.
Parts(s, it, k) == \A i \in LivePlaces(s) : IF i < it THEN s[i].key <= k ELSE s[i].key > k

LEMMA PartsJoin ==
  ASSUME NEW a \in Seq(Slot), NEW b \in Seq(Slot), NEW it \in Int, Len(a) = it - 1, NEW k \in Int,
         Parts(a \o b, it, k)
  PROVE  Below(KeysOf(a), {k}) /\ Below({k}, KeysOf(b))
<1> HIDE DEF Slot
<1>1. PICK c, m : c = a \o b /\ m = Len(a)
  OBVIOUS
<1>2. /\ \A i \in LivePlaces(a) : i \in LivePlaces(c) /\ c[i] = a[i]
      /\ \A i \in LivePlaces(b) : i + m \in LivePlaces(c) /\ c[i + m] = b[i]
  BY <1>1, JoinPlaces
<1>3. /\ \A i \in LivePlaces(a) : a[i].key \in Int /\ i \in 1..m
      /\ \A i \in LivePlaces(b) : b[i].key \in Int /\ i \in 1..Len(b)
  BY <1>1, KeysAre
<1>4. m \in Nat /\ Len(b) \in Nat
  BY <1>1, SlotAt
<1>5. ASSUME NEW i \in LivePlaces(a) PROVE a[i].key <= k
  <2>1. i < it
    BY <1>1, <1>3, <1>4
  <2>2. c[i].key <= k
    BY <1>1, <1>2, <2>1 DEF Parts
  <2> QED BY <1>2, <2>2
<1>6. ASSUME NEW i \in LivePlaces(b) PROVE k <= b[i].key
  <2>1. ~(i + m < it)
    BY <1>1, <1>3, <1>4
  <2>2. c[i + m].key > k
    BY <1>1, <1>2, <2>1 DEF Parts
  <2> QED BY <1>2, <1>3, <2>2
<1> QED BY <1>5, <1>6 DEF Below, KeysOf

LEMMA WritesAt ==
  ASSUME NEW p, PageOK(p), NEW x \in Stored, NEW it \in 1..(Len(p.slots) + 1),
         x.length + SLOT_SIZE <= CheckAvailableSpace(p), Sorted(p.slots) => Parts(p.slots, it, x.key),
         NEW q, q = [p EXCEPT !.slots = Placed(p.slots, it, x),
                              !.free_space_end = p.free_space_end - x.length]
  PROVE  Wrote(p, q, x)
<1> HIDE DEF Slot, Stored
<1>1. PICK s : s = p.slots
  OBVIOUS
<1>2. /\ s \in Seq(Slot) /\ p.free_space_end \in Nat /\ p.garbage_bytes \in Nat
      /\ p = [slots |-> s, free_space_end |-> p.free_space_end, garbage_bytes |-> p.garbage_bytes]
  BY <1>1 DEF PageOK, Page
<1>3. /\ x \in Slot /\ ~x.is_deleted /\ x.length \in Nat /\ x.length \in Lengths
      /\ x.key \in Keys /\ x.key \in Int
  BY StoredIs, LengthIs, Limits
<1>4. PICK a, b \in Seq(Slot), d \in {<<>>, <<Deleted>>} :
        /\ s = (a \o d) \o b /\ Placed(s, it, x) = (a \o <<x>>) \o b /\ Len(a \o d) = it - 1
  BY <1>1, <1>2, <1>3, PlacedIs
<1>5. PICK t : t = (a \o <<x>>) \o b
  OBVIOUS
<1>6. /\ q.slots = t /\ q.free_space_end = p.free_space_end - x.length
      /\ q.garbage_bytes = p.garbage_bytes
      /\ q = [slots |-> t, free_space_end |-> p.free_space_end - x.length,
              garbage_bytes |-> p.garbage_bytes]
  BY <1>1, <1>2, <1>4, <1>5
<1>7. PICK m : m = Len(d)
  OBVIOUS
<1>8. /\ d \in Seq(Slot) /\ m \in {0, 1} /\ Count(d) = 0 /\ Bytes(d) = 0 /\ LiveSlots(d) = <<>>
      /\ KeysOf(d) = {}
  <2>1. CASE d = <<>>
    <3>1. Len(d) = 0 /\ d \in Seq(Slot) /\ LiveSlots(d) = <<>> /\ Bytes(d) = 0 /\ Count(d) = 0
      BY <2>1, LiveEmpty, BytesEmpty DEF Count
    <3> QED BY <1>7, <2>1, <3>1, DeletedIs, KeysOne
  <2>2. CASE d = <<Deleted>>
    <3> HIDE DEF Deleted
    <3> QED BY <1>7, <2>2, DeletedIs, CountOne, KeysOne
  <2> QED BY <2>1, <2>2
<1>9. /\ <<x>> \in Seq(Slot) /\ <<x>> \in Seq(Stored) /\ Len(<<x>>) = 1 /\ Bytes(<<x>>) = x.length
      /\ LiveSlots(<<x>>) = <<x>> /\ Count(<<x>>) = 1 /\ KeysOf(<<x>>) = {x.key} /\ Sorted(<<x>>)
  <2>1. /\ <<x>> \in Seq(Slot) /\ Len(<<x>>) = 1 /\ Bytes(<<x>>) = x.length
        /\ LiveSlots(<<x>>) = <<x>> /\ Count(<<x>>) = 1
    BY <1>3, CountOne
  <2>2. KeysOf(<<x>>) = {x.key} /\ Sorted(<<x>>)
    BY <1>3, KeysOne
  <2>3. <<x>> \in Seq(Stored)
    OBVIOUS
  <2> QED BY <2>1, <2>2, <2>3
<1>10. PICK ad, ax : ad = a \o d /\ ax = a \o <<x>>
  OBVIOUS
<1>11. /\ ad \in Seq(Slot) /\ ax \in Seq(Slot) /\ Len(ad) = Len(a) + m /\ Len(ax) = Len(a) + 1
       /\ Count(ad) = Count(a) + 0 /\ Count(ax) = Count(a) + 1
       /\ Bytes(ad) = Bytes(a) + 0 /\ Bytes(ax) = Bytes(a) + x.length
       /\ LiveSlots(ad) = LiveSlots(a) \o <<>> /\ LiveSlots(ax) = LiveSlots(a) \o <<x>>
       /\ KeysOf(ad) = KeysOf(a) /\ KeysOf(ax) = KeysOf(a) \cup {x.key}
  <2>1. ad \in Seq(Slot) /\ ax \in Seq(Slot) /\ Len(ad) = Len(a) + m /\ Len(ax) = Len(a) + 1
    BY <1>7, <1>8, <1>9, <1>10, JoinFacts
  <2>2. /\ Count(ad) = Count(a) + 0 /\ Bytes(ad) = Bytes(a) + 0
        /\ LiveSlots(ad) = LiveSlots(a) \o <<>>
    <3>1. /\ LiveSlots(a \o d) = LiveSlots(a) \o LiveSlots(d)
          /\ Count(a \o d) = Count(a) + Count(d) /\ Bytes(a \o d) = Bytes(a) + Bytes(d)
      BY <1>8, CountJoin
    <3> QED BY <1>8, <1>10, <3>1
  <2>3. /\ Count(ax) = Count(a) + 1 /\ Bytes(ax) = Bytes(a) + x.length
        /\ LiveSlots(ax) = LiveSlots(a) \o <<x>>
    <3>1. PICK o \in Seq(Slot) : o = <<x>>
      BY <1>9
    <3>2. /\ LiveSlots(a \o o) = LiveSlots(a) \o LiveSlots(o)
          /\ Count(a \o o) = Count(a) + Count(o) /\ Bytes(a \o o) = Bytes(a) + Bytes(o)
      BY CountJoin
    <3> QED BY <1>9, <1>10, <3>1, <3>2
  <2>4. KeysOf(ad) = KeysOf(a) \cup KeysOf(d) /\ KeysOf(ax) = KeysOf(a) \cup KeysOf(<<x>>)
    BY <1>8, <1>9, <1>10, JoinKeys
  <2> QED BY <1>8, <1>9, <2>1, <2>2, <2>3, <2>4
<1>12. /\ t \in Seq(Slot) /\ Len(s) = Len(ad) + Len(b) /\ Len(t) = Len(ax) + Len(b)
       /\ Count(s) = Count(ad) + Count(b) /\ Count(t) = Count(ax) + Count(b)
       /\ Bytes(s) = Bytes(ad) + Bytes(b) /\ Bytes(t) = Bytes(ax) + Bytes(b)
       /\ LiveSlots(s) = LiveSlots(ad) \o LiveSlots(b) /\ LiveSlots(t) = LiveSlots(ax) \o LiveSlots(b)
       /\ KeysOf(s) = KeysOf(ad) \cup KeysOf(b) /\ KeysOf(t) = KeysOf(ax) \cup KeysOf(b)
  <2>1. s = ad \o b /\ t = ax \o b
    BY <1>4, <1>5, <1>10
  <2>2. t \in Seq(Slot) /\ Len(s) = Len(ad) + Len(b) /\ Len(t) = Len(ax) + Len(b)
    BY <1>11, <2>1, JoinFacts
  <2>3. /\ Count(s) = Count(ad) + Count(b) /\ Bytes(s) = Bytes(ad) + Bytes(b)
        /\ LiveSlots(s) = LiveSlots(ad) \o LiveSlots(b)
    BY <1>11, <2>1, CountJoin
  <2>4. /\ Count(t) = Count(ax) + Count(b) /\ Bytes(t) = Bytes(ax) + Bytes(b)
        /\ LiveSlots(t) = LiveSlots(ax) \o LiveSlots(b)
    BY <1>11, <2>1, CountJoin
  <2>5. KeysOf(s) = KeysOf(ad) \cup KeysOf(b) /\ KeysOf(t) = KeysOf(ax) \cup KeysOf(b)
    BY <1>11, <2>1, JoinKeys
  <2> QED BY <2>2, <2>3, <2>4, <2>5
<1>13. /\ Count(a) \in Nat /\ Count(b) \in Nat /\ Bytes(a) \in Nat /\ Bytes(b) \in Nat
       /\ Len(a) \in Nat /\ Len(b) \in Nat
       /\ LiveSlots(a) \in Seq(Stored) /\ LiveSlots(b) \in Seq(Stored)
  BY SlotTotals, SlotAt DEF Totals
<1>14. /\ Len(t) = Len(s) + 1 - m /\ Count(t) = Count(s) + 1 /\ Bytes(t) = Bytes(s) + x.length
       /\ Len(s) \in Nat /\ Count(s) \in Nat /\ Bytes(s) \in Nat /\ Count(s) <= Len(s)
  <2>1. Totals(s) /\ Len(s) \in Nat
    BY <1>2, SlotTotals, SlotAt
  <2>2. Len(t) = Len(s) + 1 - m /\ Count(t) = Count(s) + 1 /\ Bytes(t) = Bytes(s) + x.length
    <3>1. PICK la, lb, ca, cb, ba, bb, lx :
            /\ la = Len(a) /\ lb = Len(b) /\ ca = Count(a) /\ cb = Count(b)
            /\ ba = Bytes(a) /\ bb = Bytes(b) /\ lx = x.length
      OBVIOUS
    <3>2. /\ la \in Nat /\ lb \in Nat /\ ca \in Nat /\ cb \in Nat /\ ba \in Nat /\ bb \in Nat
          /\ lx \in Nat /\ m \in {0, 1}
      BY <1>3, <1>8, <1>13, <3>1
    <3>3. /\ Len(s) = (la + m) + lb /\ Len(t) = (la + 1) + lb
          /\ Count(s) = (ca + 0) + cb /\ Count(t) = (ca + 1) + cb
          /\ Bytes(s) = (ba + 0) + bb /\ Bytes(t) = (ba + lx) + bb
      BY <1>11, <1>12, <3>1
    <3>4. /\ (la + 1) + lb = ((la + m) + lb) + 1 - m /\ (ca + 1) + cb = ((ca + 0) + cb) + 1
          /\ (ba + lx) + bb = ((ba + 0) + bb) + lx
      BY ONLY <3>2
    <3> QED BY <3>1, <3>3, <3>4
  <2> QED BY <2>1, <2>2 DEF Totals
<1>15. LiveSlots(s) = LiveSlots(a) \o LiveSlots(b) /\ LiveSlots(t) = (LiveSlots(a) \o <<x>>) \o LiveSlots(b)
  <2>1. LiveSlots(a) \o <<>> = LiveSlots(a)
    BY <1>13, ConcatEmptySeq
  <2> QED BY <1>11, <1>12, <2>1
<1>16. KeysOf(t) = KeysOf(s) \cup {x.key}
  BY <1>11, <1>12
<1>17. Sorted(s) => Sorted(t)
  <2> SUFFICES ASSUME Sorted(s) PROVE Sorted(t)
    OBVIOUS
  <2>1. Parts(ad \o b, it, x.key)
    BY <1>1, <1>4, <1>10
  <2>2. it \in Int /\ Len(ad) = it - 1
    BY <1>1, <1>2, <1>4, <1>10, SlotAt
  <2>3. Below(KeysOf(ad), {x.key}) /\ Below({x.key}, KeysOf(b))
    BY <1>3, <1>11, <2>1, <2>2, PartsJoin
  <2>4. Sorted(ad) /\ Sorted(b) /\ Below(KeysOf(ad), KeysOf(b))
    BY <1>4, <1>10, <1>11, SortedJoin
  <2>5. Sorted(a)
    BY <1>8, <1>10, <2>4, SortedJoin
  <2>6. Sorted(ax)
    BY <1>9, <1>10, <1>11, <2>3, <2>5, SortedJoin
  <2>7. Below(KeysOf(ax), KeysOf(b))
    BY <1>11, <2>3, <2>4 DEF Below
  <2>8. ax \in Seq(Slot) /\ b \in Seq(Slot)
    BY <1>11
  <2>9. Sorted(ax \o b)
    BY ONLY <2>4, <2>6, <2>7, <2>8, SortedJoin
  <2> QED BY <1>5, <1>10, <2>9
<1>18. PICK n, c, z, e, g, l : /\ n = Len(s) /\ c = Count(s) /\ z = Bytes(s) /\ e = p.free_space_end
                               /\ g = p.garbage_bytes /\ l = x.length
  OBVIOUS
<1>19. /\ n \in Nat /\ c \in Nat /\ c <= n /\ z \in Nat /\ e \in Nat /\ g \in Nat /\ l \in Nat
       /\ SLOT_SIZE \in Nat /\ TUPLE_MIN \in Nat /\ m \in {0, 1}
       /\ e + z + g = LEAF_SPACE /\ n * SLOT_SIZE <= e /\ (n - c) * TUPLE_MIN <= g
       /\ l + SLOT_SIZE <= e - n * SLOT_SIZE
  BY <1>1, <1>2, <1>3, <1>8, <1>14, <1>18, Limits DEF PageOK, CheckAvailableSpace
<1>20. m = 1 => n - c >= 1
  <2>1. PICK la, lb, ca, cb : /\ la = Len(a) /\ lb = Len(b) /\ ca = Count(a) /\ cb = Count(b)
    OBVIOUS
  <2>2. la \in Nat /\ lb \in Nat /\ ca \in Nat /\ cb \in Nat /\ ca <= la /\ cb <= lb
    BY <1>13, <2>1, SlotTotals DEF Totals
  <2>3. n = (la + m) + lb /\ c = (ca + 0) + cb
    BY <1>11, <1>12, <1>18, <2>1
  <2> QED BY ONLY <2>2, <2>3
<1>201. PICK n1, c1, dead, dead1 : /\ n1 = n + 1 - m /\ c1 = c + 1
                                    /\ dead = n - c /\ dead1 = n1 - c1
  OBVIOUS
<1>202. /\ n1 \in Nat /\ c1 \in Nat /\ dead \in Nat /\ dead1 \in Nat
        /\ n1 <= n + 1 /\ dead1 <= dead
  BY ONLY <1>19, <1>20, <1>201
<1>21. PICK u, v, w, y : /\ u = n * SLOT_SIZE /\ v = n1 * SLOT_SIZE
                         /\ w = dead * TUPLE_MIN /\ y = dead1 * TUPLE_MIN
  OBVIOUS
<1>22. u \in Nat /\ v \in Nat /\ v <= u + SLOT_SIZE
  <2>1. n1 <= n + 1 /\ n1 \in Nat /\ n + 1 \in Nat /\ SLOT_SIZE \in Nat
    BY ONLY <1>19, <1>202
  <2>2. n1 * SLOT_SIZE <= (n + 1) * SLOT_SIZE
    BY ONLY <2>1, Times
  <2>3. (n + 1) * SLOT_SIZE = n * SLOT_SIZE + SLOT_SIZE
    BY ONLY <1>19
  <2>4. n * SLOT_SIZE \in Nat /\ n1 * SLOT_SIZE \in Nat
    BY ONLY <1>19, <2>1
  <2> QED BY <1>21, <2>2, <2>3, <2>4
<1>23. w <= g /\ y <= w /\ w \in Nat /\ y \in Nat
  <2>1. dead1 * TUPLE_MIN <= dead * TUPLE_MIN
    BY ONLY <1>19, <1>202, Times
  <2>2. dead1 * TUPLE_MIN \in Nat /\ dead * TUPLE_MIN \in Nat
    BY ONLY <1>19, <1>202
  <2>3. dead * TUPLE_MIN <= g
    BY <1>19, <1>201
  <2> QED BY <1>21, <2>1, <2>2, <2>3
<1>24. /\ e - l \in Nat /\ (e - l) + (z + l) + g = LEAF_SPACE /\ v <= e - l /\ y <= g
       /\ (e - l) - v + g >= e - u + g - (l + SLOT_SIZE)
  <2>1. /\ z \in Nat /\ e \in Nat /\ g \in Nat /\ l \in Nat /\ SLOT_SIZE \in Nat
        /\ e + z + g = LEAF_SPACE /\ l + SLOT_SIZE <= e - u
    BY ONLY <1>19, <1>21
  <2> QED BY ONLY <1>22, <1>23, <2>1
<1>25. Len(t) = n1 /\ Count(t) = c1 /\ Bytes(t) = z + l
  BY <1>14, <1>18, <1>201
<1>26. q \in Page
  BY <1>2, <1>6, <1>12, <1>18, <1>24 DEF Page
<1>27. PageOK(q)
  BY <1>6, <1>18, <1>201, <1>21, <1>24, <1>25, <1>26 DEF PageOK
<1>28. TotalSpace(q) >= TotalSpace(p) - (x.length + SLOT_SIZE)
  <2>1. TotalSpace(p) = e - u + g
    BY <1>1, <1>18, <1>21 DEF TotalSpace, CheckAvailableSpace
  <2>2. TotalSpace(q) = (e - l) - v + g
    BY <1>6, <1>18, <1>21, <1>25 DEF TotalSpace, CheckAvailableSpace
  <2>3. x.length = l
    BY <1>18
  <2>4. (e - l) - v + g >= (e - u + g) - (l + SLOT_SIZE)
    BY ONLY <1>19, <1>22, <1>24
  <2> QED BY ONLY <2>1, <2>2, <2>3, <2>4
<1> QED BY <1>1, <1>6, <1>13, <1>15, <1>16, <1>17, <1>27, <1>28 DEF Wrote, Content

LEMMA WriteIs ==
  ASSUME NEW p, PageOK(p), NEW key \in Keys, NEW size \in Nat, Smallest <= size,
         Smallest <= TotalSpace(p)
  PROVE  \E d \in Smallest..MAX_LEAF_PAGE_DATA :
           /\ d <= size /\ d <= TotalSpace(p)
           /\ size <= MAX_LEAF_PAGE_DATA /\ size <= TotalSpace(p) => d = size
           /\ Live(key, d - SLOT_SIZE) \in Stored
           /\ Wrote(p, WriteChunkLeaf(p, key, size), Live(key, d - SLOT_SIZE))
<1> HIDE DEF Slot, Stored
<1>1. PICK d : d = Least(Least(size, MAX_LEAF_PAGE_DATA), TotalSpace(p))
  OBVIOUS
<1>2. TotalSpace(p) \in Nat /\ PageFacts(p)
  BY PageIs DEF PageFacts
<1>3. /\ d \in Smallest..MAX_LEAF_PAGE_DATA /\ d <= size /\ d <= TotalSpace(p)
      /\ size <= MAX_LEAF_PAGE_DATA /\ size <= TotalSpace(p) => d = size
  BY <1>1, <1>2, Limits DEF Least
<1>4. d - SLOT_SIZE \in Lengths
  BY <1>3, Limits DEF Lengths
<1>5. PICK x : x = Live(key, d - SLOT_SIZE)
  OBVIOUS
<1>6. x \in Stored /\ x.key = key /\ x.length = d - SLOT_SIZE
  BY <1>4, <1>5, LiveIsStored
<1>7. x.length + SLOT_SIZE = d
  BY <1>3, <1>6, Limits
<1>8. PICK c : c = IF d > CheckAvailableSpace(p) THEN DefragmentPage(p) ELSE p
  OBVIOUS
<1>9. WriteChunkLeaf(p, key, size) =
        [c EXCEPT !.slots = Placed(c.slots, upper_bound(c.slots, key), Live(key, d - SLOT_SIZE)),
                  !.free_space_end = c.free_space_end - (d - SLOT_SIZE)]
  BY <1>1, <1>8 DEF WriteChunkLeaf
<1>10. /\ PageOK(c) /\ Content(c) = Content(p) /\ d <= CheckAvailableSpace(c)
       /\ TotalSpace(p) <= TotalSpace(c) /\ KeysOf(c.slots) = KeysOf(p.slots)
       /\ Sorted(p.slots) => Sorted(c.slots)
  <2>1. CASE d > CheckAvailableSpace(p)
    <3>1. c = DefragmentPage(p)
      BY <1>8, <2>1
    <3>2. /\ PageOK(c) /\ Content(c) = Content(p) /\ c.slots = Content(p)
          /\ CheckAvailableSpace(c) = LEAF_SPACE - Taken(p.slots)
          /\ TotalSpace(c) = LEAF_SPACE - Taken(p.slots)
      BY <3>1, DefragmentIs
    <3>3. /\ TotalSpace(p) = LEAF_SPACE - UsedSpace(p) /\ Taken(p.slots) <= UsedSpace(p)
          /\ Taken(p.slots) \in Nat /\ UsedSpace(p) \in Nat /\ p.slots \in Seq(Slot)
      BY <1>2 DEF PageFacts
    <3>4. TotalSpace(p) <= LEAF_SPACE - Taken(p.slots)
      BY <3>3, Limits
    <3>5. d <= CheckAvailableSpace(c) /\ TotalSpace(p) <= TotalSpace(c)
      <4>1. PICK a, b : a = LEAF_SPACE - Taken(p.slots) /\ b = TotalSpace(p)
        OBVIOUS
      <4>2. a \in Int /\ b \in Int /\ d \in Int /\ d <= b /\ b <= a
        BY <1>2, <1>3, <3>3, <3>4, <4>1, Limits
      <4>3. d <= a
        BY ONLY <4>2
      <4> QED BY <3>2, <3>4, <4>1, <4>3
    <3>6. KeysOf(Content(p)) = KeysOf(p.slots) /\ (Sorted(p.slots) <=> Sorted(Content(p)))
      BY <3>3, LiveKeys DEF Content
    <3> QED BY <3>2, <3>5, <3>6
  <2>2. CASE ~(d > CheckAvailableSpace(p))
    <3>1. c = p
      BY <1>8, <2>2
    <3>2. CheckAvailableSpace(p) \in Nat
      BY <1>2 DEF PageFacts
    <3>3. d <= CheckAvailableSpace(p) /\ TotalSpace(p) <= TotalSpace(p)
      BY <1>2, <1>3, <2>2, <3>2, Limits
    <3> QED BY <3>1, <3>3
  <2> QED BY <2>1, <2>2
<1>11. PICK q, it : q = WriteChunkLeaf(p, key, size) /\ it = upper_bound(c.slots, key)
  OBVIOUS
<1>12. /\ it \in 1..(Len(c.slots) + 1)
       /\ Sorted(c.slots) => Parts(c.slots, it, key)
  <2>1. c.slots \in Seq(Slot)
    BY <1>10, PageIs DEF PageFacts
  <2> QED BY <1>11, <2>1, UpperIs DEF Parts
<1>13. q = [c EXCEPT !.slots = Placed(c.slots, it, x), !.free_space_end = c.free_space_end - x.length]
  BY <1>5, <1>6, <1>9, <1>11
<1>14. Wrote(c, q, x)
  <2>1. x.length + SLOT_SIZE <= CheckAvailableSpace(c)
    BY <1>7, <1>10
  <2>2. Sorted(c.slots) => Parts(c.slots, it, x.key)
    BY <1>6, <1>12
  <2> QED BY <1>6, <1>10, <1>12, <1>13, <2>1, <2>2, WritesAt
<1>15. TotalSpace(q) >= TotalSpace(p) - (x.length + SLOT_SIZE)
  <2>1. TotalSpace(c) \in Nat /\ TotalSpace(q) \in Nat
    BY <1>10, <1>14, PageIs DEF PageFacts, Wrote
  <2>2. TotalSpace(q) >= TotalSpace(c) - d
    BY <1>7, <1>14 DEF Wrote
  <2>3. PICK a, b, e : a = TotalSpace(p) /\ b = TotalSpace(c) /\ e = TotalSpace(q)
    OBVIOUS
  <2>4. a \in Nat /\ b \in Nat /\ e \in Nat /\ d \in Int /\ e >= b - d /\ a <= b
    BY <1>2, <1>3, <1>10, <2>1, <2>2, <2>3, Limits
  <2>5. e >= a - d
    BY ONLY <2>4
  <2> QED BY <1>7, <2>3, <2>5
<1>16. Wrote(p, q, x)
  BY <1>10, <1>14, <1>15 DEF Wrote
<1> QED BY <1>3, <1>5, <1>6, <1>11, <1>16

-----------------------------------------------------------------------------
\* Tuples that are received one after the other.  The fold is defined for pages of any
\* contents.

AnyPage == [slots : Seq(Raw), free_space_end : Int, garbage_bytes : Int]
Write(page, t) == WriteChunkLeaf(page, t.key, t.length + SLOT_SIZE)

LEMMA AnySlots ==
  ASSUME NEW s \in Seq(Raw), NEW before, NEW x \in Raw
  PROVE  Placed(s, Bisect(s, before), x) \in Seq(Raw)
<1> HIDE DEF Raw
<1>1. PICK it, n : it = Bisect(s, before) /\ n = Len(s)
  OBVIOUS
<1>2. it \in 1..(n + 1) /\ n \in Nat
  BY <1>1, BisectIs, RawAt
<1>3. CASE it > 1 /\ s[it - 1].is_deleted
  <2>1. [s EXCEPT ![it - 1] = x] \in Seq(Raw)
    <3>1. it - 1 \in 1..Len(s)
      BY <1>1, <1>2, <1>3
    <3>2. s \in [1..Len(s) -> Raw]
      BY LenProperties, ElementOfSeq
    <3>3. [s EXCEPT ![it - 1] = x] \in [1..Len(s) -> Raw]
      BY <3>1, <3>2
    <3> QED BY <1>1, <1>2, <3>3
  <2> QED BY <1>1, <1>3, <2>1 DEF Placed
<1>4. CASE ~(it > 1 /\ s[it - 1].is_deleted)
  <2>1. PICK m \in 0..n : m = it - 1 /\ m + 1 = it
    BY <1>2
  <2>2. SubSeq(s, 1, m) \in Seq(Raw) /\ SubSeq(s, m + 1, n) \in Seq(Raw)
    BY <1>1, CutFacts
  <2>3. <<x>> \in Seq(Raw)
    OBVIOUS
  <2>4. (SubSeq(s, 1, m) \o <<x>>) \o SubSeq(s, m + 1, n) \in Seq(Raw)
    BY <2>2, <2>3, JoinFacts
  <2> QED BY <1>1, <1>4, <2>1, <2>4 DEF Placed, InsertAt
<1> QED BY <1>3, <1>4

LEMMA AnyWrite ==
  ASSUME NEW p \in AnyPage, NEW t \in Raw
  PROVE  Write(p, t) \in AnyPage
<1>1. t.key \in Int /\ t.length \in Int
  BY DEF Raw
<1> HIDE DEF Raw
<1>2. /\ p.slots \in Seq(Raw) /\ p.free_space_end \in Int /\ p.garbage_bytes \in Int
      /\ Len(p.slots) \in Nat
  BY RawAt DEF AnyPage
<1>3. LiveSlots(p.slots) \in Seq(Raw) /\ Bytes(LiveSlots(p.slots)) \in Int
  <2>1. LiveSlots(p.slots) \in Seq(Raw)
    BY <1>2, LiveSteps, LiveIs
  <2> QED BY <2>1, BytesInt
<1>4. SLOT_SIZE \in Nat /\ LEAF_SPACE \in Nat /\ MAX_LEAF_PAGE_DATA \in Nat
  BY Limits
<1>5. PICK d : d = Least(Least(t.length + SLOT_SIZE, MAX_LEAF_PAGE_DATA), TotalSpace(p))
  OBVIOUS
<1>6. d \in Int
  <2>1. Len(p.slots) * SLOT_SIZE \in Int
    BY <1>2, <1>4
  <2>2. TotalSpace(p) \in Int
    BY <1>2, <2>1 DEF TotalSpace, CheckAvailableSpace
  <2> QED BY <1>1, <1>4, <1>5, <2>2 DEF Least
<1>7. PICK c : c = IF d > CheckAvailableSpace(p) THEN DefragmentPage(p) ELSE p
  OBVIOUS
<1>8. c \in AnyPage
  <2>1. DefragmentPage(p) \in AnyPage
    <3>1. LEAF_SPACE - Bytes(LiveSlots(p.slots)) \in Int
      BY <1>3, <1>4
    <3> QED BY <1>3, <3>1 DEF DefragmentPage, MakePage, AnyPage
  <2> QED BY <1>7, <2>1
<1>9. PICK it, x : it = upper_bound(c.slots, t.key) /\ x = Live(t.key, d - SLOT_SIZE)
  OBVIOUS
<1>10. Write(p, t) = [c EXCEPT !.slots = Placed(c.slots, it, x),
                              !.free_space_end = c.free_space_end - (d - SLOT_SIZE)]
  BY <1>5, <1>7, <1>9 DEF Write, WriteChunkLeaf
<1>11. x \in Raw
  BY <1>1, <1>4, <1>6, <1>9 DEF Live, Raw
<1>12. Placed(c.slots, it, x) \in Seq(Raw)
  <2>1. c.slots \in Seq(Raw)
    BY <1>8 DEF AnyPage
  <2> QED BY <1>9, <1>11, <2>1, AnySlots DEF upper_bound
<1>13. c.free_space_end - (d - SLOT_SIZE) \in Int
  BY <1>4, <1>6, <1>8 DEF AnyPage
<1> QED BY <1>8, <1>10, <1>12, <1>13 DEF AnyPage

Received(p, ts, f) ==
  /\ f \in [0..Len(ts) -> AnyPage] /\ f[0] = p
  /\ \A i \in 1..Len(ts) : f[i] = Write(f[i - 1], ts[i])

LEMMA ReceiveSteps ==
  ASSUME NEW p \in AnyPage, NEW ts \in Seq(Raw)
  PROVE  \E f : Received(p, ts, f) /\ Receives(p, ts) = f[Len(ts)]
<1>1. PICK n : n = Len(ts)
  OBVIOUS
<1>2. n \in Nat /\ DOMAIN ts = 1..n /\ \A i \in 1..n : ts[i] \in Raw
  BY <1>1, RawAt
<1> HIDE DEF Raw, AnyPage
<1> DEFINE Dom == SUBSET (1..n)
           body(f) == [s \in Dom |-> IF s = {} THEN p ELSE Write(f[s \ {Max(s)}], ts[Max(s)])]
           iter == CHOOSE f : f = body(f)
           G == [a \in AnyPage |-> [i \in 1..n |-> Write(a, ts[i])]]
<1>3. Receives(p, ts) = iter[1..n]
  BY <1>2 DEF Receives, FoldLeft, MapThenFoldSet, Write
<1>4. \E f : f = body(f)
  <2>1. G \in [AnyPage -> [1..n -> AnyPage]]
    BY <1>2, AnyWrite
  <2>2. \A a \in AnyPage : \A i \in 1..n : G[a][i] = Write(a, ts[i])
    OBVIOUS
  <2> HIDE DEF G
  <2>3. PICK f : Folds(f, n, AnyPage, p, G)
    BY ONLY <1>2, <2>1, FoldExists, p \in AnyPage
  <2>4. /\ f \in [Dom -> AnyPage]
        /\ \A s \in Dom : f[s] = IF s = {} THEN p ELSE G[f[s \ {Max(s)}]][Max(s)]
    BY <2>3 DEF Folds
  <2>5. \A s \in Dom : f[s] = IF s = {} THEN p ELSE Write(f[s \ {Max(s)}], ts[Max(s)])
    <3> TAKE s \in Dom
    <3>1. CASE s # {}
      <4>1. Max(s) \in 1..n /\ s \ {Max(s)} \in Dom
        BY <1>2, <3>1, MaxFacts
      <4>2. f[s \ {Max(s)}] \in AnyPage
        BY <2>4, <4>1
      <4>3. G[f[s \ {Max(s)}]][Max(s)] = Write(f[s \ {Max(s)}], ts[Max(s)])
        BY <2>2, <4>1, <4>2
      <4>4. f[s] = G[f[s \ {Max(s)}]][Max(s)]
        BY <2>4, <3>1
      <4> QED BY <3>1, <4>3, <4>4
    <3>2. CASE s = {}
      BY <2>4, <3>2
    <3> QED BY <3>1, <3>2
  <2>6. f = [s \in Dom |-> f[s]]
    BY <2>4
  <2>7. f = body(f)
    BY <2>5, <2>6
  <2> QED BY <2>7
<1>5. iter = body(iter)
  BY <1>4
<1> HIDE DEF iter
<1>6. \A s \in Dom : iter[s] = IF s = {} THEN p ELSE Write(iter[s \ {Max(s)}], ts[Max(s)])
  BY <1>5
<1>7. PICK f : f = [i \in 0..n |-> iter[1..i]]
  OBVIOUS
<1>8. f[0] = p
  <2>1. 1..0 = {} /\ 0 \in 0..n
    BY <1>2
  <2> QED BY <1>6, <1>7, <2>1
<1>9. ASSUME NEW i \in 1..n
      PROVE  f[i] = Write(f[i - 1], ts[i])
  <2>1. i \in Nat /\ i # 0 /\ i \in 0..n /\ i - 1 \in 0..n
    BY <1>2
  <2>2. \A j \in 1..i : j \in 1..n
    BY <1>2
  <2>3. 1..i \in Dom /\ 1..i # {}
    <3>1. 1 \in 1..i
      BY <2>1
    <3> QED BY <2>2, <3>1
  <2>4. Max(1..i) = i /\ (1..i) \ {i} = 1..(i - 1)
    BY <2>1, MaxOfFirst
  <2>5. iter[1..i] = Write(iter[1..(i - 1)], ts[i])
    BY <1>6, <2>3, <2>4
  <2> QED BY <1>7, <2>1, <2>5
<1> DEFINE T == {i \in Nat : i <= n => f[i] \in AnyPage}
<1>10. 0 \in T
  BY <1>8
<1>11. ASSUME NEW i \in Nat, i \in T PROVE i + 1 \in T
  <2> SUFFICES ASSUME i + 1 <= n PROVE f[i + 1] \in AnyPage
    OBVIOUS
  <2>1. i + 1 \in 1..n /\ (i + 1) - 1 = i /\ i <= n
    BY <1>2
  <2>2. f[i + 1] = Write(f[i], ts[i + 1])
    BY <1>9, <2>1
  <2>3. f[i] \in AnyPage /\ ts[i + 1] \in Raw
    BY <1>2, <1>11, <2>1
  <2> QED BY <2>2, <2>3, AnyWrite
<1> HIDE DEF T
<1>12. \A i \in Nat : i \in T
  BY <1>10, <1>11, Induction
<1>13. \A i \in 0..n : f[i] \in AnyPage
  BY <1>12 DEF T
<1>14. f \in [0..n -> AnyPage]
  BY <1>7, <1>13
<1>15. Received(p, ts, f)
  BY <1>1, <1>8, <1>9, <1>14 DEF Received
<1>16. n \in 0..n
  BY <1>2
<1> QED BY <1>1, <1>3, <1>7, <1>15, <1>16

LEMMA ReceivesAre ==
  ASSUME NEW p \in AnyPage, NEW ts \in Seq(Raw), NEW f, Received(p, ts, f)
  PROVE  Receives(p, ts) = f[Len(ts)] /\ Receives(p, ts) \in AnyPage
<1> HIDE DEF Raw, AnyPage
<1>1. PICK n : n = Len(ts)
  OBVIOUS
<1>2. PICK g : Received(p, ts, g) /\ Receives(p, ts) = g[n]
  BY <1>1, ReceiveSteps
<1>3. n \in Nat
  BY <1>1, RawAt
<1> DEFINE T == {i \in Nat : i <= n => f[i] = g[i]}
<1>4. 0 \in T
  BY <1>2 DEF Received
<1>5. ASSUME NEW i \in Nat, i \in T PROVE i + 1 \in T
  <2> SUFFICES ASSUME i + 1 <= n PROVE f[i + 1] = g[i + 1]
    OBVIOUS
  <2>1. i + 1 \in 1..n /\ (i + 1) - 1 = i /\ i <= n
    BY <1>3
  <2>2. f[i + 1] = Write(f[i], ts[i + 1]) /\ g[i + 1] = Write(g[i], ts[i + 1])
    BY <1>1, <1>2, <2>1 DEF Received
  <2> QED BY <1>5, <2>1, <2>2
<1> HIDE DEF T
<1>6. n \in T
  BY <1>3, <1>4, <1>5, Induction
<1>7. f[n] = g[n]
  BY <1>3, <1>6 DEF T
<1>8. g[n] \in AnyPage
  BY <1>1, <1>2, <1>3 DEF Received
<1> QED BY <1>1, <1>2, <1>7, <1>8

LEMMA ReceivesNone == ASSUME NEW p \in AnyPage PROVE Receives(p, <<>>) = p
<1> HIDE DEF AnyPage
<1>1. <<>> \in Seq(Raw) /\ Len(<<>>) = 0
  OBVIOUS
<1>2. PICK f : f = [i \in 0..0 |-> p]
  OBVIOUS
<1>3. f \in [0..0 -> AnyPage] /\ f[0] = p
  BY <1>1, <1>2
<1>4. Received(p, <<>>, f)
  BY <1>1, <1>3 DEF Received
<1> QED BY <1>1, <1>3, <1>4, ReceivesAre

LEMMA ReceivesAppend ==
  ASSUME NEW p \in AnyPage, NEW s \in Seq(Raw), NEW x \in Raw
  PROVE  Receives(p, Append(s, x)) = Write(Receives(p, s), x)
<1>1. PICK n, a : n = Len(s) /\ a = Append(s, x)
  OBVIOUS
<1>2. n \in Nat
  BY <1>1, RawAt
<1> HIDE DEF Raw, AnyPage
<1>3. a \in Seq(Raw) /\ Len(a) = n + 1 /\ a[n + 1] = x /\ \A j \in 1..n : a[j] = s[j]
  BY <1>1, AppendProperties
<1>4. PICK f : Received(p, s, f) /\ Receives(p, s) = f[n]
  BY <1>1, ReceiveSteps
<1>5. /\ f \in [0..n -> AnyPage] /\ f[0] = p
      /\ \A i \in 1..n : f[i] = Write(f[i - 1], s[i])
  BY <1>1, <1>4 DEF Received
<1>6. f[n] \in AnyPage
  BY <1>2, <1>5
<1>7. PICK z : z = Write(f[n], x)
  OBVIOUS
<1>8. z \in AnyPage
  BY <1>6, <1>7, AnyWrite
<1>9. PICK g : g = [i \in 0..(n + 1) |-> IF i = n + 1 THEN z ELSE f[i]]
  OBVIOUS
<1>10. g \in [0..(n + 1) -> AnyPage]
  <2>1. \A i \in 0..(n + 1) : (IF i = n + 1 THEN z ELSE f[i]) \in AnyPage
    <3> TAKE i \in 0..(n + 1)
    <3>1. i = n + 1 \/ i \in 0..n
      BY <1>2
    <3>2. \A j \in 0..n : f[j] \in AnyPage
      BY <1>5
    <3> QED BY <1>8, <3>1, <3>2
  <2> QED BY <1>9, <2>1
<1>11. g[0] = p
  <2>1. 0 \in 0..(n + 1) /\ 0 # n + 1
    BY <1>2
  <2> QED BY <1>5, <1>9, <2>1
<1>12. \A i \in 1..(n + 1) : g[i] = Write(g[i - 1], a[i])
  <2> TAKE i \in 1..(n + 1)
  <2>1. CASE i = n + 1
    <3>1. i - 1 = n /\ n \in 0..(n + 1) /\ n # n + 1 /\ i \in 0..(n + 1)
      BY <1>2, <2>1
    <3> QED BY <1>3, <1>7, <1>9, <2>1, <3>1
  <2>2. CASE i # n + 1
    <3>1. i \in 1..n /\ i \in 0..(n + 1) /\ i - 1 \in 0..(n + 1) /\ i - 1 # n + 1
      BY <1>2, <2>2
    <3> QED BY <1>3, <1>5, <1>9, <2>2, <3>1
  <2> QED BY <2>1, <2>2
<1>13. Received(p, a, g)
  BY <1>3, <1>10, <1>11, <1>12 DEF Received
<1>14. Receives(p, a) = g[n + 1]
  BY <1>3, <1>13, ReceivesAre
<1>15. g[n + 1] = z
  <2>1. n + 1 \in 0..(n + 1)
    BY <1>2
  <2> QED BY <1>9, <2>1
<1> QED BY <1>1, <1>4, <1>7, <1>14, <1>15

-----------------------------------------------------------------------------
\* The tuples of a key among slots: their number and their bytes.

Sum == [count : Int, bytes : Int]
Nothing == [count |-> 0, bytes |-> 0]
Add(sum, s, key) == IF s.key = key THEN [count |-> sum.count + 1, bytes |-> sum.bytes + s.length]
                    ELSE sum
Tally(slots, key) ==
  FoldLeft(LAMBDA sum, s : IF s.key = key THEN [count |-> sum.count + 1,
                                                bytes |-> sum.bytes + s.length] ELSE sum,
           [count |-> 0, bytes |-> 0], slots)

LEMMA NothingIs == Nothing \in Sum
BY DEF Nothing, Sum

LEMMA AnyAdd ==
  ASSUME NEW sum \in Sum, NEW s \in Raw, NEW key PROVE Add(sum, s, key) \in Sum
BY DEF Sum, Raw, Add

Tallied(key, ts, f) ==
  /\ f \in [0..Len(ts) -> Sum] /\ f[0] = Nothing
  /\ \A i \in 1..Len(ts) : f[i] = Add(f[i - 1], ts[i], key)

LEMMA TallySteps ==
  ASSUME NEW key, NEW ts \in Seq(Raw)
  PROVE  \E f : Tallied(key, ts, f) /\ Tally(ts, key) = f[Len(ts)]
<1>1. PICK n : n = Len(ts)
  OBVIOUS
<1>2. n \in Nat /\ DOMAIN ts = 1..n /\ \A i \in 1..n : ts[i] \in Raw
  BY <1>1, RawAt
<1> HIDE DEF Raw, Sum
<1> DEFINE Dom == SUBSET (1..n)
           body(f) == [s \in Dom |-> IF s = {} THEN Nothing ELSE Add(f[s \ {Max(s)}], ts[Max(s)], key)]
           iter == CHOOSE f : f = body(f)
           G == [a \in Sum |-> [i \in 1..n |-> Add(a, ts[i], key)]]
<1>3. Tally(ts, key) = iter[1..n]
  BY <1>2 DEF Tally, FoldLeft, MapThenFoldSet, Add, Nothing
<1>4. \E f : f = body(f)
  <2>1. G \in [Sum -> [1..n -> Sum]]
    BY <1>2, AnyAdd
  <2>2. \A a \in Sum : \A i \in 1..n : G[a][i] = Add(a, ts[i], key)
    OBVIOUS
  <2> HIDE DEF G
  <2>3. PICK f : Folds(f, n, Sum, Nothing, G)
    BY ONLY <1>2, <2>1, FoldExists, NothingIs
  <2>4. /\ f \in [Dom -> Sum]
        /\ \A s \in Dom : f[s] = IF s = {} THEN Nothing ELSE G[f[s \ {Max(s)}]][Max(s)]
    BY <2>3 DEF Folds
  <2>5. \A s \in Dom : f[s] = IF s = {} THEN Nothing ELSE Add(f[s \ {Max(s)}], ts[Max(s)], key)
    <3> TAKE s \in Dom
    <3>1. CASE s # {}
      <4>1. Max(s) \in 1..n /\ s \ {Max(s)} \in Dom
        BY <1>2, <3>1, MaxFacts
      <4>2. f[s \ {Max(s)}] \in Sum
        BY <2>4, <4>1
      <4>3. G[f[s \ {Max(s)}]][Max(s)] = Add(f[s \ {Max(s)}], ts[Max(s)], key)
        BY <2>2, <4>1, <4>2
      <4>4. f[s] = G[f[s \ {Max(s)}]][Max(s)]
        BY <2>4, <3>1
      <4> QED BY <3>1, <4>3, <4>4
    <3>2. CASE s = {}
      BY <2>4, <3>2
    <3> QED BY <3>1, <3>2
  <2>6. f = [s \in Dom |-> f[s]]
    BY <2>4
  <2>7. f = body(f)
    BY <2>5, <2>6
  <2> QED BY <2>7
<1>5. iter = body(iter)
  BY <1>4
<1> HIDE DEF iter
<1>6. \A s \in Dom : iter[s] = IF s = {} THEN Nothing ELSE Add(iter[s \ {Max(s)}], ts[Max(s)], key)
  BY <1>5
<1>7. PICK f : f = [i \in 0..n |-> iter[1..i]]
  OBVIOUS
<1>8. f[0] = Nothing
  <2>1. 1..0 = {} /\ 0 \in 0..n
    BY <1>2
  <2> QED BY <1>6, <1>7, <2>1
<1>9. ASSUME NEW i \in 1..n
      PROVE  f[i] = Add(f[i - 1], ts[i], key)
  <2>1. i \in Nat /\ i # 0 /\ i \in 0..n /\ i - 1 \in 0..n
    BY <1>2
  <2>2. \A j \in 1..i : j \in 1..n
    BY <1>2
  <2>3. 1..i \in Dom /\ 1..i # {}
    <3>1. 1 \in 1..i
      BY <2>1
    <3> QED BY <2>2, <3>1
  <2>4. Max(1..i) = i /\ (1..i) \ {i} = 1..(i - 1)
    BY <2>1, MaxOfFirst
  <2>5. iter[1..i] = Add(iter[1..(i - 1)], ts[i], key)
    BY <1>6, <2>3, <2>4
  <2> QED BY <1>7, <2>1, <2>5
<1> DEFINE T == {i \in Nat : i <= n => f[i] \in Sum}
<1>10. 0 \in T
  BY <1>8, NothingIs
<1>11. ASSUME NEW i \in Nat, i \in T PROVE i + 1 \in T
  <2> SUFFICES ASSUME i + 1 <= n PROVE f[i + 1] \in Sum
    OBVIOUS
  <2>1. i + 1 \in 1..n /\ (i + 1) - 1 = i /\ i <= n
    BY <1>2
  <2>2. f[i + 1] = Add(f[i], ts[i + 1], key)
    BY <1>9, <2>1
  <2>3. f[i] \in Sum /\ ts[i + 1] \in Raw
    BY <1>2, <1>11, <2>1
  <2> QED BY <2>2, <2>3, AnyAdd
<1> HIDE DEF T
<1>12. \A i \in Nat : i \in T
  BY <1>10, <1>11, Induction
<1>13. \A i \in 0..n : f[i] \in Sum
  BY <1>12 DEF T
<1>14. f \in [0..n -> Sum]
  BY <1>7, <1>13
<1>15. Tallied(key, ts, f)
  BY <1>1, <1>8, <1>9, <1>14 DEF Tallied
<1>16. n \in 0..n
  BY <1>2
<1> QED BY <1>1, <1>3, <1>7, <1>15, <1>16

LEMMA TallyIs ==
  ASSUME NEW key, NEW ts \in Seq(Raw), NEW f, Tallied(key, ts, f)
  PROVE  Tally(ts, key) = f[Len(ts)] /\ Tally(ts, key) \in Sum
<1> HIDE DEF Raw, Sum
<1>1. PICK n : n = Len(ts)
  OBVIOUS
<1>2. PICK g : Tallied(key, ts, g) /\ Tally(ts, key) = g[n]
  BY <1>1, TallySteps
<1>3. n \in Nat
  BY <1>1, RawAt
<1> DEFINE T == {i \in Nat : i <= n => f[i] = g[i]}
<1>4. 0 \in T
  BY <1>2 DEF Tallied
<1>5. ASSUME NEW i \in Nat, i \in T PROVE i + 1 \in T
  <2> SUFFICES ASSUME i + 1 <= n PROVE f[i + 1] = g[i + 1]
    OBVIOUS
  <2>1. i + 1 \in 1..n /\ (i + 1) - 1 = i /\ i <= n
    BY <1>3
  <2>2. f[i + 1] = Add(f[i], ts[i + 1], key) /\ g[i + 1] = Add(g[i], ts[i + 1], key)
    BY <1>1, <1>2, <2>1 DEF Tallied
  <2> QED BY <1>5, <2>1, <2>2
<1> HIDE DEF T
<1>6. n \in T
  BY <1>3, <1>4, <1>5, Induction
<1>7. f[n] = g[n]
  BY <1>3, <1>6 DEF T
<1>8. g[n] \in Sum
  BY <1>1, <1>2, <1>3 DEF Tallied
<1> QED BY <1>1, <1>2, <1>7, <1>8

LEMMA TallyEmpty == ASSUME NEW key PROVE Tally(<<>>, key) = Nothing
<1> HIDE DEF Sum
<1>1. <<>> \in Seq(Raw) /\ Len(<<>>) = 0
  OBVIOUS
<1>2. PICK f : f = [i \in 0..0 |-> Nothing]
  OBVIOUS
<1>3. f \in [0..0 -> Sum] /\ f[0] = Nothing
  BY <1>1, <1>2, NothingIs
<1>4. Tallied(key, <<>>, f)
  BY <1>1, <1>3 DEF Tallied
<1> QED BY <1>1, <1>3, <1>4, TallyIs

LEMMA TallyAppend ==
  ASSUME NEW key, NEW s \in Seq(Raw), NEW x \in Raw
  PROVE  Tally(Append(s, x), key) = Add(Tally(s, key), x, key)
<1>1. PICK n, a : n = Len(s) /\ a = Append(s, x)
  OBVIOUS
<1>2. n \in Nat
  BY <1>1, RawAt
<1> HIDE DEF Raw, Sum
<1>3. a \in Seq(Raw) /\ Len(a) = n + 1 /\ a[n + 1] = x /\ \A j \in 1..n : a[j] = s[j]
  BY <1>1, AppendProperties
<1>4. PICK f : Tallied(key, s, f) /\ Tally(s, key) = f[n]
  BY <1>1, TallySteps
<1>5. /\ f \in [0..n -> Sum] /\ f[0] = Nothing
      /\ \A i \in 1..n : f[i] = Add(f[i - 1], s[i], key)
  BY <1>1, <1>4 DEF Tallied
<1>6. f[n] \in Sum
  BY <1>2, <1>5
<1>7. PICK z : z = Add(f[n], x, key)
  OBVIOUS
<1>8. z \in Sum
  BY <1>6, <1>7, AnyAdd
<1>9. PICK g : g = [i \in 0..(n + 1) |-> IF i = n + 1 THEN z ELSE f[i]]
  OBVIOUS
<1>10. g \in [0..(n + 1) -> Sum]
  <2>1. \A i \in 0..(n + 1) : (IF i = n + 1 THEN z ELSE f[i]) \in Sum
    <3> TAKE i \in 0..(n + 1)
    <3>1. i = n + 1 \/ i \in 0..n
      BY <1>2
    <3>2. \A j \in 0..n : f[j] \in Sum
      BY <1>5
    <3> QED BY <1>8, <3>1, <3>2
  <2> QED BY <1>9, <2>1
<1>11. g[0] = Nothing
  <2>1. 0 \in 0..(n + 1) /\ 0 # n + 1
    BY <1>2
  <2> QED BY <1>5, <1>9, <2>1
<1>12. \A i \in 1..(n + 1) : g[i] = Add(g[i - 1], a[i], key)
  <2> TAKE i \in 1..(n + 1)
  <2>1. CASE i = n + 1
    <3>1. i - 1 = n /\ n \in 0..(n + 1) /\ n # n + 1 /\ i \in 0..(n + 1)
      BY <1>2, <2>1
    <3> QED BY <1>3, <1>7, <1>9, <2>1, <3>1
  <2>2. CASE i # n + 1
    <3>1. i \in 1..n /\ i \in 0..(n + 1) /\ i - 1 \in 0..(n + 1) /\ i - 1 # n + 1
      BY <1>2, <2>2
    <3> QED BY <1>3, <1>5, <1>9, <2>2, <3>1
  <2> QED BY <2>1, <2>2
<1>13. Tallied(key, a, g)
  BY <1>3, <1>10, <1>11, <1>12 DEF Tallied
<1>14. Tally(a, key) = g[n + 1]
  BY <1>3, <1>13, TallyIs
<1>15. g[n + 1] = z
  <2>1. n + 1 \in 0..(n + 1)
    BY <1>2
  <2> QED BY <1>9, <2>1
<1> QED BY <1>1, <1>4, <1>7, <1>14, <1>15

\* As numbers.
Number(s, key) == Tally(s, key).count
Volume(s, key) == Tally(s, key).bytes

LEMMA Tallies ==
  ASSUME NEW s \in Seq(Raw), NEW key
  PROVE  /\ Number(s, key) \in Int /\ Volume(s, key) \in Int
         /\ Tally(s, key) = [count |-> Number(s, key), bytes |-> Volume(s, key)]
<1> HIDE DEF Raw
<1>1. Tally(s, key) \in Sum
  BY TallySteps, TallyIs
<1> QED BY <1>1 DEF Sum, Number, Volume

LEMMA TallyOfNone == ASSUME NEW key PROVE Number(<<>>, key) = 0 /\ Volume(<<>>, key) = 0
BY TallyEmpty DEF Nothing, Number, Volume

LEMMA TallyOfMore ==
  ASSUME NEW s \in Seq(Raw), NEW x \in Raw, NEW key
  PROVE  /\ Number(Append(s, x), key) = Number(s, key) + (IF x.key = key THEN 1 ELSE 0)
         /\ Volume(Append(s, x), key) = Volume(s, key) + (IF x.key = key THEN x.length ELSE 0)
<1>1. Number(s, key) \in Int /\ Volume(s, key) \in Int
  BY Tallies
<1>2. Tally(Append(s, x), key) = Add(Tally(s, key), x, key)
  BY TallyAppend
<1> QED BY <1>1, <1>2 DEF Number, Volume, Add

LEMMA TallyOfOne ==
  ASSUME NEW x \in Raw, NEW key
  PROVE  /\ Number(<<x>>, key) = IF x.key = key THEN 1 ELSE 0
         /\ Volume(<<x>>, key) = IF x.key = key THEN x.length ELSE 0
<1> HIDE DEF Raw, Number, Volume
<1>0. <<>> \in Seq(Raw) /\ Append(<<>>, x) = <<x>>
  OBVIOUS
<1>1. PICK e \in Seq(Raw) : e = <<>> /\ Append(e, x) = <<x>>
  BY <1>0
<1>2. x.length \in Int
  BY DEF Raw
<1>3. /\ Number(Append(e, x), key) = Number(e, key) + (IF x.key = key THEN 1 ELSE 0)
      /\ Volume(Append(e, x), key) = Volume(e, key) + (IF x.key = key THEN x.length ELSE 0)
  BY TallyOfMore
<1>4. Number(e, key) = 0 /\ Volume(e, key) = 0
  BY <1>1, TallyOfNone
<1>5. /\ Number(<<x>>, key) = 0 + (IF x.key = key THEN 1 ELSE 0)
      /\ Volume(<<x>>, key) = 0 + (IF x.key = key THEN x.length ELSE 0)
  BY <1>1, <1>3, <1>4
<1> QED BY <1>2, <1>5

LEMMA TallyJoin ==
  ASSUME NEW a \in Seq(Raw), NEW b \in Seq(Raw), NEW key
  PROVE  /\ Number(a \o b, key) = Number(a, key) + Number(b, key)
         /\ Volume(a \o b, key) = Volume(a, key) + Volume(b, key)
<1> HIDE DEF Raw, Number, Volume
<1> DEFINE T == {t \in Seq(Raw) : /\ Number(a \o t, key) = Number(a, key) + Number(t, key)
                                  /\ Volume(a \o t, key) = Volume(a, key) + Volume(t, key)}
<1>1. <<>> \in T
  <2>1. a \o <<>> = a /\ <<>> \in Seq(Raw)
    BY ConcatEmptySeq
  <2>2. Number(a, key) \in Int /\ Volume(a, key) \in Int
    BY Tallies
  <2> QED BY <2>1, <2>2, TallyOfNone
<1>2. ASSUME NEW t \in Seq(Raw), NEW x \in Raw, t \in T PROVE Append(t, x) \in T
  <2>1. a \o Append(t, x) = Append(a \o t, x) /\ a \o t \in Seq(Raw) /\ Append(t, x) \in Seq(Raw)
    BY JoinAppend, JoinFacts
  <2>2. PICK c, l : /\ c = (IF x.key = key THEN 1 ELSE 0)
                    /\ l = (IF x.key = key THEN x.length ELSE 0)
    OBVIOUS
  <2>3. c \in Int /\ l \in Int
    BY <2>2 DEF Raw
  <2>4. /\ Number(Append(a \o t, x), key) = Number(a \o t, key) + c
        /\ Volume(Append(a \o t, x), key) = Volume(a \o t, key) + l
        /\ Number(Append(t, x), key) = Number(t, key) + c
        /\ Volume(Append(t, x), key) = Volume(t, key) + l
    <3>0. PICK u \in Seq(Raw) : u = a \o t
      BY <2>1
    <3>1. /\ Number(Append(u, x), key) = Number(u, key) + (IF x.key = key THEN 1 ELSE 0)
          /\ Volume(Append(u, x), key) = Volume(u, key) + (IF x.key = key THEN x.length ELSE 0)
      BY TallyOfMore
    <3>2. /\ Number(Append(t, x), key) = Number(t, key) + (IF x.key = key THEN 1 ELSE 0)
          /\ Volume(Append(t, x), key) = Volume(t, key) + (IF x.key = key THEN x.length ELSE 0)
      BY TallyOfMore
    <3> QED BY <2>2, <3>0, <3>1, <3>2
  <2>5. /\ Number(a, key) \in Int /\ Volume(a, key) \in Int
        /\ Number(t, key) \in Int /\ Volume(t, key) \in Int
    BY Tallies
  <2>6. /\ Number(a \o t, key) = Number(a, key) + Number(t, key)
        /\ Volume(a \o t, key) = Volume(a, key) + Volume(t, key)
    BY <1>2
  <2>7. /\ Number(a, key) + (Number(t, key) + c) = (Number(a, key) + Number(t, key)) + c
        /\ Volume(a, key) + (Volume(t, key) + l) = (Volume(a, key) + Volume(t, key)) + l
    BY ONLY <2>3, <2>5
  <2>8. /\ Number(a \o Append(t, x), key) = Number(a, key) + Number(Append(t, x), key)
        /\ Volume(a \o Append(t, x), key) = Volume(a, key) + Volume(Append(t, x), key)
    BY ONLY <2>1, <2>4, <2>6, <2>7
  <2> QED BY <2>1, <2>8
<1> HIDE DEF T
<1>3. b \in T
  BY <1>1, <1>2, SeqInduction
<1> QED BY <1>3 DEF T

\* The slots of deleted tuples have no key.
LEMMA TallyLive ==
  ASSUME NEW s \in Seq(Slot), NEW key \in Keys
  PROVE  Number(LiveSlots(s), key) = Number(s, key) /\ Volume(LiveSlots(s), key) = Volume(s, key)
<1> HIDE DEF Slot, Stored, Raw, Number, Volume
<1> DEFINE T == {t \in Seq(Slot) : /\ Number(LiveSlots(t), key) = Number(t, key)
                                   /\ Volume(LiveSlots(t), key) = Volume(t, key)}
<1>1. <<>> \in T
  BY LiveEmpty
<1>2. ASSUME NEW t \in Seq(Slot), NEW x \in Slot, t \in T PROVE Append(t, x) \in T
  <2>1. Append(t, x) \in Seq(Slot) /\ t \in Seq(Raw) /\ x \in Raw
    BY AppendProperties, RawSlots, SlotIs
  <2>2. /\ LiveSlots(t) \in Seq(Raw)
        /\ LiveSlots(Append(t, x)) = IF x.is_deleted THEN LiveSlots(t) ELSE Append(LiveSlots(t), x)
    BY <2>1, LiveAppend
  <2>3. PICK c, l : /\ c = (IF x.key = key THEN 1 ELSE 0)
                    /\ l = (IF x.key = key THEN x.length ELSE 0)
    OBVIOUS
  <2>4. /\ Number(Append(t, x), key) = Number(t, key) + c
        /\ Volume(Append(t, x), key) = Volume(t, key) + l
        /\ Number(Append(LiveSlots(t), x), key) = Number(LiveSlots(t), key) + c
        /\ Volume(Append(LiveSlots(t), x), key) = Volume(LiveSlots(t), key) + l
    BY <2>1, <2>2, <2>3, TallyOfMore
  <2>5. x.is_deleted => c = 0 /\ l = 0
    <3>1. key # 0
      BY Limits
    <3> QED BY <2>3, <3>1, SlotIs
  <2>6. Number(t, key) \in Int /\ Volume(t, key) \in Int
    BY <2>1, Tallies
  <2>7. Number(LiveSlots(t), key) = Number(t, key) /\ Volume(LiveSlots(t), key) = Volume(t, key)
    BY <1>2
  <2>8. CASE x.is_deleted
    <3>1. LiveSlots(Append(t, x)) = LiveSlots(t) /\ c = 0 /\ l = 0
      BY <2>2, <2>5, <2>8
    <3>2. Number(Append(t, x), key) = Number(t, key) /\ Volume(Append(t, x), key) = Volume(t, key)
      BY ONLY <2>4, <2>6, <3>1
    <3> QED BY <2>1, <2>7, <3>1, <3>2
  <2>9. CASE ~x.is_deleted
    <3>1. LiveSlots(Append(t, x)) = Append(LiveSlots(t), x)
      BY <2>2, <2>9
    <3> QED BY <2>1, <2>4, <2>7, <3>1
  <2> QED BY <2>8, <2>9
<1> HIDE DEF T
<1>3. s \in T
  BY <1>1, <1>2, SeqInduction
<1> QED BY <1>3 DEF T

-----------------------------------------------------------------------------
\* Tuples for which there is room are received whole.

SameTally(q, p, ts) ==
  \A k \in Keys : /\ Number(q.slots, k) = Number(p.slots, k) + Number(ts, k)
                  /\ Volume(q.slots, k) = Volume(p.slots, k) + Volume(ts, k)

Got(p, q, ts) ==
  /\ PageOK(q)
  /\ TotalSpace(q) >= TotalSpace(p) - Taken(ts)
  /\ KeysOf(q.slots) = KeysOf(p.slots) \cup KeysOf(ts)
  /\ Sorted(p.slots) => Sorted(q.slots)
  /\ SameTally(q, p, ts)

LEMMA TakenJoin ==
  ASSUME NEW a \in Seq(Slot), NEW b \in Seq(Slot)
  PROVE  /\ Taken(a \o b) = Taken(a) + Taken(b) /\ Taken(a) \in Nat /\ Taken(b) \in Nat
<1> HIDE DEF Slot, Stored
<1>1. /\ Bytes(a) \in Nat /\ Bytes(b) \in Nat /\ Count(a) \in Nat /\ Count(b) \in Nat
      /\ SLOT_SIZE \in Nat
  BY SlotTotals, Limits DEF Totals
<1>2. Count(a \o b) = Count(a) + Count(b) /\ Bytes(a \o b) = Bytes(a) + Bytes(b)
  BY CountJoin
<1>3. PICK c, d, e, f : c = Count(a) /\ d = Count(b) /\ e = Bytes(a) /\ f = Bytes(b)
  OBVIOUS
<1>4. /\ (c + d) * SLOT_SIZE = c * SLOT_SIZE + d * SLOT_SIZE
      /\ c * SLOT_SIZE \in Nat /\ d * SLOT_SIZE \in Nat
  BY <1>1, <1>3
<1>5. PICK u, v : u = c * SLOT_SIZE /\ v = d * SLOT_SIZE
  OBVIOUS
<1>6. (e + f) + (u + v) = (e + u) + (f + v) /\ e + u \in Nat /\ f + v \in Nat
  <2>1. e \in Nat /\ f \in Nat /\ u \in Nat /\ v \in Nat
    BY <1>1, <1>3, <1>4, <1>5
  <2> QED BY ONLY <2>1
<1> QED BY <1>2, <1>3, <1>4, <1>5, <1>6 DEF Taken

LEMMA TakenOne ==
  ASSUME NEW x \in Stored
  PROVE  /\ Taken(<<x>>) = x.length + SLOT_SIZE /\ x.length + SLOT_SIZE \in Nat
         /\ Smallest <= x.length + SLOT_SIZE /\ x.length + SLOT_SIZE <= MAX_LEAF_PAGE_DATA
         /\ x.length \in Nat
<1> HIDE DEF Slot, Stored
<1>1. x \in Slot /\ ~x.is_deleted /\ x.length \in Lengths
  BY StoredIs
<1>2. x.length \in Nat /\ Smallest <= x.length + SLOT_SIZE /\ x.length + SLOT_SIZE <= MAX_LEAF_PAGE_DATA
  BY <1>1, LengthIs
<1>3. Bytes(<<x>>) = x.length /\ Count(<<x>>) = 1
  BY <1>1, CountOne
<1> QED BY <1>2, <1>3, Limits DEF Taken

LEMMA TakenNone == Taken(<<>>) = 0
BY LiveEmpty, BytesEmpty, Limits DEF Taken, Count

LEMMA WroteTally ==
  ASSUME NEW p, NEW q, NEW x \in Stored, PageOK(p), Wrote(p, q, x), NEW k \in Keys
  PROVE  /\ Number(q.slots, k) = Number(p.slots, k) + Number(<<x>>, k)
         /\ Volume(q.slots, k) = Volume(p.slots, k) + Volume(<<x>>, k)
<1> HIDE DEF Slot, Stored, Raw, Number, Volume
<1>1. p.slots \in Seq(Slot) /\ q.slots \in Seq(Slot)
  BY PageIs DEF PageFacts, Wrote
<1>2. PICK a, b \in Seq(Stored) : /\ LiveSlots(p.slots) = a \o b
                                   /\ LiveSlots(q.slots) = (a \o <<x>>) \o b
  BY DEF Wrote, Content
<1>3. a \in Seq(Raw) /\ b \in Seq(Raw) /\ <<x>> \in Seq(Raw) /\ a \o <<x>> \in Seq(Raw)
  <2>1. <<x>> \in Seq(Stored)
    OBVIOUS
  <2>2. a \in Seq(Raw) /\ b \in Seq(Raw) /\ <<x>> \in Seq(Raw)
    BY <2>1, RawStored
  <2> QED BY <2>2, JoinFacts
<1>4. /\ Number(a \o b, k) = Number(a, k) + Number(b, k)
      /\ Volume(a \o b, k) = Volume(a, k) + Volume(b, k)
  BY <1>3, TallyJoin
<1>5. /\ Number(a \o <<x>>, k) = Number(a, k) + Number(<<x>>, k)
      /\ Volume(a \o <<x>>, k) = Volume(a, k) + Volume(<<x>>, k)
  <2>1. PICK o \in Seq(Raw) : o = <<x>>
    BY <1>3
  <2>2. /\ Number(a \o o, k) = Number(a, k) + Number(o, k)
        /\ Volume(a \o o, k) = Volume(a, k) + Volume(o, k)
    BY <1>3, TallyJoin
  <2> QED BY <2>1, <2>2
<1>6. /\ Number((a \o <<x>>) \o b, k) = Number(a \o <<x>>, k) + Number(b, k)
      /\ Volume((a \o <<x>>) \o b, k) = Volume(a \o <<x>>, k) + Volume(b, k)
  <2>1. PICK o \in Seq(Raw) : o = a \o <<x>>
    BY <1>3
  <2>2. /\ Number(o \o b, k) = Number(o, k) + Number(b, k)
        /\ Volume(o \o b, k) = Volume(o, k) + Volume(b, k)
    BY <1>3, TallyJoin
  <2> QED BY <2>1, <2>2
<1>7. /\ Number(LiveSlots(p.slots), k) = Number(p.slots, k)
      /\ Volume(LiveSlots(p.slots), k) = Volume(p.slots, k)
      /\ Number(LiveSlots(q.slots), k) = Number(q.slots, k)
      /\ Volume(LiveSlots(q.slots), k) = Volume(q.slots, k)
  BY <1>1, TallyLive
<1>8. PICK na, nb, nx, va, vb, vx :
        /\ na = Number(a, k) /\ nb = Number(b, k) /\ nx = Number(<<x>>, k)
        /\ va = Volume(a, k) /\ vb = Volume(b, k) /\ vx = Volume(<<x>>, k)
  OBVIOUS
<1>9. na \in Int /\ nb \in Int /\ nx \in Int /\ va \in Int /\ vb \in Int /\ vx \in Int
  BY <1>3, <1>8, Tallies
<1>10. (na + nx) + nb = (na + nb) + nx /\ (va + vx) + vb = (va + vb) + vx
  BY ONLY <1>9
<1> QED BY <1>2, <1>4, <1>5, <1>6, <1>7, <1>8, <1>10

LEMMA OneTuple ==
  ASSUME NEW p, PageOK(p), NEW x \in Stored, x.length + SLOT_SIZE <= TotalSpace(p)
  PROVE  Wrote(p, Write(p, x), x)
<1> HIDE DEF Slot, Stored
<1>1. /\ x.length + SLOT_SIZE \in Nat /\ Smallest <= x.length + SLOT_SIZE
      /\ x.length + SLOT_SIZE <= MAX_LEAF_PAGE_DATA /\ x.length \in Nat
  BY TakenOne
<1>2. x.key \in Keys /\ x = Live(x.key, x.length)
  BY StoredIs
<1>3. TotalSpace(p) \in Nat
  BY PageIs DEF PageFacts
<1>4. Smallest <= TotalSpace(p)
  BY <1>1, <1>3, Limits
<1>5. PICK d \in Smallest..MAX_LEAF_PAGE_DATA :
        /\ d = x.length + SLOT_SIZE
        /\ Wrote(p, WriteChunkLeaf(p, x.key, x.length + SLOT_SIZE), Live(x.key, d - SLOT_SIZE))
  BY <1>1, <1>2, <1>4, WriteIs
<1>6. d - SLOT_SIZE = x.length
  BY <1>1, <1>5, Limits
<1> QED BY <1>2, <1>5, <1>6 DEF Write

LEMMA PageAny == ASSUME NEW p, PageOK(p) PROVE p \in AnyPage
<1> HIDE DEF Slot, Raw
<1>1. p \in Page
  BY DEF PageOK
<1>2. p.slots \in Seq(Raw) /\ p.free_space_end \in Int /\ p.garbage_bytes \in Int
  BY <1>1, RawSlots DEF Page
<1> QED BY <1>1, <1>2 DEF Page, AnyPage

LEMMA ReceivesAll ==
  ASSUME NEW p, PageOK(p), NEW ts \in Seq(Stored), Taken(ts) <= TotalSpace(p)
  PROVE  Got(p, Receives(p, ts), ts)
<1> HIDE DEF Slot, Stored, Raw, Number, Volume, AnyPage
<1>1. p \in AnyPage /\ TotalSpace(p) \in Nat /\ p.slots \in Seq(Slot)
  BY PageAny, PageIs DEF PageFacts
<1> DEFINE T == {t \in Seq(Stored) : Taken(t) <= TotalSpace(p) => Got(p, Receives(p, t), t)}
<1>2. <<>> \in T
  <2>1. <<>> \in Seq(Stored) /\ Receives(p, <<>>) = p /\ Taken(<<>>) = 0
    BY <1>1, ReceivesNone, TakenNone
  <2>2. KeysOf(<<>>) = {}
    BY DeletedIs, KeysOne
  <2>3. SameTally(p, p, <<>>)
    <3>1. \A k \in Keys : Number(p.slots, k) \in Int /\ Volume(p.slots, k) \in Int
      BY <1>1, RawSlots, Tallies
    <3> QED BY <3>1, TallyOfNone DEF SameTally
  <2> QED BY <1>1, <2>1, <2>2, <2>3 DEF Got
<1>3. ASSUME NEW t \in Seq(Stored), NEW x \in Stored, t \in T PROVE Append(t, x) \in T
  <2>1. Append(t, x) \in Seq(Stored) /\ Append(t, x) = t \o <<x>> /\ <<x>> \in Seq(Stored)
    BY AppendJoin, AppendProperties
  <2>2. /\ t \in Seq(Slot) /\ <<x>> \in Seq(Slot) /\ t \in Seq(Raw) /\ x \in Raw
        /\ <<x>> \in Seq(Raw)
    BY <2>1, RawStored, StoredIs
  <2>3. /\ Taken(Append(t, x)) = Taken(t) + (x.length + SLOT_SIZE) /\ Taken(t) \in Nat
        /\ x.length + SLOT_SIZE \in Nat
    BY <2>1, <2>2, TakenJoin, TakenOne
  <2> SUFFICES ASSUME Taken(Append(t, x)) <= TotalSpace(p)
               PROVE  Got(p, Receives(p, Append(t, x)), Append(t, x))
    BY <2>1
  <2>4. PICK r, q : r = Receives(p, t) /\ q = Receives(p, Append(t, x))
    OBVIOUS
  <2>5. q = Write(r, x)
    BY <1>1, <2>2, <2>4, ReceivesAppend
  <2>6. Got(p, r, t)
    <3>1. Taken(t) <= TotalSpace(p)
      BY <1>1, <2>3
    <3> QED BY <1>3, <2>4, <3>1
  <2>7. PageOK(r) /\ TotalSpace(r) \in Nat /\ TotalSpace(r) >= TotalSpace(p) - Taken(t)
    BY <2>6, PageIs DEF Got, PageFacts
  <2>8. x.length + SLOT_SIZE <= TotalSpace(r)
    BY <1>1, <2>3, <2>7
  <2>9. Wrote(r, q, x)
    BY <2>5, <2>7, <2>8, OneTuple
  <2>10. PageOK(q) /\ TotalSpace(q) \in Nat /\ TotalSpace(q) >= TotalSpace(r) - (x.length + SLOT_SIZE)
    BY <2>9, PageIs DEF Wrote, PageFacts
  <2>11. TotalSpace(q) >= TotalSpace(p) - Taken(Append(t, x))
    BY <1>1, <2>3, <2>7, <2>10
  <2>12. KeysOf(q.slots) = KeysOf(p.slots) \cup KeysOf(Append(t, x))
    <3>1. KeysOf(<<x>>) = {x.key}
      BY StoredIs, KeysOne
    <3>2. KeysOf(Append(t, x)) = KeysOf(t) \cup {x.key}
      BY <2>1, <2>2, <3>1, JoinKeys
    <3> QED BY <2>6, <2>9, <3>2 DEF Got, Wrote
  <2>13. Sorted(p.slots) => Sorted(q.slots)
    BY <2>6, <2>9 DEF Got, Wrote
  <2>14. ASSUME NEW k \in Keys
         PROVE  /\ Number(q.slots, k) = Number(p.slots, k) + Number(Append(t, x), k)
                /\ Volume(q.slots, k) = Volume(p.slots, k) + Volume(Append(t, x), k)
    <3>1. /\ Number(q.slots, k) = Number(r.slots, k) + Number(<<x>>, k)
          /\ Volume(q.slots, k) = Volume(r.slots, k) + Volume(<<x>>, k)
      BY <2>7, <2>9, WroteTally
    <3>2. /\ Number(r.slots, k) = Number(p.slots, k) + Number(t, k)
          /\ Volume(r.slots, k) = Volume(p.slots, k) + Volume(t, k)
      BY <2>6 DEF Got, SameTally
    <3>3. /\ Number(t \o <<x>>, k) = Number(t, k) + Number(<<x>>, k)
          /\ Volume(t \o <<x>>, k) = Volume(t, k) + Volume(<<x>>, k)
      BY <2>2, TallyJoin
    <3>4. PICK np, nt, nx, vp, vt, vx :
            /\ np = Number(p.slots, k) /\ nt = Number(t, k) /\ nx = Number(<<x>>, k)
            /\ vp = Volume(p.slots, k) /\ vt = Volume(t, k) /\ vx = Volume(<<x>>, k)
      OBVIOUS
    <3>5. np \in Int /\ nt \in Int /\ nx \in Int /\ vp \in Int /\ vt \in Int /\ vx \in Int
      BY <1>1, <2>2, <3>4, RawSlots, Tallies
    <3>6. (np + nt) + nx = np + (nt + nx) /\ (vp + vt) + vx = vp + (vt + vx)
      BY ONLY <3>5
    <3> QED BY <2>1, <3>1, <3>2, <3>3, <3>4, <3>6
  <2> QED BY <2>4, <2>10, <2>11, <2>12, <2>13, <2>14 DEF Got, SameTally
<1> HIDE DEF T
<1>4. ts \in T
  BY <1>2, <1>3, SeqInduction
<1> QED BY <1>4 DEF T

-----------------------------------------------------------------------------
\* Tuples are deleted.

Dead(n) == [i \in 1..n |-> Deleted]

LEMMA DeadIs ==
  ASSUME NEW n \in Nat
  PROVE  /\ Dead(n) \in Seq(Slot) /\ Len(Dead(n)) = n /\ LiveSlots(Dead(n)) = <<>>
         /\ Count(Dead(n)) = 0 /\ Bytes(Dead(n)) = 0 /\ KeysOf(Dead(n)) = {} /\ Sorted(Dead(n))
<1> HIDE DEF Slot, Deleted
<1>1. ASSUME NEW i \in Nat PROVE Dead(i) \in Seq(Slot) /\ Len(Dead(i)) = i
  <2>1. Dead(i) \in [1..i -> Slot]
    BY DeletedIs DEF Dead
  <2>2. DOMAIN Dead(i) = 1..i
    BY DEF Dead
  <2>3. Dead(i) \in Seq(Slot)
    BY <2>1
  <2> QED BY <2>2, <2>3, LenProperties
<1> DEFINE T == {i \in Nat : LiveSlots(Dead(i)) = <<>>}
<1>2. 0 \in T
  <2>1. Dead(0) = <<>>
    BY <1>1, EmptySeq
  <2> QED BY <2>1, LiveEmpty
<1>3. ASSUME NEW i \in Nat, i \in T PROVE i + 1 \in T
  <2>1. Dead(i) \in Seq(Slot) /\ Len(Dead(i)) = i /\ Dead(i + 1) \in Seq(Slot) /\ Len(Dead(i + 1)) = i + 1
    BY <1>1
  <2>2. SubSeq(Dead(i + 1), 1, i) \in Seq(Slot) /\ Len(SubSeq(Dead(i + 1), 1, i)) = i
    BY <2>1, FrontLast
  <2>3. Dead(i + 1) = Append(SubSeq(Dead(i + 1), 1, i), Dead(i + 1)[i + 1])
    BY <2>1, FrontLast
  <2>4. \A j \in 1..(i + 1) : Dead(i + 1)[j] = Deleted
    BY DEF Dead
  <2>5. SubSeq(Dead(i + 1), 1, i) = Dead(i)
    <3>1. i \in 0..Len(Dead(i + 1))
      BY <2>1
    <3>2. \A j \in 1..i : SubSeq(Dead(i + 1), 1, i)[j] = Dead(i + 1)[j]
      BY <2>1, <3>1, CutFacts
    <3>3. \A j \in 1..i : Dead(i)[j] = Deleted
      BY DEF Dead
    <3>4. \A j \in 1..i : j \in 1..(i + 1)
      OBVIOUS
    <3>5. \A j \in 1..i : SubSeq(Dead(i + 1), 1, i)[j] = Dead(i)[j]
      BY <2>4, <3>2, <3>3, <3>4
    <3> HIDE DEF Dead
    <3>6. PICK d, e : d = SubSeq(Dead(i + 1), 1, i) /\ e = Dead(i)
      OBVIOUS
    <3>7. d \in Seq(Slot) /\ e \in Seq(Slot) /\ Len(d) = Len(e) /\ \A j \in 1..Len(d) : d[j] = e[j]
      BY <2>1, <2>2, <3>5, <3>6
    <3> QED BY <3>6, <3>7, SeqEqual
  <2>6. Dead(i + 1)[i + 1] = Deleted
    BY <2>4
  <2>7. Dead(i + 1) = Append(Dead(i), Deleted)
    BY <2>3, <2>5, <2>6
  <2>8. Dead(i) \in Seq(Raw) /\ Deleted \in Raw /\ Deleted.is_deleted
    BY <2>1, RawSlots, DeletedIs, SlotIs
  <2>9. LiveSlots(Append(Dead(i), Deleted)) = LiveSlots(Dead(i))
    BY <2>8, LiveAppend
  <2>10. LiveSlots(Dead(i)) = <<>>
    BY <1>3
  <2>11. LiveSlots(Dead(i + 1)) = <<>>
    BY ONLY <2>7, <2>9, <2>10
  <2> QED BY <2>11
<1> HIDE DEF T
<1>4. LiveSlots(Dead(n)) = <<>>
  <2>1. n \in T
    BY <1>2, <1>3, Induction
  <2> QED BY <2>1 DEF T
<1>5. Dead(n) \in Seq(Slot) /\ Len(Dead(n)) = n
  BY <1>1
<1>6. Bytes(Dead(n)) = 0 /\ Count(Dead(n)) = 0
  <2>1. Totals(Dead(n))
    BY <1>5, SlotTotals
  <2>2. Len(<<>>) = 0
    OBVIOUS
  <2> QED BY <1>4, <2>1, <2>2, BytesEmpty DEF Totals, Count
<1>7. KeysOf(Dead(n)) = {} /\ Sorted(Dead(n))
  BY <1>4, <1>5, LiveKeys, KeysOne, DeletedIs
<1> QED BY <1>4, <1>5, <1>6, <1>7

\* The page q is p without the tuples of m, which were together.
Lost(p, q, a, m, c) ==
  /\ PageOK(q)
  /\ a \in Seq(Slot) /\ m \in Seq(Slot) /\ c \in Seq(Slot)
  /\ p.slots = (a \o m) \o c
  /\ Content(q) = LiveSlots(a) \o LiveSlots(c)
  /\ UsedSpace(p) = UsedSpace(q) + Bytes(m)
  /\ KeysOf(q.slots) = KeysOf(a) \cup KeysOf(c)
  /\ Sorted(p.slots) => Sorted(q.slots)
  /\ SameTally(p, q, m)

\* Of the slots, those of m are given up.
Gone(gone, a, m, c) ==
  /\ \A i \in gone : Len(a) < i /\ i <= Len(a) + Len(m) /\ i \in Nat
  /\ \A i \in 1..Len(m) : ~m[i].is_deleted => i + Len(a) \in gone

LEMMA ThreeParts ==
  ASSUME NEW S, NEW a \in Seq(S), NEW m \in Seq(S), NEW c \in Seq(S)
  PROVE  /\ (a \o m) \o c \in Seq(S) /\ Len((a \o m) \o c) = Len(a) + Len(m) + Len(c)
         /\ \A i \in 1..(Len(a) + Len(m) + Len(c)) :
              ((a \o m) \o c)[i] = IF i <= Len(a) THEN a[i]
                                   ELSE IF i <= Len(a) + Len(m) THEN m[i - Len(a)]
                                   ELSE c[i - (Len(a) + Len(m))]
<1>1. PICK j, k, l, b, t : j = Len(a) /\ k = Len(m) /\ l = Len(c) /\ b = a \o m /\ t = b \o c
  OBVIOUS
<1>2. j \in Nat /\ k \in Nat /\ l \in Nat
  BY <1>1, LenProperties
<1>3. b \in Seq(S) /\ Len(b) = j + k /\ \A i \in 1..(j + k) : b[i] = IF i <= j THEN a[i] ELSE m[i - j]
  BY <1>1, JoinFacts
<1>4. /\ t \in Seq(S) /\ Len(t) = (j + k) + l
      /\ \A i \in 1..((j + k) + l) : t[i] = IF i <= j + k THEN b[i] ELSE c[i - (j + k)]
  BY <1>1, <1>3, JoinFacts
<1>5. \A i \in 1..(j + k + l) : t[i] = IF i <= j THEN a[i]
                                       ELSE IF i <= j + k THEN m[i - j] ELSE c[i - (j + k)]
  <2> TAKE i \in 1..(j + k + l)
  <2>1. CASE i <= j + k
    <3>1. i \in 1..(j + k) /\ i \in 1..((j + k) + l)
      BY <1>2, <2>1
    <3> QED BY <1>2, <1>3, <1>4, <2>1, <3>1
  <2>2. CASE ~(i <= j + k)
    <3>1. ~(i <= j) /\ i \in 1..((j + k) + l)
      BY <1>2, <2>2
    <3> QED BY <1>4, <2>2, <3>1
  <2> QED BY <2>1, <2>2
<1> QED BY <1>1, <1>4, <1>5

Cleared(s, gone) == [n \in DOMAIN s |-> IF n \in gone THEN Deleted ELSE s[n]]

LEMMA WithoutSlots ==
  ASSUME NEW a \in Seq(Slot), NEW m \in Seq(Slot), NEW c \in Seq(Slot), NEW gone,
         Gone(gone, a, m, c)
  PROVE  Cleared((a \o m) \o c, gone) = (a \o Dead(Len(m))) \o c
<1> HIDE DEF Slot, Deleted
<1>1. PICK j, k, l, s, w, r :
        /\ j = Len(a) /\ k = Len(m) /\ l = Len(c)
        /\ s = (a \o m) \o c /\ w = Cleared(s, gone) /\ r = (a \o Dead(k)) \o c
  OBVIOUS
<1>2. j \in Nat /\ k \in Nat /\ l \in Nat /\ \A i \in 1..k : m[i] \in Slot
  BY <1>1, SlotAt
<1>3. Dead(k) \in Seq(Slot) /\ Len(Dead(k)) = k /\ \A i \in 1..k : Dead(k)[i] = Deleted
  BY <1>2, DeadIs DEF Dead
<1>4. /\ s \in Seq(Slot) /\ Len(s) = j + k + l
      /\ \A i \in 1..(j + k + l) : s[i] = IF i <= j THEN a[i]
                                          ELSE IF i <= j + k THEN m[i - j] ELSE c[i - (j + k)]
  BY <1>1, ThreeParts
<1>5. /\ r \in Seq(Slot) /\ Len(r) = j + k + l
      /\ \A i \in 1..(j + k + l) : r[i] = IF i <= j THEN a[i]
                                          ELSE IF i <= j + k THEN Dead(k)[i - j] ELSE c[i - (j + k)]
  <2>1. PICK d \in Seq(Slot) : d = Dead(k)
    BY <1>3
  <2>2. d \in Seq(Slot) /\ Len(d) = k
    BY <1>3, <2>1
  <2>3. r = (a \o d) \o c
    BY <1>1, <2>1
  <2>4. /\ (a \o d) \o c \in Seq(Slot) /\ Len((a \o d) \o c) = Len(a) + Len(d) + Len(c)
        /\ \A i \in 1..(Len(a) + Len(d) + Len(c)) :
             ((a \o d) \o c)[i] = IF i <= Len(a) THEN a[i]
                                  ELSE IF i <= Len(a) + Len(d) THEN d[i - Len(a)]
                                  ELSE c[i - (Len(a) + Len(d))]
    BY ThreeParts
  <2>5. Len(a) = j /\ Len(d) = k /\ Len(c) = l
    BY <1>1, <2>2
  <2> QED BY ONLY <2>1, <2>3, <2>4, <2>5
<1>6. DOMAIN s = 1..(j + k + l) /\ DOMAIN r = 1..(j + k + l)
  BY <1>4, <1>5, LenProperties
<1>8. w = [i \in 1..(j + k + l) |-> IF i \in gone THEN Deleted ELSE s[i]]
  BY <1>1, <1>6 DEF Cleared
<1>9. ASSUME NEW i \in 1..(j + k + l) PROVE (IF i \in gone THEN Deleted ELSE s[i]) = r[i]
  <2>1. CASE i <= j
    <3>1. i \notin gone
      BY <1>1, <1>2, <2>1 DEF Gone
    <3> QED BY <1>4, <1>5, <2>1, <3>1
  <2>2. CASE ~(i <= j) /\ i <= j + k
    <3>1. PICK h : h = i - j
      OBVIOUS
    <3>2. h \in 1..k /\ h + j = i
      BY <1>2, <2>2, <3>1
    <3>3. r[i] = Deleted
      BY <1>3, <1>5, <2>2, <3>1, <3>2
    <3>4. s[i] = m[h]
      BY <1>4, <2>2, <3>1
    <3>5. i \notin gone => m[h] = Deleted
      <4>1. i \notin gone => m[h].is_deleted
        BY <1>1, <3>2 DEF Gone
      <4>2. m[h] \in Slot
        BY <1>2, <3>2
      <4> QED BY <4>1, <4>2, SlotIs
    <3> QED BY <3>3, <3>4, <3>5
  <2>3. CASE ~(i <= j + k)
    <3>1. i \notin gone /\ ~(i <= j)
      BY <1>1, <1>2, <2>3 DEF Gone
    <3> QED BY <1>4, <1>5, <2>3, <3>1
  <2> QED BY <2>1, <2>2, <2>3
<1>10. r = [i \in 1..(j + k + l) |-> r[i]]
  <2>1. r \in [1..(j + k + l) -> Slot]
    BY <1>5, LenProperties, ElementOfSeq
  <2> QED BY ONLY <2>1
<1>11. [i \in 1..(j + k + l) |-> IF i \in gone THEN Deleted ELSE s[i]] = [i \in 1..(j + k + l) |-> r[i]]
  BY ONLY <1>9
<1>12. w = r
  BY ONLY <1>8, <1>10, <1>11
<1> QED BY <1>1, <1>12

LEMMA LoseIs ==
  ASSUME NEW p, PageOK(p), NEW a \in Seq(Slot), NEW m \in Seq(Slot), NEW c \in Seq(Slot),
         p.slots = (a \o m) \o c, NEW gone, Gone(gone, a, m, c)
  PROVE  Lost(p, Without(p, gone), a, m, c)
<1> HIDE DEF Slot, Stored, Raw, Number, Volume
<1>1. PICK s, q, d, w : /\ s = p.slots /\ q = Without(p, gone) /\ d = Dead(Len(m))
                        /\ w = (a \o d) \o c
  OBVIOUS
<1>2. PageFacts(p) /\ s \in Seq(Slot) /\ p.free_space_end \in Nat /\ p.garbage_bytes \in Nat
      /\ p = [slots |-> s, free_space_end |-> p.free_space_end, garbage_bytes |-> p.garbage_bytes]
  BY <1>1, PageIs DEF PageOK, Page
<1>3. Len(m) \in Nat
  BY SlotAt
<1>4. /\ d \in Seq(Slot) /\ Len(d) = Len(m) /\ LiveSlots(d) = <<>> /\ Count(d) = 0
      /\ Bytes(d) = 0 /\ KeysOf(d) = {} /\ Sorted(d)
  BY <1>1, <1>3, DeadIs
<1>5. Cleared(s, gone) = w
  <2>1. Cleared((a \o m) \o c, gone) = (a \o Dead(Len(m))) \o c
    BY WithoutSlots
  <2> QED BY <1>1, <2>1
<1>7. PICK am, ad : am = a \o m /\ ad = a \o d
  OBVIOUS
<1>8. s = am \o c /\ w = ad \o c
  BY <1>1, <1>7
<1>9. /\ am \in Seq(Slot) /\ ad \in Seq(Slot) /\ Len(am) = Len(a) + Len(m)
      /\ Len(ad) = Len(a) + Len(m)
  <2>1. a \o m \in Seq(Slot) /\ Len(a \o m) = Len(a) + Len(m)
    BY JoinFacts
  <2>2. a \o d \in Seq(Slot) /\ Len(a \o d) = Len(a) + Len(d)
    BY <1>4, JoinFacts
  <2> QED BY <1>4, <1>7, <2>1, <2>2
<1>10. /\ w \in Seq(Slot) /\ Len(w) = (Len(a) + Len(m)) + Len(c)
       /\ Len(s) = (Len(a) + Len(m)) + Len(c)
  <2>1. am \o c \in Seq(Slot) /\ Len(am \o c) = Len(am) + Len(c)
    BY <1>9, JoinFacts
  <2>2. ad \o c \in Seq(Slot) /\ Len(ad \o c) = Len(ad) + Len(c)
    BY <1>9, JoinFacts
  <2> QED BY <1>8, <1>9, <2>1, <2>2
<1>6. /\ q.slots = w /\ q.free_space_end = p.free_space_end
      /\ q.garbage_bytes = p.garbage_bytes + Bytes(s) - Bytes(w)
      /\ q = [slots |-> w, free_space_end |-> p.free_space_end,
              garbage_bytes |-> p.garbage_bytes + Bytes(s) - Bytes(w)]
  <2>1. First(w, Len(s)) = w
    <3>1. Len(w) = Len(s)
      BY <1>10
    <3> QED BY <1>10, <3>1, SubSeqFull DEF First
  <2>2. q = [p EXCEPT !.slots = First(w, Len(s)),
                      !.garbage_bytes = p.garbage_bytes + Bytes(s) - Bytes(First(w, Len(s)))]
    BY <1>1, <1>5 DEF Without, Cleared
  <2> QED BY <1>2, <2>1, <2>2
<1>11. /\ LiveSlots(am) = LiveSlots(a) \o LiveSlots(m) /\ Count(am) = Count(a) + Count(m)
       /\ Bytes(am) = Bytes(a) + Bytes(m)
  BY <1>7, CountJoin
<1>12. /\ LiveSlots(ad) = LiveSlots(a) \o <<>> /\ Count(ad) = Count(a) + 0
       /\ Bytes(ad) = Bytes(a) + 0
  <2>1. /\ LiveSlots(a \o d) = LiveSlots(a) \o LiveSlots(d)
        /\ Count(a \o d) = Count(a) + Count(d) /\ Bytes(a \o d) = Bytes(a) + Bytes(d)
    BY <1>4, CountJoin
  <2> QED BY <1>4, <1>7, <2>1
<1>13. Count(s) = Count(am) + Count(c) /\ Bytes(s) = Bytes(am) + Bytes(c)
  BY <1>8, <1>9, CountJoin
<1>14. /\ LiveSlots(w) = LiveSlots(ad) \o LiveSlots(c) /\ Count(w) = Count(ad) + Count(c)
       /\ Bytes(w) = Bytes(ad) + Bytes(c)
  BY <1>8, <1>9, CountJoin
<1>15. Totals(a) /\ Totals(m) /\ Totals(c) /\ Totals(s) /\ Totals(w)
  BY <1>2, <1>10, SlotTotals
<1>16. PICK na, nm, nc, ca, cm, cc, ba, bm, bc, e, g :
         /\ na = Len(a) /\ nm = Len(m) /\ nc = Len(c)
         /\ ca = Count(a) /\ cm = Count(m) /\ cc = Count(c)
         /\ ba = Bytes(a) /\ bm = Bytes(m) /\ bc = Bytes(c)
         /\ e = p.free_space_end /\ g = p.garbage_bytes
  OBVIOUS
<1>17. /\ na \in Nat /\ nm \in Nat /\ nc \in Nat /\ ca \in Nat /\ cm \in Nat /\ cc \in Nat
       /\ ba \in Nat /\ bm \in Nat /\ bc \in Nat /\ e \in Nat /\ g \in Nat
       /\ ca <= na /\ cm <= nm /\ cc <= nc /\ cm * TUPLE_MIN <= bm
       /\ TUPLE_MIN \in Nat /\ SLOT_SIZE \in Nat /\ LEAF_SPACE \in Nat
  <2>1. na \in Nat /\ nm \in Nat /\ nc \in Nat
    BY <1>16, SlotAt
  <2> QED BY <1>2, <1>15, <1>16, <2>1, Limits DEF Totals
<1>18. PICK n, k, b, k1, b1 : /\ n = Len(s) /\ k = Count(s) /\ b = Bytes(s)
                              /\ k1 = Count(w) /\ b1 = Bytes(w)
  OBVIOUS
<1>19. /\ n = (na + nm) + nc /\ k = (ca + cm) + cc /\ b = (ba + bm) + bc
       /\ k1 = (ca + 0) + cc /\ b1 = (ba + 0) + bc /\ Len(w) = n
  BY <1>10, <1>11, <1>12, <1>13, <1>14, <1>16, <1>18
<1>20. e + b + g = LEAF_SPACE /\ n * SLOT_SIZE <= e /\ (n - k) * TUPLE_MIN <= g
  BY <1>1, <1>16, <1>18 DEF PageOK
<1>21. /\ n \in Nat /\ k \in Nat /\ b \in Nat /\ k1 \in Nat /\ b1 \in Nat /\ k <= n
       /\ g + b - b1 = g + bm /\ g + bm \in Nat /\ e + b1 + (g + bm) = e + b + g
       /\ b + n * SLOT_SIZE = b1 + n * SLOT_SIZE + bm
  <2>1. n \in Nat /\ k \in Nat /\ b \in Nat /\ k1 \in Nat /\ b1 \in Nat /\ k <= n /\ b = b1 + bm
    BY ONLY <1>17, <1>19
  <2>2. PICK x : x = n * SLOT_SIZE
    OBVIOUS
  <2>3. x \in Nat
    BY <1>17, <2>1, <2>2
  <2>4. /\ g + b - b1 = g + bm /\ g + bm \in Nat /\ e + b1 + (g + bm) = e + b + g
        /\ b + x = b1 + x + bm
    BY ONLY <1>17, <2>1, <2>3
  <2> QED BY <2>1, <2>2, <2>4
<1>22. (n - k1) * TUPLE_MIN <= g + bm
  <2>1. PICK dead : dead = n - k
    OBVIOUS
  <2>2. dead \in Nat /\ n - k1 = dead + cm
    BY ONLY <1>17, <1>19, <1>21, <2>1
  <2>3. (dead + cm) * TUPLE_MIN = dead * TUPLE_MIN + cm * TUPLE_MIN
    BY ONLY <1>17, <2>2
  <2>4. PICK x, y : x = dead * TUPLE_MIN /\ y = cm * TUPLE_MIN
    OBVIOUS
  <2>5. x \in Nat /\ y \in Nat
    BY ONLY <1>17, <2>2, <2>4
  <2>6. x <= g /\ y <= bm
    BY <1>17, <1>20, <2>1, <2>4
  <2>7. x + y <= g + bm
    BY ONLY <1>17, <2>5, <2>6
  <2> QED BY <2>2, <2>3, <2>4, <2>7
<1>23. PageOK(q)
  <2>1. q.garbage_bytes = g + bm /\ q.free_space_end = e /\ q.slots = w
    BY <1>6, <1>16, <1>18, <1>21
  <2>2. q \in Page
    <3>1. q = [slots |-> w, free_space_end |-> e, garbage_bytes |-> g + bm]
      BY <1>6, <1>16, <1>18, <1>21
    <3> QED BY <1>10, <1>17, <1>21, <3>1 DEF Page
  <2>3. e + b1 + (g + bm) = LEAF_SPACE
    BY <1>20, <1>21
  <2> QED BY <1>18, <1>19, <1>20, <1>22, <2>1, <2>2, <2>3 DEF PageOK
<1>24. UsedSpace(p) = UsedSpace(q) + Bytes(m)
  <2>1. UsedSpace(p) = b + n * SLOT_SIZE
    BY <1>1, <1>2, <1>18 DEF PageFacts
  <2>2. UsedSpace(q) = b1 + n * SLOT_SIZE
    BY <1>6, <1>18, <1>19, <1>23, PageIs DEF PageFacts
  <2> QED BY <1>16, <1>21, <2>1, <2>2
<1>25. LiveSlots(a) \in Seq(Stored) /\ LiveSlots(a) \o <<>> = LiveSlots(a)
  BY <1>15, ConcatEmptySeq DEF Totals
<1>26. KeysOf(w) = KeysOf(a) \cup KeysOf(c)
  <2>1. KeysOf(w) = KeysOf(ad) \cup KeysOf(c)
    BY <1>8, <1>9, JoinKeys
  <2>2. KeysOf(ad) = KeysOf(a) \cup KeysOf(d)
    BY <1>4, <1>7, JoinKeys
  <2> QED BY <1>4, <2>1, <2>2
<1>27. Sorted(s) => Sorted(w)
  <2> SUFFICES ASSUME Sorted(s) PROVE Sorted(w)
    OBVIOUS
  <2>1. Sorted(am) /\ Sorted(c) /\ Below(KeysOf(am), KeysOf(c))
    BY <1>8, <1>9, SortedJoin
  <2>2. Sorted(a)
    BY <1>7, <2>1, SortedJoin
  <2>3. Sorted(ad)
    <3>1. Below(KeysOf(a), KeysOf(d))
      BY <1>4 DEF Below
    <3> QED BY <1>4, <1>7, <2>2, <3>1, SortedJoin
  <2>4. Below(KeysOf(ad), KeysOf(c))
    <3>1. KeysOf(ad) = KeysOf(a) \cup KeysOf(d) /\ KeysOf(am) = KeysOf(a) \cup KeysOf(m)
      BY <1>4, <1>7, JoinKeys
    <3> QED BY <1>4, <2>1, <3>1 DEF Below
  <2> QED BY <1>8, <1>9, <2>1, <2>3, <2>4, SortedJoin
<1>28. SameTally(p, q, m)
  <2> SUFFICES ASSUME NEW x \in Keys
               PROVE  /\ Number(s, x) = Number(w, x) + Number(m, x)
                      /\ Volume(s, x) = Volume(w, x) + Volume(m, x)
    BY <1>1, <1>6 DEF SameTally
  <2>1. /\ a \in Seq(Raw) /\ m \in Seq(Raw) /\ c \in Seq(Raw) /\ d \in Seq(Raw)
        /\ am \in Seq(Raw) /\ ad \in Seq(Raw)
    BY <1>4, <1>9, RawSlots
  <2>2. Number(am, x) = Number(a, x) + Number(m, x) /\ Volume(am, x) = Volume(a, x) + Volume(m, x)
    BY <1>7, <2>1, TallyJoin
  <2>3. Number(ad, x) = Number(a, x) + Number(d, x) /\ Volume(ad, x) = Volume(a, x) + Volume(d, x)
    BY <1>7, <2>1, TallyJoin
  <2>4. Number(s, x) = Number(am, x) + Number(c, x) /\ Volume(s, x) = Volume(am, x) + Volume(c, x)
    BY <1>8, <2>1, TallyJoin
  <2>5. Number(w, x) = Number(ad, x) + Number(c, x) /\ Volume(w, x) = Volume(ad, x) + Volume(c, x)
    BY <1>8, <2>1, TallyJoin
  <2>6. Number(d, x) = 0 /\ Volume(d, x) = 0
    <3>1. Number(LiveSlots(d), x) = Number(d, x) /\ Volume(LiveSlots(d), x) = Volume(d, x)
      BY <1>4, TallyLive
    <3> QED BY <1>4, <3>1, TallyOfNone
  <2>7. PICK ra, rm, rc, va, vm, vc :
          /\ ra = Number(a, x) /\ rm = Number(m, x) /\ rc = Number(c, x)
          /\ va = Volume(a, x) /\ vm = Volume(m, x) /\ vc = Volume(c, x)
    OBVIOUS
  <2>8. ra \in Int /\ rm \in Int /\ rc \in Int /\ va \in Int /\ vm \in Int /\ vc \in Int
    BY <2>1, <2>7, Tallies
  <2>9. (ra + rm) + rc = ((ra + 0) + rc) + rm /\ (va + vm) + vc = ((va + 0) + vc) + vm
    BY ONLY <2>8
  <2> QED BY <2>2, <2>3, <2>4, <2>5, <2>6, <2>7, <2>9
<1> QED BY <1>1, <1>6, <1>12, <1>14, <1>23, <1>24, <1>25, <1>26, <1>27, <1>28 DEF Lost, Content

-----------------------------------------------------------------------------
\* The first slots of a page.

LEMMA FirstOfFirst ==
  ASSUME NEW s \in Seq(Slot), NEW i \in 0..Len(s), NEW j \in 0..Len(s), i <= j
  PROVE  /\ First(s, i) \in Seq(Slot) /\ First(s, j) \in Seq(Slot)
         /\ Len(First(s, i)) = i /\ Len(First(s, j)) = j
         /\ \E r \in Seq(Slot) : First(s, j) = First(s, i) \o r
<1> HIDE DEF Slot
<1>1. PICK t, u : t = SubSeq(s, 1, j) /\ u = SubSeq(s, 1, i)
  OBVIOUS
<1>2. t \in Seq(Slot) /\ Len(t) = j /\ \A h \in 1..j : t[h] = s[h]
  BY <1>1, CutFacts
<1>3. u \in Seq(Slot) /\ Len(u) = i /\ \A h \in 1..i : u[h] = s[h]
  BY <1>1, CutFacts
<1>4. i \in Nat /\ j \in Nat /\ i \in 0..Len(t)
  <2>1. Len(s) \in Nat
    BY LenProperties
  <2> QED BY <1>2, <2>1
<1>5. /\ SubSeq(t, 1, i) \in Seq(Slot) /\ Len(SubSeq(t, 1, i)) = i
      /\ \A h \in 1..i : SubSeq(t, 1, i)[h] = t[h]
      /\ SubSeq(t, i + 1, Len(t)) \in Seq(Slot)
      /\ SubSeq(t, 1, i) \o SubSeq(t, i + 1, Len(t)) = t
  BY <1>2, <1>4, CutFacts
<1>6. SubSeq(t, 1, i) = u
  <2>1. PICK v : v = SubSeq(t, 1, i)
    OBVIOUS
  <2>2. v \in Seq(Slot) /\ Len(v) = i /\ \A h \in 1..i : v[h] = u[h]
    <3>1. v \in Seq(Slot) /\ Len(v) = i /\ \A h \in 1..i : v[h] = t[h]
      BY <1>5, <2>1
    <3>2. \A h \in 1..i : h \in 1..j
      BY <1>4
    <3> QED BY ONLY <1>2, <1>3, <3>1, <3>2
  <2>3. \A h \in 1..Len(v) : v[h] = u[h]
    BY <2>2
  <2>4. v = u
    BY <1>3, <2>2, <2>3, SeqEqual
  <2> QED BY <2>1, <2>4
<1>7. t = u \o SubSeq(t, i + 1, Len(t))
  BY <1>5, <1>6
<1> QED BY <1>1, <1>2, <1>3, <1>5, <1>7 DEF First

LEMMA FirstOfJoin ==
  ASSUME NEW S, NEW a \in Seq(S), NEW b \in Seq(S)
  PROVE  First(a \o b, Len(a)) = a /\ SubSeq(a \o b, Len(a) + 1, Len(a \o b)) = b
<1>1. PICK s, n, m : s = a \o b /\ n = Len(a) /\ m = Len(b)
  OBVIOUS
<1>2. n \in Nat /\ m \in Nat
  BY <1>1, LenProperties
<1>3. s \in Seq(S) /\ Len(s) = n + m /\ \A j \in 1..(n + m) : s[j] = IF j <= n THEN a[j] ELSE b[j - n]
  BY <1>1, JoinFacts
<1>4. n \in 0..Len(s)
  BY <1>2, <1>3
<1>5. PICK u, v : u = SubSeq(s, 1, n) /\ v = SubSeq(s, n + 1, Len(s))
  OBVIOUS
<1>6. /\ u \in Seq(S) /\ Len(u) = n /\ \A j \in 1..n : u[j] = s[j]
      /\ v \in Seq(S) /\ Len(v) = Len(s) - n /\ \A j \in 1..(Len(s) - n) : v[j] = s[n + j]
  BY <1>3, <1>4, <1>5, CutFacts
<1>7. u = a
  <2>1. \A j \in 1..n : j \in 1..(n + m) /\ j <= n
    BY <1>2
  <2>2. \A j \in 1..Len(u) : u[j] = a[j]
    BY <1>3, <1>6, <2>1
  <2> QED BY <1>1, <1>6, <2>2, SeqEqual
<1>8. v = b
  <2>1. Len(v) = m
    BY <1>2, <1>3, <1>6
  <2>2. ASSUME NEW j \in 1..m PROVE v[j] = b[j]
    <3>1. PICK h : h = n + j
      OBVIOUS
    <3>2. h \in 1..(n + m) /\ ~(h <= n) /\ h - n = j
      BY <1>2, <3>1
    <3>3. s[h] = b[j]
      BY <1>3, <3>2
    <3>4. v[j] = s[h]
      BY <1>6, <2>1, <3>1
    <3> QED BY <3>3, <3>4
  <2> QED BY <1>1, <1>6, <2>1, <2>2, SeqEqual
<1> QED BY <1>1, <1>5, <1>7, <1>8 DEF First

\* How many of the first n slots are live.
LEMMA CountSteps ==
  ASSUME NEW s \in Seq(Slot)
  PROVE  /\ \A n \in 0..Len(s) :
              /\ First(s, n) \in Seq(Slot) /\ SubSeq(s, n + 1, Len(s)) \in Seq(Slot)
              /\ Count(First(s, n)) \in Nat /\ Bytes(First(s, n)) \in Nat
              /\ Count(SubSeq(s, n + 1, Len(s))) \in Nat /\ Bytes(SubSeq(s, n + 1, Len(s))) \in Nat
              /\ Count(s) = Count(First(s, n)) + Count(SubSeq(s, n + 1, Len(s)))
              /\ Bytes(s) = Bytes(First(s, n)) + Bytes(SubSeq(s, n + 1, Len(s)))
         /\ \A n \in 1..Len(s) :
              /\ Count(First(s, n)) = Count(First(s, n - 1)) + IF s[n].is_deleted THEN 0 ELSE 1
              /\ Bytes(First(s, n)) = Bytes(First(s, n - 1)) + s[n].length
         /\ \A i, j \in 0..Len(s) : i <= j => /\ Count(First(s, i)) <= Count(First(s, j))
                                             /\ Bytes(First(s, i)) <= Bytes(First(s, j))
<1> HIDE DEF Slot, Stored
<1>1. Len(s) \in Nat /\ \A i \in 1..Len(s) : s[i] \in Slot
  BY SlotAt
<1>2. ASSUME NEW n \in 0..Len(s)
      PROVE  /\ First(s, n) \in Seq(Slot) /\ SubSeq(s, n + 1, Len(s)) \in Seq(Slot)
             /\ Count(First(s, n)) \in Nat /\ Bytes(First(s, n)) \in Nat
             /\ Count(SubSeq(s, n + 1, Len(s))) \in Nat /\ Bytes(SubSeq(s, n + 1, Len(s))) \in Nat
             /\ Count(s) = Count(First(s, n)) + Count(SubSeq(s, n + 1, Len(s)))
             /\ Bytes(s) = Bytes(First(s, n)) + Bytes(SubSeq(s, n + 1, Len(s)))
  <2>1. PICK a, b : a = First(s, n) /\ b = SubSeq(s, n + 1, Len(s))
    OBVIOUS
  <2>2. a \in Seq(Slot) /\ b \in Seq(Slot) /\ a \o b = s
    BY <2>1, CutFacts DEF First
  <2>3. Totals(a) /\ Totals(b)
    BY <2>2, SlotTotals
  <2>4. Count(a \o b) = Count(a) + Count(b) /\ Bytes(a \o b) = Bytes(a) + Bytes(b)
    BY <2>2, CountJoin
  <2> QED BY <2>1, <2>2, <2>3, <2>4 DEF Totals
<1>3. ASSUME NEW n \in 1..Len(s)
      PROVE  /\ Count(First(s, n)) = Count(First(s, n - 1)) + IF s[n].is_deleted THEN 0 ELSE 1
             /\ Bytes(First(s, n)) = Bytes(First(s, n - 1)) + s[n].length
  <2>1. PICK k \in Nat : k = n - 1
    BY <1>1
  <2>2. n = k + 1 /\ k \in 0..Len(s) /\ n \in 0..Len(s) /\ k <= n
    BY <1>1, <2>1
  <2>3. PICK t, u : t = First(s, n) /\ u = First(s, k)
    OBVIOUS
  <2>4. t \in Seq(Slot) /\ Len(t) = k + 1 /\ u \in Seq(Slot) /\ Len(u) = k
    BY <2>2, <2>3, FirstOfFirst
  <2>5. PICK r \in Seq(Slot) : t = u \o r
    <3>1. \E r \in Seq(Slot) : First(s, n) = First(s, k) \o r
      BY <2>2, FirstOfFirst
    <3> QED BY <2>3, <3>1
  <2>6. Len(r) = 1 /\ r[1] = s[n]
    <3>1. /\ Len(u \o r) = Len(u) + Len(r) /\ Len(r) \in Nat
          /\ \A j \in 1..(Len(u) + Len(r)) : (u \o r)[j] = IF j <= Len(u) THEN u[j] ELSE r[j - Len(u)]
      BY <2>4, JoinFacts, SlotAt
    <3>2. Len(r) = 1
      <4>1. Len(u \o r) = k + 1 /\ Len(u) = k
        BY <2>4, <2>5
      <4>2. PICK h : h = Len(r)
        OBVIOUS
      <4>3. k + 1 = k + h /\ h \in Nat /\ k \in Nat
        BY <2>1, <3>1, <4>1, <4>2
      <4>4. h = 1
        BY ONLY <4>3
      <4> QED BY <4>2, <4>4
    <3>3. n \in 1..(k + 1) /\ ~(n <= k) /\ n - k = 1
      BY <2>2
    <3>4. t[n] = r[1]
      BY <2>4, <2>5, <3>1, <3>2, <3>3
    <3>5. t[n] = s[n]
      <4>1. \A h \in 1..n : SubSeq(s, 1, n)[h] = s[h]
        BY <2>2, CutFacts
      <4> QED BY <2>3, <4>1 DEF First
    <3> QED BY <3>2, <3>4, <3>5
  <2>7. r = <<s[n]>>
    BY <2>6
  <2>8. s[n] \in Slot
    BY <1>1
  <2>9. /\ Count(<<s[n]>>) = IF s[n].is_deleted THEN 0 ELSE 1
        /\ Bytes(<<s[n]>>) = s[n].length
    BY <2>8, CountOne
  <2>10. Count(u \o r) = Count(u) + Count(r) /\ Bytes(u \o r) = Bytes(u) + Bytes(r)
    BY <2>4, CountJoin
  <2> QED BY <2>1, <2>3, <2>5, <2>7, <2>9, <2>10
<1>4. ASSUME NEW i \in 0..Len(s), NEW j \in 0..Len(s), i <= j
      PROVE  Count(First(s, i)) <= Count(First(s, j)) /\ Bytes(First(s, i)) <= Bytes(First(s, j))
  <2>1. PICK t, u : t = First(s, j) /\ u = First(s, i)
    OBVIOUS
  <2>2. PICK r \in Seq(Slot) : t = u \o r
    <3>1. \E r \in Seq(Slot) : First(s, j) = First(s, i) \o r
      BY <1>4, FirstOfFirst
    <3> QED BY <2>1, <3>1
  <2>3. u \in Seq(Slot)
    BY <1>2, <2>1
  <2>4. Totals(u) /\ Totals(r)
    BY <2>3, SlotTotals
  <2>5. Count(u \o r) = Count(u) + Count(r) /\ Bytes(u \o r) = Bytes(u) + Bytes(r)
    BY <2>3, CountJoin
  <2> QED BY <2>1, <2>2, <2>4, <2>5 DEF Totals
<1> QED BY <1>2, <1>3, <1>4

LEMMA SplitAt ==
  ASSUME NEW s \in Seq(Slot), NEW c \in 0..Count(s)
  PROVE  \E a, b \in Seq(Slot) : s = a \o b /\ Count(a) = c
<1> HIDE DEF Slot, Stored
<1> DEFINE T == {t \in Seq(Slot) : \A n \in 0..Count(t) :
                   \E a, b \in Seq(Slot) : t = a \o b /\ Count(a) = n}
<1>1. <<>> \in T
  <2>1. Count(<<>>) = 0 /\ <<>> \in Seq(Slot) /\ <<>> \o <<>> = <<>>
    BY LiveEmpty DEF Count
  <2>2. \A n \in 0..0 : n = 0
    OBVIOUS
  <2>3. \A n \in 0..Count(<<>>) : n = Count(<<>>)
    BY <2>1, <2>2
  <2>4. \A n \in 0..Count(<<>>) : \E a, b \in Seq(Slot) : <<>> = a \o b /\ Count(a) = n
    BY <2>1, <2>3
  <2> QED BY <2>1, <2>4
<1>2. ASSUME NEW t \in Seq(Slot), NEW x \in Slot, t \in T PROVE Append(t, x) \in T
  <2>1. Append(t, x) \in Seq(Slot) /\ Append(t, x) = t \o <<x>> /\ <<x>> \in Seq(Slot)
    BY AppendJoin, AppendProperties
  <2>2. Count(Append(t, x)) = Count(t) + Count(<<x>>) /\ Count(<<x>>) \in {0, 1} /\ Count(t) \in Nat
    BY <2>1, CountJoin, CountOne, SlotTotals DEF Totals
  <2>3. ASSUME NEW n \in 0..Count(Append(t, x))
        PROVE  \E a, b \in Seq(Slot) : Append(t, x) = a \o b /\ Count(a) = n
    <3>1. CASE n \in 0..Count(t)
      <4>1. PICK a, b \in Seq(Slot) : t = a \o b /\ Count(a) = n
        BY <1>2, <3>1
      <4>2. a \o Append(b, x) = Append(t, x) /\ Append(b, x) \in Seq(Slot)
        BY <4>1, JoinAppend
      <4> QED BY <4>1, <4>2
    <3>2. CASE n \notin 0..Count(t)
      <4>1. n = Count(Append(t, x))
        BY <2>2, <3>2
      <4>2. Append(t, x) \o <<>> = Append(t, x) /\ <<>> \in Seq(Slot)
        BY <2>1, ConcatEmptySeq
      <4> QED BY <2>1, <4>1, <4>2
    <3> QED BY <3>1, <3>2
  <2> QED BY <2>1, <2>3
<1> HIDE DEF T
<1>3. s \in T
  BY <1>1, <1>2, SeqInduction
<1> QED BY <1>3 DEF T

LEMMA LowerIs ==
  ASSUME NEW s \in Seq(Slot), NEW x \in Keys
  PROVE  /\ lower_bound(s, x) \in 1..(Len(s) + 1)
         /\ Sorted(s) => IsFirst(Len(s), {i \in LivePlaces(s) : s[i].key >= x}, lower_bound(s, x))
<1> HIDE DEF Slot
<1>1. PICK before, u : before = {k \in Keys : k < x} /\ u = Bisect(s, before)
  OBVIOUS
<1>2. u = lower_bound(s, x)
  BY <1>1 DEF lower_bound
<1>3. u \in 1..(Len(s) + 1) /\ (Ascends(s, before) => IsFirst(Len(s), LiveOutside(s, before), u))
  BY <1>1, BisectIs
<1>4. LiveOutside(s, before) = {i \in LivePlaces(s) : s[i].key >= x}
  <2>1. ASSUME NEW i \in 1..Len(s), ~s[i].is_deleted PROVE s[i].key \notin before <=> s[i].key >= x
    <3>1. s[i].key \in Keys
      BY <2>1, SlotAt, SlotIs
    <3>2. s[i].key \in Nat /\ x \in Nat
      BY <3>1, Limits
    <3> QED BY <1>1, <3>1, <3>2
  <2> QED BY <2>1 DEF LiveOutside, LivePlaces
<1>5. Sorted(s) => Ascends(s, before)
  BY <1>1, SortedAscends
<1> QED BY <1>2, <1>3, <1>4, <1>5

\* The slots around one.
LEMMA CutOne ==
  ASSUME NEW s \in Seq(Slot), NEW i \in 1..Len(s)
  PROVE  \E a, c \in Seq(Slot) : Len(a) = i - 1 /\ s = (a \o <<s[i]>>) \o c
<1> HIDE DEF Slot
<1>1. Len(s) \in Nat /\ s[i] \in Slot
  BY SlotAt
<1>2. PICK k \in Nat : k = i - 1
  BY <1>1
<1>3. i = k + 1 /\ i \in 0..Len(s) /\ k \in 0..Len(s)
  BY <1>1, <1>2
<1>4. PICK t, c : t = SubSeq(s, 1, i) /\ c = SubSeq(s, i + 1, Len(s))
  OBVIOUS
<1>5. t \in Seq(Slot) /\ Len(t) = k + 1 /\ c \in Seq(Slot) /\ t \o c = s /\ \A j \in 1..i : t[j] = s[j]
  BY <1>3, <1>4, CutFacts
<1>6. PICK a : a = SubSeq(t, 1, k)
  OBVIOUS
<1>7. a \in Seq(Slot) /\ Len(a) = k /\ t = Append(a, t[k + 1])
  BY <1>2, <1>5, <1>6, FrontLast
<1>8. t[k + 1] = s[i]
  BY <1>2, <1>3, <1>5
<1>9. t = a \o <<s[i]>>
  BY <1>1, <1>7, <1>8, AppendJoin
<1> QED BY <1>2, <1>5, <1>7, <1>9

LEMMA DeleteIs ==
  ASSUME NEW p, PageOK(p), NEW key \in Keys
  PROVE  \/ ~FoundIn(p, key) /\ DeleteTuple(p, key) = p
         \/ /\ FoundIn(p, key) /\ key \in KeysOf(p.slots)
            /\ \E x \in Stored, a, c \in Seq(Slot) :
                 x.key = key /\ Lost(p, DeleteTuple(p, key), a, <<x>>, c)
<1> HIDE DEF Slot, Stored
<1>1. CASE ~FoundIn(p, key)
  BY <1>1 DEF DeleteTuple
<1>2. CASE FoundIn(p, key)
  <2>1. PICK s, it : s = p.slots /\ it = lower_bound(s, key)
    OBVIOUS
  <2>2. s \in Seq(Slot) /\ Len(s) \in Nat
    BY <2>1, PageIs, SlotAt DEF PageFacts
  <2>3. it \in 1..Len(s) /\ s[it].key = key
    <3>1. it \in 1..(Len(s) + 1)
      BY <2>1, <2>2, LowerIs
    <3>2. it <= Len(s) /\ s[it].key = key
      BY <1>2, <2>1 DEF FoundIn
    <3> QED BY <2>2, <3>1, <3>2
  <2>4. PICK x : x = s[it]
    OBVIOUS
  <2>5. x \in Slot /\ ~x.is_deleted /\ x \in Stored /\ x.key = key
    <3>1. x \in Slot
      BY <2>2, <2>3, <2>4, SlotAt
    <3>2. key # 0
      BY Limits
    <3> QED BY <2>3, <2>4, <3>1, <3>2, SlotIs
  <2>6. PICK a, c \in Seq(Slot) : Len(a) = it - 1 /\ s = (a \o <<x>>) \o c
    BY <2>2, <2>3, <2>4, CutOne
  <2>7. Gone({it}, a, <<x>>, c)
    <3>1. Len(<<x>>) = 1 /\ it \in Nat /\ Len(a) = it - 1
      BY <2>2, <2>3, <2>6
    <3> QED BY <3>1 DEF Gone
  <2>8. <<x>> \in Seq(Slot)
    BY <2>5
  <2>9. Lost(p, Without(p, {it}), a, <<x>>, c)
    BY <2>1, <2>6, <2>7, <2>8, LoseIs
  <2>10. DeleteTuple(p, key) = Without(p, {it})
    BY <1>2, <2>1 DEF DeleteTuple
  <2>11. key \in KeysOf(s)
    BY <2>3, <2>4, <2>5 DEF KeysOf, LivePlaces
  <2> QED BY <1>2, <2>1, <2>5, <2>6, <2>9, <2>10, <2>11
<1> QED BY <1>1, <1>2

\* The last of the live slots, and the first.
LEMMA LastAre ==
  ASSUME NEW a \in Seq(Slot), NEW m \in Seq(Slot)
  PROVE  Gone(LastPlaces(a \o m, Count(m)), a, m, <<>>) /\ (a \o m) \o <<>> = a \o m
<1> HIDE DEF Slot
<1>1. PICK s, n, h, e : s = a \o m /\ n = Len(s) /\ h = Len(a) /\ e = Len(m)
  OBVIOUS
<1>2. /\ s \in Seq(Slot) /\ n = h + e /\ h \in Nat /\ e \in Nat /\ n \in Nat
      /\ \A j \in 1..(h + e) : s[j] = IF j <= h THEN a[j] ELSE m[j - h]
  BY <1>1, JoinFacts, SlotAt
<1>3. First(s, h) = a /\ SubSeq(s, h + 1, n) = m
  BY <1>1, FirstOfJoin
<1>4. DOMAIN s = 1..n
  BY <1>1, <1>2, SlotAt
\* The slots from the place i on have as many live ones as there are in m, or fewer, when
\* those before it have no fewer than a.
<1>5. ASSUME NEW i \in 1..n, NEW k, k = i - 1
      PROVE  /\ Count(SubSeq(s, i, n)) <= Count(m) <=> Count(a) <= Count(First(s, k))
             /\ Count(a) \in Nat /\ Count(First(s, k)) \in Nat /\ Count(First(s, i)) \in Nat
             /\ i <= h => Count(First(s, i)) <= Count(a)
             /\ h <= k => Count(a) <= Count(First(s, k))
             /\ ~s[i].is_deleted => Count(First(s, i)) = Count(First(s, k)) + 1
  <2>1. k \in 0..Len(s) /\ i = k + 1 /\ h \in 0..Len(s) /\ i \in 0..Len(s) /\ i \in 1..Len(s)
    BY <1>1, <1>2, <1>5
  <2>2. /\ Count(s) = Count(First(s, k)) + Count(SubSeq(s, k + 1, Len(s)))
        /\ Count(First(s, k)) \in Nat /\ Count(SubSeq(s, k + 1, Len(s))) \in Nat
    BY <1>2, <2>1, CountSteps
  <2>3. /\ Count(s) = Count(First(s, h)) + Count(SubSeq(s, h + 1, Len(s)))
        /\ Count(First(s, h)) \in Nat /\ Count(SubSeq(s, h + 1, Len(s))) \in Nat
    BY <1>2, <2>1, CountSteps
  <2>4. Count(First(s, i)) \in Nat
    BY <1>2, <2>1, CountSteps
  <2>5. i <= h => Count(First(s, i)) <= Count(First(s, h))
    BY <1>2, <2>1, CountSteps
  <2>6. h <= k => Count(First(s, h)) <= Count(First(s, k))
    BY <1>2, <2>1, CountSteps
  <2>7. Count(First(s, i)) = Count(First(s, i - 1)) + IF s[i].is_deleted THEN 0 ELSE 1
    BY <1>2, <2>1, CountSteps
  <2>8. PICK u, v, w, z : /\ u = Count(First(s, k)) /\ v = Count(SubSeq(s, k + 1, Len(s)))
                          /\ w = Count(a) /\ z = Count(m)
    OBVIOUS
  <2>9. u \in Nat /\ v \in Nat /\ w \in Nat /\ z \in Nat /\ u + v = w + z
    BY <1>1, <1>3, <2>2, <2>3, <2>8
  <2>10. v <= z <=> w <= u
    BY ONLY <2>9
  <2>11. SubSeq(s, i, n) = SubSeq(s, k + 1, Len(s))
    BY <1>1, <2>1
  <2>12. ~s[i].is_deleted => Count(First(s, i)) = Count(First(s, k)) + 1
    BY <1>5, <2>7
  <2> QED BY <1>3, <2>4, <2>5, <2>6, <2>8, <2>9, <2>10, <2>11, <2>12
<1>6. ASSUME NEW i \in LastPlaces(s, Count(m)) PROVE h < i /\ i <= h + e /\ i \in Nat
  <2>1. i \in 1..n /\ ~s[i].is_deleted /\ Count(SubSeq(s, i, n)) <= Count(m)
    BY <1>1, <1>4 DEF LastPlaces, Count
  <2>2. PICK k : k = i - 1
    OBVIOUS
  <2>3. PICK u, v, w : u = Count(First(s, k)) /\ v = Count(First(s, i)) /\ w = Count(a)
    OBVIOUS
  <2>4. u \in Nat /\ v \in Nat /\ w \in Nat /\ w <= u /\ (i <= h => v <= w) /\ v = u + 1
    BY <1>5, <2>1, <2>2, <2>3
  <2>5. ~(i <= h)
    BY ONLY <2>4
  <2> QED BY <1>2, <2>1, <2>5
<1>7. ASSUME NEW i \in 1..e, ~m[i].is_deleted PROVE i + h \in LastPlaces(s, Count(m))
  <2>1. PICK j, k : j = i + h /\ k = j - 1
    OBVIOUS
  <2>2. j \in 1..n /\ j \in 1..(h + e) /\ ~(j <= h) /\ j - h = i /\ h <= k
    BY <1>2, <2>1
  <2>3. ~s[j].is_deleted
    BY <1>2, <1>7, <2>2
  <2>4. Count(SubSeq(s, j, n)) <= Count(m)
    BY <1>5, <2>1, <2>2
  <2> QED BY <1>1, <1>4, <2>1, <2>2, <2>3, <2>4 DEF LastPlaces, Count
<1>8. s \o <<>> = s
  BY <1>2, ConcatEmptySeq
<1> QED BY <1>1, <1>6, <1>7, <1>8 DEF Gone

LEMMA FirstAre ==
  ASSUME NEW m \in Seq(Slot), NEW c \in Seq(Slot)
  PROVE  Gone(FirstPlaces(m \o c, Count(m)), <<>>, m, c) /\ (<<>> \o m) \o c = m \o c
<1> HIDE DEF Slot
<1>1. PICK s, n, h, e : s = m \o c /\ n = Len(s) /\ h = Len(m) /\ e = Len(c)
  OBVIOUS
<1>2. /\ s \in Seq(Slot) /\ n = h + e /\ h \in Nat /\ e \in Nat /\ n \in Nat
      /\ \A j \in 1..(h + e) : s[j] = IF j <= h THEN m[j] ELSE c[j - h]
  BY <1>1, JoinFacts, SlotAt
<1>3. First(s, h) = m
  BY <1>1, FirstOfJoin
<1>4. DOMAIN s = 1..n
  BY <1>1, <1>2, SlotAt
<1>5. ASSUME NEW i \in FirstPlaces(s, Count(m)) PROVE i <= h /\ 0 < i /\ i \in Nat
  <2>1. i \in 1..n /\ ~s[i].is_deleted /\ Count(First(s, i)) <= Count(m)
    BY <1>1, <1>4 DEF FirstPlaces, Count
  <2>2. PICK k \in Nat : k = i - 1
    BY <1>2, <2>1
  <2>3. k \in 0..Len(s) /\ i \in 1..Len(s) /\ h \in 0..Len(s) /\ i \in 0..Len(s)
    BY <1>1, <1>2, <2>1, <2>2
  <2>4. Count(First(s, i)) = Count(First(s, i - 1)) + IF s[i].is_deleted THEN 0 ELSE 1
    BY <1>2, <2>3, CountSteps
  <2>5. h <= k => Count(First(s, h)) <= Count(First(s, k))
    BY <1>2, <2>3, CountSteps
  <2>6. Count(First(s, k)) \in Nat /\ Count(First(s, h)) \in Nat
    BY <1>2, <2>3, CountSteps
  <2>7. ~(h <= k)
    <3>1. PICK u, v, w : u = Count(First(s, k)) /\ v = Count(First(s, i)) /\ w = Count(m)
      OBVIOUS
    <3>2. u \in Nat /\ w \in Nat /\ v = u + 1 /\ v <= w /\ (h <= k => w <= u)
      BY <1>3, <2>1, <2>2, <2>4, <2>5, <2>6, <3>1
    <3> QED BY ONLY <3>2
  <2> QED BY <1>2, <2>1, <2>2, <2>7
<1>6. ASSUME NEW i \in 1..h, ~m[i].is_deleted PROVE i \in FirstPlaces(s, Count(m))
  <2>1. i \in 1..n /\ i \in 1..(h + e) /\ i <= h /\ i \in 0..Len(s) /\ h \in 0..Len(s)
    BY <1>1, <1>2
  <2>2. ~s[i].is_deleted
    BY <1>2, <1>6, <2>1
  <2>3. Count(First(s, i)) <= Count(First(s, h))
    BY <1>2, <2>1, CountSteps
  <2> QED BY <1>1, <1>3, <1>4, <2>1, <2>2, <2>3 DEF FirstPlaces, Count
<1>7. <<>> \o m = m /\ Len(<<>>) = 0
  BY ConcatEmptySeq
<1>8. ASSUME NEW i \in FirstPlaces(s, Count(m)) PROVE 0 < i /\ i <= 0 + h /\ i \in Nat
  BY <1>2, <1>5
<1>9. ASSUME NEW i \in 1..h, ~m[i].is_deleted PROVE i + 0 \in FirstPlaces(s, Count(m))
  <2>1. i + 0 = i
    BY <1>2
  <2> QED BY <1>6, <1>9, <2>1
<1> QED BY <1>1, <1>7, <1>8, <1>9 DEF Gone

-----------------------------------------------------------------------------
\* Tuples in reverse.

LEMMA ReverseIs ==
  ASSUME NEW S, NEW s \in Seq(S)
  PROVE  /\ Reverse(s) \in Seq(S) /\ Len(Reverse(s)) = Len(s)
         /\ \A i \in 1..Len(s) : Reverse(s)[i] = s[(Len(s) - i) + 1]
<1>1. PICK n : n = Len(s)
  OBVIOUS
<1>2. n \in Nat
  BY <1>1, LenProperties
<1>3. \A i \in 1..n : (n - i) + 1 \in 1..n
  BY <1>2
<1>4. \A i \in 1..n : s[(n - i) + 1] \in S
  BY <1>1, <1>3, ElementOfSeq
<1>5. Reverse(s) = [i \in 1..n |-> s[(n - i) + 1]]
  BY <1>1 DEF Reverse
<1>6. Reverse(s) \in [1..n -> S]
  BY <1>4, <1>5
<1>7. Reverse(s) \in Seq(S)
  BY <1>2, <1>6
<1>8. Len(Reverse(s)) = n
  BY <1>2, <1>5, <1>7, LenProperties
<1> QED BY <1>1, <1>5, <1>7, <1>8

LEMMA ReverseAppend ==
  ASSUME NEW S, NEW s \in Seq(S), NEW x \in S
  PROVE  Reverse(Append(s, x)) = <<x>> \o Reverse(s) /\ <<x>> \in Seq(S)
<1>1. PICK n, a, r, t, o : /\ n = Len(s) /\ a = Append(s, x) /\ r = Reverse(a)
                           /\ o = <<x>> /\ t = o \o Reverse(s)
  OBVIOUS
<1>2. n \in Nat
  BY <1>1, LenProperties
<1>3. a \in Seq(S) /\ Len(a) = n + 1 /\ a[n + 1] = x /\ \A j \in 1..n : a[j] = s[j]
  BY <1>1, AppendProperties
<1>4. r \in Seq(S) /\ Len(r) = n + 1 /\ \A i \in 1..(n + 1) : r[i] = a[((n + 1) - i) + 1]
  <2>1. /\ Reverse(a) \in Seq(S) /\ Len(Reverse(a)) = Len(a)
        /\ \A i \in 1..Len(a) : Reverse(a)[i] = a[(Len(a) - i) + 1]
    BY ONLY <1>3, ReverseIs
  <2> QED BY <1>1, <1>3, <2>1
<1>5. o \in Seq(S) /\ Len(o) = 1 /\ o[1] = x
  BY <1>1
<1>6. PICK w : w = Reverse(s)
  OBVIOUS
<1>7. w \in Seq(S) /\ Len(w) = n /\ \A i \in 1..n : w[i] = s[(n - i) + 1]
  BY <1>1, <1>6, ReverseIs
<1>8. /\ o \o w \in Seq(S) /\ Len(o \o w) = Len(o) + Len(w)
      /\ \A j \in 1..(Len(o) + Len(w)) : (o \o w)[j] = IF j <= Len(o) THEN o[j] ELSE w[j - Len(o)]
  <2>1. o \in Seq(S) /\ w \in Seq(S)
    BY <1>5, <1>7
  <2> QED BY ONLY <2>1, ConcatProperties
<1>9. t \in Seq(S) /\ Len(t) = 1 + n /\ \A j \in 1..(1 + n) : t[j] = IF j <= 1 THEN o[j] ELSE w[j - 1]
  BY <1>1, <1>5, <1>6, <1>7, <1>8
<1>10. ASSUME NEW i \in 1..(n + 1) PROVE r[i] = t[i]
  <2>1. CASE i = 1
    <3>1. ((n + 1) - i) + 1 = n + 1 /\ 1 \in 1..(n + 1) /\ 1 \in 1..(1 + n)
      BY <1>2, <2>1
    <3> QED BY <1>3, <1>4, <1>5, <1>9, <2>1, <3>1
  <2>2. CASE i # 1
    <3>1. PICK k : k = i - 1
      OBVIOUS
    <3>2. /\ k \in 1..n /\ ((n + 1) - i) + 1 = (n - k) + 1 /\ ~(i <= 1) /\ i \in 1..(1 + n)
          /\ (n - k) + 1 \in 1..n
      BY <1>2, <2>2, <3>1
    <3>3. t[i] = s[(n - k) + 1]
      BY <1>7, <1>9, <3>1, <3>2
    <3>4. r[i] = a[(n - k) + 1]
      BY <1>4, <3>2
    <3> QED BY <1>3, <3>2, <3>3, <3>4
  <2> QED BY <2>1, <2>2
<1>11. Len(t) = n + 1
  BY <1>2, <1>9
<1>12. r = t
  BY <1>4, <1>9, <1>10, <1>11, SeqEqual
<1> QED BY <1>1, <1>5, <1>12

LEMMA ReverseEmpty == Reverse(<<>>) = <<>>
<1>1. <<>> \in Seq({}) /\ Len(<<>>) = 0
  OBVIOUS
<1>2. Reverse(<<>>) \in Seq({}) /\ Len(Reverse(<<>>)) = 0
  BY <1>1, ReverseIs
<1> QED BY <1>2, EmptySeq

LEMMA ReverseJoin ==
  ASSUME NEW a \in Seq(Stored), NEW b \in Seq(Stored)
  PROVE  Reverse(a \o b) = Reverse(b) \o Reverse(a)
<1> HIDE DEF Stored
<1>0. Reverse(a) \in Seq(Stored)
  BY ReverseIs
<1> DEFINE T == {t \in Seq(Stored) : Reverse(a \o t) = Reverse(t) \o Reverse(a)}
<1>1. <<>> \in T
  <2>1. a \o <<>> = a /\ <<>> \o Reverse(a) = Reverse(a)
    BY <1>0, ConcatEmptySeq
  <2>2. <<>> \in Seq(Stored)
    OBVIOUS
  <2> QED BY <2>1, <2>2, ReverseEmpty
<1>2. ASSUME NEW t \in Seq(Stored), NEW x \in Stored, t \in T PROVE Append(t, x) \in T
  <2>1. /\ a \o Append(t, x) = Append(a \o t, x) /\ a \o t \in Seq(Stored)
        /\ Append(t, x) \in Seq(Stored)
    BY JoinAppend, JoinFacts
  <2>2. Reverse(Append(a \o t, x)) = <<x>> \o Reverse(a \o t) /\ <<x>> \in Seq(Stored)
    BY <2>1, ReverseAppend
  <2>3. Reverse(Append(t, x)) = <<x>> \o Reverse(t)
    BY ReverseAppend
  <2>4. Reverse(t) \in Seq(Stored)
    BY ReverseIs
  <2>5. (<<x>> \o Reverse(t)) \o Reverse(a) = <<x>> \o (Reverse(t) \o Reverse(a))
    BY <1>0, <2>2, <2>4, ConcatAssociative
  <2>6. Reverse(a \o t) = Reverse(t) \o Reverse(a)
    BY <1>2
  <2> QED BY <2>1, <2>2, <2>3, <2>5, <2>6
<1> HIDE DEF T
<1>3. b \in T
  BY <1>1, <1>2, SeqInduction
<1> QED BY <1>3 DEF T

\* What is among the tuples stays so.
LEMMA ReverseKeeps ==
  ASSUME NEW s \in Seq(Stored)
  PROVE  /\ KeysOf(Reverse(s)) = KeysOf(s)
         /\ \A k \in Keys : /\ Number(Reverse(s), k) = Number(s, k)
                            /\ Volume(Reverse(s), k) = Volume(s, k)
<1> HIDE DEF Slot, Stored, Raw, Number, Volume
<1> DEFINE T == {t \in Seq(Stored) :
                   /\ KeysOf(Reverse(t)) = KeysOf(t)
                   /\ \A k \in Keys : /\ Number(Reverse(t), k) = Number(t, k)
                                      /\ Volume(Reverse(t), k) = Volume(t, k)}
<1>1. <<>> \in T
  BY ReverseEmpty
<1>2. ASSUME NEW t \in Seq(Stored), NEW x \in Stored, t \in T PROVE Append(t, x) \in T
  <2>1. /\ Append(t, x) \in Seq(Stored) /\ Append(t, x) = t \o <<x>> /\ <<x>> \in Seq(Stored)
        /\ Reverse(Append(t, x)) = <<x>> \o Reverse(t)
    BY AppendJoin, AppendProperties, ReverseAppend
  <2>2. PICK r, o : r = Reverse(t) /\ o = <<x>>
    OBVIOUS
  <2>3. r \in Seq(Stored) /\ o \in Seq(Stored)
    BY <2>1, <2>2, ReverseIs
  <2>4. /\ r \in Seq(Slot) /\ o \in Seq(Slot) /\ t \in Seq(Slot)
        /\ r \in Seq(Raw) /\ o \in Seq(Raw) /\ t \in Seq(Raw)
    BY <2>3, RawStored
  <2>5. KeysOf(o \o r) = KeysOf(o) \cup KeysOf(r) /\ KeysOf(t \o o) = KeysOf(t) \cup KeysOf(o)
    BY <2>4, JoinKeys
  <2>6. KeysOf(r) = KeysOf(t)
    BY <1>2, <2>2
  <2>7. ASSUME NEW k \in Keys
        PROVE  Number(o \o r, k) = Number(t \o o, k) /\ Volume(o \o r, k) = Volume(t \o o, k)
    <3>1. Number(o \o r, k) = Number(o, k) + Number(r, k) /\ Volume(o \o r, k) = Volume(o, k) + Volume(r, k)
      BY <2>4, TallyJoin
    <3>2. Number(t \o o, k) = Number(t, k) + Number(o, k) /\ Volume(t \o o, k) = Volume(t, k) + Volume(o, k)
      BY <2>4, TallyJoin
    <3>3. Number(r, k) = Number(t, k) /\ Volume(r, k) = Volume(t, k)
      BY <1>2, <2>2
    <3>4. PICK a, b, c, d : a = Number(t, k) /\ b = Number(o, k) /\ c = Volume(t, k) /\ d = Volume(o, k)
      OBVIOUS
    <3>5. a \in Int /\ b \in Int /\ c \in Int /\ d \in Int
      BY <2>4, <3>4, Tallies
    <3>6. b + a = a + b /\ d + c = c + d
      BY ONLY <3>5
    <3> QED BY <3>1, <3>2, <3>3, <3>4, <3>6
  <2> QED BY <2>1, <2>2, <2>5, <2>6, <2>7
<1> HIDE DEF T
<1>3. s \in T
  BY <1>1, <1>2, SeqInduction
<1> QED BY <1>3 DEF T

-----------------------------------------------------------------------------
\* What is lent.

LEMMA TakenSteps ==
  ASSUME NEW s \in Seq(Stored)
  PROVE  /\ Len(s) \in Nat /\ Taken(First(s, 0)) = 0 /\ Taken(First(s, Len(s))) = Taken(s)
         /\ \A n \in 0..Len(s) : /\ First(s, n) \in Seq(Stored) /\ Taken(First(s, n)) \in Nat
                                 /\ Len(First(s, n)) = n /\ Count(First(s, n)) = n
                                 /\ Taken(First(s, n)) = Bytes(First(s, n)) + n * SLOT_SIZE
         /\ \A n \in 1..Len(s) :
              /\ s[n] \in Stored
              /\ Taken(First(s, n)) = Taken(First(s, n - 1)) + (s[n].length + SLOT_SIZE)
<1> HIDE DEF Slot, Stored
<1>1. s \in Seq(Slot) /\ Len(s) \in Nat /\ \A n \in 1..Len(s) : s[n] \in Stored
  BY RawStored, SlotAt, ElementOfSeq
<1>2. ASSUME NEW n \in 0..Len(s)
      PROVE  /\ First(s, n) \in Seq(Stored) /\ Taken(First(s, n)) \in Nat
             /\ Len(First(s, n)) = n /\ Count(First(s, n)) = n
             /\ Taken(First(s, n)) = Bytes(First(s, n)) + n * SLOT_SIZE
             /\ Bytes(First(s, n)) \in Nat
  <2>1. First(s, n) \in Seq(Stored) /\ Len(First(s, n)) = n
    BY CutFacts DEF First
  <2>2. PICK f \in Seq(Stored) : f = First(s, n) /\ Len(f) = n
    BY <2>1
  <2>3. Count(f) = n
    BY <2>2, LiveOfStored
  <2>4. f \in Seq(Slot)
    BY RawStored
  <2>5. Taken(f) \in Nat /\ Bytes(f) \in Nat
    BY <2>4, TakenJoin, SlotTotals DEF Totals
  <2>6. Taken(f) = Bytes(f) + n * SLOT_SIZE
    BY <2>3 DEF Taken
  <2> QED BY <2>2, <2>3, <2>5, <2>6
<1>3. ASSUME NEW n \in 1..Len(s)
      PROVE  Taken(First(s, n)) = Taken(First(s, n - 1)) + (s[n].length + SLOT_SIZE)
  <2>1. PICK k \in 0..Len(s) : k = n - 1
    BY <1>1
  <2>2. n \in 0..Len(s) /\ n = k + 1 /\ k \in Nat
    BY <1>1, <2>1
  <2>3. Bytes(First(s, n)) = Bytes(First(s, n - 1)) + s[n].length
    BY <1>1, CountSteps
  <2>4. PICK b, l : b = Bytes(First(s, k)) /\ l = s[n].length
    OBVIOUS
  <2>5. b \in Nat /\ l \in Nat
    <3>1. s[n] \in Stored
      BY <1>1
    <3> QED BY <1>2, <2>4, <3>1, TakenOne
  <2>6. (b + l) + n * SLOT_SIZE = (b + k * SLOT_SIZE) + (l + SLOT_SIZE)
    <3>1. n * SLOT_SIZE = k * SLOT_SIZE + SLOT_SIZE /\ k * SLOT_SIZE \in Nat /\ SLOT_SIZE \in Nat
      BY <2>2, Limits
    <3>2. PICK z : z = k * SLOT_SIZE
      OBVIOUS
    <3>3. (b + l) + (z + SLOT_SIZE) = (b + z) + (l + SLOT_SIZE)
      BY <2>5, <3>1, <3>2
    <3> QED BY <3>1, <3>2, <3>3
  <2>7. Taken(First(s, n)) = (b + l) + n * SLOT_SIZE
    BY <1>2, <2>1, <2>2, <2>3, <2>4
  <2>8. Taken(First(s, k)) = b + k * SLOT_SIZE
    BY <1>2, <2>4
  <2> QED BY <2>1, <2>4, <2>6, <2>7, <2>8
<1>4. Taken(First(s, 0)) = 0
  <2>1. 0 \in 0..Len(s)
    BY <1>1
  <2>2. First(s, 0) \in Seq(Stored) /\ Len(First(s, 0)) = 0
    BY <1>2, <2>1
  <2>3. First(s, 0) = <<>>
    BY <2>2, EmptySeq
  <2> QED BY <2>3, TakenNone
<1>5. First(s, Len(s)) = s
  BY SubSeqFull DEF First
<1> QED BY <1>1, <1>2, <1>3, <1>4, <1>5

LEMMA LendsIs ==
  ASSUME NEW p, PageOK(p), NEW live \in Seq(Stored), Taken(live) = Taken(p.slots),
         NEW needed \in Nat, needed > 0
  PROVE  /\ Lends(p, live, needed) \in 0..Len(live)
         /\ Lends(p, live, needed) > 0 =>
              Taken(First(live, Lends(p, live, needed))) <= needed - 1 + MAX_LEAF_PAGE_DATA
         /\ Lends(p, live, needed) > 0 =>
              ~(UsedSpace(p) - Taken(First(live, Lends(p, live, needed))) <= LEAF_UNDERFLOW_THRESHOLD)
         /\ Lends(p, live, needed) = 0 =>
              UsedSpace(p) <= LEAF_UNDERFLOW_THRESHOLD + (needed - 1) + MAX_LEAF_PAGE_DATA
<1> HIDE DEF Slot, Stored
<1>1. PICK n, c, t, M : /\ n = Len(live) /\ c = Lends(p, live, needed)
                        /\ t = [i \in 0..n |-> Taken(First(live, i))] /\ M = MAX_LEAF_PAGE_DATA
  OBVIOUS
<1>2. /\ n \in Nat /\ \A i \in 0..n : t[i] \in Nat
      /\ \A i \in 0..n : t[i] = Taken(First(live, i))
      /\ \A i \in 0..n : t[i] = Bytes(First(live, i)) + i * SLOT_SIZE
      /\ t[0] = 0 /\ t[n] = Taken(live)
  <2>1. n \in Nat /\ 0 \in 0..n /\ n \in 0..n
    BY <1>1, TakenSteps
  <2> QED BY <1>1, <2>1, TakenSteps
<1>3. \A i \in 1..n : t[i] <= t[i - 1] + M
  <2> TAKE i \in 1..n
  <2>1. PICK k \in 0..n : k = i - 1
    BY <1>2
  <2>2. i \in 0..n
    BY <1>2
  <2>3. live[i] \in Stored /\ Taken(First(live, i)) = Taken(First(live, i - 1)) + (live[i].length + SLOT_SIZE)
    BY <1>1, TakenSteps
  <2>4. live[i].length + SLOT_SIZE <= M /\ live[i].length + SLOT_SIZE \in Nat /\ M \in Nat
    BY <1>1, <2>3, TakenOne, Limits
  <2>5. PICK l : l = live[i].length + SLOT_SIZE
    OBVIOUS
  <2>6. t[i] = t[k] + l /\ t[k] \in Nat
    BY <1>2, <2>1, <2>2, <2>3, <2>5
  <2> QED BY <2>1, <2>4, <2>5, <2>6
<1>4. PICK enough : enough = {i \in 1..n : t[i] >= needed}
  OBVIOUS
<1>5. c = IF enough = {} \/ UsedSpace(p) - t[Minimum(enough)] <= LEAF_UNDERFLOW_THRESHOLD
          THEN 0 ELSE Minimum(enough)
  <2>1. PICK space : space = [i \in DOMAIN live |-> Bytes(First(live, i)) + i * SLOT_SIZE]
    OBVIOUS
  <2>2. DOMAIN live = 1..n
    BY <1>1, LenProperties
  <2>3. \A i \in 1..n : space[i] = t[i]
    <3> TAKE i \in 1..n
    <3>1. i \in 0..n
      BY <1>2
    <3> QED BY <1>2, <2>1, <2>2, <3>1
  <2>4. enough = {i \in DOMAIN live : space[i] >= needed}
    BY <1>4, <2>2, <2>3
  <2>5. c = IF enough = {} \/ UsedSpace(p) - space[Minimum(enough)] <= LEAF_UNDERFLOW_THRESHOLD
            THEN 0 ELSE Minimum(enough)
    BY <1>1, <2>1, <2>4 DEF Lends
  <2>6. enough # {} => Minimum(enough) \in 1..n
    <3>1. enough \subseteq Nat /\ enough \subseteq 1..n
      BY <1>4
    <3> QED BY <3>1, LeastIs
  <2> QED BY <2>3, <2>5, <2>6
<1>6. LEAF_UNDERFLOW_THRESHOLD \in Nat /\ M \in Nat /\ UsedSpace(p) \in Nat
  BY <1>1, PageIs, Limits DEF PageFacts
<1>7. CASE enough = {}
  <2>1. c = 0
    BY <1>5, <1>7
  <2>2. t[n] < needed
    <3>1. CASE n = 0
      BY <1>2, <3>1
    <3>2. CASE n # 0
      <4>1. n \in 1..n /\ n \in 0..n
        BY <1>2, <3>2
      <4>2. ~(t[n] >= needed) /\ t[n] \in Nat
        BY <1>2, <1>4, <1>7, <4>1
      <4> QED BY <4>2
    <3> QED BY <3>1, <3>2
  <2>3. UsedSpace(p) <= t[n] + LEAF_UNDERFLOW_THRESHOLD /\ t[n] \in Nat
    <3>1. n \in 0..n
      BY <1>2
    <3> QED BY <1>2, <3>1, PageIs DEF PageFacts
  <2>4. PICK u, w, T : u = UsedSpace(p) /\ w = t[n] /\ T = LEAF_UNDERFLOW_THRESHOLD
    OBVIOUS
  <2>5. u \in Nat /\ w \in Nat /\ T \in Nat /\ M \in Nat /\ u <= w + T /\ w < needed
    BY <1>6, <2>2, <2>3, <2>4
  <2>6. u <= T + (needed - 1) + M
    BY ONLY <2>5, needed \in Nat
  <2> QED BY <1>1, <1>2, <2>1, <2>4, <2>6
<1>8. CASE enough # {}
  <2>1. PICK e : e = Minimum(enough)
    OBVIOUS
  <2>2. e \in enough /\ \A i \in enough : e <= i
    <3>1. enough \subseteq Nat
      BY <1>4
    <3> QED BY <1>8, <2>1, <3>1, LeastIs
  <2>3. e \in 1..n /\ e \in 0..n /\ t[e] >= needed /\ t[e] \in Nat
    <3>1. e \in 1..n /\ t[e] >= needed
      BY <1>4, <2>2
    <3> QED BY <1>2, <3>1
  <2>4. t[e] <= needed - 1 + M
    <3>1. PICK k \in 0..n : k = e - 1
      BY <1>2, <2>3
    <3>2. t[e] <= t[k] + M /\ t[k] \in Nat
      BY <1>2, <1>3, <2>3, <3>1
    <3>3. t[k] <= needed - 1
      <4>1. CASE k = 0
        BY <1>2, <4>1
      <4>2. CASE k # 0
        <5>1. k \in 1..n /\ ~(e <= k)
          BY <1>2, <2>3, <3>1, <4>2
        <5>2. ~(t[k] >= needed)
          BY <1>4, <2>2, <5>1
        <5> QED BY <3>2, <5>2
      <4> QED BY <4>1, <4>2
    <3>4. PICK x, y : x = t[e] /\ y = t[k]
      OBVIOUS
    <3>5. x \in Nat /\ y \in Nat /\ M \in Nat /\ x <= y + M /\ y <= needed - 1 /\ needed \in Nat
      BY <1>6, <2>3, <3>2, <3>3, <3>4
    <3>6. x <= needed - 1 + M
      BY ONLY <3>5
    <3> QED BY <3>4, <3>6
  <2>5. CASE UsedSpace(p) - t[e] <= LEAF_UNDERFLOW_THRESHOLD
    <3>1. c = 0
      BY <1>5, <2>1, <2>5
    <3>2. PICK u, x, T : u = UsedSpace(p) /\ x = t[e] /\ T = LEAF_UNDERFLOW_THRESHOLD
      OBVIOUS
    <3>3. /\ u \in Nat /\ x \in Nat /\ T \in Nat /\ M \in Nat /\ u - x <= T /\ x <= needed - 1 + M
          /\ needed \in Nat
      BY <1>6, <2>3, <2>4, <2>5, <3>2
    <3>4. u <= T + (needed - 1) + M
      BY ONLY <3>3
    <3> QED BY <1>1, <1>2, <3>1, <3>2, <3>4
  <2>6. CASE ~(UsedSpace(p) - t[e] <= LEAF_UNDERFLOW_THRESHOLD)
    <3>1. c = e
      BY <1>5, <1>8, <2>1, <2>6
    <3>2. c \in 0..n /\ c # 0
      BY <1>2, <2>3, <3>1
    <3>3. ~(UsedSpace(p) - t[c] <= LEAF_UNDERFLOW_THRESHOLD) /\ t[c] = Taken(First(live, c))
      BY <1>2, <2>6, <3>1, <3>2
    <3>4. t[c] <= needed - 1 + M
      BY <2>4, <3>1
    <3> QED BY <1>1, <3>2, <3>3, <3>4
  <2> QED BY <2>5, <2>6
<1> QED BY <1>7, <1>8

LEMMA ReverseTaken == ASSUME NEW s \in Seq(Stored) PROVE Taken(Reverse(s)) = Taken(s)
<1> HIDE DEF Slot, Stored, Raw, Taken
<1> DEFINE T == {t \in Seq(Stored) : Taken(Reverse(t)) = Taken(t)}
<1>1. <<>> \in T
  BY ReverseEmpty
<1>2. ASSUME NEW t \in Seq(Stored), NEW x \in Stored, t \in T PROVE Append(t, x) \in T
  <2>1. /\ Append(t, x) \in Seq(Stored) /\ Append(t, x) = t \o <<x>> /\ <<x>> \in Seq(Stored)
        /\ Reverse(Append(t, x)) = <<x>> \o Reverse(t)
    BY AppendJoin, AppendProperties, ReverseAppend
  <2>2. PICK r, o : r = Reverse(t) /\ o = <<x>>
    OBVIOUS
  <2>3. r \in Seq(Stored) /\ o \in Seq(Stored)
    BY <2>1, <2>2, ReverseIs
  <2>4. r \in Seq(Slot) /\ o \in Seq(Slot) /\ t \in Seq(Slot)
    BY <2>3, RawStored
  <2>5. Taken(o \o r) = Taken(o) + Taken(r) /\ Taken(o) \in Nat /\ Taken(r) \in Nat
    BY <2>4, TakenJoin
  <2>6. Taken(t \o o) = Taken(t) + Taken(o)
    BY <2>4, TakenJoin
  <2>7. Taken(r) = Taken(t)
    BY <1>2, <2>2
  <2>8. Taken(o \o r) = Taken(t \o o)
    BY <2>5, <2>6, <2>7
  <2> QED BY <2>1, <2>2, <2>8
<1> HIDE DEF T
<1>3. s \in T
  BY <1>1, <1>2, SeqInduction
<1> QED BY <1>3 DEF T

\* The key of the first live slot.
LEMMA FirstKeyIs ==
  ASSUME NEW s \in Seq(Slot), Count(s) > 0
  PROVE  /\ Head(LiveSlots(s)).key \in KeysOf(s) /\ LiveSlots(s) # <<>> /\ KeysOf(s) # {}
         /\ Sorted(s) => Below({Head(LiveSlots(s)).key}, KeysOf(s))
<1> HIDE DEF Slot, Stored
<1>1. PICK t \in Seq(Stored) : t = LiveSlots(s) /\ Len(t) > 0
  BY SlotTotals DEF Totals, Count
<1>2. Len(t) \in Nat /\ t # <<>> /\ Head(t) = t[1] /\ 1 \in 1..Len(t)
  BY <1>1, EmptySeq, HeadTailProperties
<1>3. t \in Seq(Slot) /\ \A i \in 1..Len(t) : t[i] \in Stored
  BY RawStored, ElementOfSeq
<1>4. LivePlaces(t) = 1..Len(t)
  BY <1>3, StoredIs DEF LivePlaces
<1>5. t[1].key \in KeysOf(t)
  BY <1>2, <1>4 DEF KeysOf
<1>6. KeysOf(t) = KeysOf(s) /\ (Sorted(s) <=> Sorted(t))
  BY <1>1, LiveKeys
<1>7. Sorted(t) => Below({t[1].key}, KeysOf(t))
  BY <1>2, <1>4 DEF Sorted, Below, KeysOf
<1> QED BY <1>1, <1>2, <1>5, <1>6, <1>7

\* What holds of each leaf.
Leaf(p) == PageOK(p) /\ Sorted(p.slots)

LEMMA PageKeyIs ==
  ASSUME NEW p, Leaf(p), KeysOf(p.slots) # {}
  PROVE  /\ GetPageFirstKey(p) \in KeysOf(p.slots) /\ GetPageFirstKey(p) \in Keys
         /\ Below({GetPageFirstKey(p)}, KeysOf(p.slots))
<1> HIDE DEF Slot, Stored
<1>1. p.slots \in Seq(Slot) /\ Sorted(p.slots)
  BY PageIs DEF Leaf, PageFacts
<1>2. PICK s \in Seq(Slot) : s = p.slots
  BY <1>1
<1>3. Count(s) > 0
  <2>1. Count(s) \in Nat /\ LiveSlots(s) \in Seq(Stored)
    BY SlotTotals DEF Totals
  <2>2. CASE Count(s) = 0
    <3>1. LiveSlots(s) = <<>>
      BY <2>1, <2>2, EmptySeq DEF Count
    <3>2. KeysOf(<<>>) = {}
      BY DeletedIs, KeysOne
    <3> QED BY <1>2, <3>1, <3>2, LiveKeys
  <2> QED BY <2>1, <2>2
<1>4. GetPageFirstKey(p) = Head(LiveSlots(s)).key
  BY <1>2, <1>3, FirstKeyIs DEF GetPageFirstKey
<1> QED BY <1>1, <1>2, <1>3, <1>4, FirstKeyIs, KeysAre

\* Tuples, with the keys of M, are taken from one leaf and go to another.
Moved(lender, borrower, l, b, A, M) ==
  /\ Leaf(l) /\ Leaf(b)
  /\ KeysOf(l.slots) = A /\ KeysOf(b.slots) = KeysOf(borrower.slots) \cup M
  /\ KeysOf(lender.slots) = A \cup M /\ M # {}
  /\ \A k \in Keys :
       /\ Number(l.slots, k) + Number(b.slots, k) =
            Number(lender.slots, k) + Number(borrower.slots, k)
       /\ Volume(l.slots, k) + Volume(b.slots, k) =
            Volume(lender.slots, k) + Volume(borrower.slots, k)

LEMMA MovedIs ==
  ASSUME NEW lender, NEW borrower, NEW l, NEW b, Leaf(lender), Leaf(borrower),
         NEW a, NEW m, NEW c, Lost(lender, l, a, m, c), Count(m) > 0,
         NEW ts \in Seq(Stored), Got(borrower, b, ts), KeysOf(ts) = KeysOf(m),
         \A k \in Keys : Number(ts, k) = Number(m, k) /\ Volume(ts, k) = Volume(m, k)
  PROVE  Moved(lender, borrower, l, b, KeysOf(a) \cup KeysOf(c), KeysOf(m))
<1> HIDE DEF Slot, Stored, Raw, Number, Volume
<1>1. /\ PageOK(l) /\ Sorted(l.slots) /\ KeysOf(l.slots) = KeysOf(a) \cup KeysOf(c)
      /\ a \in Seq(Slot) /\ m \in Seq(Slot) /\ c \in Seq(Slot) /\ lender.slots = (a \o m) \o c
      /\ SameTally(lender, l, m)
  BY DEF Lost, Leaf
<1>2. /\ PageOK(b) /\ Sorted(b.slots) /\ KeysOf(b.slots) = KeysOf(borrower.slots) \cup KeysOf(m)
      /\ SameTally(b, borrower, ts)
  BY DEF Got, Leaf
<1>3. KeysOf(m) # {}
  BY <1>1, FirstKeyIs
<1>4. KeysOf(lender.slots) = (KeysOf(a) \cup KeysOf(c)) \cup KeysOf(m)
  <2>1. PICK am \in Seq(Slot) : am = a \o m
    BY <1>1, JoinFacts
  <2>2. KeysOf(am) = KeysOf(a) \cup KeysOf(m)
    BY <1>1, <2>1, JoinKeys
  <2>3. KeysOf(am \o c) = KeysOf(am) \cup KeysOf(c)
    BY <1>1, JoinKeys
  <2> QED BY <1>1, <2>1, <2>2, <2>3
<1>5. ASSUME NEW k \in Keys
      PROVE  /\ Number(l.slots, k) + Number(b.slots, k) =
                  Number(lender.slots, k) + Number(borrower.slots, k)
             /\ Volume(l.slots, k) + Volume(b.slots, k) =
                  Volume(lender.slots, k) + Volume(borrower.slots, k)
  <2>1. /\ Number(lender.slots, k) = Number(l.slots, k) + Number(m, k)
        /\ Volume(lender.slots, k) = Volume(l.slots, k) + Volume(m, k)
    BY <1>1 DEF SameTally
  <2>2. /\ Number(b.slots, k) = Number(borrower.slots, k) + Number(m, k)
        /\ Volume(b.slots, k) = Volume(borrower.slots, k) + Volume(m, k)
    BY <1>2 DEF SameTally
  <2>3. PICK nl, nb, nm, vl, vb, vm :
          /\ nl = Number(l.slots, k) /\ nb = Number(borrower.slots, k) /\ nm = Number(m, k)
          /\ vl = Volume(l.slots, k) /\ vb = Volume(borrower.slots, k) /\ vm = Volume(m, k)
    OBVIOUS
  <2>4. l.slots \in Seq(Slot) /\ borrower.slots \in Seq(Slot)
    BY <1>1, PageIs DEF Leaf, PageFacts
  <2>5. nl \in Int /\ nb \in Int /\ nm \in Int /\ vl \in Int /\ vb \in Int /\ vm \in Int
    BY <1>1, <2>3, <2>4, RawSlots, Tallies
  <2>6. nl + (nb + nm) = (nl + nm) + nb /\ vl + (vb + vm) = (vl + vm) + vb
    BY ONLY <2>5
  <2> QED BY <2>1, <2>2, <2>3, <2>6
<1> QED BY <1>1, <1>2, <1>3, <1>4, <1>5 DEF Moved, Leaf

\* A borrower has room for what it is lent.
LEMMA LoanFits ==
  ASSUME NEW p, PageOK(p), NEW b, PageOK(b), UsedSpace(b) <= LEAF_UNDERFLOW_THRESHOLD,
         NEW live \in Seq(Stored), Taken(live) = Taken(p.slots)
  PROVE  /\ Needed(b) \in Nat /\ Needed(b) > 0
         /\ Lends(p, live, Needed(b)) \in 0..Len(live)
         /\ Lends(p, live, Needed(b)) > 0 =>
              /\ Taken(First(live, Lends(p, live, Needed(b)))) <= TotalSpace(b)
              /\ ~(UsedSpace(p) - Taken(First(live, Lends(p, live, Needed(b))))
                     <= LEAF_UNDERFLOW_THRESHOLD)
         /\ Lends(p, live, Needed(b)) = 0 => UsedSpace(p) + UsedSpace(b) <= LEAF_SPACE
<1> HIDE DEF Slot, Stored, Taken
<1>1. PICK u, n, T, M, L, v, t, c :
        /\ u = UsedSpace(b) /\ n = Needed(b) /\ T = LEAF_UNDERFLOW_THRESHOLD
        /\ M = MAX_LEAF_PAGE_DATA /\ L = LEAF_SPACE /\ v = UsedSpace(p)
        /\ c = Lends(p, live, n) /\ t = Taken(First(live, c))
  OBVIOUS
<1>2. /\ u \in Nat /\ v \in Nat /\ T \in Nat /\ M \in Nat /\ L \in Nat /\ 2 * T + M <= L
      /\ TotalSpace(b) = L - u /\ u <= T
  BY <1>1, PageIs, Limits DEF PageFacts
<1>3. n = (T + 1) - u /\ n \in Nat /\ n > 0
  BY <1>1, <1>2 DEF Needed
<1>4. /\ c \in 0..Len(live)
      /\ c > 0 => t <= n - 1 + M /\ ~(v - t <= T)
      /\ c = 0 => v <= T + (n - 1) + M
  BY <1>1, <1>3, LendsIs
<1>5. c > 0 => t <= TotalSpace(b)
  <2>1. ASSUME c > 0 PROVE t \in Nat
    BY <1>1, <1>4, TakenSteps
  <2> QED BY <1>2, <1>3, <1>4, <2>1
<1>6. c = 0 => v + u <= L
  BY <1>2, <1>3, <1>4
<1> QED BY <1>1, <1>3, <1>4, <1>5, <1>6

LEMMA BorrowLeft ==
  ASSUME NEW l, NEW r, Leaf(l), Leaf(r), UsedSpace(r) <= LEAF_UNDERFLOW_THRESHOLD,
         NEW c, c = CanLendFromRight(l, Needed(r)), c > 0
  PROVE  \E A, M : /\ Moved(l, r, HandleLeftBorrow(l, r, c)[1], HandleLeftBorrow(l, r, c)[2], A, M)
                   /\ Below(A, M)
<1> HIDE DEF Slot, Stored, Raw, Number, Volume, Taken
<1>1. PICK s : s = l.slots
  OBVIOUS
<1>2. /\ PageOK(l) /\ PageOK(r) /\ s \in Seq(Slot) /\ Sorted(s) /\ Len(s) \in Nat
      /\ LiveSlots(s) \in Seq(Stored) /\ Count(s) \in Nat
  BY <1>1, PageIs DEF Leaf, PageFacts, Totals
<1>3. PICK live \in Seq(Stored) : live = LiveSlots(s)
  BY <1>2
<1>4. PICK back \in Seq(Stored) : back = Reverse(live) /\ Len(back) = Len(live)
  BY ReverseIs
<1>5. Taken(back) = Taken(s)
  <2>1. LiveSlots(live) = live /\ Count(live) = Len(live)
    BY LiveOfStored
  <2>2. Taken(live) = Taken(s)
    BY <1>2, <1>3, <2>1, SlotTotals DEF Taken, Totals, Count
  <2> QED BY <1>4, <2>2, ReverseTaken
<1>6. c = Lends(l, back, Needed(r))
  BY <1>1, <1>3, <1>4 DEF CanLendFromRight
<1>7. c \in 0..Count(s) /\ Taken(First(back, c)) <= TotalSpace(r)
  <2>1. Taken(back) = Taken(l.slots)
    BY <1>1, <1>5
  <2>2. c \in 0..Len(back) /\ Taken(First(back, c)) <= TotalSpace(r)
    BY <1>2, <1>6, <2>1, LoanFits
  <2> QED BY <1>3, <1>4, <2>2 DEF Count
<1>8. PICK d \in 0..Count(s) : d + c = Count(s)
  <2>1. Count(s) - c \in 0..Count(s) /\ (Count(s) - c) + c = Count(s)
    BY <1>2, <1>7
  <2> QED BY <2>1
<1>9. PICK a, m \in Seq(Slot) : s = a \o m /\ Count(a) = d
  BY <1>2, SplitAt
<1>10. Count(m) = c
  <2>1. Count(s) = Count(a) + Count(m) /\ Count(a) \in Nat /\ Count(m) \in Nat
    BY <1>9, CountJoin, SlotTotals DEF Totals
  <2> QED BY <1>2, <1>7, <1>8, <1>9, <2>1
<1>11. PICK la, lm \in Seq(Stored) : la = LiveSlots(a) /\ lm = LiveSlots(m)
  BY SlotTotals DEF Totals
<1>12. live = la \o lm
  BY <1>3, <1>9, <1>11, CountJoin
<1>13. PICK ra, rm \in Seq(Stored) : ra = Reverse(la) /\ rm = Reverse(lm)
  BY ReverseIs
<1>14. back = rm \o ra
  BY <1>4, <1>12, <1>13, ReverseJoin
<1>15. First(back, c) = rm
  <2>1. Len(rm) = c
    BY <1>10, <1>11, <1>13, ReverseIs DEF Count
  <2>2. First(rm \o ra, Len(rm)) = rm
    BY FirstOfJoin
  <2> QED BY <1>14, <2>1, <2>2
<1>16. Got(r, Receives(r, rm), rm)
  BY <1>2, <1>7, <1>15, ReceivesAll
<1>17. Lost(l, Without(l, LastPlaces(s, c)), a, m, <<>>)
  <2>1. Gone(LastPlaces(a \o m, Count(m)), a, m, <<>>) /\ (a \o m) \o <<>> = a \o m
    BY LastAre
  <2>2. <<>> \in Seq(Slot)
    OBVIOUS
  <2>3. Gone(LastPlaces(s, c), a, m, <<>>) /\ l.slots = (a \o m) \o <<>>
    BY <1>1, <1>9, <1>10, <2>1
  <2> QED BY <1>2, <2>2, <2>3, LoseIs
<1>18. /\ HandleLeftBorrow(l, r, c)[1] = Without(l, LastPlaces(s, c))
       /\ HandleLeftBorrow(l, r, c)[2] = Receives(r, rm)
  BY <1>1, <1>3, <1>4, <1>15 DEF HandleLeftBorrow
<1>19. /\ KeysOf(rm) = KeysOf(m)
       /\ \A k \in Keys : Number(rm, k) = Number(m, k) /\ Volume(rm, k) = Volume(m, k)
  <2>1. /\ KeysOf(rm) = KeysOf(lm)
        /\ \A k \in Keys : Number(rm, k) = Number(lm, k) /\ Volume(rm, k) = Volume(lm, k)
    BY <1>13, ReverseKeeps
  <2>2. KeysOf(lm) = KeysOf(m)
    BY <1>11, LiveKeys
  <2>3. \A k \in Keys : Number(lm, k) = Number(m, k) /\ Volume(lm, k) = Volume(m, k)
    BY <1>11, TallyLive
  <2> QED BY <2>1, <2>2, <2>3
<1>20. Moved(l, r, HandleLeftBorrow(l, r, c)[1], HandleLeftBorrow(l, r, c)[2],
             KeysOf(a) \cup KeysOf(<<>>), KeysOf(m))
  <2>1. Count(m) > 0
    BY <1>10
  <2> QED BY <1>16, <1>17, <1>18, <1>19, <2>1, MovedIs
<1>21. KeysOf(a) \cup KeysOf(<<>>) = KeysOf(a)
  BY DeletedIs, KeysOne
<1>22. Below(KeysOf(a), KeysOf(m))
  BY <1>2, <1>9, SortedJoin
<1> QED BY <1>20, <1>21, <1>22

LEMMA BorrowRight ==
  ASSUME NEW l, NEW r, Leaf(l), Leaf(r), UsedSpace(l) <= LEAF_UNDERFLOW_THRESHOLD,
         NEW c, c = CanLendFromLeft(r, Needed(l)), c > 0
  PROVE  \E A, M : /\ Moved(r, l, HandleRightBorrow(l, r, c)[2], HandleRightBorrow(l, r, c)[1], A, M)
                   /\ Below(M, A) /\ A # {}
<1> HIDE DEF Slot, Stored, Raw, Number, Volume, Taken
<1>1. PICK s : s = r.slots
  OBVIOUS
<1>2. /\ PageOK(l) /\ PageOK(r) /\ s \in Seq(Slot) /\ Sorted(s) /\ Len(s) \in Nat
      /\ LiveSlots(s) \in Seq(Stored) /\ Count(s) \in Nat
  BY <1>1, PageIs DEF Leaf, PageFacts, Totals
<1>3. PICK live \in Seq(Stored) : live = LiveSlots(s)
  BY <1>2
<1>4. Taken(live) = Taken(s)
  <2>1. LiveSlots(live) = live /\ Count(live) = Len(live)
    BY LiveOfStored
  <2> QED BY <1>2, <1>3, <2>1, SlotTotals DEF Taken, Totals, Count
<1>5. c = Lends(r, live, Needed(l))
  BY <1>1, <1>3 DEF CanLendFromLeft
<1>6. /\ c \in 0..Count(s) /\ Taken(First(live, c)) <= TotalSpace(l)
      /\ ~(UsedSpace(r) - Taken(First(live, c)) <= LEAF_UNDERFLOW_THRESHOLD)
  <2>1. Taken(live) = Taken(r.slots)
    BY <1>1, <1>4
  <2>2. /\ c \in 0..Len(live) /\ Taken(First(live, c)) <= TotalSpace(l)
        /\ ~(UsedSpace(r) - Taken(First(live, c)) <= LEAF_UNDERFLOW_THRESHOLD)
    BY <1>2, <1>5, <2>1, LoanFits
  <2> QED BY <1>3, <2>2 DEF Count
<1>7. PICK m, d \in Seq(Slot) : s = m \o d /\ Count(m) = c
  BY <1>2, <1>6, SplitAt
<1>8. PICK lm, ld \in Seq(Stored) : lm = LiveSlots(m) /\ ld = LiveSlots(d)
  BY SlotTotals DEF Totals
<1>9. live = lm \o ld
  BY <1>3, <1>7, <1>8, CountJoin
<1>10. First(live, c) = lm
  <2>1. Len(lm) = c
    BY <1>7, <1>8 DEF Count
  <2>2. First(lm \o ld, Len(lm)) = lm
    BY FirstOfJoin
  <2> QED BY <1>9, <2>1, <2>2
<1>11. Got(l, Receives(l, lm), lm)
  BY <1>2, <1>6, <1>10, ReceivesAll
<1>12. Lost(r, Without(r, FirstPlaces(s, c)), <<>>, m, d)
  <2>1. Gone(FirstPlaces(m \o d, Count(m)), <<>>, m, d) /\ (<<>> \o m) \o d = m \o d
    BY FirstAre
  <2>2. <<>> \in Seq(Slot)
    OBVIOUS
  <2>3. Gone(FirstPlaces(s, c), <<>>, m, d) /\ r.slots = (<<>> \o m) \o d
    BY <1>1, <1>7, <2>1
  <2> QED BY <1>2, <2>2, <2>3, LoseIs
<1>13. /\ HandleRightBorrow(l, r, c)[2] = Without(r, FirstPlaces(s, c))
       /\ HandleRightBorrow(l, r, c)[1] = Receives(l, lm)
  BY <1>1, <1>3, <1>10 DEF HandleRightBorrow
<1>14. /\ KeysOf(lm) = KeysOf(m)
       /\ \A k \in Keys : Number(lm, k) = Number(m, k) /\ Volume(lm, k) = Volume(m, k)
  <2>1. KeysOf(lm) = KeysOf(m)
    BY <1>8, LiveKeys
  <2>2. \A k \in Keys : Number(lm, k) = Number(m, k) /\ Volume(lm, k) = Volume(m, k)
    BY <1>8, TallyLive
  <2> QED BY <2>1, <2>2
<1>15. Moved(r, l, HandleRightBorrow(l, r, c)[2], HandleRightBorrow(l, r, c)[1],
             KeysOf(<<>>) \cup KeysOf(d), KeysOf(m))
  <2>1. Count(m) > 0
    BY <1>7
  <2> QED BY <1>11, <1>12, <1>13, <1>14, <2>1, MovedIs
<1>16. KeysOf(<<>>) \cup KeysOf(d) = KeysOf(d)
  BY DeletedIs, KeysOne
<1>17. Below(KeysOf(m), KeysOf(d))
  BY <1>2, <1>7, SortedJoin
<1>18. KeysOf(d) # {}
  <2>1. PICK q : q = Without(r, FirstPlaces(s, c))
    OBVIOUS
  <2>2. PageOK(q) /\ UsedSpace(r) = UsedSpace(q) + Bytes(m) /\ KeysOf(q.slots) = KeysOf(<<>>) \cup KeysOf(d)
    BY <1>12, <2>1 DEF Lost
  <2>3. /\ q.slots \in Seq(Slot) /\ UsedSpace(q) \in Nat /\ Taken(q.slots) \in Nat
        /\ UsedSpace(q) <= Taken(q.slots) + LEAF_UNDERFLOW_THRESHOLD
    BY <2>2, PageIs DEF PageFacts
  <2>4. /\ Bytes(m) \in Nat /\ Taken(lm) \in Nat /\ Bytes(m) <= Taken(lm)
        /\ LEAF_UNDERFLOW_THRESHOLD \in Nat
    <3>1. lm \in Seq(Slot)
      BY RawStored
    <3>2. Bytes(m) = Bytes(lm) /\ Bytes(m) \in Nat /\ Count(lm) \in Nat
      BY <1>8, <3>1, SlotTotals DEF Totals
    <3>3. Count(lm) * SLOT_SIZE \in Nat /\ LEAF_UNDERFLOW_THRESHOLD \in Nat
      BY <3>2, Limits
    <3> QED BY <3>2, <3>3 DEF Taken
  <2>5. ~(UsedSpace(r) - Taken(lm) <= LEAF_UNDERFLOW_THRESHOLD)
    BY <1>6, <1>10
  <2>6. Taken(q.slots) # 0
    BY <2>2, <2>3, <2>4, <2>5
  <2>7. ASSUME KeysOf(q.slots) = {} PROVE FALSE
    <3>1. PICK w \in Seq(Slot) : w = q.slots
      BY <2>3
    <3>2. Count(w) = 0
      <4>1. Count(w) \in Nat
        BY SlotTotals DEF Totals
      <4>2. ~(Count(w) > 0)
        BY <2>7, <3>1, FirstKeyIs
      <4> QED BY <4>1, <4>2
    <3>3. PICK t \in Seq(Stored) : t = LiveSlots(w)
      BY SlotTotals DEF Totals
    <3>4. t = <<>> /\ Bytes(t) = Bytes(w)
      BY <3>2, <3>3, EmptySeq, SlotTotals DEF Count, Totals
    <3>5. Bytes(w) = 0 /\ 0 * SLOT_SIZE = 0
      BY <3>4, BytesEmpty, Limits
    <3> QED BY <2>6, <3>1, <3>2, <3>5 DEF Taken
  <2> QED BY <1>16, <2>2, <2>7
<1> QED BY <1>15, <1>16, <1>17, <1>18

-----------------------------------------------------------------------------
\* Merging.

LEMMA TakenFirst ==
  ASSUME NEW s \in Seq(Stored), NEW n \in 0..Len(s)
  PROVE  Taken(First(s, n)) <= Taken(s) /\ Taken(First(s, n)) \in Nat /\ Taken(s) \in Nat
<1> HIDE DEF Slot, Stored, Taken
<1>1. s \in Seq(Slot) /\ Len(s) \in Nat
  BY RawStored, SlotAt
<1>2. n \in 0..Len(s) /\ Len(s) \in 0..Len(s) /\ n <= Len(s)
  BY <1>1
<1>3. /\ First(s, n) \in Seq(Slot)
      /\ \E r \in Seq(Slot) : First(s, Len(s)) = First(s, n) \o r
  BY <1>1, <1>2, FirstOfFirst
<1>4. PICK f, r \in Seq(Slot) : f = First(s, n) /\ First(s, Len(s)) = f \o r
  BY <1>3
<1>5. First(s, Len(s)) = s
  BY SubSeqFull DEF First
<1>6. Taken(f \o r) = Taken(f) + Taken(r) /\ Taken(f) \in Nat /\ Taken(r) \in Nat
  BY TakenJoin
<1> QED BY <1>4, <1>5, <1>6

LEMMA MergeIs ==
  ASSUME NEW l, NEW r, Leaf(l), Leaf(r), UsedSpace(l) + UsedSpace(r) <= LEAF_SPACE
  PROVE  MergeFits(l, r) /\ Got(l, MergePages(l, r), LiveSlots(r.slots))
<1> HIDE DEF Slot, Stored, Taken
<1>1. /\ PageOK(l) /\ PageOK(r) /\ r.slots \in Seq(Slot) /\ LiveSlots(r.slots) \in Seq(Stored)
      /\ UsedSpace(l) \in Nat /\ UsedSpace(r) \in Nat /\ LEAF_SPACE \in Nat
      /\ TotalSpace(l) = LEAF_SPACE - UsedSpace(l) /\ Taken(r.slots) <= UsedSpace(r)
      /\ Taken(r.slots) \in Nat
  BY PageIs, Limits DEF Leaf, PageFacts, Totals
<1>2. PICK ts \in Seq(Stored) : ts = LiveSlots(r.slots)
  BY <1>1
<1>3. Taken(ts) = Taken(r.slots)
  <2>1. LiveSlots(ts) = ts /\ Count(ts) = Len(ts)
    BY LiveOfStored
  <2> QED BY <1>1, <1>2, <2>1, SlotTotals DEF Taken, Totals, Count
<1>4. PICK t, room : t = Taken(ts) /\ room = TotalSpace(l)
  OBVIOUS
<1>5. t \in Nat /\ room \in Nat /\ t <= room
  BY <1>1, <1>3, <1>4, PageIs DEF PageFacts
<1>6. ASSUME NEW n \in DOMAIN ts
      PROVE  TotalSpace(Receives(l, First(ts, n - 1))) >= ts[n].length + SLOT_SIZE
  <2>1. n \in 1..Len(ts) /\ n \in 0..Len(ts) /\ n - 1 \in 0..Len(ts)
    BY LenProperties
  <2>2. PICK f \in Seq(Stored) : f = First(ts, n - 1)
    BY <2>1, TakenSteps
  <2>3. PICK tf, tn, x : tf = Taken(f) /\ tn = Taken(First(ts, n)) /\ x = ts[n].length + SLOT_SIZE
    OBVIOUS
  <2>4. tf \in Nat /\ tn \in Nat /\ tn <= t /\ tf <= t
    BY <1>4, <2>1, <2>2, <2>3, TakenFirst
  <2>5. tn = tf + x /\ x \in Nat
    BY <2>1, <2>2, <2>3, TakenSteps, TakenOne
  <2>6. Got(l, Receives(l, f), f)
    <3>1. Taken(f) <= TotalSpace(l)
      BY <1>4, <1>5, <2>3, <2>4
    <3> QED BY <1>1, <3>1, ReceivesAll
  <2>7. TotalSpace(Receives(l, f)) >= room - tf /\ TotalSpace(Receives(l, f)) \in Nat
    BY <1>4, <2>3, <2>6, PageIs DEF Got, PageFacts
  <2> QED BY <1>5, <2>2, <2>3, <2>4, <2>5, <2>7
<1>7. MergeFits(l, r)
  BY <1>2, <1>6 DEF MergeFits
<1>8. Got(l, Receives(l, ts), ts)
  BY <1>1, <1>4, <1>5, ReceivesAll
<1> QED BY <1>2, <1>7, <1>8 DEF MergePages

-----------------------------------------------------------------------------
\* A page is split.

\* A tuple takes some room, and not all of a page.
LEMMA TakenSome ==
  ASSUME NEW s \in Seq(Slot)
  PROVE  /\ Count(s) > 0 => Smallest <= Taken(s)
         /\ Count(s) <= 1 => Taken(s) <= MAX_LEAF_PAGE_DATA
<1> HIDE DEF Slot, Stored, Taken, Smallest
<1>1. PICK t \in Seq(Stored) : t = LiveSlots(s)
  BY SlotTotals DEF Totals
<1>2. Len(t) = Count(s) /\ Len(t) \in Nat
  BY <1>1, SlotTotals DEF Totals, Count
<1>3. Taken(t) = Taken(s) /\ Taken(t) \in Nat
  <2>1. LiveSlots(t) = t /\ Count(t) = Len(t)
    BY LiveOfStored
  <2>2. Taken(t) = Taken(s)
    BY <1>1, <2>1, SlotTotals DEF Taken, Totals, Count
  <2> QED BY <2>2, TakenJoin
<1>4. MAX_LEAF_PAGE_DATA \in Nat /\ Smallest \in Nat
  BY Limits
<1>5. CASE Count(s) = 0
  <2>1. 0 = Len(t)
    BY <1>2, <1>5
  <2>2. Taken(t) = 0
    BY <2>1, TakenSteps
  <2> QED BY <1>3, <1>4, <1>5, <2>2
<1>6. CASE Count(s) # 0
  <2>1. 1 \in 1..Len(t) /\ 1 \in 0..Len(t) /\ 1 - 1 = 0
    BY <1>2, <1>6
  <2>2. t[1] \in Stored /\ Taken(First(t, 1)) = Taken(First(t, 0)) + (t[1].length + SLOT_SIZE)
    BY <2>1, TakenSteps
  <2>3. Taken(First(t, 0)) = 0
    BY TakenSteps
  <2>4. PICK x \in Nat : x = t[1].length + SLOT_SIZE /\ Smallest <= x /\ x <= MAX_LEAF_PAGE_DATA
    BY <2>2, TakenOne
  <2>5. Taken(First(t, 1)) = x
    BY <2>2, <2>3, <2>4
  <2>6. Taken(First(t, 1)) <= Taken(t)
    BY <2>1, TakenFirst
  <2>7. Smallest <= Taken(t)
    BY <1>3, <1>4, <2>4, <2>5, <2>6
  <2>8. Count(s) <= 1 => Taken(t) <= MAX_LEAF_PAGE_DATA
    <3> SUFFICES ASSUME Count(s) <= 1 PROVE Taken(t) <= MAX_LEAF_PAGE_DATA
      OBVIOUS
    <3>1. Len(t) = 1
      BY <1>2, <1>6
    <3>2. First(t, 1) = t
      BY <3>1, SubSeqFull DEF First
    <3> QED BY <2>4, <2>5, <3>2
  <2> QED BY <1>3, <2>7, <2>8
<1> QED BY <1>5, <1>6

\* The number of live slots.
LEMMA CardCount ==
  ASSUME NEW s \in Seq(Slot)
  PROVE  \A n \in 0..Len(s) :
           /\ IsFiniteSet({m \in LivePlaces(s) : m <= n})
           /\ Cardinality({m \in LivePlaces(s) : m <= n}) = Count(First(s, n))
<1> HIDE DEF Slot, Stored
<1>1. Len(s) \in Nat /\ LivePlaces(s) \subseteq 1..Len(s)
  BY SlotAt DEF LivePlaces
<1> DEFINE P(n) == {m \in LivePlaces(s) : m <= n}
           S == {n \in Nat : n \in 0..Len(s) =>
                   IsFiniteSet(P(n)) /\ Cardinality(P(n)) = Count(First(s, n))}
<1>2. 0 \in S
  <2>1. P(0) = {}
    BY <1>1
  <2>2. 0 \in 0..Len(s)
    BY <1>1
  <2>3. First(s, 0) \in Seq(Slot) /\ Len(First(s, 0)) = 0
    BY <2>2, FirstOfFirst
  <2>4. First(s, 0) = <<>>
    BY <2>3, EmptySeq
  <2>5. Count(<<>>) = 0
    BY LiveEmpty DEF Count
  <2> QED BY <2>1, <2>4, <2>5, FS_EmptySet
<1>3. ASSUME NEW i \in Nat, i \in S PROVE i + 1 \in S
  <2> SUFFICES ASSUME i + 1 \in 0..Len(s)
               PROVE  IsFiniteSet(P(i + 1)) /\ Cardinality(P(i + 1)) = Count(First(s, i + 1))
    OBVIOUS
  <2>1. PICK n \in 1..Len(s) : n = i + 1
    BY <1>1
  <2>2. n - 1 = i /\ i \in 0..Len(s)
    BY <1>1, <2>1
  <2>3. IsFiniteSet(P(i)) /\ Cardinality(P(i)) = Count(First(s, i)) /\ Count(First(s, i)) \in Nat
    BY <1>3, <2>2, CountSteps
  <2>4. Count(First(s, n)) = Count(First(s, n - 1)) + IF s[n].is_deleted THEN 0 ELSE 1
    BY CountSteps
  <2>5. CASE s[n].is_deleted
    <3>1. n \notin LivePlaces(s)
      BY <2>5 DEF LivePlaces
    <3>2. P(n) = P(i)
      BY <1>1, <2>1, <3>1
    <3>3. Count(First(s, n)) = Count(First(s, i))
      BY <2>2, <2>3, <2>4, <2>5
    <3> HIDE DEF P
    <3> QED BY <2>1, <2>3, <3>2, <3>3
  <2>6. CASE ~s[n].is_deleted
    <3>1. n \in LivePlaces(s)
      BY <2>6 DEF LivePlaces
    <3>2. P(n) = P(i) \cup {n} /\ n \notin P(i)
      BY <1>1, <2>1, <3>1
    <3>3. PICK Q : Q = P(i)
      OBVIOUS
    <3>4. IsFiniteSet(Q \cup {n}) /\ Cardinality(Q \cup {n}) = Cardinality(Q) + 1
      <4>1. IsFiniteSet(Q) /\ n \notin Q
        BY <2>3, <3>2, <3>3
      <4> QED BY <4>1, FS_AddElement
    <3>5. Count(First(s, n)) = Count(First(s, i)) + 1
      BY <2>2, <2>3, <2>4, <2>6
    <3> HIDE DEF P
    <3> QED BY <2>1, <2>3, <3>2, <3>3, <3>4, <3>5
  <2> QED BY <2>5, <2>6
<1> HIDE DEF S
<1>4. \A i \in Nat : i \in S
  BY <1>2, <1>3, Induction
<1> QED BY <1>1, <1>4 DEF S

\* The live slot of a number, counted from the left.
LEMMA NumberedLive ==
  ASSUME NEW s \in Seq(Slot), NEW c \in 1..Count(s)
  PROVE  \E n \in LivePlaces(s) : Count(First(s, n)) = c
<1> HIDE DEF Slot, Stored
<1>1. Len(s) \in Nat /\ Count(s) \in Nat
  BY SlotAt, SlotTotals DEF Totals
<1> DEFINE S == {n \in 0..Len(s) : Count(First(s, n)) >= c}
<1>2. Len(s) \in S
  <2>1. First(s, Len(s)) = s
    BY SubSeqFull DEF First
  <2> QED BY <1>1, <2>1
<1>3. PICK n : n = Minimum(S)
  OBVIOUS
<1>4. n \in S /\ \A i \in S : n <= i
  BY <1>2, <1>3, LeastIs
<1>5. n # 0
  <2>1. Count(First(s, 0)) = 0
    <3>1. 0 \in 0..Len(s)
      BY <1>1
    <3>2. First(s, 0) \in Seq(Slot) /\ Len(First(s, 0)) = 0
      BY <3>1, FirstOfFirst
    <3>3. First(s, 0) = <<>>
      BY <3>2, EmptySeq
    <3> QED BY <3>3, LiveEmpty DEF Count
  <2> QED BY <1>4, <2>1
<1>6. n \in 1..Len(s) /\ n - 1 \in 0..Len(s) /\ n - 1 < n
  BY <1>1, <1>4, <1>5
<1>7. Count(First(s, n - 1)) < c
  <2>1. Count(First(s, n - 1)) \in Nat
    BY <1>6, CountSteps
  <2>2. n - 1 \notin S
    BY <1>4, <1>6
  <2> QED BY <1>6, <2>1, <2>2
<1>8. /\ Count(First(s, n)) = Count(First(s, n - 1)) + IF s[n].is_deleted THEN 0 ELSE 1
      /\ Count(First(s, n - 1)) \in Nat
  BY <1>6, CountSteps
<1>9. Count(First(s, n)) >= c
  BY <1>4
<1>10. ~s[n].is_deleted /\ Count(First(s, n)) = c
  BY <1>7, <1>8, <1>9
<1> QED BY <1>6, <1>10 DEF LivePlaces

\* Before a live slot there is another when it is not the first.
LEMMA LiveBefore ==
  ASSUME NEW s \in Seq(Slot), NEW n \in LivePlaces(s), Count(First(s, n)) > 1
  PROVE  Count(First(s, n - 1)) > 0
<1> HIDE DEF Slot, Stored
<1>1. Len(s) \in Nat /\ n \in 1..Len(s)
  BY SlotAt DEF LivePlaces
<1>2. n - 1 \in 0..Len(s)
  BY <1>1
<1>3. Count(First(s, n)) = Count(First(s, n - 1)) + IF s[n].is_deleted THEN 0 ELSE 1
  BY <1>1, CountSteps
<1>4. Count(First(s, n - 1)) \in Nat
  BY <1>2, CountSteps
<1> QED BY <1>3, <1>4

\* The new page begins with a live slot, and leaves one behind if there are two.
LEMMA StartIs ==
  ASSUME NEW s \in Seq(Slot), Count(s) > 0
  PROVE  /\ NewPageStart(s) \in LivePlaces(s)
         /\ Count(s) > 1 => Count(First(s, NewPageStart(s) - 1)) > 0
<1> HIDE DEF Slot, Stored
<1>1. Len(s) \in Nat /\ DOMAIN s = 1..Len(s) /\ Count(s) \in Nat
  BY SlotAt, SlotTotals DEF Totals
<1>2. PICK live, over, rest :
        /\ live = {n \in DOMAIN s : ~s[n].is_deleted}
        /\ over = {n \in live : Bytes(First(s, n)) > LEAF_SPACE \div 2}
        /\ rest = {n \in live : \E m \in over : m < n}
  OBVIOUS
<1>3. live = LivePlaces(s) /\ live \subseteq 1..Len(s) /\ live \subseteq Nat
  BY <1>1, <1>2 DEF LivePlaces
<1>4. NewPageStart(s) =
        IF rest # {} THEN Minimum(rest)
        ELSE CHOOSE n \in live : Cardinality({m \in live : m <= n}) = Cardinality(live) \div 2 + 1
  BY <1>2 DEF NewPageStart
<1>5. PICK n : n = NewPageStart(s)
  OBVIOUS
<1>6. CASE rest # {}
  <2>1. n \in rest
    <3>1. rest \subseteq Nat
      BY <1>2, <1>3
    <3> QED BY <1>4, <1>5, <1>6, <3>1, LeastIs
  <2>2. PICK m \in live : m < n
    BY <1>2, <2>1
  <2>3. n \in live
    BY <1>2, <2>1
  <2>4. m \in 1..Len(s) /\ m \in 0..Len(s) /\ n - 1 \in 0..Len(s) /\ m <= n - 1 /\ ~s[m].is_deleted
        /\ m - 1 \in 0..Len(s)
    BY <1>1, <1>2, <1>3, <2>2, <2>3
  <2>5. Count(First(s, m)) <= Count(First(s, n - 1)) /\ Count(First(s, n - 1)) \in Nat
    BY <2>4, CountSteps
  <2>6. Count(First(s, m)) = Count(First(s, m - 1)) + IF s[m].is_deleted THEN 0 ELSE 1
    BY <2>4, CountSteps
  <2>7. Count(First(s, m - 1)) \in Nat
    BY <2>4, CountSteps
  <2>8. Count(First(s, n - 1)) > 0
    BY <2>4, <2>5, <2>6, <2>7
  <2> QED BY <1>3, <1>5, <2>3, <2>8
<1>7. CASE rest = {}
  <2>1. Cardinality(live) = Count(s)
    <3>1. Len(s) \in 0..Len(s)
      BY <1>1
    <3>2. {m \in LivePlaces(s) : m <= Len(s)} = live
      BY <1>1, <1>3
    <3>3. First(s, Len(s)) = s
      BY SubSeqFull DEF First
    <3>4. Cardinality({m \in LivePlaces(s) : m <= Len(s)}) = Count(First(s, Len(s)))
      BY <3>1, CardCount
    <3> QED BY <3>2, <3>3, <3>4
  <2>2. PICK c : c = Count(s) \div 2 + 1
    OBVIOUS
  <2>3. c \in 1..Count(s) /\ (Count(s) > 1 => c > 1)
    <3>1. PICK k \in Nat : k = Count(s) /\ k > 0
      BY <1>1
    <3>2. k \div 2 + 1 \in 1..k /\ (k > 1 => k \div 2 + 1 > 1)
      BY ONLY <3>1
    <3> QED BY <2>2, <3>1, <3>2
  <2>4. \A i \in live : Cardinality({m \in live : m <= i}) = Count(First(s, i))
    <3> TAKE i \in live
    <3>1. i \in 0..Len(s)
      BY <1>1, <1>3
    <3> QED BY <1>3, <3>1, CardCount
  <2>5. n = CHOOSE i \in live : Cardinality({m \in live : m <= i}) = c
    BY <1>4, <1>5, <1>7, <2>1, <2>2
  <2>6. \E i \in live : Cardinality({m \in live : m <= i}) = c
    BY <1>3, <2>3, <2>4, NumberedLive
  <2>7. n \in live /\ Cardinality({m \in live : m <= n}) = c
    BY <2>5, <2>6
  <2>8. Count(s) > 1 => Count(First(s, n)) > 1
    BY <2>3, <2>4, <2>7
  <2> QED BY <1>3, <1>5, <2>7, <2>8, LiveBefore
<1> QED BY <1>6, <1>7

\* The two pages: both have room for a tuple again, and the right one is not empty.
Halves(p, x, y) ==
  /\ Leaf(x) /\ Leaf(y) /\ Smallest <= TotalSpace(x) /\ Smallest <= TotalSpace(y)
  /\ KeysOf(p.slots) = KeysOf(x.slots) \cup KeysOf(y.slots) /\ KeysOf(y.slots) # {}
  /\ Below(KeysOf(x.slots), KeysOf(y.slots))
  /\ \A k \in Keys : /\ Number(p.slots, k) = Number(x.slots, k) + Number(y.slots, k)
                     /\ Volume(p.slots, k) = Volume(x.slots, k) + Volume(y.slots, k)

LEMMA SplitIs ==
  ASSUME NEW p, Leaf(p), TotalSpace(p) < MIN_LEAF_PAGE_DATA
  PROVE  \E x, y : HandleSplit(p) = <<x, y>> /\ Halves(p, x, y)
<1> HIDE DEF Slot, Stored, Raw, Taken, Smallest, Number, Volume
<1>1. PICK s, L, T : s = p.slots /\ L = LEAF_SPACE /\ T = LEAF_UNDERFLOW_THRESHOLD
  OBVIOUS
<1>2. /\ s \in Seq(Slot) /\ Sorted(s) /\ Len(s) \in Nat /\ Count(s) \in Nat
      /\ Taken(s) \in Nat /\ Taken(s) <= UsedSpace(p) /\ UsedSpace(p) \in Nat
      /\ UsedSpace(p) <= Taken(s) + T /\ TotalSpace(p) = L - UsedSpace(p) /\ TotalSpace(p) \in Nat
  BY <1>1, PageIs DEF Leaf, PageFacts, Totals
<1>3. /\ L \in Nat /\ T \in Nat /\ MIN_LEAF_PAGE_DATA \in Nat /\ MAX_LEAF_PAGE_DATA \in Nat
      /\ MIN_LEAF_PAGE_DATA <= MAX_LEAF_PAGE_DATA /\ MIN_LEAF_PAGE_DATA + MAX_LEAF_PAGE_DATA <= L
      /\ 2 * T + MAX_LEAF_PAGE_DATA <= L /\ Smallest \in Nat /\ Smallest <= MIN_LEAF_PAGE_DATA
  BY <1>1, Limits
<1>4. Taken(s) <= L
  BY <1>2, <1>3
<1>5. Count(s) > 0
  <2>1. Taken(s) > 0
    BY <1>2, <1>3
  <2>2. CASE Count(s) = 0
    <3>1. PICK t \in Seq(Stored) : t = LiveSlots(s)
      BY <1>2, SlotTotals DEF Totals
    <3>2. Len(t) = 0 /\ Bytes(t) = Bytes(s)
      BY <1>2, <2>2, <3>1, SlotTotals DEF Totals, Count
    <3>3. Bytes(s) = 0
      BY <3>2, EmptySeq, BytesEmpty
    <3>4. 0 * SLOT_SIZE = 0
      BY Limits
    <3> QED BY <2>1, <2>2, <3>3, <3>4 DEF Taken
  <2> QED BY <1>2, <2>2
<1>6. PICK n : n = NewPageStart(s)
  OBVIOUS
<1>7. /\ n \in LivePlaces(s) /\ n \in 1..Len(s) /\ ~s[n].is_deleted
      /\ Count(s) > 1 => Count(First(s, n - 1)) > 0
  BY <1>2, <1>5, <1>6, StartIs DEF LivePlaces
<1>8. PICK k \in 0..Len(s) : k = n - 1 /\ n = k + 1
  BY <1>2, <1>7
<1>9. PICK a, b \in Seq(Slot) :
        /\ a = First(s, n - 1) /\ b = SubSeq(s, n, Len(s)) /\ s = a \o b
        /\ Len(b) = Len(s) - k /\ \A j \in 1..(Len(s) - k) : b[j] = s[k + j]
  <2>1. /\ SubSeq(s, 1, k) \in Seq(Slot) /\ SubSeq(s, k + 1, Len(s)) \in Seq(Slot)
        /\ SubSeq(s, 1, k) \o SubSeq(s, k + 1, Len(s)) = s
        /\ Len(SubSeq(s, k + 1, Len(s))) = Len(s) - k
        /\ \A j \in 1..(Len(s) - k) : SubSeq(s, k + 1, Len(s))[j] = s[k + j]
    BY <1>2, CutFacts
  <2> QED BY <1>8, <2>1 DEF First
<1>10. /\ Taken(s) = Taken(a) + Taken(b) /\ Taken(a) \in Nat /\ Taken(b) \in Nat
       /\ Count(s) = Count(a) + Count(b) /\ Count(a) \in Nat /\ Count(b) \in Nat
  <2>1. Taken(a \o b) = Taken(a) + Taken(b) /\ Taken(a) \in Nat /\ Taken(b) \in Nat
    BY TakenJoin
  <2>2. Count(a \o b) = Count(a) + Count(b)
    BY CountJoin
  <2>3. Count(a) \in Nat /\ Count(b) \in Nat
    BY SlotTotals DEF Totals
  <2> QED BY <1>9, <2>1, <2>2, <2>3
<1>11. KeysOf(b) # {} /\ Count(b) > 0
  <2>1. 1 \in 1..Len(b) /\ b[1] = s[n]
    <3>1. 1 \in 1..(Len(s) - k) /\ k + 1 = n
      BY <1>2, <1>7, <1>8
    <3>2. b[1] = s[k + 1]
      BY <1>9, <3>1
    <3> QED BY <1>9, <3>1, <3>2
  <2>2. 1 \in LivePlaces(b)
    BY <1>7, <2>1 DEF LivePlaces
  <2>3. b[1].key \in KeysOf(b)
    BY <2>2 DEF KeysOf
  <2>4. CASE Count(b) = 0
    <3>1. PICK t \in Seq(Stored) : t = LiveSlots(b)
      BY SlotTotals DEF Totals
    <3>2. t = <<>>
      BY <2>4, <3>1, EmptySeq DEF Count
    <3>3. KeysOf(<<>>) = {}
      BY DeletedIs, KeysOne
    <3>4. KeysOf(t) = KeysOf(b)
      BY <3>1, LiveKeys
    <3> QED BY <2>3, <3>2, <3>3, <3>4
  <2> QED BY <1>10, <2>3, <2>4
<1>12. PICK x, y : x = MakePage(a) /\ y = MakePage(b)
  OBVIOUS
<1>13. HandleSplit(p) = <<x, y>>
  BY <1>1, <1>6, <1>9, <1>12 DEF HandleSplit
<1>14. PageOK(x) /\ x.slots = LiveSlots(a) /\ TotalSpace(x) = L - Taken(a)
  BY <1>1, <1>4, <1>10, <1>12, MakePageIs, <1>3
<1>15. PageOK(y) /\ y.slots = LiveSlots(b) /\ TotalSpace(y) = L - Taken(b)
  BY <1>1, <1>4, <1>10, <1>12, MakePageIs, <1>3
<1>16. Smallest <= TotalSpace(x)
  <2>1. Smallest <= Taken(b)
    BY <1>11, TakenSome
  <2> QED BY <1>3, <1>4, <1>10, <1>14, <2>1
<1>17. Smallest <= TotalSpace(y)
  <2>1. CASE Count(a) > 0
    <3>1. Smallest <= Taken(a)
      BY <2>1, TakenSome
    <3> QED BY <1>3, <1>4, <1>10, <1>15, <3>1
  <2>2. CASE ~(Count(a) > 0)
    <3>1. Count(b) <= 1
      <4>1. Count(a) = 0
        BY <1>10, <2>2
      <4>2. ~(Count(s) > 1)
        BY <1>7, <1>9, <4>1
      <4> QED BY <1>10, <4>1, <4>2
    <3>2. Taken(b) <= MAX_LEAF_PAGE_DATA
      BY <3>1, TakenSome
    <3> QED BY <1>3, <1>10, <1>15, <3>2
  <2> QED BY <2>1, <2>2
<1>18. /\ Sorted(a) /\ Sorted(b) /\ Below(KeysOf(a), KeysOf(b))
       /\ KeysOf(s) = KeysOf(a) \cup KeysOf(b)
  <2>1. Sorted(a \o b)
    BY <1>2, <1>9
  <2>2. Sorted(a) /\ Sorted(b) /\ Below(KeysOf(a), KeysOf(b))
    BY <2>1, SortedJoin
  <2>3. KeysOf(a \o b) = KeysOf(a) \cup KeysOf(b)
    BY JoinKeys
  <2> QED BY <1>9, <2>2, <2>3
<1>19. /\ KeysOf(x.slots) = KeysOf(a) /\ Sorted(x.slots)
       /\ KeysOf(y.slots) = KeysOf(b) /\ Sorted(y.slots)
  BY <1>14, <1>15, <1>18, LiveKeys
<1>20. ASSUME NEW j \in Keys
       PROVE  /\ Number(s, j) = Number(x.slots, j) + Number(y.slots, j)
              /\ Volume(s, j) = Volume(x.slots, j) + Volume(y.slots, j)
  <2>1. Number(a \o b, j) = Number(a, j) + Number(b, j) /\ Volume(a \o b, j) = Volume(a, j) + Volume(b, j)
    BY RawSlots, TallyJoin
  <2>2. Number(x.slots, j) = Number(a, j) /\ Volume(x.slots, j) = Volume(a, j)
    BY <1>14, TallyLive
  <2>3. Number(y.slots, j) = Number(b, j) /\ Volume(y.slots, j) = Volume(b, j)
    BY <1>15, TallyLive
  <2> QED BY <1>9, <2>1, <2>2, <2>3
<1>21. Leaf(x) /\ Leaf(y)
  BY <1>14, <1>15, <1>19 DEF Leaf
<1>22. KeysOf(p.slots) = KeysOf(x.slots) \cup KeysOf(y.slots) /\ KeysOf(y.slots) # {}
       /\ Below(KeysOf(x.slots), KeysOf(y.slots))
  BY <1>1, <1>11, <1>18, <1>19
<1> QED BY <1>1, <1>13, <1>16, <1>17, <1>20, <1>21, <1>22 DEF Halves

-----------------------------------------------------------------------------
\* The tree: a leaf, or two with a boundary between them.

OneLeaf(ls, b) == \E p : ls = <<p>> /\ Leaf(p) /\ b = 0
TwoLeaves(l, r, b) ==
  /\ Leaf(l) /\ Leaf(r) /\ b \in Keys
  /\ Below(KeysOf(l.slots), {b}) /\ Below({b}, KeysOf(r.slots))
Whole(ls, b) == OneLeaf(ls, b) \/ \E l, r : ls = <<l, r>> /\ TwoLeaves(l, r, b)

All(ls) == IF Len(ls) = 1 THEN ls[1].slots ELSE ls[1].slots \o ls[2].slots

\* With a tuple of the key, of some length, more.
Grown(s, t, key, len) ==
  \A k \in Keys : /\ Number(t, k) = Number(s, k) + IF k = key THEN 1 ELSE 0
                  /\ Volume(t, k) = Volume(s, k) + IF k = key THEN len ELSE 0
Alike(s, t) == \A k \in Keys : Number(t, k) = Number(s, k) /\ Volume(t, k) = Volume(s, k)
Size1 == 1..MAX_LEAF_PAGE_DATA

LEMMA Pairs ==
  ASSUME NEW l, NEW r, NEW q
  PROVE  /\ [<<l>> EXCEPT ![1] = q] = <<q>>
         /\ [<<l, r>> EXCEPT ![1] = q] = <<q, r>> /\ [<<l, r>> EXCEPT ![2] = q] = <<l, q>>
         /\ <<l>>[1] = l /\ <<l, r>>[1] = l /\ <<l, r>>[2] = r
         /\ Len(<<l>>) = 1 /\ Len(<<l, r>>) = 2
         /\ <<l>> # <<q, r>>
<1>1. [<<l>> EXCEPT ![1] = q] = <<q>>
  OBVIOUS
<1>2. [<<l, r>> EXCEPT ![1] = q] = <<q, r>> /\ [<<l, r>> EXCEPT ![2] = q] = <<l, q>>
  OBVIOUS
<1> QED BY <1>1, <1>2

LEMMA AllOf ==
  ASSUME NEW l, NEW r
  PROVE  All(<<l>>) = l.slots /\ All(<<l, r>>) = l.slots \o r.slots
<1>1. /\ <<l>>[1] = l /\ <<l, r>>[1] = l /\ <<l, r>>[2] = r
      /\ Len(<<l>>) = 1 /\ Len(<<l, r>>) # 1
  OBVIOUS
<1> QED BY <1>1 DEF All

LEMMA LeafIs ==
  ASSUME NEW p, Leaf(p)
  PROVE  /\ p.slots \in Seq(Slot) /\ p.slots \in Seq(Raw) /\ PageOK(p) /\ Sorted(p.slots)
         /\ KeysOf(p.slots) \subseteq Keys /\ KeysOf(p.slots) \subseteq Int
BY PageIs, KeysAre, RawSlots DEF Leaf, PageFacts

LEMMA InsertOne ==
  ASSUME NEW p, Leaf(p), NEW key \in Keys, Smallest <= TotalSpace(p)
  PROVE  /\ Leaf(WriteChunkLeaf(p, key, Size[key]))
         /\ KeysOf(WriteChunkLeaf(p, key, Size[key]).slots) = KeysOf(p.slots) \cup {key}
         /\ \E len \in Size1 : Grown(p.slots, WriteChunkLeaf(p, key, Size[key]).slots, key, len)
<1> HIDE DEF Slot, Stored, Raw, Number, Volume, Smallest
<1>1. Size[key] \in Nat /\ Smallest <= Size[key] /\ PageOK(p) /\ Sorted(p.slots)
  BY Limits, LeafIs
<1>2. PICK q : q = WriteChunkLeaf(p, key, Size[key])
  OBVIOUS
<1>3. PICK d \in Smallest..MAX_LEAF_PAGE_DATA :
        Live(key, d - SLOT_SIZE) \in Stored /\ Wrote(p, q, Live(key, d - SLOT_SIZE))
  BY <1>1, <1>2, WriteIs
<1>4. PICK x \in Stored : x = Live(key, d - SLOT_SIZE)
  BY <1>3
<1>5. x.key = key /\ x.length \in Lengths /\ Wrote(p, q, x)
  BY <1>3, <1>4, StoredIs DEF Live
<1>6. x.length \in Size1
  BY <1>5, LengthIs, Limits DEF Size1
<1>7. Leaf(q) /\ KeysOf(q.slots) = KeysOf(p.slots) \cup {key}
  BY <1>1, <1>5 DEF Wrote, Leaf
<1>8. Grown(p.slots, q.slots, key, x.length)
  <2>1. x \in Raw
    BY StoredIs
  <2>2. \A k \in Keys : /\ Number(q.slots, k) = Number(p.slots, k) + Number(<<x>>, k)
                        /\ Volume(q.slots, k) = Volume(p.slots, k) + Volume(<<x>>, k)
    BY <1>1, <1>5, WroteTally
  <2>3. \A k \in Keys : /\ Number(<<x>>, k) = IF key = k THEN 1 ELSE 0
                        /\ Volume(<<x>>, k) = IF key = k THEN x.length ELSE 0
    BY <1>5, <2>1, TallyOfOne
  <2> QED BY <2>2, <2>3 DEF Grown
<1> QED BY <1>2, <1>6, <1>7, <1>8

LEMMA DeleteOne ==
  ASSUME NEW p, Leaf(p), NEW key \in Keys
  PROVE  /\ Leaf(DeleteTuple(p, key)) /\ KeysOf(DeleteTuple(p, key).slots) \subseteq KeysOf(p.slots)
         /\ IF FoundIn(p, key)
            THEN /\ key \in KeysOf(p.slots)
                 /\ \E len \in Size1 : Grown(DeleteTuple(p, key).slots, p.slots, key, len)
            ELSE DeleteTuple(p, key) = p
<1> HIDE DEF Slot, Stored, Raw, Number, Volume
<1>1. PICK q : q = DeleteTuple(p, key)
  OBVIOUS
<1>2. PageOK(p) /\ Sorted(p.slots)
  BY LeafIs
<1>3. CASE ~FoundIn(p, key) /\ q = p
  BY <1>1, <1>3
<1>4. CASE /\ FoundIn(p, key) /\ key \in KeysOf(p.slots)
           /\ \E x \in Stored, a, c \in Seq(Slot) : x.key = key /\ Lost(p, q, a, <<x>>, c)
  <2>1. PICK x \in Stored, a, c \in Seq(Slot) : x.key = key /\ Lost(p, q, a, <<x>>, c)
    BY <1>4
  <2>2. PICK o : o = <<x>>
    OBVIOUS
  <2>3. /\ PageOK(q) /\ o \in Seq(Slot) /\ p.slots = (a \o o) \o c /\ Sorted(q.slots)
        /\ KeysOf(q.slots) = KeysOf(a) \cup KeysOf(c) /\ SameTally(p, q, o)
    BY <1>2, <2>1, <2>2 DEF Lost
  <2>4. KeysOf(q.slots) \subseteq KeysOf(p.slots)
    <3>1. PICK ao \in Seq(Slot) : ao = a \o o
      BY <2>3, JoinFacts
    <3>2. KeysOf(ao) = KeysOf(a) \cup KeysOf(o)
      BY <2>3, <3>1, JoinKeys
    <3>3. KeysOf(ao \o c) = KeysOf(ao) \cup KeysOf(c)
      BY JoinKeys
    <3> QED BY <2>3, <3>1, <3>2, <3>3
  <2>5. x.length \in Size1
    BY StoredIs, LengthIs, Limits DEF Size1
  <2>6. Grown(q.slots, p.slots, key, x.length)
    <3>1. x \in Raw
      BY StoredIs
    <3>2. \A k \in Keys : /\ Number(p.slots, k) = Number(q.slots, k) + Number(<<x>>, k)
                          /\ Volume(p.slots, k) = Volume(q.slots, k) + Volume(<<x>>, k)
      BY <2>2, <2>3 DEF SameTally
    <3>3. \A k \in Keys : /\ Number(<<x>>, k) = IF key = k THEN 1 ELSE 0
                          /\ Volume(<<x>>, k) = IF key = k THEN x.length ELSE 0
      BY <2>1, <3>1, TallyOfOne
    <3> QED BY <3>2, <3>3 DEF Grown
  <2> QED BY <1>1, <1>4, <2>3, <2>4, <2>5, <2>6 DEF Leaf
<1> QED BY <1>1, <1>2, <1>3, <1>4, DeleteIs

\* What is said of the pieces holds of the whole.
LEMMA JoinGrown ==
  ASSUME NEW l, NEW r, NEW q, Leaf(l), Leaf(r), Leaf(q), NEW key \in Keys, NEW len \in Int
  PROVE  /\ Grown(l.slots, q.slots, key, len) =>
              Grown(l.slots \o r.slots, q.slots \o r.slots, key, len)
         /\ Grown(r.slots, q.slots, key, len) =>
              Grown(l.slots \o r.slots, l.slots \o q.slots, key, len)
<1> HIDE DEF Slot, Stored, Raw, Number, Volume
<1>1. PICK a, b, c \in Seq(Raw) : a = l.slots /\ b = r.slots /\ c = q.slots
  BY LeafIs
<1>2. ASSUME NEW k \in Keys
      PROVE  /\ Number(a, k) \in Int /\ Number(b, k) \in Int /\ Number(c, k) \in Int
             /\ Volume(a, k) \in Int /\ Volume(b, k) \in Int /\ Volume(c, k) \in Int
             /\ Number(a \o b, k) = Number(a, k) + Number(b, k)
             /\ Volume(a \o b, k) = Volume(a, k) + Volume(b, k)
             /\ Number(a \o c, k) = Number(a, k) + Number(c, k)
             /\ Volume(a \o c, k) = Volume(a, k) + Volume(c, k)
             /\ Number(c \o b, k) = Number(c, k) + Number(b, k)
             /\ Volume(c \o b, k) = Volume(c, k) + Volume(b, k)
  <2>1. /\ Number(a, k) \in Int /\ Number(b, k) \in Int /\ Number(c, k) \in Int
        /\ Volume(a, k) \in Int /\ Volume(b, k) \in Int /\ Volume(c, k) \in Int
    BY Tallies
  <2>2. Number(a \o b, k) = Number(a, k) + Number(b, k) /\ Volume(a \o b, k) = Volume(a, k) + Volume(b, k)
    BY TallyJoin
  <2>3. Number(a \o c, k) = Number(a, k) + Number(c, k) /\ Volume(a \o c, k) = Volume(a, k) + Volume(c, k)
    BY TallyJoin
  <2>4. Number(c \o b, k) = Number(c, k) + Number(b, k) /\ Volume(c \o b, k) = Volume(c, k) + Volume(b, k)
    BY TallyJoin
  <2> QED BY <2>1, <2>2, <2>3, <2>4
<1>3. ASSUME Grown(a, c, key, len) PROVE Grown(a \o b, c \o b, key, len)
  <2> SUFFICES ASSUME NEW k \in Keys
               PROVE  /\ Number(c \o b, k) = Number(a \o b, k) + IF k = key THEN 1 ELSE 0
                      /\ Volume(c \o b, k) = Volume(a \o b, k) + IF k = key THEN len ELSE 0
    BY DEF Grown
  <2>1. /\ Number(c, k) = Number(a, k) + IF k = key THEN 1 ELSE 0
        /\ Volume(c, k) = Volume(a, k) + IF k = key THEN len ELSE 0
    BY <1>3 DEF Grown
  <2>2. PICK na, nb, va, vb : /\ na = Number(a, k) /\ nb = Number(b, k)
                              /\ va = Volume(a, k) /\ vb = Volume(b, k)
    OBVIOUS
  <2>3. PICK i, j \in Int : i = (IF k = key THEN 1 ELSE 0) /\ j = (IF k = key THEN len ELSE 0)
    OBVIOUS
  <2>4. na \in Int /\ nb \in Int /\ va \in Int /\ vb \in Int
    BY <1>2, <2>2
  <2>5. (na + i) + nb = (na + nb) + i /\ (va + j) + vb = (va + vb) + j
    BY ONLY <2>3, <2>4
  <2> QED BY <1>2, <2>1, <2>2, <2>3, <2>5
<1>4. ASSUME Grown(b, c, key, len) PROVE Grown(a \o b, a \o c, key, len)
  <2> SUFFICES ASSUME NEW k \in Keys
               PROVE  /\ Number(a \o c, k) = Number(a \o b, k) + IF k = key THEN 1 ELSE 0
                      /\ Volume(a \o c, k) = Volume(a \o b, k) + IF k = key THEN len ELSE 0
    BY DEF Grown
  <2>1. /\ Number(c, k) = Number(b, k) + IF k = key THEN 1 ELSE 0
        /\ Volume(c, k) = Volume(b, k) + IF k = key THEN len ELSE 0
    BY <1>4 DEF Grown
  <2>2. PICK na, nb, va, vb : /\ na = Number(a, k) /\ nb = Number(b, k)
                              /\ va = Volume(a, k) /\ vb = Volume(b, k)
    OBVIOUS
  <2>3. PICK i, j \in Int : i = (IF k = key THEN 1 ELSE 0) /\ j = (IF k = key THEN len ELSE 0)
    OBVIOUS
  <2>4. na \in Int /\ nb \in Int /\ va \in Int /\ vb \in Int
    BY <1>2, <2>2
  <2>5. na + (nb + i) = (na + nb) + i /\ va + (vb + j) = (va + vb) + j
    BY ONLY <2>3, <2>4
  <2> QED BY <1>2, <2>1, <2>2, <2>3, <2>5
<1> QED BY <1>1, <1>3, <1>4

LEMMA BelowMore ==
  ASSUME NEW S, NEW T, NEW U, NEW V
  PROVE  /\ Below(S, T) /\ U \subseteq S /\ V \subseteq T => Below(U, V)
         /\ Below(S \cup U, T) <=> Below(S, T) /\ Below(U, T)
         /\ Below(S, T \cup V) <=> Below(S, T) /\ Below(S, V)
<1>1. Below(S, T) /\ U \subseteq S /\ V \subseteq T => Below(U, V)
  BY DEF Below
<1>2. Below(S \cup U, T) <=> Below(S, T) /\ Below(U, T)
  BY DEF Below
<1>3. Below(S, T \cup V) <=> Below(S, T) /\ Below(S, V)
  BY DEF Below
<1> QED BY <1>1, <1>2, <1>3

LEMMA BelowOver ==
  ASSUME NEW S, NEW b, NEW T, S \subseteq Int, b \in Int, T \subseteq Int, Below(S, {b}), Below({b}, T)
  PROVE  Below(S, T)
<1> SUFFICES ASSUME NEW k \in S, NEW l \in T PROVE k <= l
  BY DEF Below
<1>1. k <= b /\ b <= l /\ k \in Int /\ l \in Int
  BY DEF Below
<1> QED BY <1>1

\* A tuple is put in the leaf it belongs to.
LEMMA InsertTwo ==
  ASSUME NEW l, NEW r, NEW b, TwoLeaves(l, r, b), NEW key \in Keys,
         NEW i, i = IF key >= b THEN 2 ELSE 1, Smallest <= TotalSpace(<<l, r>>[i]),
         NEW ls, ls = [<<l, r>> EXCEPT ![i] = WriteChunkLeaf(@, key, Size[key])]
  PROVE  /\ Whole(ls, b)
         /\ \E len \in Size1 : Grown(l.slots \o r.slots, All(ls), key, len)
<1> HIDE DEF Slot, Stored, Raw, Number, Volume, Smallest
<1>1. /\ Leaf(l) /\ Leaf(r) /\ b \in Keys /\ Below(KeysOf(l.slots), {b}) /\ Below({b}, KeysOf(r.slots))
      /\ b \in Nat /\ key \in Nat
  BY Limits DEF TwoLeaves
<1>2. \A len \in Size1 : len \in Int
  BY Limits DEF Size1
<1>3. CASE key >= b
  <2>1. PICK q : q = WriteChunkLeaf(r, key, Size[key])
    OBVIOUS
  <2>2. ls = <<l, q>> /\ Smallest <= TotalSpace(r)
    <3>1. i = 2 /\ <<l, r>>[2] = r /\ [<<l, r>> EXCEPT ![2] = q] = <<l, q>>
      BY <1>3, Pairs
    <3> QED BY <2>1, <3>1
  <2>3. Leaf(q) /\ KeysOf(q.slots) = KeysOf(r.slots) \cup {key}
    BY <1>1, <2>1, <2>2, InsertOne
  <2>4. PICK len \in Size1 : Grown(r.slots, q.slots, key, len)
    BY <1>1, <2>1, <2>2, InsertOne
  <2>5. Below({b}, {key})
    BY <1>1, <1>3 DEF Below
  <2>6. Below({b}, KeysOf(q.slots))
    BY <1>1, <2>3, <2>5, BelowMore
  <2>7. Whole(ls, b)
    BY <1>1, <2>2, <2>3, <2>6 DEF Whole, TwoLeaves
  <2>8. Grown(l.slots \o r.slots, All(ls), key, len)
    <3>1. All(ls) = l.slots \o q.slots
      BY <2>2, AllOf
    <3> QED BY <1>1, <1>2, <2>3, <2>4, <3>1, JoinGrown
  <2> QED BY <2>7, <2>8
<1>4. CASE ~(key >= b)
  <2>1. PICK q : q = WriteChunkLeaf(l, key, Size[key])
    OBVIOUS
  <2>2. ls = <<q, r>> /\ Smallest <= TotalSpace(l)
    <3>1. i = 1 /\ <<l, r>>[1] = l /\ [<<l, r>> EXCEPT ![1] = q] = <<q, r>>
      BY <1>4, Pairs
    <3> QED BY <2>1, <3>1
  <2>3. Leaf(q) /\ KeysOf(q.slots) = KeysOf(l.slots) \cup {key}
    BY <1>1, <2>1, <2>2, InsertOne
  <2>4. PICK len \in Size1 : Grown(l.slots, q.slots, key, len)
    BY <1>1, <2>1, <2>2, InsertOne
  <2>5. Below({key}, {b})
    BY <1>1, <1>4 DEF Below
  <2>6. Below(KeysOf(q.slots), {b})
    BY <1>1, <2>3, <2>5, BelowMore
  <2>7. Whole(ls, b)
    BY <1>1, <2>2, <2>3, <2>6 DEF Whole, TwoLeaves
  <2>8. Grown(l.slots \o r.slots, All(ls), key, len)
    <3>1. All(ls) = q.slots \o r.slots
      BY <2>2, AllOf
    <3> QED BY <1>1, <1>2, <2>3, <2>4, <3>1, JoinGrown
  <2> QED BY <2>7, <2>8
<1> QED BY <1>3, <1>4

LEMMA RoomIs ==
  ASSUME NEW p, Leaf(p), NEW key \in Keys
  PROVE  /\ RoomFor(p, key) => Smallest <= TotalSpace(p)
         /\ ~RoomFor(p, key) => TotalSpace(p) < MIN_LEAF_PAGE_DATA
<1>1. /\ TotalSpace(p) \in Nat /\ Size[key] \in Nat /\ MIN_LEAF_PAGE_DATA \in Nat
      /\ Smallest \in Nat /\ Smallest <= MIN_LEAF_PAGE_DATA /\ Smallest <= Size[key]
  BY PageIs, Limits DEF Leaf, PageFacts
<1> HIDE DEF Smallest
<1> QED BY <1>1 DEF RoomFor, Least

LEMMA InsertIs ==
  ASSUME Whole(leaves, boundary), NEW key \in Keys, Insert(key)
  PROVE  /\ Whole(leaves', boundary') /\ thrown' = thrown
         /\ \E len \in Size1 : Grown(All(leaves), All(leaves'), key, len)
<1> HIDE DEF Smallest
<1>1. /\ RoomFor(leaves[Child(key)], key) /\ boundary' = boundary /\ thrown' = thrown
      /\ leaves' = [leaves EXCEPT ![Child(key)] = WriteChunkLeaf(@, key, Size[key])]
  BY DEF Insert
<1>2. CASE OneLeaf(leaves, boundary)
  <2>1. PICK p : leaves = <<p>> /\ Leaf(p) /\ boundary = 0
    BY <1>2 DEF OneLeaf
  <2>2. PICK q : q = WriteChunkLeaf(p, key, Size[key])
    OBVIOUS
  <2>3. Child(key) = 1 /\ leaves[1] = p
    BY <2>1 DEF Child
  <2>4. leaves' = <<q>> /\ RoomFor(p, key)
    BY <1>1, <2>1, <2>2, <2>3
  <2>5. Smallest <= TotalSpace(p)
    BY <2>1, <2>4, RoomIs
  <2>6. Leaf(q) /\ \E len \in Size1 : Grown(p.slots, q.slots, key, len)
    BY <2>1, <2>2, <2>5, InsertOne
  <2>7. All(leaves) = p.slots /\ All(leaves') = q.slots
    BY <2>1, <2>4, AllOf
  <2> QED BY <1>1, <2>1, <2>4, <2>6, <2>7 DEF Whole, OneLeaf
<1>3. CASE \E l, r : leaves = <<l, r>> /\ TwoLeaves(l, r, boundary)
  <2>1. PICK l, r : leaves = <<l, r>> /\ TwoLeaves(l, r, boundary)
    BY <1>3
  <2>2. PICK i : i = IF key >= boundary THEN 2 ELSE 1
    OBVIOUS
  <2>3. Child(key) = i
    BY <2>1, <2>2 DEF Child
  <2>4. Smallest <= TotalSpace(<<l, r>>[i])
    <3>1. Leaf(<<l, r>>[i])
      BY <2>1, <2>2 DEF TwoLeaves
    <3> QED BY <1>1, <2>1, <2>3, <3>1, RoomIs
  <2>5. leaves' = [<<l, r>> EXCEPT ![i] = WriteChunkLeaf(@, key, Size[key])]
    BY <1>1, <2>1, <2>3
  <2>6. /\ Whole(leaves', boundary)
        /\ \E len \in Size1 : Grown(l.slots \o r.slots, All(leaves'), key, len)
    BY <2>1, <2>2, <2>4, <2>5, InsertTwo
  <2>7. All(leaves) = l.slots \o r.slots
    BY <2>1, AllOf
  <2> QED BY <1>1, <2>6, <2>7
<1> QED BY <1>2, <1>3 DEF Whole

LEMMA InsertSplitsIs ==
  ASSUME Whole(leaves, boundary), NEW key \in Keys, InsertSplits(key)
  PROVE  /\ Whole(leaves', boundary') /\ thrown' = thrown
         /\ \E len \in Size1 : Grown(All(leaves), All(leaves'), key, len)
<1> HIDE DEF Smallest, Number, Volume, Slot, Stored, Raw
<1>1. PICK halves : halves = HandleSplit(leaves[1])
  OBVIOUS
<1>2. /\ Len(leaves) = 1 /\ ~RoomFor(leaves[1], key) /\ boundary' = GetPageFirstKey(halves[2])
      /\ thrown' = thrown
      /\ leaves' = [halves EXCEPT ![IF key >= boundary' THEN 2 ELSE 1] =
                      WriteChunkLeaf(@, key, Size[key])]
  BY <1>1 DEF InsertSplits
<1>3. PICK p : leaves = <<p>> /\ Leaf(p)
  BY <1>2 DEF Whole, OneLeaf
<1>4. TotalSpace(p) < MIN_LEAF_PAGE_DATA
  BY <1>2, <1>3, RoomIs
<1>5. PICK x, y : halves = <<x, y>> /\ Halves(p, x, y)
  BY <1>1, <1>3, <1>4, SplitIs
<1>6. PICK b : b = boundary'
  OBVIOUS
<1>7. b \in KeysOf(y.slots) /\ b \in Keys /\ Below({b}, KeysOf(y.slots))
  <2>1. Leaf(y) /\ KeysOf(y.slots) # {} /\ halves[2] = y
    BY <1>5 DEF Halves
  <2> QED BY <1>2, <1>6, <2>1, PageKeyIs
<1>8. TwoLeaves(x, y, b)
  <2>1. Leaf(x) /\ Leaf(y) /\ Below(KeysOf(x.slots), KeysOf(y.slots))
    BY <1>5 DEF Halves
  <2>2. Below(KeysOf(x.slots), {b})
    BY <1>7, <2>1 DEF Below
  <2> QED BY <1>7, <2>1, <2>2 DEF TwoLeaves
<1>9. PICK i : i = IF key >= b THEN 2 ELSE 1
  OBVIOUS
<1>10. Smallest <= TotalSpace(<<x, y>>[i])
  BY <1>5, <1>9 DEF Halves
<1>11. leaves' = [<<x, y>> EXCEPT ![i] = WriteChunkLeaf(@, key, Size[key])]
  BY <1>2, <1>5, <1>6, <1>9
<1>12. /\ Whole(leaves', b)
       /\ \E len \in Size1 : Grown(x.slots \o y.slots, All(leaves'), key, len)
  BY <1>8, <1>9, <1>10, <1>11, InsertTwo
<1>13. PICK len \in Size1 : Grown(x.slots \o y.slots, All(leaves'), key, len)
  BY <1>12
<1>14. Grown(All(leaves), All(leaves'), key, len)
  <2>1. All(leaves) = p.slots
    BY <1>3, AllOf
  <2>2. ASSUME NEW k \in Keys
        PROVE  /\ Number(x.slots \o y.slots, k) = Number(p.slots, k)
               /\ Volume(x.slots \o y.slots, k) = Volume(p.slots, k)
    <3>1. x.slots \in Seq(Raw) /\ y.slots \in Seq(Raw)
      BY <1>8, LeafIs DEF TwoLeaves
    <3>2. /\ Number(x.slots \o y.slots, k) = Number(x.slots, k) + Number(y.slots, k)
          /\ Volume(x.slots \o y.slots, k) = Volume(x.slots, k) + Volume(y.slots, k)
      BY <3>1, TallyJoin
    <3> QED BY <1>5, <3>2 DEF Halves
  <2> QED BY <1>13, <2>1, <2>2 DEF Grown
<1> QED BY <1>2, <1>6, <1>12, <1>14

\* The tree when the key was deleted, before an underflow is looked for.
Shrunk(now, key) ==
  /\ Whole(now, boundary) /\ Len(now) = Len(leaves)
  /\ IF Search(key) THEN \E len \in Size1 : Grown(All(now), All(leaves), key, len)
     ELSE now = leaves

LEMMA AfterIs ==
  ASSUME Whole(leaves, boundary), NEW key \in Keys
  PROVE  Shrunk(After(key), key)
<1> HIDE DEF Number, Volume, Slot, Stored, Raw
<1>1. \A len \in Size1 : len \in Int
  BY Limits DEF Size1
<1>2. CASE OneLeaf(leaves, boundary)
  <2>1. PICK p : leaves = <<p>> /\ Leaf(p) /\ boundary = 0
    BY <1>2 DEF OneLeaf
  <2>2. PICK q : q = DeleteTuple(p, key)
    OBVIOUS
  <2>3. Child(key) = 1 /\ leaves[1] = p
    BY <2>1 DEF Child
  <2>4. After(key) = <<q>>
    BY <2>1, <2>2, <2>3 DEF After
  <2>5. /\ Leaf(q)
        /\ IF FoundIn(p, key) THEN \E len \in Size1 : Grown(q.slots, p.slots, key, len) ELSE q = p
    BY <2>1, <2>2, DeleteOne
  <2>6. Search(key) <=> FoundIn(p, key)
    BY <2>3 DEF Search
  <2>7. All(leaves) = p.slots /\ All(<<q>>) = q.slots
    BY <2>1, AllOf
  <2>8. Whole(<<q>>, boundary) /\ Len(<<q>>) = Len(leaves)
    BY <2>1, <2>5 DEF Whole, OneLeaf
  <2> QED BY <2>1, <2>4, <2>5, <2>6, <2>7, <2>8 DEF Shrunk
<1>3. CASE \E l, r : leaves = <<l, r>> /\ TwoLeaves(l, r, boundary)
  <2>1. PICK l, r, b : leaves = <<l, r>> /\ TwoLeaves(l, r, b) /\ b = boundary
    BY <1>3
  <2>2. /\ Leaf(l) /\ Leaf(r) /\ b \in Keys /\ Below(KeysOf(l.slots), {b}) /\ Below({b}, KeysOf(r.slots))
        /\ b \in Nat /\ key \in Nat
    BY <2>1, Limits DEF TwoLeaves
  <2>3. All(leaves) = l.slots \o r.slots
    BY <2>1, AllOf
  <2>4. CASE key >= b
    <3>1. PICK q : q = DeleteTuple(r, key)
      OBVIOUS
    <3>2. Child(key) = 2 /\ leaves[2] = r
      BY <2>1, <2>4 DEF Child
    <3>3. After(key) = <<l, q>>
      BY <2>1, <3>1, <3>2 DEF After
    <3>4. /\ Leaf(q) /\ KeysOf(q.slots) \subseteq KeysOf(r.slots)
          /\ IF FoundIn(r, key) THEN \E len \in Size1 : Grown(q.slots, r.slots, key, len) ELSE q = r
      BY <2>2, <3>1, DeleteOne
    <3>5. Below({b}, KeysOf(q.slots))
      BY <2>2, <3>4, BelowMore
    <3>6. Whole(<<l, q>>, boundary) /\ Len(<<l, q>>) = Len(leaves)
      BY <2>1, <2>2, <3>4, <3>5 DEF Whole, TwoLeaves
    <3>7. Search(key) <=> FoundIn(r, key)
      BY <3>2 DEF Search
    <3>8. All(<<l, q>>) = l.slots \o q.slots
      BY AllOf
    <3>9. ASSUME Search(key)
          PROVE  \E len \in Size1 : Grown(l.slots \o q.slots, l.slots \o r.slots, key, len)
      <4>1. PICK len \in Size1 : Grown(q.slots, r.slots, key, len)
        BY <3>4, <3>7, <3>9
      <4> QED BY <1>1, <2>2, <3>4, <4>1, JoinGrown
    <3>10. ~Search(key) => <<l, q>> = leaves
      BY <2>1, <3>4, <3>7
    <3> QED BY <2>3, <3>3, <3>6, <3>8, <3>9, <3>10 DEF Shrunk
  <2>5. CASE ~(key >= b)
    <3>1. PICK q : q = DeleteTuple(l, key)
      OBVIOUS
    <3>2. Child(key) = 1 /\ leaves[1] = l
      BY <2>1, <2>5 DEF Child
    <3>3. After(key) = <<q, r>>
      BY <2>1, <3>1, <3>2 DEF After
    <3>4. /\ Leaf(q) /\ KeysOf(q.slots) \subseteq KeysOf(l.slots)
          /\ IF FoundIn(l, key) THEN \E len \in Size1 : Grown(q.slots, l.slots, key, len) ELSE q = l
      BY <2>2, <3>1, DeleteOne
    <3>5. Below(KeysOf(q.slots), {b})
      BY <2>2, <3>4, BelowMore
    <3>6. Whole(<<q, r>>, boundary) /\ Len(<<q, r>>) = Len(leaves)
      BY <2>1, <2>2, <3>4, <3>5 DEF Whole, TwoLeaves
    <3>7. Search(key) <=> FoundIn(l, key)
      BY <3>2 DEF Search
    <3>8. All(<<q, r>>) = q.slots \o r.slots
      BY AllOf
    <3>9. ASSUME Search(key)
          PROVE  \E len \in Size1 : Grown(q.slots \o r.slots, l.slots \o r.slots, key, len)
      <4>1. PICK len \in Size1 : Grown(q.slots, l.slots, key, len)
        BY <3>4, <3>7, <3>9
      <4> QED BY <1>1, <2>2, <3>4, <4>1, JoinGrown
    <3>10. ~Search(key) => <<q, r>> = leaves
      BY <2>1, <3>4, <3>7
    <3> QED BY <2>3, <3>3, <3>6, <3>8, <3>9, <3>10 DEF Shrunk
  <2> QED BY <2>4, <2>5
<1> QED BY <1>2, <1>3 DEF Whole

\* Tuples from a leaf's end to its neighbour.
LEMMA MovedTallies ==
  ASSUME NEW l, NEW r, NEW u, NEW v, Leaf(l), Leaf(r), Leaf(u), Leaf(v), NEW k,
         Number(u.slots, k) + Number(v.slots, k) = Number(l.slots, k) + Number(r.slots, k),
         Volume(u.slots, k) + Volume(v.slots, k) = Volume(l.slots, k) + Volume(r.slots, k)
  PROVE  /\ Number(u.slots \o v.slots, k) = Number(l.slots \o r.slots, k)
         /\ Volume(u.slots \o v.slots, k) = Volume(l.slots \o r.slots, k)
<1> HIDE DEF Number, Volume, Slot, Stored, Raw
<1>1. l.slots \in Seq(Raw) /\ r.slots \in Seq(Raw) /\ u.slots \in Seq(Raw) /\ v.slots \in Seq(Raw)
  BY LeafIs
<1>2. /\ Number(u.slots \o v.slots, k) = Number(u.slots, k) + Number(v.slots, k)
      /\ Volume(u.slots \o v.slots, k) = Volume(u.slots, k) + Volume(v.slots, k)
  BY <1>1, TallyJoin
<1>3. /\ Number(l.slots \o r.slots, k) = Number(l.slots, k) + Number(r.slots, k)
      /\ Volume(l.slots \o r.slots, k) = Volume(l.slots, k) + Volume(r.slots, k)
  BY <1>1, TallyJoin
<1> QED BY <1>2, <1>3

\* A pair of leaves with a new boundary, and the same tuples as before.
Rearranged(ls, l, r) ==
  /\ \E u, v : ls = <<u, v>> /\ TwoLeaves(u, v, GetPageFirstKey(v))
  /\ Alike(l.slots \o r.slots, All(ls))

LEMMA RearrangedIs ==
  ASSUME NEW l, NEW r, Leaf(l), Leaf(r), NEW u, NEW v, Leaf(u), Leaf(v),
         KeysOf(v.slots) # {}, Below(KeysOf(u.slots), KeysOf(v.slots)),
         \A k \in Keys :
           /\ Number(u.slots, k) + Number(v.slots, k) = Number(l.slots, k) + Number(r.slots, k)
           /\ Volume(u.slots, k) + Volume(v.slots, k) = Volume(l.slots, k) + Volume(r.slots, k)
  PROVE  Rearranged(<<u, v>>, l, r)
<1> HIDE DEF Number, Volume, Slot, Stored, Raw
<1>1. PICK b : b = GetPageFirstKey(v)
  OBVIOUS
<1>2. b \in KeysOf(v.slots) /\ b \in Keys /\ Below({b}, KeysOf(v.slots))
  BY <1>1, PageKeyIs
<1>3. Below(KeysOf(u.slots), {b})
  BY <1>2 DEF Below
<1>4. TwoLeaves(u, v, b)
  BY <1>2, <1>3 DEF TwoLeaves
<1>5. All(<<u, v>>) = u.slots \o v.slots
  BY AllOf
<1>6. Alike(l.slots \o r.slots, u.slots \o v.slots)
  BY MovedTallies DEF Alike
<1> QED BY <1>1, <1>4, <1>5, <1>6 DEF Rearranged

LEMMA LeftIs ==
  ASSUME NEW l, NEW r, NEW b, TwoLeaves(l, r, b), UsedSpace(r) <= LEAF_UNDERFLOW_THRESHOLD,
         NEW c, c = CanLendFromRight(l, Needed(r)), c > 0
  PROVE  Rearranged(HandleLeftBorrow(l, r, c), l, r)
<1> HIDE DEF Number, Volume, Slot, Stored, Raw
<1>1. Leaf(l) /\ Leaf(r) /\ b \in Keys /\ b \in Int
  BY Limits DEF TwoLeaves
<1>2. PICK u, v : HandleLeftBorrow(l, r, c) = <<u, v>>
  BY DEF HandleLeftBorrow
<1>3. PICK A, M : Moved(l, r, u, v, A, M) /\ Below(A, M)
  BY <1>1, <1>2, BorrowLeft
<1>4. /\ Leaf(u) /\ Leaf(v) /\ KeysOf(u.slots) = A /\ KeysOf(v.slots) = KeysOf(r.slots) \cup M
      /\ KeysOf(l.slots) = A \cup M /\ M # {}
  BY <1>3 DEF Moved
<1>5. Below(KeysOf(l.slots), KeysOf(r.slots))
  BY <1>1, LeafIs, BelowOver DEF TwoLeaves
<1>6. Below(KeysOf(u.slots), KeysOf(v.slots)) /\ KeysOf(v.slots) # {}
  BY <1>3, <1>4, <1>5 DEF Below
<1> QED BY <1>1, <1>2, <1>3, <1>4, <1>6, RearrangedIs DEF Moved

LEMMA RightIs ==
  ASSUME NEW l, NEW r, NEW b, TwoLeaves(l, r, b), UsedSpace(l) <= LEAF_UNDERFLOW_THRESHOLD,
         NEW c, c = CanLendFromLeft(r, Needed(l)), c > 0
  PROVE  Rearranged(HandleRightBorrow(l, r, c), l, r)
<1> HIDE DEF Number, Volume, Slot, Stored, Raw
<1>1. Leaf(l) /\ Leaf(r) /\ b \in Keys /\ b \in Int
  BY Limits DEF TwoLeaves
<1>2. PICK u, v : HandleRightBorrow(l, r, c) = <<u, v>>
  BY DEF HandleRightBorrow
<1>3. PICK A, M : Moved(r, l, v, u, A, M) /\ Below(M, A) /\ A # {}
  BY <1>1, <1>2, BorrowRight
<1>4. /\ Leaf(u) /\ Leaf(v) /\ KeysOf(v.slots) = A /\ KeysOf(u.slots) = KeysOf(l.slots) \cup M
      /\ KeysOf(r.slots) = A \cup M /\ M # {}
  BY <1>3 DEF Moved
<1>5. Below(KeysOf(l.slots), KeysOf(r.slots))
  BY <1>1, LeafIs, BelowOver DEF TwoLeaves
<1>6. Below(KeysOf(u.slots), KeysOf(v.slots))
  BY <1>3, <1>4, <1>5 DEF Below
<1>7. ASSUME NEW k \in Keys
      PROVE  /\ Number(u.slots, k) + Number(v.slots, k) = Number(l.slots, k) + Number(r.slots, k)
             /\ Volume(u.slots, k) + Volume(v.slots, k) = Volume(l.slots, k) + Volume(r.slots, k)
  <2>1. /\ Number(v.slots, k) + Number(u.slots, k) = Number(r.slots, k) + Number(l.slots, k)
        /\ Volume(v.slots, k) + Volume(u.slots, k) = Volume(r.slots, k) + Volume(l.slots, k)
    BY <1>3 DEF Moved
  <2>2. /\ Number(u.slots, k) \in Int /\ Number(v.slots, k) \in Int /\ Number(l.slots, k) \in Int
        /\ Number(r.slots, k) \in Int /\ Volume(u.slots, k) \in Int /\ Volume(v.slots, k) \in Int
        /\ Volume(l.slots, k) \in Int /\ Volume(r.slots, k) \in Int
    BY <1>1, <1>4, LeafIs, Tallies
  <2> QED BY <2>1, <2>2
<1>8. KeysOf(v.slots) # {}
  BY <1>3, <1>4
<1> QED BY <1>1, <1>2, <1>4, <1>6, <1>7, <1>8, RearrangedIs

\* Neighbours of which one underflows and the other lends nothing fit one page.
LEMMA RefusalsFit ==
  ASSUME NEW p, NEW q, Leaf(p), Leaf(q), UsedSpace(q) <= LEAF_UNDERFLOW_THRESHOLD,
         \/ CanLendFromRight(p, Needed(q)) = 0
         \/ CanLendFromLeft(p, Needed(q)) = 0
  PROVE  UsedSpace(p) + UsedSpace(q) <= LEAF_SPACE
<1> HIDE DEF Slot, Stored, Raw, Taken
<1>1. PageOK(p) /\ PageOK(q)
  BY LeafIs
<1>2. PICK s \in Seq(Slot) : s = p.slots
  BY LeafIs
<1>3. PICK live \in Seq(Stored) : live = LiveSlots(s)
  BY SlotTotals DEF Totals
<1>4. Taken(live) = Taken(p.slots)
  <2>1. LiveSlots(live) = live /\ Count(live) = Len(live)
    BY LiveOfStored
  <2> QED BY <1>2, <1>3, <2>1, SlotTotals DEF Taken, Totals, Count
<1>5. CASE CanLendFromLeft(p, Needed(q)) = 0
  <2>1. Lends(p, live, Needed(q)) = 0
    BY <1>2, <1>3, <1>5 DEF CanLendFromLeft
  <2> QED BY <1>1, <1>4, <2>1, LoanFits
<1>6. CASE CanLendFromRight(p, Needed(q)) = 0
  <2>1. PICK back \in Seq(Stored) : back = Reverse(live)
    BY ReverseIs
  <2>2. Lends(p, back, Needed(q)) = 0
    BY <1>2, <1>3, <1>6, <2>1 DEF CanLendFromRight
  <2>3. Taken(back) = Taken(p.slots)
    BY <1>4, <2>1, ReverseTaken
  <2> QED BY <1>1, <2>2, <2>3, LoanFits
<1> QED BY <1>5, <1>6

\* What is left of the tuples when a key was deleted.
Removed(key) == IF Search(key) THEN \E len \in Size1 : Grown(All(leaves'), All(leaves), key, len)
                ELSE Alike(All(leaves), All(leaves'))

LEMMA RemovedIs ==
  ASSUME NEW key \in Keys, NEW now, Shrunk(now, key), Alike(All(now), All(leaves'))
  PROVE  Removed(key)
<1> HIDE DEF Number, Volume
<1>1. CASE Search(key)
  <2>1. PICK len \in Size1 : Grown(All(now), All(leaves), key, len)
    BY <1>1 DEF Shrunk
  <2>2. Grown(All(leaves'), All(leaves), key, len)
    BY <2>1 DEF Grown, Alike
  <2> QED BY <1>1, <2>2 DEF Removed
<1>2. CASE ~Search(key)
  BY <1>2 DEF Shrunk, Removed
<1> QED BY <1>1, <1>2

LEMMA DeleteKeeps ==
  ASSUME Whole(leaves, boundary), NEW key \in Keys, Delete(key)
  PROVE  Whole(leaves', boundary') /\ thrown' = thrown /\ Removed(key)
<1> HIDE DEF Number, Volume
<1>1. leaves' = After(key) /\ boundary' = boundary /\ thrown' = thrown
  BY DEF Delete
<1>2. Shrunk(After(key), key)
  BY AfterIs
<1>3. Alike(All(After(key)), All(leaves'))
  BY <1>1 DEF Alike
<1> QED BY <1>1, <1>2, <1>3, RemovedIs DEF Shrunk

\* An underflow: there are two leaves, one of which has little.
LEMMA UnderflowIs ==
  ASSUME Whole(leaves, boundary), NEW key \in Keys, NEW now, now = After(key), Underflown(now, key)
  PROVE  /\ Shrunk(now, key)
         /\ \E l, r : /\ now = <<l, r>> /\ TwoLeaves(l, r, boundary)
                      /\ \/ /\ Child(key) = 2 /\ UsedSpace(r) <= LEAF_UNDERFLOW_THRESHOLD
                            /\ Loan(now, key) = CanLendFromRight(l, Needed(r))
                         \/ /\ Child(key) = 1 /\ UsedSpace(l) <= LEAF_UNDERFLOW_THRESHOLD
                            /\ Loan(now, key) = CanLendFromLeft(r, Needed(l))
<1>1. Shrunk(now, key)
  BY AfterIs
<1>2. Len(now) = 2 /\ UsedSpace(now[Child(key)]) <= LEAF_UNDERFLOW_THRESHOLD
  BY DEF Underflown
<1>3. PICK l, r : now = <<l, r>> /\ TwoLeaves(l, r, boundary)
  <2>1. Whole(now, boundary)
    BY <1>1 DEF Shrunk
  <2>2. ~OneLeaf(now, boundary)
    BY <1>2 DEF OneLeaf
  <2> QED BY <2>1, <2>2 DEF Whole
<1>4. Child(key) = 1 \/ Child(key) = 2
  BY DEF Child
<1>5. now[1] = l /\ now[2] = r
  BY <1>3
<1>6. CASE Child(key) = 2
  BY <1>1, <1>2, <1>3, <1>5, <1>6 DEF Loan
<1>7. CASE Child(key) = 1
  BY <1>1, <1>2, <1>3, <1>5, <1>7 DEF Loan
<1> QED BY <1>4, <1>6, <1>7

LEMMA BorrowsKeep ==
  ASSUME Whole(leaves, boundary), NEW key \in Keys, DeleteBorrows(key)
  PROVE  Whole(leaves', boundary') /\ thrown' = thrown /\ Removed(key)
<1> HIDE DEF Number, Volume
<1>1. PICK now, c : now = After(key) /\ c = Loan(now, key)
  OBVIOUS
<1>2. /\ Underflown(now, key) /\ c > 0 /\ thrown' = thrown
      /\ leaves' = IF Child(key) = 2 THEN HandleLeftBorrow(now[1], now[2], c)
                   ELSE HandleRightBorrow(now[1], now[2], c)
      /\ boundary' = GetPageFirstKey(leaves'[2])
  BY <1>1 DEF DeleteBorrows
<1>3. Shrunk(now, key)
  BY <1>1, <1>2, UnderflowIs
<1>4. PICK l, r : /\ now = <<l, r>> /\ TwoLeaves(l, r, boundary)
                  /\ \/ /\ Child(key) = 2 /\ UsedSpace(r) <= LEAF_UNDERFLOW_THRESHOLD
                        /\ Loan(now, key) = CanLendFromRight(l, Needed(r))
                     \/ /\ Child(key) = 1 /\ UsedSpace(l) <= LEAF_UNDERFLOW_THRESHOLD
                        /\ Loan(now, key) = CanLendFromLeft(r, Needed(l))
  BY <1>1, <1>2, UnderflowIs
<1>5. Rearranged(leaves', l, r)
  <2>1. CASE Child(key) = 2 /\ UsedSpace(r) <= LEAF_UNDERFLOW_THRESHOLD
             /\ Loan(now, key) = CanLendFromRight(l, Needed(r))
    <3>1. leaves' = HandleLeftBorrow(l, r, c)
      BY <1>2, <1>4, <2>1
    <3>2. Rearranged(HandleLeftBorrow(l, r, c), l, r)
      BY <1>1, <1>2, <1>4, <2>1, LeftIs
    <3> QED BY <3>1, <3>2
  <2>2. CASE Child(key) = 1 /\ UsedSpace(l) <= LEAF_UNDERFLOW_THRESHOLD
             /\ Loan(now, key) = CanLendFromLeft(r, Needed(l))
    <3>1. leaves' = HandleRightBorrow(l, r, c)
      BY <1>2, <1>4, <2>2
    <3>2. Rearranged(HandleRightBorrow(l, r, c), l, r)
      BY <1>1, <1>2, <1>4, <2>2, RightIs
    <3> QED BY <3>1, <3>2
  <2> QED BY <1>4, <2>1, <2>2
<1>6. Whole(leaves', boundary')
  <2>1. PICK u, v : leaves' = <<u, v>> /\ TwoLeaves(u, v, GetPageFirstKey(v))
    BY <1>5 DEF Rearranged
  <2>2. boundary' = GetPageFirstKey(v)
    BY <1>2, <2>1
  <2> QED BY <2>1, <2>2 DEF Whole
<1>7. Alike(All(now), All(leaves'))
  BY <1>4, <1>5, AllOf DEF Rearranged
<1> QED BY <1>2, <1>3, <1>6, <1>7, RemovedIs

LEMMA MergesKeep ==
  ASSUME Whole(leaves, boundary), NEW key \in Keys, DeleteMerges(key)
  PROVE  Whole(leaves', boundary') /\ thrown' = thrown /\ Removed(key)
<1> HIDE DEF Number, Volume, Slot, Stored, Raw
<1>1. PICK now : now = After(key)
  OBVIOUS
<1>2. /\ Underflown(now, key) /\ Loan(now, key) = 0
      /\ MergeFits(now[1], now[2]) =>
           leaves' = <<MergePages(now[1], now[2])>> /\ boundary' = 0 /\ thrown' = thrown
  BY <1>1 DEF DeleteMerges
<1>3. Shrunk(now, key)
  BY <1>1, <1>2, UnderflowIs
<1>4. PICK l, r : /\ now = <<l, r>> /\ TwoLeaves(l, r, boundary)
                  /\ \/ /\ Child(key) = 2 /\ UsedSpace(r) <= LEAF_UNDERFLOW_THRESHOLD
                        /\ Loan(now, key) = CanLendFromRight(l, Needed(r))
                     \/ /\ Child(key) = 1 /\ UsedSpace(l) <= LEAF_UNDERFLOW_THRESHOLD
                        /\ Loan(now, key) = CanLendFromLeft(r, Needed(l))
  BY <1>1, <1>2, UnderflowIs
<1>5. Leaf(l) /\ Leaf(r)
  BY <1>4 DEF TwoLeaves
<1>6. UsedSpace(l) + UsedSpace(r) <= LEAF_SPACE
  <2>1. UsedSpace(l) \in Nat /\ UsedSpace(r) \in Nat
    BY <1>5, PageIs DEF Leaf, PageFacts
  <2>2. CASE UsedSpace(r) <= LEAF_UNDERFLOW_THRESHOLD /\ CanLendFromRight(l, Needed(r)) = 0
    BY <1>5, <2>2, RefusalsFit
  <2>3. CASE UsedSpace(l) <= LEAF_UNDERFLOW_THRESHOLD /\ CanLendFromLeft(r, Needed(l)) = 0
    <3>1. UsedSpace(r) + UsedSpace(l) <= LEAF_SPACE
      BY <1>5, <2>3, RefusalsFit
    <3> QED BY <2>1, <3>1
  <2> QED BY <1>2, <1>4, <2>2, <2>3
<1>7. MergeFits(l, r) /\ Got(l, MergePages(l, r), LiveSlots(r.slots))
  BY <1>5, <1>6, MergeIs
<1>8. PICK q : q = MergePages(l, r)
  OBVIOUS
<1>9. leaves' = <<q>> /\ boundary' = 0 /\ thrown' = thrown
  BY <1>2, <1>4, <1>7, <1>8
<1>10. Leaf(q)
  BY <1>5, <1>7, <1>8, LeafIs DEF Got, Leaf
<1>11. Whole(leaves', boundary')
  BY <1>9, <1>10 DEF Whole, OneLeaf
<1>12. Alike(All(now), All(leaves'))
  <2>1. All(now) = l.slots \o r.slots /\ All(leaves') = q.slots
    BY <1>4, <1>9, AllOf
  <2>2. ASSUME NEW k \in Keys
        PROVE  /\ Number(q.slots, k) = Number(l.slots \o r.slots, k)
               /\ Volume(q.slots, k) = Volume(l.slots \o r.slots, k)
    <3>1. l.slots \in Seq(Raw) /\ r.slots \in Seq(Raw) /\ r.slots \in Seq(Slot)
      BY <1>5, LeafIs
    <3>2. /\ Number(l.slots \o r.slots, k) = Number(l.slots, k) + Number(r.slots, k)
          /\ Volume(l.slots \o r.slots, k) = Volume(l.slots, k) + Volume(r.slots, k)
      BY <3>1, TallyJoin
    <3>3. /\ Number(LiveSlots(r.slots), k) = Number(r.slots, k)
          /\ Volume(LiveSlots(r.slots), k) = Volume(r.slots, k)
      BY <3>1, TallyLive
    <3> QED BY <1>7, <1>8, <3>2, <3>3 DEF Got, SameTally
  <2> QED BY <2>1, <2>2 DEF Alike
<1> QED BY <1>3, <1>9, <1>11, <1>12, RemovedIs

-----------------------------------------------------------------------------
\* The invariant.

IInv == Whole(leaves, boundary) /\ thrown = FALSE

LEMMA Starts == Init => IInv
<1> SUFFICES ASSUME Init PROVE IInv
  OBVIOUS
<1>1. PICK p : p = EmptyPage
  OBVIOUS
<1>2. leaves = <<p>> /\ boundary = 0 /\ thrown = FALSE
  BY <1>1 DEF Init
<1>3. <<>> \in Seq(Slot) /\ Taken(<<>>) <= LEAF_SPACE
  BY TakenNone, Limits
<1>4. PageOK(p) /\ p.slots = <<>>
  BY <1>1, <1>3, MakePageIs, LiveEmpty DEF EmptyPage
<1>5. Leaf(p)
  <2>1. Sorted(<<>>)
    BY DeletedIs, KeysOne
  <2> QED BY <1>4, <2>1 DEF Leaf
<1> QED BY <1>2, <1>5 DEF IInv, Whole, OneLeaf

\* What the actions do to the tuples.
Added(key) == \E len \in Size1 : Grown(All(leaves), All(leaves'), key, len)
Did == \E key \in Keys : \/ Added(key) /\ (Insert(key) \/ InsertSplits(key))
                         \/ Removed(key) /\ (Delete(key) \/ DeleteBorrows(key) \/ DeleteMerges(key))

LEMMA Steps ==
  ASSUME IInv, Next
  PROVE  IInv' /\ Did
<1> HIDE DEF Grown, Alike, All
<1>1. Whole(leaves, boundary) /\ thrown = FALSE
  BY DEF IInv
<1>2. ASSUME Whole(leaves', boundary'), thrown' = thrown PROVE IInv'
  BY <1>1, <1>2 DEF IInv, Whole, OneLeaf
<1>3. ASSUME NEW key \in Keys, Insert(key) PROVE IInv' /\ Did
  BY <1>1, <1>2, <1>3, InsertIs DEF Did, Added
<1>4. ASSUME NEW key \in Keys, InsertSplits(key) PROVE IInv' /\ Did
  BY <1>1, <1>2, <1>4, InsertSplitsIs DEF Did, Added
<1>5. ASSUME NEW key \in Keys, Delete(key) PROVE IInv' /\ Did
  BY <1>1, <1>2, <1>5, DeleteKeeps DEF Did
<1>6. ASSUME NEW key \in Keys, DeleteBorrows(key) PROVE IInv' /\ Did
  BY <1>1, <1>2, <1>6, BorrowsKeep DEF Did
<1>7. ASSUME NEW key \in Keys, DeleteMerges(key) PROVE IInv' /\ Did
  BY <1>1, <1>2, <1>7, MergesKeep DEF Did
<1> QED BY <1>3, <1>4, <1>5, <1>6, <1>7 DEF Next

\* The invariant holds: every Insert and Delete, with the split, loan or merge it leads
\* to, leaves pages whose bytes add up and whose tuples are in order, on their side of
\* the boundary.
THEOREM Invariant == Spec => []IInv
<1>1. IInv /\ [Next]_vars => IInv'
  <2>1. ASSUME IInv, Next PROVE IInv'
    BY <2>1, Steps
  <2>2. ASSUME IInv, UNCHANGED vars PROVE IInv'
    BY <2>2 DEF vars, IInv, Whole, OneLeaf
  <2> QED BY <2>1, <2>2
<1> QED BY <1>1, Starts, PTL DEF Spec

\* All pages of the tree are leaves in order.
LEMMA Pages ==
  ASSUME IInv
  PROVE  /\ Len(leaves) \in {1, 2} /\ DOMAIN leaves = 1..Len(leaves)
         /\ \A i \in DOMAIN leaves : Leaf(leaves[i])
         /\ boundary \in Keys \cup {0} /\ (boundary # 0 <=> Len(leaves) = 2)
         /\ \A S : (\A i \in DOMAIN leaves : leaves[i] \in S) => leaves \in Seq(S)
<1>1. CASE OneLeaf(leaves, boundary)
  BY <1>1 DEF OneLeaf
<1>2. CASE \E l, r : leaves = <<l, r>> /\ TwoLeaves(l, r, boundary)
  <2>1. PICK l, r : leaves = <<l, r>> /\ TwoLeaves(l, r, boundary)
    BY <1>2
  <2>2. Leaf(l) /\ Leaf(r) /\ boundary \in Keys /\ boundary # 0
    BY <2>1, Limits DEF TwoLeaves
  <2> QED BY <2>1, <2>2
<1> QED BY <1>1, <1>2 DEF IInv, Whole

LEMMA Types == ASSUME IInv PROVE TypeOK
<1> HIDE DEF Slot, Stored, Raw
<1> DEFINE S == [is_deleted : BOOLEAN, key : Keys \cup {0}, length : Nat]
           P == [slots : Seq(S), free_space_end : Nat, garbage_bytes : Nat]
<1>1. Slot \subseteq S
  <2> SUFFICES ASSUME NEW x \in Slot PROVE x \in S
    OBVIOUS
  <2>1. CASE x.is_deleted
    <3>1. x = Deleted
      BY <2>1, SlotIs
    <3> QED BY <3>1 DEF Deleted
  <2>2. CASE ~x.is_deleted
    <3>1. x = Live(x.key, x.length) /\ x.key \in Keys /\ x.length \in Lengths
      BY <2>2, SlotIs
    <3>2. PICK k \in Keys, l \in Nat : x = Live(k, l)
      BY <3>1, LengthIs
    <3> QED BY <3>2 DEF Live
  <2> QED BY <2>1, <2>2
<1> HIDE DEF S
<1>2. ASSUME NEW s \in Seq(Slot) PROVE s \in Seq(S)
  BY <1>1
<1>3. ASSUME NEW i \in DOMAIN leaves PROVE leaves[i] \in P
  <2>1. leaves[i] \in Page
    BY Pages DEF Leaf, PageOK
  <2> QED BY <1>2, <2>1 DEF Page
<1> HIDE DEF P
<1>4. leaves \in Seq(P)
  BY <1>3, Pages
<1>5. Len(leaves) \in {1, 2} /\ boundary \in Keys \cup {0} /\ (boundary # 0 <=> Len(leaves) = 2)
      /\ thrown \in BOOLEAN
  BY Pages DEF IInv
<1> QED BY <1>4, <1>5 DEF TypeOK, P, S

LEMMA Accounts == ASSUME IInv PROVE Accounting
<1> HIDE DEF Slot, Stored, Raw
<1>1. ASSUME NEW i \in DOMAIN leaves
      PROVE  /\ CheckAvailableSpace(leaves[i]) >= 0
             /\ leaves[i].free_space_end + Bytes(LiveSlots(leaves[i].slots))
                  + leaves[i].garbage_bytes = LEAF_SPACE
  <2>1. PICK p : p = leaves[i] /\ PageOK(p)
    BY Pages DEF Leaf
  <2>2. CheckAvailableSpace(p) \in Nat /\ Bytes(LiveSlots(p.slots)) = Bytes(p.slots)
    BY <2>1, PageIs DEF PageFacts, Totals
  <2> QED BY <2>1, <2>2 DEF PageOK
<1> QED BY <1>1, Types DEF Accounting

LEMMA WholeKeys == ASSUME IInv PROVE KeysAreWhole
<1> HIDE DEF Slot, Stored, Raw
<1> SUFFICES ASSUME NEW i \in DOMAIN leaves, NEW s \in ToSet(LiveSlots(leaves[i].slots))
             PROVE  s.length >= TUPLE_MIN
  BY DEF KeysAreWhole
<1>1. PICK t \in Seq(Stored) : t = LiveSlots(leaves[i].slots)
  BY Pages, PageIs DEF Leaf, PageFacts, Totals
<1>2. s \in Stored
  BY <1>1, ElementOfSeq, LenProperties DEF ToSet
<1>3. s.length \in Lengths
  BY <1>2, StoredIs
<1> QED BY <1>3, LengthIs, Limits

LEMMA Agree == ASSUME IInv PROVE SearchesAgree
<1> HIDE DEF Slot, Stored, Raw
<1> SUFFICES ASSUME NEW i \in DOMAIN leaves, NEW x \in Keys
             PROVE  /\ lower_bound(leaves[i].slots, x) = FirstLive(leaves[i].slots, {k \in Keys : k >= x})
                    /\ upper_bound(leaves[i].slots, x) = FirstLive(leaves[i].slots, {k \in Keys : k > x})
  BY DEF SearchesAgree
<1>1. PICK s \in Seq(Slot) : s = leaves[i].slots /\ Sorted(s)
  BY Pages, LeafIs
<1>2. Len(s) \in Nat /\ DOMAIN s = 1..Len(s) /\ LivePlaces(s) \subseteq 1..Len(s) /\ x \in Nat
  BY SlotAt, Limits DEF LivePlaces
<1>3. \A n \in LivePlaces(s) : s[n].key \in Keys /\ s[n].key \in Int
  BY KeysAre
<1>4. ASSUME NEW before, NEW S, Ascends(s, before),
             \A n \in LivePlaces(s) : s[n].key \notin before <=> s[n].key \in S
      PROVE  Bisect(s, before) = FirstLive(s, S)
  <2>1. PICK P : P = LiveOutside(s, before)
    OBVIOUS
  <2>2. IsFirst(Len(s), P, Bisect(s, before))
    BY <1>4, <2>1, BisectIs
  <2>3. P \subseteq 1..Len(s)
    BY <2>1 DEF LiveOutside
  <2>4. Bisect(s, before) = Minimum(P \cup {Len(s) + 1})
    BY <1>2, <2>2, <2>3, FirstIs
  <2>5. P = {n \in DOMAIN s : ~s[n].is_deleted /\ s[n].key \in S}
    BY <1>2, <1>4, <2>1 DEF LiveOutside, LivePlaces
  <2> QED BY <2>4, <2>5 DEF FirstLive
<1>5. Ascends(s, {k \in Keys : k < x}) /\ Ascends(s, {k \in Keys : k <= x})
  BY <1>1, SortedAscends
<1>6. lower_bound(s, x) = FirstLive(s, {k \in Keys : k >= x})
  <2>1. \A n \in LivePlaces(s) : s[n].key \notin {k \in Keys : k < x} <=> s[n].key \in {k \in Keys : k >= x}
    BY <1>2, <1>3
  <2> QED BY <1>4, <1>5, <2>1 DEF lower_bound
<1>7. upper_bound(s, x) = FirstLive(s, {k \in Keys : k > x})
  <2>1. \A n \in LivePlaces(s) : s[n].key \notin {k \in Keys : k <= x} <=> s[n].key \in {k \in Keys : k > x}
    BY <1>2, <1>3
  <2> QED BY <1>4, <1>5, <2>1 DEF upper_bound
<1> QED BY <1>1, <1>6, <1>7

\* A leaf is searched for a key that is among its keys, and no other.
LEMMA FoundIs ==
  ASSUME NEW p, Leaf(p), NEW key \in Keys
  PROVE  FoundIn(p, key) <=> key \in KeysOf(p.slots)
<1> HIDE DEF Slot, Stored, Raw
<1>1. PICK s \in Seq(Slot) : s = p.slots /\ Sorted(s)
  BY LeafIs
<1>2. PICK it : it = lower_bound(s, key)
  OBVIOUS
<1>3. it \in 1..(Len(s) + 1) /\ IsFirst(Len(s), {i \in LivePlaces(s) : s[i].key >= key}, it)
  BY <1>1, <1>2, LowerIs
<1>4. Len(s) \in Nat /\ key \in Nat /\ key # 0 /\ FoundIn(p, key) = (it <= Len(s) /\ s[it].key = key)
  BY <1>1, <1>2, SlotAt, Limits DEF FoundIn
<1>5. ASSUME it <= Len(s), s[it].key = key PROVE key \in KeysOf(s)
  <2>1. it \in 1..Len(s)
    BY <1>3, <1>4, <1>5
  <2>2. ~s[it].is_deleted
    BY <1>4, <1>5, <2>1, SlotAt, SlotIs
  <2> QED BY <1>5, <2>1, <2>2 DEF KeysOf, LivePlaces
<1>6. ASSUME key \in KeysOf(s) PROVE it <= Len(s) /\ s[it].key = key
  <2>1. PICK i \in LivePlaces(s) : s[i].key = key
    BY <1>6 DEF KeysOf
  <2>2. i \in 1..Len(s) /\ it <= i
    BY <1>3, <1>4, <2>1, KeysAre DEF IsFirst
  <2>3. it <= Len(s)
    BY <1>3, <1>4, <2>2
  <2>4. it \in LivePlaces(s) /\ s[it].key >= key
    BY <1>3, <2>3 DEF IsFirst
  <2>5. s[it].key <= s[i].key
    BY <1>1, <2>1, <2>2, <2>4 DEF Sorted
  <2>6. s[it].key \in Int
    BY <2>4, KeysAre
  <2> QED BY <1>4, <2>1, <2>3, <2>4, <2>5, <2>6
<1> QED BY <1>1, <1>4, <1>5, <1>6

LEMMA StoredInIs ==
  ASSUME IInv, NEW i \in DOMAIN leaves, NEW key \in Keys
  PROVE  StoredIn(i, key) <=> key \in KeysOf(leaves[i].slots)
<1> HIDE DEF Slot, Stored, Raw
<1>1. PICK s \in Seq(Slot) : s = leaves[i].slots
  BY Pages, LeafIs
<1>2. DOMAIN s = 1..Len(s) /\ \A n \in 1..Len(s) : s[n] \in Slot
  BY SlotAt
<1>3. ASSUME StoredIn(i, key) PROVE key \in KeysOf(s)
  <2>1. PICK n \in 1..Len(s) : s[n] = Live(key, s[n].length)
    BY <1>1, <1>2, <1>3 DEF StoredIn, ToSet
  <2>2. ~s[n].is_deleted /\ s[n].key = key
    BY <2>1 DEF Live
  <2> QED BY <2>2 DEF KeysOf, LivePlaces
<1>4. ASSUME key \in KeysOf(s) PROVE StoredIn(i, key)
  <2>1. PICK n \in LivePlaces(s) : s[n].key = key
    BY <1>4 DEF KeysOf
  <2>2. n \in 1..Len(s) /\ ~s[n].is_deleted
    BY <2>1 DEF LivePlaces
  <2>3. s[n] = Live(key, s[n].length)
    BY <1>2, <2>1, <2>2, SlotIs
  <2> QED BY <1>1, <1>2, <2>2, <2>3 DEF StoredIn, ToSet
<1> QED BY <1>1, <1>3, <1>4

LEMMA Finds == ASSUME IInv PROVE SearchFinds
<1> HIDE DEF Slot, Stored, Raw
<1> SUFFICES ASSUME NEW key \in Keys
             PROVE  Search(key) <=> /\ \E i \in DOMAIN leaves : StoredIn(i, key)
                                    /\ key = boundary => StoredIn(2, key)
  BY DEF SearchFinds
<1>1. key \in Nat /\ key # 0
  BY Limits
<1>2. CASE OneLeaf(leaves, boundary)
  <2>1. PICK p : leaves = <<p>> /\ Leaf(p) /\ boundary = 0
    BY <1>2 DEF OneLeaf
  <2>2. Child(key) = 1 /\ DOMAIN leaves = {1} /\ leaves[1] = p
    BY <2>1 DEF Child
  <2>3. Search(key) <=> key \in KeysOf(p.slots)
    BY <2>1, <2>2, FoundIs DEF Search
  <2>4. StoredIn(1, key) <=> key \in KeysOf(p.slots)
    BY <2>2, StoredInIs
  <2> QED BY <1>1, <2>1, <2>2, <2>3, <2>4
<1>3. CASE \E l, r : leaves = <<l, r>> /\ TwoLeaves(l, r, boundary)
  <2>1. PICK l, r, b : leaves = <<l, r>> /\ TwoLeaves(l, r, b) /\ b = boundary
    BY <1>3
  <2>2. /\ Leaf(l) /\ Leaf(r) /\ b \in Nat /\ Below(KeysOf(l.slots), {b}) /\ Below({b}, KeysOf(r.slots))
    BY <2>1, Limits DEF TwoLeaves
  <2>3. DOMAIN leaves = {1, 2} /\ leaves[1] = l /\ leaves[2] = r
    BY <2>1
  <2>4. /\ StoredIn(1, key) <=> key \in KeysOf(l.slots)
        /\ StoredIn(2, key) <=> key \in KeysOf(r.slots)
    BY <2>3, StoredInIs
  <2>5. CASE key >= b
    <3>1. Child(key) = 2
      BY <2>1, <2>5 DEF Child
    <3>2. Search(key) <=> key \in KeysOf(r.slots)
      BY <2>2, <2>3, <3>1, FoundIs DEF Search
    <3>3. key \in KeysOf(l.slots) => key = b
      BY <1>1, <2>2, <2>5 DEF Below
    <3> QED BY <2>1, <2>3, <2>4, <3>2, <3>3
  <2>6. CASE ~(key >= b)
    <3>1. Child(key) = 1
      BY <2>1, <2>6 DEF Child
    <3>2. Search(key) <=> key \in KeysOf(l.slots)
      BY <2>2, <2>3, <3>1, FoundIs DEF Search
    <3>3. key \notin KeysOf(r.slots) /\ key # b
      BY <1>1, <2>2, <2>6 DEF Below
    <3> QED BY <2>1, <2>3, <2>4, <3>2, <3>3
  <2> QED BY <2>5, <2>6
<1> QED BY <1>2, <1>3 DEF IInv, Whole

-----------------------------------------------------------------------------
\* The tuples of the tree, as they are counted by key.

LEMMA ContentsAre ==
  ASSUME NEW ls
  PROVE  Contents(ls) = [key \in Keys |-> Tally(All(ls), key)]
BY DEF Contents, Tally, All, Add, Nothing

LEMMA ContentsGrown ==
  ASSUME NEW ls, NEW ls2, All(ls) \in Seq(Raw), All(ls2) \in Seq(Raw),
         NEW key \in Keys, NEW len \in Size1, Grown(All(ls), All(ls2), key, len)
  PROVE  Contents(ls2) \in OneMore(Contents(ls), key)
<1> HIDE DEF Slot, Stored, Raw, Number, Volume, All
<1>1. PICK c, d : c = Contents(ls) /\ d = Contents(ls2)
  OBVIOUS
<1>2. /\ c = [k \in Keys |-> [count |-> Number(All(ls), k), bytes |-> Volume(All(ls), k)]]
      /\ d = [k \in Keys |-> [count |-> Number(All(ls2), k), bytes |-> Volume(All(ls2), k)]]
  BY <1>1, ContentsAre, Tallies
<1>3. ASSUME NEW k \in Keys
      PROVE  /\ Number(All(ls), k) \in Int /\ Volume(All(ls), k) \in Int
             /\ Number(All(ls2), k) = Number(All(ls), k) + (IF k = key THEN 1 ELSE 0)
             /\ Volume(All(ls2), k) = Volume(All(ls), k) + (IF k = key THEN len ELSE 0)
  BY Tallies DEF Grown
<1>4. PICK e : e = [c EXCEPT ![key].count = @ + 1, ![key].bytes = @ + len]
  OBVIOUS
<1>5. ASSUME NEW k \in Keys PROVE e[k] = d[k]
  <2>1. CASE k = key
    <3>1. c[key] = [count |-> Number(All(ls), key), bytes |-> Volume(All(ls), key)]
      BY <1>2
    <3>2. e[key] = [count |-> Number(All(ls), key) + 1, bytes |-> Volume(All(ls), key) + len]
      BY <1>2, <1>4, <3>1
    <3>3. d[key] = [count |-> Number(All(ls), key) + 1, bytes |-> Volume(All(ls), key) + len]
      BY <1>2, <1>3
    <3> QED BY <2>1, <3>2, <3>3
  <2>2. CASE k # key
    <3>1. Number(All(ls2), k) = Number(All(ls), k) /\ Volume(All(ls2), k) = Volume(All(ls), k)
      BY <1>3, <2>2
    <3> QED BY <1>2, <1>4, <2>2, <3>1
  <2> QED BY <2>1, <2>2
<1>6. DOMAIN e = Keys /\ DOMAIN d = Keys /\ e = [k \in Keys |-> e[k]]
  BY <1>2, <1>4
<1>7. e = d
  BY <1>2, <1>5, <1>6
<1> QED BY <1>1, <1>4, <1>7 DEF OneMore, Size1

LEMMA ContentsAlike ==
  ASSUME NEW ls, NEW ls2, All(ls) \in Seq(Raw), All(ls2) \in Seq(Raw), Alike(All(ls), All(ls2))
  PROVE  Contents(ls2) = Contents(ls)
<1> HIDE DEF Slot, Stored, Raw, Number, Volume, All
<1>1. ASSUME NEW k \in Keys PROVE Tally(All(ls), k) = Tally(All(ls2), k)
  BY Tallies DEF Alike
<1> QED BY <1>1, ContentsAre

\* All slots of the tree.
LEMMA AllRaw == ASSUME NEW ls, NEW b, Whole(ls, b) PROVE All(ls) \in Seq(Raw)
<1> HIDE DEF Slot, Stored, Raw, All
<1>1. CASE OneLeaf(ls, b)
  BY <1>1, AllOf, LeafIs DEF OneLeaf
<1>2. CASE \E l, r : ls = <<l, r>> /\ TwoLeaves(l, r, b)
  <2>1. PICK l, r : ls = <<l, r>> /\ TwoLeaves(l, r, b)
    BY <1>2
  <2>2. l.slots \in Seq(Raw) /\ r.slots \in Seq(Raw)
    BY <2>1, LeafIs DEF TwoLeaves
  <2> QED BY <2>1, <2>2, AllOf, JoinFacts
<1> QED BY <1>1, <1>2 DEF Whole

\* What a step may do to the tuples.
Keeps == \E key \in Keys :
           \/ Contents(leaves') \in OneMore(Contents(leaves), key) /\ (Insert(key) \/ InsertSplits(key))
           \/ /\ IF Search(key) THEN Contents(leaves) \in OneMore(Contents(leaves'), key)
                 ELSE Contents(leaves') = Contents(leaves)
              /\ Delete(key) \/ DeleteBorrows(key) \/ DeleteMerges(key)

LEMMA StepKeeps == ASSUME IInv, Next PROVE Keeps
<1> HIDE DEF Slot, Stored, Raw, All
<1>1. IInv' /\ Did
  BY Steps
<1>2. All(leaves) \in Seq(Raw) /\ All(leaves') \in Seq(Raw)
  BY <1>1, AllRaw DEF IInv
<1>3. PICK key \in Keys :
        \/ Added(key) /\ (Insert(key) \/ InsertSplits(key))
        \/ Removed(key) /\ (Delete(key) \/ DeleteBorrows(key) \/ DeleteMerges(key))
  BY <1>1 DEF Did
<1>4. ASSUME Added(key) PROVE Contents(leaves') \in OneMore(Contents(leaves), key)
  BY <1>2, <1>4, ContentsGrown DEF Added
<1>5. ASSUME Removed(key)
      PROVE  IF Search(key) THEN Contents(leaves) \in OneMore(Contents(leaves'), key)
             ELSE Contents(leaves') = Contents(leaves)
  <2>1. CASE Search(key)
    BY <1>2, <1>5, <2>1, ContentsGrown DEF Removed
  <2>2. CASE ~Search(key)
    BY <1>2, <1>5, <2>2, ContentsAlike DEF Removed
  <2> QED BY <2>1, <2>2
<1> QED BY <1>3, <1>4, <1>5 DEF Keeps

-----------------------------------------------------------------------------
\* The theorems.

\* WriteChunkLeaf never writes a tuple over the slots, and every byte of a page is free,
\* of a live tuple, or counted in garbage_bytes, whatever was deleted, used again, moved
\* and compacted.
THEOREM PagesAreAccounted == Spec => []Accounting
<1>1. IInv => Accounting
  BY Accounts
<1> QED BY <1>1, Invariant, PTL

\* Every live tuple has its header and its key: when WriteChunkLeaf cuts a tuple to the
\* room there is, the split or the test before it has left enough.
THEOREM StoredKeysAreWhole == Spec => []KeysAreWhole
<1>1. IInv => KeysAreWhole
  BY WholeKeys
<1> QED BY <1>1, Invariant, PTL

\* lower_bound and upper_bound find the first live slot they should, wherever the slots
\* of deleted tuples lie.
THEOREM BinarySearchesAgree == Spec => []SearchesAgree
<1>1. IInv => SearchesAgree
  BY Agree
<1> QED BY <1>1, Invariant, PTL

\* Search finds a key if and only if it is stored, but for a key inserted twice that lies
\* left of the boundary it is equal to.
THEOREM SearchFindsStored == Spec => []SearchFinds
<1>1. IInv => SearchFinds
  BY Finds
<1> QED BY <1>1, Invariant, PTL

\* MergePages does not throw: what a neighbour that lends nothing has fits into one page
\* with what underflowed.
THEOREM MergesAlwaysFit == Spec => []MergesFit
<1>1. IInv => MergesFit
  BY DEF IInv, MergesFit
<1> QED BY <1>1, Invariant, PTL

\* Insert adds one tuple of its key, Delete takes one away if Search finds one, and no
\* split, loan, merge or compaction loses, doubles or cuts any.
THEOREM TuplesAreKept == Spec => ContentsKept
<1>1. IInv /\ [Next]_vars => [Keeps]_vars
  BY StepKeeps
<1>2. [Keeps]_vars =>
        [LET before == Contents(leaves)
             after == Contents(leaves')
         IN  \E key \in Keys :
               \/ after \in OneMore(before, key) /\ (Insert(key) \/ InsertSplits(key))
               \/ /\ IF Search(key) THEN before \in OneMore(after, key) ELSE after = before
                  /\ Delete(key) \/ DeleteBorrows(key) \/ DeleteMerges(key)]_vars
  BY DEF Keeps
<1> QED BY <1>1, <1>2, Invariant, PTL DEF Spec, ContentsKept
=============================================================================
