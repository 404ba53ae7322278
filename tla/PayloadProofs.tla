---------------------------- MODULE PayloadProofs ----------------------------
(***************************************************************************)
(* What is proved of payloads and their streams, for any number of tuples, *)
(* of any length, in pages of any size, and read in any pieces.            *)
(*                                                                         *)
(* ReadsBack is not inductive: what a stream will deliver depends on what  *)
(* is in the chain before it.  PInv says of every header, that of a tuple  *)
(* and that of an overflow page, that it leads to the page with the very   *)
(* next byte, or that nothing is left; the one exception is the header     *)
(* that Insert is about to link, and for that one the buffer has the rest. *)
(* Chunks never change once they are linked, so a stream may stop anywhere *)
(* and go on later.                                                        *)
(***************************************************************************)
EXTENDS Payload, SequenceTheorems, WellFoundedInduction, TLAPS

\* AllocateNewPage finds a page for what is still to be written.
Room == pc = "insert" /\ writing.buffer # <<>> => \E p \in Overflows : chunks[p] = Free

\* Overflow page p has the t-th payload from behind its n-th byte on.
Carries(p, t, n) ==
  chunks[p].data = [i \in 1..CHUNK |-> IF n + i <= inserted[t] THEN <<t, n + i>> ELSE Blank]

\* Behind its n-th byte the t-th payload goes on where the header says.
Linked(header, t, n) ==
  /\ header.overflow <=> n < inserted[t]
  /\ header.overflow => header.overflow_page \in Overflows /\ Carries(header.overflow_page, t, n)

\* The header is the one that Insert will link next: the buffer has what is behind the
\* n-th byte.
Awaits(header, t, n) ==
  /\ ~header.overflow
  /\ t = Len(tuples)
  /\ Len(writing.buffer) = IF n < inserted[t] THEN inserted[t] - n ELSE 0
  /\ \A i \in 1..Len(writing.buffer) : writing.buffer[i] = <<t, n + i>>

Headers ==
  /\ inserted \in Seq(Lengths)
  /\ tuples \in Seq([leaf : Leaves, data : Seq(Nat \X Nat), size : Lengths, overflow : BOOLEAN,
                     overflow_page : Overflows \cup {NoPage}])
  /\ Len(tuples) = Len(inserted)
  /\ chunks \in [Overflows -> [data : Seq(Nat \X Nat), overflow : BOOLEAN,
                               overflow_page : Overflows \cup {NoPage}]]
  /\ pc \in {"idle", "insert", "stream", "next"}

Writer ==
  /\ writing \in [to_write_page : Pages \cup {NoPage}, buffer : Seq(Nat \X Nat)]
  /\ pc = "insert" <=> writing.to_write_page # NoPage
  /\ writing.to_write_page \in Overflows => chunks[writing.to_write_page] # Free
  /\ writing.to_write_page \in Leaves => tuples # <<>>

\* The part of a payload that is in a leaf.
TupleOK(t) ==
  LET n == Len(tuples[t].data) IN
  /\ tuples[t].size = inserted[t]
  /\ n \in 1..inserted[t]
  /\ \A i \in 1..n : tuples[t].data[i] = <<t, i>>
  /\ IF t = Len(tuples) /\ writing.to_write_page \in Leaves
     THEN Awaits(tuples[t], t, n) ELSE Linked(tuples[t], t, n)

\* And one that is in an overflow page.
ChunkOK(p, t, n) ==
  /\ n < inserted[t]
  /\ Carries(p, t, n)
  /\ IF p = writing.to_write_page
     THEN Awaits(chunks[p], t, n + CHUNK) ELSE Linked(chunks[p], t, n + CHUNK)

Chains ==
  /\ \A t \in DOMAIN tuples : TupleOK(t)
  /\ \A p \in Overflows : chunks[p] # Free => \E t \in DOMAIN tuples, n \in Nat : ChunkOK(p, t, n)

\* The page the stream is in starts behind the n-th byte of the payload.
InPage(n) ==
  LET t == stream.tuple IN
  \/ /\ stream.curr_pid \in Leaves /\ n = 0
     /\ stream.curr_page_end = Len(tuples[t].data)
     /\ stream.overflow = tuples[t].overflow
     /\ stream.overflow_page = tuples[t].overflow_page
  \/ /\ stream.curr_pid \in Overflows /\ n < inserted[t]
     /\ Carries(stream.curr_pid, t, n)
     /\ stream.curr_page_end = CHUNK
     /\ stream.overflow = chunks[stream.curr_pid].overflow
     /\ stream.overflow_page = chunks[stream.curr_pid].overflow_page

\* The stream has delivered what is in front of its place, which is only behind it
\* once all was delivered.
Reader ==
  /\ stream \in [tuple : Nat, curr_pid : Pages \cup {NoPage}, curr_page_offset : Nat,
                 curr_page_end : Nat, total_bytes : Nat, bytes_read : Nat,
                 overflow : BOOLEAN, overflow_page : Overflows \cup {NoPage}]
  /\ wanted \in Nat
  /\ sent \in Seq(Nat \X Nat)
  /\ pc \in {"stream", "next"} <=> stream.curr_pid # NoPage
  /\ pc \notin {"stream", "next"} => sent = <<>>
  /\ pc # "next" => wanted = 0
  /\ pc \in {"stream", "next"} =>
       /\ stream.tuple \in DOMAIN tuples
       /\ stream.total_bytes = inserted[stream.tuple]
       /\ Len(sent) = stream.bytes_read
       /\ \A i \in 1..Len(sent) : sent[i] = <<stream.tuple, i>>
       /\ stream.bytes_read + wanted <= stream.total_bytes
       /\ stream.curr_page_offset <= stream.curr_page_end
       /\ \E n \in Nat :
            /\ InPage(n)
            /\ \/ stream.bytes_read = n + stream.curr_page_offset
               \/ pc = "stream" /\ IsEOF

\* What is pinned.
PinsKept ==
  pins = [p \in Pages |-> IF \/ pc = "insert" /\ p = writing.to_write_page
                             \/ pc = "next" /\ p = stream.curr_pid THEN 1 ELSE 0]

PInv == Headers /\ Writer /\ Chains /\ Reader /\ PinsKept

-----------------------------------------------------------------------------
\* The first bytes of a payload.
LEMMA BytesFacts ==
  ASSUME NEW t \in Nat, NEW n \in Nat
  PROVE  /\ Bytes(t, n) \in Seq(Nat \X Nat) /\ Len(Bytes(t, n)) = n
         /\ \A i \in 1..n : Bytes(t, n)[i] = <<t, i>>
BY DEF Bytes

\* A sequence without its first n elements, of which it may have fewer.
LEMMA RestFacts ==
  ASSUME NEW S, NEW s \in Seq(S), NEW n \in Nat
  PROVE  /\ Rest(s, n) \in Seq(S)
         /\ Len(Rest(s, n)) = IF n < Len(s) THEN Len(s) - n ELSE 0
         /\ \A i \in 1..Len(Rest(s, n)) : Rest(s, n)[i] = s[n + i]
<1>1. n + 1 \in Int /\ Len(s) \in Int
  OBVIOUS
<1>2. \A i \in (n + 1)..Len(s) : s[i] \in S
  BY ElementOfSeq
<1>3. /\ SubSeq(s, n + 1, Len(s)) \in Seq(S)
      /\ Len(SubSeq(s, n + 1, Len(s))) = IF n + 1 <= Len(s) THEN Len(s) - (n + 1) + 1 ELSE 0
      /\ \A i \in 1..(Len(s) - (n + 1) + 1) : SubSeq(s, n + 1, Len(s))[i] = s[(n + 1) + i - 1]
  BY <1>1, <1>2, SubSeqProperties
<1> QED BY <1>1, <1>3 DEF Rest

\* A page that is in no use, while there is one.
LEMMA PageIsFree ==
  ASSUME NEW p \in Overflows, chunks[p] = Free
  PROVE  NewPage \in Overflows /\ chunks[NewPage] = Free
<1> DEFINE T == {q \in Overflows : chunks[q] = Free}
<1>1. T \subseteq Nat /\ T # {}
  BY PayloadAssumption
<1>2. \E x \in T : \A y \in T : ~(<<y, x>> \in OpToRel(<, Nat))
  BY <1>1, WFMin, NatLessThanWellFounded
<1>3. \E x \in T : \A y \in T : x <= y
  <2>1. PICK x \in T : \A y \in T : ~(<<y, x>> \in OpToRel(<, Nat))
    BY <1>2
  <2>2. ASSUME NEW y \in T PROVE x <= y
    <3>1. x \in Nat /\ y \in Nat
      BY <1>1
    <3>2. y < x => <<y, x>> \in OpToRel(<, Nat)
      <4>1. <<y, x>> \in Nat \X Nat /\ <<y, x>>[1] = y /\ <<y, x>>[2] = x
        BY <3>1
      <4> QED BY <4>1 DEF OpToRel
    <3>3. ~(y < x)
      BY <2>1, <3>2
    <3> QED BY <3>1, <3>3
  <2> QED BY <2>2
<1>4. \E q \in Overflows : chunks[q] = Free /\ \A r \in Overflows : chunks[r] = Free => q <= r
  BY <1>3
<1> QED BY <1>4 DEF NewPage

\* Identifiers, and the lengths of payloads.
LEMMA Numbers ==
  /\ NoPage \notin Pages /\ Leaves \subseteq Pages /\ Overflows \subseteq Pages
  /\ \A p \in Pages : p \in Leaves <=> p \notin Overflows
  /\ CHUNK \in Nat /\ CHUNK > 0
  /\ \A n \in Lengths \cup LeafParts \cup ReadSizes : n \in Nat /\ n > 0
BY PayloadAssumption DEF Pages

LEMMA Lasts ==
  ASSUME Headers
  PROVE  /\ Len(tuples) \in Nat /\ DOMAIN tuples = 1..Len(tuples)
         /\ DOMAIN inserted = 1..Len(tuples)
         /\ \A t \in DOMAIN tuples : t \in Nat /\ inserted[t] \in Lengths
                                       /\ inserted[t] \in Nat /\ inserted[t] > 0
<1>1. \A t \in DOMAIN inserted : inserted[t] \in Lengths
  BY DEF Headers
<1> QED BY <1>1, Numbers DEF Headers

\* A page that carries bytes is in use, and carries what it did while its data stay.
LEMMA SameCarried ==
  ASSUME NEW p \in Overflows, NEW t, NEW n, Carries(p, t, n)
  PROVE  /\ chunks[p] # Free
         /\ chunks'[p].data = chunks[p].data /\ inserted'[t] = inserted[t] => Carries(p, t, n)'
<1>1. chunks[p] # Free
  <2>1. Len(chunks[p].data) = CHUNK
    BY Numbers DEF Carries
  <2>2. Len(Free.data) = 0
    BY DEF Free
  <2> QED BY <2>1, <2>2, Numbers
<1> QED BY <1>1 DEF Carries

\* Both kinds of header lead where they did while the pages in use keep their data, and
\* Insert does not come to them or leave them.
KeepsData == /\ \A p \in Overflows : chunks[p] # Free => chunks'[p].data = chunks[p].data
             /\ Len(tuples) <= Len(tuples')
             /\ \A t \in DOMAIN tuples : t \in DOMAIN tuples' /\ inserted'[t] = inserted[t]

LEMMA SameLink ==
  ASSUME NEW g, NEW t \in DOMAIN tuples, NEW n, Linked(g, t, n), KeepsData
  PROVE  Linked(g, t, n)'
BY SameCarried DEF Linked, KeepsData

LEMMA SameTuple ==
  ASSUME NEW t \in DOMAIN tuples, TupleOK(t), KeepsData,
         ~(t = Len(tuples) /\ writing.to_write_page \in Leaves),
         ~(t = Len(tuples') /\ writing'.to_write_page \in Leaves),
         tuples'[t].data = tuples[t].data, tuples'[t].size = tuples[t].size,
         tuples'[t].overflow = tuples[t].overflow,
         tuples'[t].overflow_page = tuples[t].overflow_page
  PROVE  TupleOK(t)'
<1>1. PICK g, n : g = tuples[t] /\ n = Len(tuples[t].data)
  OBVIOUS
<1>2. Linked(g, t, n)
  BY <1>1 DEF TupleOK
<1>3. Linked(g, t, n)'
  BY <1>2, SameLink
<1>4. Linked(tuples[t], t, n)'
  BY <1>1, <1>3 DEF Linked
<1> QED BY <1>1, <1>4 DEF TupleOK, KeepsData

LEMMA SameChunk ==
  ASSUME NEW p \in Overflows, NEW t \in DOMAIN tuples, NEW n \in Nat, ChunkOK(p, t, n), KeepsData,
         p # writing.to_write_page, p # writing'.to_write_page, chunks'[p] = chunks[p]
  PROVE  ChunkOK(p, t, n)'
<1>1. PICK g, m : g = chunks[p] /\ m = n + CHUNK
  OBVIOUS
<1>2. Linked(g, t, m)
  BY <1>1 DEF ChunkOK
<1>3. Linked(g, t, m)'
  BY <1>2, SameLink
<1>4. Linked(chunks[p], t, m)'
  BY <1>1, <1>3 DEF Linked
<1>5. Carries(p, t, n)'
  BY SameCarried DEF ChunkOK, KeepsData
<1> QED BY <1>1, <1>4, <1>5 DEF ChunkOK, KeepsData

-----------------------------------------------------------------------------
LEMMA InitPInv == Init => PInv
<1> SUFFICES ASSUME Init PROVE PInv
  OBVIOUS
<1>1. Headers
  BY DEF Headers, Init, Free
<1>2. Writer
  BY Numbers DEF Writer, Init, NotWriting
<1>3. Chains
  BY DEF Chains, Init
<1>4. Reader
  <2>1. sent \in Seq(Nat \X Nat) /\ wanted \in Nat /\ wanted = 0 /\ sent = <<>> /\ pc = "idle"
    BY DEF Init
  <2>2. /\ stream.curr_pid = NoPage
        /\ stream \in [tuple : Nat, curr_pid : Pages \cup {NoPage}, curr_page_offset : Nat,
                       curr_page_end : Nat, total_bytes : Nat, bytes_read : Nat,
                       overflow : BOOLEAN, overflow_page : Overflows \cup {NoPage}]
    BY DEF Init, NoStream
  <2> QED BY <2>1, <2>2 DEF Reader
<1>5. PinsKept
  BY DEF PinsKept, Init
<1> QED BY <1>1, <1>2, <1>3, <1>4, <1>5 DEF PInv

\* Insert starts, with what fits into the leaf.
LEMMA InsertKeeps ==
  ASSUME PInv, NEW leaf \in Leaves, NEW length \in Lengths, NEW part \in LeafParts,
         Insert(leaf, length, part)
  PROVE  PInv'
<1>1. PICK t, written : t = Len(tuples) + 1 /\ written = Least(length, part)
  OBVIOUS
<1>2. /\ t \in Nat /\ length \in Nat /\ written \in 1..length
      /\ t \notin DOMAIN tuples /\ leaf # NoPage /\ leaf \in Pages /\ leaf \notin Overflows
  BY <1>1, Numbers, Lasts DEF PInv, Least
<1>3. /\ Bytes(t, written) \in Seq(Nat \X Nat) /\ Len(Bytes(t, written)) = written
      /\ \A i \in 1..written : Bytes(t, written)[i] = <<t, i>>
      /\ Bytes(t, length) \in Seq(Nat \X Nat) /\ Len(Bytes(t, length)) = length
      /\ \A i \in 1..length : Bytes(t, length)[i] = <<t, i>>
  <2>1. written \in Nat
    BY <1>2
  <2> QED BY <1>2, <2>1, BytesFacts
<1>4. PICK h, b : /\ h = [leaf |-> leaf, data |-> Bytes(t, written), size |-> length,
                          overflow |-> FALSE, overflow_page |-> NoPage]
                  /\ b = Rest(Bytes(t, length), written)
  OBVIOUS
<1>5. /\ b \in Seq(Nat \X Nat)
      /\ Len(b) = IF written < length THEN length - written ELSE 0
      /\ \A i \in 1..Len(b) : b[i] = <<t, written + i>>
  <2>1. /\ Rest(Bytes(t, length), written) \in Seq(Nat \X Nat)
        /\ Len(Rest(Bytes(t, length), written)) =
             IF written < Len(Bytes(t, length)) THEN Len(Bytes(t, length)) - written ELSE 0
        /\ \A i \in 1..Len(Rest(Bytes(t, length), written)) :
             Rest(Bytes(t, length), written)[i] = Bytes(t, length)[written + i]
    <3>1. PICK w : w = Bytes(t, length) OBVIOUS
    <3>2. w \in Seq(Nat \X Nat) /\ written \in Nat BY <1>2, <1>3, <3>1
    <3>3. /\ Rest(w, written) \in Seq(Nat \X Nat)
          /\ Len(Rest(w, written)) = IF written < Len(w) THEN Len(w) - written ELSE 0
          /\ \A i \in 1..Len(Rest(w, written)) : Rest(w, written)[i] = w[written + i]
      BY ONLY <3>2, RestFacts
    <3> QED BY ONLY <3>1, <3>3
  <2>2. /\ b \in Seq(Nat \X Nat) /\ Len(b) = IF written < length THEN length - written ELSE 0
        /\ \A i \in 1..Len(b) : b[i] = Bytes(t, length)[written + i]
    BY <1>3, <1>4, <2>1
  <2>3. \A i \in 1..Len(b) : written + i \in 1..length
    BY <1>2, <2>2
  <2> QED BY <1>3, <2>2, <2>3
<1>6. /\ pc = "idle" /\ pc' = "insert" /\ writing' = [to_write_page |-> leaf, buffer |-> b]
      /\ inserted' = Append(inserted, length) /\ tuples' = Append(tuples, h)
      /\ chunks' = chunks /\ stream' = stream /\ wanted' = wanted /\ sent' = sent
      /\ Pool({leaf}, {})
  BY <1>1, <1>4 DEF Insert
<1>7. /\ Len(tuples') = t /\ Len(inserted') = t /\ tuples'[t] = h /\ inserted'[t] = length
      /\ DOMAIN tuples' = DOMAIN tuples \cup {t} /\ Len(tuples) = t - 1
      /\ \A s \in DOMAIN tuples : tuples'[s] = tuples[s] /\ inserted'[s] = inserted[s]
  BY <1>1, <1>6, Lasts DEF PInv, Headers
<1>8. Headers'
  <2>1. h \in [leaf : Leaves, data : Seq(Nat \X Nat), size : Lengths, overflow : BOOLEAN,
               overflow_page : Overflows \cup {NoPage}]
    BY <1>3, <1>4
  <2> QED BY <1>6, <1>7, <2>1 DEF PInv, Headers
<1>9. Writer'
  <2>1. tuples' # <<>>
    BY <1>2, <1>7
  <2> QED BY <1>2, <1>5, <1>6, <2>1, Numbers DEF PInv, Writer
<1>10. /\ KeepsData /\ writing.to_write_page = NoPage /\ writing'.to_write_page = leaf
       /\ \A s \in DOMAIN tuples : s # t
  BY <1>2, <1>6, <1>7 DEF KeepsData, PInv, Writer
<1>11. Chains'
  <2>1. ASSUME NEW s \in DOMAIN tuples
        PROVE  TupleOK(s)'
    BY <1>7, <1>10, SameTuple, Numbers DEF PInv, Chains
  <2>2. /\ h.size = length /\ Len(h.data) = written /\ ~h.overflow
        /\ \A i \in 1..written : h.data[i] = <<t, i>>
    BY <1>3, <1>4
  <2>3. TupleOK(t)'
    BY <1>2, <1>5, <1>6, <1>7, <2>2 DEF TupleOK, Awaits
  <2>4. ASSUME NEW p \in Overflows, chunks'[p] # Free
        PROVE  \E s \in DOMAIN tuples', n \in Nat : ChunkOK(p, s, n)'
    <3>1. PICK s \in DOMAIN tuples, n \in Nat : ChunkOK(p, s, n)
      BY <1>6, <2>4 DEF PInv, Chains
    <3>2. ChunkOK(p, s, n)'
      BY <1>2, <1>6, <1>10, <3>1, SameChunk, Numbers
    <3> QED BY <1>7, <3>1, <3>2
  <2> QED BY <1>7, <2>1, <2>3, <2>4 DEF Chains
<1>12. Reader'
  BY <1>6 DEF PInv, Reader
<1>13. PinsKept'
  BY <1>6, <1>2 DEF PInv, PinsKept, Pool, Reader
<1> QED BY <1>8, <1>9, <1>11, <1>12, <1>13 DEF PInv

\* A chunk is written, and the header in front of it linked.
LEMMA ExtendKeeps ==
  ASSUME PInv, Room, Extend
  PROVE  PInv'
<1>1. PICK before, b, q, t : /\ before = writing.to_write_page /\ b = writing.buffer
                             /\ q = NewPage /\ t = Len(tuples)
  OBVIOUS
<1>2. /\ pc = "insert" /\ b # <<>> /\ b \in Seq(Nat \X Nat) /\ t \in Nat
      /\ before \in Pages /\ (before \in Leaves => t \in DOMAIN tuples)
      /\ q \in Overflows /\ chunks[q] = Free /\ before # q /\ CHUNK \in Nat /\ CHUNK > 0
  <2>1. pc = "insert" /\ b # <<>>
    BY <1>1 DEF Extend
  <2>2. q \in Overflows /\ chunks[q] = Free
    BY <1>1, <2>1, PageIsFree DEF Room
  <2>3. before \in Pages /\ before # q /\ b \in Seq(Nat \X Nat)
    BY <1>1, <2>1, <2>2 DEF PInv, Writer
  <2>4. t \in Nat /\ (before \in Leaves => t \in DOMAIN tuples)
    BY <1>1, Lasts DEF PInv, Writer, Headers
  <2> QED BY <2>1, <2>2, <2>3, <2>4, Numbers
<1>3. PICK n \in Nat :
        /\ t \in DOMAIN tuples /\ inserted[t] \in Nat
        /\ Len(b) = IF n < inserted[t] THEN inserted[t] - n ELSE 0
        /\ \A i \in 1..Len(b) : b[i] = <<t, n + i>>
        /\ IF before \in Leaves THEN n = Len(tuples[t].data)
           ELSE n - CHUNK \in Nat /\ ChunkOK(before, t, n - CHUNK)
  <2>1. CASE before \in Leaves
    <3>1. TupleOK(t) /\ Len(tuples[t].data) \in Nat
      BY <1>2, <2>1 DEF PInv, Chains, Headers
    <3> QED BY <1>1, <1>2, <2>1, <3>1, Lasts DEF TupleOK, Awaits, PInv
  <2>2. CASE before \notin Leaves
    <3>1. before \in Overflows /\ chunks[before] # Free
      BY <1>1, <1>2, <2>2 DEF PInv, Writer, Pages
    <3>2. PICK s \in DOMAIN tuples, m \in Nat : ChunkOK(before, s, m)
      BY <3>1 DEF PInv, Chains
    <3>3. s = t /\ Len(b) = (IF m + CHUNK < inserted[t] THEN inserted[t] - (m + CHUNK) ELSE 0)
          /\ \A i \in 1..Len(b) : b[i] = <<t, (m + CHUNK) + i>>
      BY <1>1, <3>2 DEF ChunkOK, Awaits
    <3>4. m + CHUNK \in Nat /\ (m + CHUNK) - CHUNK = m /\ inserted[t] \in Nat
      BY <1>2, <3>2, <3>3, Lasts DEF PInv
    <3> QED BY <1>2, <2>2, <3>2, <3>3, <3>4
  <2> QED BY <2>1, <2>2
<1>4. n < inserted[t] /\ Len(b) = inserted[t] - n /\ Len(b) \in Nat /\ Len(b) > 0
  BY <1>2, <1>3, EmptySeq
<1>5. PICK c, r : c = Chunk(b) /\ r = Rest(b, CHUNK)
  OBVIOUS
<1>6. /\ c.data = [i \in 1..CHUNK |-> IF n + i <= inserted[t] THEN <<t, n + i>> ELSE Blank]
      /\ c.data \in Seq(Nat \X Nat) /\ ~c.overflow /\ c.overflow_page = NoPage
      /\ c = [data |-> c.data, overflow |-> c.overflow, overflow_page |-> c.overflow_page]
  <2>1. \A i \in 1..CHUNK : i <= Len(b) <=> n + i <= inserted[t]
    <3>1. CHUNK \in Nat /\ n \in Nat BY <1>2, <1>3
    <3>2. PICK m \in Nat, k \in Nat : m = inserted[t] /\ k = Len(b) /\ k = m - n
      BY <1>3, <1>4
    <3>3. \A i \in 1..CHUNK : i <= k <=> n + i <= m BY ONLY <3>1, <3>2
    <3> QED BY ONLY <3>2, <3>3
  <2>2. \A i \in 1..CHUNK : i <= Len(b) => b[i] = <<t, n + i>>
    <3>1. CHUNK \in Nat /\ Len(b) \in Nat BY <1>2, <1>4
    <3>2. \A i \in 1..CHUNK : i <= Len(b) => i \in 1..Len(b) BY ONLY <3>1
    <3>3. \A i \in 1..Len(b) : b[i] = <<t, n + i>> BY <1>3
    <3> QED BY ONLY <3>2, <3>3
  <2>3. [i \in 1..CHUNK |-> IF i <= Len(b) THEN b[i] ELSE Blank] =
          [i \in 1..CHUNK |-> IF n + i <= inserted[t] THEN <<t, n + i>> ELSE Blank]
    BY <2>1, <2>2
  <2>4. \A i \in 1..CHUNK : (IF n + i <= inserted[t] THEN <<t, n + i>> ELSE Blank) \in Nat \X Nat
    <3>1. t \in Nat /\ n \in Nat /\ CHUNK \in Nat BY <1>2, <1>3
    <3>2. \A i \in 1..CHUNK : <<t, n + i>> \in Nat \X Nat BY ONLY <3>1
    <3>3. Blank \in Nat \X Nat BY DEF Blank
    <3> QED BY ONLY <3>2, <3>3
  <2>5. [i \in 1..CHUNK |-> IF n + i <= inserted[t] THEN <<t, n + i>> ELSE Blank] \in Seq(Nat \X Nat)
    <3>1. PICK f : f = [i \in 1..CHUNK |-> IF n + i <= inserted[t] THEN <<t, n + i>> ELSE Blank]
      OBVIOUS
    <3>2. f = [i \in 1..CHUNK |-> f[i]] /\ \A i \in 1..CHUNK : f[i] \in Nat \X Nat
      BY <2>4, <3>1
    <3>3. CHUNK \in Nat
      BY <1>2
    <3>4. f \in [1..CHUNK -> Nat \X Nat]
      BY ONLY <3>2
    <3>5. f \in Seq(Nat \X Nat)
      BY ONLY <3>3, <3>4, SeqDef
    <3> QED BY <3>1, <3>5
  <2> QED BY <1>5, <2>3, <2>5 DEF Chunk
<1>7. /\ r \in Seq(Nat \X Nat)
      /\ Len(r) = IF n + CHUNK < inserted[t] THEN inserted[t] - (n + CHUNK) ELSE 0
      /\ \A i \in 1..Len(r) : r[i] = <<t, (n + CHUNK) + i>>
  <2>1. /\ Rest(b, CHUNK) \in Seq(Nat \X Nat)
        /\ Len(Rest(b, CHUNK)) = IF CHUNK < Len(b) THEN Len(b) - CHUNK ELSE 0
        /\ \A i \in 1..Len(Rest(b, CHUNK)) : Rest(b, CHUNK)[i] = b[CHUNK + i]
    BY <1>2, RestFacts
  <2>2. /\ r \in Seq(Nat \X Nat) /\ Len(r) = (IF CHUNK < Len(b) THEN Len(b) - CHUNK ELSE 0)
        /\ \A i \in 1..Len(r) : r[i] = b[CHUNK + i]
    BY <1>5, <2>1
  <2>3. \A i \in 1..Len(r) : CHUNK + i \in 1..Len(b) /\ n + (CHUNK + i) = (n + CHUNK) + i
    <3>1. CHUNK \in Nat /\ n \in Nat BY <1>2, <1>3
    <3>2. PICK k \in Nat, l \in Nat : k = Len(b) /\ l = Len(r) /\ l = IF CHUNK < k THEN k - CHUNK ELSE 0
      BY <1>4, <2>2
    <3>3. \A i \in 1..l : CHUNK + i \in 1..k /\ n + (CHUNK + i) = (n + CHUNK) + i
      BY ONLY <3>1, <3>2
    <3> QED BY ONLY <3>2, <3>3
  <2>4. \A i \in 1..Len(r) : r[i] = <<t, (n + CHUNK) + i>>
    <3> SUFFICES ASSUME NEW i \in 1..Len(r) PROVE r[i] = <<t, (n + CHUNK) + i>>
      OBVIOUS
    <3>1. r[i] = b[CHUNK + i] /\ CHUNK + i \in 1..Len(b) /\ n + (CHUNK + i) = (n + CHUNK) + i
      BY <2>2, <2>3
    <3>2. b[CHUNK + i] = <<t, n + (CHUNK + i)>>
      BY <1>3, <3>1
    <3> QED BY <3>1, <3>2
  <2>5. Len(r) = IF n + CHUNK < inserted[t] THEN inserted[t] - (n + CHUNK) ELSE 0
    <3>1. n \in Nat /\ CHUNK \in Nat /\ inserted[t] \in Nat /\ Len(b) = inserted[t] - n
      BY <1>2, <1>3, <1>4
    <3>2. (CHUNK < Len(b) <=> n + CHUNK < inserted[t]) /\ Len(b) - CHUNK = inserted[t] - (n + CHUNK)
      BY ONLY <3>1
    <3> QED BY <2>2, <3>2
  <2> QED BY <2>2, <2>4, <2>5
<1>8. /\ writing' = [to_write_page |-> q, buffer |-> r] /\ pc' = "insert"
      /\ inserted' = inserted /\ stream' = stream /\ wanted' = wanted /\ sent' = sent
      /\ Pool({q}, {before})
      /\ IF before \in Leaves
         THEN /\ chunks' = [chunks EXCEPT ![q] = c]
              /\ tuples' = [tuples EXCEPT ![t] = [@ EXCEPT !.overflow = TRUE, !.overflow_page = q]]
         ELSE /\ chunks' = [[chunks EXCEPT ![q] = c] EXCEPT
                              ![before] = [@ EXCEPT !.overflow = TRUE, !.overflow_page = q]]
              /\ tuples' = tuples
  BY <1>1, <1>2, <1>5 DEF Extend
<1> DEFINE Hs == [leaf : Leaves, data : Seq(Nat \X Nat), size : Lengths, overflow : BOOLEAN,
                  overflow_page : Overflows \cup {NoPage}]
           Cs == [data : Seq(Nat \X Nat), overflow : BOOLEAN, overflow_page : Overflows \cup {NoPage}]
<1>9. /\ tuples' \in Seq(Hs) /\ chunks' \in [Overflows -> Cs]
      /\ DOMAIN tuples' = DOMAIN tuples /\ Len(tuples') = t /\ chunks'[q] = c
      /\ \A s \in DOMAIN tuples : /\ tuples'[s].data = tuples[s].data
                                  /\ tuples'[s].size = tuples[s].size
                                  /\ ~(before \in Leaves /\ s = t) => tuples'[s] = tuples[s]
      /\ before \in Leaves => tuples'[t].overflow /\ tuples'[t].overflow_page = q
      /\ \A p \in Overflows \ {before, q} : chunks'[p] = chunks[p]
      /\ before \notin Leaves => /\ chunks'[before].data = chunks[before].data
                                 /\ chunks'[before].overflow
                                 /\ chunks'[before].overflow_page = q
  <2>1. tuples \in Seq(Hs) /\ chunks \in [Overflows -> Cs]
    BY DEF PInv, Headers
  <2>0. c \in Cs
    <3>1. c.overflow = FALSE
      BY <1>5 DEF Chunk
    <3> QED BY <1>6, <3>1
  <2>2. before \notin Leaves => before \in Overflows
    BY <1>2 DEF Pages
  <2>3. CASE before \in Leaves
    <3>1. before \notin Overflows
      BY <2>3, Numbers
    <3>2. PICK g, h : g = tuples[t] /\ h = [g EXCEPT !.overflow = TRUE, !.overflow_page = q]
      OBVIOUS
    <3>3. g \in Hs
      <4>1. t \in 1..Len(tuples)
        BY <1>1, <1>3, Lasts DEF PInv
      <4> HIDE DEF Hs
      <4> QED BY <2>1, <3>2, <4>1, ElementOfSeq
    <3>4. h \in Hs /\ h.data = g.data /\ h.size = g.size /\ h.overflow /\ h.overflow_page = q
      BY <1>2, <3>2, <3>3
    <3> HIDE DEF Hs, Cs
    <3>5. tuples' = [tuples EXCEPT ![t] = h] /\ chunks' = [chunks EXCEPT ![q] = c]
      BY <1>8, <2>3, <3>2
    <3>6. t \in 1..Len(tuples) /\ DOMAIN tuples = 1..Len(tuples)
      BY <1>1, <1>2, <2>3, Lasts DEF PInv
    <3>7. /\ tuples' \in Seq(Hs) /\ DOMAIN tuples' = DOMAIN tuples /\ Len(tuples') = t
          /\ tuples'[t] = h /\ \A s \in DOMAIN tuples : s # t => tuples'[s] = tuples[s]
      BY <1>1, <2>1, <3>4, <3>5, <3>6, ExceptSeq
    <3>8. /\ chunks' \in [Overflows -> Cs] /\ chunks'[q] = c
          /\ \A p \in Overflows \ {before, q} : chunks'[p] = chunks[p]
      BY <1>2, <2>0, <2>1, <3>5
    <3> QED BY <2>3, <3>2, <3>4, <3>7, <3>8
  <2>4. CASE before \notin Leaves
    <3>2. PICK g, h : g = chunks[before] /\ h = [g EXCEPT !.overflow = TRUE, !.overflow_page = q]
      OBVIOUS
    <3>3. g \in Cs
      BY <2>1, <2>2, <2>4, <3>2
    <3>4. h \in Cs /\ h.data = g.data /\ h.overflow /\ h.overflow_page = q
      BY <1>2, <3>2, <3>3
    <3> HIDE DEF Hs, Cs
    <3>5. tuples' = tuples /\ chunks' = [[chunks EXCEPT ![q] = c] EXCEPT ![before] = h]
      BY <1>2, <1>8, <2>1, <2>2, <2>4, <3>2
    <3>6. /\ chunks' \in [Overflows -> Cs] /\ chunks'[q] = c /\ chunks'[before] = h
          /\ \A p \in Overflows \ {before, q} : chunks'[p] = chunks[p]
      BY <1>2, <2>0, <2>1, <2>2, <2>4, <3>4, <3>5
    <3> QED BY <1>1, <2>1, <2>4, <3>2, <3>4, <3>5, <3>6
  <2> QED BY <2>3, <2>4
<1>10. Headers'
  BY <1>1, <1>8, <1>9 DEF PInv, Headers
<1> HIDE DEF Hs, Cs
<1>11. c # Free
  <2>1. Len(c.data) = CHUNK
    BY <1>2, <1>6
  <2>2. Len(Free.data) = 0
    BY DEF Free
  <2> QED BY <1>2, <2>1, <2>2
<1>12. Writer'
  <2>1. q \in Pages /\ q # NoPage /\ q \notin Leaves
    BY <1>2, Numbers
  <2> QED BY <1>7, <1>8, <1>9, <1>11, <2>1 DEF Writer
<1>13. KeepsData
  <2>1. ASSUME NEW p \in Overflows, chunks[p] # Free
        PROVE  chunks'[p].data = chunks[p].data
    <3>1. p # q /\ (p = before => before \notin Leaves)
      BY <1>2, <2>1, Numbers
    <3> QED BY <1>9, <3>1
  <2>2. Len(tuples) <= Len(tuples')
    BY <1>1, <1>2, <1>9
  <2> QED BY <1>8, <1>9, <2>1, <2>2 DEF KeepsData
<1>14. Carries(q, t, n)'
  BY <1>6, <1>8, <1>9 DEF Carries
<1>15. ChunkOK(q, t, n)'
  BY <1>1, <1>3, <1>4, <1>6, <1>7, <1>8, <1>9, <1>14 DEF ChunkOK, Awaits
<1>16. q \notin Leaves /\ writing'.to_write_page = q
  BY <1>2, <1>8, Numbers
<1>17. Chains'
  <2>1. ASSUME NEW s \in DOMAIN tuples
        PROVE  TupleOK(s)'
    <3>1. CASE before \in Leaves /\ s = t
      <4>1. Linked(tuples[t], t, n)'
        BY <1>2, <1>3, <1>4, <1>8, <1>9, <1>14, <3>1 DEF Linked
      <4>2. TupleOK(t)
        BY <1>3 DEF PInv, Chains
      <4>3. /\ tuples[t].size = inserted[t] /\ Len(tuples[t].data) \in 1..inserted[t]
            /\ \A i \in 1..Len(tuples[t].data) : tuples[t].data[i] = <<t, i>>
        BY <4>2 DEF TupleOK
      <4>4. tuples'[t].data = tuples[t].data /\ tuples'[t].size = tuples[t].size
        BY <1>3, <1>9
      <4>5. n = Len(tuples'[t].data)
        BY <1>3, <3>1, <4>4
      <4>6. /\ tuples'[t].size = inserted'[t] /\ Len(tuples'[t].data) \in 1..inserted'[t]
            /\ \A i \in 1..Len(tuples'[t].data) : tuples'[t].data[i] = <<t, i>>
        BY <1>8, <4>3, <4>4
      <4>7. TupleOK(t)'
        BY <1>16, <4>1, <4>5, <4>6 DEF TupleOK, Linked
      <4> QED BY <3>1, <4>7
    <3>2. CASE ~(before \in Leaves /\ s = t)
      <4>1. TupleOK(s) /\ tuples'[s] = tuples[s]
        BY <1>9, <3>2 DEF PInv, Chains
      <4> QED BY <1>1, <1>13, <1>16, <3>2, <4>1, SameTuple
    <3> QED BY <3>1, <3>2
  <2>2. ASSUME NEW p \in Overflows, chunks'[p] # Free
        PROVE  \E s \in DOMAIN tuples', m \in Nat : ChunkOK(p, s, m)'
    <3>1. CASE p = q
      BY <1>3, <1>9, <1>15, <3>1
    <3>2. CASE p # q /\ p = before
      <4>1. before \notin Leaves
        BY <3>2, Numbers
      <4>2. PICK m : m = n - CHUNK
        OBVIOUS
      <4>3. m \in Nat /\ m + CHUNK = n /\ ChunkOK(before, t, m)
        BY <1>2, <1>3, <4>1, <4>2
      <4>4. Linked(chunks[before], t, n)'
        BY <1>2, <1>4, <1>8, <1>9, <1>14, <4>1 DEF Linked
      <4>5. Carries(before, t, m)'
        BY <1>8, <1>9, <3>2, <4>1, <4>3, SameCarried DEF ChunkOK
      <4>6. ChunkOK(before, t, m)'
        BY <1>2, <1>8, <1>16, <4>3, <4>4, <4>5 DEF ChunkOK
      <4> QED BY <1>3, <1>9, <3>2, <4>3, <4>6
    <3>3. CASE p # q /\ p # before
      <4>1. chunks'[p] = chunks[p]
        BY <1>9, <3>3
      <4>2. PICK s \in DOMAIN tuples, m \in Nat : ChunkOK(p, s, m)
        BY <2>2, <4>1 DEF PInv, Chains
      <4>3. ChunkOK(p, s, m)'
        BY <1>1, <1>13, <1>16, <3>3, <4>1, <4>2, SameChunk
      <4> QED BY <1>9, <4>2, <4>3
    <3> QED BY <3>1, <3>2, <3>3
  <2> QED BY <1>9, <2>1, <2>2 DEF Chains
<1>18. Reader'
  BY <1>2, <1>8 DEF PInv, Reader
<1>19. PinsKept'
  <2>1. \A p \in Pages : pins'[p] = IF p = q THEN 1 ELSE 0
    <3>1. \A p \in Pages : pins[p] = IF p = before THEN 1 ELSE 0
      BY <1>1, <1>2 DEF PInv, PinsKept
    <3> QED BY <1>2, <1>8, <3>1 DEF Pool
  <2>2. pins' = [p \in Pages |-> pins'[p]]
    BY <1>8 DEF Pool
  <2> QED BY <1>8, <2>1, <2>2 DEF PinsKept
<1> QED BY <1>10, <1>12, <1>17, <1>18, <1>19 DEF PInv

\* The buffer is empty: nothing is behind the last header.
LEMMA InsertedKeeps ==
  ASSUME PInv, Inserted
  PROVE  PInv'
<1>1. PICK w : w = writing.to_write_page
  OBVIOUS
<1>2. /\ pc = "insert" /\ writing.buffer = <<>> /\ Len(writing.buffer) = 0
      /\ pc' = "idle" /\ writing' = NotWriting /\ Pool({}, {w})
      /\ inserted' = inserted /\ tuples' = tuples /\ chunks' = chunks
      /\ stream' = stream /\ wanted' = wanted /\ sent' = sent
  BY <1>1, EmptySeq DEF Inserted
<1>3. /\ w # NoPage /\ w \in Pages /\ writing'.to_write_page = NoPage
      /\ writing'.to_write_page \notin Pages /\ CHUNK \in Nat
  BY <1>1, <1>2, Numbers DEF PInv, Writer, NotWriting
<1>4. Headers'
  BY <1>2 DEF PInv, Headers
<1>5. Writer'
  <2>1. writing' \in [to_write_page : Pages \cup {NoPage}, buffer : Seq(Nat \X Nat)]
    BY <1>2 DEF NotWriting
  <2> QED BY <1>2, <1>3, <2>1, Numbers DEF Writer
<1>6. KeepsData
  BY <1>2, Lasts DEF KeepsData, PInv
<1>7. Chains'
  <2>1. ASSUME NEW t \in DOMAIN tuples
        PROVE  TupleOK(t)'
    <3>1. TupleOK(t) /\ inserted[t] \in Nat /\ Len(tuples[t].data) \in Nat
      BY Lasts DEF PInv, Chains, Headers
    <3>2. CASE t = Len(tuples) /\ writing.to_write_page \in Leaves
      <4>1. Linked(tuples[t], t, Len(tuples[t].data))
        BY <1>2, <3>1, <3>2 DEF TupleOK, Awaits, Linked
      <4> QED BY <1>2, <1>3, <3>1, <4>1, Numbers DEF TupleOK, Linked, Carries
    <3>3. CASE ~(t = Len(tuples) /\ writing.to_write_page \in Leaves)
      BY <1>2, <1>3, <1>6, <3>1, <3>3, SameTuple, Numbers
    <3> QED BY <3>2, <3>3
  <2>2. ASSUME NEW p \in Overflows, chunks[p] # Free
        PROVE  \E t \in DOMAIN tuples', n \in Nat : ChunkOK(p, t, n)'
    <3>1. PICK t \in DOMAIN tuples, n \in Nat : ChunkOK(p, t, n)
      BY <2>2 DEF PInv, Chains
    <3>2. inserted[t] \in Nat
      BY Lasts DEF PInv
    <3>3. CASE p = w
      <4>1. Linked(chunks[p], t, n + CHUNK)
        BY <1>1, <1>2, <1>3, <3>1, <3>2, <3>3 DEF ChunkOK, Awaits, Linked
      <4>2. Linked(chunks[p], t, n + CHUNK)'
        BY <1>2, <4>1 DEF Linked, Carries
      <4>3. n < inserted'[t] /\ Carries(p, t, n)' /\ p # writing'.to_write_page
        BY <1>2, <1>3, <3>1, SameCarried, Numbers DEF ChunkOK
      <4> QED BY <1>2, <3>1, <4>2, <4>3 DEF ChunkOK
    <3>4. CASE p # w
      BY <1>1, <1>2, <1>3, <1>6, <3>1, <3>4, SameChunk, Numbers
    <3> QED BY <3>3, <3>4
  <2> QED BY <1>2, <2>1, <2>2 DEF Chains
<1>8. Reader'
  BY <1>2 DEF PInv, Reader
<1>9. PinsKept'
  BY <1>1, <1>2, <1>3 DEF PInv, PinsKept, Pool
<1> QED BY <1>4, <1>5, <1>7, <1>8, <1>9 DEF PInv

\* Headers keep their overflow pages when tuples move to another leaf.
LEMMA MoveKeeps ==
  ASSUME PInv, NEW t \in DOMAIN tuples, NEW leaf \in Leaves, Move(t, leaf)
  PROVE  PInv'
<1> DEFINE Hs == [leaf : Leaves, data : Seq(Nat \X Nat), size : Lengths, overflow : BOOLEAN,
                  overflow_page : Overflows \cup {NoPage}]
<1>1. t \in 1..Len(tuples) /\ DOMAIN tuples = 1..Len(tuples) /\ tuples \in Seq(Hs)
  BY Lasts DEF PInv, Headers
<1>2. PICK g, h : g = tuples[t] /\ h = Moved(g, leaf)
  OBVIOUS
<1>3. g \in Hs
  <2> HIDE DEF Hs
  <2> QED BY <1>1, <1>2, ElementOfSeq
<1>4. /\ h \in Hs /\ h.data = g.data /\ h.size = g.size
      /\ h.overflow = g.overflow /\ h.overflow_page = g.overflow_page
  BY <1>2, <1>3 DEF Moved
<1> HIDE DEF Hs
<1>5. /\ pc = "idle" /\ pc' = "idle" /\ tuples' = [tuples EXCEPT ![t] = h]
      /\ inserted' = inserted /\ chunks' = chunks /\ pins' = pins /\ writing' = writing
      /\ stream' = stream /\ wanted' = wanted /\ sent' = sent
  BY <1>2 DEF Move
<1>6. /\ tuples' \in Seq(Hs) /\ DOMAIN tuples' = DOMAIN tuples /\ Len(tuples') = Len(tuples)
      /\ tuples'[t] = h /\ \A s \in DOMAIN tuples : s # t => tuples'[s] = tuples[s]
  BY <1>1, <1>4, <1>5, ExceptSeq
<1>7. /\ writing.to_write_page = NoPage /\ writing.to_write_page \notin Pages
      /\ stream.curr_pid = NoPage
  BY <1>5, Numbers DEF PInv, Writer, Reader
<1>8. Headers'
  BY <1>5, <1>6 DEF PInv, Headers, Hs
<1>9. Writer'
  BY <1>5, <1>7, Numbers DEF PInv, Writer
<1>10. KeepsData
  BY <1>5, <1>6, Lasts DEF KeepsData, PInv
<1>11. Chains'
  <2>1. ASSUME NEW s \in DOMAIN tuples
        PROVE  TupleOK(s)'
    <3>1. /\ tuples'[s].data = tuples[s].data /\ tuples'[s].size = tuples[s].size
          /\ tuples'[s].overflow = tuples[s].overflow
          /\ tuples'[s].overflow_page = tuples[s].overflow_page
      BY <1>2, <1>4, <1>6
    <3>2. TupleOK(s)
      BY DEF PInv, Chains
    <3> QED BY <1>5, <1>7, <1>10, <3>1, <3>2, SameTuple, Numbers
  <2>2. ASSUME NEW p \in Overflows, chunks[p] # Free
        PROVE  \E s \in DOMAIN tuples', n \in Nat : ChunkOK(p, s, n)'
    <3>1. PICK s \in DOMAIN tuples, n \in Nat : ChunkOK(p, s, n)
      BY <2>2 DEF PInv, Chains
    <3> QED BY <1>5, <1>6, <1>7, <1>10, <3>1, SameChunk, Numbers
  <2> QED BY <1>5, <1>6, <2>1, <2>2 DEF Chains
<1>12. Reader'
  BY <1>5, <1>7 DEF PInv, Reader
<1>13. PinsKept'
  BY <1>5 DEF PInv, PinsKept
<1> QED BY <1>8, <1>9, <1>11, <1>12, <1>13 DEF PInv

\* The chains are left alone by readers.
LEMMA ReadersKeep ==
  ASSUME PInv, UNCHANGED <<inserted, tuples, chunks, writing>>,
         pc \in {"idle", "stream", "next"}, pc' \in {"idle", "stream", "next"}
  PROVE  Headers' /\ Writer' /\ Chains'
<1>1. Headers' /\ Writer'
  BY DEF PInv, Headers, Writer
<1>2. /\ inserted' = inserted /\ tuples' = tuples /\ chunks' = chunks /\ writing' = writing
      /\ writing.to_write_page \notin Pages /\ KeepsData
  BY Numbers, Lasts DEF PInv, Writer, KeepsData
<1>3. ASSUME NEW t \in DOMAIN tuples
      PROVE  TupleOK(t)'
  BY <1>2, SameTuple, Numbers DEF PInv, Chains
<1>4. ASSUME NEW p \in Overflows, chunks[p] # Free
      PROVE  \E t \in DOMAIN tuples', n \in Nat : ChunkOK(p, t, n)'
  <2>1. PICK t \in DOMAIN tuples, n \in Nat : ChunkOK(p, t, n)
    BY <1>4 DEF PInv, Chains
  <2> QED BY <1>2, <2>1, SameChunk, Numbers
<1> QED BY <1>1, <1>2, <1>3, <1>4 DEF Chains

\* A stream starts at the beginning of the tuple's data.
LEMMA SearchKeeps ==
  ASSUME PInv, NEW t \in DOMAIN tuples, Search(t)
  PROVE  PInv'
<1>1. /\ pc = "idle" /\ pc' = "stream" /\ sent' = <<>>
      /\ stream' = [tuple |-> t, curr_pid |-> tuples[t].leaf,
                    curr_page_offset |-> 0, curr_page_end |-> Len(tuples[t].data),
                    total_bytes |-> tuples[t].size, bytes_read |-> 0,
                    overflow |-> tuples[t].overflow, overflow_page |-> tuples[t].overflow_page]
      /\ inserted' = inserted /\ tuples' = tuples /\ chunks' = chunks /\ writing' = writing
      /\ pins' = pins /\ wanted' = wanted
  BY DEF Search
<1>2. /\ t \in Nat /\ tuples[t].leaf \in Leaves /\ tuples[t].size = inserted[t]
      /\ Len(tuples[t].data) \in Nat /\ inserted[t] \in Nat
      /\ tuples[t].overflow \in BOOLEAN /\ tuples[t].overflow_page \in Overflows \cup {NoPage}
  <2>1. PICK h : h = tuples[t]
    OBVIOUS
  <2>2. h \in [leaf : Leaves, data : Seq(Nat \X Nat), size : Lengths, overflow : BOOLEAN,
               overflow_page : Overflows \cup {NoPage}]
    BY <2>1, ElementOfSeq, Lasts DEF PInv, Headers
  <2>3. Len(h.data) \in Nat
    BY <2>2
  <2> QED BY <2>1, <2>2, <2>3, Lasts DEF PInv, Chains, TupleOK
<1>3. /\ stream'.tuple = t /\ stream'.curr_pid = tuples[t].leaf
      /\ stream'.curr_page_offset = 0 /\ stream'.curr_page_end = Len(tuples[t].data)
      /\ stream'.total_bytes = inserted[t] /\ stream'.bytes_read = 0
      /\ stream'.overflow = tuples[t].overflow /\ stream'.overflow_page = tuples[t].overflow_page
  BY <1>1, <1>2
<1>4. Headers' /\ Writer' /\ Chains'
  BY <1>1, ReadersKeep
<1>5. Reader'
  <2>1. stream' \in [tuple : Nat, curr_pid : Pages \cup {NoPage}, curr_page_offset : Nat,
                     curr_page_end : Nat, total_bytes : Nat, bytes_read : Nat,
                     overflow : BOOLEAN, overflow_page : Overflows \cup {NoPage}]
    BY <1>1, <1>2, Numbers
  <2>2. InPage(0)'
    BY <1>1, <1>2, <1>3 DEF InPage
  <2>3. wanted = 0
    BY <1>1 DEF PInv, Reader
  <2>4. sent' \in Seq(Nat \X Nat) /\ Len(sent') = 0
    BY <1>1, EmptySeq
  <2>5. stream'.curr_pid # NoPage
    BY <1>2, <1>3, Numbers
  <2> QED BY <1>1, <1>2, <1>3, <2>1, <2>2, <2>3, <2>4, <2>5 DEF Reader
<1>6. PinsKept'
  BY <1>1 DEF PInv, PinsKept
<1> QED BY <1>4, <1>5, <1>6 DEF PInv

\* The client asks for more.
LEMMA NextKeeps ==
  ASSUME PInv, NEW n \in ReadSizes, NextBytes(n)
  PROVE  PInv'
<1>1. /\ pc = "stream" /\ pc' = "next" /\ ~IsEOF /\ Pool({stream.curr_pid}, {})
      /\ wanted' = Least(n, stream.total_bytes - stream.bytes_read)
      /\ inserted' = inserted /\ tuples' = tuples /\ chunks' = chunks /\ writing' = writing
      /\ stream' = stream /\ sent' = sent
  BY DEF NextBytes
<1>2. /\ stream.total_bytes \in Nat /\ stream.bytes_read \in Nat
      /\ stream.bytes_read < stream.total_bytes /\ n \in Nat
      /\ stream.curr_pid \in Pages
  BY <1>1, Numbers DEF PInv, Reader, IsEOF
<1>3. wanted' \in Nat /\ stream.bytes_read + wanted' <= stream.total_bytes
  BY <1>1, <1>2 DEF Least
<1>4. Headers' /\ Writer' /\ Chains'
  BY <1>1, ReadersKeep
<1>5. Reader'
  <2>1. PICK m \in Nat : InPage(m) /\ stream.bytes_read = m + stream.curr_page_offset
    BY <1>1 DEF PInv, Reader
  <2>2. InPage(m)'
    BY <1>1, <2>1 DEF InPage, Carries
  <2> QED BY <1>1, <1>2, <1>3, <2>1, <2>2 DEF PInv, Reader
<1>6. PinsKept'
  <2>1. \A p \in Pages : pins[p] = 0
    BY <1>1 DEF PInv, PinsKept
  <2> QED BY <1>1, <2>1 DEF PinsKept, Pool
<1> QED BY <1>4, <1>5, <1>6 DEF PInv

LEMMA FilledKeeps ==
  ASSUME PInv, Filled
  PROVE  PInv'
<1>1. /\ pc = "next" /\ pc' = "stream" /\ wanted = 0 /\ Pool({}, {stream.curr_pid})
      /\ inserted' = inserted /\ tuples' = tuples /\ chunks' = chunks /\ writing' = writing
      /\ stream' = stream /\ sent' = sent /\ wanted' = wanted
  BY DEF Filled
<1>2. Headers' /\ Writer' /\ Chains'
  BY <1>1, ReadersKeep
<1>3. Reader'
  <2>1. PICK m \in Nat : InPage(m) /\ stream.bytes_read = m + stream.curr_page_offset
    BY <1>1 DEF PInv, Reader
  <2>2. InPage(m)'
    BY <1>1, <2>1 DEF InPage, Carries
  <2> QED BY <1>1, <2>1, <2>2 DEF PInv, Reader
<1>4. PinsKept'
  BY <1>1 DEF PInv, PinsKept, Pool
<1> QED BY <1>2, <1>3, <1>4 DEF PInv

LEMMA DeliveredKeeps ==
  ASSUME PInv, Delivered
  PROVE  PInv'
<1>1. /\ pc = "stream" /\ pc' = "idle" /\ stream' = NoStream /\ sent' = <<>>
      /\ inserted' = inserted /\ tuples' = tuples /\ chunks' = chunks /\ writing' = writing
      /\ pins' = pins /\ wanted' = wanted
  BY DEF Delivered
<1>2. Headers' /\ Writer' /\ Chains'
  BY <1>1, ReadersKeep
<1>3. Reader'
  <2>1. /\ stream'.curr_pid = NoPage
        /\ stream' \in [tuple : Nat, curr_pid : Pages \cup {NoPage}, curr_page_offset : Nat,
                        curr_page_end : Nat, total_bytes : Nat, bytes_read : Nat,
                        overflow : BOOLEAN, overflow_page : Overflows \cup {NoPage}]
    BY <1>1 DEF NoStream
  <2>2. wanted = 0 /\ sent' \in Seq(Nat \X Nat)
    BY <1>1, EmptySeq DEF PInv, Reader
  <2> QED BY <1>1, <2>1, <2>2 DEF Reader
<1>4. PinsKept'
  BY <1>1 DEF PInv, PinsKept
<1> QED BY <1>2, <1>3, <1>4 DEF PInv

\* A pass of the loop delivers the bytes that are next, and follows the header at the
\* end of a page.
LEMMA ReadPageKeeps ==
  ASSUME PInv, ReadPage
  PROVE  PInv'
<1>1. PICK t, p, at, n, next, off, end, done :
        /\ t = stream.tuple /\ p = stream.curr_pid /\ next = stream.overflow_page
        /\ off = stream.curr_page_offset /\ end = stream.curr_page_end
        /\ done = stream.bytes_read /\ n = Least(wanted, end - off)
        /\ at \in Nat /\ InPage(at) /\ done = at + off
  <2>1. pc = "next"
    BY DEF ReadPage
  <2>2. PICK m \in Nat : InPage(m) /\ stream.bytes_read = m + stream.curr_page_offset
    BY <2>1 DEF PInv, Reader
  <2> QED BY <2>2
<1>2. /\ pc = "next" /\ wanted \in Nat /\ wanted > 0 /\ off \in Nat /\ end \in Nat /\ off <= end
      /\ done \in Nat /\ t \in DOMAIN tuples /\ stream.total_bytes = inserted[t]
      /\ inserted[t] \in Nat /\ done + wanted <= inserted[t]
      /\ sent \in Seq(Nat \X Nat) /\ Len(sent) = done /\ t \in Nat /\ p \in Pages
      /\ \A i \in 1..Len(sent) : sent[i] = <<t, i>>
      /\ stream.overflow \in BOOLEAN
  BY <1>1, Lasts DEF PInv, Reader, ReadPage
<1>3. n \in Nat /\ n <= wanted /\ n <= end - off /\ (n = wanted \/ off + n = end) /\ off + n <= end
  BY <1>1, <1>2 DEF Least
<1>16. /\ at \in Nat /\ off \in Nat /\ end \in Nat /\ done \in Nat /\ n \in Nat
       /\ wanted \in Nat /\ inserted[t] \in Nat /\ CHUNK \in Nat /\ CHUNK > 0
       /\ done = at + off /\ n <= wanted /\ off + n <= end /\ done + n <= inserted[t]
       /\ done + wanted <= inserted[t] /\ t \in Nat
  BY <1>1, <1>2, <1>3, Numbers
<1>4. PICK d, s2 : d = Data /\ s2 = SubSeq(d, off + 1, off + n)
  OBVIOUS
<1>5. Len(d) = end /\ \A i \in 1..n : d[off + i] = <<t, done + i>>
  <2>1. CASE p \in Leaves /\ at = 0
    <3>1. d = tuples[t].data /\ end = Len(tuples[t].data) /\ done = off
      BY <1>1, <1>2, <1>4, <2>1, Numbers DEF Data, InPage
    <3>2. \A i \in 1..end : tuples[t].data[i] = <<t, i>>
      BY <1>2, <3>1 DEF PInv, Chains, TupleOK
    <3> QED BY <1>2, <1>3, <3>1, <3>2
  <2>2. CASE p \in Overflows /\ Carries(p, t, at) /\ end = CHUNK
    <3>1. d = [i \in 1..CHUNK |-> IF at + i <= inserted[t] THEN <<t, at + i>> ELSE Blank]
      BY <1>1, <1>4, <2>2, Numbers DEF Data, Carries
    <3>2. \A i \in 1..n : off + i \in 1..CHUNK /\ at + (off + i) = done + i
                          /\ at + (off + i) <= inserted[t]
      BY ONLY <1>16, <2>2
    <3> QED BY <2>2, <3>1, <3>2, <1>16
  <2> QED BY <1>1, <2>1, <2>2 DEF InPage
<1>6. /\ s2 \in Seq(Nat \X Nat) /\ Len(s2) = n
      /\ \A i \in 1..n : s2[i] = <<t, done + i>>
  <2>1. off + 1 \in Int /\ off + n \in Int
    BY <1>2, <1>3
  <2>2. ASSUME NEW i \in (off + 1)..(off + n) PROVE d[i] \in Nat \X Nat
    <3>1. PICK j : j = i - off
      OBVIOUS
    <3>2. j \in 1..n /\ off + j = i /\ done + j \in Nat
      BY ONLY <1>16, <2>2, <3>1
    <3>3. d[i] = <<t, done + j>>
      BY <1>5, <3>2
    <3> QED BY <1>16, <3>2, <3>3
  <2>3. /\ SubSeq(d, off + 1, off + n) \in Seq(Nat \X Nat)
        /\ Len(SubSeq(d, off + 1, off + n)) =
             IF off + 1 <= off + n THEN (off + n) - (off + 1) + 1 ELSE 0
        /\ \A i \in 1..((off + n) - (off + 1) + 1) :
             SubSeq(d, off + 1, off + n)[i] = d[(off + 1) + i - 1]
    BY <2>1, <2>2, SubSeqProperties
  <2>4. (off + n) - (off + 1) + 1 = n /\ (IF off + 1 <= off + n THEN n ELSE 0) = n
    BY <1>2, <1>3
  <2>5. \A i \in 1..n : (off + 1) + i - 1 = off + i
    BY <1>2, <1>3
  <2> QED BY <1>4, <1>5, <2>3, <2>4, <2>5
<1>7. /\ sent' = sent \o s2
      /\ sent' \in Seq(Nat \X Nat) /\ Len(sent') = done + n
      /\ \A i \in 1..Len(sent') : sent'[i] = <<t, i>>
  <2>1. sent' = sent \o s2
    BY <1>1, <1>4 DEF ReadPage, PossibleReads
  <2>2. /\ sent \o s2 \in Seq(Nat \X Nat) /\ Len(sent \o s2) = done + n
        /\ \A i \in 1..(done + n) :
             (sent \o s2)[i] = IF i <= done THEN sent[i] ELSE s2[i - done]
    BY <1>2, <1>6, ConcatProperties
  <2>3. ASSUME NEW i \in 1..(done + n) PROVE (sent \o s2)[i] = <<t, i>>
    <3>1. CASE i <= done
      <4>1. (sent \o s2)[i] = sent[i] BY <2>2, <3>1
      <4>2. i \in 1..done BY <1>2, <3>1
      <4> QED BY <1>2, <4>1, <4>2
    <3>2. CASE ~(i <= done)
      <4>1. i - done \in 1..n /\ done + (i - done) = i
        BY <1>2, <1>3, <3>2
      <4> QED BY <1>6, <2>2, <3>2, <4>1
    <3> QED BY <3>1, <3>2
  <2> QED BY <2>1, <2>2, <2>3
<1>8. /\ inserted' = inserted /\ tuples' = tuples /\ chunks' = chunks /\ writing' = writing
      /\ pc' \in {"stream", "next"}
  BY <1>2 DEF ReadPage
<1>9. Headers' /\ Writer' /\ Chains'
  BY <1>2, <1>8, ReadersKeep
<1> DEFINE read == [stream EXCEPT !.bytes_read = @ + n]
           Streams == [tuple : Nat, curr_pid : Pages \cup {NoPage}, curr_page_offset : Nat,
                       curr_page_end : Nat, total_bytes : Nat, bytes_read : Nat,
                       overflow : BOOLEAN, overflow_page : Overflows \cup {NoPage}]
<1>10. stream \in Streams
  BY DEF PInv, Reader
<1>11. \A q \in Pages : pins[q] = IF q = p THEN 1 ELSE 0
  BY <1>1, <1>2 DEF PInv, PinsKept
\* The page is read to its end, and has a successor.
<1>12. CASE off + n = end /\ stream.overflow /\ pc' = "next"
  <2>1. /\ stream' = [read EXCEPT !.curr_pid = next, !.curr_page_offset = 0,
                        !.curr_page_end = CHUNK, !.overflow = chunks[next].overflow,
                        !.overflow_page = chunks[next].overflow_page]
        /\ wanted' = wanted - n /\ Pool({next}, {p})
    BY <1>1, <1>12 DEF ReadPage, PossibleReads
  <2>2. at + end < inserted[t] /\ next \in Overflows /\ Carries(next, t, at + end) /\ next # p
    <3>1. CASE p \in Leaves /\ at = 0
      <4>1. TupleOK(t) /\ end = Len(tuples[t].data)
            /\ tuples[t].overflow /\ tuples[t].overflow_page = next
        BY <1>1, <1>2, <1>12, <3>1, Numbers DEF InPage, PInv, Chains
      <4>2. writing.to_write_page \notin Leaves
        BY <1>2, Numbers DEF PInv, Writer
      <4> QED BY <1>2, <3>1, <4>1, <4>2, Numbers DEF TupleOK, Linked
    <3>2. CASE p \in Overflows /\ at < inserted[t] /\ Carries(p, t, at) /\ end = CHUNK
               /\ stream.overflow = chunks[p].overflow /\ next = chunks[p].overflow_page
      <4>1. chunks[p] # Free
        BY <3>2, SameCarried
      <4>2. PICK u \in DOMAIN tuples, m \in Nat : ChunkOK(p, u, m)
        BY <3>2, <4>1 DEF PInv, Chains
      <4>3. 1 \in 1..CHUNK /\ inserted[u] \in Nat
        BY Numbers, Lasts DEF PInv
      <4>4. chunks[p].data[1] = <<t, at + 1>> /\ chunks[p].data[1] = <<u, m + 1>>
        <5>1. at + 1 <= inserted[t] /\ m + 1 <= inserted[u] /\ Carries(p, u, m)
          BY <1>16, <3>2, <4>2, <4>3 DEF ChunkOK
        <5> QED BY <3>2, <4>3, <5>1 DEF Carries
      <4>5. u = t /\ m = at
        BY <1>1, <4>2, <4>4
      <4>6. p # writing.to_write_page
        BY <1>2, <3>2, Numbers DEF PInv, Writer
      <4>7. Linked(chunks[p], t, at + end)
        BY <3>2, <4>2, <4>5, <4>6 DEF ChunkOK
      <4>8. at + end < inserted[t] /\ next \in Overflows /\ Carries(next, t, at + end)
        BY <1>12, <3>2, <4>7 DEF Linked
      <4>9. next # p
        <5>1. SUFFICES ASSUME next = p PROVE FALSE
          OBVIOUS
        <5>2. chunks[p].data[1] = <<t, (at + end) + 1>>
          <6>1. (at + end) + 1 <= inserted[t]
            BY ONLY <1>16, <4>8
          <6> QED BY <4>3, <4>8, <5>1, <6>1 DEF Carries
        <5>3. at + 1 = (at + end) + 1
          BY <4>4, <5>2
        <5> QED BY ONLY <1>16, <3>2, <5>3
      <4> QED BY <4>8, <4>9
    <3> QED BY <1>1, <3>1, <3>2 DEF InPage
  <2>3. PICK c : c = chunks[next]
    OBVIOUS
  <2>4. c.overflow \in BOOLEAN /\ c.overflow_page \in Overflows \cup {NoPage}
    BY <2>2, <2>3 DEF PInv, Headers
  <2>5. /\ stream' \in Streams /\ stream'.tuple = t /\ stream'.curr_pid = next
        /\ stream'.curr_page_offset = 0 /\ stream'.curr_page_end = CHUNK
        /\ stream'.total_bytes = inserted[t] /\ stream'.bytes_read = done + n
        /\ stream'.overflow = c.overflow /\ stream'.overflow_page = c.overflow_page
    <3>1. PICK z, b : z = stream /\ b = done + n
      OBVIOUS
    <3>2. /\ z \in Streams /\ z.tuple = t /\ z.total_bytes = inserted[t] /\ z.bytes_read = done
          /\ b \in Nat /\ next \in Pages /\ next \in Overflows
      <4>1. z \in Streams
        BY ONLY <1>10, <3>1
      <4>2. z.tuple = t /\ z.total_bytes = inserted[t] /\ z.bytes_read = done
        BY ONLY <1>1, <1>2, <3>1
      <4>3. b \in Nat
        BY ONLY <1>16, <3>1
      <4> QED BY <2>2, <4>1, <4>2, <4>3, Numbers
    <3>3. stream' = [z EXCEPT !.bytes_read = b, !.curr_pid = next, !.curr_page_offset = 0,
                       !.curr_page_end = CHUNK, !.overflow = c.overflow,
                       !.overflow_page = c.overflow_page]
      BY <1>10, <2>1, <2>3, <3>1, <3>2
    <3> QED BY ONLY <1>16, <2>4, <3>1, <3>2, <3>3
  <2>6. InPage(at + end)'
    BY <1>8, <2>2, <2>3, <2>5 DEF InPage, Carries
  <2>7. wanted' \in Nat /\ (done + n) + wanted' <= inserted[t] /\ done + n = (at + end) + 0
        /\ at + end \in Nat
    BY ONLY <1>12, <1>16, <2>1
  <2>8. next # NoPage /\ next \in Pages
    BY <2>2, Numbers
  <2> HIDE DEF read, Streams
  <2>9. Reader'
    <3>1. /\ t \in DOMAIN tuples /\ wanted' \in Nat /\ stream'.curr_pid # NoPage
          /\ stream'.bytes_read + wanted' <= stream'.total_bytes
          /\ stream'.curr_page_offset <= stream'.curr_page_end
          /\ stream'.bytes_read = (at + end) + stream'.curr_page_offset
      BY <1>2, <1>16, <2>5, <2>7, <2>8
    <3> QED BY <1>7, <1>8, <1>12, <2>5, <2>6, <2>7, <3>1 DEF Reader, Streams
  <2>10. PinsKept'
    BY <1>8, <1>11, <1>12, <2>1, <2>2, <2>5, <2>8 DEF PinsKept, Pool
  <2> QED BY <1>9, <2>9, <2>10 DEF PInv
\* The page has no successor: all was delivered.
<1>13. CASE off + n = end /\ ~stream.overflow /\ pc' = "stream"
  <2>1. stream' = read /\ wanted' = 0 /\ Pool({}, {p})
    BY <1>1, <1>13 DEF ReadPage, PossibleReads
  <2>2. at + end >= inserted[t]
    <3>1. CASE p \in Leaves /\ at = 0
      <4>1. TupleOK(t) /\ end = Len(tuples[t].data) /\ ~tuples[t].overflow
        BY <1>1, <1>2, <1>13, <3>1, Numbers DEF InPage, PInv, Chains
      <4>2. writing.to_write_page \notin Leaves
        BY <1>2, Numbers DEF PInv, Writer
      <4> QED BY <1>2, <3>1, <4>1, <4>2 DEF TupleOK, Linked
    <3>2. CASE p \in Overflows /\ at < inserted[t] /\ Carries(p, t, at) /\ end = CHUNK
               /\ stream.overflow = chunks[p].overflow
      <4>1. chunks[p] # Free
        BY <3>2, SameCarried
      <4>2. PICK u \in DOMAIN tuples, m \in Nat : ChunkOK(p, u, m)
        BY <3>2, <4>1 DEF PInv, Chains
      <4>3. 1 \in 1..CHUNK /\ inserted[u] \in Nat
        BY Numbers, Lasts DEF PInv
      <4>4. chunks[p].data[1] = <<t, at + 1>> /\ chunks[p].data[1] = <<u, m + 1>>
        <5>1. at + 1 <= inserted[t] /\ m + 1 <= inserted[u] /\ Carries(p, u, m)
          BY <1>16, <3>2, <4>2, <4>3 DEF ChunkOK
        <5> QED BY <3>2, <4>3, <5>1 DEF Carries
      <4>5. u = t /\ m = at
        BY <1>1, <4>2, <4>4
      <4>6. p # writing.to_write_page
        BY <1>2, <3>2, Numbers DEF PInv, Writer
      <4>7. Linked(chunks[p], t, at + end)
        BY <3>2, <4>2, <4>5, <4>6 DEF ChunkOK
      <4> QED BY <1>1, <1>2, <1>13, <3>2, <4>7 DEF Linked
    <3> QED BY <1>1, <3>1, <3>2 DEF InPage
  <2>3. /\ stream' \in Streams /\ stream'.tuple = t /\ stream'.curr_pid = p
        /\ stream'.curr_page_offset = off /\ stream'.curr_page_end = end
        /\ stream'.total_bytes = inserted[t] /\ stream'.bytes_read = done + n
        /\ stream'.overflow = stream.overflow /\ stream'.overflow_page = stream.overflow_page
    <3>1. PICK z, b : z = stream /\ b = done + n
      OBVIOUS
    <3>2. /\ z \in Streams /\ z.tuple = t /\ z.total_bytes = inserted[t] /\ z.bytes_read = done
          /\ z.curr_pid = p /\ z.curr_page_offset = off /\ z.curr_page_end = end /\ b \in Nat
      <4>1. z \in Streams
        BY ONLY <1>10, <3>1
      <4>2. /\ z.tuple = t /\ z.total_bytes = inserted[t] /\ z.bytes_read = done
            /\ z.curr_pid = p /\ z.curr_page_offset = off /\ z.curr_page_end = end
        BY ONLY <1>1, <1>2, <3>1
      <4>3. b \in Nat
        BY ONLY <1>16, <3>1
      <4> QED BY ONLY <1>16, <3>1, <4>1, <4>2, <4>3
    <3>3. stream' = [z EXCEPT !.bytes_read = b]
      BY <2>1, <3>1, <3>2
    <3> QED BY ONLY <3>1, <3>2, <3>3
  <2>4. InPage(at)'
    BY <1>1, <1>8, <2>3 DEF InPage, Carries
  <2>5. done + n = inserted[t]
    BY ONLY <1>13, <1>16, <2>2
  <2>6. IsEOF'
    BY <1>2, <2>3, <2>5 DEF IsEOF
  <2>7. p # NoPage
    BY <1>2, Numbers
  <2> HIDE DEF read, Streams
  <2>8. Reader'
    <3>1. /\ t \in DOMAIN tuples /\ wanted' \in Nat /\ stream'.curr_pid # NoPage
          /\ stream'.bytes_read + wanted' <= stream'.total_bytes
          /\ stream'.curr_page_offset <= stream'.curr_page_end
      BY <1>2, <1>16, <2>1, <2>3, <2>5, <2>7
    <3> QED BY <1>7, <1>8, <1>13, <1>16, <2>1, <2>3, <2>4, <2>6, <3>1 DEF Reader, Streams
  <2>9. PinsKept'
    BY <1>8, <1>11, <1>13, <2>1 DEF PinsKept, Pool
  <2> QED BY <1>9, <2>8, <2>9 DEF PInv
\* The rest of the page is for another call.
<1>14. CASE off + n # end /\ pc' = "stream"
  <2>1. stream' = [read EXCEPT !.curr_page_offset = off + n] /\ wanted' = 0 /\ Pool({}, {p})
    BY <1>1, <1>14 DEF ReadPage, PossibleReads
  <2>2. /\ stream' \in Streams /\ stream'.tuple = t /\ stream'.curr_pid = p
        /\ stream'.curr_page_offset = off + n /\ stream'.curr_page_end = end
        /\ stream'.total_bytes = inserted[t] /\ stream'.bytes_read = done + n
        /\ stream'.overflow = stream.overflow /\ stream'.overflow_page = stream.overflow_page
    <3>1. PICK z, b, o : z = stream /\ b = done + n /\ o = off + n
      OBVIOUS
    <3>2. /\ z \in Streams /\ z.tuple = t /\ z.total_bytes = inserted[t] /\ z.bytes_read = done
          /\ z.curr_pid = p /\ z.curr_page_end = end /\ b \in Nat /\ o \in Nat
      <4>1. z \in Streams
        BY ONLY <1>10, <3>1
      <4>2. /\ z.tuple = t /\ z.total_bytes = inserted[t] /\ z.bytes_read = done
            /\ z.curr_pid = p /\ z.curr_page_offset = off /\ z.curr_page_end = end
        BY ONLY <1>1, <1>2, <3>1
      <4>3. b \in Nat
        BY ONLY <1>16, <3>1
      <4> QED BY ONLY <1>16, <3>1, <4>1, <4>2, <4>3
    <3>3. stream' = [z EXCEPT !.bytes_read = b, !.curr_page_offset = o]
      BY <1>10, <2>1, <3>1, <3>2
    <3> QED BY ONLY <3>1, <3>2, <3>3
  <2>3. InPage(at)'
    BY <1>1, <1>8, <2>2 DEF InPage, Carries
  <2>4. done + n = at + (off + n) /\ (done + n) + 0 <= inserted[t]
    BY ONLY <1>16
  <2>5. p # NoPage
    BY <1>2, Numbers
  <2> HIDE DEF read, Streams
  <2>6. Reader'
    <3>1. /\ t \in DOMAIN tuples /\ wanted' \in Nat /\ stream'.curr_pid # NoPage
          /\ stream'.bytes_read + wanted' <= stream'.total_bytes
          /\ stream'.curr_page_offset <= stream'.curr_page_end
          /\ stream'.bytes_read = at + stream'.curr_page_offset
      BY <1>2, <1>16, <2>1, <2>2, <2>4, <2>5
    <3> QED BY <1>7, <1>8, <1>14, <1>16, <2>1, <2>2, <2>3, <3>1 DEF Reader, Streams
  <2>7. PinsKept'
    BY <1>8, <1>11, <1>14, <2>1 DEF PinsKept, Pool
  <2> QED BY <1>9, <2>6, <2>7 DEF PInv
<1>15. \/ off + n = end /\ stream.overflow /\ pc' = "next"
       \/ off + n = end /\ ~stream.overflow /\ pc' = "stream"
       \/ off + n # end /\ pc' = "stream"
  BY <1>1, <1>2 DEF ReadPage, PossibleReads
<1> QED BY <1>12, <1>13, <1>14, <1>15

-----------------------------------------------------------------------------
LEMMA StepKeepsPInv ==
  ASSUME PInv, Room, [Next]_vars
  PROVE  PInv'
<1>1. CASE UNCHANGED vars
  <2>1. /\ inserted' = inserted /\ tuples' = tuples /\ chunks' = chunks /\ pins' = pins /\ pc' = pc
        /\ writing' = writing /\ stream' = stream /\ wanted' = wanted /\ sent' = sent
    BY <1>1 DEF vars
  <2>2. KeepsData
    BY <2>1, Lasts DEF KeepsData, PInv
  <2>3. Headers' /\ Writer' /\ PinsKept'
    BY <2>1 DEF PInv, Headers, Writer, PinsKept
  <2>4. Reader'
    BY <2>1 DEF PInv, Reader, InPage, IsEOF, Carries
  <2>5. ASSUME NEW t \in DOMAIN tuples PROVE TupleOK(t)'
    <3>1. TupleOK(t)
      BY DEF PInv, Chains
    <3> QED BY <2>1, <3>1 DEF TupleOK, Awaits, Linked, Carries
  <2>6. ASSUME NEW p \in Overflows, NEW t \in DOMAIN tuples, NEW n \in Nat, ChunkOK(p, t, n)
        PROVE  ChunkOK(p, t, n)'
    BY <2>1, <2>6 DEF ChunkOK, Awaits, Linked, Carries
  <2>7. Chains'
    BY <2>1, <2>5, <2>6 DEF PInv, Chains
  <2> QED BY <2>3, <2>4, <2>7 DEF PInv
<1>2. CASE Next
  BY <1>2, InsertKeeps, ExtendKeeps, InsertedKeeps, MoveKeeps, SearchKeeps, NextKeeps,
     ReadPageKeeps, FilledKeeps, DeliveredKeeps DEF Next, Calls, Steps
<1> QED BY <1>1, <1>2

LEMMA PInvariance == Spec /\ []Room => []PInv
<1>1. Init => PInv
  BY InitPInv
<1>2. PInv /\ Room /\ [Next]_vars => PInv'
  BY StepKeepsPInv
<1> QED BY <1>1, <1>2, PTL DEF Spec

\* Whatever the sizes of payloads, pages and reads: a stream delivers the payload that was
\* inserted, from its first byte on, and all of it by its end (WriteChunkLeaf,
\* WriteChunkOverflow, ReadPage).
THEOREM StreamsReadBack == Spec /\ []Room => []ReadsBack
<1>1. PInv => ReadsBack
  <2> SUFFICES ASSUME PInv PROVE ReadsBack
    OBVIOUS
  <2>1. sent \in Seq(Nat \X Nat) /\ Len(sent) \in Nat /\ stream.tuple \in Nat
    BY DEF PInv, Reader
  <2>2. \A i \in 1..Len(sent) : sent[i] = <<stream.tuple, i>>
    <3>1. CASE pc \in {"stream", "next"}
      BY <3>1 DEF PInv, Reader
    <3>2. CASE pc \notin {"stream", "next"}
      BY <3>2, EmptySeq DEF PInv, Reader
    <3> QED BY <3>1, <3>2
  <2>3. sent = Bytes(stream.tuple, Len(sent))
    <3>1. PICK b : b = Bytes(stream.tuple, Len(sent))
      OBVIOUS
    <3>2. b \in Seq(Nat \X Nat) /\ Len(b) = Len(sent) /\ \A i \in 1..Len(sent) : b[i] = <<stream.tuple, i>>
      BY <2>1, <3>1, BytesFacts
    <3>3. sent = b
      BY <2>1, <2>2, <3>2, SeqEqual
    <3> QED BY <3>1, <3>3
  <2>4. pc = "stream" /\ IsEOF => Len(sent) = inserted[stream.tuple]
    <3> SUFFICES ASSUME pc = "stream", IsEOF PROVE Len(sent) = inserted[stream.tuple]
      OBVIOUS
    <3>1. /\ Len(sent) = stream.bytes_read /\ stream.total_bytes = inserted[stream.tuple]
          /\ stream.bytes_read + wanted <= stream.total_bytes /\ wanted = 0
          /\ stream.bytes_read \in Nat /\ stream.total_bytes \in Nat
      BY DEF PInv, Reader
    <3> QED BY <3>1 DEF IsEOF
  <2> QED BY <2>3, <2>4 DEF ReadsBack
<1> QED BY <1>1, PInvariance, PTL

\* Each loop over a chain of pages has just the page pinned that it goes on with, and none
\* is left pinned by a stream that waits (Insert, NextBytes).
THEOREM OnePageIsPinned == Spec /\ []Room => []OnePinned
<1>1. PInv => OnePinned
  <2> SUFFICES ASSUME PInv PROVE OnePinned
    OBVIOUS
  <2>1. \A p \in Pages :
          pins[p] = IF \/ pc = "insert" /\ p = writing.to_write_page
                       \/ pc = "next" /\ p = stream.curr_pid THEN 1 ELSE 0
    BY DEF PInv, PinsKept
  <2>2. pins \in [Pages -> Nat]
    BY DEF PInv, PinsKept
  <2>3. \A t \in DOMAIN tuples : tuples[t].leaf \in Leaves /\ tuples[t].data # <<>>
    <3> SUFFICES ASSUME NEW t \in DOMAIN tuples
                 PROVE  tuples[t].leaf \in Leaves /\ tuples[t].data # <<>>
      OBVIOUS
    <3>1. tuples[t] \in [leaf : Leaves, data : Seq(Nat \X Nat), size : Lengths, overflow : BOOLEAN,
                         overflow_page : Overflows \cup {NoPage}]
      BY ElementOfSeq, Lasts DEF PInv, Headers
    <3>2. Len(tuples[t].data) >= 1 /\ Len(<<>>) = 0
      BY DEF PInv, Chains, TupleOK
    <3> QED BY <3>1, <3>2
  <2>4. \A p \in Overflows : chunks[p] = Free \/ Len(chunks[p].data) = CHUNK
    <3> SUFFICES ASSUME NEW p \in Overflows, chunks[p] # Free PROVE Len(chunks[p].data) = CHUNK
      OBVIOUS
    <3>1. PICK t \in DOMAIN tuples, n \in Nat : Carries(p, t, n)
      BY DEF PInv, Chains, ChunkOK
    <3> QED BY <3>1, Numbers DEF Carries
  <2>5. TypeOK
    BY <2>2, <2>3, <2>4, Numbers DEF TypeOK, PInv, Headers, Writer, Reader
  <2> QED BY <2>1, <2>5 DEF OnePinned
<1> QED BY <1>1, PInvariance, PTL
=============================================================================
