------------------------------- MODULE Payload -------------------------------
(***************************************************************************)
(* The payload of a tuple on its way into pages and out again.             *)
(* BTree::Insert writes its first part into a leaf, as much as             *)
(* LeafPage::WriteChunkLeaf finds room for, and the rest into a chain of   *)
(* overflow pages (b-tree.cpp); a PayloadStream reads it back in pieces    *)
(* (leaf_page.cpp).  The tree is left out, but for one thing: a tuple may  *)
(* have been moved to another leaf before it is read.  Overflow pages are  *)
(* never given back, so nothing happens to them when a tuple is deleted.   *)
(***************************************************************************)
EXTENDS Naturals, Sequences

CONSTANTS
  Leaves, Overflows,   \* identifiers of leaf pages and of overflow pages
  Lengths,             \* of payloads
  LeafParts,           \* how much of a payload a leaf may have room for
  ReadSizes,           \* size of the buffer that NextBytes is given
  CHUNK,               \* PAGE_SIZE - OVERFLOW_PAGE_HEADER_SIZE
  MaxTuples            \* bound: tuples that are inserted

NoPage == 0

ASSUME PayloadAssumption ==
  /\ Leaves \cap Overflows = {} /\ Leaves \cup Overflows \subseteq Nat \ {NoPage}
  /\ Lengths \cup LeafParts \cup ReadSizes \cup {CHUNK} \subseteq Nat \ {0}

VARIABLES
  inserted,  \* the lengths of the payloads that were inserted
  tuples,    \* what leaves have of each: its TupleHeader, and data
  chunks,    \* overflow pages
  pins,      \* how often a page is pinned
  pc,        \* the loop that is under way, or "idle"
  writing,   \* BTree::Insert: to_write_page, and what is left of buffer
  stream,    \* the PayloadStream
  wanted,    \* NextBytes: bytes_to_read
  sent       \* what the stream has delivered

vars == <<inserted, tuples, chunks, pins, pc, writing, stream, wanted, sent>>

Pages == Leaves \cup Overflows
Blank == <<0, 0>>
Free == [data |-> <<>>, overflow |-> FALSE, overflow_page |-> NoPage]

Least(a, b) == IF a < b THEN a ELSE b
Rest(s, n) == SubSeq(s, n + 1, Len(s))

\* The first n bytes of the t-th payload.
Bytes(t, n) == [i \in 1..n |-> <<t, i>>]

NotWriting == [to_write_page |-> NoPage, buffer |-> <<>>]
NoStream == [tuple |-> 0, curr_pid |-> NoPage, curr_page_offset |-> 0, curr_page_end |-> 0,
             total_bytes |-> 0, bytes_read |-> 0, overflow |-> FALSE, overflow_page |-> NoPage]

Init == /\ inserted = <<>> /\ tuples = <<>> /\ chunks = [p \in Overflows |-> Free]
        /\ pins = [p \in Pages |-> 0] /\ pc = "idle"
        /\ writing = NotWriting /\ stream = NoStream /\ wanted = 0 /\ sent = <<>>

\* Some pages are requested, then some released.
Pool(requested, released) ==
  pins' = [p \in Pages |-> pins[p] + (IF p \in requested THEN 1 ELSE 0)
                                   - (IF p \in released THEN 1 ELSE 0)]

-----------------------------------------------------------------------------
\* BTree::Insert.

\* FindPageToWrite has requested the leaf; LeafPage::WriteChunkLeaf.
Insert(leaf, length, part) ==
  LET t == Len(tuples) + 1
      written == Least(length, part)
  IN
  /\ pc = "idle" /\ Len(tuples) < MaxTuples
  /\ inserted' = Append(inserted, length)
  /\ tuples' = Append(tuples, [leaf |-> leaf, data |-> Bytes(t, written), size |-> length,
                               overflow |-> FALSE, overflow_page |-> NoPage])
  /\ writing' = [to_write_page |-> leaf, buffer |-> Rest(Bytes(t, length), written)]
  /\ Pool({leaf}, {})
  /\ pc' = "insert"
  /\ UNCHANGED <<chunks, stream, wanted, sent>>

NewPage == CHOOSE p \in Overflows : /\ chunks[p] = Free
                                    /\ \A q \in Overflows : chunks[q] = Free => p <= q

\* LeafPage::WriteChunkOverflow into a page of zeros.
Chunk(buffer) == [data |-> [i \in 1..CHUNK |-> IF i <= Len(buffer) THEN buffer[i] ELSE Blank],
                  overflow |-> FALSE, overflow_page |-> NoPage]

\* overflow_info_store_address is in to_write_page: the header of the tuple, or that of
\* the overflow page before.  It gets the identifier of the new page, and is released.
Extend ==
  LET before == writing.to_write_page
      new == [chunks EXCEPT ![NewPage] = Chunk(writing.buffer)]
      link(header) == [header EXCEPT !.overflow = TRUE, !.overflow_page = NewPage]
  IN
  /\ pc = "insert" /\ writing.buffer # <<>>
  /\ IF before \in Leaves
     THEN chunks' = new /\ tuples' = [tuples EXCEPT ![Len(tuples)] = link(@)]
     ELSE chunks' = [new EXCEPT ![before] = link(@)] /\ UNCHANGED tuples
  /\ writing' = [to_write_page |-> NewPage, buffer |-> Rest(writing.buffer, CHUNK)]
  /\ Pool({NewPage}, {before})
  /\ UNCHANGED <<inserted, pc, stream, wanted, sent>>

\* Slip: pages are released only when another one follows.
Inserted_KeepsPin ==
  /\ pc = "insert" /\ writing.buffer = <<>>
  /\ writing' = NotWriting
  /\ pc' = "idle"
  /\ UNCHANGED <<inserted, tuples, chunks, pins, stream, wanted, sent>>

Inserted ==
  /\ pc = "insert" /\ writing.buffer = <<>>
  /\ Pool({}, {writing.to_write_page})
  /\ writing' = NotWriting
  /\ pc' = "idle"
  /\ UNCHANGED <<inserted, tuples, chunks, stream, wanted, sent>>

\* Slip: the header is made anew from what is moved.
Moved_NewHeader(tuple, leaf) ==
  [leaf |-> leaf, data |-> tuple.data, size |-> Len(tuple.data),
   overflow |-> FALSE, overflow_page |-> NoPage]

\* Loans and merges write a tuple with WriteChunkLeaf, and its header as it was.
Moved(tuple, leaf) == [tuple EXCEPT !.leaf = leaf]

Move(t, leaf) ==
  /\ pc = "idle" /\ leaf # tuples[t].leaf
  /\ tuples' = [tuples EXCEPT ![t] = Moved(@, leaf)]
  /\ UNCHANGED <<inserted, chunks, pins, pc, writing, stream, wanted, sent>>

-----------------------------------------------------------------------------
\* PayloadStream.

IsEOF == stream.bytes_read >= stream.total_bytes

\* BTree::Search has found the tuple, and released its leaf.  Offsets are counted from
\* the first byte of the payload in a page.
Search(t) ==
  /\ pc = "idle"
  /\ stream' = [tuple |-> t, curr_pid |-> tuples[t].leaf,
                curr_page_offset |-> 0, curr_page_end |-> Len(tuples[t].data),
                total_bytes |-> tuples[t].size, bytes_read |-> 0,
                overflow |-> tuples[t].overflow, overflow_page |-> tuples[t].overflow_page]
  /\ sent' = <<>>
  /\ pc' = "stream"
  /\ UNCHANGED <<inserted, tuples, chunks, pins, writing, wanted>>

\* HandleSearch calls NextBytes until the stream ends.
NextBytes(n) ==
  /\ pc = "stream" /\ ~IsEOF
  /\ wanted' = Least(n, stream.total_bytes - stream.bytes_read)
  /\ Pool({stream.curr_pid}, {})
  /\ pc' = "next"
  /\ UNCHANGED <<inserted, tuples, chunks, writing, stream, sent>>

Data == IF stream.curr_pid \in Leaves THEN tuples[stream.tuple].data
        ELSE chunks[stream.curr_pid].data

\* Slip: max_offset is taken for the end, not for the last byte.
PossibleReads_Exclusive == stream.curr_page_end - stream.curr_page_offset - 1

\* ReadPage: possible_reads.
PossibleReads == stream.curr_page_end - stream.curr_page_offset

\* One pass of the loop: where the page ends, the stream goes on with the next one.
\* The offset stays behind at the end of the last page.
ReadPage ==
  LET n == Least(wanted, PossibleReads)
      result == stream.curr_page_offset + n
      next == stream.overflow_page
      read == [stream EXCEPT !.bytes_read = @ + n]
  IN
  /\ pc = "next" /\ wanted > 0
  /\ sent' = sent \o SubSeq(Data, stream.curr_page_offset + 1, result)
  /\ \/ /\ result = stream.curr_page_end /\ stream.overflow
        /\ stream' = [read EXCEPT !.curr_pid = next, !.curr_page_offset = 0,
                        !.curr_page_end = CHUNK, !.overflow = chunks[next].overflow,
                        !.overflow_page = chunks[next].overflow_page]
        /\ wanted' = wanted - n
        /\ Pool({next}, {stream.curr_pid})
        /\ UNCHANGED pc
     \/ /\ result = stream.curr_page_end /\ ~stream.overflow
        /\ stream' = read
        /\ wanted' = 0
        /\ Pool({}, {stream.curr_pid})
        /\ pc' = "stream"
     \/ /\ result # stream.curr_page_end
        /\ stream' = [read EXCEPT !.curr_page_offset = result]
        /\ wanted' = 0
        /\ Pool({}, {stream.curr_pid})
        /\ pc' = "stream"
  /\ UNCHANGED <<inserted, tuples, chunks, writing>>

\* The loop ends with the end of a page.
Filled ==
  /\ pc = "next" /\ wanted = 0
  /\ Pool({}, {stream.curr_pid})
  /\ pc' = "stream"
  /\ UNCHANGED <<inserted, tuples, chunks, writing, stream, wanted, sent>>

Delivered ==
  /\ pc = "stream" /\ IsEOF
  /\ stream' = NoStream /\ sent' = <<>>
  /\ pc' = "idle"
  /\ UNCHANGED <<inserted, tuples, chunks, pins, writing, wanted>>

-----------------------------------------------------------------------------
Calls == \/ \E leaf \in Leaves, length \in Lengths, part \in LeafParts : Insert(leaf, length, part)
         \/ \E t \in DOMAIN tuples : Search(t) \/ \E leaf \in Leaves : Move(t, leaf)
Steps == Extend \/ Inserted \/ (\E n \in ReadSizes : NextBytes(n)) \/ ReadPage \/ Filled \/ Delivered

Next == Calls \/ Steps

\* A call that was made goes on: nothing in it blocks.
Spec == Init /\ [][Next]_vars /\ WF_vars(Steps)

-----------------------------------------------------------------------------
\* Properties.

TypeOK ==
  /\ inserted \in Seq(Lengths) /\ Len(tuples) = Len(inserted)
  /\ \A t \in DOMAIN tuples : tuples[t].leaf \in Leaves /\ tuples[t].data # <<>>
  /\ \A p \in Overflows : chunks[p] = Free \/ Len(chunks[p].data) = CHUNK
  /\ pins \in [Pages -> Nat]
  /\ pc \in {"idle", "insert", "stream", "next"}
  /\ pc = "insert" <=> writing.to_write_page \in Pages
  /\ pc \in {"stream", "next"} <=> stream.curr_pid \in Pages
  /\ wanted \in Nat

\* What a PayloadStream delivers is the payload as it was inserted, from its first byte on,
\* each byte once, and all of it by the time IsEOF holds: wherever it was cut into pages,
\* and in whatever pieces it is read.
ReadsBack ==
  /\ sent = Bytes(stream.tuple, Len(sent))
  /\ pc = "stream" /\ IsEOF => Len(sent) = inserted[stream.tuple]

\* Each loop keeps one page pinned between two of its rounds, the one it goes on with, and
\* a stream none between two calls of NextBytes, for as long as the client may take.
OnePinned ==
  /\ TypeOK
  /\ \A p \in Pages :
       pins[p] = IF \/ pc = "insert" /\ p = writing.to_write_page
                    \/ pc = "next" /\ p = stream.curr_pid THEN 1 ELSE 0

\* HandleSearch asks until the stream ends: every call of NextBytes must bring it closer.
StreamsEnd == pc = "stream" ~> pc = "idle"
=============================================================================
