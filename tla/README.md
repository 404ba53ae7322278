# Datashil in TLA+

Datashil is a small disk-based database: a TCP server in front of a B+ tree,
whose pages go through a buffer pool to one file, and a command line client that
parses queries and sends them. These modules model the storage engine, the server,
its clients and the protocol between them. TLC checks them on small instances, and
TLAPS proves the main results about the buffer pool, the storage manager, the B+ tree and
its leaf pages, payloads and the protocol for every instance. Line numbers refer to the files under
`src/database/src/impl/` (`bufferpool.cpp`, `storageManager.cpp`, `b-tree.cpp`,
`leaf_page.cpp`, `internal_page.cpp`, `server.cpp`) and under `src/client/src/impl/`
(`client.cpp`, `cli.cpp`, `parser.cpp`).

1. [The system](#1-the-system)
2. [The modules](#2-the-modules)
3. [What is checked](#3-what-is-checked)
4. [What is proved](#4-what-is-proved)
5. [Where the code and its documents disagree](#5-where-the-code-and-its-documents-disagree)
6. [What is not modelled](#6-what-is-not-modelled)
7. [Plan](#7-plan)

## 1. The system

The server accepts one connection at a time and handles its requests one after
the other, in one thread. A request becomes one call of the B+ tree; the tree asks
the buffer pool for pages and reads and writes them through raw pointers; the pool
reads and writes the file through the storage manager. Everything below the
socket is synchronous. Concurrency is between processes: the server, its clients,
the streams between them, and whoever sends them signals. What is hard there is
that a stream is cut anywhere, that an end may vanish between any two system
calls, and that a signal is only noticed in a system call or at the test of a
flag. What makes the engine hard to get right is not threads but

- pointers into frames that live across further requests for pages (a call of the
  tree holds up to one page per level, and their siblings);
- a long sequence of calls, after each of which page table, pin counts, flags,
  free list and clock queue have to agree, and so do the pages of the tree;
- system calls that fail and whose result nobody looks at;
- the process being killed between two writes.

| component | state | operations | what makes it correct |
|---|---|---|---|
| Buffer pool (`bufferpool.cpp`) | frames, their metadata, page table, `free_frames`, clock queue `unpinned_frames` | `RequestPage` (hit, free frame, or sweep + eviction + read), `ReleasePage`, `AllocateNewPage`, destructor | a page in use stays in its frame; pin counts are exact; no update is lost; no frame leaks; a page can be had while a frame is unpinned |
| Storage manager (`storageManager.cpp`) | the file; the index of the next page, in page 0 and in a member | `Bootstrap`, `AllocateNewPage`, `ReadPage`, `WritePage` | a page is handed out once, across restarts; a restart keeps the database it finds |
| B+ tree (`b-tree.cpp`) | the pages, `root_page_id` (also on page 1), the recursion under way | `Insert`, `Search`, `Delete`, with `FindPageToWrite`, splits, borrows and merges | the tree is a dictionary; leaves are chained in order; searches lead to the right leaf; pages are pinned while used, and released as dirty when changed; calls return |
| Internal pages (`internal_page.cpp`) | keys and children | `GetChildPageID`, `InsertKeyValue`, `HandleSplit`, `CheckUnderflow`, `CanLend`, `LendFromLeft/Right`, `MergePages`, ... | keys stay ordered and within capacity; no page but an only child is left underfull |
| Leaf pages (`leaf_page.cpp`) | slot array and tuples, `left_pid`, `right_pid` | `WriteChunkLeaf`, `Search`, `DeleteTuple`, `HandleSplit`, `CanLendFromLeft/Right`, `HandleLeftBorrow`, `HandleRightBorrow`, `MergePages`, `DefragmentPage`, ... | tuples stay whole and in order; bytes add up; what is moved fits; slots of deleted tuples mislead no search |
| Server (`server.cpp`) | stream buffer, connection, `server_running` | accept, frame requests, dispatch, reply, stop on a signal | a request is executed once, when all of it has arrived; replies match requests; a signal stops the server |
| Client and command line (`client.cpp`, `cli.cpp`) | the socket, `client_running` | connect, prompt, send a request, await and check the reply | it reads a reply from its first byte on; it ends or prompts after each exchange |
| Parser (`parser.cpp`) | the automaton's state, the query | `ParseQuery`, one character at a time | it accepts what the grammar does, and finds the same in it |

The components of the engine meet in three places. The tree relies on the pool to keep pinned
pages in place and to bring back what it wrote. The pool relies on the tree to
release what it requested, to say of a page it changed that it is dirty before the
last pin goes, and to leave it a frame to evict. The pool relies on the storage
manager never to hand out a page twice. Server and client meet in their
streams: each relies on the other to write as many bytes as its header says.

## 2. The modules

| module | what it is |
|---|---|
| `PageStore` | what the buffer pool promises: every page has one current content, and becomes durable only while nobody holds it |
| `BufferPool` | the buffer pool, with its callers, failing I/O, orderly shutdowns and crashes |
| `BufferPoolProofs` | its inductive invariant, and what follows from it; that it implements `PageStore`; what holds of the clock queue even when the callers pin too much |
| `StorageManager` | bootstrap, allocation and writes, one system call per step |
| `StorageManagerProofs` | its inductive invariant, and what follows from it |
| `Dictionary` | what the B+ tree promises: each request takes effect once, at one moment |
| `BTree` | insert, search and delete, one level of the recursion per step |
| `BTreeShape` | the inductive invariant of the tree's shape, and what follows from it; lemmas on tuples and what they sum up to, on how children divide a range, and on the chain of leaves |
| `BTreeProofs` | the invariant of the tree's order: which keys each page is for; each step keeps it; what follows for the chain of leaves and for searches; the pages a call holds; types; that the tree implements `Dictionary` |
| `LeafPage` | the slots and bytes of leaf pages, in a tree of one or two of them |
| `LeafPageProofs` | its inductive invariant, and what follows from it |
| `Payload` | a payload on its way into a leaf and overflow pages, and out again through a `PayloadStream` |
| `PayloadProofs` | the invariant of chains and streams, and what follows from it |
| `Database` | the storage engine from start to start: `StorageManager` and `PageStore` composed, with the root of the tree |
| `DatabaseProofs` | its inductive invariant, and what follows from it |
| `RemoteCalls` | what clients may rely on: a call is executed at most once, and returns after that |
| `Sockets` | what server and clients use of TCP |
| `Server` | the server's thread, one blocking system call per step |
| `Parser` | the automaton of `ParseQuery`, and the grammar it is compared with |
| `Client` | the client processes, from connecting to their end |
| `Protocol` | server and clients together, and their properties |
| `ProtocolProofs` | the invariant of their streams, and what follows from it |
| `MCBufferPool`, `MCStorageManager`, `MCBTree`, `MCLeafPage`, `MCPayload`, `MCDatabase`, `MCProtocol` | what TLC needs: symmetry, the view of the tree, sizes, and what users type |

Definitions called `..._Something`, each with a comment that starts with "Slip",
are not part of the models. They are wrong versions of the definition below
them, of the kind a programmer might write: replacing the one by the other makes
the property that is meant to notice it fail.

### BufferPool

The variables carry the names of the code: `page_table`, `free_frames`,
`unpinned_frames`, and the fields of `buffer_pool_meta` as functions of the frame
(its `page_id` is `frame_page`). `disk` is the file as the pool sees it. A call of
`RequestPage` that misses takes several steps, told apart by `pc`, with the locals
`want` (the page), `index` (the frame), `iter` and `max_iters`:

    RequestMiss / AllocateNewPage --> load                      a frame was free
                                  --> sweep --> evict --> load
    load --> idle

`FindPageToEvict` has one action per outcome of an iteration (`SkipPinned`,
`SecondChance`, `TakeVictim`) and one for the end of its loop (`SweepExhausted`);
`EvictPage` and `LoadPage` are the write-back and the read, `EvictWriteFails` and
`LoadFails` their error paths. Between two calls the callers act: `WriteThrough`
writes through a pointer, `ReleasePage` gives one back. `held` says how many
pointers to which page in which frame they have: a release goes by the page's
identifier, a write by the pointer, and the two can only be trusted to mean the
same frame if pinning works. `unsaved` are the pages that were written through
a pointer and not yet released as dirty. `lost` are the frames that a failed read
or write has left in no list: `RequestPage` returns its error without giving the
frame back, and `EvictPage` keeps `is_in_queue` set on a frame it popped.

Two assumptions about the callers are built into the guards: they ask for a page
that is not cached only while fewer than `PinLimit` frames are pinned, and the
one who changed a page says so before the last pointer to it goes. The first is
a parameter (the pool has 1000 frames and the tree pins a few per level); without
it the code hands out pinned frames, see section 5. The second is what the
tree's `ModifiedArePinned` establishes.

### StorageManager

A step is one system call of `Bootstrap` or `AllocateNewPage`, in the code's order;
each may fail (`Fault`, at most `MaxFaults` times), and `Stop` ends the process
between any two. Page 0 is its magic number and `next`; of the other pages it
matters which are not all zeros (`dirtied`), as `AllocateNewPage` promises a page of
zeros and the pages below `next` are the callers'. The code ignores the results
of `fstat`, of the reads and writes of page 0 and of `posix_fallocate`; so does the
model, and what a failed read leaves in a buffer is any value. What was written
stays written: the file is opened with `O_DIRECT`, and losses behind `pwrite`'s back
are not modelled. A process that cannot open the file ends without having changed
anything, and is not modelled either.

### BTree

`pages` maps identifiers to leaves (a sequence of tuples, each with a key and a
size, and two neighbours), internal pages (keys and children) or `Free`. The
recursions of `FindPageToWrite` and `Delete` are the actions:

| code | actions |
|---|---|
| the way down | `Descend` (a frame of the recursion requests its page and calls itself) |
| `FindPageToWrite` at a leaf | `FindFits`, `FindSplit` |
| ... on its way up | `UnwindNoSplit`, `UnwindInsert`, `UnwindSplit` |
| `Insert` | `NewRoot`, `WriteTuple` |
| `Search` | `SearchDescend`, `SearchLeaf` |
| `Delete` at a leaf | `DeleteLeaf` |
| ... above leaves | `LeafLeftBorrow`, `LeafRightBorrow`, `LeafMerge`, `RootLeafMerge` |
| ... above internal pages | `InternalLeftBorrow`, `InternalRightBorrow`, `InternalMerge` |
| ... without a change | `NoUnderflow`, `NoSibling` |

`stack` holds the pages of the frames that wait, `cur` the child the innermost of
them called itself for, `report` what that call returned (a split, or a
`DeleteStatus`). Every step names the pages it requests and those it releases
as clean or as dirty (`Pool`), which updates `pins` and `unsaved`, the tree's side of
the contract with the buffer pool.

Data are abstract where the properties do not tell them apart. A leaf has live
tuples only: slots of deleted tuples, garbage and defragmentation are left to a
module of their own. Sizes count what `CheckUnderflow` and `CanLend` count, the
slot included. A tuple that does not fit its leaf is cut to what fits, and the
rest, which goes to overflow pages, is forgotten. Internal pages count pairs.
The module `LeafPage` has what is left out of leaves here, `Payload` where the rest goes.

The code never uses an identifier again. The model reuses those of pages that
dropped out of the tree, which keeps it finite; `TypeOK` states that nothing in the
tree refers to a page that was dropped.

### LeafPage

A page is its slot array (`slots`, each with `is_deleted`, and the key and length of
its tuple), `free_space_end`, counted from the header, and `garbage_bytes`. Tuples are
added from the end of the page downwards and only ever moved by a compaction, so a
tuple's offset follows from the lengths of those before it, and is left out. The
slot of a deleted tuple is always the same value (the code leaves its key and offset
in place and never looks at them).

`Bisect` is the loop of `lower_bound` and `upper_bound`: where it falls on the slot of a
deleted tuple, it looks at the next live one. `Placed` is the reuse of such a slot.
`MakePage` is every operation that builds a page anew from live tuples
(`DefragmentPage`, and both halves of `HandleSplit`). `Lends`, `Receives` and `MergeFits`
are the loops of the borrow and merge operations, tuple by tuple.

The actions are those of `Insert` and `Delete` in `b-tree.cpp` on a tree that is a leaf or
a root over two leaves: a split is possible while there is one, and a borrow or a
merge while there are two. That is enough for every operation of the module
to meet every other. Keys may be inserted twice, as in the code, where `BTree`
inserts only keys that are not stored.

### Payload

`Insert` is the first part of `BTree::Insert`: `FindPageToWrite` has found a leaf, and
`WriteChunkLeaf` writes as much of the payload as there is room for, which is left open
(`LeafParts`). `Extend` is one round of the loop that writes the rest, `Inserted` the
last release. `Move` is what loans and merges do to a tuple: its bytes and its header
go to another leaf. `Search` makes a `PayloadStream`, `NextBytes` is a call of it,
`ReadPage` a round of its loop, ended by a `break` or by the end of a page (`Filled`).
A byte is the payload it belongs to and its place in it, so it matters which bytes
arrive, and in which order. Offsets are counted from where payload starts in a page.
The rest of a page behind its payload is `Blank`.

### Database

Every step is a step of `StorageManager` without failures (`SM!`), of `PageStore`, which
is what the pool promises and `BufferPoolProofs` proves of it (`Pool!`), or of both:
`WriteBack` persists a page and writes the file, `Allocated` hands out a page and makes
it known to the pool, `Kill` and `ShutDown` end both. `at` says what the process does:

    down --> start --> open --> serving <--> split, grow, shrink
                  \              \--> closing --> down
                   --> failed --> closing --> down

`RequestMeta` is where `BTree::BTree` throws if the meta page is not in the file;
`LoadRoot` and `NewTree` are its two branches. What a split, a new root or the loss of
one does to the pool is a list of calls (`calls`), and `PoolCall` is the next of them; a
write-back or a kill may come between any two. Of the tree there is its root and the set
of its pages: `BTree` has the rest. Two variables are history: `sound` says that no process
was killed while it may have changed a tree, `torn` that one was killed between the two
writes that format a file.

### Protocol

A stream is a sequence of units, each of which knows the message it belongs to and
its place in it (`of`, `at`). The model never gives a reader a message: `Read` and
`Receive` append whatever has arrived, and what the code takes for a header is
whatever unit is at the start of its buffer. Its magic number and checksum are good
if and only if that unit is the first of a message.

| code | actions |
|---|---|
| `RunServer` | `RunServer`, `Accept`, `AcceptFails`, `Stop` |
| `HandleClient`, its loops | `HandleClient` (the test of the flag), `Read`, `ReadEnd`, `Unhandled` |
| ... a complete request | `HandleSearch`, `HandleInsert`, `HandleDelete`, `HandleOversized`, `HandleQuit` |
| ... its reply | `Write`, `WriteGone`, `Replied` |
| `Client::Client` | `Connect`, `Refused` |
| `UseCLI` | `Type`, `EndOfInput`, `Prompts`, `Returns` |
| `SendCommandAndFetchReply` | `Send`, `SendFails`, `Receive`, `ReceiveFails`, `CheckHeader`, `FetchReply` |
| signals, ends of processes | `Signal`, `SignalClient`, `Die` |

System calls that block are steps of their own. A `Signal` clears `server_running`
and, only if the thread is blocked in a call at that moment, makes it fail with
`EINTR`; after the test of the flag and before the call it goes unnoticed until the
call returns. No connection is ever closed by the server: each keeps its descriptor,
and a client that the server turned away from waits in its read (`Abandoned`).

What the tree answers is left open: an insert succeeds, a delete finds its key or
not, a search finds a tuple of some size that was inserted, or none. A user types lines;
`ParseQuery` is a fold of the automaton over them, and only the queries among them are
sent, with the number of characters of their payload.

`RemoteCalls` is the abstract specification: `Begin`, `Execute`, `Return` and `Leave` per
client. `Type` maps to `Begin`, the handlers to `Execute`, the end of an exchange to
`Return`, and everything that ends a client to `Leave`.

## 3. What is checked

### Runs that pass

| run | instance | properties |
|---|---|---|
| `pool` | 3 frames, 4 pages, 2 contents, up to 2 pointers per page, 1 failure per process, crashes and shutdowns anywhere | `TypeOK`, `PinSafety`, `CleanMatchesDisk`, `Reclaimable`, `ServedWhileRoom`, `StoreSpec` |
| `pool_over` | 2 frames, 3 pages, 2 frames pinned or 1 pinned and 1 lost | `QueueSound` |
| `storage` | 5 pages, 3 failures, any number of restarts | `FreshPages`, `DatabaseKept` |
| `btree` | 6 keys, 2 keys per internal page, 2 tuples per leaf | `TypeOK`, `ChainInOrder`, `SearchTree`, `KeysFit`, `InternalOccupied`, `PinsMatchUse`, `ModifiedArePinned`, `CallsReturn` |
| `btree_sizes` | 5 keys, tuples of 2, 3 and 4 units, leaves of 7 | `TuplesFit`, `ImplementsDictionary` |
| `leaf` | 3 keys, up to 5 tuples, pages of four tuples | `Accounting`, `KeysAreWhole`, `SearchesAgree`, `SearchFinds`, `MergesFit`, `ContentsKept` |
| `payload` | 2 payloads of 1 to 6 bytes, 1 or 2 of them in one of 2 leaves, overflow pages of 2, reads of 1 or 3 | `ReadsBack`, `OnePinned`, `StreamsEnd` |
| `database` | 6 pages, any number of processes, killed anywhere | `TreeFound`, `StartsUnlessTorn`, `RootIsKept` |
| `protocol` | 2 clients, 2 requests and 1, streams of 2 units, messages of up to 5 | `TypeOK`, `InStep`, `LeftWaiting`, `OneLateCall`, `SentAsTyped`, `ImplementsCalls`, `WholeRequests`, `SignalledStops`, `Answered` |

`PinSafety`: a pointer leads to the page it was handed out for, and the pin count
of a frame is the number of pointers into it. `CleanMatchesDisk`: what a frame has
that is neither dirty nor being changed is what the file has. `Reclaimable`: an
unpinned frame is free, or queued once, or being worked on, or lost to a failure.
`ServedWhileRoom`: a sweep never gives up. `StoreSpec`: all of this amounts to
`PageStore`, where there are no frames. `QueueSound`: whatever the callers pin, the
queue has a frame once, and never the one that was handed out as the victim.

`FreshPages` and `DatabaseKept` say that kills alone, anywhere, do no harm:
identifiers are not handed out twice, and a database is not formatted again. Both
speak of histories in which no system call failed; what one failure does is
`storage_fault`.

`ChainInOrder`, `SearchTree` and `InternalOccupied` are the shape of the tree, also
between two levels of a rebalancing; `PinsMatchUse` and `ModifiedArePinned` are its
contract with the pool; `TuplesFit` is the arithmetic that keeps `MergePages` of leaves
from throwing and a split from being too small; `KeysFit` is that of internal pages,
whose `MergePages` does not look whether there is room. `ImplementsDictionary` maps the tree to
the concatenation of its leaves and says that it changes at one moment per
request, as the request says, and that answers are right, with one exception the
abstract module names: a delete may fail to admit a removal (see `btree_delete`).
`CallsReturn` is liveness.

The state keeps its types, and `Accounting` says that the bytes of a page add up, whatever was deleted, used again
and compacted. `KeysAreWhole`: `WriteChunkLeaf`, which does not look, always finds room
for a tuple's header and key. `SearchesAgree` compares the binary searches with a
search from the left, whichever slots of deleted tuples lie in their way.
`SearchFinds` names the one exception there is: with a key inserted twice, a split may
leave one tuple on each side of the boundary, and when the one on the right is
deleted the other is not found any more. `MergesFit`: `MergePages` never throws, though
slots of deleted tuples count as used when lending is decided. `ContentsKept` is an
action property: an insert adds one tuple, a delete takes one, and no split, borrow,
merge or compaction loses, doubles or cuts one.

`ReadsBack`: a stream delivers the payload that was inserted, each byte once and in order, and
has delivered all of it when `IsEOF` holds. It ties together what `BTree::Insert` wrote
where, the length and the first overflow page that a moved tuple took along, and the
arithmetic of `ReadPage`, whose `max_offset` is the last byte of a page and whose result is
the one behind it. `OnePinned`: the loop that writes and the loop that reads hold the page
they go on with and no other, and nothing between two calls. `StreamsEnd` is liveness: the
server's only thread sits in `HandleSearch` until `IsEOF`, so each call of `NextBytes` must
deliver something.

`TreeFound`: a server that starts finds root and pages as they were, if every process
that had served came to its end in order; it does not matter how many were killed while
they started. `StartsUnlessTorn`: the only thing that keeps a server from starting is a kill
between the two writes of formatting, and that does for good. `RootIsKept` holds whoever
was killed when: page 1 names a page that was handed out, that is in the file, and
that no process will hand out again, although page 0, with the index, is written at once,
and page 1 whenever the pool likes.

`InStep` says that whatever is taken for a header is one: that of the client's own
request, or of the reply to it. `WholeRequests` says that the server executes a
request only with all of it in the buffer, unmixed. `ImplementsCalls` is the refinement of
`RemoteCalls`. `LeftWaiting` lists the only two cases in which a running server turns away
from a client that waits for a reply: it sent `quit`, or an insert that is too long.
`OneLateCall` bounds what a signal that falls between a test and a call costs: one accept
or one read. `SignalledStops` and `Answered` are liveness. `SentAsTyped` compares what is
sent with the grammar (`Meanings`), and so does `AcceptsGrammar`, an assumption of
`MCProtocol` that TLC evaluates for all lines of up to five characters and for all tails
of up to five behind the start of an insert.

### Bounds, and why they are enough

*Pool.* With three frames and four pages there are hits, free frames, sweeps with
second chances, frames pinned again while queued, dirty and clean victims, and
a frame lost to a failure, in any order. `PinLimit + MaxFaults` is the number of
frames, the most that `Capacity` allows: the theorems cover every other choice.
`HoldLimit` bounds the pointers to one page. `PinMax` is the real 65535; only
`pool_over` reaches it, where a release too many wraps a count around. Frames, pages and non-zero contents are interchangeable (symmetry).

*Storage.* Three failures suffice for a format of which nothing reaches the file
and an index that is garbage.

*Tree.* The code's proportions are kept where the algorithms depend on them.
Internal pages split at `S` keys and have underflown at `M` with `2M + 2 = S` (254 and
126 in the code; 2 and 0 here). A leaf has room for two tuples that have just
not underflown and one more: `2T + E <= U`, with threshold `T`, largest tuple `E` and
space `U` (1626, 813 and 4065 in the code). A leaf that is split must have, in each half, the room its tuple asks for: either every tuple
asks for the same (`btree`), or the least and the largest share of a leaf together are at
most a quarter of its space and no tuple is smaller than three slots (941 of 4065, and 15 in the
code). `BTreeAssumption` states all of this, and TLC evaluates it. Six keys in pages of two give three levels, so that internal
pages split, borrow and merge below a root that does too; `btree_sizes` has leaves in
which two or three tuples fit, tuples that are cut, leaves that underflow while they
still have a tuple, and lenders that must
not lend. Leaves of one size (`btree`) and of several (`btree_sizes`) are different
runs because the first needs the depth and the second the variety.

*Leaf pages.* The proportions that the algorithms rely on are assumptions of the
module, which the constants of the code satisfy (space 4065, slot 5, header and key
of a tuple 21, least and largest share of a leaf 128 and 813, threshold 1626) and
those of the run too (16, 1, 2, 3, 4, 6). One of them is needed for `MergesFit` and
`SearchFinds` and written nowhere in the code: as many slots of deleted tuples as a page
may ever have do not by themselves keep it from an underflow. Another, that the least and the
largest share together fit into a page, is what makes a page that has to be split have two
tuples. Five tuples, of which
four fill a page, give splits with and without slots of deleted tuples, loans of one and
two tuples both ways, merges, compactions, and tuples that are cut.

*Payloads.* Lengths, shares of a leaf and reads are such that a payload ends in its leaf, in an
overflow page, exactly where a leaf or an overflow page does, and that reads end
there, before it or behind it; chains have up to three pages. A second payload makes
sure that chains do not mix.

*Database.* Six pages, of which two are meta pages: four allocations in all, over any
number of processes. That is a tree of one leaf, a split, a new root, the loss of it
again, and starts that are killed after having allocated the first page.

*Protocol.* With two clients and a backlog of one, a client waits while the other is
served, or finds the backlog full. Streams of 2 units, headers of 2 and a server that
reads 2 at a time cut a request of 3 to 5 units at every place, and make writes
take a part or block. The first client sends two requests, so that what is left of
the first would be found by the second. `MAX_INSERT` is reached and exceeded;
`FD_LIMIT` is 2, so both connections can be accepted and a third accept fails.

*View.* `MCBTree` identifies states that differ only in the names of pages, in
`left_pid` or in pages that dropped out: the code compares none of these. What it keeps
includes `pc` and the request, and a step is possible from a state if and only if the
same step is from any other it is identified with; so the identification is a
bisimulation, and sound for `CallsReturn`, which reads `pc` only.

*Fairness.* `BTree` has `WF_vars(Step)`, a call that was made goes on: the tree runs
synchronously in the server's thread, and nothing it calls blocks; `Payload` has
`WF_vars(Steps)` for the same reason. There is none on `Calls`: clients owe nothing. `Protocol` has weak fairness of the server's thread and
of each client that is in an exchange; a thread that can go on does. Nothing is
assumed of users, of signals, nor of processes being killed. Safety runs of the pool,
the storage manager, the leaf pages and the database need none.

*Deadlock* is checked everywhere but in the runs of the pool, where the callers
may hold all the pointers the bound allows, and in `protocol`, where the server may
have ended and a client may sit at its prompt for ever.

## 4. What is proved

For every number of frames, pages, contents, pointers and failures, of keys and
capacities, of tuples and sizes in leaf pages, of payloads, pages and reads of any length, of clients, requests and sizes, for
files of any length:

| theorem | module |
|---|---|
| `TypeCorrect`: `Spec => []TypeOK` | `BufferPoolProofs` |
| `PinningIsSafe`: `Spec => []PinSafety` | `BufferPoolProofs` |
| `NoUpdateForgotten`: `Spec => []CleanMatchesDisk` | `BufferPoolProofs` |
| `FramesReclaimable`: `Spec => []Reclaimable` | `BufferPoolProofs` |
| `RequestsAreServed`: `Spec => ServedWhileRoom` | `BufferPoolProofs` |
| `ImplementsStore`: `Spec => StoreSpec` | `BufferPoolProofs` |
| `QueueIsSound`: `Spec => []QueueSound` | `BufferPoolProofs` |
| `TypeCorrect`: `Spec => []TypeOK` | `StorageManagerProofs` |
| `PagesAreFresh`: `Spec => FreshPages` | `StorageManagerProofs` |
| `DatabaseIsKept`: `Spec => DatabaseKept` | `StorageManagerProofs` |
| `TypeCorrect`: `Spec => []TypeOK` | `DatabaseProofs` |
| `TreeIsFound`: `Spec => []TreeFound` | `DatabaseProofs` |
| `OnlyTornFails`: `Spec => []StartsUnlessTorn` | `DatabaseProofs` |
| `RootKept`: `Spec => []RootIsKept` | `DatabaseProofs` |
| `StaysATree`: `Spec /\ []RoomToGrow => []IsTree` | `BTreeShape` |
| `KeysHaveRoom`: `Spec /\ []RoomToGrow => []KeysFit` | `BTreeShape` |
| `Occupancy`: `Spec /\ []RoomToGrow => []InternalOccupied` | `BTreeShape` |
| `Order`: `Spec /\ []RoomToGrow => [](BInv /\ OInv)` | `BTreeProofs` |
| `LeavesHaveRoom`: `Spec /\ []RoomToGrow => []TuplesFit` | `BTreeProofs` |
| `ChainStays`: `Spec /\ []RoomToGrow => []ChainInOrder` | `BTreeProofs` |
| `Searches`: `Spec /\ []RoomToGrow => []SearchTree` | `BTreeProofs` |
| `PinsAreReleased`: `Spec /\ []RoomToGrow => []PinsMatchUse` | `BTreeProofs` |
| `ChangesAreSafe`: `Spec /\ []RoomToGrow => []ModifiedArePinned` | `BTreeProofs` |
| `Types`: `Spec /\ []RoomToGrow => []TypeOK` | `BTreeProofs` |
| `IsADictionary`: `Spec /\ []RoomToGrow => ImplementsDictionary` | `BTreeProofs` |
| `Invariant`: `Spec => []IInv` | `LeafPageProofs` |
| `PagesAreAccounted`: `Spec => []Accounting` | `LeafPageProofs` |
| `StoredKeysAreWhole`: `Spec => []KeysAreWhole` | `LeafPageProofs` |
| `BinarySearchesAgree`: `Spec => []SearchesAgree` | `LeafPageProofs` |
| `SearchFindsStored`: `Spec => []SearchFinds` | `LeafPageProofs` |
| `MergesAlwaysFit`: `Spec => []MergesFit` | `LeafPageProofs` |
| `TuplesAreKept`: `Spec => ContentsKept` | `LeafPageProofs` |
| `StreamsReadBack`: `Spec /\ []Room => []ReadsBack` | `PayloadProofs` |
| `OnePageIsPinned`: `Spec /\ []Room => []OnePinned` | `PayloadProofs` |
| `TypeCorrect`: `Spec => []TypeOK` | `ProtocolProofs` |
| `KeepInStep`: `Spec => []InStep` | `ProtocolProofs` |
| `ExecutedAsWholes`: `Spec => WholeRequests` | `ProtocolProofs` |
| `CallsAreImplemented`: `Spec => ImplementsCalls` | `ProtocolProofs` |
| `OthersAreAnswered`: `Spec => []LeftWaiting` | `ProtocolProofs` |
| `SignalHeeded`: `Spec => []OneLateCall` | `ProtocolProofs` |

All results about the pool but `TypeCorrect` and `QueueIsSound` assume `Capacity`:
`PinLimit + MaxFaults` is at most the number of frames. It cannot be dropped: see what section 5
says of `bufferpool.cpp:68`.

*The pool's invariant.* None of the properties is inductive. `IInv` adds: the page
table and the frames' pages are inverse to each other (`TableOK`); the queue holds
each frame once, only frames with a page and with `is_in_queue` set, and none that
is lost or being evicted (`QueueOK`); a frame is in the place its state calls for
(`PlaceOK`); the call under way has its frame to itself (`CallOK`); a page that is
being modified is cached and pinned, one that was not handed out is zero and not
cached (`SavedOK`); failures took at most `MaxFaults` frames (`LostOK`). The heart of the argument is `SweepOK`. During a sweep,
whatever the hand put back behind the frames it has not seen yet is unpinned and
has its reference bit cleared; so it goes round at most once before the frame at
the head is a victim, half of what the loop allows. And the queue is not empty: an
unpinned frame is in it, because fewer than `PinLimit` frames are pinned, at most
`MaxFaults` are lost and none is free (`SomeFrameLeft`, a counting argument on finite
sets). So the loop never runs dry (`NeverExhausted`), the victim is always
unpinned, and the remaining parts follow action by action (`HitIInv`, `MissIInv`, `HandIInv`, `FailIInv`,
`EvictIInv`, `LoadIInv`, `ReleaseIInv`, `WriteIInv`, `RestartIInv`).

*The queue without* `Capacity`. Once a pinned frame can be evicted, pointers and pin
counts mean nothing, and most of `IInv` is gone. The queue depends on neither. `QInv`
keeps what it does depend on: the page table leads to frames that hold the page, free
frames hold none, a frame in the queue is there once, with its flag and a page, and is
not the one a call works on. The case that matters is a loop that ends without a
victim (`ExhaustedQInv`): `index` then names a frame that was popped, and must not
be in the queue again. `HandKept` gives it: a queue that is not empty leads to a victim
within half of `max_iters`, so a loop that ends has emptied it.

*The refinement.* A page's content is that of its frame, or of the file when it is
not cached. Hits and loads are `Acquire`, writing back a victim is `Persist`, the
sweep and failures stutter; `CleanMatchesDisk` makes dropping a clean victim a
stutter too. One lemma per action (`HitRefines`, `EvictRefines`, ...).

*The storage manager's invariant.* `SInv` says of histories without a failure where
`size`, `next`, the member and `issued` stand at each point of a bootstrap or an
allocation: page 0 is written before a page is handed out, so the stored index is
ahead of every page handed out, whenever the process is killed.

*The engine's invariant.* Every step of `Database` is one of `StorageManager` without failures, or
leaves it alone (`StorageStep`), so `SInv` comes for free (`StorageKept`). `Engine` adds the rest.
`Stages` and `Formatted` say where the storage manager stands in each stage of the process, and how
far the file was formatted; `Roots` that neither copy of the meta page names a page that was not
handed out. `Outline` is written like the annotations of a program: for each list of calls that may
still be to come (`Opening`, `Splitting`, `Growing`, `Shrinking`), which pages are held, what the
meta page says, and which root the tree has. That the meta page is held from the first look at
it until the first tree is complete is what keeps its write-back from being seen too early.
`Found` says which copy of the pages has the tree: the file while no process serves, memory
while one does. There is a lemma for each action, and one for each list of calls
(`OpeningCall`, `SplittingCall`, `GrowingCall`, `ShrinkingCall`). The only assumption is
`DatabaseAssumption`, that the file has room for a page behind the two meta pages.

*The shape of the tree.* The theorems about the tree have two premises.
`Residues = {0}`: what `CheckUnderflow` starts to count from is zero; without it they are
false (`btree_residue`). `RoomToGrow`: there is an identifier left for a new page. The code
has 2^64 of them; `PageIDs` may be any finite set, and a tree that has used it up is
not a state of the code. The runs never meet one: TLC reports an error where
`NewPage` finds no page.

`BInv` consists of what the pages look like (`Pages`), where the recursion stands
(`Control`), and the tree (`Structure`), which three functions witness: the height `h` of
each page above the leaves, and the parent `up[p]` it hangs from as the `place[p]`-th
child. Parent and place are functions of the page, so no page hangs in two places;
heights fall by one from parent to child and are 0 exactly at leaves, so there is no
cycle and all leaves are equally deep. Between two levels of a recursion the tree is not
whole, and the invariant says in which ways it is not: `Way` that the frames have the way
from the root to the page whose call returns; `Orphan` that the page a split made hangs
nowhere yet and is as high as the one it was split from; `Occupied` that only children,
and the one page whose underflow was just reported (`Lacking`), are the only ones
with too few keys. `Occupied` is what makes a merge fit: the page that lacks keys has at most `M`,
a sibling that cannot lend one has at most `M + 1`, and `2M + 2` is the capacity. It also is why
loans are possible: `CanLend` is asked about pages with more than `M` keys, so its unsigned
subtraction does not wrap.

Each action gets a lemma that says which witnesses the step needs. For a split they are
the old ones, with the children that moved hung from the new page; for a merge the
same the other way, for a loan one child moves. Leaves enter only by their number: which
tuples they have is left open here.

*The order of the tree.* `OInv` says which keys each page is for. Two more functions witness
it. `R[p]` is the range of page `p`, a set of integers without gaps. A leaf has its tuples in
order and within its range; the keys of an internal page divide its range among its children
(`Node`); the root's range is everything; and `right_pid` leads from each leaf to the one
whose range begins where its own ends (`Chained`). While a page that was split off is not known to
its parent, the parent takes the two halves for one: `Q[p]` is what the parent of `p` believes,
the union of both ranges at the split page and `R` everywhere else (`Cleft`). `Aimed` says of
the call that the leaf it is going to, and the one it will write to, is for its key; and that
`Insert` does not have its key in any leaf. The last comes from the chain: `Call` looks along
it, and by induction on the place in the chain it reaches every leaf.

A split gives the new page the upper part of a range, a merge the union of two, a loan moves
the boundary between two neighbours; each of these is a lemma on `Node` alone (`NodeInsert`,
`NodeCut`, `NodeJoin`, `NodeRemove`, `NodeSet`) and one on `Chained` (`ChainSplit`, `ChainMerge`,
`ChainShift`), and the steps of the tree cite one of each. What happens within a leaf is a third
group. `WriteChunkLeaf` keeps a leaf in order and cuts a tuple only where there is no room for
it (`HeldWrite`); copying the tuples of a neighbour one by one appends them, uncut, if there is
room for all (`WriteAllBehind`, `WriteAllInFront`), and the arithmetic of loans and
merges says there is (`LendFirst`, `LendLast`, `TuplesFit`). `Space` is a fold: a recursive
function is what its body says if there is any function that is (`Recursion`), one is built by
induction, and from then on `Space` is a sum that can be split at any place (`SpaceJoin`).
In the same way `Chain`, `BottomLevel`, `Found` and the depths in `EquallyDeep` are tied to `h`
and `R`: walks in the tree end because heights fall, walks along the chain because ranges rise.
So the chain is the bottom of the tree (`ChainStays`), and a search, which goes to the child whose
part of the range has its key, ends in the only leaf that may have it (`Searches`).

*Pins.* `PInv` says which pages the frames of the recursion and the coming insertion use, and that
what was changed is among them; each step requests and releases what makes up the difference
(`BInv` says that the pages involved differ, `OInv` that `right_pid` of the leaf that a merge
drops is neither of the two). `TypeOK` needs all three: it also says that nothing in the tree
refers to a page that was dropped.

*The dictionary.* The contents of `Dictionary` are read off the chain of leaves, which every
split, loan and merge changes. The proof takes a detour: `Stock` is the set of all tuples that
lie in any leaf, and `Shelf`, which follows from `BInv` and `OInv`, says that what the chain is
read as has the keys and sizes of exactly these tuples. So steps that keep `Stock` keep the
contents (`SameStock`), and whether they do can be seen at the pages they change, without the chain: those
that only change internal pages do (`StockStays`), and so do those that cut the tuples of two leaves, put
one behind the other, at another place (`TogetherStock`): a split, a loan and a merge are
that. Only `WriteTuple` adds one tuple, whose key was not there (`MoreStock`), and `DeleteLeaf`
drops those with its key (`LessStock`). `Suits` says which kind of request each program counter goes with; with it
each step is one of `Dictionary`, or, if it is `Hidden`, a stutter (`StepImplements`). `SearchLeaf` has the
right answer because of `Aimed`: no other leaf may have the key.

*Leaf pages.* `IInv` says that no merge has thrown, and that the tree is whole: one page that is
a `Leaf`, or two with a boundary that no key on the left exceeds and none on the
right falls below (`TwoLeaves`). They may both have the boundary itself, as keys are inserted twice; that is the
exception in `SearchFinds`. A `Leaf` has its live tuples in order (`Sorted`) and its bytes in order
(`PageOK`): they add up, the slots end below the tuples, each live length is between the
least and the most that is ever stored of a tuple, and for each slot of a deleted tuple at least
`TUPLE_MIN` bytes are counted as garbage. That last part is what the properties do not say and the
steps need: a slot of a deleted tuple counts as used, but the bytes it once led to are there to
be had, so a page has few such slots, and they alone are at most an underflow. Therefore a page
that has no room for a tuple holds enough live ones to be split, and a lender that refuses has
little enough for one page (`RefusalsFit`), although slots of deleted tuples count on both sides.

Each loop of the code gets one lemma that says what it computes. `BisectIs`: the binary search, a
recursive function, exists (`Recursion`) and finds the first live slot that is not to be skipped; the
induction is on how far its bounds are apart. `WriteIs`: a write leaves a `Leaf`, with one tuple more, wherever it
lands: in a slot of a deleted tuple, between two slots, or in a compacted page. `ReceivesAll`:
so do several writes, if there is room for all, and then none is cut. `LendsIs`, `BorrowLeft` and `BorrowRight`
say which tuples are lent and that the lender keeps more than an underflow, `MergeIs` that two pages become one,
`SplitIs` that there are tuples on both sides of the slot where the new page starts, and room
in both halves. The folds behind these (bytes, live slots, tallies by key) are sums that
grow with each slot (`BytesSteps`, `LiveSteps`, `TallySteps`). `ContentsKept` counts: `Number` and `Volume` are
how many tuples of a key a row of slots has and how long they are together, neither of which
changes by compaction, by cutting a row in two or by moving tuples from one row to the other.
The only assumption is `LeafPageAssumption`, which speaks of constants alone.

*Payloads.* What a stream will deliver depends on what the chain in front of it holds, so
`ReadsBack` is not inductive. `PInv` says of every header, that of a tuple and that of an
overflow page, that it leads to the page with the very next byte of its payload, or that
none is left. The one exception is the header that `Insert` is about to link: it leads
nowhere yet, and the buffer has the bytes behind it (`Awaits`). A byte names its
payload and its place in it, so the first byte of an overflow page identifies the chain
it belongs to, and two chains that shared a page would contradict each other; no
ghost is needed. Chunks never change once they are linked, and a tuple that moves to
another leaf takes its header along, so a stream may stop anywhere and go on later. Of the
stream, `Reader` says that it has sent the bytes in front of its place; only at the
end of the payload may the place be left behind. The premise `Room` is to `Payload` what
`RoomToGrow` is to the tree: while something is left to be written, a page is free.

*The streams.* `StreamInv` says of each client what is on its way. Upwards, the part of
the server's buffer that belongs to it, the stream and what the client has still to
write are, in a row, consecutive units of the client's last request from the first on,
all of them while the client is there (`Upward`); when the request was executed and the
reply is complete, they are empty. Downwards, what the client has read, the stream and
what the server has still to write are consecutive units of one reply to the last
request, from its first unit on, or from behind its header once that was checked
(`Downward`). `Calls` says how far the exchange has come, and `Connections` that buffers
belong to the connection being served, and that none is accepted twice. Reading and
writing move units from one of three sequences to the next, which `Carry` does not
notice; that is proved once (`FirstRest`, `SpanMoves`, `SecondMoves`, `ThirdMoves`), and
used by every action that moves some (`ReadKeeps`, `WriteKeeps`, `SendKeeps`,
`ReceiveKeeps`, ...). `InStep` and `WholeRequests` follow from the state alone, `TypeOK`
with the sizes of the streams, and the refinement step by step (`StepRefines`).
`LeftWaiting` has an invariant of its own (`LeftInv`): a client whose connection was
left, and that is still waiting, sent one of the two requests nobody answers, or the server
was told to stop. The proofs take one assumption that is not about a constant alone:
`QueriesAssumption`, that a query is a command and a number. What `ParseQuery` computes
is a fold over characters, which no proof looks into; TLC evaluates it.

Only model-checked: `SentAsTyped` (what the parser finds in a line is a fold over its characters, compared with a grammar); and
liveness (`CallsReturn`, `StreamsEnd`, `SignalledStops`, `Answered`), which is out of the
provers' reach. So is induction over an operator as the library states it; where
a proof is by induction, it is on a set of numbers that is shown to be all of them (`Induction`).

## 5. Where the code and its documents disagree

Each of these is a run whose one property TLC finds violated.

- `storage_fault` (`PageIDsUnique`, `storageManager.cpp:169`). A failed write of page 0
  goes unnoticed, the page is handed out, and again by the next process.
  Architecture.md:352 promises that a `PageID` is unique.
- `btree_delete` (`DeletedIsReported`, `b-tree.cpp:556`). A merge of the root's last
  two internal children leaves the root with a single one (the code that would
  make that child the root is commented out). Later deletes whose rebalancing
  gets there have no sibling to turn to, fall through, and return `false` although the
  key is gone. `tests/b-tree.cpp:272` requires `true` for every stored key.
- `btree_residue` (`NoMergeOverflows`, `internal_page.cpp:214`). `CheckUnderflow` adds to
  a reference argument that its callers leave uninitialised. In all other runs it
  starts at 0 (`Residues = {0}`); if it may be anything, a full page can be taken for an
  underflown one, and merged with one that has no room for it.

Met while modelling, and not the subject of a run:

- `AllPagesPinned` is reported only if the clock queue was empty from the start
  (`bufferpool.cpp:68`). If every frame in it has been pinned again, the loop ends with
  `index` at the last of them, which is evicted and reused under its holders. The model has
  this step (`SweepExhausted`; it happens in `pool_over`, whose property holds all the same).
  Architecture.md:299 says that pinned pages cannot be selected.
- When a leaf is split, its right neighbour keeps the old `left_pid` (`leaf_page.cpp:106`);
  merges do update it. Architecture.md:127 calls the leaves doubly linked. Nothing reads
  `left_pid` today, and no property of a run does.
- The root that `Delete` drops after merging the last two leaves was changed and is
  released as clean (`b-tree.cpp:334-341`, `378-386`). This breaks the rule that
  `ModifiedArePinned` states, for a page that is never requested again; the
  property speaks of pages of the tree.
- `server.cpp:253-255` announces on `quit` that it closes the connection gracefully, and
  nothing closes it: `HandleClient` returns, and the next accept overwrites the
  descriptor. The client waits for a reply that never comes, until it is
  interrupted. An insert that is too long ends the same way. `LeftWaiting` states that
  these are the only two requests this happens to.
- As no connection is closed, the server runs out of descriptors; accept then fails, and
  nobody catches what `RunServer` throws (`AcceptFails`): the destructors, which write
  the dirty pages, do not run.
- At the end of its input the prompt clears the stream and reads again, for ever
  (`cli.cpp:38`, `EndOfInput`).
- A key that was inserted twice may become invisible to searches when its tuples lie on both
  sides of a boundary (`SearchFinds`). No document says what a second insert should do.
- A process that is killed between the two writes of formatting leaves a file with the magic
  number and without page 1. `IsDatabaseFile` takes it for a database, `BTree::BTree` throws,
  and so does every later start (`StartsUnlessTorn`).
- Overflow pages are never given back: `DeleteTuple` marks the slot, and nobody follows the
  chain. Neither are pages that drop out of the tree.
- Architecture.md:330 calls the storage manager stateless; it caches the index of
  the next page, which is what makes `storage_fault` possible.
- The pool and the tree pass on a null page when the storage manager or the
  pool reports an error in `AllocateNewPage`.

## 6. What is not modelled

- A crash in the middle of a tree operation, as far as the tree is concerned: `Database` has
  the kill, and what it leaves of the meta pages, but not which of the tree's pages were
  written back. A torn tree is possible and expected: write-ahead logging and
  recovery are future work in `src/README.md:123-128`, as are threads.
- A tree that goes on with the null page it gets when the pool or the storage manager
  reports an error: in `BufferPool` callers stop at an error, and in `Database` there are none.
- A second insert of a stored key in trees of more than two leaves: `BTree` inserts keys
  that are not stored, `LeafPage` any.
- How magic numbers and checksums are computed, and clients or servers that do not
  speak the protocol. A header is good or it is not.
- The bound of 100 writes of length 0 in a row in `WriteExactlyNBytes`: a write of one
  byte or more to a blocking socket does not return 0. `ReadExactlyNBytes` of the server,
  which nobody calls.
- `ReadPage`, `DumpPage` and the printing of replies change nothing; `fsync` in a
  destructor; logging.

## 7. Plan

Done: the buffer pool, with the clock queue also beyond `Capacity`, and the storage manager,
with their proofs; the B+ tree, and the proofs of its shape, its order, its searches and its
pins, and that it is a dictionary; the leaf pages, overflow pages and streams (`Payload`), with their proofs;
the engine from start to start, killed at any point (`Database`), with its proofs; server,
clients and parser, with the proofs of their protocol.

Every safety property that a run checks is proved but for `SentAsTyped`, which would need an
induction over the characters of a line, and those of section 5, which are false. What could come next is not a proof
but more of the code: the tree as a process leaves it that is killed in the middle of a call,
once the code has a log to recover it with, and two threads, once it has any.
