-------------------------------- MODULE Server --------------------------------
(***************************************************************************)
(* The server process (database/src/impl/server/server.cpp, main.cpp): one *)
(* thread that accepts a connection, answers the requests on it until it   *)
(* ends, and accepts the next.                                             *)
(*                                                                         *)
(* The tree behind it (module BTree) is taken as it answers: an insert     *)
(* succeeds, a delete finds its key or not, a search finds some tuple that *)
(* was inserted, or none.                                                  *)
(*                                                                         *)
(* Blocking system calls are steps of their own.  A signal interrupts one  *)
(* only when the server is waiting in it; after the test of server_running *)
(* and before the call, it goes unnoticed.                                 *)
(***************************************************************************)
EXTENDS Sockets, FiniteSets

CONSTANTS
  NoClient,
  READ_SIZE,   \* units of HandleClient's buffer
  MAX_INSERT,  \* total_length of the longest insert that is accepted
  FD_LIMIT     \* connections the process has descriptors for

ASSUME ServerAssumption == /\ NoClient \notin Clients
                           /\ READ_SIZE \in Nat \ {0}
                           /\ MAX_INSERT \in Nat /\ FD_LIMIT \in Nat

VARIABLES
  server_running,
  pc,             \* where the thread is
  newsockfd,      \* the connection last accepted
  accepted,       \* connections accepted so far: none of them is ever closed
  stream_buffer,  \* units read and not yet handled
  reply,          \* units of the reply still to be written
  tuples,         \* sizes of the tuples that were inserted
  executed,       \* history: requests of a client that were executed
  late            \* history: accepts and reads that returned after the signal

control == <<server_running, pc, newsockfd, accepted>>
buffers == <<stream_buffer, reply>>
server == <<control, buffers, tuples, executed, late>>

ServerInit == /\ server_running = TRUE /\ pc = "run"
              /\ newsockfd = NoClient /\ accepted = {}
              /\ stream_buffer = <<>> /\ reply = <<>>
              /\ tuples = {}
              /\ executed = [c \in Clients |-> 0] /\ late = 0

Late == late' = IF server_running THEN late ELSE late + 1

-----------------------------------------------------------------------------
\* RunServer.

RunServer == /\ pc = "run"
             /\ server_running
             /\ pc' = "accept"
             /\ UNCHANGED <<sockets, server_running, newsockfd, accepted,
                            buffers, tuples, executed, late>>

\* main returns, and the process ends.
Stop == /\ pc = "run"
        /\ ~server_running
        /\ pc' = "stopped"
        /\ ServerGone
        /\ UNCHANGED <<server_running, newsockfd, accepted, buffers, tuples, executed, late>>

Accept == /\ pc = "accept"
          /\ backlog # <<>>
          /\ Cardinality(accepted) < FD_LIMIT
          /\ newsockfd' = Head(backlog)
          /\ backlog' = Tail(backlog)
          /\ accepted' = accepted \cup {newsockfd'}
          /\ pc' = "loop"
          /\ Late
          /\ UNCHANGED <<listening, serverEnd, clientEnd, toServer, toClient,
                         server_running, buffers, tuples, executed>>

\* Without a descriptor accept fails, and nobody catches what RunServer throws.
AcceptFails == /\ pc = "accept"
               /\ Cardinality(accepted) >= FD_LIMIT
               /\ pc' = "terminated"
               /\ ServerGone
               /\ UNCHANGED <<server_running, newsockfd, accepted, buffers,
                              tuples, executed, late>>

-----------------------------------------------------------------------------
\* HandleClient.

Goto(place) == pc' = place /\ UNCHANGED <<server_running, newsockfd, accepted>>

\* Back to RunServer.  The buffers are gone, the connection stays open: the next
\* accept overwrites its descriptor.
Leave == Goto("run") /\ stream_buffer' = <<>> /\ reply' = <<>>
Continue(place) == Goto(place) /\ UNCHANGED buffers

\* Slip: the loop does not test server_running.
HandleClient_NoTest == /\ pc = "loop"
                       /\ Continue("read")
                       /\ UNCHANGED <<sockets, tuples, executed, late>>

HandleClient == /\ pc = "loop"
                /\ IF server_running THEN Continue("read") ELSE Leave
                /\ UNCHANGED <<sockets, tuples, executed, late>>

Read == LET stream == toServer[newsockfd]
            n == AtMost(READ_SIZE, Len(stream))
        IN
        /\ pc = "read"
        /\ stream # <<>>
        /\ stream_buffer' = stream_buffer \o First(stream, n)
        /\ toServer' = [toServer EXCEPT ![newsockfd] = Rest(stream, n)]
        /\ Goto("parse")
        /\ Late
        /\ UNCHANGED <<listening, backlog, serverEnd, clientEnd, toClient,
                       reply, tuples, executed>>

\* read returns 0, or ECONNRESET.
ReadEnd == /\ pc = "read"
           /\ toServer[newsockfd] = <<>>
           /\ newsockfd \notin clientEnd
           /\ Leave
           /\ UNCHANGED <<sockets, tuples, executed, late>>

\* What the bytes at the start of the buffer are taken for.
Request == Head(stream_buffer).of

HeaderComplete == Len(stream_buffer) >= HEADER
HeaderGood == Head(stream_buffer).at = 1

\* Slip: a request is handled as soon as its header and its key are there.
Complete_HeaderAndKey == HeaderComplete /\ Len(stream_buffer) >= HEADER + KEY

Complete == HeaderComplete /\ Len(stream_buffer) >= Request.length

\* Slip: a request of which a part is missing is dropped.
Unhandled_Drops == /\ pc = "parse"
                   /\ HeaderComplete => ~(HeaderGood /\ Complete)
                   /\ IF stream_buffer # <<>> THEN Leave ELSE Continue("loop")
                   /\ UNCHANGED <<sockets, tuples, executed, late>>

\* Slip: the inner loop is not left when a part of the request is missing.
Unhandled_Spins == /\ pc = "parse"
                   /\ HeaderComplete => ~(HeaderGood /\ Complete)
                   /\ IF HeaderComplete THEN Continue("parse") ELSE Continue("loop")
                   /\ UNCHANGED <<sockets, tuples, executed, late>>

\* The rest of the request, or of its header, is to be read first; but not behind a
\* header with a wrong magic number or checksum.
Unhandled == /\ pc = "parse"
             /\ HeaderComplete => ~(HeaderGood /\ Complete)
             /\ IF HeaderComplete /\ ~HeaderGood THEN Leave ELSE Continue("loop")
             /\ UNCHANGED <<sockets, tuples, executed, late>>

Handle(command) == /\ pc = "parse"
                   /\ HeaderComplete /\ HeaderGood /\ Complete
                   /\ Request.command = command

\* The tree was called: the reply is to be written.
Respond(status, size) ==
  /\ reply' = Units([to |-> Request, status |-> status, length |-> HEADER + size])
  /\ executed' = [executed EXCEPT ![newsockfd] = @ + 1]
  /\ Goto("write")
  /\ UNCHANGED <<sockets, stream_buffer, late>>

Found == 1
NotFound == 4

HandleSearch == /\ Handle("Search")
                /\ \/ \E size \in tuples : Respond(Found, size)
                   \/ Respond(NotFound, 0)
                /\ UNCHANGED tuples

\* The key and the payload are stored.
HandleInsert == /\ Handle("Insert")
                /\ Request.length <= MAX_INSERT
                /\ tuples' = tuples \cup {Request.length - HEADER}
                /\ Respond(Found, KEY)

HandleDelete == /\ Handle("Delete")
                /\ \E status \in {Found, NotFound} : Respond(status, KEY)
                /\ UNCHANGED tuples

\* The server turns to the next client.  The connection stays open.
HandleOversized == /\ Handle("Insert")
                   /\ Request.length > MAX_INSERT
                   /\ Leave
                   /\ UNCHANGED <<sockets, tuples, executed, late>>

HandleQuit == /\ Handle("Quit")
              /\ Leave
              /\ UNCHANGED <<sockets, tuples, executed, late>>

\* WriteExactlyNBytes.
Write == /\ pc = "write"
         /\ newsockfd \in clientEnd
         /\ \E n \in Pieces(reply, toClient[newsockfd]) :
              /\ toClient' = [toClient EXCEPT ![newsockfd] = @ \o First(reply, n)]
              /\ reply' = Rest(reply, n)
         /\ UNCHANGED <<listening, backlog, serverEnd, clientEnd, toServer, control,
                        stream_buffer, tuples, executed, late>>

\* Slip: the write is tried again.
WriteGone_Retries == /\ pc = "write"
                     /\ newsockfd \notin clientEnd
                     /\ reply # <<>>
                     /\ UNCHANGED <<sockets, server>>

\* The client is gone: the bytes go nowhere, or the write fails.
WriteGone == /\ pc = "write"
             /\ newsockfd \notin clientEnd
             /\ reply # <<>>
             /\ \/ reply' = <<>> /\ Goto("write") /\ UNCHANGED stream_buffer
                \/ Leave
             /\ UNCHANGED <<sockets, tuples, executed, late>>

\* Slip: the key of the request stays in the buffer.
Handled_KeepsKey == Rest(stream_buffer, HEADER)

\* Slip: the request stays in the buffer.
Handled_Nothing == stream_buffer

\* The buffer without the request at its start.
Handled == Rest(stream_buffer, Request.length)

Replied == /\ pc = "write"
           /\ reply = <<>>
           /\ stream_buffer' = Handled
           /\ Goto("parse")
           /\ UNCHANGED <<sockets, reply, tuples, executed, late>>

-----------------------------------------------------------------------------
\* SIGINT or SIGTERM.

Serving == pc \in {"loop", "read", "parse", "write"}
Ended == pc \in {"stopped", "terminated"}

AcceptBlocks == pc = "accept" /\ backlog = <<>>
ReadBlocks == pc = "read" /\ toServer[newsockfd] = <<>> /\ newsockfd \in clientEnd
WriteBlocks == /\ pc = "write" /\ reply # <<>> /\ newsockfd \in clientEnd
               /\ Len(toClient[newsockfd]) = SOCKET_BUFFER

\* The call that waits fails with EINTR, if the thread is in it yet: accept and read
\* go back to the test of their loop, a write is given up.
Signal == /\ ~Ended
          /\ server_running' = FALSE
          /\ \/ UNCHANGED <<pc, buffers>>
             \/ AcceptBlocks /\ pc' = "run" /\ UNCHANGED buffers
             \/ ReadBlocks /\ pc' = "loop" /\ UNCHANGED buffers
             \/ WriteBlocks /\ pc' = "run" /\ stream_buffer' = <<>> /\ reply' = <<>>
          /\ UNCHANGED <<sockets, newsockfd, accepted, tuples, executed, late>>

ServerStep == \/ RunServer \/ Stop \/ Accept \/ AcceptFails
              \/ HandleClient \/ Read \/ ReadEnd
              \/ Unhandled
              \/ HandleSearch \/ HandleInsert \/ HandleDelete
              \/ HandleOversized \/ HandleQuit
              \/ Write \/ WriteGone \/ Replied
=============================================================================
