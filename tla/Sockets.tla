------------------------------- MODULE Sockets -------------------------------
(***************************************************************************)
(* What the server and its clients use of TCP: every client process makes  *)
(* one connection, which waits in the backlog until it is accepted, and    *)
(* carries a stream of bytes each way.  What was written arrives in order  *)
(* and unchanged, cut into pieces anywhere; an end that is closed is seen  *)
(* by the other after it has read what was written before.                 *)
(*                                                                         *)
(* A stream is a sequence of units of some bytes.  A unit is known by the  *)
(* message it is part of and its place there: `of' and `at'.               *)
(***************************************************************************)
EXTENDS Naturals, Sequences

CONSTANTS
  Clients,        \* the client processes
  BACKLOG,        \* connections that can wait: the argument of listen
  SOCKET_BUFFER,  \* bound: units a stream holds before a write blocks
  HEADER, KEY     \* units of a RequestHeader, of a ResponseHeader; of a Key

ASSUME SocketsAssumption == /\ BACKLOG \in Nat \ {0}
                            /\ SOCKET_BUFFER \in Nat \ {0}
                            /\ HEADER \in Nat \ {0} /\ KEY \in Nat

VARIABLES
  listening,  \* the server's listening socket is open
  backlog,    \* connections not yet accepted, in order
  serverEnd,  \* connections whose server end is open
  clientEnd,  \* connections whose client end is open
  toServer, toClient  \* the streams of each connection

sockets == <<listening, backlog, serverEnd, clientEnd, toServer, toClient>>

SocketsInit == /\ listening = TRUE /\ backlog = <<>>
               /\ serverEnd = {} /\ clientEnd = {}
               /\ toServer = [c \in Clients |-> <<>>]
               /\ toClient = [c \in Clients |-> <<>>]

\* The units of a message.
Units(m) == [n \in 1..m.length |-> [of |-> m, at |-> n]]

First(s, n) == SubSeq(s, 1, n)
Rest(s, n) == SubSeq(s, n + 1, Len(s))
AtMost(a, b) == IF a < b THEN a ELSE b

\* How many units of those at hand the next write may take.
Pieces(units, stream) == 1..AtMost(Len(units), SOCKET_BUFFER - Len(stream))

\* The server process ends: its sockets are closed, what they held is lost.
ServerGone == /\ listening' = FALSE /\ serverEnd' = {} /\ backlog' = <<>>
              /\ toServer' = [c \in Clients |-> <<>>]
              /\ UNCHANGED <<clientEnd, toClient>>

\* A client process ends.
ClientGone(c) == /\ clientEnd' = clientEnd \ {c}
                 /\ toClient' = [toClient EXCEPT ![c] = <<>>]
                 /\ UNCHANGED <<listening, backlog, serverEnd, toServer>>
=============================================================================
