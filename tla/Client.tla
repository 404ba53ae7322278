-------------------------------- MODULE Client --------------------------------
(***************************************************************************)
(* The client processes (client/src/impl/client.cpp, cli.cpp, main.cpp):   *)
(* each connects, and sends what its user types as one request after the   *)
(* other, waiting for the reply before it looks at the next line.          *)
(*                                                                         *)
(* A line that is no query is answered at the prompt, and left out.  A     *)
(* signal ends a client that is waiting in a system call; if it is not, it *)
(* only clears client_running, and the client ends after the exchange.     *)
(***************************************************************************)
EXTENDS Sockets, Parser

CONSTANTS
  Lines,       \* Lines[c] is what the user of client c may type
  MaxRequests  \* bound: MaxRequests[c] requests of client c

VARIABLES
  cpc,             \* where each client is
  client_running,  \* clients that were not told to stop
  number,          \* requests so far
  request,         \* the last one
  out,             \* units of it still to be written
  inbox,           \* units of the part of the reply that is being read
  response,        \* the header of the reply
  returned         \* history: exchanges that came to their end

exchange == <<number, request, out, inbox, response, returned>>
clients == <<cpc, client_running, exchange>>

NoRequest == [number |-> 0, command |-> "Invalid", length |-> 0]
NoResponse == [to |-> NoRequest, status |-> 0, length |-> HEADER]

ClientsInit == /\ cpc = [c \in Clients |-> "new"]
               /\ client_running = Clients
               /\ number = [c \in Clients |-> 0]
               /\ request = [c \in Clients |-> NoRequest]
               /\ out = [c \in Clients |-> <<>>]
               /\ inbox = [c \in Clients |-> <<>>]
               /\ response = [c \in Clients |-> NoResponse]
               /\ returned = [c \in Clients |-> 0]

ClientGoes(c, from, to) == cpc[c] = from /\ cpc' = [cpc EXCEPT ![c] = to]

\* The process of c ends.
Exits(c) == /\ cpc' = [cpc EXCEPT ![c] = "gone"]
            /\ client_running' = client_running \ {c}
            /\ out' = [out EXCEPT ![c] = <<>>]
            /\ inbox' = [inbox EXCEPT ![c] = <<>>]
            /\ response' = [response EXCEPT ![c] = NoResponse]
            /\ ClientGone(c)
            /\ UNCHANGED <<number, request>>
Fails(c) == Exits(c) /\ UNCHANGED returned

-----------------------------------------------------------------------------
\* Client::Client.

Connect(c) == /\ ClientGoes(c, "new", "prompt")
              /\ listening
              /\ Len(backlog) < BACKLOG
              /\ backlog' = Append(backlog, c)
              /\ serverEnd' = serverEnd \cup {c}
              /\ clientEnd' = clientEnd \cup {c}
              /\ UNCHANGED <<listening, toServer, toClient, client_running, exchange>>

Refused(c) == cpc[c] = "new" /\ ~listening /\ Fails(c)

-----------------------------------------------------------------------------
\* UseCLI.

PayloadUnits(payload) == FoldLeft(LAMBDA sum, s : sum + Len(s), 0, payload)

\* Slip: the prompt does not look at query.valid.
Queries_Unchecked == [c \in Clients |-> {<<q.command, PayloadUnits(q.payload)>> :
                                           q \in {ParseQuery(line) : line \in Lines[c]}}]

\* The queries among what a user may type.
Queries == [c \in Clients |-> {<<q.command, PayloadUnits(q.payload)>> :
                                 q \in {r \in {ParseQuery(line) : line \in Lines[c]} : r.valid}}]

Command == {"Invalid", "Search", "Insert", "Delete", "Quit"}

\* A query is a command and a number of characters.
ASSUME QueriesAssumption == \A c \in Clients : Queries[c] \subseteq Command \X Nat

Type(c, command, units) ==
  LET m == [number |-> number[c] + 1, command |-> command,
            length |-> HEADER + KEY + units]
  IN
  /\ ClientGoes(c, "prompt", "write")
  /\ number[c] < MaxRequests[c]
  /\ number' = [number EXCEPT ![c] = @ + 1]
  /\ request' = [request EXCEPT ![c] = m]
  /\ out' = [out EXCEPT ![c] = Units(m)]
  /\ UNCHANGED <<sockets, client_running, inbox, response, returned>>

\* At the end of its input the loop goes round and round, until it is told to stop.
EndOfInput(c) == /\ ClientGoes(c, "prompt", "end of input")
                 /\ UNCHANGED <<sockets, client_running, exchange>>

\* SendCommandAndFetchReply returns, and the loop of UseCLI tests its flag.
Prompts(c) == /\ cpc' = [cpc EXCEPT ![c] = "prompt"]
              /\ inbox' = [inbox EXCEPT ![c] = <<>>]
              /\ response' = [response EXCEPT ![c] = NoResponse]
              /\ UNCHANGED <<sockets, client_running, number, request, out>>
Returns(c) == /\ returned' = [returned EXCEPT ![c] = @ + 1]
              /\ IF c \in client_running THEN Prompts(c) ELSE Exits(c)

-----------------------------------------------------------------------------
\* SendCommandAndFetchReply.

\* Slip: a write that took a part is taken for the whole.
Send_Once(c) ==
  /\ cpc[c] = "write"
  /\ c \in serverEnd
  /\ \E n \in Pieces(out[c], toServer[c]) :
       /\ toServer' = [toServer EXCEPT ![c] = @ \o First(out[c], n)]
       /\ out' = [out EXCEPT ![c] = Rest(out[c], n)]
  /\ cpc' = [cpc EXCEPT ![c] = "header"]
  /\ UNCHANGED <<listening, backlog, serverEnd, clientEnd, toClient,
                 client_running, number, request, inbox, response, returned>>

\* WriteExactlyNBytes.
Send(c) ==
  /\ cpc[c] = "write"
  /\ c \in serverEnd
  /\ \E n \in Pieces(out[c], toServer[c]) :
       /\ toServer' = [toServer EXCEPT ![c] = @ \o First(out[c], n)]
       /\ out' = [out EXCEPT ![c] = Rest(out[c], n)]
  /\ cpc' = [cpc EXCEPT ![c] = IF out'[c] = <<>> THEN "header" ELSE "write"]
  /\ UNCHANGED <<listening, backlog, serverEnd, clientEnd, toClient,
                 client_running, number, request, inbox, response, returned>>

\* The server is gone: the exception ends UseCLI.
SendFails(c) == cpc[c] = "write" /\ c \notin serverEnd /\ Fails(c)

Wanted(c) == CASE cpc[c] = "header" -> HEADER
               [] cpc[c] = "payload" -> response[c].length - HEADER
               [] OTHER -> 0

\* ReadExactlyNBytes.
Receive(c) ==
  LET n == AtMost(Wanted(c) - Len(inbox[c]), Len(toClient[c])) IN
  /\ n > 0
  /\ inbox' = [inbox EXCEPT ![c] = @ \o First(toClient[c], n)]
  /\ toClient' = [toClient EXCEPT ![c] = Rest(@, n)]
  /\ UNCHANGED <<listening, backlog, serverEnd, clientEnd, toServer, cpc, client_running,
                 number, request, out, response, returned>>

ReceiveFails(c) == /\ cpc[c] \in {"header", "payload"}
                   /\ Len(inbox[c]) < Wanted(c)
                   /\ toClient[c] = <<>>
                   /\ c \notin serverEnd
                   /\ Fails(c)

\* The magic number, the checksum and the echo of the command.
ResponseGood(c) == /\ Head(inbox[c]).at = 1
                   /\ Head(inbox[c]).of.to.command = request[c].command

HeaderRead(c) == /\ cpc[c] = "header"
                 /\ Len(inbox[c]) = HEADER

\* Behind a header that is refused, the rest of the reply stays in the stream.
CheckHeader(c) ==
  /\ HeaderRead(c)
  /\ IF ResponseGood(c)
     THEN /\ response' = [response EXCEPT ![c] = Head(inbox[c]).of]
          /\ inbox' = [inbox EXCEPT ![c] = <<>>]
          /\ cpc' = [cpc EXCEPT ![c] = "payload"]
          /\ UNCHANGED <<sockets, client_running, number, request, out, returned>>
     ELSE Returns(c)

ReplyComplete(c) == cpc[c] = "payload" /\ Len(inbox[c]) = Wanted(c)

FetchReply(c) == ReplyComplete(c) /\ Returns(c)

-----------------------------------------------------------------------------
\* SIGINT or SIGTERM outside of a system call, and a process that ends: killed, or
\* interrupted in one.

SignalClient(c) == /\ cpc[c] \in {"prompt", "write", "header", "payload"}
                   /\ client_running' = client_running \ {c}
                   /\ UNCHANGED <<sockets, cpc, exchange>>

Die(c) == cpc[c] \notin {"new", "gone"} /\ Fails(c)

UserStep(c) == \/ Connect(c) \/ Refused(c)
               \/ (\E q \in Queries[c] : Type(c, q[1], q[2])) \/ EndOfInput(c)
               \/ SignalClient(c) \/ Die(c)

\* An exchange that was begun goes on by itself.
ExchangeStep(c) == \/ Send(c) \/ SendFails(c) \/ Receive(c) \/ ReceiveFails(c)
                   \/ CheckHeader(c) \/ FetchReply(c)
=============================================================================
