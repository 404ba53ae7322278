------------------------------- MODULE Protocol -------------------------------
(***************************************************************************)
(* The server and its clients, talking through their sockets.              *)
(***************************************************************************)
EXTENDS Server, Client

vars == <<sockets, server, clients>>

Init == SocketsInit /\ ServerInit /\ ClientsInit

ServerNext == (ServerStep \/ Signal) /\ UNCHANGED clients
ClientNext(c) == (UserStep(c) \/ ExchangeStep(c)) /\ UNCHANGED server

Next == ServerNext \/ \E c \in Clients : ClientNext(c)

\* The server's thread runs, and so does a client in an exchange.  Nothing is
\* assumed of users: they need not type, nor leave.
Fairness == /\ WF_vars(ServerStep /\ UNCHANGED clients)
            /\ \A c \in Clients : WF_vars(ExchangeStep(c) /\ UNCHANGED server)

Spec == Init /\ [][Next]_vars /\ Fairness

-----------------------------------------------------------------------------
\* Properties.

InExchange(c) == cpc[c] \in {"write", "header", "payload"}
Served(c) == Serving /\ newsockfd = c
Abandoned(c) == c \in accepted /\ ~Served(c)

TypeOK ==
  /\ backlog \in Seq(Clients)
  /\ accepted \subseteq Clients /\ newsockfd \in accepted \cup {NoClient}
  /\ Serving => newsockfd \in accepted
  /\ server_running \in BOOLEAN
  /\ pc \in {"run", "accept", "loop", "read", "parse", "write", "stopped", "terminated"}
  /\ pc # "write" => reply = <<>>
  /\ listening <=> ~Ended
  /\ tuples \subseteq Nat
  /\ \A c \in Clients :
       /\ cpc[c] \in {"new", "prompt", "write", "header", "payload", "end of input", "gone"}
       /\ c \in clientEnd <=> cpc[c] \notin {"new", "gone"}
       /\ cpc[c] = "write" <=> (out[c] # <<>> /\ c \in clientEnd)
       /\ Len(toServer[c]) <= SOCKET_BUFFER /\ Len(toClient[c]) <= SOCKET_BUFFER

\* However the streams are cut, both sides keep step (HandleClient erases what it
\* handled, SendCommandAndFetchReply reads what it was promised): the server finds a
\* good header wherever it looks for one, that of the client's last request, and the
\* client finds that of the reply to it.
InStep ==
  /\ pc = "parse" /\ HeaderComplete => HeaderGood /\ Request = request[newsockfd]
  /\ \A c \in Clients : HeaderRead(c) =>
       ResponseGood(c) /\ Head(inbox[c]).of.to = request[c]

\* What a client sends is what the grammar of queries says of a line its user may have
\* typed (Parser::ParseQuery reads it character by character): the same command, and
\* as much payload.
Meant == [c \in Clients |-> UNION {Meanings(line) : line \in Lines[c]}]
SentAsTyped == \A c \in Clients : number[c] > 0 =>
                 <<request[c].command, request[c].length - HEADER - KEY>> \in Meant[c]

\* Requests are executed at most once, and replies follow the execution.
C == INSTANCE RemoteCalls WITH
       call <- [c \in Clients |-> IF returned[c] = number[c] THEN "idle"
                                  ELSE IF executed[c] = number[c] THEN "executed"
                                  ELSE "calling"],
       alive <- {c \in Clients : cpc[c] # "gone"}
ImplementsCalls == C!Spec

\* A request is executed when all of it has arrived, and none before: one that its
\* client did not finish, or that was cut anywhere, is not taken for a shorter one.
WholeRequests ==
  [][\A c \in Clients : executed'[c] # executed[c] =>
       /\ Len(stream_buffer) >= request[c].length
       /\ First(stream_buffer, request[c].length) = Units(request[c])]_vars

\* A running server that has turned away from a connection leaves a client waiting for
\* a reply in two cases only: it sent Quit, or an insert that is too long.
LeftWaiting ==
  \A c \in Clients :
    InExchange(c) /\ Abandoned(c) /\ server_running /\ toClient[c] = <<>> =>
      \/ request[c].command = "Quit"
      \/ request[c].command = "Insert" /\ request[c].length > MAX_INSERT

\* After a signal at most one more accept or read returns to the server, whichever
\* test of server_running the signal falls behind.
OneLateCall == late <= 1

\* A server that was signalled ends, or waits in a call it was about to make.
SignalledStops ==
  ~server_running ~> (Ended \/ AcceptBlocks \/ ReadBlocks \/ WriteBlocks)

\* A request of the client that is being served is answered, or the client or the
\* server is on its way out; unless it is one of those nobody answers.
Answerable(c) == /\ request[c].command # "Quit"
                 /\ request[c].command = "Insert" => request[c].length <= MAX_INSERT
Answered ==
  \A c \in Clients :
    Served(c) /\ InExchange(c) /\ Answerable(c) ~> ~InExchange(c) \/ ~server_running
=============================================================================
