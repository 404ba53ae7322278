---------------------------- MODULE ProtocolProofs ----------------------------
(***************************************************************************)
(* Proofs about the server and its clients.                                *)
(***************************************************************************)
EXTENDS Protocol, SequenceTheorems, TLAPS

-----------------------------------------------------------------------------
\* The signal.

LateInv == /\ late \in {0, 1}
           /\ server_running => late = 0
           /\ late = 1 => pc \notin {"accept", "read"}

\* Once the server was signalled it does not come to accept or to read a second time:
\* RunServer and HandleClient test server_running before they do.
LEMMA LateStep == ASSUME LateInv, [Next]_vars PROVE LateInv'
<1>1. CASE RunServer BY <1>1 DEF LateInv, RunServer
<1>2. CASE Stop BY <1>2 DEF LateInv, Stop
<1>3. CASE Accept BY <1>3 DEF LateInv, Accept, Late
<1>4. CASE AcceptFails BY <1>4 DEF LateInv, AcceptFails
<1>5. CASE HandleClient
  BY <1>5 DEF LateInv, HandleClient, Leave, Continue, Goto
<1>6. CASE Read BY <1>6 DEF LateInv, Read, Goto, Late
<1>7. CASE ReadEnd BY <1>7 DEF LateInv, ReadEnd, Leave, Goto
<1>8. CASE Unhandled BY <1>8 DEF LateInv, Unhandled, Leave, Continue, Goto
<1>9. CASE HandleSearch
  <2>1. pc' = "write" /\ UNCHANGED <<server_running, late>>
    BY <1>9 DEF HandleSearch, Respond, Goto
  <2> QED BY <2>1 DEF LateInv
<1>10. CASE HandleInsert BY <1>10 DEF LateInv, HandleInsert, Respond, Goto
<1>11. CASE HandleDelete BY <1>11 DEF LateInv, HandleDelete, Respond, Goto
<1>12. CASE HandleOversized BY <1>12 DEF LateInv, HandleOversized, Leave, Goto
<1>13. CASE HandleQuit BY <1>13 DEF LateInv, HandleQuit, Leave, Goto
<1>14. CASE Write BY <1>14 DEF LateInv, Write, control
<1>15. CASE WriteGone BY <1>15 DEF LateInv, WriteGone, Leave, Goto
<1>16. CASE Replied BY <1>16 DEF LateInv, Replied, Goto
<1>17. CASE Signal BY <1>17 DEF LateInv, Signal
<1>18. CASE UNCHANGED server BY <1>18 DEF LateInv, server, control
<1> QED
  BY <1>1, <1>2, <1>3, <1>4, <1>5, <1>6, <1>7, <1>8, <1>9, <1>10, <1>11, <1>12,
     <1>13, <1>14, <1>15, <1>16, <1>17, <1>18
  DEF Next, ServerNext, ClientNext, ServerStep, vars

\* After a signal, at most one more accept or read returns to the server.
THEOREM SignalHeeded == Spec => []OneLateCall
<1>1. Init => LateInv BY DEF Init, ServerInit, LateInv
<1>2. LateInv => OneLateCall BY DEF LateInv, OneLateCall
<1> QED BY <1>1, <1>2, LateStep, PTL DEF Spec

-----------------------------------------------------------------------------
\* The streams.

Requests == [number : Nat, command : Command, length : Nat]
Responses == [to : Requests, status : Nat, length : Nat]
Ups == Seq([of : Requests, at : Nat])
Downs == Seq([of : Responses, at : Nat])

Exchanging == {"write", "header", "payload"}

Types ==
  /\ pc \in {"run", "accept", "loop", "read", "parse", "write", "stopped", "terminated"}
  /\ newsockfd \in Clients \cup {NoClient}
  /\ accepted \in SUBSET Clients /\ clientEnd \in SUBSET Clients
  /\ backlog \in Seq(Clients)
  /\ toServer \in [Clients -> Ups] /\ toClient \in [Clients -> Downs]
  /\ stream_buffer \in Ups /\ reply \in Downs
  /\ tuples \in SUBSET Nat
  /\ cpc \in [Clients -> Exchanging \cup {"new", "prompt", "end of input", "gone"}]
  /\ number \in [Clients -> Nat] /\ executed \in [Clients -> Nat]
  /\ returned \in [Clients -> Nat]
  /\ request \in [Clients -> Requests] /\ response \in [Clients -> Responses]
  /\ out \in [Clients -> Ups] /\ inbox \in [Clients -> Downs]

\* A connection is served once, and the buffers are those of the one being served.
Connections ==
  /\ \A n \in DOMAIN backlog : backlog[n] \notin accepted /\ cpc[backlog[n]] # "new"
  /\ \A n, m \in DOMAIN backlog : backlog[n] = backlog[m] => n = m
  /\ \A c \in accepted : cpc[c] # "new"
  /\ Serving => newsockfd \in accepted
  /\ ~Serving => stream_buffer = <<>>
  /\ pc # "write" => reply = <<>>
  /\ pc = "write" => stream_buffer # <<>> /\ Len(stream_buffer) = Request.length
  /\ \A c \in Clients : c \in clientEnd <=> cpc[c] \notin {"new", "gone"}

\* How far a client's calls have come.
Calls(c) ==
  /\ returned[c] <= executed[c] /\ executed[c] <= number[c]
  /\ number[c] <= returned[c] + 1
  /\ cpc[c] \in {"new", "prompt", "end of input"} => number[c] = returned[c]
  /\ cpc[c] \in Exchanging => number[c] = returned[c] + 1
  /\ cpc[c] = "write" <=> out[c] # <<>>
  /\ cpc[c] = "write" => executed[c] = returned[c]
  /\ cpc[c] = "payload" => executed[c] = number[c]
  /\ cpc[c] = "new" => toServer[c] = <<>>
  /\ cpc[c] = "gone" => inbox[c] = <<>> /\ toClient[c] = <<>>

\* The units of s are those of m behind the i-th.
Span(s, m, i) == \A n \in 1..Len(s) : s[n] = [of |-> m, at |-> i + n]
Length(u, v, w) == Len(u) + Len(v) + Len(w)

\* Three streams in a row have units of m, from the one behind the i-th on.
Carry(u, v, w, m, i) == /\ Span(u, m, i)
                        /\ Span(v, m, i + Len(u))
                        /\ Span(w, m, i + Len(u) + Len(v))
                        /\ i + Length(u, v, w) <= m.length

Attended(c) == Served(c) \/ \E n \in DOMAIN backlog : backlog[n] = c
Arrived(c) == IF Served(c) /\ pc # "write" THEN stream_buffer ELSE <<>>
Replying(c) == IF Served(c) THEN reply ELSE <<>>

\* What lies between a client and the server is the request that was not yet handled,
\* all of it while the client is there.
Upward(c) ==
  Attended(c) =>
    IF executed[c] = number[c] THEN Length(Arrived(c), toServer[c], out[c]) = 0
    ELSE /\ Carry(Arrived(c), toServer[c], out[c], request[c], 0)
         /\ cpc[c] # "gone" =>
              Length(Arrived(c), toServer[c], out[c]) = request[c].length

\* What lies between the server and a client is the reply that was not yet returned, or
\* a first part of it.
Downward(c) ==
  /\ cpc[c] # "gone" /\ executed[c] = returned[c] =>
       Length(inbox[c], toClient[c], Replying(c)) = 0
  /\ cpc[c] = "header" /\ executed[c] # returned[c] =>
       \E r \in Responses : /\ r.to = request[c] /\ HEADER <= r.length
                            /\ Carry(inbox[c], toClient[c], Replying(c), r, 0)
  /\ cpc[c] = "payload" =>
       /\ HEADER <= response[c].length
       /\ Carry(inbox[c], toClient[c], Replying(c), response[c], HEADER)

Streams(c) == Calls(c) /\ Upward(c) /\ Downward(c)
StreamInv == /\ Types /\ Connections
             /\ \A c \in Clients : Streams(c)

-----------------------------------------------------------------------------
\* Units on their way: what Carry says stays true when they move on.

LEMMA FirstRest ==
  ASSUME NEW S, NEW s \in Seq(S), NEW n \in 0..Len(s)
  PROVE  /\ First(s, n) \in Seq(S) /\ Len(First(s, n)) = n
         /\ \A k \in 1..n : First(s, n)[k] = s[k]
         /\ Rest(s, n) \in Seq(S) /\ Len(Rest(s, n)) = Len(s) - n
         /\ \A k \in 1..(Len(s) - n) : Rest(s, n)[k] = s[n + k]
<1>1. /\ 1 \in 1..(Len(s) + 1) /\ n \in (1 - 1)..Len(s)
      /\ n + 1 \in 1..(Len(s) + 1) /\ Len(s) \in (n + 1 - 1)..Len(s)
  OBVIOUS
<1>2. /\ First(s, n) \in Seq(S) /\ Len(First(s, n)) = n
      /\ \A k \in 1..n : First(s, n)[k] = s[k]
  BY <1>1, SubSeqProperties DEF First
<1>3. /\ Rest(s, n) \in Seq(S) /\ Len(Rest(s, n)) = Len(s) - n
      /\ \A k \in 1..(Len(s) - n) : Rest(s, n)[k] = s[n + k]
  BY <1>1, SubSeqProperties DEF Rest
<1> QED BY <1>2, <1>3

LEMMA UnitsAre ==
  ASSUME NEW M, NEW m \in M, m.length \in Nat
  PROVE  /\ Units(m) \in Seq([of : M, at : Nat])
         /\ Len(Units(m)) = m.length
         /\ Span(Units(m), m, 0)
<1>1. Units(m) \in [1..m.length -> [of : M, at : Nat]] BY DEF Units
<1>2. Units(m) \in Seq([of : M, at : Nat]) BY <1>1, SeqDef
<1>3. Len(Units(m)) = m.length BY <1>2, LenProperties DEF Units
<1>4. Span(Units(m), m, 0) BY <1>3 DEF Span, Units
<1> QED BY <1>2, <1>3, <1>4

LEMMA SpanMoves ==
  ASSUME NEW S, NEW u \in Seq(S), NEW v \in Seq(S), NEW m, NEW i \in Nat,
         Span(u, m, i), Span(v, m, i + Len(u)), NEW n \in 0..Len(v)
  PROVE  /\ u \o First(v, n) \in Seq(S) /\ Rest(v, n) \in Seq(S)
         /\ Len(u \o First(v, n)) = Len(u) + n /\ Len(Rest(v, n)) = Len(v) - n
         /\ Span(u \o First(v, n), m, i) /\ Span(Rest(v, n), m, i + Len(u) + n)
<1> DEFINE moved == u \o First(v, n)
<1>1. /\ First(v, n) \in Seq(S) /\ Len(First(v, n)) = n
      /\ \A k \in 1..n : First(v, n)[k] = v[k]
      /\ Rest(v, n) \in Seq(S) /\ Len(Rest(v, n)) = Len(v) - n
      /\ \A k \in 1..(Len(v) - n) : Rest(v, n)[k] = v[n + k]
  BY FirstRest
<1>2. /\ moved \in Seq(S) /\ Len(moved) = Len(u) + n
      /\ \A k \in 1..(Len(u) + n) :
           moved[k] = IF k <= Len(u) THEN u[k] ELSE First(v, n)[k - Len(u)]
  <2> DEFINE f == First(v, n)
  <2>1. f \in Seq(S) /\ Len(f) = n BY <1>1
  <2> HIDE DEF f
  <2>2. /\ u \o f \in Seq(S) /\ Len(u \o f) = Len(u) + n
        /\ \A k \in 1..(Len(u) + n) : (u \o f)[k] = IF k <= Len(u) THEN u[k] ELSE f[k - Len(u)]
    BY <2>1, ConcatProperties
  <2> QED BY <2>2 DEF f
<1>3. ASSUME NEW k \in 1..Len(moved) PROVE moved[k] = [of |-> m, at |-> i + k]
  <2>1. CASE k <= Len(u) BY <1>2, <1>3, <2>1, LenProperties DEF Span
  <2>2. CASE k > Len(u)
    <3>1. k - Len(u) \in 1..n BY <1>2, <1>3, <2>2, LenProperties
    <3>2. moved[k] = v[k - Len(u)] BY <1>1, <1>2, <1>3, <2>2, <3>1, LenProperties
    <3>3. k - Len(u) \in 1..Len(v) BY <3>1, LenProperties
    <3>4. v[k - Len(u)] = [of |-> m, at |-> i + Len(u) + (k - Len(u))] BY <3>3 DEF Span
    <3>5. i + Len(u) + (k - Len(u)) = i + k BY <1>2, LenProperties
    <3> QED BY <3>2, <3>4, <3>5
  <2> QED BY <2>1, <2>2, <1>2, LenProperties
<1>4. ASSUME NEW k \in 1..(Len(v) - n)
      PROVE  Rest(v, n)[k] = [of |-> m, at |-> i + Len(u) + n + k]
  <2>1. n + k \in 1..Len(v) BY LenProperties
  <2>2. v[n + k] = [of |-> m, at |-> i + Len(u) + (n + k)] BY <2>1 DEF Span
  <2>3. i + Len(u) + (n + k) = i + Len(u) + n + k BY LenProperties
  <2> QED BY <1>1, <2>2, <2>3
<1> QED BY <1>1, <1>2, <1>3, <1>4 DEF Span

\* The second stream's units go to the first.
LEMMA SecondMoves ==
  ASSUME NEW S, NEW u \in Seq(S), NEW v \in Seq(S), NEW w \in Seq(S),
         NEW m, NEW i \in Nat, Carry(u, v, w, m, i), NEW n \in 0..Len(v)
  PROVE  /\ Carry(u \o First(v, n), Rest(v, n), w, m, i)
         /\ Length(u \o First(v, n), Rest(v, n), w) = Length(u, v, w)
<1> DEFINE f == u \o First(v, n)
           r == Rest(v, n)
<1>1. /\ f \in Seq(S) /\ r \in Seq(S)
      /\ Len(f) = Len(u) + n /\ Len(r) = Len(v) - n
      /\ Span(f, m, i) /\ Span(r, m, i + Len(u) + n)
  BY SpanMoves DEF Carry
<1> HIDE DEF f, r
<1>2. Len(u) \in Nat /\ Len(v) \in Nat /\ Len(w) \in Nat BY LenProperties
<1>3. Length(f, r, w) = Length(u, v, w) BY <1>1, <1>2 DEF Length
<1>4. /\ i + Len(f) = i + Len(u) + n
      /\ i + Len(f) + Len(r) = i + Len(u) + Len(v)
  BY <1>1, <1>2
<1>5. Carry(f, r, w, m, i) BY <1>1, <1>3, <1>4 DEF Carry
<1> QED BY <1>3, <1>5 DEF f, r

\* The third stream's units go to the second.
LEMMA ThirdMoves ==
  ASSUME NEW S, NEW u \in Seq(S), NEW v \in Seq(S), NEW w \in Seq(S),
         NEW m, NEW i \in Nat, Carry(u, v, w, m, i), NEW n \in 0..Len(w)
  PROVE  /\ Carry(u, v \o First(w, n), Rest(w, n), m, i)
         /\ Length(u, v \o First(w, n), Rest(w, n)) = Length(u, v, w)
<1> DEFINE f == v \o First(w, n)
           r == Rest(w, n)
<1>1. Len(u) \in Nat /\ Len(v) \in Nat /\ Len(w) \in Nat BY LenProperties
<1>2. /\ f \in Seq(S) /\ r \in Seq(S)
      /\ Len(f) = Len(v) + n /\ Len(r) = Len(w) - n
      /\ Span(f, m, i + Len(u)) /\ Span(r, m, i + Len(u) + Len(v) + n)
  <2>1. i + Len(u) \in Nat BY <1>1
  <2> QED BY <2>1, SpanMoves DEF Carry
<1> HIDE DEF f, r
<1>3. Length(u, f, r) = Length(u, v, w) BY <1>1, <1>2 DEF Length
<1>4. i + Len(u) + Len(f) = i + Len(u) + Len(v) + n BY <1>1, <1>2
<1>5. Carry(u, f, r, m, i) BY <1>2, <1>3, <1>4 DEF Carry
<1> QED BY <1>3, <1>5 DEF f, r

LEMMA Lengths ==
  ASSUME NEW S, NEW u \in Seq(S), NEW v \in Seq(S), NEW w \in Seq(S)
  PROVE  /\ Len(u) \in Nat /\ Len(v) \in Nat /\ Len(w) \in Nat
         /\ Length(u, v, w) = Len(u) + Len(v) + Len(w)
         /\ Length(u, v, w) = 0 <=> u = <<>> /\ v = <<>> /\ w = <<>>
         /\ Length(u, v, <<>>) = Len(u) + Len(v)
<1>1. Len(u) \in Nat /\ Len(v) \in Nat /\ Len(w) \in Nat BY LenProperties
<1>2. Len(<<>>) = 0 OBVIOUS
<1>3. /\ Len(u) = 0 <=> u = <<>>
      /\ Len(v) = 0 <=> v = <<>>
      /\ Len(w) = 0 <=> w = <<>>
  BY EmptySeq, <1>1, <1>2
<1> QED BY <1>1, <1>2, <1>3 DEF Length

\* Streams of no length at all are empty.
LEMMA NoUnits ==
  ASSUME NEW S, NEW u \in Seq(S), NEW v \in Seq(S), NEW w \in Seq(S), Length(u, v, w) = 0
  PROVE  u = <<>> /\ v = <<>> /\ w = <<>>
BY Lengths

\* What has not left, or was not read, is lost.
LEMMA ThirdDropped ==
  ASSUME NEW S, NEW u \in Seq(S), NEW v \in Seq(S), NEW w \in Seq(S),
         NEW m, m.length \in Nat, NEW i \in Nat, Carry(u, v, w, m, i)
  PROVE  Carry(u, v, <<>>, m, i)
<1>1. Span(<<>>, m, i + Len(u) + Len(v)) BY DEF Span
<1>2. i + Length(u, v, <<>>) <= m.length
  <2>1. i + Length(u, v, w) <= m.length BY DEF Carry
  <2>2. PICK a \in Nat, b \in Nat, d \in Nat :
          Length(u, v, w) = a + b + d /\ Length(u, v, <<>>) = a + b
    <3>1. /\ Len(u) \in Nat /\ Len(v) \in Nat /\ Len(w) \in Nat
          /\ Length(u, v, w) = Len(u) + Len(v) + Len(w) /\ Length(u, v, <<>>) = Len(u) + Len(v)
      BY Lengths
    <3> QED BY ONLY <3>1
  <2>3. PICK last \in Nat : last = m.length OBVIOUS
  <2>4. i + (Length(u, v, <<>>)) <= last
    <3>1. PICK x, y : x = Length(u, v, w) /\ y = Length(u, v, <<>>) OBVIOUS
    <3>2. i \in Nat OBVIOUS
    <3>3. x \in Nat /\ y \in Nat /\ y <= x BY ONLY <2>2, <3>1
    <3>4. i + x <= last BY ONLY <2>1, <2>3, <3>1
    <3>5. i + y <= last BY ONLY <2>3, <3>2, <3>3, <3>4
    <3> QED BY ONLY <3>1, <3>5
  <2> QED BY ONLY <2>3, <2>4
<1> QED BY <1>1, <1>2 DEF Carry

\* The first stream was used up.
LEMMA FirstUsed ==
  ASSUME NEW S, NEW u \in Seq(S), NEW v \in Seq(S), NEW w \in Seq(S),
         NEW m, NEW i \in Nat, Carry(u, v, w, m, i)
  PROVE  Carry(<<>>, v, w, m, i + Len(u))
<1>1. Len(u) \in Nat /\ Len(v) \in Nat /\ Len(w) \in Nat BY LenProperties
<1>2. Span(<<>>, m, i + Len(u)) BY DEF Span
<1>3. i + Len(u) + Length(<<>>, v, w) = i + Length(u, v, w) BY <1>1 DEF Length
<1>4. /\ i + Len(u) + Len(<<>>) = i + Len(u)
      /\ i + Len(u) + Len(<<>>) + Len(v) = i + Len(u) + Len(v)
  BY <1>1
<1> QED BY <1>2, <1>3, <1>4 DEF Carry

\* The first stream has the first units of m, and m itself when it has all.
LEMMA FirstIs ==
  ASSUME NEW S, NEW u \in Seq(S), NEW v \in Seq(S), NEW w \in Seq(S),
         NEW m, m.length \in Nat, Carry(u, v, w, m, 0)
  PROVE  /\ u # <<>> => Head(u) = [of |-> m, at |-> 1]
         /\ Len(u) <= m.length
         /\ Len(u) = m.length => u = Units(m) /\ v = <<>> /\ w = <<>>
<1>1. Len(u) \in Nat /\ Len(v) \in Nat /\ Len(w) \in Nat BY LenProperties
<1>2. u # <<>> => Head(u) = [of |-> m, at |-> 1]
  <2>1. u # <<>> => 1 \in 1..Len(u) BY <1>1, EmptySeq
  <2>2. 1 \in 1..Len(u) => u[1] = [of |-> m, at |-> 0 + 1] BY DEF Carry, Span
  <2>3. u # <<>> => Head(u) = u[1] OBVIOUS
  <2> QED BY <2>1, <2>2, <2>3
<1>3. Len(u) <= m.length BY <1>1 DEF Carry, Length
<1>4. ASSUME Len(u) = m.length PROVE u = Units(m) /\ v = <<>> /\ w = <<>>
  <2>1. Len(v) = 0 /\ Len(w) = 0 BY <1>1, <1>4 DEF Carry, Length
  <2>2. v = <<>> /\ w = <<>> BY <2>1, EmptySeq
  <2>3. ASSUME NEW n \in 1..Len(u) PROVE u[n] = [of |-> m, at |-> n]
    <3>1. 0 + n = n OBVIOUS
    <3> QED BY <3>1 DEF Carry, Span
  <2>4. u = [n \in 1..Len(u) |-> u[n]] BY LenProperties
  <2>5. u = Units(m) BY <2>3, <2>4, <1>4 DEF Units
  <2> QED BY <2>2, <2>5
<1> QED BY <1>2, <1>3, <1>4

-----------------------------------------------------------------------------
\* The steps of the server.

Same(d) == /\ toServer'[d] = toServer[d] /\ toClient'[d] = toClient[d]
           /\ executed'[d] = executed[d] /\ cpc'[d] = cpc[d]
           /\ number'[d] = number[d] /\ request'[d] = request[d]
           /\ out'[d] = out[d] /\ inbox'[d] = inbox[d]
           /\ response'[d] = response[d] /\ returned'[d] = returned[d]

LEMMA Frame ==
  ASSUME NEW d \in Clients, Streams(d), Same(d),
         Attended(d)' => Attended(d) /\ Arrived(d)' = Arrived(d),
         Replying(d)' = Replying(d)
  PROVE  Streams(d)'
<1>1. Calls(d)' BY DEF Streams, Calls, Same
<1>2. Upward(d)' BY DEF Streams, Upward, Same
<1>3. Downward(d)' BY DEF Streams, Downward, Same
<1> QED BY <1>1, <1>2, <1>3 DEF Streams

\* Nothing moves, and the server serves whom it served.
LEMMA Moves ==
  ASSUME StreamInv, UNCHANGED <<sockets, newsockfd, accepted, buffers, tuples, executed, clients>>,
         pc' \in {"run", "accept", "loop", "read", "parse", "write", "stopped", "terminated"},
         Serving' <=> Serving, pc' = "write" <=> pc = "write"
  PROVE  StreamInv'
<1>0. /\ UNCHANGED <<newsockfd, accepted, clientEnd, backlog, toServer, toClient>>
      /\ UNCHANGED <<stream_buffer, reply, tuples, executed>>
      /\ UNCHANGED <<cpc, number, returned, request, response, out, inbox>>
  BY DEF sockets, buffers, clients, exchange
<1>1. Types' BY <1>0 DEF StreamInv, Types
<1>2. Connections'
  <2>1. Request' = Request BY <1>0 DEF Request
  <2> QED BY <1>0, <2>1 DEF StreamInv, Connections
<1>3. ASSUME NEW d \in Clients PROVE Streams(d)'
  <2>1. Same(d) BY <1>0 DEF Same
  <2>2. Served(d)' <=> Served(d) BY <1>0 DEF Served
  <2>3. /\ Attended(d)' <=> Attended(d)
        /\ Arrived(d)' = Arrived(d) /\ Replying(d)' = Replying(d)
    BY <1>0, <2>2 DEF Attended, Arrived, Replying
  <2> QED BY <2>1, <2>3, Frame DEF StreamInv
<1> QED BY <1>1, <1>2, <1>3 DEF StreamInv

\* Back to RunServer, whatever was in the buffers.
LEMMA Leaves ==
  ASSUME StreamInv, UNCHANGED <<sockets, newsockfd, accepted, tuples, executed, clients>>,
         Serving, pc' = "run", stream_buffer' = <<>>, reply' = <<>>
  PROVE  StreamInv'
<1>0. /\ UNCHANGED <<newsockfd, accepted, clientEnd, backlog, toServer, toClient>>
      /\ UNCHANGED <<tuples, executed>>
      /\ UNCHANGED <<cpc, number, returned, request, response, out, inbox>>
  BY DEF sockets, clients, exchange
<1>1. Types'
  <2>1. <<>> \in Ups /\ <<>> \in Downs BY EmptySeq DEF Ups, Downs
  <2> QED BY <1>0, <2>1 DEF StreamInv, Types
<1>2. ~Serving' BY DEF Serving
<1>3. Connections' BY <1>0, <1>2 DEF StreamInv, Connections
<1>4. ASSUME NEW d \in Clients PROVE Streams(d)'
  <2>1. ~Served(d)' BY <1>2 DEF Served
  <2>2. Streams(d) BY DEF StreamInv
  <2>3. Calls(d)' BY <1>0, <2>2 DEF Streams, Calls
  <2>4. Upward(d)'
    <3>1. Attended(d)' => Attended(d) /\ d \notin accepted
      BY <1>0, <2>1 DEF Attended, StreamInv, Connections
    <3>2. Attended(d)' => Arrived(d)' = Arrived(d)
      BY <3>1, <2>1 DEF Arrived, Served, StreamInv, Connections
    <3> QED BY <1>0, <2>2, <3>1, <3>2 DEF Streams, Upward
  <2>5. Downward(d)'
    <3> DEFINE u == inbox[d]
               v == toClient[d]
               w == Replying(d)
    <3>1. Replying(d)' = <<>> BY <2>1 DEF Replying
    <3>2. u \in Downs /\ v \in Downs /\ w \in Downs
      BY EmptySeq DEF StreamInv, Types, Replying, Downs
    <3>3. response[d] \in Responses BY DEF StreamInv, Types
    <3>4. \A r \in Responses : \A n \in {0, HEADER} : Carry(u, v, w, r, n) => Carry(u, v, <<>>, r, n)
      <4>1. \A r \in Responses : r.length \in Nat BY DEF Responses
      <4>2. HEADER \in Nat BY SocketsAssumption
      <4> QED BY <3>2, <4>1, <4>2, ThirdDropped DEF Downs
    <3>5. Length(u, v, w) = 0 => Length(u, v, <<>>) = 0 BY <3>2, Lengths DEF Downs
    <3>6. Downward(d) BY <2>2 DEF Streams
    <3> HIDE DEF u, v, w
    <3>7. /\ inbox[d]' = u /\ toClient[d]' = v BY <1>0 DEF u, v
    <3> QED BY <1>0, <3>1, <3>3, <3>4, <3>5, <3>6, <3>7 DEF Downward, u, v, w
  <2> QED BY <2>3, <2>4, <2>5 DEF Streams
<1> QED BY <1>1, <1>3, <1>4 DEF StreamInv

\* What the server finds at the start of the buffer is the request of the client it
\* serves, which was not yet executed; and all of it when it is complete.
LEMMA AtRequest ==
  ASSUME StreamInv, pc = "parse", HeaderComplete, NEW c, c = newsockfd
  PROVE  /\ c \in Clients /\ executed[c] # number[c]
         /\ HeaderGood /\ Request = request[c]
         /\ Complete => /\ stream_buffer = Units(request[c])
                        /\ Len(stream_buffer) = request[c].length
                        /\ toServer[c] = <<>> /\ out[c] = <<>>
<1>1. c \in Clients /\ Served(c) /\ Attended(c) /\ Arrived(c) = stream_buffer
  BY DEF StreamInv, Types, Connections, Serving, Served, Attended, Arrived
<1>2. /\ stream_buffer \in Ups /\ toServer[c] \in Ups /\ out[c] \in Ups
      /\ request[c].length \in Nat
  BY <1>1 DEF StreamInv, Types, Requests
<1>3. Len(stream_buffer) \in Nat /\ Len(stream_buffer) > 0 /\ stream_buffer # <<>>
  BY <1>2, LenProperties, EmptySeq, SocketsAssumption DEF HeaderComplete, Ups
<1>4. Upward(c) BY <1>1 DEF StreamInv, Streams
<1>5. executed[c] # number[c]
  <2>1. Length(stream_buffer, toServer[c], out[c]) = 0 => stream_buffer = <<>>
    BY <1>2, Lengths DEF Ups
  <2> QED BY <1>1, <1>3, <1>4, <2>1 DEF Upward
<1>6. Carry(stream_buffer, toServer[c], out[c], request[c], 0)
  BY <1>1, <1>4, <1>5 DEF Upward
<1>7. /\ Head(stream_buffer) = [of |-> request[c], at |-> 1]
      /\ Len(stream_buffer) <= request[c].length
      /\ Len(stream_buffer) = request[c].length =>
           /\ stream_buffer = Units(request[c])
           /\ toServer[c] = <<>> /\ out[c] = <<>>
  BY <1>2, <1>3, <1>6, FirstIs DEF Ups
<1>8. HeaderGood /\ Request = request[c] BY <1>7 DEF HeaderGood, Request
<1>9. Complete => Len(stream_buffer) = request[c].length
  BY <1>2, <1>3, <1>7, <1>8 DEF Complete
<1> QED BY <1>1, <1>5, <1>7, <1>8, <1>9

LEMMA AcceptKeeps == ASSUME StreamInv, Accept, UNCHANGED clients PROVE StreamInv'
<1> DEFINE h == Head(backlog)
<1>0. /\ UNCHANGED <<clientEnd, toServer, toClient, stream_buffer, reply, tuples, executed>>
      /\ UNCHANGED <<cpc, number, returned, request, response, out, inbox>>
      /\ pc = "accept" /\ pc' = "loop" /\ newsockfd' = h
      /\ accepted' = accepted \cup {h} /\ backlog' = Tail(backlog)
      /\ backlog \in Seq(Clients) /\ backlog # <<>>
  BY DEF Accept, clients, exchange, buffers, StreamInv, Types
<1>1. /\ h \in Clients /\ backlog' \in Seq(Clients)
      /\ Len(backlog') = Len(backlog) - 1 /\ Len(backlog) \in Nat \ {0}
      /\ \A n \in 1..Len(backlog') : backlog'[n] = backlog[n + 1]
      /\ h = backlog[1] /\ DOMAIN backlog = 1..Len(backlog)
      /\ DOMAIN backlog' = 1..Len(backlog')
  BY <1>0, HeadTailProperties, LenProperties, EmptySeq
<1> HIDE DEF h
<1>2. Types' BY <1>0, <1>1 DEF StreamInv, Types
<1>3. \A n \in DOMAIN backlog' : n + 1 \in DOMAIN backlog /\ backlog'[n] = backlog[n + 1]
  BY <1>1
<1>4. \A n \in DOMAIN backlog' : backlog'[n] # h
  BY <1>1, <1>3 DEF StreamInv, Connections
<1>5. \A n, m \in DOMAIN backlog' : backlog'[n] = backlog'[m] => n = m
  <2> SUFFICES ASSUME NEW n \in DOMAIN backlog', NEW m \in DOMAIN backlog', backlog'[n] = backlog'[m]
               PROVE  n = m
    OBVIOUS
  <2>1. n + 1 = m + 1 BY <1>3 DEF StreamInv, Connections
  <2> QED BY <1>1, <2>1
<1>6. ~Serving /\ Serving' /\ 1 \in DOMAIN backlog BY <1>0, <1>1 DEF Serving
<1>7. Connections'
  BY <1>0, <1>1, <1>3, <1>4, <1>5, <1>6 DEF StreamInv, Connections
<1>8. ASSUME NEW d \in Clients PROVE Streams(d)'
  <2>1. Same(d) BY <1>0 DEF Same
  <2>2. stream_buffer = <<>> /\ reply = <<>> BY <1>0, <1>6 DEF StreamInv, Connections
  <2>3. Replying(d)' = Replying(d) BY <1>0, <2>2 DEF Replying
  <2>4. Arrived(d)' = Arrived(d) BY <1>0, <2>2 DEF Arrived
  <2>5. Attended(d)' => Attended(d)
    <3>1. CASE d = h BY <1>1, <1>6, <3>1 DEF Attended
    <3>2. CASE d # h BY <1>0, <1>3, <3>2 DEF Attended, Served
    <3> QED BY <3>1, <3>2
  <2> QED BY <2>1, <2>3, <2>4, <2>5, Frame DEF StreamInv
<1> QED BY <1>2, <1>7, <1>8 DEF StreamInv

LEMMA EndKeeps ==
  ASSUME StreamInv, Stop \/ AcceptFails, UNCHANGED clients PROVE StreamInv'
<1>0. /\ UNCHANGED <<newsockfd, accepted, clientEnd, toClient, stream_buffer, reply, tuples>>
      /\ UNCHANGED <<cpc, number, returned, request, response, out, inbox, executed>>
      /\ pc \in {"run", "accept"} /\ pc' \in {"stopped", "terminated"}
      /\ backlog' = <<>> /\ toServer' = [c \in Clients |-> <<>>]
  BY DEF Stop, AcceptFails, ServerGone, clients, exchange, buffers
<1>1. ~Serving /\ ~Serving' BY <1>0 DEF Serving
<1>2. Types'
  <2>1. backlog' \in Seq(Clients) /\ <<>> \in Ups BY <1>0, EmptySeq DEF Ups
  <2> QED BY <1>0, <2>1 DEF StreamInv, Types
<1>3. Connections' BY <1>0, <1>1 DEF StreamInv, Connections
<1>4. ASSUME NEW d \in Clients PROVE Streams(d)'
  <2>1. Streams(d) BY DEF StreamInv
  <2>2. Calls(d)' BY <1>0, <2>1 DEF Streams, Calls
  <2>3. Upward(d)' BY <1>0, <1>1 DEF Upward, Attended, Served
  <2>4. Replying(d)' = Replying(d) BY <1>1 DEF Replying, Served
  <2>5. Downward(d)' BY <1>0, <2>1, <2>4 DEF Streams, Downward
  <2> QED BY <2>2, <2>3, <2>5 DEF Streams
<1> QED BY <1>2, <1>3, <1>4 DEF StreamInv

LEMMA ReadKeeps ==
  ASSUME StreamInv, Read, UNCHANGED clients, NEW c, c = newsockfd PROVE StreamInv'
<1> DEFINE v == toServer[c]
           n == AtMost(READ_SIZE, Len(v))
<1>0. /\ UNCHANGED <<newsockfd, accepted, clientEnd, backlog, toClient, reply, tuples>>
      /\ UNCHANGED <<cpc, number, returned, request, response, out, inbox, executed>>
      /\ pc = "read" /\ pc' = "parse"
      /\ stream_buffer' = stream_buffer \o First(v, n)
      /\ toServer' = [toServer EXCEPT ![c] = Rest(v, n)]
  BY DEF Read, Goto, clients, exchange
<1>1. c \in Clients /\ c \in accepted /\ Serving /\ Serving'
  BY <1>0 DEF StreamInv, Types, Connections, Serving
<1>2. stream_buffer \in Ups /\ v \in Ups BY <1>1 DEF StreamInv, Types
<1>3. n \in 0..Len(v) BY <1>2, LenProperties, ServerAssumption DEF AtMost, Ups
<1>4. stream_buffer' \in Ups /\ Rest(v, n) \in Ups
  BY <1>0, <1>2, <1>3, FirstRest, ConcatProperties DEF Ups
<1> HIDE DEF n, v
<1>5. Types' BY <1>0, <1>1, <1>4 DEF StreamInv, Types
<1>6. cpc[c] # "new" BY <1>1 DEF StreamInv, Connections
<1>7. Connections' BY <1>0, <1>1 DEF StreamInv, Connections
<1>8. ASSUME NEW d \in Clients, d # c PROVE Streams(d)'
  <2>1. Same(d) BY <1>0, <1>8 DEF Same, StreamInv, Types
  <2>2. ~Served(d) /\ ~Served(d)' BY <1>0, <1>8 DEF Served
  <2>3. /\ Attended(d)' => Attended(d)
        /\ Arrived(d)' = Arrived(d) /\ Replying(d)' = Replying(d)
    BY <1>0, <2>2 DEF Attended, Arrived, Replying
  <2> QED BY <2>1, <2>3, Frame DEF StreamInv
<1>9. Streams(c)'
  <2>1. Streams(c) BY <1>1 DEF StreamInv
  <2>2. Served(c) /\ Served(c)' /\ Attended(c) BY <1>0, <1>1 DEF Served, Attended
  <2>3. Calls(c)' BY <1>0, <1>6, <2>1 DEF Streams, Calls
  <2>4. Replying(c)' = Replying(c) BY <1>0, <2>2 DEF Replying
  <2>5. Downward(c)' BY <1>0, <2>1, <2>4 DEF Streams, Downward
  <2>6. /\ Arrived(c) = stream_buffer /\ Arrived(c)' = stream_buffer \o First(v, n)
        /\ toServer[c] = v /\ toServer'[c] = Rest(v, n)
    BY <1>0, <1>1, <2>2 DEF Arrived, v, StreamInv, Types
  <2>7. out[c] \in Ups BY <1>1 DEF StreamInv, Types
  <2>8. CASE executed[c] = number[c]
    <3>1. Length(stream_buffer, v, out[c]) = 0 BY <2>1, <2>2, <2>6, <2>8 DEF Streams, Upward
    <3>2. stream_buffer = <<>> /\ v = <<>> /\ out[c] = <<>>
      BY <1>2, <2>7, <3>1, Lengths DEF Ups
    <3>3. v # <<>> BY DEF Read, v
    <3> QED BY <3>2, <3>3
  <2>9. CASE executed[c] # number[c]
    <3>1. Carry(stream_buffer, v, out[c], request[c], 0)
      BY <2>1, <2>2, <2>6, <2>9 DEF Streams, Upward
    <3>2. /\ Carry(stream_buffer \o First(v, n), Rest(v, n), out[c], request[c], 0)
          /\ Length(stream_buffer \o First(v, n), Rest(v, n), out[c])
               = Length(stream_buffer, v, out[c])
      BY <1>2, <1>3, <2>7, <3>1, SecondMoves DEF Ups
    <3>3. Upward(c)' BY <1>0, <2>1, <2>2, <2>6, <2>9, <3>2 DEF Streams, Upward
    <3> QED BY <2>3, <2>5, <3>3 DEF Streams
  <2> QED BY <2>8, <2>9
<1> QED BY <1>5, <1>7, <1>8, <1>9 DEF StreamInv

\* A request was executed: the reply goes to the one who waits for it.
LEMMA RespondKeeps ==
  ASSUME StreamInv, NEW status \in Nat, NEW size \in Nat, NEW command,
         Handle(command), Respond(status, size), tuples' \in SUBSET Nat, UNCHANGED clients,
         NEW c, c = newsockfd
  PROVE  StreamInv'
<1> DEFINE r == [to |-> request[c], status |-> status, length |-> HEADER + size]
<1>0. /\ UNCHANGED <<newsockfd, accepted, clientEnd, backlog, toServer, toClient, stream_buffer>>
      /\ UNCHANGED <<cpc, number, returned, request, response, out, inbox>>
      /\ pc = "parse" /\ pc' = "write"
      /\ executed' = [executed EXCEPT ![c] = @ + 1]
      /\ HeaderComplete /\ Complete
  BY DEF Respond, Handle, Goto, sockets, clients, exchange
<1>1. /\ c \in Clients /\ executed[c] # number[c] /\ Request = request[c]
      /\ stream_buffer = Units(request[c]) /\ Len(stream_buffer) = request[c].length
      /\ toServer[c] = <<>> /\ out[c] = <<>>
  BY <1>0, AtRequest
<1>2. Serving /\ Serving' /\ Served(c) /\ Served(c)' /\ Attended(c)
  BY <1>0 DEF Served, Serving, Attended
<1>3. r \in Responses /\ r.length \in Nat /\ HEADER <= r.length /\ r.to = request[c]
  <2>1. request[c] \in Requests BY <1>1 DEF StreamInv, Types
  <2>2. HEADER + size \in Nat /\ HEADER <= HEADER + size BY SocketsAssumption
  <2> QED BY <2>1, <2>2 DEF Responses
<1>4. reply' = Units(r) BY <1>1 DEF Respond
<1> HIDE DEF r
<1>5. reply' \in Downs /\ Len(reply') = r.length /\ Span(reply', r, 0)
  BY <1>3, <1>4, UnitsAre DEF Downs
<1>6. Types'
  <2>1. executed' \in [Clients -> Nat]
    <3>1. executed \in [Clients -> Nat] /\ c \in Clients BY <1>1 DEF StreamInv, Types
    <3>2. executed' = [executed EXCEPT ![c] = @ + 1] BY <1>0
    <3> QED BY <3>1, <3>2
  <2>2. /\ pc' \in {"run", "accept", "loop", "read", "parse", "write", "stopped", "terminated"}
        /\ tuples' \in SUBSET Nat
    BY <1>0
  <2> QED BY <1>0, <1>5, <2>1, <2>2 DEF StreamInv, Types
<1>7. Connections'
  <2>1. Request' = Request BY <1>0 DEF Request
  <2>2. stream_buffer # <<>>
    <3>1. Len(stream_buffer) >= HEADER BY <1>0 DEF HeaderComplete
    <3>2. Len(<<>>) = 0 OBVIOUS
    <3> QED BY <3>1, <3>2, SocketsAssumption
  <2> QED BY <1>0, <1>1, <1>2, <2>1, <2>2 DEF StreamInv, Connections
<1>8. ASSUME NEW d \in Clients, d # c PROVE Streams(d)'
  <2>1. Same(d) BY <1>0, <1>8 DEF Same, StreamInv, Types
  <2>2. ~Served(d) /\ ~Served(d)' BY <1>0, <1>8 DEF Served
  <2>3. /\ Attended(d)' => Attended(d)
        /\ Arrived(d)' = Arrived(d) /\ Replying(d)' = Replying(d)
    BY <1>0, <2>2 DEF Attended, Arrived, Replying
  <2> QED BY <2>1, <2>3, Frame DEF StreamInv
<1>9. Streams(c)'
  <2>1. Streams(c) BY <1>1 DEF StreamInv
  <2>2. /\ executed[c] \in Nat /\ number[c] \in Nat /\ returned[c] \in Nat
        /\ inbox[c] \in Downs /\ toClient[c] \in Downs /\ reply \in Downs
    BY <1>1 DEF StreamInv, Types
  <2>3. /\ executed'[c] = number[c] /\ executed[c] = returned[c]
        /\ number[c] = returned[c] + 1
        /\ executed'[c] = returned[c] + 1
    <3>1. executed'[c] = executed[c] + 1 BY <1>0, <1>1 DEF StreamInv, Types
    <3>2. /\ returned[c] <= executed[c] /\ executed[c] <= number[c]
          /\ number[c] <= returned[c] + 1
      BY <2>1 DEF Streams, Calls
    <3> QED BY <1>1, <2>2, <3>1, <3>2
  <2>4. cpc[c] \in {"header", "gone"}
    BY <1>1, <2>1, <2>2, <2>3 DEF Streams, Calls, StreamInv, Types, Exchanging
  <2>5. Calls(c)' BY <1>0, <2>1, <2>2, <2>3, <2>4 DEF Streams, Calls
  <2>6. Upward(c)'
    <3>1. Arrived(c)' = <<>> BY <1>0 DEF Arrived
    <3>2. Length(<<>>, <<>>, <<>>) = 0 BY DEF Length
    <3> QED BY <1>0, <1>1, <2>3, <3>1, <3>2 DEF Upward
  <2>7. Downward(c)'
    <3>1. CASE cpc[c] = "gone" BY <1>0, <3>1 DEF Downward
    <3>2. CASE cpc[c] = "header"
      <4>1. Length(inbox[c], toClient[c], Replying(c)) = 0
        BY <2>1, <2>3, <3>2 DEF Streams, Downward
      <4>2. Replying(c) \in Downs BY <1>2, <2>2 DEF Replying
      <4>3. inbox[c] = <<>> /\ toClient[c] = <<>>
        <5>1. inbox[c] \in Downs /\ toClient[c] \in Downs BY <2>2
        <5> QED BY ONLY <4>1, <4>2, <5>1, NoUnits DEF Downs
      <4>4. Replying(c)' = Units(r) BY <1>2, <1>4 DEF Replying
      <4>5. Carry(<<>>, <<>>, Units(r), r, 0)
        <5>1. Len(<<>>) = 0 /\ Span(<<>>, r, 0) BY DEF Span
        <5>2. Len(Units(r)) = r.length /\ Span(Units(r), r, 0) BY <1>4, <1>5
        <5> QED BY <1>3, <5>1, <5>2 DEF Carry, Length
      <4> QED BY <1>0, <1>3, <2>2, <2>3, <3>2, <4>3, <4>4, <4>5 DEF Downward
    <3> QED BY <2>4, <3>1, <3>2
  <2> QED BY <2>5, <2>6, <2>7 DEF Streams
<1> QED BY <1>6, <1>7, <1>8, <1>9 DEF StreamInv

LEMMA HandlerKeeps ==
  ASSUME StreamInv, HandleSearch \/ HandleInsert \/ HandleDelete, UNCHANGED clients
  PROVE  StreamInv'
<1>1. 0 \in Nat /\ KEY \in Nat /\ Found \in Nat /\ NotFound \in Nat
  BY SocketsAssumption DEF Found, NotFound
<1>2. tuples \in SUBSET Nat BY DEF StreamInv, Types
<1>3. CASE HandleSearch
  <2>1. Handle("Search") /\ tuples' \in SUBSET Nat BY <1>2, <1>3 DEF HandleSearch
  <2>2. CASE Respond(NotFound, 0) BY <1>1, <2>1, <2>2, RespondKeeps
  <2>3. ASSUME NEW size \in tuples, Respond(Found, size) PROVE StreamInv'
    <3>1. size \in Nat BY <1>2
    <3> QED BY <1>1, <2>1, <2>3, <3>1, RespondKeeps
  <2> QED BY <1>3, <2>2, <2>3 DEF HandleSearch
<1>4. CASE HandleInsert
  <2>1. /\ Handle("Insert") /\ Respond(Found, KEY)
        /\ tuples' = tuples \cup {Request.length - HEADER}
    BY <1>4 DEF HandleInsert
  <2>2. pc = "parse" /\ HeaderComplete /\ Complete BY <2>1 DEF Handle
  <2>3. /\ newsockfd \in Clients /\ Request = request[newsockfd]
        /\ Len(stream_buffer) = Request.length
    BY <2>2, AtRequest
  <2>4. Request.length \in Nat BY <2>3 DEF StreamInv, Types, Requests
  <2>5. Request.length >= HEADER BY <2>2, <2>3 DEF HeaderComplete
  <2>6. Request.length - HEADER \in Nat BY <2>4, <2>5, SocketsAssumption
  <2>7. tuples' \in SUBSET Nat BY <1>2, <2>1, <2>6
  <2> QED BY <1>1, <2>1, <2>7, RespondKeeps
<1>5. CASE HandleDelete
  <2>1. Handle("Delete") /\ tuples' \in SUBSET Nat BY <1>2, <1>5 DEF HandleDelete
  <2>2. ASSUME NEW status \in {Found, NotFound}, Respond(status, KEY) PROVE StreamInv'
    <3>1. status \in Nat BY <1>1
    <3> QED BY <1>1, <2>1, <2>2, <3>1, RespondKeeps
  <2> QED BY <1>5, <2>2 DEF HandleDelete
<1> QED BY <1>3, <1>4, <1>5

LEMMA WriteKeeps ==
  ASSUME StreamInv, Write, UNCHANGED clients, NEW c, c = newsockfd PROVE StreamInv'
<1>1. PICK n \in Pieces(reply, toClient[c]) :
        /\ toClient' = [toClient EXCEPT ![c] = @ \o First(reply, n)]
        /\ reply' = Rest(reply, n)
  BY DEF Write
<1>2. /\ UNCHANGED <<newsockfd, accepted, clientEnd, backlog, toServer, tuples, pc>>
      /\ UNCHANGED <<cpc, number, returned, request, response, out, inbox, executed>>
      /\ UNCHANGED stream_buffer /\ pc = "write" /\ c \in clientEnd
  BY DEF Write, control, clients, exchange
<1>3. Serving /\ Serving' BY <1>2 DEF Serving
<1>4. c \in Clients /\ cpc[c] \notin {"new", "gone"}
  BY <1>2, <1>3 DEF StreamInv, Types, Connections
<1>5. reply \in Downs /\ toClient[c] \in Downs /\ inbox[c] \in Downs
  BY <1>4 DEF StreamInv, Types
<1>6. n \in 0..Len(reply) /\ n # 0
  <2>1. /\ Len(reply) \in Nat /\ Len(toClient[c]) \in Nat
        /\ n \in 1..AtMost(Len(reply), SOCKET_BUFFER - Len(toClient[c]))
    BY <1>5, LenProperties DEF Downs, Pieces
  <2> QED BY <2>1, SocketsAssumption DEF AtMost
<1> DEFINE f == toClient[c] \o First(reply, n)
           r == Rest(reply, n)
<1>7. f \in Downs /\ r \in Downs
  BY <1>5, <1>6, FirstRest, ConcatProperties DEF Downs
<1>8. toClient' = [toClient EXCEPT ![c] = f] /\ reply' = r BY <1>1
<1> HIDE DEF f, r
<1>9. Types' BY <1>2, <1>4, <1>7, <1>8 DEF StreamInv, Types
<1>10. Connections'
  <2>1. Request' = Request BY <1>2 DEF Request
  <2> QED BY <1>2, <1>3, <2>1 DEF StreamInv, Connections
<1>11. ASSUME NEW d \in Clients, d # c PROVE Streams(d)'
  <2>1. Same(d) BY <1>2, <1>8, <1>11 DEF Same, StreamInv, Types
  <2>2. ~Served(d) /\ ~Served(d)' BY <1>2, <1>11 DEF Served
  <2>3. /\ Attended(d)' => Attended(d)
        /\ Arrived(d)' = Arrived(d) /\ Replying(d)' = Replying(d)
    BY <1>2, <2>2 DEF Attended, Arrived, Replying
  <2> QED BY <2>1, <2>3, Frame DEF StreamInv
<1>12. Streams(c)'
  <2>1. Streams(c) BY <1>4 DEF StreamInv
  <2>2. Served(c) /\ Served(c)' BY <1>2, <1>3 DEF Served
  <2>3. Calls(c)' BY <1>2, <1>4, <2>1 DEF Streams, Calls
  <2>4. Arrived(c)' = Arrived(c) BY <1>2 DEF Arrived
  <2>5. Attended(c)' <=> Attended(c) BY <2>2 DEF Attended
  <2>6. Upward(c)' BY <1>2, <2>1, <2>4, <2>5 DEF Streams, Upward
  <2>7. /\ Replying(c) = reply /\ Replying(c)' = r /\ toClient'[c] = f
    BY <1>4, <1>8, <2>2 DEF Replying, StreamInv, Types
  <2>8. executed[c] # returned[c]
    <3>1. Length(inbox[c], toClient[c], reply) = 0 => reply = <<>> BY <1>5, Lengths DEF Downs
    <3>2. reply # <<>>
      <4>1. Len(<<>>) = 0 OBVIOUS
      <4> QED BY <1>6, <4>1
    <3> QED BY <1>4, <2>1, <2>7, <3>1, <3>2 DEF Streams, Downward
  <2>9. ASSUME NEW m, NEW i \in Nat, Carry(inbox[c], toClient[c], reply, m, i)
        PROVE  Carry(inbox[c], f, r, m, i)
    BY <1>5, <1>6, <2>9, ThirdMoves DEF Downs, f, r
  <2>10. Downward(c)'
    <3>1. CASE cpc[c] = "header"
      <4>1. PICK m \in Responses : /\ m.to = request[c] /\ HEADER <= m.length
                                   /\ Carry(inbox[c], toClient[c], reply, m, 0)
        BY <2>1, <2>7, <2>8, <3>1 DEF Streams, Downward
      <4>2. Carry(inbox[c], f, r, m, 0) BY <2>9, <4>1
      <4> QED BY <1>2, <2>7, <2>8, <3>1, <4>1, <4>2 DEF Downward
    <3>2. CASE cpc[c] = "payload"
      <4>1. /\ HEADER <= response[c].length
            /\ Carry(inbox[c], toClient[c], reply, response[c], HEADER)
        BY <2>1, <2>7, <3>2 DEF Streams, Downward
      <4>2. Carry(inbox[c], f, r, response[c], HEADER) BY <2>9, <4>1, SocketsAssumption
      <4> QED BY <1>2, <2>7, <2>8, <3>2, <4>1, <4>2 DEF Downward
    <3>3. CASE cpc[c] \notin {"header", "payload"} BY <1>2, <2>8, <3>3 DEF Downward
    <3> QED BY <3>1, <3>2, <3>3
  <2> QED BY <2>3, <2>6, <2>10 DEF Streams
<1> QED BY <1>9, <1>10, <1>11, <1>12 DEF StreamInv

\* The client of the reply is gone.
LEMMA ReplyLost ==
  ASSUME StreamInv, UNCHANGED <<sockets, newsockfd, accepted, tuples, executed, clients>>,
         pc = "write", pc' = "write", newsockfd \notin clientEnd,
         UNCHANGED stream_buffer, reply' = <<>>
  PROVE  StreamInv'
<1>0. /\ UNCHANGED <<newsockfd, accepted, clientEnd, backlog, toServer, toClient>>
      /\ UNCHANGED <<tuples, executed, stream_buffer>>
      /\ UNCHANGED <<cpc, number, returned, request, response, out, inbox>>
  BY DEF sockets, clients, exchange
<1>1. Types'
  <2>1. <<>> \in Downs BY EmptySeq DEF Downs
  <2> QED BY <1>0, <2>1 DEF StreamInv, Types
<1>2. Serving /\ Serving' BY DEF Serving
<1>3. Connections'
  <2>1. Request' = Request BY <1>0 DEF Request
  <2> QED BY <1>0, <1>2, <2>1 DEF StreamInv, Connections
<1>4. ASSUME NEW d \in Clients PROVE Streams(d)'
  <2>1. Same(d) BY <1>0 DEF Same
  <2>2. Served(d)' <=> Served(d) BY <1>0, <1>2 DEF Served
  <2>3. Attended(d)' <=> Attended(d) BY <1>0, <2>2 DEF Attended
  <2>4. Arrived(d)' = Arrived(d) BY <1>0, <2>2 DEF Arrived
  <2>5. CASE ~Served(d)
    <3>1. Replying(d)' = Replying(d) BY <2>2, <2>5 DEF Replying
    <3> QED BY <2>1, <2>3, <2>4, <3>1, Frame DEF StreamInv
  <2>6. CASE Served(d)
    <3>1. cpc[d] \in {"new", "gone"} /\ cpc[d] # "new"
      BY <2>6, <1>2 DEF Served, StreamInv, Connections
    <3>2. Streams(d) BY DEF StreamInv
    <3>3. Calls(d)' BY <2>1, <3>2 DEF Streams, Calls, Same
    <3>4. Upward(d)' BY <2>1, <2>3, <2>4, <3>2 DEF Streams, Upward, Same
    <3>5. Downward(d)' BY <1>0, <3>1 DEF Downward
    <3> QED BY <3>3, <3>4, <3>5 DEF Streams
  <2> QED BY <2>5, <2>6
<1> QED BY <1>1, <1>3, <1>4 DEF StreamInv

LEMMA RepliedKeeps == ASSUME StreamInv, Replied, UNCHANGED clients PROVE StreamInv'
<1>0. /\ UNCHANGED <<newsockfd, accepted, clientEnd, backlog, toServer, toClient>>
      /\ UNCHANGED <<tuples, executed, reply>>
      /\ UNCHANGED <<cpc, number, returned, request, response, out, inbox>>
      /\ pc = "write" /\ pc' = "parse" /\ reply = <<>> /\ stream_buffer' = Handled
  BY DEF Replied, Goto, sockets, clients, exchange
<1>1. stream_buffer' = <<>> /\ <<>> \in Ups
  <2>1. /\ stream_buffer \in Ups /\ Len(stream_buffer) = Request.length
    BY <1>0 DEF StreamInv, Types, Connections
  <2>2. Handled = SubSeq(stream_buffer, Len(stream_buffer) + 1, Len(stream_buffer))
    BY <2>1 DEF Handled, Rest
  <2>3. Len(stream_buffer) \in Nat BY <2>1, LenProperties DEF Ups
  <2>4. Handled = <<>> BY <2>2, <2>3, SubSeqEmpty
  <2> QED BY <1>0, <2>4, EmptySeq DEF Ups
<1>2. Types' BY <1>0, <1>1 DEF StreamInv, Types
<1>3. Serving /\ Serving' BY <1>0 DEF Serving
<1>4. Connections' BY <1>0, <1>1, <1>3 DEF StreamInv, Connections
<1>5. ASSUME NEW d \in Clients PROVE Streams(d)'
  <2>1. Same(d) BY <1>0 DEF Same
  <2>2. Served(d)' <=> Served(d) BY <1>0, <1>3 DEF Served
  <2>3. Attended(d)' <=> Attended(d) BY <1>0, <2>2 DEF Attended
  <2>4. Arrived(d)' = Arrived(d) BY <1>0, <1>1 DEF Arrived
  <2>5. Replying(d)' = Replying(d) BY <1>0, <2>2 DEF Replying
  <2> QED BY <2>1, <2>3, <2>4, <2>5, Frame DEF StreamInv
<1> QED BY <1>2, <1>4, <1>5 DEF StreamInv

LEMMA ServerKeeps == ASSUME StreamInv, ServerStep \/ Signal, UNCHANGED clients PROVE StreamInv'
<1>0. UNCHANGED buffers => UNCHANGED <<stream_buffer, reply>> BY DEF buffers
<1>1. CASE RunServer BY <1>1, Moves DEF RunServer, Serving
<1>2. CASE Stop \/ AcceptFails BY <1>2, EndKeeps
<1>3. CASE Accept BY <1>3, AcceptKeeps
<1>4. CASE HandleClient
  <2>1. /\ pc = "loop" /\ UNCHANGED <<sockets, newsockfd, accepted, tuples, executed>>
        /\ \/ pc' = "read" /\ UNCHANGED buffers
           \/ pc' = "run" /\ stream_buffer' = <<>> /\ reply' = <<>>
    BY <1>4 DEF HandleClient, Continue, Leave, Goto
  <2> QED BY <2>1, Moves, Leaves DEF Serving
<1>5. CASE Read BY <1>5, ReadKeeps
<1>6. CASE ReadEnd BY <1>6, Leaves DEF ReadEnd, Leave, Goto, Serving
<1>7. CASE Unhandled
  <2>1. /\ pc = "parse" /\ UNCHANGED <<sockets, newsockfd, accepted, tuples, executed>>
        /\ \/ pc' = "loop" /\ UNCHANGED buffers
           \/ pc' = "run" /\ stream_buffer' = <<>> /\ reply' = <<>>
    BY <1>7 DEF Unhandled, Continue, Leave, Goto
  <2> QED BY <2>1, Moves, Leaves DEF Serving
<1>8. CASE HandleSearch \/ HandleInsert \/ HandleDelete BY <1>8, HandlerKeeps
<1>9. CASE HandleOversized \/ HandleQuit
  <2>1. /\ pc = "parse" /\ UNCHANGED <<sockets, newsockfd, accepted, tuples, executed>>
        /\ pc' = "run" /\ stream_buffer' = <<>> /\ reply' = <<>>
    BY <1>9 DEF HandleOversized, HandleQuit, Handle, Leave, Goto
  <2> QED BY <2>1, Leaves DEF Serving
<1>10. CASE Write BY <1>10, WriteKeeps
<1>11. CASE WriteGone
  <2>1. /\ pc = "write" /\ UNCHANGED <<sockets, newsockfd, accepted, tuples, executed>>
        /\ newsockfd \notin clientEnd /\ reply' = <<>>
        /\ \/ pc' = "write" /\ UNCHANGED stream_buffer
           \/ pc' = "run" /\ stream_buffer' = <<>>
    BY <1>11 DEF WriteGone, Leave, Goto
  <2>2. CASE pc' = "run" BY <2>1, <2>2, Leaves DEF Serving
  <2>3. CASE pc' = "write" BY <2>1, <2>3, ReplyLost
  <2> QED BY <2>1, <2>2, <2>3
<1>12. CASE Replied BY <1>12, RepliedKeeps
<1>13. CASE Signal
  <2>1. /\ ~Ended /\ UNCHANGED <<sockets, newsockfd, accepted, tuples, executed>>
        /\ \/ UNCHANGED <<pc, buffers>>
           \/ pc = "accept" /\ pc' = "run" /\ UNCHANGED buffers
           \/ pc = "read" /\ pc' = "loop" /\ UNCHANGED buffers
           \/ pc = "write" /\ pc' = "run" /\ stream_buffer' = <<>> /\ reply' = <<>>
    BY <1>13 DEF Signal, AcceptBlocks, ReadBlocks, WriteBlocks
  <2>2. CASE UNCHANGED <<pc, buffers>>
    <3>1. pc' \in {"run", "accept", "loop", "read", "parse", "write", "stopped", "terminated"}
      BY <2>2 DEF StreamInv, Types
    <3> QED BY <2>1, <2>2, <3>1, Moves DEF Serving
  <2>3. CASE pc = "accept" /\ pc' = "run" /\ UNCHANGED buffers
    BY <2>1, <2>3, Moves DEF Serving
  <2>4. CASE pc = "read" /\ pc' = "loop" /\ UNCHANGED buffers
    BY <2>1, <2>4, Moves DEF Serving
  <2>5. CASE pc = "write" /\ pc' = "run" /\ stream_buffer' = <<>> /\ reply' = <<>>
    BY <2>1, <2>5, Leaves DEF Serving
  <2> QED BY <2>1, <2>2, <2>3, <2>4, <2>5
<1> QED
  BY <1>1, <1>2, <1>3, <1>4, <1>5, <1>6, <1>7, <1>8, <1>9, <1>10, <1>11, <1>12, <1>13
  DEF ServerStep

-----------------------------------------------------------------------------
\* The steps of a client.

LEMMA ServerSame ==
  ASSUME UNCHANGED server
  PROVE  /\ UNCHANGED <<pc, newsockfd, accepted, stream_buffer, reply, tuples, executed>>
         /\ \A d : /\ Served(d)' <=> Served(d)
                  /\ Arrived(d)' = Arrived(d) /\ Replying(d)' = Replying(d)
         /\ UNCHANGED backlog => \A d : Attended(d)' <=> Attended(d)
<1>1. UNCHANGED <<pc, newsockfd, accepted, stream_buffer, reply, tuples, executed>>
  BY DEF server, control, buffers
<1>2. ASSUME NEW d PROVE Served(d)' <=> Served(d) BY <1>1 DEF Served, Serving
<1>3. ASSUME NEW d PROVE Arrived(d)' = Arrived(d) /\ Replying(d)' = Replying(d)
  BY <1>1, <1>2 DEF Arrived, Replying
<1>4. ASSUME UNCHANGED backlog, NEW d PROVE Attended(d)' <=> Attended(d)
  BY <1>2, <1>4 DEF Attended
<1> QED BY <1>1, <1>2, <1>3, <1>4

\* A step of the client c that does not connect it.
LEMMA OneClient ==
  ASSUME StreamInv, NEW c \in Clients, UNCHANGED <<server, backlog>>,
         Types', cpc'[c] # "new", c \in clientEnd' <=> cpc'[c] # "gone",
         \A d \in Clients \ {c} : Same(d) /\ (d \in clientEnd' <=> d \in clientEnd),
         Streams(c)'
  PROVE  StreamInv'
<1>1. UNCHANGED <<pc, newsockfd, accepted, stream_buffer, reply, backlog>> BY ServerSame
<1>2. Connections'
  <2>1. Request' = Request /\ (Serving' <=> Serving) BY <1>1 DEF Request, Serving
  <2>2. \A d \in Clients \ {c} : cpc'[d] = cpc[d] BY DEF Same
  <2>3. \A n \in DOMAIN backlog : backlog[n] \in Clients
    <3>1. backlog \in Seq(Clients) BY DEF StreamInv, Types
    <3>2. backlog \in [1..Len(backlog) -> Clients] /\ DOMAIN backlog = 1..Len(backlog)
      BY <3>1, LenProperties
    <3> QED BY <3>2
  <2>4. \A d \in accepted : d \in Clients BY DEF StreamInv, Types
  <2>5. \A n \in DOMAIN backlog : backlog[n] \notin accepted /\ cpc'[backlog[n]] # "new"
    BY <2>2, <2>3 DEF StreamInv, Connections
  <2>6. \A d \in accepted : cpc'[d] # "new" BY <2>2, <2>4 DEF StreamInv, Connections
  <2>7. \A d \in Clients : d \in clientEnd' <=> cpc'[d] \notin {"new", "gone"}
    BY <2>2 DEF StreamInv, Connections
  <2> QED BY <1>1, <2>1, <2>5, <2>6, <2>7 DEF StreamInv, Connections
<1>3. ASSUME NEW d \in Clients, d # c PROVE Streams(d)'
  <2>1. Same(d) BY <1>3
  <2>2. /\ Attended(d)' <=> Attended(d)
        /\ Arrived(d)' = Arrived(d) /\ Replying(d)' = Replying(d)
    BY ServerSame
  <2> QED BY <2>1, <2>2, Frame DEF StreamInv
<1> QED BY <1>2, <1>3 DEF StreamInv

\* Client-side streams and replies are what Types says.
LEMMA ClientTypes ==
  ASSUME StreamInv, NEW c \in Clients
  PROVE  /\ number[c] \in Nat /\ executed[c] \in Nat /\ returned[c] \in Nat
         /\ toServer[c] \in Ups /\ out[c] \in Ups /\ Arrived(c) \in Ups
         /\ toClient[c] \in Downs /\ inbox[c] \in Downs /\ Replying(c) \in Downs
         /\ request[c] \in Requests /\ request[c].length \in Nat
         /\ response[c] \in Responses /\ response[c].length \in Nat
         /\ <<>> \in Ups /\ <<>> \in Downs
<1>1. <<>> \in Ups /\ <<>> \in Downs BY EmptySeq DEF Ups, Downs
<1>2. /\ number[c] \in Nat /\ executed[c] \in Nat /\ returned[c] \in Nat
      /\ toServer[c] \in Ups /\ out[c] \in Ups
      /\ toClient[c] \in Downs /\ inbox[c] \in Downs
      /\ request[c] \in Requests /\ response[c] \in Responses
  BY DEF StreamInv, Types
<1>3. Arrived(c) \in Ups /\ Replying(c) \in Downs
  BY <1>1 DEF StreamInv, Types, Arrived, Replying
<1> QED BY <1>1, <1>2, <1>3 DEF Requests, Responses

LEMMA ExitKeeps ==
  ASSUME StreamInv, NEW c \in Clients, Exits(c), UNCHANGED server,
         returned' \in [Clients -> Nat], returned[c] <= returned'[c], returned'[c] <= executed[c],
         \A d \in Clients \ {c} : returned'[d] = returned[d]
  PROVE  StreamInv'
<1>0. /\ UNCHANGED <<backlog, toServer, number, request>>
      /\ clientEnd' = clientEnd \ {c}
      /\ toClient' = [toClient EXCEPT ![c] = <<>>]
      /\ cpc' = [cpc EXCEPT ![c] = "gone"]
      /\ out' = [out EXCEPT ![c] = <<>>]
      /\ inbox' = [inbox EXCEPT ![c] = <<>>]
      /\ response' = [response EXCEPT ![c] = NoResponse]
      /\ UNCHANGED <<pc, newsockfd, accepted, stream_buffer, reply, tuples, executed>>
  BY ServerSame DEF Exits, ClientGone
<1>1. <<>> \in Ups /\ <<>> \in Downs /\ NoResponse \in Responses
  <2>1. 0 \in Nat /\ HEADER \in Nat BY SocketsAssumption
  <2>2. "Invalid" \in Command BY DEF Command
  <2>3. NoRequest \in Requests BY <2>1, <2>2 DEF NoRequest, Requests
  <2>4. NoResponse \in Responses BY <2>1, <2>3 DEF NoResponse, Responses
  <2> QED BY <2>4, EmptySeq DEF Ups, Downs
<1>2. Types'
  <2>1. toClient' \in [Clients -> Downs] BY <1>0, <1>1 DEF StreamInv, Types
  <2>2. out' \in [Clients -> Ups] BY <1>0, <1>1 DEF StreamInv, Types
  <2>3. inbox' \in [Clients -> Downs] BY <1>0, <1>1 DEF StreamInv, Types
  <2>4. response' \in [Clients -> Responses] BY <1>0, <1>1 DEF StreamInv, Types
  <2>5. cpc' \in [Clients -> Exchanging \cup {"new", "prompt", "end of input", "gone"}]
    BY <1>0 DEF StreamInv, Types
  <2>6. clientEnd' \in SUBSET Clients BY <1>0 DEF StreamInv, Types
  <2> QED BY <1>0, <2>1, <2>2, <2>3, <2>4, <2>5, <2>6 DEF StreamInv, Types
<1>3. /\ cpc'[c] = "gone" /\ out'[c] = <<>> /\ inbox'[c] = <<>> /\ toClient'[c] = <<>>
  BY <1>0 DEF StreamInv, Types
<1>4. ASSUME NEW d \in Clients \ {c} PROVE Same(d) /\ (d \in clientEnd' <=> d \in clientEnd)
  <2>1. /\ toClient'[d] = toClient[d] /\ cpc'[d] = cpc[d] /\ out'[d] = out[d]
        /\ inbox'[d] = inbox[d] /\ response'[d] = response[d]
    BY <1>0 DEF StreamInv, Types
  <2> QED BY <1>0, <2>1 DEF Same
<1>5. Streams(c)'
  <2>1. Streams(c) BY DEF StreamInv
  <2>2. Calls(c)'
    <3>1. /\ returned[c] <= executed[c] /\ executed[c] <= number[c]
          /\ number[c] <= returned[c] + 1
      BY <2>1 DEF Streams, Calls
    <3>2. /\ returned[c] \in Nat /\ number[c] \in Nat /\ returned'[c] \in Nat
      BY ClientTypes
    <3>3. number[c] <= returned'[c] + 1 BY <3>1, <3>2
    <3>4. "gone" \notin Exchanging BY DEF Exchanging
    <3> QED BY <1>0, <1>3, <3>1, <3>3, <3>4 DEF Calls
  <2>3. Downward(c)' BY <1>3 DEF Downward
  <2>4. Upward(c)'
    <3>1. /\ Attended(c)' <=> Attended(c) /\ Arrived(c)' = Arrived(c) BY <1>0, ServerSame
    <3>2. CASE ~Attended(c) BY <3>1, <3>2 DEF Upward
    <3>3. CASE Attended(c) /\ executed[c] = number[c]
      <4>1. Length(Arrived(c), toServer[c], out[c]) = 0
        BY <2>1, <3>3 DEF Streams, Upward
      <4>2. Arrived(c) = <<>> /\ toServer[c] = <<>> /\ out[c] = <<>>
        BY <4>1, ClientTypes, Lengths DEF Ups
      <4> QED BY <1>0, <1>3, <3>1, <3>3, <4>1, <4>2 DEF Upward
    <3>4. CASE Attended(c) /\ executed[c] # number[c]
      <4>1. Carry(Arrived(c), toServer[c], out[c], request[c], 0)
        BY <2>1, <3>4 DEF Streams, Upward
      <4>2. Carry(Arrived(c), toServer[c], <<>>, request[c], 0)
        BY <4>1, ClientTypes, ThirdDropped DEF Ups
      <4> QED BY <1>0, <1>3, <3>1, <3>4, <4>2 DEF Upward
    <3> QED BY <3>2, <3>3, <3>4
  <2> QED BY <2>2, <2>3, <2>4 DEF Streams
<1> QED BY <1>0, <1>2, <1>3, <1>4, <1>5, OneClient

LEMMA FailKeeps ==
  ASSUME StreamInv, NEW c \in Clients, Fails(c), UNCHANGED server PROVE StreamInv'
<1>1. returned' = returned /\ Exits(c) BY DEF Fails
<1>2. returned \in [Clients -> Nat] BY DEF StreamInv, Types
<1>3. returned[c] <= executed[c] BY DEF StreamInv, Streams, Calls
<1>4. returned[c] <= returned[c] BY ClientTypes
<1> QED BY <1>1, <1>2, <1>3, <1>4, ExitKeeps

\* An exchange came to its end: nothing of it is left.
LEMMA ReturnKeeps ==
  ASSUME StreamInv, NEW c \in Clients, Returns(c), UNCHANGED server,
         cpc[c] \notin {"new", "write", "gone"}, executed[c] # returned[c],
         toClient[c] = <<>>, Replying(c) = <<>>
  PROVE  StreamInv'
<1>1. returned' = [returned EXCEPT ![c] = @ + 1] BY DEF Returns
<1>2. /\ returned[c] \in Nat /\ executed[c] \in Nat /\ number[c] \in Nat
      /\ returned \in [Clients -> Nat]
  BY ClientTypes DEF StreamInv, Types
<1>3. /\ returned'[c] = returned[c] + 1
      /\ \A d \in Clients \ {c} : returned'[d] = returned[d]
  BY <1>1, <1>2
<1>4. returned' \in [Clients -> Nat] BY <1>1, <1>2
<1>5. Streams(c) BY DEF StreamInv
<1>6. /\ returned[c] <= executed[c] /\ executed[c] <= number[c] /\ number[c] <= returned[c] + 1
  BY <1>5 DEF Streams, Calls
<1>7. /\ returned[c] <= returned'[c] /\ returned'[c] <= executed[c]
      /\ executed[c] = number[c] /\ number[c] = returned'[c]
  BY <1>2, <1>3, <1>6
<1>8. CASE Exits(c) BY <1>3, <1>4, <1>7, <1>8, ExitKeeps
<1>9. CASE Prompts(c)
  <2>0. /\ UNCHANGED <<backlog, clientEnd, toServer, toClient, number, request, out>>
        /\ cpc' = [cpc EXCEPT ![c] = "prompt"]
        /\ inbox' = [inbox EXCEPT ![c] = <<>>]
        /\ response' = [response EXCEPT ![c] = NoResponse]
        /\ UNCHANGED <<pc, newsockfd, accepted, stream_buffer, reply, tuples, executed>>
    BY <1>9, ServerSame DEF Prompts, sockets
  <2>1. NoResponse \in Responses /\ <<>> \in Downs
    <3>1. 0 \in Nat /\ HEADER \in Nat /\ "Invalid" \in Command
      BY SocketsAssumption DEF Command
    <3>2. NoRequest \in Requests BY <3>1 DEF NoRequest, Requests
    <3> QED BY <3>1, <3>2, ClientTypes DEF NoResponse, Responses
  <2>2. Types'
    <3>1. inbox' \in [Clients -> Downs] BY <2>0, <2>1 DEF StreamInv, Types
    <3>2. response' \in [Clients -> Responses] BY <2>0, <2>1 DEF StreamInv, Types
    <3>3. cpc' \in [Clients -> Exchanging \cup {"new", "prompt", "end of input", "gone"}]
      BY <2>0 DEF StreamInv, Types
    <3> QED BY <2>0, <1>4, <3>1, <3>2, <3>3 DEF StreamInv, Types
  <2>3. cpc'[c] = "prompt" /\ inbox'[c] = <<>> BY <2>0 DEF StreamInv, Types
  <2>4. ASSUME NEW d \in Clients \ {c} PROVE Same(d) /\ (d \in clientEnd' <=> d \in clientEnd)
    <3>1. /\ cpc'[d] = cpc[d] /\ inbox'[d] = inbox[d] /\ response'[d] = response[d]
      BY <2>0 DEF StreamInv, Types
    <3> QED BY <1>3, <2>0, <3>1 DEF Same
  <2>5. c \in clientEnd' <=> cpc'[c] # "gone"
    BY <2>0, <2>3 DEF StreamInv, Connections
  <2>6. Streams(c)'
    <3>1. Calls(c)'
      <4>1. "prompt" \notin Exchanging BY DEF Exchanging
      <4>2. out[c] = <<>> BY <1>5 DEF Streams, Calls
      <4>3. number[c] <= returned'[c] + 1 BY <1>2, <1>3, <1>7
      <4>4. returned'[c] <= executed[c] /\ executed[c] <= number[c] BY <1>6, <1>7
      <4> QED BY <1>7, <2>0, <2>3, <4>1, <4>2, <4>3, <4>4 DEF Calls
    <3>2. Upward(c)'
      <4>1. /\ Attended(c)' <=> Attended(c) /\ Arrived(c)' = Arrived(c) BY <2>0, ServerSame
      <4> QED BY <1>5, <1>7, <2>0, <2>3, <4>1 DEF Streams, Upward
    <3>3. Downward(c)'
      <4>1. Replying(c)' = <<>> BY ServerSame
      <4>2. Length(<<>>, <<>>, <<>>) = 0 BY DEF Length
      <4> QED BY <1>7, <2>0, <2>3, <4>1, <4>2 DEF Downward
    <3> QED BY <3>1, <3>2, <3>3 DEF Streams
  <2> QED BY <2>0, <2>2, <2>3, <2>4, <2>5, <2>6, OneClient
<1> QED BY <1>8, <1>9 DEF Returns

LEMMA ConnectKeeps ==
  ASSUME StreamInv, NEW c \in Clients, Connect(c), UNCHANGED server PROVE StreamInv'
<1>0. /\ UNCHANGED <<toServer, toClient, number, request, out, inbox, response, returned>>
      /\ cpc[c] = "new" /\ cpc' = [cpc EXCEPT ![c] = "prompt"]
      /\ backlog' = Append(backlog, c) /\ clientEnd' = clientEnd \cup {c}
      /\ UNCHANGED <<pc, newsockfd, accepted, stream_buffer, reply, tuples, executed>>
  BY ServerSame DEF Connect, ClientGoes, exchange
<1>1. /\ backlog \in Seq(Clients) /\ backlog' \in Seq(Clients)
      /\ Len(backlog) \in Nat /\ Len(backlog') = Len(backlog) + 1
      /\ \A n \in 1..Len(backlog) : backlog'[n] = backlog[n]
      /\ backlog'[Len(backlog) + 1] = c
      /\ DOMAIN backlog = 1..Len(backlog) /\ DOMAIN backlog' = 1..Len(backlog')
      /\ \A n \in 1..Len(backlog) : backlog[n] \in Clients
  <2>1. backlog \in Seq(Clients) BY DEF StreamInv, Types
  <2> QED BY <1>0, <2>1, AppendProperties, LenProperties
<1>2. \A n \in DOMAIN backlog' :
        \/ n \in DOMAIN backlog /\ backlog'[n] = backlog[n]
        \/ n = Len(backlog) + 1 /\ backlog'[n] = c
  BY <1>1
<1>3. cpc \in [Clients -> Exchanging \cup {"new", "prompt", "end of input", "gone"}]
  BY DEF StreamInv, Types
<1>4. cpc'[c] = "prompt" /\ \A d \in Clients \ {c} : cpc'[d] = cpc[d] BY <1>0, <1>3
<1>5. Types'
  <2>1. cpc' \in [Clients -> Exchanging \cup {"new", "prompt", "end of input", "gone"}]
    BY <1>0, <1>3
  <2>2. clientEnd' \in SUBSET Clients BY <1>0 DEF StreamInv, Types
  <2> QED BY <1>0, <1>1, <2>1, <2>2 DEF StreamInv, Types
<1>6. /\ c \notin accepted /\ \A n \in DOMAIN backlog : backlog[n] # c
      /\ accepted \subseteq Clients
  BY <1>0 DEF StreamInv, Types, Connections
<1>7. Connections'
  <2>1. Request' = Request /\ (Serving' <=> Serving) BY <1>0 DEF Request, Serving
  <2>2. \A n \in DOMAIN backlog' : backlog'[n] \notin accepted /\ cpc'[backlog'[n]] # "new"
    BY <1>1, <1>2, <1>4, <1>6 DEF StreamInv, Connections
  <2>3. \A n, m \in DOMAIN backlog' : backlog'[n] = backlog'[m] => n = m
    BY <1>2, <1>6 DEF StreamInv, Connections
  <2>4. \A d \in accepted : cpc'[d] # "new" BY <1>4, <1>6 DEF StreamInv, Connections
  <2>5. \A d \in Clients : d \in clientEnd' <=> cpc'[d] \notin {"new", "gone"}
    BY <1>0, <1>4 DEF StreamInv, Connections
  <2> QED BY <1>0, <2>1, <2>2, <2>3, <2>4, <2>5 DEF StreamInv, Connections
<1>8. \A d : /\ Served(d)' <=> Served(d)
             /\ Arrived(d)' = Arrived(d) /\ Replying(d)' = Replying(d)
  BY ServerSame
<1>9. ASSUME NEW d \in Clients \ {c} PROVE Streams(d)'
  <2>1. Same(d) BY <1>0, <1>4 DEF Same
  <2>2. Attended(d)' => Attended(d) BY <1>2, <1>8 DEF Attended
  <2> QED BY <1>8, <2>1, <2>2, Frame DEF StreamInv
<1>10. Streams(c)'
  <2>1. Streams(c) BY DEF StreamInv
  <2>2. /\ executed[c] = number[c] /\ returned[c] = number[c]
        /\ out[c] = <<>> /\ toServer[c] = <<>>
    <3>1. /\ returned[c] <= executed[c] /\ executed[c] <= number[c] /\ number[c] = returned[c]
          /\ out[c] = <<>> /\ toServer[c] = <<>>
      BY <1>0, <2>1 DEF Streams, Calls
    <3> QED BY <3>1, ClientTypes
  <2>3. Calls(c)'
    <3>1. "prompt" \notin Exchanging BY DEF Exchanging
    <3> QED BY <1>0, <1>4, <2>1, <2>2, <3>1 DEF Streams, Calls
  <2>4. Upward(c)'
    <3>1. ~Served(c) BY <1>6 DEF Served, StreamInv, Connections
    <3>2. Arrived(c)' = <<>> BY <1>8, <3>1 DEF Arrived
    <3>3. Length(<<>>, <<>>, <<>>) = 0 BY DEF Length
    <3> QED BY <1>0, <2>2, <3>2, <3>3 DEF Upward
  <2>5. Downward(c)' BY <1>0, <1>4, <1>8, <2>1 DEF Streams, Downward
  <2> QED BY <2>3, <2>4, <2>5 DEF Streams
<1> QED BY <1>5, <1>7, <1>9, <1>10 DEF StreamInv

LEMMA IdleKeeps ==
  ASSUME StreamInv, NEW c \in Clients, EndOfInput(c) \/ SignalClient(c), UNCHANGED server
  PROVE  StreamInv'
<1>0. /\ UNCHANGED <<backlog, clientEnd, toServer, toClient>>
      /\ UNCHANGED <<number, request, out, inbox, response, returned>>
      /\ UNCHANGED <<pc, newsockfd, accepted, stream_buffer, reply, tuples, executed>>
      /\ cpc' = [cpc EXCEPT ![c] = cpc'[c]]
      /\ \/ cpc[c] = "prompt" /\ cpc'[c] = "end of input"
         \/ cpc'[c] = cpc[c] /\ cpc[c] \notin {"new", "gone"}
  BY ServerSame DEF EndOfInput, SignalClient, ClientGoes, sockets, exchange, StreamInv, Types
<1>1. cpc' \in [Clients -> Exchanging \cup {"new", "prompt", "end of input", "gone"}]
  BY <1>0 DEF StreamInv, Types
<1>2. Types' BY <1>0, <1>1 DEF StreamInv, Types
<1>3. ASSUME NEW d \in Clients \ {c} PROVE Same(d) /\ (d \in clientEnd' <=> d \in clientEnd)
  BY <1>0 DEF Same, StreamInv, Types
<1>4. c \in clientEnd' <=> cpc'[c] # "gone" BY <1>0 DEF StreamInv, Connections
<1>5. Streams(c)'
  <2>1. Streams(c) BY DEF StreamInv
  <2>2. Calls(c)' BY <1>0, <2>1 DEF Streams, Calls, Exchanging
  <2>3. /\ Attended(c)' <=> Attended(c)
        /\ Arrived(c)' = Arrived(c) /\ Replying(c)' = Replying(c)
    BY <1>0, ServerSame
  <2>4. Upward(c)' BY <1>0, <2>1, <2>3 DEF Streams, Upward
  <2>5. Downward(c)' BY <1>0, <2>1, <2>3 DEF Streams, Downward
  <2> QED BY <2>2, <2>4, <2>5 DEF Streams
<1> QED BY <1>0, <1>2, <1>3, <1>4, <1>5, OneClient

LEMMA TypeKeeps ==
  ASSUME StreamInv, NEW c \in Clients, NEW q \in Queries[c], Type(c, q[1], q[2]),
         UNCHANGED server
  PROVE  StreamInv'
<1> DEFINE m == [number |-> number[c] + 1, command |-> q[1], length |-> HEADER + KEY + q[2]]
<1>0. /\ UNCHANGED <<backlog, clientEnd, toServer, toClient, inbox, response, returned>>
      /\ UNCHANGED <<pc, newsockfd, accepted, stream_buffer, reply, tuples, executed>>
      /\ cpc[c] = "prompt" /\ cpc' = [cpc EXCEPT ![c] = "write"]
      /\ number' = [number EXCEPT ![c] = @ + 1]
      /\ request' = [request EXCEPT ![c] = m]
      /\ out' = [out EXCEPT ![c] = Units(m)]
  BY ServerSame DEF Type, ClientGoes, sockets
<1>1. m \in Requests /\ m.length \in Nat /\ m.length # 0
  <2>1. q \in Command \X Nat BY QueriesAssumption
  <2>2. q[1] \in Command /\ q[2] \in Nat BY <2>1
  <2>3. HEADER + KEY + q[2] \in Nat /\ HEADER + KEY + q[2] # 0
    BY <2>2, SocketsAssumption
  <2>4. number[c] + 1 \in Nat BY ClientTypes
  <2> QED BY <2>2, <2>3, <2>4 DEF Requests
<1> HIDE DEF m
<1>2. /\ Units(m) \in Ups /\ Len(Units(m)) = m.length /\ Span(Units(m), m, 0)
  BY <1>1, UnitsAre DEF Ups
<1>3. Types'
  <2>1. number' \in [Clients -> Nat]
    <3>1. number \in [Clients -> Nat] BY DEF StreamInv, Types
    <3> QED BY <1>0, <3>1
  <2>2. request' \in [Clients -> Requests] BY <1>0, <1>1 DEF StreamInv, Types
  <2>3. out' \in [Clients -> Ups] BY <1>0, <1>2 DEF StreamInv, Types
  <2>4. cpc' \in [Clients -> Exchanging \cup {"new", "prompt", "end of input", "gone"}]
    BY <1>0 DEF StreamInv, Types, Exchanging
  <2> QED BY <1>0, <2>1, <2>2, <2>3, <2>4 DEF StreamInv, Types
<1>4. /\ cpc'[c] = "write" /\ request'[c] = m /\ out'[c] = Units(m)
      /\ number'[c] = number[c] + 1
  BY <1>0 DEF StreamInv, Types
<1>5. ASSUME NEW d \in Clients \ {c} PROVE Same(d) /\ (d \in clientEnd' <=> d \in clientEnd)
  BY <1>0 DEF Same, StreamInv, Types
<1>6. c \in clientEnd' <=> cpc'[c] # "gone" BY <1>0, <1>4 DEF StreamInv, Connections
<1>7. Streams(c)'
  <2>1. Streams(c) BY DEF StreamInv
  <2>2. number[c] = returned[c] /\ executed[c] = returned[c]
    <3>1. /\ returned[c] <= executed[c] /\ executed[c] <= number[c] /\ number[c] = returned[c]
      BY <1>0, <2>1 DEF Streams, Calls
    <3> QED BY <3>1, ClientTypes
  <2>3. /\ returned[c] \in Nat /\ returned[c] <= returned[c]
        /\ executed[c] <= number[c] + 1 /\ number[c] + 1 <= returned[c] + 1
        /\ executed[c] # number[c] + 1
    BY <2>2, ClientTypes
  <2>4. Units(m) # <<>>
    <3>1. Len(<<>>) = 0 OBVIOUS
    <3> QED BY <1>1, <1>2, <3>1
  <2>5. Calls(c)' BY <1>0, <1>4, <2>2, <2>3, <2>4 DEF Calls, Exchanging
  <2>6. /\ Attended(c)' <=> Attended(c)
        /\ Arrived(c)' = Arrived(c) /\ Replying(c)' = Replying(c)
    BY <1>0, ServerSame
  <2>7. Upward(c)'
    <3>1. CASE ~Attended(c) BY <2>6, <3>1 DEF Upward
    <3>2. CASE Attended(c)
      <4>1. Length(Arrived(c), toServer[c], out[c]) = 0
        BY <2>1, <2>2, <3>2 DEF Streams, Upward
      <4>2. Arrived(c) = <<>> /\ toServer[c] = <<>> BY <4>1, ClientTypes, Lengths DEF Ups
      <4>3. Len(<<>>) = 0 /\ Span(<<>>, m, 0) BY DEF Span
      <4>4. Length(<<>>, <<>>, Units(m)) = m.length BY <1>1, <1>2, <4>3 DEF Length
      <4>5. Carry(<<>>, <<>>, Units(m), m, 0) BY <1>1, <1>2, <4>3, <4>4 DEF Carry
      <4> QED BY <1>0, <1>4, <2>3, <2>6, <3>2, <4>2, <4>4, <4>5 DEF Upward
    <3> QED BY <3>1, <3>2
  <2>8. Downward(c)' BY <1>0, <1>4, <2>1, <2>2, <2>6 DEF Streams, Downward
  <2> QED BY <2>5, <2>7, <2>8 DEF Streams
<1> QED BY <1>0, <1>3, <1>4, <1>5, <1>6, <1>7, OneClient

LEMMA SendKeeps ==
  ASSUME StreamInv, NEW c \in Clients, Send(c), UNCHANGED server PROVE StreamInv'
<1>1. PICK n \in Pieces(out[c], toServer[c]) :
        /\ toServer' = [toServer EXCEPT ![c] = @ \o First(out[c], n)]
        /\ out' = [out EXCEPT ![c] = Rest(out[c], n)]
  BY DEF Send
<1>2. /\ UNCHANGED <<backlog, clientEnd, toClient, number, request, inbox, response, returned>>
      /\ UNCHANGED <<pc, newsockfd, accepted, stream_buffer, reply, tuples, executed>>
      /\ cpc[c] = "write"
      /\ cpc' = [cpc EXCEPT ![c] = IF out'[c] = <<>> THEN "header" ELSE "write"]
  BY ServerSame DEF Send
<1> DEFINE f == toServer[c] \o First(out[c], n)
           r == Rest(out[c], n)
<1>3. n \in 0..Len(out[c])
  <2>1. /\ Len(out[c]) \in Nat /\ Len(toServer[c]) \in Nat
        /\ n \in 1..AtMost(Len(out[c]), SOCKET_BUFFER - Len(toServer[c]))
    BY ClientTypes, LenProperties DEF Ups, Pieces
  <2> QED BY <2>1, SocketsAssumption DEF AtMost
<1>4. f \in Ups /\ r \in Ups BY <1>3, ClientTypes, FirstRest, ConcatProperties DEF Ups
<1>5. toServer' = [toServer EXCEPT ![c] = f] /\ out' = [out EXCEPT ![c] = r] BY <1>1
<1> HIDE DEF f, r
<1>6. toServer'[c] = f /\ out'[c] = r BY <1>5 DEF StreamInv, Types
<1>7. cpc'[c] = IF r = <<>> THEN "header" ELSE "write" BY <1>2, <1>6 DEF StreamInv, Types
<1>8. Types'
  <2>1. toServer' \in [Clients -> Ups] BY <1>4, <1>5 DEF StreamInv, Types
  <2>2. out' \in [Clients -> Ups] BY <1>4, <1>5 DEF StreamInv, Types
  <2>3. cpc' \in [Clients -> Exchanging \cup {"new", "prompt", "end of input", "gone"}]
    BY <1>2 DEF StreamInv, Types, Exchanging
  <2> QED BY <1>2, <2>1, <2>2, <2>3 DEF StreamInv, Types
<1>9. ASSUME NEW d \in Clients \ {c} PROVE Same(d) /\ (d \in clientEnd' <=> d \in clientEnd)
  BY <1>2, <1>5 DEF Same, StreamInv, Types
<1>10. c \in clientEnd' <=> cpc'[c] # "gone" BY <1>2, <1>7 DEF StreamInv, Connections
<1>11. Streams(c)'
  <2>1. Streams(c) BY DEF StreamInv
  <2>2. Calls(c)'
    <3>1. /\ returned[c] <= executed[c] /\ executed[c] <= number[c]
          /\ number[c] = returned[c] + 1 /\ executed[c] = returned[c]
      BY <1>2, <2>1 DEF Streams, Calls, Exchanging
    <3>2. number[c] <= returned[c] + 1 BY <2>1 DEF Streams, Calls
    <3>3. cpc'[c] \in {"header", "write"} /\ (cpc'[c] = "write" <=> r # <<>>) BY <1>7
    <3> QED BY <1>2, <1>6, <3>1, <3>2, <3>3 DEF Calls, Exchanging
  <2>3. /\ Attended(c)' <=> Attended(c)
        /\ Arrived(c)' = Arrived(c) /\ Replying(c)' = Replying(c)
    BY <1>2, ServerSame
  <2>4. executed[c] = returned[c] /\ number[c] = returned[c] + 1 /\ executed[c] # number[c]
    <3>1. executed[c] = returned[c] /\ number[c] = returned[c] + 1
      BY <1>2, <2>1 DEF Streams, Calls, Exchanging
    <3> QED BY <3>1, ClientTypes
  <2>5. Downward(c)' BY <1>2, <1>7, <2>1, <2>3, <2>4 DEF Streams, Downward
  <2>6. Upward(c)'
    <3>1. CASE ~Attended(c) BY <2>3, <3>1 DEF Upward
    <3>2. CASE Attended(c)
      <4>1. /\ Carry(Arrived(c), toServer[c], out[c], request[c], 0)
            /\ Length(Arrived(c), toServer[c], out[c]) = request[c].length
        BY <1>2, <2>1, <2>4, <3>2 DEF Streams, Upward
      <4>2. /\ Carry(Arrived(c), f, r, request[c], 0)
            /\ Length(Arrived(c), f, r) = request[c].length
        <5>1. PICK S, u, v, w, m : /\ S = [of : Requests, at : Nat] /\ m = request[c]
                                   /\ u = Arrived(c) /\ v = toServer[c] /\ w = out[c]
          OBVIOUS
        <5>2. u \in Seq(S) /\ v \in Seq(S) /\ w \in Seq(S) BY <5>1, ClientTypes DEF Ups
        <5>3. Carry(u, v, w, m, 0) /\ Length(u, v, w) = m.length /\ n \in 0..Len(w)
          BY <1>3, <4>1, <5>1
        <5>4. /\ Carry(u, v \o First(w, n), Rest(w, n), m, 0)
              /\ Length(u, v \o First(w, n), Rest(w, n)) = m.length
          <6>1. 0 \in Nat OBVIOUS
          <6>2. /\ Carry(u, v \o First(w, n), Rest(w, n), m, 0)
                /\ Length(u, v \o First(w, n), Rest(w, n)) = Length(u, v, w)
            BY ONLY <5>2, <5>3, <6>1, ThirdMoves
          <6> QED BY <5>3, <6>2
        <5> QED BY <5>1, <5>4 DEF f, r
      <4> QED BY <1>2, <1>6, <2>3, <2>4, <4>2 DEF Upward
    <3> QED BY <3>1, <3>2
  <2> QED BY <2>2, <2>5, <2>6 DEF Streams
<1> QED BY <1>2, <1>7, <1>8, <1>9, <1>10, <1>11, OneClient

LEMMA ReceiveKeeps ==
  ASSUME StreamInv, NEW c \in Clients, Receive(c), UNCHANGED server PROVE StreamInv'
<1> DEFINE n == AtMost(Wanted(c) - Len(inbox[c]), Len(toClient[c]))
           f == inbox[c] \o First(toClient[c], n)
           r == Rest(toClient[c], n)
<1>1. /\ n > 0
      /\ inbox' = [inbox EXCEPT ![c] = f] /\ toClient' = [toClient EXCEPT ![c] = r]
      /\ UNCHANGED <<backlog, clientEnd, toServer, number, request, out, response, returned, cpc>>
      /\ UNCHANGED <<pc, newsockfd, accepted, stream_buffer, reply, tuples, executed>>
  BY ServerSame DEF Receive
<1>2. cpc[c] \in {"header", "payload"} /\ n \in 0..Len(toClient[c]) /\ toClient[c] # <<>>
  <2>1. /\ Len(inbox[c]) \in Nat /\ Len(toClient[c]) \in Nat
    BY ClientTypes, LenProperties DEF Downs
  <2>2. HEADER \in Nat /\ response[c].length \in Nat BY SocketsAssumption, ClientTypes
  <2>3. Wanted(c) \in Int BY <2>2 DEF Wanted
  <2>4. n \in Int /\ n <= Len(toClient[c]) /\ n <= Wanted(c) - Len(inbox[c])
    BY <2>1, <2>3 DEF AtMost
  <2>5. Wanted(c) > 0 BY <1>1, <2>1, <2>3, <2>4
  <2>6. cpc[c] \in {"header", "payload"} BY <2>5 DEF Wanted
  <2>7. n \in 0..Len(toClient[c]) /\ Len(toClient[c]) # 0 BY <1>1, <2>1, <2>4
  <2>8. Len(<<>>) = 0 OBVIOUS
  <2> QED BY <2>6, <2>7, <2>8
<1>3. f \in Downs /\ r \in Downs
  BY <1>2, ClientTypes, FirstRest, ConcatProperties DEF Downs
<1> HIDE DEF n, f, r
<1>4. inbox'[c] = f /\ toClient'[c] = r BY <1>1 DEF StreamInv, Types
<1>5. Types'
  <2>1. inbox' \in [Clients -> Downs] BY <1>1, <1>3 DEF StreamInv, Types
  <2>2. toClient' \in [Clients -> Downs] BY <1>1, <1>3 DEF StreamInv, Types
  <2> QED BY <1>1, <2>1, <2>2 DEF StreamInv, Types
<1>6. ASSUME NEW d \in Clients \ {c} PROVE Same(d) /\ (d \in clientEnd' <=> d \in clientEnd)
  BY <1>1 DEF Same, StreamInv, Types
<1>7. c \in clientEnd' <=> cpc'[c] # "gone" BY <1>1, <1>2 DEF StreamInv, Connections
<1>8. Streams(c)'
  <2>1. Streams(c) BY DEF StreamInv
  <2>2. Calls(c)' BY <1>1, <1>2, <2>1 DEF Streams, Calls
  <2>3. /\ Attended(c)' <=> Attended(c)
        /\ Arrived(c)' = Arrived(c) /\ Replying(c)' = Replying(c)
    BY <1>1, ServerSame
  <2>4. Upward(c)' BY <1>1, <2>1, <2>3 DEF Streams, Upward
  <2>5. executed[c] # returned[c]
    <3>1. Length(inbox[c], toClient[c], Replying(c)) = 0 => toClient[c] = <<>>
      BY ClientTypes, Lengths DEF Downs
    <3> QED BY <1>2, <2>1, <3>1 DEF Streams, Downward
  <2>6. ASSUME NEW m, NEW i \in Nat, Carry(inbox[c], toClient[c], Replying(c), m, i)
        PROVE  Carry(f, r, Replying(c), m, i)
    BY <1>2, <2>6, ClientTypes, SecondMoves DEF Downs, f, r
  <2>7. CASE cpc[c] = "header"
    <3>1. PICK m \in Responses : /\ m.to = request[c] /\ HEADER <= m.length
                                 /\ Carry(inbox[c], toClient[c], Replying(c), m, 0)
      BY <2>1, <2>5, <2>7 DEF Streams, Downward
    <3>2. Carry(f, r, Replying(c), m, 0) BY <2>6, <3>1
    <3>3. Downward(c)' BY <1>1, <1>4, <2>3, <2>5, <2>7, <3>1, <3>2 DEF Downward
    <3> QED BY <2>2, <2>4, <3>3 DEF Streams
  <2>8. CASE cpc[c] = "payload"
    <3>1. /\ HEADER <= response[c].length
          /\ Carry(inbox[c], toClient[c], Replying(c), response[c], HEADER)
      BY <2>1, <2>8 DEF Streams, Downward
    <3>2. Carry(f, r, Replying(c), response[c], HEADER) BY <2>6, <3>1, SocketsAssumption
    <3>3. Downward(c)' BY <1>1, <1>4, <2>3, <2>5, <2>8, <3>1, <3>2 DEF Downward
    <3> QED BY <2>2, <2>4, <3>3 DEF Streams
  <2> QED BY <1>2, <2>7, <2>8
<1> QED BY <1>1, <1>2, <1>5, <1>6, <1>7, <1>8, OneClient

\* A header that was read is that of the reply to the client's request.
LEMMA AtReply ==
  ASSUME StreamInv, NEW c \in Clients, HeaderRead(c)
  PROVE  /\ executed[c] # returned[c] /\ executed[c] = number[c]
         /\ Head(inbox[c]).at = 1 /\ Head(inbox[c]).of \in Responses
         /\ Head(inbox[c]).of.to = request[c] /\ HEADER <= Head(inbox[c]).of.length
         /\ Carry(inbox[c], toClient[c], Replying(c), Head(inbox[c]).of, 0)
<1>1. Streams(c) /\ cpc[c] = "header" BY DEF StreamInv, HeaderRead
<1>2. inbox[c] # <<>>
  <2>1. Len(<<>>) = 0 OBVIOUS
  <2> QED BY <2>1, SocketsAssumption DEF HeaderRead
<1>3. executed[c] # returned[c]
  <2>1. Length(inbox[c], toClient[c], Replying(c)) = 0 => inbox[c] = <<>>
    BY ClientTypes, Lengths DEF Downs
  <2> QED BY <1>1, <1>2, <2>1 DEF Streams, Downward
<1>4. executed[c] = number[c]
  <2>1. /\ returned[c] <= executed[c] /\ executed[c] <= number[c] /\ number[c] <= returned[c] + 1
    BY <1>1 DEF Streams, Calls
  <2> QED BY <1>3, <2>1, ClientTypes
<1>5. PICK m \in Responses : /\ m.to = request[c] /\ HEADER <= m.length
                             /\ Carry(inbox[c], toClient[c], Replying(c), m, 0)
  BY <1>1, <1>3 DEF Streams, Downward
<1>6. m.length \in Nat BY DEF Responses
<1>7. Head(inbox[c]) = [of |-> m, at |-> 1]
  <2>1. inbox[c] \in Downs /\ toClient[c] \in Downs /\ Replying(c) \in Downs
    BY ClientTypes
  <2>2. inbox[c] # <<>> => Head(inbox[c]) = [of |-> m, at |-> 1]
    <3> DEFINE S == [of : Responses, at : Nat]
               u == inbox[c]
               v == toClient[c]
               w == Replying(c)
    <3>1. u \in Seq(S) /\ v \in Seq(S) /\ w \in Seq(S) BY <2>1 DEF Downs
    <3>2. Carry(u, v, w, m, 0) /\ m.length \in Nat BY <1>5, <1>6
    <3> HIDE DEF S, u, v, w
    <3>3. u # <<>> => Head(u) = [of |-> m, at |-> 1] BY <3>1, <3>2, FirstIs
    <3> QED BY <3>3 DEF u
  <2> QED BY <1>2, <2>2
<1>8. Head(inbox[c]).of = m /\ Head(inbox[c]).at = 1 BY <1>7
<1> QED BY <1>3, <1>4, <1>5, <1>8

LEMMA CheckHeaderKeeps ==
  ASSUME StreamInv, NEW c \in Clients, CheckHeader(c), UNCHANGED server PROVE StreamInv'
<1> DEFINE m == Head(inbox[c]).of
<1>1. HeaderRead(c) BY DEF CheckHeader
<1>2. /\ executed[c] # returned[c] /\ executed[c] = number[c]
      /\ Head(inbox[c]).at = 1 /\ m \in Responses
      /\ m.to = request[c] /\ HEADER <= m.length
      /\ Carry(inbox[c], toClient[c], Replying(c), m, 0)
  BY <1>1, AtReply
<1>3. ResponseGood(c) BY <1>2 DEF ResponseGood
<1>4. /\ UNCHANGED <<backlog, clientEnd, toServer, toClient, number, request, out, returned>>
      /\ response' = [response EXCEPT ![c] = m]
      /\ inbox' = [inbox EXCEPT ![c] = <<>>]
      /\ cpc' = [cpc EXCEPT ![c] = "payload"]
      /\ UNCHANGED <<pc, newsockfd, accepted, stream_buffer, reply, tuples, executed>>
      /\ cpc[c] = "header" /\ Len(inbox[c]) = HEADER
  BY <1>1, <1>3, ServerSame DEF CheckHeader, HeaderRead, sockets
<1> HIDE DEF m
<1>5. response'[c] = m /\ inbox'[c] = <<>> /\ cpc'[c] = "payload"
  BY <1>4 DEF StreamInv, Types
<1>6. Types'
  <2>1. inbox' \in [Clients -> Downs] BY <1>4, ClientTypes DEF StreamInv, Types
  <2>2. response' \in [Clients -> Responses] BY <1>2, <1>4 DEF StreamInv, Types
  <2>3. cpc' \in [Clients -> Exchanging \cup {"new", "prompt", "end of input", "gone"}]
    BY <1>4 DEF StreamInv, Types, Exchanging
  <2> QED BY <1>4, <2>1, <2>2, <2>3 DEF StreamInv, Types
<1>7. ASSUME NEW d \in Clients \ {c} PROVE Same(d) /\ (d \in clientEnd' <=> d \in clientEnd)
  BY <1>4 DEF Same, StreamInv, Types
<1>8. c \in clientEnd' <=> cpc'[c] # "gone" BY <1>4, <1>5 DEF StreamInv, Connections
<1>9. Streams(c)'
  <2>1. Streams(c) BY DEF StreamInv
  <2>2. Calls(c)' BY <1>2, <1>4, <1>5, <2>1 DEF Streams, Calls, Exchanging
  <2>3. /\ Attended(c)' <=> Attended(c)
        /\ Arrived(c)' = Arrived(c) /\ Replying(c)' = Replying(c)
    BY <1>4, ServerSame
  <2>4. Upward(c)' BY <1>4, <1>5, <2>1, <2>3 DEF Streams, Upward
  <2>5. Carry(<<>>, toClient[c], Replying(c), m, 0 + Len(inbox[c]))
    BY <1>2, ClientTypes, FirstUsed DEF Downs
  <2>6. 0 + Len(inbox[c]) = HEADER BY <1>4, SocketsAssumption
  <2>7. Carry(<<>>, toClient[c], Replying(c), m, HEADER) BY <2>5, <2>6
  <2>8. Downward(c)' BY <1>2, <1>4, <1>5, <2>3, <2>7 DEF Downward
  <2> QED BY <2>2, <2>4, <2>8 DEF Streams
<1> QED BY <1>4, <1>5, <1>6, <1>7, <1>8, <1>9, OneClient

LEMMA FetchReplyKeeps ==
  ASSUME StreamInv, NEW c \in Clients, FetchReply(c), UNCHANGED server PROVE StreamInv'
<1>1. cpc[c] = "payload" /\ Len(inbox[c]) = response[c].length - HEADER /\ Returns(c)
  BY DEF FetchReply, ReplyComplete, Wanted
<1>2. Streams(c) BY DEF StreamInv
<1>3. executed[c] # returned[c]
  <2>1. executed[c] = number[c] /\ number[c] = returned[c] + 1
    BY <1>1, <1>2 DEF Streams, Calls, Exchanging
  <2> QED BY <2>1, ClientTypes
<1>4. HEADER + Length(inbox[c], toClient[c], Replying(c)) <= response[c].length
  BY <1>1, <1>2 DEF Streams, Downward, Carry
<1>5. toClient[c] = <<>> /\ Replying(c) = <<>>
  <2> DEFINE a == Len(inbox[c])
             b == Len(toClient[c])
             w == Len(Replying(c))
             total == response[c].length
  <2>1. Length(<<>>, toClient[c], Replying(c)) = 0
    <3>1. a \in Nat /\ b \in Nat /\ w \in Nat /\ total \in Nat /\ HEADER \in Nat
      BY ClientTypes, LenProperties, SocketsAssumption DEF Downs
    <3>2. a = total - HEADER /\ HEADER + (a + b + w) <= total BY <1>1, <1>4 DEF Length
    <3> HIDE DEF a, b, w, total
    <3>3. b + w = 0 BY <3>1, <3>2
    <3>4. Len(<<>>) + b + w = 0 BY <3>1, <3>3
    <3> QED BY <3>4 DEF Length, b, w
  <2>2. toClient[c] \in Downs /\ Replying(c) \in Downs /\ <<>> \in Downs
    BY ClientTypes DEF Downs
  <2> QED BY ONLY <2>1, <2>2, NoUnits DEF Downs
<1> QED BY <1>1, <1>3, <1>5, ReturnKeeps

LEMMA ClientKeeps ==
  ASSUME StreamInv, NEW c \in Clients, UserStep(c) \/ ExchangeStep(c), UNCHANGED server
  PROVE  StreamInv'
<1>1. CASE Connect(c) BY <1>1, ConnectKeeps
<1>2. CASE Refused(c) BY <1>2, FailKeeps DEF Refused
<1>3. CASE \E q \in Queries[c] : Type(c, q[1], q[2]) BY <1>3, TypeKeeps
<1>4. CASE EndOfInput(c) \/ SignalClient(c) BY <1>4, IdleKeeps
<1>5. CASE Die(c) BY <1>5, FailKeeps DEF Die
<1>6. CASE Send(c) BY <1>6, SendKeeps
<1>7. CASE SendFails(c) BY <1>7, FailKeeps DEF SendFails
<1>8. CASE Receive(c) BY <1>8, ReceiveKeeps
<1>9. CASE ReceiveFails(c) BY <1>9, FailKeeps DEF ReceiveFails
<1>10. CASE CheckHeader(c) BY <1>10, CheckHeaderKeeps
<1>11. CASE FetchReply(c) BY <1>11, FetchReplyKeeps
<1> QED
  BY <1>1, <1>2, <1>3, <1>4, <1>5, <1>6, <1>7, <1>8, <1>9, <1>10, <1>11
  DEF UserStep, ExchangeStep

-----------------------------------------------------------------------------
\* The streams always carry what they should.

LEMMA StreamInit == Init => StreamInv
<1> SUFFICES ASSUME Init PROVE StreamInv
  OBVIOUS
<1>1. /\ pc = "run" /\ newsockfd = NoClient /\ accepted = {} /\ clientEnd = {}
      /\ backlog = <<>> /\ stream_buffer = <<>> /\ reply = <<>> /\ tuples = {}
      /\ toServer = [c \in Clients |-> <<>>] /\ toClient = [c \in Clients |-> <<>>]
      /\ executed = [c \in Clients |-> 0] /\ number = [c \in Clients |-> 0]
      /\ returned = [c \in Clients |-> 0] /\ cpc = [c \in Clients |-> "new"]
      /\ request = [c \in Clients |-> NoRequest]
      /\ response = [c \in Clients |-> NoResponse]
      /\ out = [c \in Clients |-> <<>>] /\ inbox = [c \in Clients |-> <<>>]
  BY DEF Init, SocketsInit, ServerInit, ClientsInit
<1>2. /\ <<>> \in Ups /\ <<>> \in Downs /\ NoRequest \in Requests /\ NoResponse \in Responses
      /\ backlog \in Seq(Clients)
  <2>1. 0 \in Nat /\ HEADER \in Nat /\ "Invalid" \in Command
    BY SocketsAssumption DEF Command
  <2>2. NoRequest \in Requests BY <2>1 DEF NoRequest, Requests
  <2>3. NoResponse \in Responses BY <2>1, <2>2 DEF NoResponse, Responses
  <2> QED BY <1>1, <2>2, <2>3, EmptySeq DEF Ups, Downs
<1>3. Types
  <2>1. /\ number \in [Clients -> Nat] /\ executed \in [Clients -> Nat]
        /\ returned \in [Clients -> Nat]
    BY <1>1
  <2>2. cpc \in [Clients -> Exchanging \cup {"new", "prompt", "end of input", "gone"}] BY <1>1
  <2> QED BY <1>1, <1>2, <2>1, <2>2 DEF Types
<1>4. ~Serving BY <1>1 DEF Serving
<1>5. Connections BY <1>1, <1>4 DEF Connections
<1>6. ASSUME NEW c \in Clients PROVE Streams(c)
  <2>1. Calls(c)
    <3>1. "new" \notin Exchanging BY DEF Exchanging
    <3> QED BY <1>1, <3>1 DEF Calls
  <2>2. Upward(c) BY <1>1, <1>4 DEF Upward, Attended, Served
  <2>3. Downward(c)
    <3>1. Replying(c) = <<>> BY <1>1 DEF Replying
    <3>2. Length(<<>>, <<>>, <<>>) = 0 BY DEF Length
    <3> QED BY <1>1, <3>1, <3>2 DEF Downward
  <2> QED BY <2>1, <2>2, <2>3 DEF Streams
<1> QED BY <1>3, <1>5, <1>6 DEF StreamInv

LEMMA StreamStep == ASSUME StreamInv, [Next]_vars PROVE StreamInv'
<1>1. CASE ServerNext BY <1>1, ServerKeeps DEF ServerNext
<1>2. ASSUME NEW c \in Clients, ClientNext(c) PROVE StreamInv'
  BY <1>2, ClientKeeps DEF ClientNext
<1>3. CASE UNCHANGED vars
  <2>1. UNCHANGED <<sockets, newsockfd, accepted, buffers, tuples, executed, clients, pc>>
    BY <1>3 DEF vars, server, control
  <2>2. pc' \in {"run", "accept", "loop", "read", "parse", "write", "stopped", "terminated"}
    BY <2>1 DEF StreamInv, Types
  <2>3. (Serving' <=> Serving) /\ (pc' = "write" <=> pc = "write") BY <2>1 DEF Serving
  <2> QED BY <2>1, <2>2, <2>3, Moves
<1> QED BY <1>1, <1>2, <1>3 DEF Next

LEMMA StreamsKept == Spec => []StreamInv
BY StreamInit, StreamStep, PTL DEF Spec

\* However the streams are cut, the server and its clients keep step.
THEOREM KeepInStep == Spec => []InStep
<1>1. StreamInv => InStep BY AtRequest, AtReply DEF InStep, ResponseGood
<1> QED BY <1>1, StreamsKept, PTL

LEMMA ExecutedWhole ==
  ASSUME StreamInv, [Next]_vars, NEW c \in Clients, executed'[c] # executed[c]
  PROVE  /\ Len(stream_buffer) >= request[c].length
         /\ First(stream_buffer, request[c].length) = Units(request[c])
         /\ executed'[c] = executed[c] + 1 /\ executed[c] # number[c]
         /\ \A d \in Clients \ {c} : executed'[d] = executed[d]
         /\ UNCHANGED clients
<1>1. ASSUME UNCHANGED executed PROVE FALSE BY <1>1
<1>2. ASSUME NEW d \in Clients, ClientNext(d) PROVE FALSE
  BY <1>1, <1>2 DEF ClientNext, server
<1>3. \/ HandleSearch \/ HandleInsert \/ HandleDelete
  <2>1. ServerNext BY <1>1, <1>2 DEF Next, vars, server
  <2> QED
    BY <1>1, <2>1
    DEF ServerNext, ServerStep, RunServer, Stop, Accept, AcceptFails, HandleClient, Read,
        ReadEnd, Unhandled, HandleOversized, HandleQuit, Write, WriteGone, Replied, Signal
<1>4. UNCHANGED clients BY <1>1, <1>2 DEF Next, ServerNext, vars, server
<1>5. /\ pc = "parse" /\ HeaderComplete /\ Complete /\ UNCHANGED clientEnd
      /\ executed' = [executed EXCEPT ![newsockfd] = @ + 1]
  BY <1>3 DEF HandleSearch, HandleInsert, HandleDelete, Handle, Respond, sockets
<1>6. c = newsockfd BY <1>5 DEF StreamInv, Types
<1>7. /\ stream_buffer = Units(request[c]) /\ Len(stream_buffer) = request[c].length
      /\ executed[c] # number[c]
  BY <1>5, <1>6, AtRequest
<1>8. executed'[c] = executed[c] + 1 /\ \A d \in Clients \ {c} : executed'[d] = executed[d]
  BY <1>5, <1>6 DEF StreamInv, Types
<1>9. stream_buffer \in Ups BY DEF StreamInv, Types
<1>10. Len(stream_buffer) >= request[c].length BY <1>7, ClientTypes
<1>11. First(stream_buffer, Len(stream_buffer)) = stream_buffer
  BY <1>9, SubSeqFull DEF First, Ups
<1> QED BY <1>4, <1>5, <1>7, <1>8, <1>10, <1>11

\* A request is executed when all of it has arrived.
THEOREM ExecutedAsWholes == Spec => WholeRequests
<1>1. ASSUME StreamInv, [Next]_vars
      PROVE  [\A c \in Clients : executed'[c] # executed[c] =>
                 /\ Len(stream_buffer) >= request[c].length
                 /\ First(stream_buffer, request[c].length) = Units(request[c])]_vars
  BY <1>1, ExecutedWhole
<1> QED BY <1>1, StreamsKept, PTL DEF Spec, WholeRequests

-----------------------------------------------------------------------------
\* Types.

LEMMA SizesMove ==
  ASSUME NEW S, NEW u \in Seq(S), NEW v \in Seq(S), NEW n \in Pieces(v, u)
  PROVE  n \in 0..Len(v) /\ Len(u \o First(v, n)) <= SOCKET_BUFFER
<1>1. Len(u) \in Nat /\ Len(v) \in Nat BY LenProperties
<1>2. n \in 0..Len(v) /\ Len(u) + n <= SOCKET_BUFFER
  BY <1>1, SocketsAssumption DEF Pieces, AtMost
<1>3. First(v, n) \in Seq(S) /\ Len(First(v, n)) = n BY <1>2, FirstRest
<1> DEFINE f == First(v, n)
<1>4. f \in Seq(S) /\ Len(f) = n BY <1>3
<1> HIDE DEF f
<1>5. Len(u \o f) = Len(u) + Len(f) BY <1>4, ConcatProperties
<1> QED BY <1>2, <1>4, <1>5 DEF f

LEMMA SizesShrink ==
  ASSUME NEW S, NEW s \in Seq(S), Len(s) <= SOCKET_BUFFER, NEW n \in 0..Len(s)
  PROVE  Len(Rest(s, n)) <= SOCKET_BUFFER
<1>1. Len(s) \in Nat /\ Len(Rest(s, n)) = Len(s) - n BY FirstRest, LenProperties
<1> QED BY <1>1, SocketsAssumption

Sizes == \A c \in Clients : /\ Len(toServer[c]) <= SOCKET_BUFFER
                             /\ Len(toClient[c]) <= SOCKET_BUFFER

LEMMA SizesStep == ASSUME StreamInv, Sizes, [Next]_vars PROVE Sizes'
<1>0. /\ toServer \in [Clients -> Ups] /\ toClient \in [Clients -> Downs]
      /\ Len(<<>>) <= SOCKET_BUFFER
  <2>1. toServer \in [Clients -> Ups] /\ toClient \in [Clients -> Downs] BY DEF StreamInv, Types
  <2>2. Len(<<>>) = 0 /\ 0 <= SOCKET_BUFFER BY SocketsAssumption
  <2> QED BY <2>1, <2>2
<1>1. CASE UNCHANGED <<toServer, toClient>> BY <1>1 DEF Sizes
<1>2. ASSUME NEW c \in Clients, NEW t, toServer' = [toServer EXCEPT ![c] = t],
             Len(t) <= SOCKET_BUFFER, UNCHANGED toClient
      PROVE  Sizes'
  BY <1>0, <1>2 DEF Sizes
<1>3. ASSUME NEW c \in Clients, NEW t, toClient' = [toClient EXCEPT ![c] = t],
             Len(t) <= SOCKET_BUFFER, UNCHANGED toServer
      PROVE  Sizes'
  BY <1>0, <1>3 DEF Sizes
<1>4. CASE Stop \/ AcceptFails
  <2>1. toServer' = [c \in Clients |-> <<>>] /\ UNCHANGED toClient
    BY <1>4 DEF Stop, AcceptFails, ServerGone
  <2> QED BY <1>0, <2>1 DEF Sizes
<1>5. CASE Read
  <2> DEFINE c == newsockfd
             n == AtMost(READ_SIZE, Len(toServer[c]))
  <2>1. /\ toServer' = [toServer EXCEPT ![c] = Rest(toServer[c], n)]
        /\ UNCHANGED toClient /\ pc = "read"
    BY <1>5 DEF Read
  <2>2. c \in Clients BY <2>1 DEF StreamInv, Types, Connections, Serving
  <2>3. toServer[c] \in Ups /\ Len(toServer[c]) \in Nat BY <2>2, ClientTypes, LenProperties DEF Ups
  <2>4. n \in 0..Len(toServer[c]) BY <2>3, ServerAssumption DEF AtMost
  <2>5. Len(Rest(toServer[c], n)) <= SOCKET_BUFFER
    BY <2>2, <2>3, <2>4, SizesShrink DEF Sizes, Ups
  <2> QED BY <1>2, <2>1, <2>2, <2>5
<1>6. CASE Write
  <2> DEFINE c == newsockfd
  <2>1. PICK n \in Pieces(reply, toClient[c]) :
          toClient' = [toClient EXCEPT ![c] = @ \o First(reply, n)]
    BY <1>6 DEF Write
  <2>2. UNCHANGED toServer /\ pc = "write" BY <1>6 DEF Write
  <2>3. c \in Clients BY <2>2 DEF StreamInv, Types, Connections, Serving
  <2>4. reply \in Downs /\ toClient[c] \in Downs BY <2>3 DEF StreamInv, Types
  <2>5. Len(toClient[c] \o First(reply, n)) <= SOCKET_BUFFER BY <2>4, SizesMove DEF Downs
  <2> QED BY <1>3, <2>1, <2>2, <2>3, <2>5
<1>7. ASSUME NEW c \in Clients, ClientGone(c) PROVE Sizes'
  <2>1. toClient' = [toClient EXCEPT ![c] = <<>>] /\ UNCHANGED toServer
    BY <1>7 DEF ClientGone
  <2> QED BY <1>0, <1>3, <2>1
<1>8. ASSUME NEW c \in Clients, Send(c) PROVE Sizes'
  <2>1. PICK n \in Pieces(out[c], toServer[c]) :
          toServer' = [toServer EXCEPT ![c] = @ \o First(out[c], n)]
    BY <1>8 DEF Send
  <2>2. UNCHANGED toClient BY <1>8 DEF Send
  <2>3. Len(toServer[c] \o First(out[c], n)) <= SOCKET_BUFFER
    BY ClientTypes, SizesMove DEF Ups
  <2> QED BY <1>2, <2>1, <2>2, <2>3
<1>9. ASSUME NEW c \in Clients, Receive(c), UNCHANGED server PROVE Sizes'
  <2> DEFINE n == AtMost(Wanted(c) - Len(inbox[c]), Len(toClient[c]))
  <2>1. /\ n > 0 /\ toClient' = [toClient EXCEPT ![c] = Rest(toClient[c], n)]
        /\ UNCHANGED toServer
    BY <1>9 DEF Receive
  <2>2. toClient[c] \in Downs /\ Len(toClient[c]) \in Nat /\ Len(inbox[c]) \in Nat
    BY ClientTypes, LenProperties DEF Downs
  <2>3. HEADER \in Nat /\ response[c].length \in Nat BY SocketsAssumption, ClientTypes
  <2>4. Wanted(c) \in Int BY <2>3 DEF Wanted
  <2>5. n \in 0..Len(toClient[c]) BY <2>1, <2>2, <2>4 DEF AtMost
  <2>6. Len(Rest(toClient[c], n)) <= SOCKET_BUFFER BY <2>2, <2>5, SizesShrink DEF Sizes, Downs
  <2> QED BY <1>3, <2>1, <2>6
<1>10. ASSUME ServerNext, ~(Stop \/ AcceptFails \/ Read \/ Write)
       PROVE  UNCHANGED <<toServer, toClient>>
  BY <1>10
  DEF ServerNext, ServerStep, RunServer, Accept, HandleClient, ReadEnd, Unhandled, HandleSearch,
      HandleInsert, HandleDelete, Respond, HandleOversized, HandleQuit, WriteGone, Replied,
      Signal, sockets
<1>11. ASSUME NEW c \in Clients, ClientNext(c)
       PROVE  \/ UNCHANGED <<toServer, toClient>> \/ ClientGone(c) \/ Send(c)
              \/ Receive(c) /\ UNCHANGED server
  BY <1>11
  DEF ClientNext, UserStep, ExchangeStep, Connect, Refused, Type, EndOfInput, SignalClient, Die,
      SendFails, ReceiveFails, CheckHeader, FetchReply, Fails, Exits, Returns, Prompts, sockets
<1>12. CASE UNCHANGED vars BY <1>1, <1>12 DEF vars, sockets
<1> QED
  BY <1>1, <1>4, <1>5, <1>6, <1>7, <1>8, <1>9, <1>10, <1>11, <1>12 DEF Next

Control == /\ newsockfd \in accepted \cup {NoClient}
           /\ server_running \in BOOLEAN
           /\ listening <=> ~Ended

LEMMA ControlStep == ASSUME StreamInv, Control, [Next]_vars PROVE Control'
<1>1. CASE UNCHANGED <<control, listening>> BY <1>1 DEF Control, control, Ended
<1>2. CASE \E c \in Clients : ClientNext(c)
  <2>1. UNCHANGED control /\ UNCHANGED listening
    BY <1>2
    DEF ClientNext, UserStep, ExchangeStep, Connect, Refused, Type, EndOfInput, SignalClient,
        Die, Send, SendFails, Receive, ReceiveFails, CheckHeader, FetchReply, Fails, Exits,
        Returns, Prompts, ClientGone, sockets, server
  <2> QED BY <1>1, <2>1
<1>3. CASE Accept
  <2>1. /\ newsockfd' \in accepted' /\ UNCHANGED <<server_running, listening>>
        /\ pc = "accept" /\ pc' = "loop"
    BY <1>3 DEF Accept
  <2> QED BY <2>1 DEF Control, Ended
<1>4. CASE Stop \/ AcceptFails
  <2>1. /\ UNCHANGED <<newsockfd, accepted, server_running>> /\ listening' = FALSE
        /\ pc' \in {"stopped", "terminated"}
    BY <1>4 DEF Stop, AcceptFails, ServerGone
  <2> QED BY <2>1 DEF Control, Ended
<1>5. CASE Signal
  <2>1. /\ UNCHANGED <<newsockfd, accepted, listening>> /\ server_running' = FALSE
        /\ ~Ended /\ pc' \in {pc, "run", "loop"}
    BY <1>5 DEF Signal, sockets
  <2> QED BY <2>1 DEF Control, Ended
<1>6. ASSUME ServerStep, ~(Accept \/ Stop \/ AcceptFails) PROVE Control'
  <2>1. UNCHANGED <<newsockfd, accepted, server_running, listening>>
    BY <1>6
    DEF ServerStep, RunServer, HandleClient, Read, ReadEnd, Unhandled, HandleSearch,
        HandleInsert, HandleDelete, Respond, HandleOversized, HandleQuit, Write, WriteGone,
        Replied, Leave, Continue, Goto, sockets, control
  <2>2. pc' \notin {"stopped", "terminated"} /\ pc \notin {"stopped", "terminated"}
    BY <1>6
    DEF ServerStep, RunServer, HandleClient, Read, ReadEnd, Unhandled, HandleSearch,
        HandleInsert, HandleDelete, Respond, HandleOversized, HandleQuit, Write, WriteGone,
        Replied, Handle, Leave, Continue, Goto, control
  <2> QED BY <2>1, <2>2 DEF Control, Ended
<1>7. CASE UNCHANGED vars BY <1>1, <1>7 DEF vars, server, sockets
<1> QED BY <1>2, <1>3, <1>4, <1>5, <1>6, <1>7 DEF Next, ServerNext

\* Types, and what the places of the code say of the buffers and of the sockets.
THEOREM TypeCorrect == Spec => []TypeOK
<1>1. Init => Sizes /\ Control
  <2>1. ASSUME Init PROVE Sizes
    <3>1. 0 <= SOCKET_BUFFER /\ Len(<<>>) = 0 BY SocketsAssumption
    <3> QED BY <2>1, <3>1 DEF Init, SocketsInit, Sizes
  <2>2. ASSUME Init PROVE Control
    BY <2>2 DEF Init, SocketsInit, ServerInit, Control, Ended
  <2> QED BY <2>1, <2>2
<1>2. StreamInv /\ Sizes /\ Control => TypeOK
  <2>1. ASSUME StreamInv, Sizes, Control, NEW c \in Clients
        PROVE  /\ cpc[c] \in {"new", "prompt", "write", "header", "payload", "end of input", "gone"}
               /\ c \in clientEnd <=> cpc[c] \notin {"new", "gone"}
               /\ cpc[c] = "write" <=> (out[c] # <<>> /\ c \in clientEnd)
               /\ Len(toServer[c]) <= SOCKET_BUFFER /\ Len(toClient[c]) <= SOCKET_BUFFER
    BY <2>1 DEF StreamInv, Types, Connections, Streams, Calls, Sizes, Exchanging
  <2>2. ASSUME StreamInv, Control
        PROVE  /\ backlog \in Seq(Clients)
               /\ accepted \subseteq Clients /\ newsockfd \in accepted \cup {NoClient}
               /\ Serving => newsockfd \in accepted
               /\ server_running \in BOOLEAN
               /\ pc \in {"run", "accept", "loop", "read", "parse", "write", "stopped", "terminated"}
               /\ pc # "write" => reply = <<>>
               /\ listening <=> ~Ended
               /\ tuples \subseteq Nat
    BY <2>2 DEF StreamInv, Types, Connections, Control
  <2> QED BY <2>1, <2>2 DEF TypeOK
<1> QED BY <1>1, <1>2, SizesStep, ControlStep, StreamsKept, PTL DEF Spec

-----------------------------------------------------------------------------
\* Clients that the server has turned away from.

Unanswerable(c) == \/ request[c].command = "Quit"
                   \/ request[c].command = "Insert" /\ request[c].length > MAX_INSERT

\* While the server runs it has left those only whose request it does not answer.
Left(c) == c \in accepted /\ ~Served(c) /\ server_running /\ cpc[c] # "gone" =>
             Unanswerable(c) /\ cpc[c] = "header" /\ executed[c] = returned[c]
LeftInv == \A c \in Clients : Left(c)

LEMMA LeftByServer ==
  ASSUME StreamInv, LeftInv, ServerStep \/ Signal, UNCHANGED clients PROVE LeftInv'
<1> SUFFICES ASSUME NEW c \in Clients, c \in accepted', ~Served(c)', server_running',
                    cpc'[c] # "gone"
             PROVE  Unanswerable(c)' /\ cpc'[c] = "header" /\ executed'[c] = returned'[c]
  BY DEF LeftInv, Left
<1>0. /\ UNCHANGED <<cpc, request, returned, number>> /\ (Unanswerable(c)' <=> Unanswerable(c))
  BY DEF clients, exchange, Unanswerable
<1>1. server_running /\ ~Signal
  BY DEF ServerStep, RunServer, Stop, Accept, AcceptFails, HandleClient, Read, ReadEnd,
         Unhandled, HandleSearch, HandleInsert, HandleDelete, Respond, HandleOversized,
         HandleQuit, Write, WriteGone, Replied, Signal, Leave, Continue, Goto, control
<1>2. CASE Accept
  <2>1. /\ pc = "accept" /\ pc' = "loop" /\ UNCHANGED executed
        /\ accepted' = accepted \cup {newsockfd'}
    BY <1>2 DEF Accept
  <2>2. ~Served(c) BY <2>1 DEF Served, Serving
  <2>3. c # newsockfd' BY <2>1 DEF Served, Serving
  <2> QED BY <1>0, <1>1, <2>1, <2>2, <2>3 DEF LeftInv, Left
<1>3. CASE ~Accept
  <2>1. UNCHANGED <<accepted, newsockfd>>
    BY <1>1, <1>3
    DEF ServerStep, RunServer, Stop, AcceptFails, HandleClient, Read, ReadEnd,
        Unhandled, HandleSearch, HandleInsert, HandleDelete, Respond, HandleOversized,
        HandleQuit, Write, WriteGone, Replied, Leave, Continue, Goto, control
  <2>2. executed'[c] = executed[c]
    <3>1. CASE HandleSearch \/ HandleInsert \/ HandleDelete
      <4>1. pc' = "write" /\ executed' = [executed EXCEPT ![newsockfd] = @ + 1]
        BY <3>1 DEF HandleSearch, HandleInsert, HandleDelete, Respond, Goto
      <4>2. newsockfd # c BY <2>1, <4>1 DEF Served, Serving
      <4> QED BY <4>1, <4>2 DEF StreamInv, Types
    <3>2. CASE ~(HandleSearch \/ HandleInsert \/ HandleDelete)
      BY <1>1, <1>3, <3>2
      DEF ServerStep, RunServer, Stop, AcceptFails, HandleClient, Read, ReadEnd,
          Unhandled, HandleOversized, HandleQuit, Write, WriteGone, Replied
    <3> QED BY <3>1, <3>2
  <2>3. CASE ~Served(c) BY <1>0, <1>1, <2>1, <2>2, <2>3 DEF LeftInv, Left
  <2>4. CASE Served(c)
    <3>1. ~Serving' /\ Serving /\ c = newsockfd BY <2>1, <2>4 DEF Served
    <3>2. c \in clientEnd
      BY <1>0, <3>1 DEF StreamInv, Connections
    <3>3. HandleOversized \/ HandleQuit
      <4>1. ~RunServer /\ ~Stop /\ ~AcceptFails
        BY <3>1 DEF Serving, RunServer, Stop, AcceptFails
      <4>2. ~HandleClient
        BY <1>1, <3>1 DEF HandleClient, Continue, Goto, Serving
      <4>3. ~Read /\ ~ReadEnd /\ ~Write /\ ~WriteGone /\ ~Replied
        BY <3>1, <3>2 DEF Read, ReadEnd, Write, WriteGone, Replied, Goto, Serving, control
      <4>4. ~Unhandled
        <5>1. pc = "parse" /\ HeaderComplete => HeaderGood BY AtRequest
        <5> QED BY <3>1, <5>1 DEF Unhandled, Continue, Goto, Serving
      <4>5. ~HandleSearch /\ ~HandleInsert /\ ~HandleDelete
        BY <3>1 DEF HandleSearch, HandleInsert, HandleDelete, Respond, Goto, Serving
      <4> QED BY <1>1, <1>3, <4>1, <4>2, <4>3, <4>4, <4>5 DEF ServerStep
    <3>4. /\ pc = "parse" /\ HeaderComplete /\ Complete
          /\ \/ Request.command = "Quit"
             \/ Request.command = "Insert" /\ Request.length > MAX_INSERT
      BY <3>3 DEF HandleOversized, HandleQuit, Handle
    <3>5. executed[c] # number[c] /\ Request = request[c] /\ out[c] = <<>>
      BY <3>1, <3>4, AtRequest
    <3>6. Streams(c) BY DEF StreamInv
    <3>7. executed[c] = returned[c] /\ number[c] # returned[c]
      <4>1. /\ returned[c] <= executed[c] /\ executed[c] <= number[c]
            /\ number[c] <= returned[c] + 1
        BY <3>6 DEF Streams, Calls
      <4> QED BY <3>5, <4>1, ClientTypes
    <3>8. cpc[c] = "header"
      BY <1>0, <3>5, <3>6, <3>7 DEF Streams, Calls, StreamInv, Types, Exchanging
    <3> QED BY <1>0, <2>2, <3>4, <3>5, <3>7, <3>8 DEF Unanswerable
  <2> QED BY <2>3, <2>4
<1> QED BY <1>2, <1>3

LEMMA LeftByClient ==
  ASSUME StreamInv, LeftInv, NEW c \in Clients, UserStep(c) \/ ExchangeStep(c),
         UNCHANGED server
  PROVE  LeftInv'
<1> SUFFICES ASSUME NEW d \in Clients, d \in accepted', ~Served(d)', server_running',
                    cpc'[d] # "gone"
             PROVE  Unanswerable(d)' /\ cpc'[d] = "header" /\ executed'[d] = returned'[d]
  BY DEF LeftInv, Left
<1>0. UNCHANGED <<accepted, server_running, executed>> BY DEF server, control
<1>1. ~Served(d) /\ server_running /\ d \in accepted BY <1>0, ServerSame
<1>2. cpc[d] # "gone" => Unanswerable(d) /\ cpc[d] = "header" /\ executed[d] = returned[d]
  BY <1>1 DEF LeftInv, Left
<1>3. cpc[d] # "new" BY <1>1 DEF StreamInv, Connections
<1>4. CASE d # c
  <2>1. cpc'[d] = cpc[d] /\ request'[d] = request[d] /\ returned'[d] = returned[d]
    <3>1. /\ cpc \in [Clients -> Exchanging \cup {"new", "prompt", "end of input", "gone"}]
          /\ request \in [Clients -> Requests] /\ returned \in [Clients -> Nat]
      BY DEF StreamInv, Types
    <3>2. cpc'[d] = cpc[d]
      BY <1>4, <3>1
      DEF UserStep, ExchangeStep, Connect, Refused, Type, EndOfInput, SignalClient, Die, Send,
          SendFails, Receive, ReceiveFails, CheckHeader, FetchReply, Fails, Exits, Returns,
          Prompts, ClientGoes
    <3>3. request'[d] = request[d]
      BY <1>4, <3>1
      DEF UserStep, ExchangeStep, Connect, Refused, Type, EndOfInput, SignalClient, Die, Send,
          SendFails, Receive, ReceiveFails, CheckHeader, FetchReply, Fails, Exits, Returns,
          Prompts, exchange
    <3>4. returned'[d] = returned[d]
      BY <1>4, <3>1
      DEF UserStep, ExchangeStep, Connect, Refused, Type, EndOfInput, SignalClient, Die, Send,
          SendFails, Receive, ReceiveFails, CheckHeader, FetchReply, Fails, Exits, Returns,
          Prompts, exchange
    <3> QED BY <3>2, <3>3, <3>4
  <2> QED BY <1>0, <1>2, <2>1 DEF Unanswerable
<1>5. CASE d = c
  <2>0. cpc \in [Clients -> Exchanging \cup {"new", "prompt", "end of input", "gone"}]
    BY DEF StreamInv, Types
  <2>1. ASSUME Fails(c) PROVE FALSE BY <1>5, <2>0, <2>1 DEF Fails, Exits
  <2>2. cpc[c] # "gone"
    BY <1>3, <1>5, <2>0, <2>1
    DEF UserStep, ExchangeStep, Connect, Refused, Type, EndOfInput, SignalClient, Die, Send,
        SendFails, Receive, ReceiveFails, CheckHeader, HeaderRead, FetchReply, ReplyComplete,
        ClientGoes, Wanted
  <2>3. cpc[c] = "header" /\ executed[c] = returned[c] /\ Unanswerable(c) BY <1>2, <1>5, <2>2
  <2>4. ~HeaderRead(c) BY <2>3, AtReply
  <2>5. SignalClient(c) \/ Receive(c)
    BY <2>1, <2>3, <2>4
    DEF UserStep, ExchangeStep, Connect, Refused, Type, EndOfInput, Die, Send,
        SendFails, ReceiveFails, CheckHeader, FetchReply, ReplyComplete, ClientGoes
  <2>6. UNCHANGED <<cpc, request, returned>> BY <2>5 DEF SignalClient, Receive, exchange
  <2> QED BY <1>0, <1>5, <2>3, <2>6 DEF Unanswerable
<1> QED BY <1>4, <1>5

\* A running server leaves nobody waiting but those who sent Quit, or too long an insert.
THEOREM OthersAreAnswered == Spec => []LeftWaiting
<1>1. Init => LeftInv BY DEF Init, ServerInit, LeftInv, Left
<1>2. ASSUME StreamInv, LeftInv, [Next]_vars PROVE LeftInv'
  <2>1. CASE ServerNext BY <1>2, <2>1, LeftByServer DEF ServerNext
  <2>2. ASSUME NEW c \in Clients, ClientNext(c) PROVE LeftInv'
    BY <1>2, <2>2, LeftByClient DEF ClientNext
  <2>3. CASE UNCHANGED vars
    <3>1. UNCHANGED <<accepted, server_running, executed, pc, newsockfd, cpc, request, returned>>
      BY <2>3 DEF vars, server, control, clients, exchange
    <3> QED BY <1>2, <3>1 DEF LeftInv, Left, Served, Serving, Unanswerable
  <2> QED BY <1>2, <2>1, <2>2, <2>3 DEF Next
<1>3. LeftInv => LeftWaiting
  BY DEF LeftInv, Left, LeftWaiting, Unanswerable, InExchange, Abandoned
<1> QED BY <1>1, <1>2, <1>3, StreamsKept, PTL DEF Spec

-----------------------------------------------------------------------------
\* The refinement.

CallOf(c) == IF returned[c] = number[c] THEN "idle"
             ELSE IF executed[c] = number[c] THEN "executed" ELSE "calling"
AllCalls == [c \in Clients |-> CallOf(c)]
Alive == {c \in Clients : cpc[c] # "gone"}

LEMMA CallsAre ==
  ASSUME StreamInv, NEW c \in Clients
  PROVE  /\ number[c] \in Nat /\ executed[c] \in Nat /\ returned[c] \in Nat
         /\ executed[c] \in {number[c], returned[c]}
         /\ number[c] \in {returned[c], returned[c] + 1}
<1>1. number[c] \in Nat /\ executed[c] \in Nat /\ returned[c] \in Nat BY ClientTypes
<1>2. /\ returned[c] <= executed[c] /\ executed[c] <= number[c] /\ number[c] <= returned[c] + 1
  BY DEF StreamInv, Streams, Calls
<1> QED BY <1>1, <1>2

\* One client's call goes on, and the others' stay where they are.
LEMMA CallMoves ==
  ASSUME NEW c \in Clients, NEW to,
         CallOf(c)' = to, \A d \in Clients \ {c} : CallOf(d)' = CallOf(d)
  PROVE  AllCalls' = [AllCalls EXCEPT ![c] = to]
BY DEF AllCalls

LEMMA StepRefines ==
  ASSUME StreamInv, [Next]_vars
  PROVE  \/ UNCHANGED <<AllCalls, Alive>>
         \/ \E c \in Clients :
              \/ /\ c \in Alive /\ AllCalls[c] = "idle"
                 /\ AllCalls' = [AllCalls EXCEPT ![c] = "calling"] /\ UNCHANGED Alive
              \/ /\ AllCalls[c] = "calling"
                 /\ AllCalls' = [AllCalls EXCEPT ![c] = "executed"] /\ UNCHANGED Alive
              \/ /\ c \in Alive /\ AllCalls[c] = "executed"
                 /\ AllCalls' = [AllCalls EXCEPT ![c] = "idle"]
                 /\ Alive' \in {Alive, Alive \ {c}}
              \/ c \in Alive /\ Alive' = Alive \ {c} /\ UNCHANGED AllCalls
<1>0. /\ cpc \in [Clients -> Exchanging \cup {"new", "prompt", "end of input", "gone"}]
      /\ number \in [Clients -> Nat] /\ returned \in [Clients -> Nat]
  BY DEF StreamInv, Types
<1>1. \A c \in Clients : AllCalls[c] = CallOf(c) BY DEF AllCalls
<1>2. CASE UNCHANGED <<clients, executed>>
  <2>1. UNCHANGED <<cpc, number, returned, executed>> BY <1>2 DEF clients, exchange
  <2>2. \A c \in Clients : CallOf(c)' = CallOf(c) BY <2>1 DEF CallOf
  <2> QED BY <2>1, <2>2 DEF AllCalls, Alive
<1>3. ASSUME NEW c \in Clients, executed'[c] # executed[c]
      PROVE  /\ AllCalls[c] = "calling" /\ UNCHANGED Alive
             /\ AllCalls' = [AllCalls EXCEPT ![c] = "executed"]
  <2>1. /\ executed'[c] = executed[c] + 1 /\ executed[c] # number[c] /\ UNCHANGED clients
        /\ \A d \in Clients \ {c} : executed'[d] = executed[d]
    BY <1>3, ExecutedWhole
  <2>2. UNCHANGED <<cpc, number, returned>> BY <2>1 DEF clients, exchange
  <2>3. returned[c] # number[c] /\ executed[c] + 1 = number[c] BY <2>1, CallsAre
  <2>4. CallOf(c) = "calling" /\ CallOf(c)' = "executed" BY <2>1, <2>2, <2>3 DEF CallOf
  <2>5. \A d \in Clients \ {c} : CallOf(d)' = CallOf(d) BY <2>1, <2>2 DEF CallOf
  <2>6. AllCalls' = [AllCalls EXCEPT ![c] = "executed"] BY <2>4, <2>5, CallMoves
  <2> QED BY <1>1, <2>2, <2>4, <2>6 DEF Alive
<1>4. ASSUME ServerNext, \A c \in Clients : executed'[c] = executed[c]
      PROVE  UNCHANGED <<AllCalls, Alive>>
  <2>1. UNCHANGED <<cpc, number, returned>> BY <1>4 DEF ServerNext, clients, exchange
  <2>2. \A c \in Clients : CallOf(c)' = CallOf(c) BY <1>4, <2>1 DEF CallOf
  <2> QED BY <2>1, <2>2 DEF AllCalls, Alive
<1>5. ASSUME NEW c \in Clients, Fails(c), UNCHANGED server, cpc[c] # "gone"
      PROVE  c \in Alive /\ Alive' = Alive \ {c} /\ UNCHANGED AllCalls
  <2>1. /\ cpc' = [cpc EXCEPT ![c] = "gone"] /\ UNCHANGED <<number, returned, executed>>
    BY <1>5, ServerSame DEF Fails, Exits
  <2>2. \A d \in Clients : CallOf(d)' = CallOf(d) BY <2>1 DEF CallOf
  <2>3. cpc'[c] = "gone" /\ \A d \in Clients \ {c} : cpc'[d] = cpc[d] BY <1>0, <2>1
  <2> QED BY <1>5, <2>2, <2>3 DEF AllCalls, Alive
<1>6. ASSUME NEW c \in Clients, NEW q, Type(c, q[1], q[2]), UNCHANGED server
      PROVE  /\ c \in Alive /\ AllCalls[c] = "idle" /\ UNCHANGED Alive
             /\ AllCalls' = [AllCalls EXCEPT ![c] = "calling"]
  <2>1. /\ cpc[c] = "prompt" /\ cpc' = [cpc EXCEPT ![c] = "write"]
        /\ number' = [number EXCEPT ![c] = @ + 1] /\ UNCHANGED <<returned, executed>>
    BY <1>6, ServerSame DEF Type, ClientGoes
  <2>2. number[c] = returned[c] /\ executed[c] = number[c]
    <3>1. number[c] = returned[c] BY <2>1 DEF StreamInv, Streams, Calls
    <3> QED BY <3>1, CallsAre
  <2>3. number'[c] = number[c] + 1 /\ number[c] # number[c] + 1
    <3>1. number'[c] = number[c] + 1 BY <1>0, <2>1
    <3>2. number[c] # number[c] + 1 BY CallsAre
    <3> QED BY <3>1, <3>2
  <2>4. CallOf(c) = "idle" /\ CallOf(c)' = "calling" BY <2>1, <2>2, <2>3 DEF CallOf
  <2>5. \A d \in Clients \ {c} : CallOf(d)' = CallOf(d) /\ cpc'[d] = cpc[d]
    BY <1>0, <2>1 DEF CallOf
  <2>6. AllCalls' = [AllCalls EXCEPT ![c] = "calling"] BY <2>4, <2>5, CallMoves
  <2>7. cpc'[c] = "write" BY <1>0, <2>1
  <2> QED BY <1>1, <2>1, <2>4, <2>5, <2>6, <2>7 DEF Alive
<1>7. ASSUME NEW c \in Clients, Returns(c), UNCHANGED server, cpc[c] = "payload"
      PROVE  /\ c \in Alive /\ AllCalls[c] = "executed"
             /\ AllCalls' = [AllCalls EXCEPT ![c] = "idle"]
             /\ Alive' \in {Alive, Alive \ {c}}
  <2>1. /\ cpc' = [cpc EXCEPT ![c] = cpc'[c]] /\ UNCHANGED <<number, executed>>
        /\ returned' = [returned EXCEPT ![c] = @ + 1]
    BY <1>0, <1>7, ServerSame DEF Returns, Prompts, Exits
  <2>2. executed[c] = number[c] /\ number[c] = returned[c] + 1 /\ returned[c] # number[c]
    <3>1. executed[c] = number[c] /\ number[c] = returned[c] + 1
      BY <1>7 DEF StreamInv, Streams, Calls, Exchanging
    <3> QED BY <3>1, CallsAre
  <2>3. returned'[c] = number[c] BY <1>0, <2>1, <2>2
  <2>4. CallOf(c) = "executed" /\ CallOf(c)' = "idle" BY <2>1, <2>2, <2>3 DEF CallOf
  <2>5. \A d \in Clients \ {c} : CallOf(d)' = CallOf(d) /\ cpc'[d] = cpc[d]
    BY <1>0, <2>1 DEF CallOf
  <2>6. AllCalls' = [AllCalls EXCEPT ![c] = "idle"] BY <2>4, <2>5, CallMoves
  <2>7. Alive' = IF cpc'[c] = "gone" THEN Alive \ {c} ELSE Alive BY <1>7, <2>5 DEF Alive
  <2> QED BY <1>1, <1>7, <2>4, <2>6, <2>7 DEF Alive
<1>8. ASSUME NEW c \in Clients, UNCHANGED server,
             Connect(c) \/ EndOfInput(c) \/ SignalClient(c) \/ Send(c) \/ Receive(c)
      PROVE  UNCHANGED <<AllCalls, Alive>>
  <2>1. UNCHANGED <<number, returned, executed>>
    BY <1>8, ServerSame
    DEF Connect, EndOfInput, SignalClient, Send, Receive, exchange
  <2>2. \A d \in Clients : CallOf(d)' = CallOf(d) BY <2>1 DEF CallOf
  <2>3. \A d \in Clients : cpc'[d] = "gone" <=> cpc[d] = "gone"
    <3>1. CASE Connect(c) BY <1>0, <3>1 DEF Connect, ClientGoes
    <3>2. CASE EndOfInput(c) BY <1>0, <3>2 DEF EndOfInput, ClientGoes
    <3>3. CASE SignalClient(c) \/ Receive(c) BY <3>3 DEF SignalClient, Receive
    <3>4. CASE Send(c) BY <1>0, <3>4 DEF Send
    <3> QED BY <1>8, <3>1, <3>2, <3>3, <3>4
  <2> QED BY <2>2, <2>3 DEF AllCalls, Alive
<1>9. ASSUME NEW c \in Clients, UNCHANGED server, CheckHeader(c)
      PROVE  UNCHANGED <<AllCalls, Alive>>
  <2>1. ResponseGood(c) /\ HeaderRead(c) BY <1>9, AtReply DEF CheckHeader, ResponseGood
  <2>2. UNCHANGED <<number, returned, executed>> /\ cpc' = [cpc EXCEPT ![c] = "payload"]
    BY <1>9, <2>1, ServerSame DEF CheckHeader
  <2>3. \A d \in Clients : CallOf(d)' = CallOf(d) BY <2>2 DEF CallOf
  <2>4. \A d \in Clients : cpc'[d] = "gone" <=> cpc[d] = "gone"
    BY <1>0, <2>1, <2>2 DEF HeaderRead
  <2> QED BY <2>3, <2>4 DEF AllCalls, Alive
<1>10. ASSUME NEW c \in Clients, ClientNext(c)
       PROVE  \/ Fails(c) /\ cpc[c] # "gone"
              \/ \E q \in Queries[c] : Type(c, q[1], q[2])
              \/ Returns(c) /\ cpc[c] = "payload"
              \/ Connect(c) \/ EndOfInput(c) \/ SignalClient(c) \/ Send(c) \/ Receive(c)
              \/ CheckHeader(c)
  BY <1>10
  DEF ClientNext, UserStep, ExchangeStep, Refused, Die, SendFails, ReceiveFails, FetchReply,
      ReplyComplete
<1>11. CASE ServerNext
  <2>1. CASE \E c \in Clients : executed'[c] # executed[c] BY <1>3, <2>1
  <2>2. CASE \A c \in Clients : executed'[c] = executed[c] BY <1>4, <1>11, <2>2
  <2> QED BY <2>1, <2>2
<1>12. CASE UNCHANGED vars BY <1>2, <1>12 DEF vars, server
<1>13. ASSUME NEW c \in Clients, ClientNext(c)
       PROVE  UNCHANGED <<AllCalls, Alive>> \/ \E d \in Clients :
              \/ /\ d \in Alive /\ AllCalls[d] = "idle"
                 /\ AllCalls' = [AllCalls EXCEPT ![d] = "calling"] /\ UNCHANGED Alive
              \/ /\ d \in Alive /\ AllCalls[d] = "executed"
                 /\ AllCalls' = [AllCalls EXCEPT ![d] = "idle"]
                 /\ Alive' \in {Alive, Alive \ {d}}
              \/ d \in Alive /\ Alive' = Alive \ {d} /\ UNCHANGED AllCalls
  <2>1. UNCHANGED server BY <1>13 DEF ClientNext
  <2> QED BY <1>5, <1>6, <1>7, <1>8, <1>9, <1>10, <1>13, <2>1
<1> QED BY <1>11, <1>12, <1>13 DEF Next

\* Requests are executed at most once, and replies follow the execution.
THEOREM CallsAreImplemented == Spec => ImplementsCalls
<1> USE DEF C!Init, C!Next, C!vars, C!Begin, C!Execute, C!Return, C!Leave, C!Becomes
<1>1. Init => C!Init
  <2>1. Init => AllCalls = [c \in Clients |-> "idle"] /\ Alive = Clients
    BY DEF Init, ServerInit, ClientsInit, AllCalls, CallOf, Alive
  <2> QED BY <2>1 DEF AllCalls, CallOf, Alive
<1>2. ASSUME StreamInv, [Next]_vars PROVE [C!Next]_(C!vars)
  BY <1>2, StepRefines DEF AllCalls, CallOf, Alive
<1> QED BY <1>1, <1>2, StreamsKept, PTL DEF Spec, ImplementsCalls, C!Spec
===============================================================================
