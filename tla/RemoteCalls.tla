----------------------------- MODULE RemoteCalls -----------------------------
(***************************************************************************)
(* What clients may rely on: a call is executed at most once, and returns  *)
(* only after it was executed.  A client that leaves does not learn        *)
(* whether its last call was.                                              *)
(***************************************************************************)
CONSTANT Clients

VARIABLES call,  \* each client's last call: "idle" (none, or returned), ...
          alive  \* clients that are there

vars == <<call, alive>>

Init == /\ call = [c \in Clients |-> "idle"]
        /\ alive = Clients

Becomes(c, from, to) == call[c] = from /\ call' = [call EXCEPT ![c] = to]

Begin(c) == c \in alive /\ Becomes(c, "idle", "calling") /\ UNCHANGED alive

\* It may be too late for the client to see.
Execute(c) == Becomes(c, "calling", "executed") /\ UNCHANGED alive

Return(c) == c \in alive /\ Becomes(c, "executed", "idle") /\ alive' \in {alive, alive \ {c}}

Leave(c) == c \in alive /\ alive' = alive \ {c} /\ UNCHANGED call

Next == \E c \in Clients : Begin(c) \/ Execute(c) \/ Return(c) \/ Leave(c)

Spec == Init /\ [][Next]_vars
=============================================================================
