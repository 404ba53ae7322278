------------------------------ MODULE MCProtocol ------------------------------
(* Protocol for TLC: what users type, and the lines the parser is compared on. *)
EXTENDS Protocol, TLC

CONSTANTS c1, c2

\* The first client types search 1; delete 1; quit 1; and inserts of 1, of "x" and "xx",
\* and among them the same with other quotes, and lines that are no queries.
Insert == <<"insert", Space, "1", Space, Quote>>
FirstLines ==
  {<<"search", Space, "1", Semicolon>>, <<"delete", Space, "1", Semicolon>>,
   <<"quit", Space, "1", Semicolon>>, <<"quit", Semicolon>>, <<"x", Space, "1", Semicolon>>,
   Insert \o <<"x", Quote, Semicolon>>,
   Insert \o <<"x", "x", Quote, Semicolon>>,
   Insert \o <<"x", Quote, Space, Quote, Quote, Space, Quote, Quote, Semicolon>>,
   Insert \o <<Backslash, Quote, Quote, Semicolon>>,
   Insert \o <<Backslash, Quote, Semicolon>>}

\* The second sends one request while it waits for the first, or after it.
MCLines == (c1 :> FirstLines) @@ (c2 :> {<<"search", Space, "1", Semicolon>>})
MCMaxRequests == (c1 :> 2) @@ (c2 :> 1)

\* All lines of a few characters, and all tails of an insert.
Strings(S, n) == UNION {[1..k -> S] : k \in 0..n}
Short == Strings({"insert", "x", "1", Space, Semicolon, Quote, Backslash}, 5)
Tails == {Insert \o tail : tail \in Strings({"x", Space, Semicolon, Quote, Backslash}, 5)}

\* ParseQuery accepts what the grammar does, and finds the same in it.
ASSUME AcceptsGrammar ==
  \A line \in FirstLines \cup Short \cup Tails :
    LET q == ParseQuery(line)
    IN  Meanings(line) = IF q.valid THEN {<<q.command, PayloadUnits(q.payload)>>} ELSE {}
=============================================================================
