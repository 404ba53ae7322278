-------------------------------- MODULE Parser --------------------------------
(***************************************************************************)
(* The parser of the command line (client/src/impl/parser.cpp): an         *)
(* automaton that looks at one character of the line after the other.      *)
(*                                                                         *)
(* A line is a sequence of characters; a whole word of letters counts as   *)
(* one, and is either a command or "x".  "1" stands for every digit.  The  *)
(* value of the key is left out, except that it may be too large.          *)
(***************************************************************************)
EXTENDS Naturals, FiniteSets, SequencesExt

CONSTANT MAX_DIGITS  \* std::stoull throws on a longer key

ASSUME ParserAssumption == MAX_DIGITS \in Nat \ {0}

Space == " "
Quote == "\""
Backslash == "\\"
Semicolon == ";"
Digit == "1"

\* READ_COMMAND's names of the commands.
Commands == [search |-> "Search", insert |-> "Insert", delete |-> "Delete", quit |-> "Quit"]
Letters == DOMAIN Commands \cup {"x"}
Characters == Letters \cup {Space, Quote, Backslash, Semicolon, Digit}

\* The members of Parser and of its query_object.
Parsing == [state |-> "EXPECT_COMMAND", temp_buffer |-> <<>>,
            command |-> "Invalid", payload |-> <<>>, valid |-> FALSE]

Returned(p) == [p EXCEPT !.state = "returned"]
Accepted(p) == [p EXCEPT !.state = "returned", !.valid = TRUE]
Goes(p, state) == [p EXCEPT !.state = state, !.temp_buffer = <<>>]
Reads(p, c, state) == [p EXCEPT !.state = state, !.temp_buffer = Append(@, c)]

ReadCommand(p, c) ==
  IF c \in Letters THEN Reads(p, c, "READ_COMMAND")
  ELSE IF c = Space /\ Len(p.temp_buffer) = 1 /\ p.temp_buffer[1] \in DOMAIN Commands
  THEN [Goes(p, "EXPECT_KEY") EXCEPT !.command = Commands[p.temp_buffer[1]]]
  ELSE Returned(p)

ReadKey(p, c) ==
  IF c = Digit THEN Reads(p, c, "READ_KEY")
  ELSE IF Len(p.temp_buffer) > MAX_DIGITS THEN Returned(p)
  ELSE CASE c = Space -> Goes(p, "EXPECT_PAYLOAD")
         [] c = Semicolon -> Accepted(p)
         [] OTHER -> Returned(p)

ReadPayload(p, c) ==
  CASE c = Backslash -> [p EXCEPT !.state = "escaped"]
    [] c = Quote -> [Goes(p, "EXPECT_PAYLOAD") EXCEPT !.payload = Append(@, p.temp_buffer)]
    [] OTHER -> Reads(p, c, "READ_PAYLOAD")

\* One round of ParseQuery's loop, or two when the first consumes nothing.
ParseChar(p, c) ==
  CASE p.state = "EXPECT_COMMAND" ->
         (IF c = Space THEN p ELSE IF c \in Letters THEN ReadCommand(p, c) ELSE Returned(p))
    [] p.state = "READ_COMMAND" -> ReadCommand(p, c)
    [] p.state = "EXPECT_KEY" ->
         (IF c = Space THEN p ELSE IF c = Digit THEN ReadKey(p, c) ELSE Returned(p))
    [] p.state = "READ_KEY" -> ReadKey(p, c)
    [] p.state = "EXPECT_PAYLOAD" ->
         (CASE c = Space -> p
            [] c = Quote -> [p EXCEPT !.state = "READ_PAYLOAD"]
            [] c = Semicolon -> Accepted(p)
            [] OTHER -> Returned(p))
    [] p.state = "READ_PAYLOAD" -> ReadPayload(p, c)
    [] p.state = "escaped" -> Reads(p, c, "READ_PAYLOAD")
    [] p.state = "returned" -> p

ParseQuery(line) ==
  LET p == FoldLeft(ParseChar, Parsing, line)
  IN  [valid |-> p.valid, command |-> p.command, payload |-> p.payload]

-----------------------------------------------------------------------------
\* The reference: <command> <key> "<payload>"... ; where a backslash takes the
\* character behind it as it is.  Nothing is read one by one here: the line is cut at
\* its quotes.

Run(line, i) == CHOOSE n \in 0..(i - 1) :
                  /\ \A m \in (i - n)..(i - 1) : line[m] = Backslash
                  /\ n < i - 1 => line[i - n - 1] # Backslash
IsEscaped(line, i) == Run(line, i) % 2 = 1

Quotes(line, i) == {q \in 1..(i - 1) : line[q] = Quote /\ ~IsEscaped(line, q)}
Inside(line, i) == Cardinality(Quotes(line, i)) % 2 = 1

Spaces(line, i, j) == \A n \in i..j : line[n] = Space

\* Positions 1..h hold the command and the key.
Heading(line, word, h, more) ==
  \E i, j, k \in 1..h :
    /\ Spaces(line, 1, i - 1) /\ line[i] = word /\ word \in DOMAIN Commands
    /\ i + 1 < j /\ Spaces(line, i + 1, j - 1)
    /\ j <= k /\ k - j < MAX_DIGITS /\ \A n \in j..k : line[n] = Digit
    /\ Spaces(line, k + 1, h) /\ (more => k < h)

\* The semicolon at e ends a query of the command word; units characters of its
\* payload are between quotes, and not there to escape another.
Stands(line, e, word, units) ==
  LET first == {q \in Quotes(line, e) : \A r \in Quotes(line, e) : q <= r}
      h == IF first = {} THEN e - 1 ELSE (CHOOSE q \in first : TRUE) - 1
  IN
  /\ line[e] = Semicolon /\ ~Inside(line, e)
  /\ Heading(line, word, h, first # {})
  /\ \A n \in (h + 1)..(e - 1) : Inside(line, n) \/ line[n] = Space \/ n \in Quotes(line, e)
  /\ units = Cardinality({n \in (h + 1)..(e - 1) :
                /\ Inside(line, n) /\ n \notin Quotes(line, e)
                /\ line[n] = Backslash => IsEscaped(line, n)})

\* What a line asks for: no query, or one of a command with so much payload.
Meanings(line) ==
  {<<Commands[m[1]], m[2]>> : m \in
     {n \in (DOMAIN Commands) \X (0..Len(line)) :
        \E e \in DOMAIN line : Stands(line, e, n[1], n[2])}}
=============================================================================
