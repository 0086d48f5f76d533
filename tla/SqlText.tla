------------------------------- MODULE SqlText -------------------------------
(***************************************************************************)
(* The texts that Connection::Escape and AuthMatch (utils/sql.cpp) and      *)
(* ExtractAuthSuffix (utils/steamid.h) put into a query, sequences of       *)
(* characters.  The driver's escaper and the server, which reads a literal  *)
(* or a pattern, are external.                                              *)
(***************************************************************************)
EXTENDS Naturals, Sequences, FiniteSets, SequencesExt, FiniteSetsExt

Digits == {"0", "1"}  \* stand for the ten

\* By hand, without a live connection.
EscapeOf(c, mysql) ==
  IF c = "'" \/ (c = "\\" /\ mysql) THEN <<c, c>> ELSE <<c>>
EscapeByHand(text, mysql) == FlattenSeq([i \in DOMAIN text |-> EscapeOf(text[i], mysql)])

\* MySQL's puts a backslash before both, SQLite's returns its work buffer.
DriverEscape(text, mysql, work) ==
  IF mysql
    THEN FlattenSeq([i \in DOMAIN text |-> IF text[i] \in {"'", "\\"} THEN <<"\\", text[i]>> ELSE <<text[i]>>])
    ELSE EscapeByHand(text, FALSE) \o work

\* The resize to strlen.
UpToNul(text) ==
  SubSeq(text, 1, Min({i \in DOMAIN text : text[i] = "NUL"} \cup {Len(text) + 1}) - 1)

Escape(text, mysql, live, work) ==
  IF live THEN UpToNul(DriverEscape(text, mysql, work)) ELSE EscapeByHand(text, mysql)

\* "Y:Z" and nothing else.
IsAccount(suffix) ==
  /\ suffix /= <<>>
  /\ \A i \in DOMAIN suffix : suffix[i] \in Digits \cup {":"}
  /\ Cardinality({i \in DOMAIN suffix : suffix[i] = ":"}) = 1
  /\ Head(suffix) /= ":" /\ Last(suffix) /= ":"

Universe(digit) == <<"S", "T", "E", "A", "M", "_", digit, ":">>

\* The patterns of the LIKEs, none for "0 = 1".
AuthMatch(suffix) ==
  IF IsAccount(suffix) THEN {Universe("0") \o suffix, Universe("1") \o suffix} ELSE {}

ExtractAuthSuffix(authid) ==
  LET colon == Min({i \in DOMAIN authid : authid[i] = ":"} \cup {Len(authid) + 1})
  IN IF Len(authid) > 10 /\ authid[8] = ":" /\ authid[10] = ":" THEN SubSeq(authid, 9, Len(authid))
     ELSE IF colon < Len(authid) THEN SubSeq(authid, colon + 1, Len(authid))
     ELSE authid

-----------------------------------------------------------------------------
(* How the server reads them. *)

\* A literal from after its quote: its value, and what follows it.
RECURSIVE ReadLiteral(_, _, _)
ReadLiteral(text, mysql, value) ==
  IF text = <<>> THEN [value |-> value, rest |-> <<"unclosed">>]
  ELSE IF (Head(text) = "'" \/ (Head(text) = "\\" /\ mysql)) /\ Len(text) > 1
          /\ (Head(text) = "\\" \/ text[2] = "'")
    THEN ReadLiteral(SubSeq(text, 3, Len(text)), mysql, Append(value, text[2]))
  ELSE IF Head(text) = "'" THEN [value |-> value, rest |-> Tail(text)]
  ELSE ReadLiteral(Tail(text), mysql, Append(value, Head(text)))

RECURSIVE Like(_, _)
Like(pattern, text) ==
  IF pattern = <<>> THEN text = <<>>
  ELSE IF Head(pattern) = "%"
    THEN \E k \in 0 .. Len(text) : Like(Tail(pattern), SubSeq(text, k + 1, Len(text)))
  ELSE text /= <<>> /\ Head(pattern) \in {"_", Head(text)} /\ Like(Tail(pattern), Tail(text))

\* A text that was escaped, in quotes, is read as the text, and the query goes
\* on behind it: on both backends, connected or not (sql.cpp:339, :346).
LiteralIsRead(text, mysql, live, work) ==
  LET rest == <<",", "'">>
  IN ReadLiteral(Escape(text, mysql, live, work) \o <<"'">> \o rest, mysql, <<>>)
       = [value |-> text, rest |-> rest]

\* An auth ID matches the rows of its player, in either universe.  Any other text
\* matches nobody but a player whose suffix it ends with: not with a % or a _ in
\* it, and not with what the driver's escaper leaves behind it (sql.cpp:369).
MatchesThePlayer(text, players, mysql, live, work) ==
  LET suffix == Escape(ExtractAuthSuffix(text), mysql, live, work)
      Rows(player) == {Universe(digit) \o player : digit \in {"0", "1"}}
      Matches(row) == \E pattern \in AuthMatch(suffix) : Like(pattern, row)
  IN \A player \in players :
       /\ \A row \in Rows(player) : Matches(row) => IsSuffix(<<":">> \o player, text)
       /\ text \in Rows(player) => \A row \in Rows(player) : Matches(row)
=============================================================================
