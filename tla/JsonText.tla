------------------------------ MODULE JsonText ------------------------------
(***************************************************************************)
(* utils/json.h: escaping a string for a JSON text, and the scan for a      *)
(* string by its key.  A character past ASCII is one of `Wide`, written as  *)
(* itself or as \u and its digits: a word of four for one below U+10000,    *)
(* two such escapes for one above.                                          *)
(***************************************************************************)
EXTENDS Naturals, Sequences, FiniteSetsExt, SequencesExt

CONSTANTS
  Hex,   \* the word of four digits of a character below U+10000
  Pairs  \* the two surrogates' words of a character above it

EscapedChar(c) ==
  IF c \in {"\"", "\\"} THEN <<"\\", c>>
  ELSE IF c = "NL" THEN <<"\\", "n">>
  ELSE IF c = "TAB" THEN <<"\\", "t">>
  ELSE IF c = "BS" THEN <<"\\", "b">>
  ELSE IF c = "CTRL" THEN <<"\\", "u", Hex["CTRL"]>>
  ELSE <<c>>
Escape(input) == FlattenSeq([i \in DOMAIN input |-> EscapedChar(input[i])])

Words(map) == {map[c] : c \in DOMAIN map}
OfWord(map, word) == CHOOSE c \in DOMAIN map : map[c] = word

\* What an escape at the backslash `at` means, and how far it goes.
Unescaped(doc, at) ==
  LET letter == doc[at + 1]
      Word(i) == IF i <= Len(doc) THEN doc[i] ELSE "EOF"
      pair == <<Word(at + 2), Word(at + 5)>>
      isPair == Word(at + 3) = "\\" /\ Word(at + 4) = "u" /\ pair \in Words(Pairs)
  IN IF letter = "n" THEN [text |-> <<"NL">>, next |-> at + 2]
     ELSE IF letter = "t" THEN [text |-> <<"TAB">>, next |-> at + 2]
     ELSE IF letter = "u" /\ isPair THEN [text |-> <<OfWord(Pairs, pair)>>, next |-> at + 6]
     ELSE IF letter = "u" /\ Word(at + 2) \in Words(Hex)
       THEN [text |-> <<OfWord(Hex, Word(at + 2))>>, next |-> at + 3]
     ELSE [text |-> <<letter>>, next |-> at + 2]

RECURSIVE StringFrom(_, _, _)
StringFrom(doc, at, result) ==
  IF at > Len(doc) \/ doc[at] = "\"" THEN result
  ELSE IF doc[at] = "\\" /\ at < Len(doc)
    THEN StringFrom(doc, Unescaped(doc, at).next, result \o Unescaped(doc, at).text)
  ELSE StringFrom(doc, at + 1, Append(result, doc[at]))

\* The string after the first `"key"` of a text, <<>> if there is none.
Hits(doc, key) ==
  LET search == <<"\"">> \o key \o <<"\"">>
  IN {i \in 1 .. Len(doc) - Len(search) + 1 : SubSeq(doc, i, i + Len(search) - 1) = search}
GetString(doc, key) ==
  LET hits == Hits(doc, key)
      after == Min(hits) + Len(key) + 2
      pos == Min({i \in after .. Len(doc) : doc[i] \notin {" ", ":", "TAB"}} \cup {Len(doc) + 1})
  IN IF hits = {} \/ pos > Len(doc) \/ doc[pos] /= "\"" THEN <<>>
     ELSE StringFrom(doc, pos + 1, <<>>)

-----------------------------------------------------------------------------
\* A reply that another program writes: every character past ASCII escaped.
Foreign(c) ==
  IF c \in DOMAIN Hex THEN <<"\\", "u", Hex[c]>>
  ELSE IF c \in DOMAIN Pairs THEN <<"\\", "u", Pairs[c][1], "\\", "u", Pairs[c][2]>>
  ELSE EscapedChar(c)

Member(key, value) == <<"\"">> \o key \o <<"\"", ":", " ", "\"">> \o value \o <<"\"">>

\* The value of a key is found after any other member in which the quoted key
\* is not seen (a value that ends in a quote and the key is), and is the string
\* that was written, however it was escaped (json.h:106-107).  A control that
\* Escape writes as \b or \f is read as a letter and left out.
StringIsFound(key, value, other, before) ==
  LET first == Member(other, Escape(before))
      Written(Char(_)) == FlattenSeq([i \in DOMAIN value |-> Char(value[i])])
  IN Hits(first, key) = {} /\ "BS" \notin ToSet(value) =>
       \A written \in {Written(EscapedChar), Written(Foreign)} :
         GetString(<<"{">> \o first \o <<",">> \o Member(key, written) \o <<"}">>, key) = value
=============================================================================
