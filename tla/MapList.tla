------------------------------- MODULE MapList -------------------------------
(***************************************************************************)
(* utils/maplist.h: the lines of maplist.txt and the order of map names.    *)
(***************************************************************************)
EXTENDS Integers, Sequences, FiniteSetsExt

CONSTANTS
  Letters,      \* the letters and digits in the order of their codes, in
                \* lower case; the other characters come before them
  MaxPrefix     \* the longest map prefix, without its _

LowerCase == [A |-> "a", B |-> "b", K |-> "k"]
ToLower(c) == IF c \in DOMAIN LowerCase THEN LowerCase[c] ELSE c
Others == <<" ", "#", "(", ":", "_">>
Code(c) == CHOOSE i \in 1 .. Len(Others) + Len(Letters) : (Others \o Letters)[i] = ToLower(c)
IsDigit(c) == c \in {"0", "1", "2"}
IsAlnum(c) == \E i \in DOMAIN Letters : Letters[i] = ToLower(c)

Trim(text) ==
  LET inked == {i \in DOMAIN text : text[i] /= " "}
  IN IF inked = {} THEN <<>> ELSE SubSeq(text, Min(inked), Max(inked))

StripMapAnnotation(name) ==
  SubSeq(name, 1, Min({i \in DOMAIN name : name[i] = " "} \cup {Len(name) + 1}) - 1)

MapPrefixLength(name) ==
  LET stops == {i \in DOMAIN name : i <= MaxPrefix + 1 /\ ~IsAlnum(name[i])}
      stop == Min(stops)
  IN IF stops /= {} /\ stop > 1 /\ name[stop] = "_" THEN stop ELSE 0

Less(a, b) ==
  \E i \in 1 .. Len(b) :
    /\ \A j \in 1 .. i - 1 : j <= Len(a) /\ Code(a[j]) = Code(b[j])
    /\ i > Len(a) \/ Code(a[i]) < Code(b[i])

Key(name) == SubSeq(name, MapPrefixLength(name) + 1, Len(name))

MapNameLess(a, b) == Less(Key(a), Key(b)) \/ (~Less(Key(b), Key(a)) /\ Less(a, b))

Entry(display, id) ==
  [displayName |-> display, mapName |-> StripMapAnnotation(display), workshopId |-> id]

\* The entry of a line as a set, empty for a blank line and a comment.
ParseMapListLine(rawLine) ==
  LET line == Trim(rawLine)
      colon == Max({i \in DOMAIN line : line[i] = ":"} \cup {0})
      tail == Trim(SubSeq(line, colon + 1, Len(line)))
      allDigits == tail /= <<>> /\ \A i \in DOMAIN tail : IsDigit(tail[i])
  IN IF line = <<>> \/ line[1] \in {"#", "/", ";"} THEN {}
     ELSE IF colon > 0 /\ allDigits THEN {Entry(Trim(SubSeq(line, 1, colon - 1)), tail)}
     ELSE {Entry(line, <<>>)}

-----------------------------------------------------------------------------
\* The order is one that std::sort may be given: no name is before itself, and
\* "before" and "neither before nor after" are transitive.  Two different names
\* are ordered unless they differ in case only.
IsAnOrder(names) ==
  LET Same(a, b) == ~MapNameLess(a, b) /\ ~MapNameLess(b, a)
  IN \A a, b \in names :
       /\ ~(MapNameLess(a, b) /\ MapNameLess(b, a))
       /\ Same(a, b) <=> (Len(a) = Len(b) /\ \A i \in DOMAIN a : Code(a[i]) = Code(b[i]))
       /\ MapNameLess(a, b) =>
            \A c \in names : MapNameLess(b, c) \/ Same(b, c) => MapNameLess(a, c)

\* A line written from an entry is read as that entry, with colons and
\* annotations in the name.
EntryReadsBack(display, id) ==
  LET line == display \o IF id = <<>> THEN <<>> ELSE <<" ", ":", " ">> \o id
      colon == Max({i \in DOMAIN display : display[i] = ":"} \cup {0})
      tail == Trim(SubSeq(display, colon + 1, Len(display)))
      looksLikeAnId == colon > 0 /\ tail /= <<>> /\ \A i \in DOMAIN tail : IsDigit(tail[i])
  IN display = Trim(display) /\ display /= <<>> /\ display[1] /= "#" =>
       (id = <<>> /\ looksLikeAnId) \/ ParseMapListLine(line) = {Entry(display, id)}
=============================================================================
