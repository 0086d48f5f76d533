------------------------------- MODULE GameData -------------------------------
(***************************************************************************)
(* sdk/gamedata.cpp: the named offsets of one platform in a gamedata file.  *)
(* Keys are in lower case.                                                  *)
(***************************************************************************)
EXTENDS Integers, Sequences, FiniteSetsExt, SequencesExt

CONSTANT Platform  \* the name GetPlatformKey returns

KV == INSTANCE KeyValues

NotFound == -1
Put(offsets, name, value) ==
  [n \in DOMAIN offsets \cup {name} |-> IF n = name THEN value ELSE offsets[n]]

\* The numeral that a text begins with, 0 when there is none.
Digit == [c \in {"0", "1", "2", "3"} |-> CHOOSE n \in 0 .. 3 : <<"0", "1", "2", "3">>[n + 1] = c]
Atoi(text) ==
  LET minus == text /= <<>> /\ text[1] = "-"
      unsigned == IF minus THEN Tail(text) ELSE text
      end == Min({i \in DOMAIN unsigned : unsigned[i] \notin DOMAIN Digit} \cup {Len(unsigned) + 1})
      magnitude == FoldLeft(LAMBDA n, c : 10 * n + Digit[c], 0, SubSeq(unsigned, 1, end - 1))
  IN IF minus THEN - magnitude ELSE magnitude

\* GameDataHandler, for each value of the file.
Handle(offsets, call) == IF call[2] = Platform THEN Put(offsets, call[1], Atoi(call[3])) ELSE offsets

\* Only the first root is read, whatever it is called; what was read of a file
\* that ends too early is kept.
Load(text) ==
  LET root == KV!NextToken(text, 1, FALSE)
      brace == KV!NextToken(text, root.at, FALSE)
      calls == KV!ParseSection(text, root.value, brace.at, FALSE, <<>>).calls
      ok == root.kind = "String" /\ brace.kind = "OpenBrace"
  IN [ok |-> ok, offsets |-> FoldLeft(Handle, [n \in {} |-> 0], IF ok THEN calls ELSE <<>>)]

GetOffset(offsets, name) == IF name \in DOMAIN offsets THEN offsets[name] ELSE NotFound

-----------------------------------------------------------------------------
\* An offset is the one that the file has for the platform, whichever platform
\* comes first, and -1 if it has none (gamedata.h:14-24); text is no offset.
OffsetsAreRead(names, values) ==
  LET Entry(name) == KV!Block(name, [i \in DOMAIN values[name] |->
                       KV!Value(values[name][i][1], values[name][i][2])])
      order == SetToSeq(names)
      file == KV!Block(<<"g">>, <<KV!Block(<<"o">>, [i \in DOMAIN order |-> Entry(order[i])])>>)
      loaded == Load(KV!Written(file, FALSE))
  IN /\ loaded.ok
     /\ \A name \in names :
          LET at == SelectLastInSeq(values[name], LAMBDA v : v[1] = Platform)
              offset == GetOffset(loaded.offsets, name)
          IN IF at = 0 THEN offset = NotFound
             ELSE CASE values[name][at][2] = <<"1", "2">> -> offset = 12
                    [] values[name][at][2] = <<"-", "3">> -> offset = -3
                    [] OTHER -> offset = 0
=============================================================================
