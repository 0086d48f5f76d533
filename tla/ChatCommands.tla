----------------------------- MODULE ChatCommands -----------------------------
(***************************************************************************)
(* utils/chat_command.h: what a say message means.  "ZW" is the character   *)
(* U+200B, which the game sends for a quote that the player typed.          *)
(***************************************************************************)
EXTENDS Naturals, Sequences, FiniteSetsExt, SequencesExt

LowerCase(text) == [i \in DOMAIN text |-> IF text[i] = "K" THEN "k" ELSE text[i]]

StripSayQuotes(raw) ==
  LET outer == Len(raw) >= 2 /\ raw[1] = "\"" /\ raw[Len(raw)] = "\""
      msg == IF outer THEN SubSeq(raw, 2, Len(raw) - 1) ELSE raw
  IN [i \in DOMAIN msg |-> IF msg[i] = "ZW" THEN "\"" ELSE msg[i]]

InQuotes(line, i) == Len(SelectSeq(SubSeq(line, 1, i), LAMBDA c : c = "\"")) % 2 = 1

\* The tokens of a line: what is left between its blanks outside of quotes.
SplitArgs(line) ==
  LET splits == {0, Len(line) + 1} \cup
                {i \in DOMAIN line : line[i] \in {" ", "TAB"} /\ ~InQuotes(line, i)}
      sorted == SetToSortSeq(splits, LAMBDA a, b : a < b)
      Part(i) == SelectSeq(SubSeq(line, sorted[i] + 1, sorted[i + 1] - 1), LAMBDA c : c /= "\"")
      parts == [i \in 1 .. Len(sorted) - 1 |-> Part(i)]
  IN SelectSeq(parts, LAMBDA part : part /= <<>>)

\* The command of a message as a set, empty for any other message.
ParseChatCommand(message, normal, silent) ==
  LET rest == Tail(message)
      space == Min({i \in DOMAIN rest : rest[i] = " "} \cup {Len(rest) + 1})
      start == Min({i \in space .. Len(rest) : rest[i] /= " "} \cup {Len(rest) + 1})
      argLine == SubSeq(rest, start, Len(rest))
  IN IF Len(message) < 2 \/ message[1] \notin normal \cup silent \/ space = 1 THEN {}
     ELSE {[name |-> LowerCase(SubSeq(rest, 1, space - 1)), args |-> SplitArgs(argLine),
            argLine |-> argLine, silent |-> message[1] \in silent]}

-----------------------------------------------------------------------------
\* What the game sends for a text that was typed.
Sent(typed) == <<"\"">> \o [i \in DOMAIN typed |-> IF typed[i] = "\"" THEN "ZW" ELSE typed[i]]
               \o <<"\"">>
Quoted(arg) == <<"\"">> \o arg \o <<"\"">>

\* A command is understood as the player meant it: with every argument in
\* quotes, and with the quotes left out where an argument holds no blank; and
\* the prefix alone decides whether it is silent.
ReadsAsMeant(prefix, name, args, normal, silent) ==
  \A bare \in SUBSET {i \in DOMAIN args : \A j \in DOMAIN args[i] : args[i][j] /= " "} :
    LET line == FlattenSeq([i \in DOMAIN args |->
                  <<" ">> \o IF i \in bare THEN args[i] ELSE Quoted(args[i])])
        read == ParseChatCommand(StripSayQuotes(Sent(<<prefix>> \o name \o line)), normal, silent)
    IN read = IF prefix \notin normal \cup silent THEN {}
              ELSE {[name |-> LowerCase(name), args |-> args, silent |-> prefix \in silent,
                     argLine |-> IF line = <<>> THEN <<>> ELSE Tail(line)]}

\* Of any message, the tokens are those of the argument line read on its own.
\* Without quotes in it they are its words.
TokensAreWords(message, normal, silent) ==
  \A command \in ParseChatCommand(message, normal, silent) :
    (\A i \in DOMAIN message : message[i] /= "\"") =>
      /\ \A arg \in ToSet(command.args) : arg /= <<>> /\ ToSet(arg) \cap {" ", "TAB"} = {}
      /\ FlattenSeq(command.args) = SelectSeq(command.argLine, LAMBDA c : c \notin {" ", "TAB"})
=============================================================================
