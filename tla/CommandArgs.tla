----------------------------- MODULE CommandArgs -----------------------------
(***************************************************************************)
(* utils/command_args.h: ParseArgs reads key=value pairs from a command    *)
(* line, a sequence of characters.  Case is left out: keys and lines are in*)
(* lower case.  A space stands for the tab, too; CR and LF, which are      *)
(* trimmed from a value but separate nothing, do not occur.                *)
(***************************************************************************)
EXTENDS Naturals, Sequences, FiniteSetsExt, SequencesExt, Functions

CONSTANTS
  KeyChars,  \* the letters, digits and _ of a line
  Keys,      \* the names of the ArgSpec's keys, with
  Aliases,   \* their aliases: a function from alias to name
  Main       \* the key that text before the first pair fills, <<>> for none

\* The first position from `at` on that satisfies P, or the end.
LOCAL First(line, at, P(_)) ==
  Min({i \in at .. Len(line) : P(line[i])} \cup {Len(line) + 1})

SkipBlanks(line, at) == First(line, at, LAMBDA c : c /= " ")

Trim(text) ==
  LET inked == {i \in DOMAIN text : text[i] /= " "}
  IN IF inked = {} THEN <<>> ELSE SubSeq(text, Min(inked), Max(inked))

QuoteAt(line, at) == at <= Len(line) /\ line[at] = "\""

\* A key and '=' at `at`, maybe inside the quote of a "key=value" pair.
PairAt(line, at) ==
  LET key == IF QuoteAt(line, at) THEN at + 1 ELSE at
      equals == First(line, key, LAMBDA c : c \notin KeyChars)
  IN equals > key /\ equals <= Len(line) /\ line[equals] = "="

\* Mutant: a value runs to the next blank.
BlankAt(line, i) == line[i] = " "

\* Where an unquoted value ends: at blanks before a pair.
PairAfter(line, i) == line[i] = " " /\ PairAt(line, SkipBlanks(line, i))

\* A value from `at`: quoted, or running until the next pair.
ReadValue(line, at) ==
  LET close == First(line, at + 1, LAMBDA c : c = "\"")
      end == Min({i \in at .. Len(line) : PairAfter(line, i)} \cup {Len(line) + 1})
  IN IF QuoteAt(line, at)
       THEN [ok |-> close <= Len(line), value |-> SubSeq(line, at + 1, close - 1), at |-> close + 1]
       ELSE [ok |-> TRUE, value |-> SubSeq(line, at, end - 1), at |-> end]

Result(error, args) == [error |-> error, args |-> args]

\* Args::Set: an empty value leaves the key out.
Set(args, name, value) ==
  IF value = <<>> THEN Restrict(args, DOMAIN args \ {name}) ELSE (name :> value) @@ args

NameOf(key) == IF key \in DOMAIN Aliases THEN Aliases[key] ELSE key

\* The pairs of a line from `from`.
RECURSIVE ParsePairs(_, _, _)
ParsePairs(line, from, args) ==
  LET at == SkipBlanks(line, from)
      close == First(line, at + 1, LAMBDA c : c = "\"")
      start == IF QuoteAt(line, at) THEN at + 1 ELSE at
      equals == First(line, start, LAMBDA c : c = "=")
      name == NameOf(SubSeq(line, start, equals - 1))
      read == IF QuoteAt(line, at)
                THEN [ok |-> close <= Len(line), value |-> SubSeq(line, equals + 1, close - 1),
                      at |-> close + 1]
                ELSE ReadValue(line, equals + 1)
  IN CASE at > Len(line) -> Result("None", args)
       [] at <= Len(line) /\ ~PairAt(line, at) -> Result("StrayText", args)
       [] OTHER -> IF ~read.ok THEN Result("OpenQuote", args)
                   ELSE IF name \notin Keys THEN Result("UnknownKey", args)
                   ELSE ParsePairs(line, read.at, Set(args, name, Trim(read.value)))

NoArgs == [name \in {} |-> <<>>]

ParseArgs(line) ==
  LET at == SkipBlanks(line, 1)
      read == ReadValue(line, at)
  IN IF at > Len(line) \/ PairAt(line, at) THEN ParsePairs(line, at, NoArgs)
     ELSE IF ~read.ok THEN Result("OpenQuote", NoArgs)
     ELSE IF Main = <<>> THEN Result("StrayText", NoArgs)
     ELSE ParsePairs(line, read.at, Set(NoArgs, Main, Trim(read.value)))

-----------------------------------------------------------------------------
(* How arguments are written. *)

\* The ways to write a pair: a value with a pair of its own needs quotes, and
\* so does one that begins with a quote, which cannot be written then.
Styles == {"bare", "value", "pair"}
HoldsPair(value) ==
  \E i, j \in DOMAIN value :
    /\ value[i] = " " /\ value[j] = "="
    /\ \E from \in {i + 1, IF QuoteAt(value, i + 1) THEN i + 2 ELSE i + 1} :
         from < j /\ \A k \in from .. j - 1 : value[k] \in KeyChars
Writable(value, style) ==
  IF style = "bare" THEN ~QuoteAt(value, 1) /\ ~HoldsPair(value)
                    ELSE \A i \in DOMAIN value : value[i] /= "\""

WritePair(key, value, style) ==
  CASE style = "bare" -> key \o <<"=">> \o value
    [] style = "value" -> key \o <<"=", "\"">> \o value \o <<"\"">>
    [] style = "pair" -> <<"\"">> \o key \o <<"=">> \o value \o <<"\"">>

\* A line of two pairs reads as it was written, in either order and in every
\* style, with a key=, a quote or blanks inside the values
\* (command_args.h:85-86).
ReadsAsWritten(args, styles) ==
  \A order \in SetToSeqs(DOMAIN args) :
    (\A key \in DOMAIN args : Writable(args[key], styles[key])) =>
      ParseArgs(FlattenSeq([i \in DOMAIN order |->
                  <<" ">> \o WritePair(order[i], args[order[i]], styles[order[i]])]))
        = Result("None", args)

\* What any line was read as, written again, is read as the same: no value holds
\* blanks around it, and none was torn off another pair's.
ReadsTheSameAgain(line) ==
  LET read == ParseArgs(line)
      Style(key) == IF Writable(read.args[key], "value") THEN "value" ELSE "bare"
  IN read.error = "None" =>
       ReadsAsWritten(read.args, [key \in DOMAIN read.args |-> Style(key)])
=============================================================================
