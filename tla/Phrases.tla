------------------------------- MODULE Phrases -------------------------------
(***************************************************************************)
(* utils/translations.cpp: phrase tables and which text a client gets.      *)
(* Texts are sequences of characters; color tags are left as they are.      *)
(***************************************************************************)
EXTENDS Naturals, Sequences, FiniteSets, FiniteSetsExt, SequencesExt

Flags == {"-", ".", "*", "5"}   \* of "-+ #0123456789.*"
Lengths == {"l"}                \* of "hlLjzt"
Conversions == {"d", "s"}       \* of "diouxXeEfFgGaAcsp"

\* Past the characters of `set` from `at` on.
Past(text, at, set) == Min({i \in at .. Len(text) : text[i] \notin set} \cup {Len(text) + 1})

\* The arguments that the flags of a conversion take.
Stars(text, from, to) ==
  [i \in 1 .. Cardinality({j \in from .. to : text[j] = "*"}) |-> "*"]

IsEscaped(text, i) == i < Len(text) /\ text[i + 1] = "%"

\* What the % at i takes, and where the loop goes on.
Conversion(text, i) ==
  LET lengths == Past(text, i + 1, Flags)
      at == Past(text, lengths, Lengths)
      known == at <= Len(text) /\ text[at] \in Conversions
  IN [args |-> Stars(text, i + 1, lengths - 1) \o SubSeq(text, lengths, at - 1)
               \o <<IF known THEN text[at] ELSE "?">>,
      next |-> IF known THEN at + 1 ELSE at]

ArgsFrom(text) ==
  LET args[i \in 1 .. Len(text) + 1] ==
        IF i > Len(text) THEN <<>>
        ELSE IF text[i] /= "%" THEN args[i + 1]
        ELSE IF IsEscaped(text, i) THEN args[i + 2]
        ELSE Conversion(text, i).args \o args[Conversion(text, i).next]
  IN args

FormatArgs(text) == ArgsFrom(text)[1]

\* Mutant: only the number of the arguments is compared.
TakesAsMany(text, phrase) == Len(FormatArgs(text)) = Len(FormatArgs(phrase))

TakesTheSame(text, phrase) == FormatArgs(text) = FormatArgs(phrase)

Put(table, key, value) == [k \in DOMAIN table \cup {key} |-> IF k = key THEN value ELSE table[k]]
NoTable == [l \in {} |-> ""]

LowerCase(language) == IF language = "EN" THEN "en" ELSE IF language = "DE" THEN "de" ELSE language

\* LanguageHandler: config.txt, as a list of <<cl_language, key>>.
LanguageMap(config) ==
  FoldLeft(LAMBDA map, line : Put(map, LowerCase(line[1]), line[2]), NoTable, config)

PhraseHandler(texts, phrase, language, text) ==
  IF TakesTheSame(text, phrase) THEN Put(texts, LowerCase(language), text) ELSE texts

\* One phrase's lines, a list of <<language, text>>.
Texts(phrase, lines) ==
  FoldLeft(LAMBDA texts, line : PhraseHandler(texts, phrase, line[1], line[2]), NoTable, lines)

NoLanguage == ""
SetDefaultLanguage(default, language) ==
  IF language = NoLanguage THEN default ELSE LowerCase(language)

MapClientLanguage(map, default, clLanguage) ==
  LET raw == LowerCase(clLanguage)
  IN IF clLanguage = NoLanguage THEN default
     ELSE IF raw \in DOMAIN map THEN map[raw] ELSE raw

Translate(texts, default, language, phrase) ==
  LET want == IF language = NoLanguage THEN default ELSE LowerCase(language)
  IN IF want \in DOMAIN texts THEN texts[want]
     ELSE IF default \in DOMAIN texts THEN texts[default] ELSE phrase

-----------------------------------------------------------------------------
(* What printf takes: %[flags][width][.precision][length]conversion. *)

Reading(text, i) ==
  LET flags == Past(text, i + 1, {"-"})
      width == IF flags <= Len(text) /\ text[flags] = "*" THEN flags + 1 ELSE Past(text, flags, {"5"})
      hasPrecision == width <= Len(text) /\ text[width] = "."
      precision == IF ~hasPrecision THEN width
                   ELSE IF width < Len(text) /\ text[width + 1] = "*" THEN width + 2
                   ELSE Past(text, width + 1, {"5"})
      at == Past(text, precision, {"l"})
      ok == at <= Len(text) /\ text[at] \in Conversions
  IN [ok |-> ok,
      args |-> Stars(text, i + 1, precision - 1) \o SubSeq(text, precision, at - 1)
               \o <<IF ok THEN text[at] ELSE "?">>,
      next |-> at + 1]

\* Of the text from each place on: whether printf can format it, and what it takes.
TakenFrom(text) ==
  LET taken[i \in 1 .. Len(text) + 1] ==
        IF i > Len(text) THEN [ok |-> TRUE, args |-> <<>>]
        ELSE IF text[i] /= "%" THEN taken[i + 1]
        ELSE IF IsEscaped(text, i) THEN taken[i + 2]
        ELSE IF ~Reading(text, i).ok THEN [ok |-> FALSE, args |-> <<>>]
        ELSE [ok |-> taken[Reading(text, i).next].ok,
              args |-> Reading(text, i).args \o taken[Reading(text, i).next].args]
  IN taken

Taken(text) == TakenFrom(text)[1]

\* A text that printf can format is known by what it takes: two of them with
\* the same arguments in FormatArgs read the same ones.
TakesWhatItSays(text) == Taken(text).ok => FormatArgs(text) = Taken(text).args

\* Whatever the files say, in whatever order and spelling, a client gets a text
\* that takes the arguments of the phrase: the last fitting one in its language,
\* else in the default language, else the phrase itself (translations.h:35-37).
TranslationFits(phrase, lines, config, default, clLanguage) ==
  LET fallback == SetDefaultLanguage("en", default)
      language == MapClientLanguage(LanguageMap(config), fallback, clLanguage)
      text == Translate(Texts(phrase, lines), fallback, language, phrase)
      Fitting(l) == {i \in DOMAIN lines :
                       LowerCase(lines[i][1]) = LowerCase(l) /\ Taken(lines[i][2]) = Taken(phrase)}
      Latest(l) == lines[Max(Fitting(l))][2]
  IN /\ Taken(text).args = Taken(phrase).args
     /\ text = IF Fitting(language) /= {} THEN Latest(language)
               ELSE IF Fitting(fallback) /= {} THEN Latest(fallback) ELSE phrase
=============================================================================
