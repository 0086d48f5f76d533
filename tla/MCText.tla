------------------------------- MODULE MCText -------------------------------
(***************************************************************************)
(* The algorithms that read and write texts and the lookups, each           *)
(* evaluated on every input of a bounded set: a behaviour is the choice of  *)
(* one input, of Lookups or of a text.                                      *)
(***************************************************************************)
EXTENDS MCLookups, FiniteSetsExt, SequencesExt

KV == INSTANCE KeyValues
JS == INSTANCE JsonText WITH Hex <- ("E1" :> "00e1") @@ ("CTRL" :> "0001"),
                             Pairs <- "EMOJI" :> <<"d83d", "de00">>
ML == INSTANCE MapList WITH Letters <- <<"0", "1", "a", "b">>, MaxPrefix <- 1
CC == INSTANCE ChatCommands
CA == INSTANCE CommandArgs WITH
        KeyChars <- {"k", "x"}, Keys <- {<<"k">>, <<"k", "k">>},
        Aliases <- <<"x">> :> <<"k">>, Main <- <<"k", "k">>
CB == INSTANCE ConfigBlocks WITH DefaultPath <- "new", OldDefaultPath <- "old", WordChars <- {"a", "_"},
                                NumberOf <- "3307" :> 3307
GD == INSTANCE GameData WITH Platform <- <<"p">>
ST == INSTANCE SqlText
CO == INSTANCE ChatColors WITH kChatColors <- <<[name |-> <<"g">>, code |-> "GREY"], [name |-> <<"g", "2">>, code |-> "GREY2"]>>

-----------------------------------------------------------------------------
(* KeyValues: trees with every short value, and every sequence of tokens. *)
KVValues == UpTo(2, {"a", "\"", "\\", "{", "/", "*", " "})
Trees(v) == {KV!Block(<<"r">>, <<KV!Value(<<"k">>, v)>>),
             KV!Block(<<"r">>, <<KV!Block(<<"s">>, <<KV!Value(<<"k">>, v)>>), KV!Value(v, <<"z">>)>>)}
Tokens == {<<"{">>, <<"}">>, <<"a", " ">>}

ATree ==
  \E v, w \in KVValues, escapes \in BOOLEAN :
    \* A quote in a value can only be written with escapes.
    /\ escapes \/ "\"" \notin ToSet(v) \cup ToSet(w)
    /\ \E root \in Trees(v), other \in Trees(w) :
         input' = [of |-> "tree", root |-> root, other |-> other, escapes |-> escapes]
AFile == \E tokens \in UpTo(6, Tokens) : input' = [of |-> "file", text |-> FlattenSeq(tokens)]

TreesAreRead ==
  /\ input.of = "tree" => KV!ReadsBack(input.root, input.other, input.escapes)
  /\ input.of = "file" => KV!SeesTheSame(input.text)

(* MapList: every three short names, and lines with colons and annotations. *)
MapNames == UpTo(3, {"a", "B", "_"})
AMap ==
  \/ \E a \in MapNames : input' = [of |-> "name", name |-> a]
  \/ \E display \in UpTo(4, {"a", ":", "1", " ", "#"}), id \in {<<>>, <<"1">>, <<"0", "1">>} :
       input' = [of |-> "line", display |-> display, id |-> id]
MapsAreRead ==
  /\ input.of = "name" =>
       ML!IsAnOrder({input.name} \cup UpTo(2, {"a", "B", "_"}) \cup {<<"b", "_", "A">>, <<"a", "a", "_">>})
  /\ input.of = "line" => ML!EntryReadsBack(input.display, input.id)

(* JsonText: values with every character that is written otherwise. *)
AReply ==
  \E value \in UpTo(3, {"k", "\"", "\\", "NL", "CTRL", "E1", "EMOJI"}),
     before \in UpTo(3, {"k", "\"", ":", "\\"}) :
    input' = [of |-> "reply", value |-> value, before |-> before]
RepliesAreRead ==
  input.of = "reply" => JS!StringIsFound(<<"k">>, input.value, <<"o">>, input.before)

(* ConfigBlocks and GameData. *)
ConfigLines == ({"path", "db_path"} \X {"new", "old", "mine"}) \cup ({"type"} \X {"MySQL", "sqlite", "x"})
               \cup {<<"prefix", <<"a", ";", "_">>>>, <<"username", "u">>, <<"user", "v">>, <<"enabled", "0">>,
                <<"port", "3307">>, <<"port", "x">>}
ASetting ==
  \/ \E lines \in UpTo(3, ConfigLines), files \in SUBSET {"new", "old", "mine"} :
       input' = [of |-> "config", lines |-> lines, files |-> files]
  \/ \E values \in [{<<"x">>, <<"y">>} -> UpTo(2, {<<"p">>, <<"q">>} \X {<<"1", "2">>, <<"-", "3">>, <<"x", "1">>})] :
       input' = [of |-> "offsets", values |-> values]
SettingsAreRead ==
  /\ input.of = "config" => CB!SettingsAreKept(input.lines, input.files)
  /\ input.of = "offsets" => GD!OffsetsAreRead(DOMAIN input.values, input.values)

(* SqlText: literals, with what SQLite's escaper may leave behind them. *)
Backends == {[mysql |-> m, live |-> l, work |-> w] :
               m \in BOOLEAN, l \in BOOLEAN, w \in {<<>>, <<"NUL">>, <<"NUL", "'">>}}
ALiteral ==
  \E text \in UpTo(4, {"'", "\\", "a"}), on \in Backends :
    input' = [of |-> "literal", text |-> text, on |-> on]
Authids == {ST!Universe("1") \o suffix : suffix \in UpTo(4, {"0", "1", ":", "%"})}
           \cup UpTo(5, {"1", ":", "_", "%"})
AnAuthid ==
  \E text \in Authids, on \in Backends : input' = [of |-> "authid", text |-> text, on |-> on]
Accounts == {<<y, ":">> \o z : y \in {"0", "1"}, z \in UpTo(2, {"0", "1"}) \ {<<>>}}
LiteralsAreRead ==
  /\ input.of = "literal" => ST!LiteralIsRead(input.text, input.on.mysql, input.on.live, input.on.work)
  /\ input.of = "authid" =>
       ST!MatchesThePlayer(input.text, Accounts, input.on.mysql, input.on.live, input.on.work)

(* ChatColors. *)
AColoredLine == \E text \in UpTo(6, {"{", "}", "g", "2"}) : input' = [of |-> "colors", text |-> text]
TagsAreRead == input.of = "colors" => CO!TagsAreResolved(input.text)

\* What is written to a file, a reply, a query or a line of chat is what is read
\* from it.
FilesAreRead ==
  TreesAreRead /\ MapsAreRead /\ RepliesAreRead /\ SettingsAreRead /\ LiteralsAreRead /\ TagsAreRead

-----------------------------------------------------------------------------
(* ChatCommands and CommandArgs. *)
ACommand ==
  \/ \E prefix \in {"!", "/", "?"}, args \in UpTo(2, UpTo(2, {"k", " ", "x"}) \ {<<>>}) :
       input' = [of |-> "command", prefix |-> prefix, args |-> args]
  \/ \E text \in UpTo(5, {"K", " ", "\"", "TAB"}) : input' = [of |-> "say", text |-> <<"!">> \o text]
Values == {<<"x">>, <<"x", " ", "k">>, <<"k", "=", "x">>, <<"x", " ", "k", "=">>, <<"x", "\"">>,
           <<"=">>, <<"\"", "k", "=">>}
Names == {<<"k">>, <<"k", "k">>}
AnArgLine ==
  \/ \E args \in [Names -> Values], styles \in [Names -> CA!Styles] :
       input' = [of |-> "args", args |-> args, styles |-> styles]
  \/ \E line \in UpTo(6, {"k", "x", "\"", "=", " "}) : input' = [of |-> "argline", text |-> line]

\* What a player types is what the plugin is told.
CommandsAreRead ==
  /\ input.of = "command" =>
       CC!ReadsAsMeant(input.prefix, <<"K", "x">>, input.args, {"!", "/"}, {"/"})
  /\ input.of = "say" => CC!TokensAreWords(input.text, {"!"}, {"/"})
  /\ input.of = "args" => CA!ReadsAsWritten(input.args, input.styles)
  /\ input.of = "argline" => CA!ReadsTheSameAgain(input.text)

-----------------------------------------------------------------------------
AnInput ==
  /\ input.of = "nothing"
  /\ \/ ATree \/ AFile \/ AMap \/ AReply \/ ASetting \/ ALiteral \/ AnAuthid
     \/ ACommand \/ AnArgLine \/ AColoredLine

TextSpec == Init /\ [][Next \/ AnInput]_input
=============================================================================
