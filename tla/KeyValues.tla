------------------------------ MODULE KeyValues ------------------------------
(***************************************************************************)
(* utils/kv_parser.h: the tokenizer of Valve's KeyValues and the two        *)
(* parsers over it, one that calls a handler and one that builds a tree.    *)
(* A text is a sequence of characters, "NL" is the line break; tab and CR   *)
(* are read as a space is.  A token carries the position after it.          *)
(***************************************************************************)
EXTENDS Naturals, Sequences, FiniteSetsExt, SequencesExt

Blank == {" ", "NL"}

\* The first position from `at` on that holds one of `chars`, or the end.
Find(text, at, chars) ==
  Min({i \in at .. Len(text) : text[i] \in chars} \cup {Len(text) + 1})

\* Past the */ of a comment whose * is at `at`.
BlockEnd(text, at) ==
  Min({i + 1 : i \in {j \in at + 2 .. Len(text) : text[j - 1] = "*" /\ text[j] = "/"}}
      \cup {Len(text) + 1})

Unescaped(c) == IF c \in {"\"", "\\"} THEN <<c>>
                ELSE IF c = "n" THEN <<"NL">>
                ELSE IF c = "t" THEN <<" ">> ELSE <<"\\", c>>

Token(kind, value, at) == [kind |-> kind, value |-> value, at |-> at]

\* A quoted string from `at`; one that is never closed is the rest of the file.
RECURSIVE Quoted(_, _, _, _)
Quoted(text, at, escapes, value) ==
  IF at > Len(text) THEN Token("String", value, at)
  ELSE IF text[at] = "\"" THEN Token("String", value, at + 1)
  ELSE IF text[at] = "\\" /\ escapes
    THEN IF at = Len(text) THEN Token("String", value, at + 1)
         ELSE Quoted(text, at + 2, escapes, value \o Unescaped(text[at + 1]))
  ELSE Quoted(text, at + 1, escapes, Append(value, text[at]))

RECURSIVE NextToken(_, _, _)
NextToken(text, at, escapes) ==
  LET next == IF at < Len(text) THEN text[at + 1] ELSE "EOF"
      bareEnd == Find(text, at + 1, Blank \cup {"{", "}", "\""})
  IN IF at > Len(text) THEN Token("EndOfFile", <<>>, at)
     ELSE CASE text[at] \in Blank -> NextToken(text, at + 1, escapes)
            [] text[at] = "/" /\ next = "/" ->
                 NextToken(text, Find(text, at, {"NL"}) + 1, escapes)
            [] text[at] = "/" /\ next = "*" ->
                 NextToken(text, BlockEnd(text, at + 1), escapes)
            [] text[at] = "{" -> Token("OpenBrace", <<>>, at + 1)
            [] text[at] = "}" -> Token("CloseBrace", <<>>, at + 1)
            [] text[at] = "\"" -> Quoted(text, at + 1, escapes, <<>>)
            [] OTHER -> Token("String", SubSeq(text, at, bareEnd - 1), bareEnd)

-----------------------------------------------------------------------------
(* ParseSection and LoadFile: what the handler is called with. *)

Parsed(ok, calls, at) == [ok |-> ok, calls |-> calls, at |-> at]

\* Mutant: the token after a key without a value is thrown away.
AfterNoValue(text, next, escapes) == NextToken(text, next.at, escapes)

AfterKeyAlone(text, next, escapes) == next

\* The loop of ParseSection at the token `tok`.
RECURSIVE Section(_, _, _, _, _)
Section(text, name, tok, escapes, calls) ==
  LET Go(from, made) == Section(text, name, NextToken(text, from, escapes), escapes, made)
      next == NextToken(text, tok.at, escapes)
      inner == Section(text, tok.value, NextToken(text, next.at, escapes), escapes, calls)
  IN CASE tok.kind = "EndOfFile" -> Parsed(FALSE, calls, tok.at)
       [] tok.kind = "CloseBrace" -> Parsed(TRUE, calls, tok.at)
       [] tok.kind = "OpenBrace" -> Go(tok.at, calls)
       [] next.kind = "OpenBrace" -> IF inner.ok THEN Go(inner.at, inner.calls) ELSE inner
       [] next.kind = "String" -> Go(next.at, Append(calls, <<name, tok.value, next.value>>))
       [] OTHER -> Section(text, name, AfterKeyAlone(text, next, escapes), escapes, calls)

ParseSection(text, name, at, escapes, calls) ==
  Section(text, name, NextToken(text, at, escapes), escapes, calls)

\* The roots of a file, from `at`.
RECURSIVE LoadRoots(_, _, _, _)
LoadRoots(text, at, escapes, calls) ==
  LET root == NextToken(text, at, escapes)
      brace == NextToken(text, root.at, escapes)
      body == ParseSection(text, root.value, brace.at, escapes, calls)
  IN IF root.kind /= "String" \/ brace.kind /= "OpenBrace" THEN Parsed(at > 1, calls, at)
     ELSE IF ~body.ok THEN Parsed(TRUE, body.calls, body.at)
     ELSE LoadRoots(text, body.at, escapes, body.calls)

LoadFile(text, escapes) == LoadRoots(text, 1, escapes, <<>>)

-----------------------------------------------------------------------------
(* ParseChildren and LoadTree. *)

Value(key, value) == [key |-> key, section |-> FALSE, value |-> value, children |-> <<>>]
Block(key, children) == [key |-> key, section |-> TRUE, value |-> <<>>, children |-> children]

RECURSIVE ParseChildren(_, _, _, _)
ParseChildren(text, at, escapes, nodes) ==
  LET tok == NextToken(text, at, escapes)
      next == NextToken(text, tok.at, escapes)
      inner == ParseChildren(text, next.at, escapes, <<>>)
  IN CASE tok.kind \in {"CloseBrace", "EndOfFile"} -> [nodes |-> nodes, at |-> tok.at]
       [] tok.kind = "OpenBrace" -> ParseChildren(text, tok.at, escapes, nodes)
       [] next.kind = "OpenBrace" ->
            ParseChildren(text, inner.at, escapes, Append(nodes, Block(tok.value, inner.nodes)))
       [] next.kind = "String" ->
            ParseChildren(text, next.at, escapes, Append(nodes, Value(tok.value, next.value)))
       [] OTHER -> [nodes |-> Append(nodes, Value(tok.value, <<>>)), at |-> next.at]

\* The root, or an empty value for a file that does not start with one.
LoadTree(text) ==
  LET root == NextToken(text, 1, FALSE)
      brace == NextToken(text, root.at, FALSE)
  IN IF root.kind /= "String" \/ brace.kind /= "OpenBrace" THEN Value(<<>>, <<>>)
     ELSE Block(root.value, ParseChildren(text, brace.at, FALSE, <<>>).nodes)

-----------------------------------------------------------------------------
(* What a file means. *)

\* The calls that a handler should get for a tree: its values, depth first.
RECURSIVE Leaves(_)
Leaves(node) ==
  FoldLeft(LAMBDA calls, child :
             calls \o IF child.section THEN Leaves(child)
                      ELSE <<<<node.key, child.key, child.value>>>>,
           <<>>, node.children)

\* How a tree is written: every string quoted, with a comment here and there.
Escaped(value, escapes) ==
  FlattenSeq([i \in DOMAIN value |->
    IF escapes /\ value[i] \in {"\"", "\\"} THEN <<"\\", value[i]>>
    ELSE IF escapes /\ value[i] = "NL" THEN <<"\\", "n">> ELSE <<value[i]>>])
InQuotes(value, escapes) == <<"\"">> \o Escaped(value, escapes) \o <<"\"">>

RECURSIVE Written(_, _)
Written(node, escapes) ==
  InQuotes(node.key, escapes) \o
  IF ~node.section THEN <<"/", "*", "/", "*", "/">> \o InQuotes(node.value, escapes) \o <<"NL">>
  ELSE <<"/", "/", "{", "NL", "{">>
       \o FlattenSeq([i \in DOMAIN node.children |-> Written(node.children[i], escapes)])
       \o <<"}">>

\* A file of two roots is read back as it was written, by both parsers, with
\* every character that means something to the tokenizer inside a value
\* (kv_parser.h:24-25, :247, :281).
ReadsBack(root, other, escapes) ==
  LET text == Written(root, escapes) \o Written(other, escapes)
  IN /\ LoadFile(text, escapes).calls = Leaves(root) \o Leaves(other)
     /\ ~escapes => LoadTree(text) = root

\* Of a text with no empty quotes in it, well formed or not, the two parsers see
\* the same values: those of the first root in the order of the file.  A key
\* without a value is a node of the tree and no call.
SeesTheSame(text) ==
  LET tree == LoadTree(text)
      root == NextToken(text, 1, FALSE)
      first == ParseSection(text, root.value, NextToken(text, root.at, FALSE).at, FALSE, <<>>)
      valued == SelectSeq(Leaves(tree), LAMBDA call : call[3] /= <<>>)
  IN tree.section => valued = first.calls
=============================================================================
