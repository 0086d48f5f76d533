------------------------------ MODULE ChatColors ------------------------------
(***************************************************************************)
(* utils/chat_colors.cpp: ResolveColorTags replaces the tags of one color   *)
(* after the other.                                                         *)
(***************************************************************************)
EXTENDS Naturals, Sequences, SequencesExt, FiniteSetsExt

CONSTANT kChatColors  \* a sequence of records of a name and a code

Tag(color) == <<"{">> \o color.name \o <<"}">>

TagsFrom(text, tag, pos) ==
  {i \in pos .. Len(text) - Len(tag) + 1 : SubSeq(text, i, i + Len(tag) - 1) = tag}

\* The while loop: pos stays at the code that was put in.
RECURSIVE ReplaceTags(_, _, _)
ReplaceTags(text, color, pos) ==
  LET tag == Tag(color)
      found == TagsFrom(text, tag, pos)
      at == Min(found)
  IN IF found = {} THEN text
     ELSE ReplaceTags(SubSeq(text, 1, at - 1) \o <<color.code>> \o SubSeq(text, at + Len(tag), Len(text)),
                     color, at)

ResolveColorTags(input) ==
  FoldLeft(LAMBDA text, color : ReplaceTags(text, color, 1), input, kChatColors)

-----------------------------------------------------------------------------
\* The same in one pass: every tag that stands in the text, and no other.
RECURSIVE OnePass(_)
OnePass(text) ==
  LET here == {color \in ToSet(kChatColors) : 1 \in TagsFrom(text, Tag(color), 1)}
  IN IF text = <<>> THEN <<>>
     ELSE IF here = {} THEN <<Head(text)>> \o OnePass(Tail(text))
     ELSE LET color == CHOOSE c \in here : TRUE
          IN <<color.code>> \o OnePass(SubSeq(text, Len(Tag(color)) + 1, Len(text)))

\* The order of the colors does not show: what is replaced makes no new tag with
\* what is around it, and all tags that were written are replaced, those with
\* braces around them as well (chat_colors.h:26).
TagsAreResolved(input) == ResolveColorTags(input) = OnePass(input)
=============================================================================
