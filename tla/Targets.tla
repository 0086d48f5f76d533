------------------------------- MODULE Targets -------------------------------
(***************************************************************************)
(* game/target.h: FindTargets, who a pattern names, and                     *)
(* interfaces/cs2admin/admin_access.h: who may act on whom.  A text is a    *)
(* sequence of characters; `players` maps a slot in use to its player.      *)
(***************************************************************************)
EXTENDS Integers, Sequences, FiniteSets, FiniteSetsExt, SequencesExt

CONSTANTS
  SteamIdOf, \* the SteamIDs that can be written without $: from text to ID
  Wrap       \* how many values an int has

NoSteamId == 0
DigitsInOrder == <<"0", "1", "2", "3", "4", "5", "6", "7", "8", "9">>
Digits == ToSet(DigitsInOrder)
DigitValue(c) == (CHOOSE i \in DOMAIN DigitsInOrder : DigitsInOrder[i] = c) - 1

Lower(text) == [i \in DOMAIN text |-> IF text[i] = "A" THEN "a" ELSE text[i]]

Trimmed(text) ==
  LET inked == {i \in DOMAIN text : text[i] /= " "}
  IN IF inked = {} THEN <<>> ELSE SubSeq(text, Min(inked), Max(inked))

\* strtol and strtoull over a whole text: blanks, a sign, digits.
Unsigned(text) == IF text /= <<>> /\ Head(text) \in {"+", "-"} THEN Tail(text) ELSE text
Unblanked(text) ==
  LET inked == {i \in DOMAIN text : text[i] /= " "}
  IN IF inked = {} THEN <<>> ELSE SubSeq(text, Min(inked), Len(text))
IsNumeral(text) ==
  LET digits == Unsigned(Unblanked(text))
  IN digits /= <<>> /\ \A i \in DOMAIN digits : digits[i] \in Digits
Magnitude(text) == FoldLeft(LAMBDA n, c : 10 * n + DigitValue(c), 0, Unsigned(Unblanked(text)))
Number(text) == IF Head(Unblanked(text)) = "-" THEN - Magnitude(text) ELSE Magnitude(text)

AsInt(n) == ((n + Wrap \div 2) % Wrap) - Wrap \div 2

-----------------------------------------------------------------------------
(* FindTargets *)

Found(slots) == [slots |-> slots, offline |-> NoSteamId, group |-> FALSE, error |-> ""]
Fail(error) == [Found({}) EXCEPT !.error = error]

BySteamId(id, players, mode) ==
  LET online == {s \in DOMAIN players : ~players[s].bot /\ players[s].steamid = id}
  IN IF online /= {} THEN Found({Min(online)})
     ELSE IF mode = "OneOrOffline" THEN [Found({}) EXCEPT !.offline = id]
     ELSE Fail("NoSuchSteamId")

\* slotOf: the slot that a text is the number of, as a set.
SlotOf(text, players) ==
  IF IsNumeral(text) THEN {AsInt(Number(text))} \cap DOMAIN players ELSE {}

InGroup(group, who) ==
  IF group = "bots" THEN who.bot
  ELSE /\ ~who.bot
       /\ \/ group \in {"all", "humans", "random"}
          \/ group = who.team
          \/ group = "alive" /\ who.alive
          \/ group = "dead" /\ ~who.alive

\* What may be found for an @group: one result, or any of several for @random.
FindGroup(group, caller, players, mode) ==
  LET members == {s \in DOMAIN players : InGroup(group, players[s])}
  IN IF group = "me"
       THEN {IF caller \in DOMAIN players THEN Found({caller}) ELSE Fail("NotInGame")}
     ELSE IF mode /= "Many" THEN {Fail("MultipleMatched")}
     ELSE IF members = {} THEN {Fail("NobodyMatches")}
     ELSE IF group = "random" THEN {Found({s}) : s \in members}
     ELSE {[Found(members) EXCEPT !.group = TRUE]}

Named(text, players) ==
  {s \in DOMAIN players : players[s].entity /\ Lower(players[s].name) = Lower(text)}
Holds(name, part) ==
  \E i \in 1 .. Len(name) - Len(part) + 1 : SubSeq(name, i, i + Len(part) - 1) = part
PartlyNamed(text, players) ==
  {s \in DOMAIN players : players[s].entity /\ Holds(Lower(players[s].name), Lower(text))}

\* Mutant: a slot number wins over another player's name.
FirstByNumber(text, players, parts) ==
  LET slot == SlotOf(text, players)
      exact == Named(text, players)
  IN IF slot /= {} THEN Found(slot)
     ELSE IF Cardinality(exact) = 1 THEN Found(exact)
     ELSE IF Cardinality(exact) + Cardinality(parts) > 1 THEN Fail("MultipleNamed")
     ELSE IF parts = {} THEN Fail("NobodyNamed") ELSE Found(parts)

\* A name, a slot number, or a part of a name.
FindByName(text, players, parts) ==
  LET slot == SlotOf(text, players)
      exact == Named(text, players)
  IN IF slot /= {} THEN IF exact \subseteq slot THEN Found(slot) ELSE Fail("NumberIsAName")
     ELSE IF Cardinality(exact) > 1 THEN Fail("MultipleNamed")
     ELSE IF Cardinality(exact) = 1 THEN Found(exact)
     ELSE IF Cardinality(parts) > 1 THEN Fail("MultipleNamed")
     ELSE IF parts = {} THEN Fail("NobodyNamed") ELSE Found(parts)

FindExactName(text, players) ==
  LET exact == Named(text, players)
  IN IF Cardinality(exact) > 1 THEN Fail("MultipleNamed")
     ELSE IF exact = {} THEN Fail("NobodyNamed") ELSE Found(exact)

\* An @group is "@" and the group's name as one character; a negative SteamID
\* stands for the one that strtoull wraps it to.
FindTargets(caller, pattern, players, mode) ==
  LET pat == Trimmed(pattern)
      rest == Tail(pat)
  IN CASE pat = <<>> -> {Fail("NobodyNamed")}
       [] pat /= <<>> /\ pat[1] = "@" ->
            FindGroup(IF rest = <<>> THEN "" ELSE rest[1], caller, players, mode)
       [] pat /= <<>> /\ pat[1] = "$" ->
            {IF IsNumeral(rest) /\ Number(rest) /= 0 THEN BySteamId(Number(rest), players, mode)
             ELSE Fail("InvalidSteamId")}
       [] pat /= <<>> /\ pat[1] = "#" ->
            {IF SlotOf(rest, players) = {} THEN Fail("NoSuchSlot") ELSE Found(SlotOf(rest, players))}
       [] pat \in DOMAIN SteamIdOf -> {BySteamId(SteamIdOf[pat], players, mode)}
       [] pat /= <<>> /\ pat[1] = "&" -> {FindExactName(rest, players)}
       [] OTHER -> {FindByName(pat, players, PartlyNamed(pat, players))}

-----------------------------------------------------------------------------
(* What a target is. *)

Plain(pat) == pat /= <<>> /\ pat[1] \notin {"@", "$", "#", "&"} /\ pat \notin DOMAIN SteamIdOf

\* The slots whose number or whole name is `pat`.
Exactly(pat, players) ==
  {s \in DOMAIN players : IsNumeral(pat) /\ Number(pat) = s} \cup Named(pat, players)

\* A pattern names somebody or is refused; at most one player unless it is a
\* group; a number of one player that is the name of another is refused, and so
\* is a shared name (target.h:52-57); the offline answer is for nobody online;
\* a group has bots or humans, never both.  Of a number beyond an int's range
\* nothing is said: it wraps into it.
TargetIsMeant(caller, pattern, players, mode) ==
  \A result \in FindTargets(caller, pattern, players, mode) :
    LET pat == Trimmed(pattern)
        exactly == Exactly(pat, players)
        slots == result.slots
    IN /\ result.error = "" <=> slots /= {} \/ result.offline /= NoSteamId
       /\ slots \subseteq DOMAIN players
       /\ Cardinality(slots) > 1 => result.group /\ mode = "Many"
       /\ result.group => Cardinality({players[s].bot : s \in slots}) = 1
       /\ result.offline /= NoSteamId =>
            /\ mode = "OneOrOffline" /\ slots = {}
            /\ \A s \in DOMAIN players : players[s].steamid = result.offline => players[s].bot
       /\ Plain(pat) /\ exactly /= {} /\ (IsNumeral(pat) => Magnitude(pat) < Wrap \div 2) =>
            IF Cardinality(exactly) = 1 THEN slots = exactly ELSE slots = {}

-----------------------------------------------------------------------------
(* AdminAccess.  `admins` maps a slot to its [root, immunity, flags, command]; *)
(* without mm-cs2admin `available` is FALSE.                                   *)

CanUseCommand(slot, defaultFlag, admins, available) ==
  slot < 0 \/ (IF available THEN admins[slot].command ELSE defaultFlag = 0)
HasFlag(slot, flag, admins, available) ==
  slot < 0 \/ (available /\ flag \in admins[slot].flags)
IsAdmin(slot, admins, available) == available /\ admins[slot].admin

CanTarget(caller, target, admins, available) ==
  \/ caller < 0 \/ caller = target \/ ~available \/ admins[caller].root
  \/ admins[target].immunity <= 0
  \/ admins[caller].immunity > admins[target].immunity

\* Of two immune admins at most one may act on the other, root aside, and
\* whoever may act on an admin may act on everyone that admin may.
ImmunityIsAnOrder(admins) ==
  LET Over(a, b) == CanTarget(a, b, admins, TRUE)
      immune == {s \in DOMAIN admins : admins[s].immunity > 0 /\ ~admins[s].root}
  IN /\ \A a, b \in immune : Over(a, b) /\ Over(b, a) => a = b
     /\ \A a, b, c \in DOMAIN admins :
          Over(a, b) /\ Over(b, c) /\ {b, c} \subseteq immune => Over(a, c)
=============================================================================
