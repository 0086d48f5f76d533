------------------------------- MODULE Lookups -------------------------------
(***************************************************************************)
(* The algorithms that find one among many: the player that a text means,  *)
(* the place in memory that is looked for, the text of a phrase, the        *)
(* readers of a line.  A behaviour is the choice of one input.  The sets of *)
(* inputs are parameters; assumed of them is what the code's callers give.  *)
(***************************************************************************)
EXTENDS Integers, Sequences, FiniteSets

CONSTANTS
  W, Upper,          \* SteamIDs: how many account IDs there are, and their upper half
  SteamTexts,        \* texts that may be SteamIDs
  MAXPLAYERS,        \* how many slots there are
  SteamIdOf, Wrap,   \* Targets: SteamIDs written without $, the width of an int
  Servers,           \* the players of a server, by slot
  Callers, Patterns, \* who looks for a target, with what text
  AdminTables,       \* the admins of a server, by slot
  Align, AnyByte,    \* SigScan: the alignment of a pointer, the wildcard
  ObjectScans,       \* a memory, its writable sections, and a vtable
  SignatureScans,    \* a memory, a section of it, and a signature
  TableScans,        \* a memory, its sections, and a class's name
  Half,              \* Schema: how many values from 0 an int16_t has
  Declared,          \* the offsets of the engine's fields, by class and field
  FieldEvents,       \* what a plugin asks of the schema system
  FormatTexts,       \* texts for printf
  Translations,      \* a phrase, its lines, config.txt, and a client's language
  Games, ReplySlots, \* ChatPrinter: the game at a call, the slots that are given
  VoiceCalls         \* what a plugin asks of the voice hook

VARIABLE input

AllSlots == 0 .. MAXPLAYERS - 1

SI == INSTANCE SteamIds
FT == INSTANCE Targets
SS == INSTANCE SigScan
SC == INSTANCE Schema
PH == INSTANCE Phrases
PR == INSTANCE ChatPrinter
VB == INSTANCE VoiceBlock WITH Slots <- AllSlots

-----------------------------------------------------------------------------
(* What is given. *)

Forms == {"Steam2", "Steam3", "Steam64", "Name"}
Texts == [form : Forms, x : Nat, y : Nat, z : Nat]
ASSUME AccountAssumption ==
  W \in Nat /\ W >= 2 /\ Upper \in Nat \ {0} /\ SteamTexts \subseteq Texts

ASSUME SlotAssumption == MAXPLAYERS \in Nat

Modes == {"One", "OneOrOffline", "Many"}
Marks == {"@", "$", "#", "&"}

\* Who may be in which slot.
IsServer(players) ==
  /\ DOMAIN players \subseteq AllSlots
  /\ \A s \in DOMAIN players : players[s].bot \in BOOLEAN

\* A SteamID's text is none of a mark's; a pattern is a text.
ASSUME TargetAssumption ==
  /\ Wrap \in Nat
  /\ \A text \in DOMAIN SteamIdOf :
       SteamIdOf[text] # FT!NoSteamId /\ text # <<>> /\ text[1] \notin Marks
  /\ \A players \in Servers : IsServer(players)
  /\ Patterns \subseteq Seq(STRING)

IsAdmins(admins) ==
  /\ DOMAIN admins \subseteq Nat
  /\ \A s \in DOMAIN admins : admins[s].immunity \in Int /\ admins[s].root \in BOOLEAN
ASSUME AdminAssumption == \A admins \in AdminTables : IsAdmins(admins)

\* Addresses are not null; a module's sections do not overlap.
IsMemory(memory) == IsFiniteSet(DOMAIN memory) /\ DOMAIN memory \subseteq Nat \ {0}
IsRegion(s) == s.base \in Nat \ {0} /\ s.size \in Nat
IsObjectScan(scan) ==
  /\ IsMemory(scan.memory)
  /\ Len(scan.writable) \in Nat /\ DOMAIN scan.writable = 1 .. Len(scan.writable)
  /\ \A i \in DOMAIN scan.writable : IsRegion(scan.writable[i])
  /\ \A i, j \in DOMAIN scan.writable :
       i < j => SS!Section(scan.memory, scan.writable[i]) \cap SS!Section(scan.memory, scan.writable[j]) = {}
IsSignatureScan(scan) ==
  /\ IsMemory(scan.memory) /\ IsRegion(scan.section)
  /\ Len(scan.signature) \in Nat \ {0}
IsTableScan(scan) ==
  /\ IsMemory(scan.memory) /\ IsRegion(scan.rodata) /\ IsRegion(scan.relro)
  /\ DOMAIN scan.halves \subseteq Nat
  /\ \A i \in DOMAIN scan.halves : IsRegion(scan.halves[i])
ASSUME MemoryAssumption ==
  /\ \A scan \in ObjectScans : IsObjectScan(scan)
  /\ \A scan \in SignatureScans : IsSignatureScan(scan)
  /\ \A scan \in TableScans : IsTableScan(scan)

\* Offsets are numbers; what is asked is asked of a field.
IsFieldEvents(events) ==
  /\ Len(events) \in Nat /\ DOMAIN events = 1 .. Len(events)
  /\ \A i \in DOMAIN events : events[i][1] \in {"Ready", "Access", "Look"}
ASSUME SchemaAssumption ==
  /\ Half \in Nat \ {0}
  /\ \A class \in DOMAIN Declared : \A field \in DOMAIN Declared[class] :
       Declared[class][field] \in Int
  /\ \A events \in FieldEvents : IsFieldEvents(events)

\* A phrase is a text for printf; a line of it is one, or holds a conversion that
\* there is not, and is of some language.
IsTranslation(t) ==
  /\ t.phrase \in Seq(STRING) /\ PH!Taken(t.phrase).ok
  /\ Len(t.lines) \in Nat /\ DOMAIN t.lines = 1 .. Len(t.lines)
  /\ \A i \in DOMAIN t.lines :
       /\ t.lines[i][1] # PH!NoLanguage /\ t.lines[i][2] \in Seq(STRING)
       /\ PH!Taken(t.lines[i][2]).ok \/ \E a \in DOMAIN PH!FormatArgs(t.lines[i][2]) :
                                         PH!FormatArgs(t.lines[i][2])[a] = "?"
ASSUME PhraseAssumption ==
  FormatTexts \subseteq Seq(STRING) /\ \A t \in Translations : IsTranslation(t)

\* The engine has at most as many clients as a plugin has slots, and languages
\* are kept by slot.
IsGame(g) == g.maxClients \in 0 .. MAXPLAYERS /\ DOMAIN g.language \subseteq AllSlots
ASSUME GameAssumption == (\A g \in Games : IsGame(g)) /\ ReplySlots \subseteq Int

IsVoiceCalls(calls) ==
  /\ Len(calls) \in Nat /\ DOMAIN calls = 1 .. Len(calls)
  /\ \A i \in DOMAIN calls : \/ calls[i][1] = "Shutdown"
                             \/ /\ calls[i][1] = "Init"
                                /\ calls[i][2] \subseteq AllSlots /\ calls[i][3] \in BOOLEAN
ASSUME VoiceAssumption == \A calls \in VoiceCalls : IsVoiceCalls(calls)

-----------------------------------------------------------------------------
Init == input = [of |-> "nothing"]

Given(kind, value) == input' = [of |-> kind, value |-> value]

ASteamId == \E text \in SteamTexts : Given("steamid", text)
ATarget ==
  \E players \in Servers, caller \in Callers, pattern \in Patterns, mode \in Modes :
    Given("target", [players |-> players, caller |-> caller, pattern |-> pattern, mode |-> mode])
AnAdmin == \E admins \in AdminTables : Given("admins", admins)
AnObject == \E scan \in ObjectScans : Given("object", scan)
ASignature == \E scan \in SignatureScans : Given("signature", scan)
ATable == \E scan \in TableScans : Given("vtable", scan)
ALookup == \E events \in FieldEvents : Given("fields", events)
AText == \E text \in FormatTexts : Given("format", text)
ATranslation == \E t \in Translations : Given("translation", t)
ALine == \E g \in Games, slot \in ReplySlots : Given("print", [game |-> g, slot |-> slot])
AVoice == \E calls \in VoiceCalls : Given("voice", calls)

Next ==
  /\ input.of = "nothing"
  /\ \/ ASteamId \/ ATarget \/ AnAdmin \/ AnObject \/ ASignature \/ ATable \/ ALookup
     \/ AText \/ ATranslation \/ ALine \/ AVoice

Spec == Init /\ [][Next]_input

-----------------------------------------------------------------------------
\* A player is found by what names them and by nothing that names another
\* (target.h:52-57, admin_access.h:70-78, steamid.h:42).
TargetsAreMeant ==
  LET given == input.value
  IN /\ input.of = "steamid" => SI!AccountsAgree(given)
     /\ input.of = "target" => FT!TargetIsMeant(given.caller, given.pattern, given.players, given.mode)
     /\ input.of = "admins" => FT!ImmunityIsAnOrder(given)

\* What is found in memory is the one thing that was looked for
\* (sigscan.h:19-71, schema.h:107-119).
LookupsAreUnique ==
  LET given == input.value
  IN /\ input.of = "object" => SS!OneObject(given.memory, given.writable, given.vtable)
     /\ input.of = "signature" => SS!OneMatch(given.memory, given.section, given.signature)
     /\ input.of = "vtable" =>
          SS!RightTable(given.memory, given.rodata, given.relro, given.halves, given.name)
     /\ input.of = "fields" => SC!FieldsAreFound(Declared, given)

\* A phrase takes the arguments that it is given: a translation that takes others
\* is not used (translations.h:35-37).
PhrasesFit ==
  LET given == input.value
  IN /\ input.of = "format" => PH!TakesWhatItSays(given)
     /\ input.of = "translation" =>
          PH!TranslationFits(given.phrase, given.lines, given.config, given.default, given.language)

\* What a player is sent reaches the players it is for, and no other, and what a
\* player says is dropped for the muted only (print.h:64-89, voice_block.h:8-18).
LinesReachTheirReaders ==
  LET given == input.value
  IN /\ input.of = "print" => PR!LinesReachTheirReaders(given.game, given.slot, "Phrase")
     /\ input.of = "voice" => VB!HookIsBalanced(given)
=============================================================================
