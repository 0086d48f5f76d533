------------------------------ MODULE ChatPrinter ------------------------------
(***************************************************************************)
(* game/print.cpp: which lines each method of ChatPrinter sends to whom.    *)
(* `g` is the game at the time of the call: its number of clients, 0 when   *)
(* there is no game; who has a net channel; who is a human, for a plugin    *)
(* with that check; everybody's language; and the predicate.  Every         *)
(* operator gives the set of lines sent: where, to which slot, in what text,*)
(* and whether the prefix was added.                                        *)
(***************************************************************************)
EXTENDS Integers

CONSTANT MAXPLAYERS

Server == -1
ValidSlot(slot) == slot \in 0 .. MAXPLAYERS - 1
Clients(g) == 0 .. g.maxClients - 1

Chat(slot, text, prefix) == [to |-> "chat", slot |-> slot, text |-> text, prefix |-> prefix]
Console(slot, text) == [to |-> "console", slot |-> slot, text |-> text, prefix |-> FALSE]

\* Translate: the phrase in a slot's language, the server's for the console.
Translated(g, slot, phrase) ==
  <<phrase, IF slot \in DOMAIN g.language THEN g.language[slot] ELSE g.default>>

\* The recipients with a net channel.
KeepLiveRecipients(g, slots) == slots \cap g.live

SendChatToFilter(g, slots, text, prefix) ==
  {Chat(slot, text, prefix) : slot \in KeepLiveRecipients(g, slots)}
SendChatToSlot(g, slot, text, prefix) ==
  IF ValidSlot(slot) THEN SendChatToFilter(g, {slot}, text, prefix) ELSE {}
SendConsoleToSlot(slot, text) == IF ValidSlot(slot) THEN {Console(slot, text)} ELSE {}
ServerConsole(text) == {Console(Server, text)}

\* slotIsHuman, which a plugin may leave out.
IsHuman(g, slot) == ~g.checksHumans \/ slot \in g.humans

ChatToSlotV(g, slot, text) ==
  IF slot < 0 THEN ServerConsole(text) ELSE SendChatToSlot(g, slot, text, TRUE)
ChatToSlotTV(g, slot, phrase) == ChatToSlotV(g, slot, Translated(g, slot, phrase))

ChatToAllV(g, text, addPrefix) ==
  SendChatToFilter(g, {s \in Clients(g) : IsHuman(g, s)}, text, addPrefix) \cup ServerConsole(text)
ChatToAllTV(g, phrase) ==
  ServerConsole(Translated(g, Server, phrase)) \cup
  UNION {SendChatToSlot(g, s, Translated(g, s, phrase), TRUE) : s \in {c \in Clients(g) : IsHuman(g, c)}}

ChatToPredV(g, text) ==
  SendChatToFilter(g, {s \in Clients(g) : IsHuman(g, s) /\ s \in g.pred}, text, FALSE)

\* Mutant: everybody the predicate names gets a line.
ChatToAllOfPred(g, phrase) ==
  UNION {SendChatToSlot(g, s, Translated(g, s, phrase), TRUE) : s \in Clients(g) \cap g.pred}

ChatToPredTV(g, phrase) ==
  UNION {SendChatToSlot(g, s, Translated(g, s, phrase), TRUE) :
           s \in {c \in Clients(g) : IsHuman(g, c) /\ c \in g.pred}}

ReplyV(g, slot, text) ==
  IF slot < 0 THEN ServerConsole(text)
  ELSE IF slot >= MAXPLAYERS THEN {}
  ELSE SendConsoleToSlot(slot, text) \cup SendChatToSlot(g, slot, text, TRUE)
ReplyTV(g, slot, phrase) == ReplyV(g, slot, Translated(g, slot, phrase))

ClientConsoleV(slot, text) ==
  IF slot < 0 THEN ServerConsole(text) ELSE SendConsoleToSlot(slot, text)
ClientConsoleTV(g, slot, phrase) == ClientConsoleV(slot, Translated(g, slot, phrase))
ConsoleToAllV(g, text) ==
  UNION {SendConsoleToSlot(s, text) : s \in {c \in Clients(g) : IsHuman(g, c)}}

-----------------------------------------------------------------------------
Readers(lines) == {<<line.to, line.slot>> : line \in lines}

\* A method and its translated variant reach the same readers, each reader gets
\* one line in the language that is theirs, chat goes to live clients only,
\* whatever the plugin checks, and nothing goes to a slot that is none
\* (print.h:64-89).
LinesReachTheirReaders(g, slot, phrase) ==
  LET text == Translated(g, Server, phrase)
      pairs == {<<ChatToSlotV(g, slot, text), ChatToSlotTV(g, slot, phrase)>>,
                <<ChatToAllV(g, text, TRUE), ChatToAllTV(g, phrase)>>,
                <<ChatToPredV(g, text), ChatToPredTV(g, phrase)>>,
                <<ReplyV(g, slot, text), ReplyTV(g, slot, phrase)>>,
                <<ClientConsoleV(slot, text), ClientConsoleTV(g, slot, phrase)>>}
      sent == ConsoleToAllV(g, text) \cup UNION {pair[1] \cup pair[2] : pair \in pairs}
  IN /\ \A pair \in pairs :
          /\ Readers(pair[1]) = Readers(pair[2])
          /\ \A line \in pair[2] : line.text = Translated(g, line.slot, phrase)
     /\ \A line \in sent :
          /\ line.slot = Server => line.to = "console"
          /\ line.slot = Server \/ ValidSlot(line.slot)
          /\ line.to = "chat" => line.slot \in g.live
     /\ \A s \in Clients(g) \cap g.live :
          IsHuman(g, s) <=> <<"chat", s>> \in Readers(ChatToAllV(g, text, TRUE))
=============================================================================
