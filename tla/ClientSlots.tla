---------------------------- MODULE ClientSlots ----------------------------
(***************************************************************************)
(* The slots of the server, on which a plugin's Players and CvarQuery meet *)
(* the engine: clients connect, are put in the server, are confirmed by    *)
(* Steam, answer late or never, are kicked, reconnect when the level       *)
(* changes and leave; the plugin is unloaded and loaded again meanwhile.   *)
(*                                                                         *)
(* The plugin calls both components from its hooks.  A callback of RunFrame*)
(* may kick and query before the loop goes on.                             *)
(***************************************************************************)
EXTENDS Integers, Sequences

CONSTANTS
  Slots,          \* 0..MAXPLAYERS-1, counted from 1
  People,         \* those who play, with a SteamID each
  None,
  kOperatingSystemCounter,
  Seats,          \* bound: for each slot, who connects to it, None for bots
  JoinersAtLoad,  \* TRUE: the plugin may be loaded while a client is joining
  MaxQueries,     \* bound: queries that are sent
  MaxLoads,       \* bound: loads of the plugin
  MaxWire         \* bound: for each slot, questions under way when another is asked

ASSUME SlotsAssumption ==
  /\ Slots \subseteq Nat \ {0}
  /\ None \notin People
  /\ Seats \in [Slots -> SUBSET (People \cup {None})]
  /\ kOperatingSystemCounter \in Nat /\ kOperatingSystemCounter > 1
  /\ JoinersAtLoad \in BOOLEAN
  /\ MaxQueries \in Nat /\ MaxLoads \in Nat \ {0} /\ MaxWire \in [Slots -> Nat]

VARIABLES
  s_hooked, s_cookieTag, s_counter, s_clients,  \* CvarQuery
  m_players,  \* Players
  plugin,     \* "absent", "loaded", or "shut" until the library is unmapped
  load,       \* number of loads so far
  at,         \* the slot whose callback RunFrame is in, or 0
  person,     \* engine: who is in a slot, None for nobody or a bot
  bots,       \* engine: slots of bots
  put,        \* engine: slots past ClientPutInServer
  confirmed,  \* engine: slots whose SteamID Steam has confirmed
  wire,       \* engine: the questions each client has still to answer
  sent,       \* number of queries sent
  current,    \* queries under way whose client and plugin are still there, and
              \*   whose cookie no later question to the client was given
  told        \* calls of onAuthenticated for the present client of a slot

Q == INSTANCE CvarQuery
P == INSTANCE Players

queries == <<s_hooked, s_cookieTag, s_counter, s_clients>>
engine == <<person, bots, put, confirmed>>
ledger == <<sent, current>>
vars == <<queries, m_players, plugin, load, at, engine, wire, ledger, told>>

OtherTag == 0    \* of another plugin

Init ==
  /\ Q!InitStatics /\ P!InitPlayers
  /\ plugin = "absent" /\ load = 0 /\ at = 0
  /\ person = [s \in Slots |-> None] /\ bots = {} /\ put = {} /\ confirmed = {}
  /\ wire = [s \in Slots |-> <<>>]
  /\ sent = 0 /\ current = {} /\ told = [s \in Slots |-> 0]

\* The engine calls the plugin, which is not in a callback of RunFrame.
Idle == at = 0

Loaded == plugin = "loaded"

\* A question to a client: with the query whose callback waits for it, or 0.
Ask(cookie, query) == [cookie |-> cookie, query |-> query]

-----------------------------------------------------------------------------
(* The plugin *)

\* Init may find no vtable to hook, and a library that is mapped where it was
\* before has the tag it had.
Load ==
  /\ plugin = "absent" /\ load < MaxLoads
  /\ plugin' = "loaded" /\ load' = load + 1
  /\ \/ \E tag \in 1..load' : Q!Init(tag)
     \/ UNCHANGED queries
  /\ LET found == {s \in Slots : person[s] # None} IN
       /\ JoinersAtLoad \/ found \subseteq put
       /\ P!OnLateLoad(found, person)
  /\ UNCHANGED <<at, engine, wire, ledger, told>>

Unload ==
  /\ Loaded /\ Idle
  /\ plugin' = "shut"
  /\ Q!Shutdown
  /\ current' = {}
  /\ UNCHANGED <<m_players, load, at, engine, wire, sent, told>>

\* The statics of the next load are new.
Unmap ==
  /\ plugin = "shut" /\ plugin' = "absent"
  /\ s_hooked' = FALSE /\ s_cookieTag' = 0 /\ s_counter' = 0
  /\ s_clients' = [s \in Slots |-> Q!NewClientData]
  /\ m_players' = [s \in Slots |-> P!NewPlayer]
  /\ told' = [s \in Slots |-> 0]
  /\ UNCHANGED <<load, at, engine, wire, ledger>>

\* What a client has still to answer under a cookie.
Under(s, cookie) == {wire[s][i].query : i \in {j \in DOMAIN wire[s] : wire[s][j].cookie = cookie}}

\* From anywhere in the plugin.
SendQuery(s) ==
  /\ Loaded
  /\ IF s_hooked /\ person[s] # None
       THEN /\ sent < MaxQueries /\ Len(wire[s]) < MaxWire[s]
            /\ sent' = sent + 1
            /\ current' = (current \ Under(s, Q!Cookie(Q!NextCounter))) \cup {sent'}
            /\ Q!Query(s, sent', TRUE)
            /\ wire' = [wire EXCEPT ![s] = Append(@, Ask(Q!Cookie(Q!NextCounter), sent'))]
       ELSE Q!Query(s, 0, FALSE) /\ UNCHANGED <<sent, current, wire>>
  /\ UNCHANGED <<m_players, plugin, load, at, engine, told>>

RunFrame(s) ==
  /\ Loaded
  /\ P!RunFrame(s, at, confirmed)
  /\ at' = s
  /\ told' = [told EXCEPT ![s] = @ + 1]
  /\ UNCHANGED <<queries, plugin, load, engine, wire, ledger>>

EndFrame ==
  /\ at # 0 /\ P!AtEnd(at, confirmed)
  /\ at' = 0
  /\ UNCHANGED <<queries, m_players, plugin, load, engine, wire, ledger, told>>

-----------------------------------------------------------------------------
(* The engine *)

\* What is asked of the client in s is of no use to the next.
Leaves(s) ==
  /\ current' = current \ {wire[s][i].query : i \in DOMAIN wire[s]}
  /\ told' = [told EXCEPT ![s] = 0]

Hooks(ofQueries, ofPlayers) ==
  IF Loaded THEN ofQueries /\ ofPlayers ELSE UNCHANGED <<queries, m_players>>

\* Put on the wire when a client connects.
ConnectQueries(s) ==
  IF s_hooked THEN <<Ask(Q!Cookie(Q!kLanguageCounter), 0),
                     Ask(Q!Cookie(kOperatingSystemCounter), 0)>>
  ELSE <<>>

Connect(s, p) ==
  /\ Idle /\ p \in Seats[s] /\ person[s] = None /\ s \notin bots
  /\ \A t \in Slots : person[t] # p
  /\ person' = [person EXCEPT ![s] = p]
  /\ Hooks(Q!OnClientConnected(s), P!OnClientConnected(s, p, FALSE))
  /\ wire' = [wire EXCEPT ![s] = ConnectQueries(s)]
  /\ UNCHANGED <<plugin, load, at, bots, put, confirmed, ledger, told>>

\* Added by a callback, perhaps, as is each step on a bot.
ConnectBot(s) ==
  /\ None \in Seats[s] /\ person[s] = None /\ s \notin bots
  /\ bots' = bots \cup {s}
  /\ Hooks(Q!OnClientConnected(s), P!OnClientConnected(s, None, TRUE))
  /\ UNCHANGED <<plugin, load, at, person, put, confirmed, wire, ledger, told>>

PutInServer(s) ==
  /\ (Idle /\ person[s] # None) \/ s \in bots
  /\ s \notin put
  /\ put' = put \cup {s}
  /\ Hooks(UNCHANGED queries, P!OnClientPutInServer(s))
  /\ UNCHANGED <<plugin, load, at, person, bots, confirmed, wire, ledger, told>>

\* Before or after it is put in the server.
Confirm(s) ==
  /\ Idle /\ person[s] # None /\ s \notin confirmed
  /\ confirmed' = confirmed \cup {s}
  /\ UNCHANGED <<queries, m_players, plugin, load, at, person, bots, put, wire, ledger, told>>

\* Leaves, or is kicked, by a callback perhaps; the channel goes too.
Disconnect(s) ==
  /\ person[s] # None \/ s \in bots
  /\ person' = [person EXCEPT ![s] = None]
  /\ bots' = bots \ {s} /\ put' = put \ {s} /\ confirmed' = confirmed \ {s}
  /\ Leaves(s)
  /\ Hooks(Q!OnClientDisconnect(s), P!OnClientDisconnect(s))
  /\ wire' = [wire EXCEPT ![s] = <<>>]
  /\ UNCHANGED <<plugin, load, at, sent>>

\* The level changes: the hooks see a client go and the same one come, over the
\* channel it had.
Reconnect(s) ==
  /\ Idle /\ person[s] # None /\ (wire[s] = <<>> \/ Len(wire[s]) < MaxWire[s])
  /\ put' = put \ {s} /\ confirmed' \in {confirmed, confirmed \ {s}}
  /\ Leaves(s)
  /\ Hooks(Q!OnClientConnected(s), P!OnClientConnected(s, person[s], FALSE))
  /\ wire' = [wire EXCEPT ![s] = @ \o ConnectQueries(s)]
  /\ UNCHANGED <<plugin, load, at, person, bots, sent>>

\* Another plugin asks something, with the counter 1.
OtherAsks(s) ==
  /\ Idle /\ person[s] # None /\ Len(wire[s]) < MaxWire[s]
  /\ wire' = [wire EXCEPT ![s] = Append(@, Ask([tag |-> OtherTag, counter |-> 1], 0))]
  /\ UNCHANGED <<queries, m_players, plugin, load, at, engine, ledger, told>>

\* In the order of the questions, or never.
Respond(s) ==
  /\ Idle /\ wire[s] # <<>>
  /\ wire' = [wire EXCEPT ![s] = Tail(@)]
  /\ Q!OnRespondCvarValue(s, Head(wire[s]).cookie, person[s])
  /\ current' = current \ Under(s, Head(wire[s]).cookie)
  /\ UNCHANGED <<m_players, plugin, load, at, engine, sent, told>>

-----------------------------------------------------------------------------
Frame == EndFrame \/ \E s \in Slots : RunFrame(s)

Next ==
  \/ Load \/ Unload \/ Unmap \/ Frame
  \/ \E s \in Slots :
       \/ SendQuery(s) \/ ConnectBot(s) \/ PutInServer(s) \/ Confirm(s) \/ Disconnect(s)
       \/ Reconnect(s) \/ OtherAsks(s) \/ Respond(s)
       \/ \E p \in People : Connect(s, p)

Spec == Init /\ [][Next]_vars

\* RunFrame is called each frame.  The engine and its clients need do nothing.
FairSpec == Spec /\ WF_vars(Frame)

-----------------------------------------------------------------------------
(* Properties *)

\* Types.
TypeOK ==
  /\ s_hooked \in BOOLEAN /\ s_cookieTag \in 0..MaxLoads
  /\ s_counter \in Q!Counters \cup {0}
  /\ s_clients \in [Slots -> [pending : [Q!Counters -> 0..MaxQueries],
                              language : People \cup {None},
                              operatingSystem : People \cup {None}]]
  /\ m_players \in [Slots -> [connected : BOOLEAN, inGame : BOOLEAN, fakePlayer : BOOLEAN,
                              authenticated : BOOLEAN, steamid64 : People \cup {None}]]
  /\ plugin \in {"absent", "loaded", "shut"} /\ load \in 0..MaxLoads
  /\ at \in Slots \cup {0} /\ (at # 0 => Loaded)
  /\ person \in [Slots -> People \cup {None}]
  /\ bots \subseteq {s \in Slots : person[s] = None}
  /\ put \subseteq Slots /\ confirmed \subseteq Slots
  /\ sent \in 0..MaxQueries /\ current \subseteq 1..sent
  /\ told \in [Slots -> Nat]

\* A callback runs at most once, with the answer to its own query, and it does
\* run when that answer comes while the client and the plugin are still there
\* (OnRespondCvarValue), whatever other plugins ask and clients leave open.  Only
\* a later question to the client under the same cookie can take its answer: when
\* the counter has come round, or the plugin was loaded again under its old tag.
AnswersReachTheirCallback == [][\A s \in Slots : Respond(s) =>
  LET asked == Head(wire[s])
      callee == Q!Callee(s, asked.cookie) IN
    \/ callee = IF asked.query \in current THEN asked.query ELSE 0
    \/ \E i \in 2..Len(wire[s]) :
         wire[s][i].cookie = asked.cookie /\ wire[s][i].query = callee]_vars

\* What is kept by slot is of the slot's present client: the table, and what
\* the client said of itself; nobody counts as in game who was not put there.
SlotsAreTheOccupants == Loaded => \A s \in Slots :
  LET data == s_clients[s]
      player == m_players[s] IN
    /\ data.language \in {person[s], None} /\ data.operatingSystem \in {person[s], None}
    /\ player.steamid64 = person[s]
    /\ player.connected => person[s] # None \/ s \in bots
    /\ player.inGame => s \in put
    /\ player.fakePlayer => s \in bots

\* Nobody is trusted on a SteamID that Steam has not confirmed: "nothing may be
\* granted on it".
OnlyConfirmedAreTrusted == \A s \in Slots :
  Loaded /\ m_players[s].authenticated => s \in confirmed /\ s \notin bots

\* onAuthenticated runs once for each player, however often the slot changes
\* hands and whatever the callback does in the middle of the loop.
ToldOnce == \A s \in Slots :
  Loaded => told[s] = IF m_players[s].authenticated THEN 1 ELSE 0

\* It does run for everyone Steam confirms, late loads included.
ConfirmedAreTold == \A s \in Slots :
  Loaded /\ s \in confirmed ~> ~Loaded \/ s \notin confirmed \/ m_players[s].authenticated
=============================================================================
