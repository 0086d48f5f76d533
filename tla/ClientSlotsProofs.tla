------------------------- MODULE ClientSlotsProofs -------------------------
(***************************************************************************)
(* Theorems about ClientSlots.  All are by induction with SlotInv, which   *)
(* adds to the properties, taken apart by slot (Fits), what holds of slots *)
(* that nobody has (Seated) and of a plugin that is not loaded (Blank).    *)
(***************************************************************************)
EXTENDS ClientSlots, SequenceTheorems, TLAPS

USE SlotsAssumption DEF OtherTag

\* Only a slot with somebody in it is past ClientPutInServer, or confirmed.
Seated ==
  /\ \A s \in put : person[s] # None \/ s \in bots
  /\ \A s \in confirmed : person[s] # None

\* A library that was just mapped knows nobody.
Blank == plugin = "absent" =>
  /\ ~s_hooked
  /\ s_clients = [s \in Slots |-> Q!NewClientData]
  /\ m_players = [s \in Slots |-> P!NewPlayer]
  /\ told = [s \in Slots |-> 0]

\* What is claimed of one slot while the plugin is loaded.
Fits(s) ==
  LET data == s_clients[s]
      player == m_players[s] IN
    /\ data.language \in {person[s], None} /\ data.operatingSystem \in {person[s], None}
    /\ player.steamid64 = person[s]
    /\ player.connected => person[s] # None \/ s \in bots
    /\ player.inGame => s \in put \/ JoinersAtLoad
    /\ player.fakePlayer => s \in bots
    /\ player.authenticated => s \in confirmed /\ s \notin bots
    /\ told[s] = IF player.authenticated THEN 1 ELSE 0

Data ==
  [pending : [Q!Counters -> 0..MaxQueries], language : People \cup {None},
   operatingSystem : People \cup {None}]

Row ==
  [connected : BOOLEAN, inGame : BOOLEAN, fakePlayer : BOOLEAN, authenticated : BOOLEAN,
   steamid64 : People \cup {None}]

\* TypeOK, but for the two tables.
Others ==
  /\ s_hooked \in BOOLEAN /\ s_cookieTag \in 0..MaxLoads
  /\ s_counter \in Q!Counters \cup {0}
  /\ plugin \in {"absent", "loaded", "shut"} /\ load \in 0..MaxLoads
  /\ at \in Slots \cup {0} /\ (at # 0 => plugin = "loaded")
  /\ person \in [Slots -> People \cup {None}]
  /\ bots \subseteq {s \in Slots : person[s] = None}
  /\ put \subseteq Slots /\ confirmed \subseteq Slots
  /\ sent \in 0..MaxQueries /\ current \subseteq 1..sent
  /\ told \in [Slots -> Nat]

Tables == s_clients \in [Slots -> Data] /\ m_players \in [Slots -> Row]

SlotInv == Tables /\ Others /\ Seated /\ Blank /\ (Loaded => \A s \in Slots : Fits(s))

LEMMA TypesByTables == Tables /\ Others <=> TypeOK
BY DEF TypeOK, Loaded, Data, Row, Others, Tables

LEMMA NewOnes ==
  /\ Q!NewClientData \in Data
  /\ Q!NewClientData.language = None /\ Q!NewClientData.operatingSystem = None
  /\ P!NewPlayer \in Row
  /\ ~P!NewPlayer.connected /\ ~P!NewPlayer.inGame /\ ~P!NewPlayer.fakePlayer
  /\ ~P!NewPlayer.authenticated /\ P!NewPlayer.steamid64 = None
<1>1. [c \in Q!Counters |-> 0] \in [Q!Counters -> 0..MaxQueries]
  OBVIOUS
<1> QED
  BY <1>1 DEF Data, Row, Q!NewClientData, P!NewPlayer

LEMMA InitSlots == Init => SlotInv
<1> SUFFICES ASSUME Init PROVE SlotInv
  OBVIOUS
<1>1. Tables
  BY NewOnes DEF Init, Tables, Q!InitStatics, P!InitPlayers
<1>2. Others
  <2>1. s_counter \in Q!Counters \cup {0} /\ s_hooked = FALSE /\ s_cookieTag = 0
    BY DEF Init, Q!InitStatics
  <2>2. 0 \in 0..MaxLoads /\ 0 \in 0..MaxQueries /\ 0 \in Nat
    OBVIOUS
  <2>3. /\ person \in [Slots -> People \cup {None}] /\ told \in [Slots -> Nat]
        /\ put \subseteq Slots /\ confirmed \subseteq Slots
        /\ bots \subseteq {s \in Slots : person[s] = None}
        /\ current \subseteq 1..sent
    BY <2>2 DEF Init
  <2> QED
    BY <2>1, <2>2, <2>3 DEF Init, Others
<1>3. Seated /\ Blank /\ ~Loaded
  BY DEF Init, Seated, Blank, Loaded, Q!InitStatics, P!InitPlayers
<1> QED
  BY <1>1, <1>2, <1>3 DEF SlotInv

\* A slot of which nothing changes still fits.
LEMMA FitsStays ==
  ASSUME NEW t \in Slots, Fits(t),
         m_players'[t] = m_players[t], person'[t] = person[t], told'[t] = told[t],
         s_clients'[t].language = s_clients[t].language,
         s_clients'[t].operatingSystem = s_clients[t].operatingSystem,
         t \in bots <=> t \in bots', t \in put => t \in put',
         t \in confirmed => t \in confirmed'
  PROVE  Fits(t)'
BY DEF Fits

-----------------------------------------------------------------------------
LEMMA LoadStep == SlotInv /\ Load => SlotInv'
<1> SUFFICES ASSUME SlotInv, Load PROVE SlotInv'
  OBVIOUS
<1> USE DEF SlotInv
<1> DEFINE found == {s \in Slots : person[s] # None}
           late == [s \in Slots |->
                      IF s \in found
                        THEN [P!NewPlayer EXCEPT !.connected = TRUE, !.inGame = TRUE,
                                                 !.steamid64 = person[s]]
                        ELSE m_players[s]]
<1>1. /\ m_players' = late /\ s_clients' = s_clients /\ s_counter' = s_counter
      /\ JoinersAtLoad \/ found \subseteq put
  BY DEF Load, P!OnLateLoad, Q!Init, queries
<1>2. s_hooked' \in BOOLEAN /\ s_cookieTag' \in 0..MaxLoads /\ load' \in 0..MaxLoads
  <2>1. load' \in 0..MaxLoads
    BY DEF Load, Others
  <2>2. CASE UNCHANGED queries
    BY <2>1, <2>2 DEF queries, Others
  <2>3. ASSUME NEW tag \in 1..load', Q!Init(tag)
        PROVE  s_hooked' \in BOOLEAN /\ s_cookieTag' \in 0..MaxLoads
    BY <2>1, <2>3 DEF Q!Init
  <2> QED
    BY <2>1, <2>2, <2>3 DEF Load
<1>3. plugin = "absent" /\ plugin' = "loaded" /\ UNCHANGED <<at, engine, wire, ledger, told>>
  BY DEF Load
<1>4. \A s \in Slots : m_players[s] = P!NewPlayer /\ s_clients[s] = Q!NewClientData
                       /\ told[s] = 0
  BY <1>3 DEF Blank
<1>5. ASSUME NEW s \in Slots
      PROVE  late[s] \in Row
  BY <1>4, NewOnes DEF Others, Row
<1>6. Tables'
  BY <1>1, <1>5 DEF Tables
<1>7. Others'
  BY <1>1, <1>2, <1>3 DEF Others, engine, ledger
<1>8. Seated' /\ Blank'
  BY <1>3 DEF Seated, Blank, engine
<1>9. ASSUME NEW s \in Slots
      PROVE  Fits(s)'
  <2>1. s_clients'[s].language = None /\ s_clients'[s].operatingSystem = None
    BY <1>1, <1>4, NewOnes
  <2>2. person'[s] = person[s] /\ told'[s] = 0 /\ put' = put
    BY <1>3, <1>4 DEF engine
  <2>3. CASE s \in found
    <3>1. s \notin bots'
      BY <1>3, <2>3 DEF engine, Others
    <3> QED
      BY <1>1, <1>4, <2>1, <2>2, <2>3, <3>1, NewOnes DEF Fits, Row
  <2>4. CASE s \notin found
    BY <1>1, <1>4, <2>1, <2>2, <2>4, NewOnes DEF Fits
  <2> QED
    BY <2>3, <2>4
<1> QED
  BY <1>6, <1>7, <1>8, <1>9

LEMMA UnloadStep == SlotInv /\ Unload => SlotInv'
<1> SUFFICES ASSUME SlotInv, Unload PROVE SlotInv'
  OBVIOUS
<1> USE DEF SlotInv
<1>1. Tables'
  BY NewOnes DEF Unload, Q!Shutdown, Tables
<1>2. Others'
  BY DEF Unload, Idle, Q!Shutdown, Others, engine
<1>3. Seated' /\ Blank' /\ ~Loaded'
  BY DEF Unload, Seated, Blank, Loaded, engine
<1> QED
  BY <1>1, <1>2, <1>3

LEMMA UnmapStep == SlotInv /\ Unmap => SlotInv'
<1> SUFFICES ASSUME SlotInv, Unmap PROVE SlotInv'
  OBVIOUS
<1> USE DEF SlotInv
<1>1. Tables'
  BY NewOnes DEF Unmap, Tables
<1>2. Others'
  <2>1. /\ s_hooked' = FALSE /\ s_cookieTag' = 0 /\ s_counter' = 0 /\ plugin' = "absent"
        /\ plugin = "shut"
        /\ UNCHANGED <<load, at, engine, ledger>>
    BY DEF Unmap
  <2>2. told' \in [Slots -> Nat] /\ 0 \in 0..MaxLoads
    BY DEF Unmap
  <2> QED
    BY <2>1, <2>2 DEF Others, engine, ledger
<1>3. Seated' /\ Blank' /\ ~Loaded'
  BY DEF Unmap, Seated, Blank, Loaded, engine
<1> QED
  BY <1>1, <1>2, <1>3

-----------------------------------------------------------------------------
LEMMA SetPending ==
  ASSUME NEW data \in Data, NEW c, NEW q \in 0..MaxQueries, NEW set,
         set = [data EXCEPT !.pending[c] = q]
  PROVE  /\ set \in Data
         /\ set.language = data.language
         /\ set.operatingSystem = data.operatingSystem
BY DEF Data

LEMMA SendQueryStep ==
  ASSUME NEW s \in Slots, SlotInv, SendQuery(s)
  PROVE  SlotInv'
<1> USE DEF SlotInv
<1>1. /\ plugin = "loaded" /\ UNCHANGED <<m_players, plugin, load, at, engine, told>>
      /\ UNCHANGED <<s_hooked, s_cookieTag>> /\ s_counter' = Q!NextCounter
  BY DEF SendQuery, Loaded, Q!Query
<1>2. Q!NextCounter \in Q!Counters
  BY DEF Others, Q!NextCounter, Q!Counters
<1>3. sent' \in 0..MaxQueries /\ current' \subseteq 1..sent'
  <2>1. \/ sent < MaxQueries /\ sent' = sent + 1 /\ current' \subseteq current \cup {sent'}
        \/ sent' = sent /\ current' = current
    BY DEF SendQuery
  <2>2. sent \in 0..MaxQueries /\ current \subseteq 1..sent
    BY DEF Others
  <2>3. CASE sent < MaxQueries /\ sent' = sent + 1 /\ current' \subseteq current \cup {sent'}
    <3>1. sent' \in 1..MaxQueries /\ 1..sent \subseteq 1..sent' /\ sent' \in 1..sent'
      BY <2>2, <2>3
    <3> QED
      BY <2>2, <2>3, <3>1
  <2> QED
    BY <2>1, <2>2, <2>3
<1>4. \/ s_clients' = s_clients
      \/ s_clients' = [s_clients EXCEPT ![s].pending[Q!NextCounter] = sent']
  BY DEF SendQuery, Q!Query
<1>5. /\ s_clients' \in [Slots -> Data]
      /\ \A t \in Slots : /\ s_clients'[t].language = s_clients[t].language
                          /\ s_clients'[t].operatingSystem = s_clients[t].operatingSystem
  <2>1. s_clients[s] \in Data
    BY DEF Tables
  <2> DEFINE set == [s_clients[s] EXCEPT !.pending[Q!NextCounter] = sent']
  <2>2. /\ set \in Data
        /\ set.language = s_clients[s].language
        /\ set.operatingSystem = s_clients[s].operatingSystem
    <3> HIDE DEF set
    <3>1. set = [s_clients[s] EXCEPT !.pending[Q!NextCounter] = sent']
      BY DEF set
    <3> QED
      BY ONLY <3>1, <1>3, <2>1, sent' \in 0..MaxQueries, SetPending
  <2> QED
    BY <1>4, <2>2 DEF Tables
<1>6. Tables'
  BY <1>1, <1>5 DEF Tables
<1>7. Others'
  BY <1>1, <1>2, <1>3 DEF Others, engine
<1>8. Seated' /\ Blank'
  BY <1>1 DEF Seated, Blank, engine
<1>9. ASSUME NEW t \in Slots
      PROVE  Fits(t)'
  BY <1>1, <1>5, FitsStays DEF Loaded, engine
<1> QED
  BY <1>6, <1>7, <1>8, <1>9

LEMMA RunFrameStep ==
  ASSUME NEW s \in Slots, SlotInv, RunFrame(s)
  PROVE  SlotInv'
<1> USE DEF SlotInv
<1>1. /\ plugin = "loaded" /\ at' = s
      /\ UNCHANGED <<queries, plugin, load, engine, wire, ledger>>
      /\ told' = [told EXCEPT ![s] = @ + 1]
      /\ m_players' = [m_players EXCEPT ![s].authenticated = TRUE]
  BY DEF RunFrame, Loaded, P!RunFrame
<1>2. ~m_players[s].authenticated /\ s \in confirmed /\ m_players[s].connected
  BY DEF RunFrame, P!RunFrame, P!ToTell, P!Occupied
<1>3. Tables'
  BY <1>1 DEF Tables, Row, queries
<1>4. Others'
  BY <1>1 DEF Others, queries, engine, ledger
<1>5. Seated' /\ Blank'
  BY <1>1 DEF Seated, Blank, engine
<1>6. ASSUME NEW t \in Slots
      PROVE  Fits(t)'
  <2>1. Fits(t)
    BY <1>1 DEF Loaded
  <2>2. CASE t # s
    BY <1>1, <2>1, <2>2, FitsStays DEF queries, engine, Tables, Others
  <2>3. CASE t = s
    <3>1. m_players'[s] = [m_players[s] EXCEPT !.authenticated = TRUE]
      BY <1>1 DEF Tables
    <3>2. told'[s] = 1
      BY <1>1, <1>2, <2>1, <2>3 DEF Fits, Others
    <3>3. s \notin bots
      BY <1>2 DEF Seated, Others
    <3>4. m_players[s] \in Row
      BY DEF Tables
    <3> QED
      BY <1>1, <1>2, <2>1, <2>3, <3>1, <3>2, <3>3, <3>4 DEF Fits, Row, queries, engine
  <2> QED
    BY <2>2, <2>3
<1> QED
  BY <1>3, <1>4, <1>5, <1>6

\* Steps that change neither table.
LEMMA QuietStep ==
  ASSUME SlotInv,
         UNCHANGED <<queries, m_players, plugin, load, person, bots, put, ledger, told>>,
         at' = at \/ at' = 0,
         confirmed \subseteq confirmed', \A s \in confirmed' : s \in Slots /\ person[s] # None
  PROVE  SlotInv'
<1> USE DEF SlotInv
<1>1. Tables'
  BY DEF Tables, queries
<1>2. Others'
  BY DEF Others, queries, ledger
<1>3. Seated' /\ Blank'
  BY DEF Seated, Blank, queries
<1>4. ASSUME Loaded, NEW t \in Slots
      PROVE  Fits(t)'
  BY <1>4, FitsStays DEF queries
<1> QED
  BY <1>1, <1>2, <1>3, <1>4 DEF Loaded

LEMMA QuietSteps ==
  ASSUME SlotInv, \/ EndFrame \/ UNCHANGED vars
                  \/ \E s \in Slots : Confirm(s) \/ OtherAsks(s)
  PROVE  SlotInv'
<1>1. /\ UNCHANGED <<queries, m_players, plugin, load, person, bots, put, ledger, told>>
      /\ at' = at \/ at' = 0
      /\ confirmed \subseteq confirmed'
      /\ \A s \in confirmed' : s \in confirmed \/ (s \in Slots /\ person[s] # None)
  BY DEF EndFrame, vars, Confirm, OtherAsks, engine, Idle
<1>2. \A s \in confirmed : s \in Slots /\ person[s] # None
  BY DEF SlotInv, Seated, Others
<1> QED
  BY <1>1, <1>2, QuietStep

-----------------------------------------------------------------------------
LEMMA RespondStep ==
  ASSUME NEW s \in Slots, SlotInv, Respond(s)
  PROVE  SlotInv'
<1> USE DEF SlotInv
<1> DEFINE received == Q!Received(s_clients[s], Head(wire[s]).cookie.counter, person[s])
<1>1. /\ UNCHANGED <<m_players, plugin, load, at, engine, sent, told>>
      /\ UNCHANGED <<s_hooked, s_cookieTag, s_counter>>
      /\ current' \subseteq current
      /\ s_clients' = IF Q!IsOurs(Head(wire[s]).cookie)
                      THEN [s_clients EXCEPT ![s] = received] ELSE s_clients
  BY DEF Respond, Q!OnRespondCvarValue
<1>2. /\ received \in Data
      /\ received.language \in {s_clients[s].language, person[s]}
      /\ received.operatingSystem \in {s_clients[s].operatingSystem, person[s]}
  <2> DEFINE counter == Head(wire[s]).cookie.counter
             data == s_clients[s]
  <2>1. data \in Data /\ person[s] \in People \cup {None} /\ 0 \in 0..MaxQueries
    BY DEF Tables, Others
  <2>2. \/ received = [data EXCEPT !.language = person[s]]
        \/ received = [data EXCEPT !.operatingSystem = person[s]]
        \/ received = [data EXCEPT !.pending[counter] = 0]
    BY DEF Q!Received
  <2> HIDE DEF received, data, counter
  <2>3. CASE received = [data EXCEPT !.pending[counter] = 0]
    <3>1. /\ received \in Data
          /\ received.language = data.language
          /\ received.operatingSystem = data.operatingSystem
      BY ONLY <2>1, <2>3, SetPending
    <3> QED
      BY <3>1 DEF data
  <2> QED
    BY <2>1, <2>2, <2>3 DEF Data, data
<1>3. Tables'
  BY <1>1, <1>2 DEF Tables
<1>4. Others'
  BY <1>1 DEF Others, engine
<1>5. Seated'
  BY <1>1 DEF Seated, engine
<1>6. Blank'
  <2>1. CASE plugin = "absent"
    <3> HIDE DEF SlotInv
    <3>1. UNCHANGED <<m_players, told>> /\ s_clients = [t \in Slots |-> Q!NewClientData]
      BY <1>1, <2>1 DEF Blank, SlotInv
    <3>2. ~s_hooked
      BY <2>1 DEF SlotInv, Blank
    <3> QED
      BY <1>1, <2>1, <3>1, <3>2 DEF Blank, SlotInv, Q!IsOurs
  <2> QED
    BY <1>1, <2>1 DEF Blank
<1>7. ASSUME Loaded, NEW t \in Slots
      PROVE  Fits(t)'
  <2>1. Fits(t)
    BY <1>7
  <2>2. /\ s_clients'[t].language \in {s_clients[t].language, person[t]}
        /\ s_clients'[t].operatingSystem \in {s_clients[t].operatingSystem, person[t]}
    BY <1>1, <1>2 DEF Tables
  <2> QED
    BY <1>1, <2>1, <2>2 DEF Fits, engine
<1> QED
  BY <1>1, <1>3, <1>4, <1>5, <1>6, <1>7 DEF Loaded

\* The engine calls both components, or neither.
LEMMA HooksOnSlot ==
  ASSUME NEW s \in Slots, SlotInv, NEW row \in Row,
         \/ /\ Loaded
            /\ m_players' = [m_players EXCEPT ![s] = row]
            /\ s_clients' = [s_clients EXCEPT ![s] = Q!NewClientData]
         \/ ~Loaded /\ UNCHANGED <<m_players, s_clients>>,
         UNCHANGED <<s_hooked, s_cookieTag, s_counter, plugin, load, at, sent>>,
         current' \subseteq current,
         person' \in [Slots -> People \cup {None}],
         \A t \in Slots : t # s => /\ person'[t] = person[t]
                                   /\ t \in bots <=> t \in bots'
                                   /\ t \in put <=> t \in put'
                                   /\ t \in confirmed <=> t \in confirmed',
         bots' \subseteq Slots, put' \subseteq Slots, confirmed' \subseteq Slots,
         s \in bots' => person'[s] = None,
         s \in put' => person'[s] # None \/ s \in bots',
         s \in confirmed' => person'[s] # None,
         told' = told \/ told' = [told EXCEPT ![s] = 0], Loaded => told'[s] = 0,
         ~row.authenticated, row.steamid64 = person'[s],
         row.connected => person'[s] # None \/ s \in bots',
         row.inGame => s \in put', row.fakePlayer => s \in bots'
  PROVE  SlotInv'
<1> USE DEF SlotInv
<1>1. Tables'
  BY NewOnes DEF Tables
<1>2. Others'
  <2>1. told' \in [Slots -> Nat]
    BY DEF Others
  <2>2. bots' \subseteq {t \in Slots : person'[t] = None}
    BY DEF Others
  <2> QED
    BY <2>1, <2>2 DEF Others
<1>3. Seated'
  BY DEF Seated
<1>4. Blank'
  BY DEF Blank, Loaded
<1>5. ASSUME Loaded, NEW t \in Slots
      PROVE  Fits(t)'
  <2>1. CASE t # s
    BY <1>5, <2>1, FitsStays DEF Tables, Others
  <2>2. CASE t = s
    <3>1. m_players'[s] = row /\ s_clients'[s] = Q!NewClientData
      BY <1>5 DEF Tables
    <3> QED
      BY <1>5, <2>2, <3>1, NewOnes DEF Fits, Row
  <2> QED
    BY <2>1, <2>2
<1> QED
  BY <1>1, <1>2, <1>3, <1>4, <1>5 DEF Loaded

\* Who connects finds nothing in the slot.
LEMMA EmptySlot ==
  ASSUME NEW s \in Slots, SlotInv, person[s] = None, s \notin bots
  PROVE  s \notin put /\ s \notin confirmed /\ (Loaded => told[s] = 0)
BY DEF SlotInv, Seated, Fits

LEMMA ConnectStep ==
  ASSUME NEW s \in Slots, NEW p \in People, SlotInv, Connect(s, p)
  PROVE  SlotInv'
<1> DEFINE row == [P!NewPlayer EXCEPT !.connected = TRUE, !.fakePlayer = FALSE,
                                      !.steamid64 = p]
<1>1. /\ row \in Row /\ ~row.authenticated /\ row.steamid64 = p /\ ~row.inGame
      /\ ~row.fakePlayer
  BY NewOnes DEF Row
<1>2. /\ person' = [person EXCEPT ![s] = p] /\ person[s] = None /\ s \notin bots
      /\ UNCHANGED <<plugin, load, at, bots, put, confirmed, ledger, told>>
  BY DEF Connect
<1>3. \/ /\ Loaded
         /\ m_players' = [m_players EXCEPT ![s] = row]
         /\ s_clients' = [s_clients EXCEPT ![s] = Q!NewClientData]
         /\ UNCHANGED <<s_hooked, s_cookieTag, s_counter>>
      \/ ~Loaded /\ UNCHANGED <<m_players, queries>>
  BY DEF Connect, Hooks, Q!OnClientConnected, Q!DropClient, P!OnClientConnected, P!Clear
<1>4. person' \in [Slots -> People \cup {None}] /\ person'[s] = p /\ p # None
  BY <1>2 DEF SlotInv, Others
<1>5. /\ \A t \in Slots : t # s => person'[t] = person[t]
      /\ bots \subseteq Slots /\ put \subseteq Slots /\ confirmed \subseteq Slots
  BY <1>2 DEF SlotInv, Others
<1>6. s \notin put /\ s \notin confirmed /\ (Loaded => told[s] = 0)
  BY <1>2, EmptySlot
<1> HIDE DEF row
<1> QED
  BY <1>1, <1>2, <1>3, <1>4, <1>5, <1>6, HooksOnSlot DEF queries, ledger

LEMMA ConnectBotStep ==
  ASSUME NEW s \in Slots, SlotInv, ConnectBot(s)
  PROVE  SlotInv'
<1> DEFINE row == [P!NewPlayer EXCEPT !.connected = TRUE, !.fakePlayer = TRUE,
                                      !.steamid64 = None]
<1>1. row \in Row /\ ~row.authenticated /\ row.steamid64 = None /\ ~row.inGame
  BY NewOnes DEF Row
<1>2. /\ bots' = bots \cup {s} /\ person[s] = None /\ s \notin bots
      /\ UNCHANGED <<plugin, load, at, person, put, confirmed, ledger, told>>
  BY DEF ConnectBot
<1>3. \/ /\ Loaded
         /\ m_players' = [m_players EXCEPT ![s] = row]
         /\ s_clients' = [s_clients EXCEPT ![s] = Q!NewClientData]
         /\ UNCHANGED <<s_hooked, s_cookieTag, s_counter>>
      \/ ~Loaded /\ UNCHANGED <<m_players, queries>>
  BY DEF ConnectBot, Hooks, Q!OnClientConnected, Q!DropClient, P!OnClientConnected, P!Clear
<1>4. /\ person \in [Slots -> People \cup {None}]
      /\ bots' \subseteq Slots /\ put \subseteq Slots /\ confirmed \subseteq Slots
  BY <1>2 DEF SlotInv, Others
<1>5. s \notin put /\ s \notin confirmed /\ (Loaded => told[s] = 0)
  BY <1>2, EmptySlot
<1> HIDE DEF row
<1> QED
  BY <1>1, <1>2, <1>3, <1>4, <1>5, HooksOnSlot DEF queries, ledger

LEMMA DisconnectStep ==
  ASSUME NEW s \in Slots, SlotInv, Disconnect(s)
  PROVE  SlotInv'
<1>1. /\ person' = [person EXCEPT ![s] = None]
      /\ bots' = bots \ {s} /\ put' = put \ {s} /\ confirmed' = confirmed \ {s}
      /\ current' \subseteq current /\ told' = [told EXCEPT ![s] = 0]
      /\ UNCHANGED <<plugin, load, at, sent>>
  BY DEF Disconnect, Leaves
<1>2. \/ /\ Loaded
         /\ m_players' = [m_players EXCEPT ![s] = P!NewPlayer]
         /\ s_clients' = [s_clients EXCEPT ![s] = Q!NewClientData]
         /\ UNCHANGED <<s_hooked, s_cookieTag, s_counter>>
      \/ ~Loaded /\ UNCHANGED <<m_players, queries>>
  BY DEF Disconnect, Hooks, Q!OnClientDisconnect, Q!DropClient, P!OnClientDisconnect, P!Clear
<1>3. /\ person' \in [Slots -> People \cup {None}] /\ person'[s] = None /\ told'[s] = 0
      /\ \A t \in Slots : t # s => person'[t] = person[t]
      /\ bots' \subseteq Slots /\ put' \subseteq Slots /\ confirmed' \subseteq Slots
  BY <1>1 DEF SlotInv, Others
<1> QED
  BY <1>1, <1>2, <1>3, NewOnes, HooksOnSlot DEF queries

LEMMA ReconnectStep ==
  ASSUME NEW s \in Slots, SlotInv, Reconnect(s)
  PROVE  SlotInv'
<1> DEFINE row == [P!NewPlayer EXCEPT !.connected = TRUE, !.fakePlayer = FALSE,
                                      !.steamid64 = person[s]]
<1>1. /\ person[s] # None /\ put' = put \ {s}
      /\ confirmed' \in {confirmed, confirmed \ {s}}
      /\ current' \subseteq current /\ told' = [told EXCEPT ![s] = 0]
      /\ UNCHANGED <<plugin, load, at, person, bots, sent>>
  BY DEF Reconnect, Leaves
<1>2. /\ person \in [Slots -> People \cup {None}] /\ told'[s] = 0 /\ s \notin bots
      /\ bots \subseteq Slots /\ put' \subseteq Slots /\ confirmed' \subseteq Slots
  BY <1>1 DEF SlotInv, Others
<1>3. /\ row \in Row /\ ~row.authenticated /\ row.steamid64 = person[s] /\ ~row.inGame
      /\ ~row.fakePlayer
  BY <1>2, NewOnes DEF Row
<1>4. \/ /\ Loaded
         /\ m_players' = [m_players EXCEPT ![s] = row]
         /\ s_clients' = [s_clients EXCEPT ![s] = Q!NewClientData]
         /\ UNCHANGED <<s_hooked, s_cookieTag, s_counter>>
      \/ ~Loaded /\ UNCHANGED <<m_players, queries>>
  BY DEF Reconnect, Hooks, Q!OnClientConnected, Q!DropClient, P!OnClientConnected, P!Clear
<1> HIDE DEF row
<1> QED
  BY <1>1, <1>2, <1>3, <1>4, HooksOnSlot DEF queries

LEMMA PutInServerStep ==
  ASSUME NEW s \in Slots, SlotInv, PutInServer(s)
  PROVE  SlotInv'
<1> USE DEF SlotInv
<1>1. /\ person[s] # None \/ s \in bots
      /\ put' = put \cup {s}
      /\ UNCHANGED <<queries, plugin, load, at, person, bots, confirmed, ledger, told>>
  BY DEF PutInServer, Hooks
<1>2. \/ Loaded /\ m_players' = [m_players EXCEPT ![s].inGame = TRUE]
      \/ m_players' = m_players
  BY DEF PutInServer, Hooks, P!OnClientPutInServer
<1>3. Tables'
  <2>1. m_players[s] \in Row /\ [m_players[s] EXCEPT !.inGame = TRUE] \in Row
    BY DEF Tables, Row
  <2>2. m_players' \in [Slots -> Row]
    BY <1>2, <2>1 DEF Tables
  <2> QED
    BY <1>1, <2>2 DEF Tables, queries
<1>4. Others'
  BY <1>1 DEF Others, queries, ledger
<1>5. Seated' /\ Blank'
  BY <1>1, <1>2 DEF Seated, Blank, Loaded, queries
<1>6. ASSUME Loaded, NEW t \in Slots
      PROVE  Fits(t)'
  <2>1. Fits(t)
    BY <1>6
  <2>2. CASE m_players'[t] = m_players[t]
    BY <1>1, <2>1, <2>2, FitsStays DEF queries
  <2>3. CASE t = s /\ m_players'[t] = [m_players[t] EXCEPT !.inGame = TRUE]
    BY <1>1, <2>1, <2>3 DEF Fits, Tables, Row, queries
  <2> QED
    BY <1>2, <2>2, <2>3 DEF Tables
<1> QED
  BY <1>1, <1>3, <1>4, <1>5, <1>6 DEF Loaded

-----------------------------------------------------------------------------
LEMMA SlotStep == SlotInv /\ [Next]_vars => SlotInv'
<1> SUFFICES ASSUME SlotInv, [Next]_vars PROVE SlotInv'
  OBVIOUS
<1>1. CASE Load \/ Unload \/ Unmap
  BY <1>1, LoadStep, UnloadStep, UnmapStep
<1>2. CASE EndFrame \/ UNCHANGED vars
  BY <1>2, QuietSteps
<1>3. ASSUME NEW s \in Slots,
             \/ SendQuery(s) \/ ConnectBot(s) \/ PutInServer(s) \/ Confirm(s) \/ Disconnect(s)
             \/ Reconnect(s) \/ OtherAsks(s) \/ Respond(s) \/ RunFrame(s)
      PROVE  SlotInv'
  BY <1>3, SendQueryStep, ConnectBotStep, PutInServerStep, QuietSteps, DisconnectStep,
     ReconnectStep, RespondStep, RunFrameStep
<1>4. ASSUME NEW s \in Slots, NEW p \in People, Connect(s, p)
      PROVE  SlotInv'
  BY <1>4, ConnectStep
<1> QED
  BY <1>1, <1>2, <1>3, <1>4 DEF Next, Frame

LEMMA SlotInvariance == Spec => []SlotInv
<1>1. Init => SlotInv
  BY InitSlots
<1>2. SlotInv /\ [Next]_vars => SlotInv'
  BY SlotStep
<1> QED
  BY <1>1, <1>2, PTL DEF Spec

\* The table and the data of each client keep their types, whatever the order of
\* hooks, answers, frames and loads of the plugin.
THEOREM SlotTypeCorrect == Spec => []TypeOK
<1>1. SlotInv => TypeOK
  BY TypesByTables DEF SlotInv
<1> QED
  BY <1>1, SlotInvariance, PTL

\* authenticated is never left to the next client of a slot, nor set for one that
\* Steam has not confirmed.
THEOREM TrustCorrect == Spec => []OnlyConfirmedAreTrusted
<1>1. SlotInv => OnlyConfirmedAreTrusted
  BY DEF SlotInv, Fits, OnlyConfirmedAreTrusted
<1> QED
  BY <1>1, SlotInvariance, PTL

\* onAuthenticated is called for a client exactly when the client becomes
\* authenticated, in each load of the plugin.
THEOREM ToldCorrect == Spec => []ToldOnce
<1>1. SlotInv => ToldOnce
  BY DEF SlotInv, Fits, ToldOnce
<1> QED
  BY <1>1, SlotInvariance, PTL

\* Nothing that is kept by slot is of an earlier client, if no client is joining
\* while the plugin is loaded.
THEOREM OccupantsCorrect == ASSUME JoinersAtLoad = FALSE PROVE Spec => []SlotsAreTheOccupants
<1>1. SlotInv => SlotsAreTheOccupants
  BY DEF SlotInv, Fits, SlotsAreTheOccupants
<1> QED
  BY <1>1, SlotInvariance, PTL

-----------------------------------------------------------------------------
(* Answers and callbacks *)

Asks == [cookie : [tag : 0..MaxLoads, counter : Nat], query : 0..MaxQueries]

\* A question under way to the client in s finds its own callback, if that is to
\* run yet.
Tracked(s, w) ==
  /\ w.query \in 0..sent
  /\ w.query \in current =>
       /\ w.cookie.tag = s_cookieTag /\ w.cookie.counter \in Q!Counters
       /\ s_clients[s].pending[w.cookie.counter] = w.query

\* A callback that waits is that of a question under way to the client in s.
Held(s, c) ==
  \/ s_clients[s].pending[c] = 0
  \/ \E i \in DOMAIN wire[s] :
       /\ wire[s][i].cookie = Q!Cookie(c) /\ wire[s][i].query = s_clients[s].pending[c]
       /\ wire[s][i].query \in current

\* Two queries have two numbers.
Numbered(v, w) == v.query # w.query \/ v.query = 0

WireInv ==
  /\ wire \in [Slots -> Seq(Asks)]
  /\ s_hooked => Loaded
  /\ ~s_hooked => current = {}
  /\ \A s \in Slots : person[s] = None => wire[s] = <<>>
  /\ \A s \in Slots : \A i \in DOMAIN wire[s] : Tracked(s, wire[s][i])
  /\ \A s \in Slots : \A c \in Q!Counters : Held(s, c)
  /\ \A s, t \in Slots : \A i \in DOMAIN wire[s], j \in DOMAIN wire[t] :
       s # t \/ i # j => Numbered(wire[s][i], wire[t][j])

LEMMA NoneWaits ==
  /\ Q!NewClientData.pending \in [Q!Counters -> 0..MaxQueries]
  /\ \A c \in Q!Counters : Q!NewClientData.pending[c] = 0
BY DEF Q!NewClientData

LEMMA InitWire == Init => WireInv
<1> SUFFICES ASSUME Init PROVE WireInv
  OBVIOUS
<1>1. /\ \A s \in Slots : wire[s] = <<>>
      /\ wire \in [Slots -> Seq(Asks)] /\ ~s_hooked /\ current = {}
      /\ \A s \in Slots : s_clients[s] = Q!NewClientData
  BY DEF Init, Q!InitStatics
<1>2. DOMAIN <<>> = {}
  OBVIOUS
<1>3. \A s \in Slots : \A c \in Q!Counters : Held(s, c)
  BY <1>1, NoneWaits DEF Held
<1> QED
  BY <1>1, <1>2, <1>3 DEF WireInv

LEMMA WireTypes ==
  ASSUME WireInv, NEW s \in Slots
  PROVE  /\ wire[s] \in Seq(Asks) /\ DOMAIN wire[s] = 1..Len(wire[s])
         /\ Len(wire[s]) \in Nat
         /\ \A i \in DOMAIN wire[s] : wire[s][i] \in Asks
  BY LenProperties DEF WireInv

LEMMA LedgerTypes ==
  ASSUME SlotInv
  PROVE  0 \notin current /\ current \subseteq 1..sent /\ sent \in Nat /\ sent \in 0..MaxQueries
  BY DEF SlotInv, Others

\* What is under way under a cookie.
LEMMA UnderIs ==
  ASSUME NEW s \in Slots, NEW cookie, NEW q
  PROVE  q \in Under(s, cookie) <=>
           \E i \in DOMAIN wire[s] : wire[s][i].cookie = cookie /\ wire[s][i].query = q
  BY DEF Under

\* Nothing is asked, answered or forgotten.
LEMMA QuietWire ==
  ASSUME WireInv, UNCHANGED <<wire, current, sent, s_hooked, s_cookieTag, plugin, person>>,
         \A s \in Slots : s_clients'[s].pending = s_clients[s].pending
  PROVE  WireInv'
<1>1. ASSUME NEW s \in Slots, NEW i \in DOMAIN wire[s]
      PROVE  Tracked(s, wire[s][i])'
  BY DEF WireInv, Tracked
<1>2. ASSUME NEW s \in Slots, NEW c \in Q!Counters
      PROVE  Held(s, c)'
  BY DEF WireInv, Held, Q!Cookie
<1> QED
  BY <1>1, <1>2 DEF WireInv, Numbered, Loaded

\* Loads begin and end without a callback that waits.
LEMMA LoadWire ==
  ASSUME SlotInv, WireInv, Load \/ Unload \/ Unmap
  PROVE  WireInv'
<1>1. /\ UNCHANGED <<wire, sent, person>> /\ current' = {}
      /\ s_hooked' => plugin' = "loaded"
      /\ \A s \in Slots : \A c \in Q!Counters : s_clients'[s].pending[c] = 0
  <2>1. CASE Load
    <3>1. /\ plugin = "absent" /\ plugin' = "loaded"
          /\ UNCHANGED <<wire, sent, current, person, s_clients>>
      BY <2>1 DEF Load, engine, ledger, queries, Q!Init
    <3>2. ~s_hooked /\ current = {}
      BY <3>1 DEF SlotInv, Blank, WireInv
    <3>3. \A s \in Slots : \A c \in Q!Counters : s_clients[s].pending[c] = 0
      BY <3>2 DEF WireInv, Held
    <3> QED
      BY <3>1, <3>2, <3>3
  <2>2. CASE Unload
    BY <2>2, NoneWaits DEF Unload, engine, Q!Shutdown
  <2>3. CASE Unmap
    <3>1. ~s_hooked /\ current = {}
      BY <2>3 DEF Unmap, WireInv, Loaded
    <3> QED
      BY <2>3, <3>1, NoneWaits DEF Unmap, engine, ledger
  <2> QED
    BY <2>1, <2>2, <2>3
<1>2. \A s \in Slots : \A i \in DOMAIN wire'[s] : Tracked(s, wire[s][i])'
  BY <1>1 DEF WireInv, Tracked
<1>3. \A s \in Slots : \A c \in Q!Counters : Held(s, c)'
  BY <1>1 DEF Held
<1> QED
  BY <1>1, <1>2, <1>3 DEF WireInv, Numbered, Loaded

\* What changes on one slot's wire.
LEMMA WireOnSlot ==
  ASSUME WireInv, NEW s \in Slots, SlotInv,
         wire' = [wire EXCEPT ![s] = wire'[s]], wire'[s] \in Seq(Asks),
         UNCHANGED <<s_hooked, s_cookieTag, plugin>>,
         sent' \in Nat, sent <= sent', ~s_hooked => current' = {},
         person'[s] = None => wire'[s] = <<>>,
         \A t \in Slots : t # s =>
           /\ person'[t] = person[t] /\ s_clients'[t].pending = s_clients[t].pending
           /\ \A i \in DOMAIN wire[t] : wire[t][i].query \in current' <=> wire[t][i].query \in current,
         \A i \in DOMAIN wire'[s] : Tracked(s, wire[s][i])',
         \A c \in Q!Counters : Held(s, c)',
         \A i, j \in DOMAIN wire'[s] : i # j => Numbered(wire[s][i], wire[s][j])',
         \A i \in DOMAIN wire'[s] :
           \/ wire'[s][i].query = 0 \/ wire'[s][i].query \notin 0..sent
           \/ \E j \in DOMAIN wire[s] : wire'[s][i].query = wire[s][j].query
  PROVE  WireInv'
<1>1. wire' \in [Slots -> Seq(Asks)] /\ \A t \in Slots : t # s => wire'[t] = wire[t]
  BY DEF WireInv
<1>2. \A n \in 0..sent : n \in 0..sent'
  BY LedgerTypes
<1>3. ASSUME NEW t \in Slots, NEW i \in DOMAIN wire'[t]
      PROVE  Tracked(t, wire[t][i])'
  <2>1. CASE t # s
    <3>1. Tracked(t, wire[t][i]) /\ wire'[t] = wire[t]
      BY <1>1, <2>1 DEF WireInv
    <3> QED
      BY <1>1, <1>2, <2>1, <3>1 DEF Tracked
  <2> QED
    BY <2>1
<1>4. ASSUME NEW t \in Slots, NEW c \in Q!Counters
      PROVE  Held(t, c)'
  <2>1. CASE t # s
    <3>1. Held(t, c) /\ wire'[t] = wire[t] /\ s_clients'[t].pending = s_clients[t].pending
      BY <1>1, <2>1 DEF WireInv
    <3>2. CASE s_clients[t].pending[c] = 0
      BY <3>1, <3>2 DEF Held
    <3>3. ASSUME NEW i \in DOMAIN wire[t],
                 /\ wire[t][i].cookie = Q!Cookie(c)
                 /\ wire[t][i].query = s_clients[t].pending[c]
                 /\ wire[t][i].query \in current
          PROVE  Held(t, c)'
      <4>1. wire[t][i].query \in current'
        BY <2>1, <3>3
      <4>2. Q!Cookie(c)' = Q!Cookie(c)
        BY DEF Q!Cookie
      <4> QED
        BY <3>1, <3>3, <4>1, <4>2 DEF Held
    <3> QED
      BY <3>1, <3>2, <3>3 DEF Held
  <2> QED
    BY <2>1
<1>5. ASSUME NEW t \in Slots, NEW u \in Slots,
             NEW i \in DOMAIN wire'[t], NEW j \in DOMAIN wire'[u], t # u \/ i # j
      PROVE  Numbered(wire[t][i], wire[u][j])'
  <2>1. ASSUME NEW v \in Slots, v # s, NEW k \in DOMAIN wire'[s], NEW l \in DOMAIN wire'[v]
        PROVE  wire'[s][k].query # wire'[v][l].query \/ wire'[v][l].query = 0
    <3>1. wire'[v] = wire[v] /\ wire[v][l].query \in 0..sent
      BY <1>1, <2>1 DEF WireInv, Tracked
    <3>2. \A m \in DOMAIN wire[s] : Numbered(wire[v][l], wire[s][m])
      BY <2>1, <3>1 DEF WireInv
    <3> QED
      BY <2>1, <3>1, <3>2 DEF Numbered
  <2>2. CASE t = s /\ u = s
    <3>1. i \in DOMAIN wire'[s] /\ j \in DOMAIN wire'[s] /\ i # j
      BY <1>5, <2>2
    <3>2. Numbered(wire[s][i], wire[s][j])'
      BY <3>1
    <3> QED
      BY <2>2, <3>2
  <2>3. CASE t = s /\ u # s
    <3>1. wire'[s][i].query # wire'[u][j].query \/ wire'[u][j].query = 0
      BY <2>1, <2>3
    <3> QED
      BY <2>3, <3>1 DEF Numbered
  <2>4. CASE t # s /\ u = s
    <3>1. wire'[s][j].query # wire'[t][i].query \/ wire'[t][i].query = 0
      BY <2>1, <2>4
    <3> QED
      BY <2>4, <3>1 DEF Numbered
  <2>5. CASE t # s /\ u # s
    BY <1>1, <1>5, <2>5 DEF WireInv, Numbered
  <2> QED
    BY <2>2, <2>3, <2>4, <2>5
<1> QED
  BY <1>1, <1>3, <1>4, <1>5 DEF WireInv, Loaded

\* A question without a callback: of another plugin, or one of the two that the
\* plugin sends when a client connects.
Plain(w) == w \in Asks /\ w.query = 0

LEMMA ConnectQueriesPlain ==
  ASSUME SlotInv, WireInv, NEW s \in Slots
  PROVE  /\ ConnectQueries(s) \in Seq(Asks)
         /\ Len(ConnectQueries(s)) \in Nat
         /\ \A i \in 1..Len(ConnectQueries(s)) : Plain(ConnectQueries(s)[i])
<1> DEFINE a == Ask(Q!Cookie(Q!kLanguageCounter), 0)
           b == Ask(Q!Cookie(kOperatingSystemCounter), 0)
<1>1. CASE s_hooked
  <2>1. s_cookieTag \in 0..MaxLoads /\ 0 \in 0..MaxQueries
    BY DEF SlotInv, Others
  <2>2. Q!kLanguageCounter \in Nat /\ kOperatingSystemCounter \in Nat
    BY DEF Q!kLanguageCounter
  <2>3. Plain(a) /\ Plain(b)
    BY <2>1, <2>2 DEF Plain, Asks, Ask, Q!Cookie
  <2>4. ConnectQueries(s) = <<a, b>>
    BY <1>1 DEF ConnectQueries
  <2> HIDE DEF a, b
  <2>5. Len(<<a, b>>) = 2 /\ \A i \in 1..2 : <<a, b>>[i] = a \/ <<a, b>>[i] = b
    OBVIOUS
  <2>6. <<a, b>> \in Seq(Asks)
    BY <2>3 DEF Plain
  <2> QED
    BY <2>3, <2>4, <2>5, <2>6
<1>2. CASE ~s_hooked
  BY <1>2 DEF ConnectQueries
<1> QED
  BY <1>1, <1>2

\* An entry of a queue that others were put behind.
LEMMA PutBehind ==
  ASSUME NEW q \in Seq(Asks), NEW n \in Seq(Asks)
  PROVE  /\ q \o n \in Seq(Asks)
         /\ \A i \in DOMAIN q : i \in DOMAIN (q \o n) /\ (q \o n)[i] = q[i]
         /\ \A i \in DOMAIN (q \o n) :
              \/ i \in DOMAIN q
              \/ \E j \in 1..Len(n) : i = Len(q) + j /\ (q \o n)[i] = n[j]
<1>1. /\ q \o n \in Seq(Asks) /\ Len(q \o n) = Len(q) + Len(n)
      /\ \A i \in 1 .. Len(q) + Len(n) : (q \o n)[i] =
           IF i <= Len(q) THEN q[i] ELSE n[i - Len(q)]
  BY ConcatProperties
<1>2. Len(q) \in Nat /\ Len(n) \in Nat /\ DOMAIN q = 1..Len(q)
      /\ DOMAIN (q \o n) = 1..Len(q \o n)
  BY <1>1, LenProperties
<1>3. \A i \in 1 .. Len(q) + Len(n) :
         IF i <= Len(q) THEN i \in 1..Len(q)
         ELSE i = Len(q) + (i - Len(q)) /\ i - Len(q) \in 1..Len(n)
  BY <1>2
<1>4. \A i \in 1..Len(q) : i \in 1 .. Len(q) + Len(n) /\ i <= Len(q)
  BY <1>2
<1> QED
  BY <1>1, <1>2, <1>3, <1>4

\* Plain questions come to the wire, and what is there keeps its callback or
\* loses it with the plugin's data of the client.
LEMMA PlainWire ==
  ASSUME SlotInv, WireInv, NEW s \in Slots, NEW n \in Seq(Asks),
         \A i \in 1..Len(n) : Plain(n[i]),
         UNCHANGED <<s_hooked, s_cookieTag, plugin, sent>>,
         person'[s] = None => wire'[s] = <<>>,
         \A t \in Slots : t # s =>
           person'[t] = person[t] /\ s_clients'[t].pending = s_clients[t].pending,
         \/ wire' = [wire EXCEPT ![s] = @ \o n]
         \/ wire' = [wire EXCEPT ![s] = n],
         \/ /\ wire' = [wire EXCEPT ![s] = @ \o n]
            /\ current' = current /\ s_clients'[s].pending = s_clients[s].pending
         \/ /\ current' = current \ {wire[s][i].query : i \in DOMAIN wire[s]}
            /\ \A c \in Q!Counters : s_clients'[s].pending[c] = 0
  PROVE  WireInv'
<1>1. wire[s] \in Seq(Asks) /\ wire \in [Slots -> Seq(Asks)] /\ DOMAIN n = 1..Len(n)
  BY WireTypes, LenProperties DEF WireInv
<1>2. /\ wire'[s] \in Seq(Asks) /\ wire' = [wire EXCEPT ![s] = wire'[s]]
      /\ \A i \in DOMAIN wire'[s] :
           \/ i \in DOMAIN wire[s] /\ wire'[s][i] = wire[s][i]
           \/ Plain(wire'[s][i])
  <2>1. CASE wire' = [wire EXCEPT ![s] = @ \o n]
    <3>1. wire'[s] = wire[s] \o n
      BY <1>1, <2>1
    <3>2. wire' = [wire EXCEPT ![s] = wire'[s]]
      BY <2>1, <3>1
    <3>3. wire'[s] \in Seq(Asks)
      BY <1>1, <3>1, PutBehind
    <3>4. ASSUME NEW i \in DOMAIN wire'[s]
          PROVE  (i \in DOMAIN wire[s] /\ wire'[s][i] = wire[s][i]) \/ Plain(wire'[s][i])
      BY <1>1, <3>1, PutBehind
    <3> QED
      BY <3>2, <3>3, <3>4
  <2>2. CASE wire' = [wire EXCEPT ![s] = n]
    <3>1. wire'[s] = n
      BY <1>1, <2>2
    <3> QED
      BY <1>1, <2>2, <3>1
  <2> QED
    BY <2>1, <2>2
<1>3. ASSUME NEW t \in Slots, t # s, NEW i \in DOMAIN wire[t]
      PROVE  wire[t][i].query \in current' <=> wire[t][i].query \in current
  <2>1. \A j \in DOMAIN wire[s] : Numbered(wire[t][i], wire[s][j])
    BY <1>3 DEF WireInv
  <2> QED
    BY <2>1, LedgerTypes DEF Numbered
<1>4. 0 \notin current' /\ current' \subseteq current /\ sent \in Nat
  BY LedgerTypes
<1>5. ASSUME NEW i \in DOMAIN wire'[s]
      PROVE  Tracked(s, wire[s][i])'
  <2>1. CASE i \in DOMAIN wire[s] /\ wire'[s][i] = wire[s][i]
    <3>1. Tracked(s, wire[s][i])
      BY <2>1 DEF WireInv
    <3> QED
      BY <2>1, <3>1 DEF Tracked
  <2>2. CASE Plain(wire'[s][i])
    <3>1. 0 \in 0..sent
      BY <1>4
    <3> QED
      BY <1>4, <2>2, <3>1 DEF Plain, Tracked
  <2> QED
    BY <1>2, <2>1, <2>2
<1>6. ASSUME NEW c \in Q!Counters
      PROVE  Held(s, c)'
  <2>1. CASE /\ wire' = [wire EXCEPT ![s] = @ \o n]
             /\ current' = current /\ s_clients'[s].pending = s_clients[s].pending
    <3>1. wire'[s] = wire[s] \o n
      BY <1>1, <2>1
    <3>2. \A i \in DOMAIN wire[s] : i \in DOMAIN wire'[s] /\ wire'[s][i] = wire[s][i]
      BY <1>1, <3>1, PutBehind
    <3>3. Held(s, c)
      BY DEF WireInv
    <3> QED
      BY <2>1, <3>2, <3>3 DEF Held, Q!Cookie
  <2>2. CASE s_clients'[s].pending[c] = 0
    BY <2>2 DEF Held
  <2> QED
    BY <2>1, <2>2
<1>7. ASSUME NEW i \in DOMAIN wire'[s], NEW j \in DOMAIN wire'[s], i # j
      PROVE  Numbered(wire[s][i], wire[s][j])'
  <2>1. CASE /\ i \in DOMAIN wire[s] /\ wire'[s][i] = wire[s][i]
             /\ j \in DOMAIN wire[s] /\ wire'[s][j] = wire[s][j]
    BY <1>7, <2>1 DEF WireInv, Numbered
  <2>2. CASE Plain(wire'[s][i])
    BY <2>2 DEF Plain, Numbered
  <2>3. CASE Plain(wire'[s][j])
    BY <2>3 DEF Plain, Numbered
  <2> QED
    BY <1>2, <2>1, <2>2, <2>3
<1>8. \A i \in DOMAIN wire'[s] :
         \/ wire'[s][i].query = 0
         \/ \E j \in DOMAIN wire[s] : wire'[s][i].query = wire[s][j].query
  BY <1>2 DEF Plain
<1>9. sent' \in Nat /\ sent <= sent' /\ (~s_hooked => current' = {})
  BY <1>4 DEF WireInv
<1> QED
  BY <1>2, <1>3, <1>5, <1>6, <1>7, <1>8, <1>9, WireOnSlot

LEMMA EngineWire ==
  ASSUME SlotInv, WireInv, NEW s \in Slots,
         \/ \E p \in People : Connect(s, p)
         \/ ConnectBot(s) \/ Disconnect(s) \/ Reconnect(s) \/ OtherAsks(s)
  PROVE  WireInv'
<1>t. /\ wire \in [Slots -> Seq(Asks)] /\ wire[s] \in Seq(Asks)
      /\ s_clients \in [Slots -> Data] /\ person \in [Slots -> People \cup {None}]
      /\ <<>> \in Seq(Asks) /\ Len(<<>>) = 0 /\ 1..0 = {} /\ DOMAIN <<>> = {}
      /\ s_hooked => Loaded
  BY EmptySeq DEF WireInv, SlotInv, Tables, Others
\* Whether the plugin is there to drop what waits, or not.
<1>d. ASSUME \/ s_clients' = s_clients
             \/ s_clients' = [s_clients EXCEPT ![s] = Q!NewClientData],
             s_clients' = s_clients => ~s_hooked
      PROVE  \A c \in Q!Counters : s_clients'[s].pending[c] = 0
  <2>1. CASE s_clients' = [s_clients EXCEPT ![s] = Q!NewClientData]
    BY <1>t, <2>1, NoneWaits
  <2>2. CASE s_clients' = s_clients
    <3>1. current = {}
      BY <1>d, <2>2 DEF WireInv
    <3>2. \A c \in Q!Counters : s_clients[s].pending[c] = 0
      BY <3>1 DEF WireInv, Held
    <3> QED
      BY <2>2, <3>2
  <2> QED
    BY <1>d, <2>1, <2>2
<1>n. wire[s] = <<>> => current = current \ {wire[s][i].query : i \in DOMAIN wire[s]}
  BY <1>t
<1>1. ASSUME NEW p \in People, Connect(s, p) PROVE WireInv'
  <2>1. /\ person' = [person EXCEPT ![s] = p] /\ person[s] = None
        /\ wire' = [wire EXCEPT ![s] = ConnectQueries(s)]
        /\ UNCHANGED <<plugin, load, sent, current>>
    BY <1>1 DEF Connect, ledger
  <2>2. /\ UNCHANGED <<s_hooked, s_cookieTag>>
        /\ s_clients' = s_clients \/ s_clients' = [s_clients EXCEPT ![s] = Q!NewClientData]
        /\ Loaded => s_clients' = [s_clients EXCEPT ![s] = Q!NewClientData]
    BY <1>1 DEF Connect, Hooks, queries, Q!OnClientConnected, Q!DropClient
  <2>3. \A t \in Slots : t # s => s_clients'[t] = s_clients[t]
    BY <1>t, <2>2
  <2>4. wire[s] = <<>> /\ person'[s] # None
    BY <1>t, <2>1 DEF WireInv
  <2>5. \A t \in Slots : t # s => person'[t] = person[t]
    BY <1>t, <2>1
  <2>6. \A c \in Q!Counters : s_clients'[s].pending[c] = 0
    <3>1. CASE s_hooked
      BY <1>t, <2>2, <3>1, NoneWaits
    <3>2. CASE ~s_hooked
      BY <1>d, <2>2, <3>2
    <3> QED
      BY <3>1, <3>2
  <2>7. current' = current \ {wire[s][i].query : i \in DOMAIN wire[s]}
    BY <1>n, <2>1, <2>4
  <2> QED
    BY <2>1, <2>2, <2>3, <2>4, <2>5, <2>6, <2>7, ConnectQueriesPlain, PlainWire
<1>2. CASE ConnectBot(s)
  <2>1. person[s] = None /\ UNCHANGED <<plugin, load, person, wire, sent, current>>
    BY <1>2 DEF ConnectBot, ledger
  <2>2. /\ UNCHANGED <<s_hooked, s_cookieTag>>
        /\ s_clients' = s_clients \/ s_clients' = [s_clients EXCEPT ![s] = Q!NewClientData]
        /\ Loaded => s_clients' = [s_clients EXCEPT ![s] = Q!NewClientData]
    BY <1>2 DEF ConnectBot, Hooks, queries, Q!OnClientConnected, Q!DropClient
  <2>3. \A t \in Slots : t # s => s_clients'[t] = s_clients[t]
    BY <1>t, <2>2
  <2>4. wire[s] = <<>> /\ wire' = [wire EXCEPT ![s] = <<>>] /\ wire'[s] = <<>>
    BY <1>t, <2>1 DEF WireInv
  <2>5. \A c \in Q!Counters : s_clients'[s].pending[c] = 0
    <3>1. CASE s_hooked
      BY <1>t, <2>2, <3>1, NoneWaits
    <3>2. CASE ~s_hooked
      BY <1>d, <2>2, <3>2
    <3> QED
      BY <3>1, <3>2
  <2>6. current' = current \ {wire[s][i].query : i \in DOMAIN wire[s]}
    BY <1>n, <2>1, <2>4
  <2> QED
    BY <1>t, <2>1, <2>2, <2>3, <2>4, <2>5, <2>6, PlainWire
<1>3. CASE Disconnect(s)
  <2>1. /\ person' = [person EXCEPT ![s] = None] /\ wire' = [wire EXCEPT ![s] = <<>>]
        /\ current' = current \ {wire[s][i].query : i \in DOMAIN wire[s]}
        /\ UNCHANGED <<plugin, load, sent>>
    BY <1>3 DEF Disconnect, Leaves
  <2>2. /\ UNCHANGED <<s_hooked, s_cookieTag>>
        /\ s_clients' = s_clients \/ s_clients' = [s_clients EXCEPT ![s] = Q!NewClientData]
        /\ Loaded => s_clients' = [s_clients EXCEPT ![s] = Q!NewClientData]
    BY <1>3 DEF Disconnect, Hooks, queries, Q!OnClientDisconnect, Q!DropClient
  <2>3. \A t \in Slots : t # s => s_clients'[t] = s_clients[t]
    BY <1>t, <2>2
  <2>4. wire'[s] = <<>> /\ \A t \in Slots : t # s => person'[t] = person[t]
    BY <1>t, <2>1
  <2>5. \A c \in Q!Counters : s_clients'[s].pending[c] = 0
    <3>1. CASE s_hooked
      BY <1>t, <2>2, <3>1, NoneWaits
    <3>2. CASE ~s_hooked
      BY <1>d, <2>2, <3>2
    <3> QED
      BY <3>1, <3>2
  <2> QED
    BY <1>t, <2>1, <2>2, <2>3, <2>4, <2>5, PlainWire
<1>4. CASE Reconnect(s)
  <2>1. /\ person[s] # None /\ wire' = [wire EXCEPT ![s] = @ \o ConnectQueries(s)]
        /\ current' = current \ {wire[s][i].query : i \in DOMAIN wire[s]}
        /\ UNCHANGED <<plugin, load, person, sent>>
    BY <1>4 DEF Reconnect, Leaves
  <2>2. /\ UNCHANGED <<s_hooked, s_cookieTag>>
        /\ s_clients' = s_clients \/ s_clients' = [s_clients EXCEPT ![s] = Q!NewClientData]
        /\ Loaded => s_clients' = [s_clients EXCEPT ![s] = Q!NewClientData]
    BY <1>4 DEF Reconnect, Hooks, queries, Q!OnClientConnected, Q!DropClient
  <2>3. \A t \in Slots : t # s => s_clients'[t] = s_clients[t]
    BY <1>t, <2>2
  <2>4. \A c \in Q!Counters : s_clients'[s].pending[c] = 0
    <3>1. CASE s_hooked
      BY <1>t, <2>2, <3>1, NoneWaits
    <3>2. CASE ~s_hooked
      BY <1>d, <2>2, <3>2
    <3> QED
      BY <3>1, <3>2
  <2> QED
    BY <2>1, <2>2, <2>3, <2>4, ConnectQueriesPlain, PlainWire
<1>5. CASE OtherAsks(s)
  <2> DEFINE w == Ask([tag |-> OtherTag, counter |-> 1], 0)
  <2>1. /\ person[s] # None /\ wire' = [wire EXCEPT ![s] = Append(@, w)]
        /\ UNCHANGED <<queries, plugin, load, person, sent, current>>
    BY <1>5 DEF OtherAsks, engine, ledger
  <2>2. Plain(w)
    <3>1. 0 \in 0..MaxLoads /\ 0 \in 0..MaxQueries /\ 1 \in Nat
      BY DEF SlotInv, Others
    <3> QED
      BY <3>1 DEF Plain, Asks, Ask
  <2> HIDE DEF w
  <2>3. <<w>> \in Seq(Asks) /\ Len(<<w>>) = 1 /\ \A i \in 1..1 : <<w>>[i] = w
    BY <2>2 DEF Plain
  <2>4. Append(wire[s], w) = wire[s] \o <<w>>
    <3>1. w \in Asks
      BY <2>2 DEF Plain
    <3> QED
      BY <1>t, <3>1, AppendIsConcat
  <2>5. wire' = [wire EXCEPT ![s] = @ \o <<w>>]
    BY <2>1, <2>4
  <2> QED
    BY <2>1, <2>2, <2>3, <2>5, PlainWire DEF queries
<1> QED
  BY <1>1, <1>2, <1>3, <1>4, <1>5

\* A query takes a counter, and the answer of the one that had it before.
LEMMA SendQueryWire ==
  ASSUME SlotInv, WireInv, NEW s \in Slots, SendQuery(s)
  PROVE  WireInv'
<1> DEFINE c == Q!NextCounter
           cookie == Q!Cookie(c)
           w == Ask(cookie, sent')
<1>t. /\ wire \in [Slots -> Seq(Asks)] /\ wire[s] \in Seq(Asks)
      /\ DOMAIN wire[s] = 1..Len(wire[s]) /\ Len(wire[s]) \in Nat
      /\ s_clients \in [Slots -> Data]
  BY WireTypes DEF WireInv, SlotInv, Tables
<1>1. CASE ~(s_hooked /\ person[s] # None)
  BY <1>1, QuietWire DEF SendQuery, Q!Query, engine
<1>2. CASE s_hooked /\ person[s] # None
  <2>1. /\ sent < MaxQueries /\ sent' = sent + 1
        /\ current' = (current \ Under(s, cookie)) \cup {sent'}
        /\ s_clients' = [s_clients EXCEPT ![s].pending[c] = sent']
        /\ wire' = [wire EXCEPT ![s] = Append(@, w)]
        /\ UNCHANGED <<s_hooked, s_cookieTag, plugin, person>>
    BY <1>2 DEF SendQuery, Q!Query, engine
  <2>2. /\ sent \in Nat /\ current \subseteq 1..sent /\ sent' \in 0..MaxQueries
        /\ sent' \notin 0..sent /\ 0..sent \subseteq 0..sent' /\ sent' \in 0..sent'
        /\ sent' # 0 /\ sent <= sent'
    BY <2>1, LedgerTypes
  <2>3. c \in Q!Counters /\ c \in Nat /\ s_cookieTag \in 0..MaxLoads
    BY DEF SlotInv, Others, Q!NextCounter, Q!Counters
  <2>4. cookie = [tag |-> s_cookieTag, counter |-> c]
    BY DEF Q!Cookie
  <2>5. w \in Asks /\ w.query = sent' /\ w.cookie = cookie
    BY <2>2, <2>3, <2>4 DEF Ask, Asks
  <2>7. \A k \in Q!Counters : Q!Cookie(k)' = Q!Cookie(k)
    BY <2>1 DEF Q!Cookie
  <2>8. /\ \A k \in Q!Counters : Q!Cookie(k).tag = s_cookieTag /\ Q!Cookie(k).counter = k
        /\ \A k \in Q!Counters : Q!Cookie(k) = cookie => k = c
    BY <2>4 DEF Q!Cookie
  <2>9. \A q : q \in Under(s, cookie) <=>
          \E i \in DOMAIN wire[s] : wire[s][i].cookie = cookie /\ wire[s][i].query = q
    BY UnderIs
  <2>10. cookie \in [tag : 0..MaxLoads, counter : Nat]
    BY <2>3, <2>4
  <2> HIDE DEF w, cookie, c
  <2>11. /\ wire'[s] = Append(wire[s], w) /\ wire'[s] \in Seq(Asks)
         /\ wire' = [wire EXCEPT ![s] = wire'[s]]
         /\ \A i \in DOMAIN wire[s] : i \in DOMAIN wire'[s] /\ wire'[s][i] = wire[s][i]
         /\ \A i \in DOMAIN wire'[s] : i \in DOMAIN wire[s] \/ (i = Len(wire[s]) + 1 /\ wire'[s][i] = w)
         /\ Len(wire[s]) + 1 \in DOMAIN wire'[s] /\ wire'[s][Len(wire[s]) + 1] = w
    <3>1. wire'[s] = Append(wire[s], w)
      BY <1>t, <2>1
    <3>2. /\ wire'[s] \in Seq(Asks) /\ DOMAIN wire'[s] = 1..(Len(wire[s]) + 1)
          /\ \A i \in 1..Len(wire[s]) : wire'[s][i] = wire[s][i]
          /\ wire'[s][Len(wire[s]) + 1] = w
      BY <1>t, <2>5, <3>1, AppendProperties, LenProperties
    <3>3. \A i \in 1..(Len(wire[s]) + 1) : i \in 1..Len(wire[s]) \/ i = Len(wire[s]) + 1
      BY <1>t
    <3>4. /\ Len(wire[s]) + 1 \in 1..(Len(wire[s]) + 1)
          /\ \A i \in 1..Len(wire[s]) : i \in 1..(Len(wire[s]) + 1)
      BY <1>t
    <3>5. wire' = [wire EXCEPT ![s] = wire'[s]]
      BY <2>1, <3>1
    <3> QED
      BY <1>t, <3>1, <3>2, <3>3, <3>4, <3>5
  <2>12. /\ s_clients'[s].pending = [s_clients[s].pending EXCEPT ![c] = sent']
         /\ s_clients[s].pending \in [Q!Counters -> 0..MaxQueries]
         /\ \A t \in Slots : t # s => s_clients'[t] = s_clients[t]
    <3>1. s_clients[s] \in Data
      BY <1>t
    <3> QED
      BY <1>t, <2>1, <3>1 DEF Data
  \* A query that is still to be answered is not under the new one's cookie.
  <2>13. ASSUME NEW t \in Slots, NEW i \in DOMAIN wire[t]
         PROVE  wire[t][i].query \in current' <=>
                  wire[t][i].query \in current /\ ~(t = s /\ wire[t][i].cookie = cookie)
    <3>1. wire[t][i].query \in 0..sent
      BY DEF WireInv, Tracked
    <3>2. wire[t][i].query \in current' <=>
            wire[t][i].query \in current /\ wire[t][i].query \notin Under(s, cookie)
      BY <2>1, <2>2, <3>1
    <3>3. ASSUME wire[t][i].query \in current
          PROVE  wire[t][i].query \in Under(s, cookie) <=> (t = s /\ wire[t][i].cookie = cookie)
      <4>1. wire[t][i].query # 0
        BY <3>3, LedgerTypes
      <4>2. \A j \in DOMAIN wire[s] : wire[s][j].query = wire[t][i].query => t = s /\ i = j
        BY <4>1 DEF WireInv, Numbered
      <4> QED
        BY <2>9, <4>2
    <3> QED
      BY <3>2, <3>3
  <2>14. ASSUME NEW i \in DOMAIN wire'[s]
         PROVE  Tracked(s, wire[s][i])'
    <3>1. CASE i \in DOMAIN wire[s]
      <4>1. wire'[s][i] = wire[s][i] /\ Tracked(s, wire[s][i])
        BY <2>11, <3>1 DEF WireInv
      <4>2. wire[s][i].query \in 0..sent'
        BY <2>2, <4>1 DEF Tracked
      <4>3. ASSUME wire[s][i].query \in current'
            PROVE  /\ wire[s][i].cookie.tag = s_cookieTag
                   /\ wire[s][i].cookie.counter \in Q!Counters
                   /\ s_clients'[s].pending[wire[s][i].cookie.counter] = wire[s][i].query
        <5>1. wire[s][i].query \in current /\ wire[s][i].cookie # cookie
          BY <2>13, <3>1, <4>3
        <5>2. /\ wire[s][i].cookie.tag = s_cookieTag /\ wire[s][i].cookie.counter \in Q!Counters
              /\ s_clients[s].pending[wire[s][i].cookie.counter] = wire[s][i].query
          BY <4>1, <5>1 DEF Tracked
        <5>3. wire[s][i].cookie \in [tag : 0..MaxLoads, counter : Nat]
          BY <3>1, WireTypes DEF Asks
        <5>4. wire[s][i].cookie.counter # c
          BY <2>4, <5>1, <5>2, <5>3
        <5> QED
          BY <2>12, <5>2, <5>4
      <4> QED
        BY <2>1, <4>1, <4>2, <4>3 DEF Tracked
    <3>2. CASE wire'[s][i] = w
      <4>1. s_clients'[s].pending[c] = sent'
        BY <2>3, <2>12
      <4>2. w.cookie.tag = s_cookieTag /\ w.cookie.counter = c
        BY <2>4, <2>5
      <4> QED
        BY <2>1, <2>2, <2>3, <2>5, <3>2, <4>1, <4>2 DEF Tracked
    <3> QED
      BY <2>11, <3>1, <3>2
  <2>15. ASSUME NEW k \in Q!Counters
         PROVE  Held(s, k)'
    <3>1. CASE k = c
      <4>1. s_clients'[s].pending[k] = sent' /\ sent' \in current'
        BY <2>1, <2>3, <2>12, <3>1
      <4>2. Q!Cookie(k)' = cookie
        BY <2>7, <3>1 DEF cookie
      <4> QED
        BY <2>5, <2>11, <4>1, <4>2 DEF Held
    <3>2. CASE k # c
      <4>1. s_clients'[s].pending[k] = s_clients[s].pending[k]
        BY <2>12, <3>2
      <4>2. CASE s_clients[s].pending[k] = 0
        BY <4>1, <4>2 DEF Held
      <4>3. ASSUME NEW i \in DOMAIN wire[s],
                   /\ wire[s][i].cookie = Q!Cookie(k)
                   /\ wire[s][i].query = s_clients[s].pending[k]
                   /\ wire[s][i].query \in current
            PROVE  Held(s, k)'
        <5>1. wire[s][i].query \in current'
          BY <2>8, <2>13, <3>2, <4>3
        <5>2. i \in DOMAIN wire'[s] /\ wire'[s][i] = wire[s][i]
          BY <2>11
        <5> QED
          BY <2>7, <4>1, <4>3, <5>1, <5>2 DEF Held
      <4> QED
        BY <4>2, <4>3 DEF WireInv, Held
    <3> QED
      BY <3>1, <3>2
  <2>16. ASSUME NEW i \in DOMAIN wire'[s], NEW j \in DOMAIN wire'[s], i # j
         PROVE  Numbered(wire[s][i], wire[s][j])'
    <3>1. \A k \in DOMAIN wire[s] : wire[s][k].query \in 0..sent
      BY DEF WireInv, Tracked
    <3>2. CASE i \in DOMAIN wire[s] /\ j \in DOMAIN wire[s]
      BY <2>11, <2>16, <3>2 DEF WireInv, Numbered
    <3>3. CASE i \in DOMAIN wire[s] /\ wire'[s][j] = w
      BY <2>2, <2>5, <2>11, <3>1, <3>3 DEF Numbered
    <3>4. CASE j \in DOMAIN wire[s] /\ wire'[s][i] = w
      BY <2>2, <2>5, <2>11, <3>1, <3>4 DEF Numbered
    <3> QED
      BY <2>11, <2>16, <3>2, <3>3, <3>4
  <2>17. \A i \in DOMAIN wire'[s] :
           \/ wire'[s][i].query \notin 0..sent
           \/ \E j \in DOMAIN wire[s] : wire'[s][i].query = wire[s][j].query
    BY <2>2, <2>5, <2>11
  <2>18. ASSUME NEW t \in Slots, t # s
         PROVE  /\ person'[t] = person[t] /\ s_clients'[t].pending = s_clients[t].pending
                /\ \A i \in DOMAIN wire[t] : wire[t][i].query \in current' <=> wire[t][i].query \in current
    BY <2>1, <2>12, <2>13, <2>18
  <2>19. /\ sent' \in Nat /\ sent <= sent' /\ (~s_hooked => current' = {})
         /\ person'[s] = None => wire'[s] = <<>>
         /\ UNCHANGED <<s_hooked, s_cookieTag, plugin>>
    BY <1>2, <2>1, <2>2
  <2> QED
    <3>1. wire' = [wire EXCEPT ![s] = wire'[s]] /\ wire'[s] \in Seq(Asks)
      BY <2>11
    <3>2. \A t \in Slots : t # s =>
            /\ person'[t] = person[t] /\ s_clients'[t].pending = s_clients[t].pending
            /\ \A i \in DOMAIN wire[t] : wire[t][i].query \in current' <=> wire[t][i].query \in current
      BY <2>18
    <3>3. \A i \in DOMAIN wire'[s] : Tracked(s, wire[s][i])'
      BY <2>14
    <3>4. \A k \in Q!Counters : Held(s, k)'
      BY <2>15
    <3>5. \A i, j \in DOMAIN wire'[s] : i # j => Numbered(wire[s][i], wire[s][j])'
      BY <2>16
    <3>6. \A i \in DOMAIN wire'[s] :
            \/ wire'[s][i].query = 0 \/ wire'[s][i].query \notin 0..sent
            \/ \E j \in DOMAIN wire[s] : wire'[s][i].query = wire[s][j].query
      BY <2>17
    <3> QED
      BY <2>19, <3>1, <3>2, <3>3, <3>4, <3>5, <3>6, WireOnSlot
<1> QED
  BY <1>1, <1>2

\* Only the callback that waits under the cookie of an answer is taken out.
LEMMA ReceivedPending ==
  ASSUME NEW data \in Data, NEW n, NEW value, NEW c \in Q!Counters, c # n
  PROVE  Q!Received(data, n, value).pending[c] = data.pending[c]
<1> DEFINE received == Q!Received(data, n, value)
<1>1. \/ received = [data EXCEPT !.language = value]
      \/ received = [data EXCEPT !.operatingSystem = value]
      \/ received = [data EXCEPT !.pending[n] = 0]
  BY DEF Q!Received
<1> HIDE DEF received
<1>2. received.pending[c] = data.pending[c]
  BY <1>1 DEF Data
<1> QED
  BY <1>2 DEF received

LEMMA ReceivedOwn ==
  ASSUME NEW data \in Data, NEW value, NEW c \in Q!Counters
  PROVE  Q!Received(data, c, value).pending[c] = 0
<1>1. c # Q!kLanguageCounter /\ c # kOperatingSystemCounter
  BY DEF Q!Counters, Q!kLanguageCounter
<1>2. Q!Received(data, c, value) = [data EXCEPT !.pending[c] = 0]
  BY <1>1 DEF Q!Received
<1> QED
  BY <1>2 DEF Data

LEMMA RespondWire ==
  ASSUME SlotInv, WireInv, NEW s \in Slots, Respond(s)
  PROVE  WireInv'
<1> DEFINE head == wire[s][1]
<1>t. /\ wire \in [Slots -> Seq(Asks)] /\ wire[s] \in Seq(Asks) /\ wire[s] # <<>>
      /\ DOMAIN wire[s] = 1..Len(wire[s]) /\ Len(wire[s]) \in Nat \ {0}
      /\ s_clients \in [Slots -> Data] /\ s_clients[s] \in Data
      /\ Head(wire[s]) = head /\ 1 \in DOMAIN wire[s] /\ head \in Asks
  <2>1. /\ wire \in [Slots -> Seq(Asks)] /\ wire[s] \in Seq(Asks) /\ wire[s] # <<>>
        /\ DOMAIN wire[s] = 1..Len(wire[s]) /\ Len(wire[s]) \in Nat \ {0}
        /\ s_clients \in [Slots -> Data]
        /\ Head(wire[s]) = head
    BY WireTypes, EmptySeq DEF WireInv, SlotInv, Tables, Respond
  <2>2. 1 \in DOMAIN wire[s]
    BY <2>1
  <2>3. head \in Asks
    BY <2>2, WireTypes
  <2> QED
    BY <2>1, <2>2, <2>3
<1>1. /\ wire' = [wire EXCEPT ![s] = Tail(@)] /\ current' = current \ Under(s, head.cookie)
      /\ UNCHANGED <<plugin, person, sent, s_hooked, s_cookieTag>>
      /\ s_clients' = IF Q!IsOurs(head.cookie)
                      THEN [s_clients EXCEPT ![s] = Q!Received(@, head.cookie.counter, person[s])]
                      ELSE s_clients
  BY <1>t DEF Respond, engine, Q!OnRespondCvarValue
<1>2. /\ wire'[s] \in Seq(Asks) /\ wire' = [wire EXCEPT ![s] = wire'[s]]
      /\ \A i \in DOMAIN wire'[s] : i + 1 \in DOMAIN wire[s] /\ wire'[s][i] = wire[s][i + 1]
      /\ \A i \in DOMAIN wire[s] : i # 1 => i - 1 \in DOMAIN wire'[s] /\ wire'[s][i - 1] = wire[s][i]
      /\ \A i, j \in DOMAIN wire'[s] : i # j => i + 1 # j + 1
  <2>1. wire'[s] = Tail(wire[s])
    BY <1>t, <1>1
  <2>2. /\ wire'[s] \in Seq(Asks) /\ Len(wire'[s]) = Len(wire[s]) - 1
        /\ \A i \in 1..Len(wire'[s]) : wire'[s][i] = wire[s][i + 1]
    BY <1>t, <2>1, HeadTailProperties
  <2>3. DOMAIN wire'[s] = 1..(Len(wire[s]) - 1)
    BY <2>2, LenProperties
  <2>4. /\ \A i \in 1..(Len(wire[s]) - 1) : i + 1 \in 1..Len(wire[s])
        /\ \A i \in 1..Len(wire[s]) : i # 1 => i - 1 \in 1..(Len(wire[s]) - 1) /\ i = (i - 1) + 1
        /\ \A i, j \in 1..(Len(wire[s]) - 1) : i # j => i + 1 # j + 1
    BY <1>t
  <2>5. wire' = [wire EXCEPT ![s] = wire'[s]]
    BY <1>1, <2>1
  <2> QED
    BY <1>t, <2>1, <2>2, <2>3, <2>4, <2>5
<1>3. ASSUME NEW q
      PROVE  q \in Under(s, head.cookie) <=>
               \E i \in DOMAIN wire[s] : wire[s][i].cookie = head.cookie /\ wire[s][i].query = q
  <2>1. PICK cookie : cookie = head.cookie
    OBVIOUS
  <2> HIDE DEF head
  <2>2. q \in Under(s, cookie) <=>
          \E i \in DOMAIN wire[s] : wire[s][i].cookie = cookie /\ wire[s][i].query = q
    BY UnderIs
  <2> QED
    BY <2>1, <2>2
<1>4. ASSUME NEW t \in Slots, NEW i \in DOMAIN wire[t]
      PROVE  wire[t][i].query \in current' <=>
               wire[t][i].query \in current /\ ~(t = s /\ wire[t][i].cookie = head.cookie)
  <2>1. ASSUME wire[t][i].query \in current
        PROVE  wire[t][i].query \in Under(s, head.cookie) <=>
                 (t = s /\ wire[t][i].cookie = head.cookie)
    <3>1. wire[t][i].query # 0
      BY <2>1, LedgerTypes
    <3>2. \A j \in DOMAIN wire[s] : wire[s][j].query = wire[t][i].query => t = s /\ i = j
      BY <3>1 DEF WireInv, Numbered
    <3> QED
      BY <1>3, <3>2
  <2> QED
    BY <1>1, <2>1
\* What waits under another cookie goes on waiting.
<1>5. ASSUME NEW c \in Q!Counters
      PROVE  \/ s_clients'[s].pending[c] = s_clients[s].pending[c]
             \/ head.cookie = Q!Cookie(c) /\ s_clients'[s].pending[c] = 0
  <2>1. CASE ~Q!IsOurs(head.cookie)
    BY <1>1, <2>1
  <2>2. CASE Q!IsOurs(head.cookie) /\ head.cookie.counter # c
    <3>1. s_clients'[s] = Q!Received(s_clients[s], head.cookie.counter, person[s])
      BY <1>t, <1>1, <2>2
    <3> QED
      BY <1>t, <2>2, <3>1, ReceivedPending
  <2>3. CASE Q!IsOurs(head.cookie) /\ head.cookie.counter = c
    <3>1. s_clients'[s] = Q!Received(s_clients[s], c, person[s])
      BY <1>t, <1>1, <2>3
    <3>2. head.cookie = Q!Cookie(c)
      BY <1>t, <2>3 DEF Asks, Q!IsOurs, Q!Cookie
    <3> QED
      BY <1>t, <3>1, <3>2, ReceivedOwn
  <2> QED
    BY <2>1, <2>2, <2>3
<1>6. \A k \in Q!Counters : Q!Cookie(k)' = Q!Cookie(k)
  BY <1>1 DEF Q!Cookie
<1>7. ASSUME NEW i \in DOMAIN wire'[s]
      PROVE  Tracked(s, wire[s][i])'
  <2>1. i + 1 \in DOMAIN wire[s] /\ wire'[s][i] = wire[s][i + 1]
    BY <1>2
  <2>2. Tracked(s, wire[s][i + 1])
    BY <2>1 DEF WireInv
  <2>3. ASSUME wire[s][i + 1].query \in current'
        PROVE  /\ wire[s][i + 1].cookie.tag = s_cookieTag
               /\ wire[s][i + 1].cookie.counter \in Q!Counters
               /\ s_clients'[s].pending[wire[s][i + 1].cookie.counter] = wire[s][i + 1].query
    <3>1. wire[s][i + 1].query \in current /\ wire[s][i + 1].cookie # head.cookie
      BY <1>4, <2>1, <2>3
    <3>2. /\ wire[s][i + 1].cookie.tag = s_cookieTag
          /\ wire[s][i + 1].cookie.counter \in Q!Counters
          /\ s_clients[s].pending[wire[s][i + 1].cookie.counter] = wire[s][i + 1].query
      BY <2>2, <3>1 DEF Tracked
    <3>3. wire[s][i + 1].cookie = Q!Cookie(wire[s][i + 1].cookie.counter)
      <4>1. wire[s][i + 1].cookie \in [tag : 0..MaxLoads, counter : Nat]
        BY <2>1, WireTypes DEF Asks
      <4> QED
        BY <3>2, <4>1 DEF Q!Cookie
    <3> QED
      BY <1>5, <3>1, <3>2, <3>3
  <2> QED
    BY <1>1, <2>1, <2>2, <2>3 DEF Tracked
<1>8. ASSUME NEW c \in Q!Counters
      PROVE  Held(s, c)'
  <2>1. CASE s_clients'[s].pending[c] = 0
    BY <2>1 DEF Held
  <2>2. CASE s_clients'[s].pending[c] # 0
    <3>1. s_clients'[s].pending[c] = s_clients[s].pending[c]
      BY <1>5, <2>2
    <3>2. PICK i \in DOMAIN wire[s] :
            /\ wire[s][i].cookie = Q!Cookie(c) /\ wire[s][i].query = s_clients[s].pending[c]
            /\ wire[s][i].query \in current
      BY <2>2, <3>1 DEF WireInv, Held
    <3>3. head.cookie # Q!Cookie(c)
      <4>1. SUFFICES ASSUME head.cookie = Q!Cookie(c) PROVE FALSE
        OBVIOUS
      <4>2. s_hooked
        BY <3>2 DEF WireInv
      <4>3. Q!IsOurs(head.cookie) /\ head.cookie.counter = c
        BY <4>1, <4>2 DEF Q!IsOurs, Q!Cookie
      <4>4. s_clients'[s] = Q!Received(s_clients[s], c, person[s])
        BY <1>t, <1>1, <4>3
      <4> QED
        BY <1>t, <2>2, <4>4, ReceivedOwn
    <3>4. i # 1 /\ wire[s][i].query \in current'
      BY <1>4, <3>2, <3>3
    <3>5. i - 1 \in DOMAIN wire'[s] /\ wire'[s][i - 1] = wire[s][i]
      BY <1>2, <3>4
    <3> QED
      BY <1>6, <3>1, <3>2, <3>4, <3>5 DEF Held
  <2> QED
    BY <2>1, <2>2
<1>9. ASSUME NEW i \in DOMAIN wire'[s], NEW j \in DOMAIN wire'[s], i # j
      PROVE  Numbered(wire[s][i], wire[s][j])'
  <2>1. /\ i + 1 \in DOMAIN wire[s] /\ j + 1 \in DOMAIN wire[s] /\ i + 1 # j + 1
        /\ wire'[s][i] = wire[s][i + 1] /\ wire'[s][j] = wire[s][j + 1]
    BY <1>2, <1>9
  <2>2. Numbered(wire[s][i + 1], wire[s][j + 1])
    BY <2>1 DEF WireInv
  <2> QED
    BY <2>1, <2>2 DEF Numbered
<1>10. \A i \in DOMAIN wire'[s] : \E j \in DOMAIN wire[s] : wire'[s][i].query = wire[s][j].query
  BY <1>2
<1>11. ASSUME NEW t \in Slots, t # s
       PROVE  /\ person'[t] = person[t] /\ s_clients'[t].pending = s_clients[t].pending
              /\ \A i \in DOMAIN wire[t] : wire[t][i].query \in current' <=> wire[t][i].query \in current
  <2>1. person'[t] = person[t] /\ s_clients'[t].pending = s_clients[t].pending
    BY <1>t, <1>1, <1>11
  <2> QED
    BY <1>4, <1>11, <2>1
<1>12. /\ sent' \in Nat /\ sent <= sent' /\ (~s_hooked => current' = {})
       /\ person'[s] = None => wire'[s] = <<>>
       /\ UNCHANGED <<s_hooked, s_cookieTag, plugin>>
  <2>1. person[s] # None
    BY <1>t DEF WireInv
  <2>2. ~s_hooked => current' = {}
    BY <1>1 DEF WireInv
  <2> QED
    BY <1>1, <2>1, <2>2, LedgerTypes
<1> QED
  <2>1. wire' = [wire EXCEPT ![s] = wire'[s]] /\ wire'[s] \in Seq(Asks)
    BY <1>2
  <2>2. \A t \in Slots : t # s =>
          /\ person'[t] = person[t] /\ s_clients'[t].pending = s_clients[t].pending
          /\ \A i \in DOMAIN wire[t] : wire[t][i].query \in current' <=> wire[t][i].query \in current
    BY <1>11
  <2>3. \A i \in DOMAIN wire'[s] : Tracked(s, wire[s][i])'
    BY <1>7
  <2>4. \A c \in Q!Counters : Held(s, c)'
    BY <1>8
  <2>5. \A i, j \in DOMAIN wire'[s] : i # j => Numbered(wire[s][i], wire[s][j])'
    BY <1>9
  <2>6. \A i \in DOMAIN wire'[s] :
          \/ wire'[s][i].query = 0 \/ wire'[s][i].query \notin 0..sent
          \/ \E j \in DOMAIN wire[s] : wire'[s][i].query = wire[s][j].query
    BY <1>10
  <2> QED
    BY <1>12, <2>1, <2>2, <2>3, <2>4, <2>5, <2>6, WireOnSlot

LEMMA WireStep == SlotInv /\ WireInv /\ [Next]_vars => WireInv'
<1> SUFFICES ASSUME SlotInv, WireInv, [Next]_vars PROVE WireInv'
  OBVIOUS
<1>1. CASE Load \/ Unload \/ Unmap
  BY <1>1, LoadWire
<1>2. CASE Frame \/ (\E s \in Slots : PutInServer(s) \/ Confirm(s)) \/ UNCHANGED vars
  <2>1. UNCHANGED <<wire, current, sent, queries, plugin, person>>
    BY <1>2 DEF Frame, EndFrame, RunFrame, PutInServer, Confirm, Hooks, vars, engine, ledger
  <2> QED
    BY <2>1, QuietWire DEF queries
<1>3. ASSUME NEW s \in Slots, SendQuery(s) PROVE WireInv'
  BY <1>3, SendQueryWire
<1>4. ASSUME NEW s \in Slots,
             \/ \E p \in People : Connect(s, p)
             \/ ConnectBot(s) \/ Disconnect(s) \/ Reconnect(s) \/ OtherAsks(s)
      PROVE  WireInv'
  BY <1>4, EngineWire
<1>5. ASSUME NEW s \in Slots, Respond(s) PROVE WireInv'
  BY <1>5, RespondWire
<1> QED
  BY <1>1, <1>2, <1>3, <1>4, <1>5 DEF Next

\* An answer runs the callback of its own query if that is to run yet, and none
\* if the client or the load that asked is gone, for any counters, clients and
\* other plugins, laps of the counter and tags that come again: only a later
\* question to the same client under the same cookie can be taken for it.
THEOREM AnswersCorrect == Spec => AnswersReachTheirCallback
<1>1. ASSUME SlotInv, WireInv, NEW s \in Slots, Respond(s)
      PROVE  LET asked == Head(wire[s])
                 callee == Q!Callee(s, asked.cookie) IN
               \/ callee = IF asked.query \in current THEN asked.query ELSE 0
               \/ \E i \in 2..Len(wire[s]) :
                    wire[s][i].cookie = asked.cookie /\ wire[s][i].query = callee
  <2> DEFINE w == wire[s][1]
             callee == Q!Callee(s, w.cookie)
  <2>1. /\ Head(wire[s]) = w /\ DOMAIN wire[s] = 1..Len(wire[s])
        /\ Len(wire[s]) \in Nat \ {0} /\ 1 \in DOMAIN wire[s]
    BY <1>1, WireTypes, EmptySeq DEF Respond
  <2>a. WireInv
    BY <1>1
  <2>2. Tracked(s, w) /\ w \in Asks
    <3>1. Tracked(s, wire[s][1])
      BY <2>a, <2>1 DEF WireInv
    <3>2. wire[s][1] \in Asks
      BY <2>a, <2>1, WireTypes
    <3> QED
      BY <3>1, <3>2
  <2> HIDE DEF w
  <2>3. CASE w.query \in current
    <3>a. s_hooked
      BY <2>a, <2>3 DEF WireInv
    <3>1. callee = w.query
      BY <2>2, <2>3, <3>a DEF Tracked, Q!Callee, Q!IsOurs
    <3> QED
      BY <2>1, <2>3, <3>1
  <2>4. CASE w.query \notin current /\ callee = 0
    BY <2>1, <2>4
  <2>5. CASE w.query \notin current /\ callee # 0
    <3>1. /\ w.cookie.counter \in Q!Counters /\ w.cookie.tag = s_cookieTag
          /\ callee = s_clients[s].pending[w.cookie.counter]
      BY <2>5 DEF Q!Callee, Q!IsOurs
    <3>2. w.cookie = Q!Cookie(w.cookie.counter)
      BY <2>2, <3>1 DEF Asks, Q!Cookie
    <3>a. Held(s, w.cookie.counter)
      BY <2>a, <3>1 DEF WireInv
    <3>3. PICK i \in DOMAIN wire[s] :
            wire[s][i].cookie = w.cookie /\ wire[s][i].query = callee /\ wire[s][i].query \in current
      BY <2>5, <3>1, <3>2, <3>a DEF Held
    <3>4. i # 1
      BY <2>5, <3>3 DEF w
    <3>5. i \in 2..Len(wire[s])
      BY <2>1, <3>3, <3>4
    <3> QED
      BY <2>1, <3>3, <3>5
  <2> QED
    BY <2>3, <2>4, <2>5
<1>2. SlotInv /\ WireInv /\ [Next]_vars =>
        [\A s \in Slots : Respond(s) =>
           LET asked == Head(wire[s])
               callee == Q!Callee(s, asked.cookie) IN
             \/ callee = IF asked.query \in current THEN asked.query ELSE 0
             \/ \E i \in 2..Len(wire[s]) :
                  wire[s][i].cookie = asked.cookie /\ wire[s][i].query = callee]_vars
  BY <1>1
<1>3. Init => WireInv
  BY InitWire
<1>4. SlotInv /\ WireInv /\ [Next]_vars => WireInv'
  BY WireStep
<1> QED
  BY <1>2, <1>3, <1>4, SlotInvariance, PTL DEF Spec, AnswersReachTheirCallback
=============================================================================
