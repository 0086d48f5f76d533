------------------------------ MODULE Players ------------------------------
(***************************************************************************)
(* game/players.h: a plugin's table of the players, by slot.  A player's   *)
(* name and address are abstracted; steamid64 is who the client claims to  *)
(* be.                                                                     *)
(***************************************************************************)
EXTENDS Integers

CONSTANTS
  Slots,  \* 0..MAXPLAYERS-1, counted from 1
  None    \* no SteamID

VARIABLE m_players

NewPlayer ==
  [connected |-> FALSE, inGame |-> FALSE, fakePlayer |-> FALSE,
   authenticated |-> FALSE, steamid64 |-> None]

InitPlayers == m_players = [s \in Slots |-> NewPlayer]

\* The players Get returns, not null.
Occupied == {s \in Slots : m_players[s].connected}

-----------------------------------------------------------------------------
\* PlayerTable::Clear
Clear(slot) == NewPlayer

OnClientConnected(slot, xuid, fakePlayer) ==
  m_players' = [m_players EXCEPT ![slot] =
                  [Clear(slot) EXCEPT !.connected = TRUE, !.fakePlayer = fakePlayer,
                                      !.steamid64 = xuid]]

OnClientPutInServer(slot) ==
  m_players' = IF slot \in Occupied THEN [m_players EXCEPT ![slot].inGame = TRUE]
               ELSE m_players

OnClientDisconnect(slot) == m_players' = [m_players EXCEPT ![slot] = Clear(slot)]

\* For slots in found, whose clients have a SteamID and a channel.
OnLateLoad(found, xuid) ==
  m_players' = [s \in Slots |->
                  IF s \in found THEN [NewPlayer EXCEPT !.connected = TRUE, !.inGame = TRUE,
                                                        !.steamid64 = xuid[s]]
                  ELSE m_players[s]]

-----------------------------------------------------------------------------
(* RunFrame, whose loop goes on after each callback *)

ToTellEarly(confirmed) ==    \* mutant: without waiting for Steam
  {s \in Occupied : ~m_players[s].fakePlayer /\ ~m_players[s].authenticated}

\* Slots the loop stops at, if it comes to them now.
ToTell(confirmed) ==
  {s \in Occupied : /\ ~m_players[s].fakePlayer /\ ~m_players[s].authenticated
                    /\ s \in confirmed}

RunFrameForgetting(slot, at, confirmed) ==    \* mutant
  slot \in ToTell(confirmed) /\ slot > at /\ UNCHANGED m_players

\* The first after slot at.
RunFrame(slot, at, confirmed) ==
  /\ slot \in ToTell(confirmed) /\ slot > at
  /\ \A s \in ToTell(confirmed) : s > at => s >= slot
  /\ m_players' = [m_players EXCEPT ![slot].authenticated = TRUE]

AtEndAfterOne(at, confirmed) == at > 0    \* mutant

AtEnd(at, confirmed) == \A s \in ToTell(confirmed) : s <= at
=============================================================================
