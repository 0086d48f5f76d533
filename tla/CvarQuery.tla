----------------------------- MODULE CvarQuery -----------------------------
(***************************************************************************)
(* game/cvarquery.cpp: the queries a plugin has sent to its clients.  A    *)
(* cookie is the tag of the plugin and a counter.  The cvars that are      *)
(* asked for, and the values, are abstracted: a value is who gave it, a    *)
(* callback the number of its query.                                       *)
(*                                                                         *)
(* The operators change s_hooked, s_cookieTag, s_counter and s_clients,    *)
(* and hand to their caller what goes on the wire.                         *)
(***************************************************************************)
EXTENDS Integers

CONSTANTS
  Slots,                   \* 0..MAXPLAYERS-1
  None,                    \* an empty string
  kOperatingSystemCounter  \* the counter of its query; kLanguageCounter is the next

VARIABLES s_hooked, s_cookieTag, s_counter, s_clients

kLanguageCounter == kOperatingSystemCounter + 1

\* What NextCookie hands out.
Counters == 1..(kOperatingSystemCounter - 1)

\* pending: by counter, the query whose callback waits, or 0.
NewClientData ==
  [pending |-> [c \in Counters |-> 0], language |-> None, operatingSystem |-> None]

InitStatics ==
  /\ s_hooked = FALSE /\ s_cookieTag = 0 /\ s_counter = 0
  /\ s_clients = [s \in Slots |-> NewClientData]

Cookie(counter) == [tag |-> s_cookieTag, counter |-> counter]

-----------------------------------------------------------------------------
NextCounter == IF s_counter + 1 < kOperatingSystemCounter THEN s_counter + 1 ELSE 1

\* The tag is a hash of where the module lies in memory.
Init(tag) ==
  /\ s_hooked' = TRUE
  /\ s_cookieTag' = tag
  /\ UNCHANGED <<s_counter, s_clients>>

Shutdown ==
  /\ s_hooked' = FALSE
  /\ s_clients' = [s \in Slots |-> NewClientData]
  /\ UNCHANGED <<s_cookieTag, s_counter>>

\* A query that is not sent uses up a counter, too.
Query(slot, callback, sent) ==
  /\ s_counter' = NextCounter
  /\ s_clients' = IF sent THEN [s_clients EXCEPT ![slot].pending[NextCounter] = callback]
                  ELSE s_clients
  /\ UNCHANGED <<s_hooked, s_cookieTag>>

DropPending(slot) ==    \* mutant: what it has said is kept
  s_clients' = [s_clients EXCEPT ![slot].pending = NewClientData.pending]

\* "Slots get reused, drop the previous occupant's answers."
DropClient(slot) == s_clients' = [s_clients EXCEPT ![slot] = NewClientData]

\* The two queries of each client that connects are the caller's to send.
OnClientConnected(slot) ==
  DropClient(slot) /\ UNCHANGED <<s_hooked, s_cookieTag, s_counter>>

OnClientDisconnect(slot) ==
  DropClient(slot) /\ UNCHANGED <<s_hooked, s_cookieTag, s_counter>>

-----------------------------------------------------------------------------
(* OnRespondCvarValue *)

AnyCookie(cookie) == TRUE    \* mutant

\* Every plugin sees every answer.
IsOurs(cookie) == s_hooked /\ cookie.tag = s_cookieTag

\* The query whose callback an answer runs, or 0.
Callee(slot, cookie) ==
  IF IsOurs(cookie) /\ cookie.counter \in Counters
    THEN s_clients[slot].pending[cookie.counter] ELSE 0

Received(data, counter, value) ==
  CASE counter = kLanguageCounter -> [data EXCEPT !.language = value]
    [] counter = kOperatingSystemCounter -> [data EXCEPT !.operatingSystem = value]
    [] OTHER -> [data EXCEPT !.pending[counter] = 0]

\* The callback is taken out before it runs; what it calls comes right after.
OnRespondCvarValue(slot, cookie, value) ==
  /\ s_clients' = IF IsOurs(cookie)
                  THEN [s_clients EXCEPT ![slot] = Received(@, cookie.counter, value)]
                  ELSE s_clients
  /\ UNCHANGED <<s_hooked, s_cookieTag, s_counter>>
=============================================================================
