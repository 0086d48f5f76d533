------------------------------ MODULE SteamIds ------------------------------
(***************************************************************************)
(* utils/steamid.h.  A text is the form it has and the numbers in it:       *)
(* STEAM_x:y:z, [U:x:y], a number of 17 digits that begins with 7656, or    *)
(* something else.  An account ID has W values (2^32 in the code); a player *)
(* is Upper * W + account.                                                  *)
(***************************************************************************)
EXTENDS Integers, Sequences

CONSTANTS W, Upper

Text(form, x, y, z) == [form |-> form, x |-> x, y |-> y, z |-> z]
Refused == 0

\* %u: of a number that is too large the lower bits, as glibc reads it.
AsUnsigned(n) == n % W

SuffixOf(account) == <<account % 2, account \div 2>>
SteamID64ToSuffix(id) == SuffixOf(id % W)
SteamID64ToAuthId(id) == Text("Steam2", 0, SteamID64ToSuffix(id)[1], SteamID64ToSuffix(id)[2])

\* STEAM_0:Y:Z as <<Y, Z>>, empty for anything else.
SteamID2Or3ToAuthId(input) ==
  IF input.form = "Steam2" /\ AsUnsigned(input.y) <= 1
    THEN <<AsUnsigned(input.y), AsUnsigned(input.z)>>
  ELSE IF input.form = "Steam3" /\ AsUnsigned(input.y) /= 0 THEN SuffixOf(AsUnsigned(input.y))
  ELSE <<>>

ParseSteamID64(input) ==
  LET auth == SteamID2Or3ToAuthId(input)
      account == auth[2] * 2 + auth[1]
  IN IF auth /= <<>> THEN IF account \in 1 .. W - 1 THEN Upper * W + account ELSE Refused
     ELSE IF input.form = "Steam64" /\ input.z \div W = Upper THEN input.z ELSE Refused

NormalizeAuthId(input) ==
  LET id == ParseSteamID64(input)
  IN IF id = Refused THEN Text("", 0, 0, 0) ELSE SteamID64ToAuthId(id)

-----------------------------------------------------------------------------
\* The players that a text is a form of; account 0 has no form but the last.
PlayersOf(input) ==
  {Upper * W + account : account \in {a \in 0 .. W - 1 :
    \/ a > 0 /\ input.form = "Steam2" /\ <<input.y, input.z>> = SuffixOf(a)
    \/ a > 0 /\ input.form = "Steam3" /\ input.y = a
    \/ input.form = "Steam64" /\ input.z = Upper * W + a}}

\* A text is read as the player it is a form of and no text as another player
\* (steamid.h:42, :82), for numbers that fit; and what it is normalised to is
\* the same player again.
AccountsAgree(input) ==
  LET id == ParseSteamID64(input)
      again == NormalizeAuthId(input)
  IN /\ (input.form = "Steam64" \/ (input.y < W /\ input.z < W)) =>
          PlayersOf(input) = {id} \ {Refused}
     /\ id % W > 0 => ParseSteamID64(again) = id /\ NormalizeAuthId(again) = again
=============================================================================
