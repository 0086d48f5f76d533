------------------------------ MODULE MCLookups ------------------------------
(* Lookups with every short text, small server, memory and sequence of calls. *)
EXTENDS Lookups, TLC

UpTo(n, chars) == UNION {[1 .. k -> chars] : k \in 0 .. n}

Numerals == {0, 1, 2, 3, 7, 8, 9, 13, 16, 23, 24, 25, 30, 31, 32}
MCSteamTexts == [form : Forms, x : {0, 5}, y : Numerals, z : Numerals]

Player(name, bot, steamid, entity) ==
  [name |-> name, bot |-> bot, steamid |-> steamid, entity |-> entity,
   team |-> IF bot THEN "ct" ELSE "t", alive |-> entity]
PlayerPool == {Player(name, FALSE, 1, TRUE) : name \in {<<"a">>, <<"A">>, <<"1">>, <<"0">>, <<"a", "1">>}}
              \cup {Player(<<"a">>, TRUE, 1, TRUE), Player(<<"1">>, FALSE, 2, FALSE), Player(<<"S">>, FALSE, 2, TRUE)}
MCServers == UNION {[slots -> PlayerPool] : slots \in SUBSET (0 .. 1)}
MCPatterns == {mark \o text : mark \in {<<>>, <<"&">>, <<"#">>, <<"$">>, <<" ">>},
                              text \in UpTo(2, {"a", "1", "0", "-"})}
              \cup {<<"@", group>> : group \in {"me", "all", "bots", "t", "ct", "alive", "dead", "random", "x"}}
              \cup {<<"S">>, <<"$", "S">>, <<"#", "1", "0", "0">>, <<"1", "0", "1">>}
MCSteamIdOf == <<"S">> :> 1
MCAdminTables == [0 .. 2 -> [root : BOOLEAN, immunity : -1 .. 2]]

Sections == {SS!Region(1, 3), SS!Region(4, 3), SS!Region(2, 1), SS!Region(5, 2)}
MCObjectScans ==
  {[memory |-> memory, writable |-> <<pair[1], pair[2]>>, vtable |-> 1] :
     memory \in [1 .. 6 -> 0 .. 2],
     pair \in {p \in Sections \X Sections : p[1].base + p[1].size <= p[2].base}}
MCSignatureScans ==
  {[memory |-> memory, section |-> SS!Region(1, size), signature |-> signature] :
     memory \in [1 .. 5 -> 0 .. 1], size \in 1 .. 5, signature \in UpTo(3, {0, 1, AnyByte}) \ {<<>>}}
MCTableScans ==
  {[memory |-> memory @@ (1 :> 8) @@ (2 :> 9), rodata |-> SS!Region(1, 2), relro |-> SS!Region(3, 6),
    halves |-> <<SS!Region(3, 4), SS!Region(7, 2)>>, name |-> 9] :
     memory \in [3 .. 8 -> {0, 1, 2, 3, 6}]}

Fields == {"a", "b"} \X {"x", "y"}
MCDeclared == ("a" :> (("x" :> 3) @@ ("y" :> 5)))
MCFieldEvents ==
  UpTo(5, {<<"Ready">>} \cup {<<kind, f[1], f[2]>> : kind \in {"Access", "Look"}, f \in Fields})

MCFormatTexts == UpTo(5, {"%", "d", "s", "*", "l", ".", "5"})
LineTexts == {<<"%", "s">>, <<"%", "5", "s">>, <<"%", "d">>, <<"%", "*", "s">>, <<"%", "s", "%">>,
              <<"%", "%", "s">>, <<"s">>}
MCTranslations ==
  [phrase : {<<"%", "s", "d">>}, lines : UpTo(2, {"en", "EN", "de", "fr"} \X LineTexts),
   config : {<<<<"X", "de">>, <<"x", "FR">>, <<"de", "de">>>>},
   default : {"", "DE", "it"}, language : {"", "en", "DE", "x"}]

MCGames ==
  [maxClients : 0 .. 3, live : SUBSET (0 .. 2), humans : SUBSET (0 .. 2), pred : SUBSET (0 .. 2),
   checksHumans : BOOLEAN, language : {(0 :> "en") @@ (1 :> "de") @@ (2 :> "fr")}, default : {"en"}]
MCReplySlots == -1 .. 4
MCVoiceCalls == UpTo(4, ({"Init"} \X {{0}, {1}} \X BOOLEAN) \cup {<<"Shutdown">>})
=============================================================================
