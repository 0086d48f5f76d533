----------------------------- MODULE TextProofs -----------------------------
(****************************************************************************)
(* Theorems about the algorithms that find one among many, and about the    *)
(* order of map names, for any number of accounts, slots, players, sections *)
(* and letters, and texts and sequences of calls of any length.  MCLookups  *)
(* and MCText evaluate the same definitions on small inputs.  What a fold   *)
(* makes of a sequence is shown by Iterates, Prefixes and Induct.           *)
(****************************************************************************)
EXTENDS Lookups, FiniteSetTheorems, SequenceTheorems, WellFoundedInduction, TLAPS

CONSTANTS Letters, MaxPrefix

ML == INSTANCE MapList

-----------------------------------------------------------------------------
(* What is shown one step after the other. *)

\* Of natural numbers there is a least one.
LEMMA LeastOf ==
  ASSUME NEW S \in SUBSET Nat, S # {}
  PROVE  \E x \in S : \A y \in S : x <= y
<1> DEFINE R == OpToRel(<, Nat)
<1>1. IsWellFoundedOn(R, Nat)
  BY NatLessThanWellFounded
<1>2. \A x, y \in Nat : y < x => <<y, x>> \in R
  BY DEF OpToRel
<1> HIDE DEF R
<1>3. PICK x \in S : \A y \in S : ~(<<y, x>> \in R)
  BY <1>1, WFMin
<1>4. ASSUME NEW y \in S PROVE x <= y
  <2>1. ~(y < x)
    BY <1>2, <1>3
  <2> QED
    BY <2>1
<1> QED
  BY <1>4

\* What holds of 0, and of k + 1 if it does of k, holds of all numbers to n.
LEMMA Induct ==
  ASSUME NEW P, NEW n \in Nat, 0 \in P, \A k \in 0 .. n - 1 : k \in P => k + 1 \in P
  PROVE  \A k \in 0 .. n : k \in P
<1> SUFFICES ASSUME NEW m \in 0 .. n, m \notin P PROVE FALSE
  OBVIOUS
<1> DEFINE Q == {k \in 0 .. n : k \notin P}
<1>1. PICK x \in Q : \A y \in Q : x <= y
  <2>1. Q \in SUBSET Nat /\ Q # {}
    OBVIOUS
  <2> HIDE DEF Q
  <2> QED
    BY <2>1, LeastOf
<1>2. x # 0 /\ x - 1 \in 0 .. n - 1 /\ x - 1 + 1 = x
  OBVIOUS
<1>3. x - 1 \in P
  BY <1>1, <1>2
<1> QED
  BY <1>2, <1>3

\* The last of a set of numbers.
Top(s) == CHOOSE x \in s : \A y \in s : x >= y

LEMMA TopIs ==
  ASSUME NEW s \in SUBSET Int, NEW k \in s, \A y \in s : k >= y
  PROVE  Top(s) = k
<1>1. \E x \in s : \A y \in s : x >= y
  OBVIOUS
<1>2. Top(s) \in s /\ \A y \in s : Top(s) >= y
  BY <1>1 DEF Top
<1>3. Top(s) \in Int /\ k \in Int /\ Top(s) >= k /\ k >= Top(s)
  BY <1>2
<1> QED
  BY <1>3

\* A set of numbers to n has a last one, which is one of it.
LEMMA LastIsOne ==
  ASSUME NEW n \in Nat, NEW s \in SUBSET (1 .. n), s # {}
  PROVE  /\ Top(s) \in s /\ \A y \in s : Top(s) >= y
         /\ Top(s) \in 1 .. n /\ s \ {Top(s)} \in SUBSET (1 .. n)
<1> DEFINE Q == {n - x : x \in s}
<1>1. PICK m \in Q : \A y \in Q : m <= y
  <2>1. \A x \in s : n - x \in Nat
    OBVIOUS
  <2>2. Q \subseteq Nat
    BY <2>1
  <2>3. PICK x \in s : TRUE
    OBVIOUS
  <2>4. n - x \in Q
    BY <2>3
  <2> HIDE DEF Q
  <2> QED
    BY <2>2, <2>4, LeastOf
<1>2. PICK x \in s : m = n - x
  OBVIOUS
<1>3. \A y \in s : x >= y
  <2> SUFFICES ASSUME NEW y \in s PROVE x >= y
    OBVIOUS
  <2>1. n - x <= n - y
    BY <1>1, <1>2
  <2> QED
    BY <2>1
<1>4. Top(s) = x
  <2>1. s \in SUBSET Int
    OBVIOUS
  <2> QED
    BY <1>3, <2>1, TopIs
<1> QED
  BY <1>3, <1>4

\* The numbers to k are those to k - 1, and k.
LEMMA Prefixes ==
  ASSUME NEW n \in Nat, NEW k \in 1 .. n
  PROVE  /\ Top(1 .. k) = k /\ (1 .. k) \ {k} = 1 .. k - 1 /\ 1 .. k # {}
         /\ 1 .. k \in SUBSET (1 .. n) /\ 1 .. k - 1 \in SUBSET (1 .. n)
<1>1. Top(1 .. k) = k
  <2>1. 1 .. k \in SUBSET Int /\ k \in 1 .. k /\ \A y \in 1 .. k : k >= y
    OBVIOUS
  <2> QED
    BY <2>1, TopIs
<1> QED
  BY <1>1

\* Any step function can be taken from a first value through a sequence: there is
\* a function that the recursion of the folds describes.
Folded(g, n, base, F) ==
  g = [s \in SUBSET (1 .. n) |-> IF s = {} THEN base ELSE F[Top(s)][g[s \ {Top(s)}]]]

LEMMA Iterates ==
  ASSUME NEW S, NEW base \in S, NEW n \in Nat, NEW F \in [1 .. n -> [S -> S]]
  PROVE  \E g \in [SUBSET (1 .. n) -> S] : Folded(g, n, base, F)
<1> DEFINE P == {k \in 0 .. n : \E g \in [SUBSET (1 .. k) -> S] : Folded(g, k, base, F)}
<1>1. 0 \in P
  <2> DEFINE g == [s \in SUBSET (1 .. 0) |-> base]
  <2>1. SUBSET (1 .. 0) = {{}}
    OBVIOUS
  <2>2. g \in [SUBSET (1 .. 0) -> S] /\ Folded(g, 0, base, F)
    BY <2>1 DEF Folded
  <2> QED
    BY <2>2
<1>2. ASSUME NEW k \in 0 .. n - 1, k \in P PROVE k + 1 \in P
  <2>1. PICK g \in [SUBSET (1 .. k) -> S] : Folded(g, k, base, F)
    BY <1>2
  <2>2. k + 1 \in 1 .. n /\ F[k + 1] \in [S -> S]
    OBVIOUS
  <2> DEFINE h == [s \in SUBSET (1 .. k + 1) |->
                     IF k + 1 \in s THEN F[k + 1][g[s \ {k + 1}]] ELSE g[s]]
  <2>3. ASSUME NEW s \in SUBSET (1 .. k + 1), k + 1 \in s
        PROVE  /\ Top(s) = k + 1 /\ s \ {k + 1} \in SUBSET (1 .. k)
               /\ h[s] = F[k + 1][g[s \ {k + 1}]] /\ h[s] \in S
               /\ h[s \ {k + 1}] = g[s \ {k + 1}]
    <3>1. Top(s) = k + 1
      <4>1. s \in SUBSET Int /\ \A y \in s : k + 1 >= y
        OBVIOUS
      <4> QED
        BY <2>3, <4>1, TopIs
    <3>2. s \ {k + 1} \in SUBSET (1 .. k) /\ s \ {k + 1} \in SUBSET (1 .. k + 1)
      OBVIOUS
    <3> QED
      BY <2>2, <2>3, <3>1, <3>2
  <2>4. ASSUME NEW s \in SUBSET (1 .. k + 1), k + 1 \notin s
        PROVE  /\ s \in SUBSET (1 .. k) /\ h[s] = g[s] /\ h[s] \in S
               /\ s # {} => Top(s) \in s /\ h[s \ {Top(s)}] = g[s \ {Top(s)}]
    <3>1. s \in SUBSET (1 .. k)
      BY <2>4
    <3>2. h[s] = g[s] /\ h[s] \in S
      BY <2>4, <3>1
    <3>3. s # {} => s \ {Top(s)} \in SUBSET (1 .. k + 1) /\ k + 1 \notin s \ {Top(s)}
      BY <2>4
    <3>4. s # {} => h[s \ {Top(s)}] = g[s \ {Top(s)}]
      BY <3>3
    <3>5. s # {} => Top(s) \in s
      BY <3>1, LastIsOne
    <3> QED
      BY <3>1, <3>2, <3>4, <3>5
  <2>5. \A s \in SUBSET (1 .. k) : s # {} => g[s] = F[Top(s)][g[s \ {Top(s)}]]
    BY <2>1 DEF Folded
  <2>6. g[{}] = base
    BY <2>1 DEF Folded
  <2>7. \A s \in SUBSET (1 .. k + 1) : h[s] = IF s = {} THEN base ELSE F[Top(s)][h[s \ {Top(s)}]]
    <3> TAKE s \in SUBSET (1 .. k + 1)
    <3>1. CASE k + 1 \in s
      <4> HIDE DEF h
      <4> QED
        BY <2>3, <3>1
    <3>2. CASE k + 1 \notin s
      <4> HIDE DEF h
      <4> QED
        BY <2>4, <2>5, <2>6, <3>2
    <3> QED
      BY <3>1, <3>2
  <2>8. h \in [SUBSET (1 .. k + 1) -> S]
    <3>1. \A s \in SUBSET (1 .. k + 1) : h[s] \in S
      <4> HIDE DEF h
      <4> QED
        BY <2>3, <2>4
    <3> QED
      BY <3>1
  <2>9. Folded(h, k + 1, base, F)
    <3>1. h = [s \in SUBSET (1 .. k + 1) |-> h[s]]
      OBVIOUS
    <3> HIDE DEF h
    <3> QED
      BY <2>7, <3>1 DEF Folded
  <2> HIDE DEF h
  <2> QED
    BY <2>8, <2>9
<1> HIDE DEF P
<1>3. \A k \in 0 .. n : k \in P
  BY <1>1, <1>2, Induct
<1>4. n \in P
  BY <1>3
<1> QED
  BY <1>4 DEF P

-----------------------------------------------------------------------------
(* SteamIds *)

\* \div and % of a natural number.
LEMMA Division ==
  ASSUME NEW w \in Nat \ {0}, NEW n \in Nat
  PROVE  n = w * (n \div w) + (n % w) /\ n % w \in 0 .. w - 1 /\ n \div w \in Nat
  OBVIOUS

\* Nothing is cut from a number that fits.
LEMMA SmallRemainder ==
  ASSUME NEW w \in Nat \ {0}, NEW n \in 0 .. w - 1
  PROVE  n % w = n
  OBVIOUS

\* A quotient and a remainder make the number they are of.
LEMMA Recombined ==
  ASSUME NEW w \in Nat \ {0}, NEW q \in Nat, NEW r \in 0 .. w - 1
  PROVE  (q * w + r) % w = r /\ (q * w + r) \div w = q /\ q * w + r \in Nat
<1>1. (q * w + r) % w = r
  OBVIOUS
<1>2. (q * w + r) \div w = q
  OBVIOUS
<1>3. q * w \in Nat
  OBVIOUS
<1> QED
  BY <1>1, <1>2, <1>3

\* An account is what its two parts make.
LEMMA Halves ==
  ASSUME NEW a \in Nat
  PROVE  /\ SI!SuffixOf(a) = <<a % 2, a \div 2>>
         /\ a % 2 \in {0, 1} /\ a \div 2 \in Nat /\ (a \div 2) * 2 + (a % 2) = a
         /\ a \div 2 <= a
<1>1. a = 2 * (a \div 2) + (a % 2) /\ a % 2 \in 0 .. 1 /\ a \div 2 \in Nat
  BY Division
<1> QED
  BY <1>1 DEF SI!SuffixOf

Player(a) == Upper * W + a

\* A player's SteamID64 holds its account and the universe's upper half.
LEMMA PlayerParts ==
  ASSUME W \in Nat, W >= 2, Upper \in Nat \ {0}, NEW a \in 0 .. W - 1
  PROVE  /\ Player(a) \in Nat /\ Player(a) # 0
         /\ Player(a) % W = a /\ Player(a) \div W = Upper
<1>1. Upper * W \in Nat /\ Upper * W # 0
  OBVIOUS
<1> QED
  BY <1>1, Recombined DEF Player

\* Each SteamID64 of a player is that of one account.
LEMMA PlayerOf64 ==
  ASSUME W \in Nat, W >= 2, Upper \in Nat \ {0}, NEW z \in Nat
  PROVE  z \div W = Upper <=> \E a \in 0 .. W - 1 : z = Player(a)
<1>1. z = W * (z \div W) + (z % W) /\ z % W \in 0 .. W - 1 /\ z \div W \in Nat
  <2>1. W \in Nat \ {0}
    OBVIOUS
  <2> QED
    BY <2>1, Division
<1>2. ASSUME z \div W = Upper PROVE z = Player(z % W)
  BY <1>1, <1>2 DEF Player
<1> QED
  BY <1>1, <1>2, PlayerParts

\* What a text of each form is read as.
LEMMA ReadAs ==
  ASSUME W \in Nat, W >= 2, Upper \in Nat \ {0}, NEW given \in Texts,
         given.form = "Steam64" \/ (given.y < W /\ given.z < W)
  PROVE  LET id == SI!ParseSteamID64(given) IN
         /\ given.form = "Steam2" =>
              IF given.y <= 1 /\ given.z * 2 + given.y \in 1 .. W - 1
                THEN id = Player(given.z * 2 + given.y) ELSE id = 0
         /\ given.form = "Steam3" => id = IF given.y # 0 THEN Player(given.y) ELSE 0
         /\ given.form = "Steam64" => id = IF given.z \div W = Upper THEN given.z ELSE 0
         /\ given.form = "Name" => id = 0
<1>1. CASE given.form = "Steam2"
  <2>1. SI!AsUnsigned(given.y) = given.y /\ SI!AsUnsigned(given.z) = given.z
    BY <1>1, SmallRemainder DEF Texts, Forms, SI!AsUnsigned
  <2>2. CASE given.y <= 1
    <3>1. SI!SteamID2Or3ToAuthId(given) = <<given.y, given.z>>
      BY <1>1, <2>1, <2>2 DEF SI!SteamID2Or3ToAuthId
    <3> QED
      BY <1>1, <2>2, <3>1 DEF SI!ParseSteamID64, Player, SI!Refused
  <2>3. CASE ~(given.y <= 1)
    <3>1. SI!SteamID2Or3ToAuthId(given) = <<>>
      BY <1>1, <2>1, <2>3 DEF SI!SteamID2Or3ToAuthId
    <3> QED
      BY <1>1, <2>3, <3>1 DEF SI!ParseSteamID64, SI!Refused
  <2> QED
    BY <2>2, <2>3
<1>2. CASE given.form = "Steam3"
  <2>1. SI!AsUnsigned(given.y) = given.y
    BY <1>2, SmallRemainder DEF Texts, Forms, SI!AsUnsigned
  <2>2. CASE given.y = 0
    <3>1. SI!SteamID2Or3ToAuthId(given) = <<>>
      BY <1>2, <2>1, <2>2 DEF SI!SteamID2Or3ToAuthId
    <3> QED
      BY <1>2, <2>2, <3>1 DEF SI!ParseSteamID64, SI!Refused
  <2>3. CASE given.y # 0
    <3>1. SI!SteamID2Or3ToAuthId(given) = <<given.y % 2, given.y \div 2>>
      BY <1>2, <2>1, <2>3 DEF SI!SteamID2Or3ToAuthId, SI!SuffixOf
    <3>2. (given.y \div 2) * 2 + (given.y % 2) = given.y /\ given.y \in 1 .. W - 1
      BY <1>2, <2>3, Halves DEF Texts, Forms
    <3> QED
      BY <1>2, <2>3, <3>1, <3>2 DEF SI!ParseSteamID64, Player
  <2> QED
    BY <2>2, <2>3
<1>3. CASE given.form \in {"Steam64", "Name"}
  <2>1. SI!SteamID2Or3ToAuthId(given) = <<>>
    BY <1>3 DEF SI!SteamID2Or3ToAuthId
  <2> QED
    BY <1>3, <2>1 DEF SI!ParseSteamID64, SI!Refused
<1> QED
  BY <1>1, <1>2, <1>3 DEF Texts, Forms

\* Whatever is accepted is a player.
LEMMA OnlyPlayers ==
  ASSUME W \in Nat, W >= 2, Upper \in Nat \ {0}, NEW given \in Texts
  PROVE  \/ SI!ParseSteamID64(given) = 0
         \/ \E a \in 0 .. W - 1 : SI!ParseSteamID64(given) = Player(a)
<1> DEFINE auth == SI!SteamID2Or3ToAuthId(given)
<1>1. CASE auth # <<>>
  <2>1. SI!ParseSteamID64(given) = IF auth[2] * 2 + auth[1] \in 1 .. W - 1
                                   THEN Player(auth[2] * 2 + auth[1]) ELSE 0
    BY <1>1 DEF SI!ParseSteamID64, SI!Refused, Player
  <2> HIDE DEF auth
  <2> QED
    BY <2>1
<1>2. CASE auth = <<>>
  <2>1. SI!ParseSteamID64(given) = IF given.form = "Steam64" /\ given.z \div W = Upper
                                   THEN given.z ELSE 0
    BY <1>2 DEF SI!ParseSteamID64, SI!Refused
  <2> QED
    BY <2>1, PlayerOf64 DEF Texts, Forms
<1> QED
  BY <1>1, <1>2

\* The three forms of a SteamID are read as the account they are written for,
\* and as no other's, for any width of an account ID (steamid.h:42, :82); and the
\* form a text is normalised to is the same player's.
THEOREM AccountsCorrect ==
  ASSUME W \in Nat, W >= 2, Upper \in Nat \ {0}
  PROVE  \A given \in Texts : SI!AccountsAgree(given)
<1> SUFFICES ASSUME NEW given \in Texts PROVE SI!AccountsAgree(given)
  OBVIOUS
<1> DEFINE id == SI!ParseSteamID64(given)
           again == SI!NormalizeAuthId(given)
<1>1. ASSUME given.form = "Steam64" \/ (given.y < W /\ given.z < W)
      PROVE  SI!PlayersOf(given) = {id} \ {0}
  <2>1. SI!PlayersOf(given) = {Player(a) : a \in {b \in 0 .. W - 1 :
           \/ b > 0 /\ given.form = "Steam2" /\ <<given.y, given.z>> = SI!SuffixOf(b)
           \/ b > 0 /\ given.form = "Steam3" /\ given.y = b
           \/ given.form = "Steam64" /\ given.z = Player(b)}}
    BY DEF SI!PlayersOf, Player
  <2>2. \A a \in 0 .. W - 1 : Player(a) # 0
    BY PlayerParts
  <2>3. CASE given.form = "Steam2"
    <3>1. \A b \in 0 .. W - 1 :
            <<given.y, given.z>> = SI!SuffixOf(b) <=> given.y <= 1 /\ given.z * 2 + given.y = b
      <4> TAKE b \in 0 .. W - 1
      <4>1. b % 2 \in {0, 1} /\ b \div 2 \in Nat /\ (b \div 2) * 2 + (b % 2) = b
            /\ SI!SuffixOf(b) = <<b % 2, b \div 2>>
        BY Halves
      <4> QED
        BY <4>1 DEF Texts, Forms
    <3>2. id = IF given.y <= 1 /\ given.z * 2 + given.y \in 1 .. W - 1
               THEN Player(given.z * 2 + given.y) ELSE 0
      BY <1>1, <2>3, ReadAs
    <3> DEFINE a == given.z * 2 + given.y
    <3> HIDE DEF id
    <3>3. CASE given.y <= 1 /\ a \in 1 .. W - 1
      BY <2>1, <2>2, <2>3, <3>1, <3>2, <3>3
    <3>4. CASE ~(given.y <= 1 /\ a \in 1 .. W - 1)
      BY <2>1, <2>3, <3>1, <3>2, <3>4
    <3> QED
      BY <3>3, <3>4
  <2>4. CASE given.form = "Steam3"
    <3>1. id = IF given.y # 0 THEN Player(given.y) ELSE 0
      BY <1>1, <2>4, ReadAs
    <3> HIDE DEF id
    <3>2. given.y \in 0 .. W - 1
      BY <1>1, <2>4 DEF Texts, Forms
    <3> QED
      BY <2>1, <2>2, <2>4, <3>1, <3>2
  <2>5. CASE given.form = "Steam64"
    <3>1. id = IF given.z \div W = Upper THEN given.z ELSE 0
      BY <2>5, ReadAs
    <3>2. given.z \div W = Upper <=> \E a \in 0 .. W - 1 : given.z = Player(a)
      BY PlayerOf64 DEF Texts, Forms
    <3> HIDE DEF id
    <3> QED
      BY <2>1, <2>2, <2>5, <3>1, <3>2
  <2>6. CASE given.form = "Name"
    <3>1. id = 0
      BY <1>1, <2>6, ReadAs
    <3> HIDE DEF id
    <3> QED
      BY <2>1, <2>6, <3>1
  <2> QED
    BY <2>3, <2>4, <2>5, <2>6 DEF Texts, Forms
<1>2. ASSUME id % W > 0
      PROVE  SI!ParseSteamID64(again) = id /\ SI!NormalizeAuthId(again) = again
  <2>1. PICK a \in 0 .. W - 1 : id = Player(a)
    <3>1. 0 % W = 0
      BY SmallRemainder
    <3>2. id # 0
      BY <1>2, <3>1
    <3> QED
      BY <3>2, OnlyPlayers
  <2>2. id # 0 /\ id % W = a /\ a > 0
    BY <1>2, <2>1, PlayerParts
  <2>3. /\ a % 2 \in {0, 1} /\ a \div 2 \in Nat /\ (a \div 2) * 2 + (a % 2) = a
        /\ a \div 2 <= a /\ SI!SuffixOf(a) = <<a % 2, a \div 2>>
    BY Halves
  <2>4. \A other : SI!ParseSteamID64(other) = id =>
          SI!NormalizeAuthId(other) = SI!Text("Steam2", 0, a % 2, a \div 2)
    BY <2>2, <2>3 DEF SI!NormalizeAuthId, SI!SteamID64ToAuthId, SI!SteamID64ToSuffix, SI!Refused
  <2>5. again = SI!Text("Steam2", 0, a % 2, a \div 2)
    BY <2>4
  <2> HIDE DEF again
  <2>6. /\ again \in Texts /\ again.form = "Steam2"
        /\ again.y = a % 2 /\ again.z = a \div 2
    BY <2>3, <2>5 DEF Texts, Forms, SI!Text
  <2>7. SI!ParseSteamID64(again) = Player(a)
    BY <2>2, <2>3, <2>6, ReadAs
  <2> QED
    BY <2>1, <2>4, <2>5, <2>7
<1> QED
  BY <1>1, <1>2 DEF SI!AccountsAgree, SI!Refused

-----------------------------------------------------------------------------
(* Who a line reaches *)

ChatReaders(g, slots) == {<<"chat", s>> : s \in slots \cap g.live}

\* A chat line with the prefix, and the calls that send such lines.
Prefixed(slot, text) == PR!Chat(slot, text, TRUE)
ToSlot(g, slot, text) == PR!SendChatToSlot(g, slot, text, TRUE)
ToEach(g, slots, phrase) ==
  UNION {PR!SendChatToSlot(g, s, PR!Translated(g, s, phrase), TRUE) : s \in slots}
ToAll(g, text) == PR!ChatToAllV(g, text, TRUE)

\* The fields of a line.
LEMMA Fields ==
  /\ \A slot, text, prefix : /\ PR!Chat(slot, text, prefix).to = "chat"
                            /\ PR!Chat(slot, text, prefix).slot = slot
                            /\ PR!Chat(slot, text, prefix).text = text
  /\ \A slot, text : /\ Prefixed(slot, text).to = "chat"
                    /\ Prefixed(slot, text).slot = slot
                    /\ Prefixed(slot, text).text = text
  /\ \A slot, text : /\ PR!Console(slot, text).to = "console"
                    /\ PR!Console(slot, text).slot = slot
                    /\ PR!Console(slot, text).text = text
  BY DEF PR!Chat, PR!Console, Prefixed

\* Chat to one slot: a line if the slot is one and has a net channel.
LEMMA ToOne ==
  ASSUME MAXPLAYERS \in Nat, NEW g, NEW slot, NEW text
  PROVE  ToSlot(g, slot, text) = IF slot \in 0 .. MAXPLAYERS - 1 /\ slot \in g.live
                                 THEN {Prefixed(slot, text)} ELSE {}
  BY DEF ToSlot, Prefixed, PR!SendChatToSlot, PR!SendChatToFilter, PR!KeepLiveRecipients, PR!ValidSlot

\* Chat to several slots.
LEMMA FilterReaders ==
  ASSUME NEW g, NEW slots, NEW text, NEW prefix, NEW sent,
         sent = PR!SendChatToFilter(g, slots, text, prefix)
  PROVE  /\ PR!Readers(sent) = ChatReaders(g, slots)
         /\ \A line \in sent : line.to = "chat" /\ line.slot \in slots \cap g.live
<1>1. sent = {PR!Chat(s, text, prefix) : s \in slots \cap g.live}
  BY DEF PR!SendChatToFilter, PR!KeepLiveRecipients
<1> QED
  BY <1>1, Fields DEF PR!Readers, ChatReaders

\* Chat to each slot in a text of its own.
LEMMA EachReads ==
  ASSUME MAXPLAYERS \in Nat, NEW g, NEW slots \in SUBSET (0 .. MAXPLAYERS - 1), NEW phrase, NEW sent,
         sent = ToEach(g, slots, phrase)
  PROVE  /\ PR!Readers(sent) = ChatReaders(g, slots)
         /\ \A line \in sent : /\ line.to = "chat" /\ line.slot \in slots \cap g.live
                              /\ line.text = PR!Translated(g, line.slot, phrase)
<1>1. sent = UNION {ToSlot(g, s, PR!Translated(g, s, phrase)) : s \in slots}
  BY DEF ToEach, ToSlot
<1>2. \A s \in slots : ToSlot(g, s, PR!Translated(g, s, phrase))
                       = IF s \in g.live THEN {Prefixed(s, PR!Translated(g, s, phrase))} ELSE {}
  BY ToOne
<1>3. \A line : line \in sent <=>
        \E s \in slots \cap g.live : line = Prefixed(s, PR!Translated(g, s, phrase))
  BY <1>1, <1>2
<1>4. \A line \in sent : /\ line.to = "chat" /\ line.slot \in slots \cap g.live
                        /\ line.text = PR!Translated(g, line.slot, phrase)
  BY <1>3, Fields
<1>5. \A s \in slots \cap g.live : \E line \in sent : line.to = "chat" /\ line.slot = s
  <2> TAKE s \in slots \cap g.live
  <2>1. Prefixed(s, PR!Translated(g, s, phrase)) \in sent
    BY <1>3
  <2> QED
    BY <2>1, Fields
<1>6. PR!Readers(sent) = ChatReaders(g, slots)
  BY <1>4, <1>5 DEF PR!Readers, ChatReaders
<1> QED
  BY <1>4, <1>6

\* A method of ChatPrinter and its translated variant reach the same readers, each
\* in their own language, on a chat line only who has a net channel, and nobody
\* through a slot that is none: for any number of slots, any game, predicate and
\* slot (print.h:64-89).
THEOREM LinesCorrect ==
  ASSUME MAXPLAYERS \in Nat
  PROVE  \A g, phrase : \A slot \in Int :
           g.maxClients \in 0 .. MAXPLAYERS /\ DOMAIN g.language \subseteq 0 .. MAXPLAYERS - 1
             => PR!LinesReachTheirReaders(g, slot, phrase)
<1> SUFFICES ASSUME NEW g, NEW phrase, NEW slot \in Int, g.maxClients \in 0 .. MAXPLAYERS,
                    DOMAIN g.language \subseteq 0 .. MAXPLAYERS - 1
             PROVE  PR!LinesReachTheirReaders(g, slot, phrase)
  OBVIOUS
<1> DEFINE T(s) == PR!Translated(g, s, phrase)
           text == T(PR!Server)
           \* What the translated variant of a method sends, beside the method.
           Alike(plain, translated) ==
             /\ PR!Readers(plain) = PR!Readers(translated)
             /\ \A line \in translated : line.text = T(line.slot)
           Addressed(sent) == \A line \in sent :
             /\ line.slot = PR!Server => line.to = "console"
             /\ line.slot = PR!Server \/ PR!ValidSlot(line.slot)
             /\ line.to = "chat" => line.slot \in g.live
<1>s. PR!Server = -1
  BY DEF PR!Server
<1>v. \A s : PR!ValidSlot(s) <=> s \in 0 .. MAXPLAYERS - 1
  BY DEF PR!ValidSlot
<1>c. PR!Clients(g) \subseteq 0 .. MAXPLAYERS - 1
  BY DEF PR!Clients
<1>d. slot < 0 => T(slot) = text
  BY <1>s DEF PR!Translated
<1>h. \A t : /\ PR!Readers(PR!ServerConsole(t)) = {<<"console", PR!Server>>}
             /\ \A line \in PR!ServerConsole(t) :
                  line.to = "console" /\ line.slot = PR!Server /\ line.text = t
  BY Fields DEF PR!ServerConsole, PR!Readers
<1>r. \A A, B : PR!Readers(A \cup B) = PR!Readers(A) \cup PR!Readers(B)
  BY DEF PR!Readers
<1>e. PR!Readers({}) = {}
  BY DEF PR!Readers
\* One line to one slot, in chat or in the console.
<1>1. ASSUME NEW t, NEW sent, sent = ToSlot(g, slot, t)
      PROVE  /\ PR!Readers(sent) = IF slot \in 0 .. MAXPLAYERS - 1 /\ slot \in g.live
                                   THEN {<<"chat", slot>>} ELSE {}
             /\ \A line \in sent : /\ line.to = "chat" /\ line.slot = slot /\ line.text = t
                                  /\ slot \in 0 .. MAXPLAYERS - 1 /\ slot \in g.live
  <2>1. sent = IF slot \in 0 .. MAXPLAYERS - 1 /\ slot \in g.live THEN {Prefixed(slot, t)} ELSE {}
    BY <1>1, ToOne
  <2>2. PR!Readers({Prefixed(slot, t)}) = {<<"chat", slot>>}
    BY Fields DEF PR!Readers
  <2> QED
    <3>1. CASE slot \in 0 .. MAXPLAYERS - 1 /\ slot \in g.live
      <4>1. sent = {Prefixed(slot, t)}
        BY <2>1, <3>1
      <4>2. PR!Readers(sent) = {<<"chat", slot>>}
        BY <2>2, <4>1
      <4>3. \A line \in sent : line.to = "chat" /\ line.slot = slot /\ line.text = t
        BY <4>1, Fields
      <4> QED
        BY <3>1, <4>2, <4>3
    <3>2. CASE ~(slot \in 0 .. MAXPLAYERS - 1 /\ slot \in g.live)
      BY <1>e, <2>1, <3>2
    <3> QED
      BY <3>1, <3>2
<1>2. ASSUME NEW t, NEW s, NEW sent, sent = PR!SendConsoleToSlot(s, t)
      PROVE  /\ PR!Readers(sent) = IF s \in 0 .. MAXPLAYERS - 1 THEN {<<"console", s>>} ELSE {}
             /\ \A line \in sent : /\ line.to = "console" /\ line.slot = s /\ line.text = t
                                  /\ s \in 0 .. MAXPLAYERS - 1
  <2>1. PR!Readers({PR!Console(s, t)}) = {<<"console", s>>}
    BY Fields DEF PR!Readers
  <2>2. sent = IF s \in 0 .. MAXPLAYERS - 1 THEN {PR!Console(s, t)} ELSE {}
    BY <1>2, <1>v DEF PR!SendConsoleToSlot
  <2> QED
    <3>1. CASE s \in 0 .. MAXPLAYERS - 1
      <4>1. sent = {PR!Console(s, t)}
        BY <2>2, <3>1
      <4>2. PR!Readers(sent) = {<<"console", s>>}
        BY <2>1, <4>1
      <4>3. \A line \in sent : line.to = "console" /\ line.slot = s /\ line.text = t
        BY <4>1, Fields
      <4> QED
        BY <3>1, <4>2, <4>3
    <3>2. CASE ~(s \in 0 .. MAXPLAYERS - 1)
      BY <1>e, <2>2, <3>2
    <3> QED
      BY <3>1, <3>2
<1>t. \A s : PR!Translated(g, s, phrase) = T(s)
  OBVIOUS
<1> HIDE DEF T
<1>3. ASSUME NEW p, NEW q, p = PR!ChatToSlotV(g, slot, text), q = PR!ChatToSlotTV(g, slot, phrase)
      PROVE  Alike(p, q) /\ Addressed(p) /\ Addressed(q)
  <2>1. CASE slot < 0
    <3>1. p = PR!ServerConsole(text) /\ q = PR!ServerConsole(text)
      BY <1>3, <1>d, <1>t, <2>1 DEF PR!ChatToSlotV, PR!ChatToSlotTV
    <3> QED
      BY <1>h, <3>1
  <2>2. CASE ~(slot < 0)
    <3>1. slot # PR!Server
      BY <1>s, <2>2
    <3>2. p = ToSlot(g, slot, text) /\ q = ToSlot(g, slot, T(slot))
      BY <1>3, <1>t, <2>2 DEF PR!ChatToSlotV, PR!ChatToSlotTV, ToSlot
    <3> HIDE DEF text
    <3>3. PR!Readers(p) = PR!Readers(q)
      BY <1>1, <3>2
    <3>4. \A line \in q : line.text = T(line.slot)
      BY <1>1, <3>2
    <3>5. Addressed(p) /\ Addressed(q)
      BY <1>1, <1>v, <3>1, <3>2
    <3> QED
      BY <3>3, <3>4, <3>5
  <2> QED
    BY <2>1, <2>2
<1>4. ASSUME NEW p, NEW q, p = PR!ReplyV(g, slot, text), q = PR!ReplyTV(g, slot, phrase)
      PROVE  Alike(p, q) /\ Addressed(p) /\ Addressed(q)
  <2>1. CASE slot < 0
    <3>1. p = PR!ServerConsole(text) /\ q = PR!ServerConsole(text)
      BY <1>4, <1>d, <1>t, <2>1 DEF PR!ReplyV, PR!ReplyTV
    <3> QED
      BY <1>h, <3>1
  <2>2. CASE slot >= MAXPLAYERS
    <3>1. p = {} /\ q = {}
      BY <1>4, <2>2 DEF PR!ReplyV, PR!ReplyTV
    <3> QED
      BY <3>1
  <2>3. CASE ~(slot < 0) /\ ~(slot >= MAXPLAYERS)
    <3>1. slot # PR!Server
      BY <1>s, <2>3
    <3>2. ASSUME NEW t, NEW sent, sent = PR!ReplyV(g, slot, t)
          PROVE  /\ Addressed(sent) /\ \A line \in sent : line.slot = slot /\ line.text = t
                 /\ PR!Readers(sent) = {<<"console", slot>>} \cup
                      (IF slot \in 0 .. MAXPLAYERS - 1 /\ slot \in g.live THEN {<<"chat", slot>>} ELSE {})
      <4>1. PICK console : console = PR!SendConsoleToSlot(slot, t)
        OBVIOUS
      <4>2. PICK chat : chat = ToSlot(g, slot, t)
        OBVIOUS
      <4>3. sent = console \cup chat
        BY <2>3, <3>2, <4>1, <4>2 DEF PR!ReplyV, ToSlot
      <4>4. /\ PR!Readers(console) = {<<"console", slot>>}
            /\ \A line \in console : line.to = "console" /\ line.slot = slot /\ line.text = t
        BY <1>2, <2>3, <4>1
      <4>5. /\ PR!Readers(chat) = IF slot \in 0 .. MAXPLAYERS - 1 /\ slot \in g.live
                                  THEN {<<"chat", slot>>} ELSE {}
            /\ \A line \in chat : line.to = "chat" /\ line.slot = slot /\ line.text = t
                                 /\ slot \in g.live
        BY <1>1, <4>2
      <4>6. PR!ValidSlot(slot)
        BY <1>v, <2>3
      <4> QED
        BY <1>r, <3>1, <4>3, <4>4, <4>5, <4>6
    <3>3. q = PR!ReplyV(g, slot, T(slot))
      BY <1>4, <1>t DEF PR!ReplyTV
    <3> HIDE DEF text
    <3>4. Addressed(p) /\ Addressed(q) /\ PR!Readers(p) = PR!Readers(q)
      BY <1>4, <3>2, <3>3
    <3>5. \A line \in q : line.text = T(line.slot)
      BY <3>2, <3>3
    <3> QED
      BY <3>4, <3>5
  <2> QED
    BY <2>1, <2>2, <2>3
<1>5. ASSUME NEW p, NEW q, p = PR!ClientConsoleV(slot, text), q = PR!ClientConsoleTV(g, slot, phrase)
      PROVE  Alike(p, q) /\ Addressed(p) /\ Addressed(q)
  <2>1. CASE slot < 0
    <3>1. p = PR!ServerConsole(text) /\ q = PR!ServerConsole(text)
      BY <1>5, <1>d, <1>t, <2>1 DEF PR!ClientConsoleV, PR!ClientConsoleTV
    <3> QED
      BY <1>h, <3>1
  <2>2. CASE ~(slot < 0)
    <3>1. slot # PR!Server
      BY <1>s, <2>2
    <3>2. p = PR!SendConsoleToSlot(slot, text) /\ q = PR!SendConsoleToSlot(slot, T(slot))
      BY <1>5, <1>t, <2>2 DEF PR!ClientConsoleV, PR!ClientConsoleTV
    <3> HIDE DEF text
    <3>3. PR!Readers(p) = PR!Readers(q)
      BY <1>2, <3>2
    <3>4. \A line \in q : line.text = T(line.slot)
      BY <1>2, <3>2
    <3>5. Addressed(p) /\ Addressed(q)
      BY <1>2, <1>v, <3>1, <3>2
    <3> QED
      BY <3>3, <3>4, <3>5
  <2> QED
    BY <2>1, <2>2
\* Lines to all humans, or to those that the predicate names.
<1> DEFINE humans == {c \in PR!Clients(g) : PR!IsHuman(g, c)}
           named == {c \in PR!Clients(g) : PR!IsHuman(g, c) /\ c \in g.pred}
<1>6. /\ humans \in SUBSET (0 .. MAXPLAYERS - 1) /\ named \in SUBSET (0 .. MAXPLAYERS - 1)
      /\ PR!Server \notin humans /\ PR!Server \notin named
  BY <1>c, <1>s
<1> HIDE DEF humans, named
<1>7. ASSUME NEW p, NEW q, p = ToAll(g, text), q = PR!ChatToAllTV(g, phrase)
      PROVE  /\ Alike(p, q) /\ Addressed(p) /\ Addressed(q)
             /\ PR!Readers(p) = ChatReaders(g, humans) \cup {<<"console", PR!Server>>}
  <2>1. PICK chat : chat = PR!SendChatToFilter(g, humans, text, TRUE)
    OBVIOUS
  <2>2. PICK each : each = ToEach(g, humans, phrase)
    OBVIOUS
  <2>3. p = chat \cup PR!ServerConsole(text)
    BY <1>7, <2>1 DEF PR!ChatToAllV, humans, ToAll
  <2>4. q = PR!ServerConsole(text) \cup each
    BY <1>7, <2>2 DEF PR!ChatToAllTV, humans, T, ToEach
  <2>5. /\ PR!Readers(chat) = ChatReaders(g, humans)
        /\ \A line \in chat : line.to = "chat" /\ line.slot \in humans \cap g.live
    BY <2>1, FilterReaders
  <2>6. /\ PR!Readers(each) = ChatReaders(g, humans)
        /\ \A line \in each : /\ line.to = "chat" /\ line.slot \in humans \cap g.live
                             /\ line.text = PR!Translated(g, line.slot, phrase)
    <3>1. humans \in SUBSET (0 .. MAXPLAYERS - 1)
      BY <1>6
    <3> QED
      BY <2>2, <3>1, EachReads, ZenonT(30)
  <2>7. /\ PR!Readers(p) = ChatReaders(g, humans) \cup {<<"console", PR!Server>>}
        /\ PR!Readers(q) = ChatReaders(g, humans) \cup {<<"console", PR!Server>>}
    BY <1>h, <1>r, <2>3, <2>4, <2>5, <2>6
  <2>9. \A line \in q : line.text = T(line.slot)
    BY <1>h, <1>t, <2>4, <2>6
  <2>8. Addressed(p) /\ Addressed(q)
    <3>1. ASSUME NEW sent, \A line \in sent : line.to = "chat" /\ line.slot \in humans \cap g.live
          PROVE  Addressed(sent)
      BY <1>6, <1>v, <3>1
    <3>2. Addressed(chat) /\ Addressed(each)
      BY <2>5, <2>6, <3>1
    <3>3. Addressed(PR!ServerConsole(text))
      BY <1>h
    <3> QED
      BY <2>3, <2>4, <3>2, <3>3
  <2> QED
    BY <2>7, <2>8, <2>9
<1>8. ASSUME NEW p, NEW q, p = PR!ChatToPredV(g, text), q = PR!ChatToPredTV(g, phrase)
      PROVE  Alike(p, q) /\ Addressed(p) /\ Addressed(q)
  <2>1. /\ p = PR!SendChatToFilter(g, named, text, FALSE)
        /\ q = ToEach(g, named, phrase)
    BY <1>8 DEF PR!ChatToPredV, PR!ChatToPredTV, named, ToEach
  <2>2. /\ PR!Readers(p) = ChatReaders(g, named)
        /\ \A line \in p : line.to = "chat" /\ line.slot \in named \cap g.live
    BY <2>1, FilterReaders
  <2>3. /\ PR!Readers(q) = ChatReaders(g, named)
        /\ \A line \in q : /\ line.to = "chat" /\ line.slot \in named \cap g.live
                          /\ line.text = PR!Translated(g, line.slot, phrase)
    <3>1. named \in SUBSET (0 .. MAXPLAYERS - 1)
      BY <1>6
    <3> QED
      BY <2>1, <3>1, EachReads, ZenonT(30)
  <2> QED
    BY <1>6, <1>t, <1>v, <2>2, <2>3
<1>9. Addressed(PR!ConsoleToAllV(g, text))
  <2>1. \A line \in PR!ConsoleToAllV(g, text) :
          \E s \in humans : line \in PR!SendConsoleToSlot(s, text)
    BY DEF PR!ConsoleToAllV, humans
  <2> QED
    BY <1>2, <1>s, <1>v, <2>1
<1>10. \A s \in PR!Clients(g) \cap g.live :
         PR!IsHuman(g, s) <=> <<"chat", s>> \in PR!Readers(ToAll(g, text))
  <2>1. \A s \in PR!Clients(g) \cap g.live :
          PR!IsHuman(g, s) <=> <<"chat", s>> \in ChatReaders(g, humans)
    BY DEF ChatReaders, humans
  <2>2. \A s : <<"chat", s>> # <<"console", PR!Server>>
    OBVIOUS
  <2>3. PR!Readers(ToAll(g, text))
          = ChatReaders(g, humans) \cup {<<"console", PR!Server>>}
    BY <1>7
  <2> QED
    BY <2>1, <2>2, <2>3
<1> DEFINE pairs == {<<PR!ChatToSlotV(g, slot, text), PR!ChatToSlotTV(g, slot, phrase)>>,
                     <<ToAll(g, text), PR!ChatToAllTV(g, phrase)>>,
                     <<PR!ChatToPredV(g, text), PR!ChatToPredTV(g, phrase)>>,
                     <<PR!ReplyV(g, slot, text), PR!ReplyTV(g, slot, phrase)>>,
                     <<PR!ClientConsoleV(slot, text), PR!ClientConsoleTV(g, slot, phrase)>>}
<1> HIDE DEF text, Alike, Addressed
<1>11. \A pair \in pairs : Alike(pair[1], pair[2]) /\ Addressed(pair[1]) /\ Addressed(pair[2])
  <2> TAKE pair \in pairs
  <2>1. CASE pair = <<PR!ChatToSlotV(g, slot, text), PR!ChatToSlotTV(g, slot, phrase)>>
    BY <1>3, <2>1
  <2>2. CASE pair = <<ToAll(g, text), PR!ChatToAllTV(g, phrase)>>
    BY <1>7, <2>2
  <2>3. CASE pair = <<PR!ChatToPredV(g, text), PR!ChatToPredTV(g, phrase)>>
    BY <1>8, <2>3
  <2>4. CASE pair = <<PR!ReplyV(g, slot, text), PR!ReplyTV(g, slot, phrase)>>
    BY <1>4, <2>4
  <2>5. CASE pair = <<PR!ClientConsoleV(slot, text), PR!ClientConsoleTV(g, slot, phrase)>>
    BY <1>5, <2>5
  <2> QED
    BY <2>1, <2>2, <2>3, <2>4, <2>5
<1> HIDE DEF pairs
<1>12. Addressed(PR!ConsoleToAllV(g, text) \cup UNION {pair[1] \cup pair[2] : pair \in pairs})
  BY <1>9, <1>11 DEF Addressed
<1>13. \A pair \in pairs :
         /\ PR!Readers(pair[1]) = PR!Readers(pair[2])
         /\ \A line \in pair[2] : line.text = PR!Translated(g, line.slot, phrase)
  BY <1>11, <1>t DEF Alike
<1> QED
  BY <1>10, <1>12, <1>13, <1>t DEF PR!LinesReachTheirReaders, Addressed, pairs, text, ToAll

-----------------------------------------------------------------------------
(* Targets *)

\* What FoldLeft makes of digits, by how many of them it has seen.
Counts(digits) ==
  CHOOSE g : g = [s \in SUBSET (DOMAIN digits) |->
    IF s = {} THEN 0 ELSE 10 * g[s \ {Top(s)}] + FT!DigitValue(digits[Top(s)])]

LEMMA MagnitudeIsCounted ==
  \A text : LET digits == FT!Unsigned(FT!Unblanked(text)) IN
            FT!Magnitude(text) = Counts(digits)[DOMAIN digits]
  BY DEF FT!Magnitude, FT!FoldLeft, FT!MapThenFoldSet, FT!Max, Counts, Top

\* A digit counts.
LEMMA DigitCounts ==
  ASSUME NEW c \in FT!Digits
  PROVE  FT!DigitValue(c) \in Nat
<1>1. FT!DigitsInOrder = <<"0", "1", "2", "3", "4", "5", "6", "7", "8", "9">>
  BY DEF FT!DigitsInOrder
<1>2. DOMAIN FT!DigitsInOrder = 1 .. 10
  BY <1>1
<1>3. \E i \in 1 .. 10 : FT!DigitsInOrder[i] = c
  BY <1>2 DEF FT!Digits, FT!ToSet
<1>4. (CHOOSE i \in DOMAIN FT!DigitsInOrder : FT!DigitsInOrder[i] = c) \in DOMAIN FT!DigitsInOrder
  BY <1>2, <1>3
<1>5. PICK i : i = CHOOSE j \in DOMAIN FT!DigitsInOrder : FT!DigitsInOrder[j] = c
  OBVIOUS
<1>6. i \in 1 .. 10
  BY <1>2, <1>4, <1>5
<1>7. FT!DigitValue(c) = i - 1
  BY <1>5 DEF FT!DigitValue
<1> QED
  BY <1>6, <1>7

\* Digits make a number, however many there are.
LEMMA DigitsMakeANumber ==
  ASSUME NEW digits, NEW n \in Nat, DOMAIN digits = 1 .. n,
         \A i \in 1 .. n : digits[i] \in FT!Digits
  PROVE  Counts(digits)[DOMAIN digits] \in Nat
<1> DEFINE F == [k \in 1 .. n |-> [x \in Nat |-> 10 * x + FT!DigitValue(digits[k])]]
           g == Counts(digits)
           Body(h) == [s \in SUBSET (1 .. n) |->
                         IF s = {} THEN 0 ELSE 10 * h[s \ {Top(s)}] + FT!DigitValue(digits[Top(s)])]
<1>1. F \in [1 .. n -> [Nat -> Nat]]
  BY DigitCounts
<1>2. PICK h \in [SUBSET (1 .. n) -> Nat] : Folded(h, n, 0, F)
  <2> HIDE DEF F
  <2> QED
    BY <1>1, Iterates
<1>3. h = Body(h)
  <2>1. \A s \in SUBSET (1 .. n) : s # {} => Top(s) \in 1 .. n /\ s \ {Top(s)} \in SUBSET (1 .. n)
    BY LastIsOne
  <2>2. \A s \in SUBSET (1 .. n) : s # {} =>
          F[Top(s)][h[s \ {Top(s)}]] = 10 * h[s \ {Top(s)}] + FT!DigitValue(digits[Top(s)])
    BY <2>1
  <2> HIDE DEF F
  <2> QED
    BY <1>2, <2>2 DEF Folded
<1>4. g = Body(g)
  <2>1. g = CHOOSE f : f = Body(f)
    BY DEF Counts
  <2> HIDE DEF Body, g
  <2> QED
    BY <1>3, <2>1
<1> HIDE DEF g
<1>5. g[{}] = 0
  BY <1>4
<1>6. ASSUME NEW k \in 1 .. n PROVE g[1 .. k] = 10 * g[1 .. k - 1] + FT!DigitValue(digits[k])
  <2>1. /\ Top(1 .. k) = k /\ (1 .. k) \ {k} = 1 .. k - 1 /\ 1 .. k # {}
        /\ 1 .. k \in SUBSET (1 .. n)
    BY Prefixes
  <2>2. \A t \in SUBSET (1 .. n) : t # {} =>
          g[t] = 10 * g[t \ {Top(t)}] + FT!DigitValue(digits[Top(t)])
    BY <1>4
  <2> QED
    BY <2>1, <2>2
<1> DEFINE P == {k \in 0 .. n : g[1 .. k] \in Nat}
<1>7. 0 \in P
  <2>1. 1 .. 0 = {}
    OBVIOUS
  <2> QED
    BY <1>5, <2>1
<1>8. ASSUME NEW k \in 0 .. n - 1, k \in P PROVE k + 1 \in P
  <2>1. g[1 .. k + 1] = 10 * g[1 .. k] + FT!DigitValue(digits[k + 1])
    <3>1. k + 1 \in 1 .. n /\ k + 1 - 1 = k
      OBVIOUS
    <3> QED
      BY <1>6, <3>1
  <2>2. FT!DigitValue(digits[k + 1]) \in Nat
    BY DigitCounts
  <2> QED
    BY <1>8, <2>1, <2>2
<1> HIDE DEF P
<1>9. \A k \in 0 .. n : k \in P
  BY <1>7, <1>8, Induct
<1>10. n \in P
  BY <1>9
<1> QED
  BY <1>10 DEF P, g
\* What is left of a text is a text.
LEMMA SubTexts ==
  ASSUME NEW C, NEW text \in Seq(C), NEW m \in 1 .. Len(text), NEW n \in 1 .. Len(text)
  PROVE  SubSeq(text, m, n) \in Seq(C)
<1>1. m \in Int /\ n \in Int /\ \A i \in m .. n : text[i] \in C
  OBVIOUS
<1> QED
  BY <1>1, SubSeqProperties

LEMMA TrimmedIsText ==
  ASSUME NEW C, NEW text \in Seq(C)
  PROVE  FT!Trimmed(text) \in Seq(C) /\ FT!Unblanked(text) \in Seq(C)
<1> DEFINE inked == {i \in DOMAIN text : text[i] /= " "}
<1>1. CASE inked = {}
  <2>1. FT!Trimmed(text) = <<>> /\ FT!Unblanked(text) = <<>>
    BY <1>1 DEF FT!Trimmed, FT!Unblanked
  <2> QED
    BY <2>1
<1>2. CASE inked # {}
  <2>1. inked \in SUBSET (1 .. Len(text)) /\ Len(text) \in Nat /\ inked \in SUBSET Nat
    <3>1. DOMAIN text = 1 .. Len(text) /\ Len(text) \in Nat
      OBVIOUS
    <3>2. inked \subseteq 1 .. Len(text)
      BY <3>1
    <3> HIDE DEF inked
    <3> QED
      BY <3>1, <3>2
  <2>2. FT!Trimmed(text) = SubSeq(text, FT!Min(inked), FT!Max(inked))
        /\ FT!Unblanked(text) = SubSeq(text, FT!Min(inked), Len(text))
    BY <1>2 DEF FT!Trimmed, FT!Unblanked
  <2> HIDE DEF inked
  <2>3. FT!Min(inked) \in inked
    BY <1>2, <2>1, LeastOf DEF FT!Min
  <2>4. FT!Max(inked) \in inked
    <3>1. FT!Max(inked) = Top(inked)
      BY DEF FT!Max, Top
    <3> QED
      BY <1>2, <2>1, <3>1, LastIsOne
  <2>5. Len(text) \in 1 .. Len(text)
    <3>1. FT!Min(inked) \in 1 .. Len(text)
      BY <2>1, <2>3
    <3> QED
      BY <2>1, <3>1
  <2> QED
    BY <2>1, <2>2, <2>3, <2>4, <2>5, SubTexts
<1> QED
  BY <1>1, <1>2

\* A numeral has a magnitude.
LEMMA NumeralsCount ==
  ASSUME NEW C, NEW text \in Seq(C), FT!IsNumeral(text)
  PROVE  FT!Magnitude(text) \in Nat
<1> DEFINE digits == FT!Unsigned(FT!Unblanked(text))
<1>1. digits # <<>> /\ \A i \in DOMAIN digits : digits[i] \in FT!Digits
  BY DEF FT!IsNumeral
<1>2. digits \in Seq(C)
  <2>1. FT!Unblanked(text) \in Seq(C)
    BY TrimmedIsText
  <2>2. FT!Unblanked(text) # <<>> => Tail(FT!Unblanked(text)) \in Seq(C)
    BY <2>1
  <2> QED
    BY <2>1, <2>2 DEF FT!Unsigned
<1>3. FT!Magnitude(text) = Counts(digits)[DOMAIN digits]
  BY MagnitudeIsCounted
<1> HIDE DEF digits
<1>4. DOMAIN digits = 1 .. Len(digits) /\ Len(digits) \in Nat
  BY <1>2
<1> QED
  BY <1>1, <1>3, <1>4, DigitsMakeANumber

\* The least slot of a set is one of its slots.
LEMMA MinIsOne ==
  ASSUME NEW S \in SUBSET Nat, S # {}
  PROVE  FT!Min(S) \in S
  BY LeastOf DEF FT!Min

\* The players in use: a map from slots.
ArePlayers(players) ==
  /\ IsFiniteSet(DOMAIN players) /\ DOMAIN players \subseteq Nat
  /\ \A s \in DOMAIN players : players[s].bot \in BOOLEAN

\* What the promise says of a result whatever the pattern is.
Proper(result, players, mode) ==
  /\ result.error = "" <=> result.slots /= {} \/ result.offline /= FT!NoSteamId
  /\ result.slots \subseteq DOMAIN players
  /\ Cardinality(result.slots) > 1 => result.group /\ mode = "Many"
  /\ result.group => Cardinality({players[s].bot : s \in result.slots}) = 1
  /\ result.offline /= FT!NoSteamId =>
       /\ mode = "OneOrOffline" /\ result.slots = {}
       /\ \A s \in DOMAIN players : players[s].steamid = result.offline => players[s].bot

\* What it says of a result for a number or a name.
Fits(result, pat, players) ==
  FT!Plain(pat) /\ FT!Exactly(pat, players) /= {} /\ (FT!IsNumeral(pat) => FT!Magnitude(pat) < Wrap \div 2) =>
    IF Cardinality(FT!Exactly(pat, players)) = 1 THEN result.slots = FT!Exactly(pat, players)
                                                 ELSE result.slots = {}

\* The instance's Cardinality is the library's.
LEMMA SameCardinality ==
  \A S : FT!Cardinality(S) = Cardinality(S)
  BY DEF FT!Cardinality, Cardinality

\* One slot is one.
LEMMA Singles ==
  \A s : Cardinality({s}) = 1
  BY FS_Singleton

\* The fields of a result that names somebody,
LEMMA FoundFields ==
  \A slots : /\ FT!Found(slots).slots = slots /\ FT!Found(slots).error = ""
             /\ FT!Found(slots).offline = FT!NoSteamId /\ ~FT!Found(slots).group
  BY DEF FT!Found

\* and of a refusal.
LEMMA FailFields ==
  \A error : /\ FT!Fail(error).slots = {} /\ FT!Fail(error).error = error
             /\ FT!Fail(error).offline = FT!NoSteamId /\ ~FT!Fail(error).group
  BY DEF FT!Fail, FT!Found

\* A refusal names nobody.
LEMMA Refusals ==
  ASSUME NEW players, NEW mode, NEW error, error # ""
  PROVE  Proper(FT!Fail(error), players, mode) /\ FT!Fail(error).slots = {}
<1>1. PICK result : result = FT!Fail(error)
  OBVIOUS
<1>2. /\ result.slots = {} /\ result.error # "" /\ result.offline = FT!NoSteamId /\ ~result.group
  BY <1>1, FailFields
<1>3. ~(Cardinality(result.slots) > 1)
  <2>1. Cardinality(result.slots) = 0
    BY <1>2, FS_EmptySet, Zenon
  <2> QED
    BY ONLY <2>1
<1> QED
  BY <1>1, <1>2, <1>3, Zenon DEF Proper

\* One player.
LEMMA OneIsProper ==
  ASSUME NEW players, NEW mode, NEW slots, Cardinality(slots) = 1, slots # {}, slots \subseteq DOMAIN players
  PROVE  Proper(FT!Found(slots), players, mode)
<1>1. PICK result : result = FT!Found(slots)
  OBVIOUS
<1>2. /\ result.slots = slots /\ result.error = "" /\ result.offline = FT!NoSteamId /\ ~result.group
  BY <1>1, FoundFields
<1>3. ~(Cardinality(slots) > 1)
  OBVIOUS
<1> QED
  BY <1>1, <1>2, <1>3, Zenon DEF Proper

\* A SteamID finds one player online, or nobody online.
LEMMA BySteamIdIsProper ==
  ASSUME NEW players, ArePlayers(players), NEW mode, NEW id, id # FT!NoSteamId
  PROVE  Proper(FT!BySteamId(id, players, mode), players, mode)
<1> DEFINE online == {s \in DOMAIN players : ~players[s].bot /\ players[s].steamid = id}
<1>1. CASE online # {}
  <2>1. FT!Min(online) \in online
    BY <1>1, MinIsOne DEF ArePlayers
  <2>2. FT!BySteamId(id, players, mode) = FT!Found({FT!Min(online)})
    BY <1>1 DEF FT!BySteamId
  <2> QED
    BY <2>1, <2>2, Singles, OneIsProper
<1>2. CASE online = {} /\ mode = "OneOrOffline"
  <2>1. PICK result : result = FT!BySteamId(id, players, mode)
    OBVIOUS
  <2>2. result = [FT!Found({}) EXCEPT !.offline = id]
    BY <1>2, <2>1 DEF FT!BySteamId
  <2>3. result.slots = {} /\ result.error = "" /\ result.offline = id /\ ~result.group
    BY <2>2 DEF FT!Found
  <2>4. \A s \in DOMAIN players : players[s].steamid = id => players[s].bot
    BY <1>2 DEF ArePlayers
  <2>5. ~(Cardinality(result.slots) > 1)
    <3>1. Cardinality(result.slots) = 0
      BY <2>3, FS_EmptySet, Zenon
    <3> QED
      BY ONLY <3>1
  <2> QED
    BY <1>2, <2>1, <2>3, <2>4, <2>5, Zenon DEF Proper
<1>3. CASE online = {} /\ mode # "OneOrOffline"
  BY <1>3, Refusals DEF FT!BySteamId
<1> QED
  BY <1>1, <1>2, <1>3

\* A group's members are all bots or all humans.
LEMMA GroupIsProper ==
  ASSUME NEW players, ArePlayers(players), NEW mode, NEW caller, NEW group
  PROVE  \A result \in FT!FindGroup(group, caller, players, mode) : Proper(result, players, mode)
<1> SUFFICES ASSUME NEW result \in FT!FindGroup(group, caller, players, mode)
             PROVE  Proper(result, players, mode)
  OBVIOUS
<1> DEFINE members == {s \in DOMAIN players : FT!InGroup(group, players[s])}
<1>1. CASE group = "me"
  <2>1. \/ caller \in DOMAIN players /\ result = FT!Found({caller})
        \/ result = FT!Fail("NotInGame")
    BY <1>1 DEF FT!FindGroup
  <2> QED
    BY <2>1, Singles, OneIsProper, Refusals
<1>2. CASE group # "me" /\ mode # "Many"
  BY <1>2, Refusals DEF FT!FindGroup
<1>3. CASE group # "me" /\ mode = "Many" /\ members = {}
  BY <1>3, Refusals DEF FT!FindGroup
<1>4. CASE group = "random" /\ mode = "Many" /\ members # {}
  <2>1. PICK s \in members : result = FT!Found({s})
    BY <1>4 DEF FT!FindGroup
  <2> QED
    BY <2>1, Singles, OneIsProper
<1>5. CASE group # "me" /\ group # "random" /\ mode = "Many" /\ members # {}
  <2>1. result = [FT!Found(members) EXCEPT !.group = TRUE]
    BY <1>5 DEF FT!FindGroup
  <2>2. /\ result.slots = members /\ result.error = "" /\ result.offline = FT!NoSteamId
        /\ result.group = TRUE
    BY <2>1 DEF FT!Found
  <2>3. \E b : {players[s].bot : s \in members} = {b}
    <3>1. CASE group = "bots"
      <4>1. \A s \in members : players[s].bot = TRUE
        BY <3>1 DEF FT!InGroup, ArePlayers
      <4> QED
        BY <1>5, <4>1
    <3>2. CASE group # "bots"
      <4>1. \A s \in members : players[s].bot = FALSE
        BY <3>2 DEF FT!InGroup, ArePlayers
      <4> QED
        BY <1>5, <4>1
    <3> QED
      BY <3>1, <3>2
  <2>4. Cardinality({players[s].bot : s \in members}) = 1
    BY <2>3, Singles
  <2>5. members \subseteq DOMAIN players
    OBVIOUS
  <2> HIDE DEF members
  <2> QED
    BY <1>5, <2>2, <2>4, <2>5 DEF Proper
<1> QED
  BY <1>1, <1>2, <1>3, <1>4, <1>5

\* At most one player has a number.
LEMMA SlotOfIsOne ==
  ASSUME NEW players, NEW text, FT!SlotOf(text, players) # {}
  PROVE  /\ FT!SlotOf(text, players) = {FT!AsInt(FT!Number(text))}
         /\ FT!SlotOf(text, players) \subseteq DOMAIN players
         /\ FT!IsNumeral(text)
  BY DEF FT!SlotOf

\* Players found by a name are players.
LEMMA NamedIsFinite ==
  ASSUME NEW players, ArePlayers(players), NEW text, NEW S,
         S = FT!Named(text, players) \/ S = FT!PartlyNamed(text, players)
  PROVE  /\ S \subseteq DOMAIN players /\ IsFiniteSet(S) /\ Cardinality(S) \in Nat
         /\ S = {} <=> Cardinality(S) = 0
<1>1. S \subseteq DOMAIN players
  BY DEF FT!Named, FT!PartlyNamed
<1>2. IsFiniteSet(S)
  BY <1>1, FS_Subset DEF ArePlayers
<1> QED
  BY <1>1, <1>2, FS_CardinalityType, FS_EmptySet

\* A number in an int's range stays what it is.
LEMMA AnInt ==
  ASSUME Wrap \in Nat, NEW n \in Int, - (Wrap \div 2) < n, n < Wrap \div 2
  PROVE  FT!AsInt(n) = n
<1>1. Wrap # 0 /\ Wrap \div 2 \in Nat /\ 2 * (Wrap \div 2) <= Wrap
  OBVIOUS
<1>2. n + (Wrap \div 2) \in 0 .. Wrap - 1
  BY <1>1
<1>3. (n + (Wrap \div 2)) % Wrap = n + (Wrap \div 2)
  BY <1>1, <1>2
<1> QED
  BY <1>1, <1>3 DEF FT!AsInt

\* A name, a number or a part of a name finds at most one player, and never another
\* than the one whose number or whole name it is.
LEMMA ByNameIsProper ==
  ASSUME NEW players, ArePlayers(players), NEW mode, NEW pat,
         Wrap \in Nat, FT!IsNumeral(pat) => FT!Magnitude(pat) \in Nat
  PROVE  LET result == FT!FindByName(pat, players, FT!PartlyNamed(pat, players)) IN
         Proper(result, players, mode) /\ Fits(result, pat, players)
<1>1. PICK slot : slot = FT!SlotOf(pat, players)
  OBVIOUS
<1>2. PICK exact : exact = FT!Named(pat, players)
  OBVIOUS
<1>3. PICK parts : parts = FT!PartlyNamed(pat, players)
  OBVIOUS
<1>4. PICK result : result = FT!FindByName(pat, players, parts)
  OBVIOUS
<1>5. PICK exactly : exactly = FT!Exactly(pat, players)
  OBVIOUS
<1>n. /\ exact \subseteq DOMAIN players /\ Cardinality(exact) \in Nat
      /\ exact = {} <=> Cardinality(exact) = 0
      /\ parts \subseteq DOMAIN players /\ Cardinality(parts) \in Nat
      /\ parts = {} <=> Cardinality(parts) = 0
  BY <1>2, <1>3, NamedIsFinite
<1> DEFINE Meant == exactly /= {} /\ (FT!IsNumeral(pat) => FT!Magnitude(pat) < Wrap \div 2) =>
                      IF Cardinality(exactly) = 1 THEN result.slots = exactly ELSE result.slots = {}
<1>e. ASSUME FT!IsNumeral(pat) => FT!Magnitude(pat) < Wrap \div 2
      PROVE  exactly = slot \cup exact
  <2>1. CASE FT!IsNumeral(pat)
    <3>1. FT!Magnitude(pat) \in Nat /\ FT!Magnitude(pat) < Wrap \div 2 /\ Wrap \div 2 \in Nat
      BY <1>e, <2>1
    <3>2. /\ FT!Number(pat) \in Int
          /\ - (Wrap \div 2) < FT!Number(pat) /\ FT!Number(pat) < Wrap \div 2
      BY <3>1 DEF FT!Number
    <3>3. FT!AsInt(FT!Number(pat)) = FT!Number(pat)
      BY <3>2, AnInt
    <3>4. slot = {s \in DOMAIN players : FT!Number(pat) = s}
      BY <1>1, <2>1, <3>3 DEF FT!SlotOf
    <3> QED
      BY <1>2, <1>5, <2>1, <3>4 DEF FT!Exactly
  <2>2. CASE ~FT!IsNumeral(pat)
    <3>1. slot = {}
      BY <1>1, <2>2 DEF FT!SlotOf
    <3> QED
      BY <1>2, <1>5, <2>2, <3>1 DEF FT!Exactly
  <2> QED
    BY <2>1, <2>2
<1>6. ASSUME slot # {} PROVE Proper(result, players, mode) /\ Meant
  <2>1. PICK n : slot = {n} /\ n \in DOMAIN players
    BY <1>1, <1>6, SlotOfIsOne
  <2>2. CASE exact \subseteq slot
    <3>1. result = FT!Found(slot)
      BY <1>1, <1>2, <1>4, <1>6, <2>2 DEF FT!FindByName
    <3>2. Proper(result, players, mode)
      BY <2>1, <3>1, Singles, OneIsProper
    <3>3. Meant
      <4>1. (FT!IsNumeral(pat) => FT!Magnitude(pat) < Wrap \div 2) => exactly = slot
        BY <1>e, <2>2
      <4>2. Cardinality(slot) = 1 /\ result.slots = slot
        BY <2>1, <3>1, Singles, FoundFields
      <4> QED
        BY <4>1, <4>2
    <3> QED
      BY <3>2, <3>3
  <2>3. CASE ~(exact \subseteq slot)
    <3>1. result = FT!Fail("NumberIsAName")
      BY <1>1, <1>2, <1>4, <1>6, <2>3 DEF FT!FindByName
    <3>2. Proper(result, players, mode) /\ result.slots = {}
      BY <3>1, Refusals
    <3>3. Meant
      <4>1. ASSUME FT!IsNumeral(pat) => FT!Magnitude(pat) < Wrap \div 2, Cardinality(exactly) = 1
            PROVE  FALSE
        <5>1. exactly = slot \cup exact
          BY <1>e, <4>1
        <5>2. IsFiniteSet(exactly)
          BY <1>2, <2>1, <5>1, NamedIsFinite, FS_Singleton, FS_Union
        <5>3. PICK x : exactly = {x}
          BY <4>1, <5>2, FS_Singleton
        <5> QED
          BY <2>1, <2>3, <5>1, <5>3
      <4> QED
        BY <3>2, <4>1
    <3> QED
      BY <3>2, <3>3
  <2> QED
    BY <2>2, <2>3
<1>7. ASSUME slot = {} PROVE Proper(result, players, mode) /\ Meant
  <2>e. (FT!IsNumeral(pat) => FT!Magnitude(pat) < Wrap \div 2) => exactly = exact
    BY <1>e, <1>7
  <2>1. CASE Cardinality(exact) > 1
    <3>1. result = FT!Fail("MultipleNamed")
      BY <1>1, <1>2, <1>4, <1>7, <2>1, SameCardinality, Zenon DEF FT!FindByName
    <3>2. Proper(result, players, mode) /\ result.slots = {}
      BY <3>1, Refusals
    <3> QED
      BY <2>1, <2>e, <3>2
  <2>2. CASE Cardinality(exact) = 1
    <3>0. ~(Cardinality(exact) > 1)
      BY <2>2
    <3>1. result = FT!Found(exact)
      BY <1>1, <1>2, <1>4, <1>7, <2>2, <3>0, SameCardinality, Zenon DEF FT!FindByName
    <3>2. exact # {} /\ exact \subseteq DOMAIN players
      BY <1>n, <2>2
    <3>3. Proper(result, players, mode) /\ result.slots = exact
      BY <2>2, <3>1, <3>2, OneIsProper, FoundFields
    <3> QED
      BY <2>2, <2>e, <3>3
  <2>3. CASE Cardinality(exact) = 0
    <3>1. Meant
      BY <1>n, <2>3, <2>e
    <3>2. result \in {FT!Fail("MultipleNamed"), FT!Fail("NobodyNamed")}
          \/ (result = FT!Found(parts) /\ parts # {} /\ ~(Cardinality(parts) > 1))
      <4>1. ~(Cardinality(exact) > 1) /\ Cardinality(exact) # 1
        BY <2>3
      <4> QED
        BY <1>1, <1>2, <1>4, <1>7, <4>1, SameCardinality, Zenon DEF FT!FindByName
    <3>3. Proper(result, players, mode)
      <4>1. parts # {} /\ ~(Cardinality(parts) > 1) => Cardinality(parts) = 1
        BY <1>n
      <4> QED
        BY <1>n, <3>2, <4>1, OneIsProper, Refusals
    <3> QED
      BY <3>1, <3>3
  <2> QED
    BY <1>n, <2>1, <2>2, <2>3
<1> QED
  BY <1>3, <1>4, <1>5, <1>6, <1>7 DEF Fits

\* Whatever players are on the server and whatever the pattern: it names somebody or
\* is refused; at most one player unless it is a group; a number that is another's
\* name, and a shared name, are refused (target.h:52-57).
THEOREM TargetsCorrect ==
  ASSUME Wrap \in Nat,
         \A text \in DOMAIN SteamIdOf : /\ SteamIdOf[text] # FT!NoSteamId
                                       /\ text # <<>> /\ text[1] \notin {"@", "$", "#", "&"},
         NEW C
  PROVE  \A caller, players, mode : \A pattern \in Seq(C) :
           ArePlayers(players) => FT!TargetIsMeant(caller, pattern, players, mode)
<1> SUFFICES ASSUME NEW caller, NEW players, NEW mode, NEW pattern \in Seq(C), ArePlayers(players)
             PROVE  FT!TargetIsMeant(caller, pattern, players, mode)
  OBVIOUS
<1>m. FT!IsNumeral(FT!Trimmed(pattern)) => FT!Magnitude(FT!Trimmed(pattern)) \in Nat
  BY TrimmedIsText, NumeralsCount
<1> SUFFICES ASSUME NEW result \in FT!FindTargets(caller, pattern, players, mode)
             PROVE  /\ Proper(result, players, mode)
                    /\ Fits(result, FT!Trimmed(pattern), players)
  BY SameCardinality, Zenon DEF FT!TargetIsMeant, Proper, Fits
<1>1. PICK pat : pat = FT!Trimmed(pattern)
  OBVIOUS
<1> DEFINE rest == Tail(pat)
<1>2. CASE pat = <<>>
  <2>1. result = FT!Fail("NobodyNamed")
    BY <1>1, <1>2 DEF FT!FindTargets
  <2> QED
    BY <1>1, <1>2, <2>1, Refusals DEF FT!Plain, Fits
<1>3. CASE pat # <<>> /\ pat[1] = "@"
  <2>1. PICK group : result \in FT!FindGroup(group, caller, players, mode)
    BY <1>1, <1>3 DEF FT!FindTargets
  <2> QED
    BY <1>1, <1>3, <2>1, GroupIsProper DEF FT!Plain, Fits
<1>4. CASE pat # <<>> /\ pat[1] = "$"
  <2>1. \/ \E id : id # FT!NoSteamId /\ result = FT!BySteamId(id, players, mode)
        \/ result = FT!Fail("InvalidSteamId")
    BY <1>1, <1>4 DEF FT!FindTargets, FT!NoSteamId
  <2>2. Proper(result, players, mode)
    BY <2>1, BySteamIdIsProper, Refusals
  <2> QED
    BY <1>1, <1>4, <2>2 DEF FT!Plain, Fits
<1>5. CASE pat # <<>> /\ pat[1] = "#"
  <2>1. \/ FT!SlotOf(rest, players) # {} /\ result = FT!Found(FT!SlotOf(rest, players))
        \/ result = FT!Fail("NoSuchSlot")
    BY <1>1, <1>5 DEF FT!FindTargets
  <2> HIDE DEF rest
  <2>2. FT!SlotOf(rest, players) # {} =>
          /\ Cardinality(FT!SlotOf(rest, players)) = 1
          /\ FT!SlotOf(rest, players) \subseteq DOMAIN players
    BY SlotOfIsOne, Singles
  <2>3. Proper(result, players, mode)
    BY <2>1, <2>2, OneIsProper, Refusals
  <2> QED
    BY <1>1, <1>5, <2>3 DEF FT!Plain, Fits
<1>6. CASE pat # <<>> /\ pat[1] \notin {"@", "$", "#"} /\ pat \in DOMAIN SteamIdOf
  <2>1. result = FT!BySteamId(SteamIdOf[pat], players, mode)
    BY <1>1, <1>6 DEF FT!FindTargets
  <2>2. Proper(result, players, mode)
    BY <1>6, <2>1, BySteamIdIsProper
  <2> QED
    BY <1>1, <1>6, <2>2 DEF FT!Plain, Fits
<1>7. CASE pat # <<>> /\ pat[1] = "&"
  <2>1. result = FT!FindExactName(rest, players)
    BY <1>1, <1>7 DEF FT!FindTargets
  <2> HIDE DEF rest
  <2>2. PICK exact : exact = FT!Named(rest, players)
    OBVIOUS
  <2>3. /\ exact \subseteq DOMAIN players /\ Cardinality(exact) \in Nat
        /\ exact = {} <=> Cardinality(exact) = 0
    BY <2>2, NamedIsFinite
  <2>4. \/ result \in {FT!Fail("MultipleNamed"), FT!Fail("NobodyNamed")}
        \/ result = FT!Found(exact) /\ exact # {} /\ ~(Cardinality(exact) > 1)
    BY <2>1, <2>2, SameCardinality, Zenon DEF FT!FindExactName
  <2>5. Proper(result, players, mode)
    <3>1. exact # {} /\ ~(Cardinality(exact) > 1) => Cardinality(exact) = 1
      BY <2>3
    <3> QED
      BY <2>3, <2>4, <3>1, OneIsProper, Refusals
  <2> QED
    BY <1>1, <1>7, <2>5 DEF FT!Plain, Fits
<1>8. CASE pat # <<>> /\ pat[1] \notin {"@", "$", "#", "&"} /\ pat \notin DOMAIN SteamIdOf
  <2>1. result = FT!FindByName(pat, players, FT!PartlyNamed(pat, players))
    BY <1>1, <1>8 DEF FT!FindTargets
  <2> QED
    BY <1>1, <1>m, <2>1, ByNameIsProper
<1> QED
  BY <1>2, <1>3, <1>4, <1>5, <1>6, <1>7, <1>8

\* Of two immune admins at most one may act on the other, root aside, and who may act
\* on an admin may act on everyone that admin may: for any admins (admin_access.h).
THEOREM ImmunityCorrect ==
  \A admins :
    /\ DOMAIN admins \subseteq Nat
    /\ \A s \in DOMAIN admins : admins[s].immunity \in Int /\ admins[s].root \in BOOLEAN
    => FT!ImmunityIsAnOrder(admins)
<1> SUFFICES ASSUME NEW admins, DOMAIN admins \subseteq Nat,
                    \A s \in DOMAIN admins : admins[s].immunity \in Int /\ admins[s].root \in BOOLEAN
             PROVE  FT!ImmunityIsAnOrder(admins)
  OBVIOUS
<1> DEFINE Over(a, b) == FT!CanTarget(a, b, admins, TRUE)
           immune == {s \in DOMAIN admins : admins[s].immunity > 0 /\ ~admins[s].root}
<1>1. \A a, b \in DOMAIN admins : Over(a, b) <=>
        a = b \/ admins[a].root \/ admins[b].immunity <= 0 \/ admins[a].immunity > admins[b].immunity
  BY DEF FT!CanTarget
<1> HIDE DEF Over
<1>2. ASSUME NEW a \in immune, NEW b \in immune, Over(a, b), Over(b, a)
      PROVE  a = b
  BY <1>1, <1>2
<1>3. ASSUME NEW a \in DOMAIN admins, NEW b \in immune, NEW c \in immune, Over(a, b), Over(b, c)
      PROVE  Over(a, c)
  BY <1>1, <1>3
<1> QED
  BY <1>2, <1>3 DEF FT!ImmunityIsAnOrder, Over

-----------------------------------------------------------------------------
(* VoiceBlock *)

\* What FoldLeft makes of the calls, by which of them it has seen.
Hooks(calls) ==
  CHOOSE g : g = [s \in SUBSET (DOMAIN calls) |->
    IF s = {} THEN VB!Start ELSE VB!Step(g[s \ {Top(s)}], calls[Top(s)])]

LEMMA HooksAreFolded ==
  \A calls : VB!FoldLeft(VB!Step, VB!Start, calls) = Hooks(calls)[DOMAIN calls]
  BY DEF VB!FoldLeft, VB!MapThenFoldSet, VB!Max, Hooks, Top

HookStates ==
  [shouldBlock : SUBSET AllSlots, hooked : BOOLEAN, vtable : BOOLEAN, hooks : Int, ok : BOOLEAN]

\* A call of the hook's interface.
IsVoiceCall(call) ==
  \/ call[1] = "Shutdown"
  \/ call[1] = "Init" /\ call[2] \subseteq AllSlots /\ call[3] \in BOOLEAN

\* The state that a call leaves behind.
Starts(s, call, t) ==
  /\ t \in HookStates /\ t.shouldBlock = call[2]
  /\ t.vtable = (s.vtable \/ (~s.hooked /\ call[3]))
  /\ t.hooked = (s.hooked \/ t.vtable) /\ t.ok = t.hooked
  /\ t.hooks = IF t.hooked /\ ~s.hooked THEN s.hooks + 1 ELSE s.hooks

Stops(s, t) ==
  /\ t \in HookStates /\ t.shouldBlock = {} /\ t.vtable = s.vtable /\ ~t.hooked
  /\ t.hooks = IF s.hooked THEN s.hooks - 1 ELSE s.hooks

LEMMA HookSteps ==
  ASSUME NEW s \in HookStates, NEW call, IsVoiceCall(call), NEW t, t = VB!Step(s, call)
  PROVE  /\ call[1] = "Init" => Starts(s, call, t)
         /\ call[1] = "Shutdown" => Stops(s, t)
<1>1. CASE call[1] = "Init"
  <2>1. VB!Step(s, call) = VB!Init(s, call[2], call[3])
    BY <1>1 DEF VB!Step
  <2>2. call[2] \in SUBSET AllSlots /\ call[3] \in BOOLEAN
    BY <1>1 DEF IsVoiceCall
  <2>3. CASE s.hooked
    BY <1>1, <2>1, <2>2, <2>3 DEF VB!Init, HookStates, Starts
  <2>4. CASE ~s.hooked /\ ~VB!Resolve(s, call[3])
    BY <1>1, <2>1, <2>2, <2>4 DEF VB!Init, VB!Resolve, HookStates, Starts
  <2>5. CASE ~s.hooked /\ VB!Resolve(s, call[3])
    <3>1. VB!Step(s, call) = [shouldBlock |-> call[2], hooked |-> TRUE, vtable |-> TRUE,
                              hooks |-> s.hooks + 1, ok |-> TRUE]
      BY <2>1, <2>5 DEF VB!Init, HookStates
    <3>2. s.vtable \/ call[3]
      BY <2>5 DEF VB!Resolve
    <3>3. s.hooks + 1 \in Int
      BY DEF HookStates
    <3>4. /\ t \in HookStates /\ t.shouldBlock = call[2] /\ t.vtable /\ t.hooked /\ t.ok
          /\ t.hooks = s.hooks + 1
      BY <2>2, <3>1, <3>3 DEF HookStates
    <3>5. t.vtable \in BOOLEAN /\ t.hooked \in BOOLEAN /\ t.ok \in BOOLEAN
      BY <3>4 DEF HookStates
    <3>6. /\ t.vtable = (s.vtable \/ (~s.hooked /\ call[3]))
          /\ t.hooked = (s.hooked \/ t.vtable) /\ t.ok = t.hooked
      BY <2>5, <3>2, <3>4, <3>5
    <3> QED
      BY <1>1, <2>5, <3>4, <3>6 DEF Starts
  <2> QED
    BY <2>3, <2>4, <2>5
<1>2. CASE call[1] = "Shutdown"
  <2>1. VB!Step(s, call) = VB!Shutdown(s)
    BY <1>2 DEF VB!Step
  <2>2. PICK hooks \in Int : hooks = IF s.hooked THEN s.hooks - 1 ELSE s.hooks
    BY DEF HookStates
  <2>3. VB!Step(s, call) = [shouldBlock |-> {}, hooked |-> FALSE, vtable |-> s.vtable,
                            hooks |-> hooks, ok |-> s.ok]
    BY <2>1, <2>2 DEF VB!Shutdown, HookStates
  <2> QED
    BY <1>2, <2>2, <2>3 DEF HookStates, Stops
<1> QED
  BY <1>1, <1>2 DEF IsVoiceCall

\* Whatever is called, there is a state after every call.
LEMMA HooksExist ==
  ASSUME NEW calls, NEW n \in Nat, DOMAIN calls = 1 .. n, \A i \in 1 .. n : IsVoiceCall(calls[i])
  PROVE  /\ Hooks(calls)[{}] = VB!Start
         /\ \A k \in 1 .. n : Hooks(calls)[1 .. k] = VB!Step(Hooks(calls)[1 .. k - 1], calls[k])
<1> DEFINE F == [k \in 1 .. n |-> [x \in HookStates |-> VB!Step(x, calls[k])]]
           g == Hooks(calls)
           Body(h) == [s \in SUBSET (1 .. n) |->
                         IF s = {} THEN VB!Start ELSE VB!Step(h[s \ {Top(s)}], calls[Top(s)])]
<1>1. F \in [1 .. n -> [HookStates -> HookStates]]
  <2>1. ASSUME NEW k \in 1 .. n, NEW x \in HookStates PROVE VB!Step(x, calls[k]) \in HookStates
    <3>1. PICK call, t : call = calls[k] /\ t = VB!Step(x, call)
      OBVIOUS
    <3>2. IsVoiceCall(call)
      BY <3>1
    <3>3. (call[1] = "Init" => Starts(x, call, t)) /\ (call[1] = "Shutdown" => Stops(x, t))
      BY <3>1, <3>2, HookSteps
    <3>4. t \in HookStates
      BY <3>2, <3>3 DEF IsVoiceCall, Starts, Stops
    <3> QED
      BY <3>1, <3>4
  <2> QED
    BY <2>1
<1>s. VB!Start \in HookStates
  BY DEF VB!Start, HookStates
<1>2. PICK h \in [SUBSET (1 .. n) -> HookStates] : Folded(h, n, VB!Start, F)
  <2> HIDE DEF F
  <2> QED
    BY <1>1, <1>s, Iterates
<1>3. h = Body(h)
  <2>1. \A s \in SUBSET (1 .. n) : s # {} => Top(s) \in 1 .. n /\ s \ {Top(s)} \in SUBSET (1 .. n)
    BY LastIsOne
  <2>2. \A s \in SUBSET (1 .. n) : s # {} =>
          F[Top(s)][h[s \ {Top(s)}]] = VB!Step(h[s \ {Top(s)}], calls[Top(s)])
    BY <2>1
  <2> HIDE DEF F
  <2> QED
    BY <1>2, <2>2 DEF Folded
<1>4. g = Body(g)
  <2>1. g = CHOOSE f : f = Body(f)
    BY DEF Hooks
  <2> HIDE DEF Body, g
  <2> QED
    BY <1>3, <2>1
<1> HIDE DEF g
<1>5. g[{}] = VB!Start
  BY <1>4
<1>6. ASSUME NEW k \in 1 .. n PROVE g[1 .. k] = VB!Step(g[1 .. k - 1], calls[k])
  <2>1. /\ Top(1 .. k) = k /\ (1 .. k) \ {k} = 1 .. k - 1 /\ 1 .. k # {}
        /\ 1 .. k \in SUBSET (1 .. n)
    BY Prefixes
  <2>2. \A t \in SUBSET (1 .. n) : t # {} => g[t] = VB!Step(g[t \ {Top(t)}], calls[Top(t)])
    BY <1>4
  <2> QED
    BY <2>1, <2>2
<1> QED
  BY <1>5, <1>6 DEF g

\* The hook after k calls: there once between an Init that found the class, then
\* or before, and the next Shutdown.
Balanced(s, calls, k) ==
  /\ s \in HookStates
  /\ s.vtable <=> \E i \in 1 .. k : calls[i][1] = "Init" /\ calls[i][3]
  /\ s.hooked <=> k > 0 /\ calls[k][1] = "Init" /\ s.vtable
  /\ s.hooks = IF s.hooked THEN 1 ELSE 0
  /\ s.shouldBlock = IF k > 0 /\ calls[k][1] = "Init" THEN calls[k][2] ELSE {}
  /\ k > 0 /\ calls[k][1] = "Init" => s.ok = s.hooked

LEMMA HooksBalance ==
  ASSUME NEW calls, NEW n \in Nat, DOMAIN calls = 1 .. n, \A i \in 1 .. n : IsVoiceCall(calls[i])
  PROVE  Balanced(Hooks(calls)[1 .. n], calls, n)
<1> DEFINE g == Hooks(calls)
           P == {k \in 0 .. n : Balanced(g[1 .. k], calls, k)}
<1>1. g[{}] = VB!Start /\ \A k \in 1 .. n : g[1 .. k] = VB!Step(g[1 .. k - 1], calls[k])
  BY HooksExist
<1> HIDE DEF g
<1>2. 0 \in P
  <2>1. g[1 .. 0] = VB!Start
    <3>1. 1 .. 0 = {}
      OBVIOUS
    <3> QED
      BY <1>1, <3>1
  <2>2. Balanced(VB!Start, calls, 0)
    BY DEF Balanced, VB!Start, HookStates
  <2> QED
    BY <2>1, <2>2
<1>3. ASSUME NEW k \in 0 .. n - 1, k \in P PROVE k + 1 \in P
  <2>1. PICK s : s = g[1 .. k]
    OBVIOUS
  <2>2. PICK call : call = calls[k + 1]
    OBVIOUS
  <2>3. PICK t : t = VB!Step(s, call)
    OBVIOUS
  <2>4. g[1 .. k + 1] = t
    <3>1. k + 1 \in 1 .. n /\ k + 1 - 1 = k
      OBVIOUS
    <3> QED
      BY <1>1, <2>1, <2>2, <2>3, <3>1
  <2>5. Balanced(s, calls, k) /\ IsVoiceCall(call)
    BY <1>3, <2>1, <2>2
  <2>6. s \in HookStates
    BY <2>5 DEF Balanced
  <2>7. (\E i \in 1 .. k + 1 : calls[i][1] = "Init" /\ calls[i][3])
          <=> (\E i \in 1 .. k : calls[i][1] = "Init" /\ calls[i][3]) \/ (call[1] = "Init" /\ call[3])
    BY <2>2
  <2>8. CASE call[1] = "Init"
    <3>1. /\ t \in HookStates /\ t.shouldBlock = call[2]
          /\ t.vtable = (s.vtable \/ (~s.hooked /\ call[3]))
          /\ t.hooked = (s.hooked \/ t.vtable) /\ t.ok = t.hooked
          /\ t.hooks = IF t.hooked /\ ~s.hooked THEN s.hooks + 1 ELSE s.hooks
      BY <2>3, <2>5, <2>6, <2>8, HookSteps DEF Starts
    <3>2. s.hooked => s.vtable
      BY <2>5 DEF Balanced
    <3>3. t.vtable <=> s.vtable \/ call[3]
      BY <3>1, <3>2
    <3>4. t.hooked <=> t.vtable
      BY <3>1, <3>2, <3>3
    <3>5. t.hooks = IF t.hooked THEN 1 ELSE 0
      BY <2>5, <2>6, <3>1, <3>2, <3>3, <3>4 DEF Balanced, HookStates
    <3>6. t.vtable <=> \E i \in 1 .. k + 1 : calls[i][1] = "Init" /\ calls[i][3]
      BY <2>5, <2>7, <2>8, <3>3 DEF Balanced
    <3>7. k + 1 > 0 /\ calls[k + 1][1] = "Init" /\ calls[k + 1][2] = call[2]
      BY <2>2, <2>8
    <3> QED
      BY <2>4, <3>1, <3>4, <3>5, <3>6, <3>7 DEF Balanced
  <2>9. CASE call[1] = "Shutdown"
    <3>1. /\ t \in HookStates /\ t.shouldBlock = {} /\ t.vtable = s.vtable /\ ~t.hooked
          /\ t.hooks = IF s.hooked THEN s.hooks - 1 ELSE s.hooks
      BY <2>3, <2>5, <2>6, <2>9, HookSteps DEF Stops
    <3>2. t.hooks = 0
      BY <2>5, <2>6, <3>1 DEF Balanced, HookStates
    <3>3. t.vtable <=> \E i \in 1 .. k + 1 : calls[i][1] = "Init" /\ calls[i][3]
      BY <2>5, <2>7, <2>9, <3>1 DEF Balanced
    <3>4. calls[k + 1][1] # "Init"
      BY <2>2, <2>9
    <3> QED
      BY <2>4, <3>1, <3>2, <3>3, <3>4 DEF Balanced
  <2> QED
    BY <2>5, <2>8, <2>9 DEF IsVoiceCall
<1> HIDE DEF P
<1>4. \A k \in 0 .. n : k \in P
  BY <1>2, <1>3, Induct
<1>5. n \in P
  BY <1>4
<1> QED
  BY <1>5 DEF P, g

\* The first calls of a sequence are a sequence of those calls.
LEMMA FirstCalls ==
  ASSUME NEW calls, NEW m \in Nat, DOMAIN calls = 1 .. m, NEW n \in 1 .. m,
         NEW seq, seq = SubSeq(calls, 1, n)
  PROVE  DOMAIN seq = 1 .. n /\ Len(seq) = n /\ \A i \in 1 .. n : seq[i] = calls[i]
<1> DEFINE C == {calls[i] : i \in 1 .. m}
<1>1. \A i \in 1 .. n : calls[i] \in C
  OBVIOUS
<1> HIDE DEF C
<1>2. seq \in Seq(C) /\ Len(seq) = n /\ \A i \in 1 .. n : seq[i] = calls[i]
  BY <1>1, SubSeqProperties
<1> QED
  BY <1>2

\* However often a plugin starts and stops, with the class found or not, there is
\* one hook from the Init that returned true to the Shutdown and none after it,
\* and the predicate asked is the last one given (voice_block.h:8-18).
THEOREM VoiceCorrect ==
  \A calls : IsVoiceCalls(calls) => VB!HookIsBalanced(calls)
<1> SUFFICES ASSUME NEW calls, IsVoiceCalls(calls), NEW n \in DOMAIN calls
             PROVE  LET s == VB!FoldLeft(VB!Step, VB!Start, SubSeq(calls, 1, n))
                        stop == VB!SelectLastInSeq(SubSeq(calls, 1, n), LAMBDA c : c[1] = "Shutdown")
                        found == \E i \in 1 .. n : calls[i][1] = "Init" /\ calls[i][3]
                    IN /\ s.hooks = IF stop < n /\ found THEN 1 ELSE 0
                       /\ calls[n][1] = "Init" => (s.ok <=> s.hooks = 1)
                       /\ \A slot \in AllSlots :
                            VB!Dropped(s, slot) <=> (stop < n /\ found /\ slot \in calls[n][2])
  BY DEF VB!HookIsBalanced
<1>1. PICK m \in Nat : DOMAIN calls = 1 .. m
  BY DEF IsVoiceCalls
<1>2. PICK seq : seq = SubSeq(calls, 1, n)
  OBVIOUS
<1>3. n \in 1 .. m /\ n \in Nat /\ DOMAIN seq = 1 .. n /\ Len(seq) = n
      /\ \A i \in 1 .. n : seq[i] = calls[i]
  BY <1>1, <1>2, FirstCalls
<1>4. \A i \in 1 .. n : IsVoiceCall(seq[i])
  BY <1>1, <1>3 DEF IsVoiceCalls, IsVoiceCall
<1>5. PICK s : s = Hooks(seq)[1 .. n]
  OBVIOUS
<1>6. s = VB!FoldLeft(VB!Step, VB!Start, seq)
  BY <1>3, <1>5, HooksAreFolded
<1>7. Balanced(s, seq, n)
  BY <1>3, <1>4, <1>5, HooksBalance
<1> DEFINE stops == {i \in 1 .. n : seq[i][1] = "Shutdown"}
           found == \E i \in 1 .. n : calls[i][1] = "Init" /\ calls[i][3]
<1>8. PICK stop : stop = VB!SelectLastInSeq(seq, LAMBDA c : c[1] = "Shutdown")
  OBVIOUS
<1>9. stop = IF stops # {} THEN Top(stops) ELSE 0
  BY <1>3, <1>8 DEF VB!SelectLastInSeq, VB!Max, Top
<1>10. stop < n <=> seq[n][1] = "Init"
  <2>1. stops \in SUBSET (1 .. n)
    OBVIOUS
  <2>2. n \in stops <=> seq[n][1] # "Init"
    BY <1>3, <1>4 DEF IsVoiceCall
  <2> HIDE DEF stops
  <2>3. CASE stops = {}
    BY <1>3, <1>9, <2>2, <2>3
  <2>4. CASE stops # {}
    <3>1. /\ Top(stops) \in stops /\ \A y \in stops : Top(stops) >= y
          /\ Top(stops) \in 1 .. n
      BY <1>3, <2>1, <2>4, LastIsOne
    <3>2. stop = Top(stops)
      BY <1>9, <2>4
    <3>3. n \in stops => stop = n
      BY <1>3, <3>1, <3>2
    <3>4. n \notin stops => stop < n
      BY <1>3, <3>1, <3>2
    <3> QED
      BY <1>3, <2>2, <3>3, <3>4
  <2> QED
    BY <2>3, <2>4
<1>11. found <=> s.vtable
  BY <1>3, <1>7 DEF Balanced
<1>12. /\ s \in HookStates
       /\ s.hooked <=> seq[n][1] = "Init" /\ s.vtable
       /\ s.hooks = IF s.hooked THEN 1 ELSE 0
       /\ s.shouldBlock = IF seq[n][1] = "Init" THEN calls[n][2] ELSE {}
       /\ seq[n][1] = "Init" => s.ok = s.hooked
  BY <1>3, <1>7 DEF Balanced
<1> HIDE DEF found, stops
<1>13. s.hooked <=> stop < n /\ found
  BY <1>10, <1>11, <1>12
<1>14. s.hooks = IF stop < n /\ found THEN 1 ELSE 0
  BY <1>12, <1>13
<1>15. calls[n][1] = "Init" => (s.ok <=> s.hooks = 1)
  BY <1>3, <1>12
<1>16. ASSUME NEW slot \in AllSlots
       PROVE  VB!Dropped(s, slot) <=> (stop < n /\ found /\ slot \in calls[n][2])
  <2>1. VB!Dropped(s, slot) <=> s.hooked /\ slot \in s.shouldBlock
    BY <1>12 DEF VB!Dropped
  <2> QED
    BY <1>10, <1>12, <1>13, <2>1
<1> QED
  BY <1>2, <1>6, <1>8, <1>14, <1>15, <1>16 DEF found

-----------------------------------------------------------------------------
(* SigScan *)

LEMMA ScanCardinality ==
  \A S : SS!Cardinality(S) = Cardinality(S)
  BY DEF SS!Cardinality, Cardinality

\* There is one, or there are two that differ.
LEMMA OneOrSeveral ==
  ASSUME NEW S, IsFiniteSet(S)
  PROVE  /\ Cardinality(S) \in Nat
         /\ Cardinality(S) = 0 <=> S = {}
         /\ Cardinality(S) = 1 <=> \E x : S = {x}
         /\ Cardinality(S) > 1 <=> \E x, y \in S : x # y
<1>1. Cardinality(S) \in Nat /\ (Cardinality(S) = 0 <=> S = {})
  BY FS_CardinalityType, FS_EmptySet
<1>2. Cardinality(S) = 1 <=> \E x : S = {x}
  BY FS_Singleton
<1>3. S # {} /\ ~(\E x : S = {x}) <=> \E x, y \in S : x # y
  OBVIOUS
<1>4. PICK n \in Nat : n = Cardinality(S)
  BY <1>1
<1>5. n > 1 <=> n # 0 /\ n # 1
  OBVIOUS
<1>6. Cardinality(S) > 1 <=> \E x, y \in S : x # y
  BY <1>1, <1>2, <1>3, <1>4, <1>5
<1> QED
  BY <1>1, <1>2, <1>6

\* The first address of a set, 0 if there is none.
LEMMA FirstAddress ==
  ASSUME NEW S \in SUBSET (Nat \ {0})
  PROVE  /\ SS!FirstOf(S) = 0 <=> S = {}
         /\ S # {} => /\ SS!FirstOf(S) \in S /\ SS!FirstOf(S) = SS!Min(S)
                      /\ \A a \in S : SS!FirstOf(S) <= a
<1>1. CASE S = {}
  BY <1>1 DEF SS!FirstOf, SS!Null
<1>2. CASE S # {}
  <2>1. SS!FirstOf(S) = SS!Min(S)
    BY <1>2 DEF SS!FirstOf
  <2>2. \E x \in S : \A y \in S : x <= y
    BY <1>2, LeastOf
  <2>3. SS!Min(S) \in S /\ \A a \in S : SS!Min(S) <= a
    BY <2>2 DEF SS!Min
  <2> QED
    BY <1>2, <2>1, <2>3
<1> QED
  BY <1>1, <1>2

\* A signature is unique if one place of the range matches, overlapping ones
\* counted, and the last one that fits is looked at (sigscan.h:19-47).
THEOREM SignaturesCorrect ==
  \A scan : IsSignatureScan(scan) => SS!OneMatch(scan.memory, scan.section, scan.signature)
<1> SUFFICES ASSUME NEW scan, IsSignatureScan(scan)
             PROVE  SS!OneMatch(scan.memory, scan.section, scan.signature)
  OBVIOUS
<1>1. PICK memory, base, size, signature :
        memory = scan.memory /\ base = scan.section.base /\ size = scan.section.size
        /\ signature = scan.signature
  OBVIOUS
<1>2. base \in Nat \ {0} /\ size \in Nat
  BY <1>1 DEF IsSignatureScan, IsRegion
<1>3. PICK n \in Nat \ {0} : n = Len(signature)
  BY <1>1 DEF IsSignatureScan
<1>4. PICK M : M = {a \in Nat \ {0} : SS!Matches(memory, a, signature)}
  OBVIOUS
<1>5. PICK places : places = {a \in base .. base + size - n : a \in M}
  OBVIOUS
<1>6. places = {a \in base .. base + size - Len(signature) : SS!Matches(memory, a, signature)}
  BY <1>2, <1>3, <1>4, <1>5
<1>7. /\ places \in SUBSET (Nat \ {0}) /\ IsFiniteSet(places)
  <2>1. IsFiniteSet(base .. base + size - n)
    BY <1>2, <1>3, FS_Interval
  <2> QED
    BY <1>2, <1>3, <1>5, <2>1, FS_Subset
<1>8. \A from \in Nat \ {0}, window \in Int :
        SS!LookupSignature(memory, from, window, signature)
          = SS!FirstOf({a \in from .. from + window - 1 : a \in M})
  <2> TAKE from \in Nat \ {0}, window \in Int
  <2>1. {a \in from .. from + window - 1 : SS!Matches(memory, a, signature)}
          = {a \in from .. from + window - 1 : a \in M}
    BY <1>4
  <2> QED
    BY <2>1 DEF SS!LookupSignature
<1> DEFINE window == size - n + 1
           first == SS!LookupSignature(memory, base, window, signature)
           consumed == first - base + 1
           next == SS!LookupSignature(memory, base + consumed, window - consumed, signature)
<1>9. PICK result : result = SS!FindSignatureUnique(memory, scan.section, signature)
  OBVIOUS
<1>10. result = IF size < n \/ first = 0 THEN [at |-> 0, multiple |-> FALSE]
                ELSE [at |-> first, multiple |-> consumed < window /\ next # 0]
  BY <1>1, <1>3, <1>9 DEF SS!FindSignatureUnique, SS!Null
<1>11. first = SS!FirstOf(places)
  <2>1. base .. base + window - 1 = base .. base + size - n
    BY <1>2, <1>3
  <2> QED
    BY <1>2, <1>3, <1>5, <1>8, <2>1
<1>12. /\ (result.at = 0) <=> places = {}
       /\ places # {} => result.at = SS!Min(places)
       /\ result.multiple <=> \E x, y \in places : x # y
  <2>1. CASE places = {}
    <3>1. first = 0
      BY <1>7, <1>11, <2>1, FirstAddress
    <3> HIDE DEF first
    <3> QED
      BY <1>10, <2>1, <3>1
  <2>2. CASE places # {}
    <3>1. /\ first \in places /\ first # 0 /\ first = SS!Min(places)
          /\ \A a \in places : first <= a
      BY <1>7, <1>11, <2>2, FirstAddress
    <3>2. first \in base .. base + size - n /\ ~(size < n)
      BY <1>2, <1>3, <1>5, <3>1
    <3>3. base + consumed = first + 1 /\ window - consumed \in Int /\ first + 1 \in Nat \ {0}
          /\ base + consumed + (window - consumed) - 1 = base + size - n
          /\ (consumed < window <=> first < base + size - n)
      <4> HIDE DEF first
      <4> QED
        BY <1>2, <1>3, <3>2
    <3>4. PICK later : later = {a \in first + 1 .. base + size - n : a \in M}
      OBVIOUS
    <3>5. next = SS!FirstOf(later)
      <4>1. next = SS!FirstOf({a \in first + 1 .. first + 1 + (window - consumed) - 1 : a \in M})
        BY <1>8, <3>3
      <4> HIDE DEF next, first
      <4> QED
        BY <3>3, <3>4, <4>1
    <3> HIDE DEF first, next
    <3>6. later \in SUBSET (Nat \ {0}) /\ later = {a \in places : a # first}
      <4>1. \A a \in places : a # first <=> a >= first + 1
        BY <1>7, <3>1, <3>2
      <4> QED
        BY <1>2, <1>3, <1>5, <3>1, <3>2, <3>4, <4>1
    <3>7. next # 0 <=> \E x, y \in places : x # y
      BY <3>1, <3>5, <3>6, FirstAddress
    <3>8. next # 0 => consumed < window
      <4>1. later # {} => first < base + size - n
        BY <1>2, <1>3, <3>2, <3>4
      <4> QED
        BY <3>3, <3>5, <3>6, <4>1, FirstAddress
    <3> QED
      BY <1>10, <2>2, <3>1, <3>2, <3>7, <3>8
  <2> QED
    BY <2>1, <2>2
<1>13. Cardinality(places) > 1 <=> \E x, y \in places : x # y
  BY <1>7, OneOrSeveral
<1> QED
  BY <1>1, <1>6, <1>9, <1>12, <1>13, ScanCardinality DEF SS!OneMatch, SS!Null

\* The first address in a section that holds what is looked for.
LEMMA HitOfFindBytes ==
  ASSUME NEW memory, NEW s, NEW needle, NEW from, DOMAIN memory \subseteq Nat \ {0}
  PROVE  LET hit == SS!FindBytes(memory, s, needle, from)
         IN hit # 0 => hit \in DOMAIN memory /\ memory[hit] = needle
<1>1. PICK hits : hits = {a \in SS!Section(memory, s) : a >= from /\ memory[a] = needle}
  OBVIOUS
<1>2. hits \in SUBSET (Nat \ {0}) /\ \A a \in hits : a \in DOMAIN memory /\ memory[a] = needle
  BY <1>1 DEF SS!Section
<1>3. SS!FindBytes(memory, s, needle, from) = SS!FirstOf(hits)
  BY <1>1 DEF SS!FindBytes
<1> QED
  BY <1>2, <1>3, FirstAddress

\* The slots of a half that open a primary vtable of a typeinfo, and the halves
\* that have one.
TablesOf(memory, typeInfo, half) ==
  {a \in SS!Section(memory, half) : memory[a] = typeInfo /\ a > half.base /\ memory[a - 1] = 0}
HoldersOf(memory, typeInfo, halves) ==
  {i \in DOMAIN halves : TablesOf(memory, typeInfo, halves[i]) # {}}

LEMMA TableIsTheFirst ==
  \A memory, rodata, relro, halves, name :
    LET typeName == SS!FindBytes(memory, rodata, name, 0)
        nameRef == SS!FindBytes(memory, relro, typeName, 0)
        holders == HoldersOf(memory, nameRef - 1, halves)
    IN SS!FindVirtualTable(memory, rodata, relro, halves, name)
         = IF typeName = 0 \/ nameRef <= relro.base \/ holders = {} THEN 0
           ELSE SS!Min(TablesOf(memory, nameRef - 1, halves[SS!Min(holders)])) + 1
  BY DEF SS!FindVirtualTable, SS!Null, TablesOf, HoldersOf

\* A vtable that is found is the primary one of a type with that name
\* (schema.h:49-71, sigscan.cpp).
THEOREM TablesCorrect ==
  \A scan : IsTableScan(scan) =>
    SS!RightTable(scan.memory, scan.rodata, scan.relro, scan.halves, scan.name)
<1> SUFFICES ASSUME NEW scan, IsTableScan(scan),
                    SS!FindVirtualTable(scan.memory, scan.rodata, scan.relro, scan.halves, scan.name) # 0
             PROVE  LET table == SS!FindVirtualTable(scan.memory, scan.rodata, scan.relro,
                                                     scan.halves, scan.name)
                    IN /\ scan.memory[table - 2] = 0
                       /\ scan.memory[scan.memory[scan.memory[table - 1] + 1]] = scan.name
  BY DEF SS!RightTable, SS!Null
<1>1. PICK memory, rodata, relro, halves, name, table :
        /\ memory = scan.memory /\ rodata = scan.rodata /\ relro = scan.relro
        /\ halves = scan.halves /\ name = scan.name
        /\ table = SS!FindVirtualTable(memory, rodata, relro, halves, name)
  OBVIOUS
<1>2. DOMAIN memory \subseteq Nat \ {0} /\ DOMAIN halves \subseteq Nat
  BY <1>1 DEF IsTableScan, IsMemory
<1>3. PICK typeName, nameRef :
        /\ typeName = SS!FindBytes(memory, rodata, name, 0)
        /\ nameRef = SS!FindBytes(memory, relro, typeName, 0)
  OBVIOUS
<1>4. PICK holders : holders = HoldersOf(memory, nameRef - 1, halves)
  OBVIOUS
<1>5. table = IF typeName = 0 \/ nameRef <= relro.base \/ holders = {} THEN 0
              ELSE SS!Min(TablesOf(memory, nameRef - 1, halves[SS!Min(holders)])) + 1
  BY <1>1, <1>3, <1>4, TableIsTheFirst
<1>6. typeName # 0 /\ ~(nameRef <= relro.base) /\ holders # {}
  BY <1>1, <1>5
<1>7. SS!Min(holders) \in holders
  <2>1. holders \subseteq Nat
    BY <1>2, <1>4 DEF HoldersOf
  <2>2. \E x \in holders : \A y \in holders : x <= y
    BY <1>6, <2>1, LeastOf
  <2> QED
    BY <2>2 DEF SS!Min
<1>8. PICK half : half = halves[SS!Min(holders)] /\ TablesOf(memory, nameRef - 1, half) # {}
  BY <1>4, <1>7 DEF HoldersOf
<1>9. PICK hits : hits = TablesOf(memory, nameRef - 1, half)
  OBVIOUS
<1>10. /\ hits \subseteq Nat /\ hits # {}
       /\ \A a \in hits : a \in DOMAIN memory /\ memory[a] = nameRef - 1 /\ memory[a - 1] = 0
  BY <1>2, <1>8, <1>9 DEF SS!Section, TablesOf
<1>11. PICK at : at = SS!Min(hits) /\ at \in hits
  <2>1. \E x \in hits : \A y \in hits : x <= y
    BY <1>10, LeastOf
  <2> QED
    BY <2>1 DEF SS!Min
<1>12. table = at + 1 /\ at \in Nat
  BY <1>5, <1>6, <1>8, <1>9, <1>10, <1>11
<1>13. nameRef # 0
  <2>1. relro.base \in Nat
    BY <1>1 DEF IsTableScan, IsRegion
  <2> QED
    BY <1>6, <2>1
<1>14. nameRef \in Nat /\ memory[nameRef] = typeName /\ memory[typeName] = name
  BY <1>2, <1>3, <1>6, <1>13, HitOfFindBytes
<1>15. table - 2 = at - 1 /\ table - 1 = at /\ nameRef - 1 + 1 = nameRef
  BY <1>12, <1>14
<1>16. memory[table - 2] = 0 /\ memory[table - 1] = nameRef - 1
  BY <1>10, <1>11, <1>15
<1>17. memory[memory[memory[table - 1] + 1]] = name
  BY <1>14, <1>15, <1>16
<1> QED
  BY <1>1, <1>16, <1>17

\* What a section has of the vtable, what is done with a section, and what FoldLeft
\* makes of the sections, by which of them it has seen.
HitsOf(memory, s, vtable) == {a \in SS!Section(memory, s) : a % Align = 0 /\ memory[a] = vtable}
ScanStep(memory, s, vtable, done) ==
  IF done.many THEN done ELSE SS!FindSinglePointer(memory, s, vtable, done)
Unseen == SS!Scan(SS!Null, FALSE)
Sweeps(memory, writable, vtable) ==
  CHOOSE g : g = [s \in SUBSET (DOMAIN writable) |->
    IF s = {} THEN Unseen
    ELSE ScanStep(memory, writable[Top(s)], vtable, g[s \ {Top(s)}])]

LEMMA SweepsAreFolded ==
  \A memory, writable, vtable :
    LET scan == Sweeps(memory, writable, vtable)[DOMAIN writable]
    IN SS!FindObjectByVTable(memory, writable, vtable)
         = IF vtable = SS!Null \/ scan.many THEN SS!Null ELSE scan.found
  BY DEF SS!FindObjectByVTable, Unseen, SS!FoldLeft, SS!MapThenFoldSet, SS!Max, Top, ScanStep, Sweeps

ScanStates == [found : Nat, many : BOOLEAN]

\* What a section adds.
LEMMA ScanSteps ==
  ASSUME NEW memory, IsMemory(memory), NEW s, NEW vtable, NEW done \in ScanStates
  PROVE  LET t == ScanStep(memory, s, vtable, done)
             hits == HitsOf(memory, s, vtable)
         IN /\ t \in ScanStates
            /\ done.many => t = done
            /\ ~done.many /\ done.found = 0 =>
                 /\ t.found = SS!FirstOf(hits)
                 /\ t.many <=> \E x, y \in hits : x # y
            /\ ~done.many /\ done.found # 0 =>
                 t.found = done.found /\ (t.many <=> hits # {})
<1>1. PICK hits : hits = HitsOf(memory, s, vtable)
  OBVIOUS
<1>2. hits \in SUBSET (Nat \ {0}) /\ IsFiniteSet(hits)
  <2>1. hits \subseteq DOMAIN memory
    BY <1>1 DEF HitsOf, SS!Section
  <2> QED
    BY <2>1, FS_Subset DEF IsMemory
<1>3. SS!FirstOf(hits) \in Nat
  <2>1. CASE hits = {}
    BY <1>2, <2>1, FirstAddress
  <2>2. CASE hits # {}
    BY <1>2, <2>2, FirstAddress
  <2> QED
    BY <2>1, <2>2
<1>4. /\ SS!Cardinality(hits) \in Nat
      /\ SS!Cardinality(hits) = 0 <=> hits = {}
      /\ SS!Cardinality(hits) > 1 <=> \E x, y \in hits : x # y
  BY <1>2, OneOrSeveral, ScanCardinality
<1>5. PICK n \in Nat : n = SS!Cardinality(hits)
  BY <1>4
<1>6. n > 0 <=> hits # {}
  BY <1>4, <1>5
<1>7. PICK t : t = ScanStep(memory, s, vtable, done)
  OBVIOUS
<1>8. CASE done.many
  BY <1>7, <1>8 DEF ScanStep
<1>9. CASE ~done.many /\ done.found = 0
  <2>1. t = [found |-> SS!FirstOf(hits), many |-> n > 1]
    BY <1>1, <1>5, <1>7, <1>9 DEF ScanStep, SS!FindSinglePointer, SS!Scan, SS!Null, HitsOf
  <2>2. (n > 1) \in BOOLEAN
    OBVIOUS
  <2>3. t.found = SS!FirstOf(hits) /\ t.many = (n > 1) /\ t \in ScanStates
    BY <1>3, <2>1, <2>2 DEF ScanStates
  <2> QED
    BY <1>1, <1>4, <1>5, <1>7, <1>9, <2>3
<1>10. CASE ~done.many /\ done.found # 0
  <2>1. t = [found |-> done.found, many |-> n > 0]
    BY <1>1, <1>5, <1>7, <1>10 DEF ScanStep, SS!FindSinglePointer, SS!Scan, SS!Null, HitsOf
  <2>2. (n > 0) \in BOOLEAN /\ done.found \in Nat
    BY DEF ScanStates
  <2>3. t.found = done.found /\ t.many = (n > 0) /\ t \in ScanStates
    BY <2>1, <2>2 DEF ScanStates
  <2> QED
    BY <1>1, <1>6, <1>7, <1>10, <2>3
<1> QED
  BY <1>8, <1>9, <1>10

LEMMA SweepsExist ==
  ASSUME NEW memory, IsMemory(memory), NEW vtable, NEW writable, NEW n \in Nat,
         DOMAIN writable = 1 .. n
  PROVE  /\ Sweeps(memory, writable, vtable)[{}] = Unseen
         /\ \A k \in 1 .. n :
              Sweeps(memory, writable, vtable)[1 .. k]
                = ScanStep(memory, writable[k], vtable, Sweeps(memory, writable, vtable)[1 .. k - 1])
<1> DEFINE F == [k \in 1 .. n |-> [x \in ScanStates |-> ScanStep(memory, writable[k], vtable, x)]]
           g == Sweeps(memory, writable, vtable)
           Body(h) == [s \in SUBSET (1 .. n) |->
                         IF s = {} THEN Unseen
                         ELSE ScanStep(memory, writable[Top(s)], vtable, h[s \ {Top(s)}])]
<1>1. F \in [1 .. n -> [ScanStates -> ScanStates]]
  BY ScanSteps
<1>2. Unseen \in ScanStates
  BY DEF Unseen, SS!Scan, SS!Null, ScanStates
<1>3. PICK h \in [SUBSET (1 .. n) -> ScanStates] : Folded(h, n, Unseen, F)
  <2> HIDE DEF F
  <2> QED
    BY <1>1, <1>2, Iterates
<1>4. h = Body(h)
  <2>1. \A s \in SUBSET (1 .. n) : s # {} => Top(s) \in 1 .. n /\ s \ {Top(s)} \in SUBSET (1 .. n)
    BY LastIsOne
  <2>2. \A s \in SUBSET (1 .. n) : s # {} =>
          F[Top(s)][h[s \ {Top(s)}]] = ScanStep(memory, writable[Top(s)], vtable, h[s \ {Top(s)}])
    BY <2>1
  <2> HIDE DEF F
  <2> QED
    BY <1>3, <2>2 DEF Folded
<1>5. g = Body(g)
  <2>1. g = CHOOSE f : f = Body(f)
    BY DEF Sweeps
  <2> HIDE DEF Body, g
  <2> QED
    BY <1>4, <2>1
<1> HIDE DEF g
<1>6. g[{}] = Unseen
  BY <1>5
<1>7. ASSUME NEW k \in 1 .. n PROVE g[1 .. k] = ScanStep(memory, writable[k], vtable, g[1 .. k - 1])
  <2>1. /\ Top(1 .. k) = k /\ (1 .. k) \ {k} = 1 .. k - 1 /\ 1 .. k # {}
        /\ 1 .. k \in SUBSET (1 .. n)
    BY Prefixes
  <2>2. \A t \in SUBSET (1 .. n) : t # {} =>
          g[t] = ScanStep(memory, writable[Top(t)], vtable, g[t \ {Top(t)}])
    BY <1>5
  <2> QED
    BY <2>1, <2>2
<1> QED
  BY <1>6, <1>7 DEF g

\* What the scan knows of the hits it has seen.
Sighted(s, seen) ==
  /\ s \in ScanStates
  /\ s.many => \E x, y \in seen : x # y
  /\ ~s.many => \/ s.found = 0 /\ seen = {}
                \/ s.found # 0 /\ seen = {s.found}

LEMMA SightedSteps ==
  ASSUME NEW memory, IsMemory(memory), NEW s, NEW vtable, NEW done, NEW seen, Sighted(done, seen),
         seen \cap HitsOf(memory, s, vtable) = {}
  PROVE  Sighted(ScanStep(memory, s, vtable, done), seen \cup HitsOf(memory, s, vtable))
<1>1. PICK hits : hits = HitsOf(memory, s, vtable)
  OBVIOUS
<1>2. PICK t : t = ScanStep(memory, s, vtable, done)
  OBVIOUS
<1>3. done \in ScanStates /\ done.many \in BOOLEAN
  BY DEF Sighted, ScanStates
<1>4. /\ t \in ScanStates
      /\ done.many => t = done
      /\ ~done.many /\ done.found = 0 =>
           t.found = SS!FirstOf(hits) /\ (t.many <=> \E x, y \in hits : x # y)
      /\ ~done.many /\ done.found # 0 => t.found = done.found /\ (t.many <=> hits # {})
  BY <1>1, <1>2, <1>3, ScanSteps
<1>5. hits \in SUBSET (Nat \ {0})
  BY <1>1 DEF HitsOf, SS!Section, IsMemory
<1>6. CASE done.many
  BY <1>1, <1>2, <1>4, <1>6 DEF Sighted
<1>7. CASE ~done.many /\ done.found = 0
  <2>1. seen = {}
    BY <1>7 DEF Sighted
  <2>2. CASE t.many
    BY <1>1, <1>2, <1>4, <1>7, <2>1, <2>2 DEF Sighted
  <2>3. CASE ~t.many
    <3>1. CASE hits = {}
      BY <1>1, <1>2, <1>4, <1>5, <1>7, <2>1, <2>3, <3>1, FirstAddress DEF Sighted
    <3>2. CASE hits # {}
      <4>1. t.found \in hits /\ t.found # 0
        BY <1>4, <1>5, <1>7, <3>2, FirstAddress
      <4>2. hits = {t.found}
        BY <1>4, <1>7, <2>3, <4>1
      <4> QED
        BY <1>1, <1>2, <1>4, <2>1, <2>3, <4>1, <4>2 DEF Sighted
    <3> QED
      BY <3>1, <3>2
  <2> QED
    BY <2>2, <2>3
<1>8. CASE ~done.many /\ done.found # 0
  <2>1. seen = {done.found}
    BY <1>8 DEF Sighted
  <2>2. CASE hits = {}
    BY <1>1, <1>2, <1>4, <1>8, <2>1, <2>2 DEF Sighted
  <2>3. CASE hits # {}
    <3>1. PICK x \in hits : x # done.found
      BY <1>1, <2>1, <2>3
    <3>2. \E y, z \in seen \cup hits : y # z
      BY <2>1, <3>1
    <3> QED
      BY <1>1, <1>2, <1>4, <1>8, <2>3, <3>2 DEF Sighted
  <2> QED
    BY <2>2, <2>3
<1> QED
  BY <1>6, <1>7, <1>8

\* An object is found if the writable memory holds its vtable once, and only
\* then, in whichever section (sigscan.h:69-71).
THEOREM ObjectsCorrect ==
  \A scan : IsObjectScan(scan) => SS!OneObject(scan.memory, scan.writable, scan.vtable)
<1> SUFFICES ASSUME NEW scan, IsObjectScan(scan), scan.vtable # 0
             PROVE  SS!OneObject(scan.memory, scan.writable, scan.vtable)
  BY DEF SS!OneObject, SS!Null
<1>1. PICK memory, writable, vtable :
        memory = scan.memory /\ writable = scan.writable /\ vtable = scan.vtable
  OBVIOUS
<1>2. PICK n \in Nat : n = Len(writable) /\ DOMAIN writable = 1 .. n
  BY <1>1 DEF IsObjectScan
<1>3. /\ IsMemory(memory)
      /\ \A i, j \in 1 .. n :
           i < j => HitsOf(memory, writable[i], vtable) \cap HitsOf(memory, writable[j], vtable) = {}
  BY <1>1, <1>2 DEF IsObjectScan, HitsOf
<1> DEFINE g == Sweeps(memory, writable, vtable)
           Seen(k) == UNION {HitsOf(memory, writable[i], vtable) : i \in 1 .. k}
           P == {k \in 0 .. n : Sighted(g[1 .. k], Seen(k))}
<1>4. /\ g[{}] = Unseen
      /\ \A k \in 1 .. n : g[1 .. k] = ScanStep(memory, writable[k], vtable, g[1 .. k - 1])
  BY <1>2, <1>3, SweepsExist
<1> HIDE DEF g
<1>5. 0 \in P
  <2>1. 1 .. 0 = {} /\ Seen(0) = {}
    OBVIOUS
  <2>2. Sighted(Unseen, {})
    BY DEF Sighted, Unseen, SS!Scan, SS!Null, ScanStates
  <2> HIDE DEF Seen
  <2>3. Sighted(g[1 .. 0], Seen(0))
    BY <1>4, <2>1, <2>2
  <2> QED
    BY <2>3
<1>6. ASSUME NEW k \in 0 .. n - 1, k \in P PROVE k + 1 \in P
  <2>1. k + 1 \in 1 .. n /\ k + 1 - 1 = k
    OBVIOUS
  <2>2. g[1 .. k + 1] = ScanStep(memory, writable[k + 1], vtable, g[1 .. k])
    BY <1>4, <2>1
  <2>3. Seen(k + 1) = Seen(k) \cup HitsOf(memory, writable[k + 1], vtable)
    <3>1. 1 .. k + 1 = (1 .. k) \cup {k + 1}
      OBVIOUS
    <3> QED
      BY <3>1
  <2>4. Seen(k) \cap HitsOf(memory, writable[k + 1], vtable) = {}
    <3>1. \A i \in 1 .. k : i \in 1 .. n /\ i < k + 1
      OBVIOUS
    <3> QED
      BY <1>3, <2>1, <3>1
  <2>5. Sighted(g[1 .. k], Seen(k))
    BY <1>6
  <2> HIDE DEF Seen
  <2>6. Sighted(g[1 .. k + 1], Seen(k + 1))
    BY <1>3, <2>2, <2>3, <2>4, <2>5, SightedSteps
  <2> QED
    BY <2>1, <2>6
<1> HIDE DEF P
<1>7. \A k \in 0 .. n : k \in P
  BY <1>5, <1>6, Induct
<1>8. n \in P
  BY <1>7
<1>9. PICK done, seen : done = g[1 .. n] /\ seen = Seen(n) /\ Sighted(done, seen)
  BY <1>8 DEF P
<1>10. seen = {a \in UNION {SS!Section(memory, writable[i]) : i \in DOMAIN writable} :
                 a % Align = 0 /\ memory[a] = vtable}
  BY <1>2, <1>9 DEF HitsOf
<1>11. SS!FindObjectByVTable(memory, writable, vtable) = IF done.many THEN 0 ELSE done.found
  BY <1>1, <1>2, <1>9, SweepsAreFolded DEF SS!Null, g
<1>12. seen \in SUBSET (Nat \ {0}) /\ IsFiniteSet(seen)
  <2>1. seen \subseteq DOMAIN memory
    BY <1>10 DEF SS!Section
  <2> QED
    BY <1>3, <2>1, FS_Subset DEF IsMemory
<1>13. SS!Cardinality(seen) = 1 <=> \E x : seen = {x}
  BY <1>12, OneOrSeveral, ScanCardinality
<1>14. SS!FindObjectByVTable(memory, writable, vtable)
         = IF SS!Cardinality(seen) = 1 THEN SS!Min(seen) ELSE 0
  <2>1. CASE done.many
    <3>1. \E x, y \in seen : x # y
      BY <1>9, <2>1 DEF Sighted
    <3> QED
      BY <1>11, <1>13, <2>1, <3>1
  <2>2. CASE ~done.many /\ done.found = 0
    <3>1. seen = {}
      BY <1>9, <2>2 DEF Sighted
    <3> QED
      BY <1>11, <1>13, <2>2, <3>1
  <2>3. CASE ~done.many /\ done.found # 0
    <3>1. seen = {done.found} /\ done.found \in Nat
      BY <1>9, <2>3 DEF Sighted, ScanStates
    <3>2. SS!Min(seen) = done.found
      BY <3>1 DEF SS!Min
    <3> QED
      BY <1>11, <1>13, <2>3, <3>1, <3>2
  <2> QED
    BY <2>1, <2>2, <2>3
<1> QED
  BY <1>1, <1>10, <1>14 DEF SS!OneObject, SS!Null

-----------------------------------------------------------------------------
(* Schema *)

\* What FoldLeft makes of the calls, by which of them it has seen.
Asked(events) ==
  CHOOSE g : g = [s \in SUBSET (DOMAIN events) |->
    IF s = {} THEN SC!Start ELSE SC!Step(g[s \ {Top(s)}], Declared, events[Top(s)])]

\* A field of the engine, and what a call is answered.
Exists(class, field) == class \in DOMAIN Declared /\ field \in DOMAIN Declared[class]
Found(events, i) ==
  (\E j \in 1 .. i - 1 : events[j][1] = "Ready") /\ Exists(events[i][2], events[i][3])
Answered(answers, events) ==
  \A i \in DOMAIN events : events[i][1] # "Ready" =>
    IF events[i][1] = "Look"
    THEN answers[i] = IF Found(events, i) THEN Declared[events[i][2]][events[i][3]] ELSE -1
    ELSE answers[i] = IF Found(events, i) THEN SC!AsInt16(Declared[events[i][2]][events[i][3]]) ELSE 0

LEMMA AskedIsFolded ==
  \A events : Answered(Asked(events)[DOMAIN events].answers, events) => SC!FieldsAreFound(Declared, events)
  BY DEF SC!FieldsAreFound, SC!FoldLeft, SC!MapThenFoldSet, SC!Max, Top, Asked, Answered, Found, Exists

\* Maps of some keys.
Partial(K, T) == UNION {[D -> T] : D \in SUBSET K}

LEMMA PartialIs ==
  ASSUME NEW K, NEW T, NEW map
  PROVE  map \in Partial(K, T) <=>
           /\ map = [k \in DOMAIN map |-> map[k]] /\ DOMAIN map \subseteq K
           /\ \A k \in DOMAIN map : map[k] \in T
<1>1. ASSUME map \in Partial(K, T)
      PROVE  /\ map = [k \in DOMAIN map |-> map[k]] /\ DOMAIN map \subseteq K
             /\ \A k \in DOMAIN map : map[k] \in T
  <2>1. PICK D \in SUBSET K : map \in [D -> T]
    BY <1>1 DEF Partial
  <2> QED
    BY <2>1
<1>2. ASSUME map = [k \in DOMAIN map |-> map[k]], DOMAIN map \subseteq K,
             \A k \in DOMAIN map : map[k] \in T
      PROVE  map \in Partial(K, T)
  <2>1. map \in [DOMAIN map -> T] /\ DOMAIN map \in SUBSET K
    BY <1>2
  <2> QED
    BY <2>1 DEF Partial
<1> QED
  BY <1>1, <1>2

LEMMA WithIs ==
  ASSUME NEW K, NEW T, NEW map \in Partial(K, T), NEW key \in K, NEW value \in T
  PROVE  /\ SC!With(map, key, value) \in Partial(K, T)
         /\ DOMAIN SC!With(map, key, value) = DOMAIN map \cup {key}
         /\ SC!With(map, key, value)[key] = value
         /\ \A k \in DOMAIN map : k # key => SC!With(map, key, value)[k] = map[k]
<1>1. /\ DOMAIN map \subseteq K /\ \A k \in DOMAIN map : map[k] \in T
  BY PartialIs
<1>2. PICK new : new = SC!With(map, key, value)
  OBVIOUS
<1>3. new = [k \in DOMAIN map \cup {key} |-> IF k = key THEN value ELSE map[k]]
  BY <1>2 DEF SC!With
<1>4. /\ DOMAIN new = DOMAIN map \cup {key} /\ new[key] = value
      /\ \A k \in DOMAIN map : k # key => new[k] = map[k]
  BY <1>3
<1>5. DOMAIN new \subseteq K /\ \A k \in DOMAIN new : new[k] \in T
  BY <1>1, <1>4
<1>6. new = [k \in DOMAIN new |-> new[k]]
  BY <1>3
<1>7. new \in Partial(K, T)
  BY <1>5, <1>6, PartialIs
<1> QED
  BY <1>2, <1>4, <1>7

LEMMA OffsetKept ==
  ASSUME NEW K, NEW map, map \in Partial(K, Int), NEW key, key \in K,
         NEW value, value \in Int, NEW new, new = SC!With(map, key, value)
  PROVE  /\ new \in Partial(K, Int) /\ DOMAIN new = DOMAIN map \cup {key}
         /\ new[key] = value
         /\ \A k \in DOMAIN map : k # key => new[k] = map[k]
<1>1. DOMAIN map \subseteq K /\ \A k \in DOMAIN map : map[k] \in Int
  BY PartialIs
<1>2. new = [k \in DOMAIN map \cup {key} |-> IF k = key THEN value ELSE map[k]]
  BY DEF SC!With
<1>3. /\ DOMAIN new = DOMAIN map \cup {key} /\ new[key] = value
      /\ \A k \in DOMAIN map : k # key => new[k] = map[k]
  BY <1>2
<1>4. DOMAIN new \subseteq K /\ \A k \in DOMAIN new : new[k] \in Int
  BY <1>1, <1>3
<1>5. new = [k \in DOMAIN new |-> new[k]]
  BY <1>2
<1> QED
  BY <1>3, <1>4, <1>5, PartialIs

\* The fields a class has; a cache holds what a ready system declares, and an
\* accessor's positive offset is the field's.
ClassFields(class) == IF class \in DOMAIN Declared THEN Declared[class] ELSE SC!NoFields
CachedFields(C) == {ClassFields(c) : c \in C}
CacheIsRight(cache, ready) == \A c \in DOMAIN cache : ready /\ cache[c] = ClassFields(c)
OffsetsAreRight(offsets, ready) ==
  \A f \in DOMAIN offsets : offsets[f] > 0 =>
    ready /\ Exists(f[1], f[2]) /\ offsets[f] = SC!AsInt16(Declared[f[1]][f[2]])
SchemaStates(C, K) ==
  {s \in [ready : BOOLEAN, cache : Partial(C, CachedFields(C)),
          offsets : Partial(K, Int), answers : Seq(Int)] :
     CacheIsRight(s.cache, s.ready) /\ OffsetsAreRight(s.offsets, s.ready)}

LEMMA FieldsHaveOffsets ==
  \A class, field : Exists(class, field) =>
    Declared[class][field] \in Int /\ SC!AsInt16(Declared[class][field]) \in Int
<1> TAKE class, field
<1> SUFFICES ASSUME Exists(class, field)
             PROVE  Declared[class][field] \in Int /\ SC!AsInt16(Declared[class][field]) \in Int
  OBVIOUS
<1>1. PICK n \in Int : n = Declared[class][field]
  BY SchemaAssumption DEF Exists
<1>2. PICK m \in Nat \ {0} : m = 2 * Half
  BY SchemaAssumption
<1>3. Half \in Int /\ n + Half \in Int
  BY SchemaAssumption
<1>4. (n + Half) % m \in Int
  BY <1>2, <1>3
<1>5. SC!AsInt16(n) = ((n + Half) % m) - Half
  BY <1>2 DEF SC!AsInt16
<1> QED
  BY <1>1, <1>3, <1>4, <1>5

\* What the cache says of a field once its class was asked for.
LEMMA CacheIsRead ==
  ASSUME NEW C, NEW s, s.ready \in BOOLEAN, s.cache \in Partial(C, CachedFields(C)),
         CacheIsRight(s.cache, s.ready), NEW class \in C, NEW field
  PROVE  /\ SC!CacheFor(s, Declared, class) \in Partial(C, CachedFields(C))
         /\ CacheIsRight(SC!CacheFor(s, Declared, class), s.ready)
         /\ s.ready /\ Exists(class, field) =>
              SC!FindField(SC!CacheFor(s, Declared, class), class, field) = {Declared[class][field]}
         /\ ~(s.ready /\ Exists(class, field)) =>
              SC!FindField(SC!CacheFor(s, Declared, class), class, field) = {}
<1>1. PICK cache : cache = SC!CacheFor(s, Declared, class)
  OBVIOUS
<1>2. DOMAIN SC!NoFields = {}
  BY DEF SC!NoFields
<1>3. CASE class \in DOMAIN s.cache
  <2>1. cache = s.cache /\ s.ready /\ cache[class] = ClassFields(class)
    BY <1>1, <1>3 DEF SC!CacheFor, CacheIsRight
  <2>2. SC!FindField(cache, class, field)
          = IF Exists(class, field) THEN {Declared[class][field]} ELSE {}
    BY <1>2, <1>3, <2>1 DEF SC!FindField, ClassFields, Exists
  <2> QED
    BY <1>1, <2>1, <2>2
<1>4. CASE class \notin DOMAIN s.cache /\ ~s.ready
  <2>1. cache = s.cache
    BY <1>1, <1>4 DEF SC!CacheFor, SC!InitSchemaFieldsForClass
  <2>2. SC!FindField(cache, class, field) = {}
    BY <1>4, <2>1 DEF SC!FindField
  <2> QED
    BY <1>1, <1>4, <2>1, <2>2
<1>5. CASE class \notin DOMAIN s.cache /\ s.ready
  <2>1. cache = SC!With(s.cache, class, ClassFields(class))
    BY <1>1, <1>5 DEF SC!CacheFor, SC!InitSchemaFieldsForClass, ClassFields
  <2>2. /\ cache \in Partial(C, CachedFields(C))
        /\ DOMAIN cache = DOMAIN s.cache \cup {class} /\ cache[class] = ClassFields(class)
        /\ \A k \in DOMAIN s.cache : k # class => cache[k] = s.cache[k]
    <3>1. ClassFields(class) \in CachedFields(C)
      BY DEF CachedFields
    <3>2. PICK T, value, map : T = CachedFields(C) /\ value = ClassFields(class) /\ map = s.cache
      OBVIOUS
    <3>3. map \in Partial(C, T) /\ value \in T
      BY <3>1, <3>2
    <3>4. /\ SC!With(map, class, value) \in Partial(C, T)
          /\ DOMAIN SC!With(map, class, value) = DOMAIN map \cup {class}
          /\ SC!With(map, class, value)[class] = value
          /\ \A k \in DOMAIN map : k # class => SC!With(map, class, value)[k] = map[k]
      BY <3>3, WithIs
    <3> QED
      BY <2>1, <3>2, <3>4
  <2>3. CacheIsRight(cache, s.ready)
    BY <1>5, <2>2 DEF CacheIsRight
  <2>4. SC!FindField(cache, class, field)
          = IF Exists(class, field) THEN {Declared[class][field]} ELSE {}
    BY <1>2, <2>2 DEF SC!FindField, ClassFields, Exists
  <2> QED
    BY <1>1, <1>5, <2>2, <2>3, <2>4
<1> QED
  BY <1>3, <1>4, <1>5

\* What a call is answered, with the system ready or not.
Reply(s, e) ==
  IF e[1] = "Ready" THEN 0
  ELSE IF e[1] = "Look"
       THEN IF s.ready /\ Exists(e[2], e[3]) THEN Declared[e[2]][e[3]] ELSE -1
       ELSE IF s.ready /\ Exists(e[2], e[3]) THEN SC!AsInt16(Declared[e[2]][e[3]]) ELSE 0

LEMMA SchemaSteps ==
  ASSUME NEW C, NEW K, NEW s \in SchemaStates(C, K), NEW e, e[1] \in {"Ready", "Access", "Look"},
         e[2] \in C, NEW key \in K, key = <<e[2], e[3]>>
  PROVE  /\ SC!Step(s, Declared, e) \in SchemaStates(C, K)
         /\ SC!Step(s, Declared, e).ready = (s.ready \/ e[1] = "Ready")
         /\ SC!Step(s, Declared, e).answers = Append(s.answers, Reply(s, e))
<1>1. /\ s = [ready |-> s.ready, cache |-> s.cache, offsets |-> s.offsets, answers |-> s.answers]
      /\ s.ready \in BOOLEAN /\ s.cache \in Partial(C, CachedFields(C))
      /\ s.offsets \in Partial(K, Int) /\ s.answers \in Seq(Int)
      /\ CacheIsRight(s.cache, s.ready) /\ OffsetsAreRight(s.offsets, s.ready)
  BY DEF SchemaStates
<1>2. PICK class, field : class = e[2] /\ field = e[3] /\ class \in C /\ key = <<class, field>>
  OBVIOUS
<1>3. PICK t : t = SC!Step(s, Declared, e)
  OBVIOUS
<1>4. PICK reply \in Int : reply = Reply(s, e)
  BY FieldsHaveOffsets DEF Reply
<1>5. Append(s.answers, reply) \in Seq(Int)
  BY <1>1, <1>4
<1>6. PICK cache : cache = SC!CacheFor(s, Declared, class)
  OBVIOUS
<1>7. /\ cache \in Partial(C, CachedFields(C)) /\ CacheIsRight(cache, s.ready)
      /\ SC!FindField(cache, class, field)
           = IF s.ready /\ Exists(class, field) THEN {Declared[class][field]} ELSE {}
  <2>1. /\ s.ready \in BOOLEAN /\ s.cache \in Partial(C, CachedFields(C))
        /\ CacheIsRight(s.cache, s.ready) /\ class \in C
    BY <1>1, <1>2
  <2>2. /\ SC!CacheFor(s, Declared, class) \in Partial(C, CachedFields(C))
        /\ CacheIsRight(SC!CacheFor(s, Declared, class), s.ready)
        /\ s.ready /\ Exists(class, field) =>
             SC!FindField(SC!CacheFor(s, Declared, class), class, field) = {Declared[class][field]}
        /\ ~(s.ready /\ Exists(class, field)) =>
             SC!FindField(SC!CacheFor(s, Declared, class), class, field) = {}
    BY <2>1, CacheIsRead
  <2> QED
    BY <1>6, <2>2
<1>8. CASE e[1] = "Ready"
  <2>1. t = [ready |-> TRUE, cache |-> s.cache, offsets |-> s.offsets,
             answers |-> Append(s.answers, reply)]
    BY <1>1, <1>3, <1>4, <1>8 DEF SC!Step, Reply
  <2>2. CacheIsRight(s.cache, TRUE) /\ OffsetsAreRight(s.offsets, TRUE)
    BY <1>1 DEF CacheIsRight, OffsetsAreRight
  <2>3. t \in SchemaStates(C, K)
    BY <1>1, <1>5, <2>1, <2>2 DEF SchemaStates
  <2>4. t.ready = (s.ready \/ e[1] = "Ready")
    BY <1>1, <1>8, <2>1
  <2>5. t.answers = Append(s.answers, reply)
    BY <2>1
  <2> QED
    BY <1>3, <1>4, <2>3, <2>4, <2>5, Zenon
<1>9. CASE e[1] = "Look"
  <2>1. SC!FindOffset(cache, class, field) = reply
    BY <1>2, <1>4, <1>7, <1>9 DEF SC!FindOffset, Reply
  <2>2. t = [ready |-> s.ready, cache |-> cache, offsets |-> s.offsets,
             answers |-> Append(s.answers, reply)]
    BY <1>1, <1>2, <1>3, <1>6, <1>9, <2>1 DEF SC!Step, SC!Look
  <2>3. t \in SchemaStates(C, K)
    BY <1>1, <1>5, <1>7, <2>2 DEF SchemaStates
  <2>4. t.ready = (s.ready \/ e[1] = "Ready")
    BY <1>1, <1>9, <2>2
  <2> QED
    BY <1>3, <1>4, <2>2, <2>3, <2>4
<1>10. CASE e[1] = "Access"
  <2>1. PICK known : known = IF key \in DOMAIN s.offsets
                             THEN s.offsets[key] ELSE 0
    OBVIOUS
  <2>2. known \in Int
    BY <1>1, <2>1, PartialIs
  <2>3. PICK new : new = IF known > 0 THEN s.cache ELSE cache
    OBVIOUS
  <2>4. (IF known > 0 THEN known ELSE SC!GetOffset(cache, class, field)) = reply
    <3>1. CASE known > 0
      <4>1. key \in DOMAIN s.offsets /\ s.offsets[key] = known
        BY <2>1, <3>1
      <4>2. s.ready /\ Exists(class, field) /\ known = SC!AsInt16(Declared[class][field])
        BY <1>1, <1>2, <3>1, <4>1 DEF OffsetsAreRight
      <4> QED
        BY <1>2, <1>4, <1>10, <3>1, <4>2 DEF Reply
    <3>2. CASE ~(known > 0)
      BY <1>2, <1>4, <1>7, <1>10, <3>2 DEF SC!GetOffset, Reply
    <3> QED
      BY <3>1, <3>2
  <2>5. PICK offsets : offsets = SC!With(s.offsets, key, reply)
    OBVIOUS
  <2>6. t = [ready |-> s.ready, cache |-> new, offsets |-> offsets,
             answers |-> Append(s.answers, reply)]
    <3>1. t = SC!Access(s, Declared, class, field)
      BY <1>2, <1>3, <1>10 DEF SC!Step
    <3>2. SC!Access(s, Declared, class, field)
            = [s EXCEPT !.cache = new, !.offsets = offsets, !.answers = Append(s.answers, reply)]
      <4>1. CASE known > 0
        BY <1>2, <2>1, <2>3, <2>4, <2>5, <4>1 DEF SC!Access
      <4>2. CASE ~(known > 0)
        BY <1>2, <1>6, <2>1, <2>3, <2>4, <2>5, <4>2 DEF SC!Access
      <4> QED
        BY <4>1, <4>2
    <3> QED
      BY <1>1, <3>1, <3>2
  <2>7. new \in Partial(C, CachedFields(C)) /\ CacheIsRight(new, s.ready)
    BY <1>1, <1>7, <2>3
  <2>8. /\ offsets \in Partial(K, Int) /\ DOMAIN offsets = DOMAIN s.offsets \cup {key}
        /\ offsets[key] = reply
        /\ \A k \in DOMAIN s.offsets : k # key => offsets[k] = s.offsets[k]
    <3>1. PICK map, value : map = s.offsets /\ value = reply
      OBVIOUS
    <3>2. map \in Partial(K, Int) /\ key \in K /\ value \in Int /\ offsets = SC!With(map, key, value)
      BY <1>1, <1>2, <1>4, <2>5, <3>1
    <3>3. /\ offsets \in Partial(K, Int) /\ DOMAIN offsets = DOMAIN map \cup {key}
          /\ offsets[key] = value
          /\ \A k \in DOMAIN map : k # key => offsets[k] = map[k]
      BY <3>2, OffsetKept
    <3> QED
      BY <3>1, <3>3
  <2>9. OffsetsAreRight(offsets, s.ready)
    <3> SUFFICES ASSUME NEW f \in DOMAIN offsets, offsets[f] > 0
                 PROVE  s.ready /\ Exists(f[1], f[2])
                        /\ offsets[f] = SC!AsInt16(Declared[f[1]][f[2]])
      BY DEF OffsetsAreRight
    <3>1. CASE f = key
      <4>1. reply > 0 /\ f[1] = class /\ f[2] = field
        BY <1>2, <2>8, <3>1
      <4> QED
        BY <1>2, <1>4, <1>10, <2>8, <3>1, <4>1 DEF Reply
    <3>2. CASE f # key
      BY <1>1, <2>8, <3>2 DEF OffsetsAreRight
    <3> QED
      BY <3>1, <3>2
  <2>10. t \in SchemaStates(C, K)
    BY <1>1, <1>5, <2>6, <2>7, <2>8, <2>9 DEF SchemaStates
  <2>11. t.ready = (s.ready \/ e[1] = "Ready")
    BY <1>1, <1>10, <2>6
  <2> QED
    BY <1>3, <1>4, <2>6, <2>10, <2>11
<1> QED
  BY <1>8, <1>9, <1>10

\* The calls are asked of the classes and fields that they name.
ClassesOf(events) == {events[i][2] : i \in DOMAIN events}
FieldsOf(events) == {<<events[i][2], events[i][3]>> : i \in DOMAIN events}

LEMMA AskedSteps ==
  ASSUME NEW events, IsFieldEvents(events), NEW k, k \in DOMAIN events,
         NEW s, s \in SchemaStates(ClassesOf(events), FieldsOf(events))
  PROVE  /\ SC!Step(s, Declared, events[k]) \in SchemaStates(ClassesOf(events), FieldsOf(events))
         /\ SC!Step(s, Declared, events[k]).ready = (s.ready \/ events[k][1] = "Ready")
         /\ SC!Step(s, Declared, events[k]).answers = Append(s.answers, Reply(s, events[k]))
<1>1. PICK C, K, e : C = ClassesOf(events) /\ K = FieldsOf(events) /\ e = events[k]
  OBVIOUS
<1>2. e[1] \in {"Ready", "Access", "Look"} /\ s \in SchemaStates(C, K) /\ e[2] \in C
  BY <1>1 DEF IsFieldEvents, ClassesOf
<1>3. PICK key \in K : key = <<e[2], e[3]>>
  BY <1>1 DEF FieldsOf
<1>4. /\ SC!Step(s, Declared, e) \in SchemaStates(C, K)
      /\ SC!Step(s, Declared, e).ready = (s.ready \/ e[1] = "Ready")
      /\ SC!Step(s, Declared, e).answers = Append(s.answers, Reply(s, e))
  BY <1>2, <1>3, SchemaSteps
<1> QED
  BY <1>1, <1>4

LEMMA AskedExists ==
  ASSUME NEW events, IsFieldEvents(events), NEW n \in Nat, DOMAIN events = 1 .. n,
         NEW S, S = SchemaStates(ClassesOf(events), FieldsOf(events))
  PROVE  /\ Asked(events)[{}] = SC!Start /\ SC!Start \in S
         /\ \A k \in 1 .. n :
              Asked(events)[1 .. k] = SC!Step(Asked(events)[1 .. k - 1], Declared, events[k])
<1>1. \A k \in 1 .. n, s \in S : SC!Step(s, Declared, events[k]) \in S
  BY AskedSteps
<1>2. SC!Start \in S
  <2>1. PICK C, K : C = ClassesOf(events) /\ K = FieldsOf(events)
    OBVIOUS
  <2>2. PICK cache, offsets : cache = [c \in {} |-> <<>>] /\ offsets = [f \in {} |-> 0]
    OBVIOUS
  <2>3. cache \in Partial(C, CachedFields(C)) /\ offsets \in Partial(K, Int)
    <3>1. /\ cache = [c \in DOMAIN cache |-> cache[c]] /\ DOMAIN cache \subseteq C
          /\ \A c \in DOMAIN cache : cache[c] \in CachedFields(C)
      BY <2>2
    <3>2. /\ offsets = [f \in DOMAIN offsets |-> offsets[f]] /\ DOMAIN offsets \subseteq K
          /\ \A f \in DOMAIN offsets : offsets[f] \in Int
      BY <2>2
    <3> QED
      BY <3>1, <3>2, PartialIs
  <2>4. PICK s : s = SC!Start
    OBVIOUS
  <2>5. s = [ready |-> FALSE, cache |-> cache, offsets |-> offsets, answers |-> <<>>]
    BY <2>2, <2>4 DEF SC!Start
  <2>6. CacheIsRight(s.cache, s.ready) /\ OffsetsAreRight(s.offsets, s.ready)
    BY <2>2, <2>5 DEF CacheIsRight, OffsetsAreRight
  <2>7. <<>> \in Seq(Int) /\ FALSE \in BOOLEAN
    OBVIOUS
  <2>8. s \in SchemaStates(C, K)
    BY <2>3, <2>5, <2>6, <2>7 DEF SchemaStates
  <2> QED
    BY <2>1, <2>4, <2>8
<1> DEFINE F == [k \in 1 .. n |-> [x \in S |-> SC!Step(x, Declared, events[k])]]
           g == Asked(events)
           Body(h) == [s \in SUBSET (1 .. n) |->
                         IF s = {} THEN SC!Start
                         ELSE SC!Step(h[s \ {Top(s)}], Declared, events[Top(s)])]
<1>3. F \in [1 .. n -> [S -> S]]
  BY <1>1
<1>4. PICK h \in [SUBSET (1 .. n) -> S] : Folded(h, n, SC!Start, F)
  <2> HIDE DEF F
  <2> QED
    BY <1>2, <1>3, Iterates
<1>5. h = Body(h)
  <2>1. \A s \in SUBSET (1 .. n) : s # {} => Top(s) \in 1 .. n /\ s \ {Top(s)} \in SUBSET (1 .. n)
    BY LastIsOne
  <2>2. \A s \in SUBSET (1 .. n) : s # {} =>
          F[Top(s)][h[s \ {Top(s)}]] = SC!Step(h[s \ {Top(s)}], Declared, events[Top(s)])
    BY <2>1
  <2> HIDE DEF F
  <2> QED
    BY <1>4, <2>2 DEF Folded
<1>6. g = Body(g)
  <2>1. g = CHOOSE f : f = Body(f)
    BY DEF Asked
  <2> HIDE DEF Body, g
  <2> QED
    BY <1>5, <2>1
<1> HIDE DEF g
<1>7. g[{}] = SC!Start
  BY <1>6
<1>8. ASSUME NEW k \in 1 .. n PROVE g[1 .. k] = SC!Step(g[1 .. k - 1], Declared, events[k])
  <2>1. /\ Top(1 .. k) = k /\ (1 .. k) \ {k} = 1 .. k - 1 /\ 1 .. k # {}
        /\ 1 .. k \in SUBSET (1 .. n)
    BY Prefixes
  <2>2. \A t \in SUBSET (1 .. n) : t # {} =>
          g[t] = SC!Step(g[t \ {Top(t)}], Declared, events[Top(t)])
    BY <1>6
  <2> QED
    BY <2>1, <2>2
<1> QED
  BY <1>2, <1>7, <1>8 DEF g

\* What is answered to the call i.
ReplyTo(events, i) ==
  IF events[i][1] = "Ready" THEN 0
  ELSE IF events[i][1] = "Look"
       THEN IF Found(events, i) THEN Declared[events[i][2]][events[i][3]] ELSE -1
       ELSE IF Found(events, i) THEN SC!AsInt16(Declared[events[i][2]][events[i][3]]) ELSE 0

\* After k calls, each is answered by what was there when it was made.
Replied(s, events, k) ==
  /\ s.ready <=> \E j \in 1 .. k : events[j][1] = "Ready"
  /\ s.answers \in Seq(Int) /\ Len(s.answers) = k
  /\ \A i \in 1 .. k : s.answers[i] = ReplyTo(events, i)

\* Every field that exists is found from the moment the schema system is ready,
\* whatever was asked before, and reads as unresolved until then (schema.h:118-119).
THEOREM FieldsCorrect ==
  \A events : IsFieldEvents(events) => SC!FieldsAreFound(Declared, events)
<1> SUFFICES ASSUME NEW events, IsFieldEvents(events)
             PROVE  SC!FieldsAreFound(Declared, events)
  OBVIOUS
<1>1. PICK n \in Nat : DOMAIN events = 1 .. n
  BY DEF IsFieldEvents
<1>2. PICK S : S = SchemaStates(ClassesOf(events), FieldsOf(events))
  OBVIOUS
<1> DEFINE g == Asked(events)
           P == {k \in 0 .. n : g[1 .. k] \in S /\ Replied(g[1 .. k], events, k)}
<1>3. /\ g[{}] = SC!Start /\ SC!Start \in S
      /\ \A k \in 1 .. n : g[1 .. k] = SC!Step(g[1 .. k - 1], Declared, events[k])
      /\ \A k \in 1 .. n, s \in S :
           /\ SC!Step(s, Declared, events[k]) \in S
           /\ SC!Step(s, Declared, events[k]).ready = (s.ready \/ events[k][1] = "Ready")
           /\ SC!Step(s, Declared, events[k]).answers = Append(s.answers, Reply(s, events[k]))
  <2>1. Asked(events)[{}] = SC!Start /\ SC!Start \in S
    BY <1>1, <1>2, AskedExists
  <2>2. \A k \in 1 .. n :
          Asked(events)[1 .. k] = SC!Step(Asked(events)[1 .. k - 1], Declared, events[k])
    BY <1>1, <1>2, AskedExists
  <2>3. ASSUME NEW k \in 1 .. n, NEW s \in S
        PROVE  /\ SC!Step(s, Declared, events[k]) \in S
               /\ SC!Step(s, Declared, events[k]).ready = (s.ready \/ events[k][1] = "Ready")
               /\ SC!Step(s, Declared, events[k]).answers = Append(s.answers, Reply(s, events[k]))
    BY <1>1, <1>2, AskedSteps
  <2> QED
    BY <2>1, <2>2, <2>3
<1> HIDE DEF g
<1>4. 0 \in P
  <2>1. 1 .. 0 = {}
    OBVIOUS
  <2>2. Replied(SC!Start, events, 0)
    <3>1. ~SC!Start.ready /\ SC!Start.answers = <<>>
      BY DEF SC!Start
    <3>2. <<>> \in Seq(Int) /\ Len(<<>>) = 0
      OBVIOUS
    <3> QED
      BY <2>1, <3>1, <3>2 DEF Replied
  <2>3. g[1 .. 0] \in S /\ Replied(g[1 .. 0], events, 0)
    BY <1>3, <2>1, <2>2
  <2> QED
    BY <2>3
<1>5. ASSUME NEW k \in 0 .. n - 1, k \in P PROVE k + 1 \in P
  <2>1. k + 1 \in 1 .. n /\ k + 1 - 1 = k
    OBVIOUS
  <2>2. PICK s \in S : s = g[1 .. k] /\ Replied(s, events, k)
    BY <1>5
  <2>3. PICK e : e = events[k + 1] /\ e[1] \in {"Ready", "Access", "Look"}
    BY <1>1, <2>1 DEF IsFieldEvents
  <2>a. /\ g[1 .. k + 1] = SC!Step(s, Declared, e)
        /\ SC!Step(s, Declared, e) \in S
        /\ SC!Step(s, Declared, e).ready = (s.ready \/ e[1] = "Ready")
        /\ SC!Step(s, Declared, e).answers = Append(s.answers, Reply(s, e))
    <3>1. g[1 .. k + 1] = SC!Step(s, Declared, e)
      BY <1>3, <2>1, <2>2, <2>3
    <3>2. /\ SC!Step(s, Declared, events[k + 1]) \in S
          /\ SC!Step(s, Declared, events[k + 1]).ready = (s.ready \/ events[k + 1][1] = "Ready")
          /\ SC!Step(s, Declared, events[k + 1]).answers
               = Append(s.answers, Reply(s, events[k + 1]))
      BY <1>3, <2>1
    <3> QED
      BY <2>3, <3>1, <3>2
  <2>4. PICK t \in S : t = g[1 .. k + 1] /\ t.ready = (s.ready \/ e[1] = "Ready")
                       /\ t.answers = Append(s.answers, Reply(s, e))
    BY <2>a
  <2>5. PICK reply : reply = Reply(s, e)
    OBVIOUS
  <2>6. reply = ReplyTo(events, k + 1) /\ reply \in Int
    <3>1. s.ready <=> \E j \in 1 .. k + 1 - 1 : events[j][1] = "Ready"
      BY <2>1, <2>2 DEF Replied
    <3>2. reply = ReplyTo(events, k + 1)
      BY <2>3, <2>5, <3>1 DEF Reply, ReplyTo, Found
    <3>3. reply \in Int
      BY <2>3, <2>5, FieldsHaveOffsets DEF Reply
    <3> QED
      BY <3>2, <3>3
  <2>7. s.answers \in Seq(Int) /\ Len(s.answers) = k
    BY <2>2 DEF Replied
  <2>8. /\ t.answers \in Seq(Int) /\ Len(t.answers) = k + 1
        /\ t.answers[k + 1] = reply /\ \A i \in 1 .. k : t.answers[i] = s.answers[i]
    BY <2>4, <2>5, <2>6, <2>7
  <2>9. t.ready <=> \E j \in 1 .. k + 1 : events[j][1] = "Ready"
    <3>1. s.ready <=> \E j \in 1 .. k : events[j][1] = "Ready"
      BY <2>2 DEF Replied
    <3>2. (\E j \in 1 .. k + 1 : events[j][1] = "Ready")
            <=> (\E j \in 1 .. k : events[j][1] = "Ready") \/ e[1] = "Ready"
      BY <2>3
    <3>3. t.ready <=> s.ready \/ e[1] = "Ready"
      BY <2>4
    <3> QED
      BY <3>1, <3>2, <3>3
  <2>10. \A i \in 1 .. k + 1 : t.answers[i] = ReplyTo(events, i)
    <3> TAKE i \in 1 .. k + 1
    <3>1. CASE i \in 1 .. k
      BY <2>2, <2>8, <3>1 DEF Replied
    <3>2. CASE i = k + 1
      BY <2>6, <2>8, <3>2
    <3> QED
      BY <3>1, <3>2
  <2>11. Replied(t, events, k + 1)
    BY <2>8, <2>9, <2>10 DEF Replied
  <2> QED
    BY <2>1, <2>4, <2>11
<1> HIDE DEF P
<1>6. \A k \in 0 .. n : k \in P
  BY <1>4, <1>5, Induct
<1>7. n \in P
  BY <1>6
<1>8. PICK answers : answers = g[1 .. n].answers /\ \A i \in 1 .. n : answers[i] = ReplyTo(events, i)
  BY <1>7 DEF P, Replied
<1>9. Answered(answers, events)
  BY <1>1, <1>8 DEF Answered, ReplyTo
<1> QED
  BY <1>1, <1>8, <1>9, AskedIsFolded DEF g

-----------------------------------------------------------------------------
(* MapList *)

\* A text whose characters have codes.
Coded(a) == Len(a) \in Nat /\ \A i \in 1 .. Len(a) : ML!Code(a[i]) \in Int
Equal(a, b) == Len(a) = Len(b) /\ \A i \in 1 .. Len(a) : ML!Code(a[i]) = ML!Code(b[i])
\* Where a comes before b.
Before(a, b, i) ==
  /\ i \in 1 .. Len(b)
  /\ \A j \in 1 .. i - 1 : j <= Len(a) /\ ML!Code(a[j]) = ML!Code(b[j])
  /\ i > Len(a) \/ ML!Code(a[i]) < ML!Code(b[i])

\* One text is less than another where a place says so.
LEMMA LessIsBefore == \A a, b : ML!Less(a, b) <=> \E i : Before(a, b, i)
  BY DEF ML!Less, Before

\* Of two texts at most one is less than the other,
LEMMA LessIsAsymmetric ==
  ASSUME NEW a, NEW b, Coded(a), Coded(b), ML!Less(a, b), ML!Less(b, a)
  PROVE  FALSE
<1>1. PICK i : Before(a, b, i)
  BY LessIsBefore
<1>2. PICK k : Before(b, a, k)
  BY LessIsBefore
<1>3. CASE i < k
  BY <1>1, <1>2, <1>3 DEF Before, Coded
<1>4. CASE k < i
  BY <1>1, <1>2, <1>4 DEF Before, Coded
<1>5. CASE i = k
  BY <1>1, <1>2, <1>5 DEF Before, Coded
<1> QED
  BY <1>1, <1>2, <1>3, <1>4, <1>5 DEF Before, Coded

\* less than a lesser one is less,
LEMMA LessIsTransitive ==
  ASSUME NEW a, NEW b, NEW c, Coded(a), Coded(b), Coded(c), ML!Less(a, b), ML!Less(b, c)
  PROVE  ML!Less(a, c)
<1>1. PICK i : Before(a, b, i)
  BY LessIsBefore
<1>2. PICK k : Before(b, c, k)
  BY LessIsBefore
<1>3. CASE i < k
  <2>1. Before(a, c, i)
    BY <1>1, <1>2, <1>3 DEF Before, Coded
  <2> QED
    BY <2>1, LessIsBefore
<1>4. CASE k <= i
  <2>1. Before(a, c, k)
    BY <1>1, <1>2, <1>4 DEF Before, Coded
  <2> QED
    BY <2>1, LessIsBefore
<1> QED
  BY <1>1, <1>2, <1>3, <1>4 DEF Before, Coded

\* texts that are equal but for case are so for what is less or greater too,
LEMMA LessOfEqual ==
  ASSUME NEW a, NEW b, NEW c, Coded(a), Coded(b), Coded(c)
  PROVE  /\ ML!Less(a, b) /\ Equal(b, c) => ML!Less(a, c)
         /\ Equal(a, b) /\ ML!Less(b, c) => ML!Less(a, c)
<1>1. ASSUME ML!Less(a, b), Equal(b, c) PROVE ML!Less(a, c)
  <2>1. PICK i : Before(a, b, i)
    BY <1>1, LessIsBefore
  <2>2. Before(a, c, i)
    BY <1>1, <2>1 DEF Before, Equal, Coded
  <2> QED
    BY <2>2, LessIsBefore
<1>2. ASSUME ML!Less(b, c), Equal(a, b) PROVE ML!Less(a, c)
  <2>1. PICK i : Before(b, c, i)
    BY <1>2, LessIsBefore
  <2>2. Before(a, c, i)
    <3>1. Len(a) = Len(b) /\ \A j \in 1 .. Len(b) : ML!Code(a[j]) = ML!Code(b[j])
      BY <1>2 DEF Equal
    <3>2. \A j \in 1 .. i - 1 : j <= Len(a) /\ ML!Code(a[j]) = ML!Code(c[j])
      BY <2>1, <3>1 DEF Before, Coded
    <3>3. i > Len(a) \/ ML!Code(a[i]) < ML!Code(c[i])
      <4>1. CASE i > Len(b)
        BY <3>1, <4>1
      <4>2. CASE ~(i > Len(b))
        BY <2>1, <3>1, <4>2 DEF Before, Coded
      <4> QED
        BY <4>1, <4>2
    <3> QED
      BY <2>1, <3>2, <3>3 DEF Before
  <2> QED
    BY <2>2, LessIsBefore
<1> QED
  BY <1>1, <1>2

\* and of two texts that differ one is less.
LEMMA LessOrEqual ==
  ASSUME NEW a, NEW b, Coded(a), Coded(b)
  PROVE  \/ ML!Less(a, b) \/ ML!Less(b, a) \/ Equal(a, b)
<1> SUFFICES ASSUME ~Equal(a, b) PROVE ML!Less(a, b) \/ ML!Less(b, a)
  OBVIOUS
<1> DEFINE Differ(i) == i > Len(a) \/ i > Len(b) \/ ML!Code(a[i]) # ML!Code(b[i])
           S == {i \in Nat : i >= 1 /\ (i <= Len(a) \/ i <= Len(b)) /\ Differ(i)}
<1>1. S # {}
  <2>1. CASE Len(a) < Len(b)
    <3>1. Len(b) \in S
      BY <2>1 DEF Coded
    <3> QED
      BY <3>1
  <2>2. CASE Len(b) < Len(a)
    <3>1. Len(a) \in S
      BY <2>2 DEF Coded
    <3> QED
      BY <3>1
  <2>3. CASE Len(a) = Len(b)
    BY <2>3 DEF Coded, Equal
  <2> QED
    BY <2>1, <2>2, <2>3 DEF Coded
<1>2. PICK i \in S : \A k \in S : i <= k
  <2>1. S \in SUBSET Nat
    OBVIOUS
  <2> HIDE DEF S
  <2> QED
    BY <1>1, <2>1, LeastOf
<1>3. \A j \in 1 .. i - 1 : j <= Len(a) /\ j <= Len(b) /\ ML!Code(a[j]) = ML!Code(b[j])
  <2> TAKE j \in 1 .. i - 1
  <2>1. j \notin S /\ j \in Nat /\ j >= 1 /\ (j <= Len(a) \/ j <= Len(b))
    BY <1>2 DEF Coded
  <2> QED
    BY <2>1 DEF Coded
<1>4. Before(a, b, i) \/ Before(b, a, i)
  BY <1>2, <1>3 DEF Before, Coded
<1> QED
  BY <1>4, LessIsBefore

\* No text is less than one that is equal but for case.
LEMMA EqualIsNotLess ==
  ASSUME NEW a, NEW b, Coded(a), Coded(b), Equal(a, b)
  PROVE  ~ML!Less(a, b) /\ ~ML!Less(b, a)
  BY DEF Coded, Equal, ML!Less

\* A name: a sequence of characters of the alphabet.
Alphabet == ML!Others \o Letters
IsName(a) ==
  /\ Len(a) \in Nat /\ DOMAIN a = 1 .. Len(a)
  /\ \A i \in 1 .. Len(a) : \E k \in DOMAIN Alphabet : Alphabet[k] = ML!ToLower(a[i])

\* The code of a character of the alphabet tells it up to its case.
LEMMA CodeOf ==
  ASSUME NEW Chars, Letters \in Seq(Chars), NEW c, \E k \in DOMAIN Alphabet : Alphabet[k] = ML!ToLower(c)
  PROVE  ML!Code(c) \in Int /\ Alphabet[ML!Code(c)] = ML!ToLower(c)
<1>1. DOMAIN Alphabet = 1 .. Len(ML!Others) + Len(Letters) /\ Len(ML!Others) \in Nat /\ Len(Letters) \in Nat
  <2>1. \A u, v, x, y, z : <<u, v, x, y, z>> \in Seq({u, v, x, y, z})
    OBVIOUS
  <2>2. PICK S : ML!Others \in Seq(S)
    BY <2>1 DEF ML!Others
  <2>3. ML!Others \in Seq(S \cup Chars) /\ Letters \in Seq(S \cup Chars)
    BY <2>2, SeqMonotonic
  <2> QED
    BY <2>3 DEF Alphabet
<1>2. \E i \in 1 .. Len(ML!Others) + Len(Letters) : Alphabet[i] = ML!ToLower(c)
  BY <1>1
<1>3. /\ ML!Code(c) \in 1 .. Len(ML!Others) + Len(Letters)
      /\ Alphabet[ML!Code(c)] = ML!ToLower(c)
  BY <1>2, Zenon DEF ML!Code, Alphabet
<1> QED
  BY <1>1, <1>3

\* Only _ is a _.
LEMMA Underscore ==
  ASSUME NEW c, NEW d, ML!ToLower(c) = ML!ToLower(d)
  PROVE  /\ ML!IsAlnum(c) <=> ML!IsAlnum(d)
         /\ c = "_" <=> d = "_"
<1>1. \A e : ML!ToLower(e) = "_" <=> e = "_"
  <2>1. /\ DOMAIN ML!LowerCase = {"A", "B", "K"}
        /\ ML!LowerCase["A"] = "a" /\ ML!LowerCase["B"] = "b" /\ ML!LowerCase["K"] = "k"
    BY DEF ML!LowerCase
  <2> TAKE e
  <2>2. CASE e \in {"A", "B", "K"}
    BY <2>1, <2>2 DEF ML!ToLower
  <2>3. CASE e \notin {"A", "B", "K"}
    BY <2>1, <2>3 DEF ML!ToLower
  <2> QED
    BY <2>2, <2>3
<1> QED
  BY <1>1 DEF ML!IsAlnum

\* A name's prefix is part of the name.
LEMMA PrefixOf ==
  ASSUME MaxPrefix \in Nat, NEW a, IsName(a)
  PROVE  ML!MapPrefixLength(a) \in 0 .. Len(a)
<1> DEFINE stops == {i \in DOMAIN a : i <= MaxPrefix + 1 /\ ~ML!IsAlnum(a[i])}
<1>1. CASE stops # {}
  <2>1. ML!Min(stops) \in stops
    <3>1. stops \in SUBSET Nat
      BY DEF IsName
    <3>2. PICK x \in stops : \A y \in stops : x <= y
      BY <1>1, <3>1, LeastOf
    <3> HIDE DEF stops
    <3> QED
      BY <3>2 DEF ML!Min
  <2>2. ML!MapPrefixLength(a) \in {0, ML!Min(stops)}
    BY DEF ML!MapPrefixLength
  <2> QED
    BY <2>1, <2>2 DEF IsName
<1>2. CASE stops = {}
  <2>1. ML!MapPrefixLength(a) = 0
    BY <1>2 DEF ML!MapPrefixLength
  <2> QED
    BY <2>1 DEF IsName
<1> QED
  BY <1>1, <1>2

\* A name's key, its prefix left out.
LEMMA KeyOf ==
  ASSUME MaxPrefix \in Nat, NEW a, IsName(a)
  PROVE  LET p == ML!MapPrefixLength(a) IN
         /\ p \in 0 .. Len(a)
         /\ Len(ML!Key(a)) = Len(a) - p
         /\ \A i \in 1 .. Len(a) - p : ML!Key(a)[i] = a[i + p]
<1>1. PICK p : p = ML!MapPrefixLength(a)
  OBVIOUS
<1>2. p \in 0 .. Len(a)
  BY <1>1, PrefixOf
<1>3. ML!Key(a) = SubSeq(a, p + 1, Len(a))
  BY <1>1 DEF ML!Key
<1>4. /\ Len(SubSeq(a, p + 1, Len(a))) = Len(a) - p
      /\ \A i \in 1 .. Len(a) - p : SubSeq(a, p + 1, Len(a))[i] = a[i + p]
  <2>1. Len(a) \in Nat
    BY DEF IsName
  <2> DEFINE S == {a[i] : i \in 1 .. Len(a)}
  <2>2. p + 1 \in Int /\ Len(a) \in Int /\ \A i \in p + 1 .. Len(a) : a[i] \in S
    BY <1>2, <2>1
  <2> HIDE DEF S
  <2>3. /\ Len(SubSeq(a, p + 1, Len(a))) = IF p + 1 <= Len(a) THEN Len(a) - (p + 1) + 1 ELSE 0
        /\ \A i \in 1 .. Len(a) - (p + 1) + 1 : SubSeq(a, p + 1, Len(a))[i] = a[p + 1 + i - 1]
    BY <2>2, SubSeqProperties
  <2> QED
    BY <1>2, <2>1, <2>3
<1> QED
  BY <1>1, <1>2, <1>3, <1>4

\* A name and its key have codes.
LEMMA NamesAreCoded ==
  ASSUME NEW Chars, Letters \in Seq(Chars), MaxPrefix \in Nat, NEW a, IsName(a)
  PROVE  Coded(a) /\ Coded(ML!Key(a))
<1>1. Coded(a)
  BY CodeOf DEF IsName, Coded
<1>2. PICK p \in 0 .. Len(a) : /\ Len(ML!Key(a)) = Len(a) - p
                               /\ \A i \in 1 .. Len(a) - p : ML!Key(a)[i] = a[i + p]
  BY KeyOf
<1>3. Coded(ML!Key(a))
  BY <1>1, <1>2 DEF Coded
<1> QED
  BY <1>1, <1>3

\* Names that are equal but for case have keys that are.
LEMMA EqualKeys ==
  ASSUME NEW Chars, Letters \in Seq(Chars), MaxPrefix \in Nat, NEW a, NEW b, IsName(a), IsName(b), Equal(a, b)
  PROVE  Equal(ML!Key(a), ML!Key(b))
<1>1. \A i \in 1 .. Len(a) : /\ ML!IsAlnum(a[i]) <=> ML!IsAlnum(b[i])
                             /\ a[i] = "_" <=> b[i] = "_"
  <2> TAKE i \in 1 .. Len(a)
  <2>1. ML!ToLower(a[i]) = ML!ToLower(b[i])
    BY CodeOf DEF IsName, Equal
  <2> QED
    BY <2>1, Underscore
<1>2. ML!MapPrefixLength(a) = ML!MapPrefixLength(b)
  <2> DEFINE stopsOf(n) == {i \in DOMAIN n : i <= MaxPrefix + 1 /\ ~ML!IsAlnum(n[i])}
  <2>1. stopsOf(a) = stopsOf(b)
    BY <1>1 DEF IsName, Equal
  <2>2. \A n : ML!MapPrefixLength(n) =
          IF stopsOf(n) /= {} /\ ML!Min(stopsOf(n)) > 1 /\ n[ML!Min(stopsOf(n))] = "_"
          THEN ML!Min(stopsOf(n)) ELSE 0
    BY DEF ML!MapPrefixLength
  <2>3. PICK stops : stops = stopsOf(a) /\ stops = stopsOf(b)
    BY <2>1
  <2>4. stops # {} => ML!Min(stops) \in 1 .. Len(a)
    <3>1. stops \in SUBSET Nat /\ stops \subseteq 1 .. Len(a)
      BY <2>3 DEF IsName
    <3> HIDE DEF stopsOf
    <3>2. ASSUME stops # {} PROVE ML!Min(stops) \in stops
      <4>1. PICK x \in stops : \A y \in stops : x <= y
        BY <3>1, <3>2, LeastOf
      <4> QED
        BY <4>1 DEF ML!Min
    <3> QED
      BY <3>1, <3>2
  <2> HIDE DEF stopsOf
  <2>5. \A n \in {a, b} : ML!MapPrefixLength(n) =
          IF stops /= {} /\ ML!Min(stops) > 1 /\ n[ML!Min(stops)] = "_" THEN ML!Min(stops) ELSE 0
    BY <2>2, <2>3, Zenon
  <2>6. stops # {} => (a[ML!Min(stops)] = "_" <=> b[ML!Min(stops)] = "_")
    BY <1>1, <2>4
  <2>7. /\ ML!MapPrefixLength(a) = IF stops /= {} /\ ML!Min(stops) > 1 /\ a[ML!Min(stops)] = "_"
                                    THEN ML!Min(stops) ELSE 0
        /\ ML!MapPrefixLength(b) = IF stops /= {} /\ ML!Min(stops) > 1 /\ b[ML!Min(stops)] = "_"
                                    THEN ML!Min(stops) ELSE 0
    BY <2>5, Zenon
  <2>8. CASE stops # {}
    <3>1. CASE a[ML!Min(stops)] = "_" /\ b[ML!Min(stops)] = "_"
      <4>1. CASE ML!Min(stops) > 1
        BY <2>7, <2>8, <3>1, <4>1
      <4>2. CASE ~(ML!Min(stops) > 1)
        BY <2>7, <4>2
      <4> QED
        BY <4>1, <4>2
    <3>2. CASE a[ML!Min(stops)] # "_" /\ b[ML!Min(stops)] # "_"
      BY <2>7, <3>2
    <3> QED
      BY <2>6, <2>8, <3>1, <3>2
  <2>9. CASE stops = {}
    BY <2>7, <2>9, Zenon
  <2> QED
    BY <2>8, <2>9
<1>3. PICK p : p = ML!MapPrefixLength(a) /\ p = ML!MapPrefixLength(b)
  BY <1>2
<1>4. /\ p \in 0 .. Len(a)
      /\ Len(ML!Key(a)) = Len(a) - p /\ \A i \in 1 .. Len(a) - p : ML!Key(a)[i] = a[i + p]
      /\ Len(ML!Key(b)) = Len(b) - p /\ \A i \in 1 .. Len(b) - p : ML!Key(b)[i] = b[i + p]
  BY <1>3, KeyOf
<1> QED
  BY <1>4 DEF Equal, IsName

\* The order of map names is one that std::sort may be given, for names of any length
\* over any alphabet: no name is before itself, "before" and "neither before nor
\* after" are transitive, and names that differ in more than case are ordered
\* (maplist.h:50-72).
THEOREM MapOrderCorrect ==
  ASSUME NEW Chars, Letters \in Seq(Chars), MaxPrefix \in Nat
  PROVE  \A names : (\A a \in names : IsName(a)) => ML!IsAnOrder(names)
<1> SUFFICES ASSUME NEW names, \A a \in names : IsName(a) PROVE ML!IsAnOrder(names)
  OBVIOUS
<1> DEFINE K(a) == ML!Key(a)
<1>1. \A a \in names : Coded(a) /\ Coded(K(a))
  BY NamesAreCoded
<1>2. \A a, b \in names : Equal(a, b) => Equal(K(a), K(b))
  BY EqualKeys
<1>3. \A a, b \in names : ML!MapNameLess(a, b) <=>
        ML!Less(K(a), K(b)) \/ (~ML!Less(K(b), K(a)) /\ ML!Less(a, b))
  BY DEF ML!MapNameLess
<1> HIDE DEF K
<1>4. ASSUME NEW a \in names, NEW b \in names
      PROVE  ~(ML!MapNameLess(a, b) /\ ML!MapNameLess(b, a))
  BY <1>1, <1>3, LessIsAsymmetric
<1>5. ASSUME NEW a \in names, NEW b \in names
      PROVE  ~ML!MapNameLess(a, b) /\ ~ML!MapNameLess(b, a) <=> Equal(a, b)
  <2>1. Equal(a, b) => ~ML!MapNameLess(a, b) /\ ~ML!MapNameLess(b, a)
    BY <1>1, <1>2, <1>3, EqualIsNotLess
  <2>2. ~ML!MapNameLess(a, b) /\ ~ML!MapNameLess(b, a) => Equal(a, b)
    BY <1>1, <1>3, LessOrEqual
  <2> QED
    BY <2>1, <2>2
<1>6. ASSUME NEW a \in names, NEW b \in names, NEW c \in names, ML!MapNameLess(a, b),
             ML!MapNameLess(b, c) \/ Equal(b, c)
      PROVE  ML!MapNameLess(a, c)
  <2>c. Coded(a) /\ Coded(b) /\ Coded(c) /\ Coded(K(a)) /\ Coded(K(b)) /\ Coded(K(c))
    BY <1>1
  \* A key that is not after another is before it or the same.
  <2>1. (ML!Less(K(a), K(b)) \/ Equal(K(a), K(b))) /\ (ML!Less(K(b), K(c)) \/ Equal(K(b), K(c)))
    BY <1>2, <1>3, <1>6, <2>c, LessOrEqual
  <2>2. CASE ML!Less(K(a), K(b)) \/ ML!Less(K(b), K(c))
    <3>1. ML!Less(K(a), K(c))
      BY <2>1, <2>2, <2>c, LessIsTransitive, LessOfEqual
    <3> QED
      BY <1>3, <3>1
  <2>3. CASE ~ML!Less(K(a), K(b)) /\ ~ML!Less(K(b), K(c))
    <3>1. Equal(K(a), K(c))
      BY <2>1, <2>3, <2>c DEF Equal, Coded
    <3>2. ~ML!Less(K(c), K(a))
      BY <2>c, <3>1, EqualIsNotLess
    <3>3. ML!Less(a, b) /\ (ML!Less(b, c) \/ Equal(b, c))
      BY <1>3, <1>6, <2>3
    <3>4. ML!Less(a, c)
      BY <2>c, <3>3, LessIsTransitive, LessOfEqual
    <3> QED
      BY <1>3, <3>2, <3>4
  <2> QED
    BY <2>2, <2>3
<1>7. \A a, b \in names : Equal(a, b) <=>
        Len(a) = Len(b) /\ \A i \in DOMAIN a : ML!Code(a[i]) = ML!Code(b[i])
  BY DEF Equal, IsName
<1> QED
  BY <1>4, <1>5, <1>6, <1>7 DEF ML!IsAnOrder

-----------------------------------------------------------------------------
(* Phrases *)

\* Where Past stops.
LEMMA PastStops ==
  ASSUME NEW text, NEW n \in Nat, Len(text) = n, NEW at \in 1 .. n + 1, NEW set,
         NEW p, p = PH!Past(text, at, set)
  PROVE  /\ p \in at .. n + 1 /\ p \in 1 .. n + 1
         /\ \A j \in at .. p - 1 : text[j] \in set
         /\ p <= n => text[p] \notin set
<1> DEFINE S == {i \in at .. n : text[i] \notin set} \cup {n + 1}
<1>1. PICK x \in S : \A y \in S : x <= y
  <2>1. S \in SUBSET Nat /\ S # {}
    OBVIOUS
  <2> HIDE DEF S
  <2> QED
    BY <2>1, LeastOf
<1>2. p = CHOOSE y \in S : \A z \in S : y <= z
  BY DEF PH!Past, PH!Min
<1>3. p \in S /\ \A y \in S : p <= y
  <2> HIDE DEF S
  <2> QED
    BY <1>1, <1>2
<1> QED
  BY <1>3

\* It stops at the first place that is not in the set.
LEMMA PastIs ==
  ASSUME NEW text, NEW n \in Nat, Len(text) = n, NEW at \in 1 .. n + 1, NEW set,
         NEW q \in at .. n + 1, \A j \in at .. q - 1 : text[j] \in set, q <= n => text[q] \notin set
  PROVE  PH!Past(text, at, set) = q
<1>1. PICK p : p = PH!Past(text, at, set)
  OBVIOUS
<1>2. /\ p \in at .. n + 1
      /\ \A j \in at .. p - 1 : text[j] \in set
      /\ p <= n => text[p] \notin set
  BY <1>1, PastStops
<1>3. ~(p < q)
  BY <1>2
<1>4. ~(q < p)
  BY <1>2
<1> QED
  BY <1>1, <1>2, <1>3, <1>4

LEMMA StarsAre ==
  ASSUME NEW text, NEW from \in Int, NEW to \in Int, NEW C, "*" \in C
  PROVE  PH!Stars(text, from, to) \in Seq(C)
<1> DEFINE S == {j \in from .. to : text[j] = "*"}
<1>1. IsFiniteSet(S) /\ Cardinality(S) \in Nat
  <2>1. IsFiniteSet(from .. to)
    BY FS_Interval
  <2> QED
    BY <2>1, FS_Subset, FS_CardinalityType
<1>2. PH!Stars(text, from, to) = [i \in 1 .. Cardinality(S) |-> "*"]
  BY DEF PH!Stars, PH!Cardinality, Cardinality
<1> HIDE DEF S
<1> QED
  BY <1>1, <1>2

\* A conversion takes texts and goes on behind itself.
LEMMA ConversionFields ==
  ASSUME NEW C, "*" \in C, "?" \in C, NEW text \in Seq(C), NEW n \in Nat, Len(text) = n, NEW i \in 1 .. n
  PROVE  /\ PH!Conversion(text, i).args \in Seq(C)
         /\ PH!Conversion(text, i).next \in i + 1 .. n + 1
<1>1. PICK lengths : lengths = PH!Past(text, i + 1, PH!Flags)
  OBVIOUS
<1>2. lengths \in i + 1 .. n + 1
  <2>1. PICK from \in 1 .. n + 1 : from = i + 1
    OBVIOUS
  <2>2. lengths = PH!Past(text, from, PH!Flags)
    BY <1>1, <2>1
  <2>3. lengths \in from .. n + 1
    BY <2>2, PastStops
  <2> QED
    BY <2>1, <2>3
<1>3. PICK at : at = PH!Past(text, lengths, PH!Lengths)
  OBVIOUS
<1>4. at \in lengths .. n + 1
  <2>1. lengths \in 1 .. n + 1
    BY <1>2
  <2> QED
    BY <1>3, <2>1, PastStops
<1>5. PICK known \in BOOLEAN : known <=> (at <= n /\ text[at] \in PH!Conversions)
  OBVIOUS
<1>6. PICK letter : letter = IF known THEN text[at] ELSE "?"
  OBVIOUS
<1>7. letter \in C
  <2>1. CASE known
    <3>1. at \in 1 .. n
      BY <1>2, <1>4, <1>5, <2>1
    <3>2. text[at] \in C
      BY <3>1
    <3> QED
      BY <1>6, <2>1, <3>2
  <2>2. CASE ~known
    BY <1>6, <2>2
  <2> QED
    BY <2>1, <2>2
<1>8. /\ PH!Conversion(text, i).args
           = PH!Stars(text, i + 1, lengths - 1) \o SubSeq(text, lengths, at - 1) \o <<letter>>
      /\ PH!Conversion(text, i).next = IF known THEN at + 1 ELSE at
  BY <1>1, <1>3, <1>5, <1>6 DEF PH!Conversion
<1>9. PH!Stars(text, i + 1, lengths - 1) \in Seq(C)
  <2>1. PICK from \in Int, to \in Int : from = i + 1 /\ to = lengths - 1
    BY <1>2
  <2> QED
    BY <2>1, StarsAre
<1>10. SubSeq(text, lengths, at - 1) \in Seq(C)
  BY <1>2, <1>4
<1>11. PH!Conversion(text, i).args \in Seq(C)
  BY <1>7, <1>8, <1>9, <1>10
<1> QED
  BY <1>2, <1>4, <1>5, <1>8, <1>11

\* Any step function can be taken back from the end, however far each step goes
\* on: there is a function that the recursion describes.
Descended(f, n, base, G, next) ==
  f = [i \in 1 .. n + 1 |-> IF i > n THEN base ELSE G[i][f[next[i]]]]

LEMMA Descends ==
  ASSUME NEW S, NEW base \in S, NEW n \in Nat, NEW G \in [1 .. n -> [S -> S]],
         NEW next \in [1 .. n -> 1 .. n + 1], \A i \in 1 .. n : next[i] > i
  PROVE  \E f \in [1 .. n + 1 -> S] : Descended(f, n, base, G, next)
<1> DEFINE P == {k \in 0 .. n : \E f \in [n + 1 - k .. n + 1 -> S] :
                    \A i \in n + 1 - k .. n + 1 : f[i] = IF i > n THEN base ELSE G[i][f[next[i]]]}
<1>1. 0 \in P
  <2>1. PICK f \in [{n + 1} -> S] : f = [i \in {n + 1} |-> base]
    OBVIOUS
  <2>2. n + 1 - 0 .. n + 1 = {n + 1} /\ n + 1 > n
    OBVIOUS
  <2>3. \A i \in {n + 1} : f[i] = IF i > n THEN base ELSE G[i][f[next[i]]]
    BY <2>1
  <2> QED
    BY <2>2, <2>3
<1>2. ASSUME NEW k \in 0 .. n - 1, k \in P PROVE k + 1 \in P
  <2>1. PICK f \in [n + 1 - k .. n + 1 -> S] :
          \A i \in n + 1 - k .. n + 1 : f[i] = IF i > n THEN base ELSE G[i][f[next[i]]]
    BY <1>2
  <2>2. PICK m \in 1 .. n : m = n - k
    OBVIOUS
  <2>3. /\ n + 1 - k = m + 1 /\ n + 1 - (k + 1) = m
        /\ m .. n + 1 = {m} \cup (m + 1 .. n + 1) /\ m \notin m + 1 .. n + 1
    BY <2>2
  <2>4. G[m] \in [S -> S] /\ next[m] \in m + 1 .. n + 1
    OBVIOUS
  <2> DEFINE h == [i \in m .. n + 1 |-> IF i = m THEN G[m][f[next[m]]] ELSE f[i]]
  <2>5. f[next[m]] \in S
    BY <2>3, <2>4
  <2>6. h \in [m .. n + 1 -> S]
    BY <2>3, <2>4, <2>5
  <2>7. ASSUME NEW i \in m .. n + 1
        PROVE  h[i] = IF i > n THEN base ELSE G[i][h[next[i]]]
    <3>1. CASE i = m
      BY <2>3, <2>4, <3>1
    <3>2. CASE i # m
      <4>1. i \in m + 1 .. n + 1 /\ h[i] = f[i]
        BY <2>3, <3>2
      <4>2. CASE i > n
        BY <2>1, <2>3, <4>1, <4>2
      <4>3. CASE i <= n
        <5>1. next[i] \in m + 1 .. n + 1 /\ next[i] # m
          BY <4>1, <4>3
        <5>2. h[next[i]] = f[next[i]]
          BY <2>3, <5>1
        <5> QED
          BY <2>1, <2>3, <4>1, <4>3, <5>2
      <4> QED
        BY <4>1, <4>2, <4>3
    <3> QED
      BY <3>1, <3>2
  <2>8. PICK e \in [m .. n + 1 -> S] :
          \A i \in m .. n + 1 : e[i] = IF i > n THEN base ELSE G[i][e[next[i]]]
    <3> HIDE DEF h
    <3> QED
      BY <2>6, <2>7
  <2>9. n + 1 - (k + 1) .. n + 1 = m .. n + 1 /\ k + 1 \in 0 .. n
    BY <2>3
  <2>10. \A i \in n + 1 - (k + 1) .. n + 1 : e[i] = IF i > n THEN base ELSE G[i][e[next[i]]]
    BY <2>8, <2>9
  <2> QED
    BY <2>8, <2>9, <2>10
<1> HIDE DEF P
<1>3. \A k \in 0 .. n : k \in P
  BY <1>1, <1>2, Induct
<1>4. n \in P
  BY <1>3
<1>5. PICK f \in [1 .. n + 1 -> S] :
        \A i \in 1 .. n + 1 : f[i] = IF i > n THEN base ELSE G[i][f[next[i]]]
  <2>1. n + 1 - n = 1
    OBVIOUS
  <2> QED
    BY <1>4, <2>1 DEF P
<1>6. f = [i \in 1 .. n + 1 |-> IF i > n THEN base ELSE G[i][f[next[i]]]]
  BY <1>5
<1> QED
  BY <1>6 DEF Descended

\* The arguments of a text from each place on.
ArgsAt(a, text, i) ==
  IF text[i] /= "%" THEN a[i + 1]
  ELSE IF PH!IsEscaped(text, i) THEN a[i + 2]
  ELSE PH!Conversion(text, i).args \o a[PH!Conversion(text, i).next]

LEMMA ArgsAre ==
  ASSUME NEW C, "*" \in C, "?" \in C, NEW text \in Seq(C), NEW n \in Nat, Len(text) = n,
         NEW a, a = PH!ArgsFrom(text)
  PROVE  /\ \A i \in 1 .. n + 1 : a[i] \in Seq(C)
         /\ a[n + 1] = <<>>
         /\ \A i \in 1 .. n : a[i] = ArgsAt(a, text, i)
<1> DEFINE Conv(i) == PH!Conversion(text, i)
           Passes(i) == text[i] /= "%" \/ PH!IsEscaped(text, i)
           G == [i \in 1 .. n |-> [s \in Seq(C) |-> IF Passes(i) THEN s ELSE Conv(i).args \o s]]
           next == [i \in 1 .. n |-> IF text[i] /= "%" THEN i + 1
                                     ELSE IF PH!IsEscaped(text, i) THEN i + 2 ELSE Conv(i).next]
           Body(f) == [i \in 1 .. n + 1 |->
              IF i > n THEN <<>>
              ELSE IF text[i] /= "%" THEN f[i + 1]
              ELSE IF PH!IsEscaped(text, i) THEN f[i + 2]
              ELSE Conv(i).args \o f[Conv(i).next]]
<1>1. \A i \in 1 .. n : Conv(i).args \in Seq(C) /\ Conv(i).next \in i + 1 .. n + 1
  BY ConversionFields
<1>2. \A i \in 1 .. n : PH!IsEscaped(text, i) => i + 2 \in 1 .. n + 1
  BY DEF PH!IsEscaped
<1> HIDE DEF Conv
<1>3. \A i \in 1 .. n : \A s \in Seq(C) : G[i][s] = IF Passes(i) THEN s ELSE Conv(i).args \o s
  OBVIOUS
<1>4. G \in [1 .. n -> [Seq(C) -> Seq(C)]]
  <2>1. \A i \in 1 .. n : \A s \in Seq(C) : (IF Passes(i) THEN s ELSE Conv(i).args \o s) \in Seq(C)
    BY <1>1
  <2> HIDE DEF Passes
  <2> QED
    BY <2>1
<1>5. next \in [1 .. n -> 1 .. n + 1] /\ \A i \in 1 .. n : next[i] > i
  BY <1>1, <1>2
<1>6. <<>> \in Seq(C)
  OBVIOUS
<1>7. PICK f \in [1 .. n + 1 -> Seq(C)] : Descended(f, n, <<>>, G, next)
  <2> HIDE DEF G, next
  <2> QED
    BY <1>4, <1>5, <1>6, Descends
<1>8. f = Body(f)
  <2>1. ASSUME NEW i \in 1 .. n
        PROVE  G[i][f[next[i]]] = IF text[i] /= "%" THEN f[i + 1]
                                  ELSE IF PH!IsEscaped(text, i) THEN f[i + 2]
                                  ELSE Conv(i).args \o f[Conv(i).next]
    <3>1. PICK s \in Seq(C) : s = f[next[i]]
      BY <1>5
    <3>2. G[i][s] = IF Passes(i) THEN s ELSE Conv(i).args \o s
      BY <1>3
    <3> HIDE DEF G
    <3> QED
      BY <3>1, <3>2
  <2> HIDE DEF G, next
  <2>2. ASSUME NEW i \in 1 .. n + 1
        PROVE  (IF i > n THEN <<>> ELSE G[i][f[next[i]]])
                 = IF i > n THEN <<>>
                   ELSE IF text[i] /= "%" THEN f[i + 1]
                   ELSE IF PH!IsEscaped(text, i) THEN f[i + 2]
                   ELSE Conv(i).args \o f[Conv(i).next]
    <3>1. CASE i > n
      BY <3>1
    <3>2. CASE ~(i > n)
      <4>1. i \in 1 .. n
        BY <3>2
      <4> QED
        BY <2>1, <3>2, <4>1
    <3> QED
      BY <3>1, <3>2
  <2> QED
    BY <1>7, <2>2 DEF Descended
<1>9. a = CHOOSE g : g = Body(g)
  BY DEF PH!ArgsFrom, Conv
<1>10. a = Body(a)
  <2> HIDE DEF Body
  <2> QED
    BY <1>8, <1>9
<1>11. a[n + 1] = <<>>
  <2>1. n + 1 \in 1 .. n + 1 /\ n + 1 > n
    OBVIOUS
  <2> QED
    BY <1>10, <2>1
<1>12. \A i \in 1 .. n : a[i] = IF text[i] /= "%" THEN a[i + 1]
                                ELSE IF PH!IsEscaped(text, i) THEN a[i + 2]
                                ELSE Conv(i).args \o a[Conv(i).next]
  <2>1. \A i \in 1 .. n : i \in 1 .. n + 1 /\ ~(i > n)
    OBVIOUS
  <2> QED
    BY <1>10, <2>1
<1> HIDE DEF Body
<1>13. \A i \in 1 .. n + 1 : a[i] \in Seq(C)
  <2> DEFINE P == {k \in 0 .. n : \A i \in n + 1 - k .. n + 1 : a[i] \in Seq(C)}
  <2>1. 0 \in P
    <3>1. \A i \in n + 1 - 0 .. n + 1 : i = n + 1
      OBVIOUS
    <3>2. \A i \in n + 1 - 0 .. n + 1 : a[i] \in Seq(C)
      BY <1>6, <1>11, <3>1
    <3>3. 0 \in 0 .. n
      OBVIOUS
    <3> QED
      BY <3>2, <3>3
  <2>2. ASSUME NEW k \in 0 .. n - 1, k \in P PROVE k + 1 \in P
    <3>1. PICK m \in 1 .. n : m = n - k
      OBVIOUS
    <3>2. \A i \in m + 1 .. n + 1 : a[i] \in Seq(C)
      BY <2>2, <3>1
    <3>3. a[m] \in Seq(C)
      <4>1. CASE text[m] /= "%"
        <5>1. a[m] = a[m + 1] /\ m + 1 \in m + 1 .. n + 1
          BY <1>12, <4>1
        <5> QED
          BY <3>2, <5>1
      <4>2. CASE text[m] = "%" /\ PH!IsEscaped(text, m)
        <5>1. a[m] = a[m + 2] /\ m + 2 \in m + 1 .. n + 1
          BY <1>2, <1>12, <4>2
        <5> QED
          BY <3>2, <5>1
      <4>3. CASE text[m] = "%" /\ ~PH!IsEscaped(text, m)
        <5>1. PICK s \in Seq(C), j \in m + 1 .. n + 1 : s = Conv(m).args /\ j = Conv(m).next
          BY <1>1
        <5>2. a[m] = s \o a[j]
          BY <1>12, <4>3, <5>1
        <5>3. a[j] \in Seq(C)
          BY <3>2
        <5> QED
          BY <5>2, <5>3
      <4> QED
        BY <4>1, <4>2, <4>3
    <3>4. \A i \in n + 1 - (k + 1) .. n + 1 : i = m \/ i \in m + 1 .. n + 1
      BY <3>1
    <3>5. \A i \in n + 1 - (k + 1) .. n + 1 : a[i] \in Seq(C)
      BY <3>2, <3>3, <3>4
    <3> QED
      BY <3>5
  <2> HIDE DEF P
  <2>3. n \in P
    <3>1. \A k \in 0 .. n : k \in P
      BY <2>1, <2>2, Induct
    <3> QED
      BY <3>1
  <2>4. \A i \in n + 1 - n .. n + 1 : a[i] \in Seq(C)
    BY <2>3 DEF P
  <2> QED
    BY <2>4
<1> QED
  BY <1>11, <1>12, <1>13 DEF Conv, ArgsAt

\* What printf reads as a conversion, FormatArgs reads as the same one.
LEMMA ReadingIsConversion ==
  ASSUME NEW C, "*" \in C, "?" \in C, NEW text \in Seq(C), NEW n \in Nat, Len(text) = n,
         NEW i \in 1 .. n, PH!Reading(text, i).ok
  PROVE  /\ PH!Reading(text, i).args = PH!Conversion(text, i).args
         /\ PH!Reading(text, i).next = PH!Conversion(text, i).next
         /\ PH!Reading(text, i).args \in Seq({"*", "l", "d", "s"})
<1>1. PICK from \in 1 .. n + 1 : from = i + 1
  OBVIOUS
<1>2. PICK flags : flags = PH!Past(text, from, {"-"})
  OBVIOUS
<1>3. flags \in from .. n + 1 /\ \A j \in from .. flags - 1 : text[j] \in {"-"}
  BY <1>2, PastStops
<1>4. PICK width : width = IF flags <= n /\ text[flags] = "*" THEN flags + 1
                           ELSE PH!Past(text, flags, {"5"})
  OBVIOUS
<1>5. width \in flags .. n + 1 /\ \A j \in flags .. width - 1 : text[j] \in {"*", "5"}
  <2>1. CASE flags <= n /\ text[flags] = "*"
    <3>1. width = flags + 1 /\ \A j \in flags .. width - 1 : j = flags
      BY <1>3, <1>4, <2>1
    <3> QED
      BY <1>3, <2>1, <3>1
  <2>2. CASE ~(flags <= n /\ text[flags] = "*")
    <3>1. width = PH!Past(text, flags, {"5"}) /\ flags \in 1 .. n + 1
      BY <1>3, <1>4, <2>2
    <3>2. width \in flags .. n + 1 /\ \A j \in flags .. width - 1 : text[j] \in {"5"}
      BY <3>1, PastStops
    <3> QED
      BY <3>2
  <2> QED
    BY <2>1, <2>2
<1>6. PICK precision : precision = IF ~(width <= n /\ text[width] = ".") THEN width
                                   ELSE IF width < n /\ text[width + 1] = "*" THEN width + 2
                                   ELSE PH!Past(text, width + 1, {"5"})
  OBVIOUS
<1>7. precision \in width .. n + 1 /\ \A j \in width .. precision - 1 : text[j] \in {".", "*", "5"}
  <2>1. CASE ~(width <= n /\ text[width] = ".")
    BY <1>5, <1>6, <2>1
  <2>2. CASE width <= n /\ text[width] = "." /\ width < n /\ text[width + 1] = "*"
    <3>1. precision = width + 2 /\ \A j \in width .. precision - 1 : j = width \/ j = width + 1
      BY <1>5, <1>6, <2>2
    <3> QED
      BY <1>5, <2>2, <3>1
  <2>3. CASE width <= n /\ text[width] = "." /\ ~(width < n /\ text[width + 1] = "*")
    <3>1. PICK after \in 1 .. n + 1 : after = width + 1
      BY <1>3, <1>5, <2>3
    <3>2. precision = PH!Past(text, after, {"5"})
      BY <1>6, <2>3, <3>1
    <3>3. precision \in after .. n + 1 /\ \A j \in after .. precision - 1 : text[j] \in {"5"}
      BY <3>2, PastStops
    <3>4. \A j \in width .. precision - 1 : j = width \/ j \in after .. precision - 1
      BY <1>5, <3>1, <3>3
    <3> QED
      BY <1>5, <2>3, <3>1, <3>3, <3>4
  <2> QED
    BY <2>1, <2>2, <2>3
<1>8. PICK at : at = PH!Past(text, precision, {"l"})
  OBVIOUS
<1>9. precision \in 1 .. n + 1 /\ precision \in from .. n + 1
  BY <1>3, <1>5, <1>7
<1>10. at \in precision .. n + 1 /\ \A j \in precision .. at - 1 : text[j] \in {"l"}
  BY <1>8, <1>9, PastStops
<1>11. at <= n /\ text[at] \in PH!Conversions
  BY <1>1, <1>2, <1>4, <1>6, <1>8 DEF PH!Reading
<1>12. /\ PH!Reading(text, i).args
            = PH!Stars(text, i + 1, precision - 1) \o SubSeq(text, precision, at - 1) \o <<text[at]>>
       /\ PH!Reading(text, i).next = at + 1
  BY <1>1, <1>2, <1>4, <1>6, <1>8, <1>11 DEF PH!Reading
<1>13. PH!Past(text, from, PH!Flags) = precision
  <2>1. PICK set : set = PH!Flags
    OBVIOUS
  <2>2. \A j \in from .. precision - 1 : text[j] \in set
    <3>1. \A j \in from .. precision - 1 :
            j \in from .. flags - 1 \/ j \in flags .. width - 1 \/ j \in width .. precision - 1
      BY <1>3, <1>5, <1>7
    <3> QED
      BY <1>3, <1>5, <1>7, <2>1, <3>1 DEF PH!Flags
  <2>3. text[precision] \notin set
    <3>1. CASE precision = at
      BY <1>11, <2>1, <3>1 DEF PH!Flags, PH!Conversions
    <3>2. CASE precision # at
      <4>1. text[precision] \in {"l"}
        BY <1>9, <1>10, <3>2
      <4> QED
        BY <2>1, <4>1 DEF PH!Flags
    <3> QED
      BY <3>1, <3>2
  <2> QED
    BY <1>9, <2>1, <2>2, <2>3, PastIs
<1>14. PH!Past(text, precision, PH!Lengths) = at
  BY <1>8 DEF PH!Lengths
<1>15. /\ PH!Conversion(text, i).args
            = PH!Stars(text, i + 1, precision - 1) \o SubSeq(text, precision, at - 1) \o <<text[at]>>
       /\ PH!Conversion(text, i).next = at + 1
  BY <1>1, <1>11, <1>13, <1>14 DEF PH!Conversion
<1>16. PH!Reading(text, i).args \in Seq({"*", "l", "d", "s"})
  <2>1. PICK K : K = {"*", "l", "d", "s"}
    OBVIOUS
  <2>2. PH!Stars(text, i + 1, precision - 1) \in Seq(K)
    <3>1. PICK a \in Int, b \in Int : a = i + 1 /\ b = precision - 1
      BY <1>9
    <3>2. "*" \in K
      BY <2>1
    <3> QED
      BY <3>1, <3>2, StarsAre
  <2>3. SubSeq(text, precision, at - 1) \in Seq(K)
    <3>1. PICK s : s = SubSeq(text, precision, at - 1)
      OBVIOUS
    <3>2. s = [k \in 1 .. at - precision |-> text[precision + k - 1]] /\ at - precision \in Nat
      BY <1>9, <1>10, <1>11, <3>1
    <3>3. \A k \in 1 .. at - precision : text[precision + k - 1] \in K
      <4>1. \A k \in 1 .. at - precision : precision + k - 1 \in precision .. at - 1
        BY <1>9, <1>10
      <4> QED
        BY <1>10, <2>1, <4>1
    <3>4. PICK m \in Nat : m = at - precision
      BY <3>2
    <3>5. s \in [1 .. m -> K]
      BY <3>2, <3>3, <3>4
    <3>6. s \in Seq(K)
      BY <3>5
    <3> QED
      BY <3>1, <3>6
  <2>4. text[at] \in K
    BY <1>11, <2>1 DEF PH!Conversions
  <2> QED
    BY <1>12, <2>1, <2>2, <2>3, <2>4
<1> QED
  BY <1>12, <1>15, <1>16

Takings == [ok : BOOLEAN, args : Seq({"*", "l", "d", "s"})]

\* What printf takes from each place on.
TakenAt(t, text, i) ==
  IF text[i] /= "%" THEN t[i + 1]
  ELSE IF PH!IsEscaped(text, i) THEN t[i + 2]
  ELSE IF ~PH!Reading(text, i).ok THEN [ok |-> FALSE, args |-> <<>>]
  ELSE [ok |-> t[PH!Reading(text, i).next].ok,
        args |-> PH!Reading(text, i).args \o t[PH!Reading(text, i).next].args]

LEMMA TakenAre ==
  ASSUME NEW C, "*" \in C, "?" \in C, NEW text \in Seq(C), NEW n \in Nat, Len(text) = n,
         NEW t, t = PH!TakenFrom(text)
  PROVE  /\ t[n + 1] = [ok |-> TRUE, args |-> <<>>]
         /\ \A i \in 1 .. n : t[i] = TakenAt(t, text, i)
<1> DEFINE Read(i) == PH!Reading(text, i)
           none == [ok |-> TRUE, args |-> <<>>]
           bad == [ok |-> FALSE, args |-> <<>>]
           Passes(i) == text[i] /= "%" \/ PH!IsEscaped(text, i)
           Step(i, s) == IF Passes(i) THEN s ELSE IF ~Read(i).ok THEN bad
                         ELSE [ok |-> s.ok, args |-> Read(i).args \o s.args]
           G == [i \in 1 .. n |-> [s \in Takings |-> Step(i, s)]]
           next == [i \in 1 .. n |-> IF text[i] /= "%" THEN i + 1
                                     ELSE IF PH!IsEscaped(text, i) THEN i + 2
                                     ELSE IF ~Read(i).ok THEN i + 1 ELSE Read(i).next]
           From(f, i) == IF text[i] /= "%" THEN f[i + 1]
                         ELSE IF PH!IsEscaped(text, i) THEN f[i + 2]
                         ELSE IF ~Read(i).ok THEN bad
                         ELSE [ok |-> f[Read(i).next].ok, args |-> Read(i).args \o f[Read(i).next].args]
           Body(f) == [i \in 1 .. n + 1 |-> IF i > n THEN none ELSE From(f, i)]
<1>1. \A i \in 1 .. n : Read(i).ok =>
        Read(i).args \in Seq({"*", "l", "d", "s"}) /\ Read(i).next \in i + 1 .. n + 1
  BY ReadingIsConversion, ConversionFields
<1>2. \A i \in 1 .. n : PH!IsEscaped(text, i) => i + 2 \in 1 .. n + 1
  BY DEF PH!IsEscaped
<1> HIDE DEF Read
<1>3. \A i \in 1 .. n : \A s \in Takings : Step(i, s) \in Takings
  <2> SUFFICES ASSUME NEW i \in 1 .. n, NEW s \in Takings PROVE Step(i, s) \in Takings
    OBVIOUS
  <2>1. CASE Passes(i)
    BY <2>1
  <2>2. CASE ~Passes(i) /\ ~Read(i).ok
    <3>1. Step(i, s) = bad
      BY <2>2
    <3> QED
      BY <3>1 DEF Takings
  <2>3. CASE ~Passes(i) /\ Read(i).ok
    <3>1. Step(i, s) = [ok |-> s.ok, args |-> Read(i).args \o s.args]
      BY <2>3
    <3>2. Read(i).args \in Seq({"*", "l", "d", "s"}) /\ s.ok \in BOOLEAN /\ s.args \in Seq({"*", "l", "d", "s"})
      BY <1>1, <2>3 DEF Takings
    <3>3. Read(i).args \o s.args \in Seq({"*", "l", "d", "s"})
      BY <3>2
    <3> QED
      BY <3>1, <3>2, <3>3 DEF Takings
  <2> QED
    BY <2>1, <2>2, <2>3
<1>4. G \in [1 .. n -> [Takings -> Takings]]
  <2> HIDE DEF Step
  <2> QED
    BY <1>3
<1>5. next \in [1 .. n -> 1 .. n + 1] /\ \A i \in 1 .. n : next[i] > i
  BY <1>1, <1>2
<1>6. none \in Takings
  BY DEF Takings
<1>7. PICK f \in [1 .. n + 1 -> Takings] : Descended(f, n, none, G, next)
  <2> HIDE DEF G, next, none
  <2> QED
    BY <1>4, <1>5, <1>6, Descends
<1>8. f = Body(f)
  <2>1. ASSUME NEW i \in 1 .. n
        PROVE  G[i][f[next[i]]] = From(f, i)
    <3>1. PICK s \in Takings : s = f[next[i]]
      BY <1>5
    <3>2. G[i][s] = Step(i, s)
      <4> HIDE DEF Step
      <4> QED
        OBVIOUS
    <3> HIDE DEF G
    <3>3. CASE text[i] /= "%"
      BY <3>1, <3>2, <3>3
    <3>4. CASE text[i] = "%" /\ PH!IsEscaped(text, i)
      BY <3>1, <3>2, <3>4
    <3>5. CASE ~Passes(i) /\ ~Read(i).ok
      BY <3>1, <3>2, <3>5
    <3>6. CASE ~Passes(i) /\ Read(i).ok
      BY <3>1, <3>2, <3>6
    <3> QED
      BY <3>3, <3>4, <3>5, <3>6
  <2> HIDE DEF G, next, From, none
  <2>2. ASSUME NEW i \in 1 .. n + 1
        PROVE  (IF i > n THEN none ELSE G[i][f[next[i]]]) = IF i > n THEN none ELSE From(f, i)
    <3>1. CASE i > n
      BY <3>1
    <3>2. CASE ~(i > n)
      <4>1. i \in 1 .. n
        BY <3>2
      <4> QED
        BY <2>1, <3>2, <4>1
    <3> QED
      BY <3>1, <3>2
  <2> QED
    BY <1>7, <2>2 DEF Descended
<1>9. t = CHOOSE g : g = Body(g)
  BY DEF PH!TakenFrom, Read
<1>10. t = Body(t)
  <2> HIDE DEF Body
  <2> QED
    BY <1>8, <1>9
<1>11. t[n + 1] = none
  <2>1. n + 1 \in 1 .. n + 1 /\ n + 1 > n
    OBVIOUS
  <2> HIDE DEF From, none
  <2> QED
    BY <1>10, <2>1
<1>12. \A i \in 1 .. n : t[i] = From(t, i)
  <2>1. \A i \in 1 .. n : i \in 1 .. n + 1 /\ ~(i > n)
    OBVIOUS
  <2> HIDE DEF From, none
  <2> QED
    BY <1>10, <2>1
<1> QED
  BY <1>11, <1>12 DEF Read, TakenAt

\* From any place that printf can format the text from, both find the same.
LEMMA SaysWhatItTakes ==
  ASSUME NEW C, "*" \in C, "?" \in C, NEW text \in Seq(C), NEW n \in Nat, Len(text) = n,
         NEW a, a = PH!ArgsFrom(text), NEW t, t = PH!TakenFrom(text)
  PROVE  \A i \in 1 .. n + 1 : t[i] \in Takings /\ (t[i].ok => a[i] = t[i].args)
<1> DEFINE Agree(i) == t[i] \in Takings /\ (t[i].ok => a[i] = t[i].args)
           Conv(i) == PH!Conversion(text, i)
           Read(i) == PH!Reading(text, i)
           bad == [ok |-> FALSE, args |-> <<>>]
           P == {k \in 0 .. n : \A i \in n + 1 - k .. n + 1 : Agree(i)}
<1>1. a[n + 1] = <<>> /\ t[n + 1] = [ok |-> TRUE, args |-> <<>>]
  BY ArgsAre, TakenAre
<1>2. ASSUME NEW i \in 1 .. n
      PROVE  /\ text[i] /= "%" => a[i] = a[i + 1] /\ t[i] = t[i + 1]
             /\ text[i] = "%" /\ PH!IsEscaped(text, i) => a[i] = a[i + 2] /\ t[i] = t[i + 2]
             /\ text[i] = "%" /\ ~PH!IsEscaped(text, i) => a[i] = Conv(i).args \o a[Conv(i).next]
             /\ text[i] = "%" /\ ~PH!IsEscaped(text, i) /\ ~Read(i).ok => t[i] = bad
             /\ text[i] = "%" /\ ~PH!IsEscaped(text, i) /\ Read(i).ok =>
                  t[i] = [ok |-> t[Read(i).next].ok, args |-> Read(i).args \o t[Read(i).next].args]
  <2>1. a[i] = ArgsAt(a, text, i)
    BY ArgsAre
  <2>2. t[i] = TakenAt(t, text, i)
    BY TakenAre
  <2> QED
    BY <2>1, <2>2 DEF ArgsAt, TakenAt
<1>3. \A i \in 1 .. n : Read(i).ok =>
        /\ Read(i).args = Conv(i).args /\ Read(i).next = Conv(i).next
        /\ Read(i).args \in Seq({"*", "l", "d", "s"}) /\ Read(i).next \in i + 1 .. n + 1
  BY ReadingIsConversion, ConversionFields
<1>4. \A i \in 1 .. n : PH!IsEscaped(text, i) => i + 2 \in i + 1 .. n + 1
  BY DEF PH!IsEscaped
<1> HIDE DEF Conv, Read
<1>5. 0 \in P
  <2>1. \A i \in n + 1 - 0 .. n + 1 : i = n + 1
    OBVIOUS
  <2>2. Agree(n + 1)
    BY <1>1 DEF Takings
  <2>3. \A i \in n + 1 - 0 .. n + 1 : Agree(i)
    <3> HIDE DEF Agree
    <3> QED
      BY <2>1, <2>2
  <2>4. 0 \in 0 .. n
    OBVIOUS
  <2> HIDE DEF Agree
  <2> QED
    BY <2>3, <2>4
<1>6. ASSUME NEW k \in 0 .. n - 1, k \in P PROVE k + 1 \in P
  <2>1. PICK m \in 1 .. n : m = n - k
    OBVIOUS
  <2>2. \A i \in m + 1 .. n + 1 : Agree(i)
    <3> HIDE DEF Agree
    <3> QED
      BY <1>6, <2>1
  <2>3. Agree(m)
    <3>1. CASE text[m] /= "%"
      <4>1. a[m] = a[m + 1] /\ t[m] = t[m + 1]
        BY <1>2, <3>1
      <4>2. m + 1 \in m + 1 .. n + 1
        OBVIOUS
      <4>3. Agree(m + 1)
        <5> HIDE DEF Agree
        <5> QED
          BY <2>2, <4>2
      <4> QED
        BY <4>1, <4>3
    <3>2. CASE text[m] = "%" /\ PH!IsEscaped(text, m)
      <4>1. a[m] = a[m + 2] /\ t[m] = t[m + 2] /\ m + 2 \in m + 1 .. n + 1
        BY <1>2, <1>4, <3>2
      <4> QED
        BY <2>2, <4>1
    <3>3. CASE text[m] = "%" /\ ~PH!IsEscaped(text, m) /\ ~Read(m).ok
      <4>1. t[m] = bad
        BY <1>2, <3>3
      <4> QED
        BY <4>1 DEF Takings
    <3>4. CASE text[m] = "%" /\ ~PH!IsEscaped(text, m) /\ Read(m).ok
      <4>1. PICK s \in Seq({"*", "l", "d", "s"}), j \in m + 1 .. n + 1 :
              s = Read(m).args /\ j = Read(m).next /\ s = Conv(m).args /\ j = Conv(m).next
        BY <1>3, <3>4
      <4>2. a[m] = s \o a[j]
        BY <1>2, <3>4, <4>1
      <4>3. t[m] = [ok |-> t[j].ok, args |-> s \o t[j].args]
        BY <1>2, <3>4, <4>1
      <4>4. Agree(j)
        <5> HIDE DEF Agree
        <5> QED
          BY <2>2
      <4>5. t[j].ok \in BOOLEAN /\ s \o t[j].args \in Seq({"*", "l", "d", "s"})
        <5>1. t[j].args \in Seq({"*", "l", "d", "s"}) /\ t[j].ok \in BOOLEAN
          BY <4>4 DEF Takings
        <5> QED
          BY <5>1
      <4>6. t[m] \in Takings
        BY <4>3, <4>5 DEF Takings
      <4> QED
        <5>1. t[m].ok = t[j].ok /\ t[m].args = s \o t[j].args
          BY <4>3
        <5> QED
          BY <4>2, <4>4, <4>6, <5>1
    <3> QED
      BY <3>1, <3>2, <3>3, <3>4
  <2>4. \A i \in n + 1 - (k + 1) .. n + 1 : i = m \/ i \in m + 1 .. n + 1
    BY <2>1
  <2> HIDE DEF Agree
  <2>5. \A i \in n + 1 - (k + 1) .. n + 1 : Agree(i)
    BY <2>2, <2>3, <2>4
  <2>6. k + 1 \in 0 .. n
    OBVIOUS
  <2> QED
    BY <2>5, <2>6
<1> HIDE DEF P
<1>7. n \in P
  <2>1. \A k \in 0 .. n : k \in P
    BY <1>5, <1>6, Induct
  <2> QED
    BY <2>1
<1>8. \A i \in n + 1 - n .. n + 1 : Agree(i)
  <2> HIDE DEF Agree
  <2> QED
    BY <1>7 DEF P
<1>9. n + 1 - n = 1
  OBVIOUS
<1> HIDE DEF Agree
<1>10. \A i \in 1 .. n + 1 : Agree(i)
  BY <1>8, <1>9
<1> QED
  BY <1>10 DEF Agree

\* Of a text that printf can format, FormatArgs says what it takes, whatever flags,
\* widths, precisions and lengths it has (translations.cpp:22-58).
THEOREM FormatsCorrect ==
  ASSUME NEW C, "*" \in C, "?" \in C
  PROVE  \A text \in Seq(C) : PH!TakesWhatItSays(text) /\ PH!Taken(text) \in Takings
<1> SUFFICES ASSUME NEW text \in Seq(C)
             PROVE  /\ PH!Taken(text).ok => PH!FormatArgs(text) = PH!Taken(text).args
                    /\ PH!Taken(text) \in Takings
  BY DEF PH!TakesWhatItSays
<1>1. PICK n \in Nat : n = Len(text)
  OBVIOUS
<1>2. PICK a, t : a = PH!ArgsFrom(text) /\ t = PH!TakenFrom(text)
  OBVIOUS
<1>3. 1 \in 1 .. n + 1
  OBVIOUS
<1>4. t[1] \in Takings /\ (t[1].ok => a[1] = t[1].args)
  BY <1>1, <1>2, <1>3, SaysWhatItTakes
<1> QED
  BY <1>2, <1>4 DEF PH!FormatArgs, PH!Taken

\* A line is kept if printf takes from it what it takes from the phrase, and only then.
LEMMA KeptIfTheSame ==
  ASSUME NEW C, "*" \in C, "?" \in C,
         NEW phrase \in Seq(C), PH!Taken(phrase).ok, NEW text \in Seq(C),
         PH!Taken(text).ok \/ \E a \in DOMAIN PH!FormatArgs(text) : PH!FormatArgs(text)[a] = "?"
  PROVE  PH!TakesTheSame(text, phrase) <=> PH!Taken(text) = PH!Taken(phrase)
<1>1. PICK p, q : p = PH!Taken(phrase) /\ q = PH!Taken(text)
  OBVIOUS
<1>2. p \in Takings /\ q \in Takings /\ p.ok /\ PH!FormatArgs(phrase) = p.args
  BY <1>1, FormatsCorrect DEF PH!TakesWhatItSays
<1>3. CASE q.ok
  <2>1. PH!FormatArgs(text) = q.args
    BY <1>1, <1>3, FormatsCorrect DEF PH!TakesWhatItSays
  <2>2. q.args = p.args => q = p
    BY <1>2, <1>3 DEF Takings
  <2> QED
    BY <1>1, <1>2, <2>1, <2>2 DEF PH!TakesTheSame
<1>4. CASE ~q.ok
  <2>1. q # p
    BY <1>2, <1>4
  <2>2. PICK a \in DOMAIN PH!FormatArgs(text) : PH!FormatArgs(text)[a] = "?"
    BY <1>1, <1>4
  <2>3. \A b \in DOMAIN p.args : p.args[b] \in {"*", "l", "d", "s"}
    <3>1. p.args \in Seq({"*", "l", "d", "s"})
      BY <1>2 DEF Takings
    <3> QED
      BY <3>1
  <2>4. PH!FormatArgs(text) # p.args
    BY <2>2, <2>3
  <2> QED
    BY <1>1, <1>2, <2>1, <2>4 DEF PH!TakesTheSame
<1> QED
  BY <1>3, <1>4

\* What FoldLeft makes of a phrase's lines, by which of them it has seen.
Tables(phrase, lines) ==
  CHOOSE g : g = [s \in SUBSET (DOMAIN lines) |->
    IF s = {} THEN PH!NoTable
    ELSE PH!PhraseHandler(g[s \ {Top(s)}], phrase, lines[Top(s)][1], lines[Top(s)][2])]

LEMMA TextsAreFolded ==
  \A phrase, lines : PH!Texts(phrase, lines) = Tables(phrase, lines)[DOMAIN lines]
  BY DEF PH!Texts, PH!FoldLeft, PH!MapThenFoldSet, PH!Max, Tables, Top

\* The tables of languages L and texts V.
TableStates(L, V) == UNION {[D -> V] : D \in SUBSET L}

LEMMA HandlerSteps ==
  ASSUME NEW L, NEW V, NEW table \in TableStates(L, V), NEW phrase, NEW language, NEW text \in V,
         NEW key \in L, key = PH!LowerCase(language)
  PROVE  PH!PhraseHandler(table, phrase, language, text) \in TableStates(L, V)
<1>1. PICK u : u = PH!PhraseHandler(table, phrase, language, text)
  OBVIOUS
<1>2. PICK D \in SUBSET L : table \in [D -> V]
  BY DEF TableStates
<1>3. CASE ~PH!TakesTheSame(text, phrase)
  BY <1>3 DEF PH!PhraseHandler
<1>4. CASE PH!TakesTheSame(text, phrase)
  <2>1. u = [k \in D \cup {key} |-> IF k = key THEN text ELSE table[k]]
    BY <1>1, <1>2, <1>4 DEF PH!PhraseHandler, PH!Put
  <2>2. u \in [D \cup {key} -> V]
    BY <1>2, <2>1
  <2>3. D \cup {key} \in SUBSET L
    OBVIOUS
  <2> QED
    BY <1>1, <2>2, <2>3 DEF TableStates
<1> QED
  BY <1>3, <1>4

\* Whatever the lines are, there is a table after every line.
LineByLine(g, phrase, lines, n) ==
  /\ g[{}] = PH!NoTable
  /\ \A k \in 1 .. n :
       g[1 .. k] = PH!PhraseHandler(g[1 .. k - 1], phrase, lines[k][1], lines[k][2])

LEMMA TablesExist ==
  ASSUME NEW phrase, NEW lines, NEW n \in Nat, DOMAIN lines = 1 .. n,
         NEW L, NEW V, \A i \in 1 .. n : PH!LowerCase(lines[i][1]) \in L /\ lines[i][2] \in V,
         NEW g, g = Tables(phrase, lines)
  PROVE  LineByLine(g, phrase, lines, n)
<1> DEFINE S == TableStates(L, V)
           Step(x, k) == PH!PhraseHandler(x, phrase, lines[k][1], lines[k][2])
           F == [k \in 1 .. n |-> [x \in S |-> Step(x, k)]]
           Body(h) == [s \in SUBSET (1 .. n) |->
                         IF s = {} THEN PH!NoTable ELSE Step(h[s \ {Top(s)}], Top(s))]
<1>1. \A k \in 1 .. n : \A x \in S : Step(x, k) \in S
  <2> SUFFICES ASSUME NEW k \in 1 .. n, NEW x \in S PROVE Step(x, k) \in S
    OBVIOUS
  <2>1. PICK language, text : language = lines[k][1] /\ text = lines[k][2]
    OBVIOUS
  <2>2. PICK key \in L : key = PH!LowerCase(language)
    BY <2>1
  <2>t. text \in V
    BY <2>1
  <2>3. PICK u : u = PH!PhraseHandler(x, phrase, language, text)
    OBVIOUS
  <2>4. u \in TableStates(L, V)
    BY <2>2, <2>3, <2>t, HandlerSteps
  <2> QED
    BY <2>1, <2>3, <2>4
<1>2. PH!NoTable \in S
  <2>1. PH!NoTable \in [{} -> V]
    BY DEF PH!NoTable
  <2>2. {} \in SUBSET L
    OBVIOUS
  <2> QED
    BY <2>1, <2>2 DEF TableStates
<1>3. F \in [1 .. n -> [S -> S]]
  <2> HIDE DEF S, Step
  <2> QED
    BY <1>1
<1>4. PICK h \in [SUBSET (1 .. n) -> S] : Folded(h, n, PH!NoTable, F)
  <2> HIDE DEF F, S
  <2> QED
    BY <1>2, <1>3, Iterates
<1>5. h = Body(h)
  <2>1. \A s \in SUBSET (1 .. n) : s # {} => Top(s) \in 1 .. n /\ s \ {Top(s)} \in SUBSET (1 .. n)
    BY LastIsOne
  <2> HIDE DEF S, Step
  <2>2. \A s \in SUBSET (1 .. n) : s # {} =>
          F[Top(s)][h[s \ {Top(s)}]] = Step(h[s \ {Top(s)}], Top(s))
    BY <2>1
  <2> HIDE DEF F
  <2> QED
    BY <1>4, <2>2 DEF Folded
<1>6. g = Body(g)
  <2>1. g = CHOOSE f : f = Body(f)
    BY DEF Tables
  <2> HIDE DEF Body
  <2> QED
    BY <1>5, <2>1
<1> HIDE DEF Step
<1>7. g[{}] = PH!NoTable
  BY <1>6
<1>8. ASSUME NEW k \in 1 .. n PROVE g[1 .. k] = Step(g[1 .. k - 1], k)
  <2>1. /\ Top(1 .. k) = k /\ (1 .. k) \ {k} = 1 .. k - 1 /\ 1 .. k # {}
        /\ 1 .. k \in SUBSET (1 .. n)
    BY Prefixes
  <2>2. \A s \in SUBSET (1 .. n) : s # {} => g[s] = Step(g[s \ {Top(s)}], Top(s))
    BY <1>6
  <2> QED
    BY <2>1, <2>2
<1> QED
  BY <1>7, <1>8 DEF Step, LineByLine

\* A line that the table keeps for a language.
Keeps(lines, phrase, i, l) ==
  PH!TakesTheSame(lines[i][2], phrase) /\ PH!LowerCase(lines[i][1]) = l

\* A table has of each language the last line that it keeps.
LEMMA LastIsKept ==
  ASSUME NEW phrase, NEW lines, NEW n \in Nat, DOMAIN lines = 1 .. n, NEW l,
         NEW texts, texts = PH!Texts(phrase, lines)
  PROVE  /\ l \in DOMAIN texts <=> \E i \in 1 .. n : Keeps(lines, phrase, i, l)
         /\ \A i \in 1 .. n : Keeps(lines, phrase, i, l) /\ (\A j \in i + 1 .. n : ~Keeps(lines, phrase, j, l))
              => texts[l] = lines[i][2]
<1> DEFINE L == {PH!LowerCase(lines[i][1]) : i \in 1 .. n}
           V == {lines[i][2] : i \in 1 .. n}
           S == TableStates(L, V)
           Has(i) == Keeps(lines, phrase, i, l)
           Right(u, k) == /\ u \in S
                          /\ l \in DOMAIN u <=> \E i \in 1 .. k : Has(i)
                          /\ \A i \in 1 .. k : Has(i) /\ (\A j \in i + 1 .. k : ~Has(j)) => u[l] = lines[i][2]
<1>1. PICK g : g = Tables(phrase, lines)
  OBVIOUS
<1> DEFINE P == {k \in 0 .. n : Right(g[1 .. k], k)}
<1>2. \A i \in 1 .. n : PH!LowerCase(lines[i][1]) \in L /\ lines[i][2] \in V
  OBVIOUS
<1> HIDE DEF L, V
<1>3. LineByLine(g, phrase, lines, n)
  BY <1>1, <1>2, TablesExist
<1>4. 0 \in P
  <2>1. 1 .. 0 = {} /\ 0 \in 0 .. n
    OBVIOUS
  <2>2. PH!NoTable \in S /\ DOMAIN PH!NoTable = {}
    <3>1. PH!NoTable \in [{} -> V]
      BY DEF PH!NoTable
    <3>2. {} \in SUBSET L
      OBVIOUS
    <3> QED
      BY <3>1, <3>2 DEF TableStates
  <2> HIDE DEF S, Has
  <2>3. Right(PH!NoTable, 0)
    BY <2>1, <2>2
  <2> HIDE DEF Right
  <2> QED
    BY <1>3, <2>1, <2>3 DEF LineByLine
<1>5. ASSUME NEW k \in 0 .. n - 1, k \in P PROVE k + 1 \in P
  <2>1. PICK m \in 1 .. n : m = k + 1 /\ m - 1 = k
    OBVIOUS
  <2>2. PICK u, v : u = g[1 .. k] /\ v = g[1 .. m]
    OBVIOUS
  <2>3. Right(u, k)
    <3> HIDE DEF Right
    <3> QED
      BY <1>5, <2>2
  <2>4. PICK key, text : key = PH!LowerCase(lines[m][1]) /\ text = lines[m][2]
    OBVIOUS
  <2>5. v = PH!PhraseHandler(u, phrase, lines[m][1], text)
    BY <1>3, <2>1, <2>2, <2>4 DEF LineByLine
  <2>6. /\ v \in S
        /\ ~PH!TakesTheSame(text, phrase) => v = u
        /\ PH!TakesTheSame(text, phrase) =>
             /\ DOMAIN v = DOMAIN u \cup {key} /\ v[key] = text
             /\ \A q \in DOMAIN u : q # key => v[q] = u[q]
    <3>1. PICK language : language = lines[m][1]
      OBVIOUS
    <3>2. key \in L /\ text \in V /\ key = PH!LowerCase(language)
      BY <1>2, <2>4, <3>1
    <3>3. u \in TableStates(L, V)
      BY <2>3
    <3>4. v = PH!PhraseHandler(u, phrase, language, text)
      BY <2>5, <3>1
    <3>5. v \in TableStates(L, V)
      BY <3>2, <3>3, <3>4, HandlerSteps
    <3>6. ASSUME ~PH!TakesTheSame(text, phrase) PROVE v = u
      BY <3>4, <3>6 DEF PH!PhraseHandler
    <3>7. ASSUME PH!TakesTheSame(text, phrase)
          PROVE  /\ DOMAIN v = DOMAIN u \cup {key} /\ v[key] = text
                 /\ \A q \in DOMAIN u : q # key => v[q] = u[q]
      BY <3>2, <3>4, <3>7 DEF PH!PhraseHandler, PH!Put
    <3> QED
      BY <3>5, <3>6, <3>7
  <2>7. Has(m) <=> PH!TakesTheSame(text, phrase) /\ key = l
    BY <2>4 DEF Keeps
  <2>8. \A i \in 1 .. m : i = m \/ i \in 1 .. k
    BY <2>1
  <2>9. \A i \in 1 .. k : i \in 1 .. m /\ m \in i + 1 .. m
    BY <2>1
  <2> HIDE DEF Has, S
  <2>10. ASSUME Has(m) PROVE Right(v, m)
    <3>1. l \in DOMAIN v /\ v[l] = text
      BY <2>6, <2>7, <2>10
    <3>2. \A i \in 1 .. m : Has(i) /\ (\A j \in i + 1 .. m : ~Has(j)) => i = m
      BY <2>8, <2>9, <2>10
    <3> QED
      BY <2>1, <2>4, <2>6, <2>10, <3>1, <3>2
  <2>11. ASSUME ~Has(m) PROVE Right(v, m)
    <3>1. l \in DOMAIN v <=> l \in DOMAIN u
      BY <2>6, <2>7, <2>11
    <3>2. l \in DOMAIN u => v[l] = u[l]
      BY <2>6, <2>7, <2>11
    <3>3. (\E i \in 1 .. m : Has(i)) <=> \E i \in 1 .. k : Has(i)
      BY <2>8, <2>9, <2>11
    <3>4. ASSUME NEW i \in 1 .. m, Has(i), \A j \in i + 1 .. m : ~Has(j)
          PROVE  v[l] = lines[i][2]
      <4>1. i \in 1 .. k
        BY <2>8, <2>11, <3>4
      <4>2. \A j \in i + 1 .. k : j \in i + 1 .. m
        BY <2>1
      <4>3. u[l] = lines[i][2] /\ l \in DOMAIN u
        BY <2>3, <3>4, <4>1, <4>2
      <4> QED
        BY <3>2, <4>3
    <3> QED
      BY <2>1, <2>3, <2>6, <3>1, <3>3, <3>4
  <2>12. Right(v, m)
    <3> HIDE DEF Right
    <3> QED
      BY <2>10, <2>11
  <2> HIDE DEF Right
  <2> QED
    BY <2>1, <2>2, <2>12
<1> HIDE DEF P
<1>6. n \in P
  <2>1. \A k \in 0 .. n : k \in P
    BY <1>4, <1>5, Induct
  <2> QED
    BY <2>1
<1>7. texts = g[1 .. n]
  BY <1>1, TextsAreFolded
<1> QED
  BY <1>6, <1>7 DEF P

\* Whatever lines a phrase has, in whatever order and spelling of their languages,
\* a client gets the last of its language that takes the phrase's arguments, else
\* that of the default language, else the phrase (translations.h:35-37).
THEOREM TranslationsCorrect ==
  \A t : IsTranslation(t) => PH!TranslationFits(t.phrase, t.lines, t.config, t.default, t.language)
<1> SUFFICES ASSUME NEW t, IsTranslation(t)
             PROVE  PH!TranslationFits(t.phrase, t.lines, t.config, t.default, t.language)
  OBVIOUS
<1>1. PICK phrase, lines : phrase = t.phrase /\ lines = t.lines
  OBVIOUS
<1>2. PICK n \in Nat : DOMAIN lines = 1 .. n
  BY <1>1 DEF IsTranslation
<1>3. PICK fallback, language, texts, text :
        /\ fallback = PH!SetDefaultLanguage("en", t.default)
        /\ language = PH!MapClientLanguage(PH!LanguageMap(t.config), fallback, t.language)
        /\ texts = PH!Texts(phrase, lines)
        /\ text = PH!Translate(texts, fallback, language, phrase)
  OBVIOUS
<1> DEFINE Fitting(l) == {i \in DOMAIN lines :
                            /\ PH!LowerCase(lines[i][1]) = PH!LowerCase(l)
                            /\ PH!Taken(lines[i][2]) = PH!Taken(phrase)}
           Latest(l) == lines[PH!Max(Fitting(l))][2]
<1>4. /\ \A x : PH!LowerCase(PH!LowerCase(x)) = PH!LowerCase(x)
      /\ \A x : PH!LowerCase(x) = "" <=> x = ""
  BY DEF PH!LowerCase
<1>5. \A i \in 1 .. n : PH!TakesTheSame(lines[i][2], phrase) <=> PH!Taken(lines[i][2]) = PH!Taken(phrase)
  <2> DEFINE C == STRING \cup {"*", "?"}
  <2> TAKE i \in 1 .. n
  <2>1. phrase \in Seq(STRING) /\ lines[i][2] \in Seq(STRING)
    BY <1>1, <1>2 DEF IsTranslation
  <2>2. phrase \in Seq(C) /\ lines[i][2] \in Seq(C)
    BY <2>1
  <2>3. "*" \in C /\ "?" \in C
    OBVIOUS
  <2> HIDE DEF C
  <2>4. PICK line : line = lines[i][2]
    OBVIOUS
  <2>5. /\ PH!Taken(phrase).ok
        /\ PH!Taken(line).ok \/ \E a \in DOMAIN PH!FormatArgs(line) : PH!FormatArgs(line)[a] = "?"
    BY <1>1, <1>2, <2>4 DEF IsTranslation
  <2> QED
    BY <2>2, <2>3, <2>4, <2>5, KeptIfTheSame
<1>6. \A l : \A i \in 1 .. n : i \in Fitting(l) <=> Keeps(lines, phrase, i, PH!LowerCase(l))
  BY <1>2, <1>5 DEF Keeps
<1>7. ASSUME NEW l
      PROVE  /\ PH!LowerCase(l) \in DOMAIN texts <=> Fitting(l) # {}
             /\ Fitting(l) # {} => /\ texts[PH!LowerCase(l)] = Latest(l)
                                   /\ PH!Taken(Latest(l)) = PH!Taken(phrase)
  <2>1. PICK key : key = PH!LowerCase(l)
    OBVIOUS
  <2>2. PICK F \in SUBSET (1 .. n) : F = Fitting(l)
    BY <1>2
  <2>3. \A i \in 1 .. n : i \in F <=> Keeps(lines, phrase, i, key)
    BY <1>6, <2>1, <2>2
  <2>4. /\ key \in DOMAIN texts <=> \E i \in 1 .. n : Keeps(lines, phrase, i, key)
        /\ \A i \in 1 .. n : Keeps(lines, phrase, i, key) /\ (\A j \in i + 1 .. n : ~Keeps(lines, phrase, j, key))
             => texts[key] = lines[i][2]
    BY <1>2, <1>3, LastIsKept
  <2>5. ASSUME F # {}
        PROVE  texts[key] = Latest(l) /\ PH!Taken(Latest(l)) = PH!Taken(phrase)
    <3>1. PICK top : top = Top(F)
      OBVIOUS
    <3>2. PH!Max(F) = top
      BY <3>1 DEF PH!Max, Top
    <3>3. top \in F /\ \A y \in F : top >= y
      BY <2>5, <3>1, LastIsOne
    <3>4. \A j \in top + 1 .. n : j \in 1 .. n /\ j \notin F
      BY <3>3
    <3>5. texts[key] = lines[top][2]
      BY <2>3, <2>4, <3>3, <3>4
    <3>6. PH!Taken(lines[top][2]) = PH!Taken(phrase)
      BY <2>2, <3>3
    <3>7. Latest(l) = lines[top][2]
      BY <2>2, <3>2
    <3> QED
      BY <3>5, <3>6, <3>7
  <2> HIDE DEF Fitting, Latest
  <2> QED
    BY <2>1, <2>2, <2>3, <2>4, <2>5
<1>8. fallback # "" /\ PH!LowerCase(fallback) = fallback
  BY <1>3, <1>4 DEF PH!SetDefaultLanguage, PH!NoLanguage, PH!LowerCase
<1>9. Fitting("") = {}
  <2>1. \A i \in 1 .. n : PH!LowerCase(lines[i][1]) # PH!LowerCase("")
    <3>1. \A i \in 1 .. n : lines[i][1] # ""
      BY <1>1, <1>2 DEF IsTranslation, PH!NoLanguage
    <3> QED
      BY <1>4, <3>1
  <2> QED
    BY <1>2, <2>1
<1>10. /\ PH!Taken(text).args = PH!Taken(phrase).args
       /\ text = IF Fitting(language) /= {} THEN Latest(language)
                 ELSE IF Fitting(fallback) /= {} THEN Latest(fallback) ELSE phrase
  <2> HIDE DEF Fitting, Latest
  <2>1. text = IF Fitting(language) /= {} THEN Latest(language)
               ELSE IF Fitting(fallback) /= {} THEN Latest(fallback) ELSE phrase
    <3>1. CASE language = ""
      BY <1>3, <1>7, <1>8, <1>9, <3>1 DEF PH!Translate, PH!NoLanguage
    <3>2. CASE language # ""
      BY <1>3, <1>7, <1>8, <3>2 DEF PH!Translate, PH!NoLanguage
    <3> QED
      BY <3>1, <3>2
  <2>2. PH!Taken(text) = PH!Taken(phrase)
    BY <1>7, <2>1
  <2> QED
    BY <2>1, <2>2
<1> QED
  BY <1>1, <1>3, <1>10 DEF PH!TranslationFits

-----------------------------------------------------------------------------
(* Every input that the specification chooses *)

\* What is looked at is one of the inputs that were given.
InputFits ==
  /\ input.of = "steamid" => input.value \in SteamTexts
  /\ input.of = "target" => input.value.players \in Servers /\ input.value.pattern \in Patterns
  /\ input.of = "admins" => input.value \in AdminTables
  /\ input.of = "object" => input.value \in ObjectScans
  /\ input.of = "signature" => input.value \in SignatureScans
  /\ input.of = "vtable" => input.value \in TableScans
  /\ input.of = "fields" => input.value \in FieldEvents
  /\ input.of = "format" => input.value \in FormatTexts
  /\ input.of = "translation" => input.value \in Translations
  /\ input.of = "print" => input.value.game \in Games /\ input.value.slot \in ReplySlots
  /\ input.of = "voice" => input.value \in VoiceCalls

LEMMA InputsFit == Spec => []InputFits
<1>1. Init => InputFits
  BY DEF Init, InputFits
<1>2. InputFits /\ [Next]_input => InputFits'
  <2> SUFFICES ASSUME InputFits, [Next]_input PROVE InputFits'
    OBVIOUS
  <2>1. CASE ASteamId
    BY <2>1 DEF ASteamId, Given, InputFits
  <2>2. CASE ATarget
    <3>1. PICK players \in Servers, caller \in Callers, pattern \in Patterns, mode \in Modes :
            Given("target", [players |-> players, caller |-> caller,
                             pattern |-> pattern, mode |-> mode])
      BY <2>2 DEF ATarget
    <3>2. PICK value : value = [players |-> players, caller |-> caller,
                                pattern |-> pattern, mode |-> mode]
      OBVIOUS
    <3>3. value.players \in Servers /\ value.pattern \in Patterns
      BY <3>2
    <3>4. input'.of = "target" /\ input'.value = value
      BY <3>1, <3>2 DEF Given
    <3> QED
      BY <3>3, <3>4 DEF InputFits
  <2>3. CASE AnAdmin
    BY <2>3 DEF AnAdmin, Given, InputFits
  <2>4. CASE AnObject
    BY <2>4 DEF AnObject, Given, InputFits
  <2>5. CASE ASignature
    BY <2>5 DEF ASignature, Given, InputFits
  <2>6. CASE ATable
    BY <2>6 DEF ATable, Given, InputFits
  <2>7. CASE ALookup
    BY <2>7 DEF ALookup, Given, InputFits
  <2>8. CASE ALine
    <3>1. PICK g \in Games, slot \in ReplySlots : Given("print", [game |-> g, slot |-> slot])
      BY <2>8 DEF ALine
    <3>2. input'.of = "print" /\ input'.value.game = g /\ input'.value.slot = slot
      BY <3>1 DEF Given
    <3> QED
      BY <3>2 DEF InputFits
  <2>9. CASE AVoice
    BY <2>9 DEF AVoice, Given, InputFits
  <2>10. CASE AText
    BY <2>10 DEF AText, Given, InputFits
  <2>11. CASE ATranslation
    BY <2>11 DEF ATranslation, Given, InputFits
  <2>12. CASE UNCHANGED input
    BY <2>12 DEF InputFits
  <2> QED
    BY <2>1, <2>2, <2>3, <2>4, <2>5, <2>6, <2>7, <2>8, <2>9, <2>10, <2>11, <2>12 DEF Next
<1> QED
  BY <1>1, <1>2, PTL DEF Spec

\* The slots of a server are finitely many numbers.
LEMMA ServersAreFinite ==
  \A players : IsServer(players) => ArePlayers(players)
<1> SUFFICES ASSUME NEW players, IsServer(players) PROVE ArePlayers(players)
  OBVIOUS
<1>1. IsFiniteSet(AllSlots) /\ AllSlots \subseteq Nat
  BY SlotAssumption, FS_Interval DEF AllSlots
<1>2. DOMAIN players \subseteq AllSlots
  BY DEF IsServer
<1>3. IsFiniteSet(DOMAIN players)
  BY <1>1, <1>2, FS_Subset
<1> QED
  BY <1>1, <1>2, <1>3 DEF IsServer, ArePlayers

\* Whatever is asked: a SteamID names one account in every form, a target pattern
\* names the players that it says and nobody else, and immunity is an order
\* (steamid.h:42, target.h:52-57, admin_access.h:70-78).
THEOREM TargetsFound == Spec => []TargetsAreMeant
<1>1. InputFits => TargetsAreMeant
  <2> SUFFICES ASSUME InputFits PROVE TargetsAreMeant
    OBVIOUS
  <2>1. input.of = "steamid" => SI!AccountsAgree(input.value)
    BY AccountAssumption, AccountsCorrect DEF InputFits
  <2>2. input.of = "admins" => FT!ImmunityIsAnOrder(input.value)
    BY AdminAssumption, ImmunityCorrect DEF InputFits, IsAdmins
  <2>3. input.of = "target" =>
          FT!TargetIsMeant(input.value.caller, input.value.pattern, input.value.players, input.value.mode)
    <3> SUFFICES ASSUME input.of = "target"
                 PROVE  FT!TargetIsMeant(input.value.caller, input.value.pattern,
                                         input.value.players, input.value.mode)
      OBVIOUS
    <3>1. PICK given : given = input.value
      OBVIOUS
    <3>2. /\ ArePlayers(given.players) /\ given.pattern \in Seq(STRING)
      BY <3>1, TargetAssumption, ServersAreFinite DEF InputFits
    <3>3. /\ Wrap \in Nat
          /\ \A text \in DOMAIN SteamIdOf :
               SteamIdOf[text] # FT!NoSteamId /\ text # <<>> /\ text[1] \notin {"@", "$", "#", "&"}
      BY TargetAssumption DEF Marks
    <3>4. \A caller, players, mode : \A pattern \in Seq(STRING) :
            ArePlayers(players) => FT!TargetIsMeant(caller, pattern, players, mode)
      BY <3>3, TargetsCorrect
    <3> QED
      BY <3>1, <3>2, <3>4
  <2> QED
    BY <2>1, <2>2, <2>3 DEF TargetsAreMeant
<1> QED
  BY <1>1, InputsFit, PTL

\* Whatever the memory and whatever was asked before, what is found is the one
\* thing that was looked for (sigscan.h:19-71, schema.h:107-119).
THEOREM LookupsFound == Spec => []LookupsAreUnique
<1>1. InputFits => LookupsAreUnique
  <2> SUFFICES ASSUME InputFits PROVE LookupsAreUnique
    OBVIOUS
  <2>1. input.of = "object" => IsObjectScan(input.value)
    BY MemoryAssumption DEF InputFits
  <2>2. input.of = "signature" => IsSignatureScan(input.value)
    BY MemoryAssumption DEF InputFits
  <2>3. input.of = "vtable" => IsTableScan(input.value)
    BY MemoryAssumption DEF InputFits
  <2>4. input.of = "fields" => IsFieldEvents(input.value)
    BY SchemaAssumption DEF InputFits
  <2> QED
    BY <2>1, <2>2, <2>3, <2>4, ObjectsCorrect, SignaturesCorrect, TablesCorrect, FieldsCorrect
    DEF LookupsAreUnique
<1> QED
  BY <1>1, InputsFit, PTL

\* Whatever the texts and the lines of a phrase: what is found in a text is what
\* printf takes, and a client gets a text that takes the arguments of the phrase
\* (translations.h:35-37).
THEOREM PhrasesFound == Spec => []PhrasesFit
<1>1. InputFits => PhrasesFit
  <2> SUFFICES ASSUME InputFits PROVE PhrasesFit
    OBVIOUS
  <2>1. input.of = "format" => PH!TakesWhatItSays(input.value)
    <3> SUFFICES ASSUME input.of = "format" PROVE PH!TakesWhatItSays(input.value)
      OBVIOUS
    <3> DEFINE C == STRING \cup {"*", "?"}
    <3>1. PICK text : text = input.value
      OBVIOUS
    <3>2. text \in Seq(STRING)
      BY <3>1, PhraseAssumption DEF InputFits
    <3>3. text \in Seq(C) /\ "*" \in C /\ "?" \in C
      BY <3>2
    <3> HIDE DEF C
    <3> QED
      BY <3>1, <3>3, FormatsCorrect
  <2>2. input.of = "translation" =>
          PH!TranslationFits(input.value.phrase, input.value.lines, input.value.config,
                             input.value.default, input.value.language)
    BY PhraseAssumption, TranslationsCorrect DEF InputFits
  <2> QED
    BY <2>1, <2>2 DEF PhrasesFit
<1> QED
  BY <1>1, InputsFit, PTL

\* Whatever the game at a call and whatever was asked of the voice hook: a line
\* reaches the players it is for, and the muted are those that were named last
\* (print.h:64-89, voice_block.h:8-18).
THEOREM ReadersReached == Spec => []LinesReachTheirReaders
<1>1. InputFits => LinesReachTheirReaders
  <2> SUFFICES ASSUME InputFits PROVE LinesReachTheirReaders
    OBVIOUS
  <2>1. input.of = "voice" => VB!HookIsBalanced(input.value)
    BY VoiceAssumption, VoiceCorrect DEF InputFits
  <2>2. input.of = "print" =>
          PR!LinesReachTheirReaders(input.value.game, input.value.slot, "Phrase")
    <3> SUFFICES ASSUME input.of = "print"
                 PROVE  PR!LinesReachTheirReaders(input.value.game, input.value.slot, "Phrase")
      OBVIOUS
    <3>1. PICK g, slot : g = input.value.game /\ slot = input.value.slot
      OBVIOUS
    <3>2. /\ slot \in Int /\ g.maxClients \in 0 .. MAXPLAYERS
          /\ DOMAIN g.language \subseteq 0 .. MAXPLAYERS - 1
      BY <3>1, GameAssumption DEF InputFits, IsGame, AllSlots
    <3> QED
      BY <3>1, <3>2, SlotAssumption, LinesCorrect
  <2> QED
    BY <2>1, <2>2 DEF LinesReachTheirReaders
<1> QED
  BY <1>1, InputsFit, PTL
=============================================================================
