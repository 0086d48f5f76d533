------------------------- MODULE MenusClientProofs -------------------------
(***************************************************************************)
(* Theorems about MenusClient for any number of slots, loads, menus and    *)
(* nested calls.                                                           *)
(***************************************************************************)
EXTENDS MenusClient, SequenceTheorems, TLAPS

(***************************************************************************)
(* Where the plugin stands to the host: whom m_iface points to, and what   *)
(* there can be without an instance of mm-cs2menus.                        *)
(***************************************************************************)
Overlooked == clearing /\ shutting = Idle /\ calls = <<>> /\ instance = 0

LoadCycle ==
  /\ loaded => iface = instance \/ Overlooked
  /\ ~loaded => iface = 0 /\ shutting = Idle
  /\ iface = 0 => live = Empty
  /\ instance = 0 => /\ calls = <<>> /\ shutting = Idle
                     /\ valid = {} /\ history = Empty /\ noticed = {}
  /\ shutting # Idle => shutting.slot \in Slots /\ shutting.step # "idle"
  /\ shutting.step = "cancel" => calls = <<>>

\* A call has no menu to tell or to show but these.
Keeps(call, menus) ==
  /\ call.ending \subseteq menus
  /\ call.op = "display" => call.menu \in menus

\* Every handle that is kept anywhere was made by the instance it is kept for.
Ours ==
  /\ valid \subseteq 1 .. made /\ shutting.left \subseteq 1 .. made
  /\ \A s \in Slots : history[s] \subseteq 1 .. made /\ live[s] \subseteq 1 .. made
  /\ \A i \in 1 .. Len(calls) : Keeps(calls[i], 1 .. made)

USE DEF host, Reasons, Instances, Menus, Through, Destroying, Refresh, Told, MenusGone,
  Recorded, Unload, Revalidate, HideNotice

-----------------------------------------------------------------------------
(* The stack of calls *)

LEMMA Below ==
  ASSUME NEW n \in Nat \ {0}
  PROVE  /\ n \in 1 .. n /\ n - 1 \in Nat /\ (~(1 <= n - 1) => n - 1 = 0)
         /\ (n - 1) - 1 + 1 = n - 1
         /\ \A i \in 1 .. n - 1 : i \in 1 .. n /\ i # n /\ 1 + i - 1 = i
  OBVIOUS

LEMMA CallTypes ==
  ASSUME NEW op \in {"display", "other", "onEnd"}, NEW s \in Slots,
         NEW menu \in {0} \cup Menus, NEW ending \in SUBSET Menus, NEW reason \in Reasons
  PROVE  /\ Call(op, s, menu, ending, reason) \in Calls
         /\ Call(op, s, menu, ending, reason).op = op
         /\ Call(op, s, menu, ending, reason).slot = s
         /\ Call(op, s, menu, ending, reason).menu = menu
         /\ Call(op, s, menu, ending, reason).ending = ending
         /\ Call(op, s, menu, ending, reason).reason = reason
  BY DEF Call, Calls

\* A call begins.
LEMMA EnterStack ==
  ASSUME calls \in Seq(Calls), NEW c \in Calls, Enter(c)
  PROVE  /\ calls' \in Seq(Calls) /\ calls' # <<>>
         /\ Len(calls) \in Nat /\ Len(calls') = Len(calls) + 1
         /\ \A i \in 1 .. Len(calls) : calls'[i] = calls[i]
         /\ calls'[Len(calls) + 1] = c
  BY AppendProperties, LenProperties DEF Enter

\* The innermost call is one of them.
LEMMA InnermostType ==
  ASSUME calls \in Seq(Calls), calls # <<>>
  PROVE  Len(calls) \in Nat \ {0} /\ Len(calls) \in 1 .. Len(calls) /\ Innermost \in Calls
  BY LenProperties, EmptySeq DEF Innermost

\* The innermost call goes on as another.
LEMMA AlterStack ==
  ASSUME calls \in Seq(Calls), calls # <<>>, NEW c \in Calls,
         NEW t, t = [calls EXCEPT ![Len(calls)] = c]
  PROVE  /\ t \in Seq(Calls) /\ t # <<>> /\ Len(t) = Len(calls)
         /\ \A i \in 1 .. Len(calls) - 1 : t[i] = calls[i]
         /\ t[Len(calls)] = c
<1>1. Len(calls) \in Nat \ {0} /\ DOMAIN calls = 1 .. Len(calls)
  BY InnermostType, LenProperties
<1>2. t \in Seq(Calls) /\ Len(t) = Len(calls)
  BY <1>1, ExceptSeq
<1>3. /\ t[Len(calls)] = c /\ Len(calls) \in 1 .. Len(calls)
      /\ \A i \in 1 .. Len(calls) - 1 :
            i \in 1 .. Len(calls) /\ i # Len(calls) /\ t[i] = calls[i]
  <2>1. Len(calls) \in 1 .. Len(calls)
        /\ \A i \in 1 .. Len(calls) - 1 : i \in 1 .. Len(calls) /\ i # Len(calls)
    BY <1>1, Below
  <2>2. \A i \in 1 .. Len(calls) : t[i] = IF i = Len(calls) THEN c ELSE calls[i]
    BY <2>1, ExceptSeq
  <2>3. QED
    BY <2>1, <2>2
<1>4. t # <<>>
  BY <1>1, <1>2, EmptySeq
<1>5. QED
  BY <1>2, <1>3, <1>4

\* The end callback of a menu: the innermost call has one less to tell.
Less(menu) == Call(Innermost.op, Innermost.slot, Innermost.menu,
                   Innermost.ending \ {menu}, Innermost.reason)
OnEnd(menu) == Call("onEnd", Innermost.slot, menu, {}, Innermost.reason)

LEMMA EndedStack ==
  ASSUME calls \in Seq(Calls), calls # <<>>, NEW menu \in Innermost.ending, Ended(menu)
  PROVE  /\ Less(menu) \in Calls /\ OnEnd(menu) \in Calls /\ menu \in Menus
         /\ Innermost.slot \in Slots
         /\ calls' \in Seq(Calls) /\ calls' # <<>> /\ Len(calls') = Len(calls) + 1
         /\ \A i \in 1 .. Len(calls) - 1 : calls'[i] = calls[i]
         /\ calls'[Len(calls)] = Less(menu)
         /\ calls'[Len(calls) + 1] = OnEnd(menu)
<1>1. Innermost \in Calls /\ Len(calls) \in Nat \ {0}
  BY InnermostType
<1>2. menu \in Menus /\ Innermost.slot \in Slots
  BY <1>1 DEF Calls
<1>3. Less(menu) \in Calls /\ OnEnd(menu) \in Calls
  BY <1>1, <1>2 DEF Calls, Call, Less, OnEnd
<1> DEFINE t == [calls EXCEPT ![Len(calls)] = Less(menu)]
<1>4. calls' = Append(t, OnEnd(menu))
  BY <1>1 DEF Ended, Less, OnEnd, Innermost
<1>5. /\ t \in Seq(Calls) /\ Len(t) = Len(calls)
      /\ \A i \in 1 .. Len(calls) - 1 : t[i] = calls[i]
      /\ t[Len(calls)] = Less(menu)
  BY <1>3, AlterStack
<1> HIDE DEF t
<1>6. /\ calls' \in Seq(Calls) /\ Len(calls') = Len(t) + 1
      /\ \A i \in 1 .. Len(t) : calls'[i] = t[i]
      /\ calls'[Len(t) + 1] = OnEnd(menu)
  BY <1>3, <1>4, <1>5, AppendProperties
<1>7. calls' # <<>>
  BY <1>4, <1>5, <1>3, AppendProperties
<1>8. QED
  BY <1>1, <1>2, <1>3, <1>5, <1>6, <1>7

-----------------------------------------------------------------------------
(* The stack as another one with a call on top *)

Extends(t, b, c) ==
  /\ t \in Seq(Calls) /\ b \in Seq(Calls) /\ c \in Calls
  /\ Len(t) = Len(b) + 1
  /\ \A i \in 1 .. Len(b) : t[i] = b[i]
  /\ t[Len(t)] = c

LEMMA EnterExtends ==
  ASSUME calls \in Seq(Calls), NEW c \in Calls, Enter(c)
  PROVE  Extends(calls', calls, c)
  BY EnterStack DEF Extends

LEMMA InnermostExtends ==
  ASSUME calls \in Seq(Calls), calls # <<>>
  PROVE  Extends(calls, Outer, Innermost)
<1> DEFINE t == Outer
<1>1. Len(calls) \in Nat \ {0} /\ Innermost \in Calls
  BY InnermostType
<1>2. /\ Outer \in Seq(Calls) /\ Len(Outer) = Len(calls) - 1
      /\ \A i \in 1 .. Len(Outer) : Outer[i] = calls[i]
  <2>1. 1 \in Int /\ Len(calls) - 1 \in Int
    BY <1>1
  <2>2. \A i \in 1 .. (Len(calls) - 1) : calls[i] \in Calls
    BY <1>1, LenProperties
  <2> DEFINE n == Len(calls) - 1
  <2>3. /\ SubSeq(calls, 1, n) \in Seq(Calls)
        /\ Len(SubSeq(calls, 1, n)) = IF 1 <= n THEN n - 1 + 1 ELSE 0
        /\ \A i \in 1 .. n - 1 + 1 : SubSeq(calls, 1, n)[i] = calls[1 + i - 1]
    BY <2>1, <2>2, SubSeqProperties
  <2>4. n - 1 + 1 = n /\ (~(1 <= n) => n = 0) /\ \A i \in 1 .. n : 1 + i - 1 = i
    BY <1>1, Below
  <2>5. QED
    BY <2>3, <2>4 DEF Outer
<1>3. Len(calls) = Len(Outer) + 1
  BY <1>1, <1>2
<1>4. QED
  BY <1>1, <1>2, <1>3 DEF Extends, Innermost

LEMMA AlterExtends ==
  ASSUME calls \in Seq(Calls), calls # <<>>, NEW c \in Calls,
         NEW t, t = [calls EXCEPT ![Len(calls)] = c]
  PROVE  Extends(t, Outer, c)
<1>1. Extends(calls, Outer, Innermost)
  BY InnermostExtends
<1>2. /\ t \in Seq(Calls) /\ Len(t) = Len(calls) /\ t[Len(t)] = c
      /\ \A i \in 1 .. Len(calls) - 1 : t[i] = calls[i]
  BY AlterStack
<1>3. Len(calls) - 1 = Len(Outer)
  BY <1>1, LenProperties DEF Extends
<1>4. QED
  BY <1>1, <1>2, <1>3 DEF Extends

LEMMA EndedExtends ==
  ASSUME calls \in Seq(Calls), calls # <<>>, NEW menu \in Innermost.ending, Ended(menu)
  PROVE  \E t : Extends(t, Outer, Less(menu)) /\ Extends(calls', t, OnEnd(menu))
<1>1. Less(menu) \in Calls /\ OnEnd(menu) \in Calls
  BY EndedStack
<1>2. calls' = Append([calls EXCEPT ![Len(calls)] = Less(menu)], OnEnd(menu))
  <2>1. Len(calls) \in DOMAIN calls
    BY InnermostType, LenProperties
  <2>2. QED
    BY <2>1 DEF Ended, Less, OnEnd, Innermost
<1> DEFINE t == [calls EXCEPT ![Len(calls)] = Less(menu)]
<1>3. Extends(t, Outer, Less(menu))
  BY <1>1, AlterExtends
<1>4. Extends(calls', t, OnEnd(menu))
  <2> HIDE DEF t
  <2>1. calls' = Append(t, OnEnd(menu)) /\ t \in Seq(Calls)
    BY <1>2, <1>3 DEF Extends, t
  <2>2. QED
    BY <1>1, <2>1, AppendProperties DEF Extends
<1>5. QED
  BY <1>3, <1>4

\* What holds of every call of a stack.
LEMMA EveryCall ==
  ASSUME NEW t, NEW b, NEW c, Extends(t, b, c)
  PROVE  /\ \A i \in 1 .. Len(t) : t[i] = c \/ \E j \in 1 .. Len(b) : t[i] = b[j]
         /\ \A j \in 1 .. Len(b) : j \in 1 .. Len(t) /\ t[j] = b[j]
         /\ Len(t) \in 1 .. Len(t) /\ Len(t) \notin 1 .. Len(b) /\ t[Len(t)] = c
<1>1. Len(b) \in Nat /\ Len(t) = Len(b) + 1
  BY LenProperties DEF Extends
<1>2. \A i \in 1 .. Len(t) : i = Len(t) \/ i \in 1 .. Len(b)
  BY <1>1
<1>3. \A j \in 1 .. Len(b) : j \in 1 .. Len(t)
  BY <1>1
<1>4. Len(t) \in 1 .. Len(t) /\ Len(t) \notin 1 .. Len(b)
  BY <1>1
<1>5. QED
  BY <1>2, <1>3, <1>4 DEF Extends

-----------------------------------------------------------------------------
(* Types *)

LEMMA SlotTypes ==
  /\ Slots # {} /\ 1 \in Slots /\ Slots \subseteq Nat
  /\ Empty \in [Slots -> SUBSET Menus]
  /\ Idle \in [slot : {0} \cup Slots, step : {"idle", "cancel", "copy", "destroy"},
               left : SUBSET Menus]
<1>1. 1 \in Slots /\ Slots \subseteq Nat
  BY MenusAssumption DEF Slots
<1>2. QED
  BY <1>1 DEF Empty, Idle

LEMMA MenusTypeInit == Init => TypeOK
<1> SUFFICES ASSUME Init PROVE TypeOK
  OBVIOUS
<1>1. instances \in 0 .. MaxInstances /\ made \in 0 .. MaxMenus
  BY MenusAssumption DEF Init
<1>2. calls \in Seq(Calls) /\ noticed \subseteq Slots /\ valid \subseteq Menus
  BY DEF Init
<1>3. QED
  BY <1>1, <1>2, SlotTypes DEF Init, TypeOK

\* The next number of a menu or an instance is within the bound.
LEMMA NextNumber ==
  ASSUME NEW n \in Nat, NEW k \in 0 .. n, k < n
  PROVE  k + 1 \in 0 .. n /\ k + 1 \in 1 .. n
  OBVIOUS

LEMMA Zero == 0 \in 0 .. MaxMenus
  BY MenusAssumption

LEMMA Within ==
  ASSUME NEW n \in Nat, NEW k \in 0 .. n
  PROVE  1 .. k \subseteq 1 .. n
  OBVIOUS

LEMMA EndDisplayTypes ==
  ASSUME TypeOK, NEW s \in Slots, NEW reason \in Reasons, EndDisplay(s, reason)
  PROVE  /\ calls' \in Seq(Calls) /\ history' \in [Slots -> SUBSET Menus]
         /\ Call("other", s, 0, history[s], reason) \in Calls
<1>1. history[s] \in SUBSET Menus
  BY DEF TypeOK
<1>2. Call("other", s, 0, history[s], reason) \in Calls
  BY <1>1, CallTypes
<1>3. calls' \in Seq(Calls)
  BY <1>2, EnterStack DEF EndDisplay, TypeOK
<1>4. QED
  BY <1>2, <1>3 DEF EndDisplay, TypeOK

LEMMA PresentTypes ==
  ASSUME TypeOK, NEW s \in Slots, Present(s)
  PROVE  TypeOK'
<1> USE DEF TypeOK
<1>1. made' \in 0 .. MaxMenus /\ made' \in Menus /\ made' = made + 1
  <2>1. made \in 0 .. MaxMenus /\ made < MaxMenus /\ made' = made + 1
    BY Zenon DEF Present
  <2>2. QED
    BY <2>1, NextNumber, MenusAssumption, Zenon
<1>2. valid' \subseteq Menus /\ live' \in [Slots -> SUBSET Menus]
  BY <1>1 DEF Present
<1>3. misused' \subseteq {"gone instance", "not a menu of ours"}
  BY DEF Present
<1>4. calls' \in Seq(Calls) /\ history' \in [Slots -> SUBSET Menus]
  <2>1. CASE Enter(Call("display", s, made', history[s], "Cancelled"))
             /\ history' = [history EXCEPT ![s] = {}]
    <3>1. history[s] \in SUBSET Menus /\ made' \in {0} \cup Menus
      BY <1>1
    <3>2. Call("display", s, made', history[s], "Cancelled") \in Calls
      BY <3>1, CallTypes, Zenon
    <3>3. QED
      BY <2>1, <3>2, EnterStack
  <2>2. ASSUME NEW dropped \in SUBSET history[s],
               Enter(Call("other", s, made', dropped, "Cancelled")),
               history' = [history EXCEPT ![s] = (@ \ dropped) \cup {made'}]
        PROVE  calls' \in Seq(Calls) /\ history' \in [Slots -> SUBSET Menus]
    <3>1. dropped \in SUBSET Menus /\ made' \in {0} \cup Menus
      BY <1>1
    <3>4. Call("other", s, made', dropped, "Cancelled") \in Calls
      BY <3>1, CallTypes, Zenon
    <3>2. calls' \in Seq(Calls)
      BY <2>2, <3>4, EnterStack
    <3>3. history[s] \in SUBSET Menus
      OBVIOUS
    <3>5. QED
      BY <1>1, <2>2, <3>2, <3>3
  <2>3. QED
    BY <2>1, <2>2 DEF Present
<1>5. QED
  BY <1>1, <1>2, <1>3, <1>4 DEF Present

\* The two ways a display goes on when its callbacks have run: the slot stayed
\* free, or one of them showed another menu there, which is ended in turn.
ShowNow(s) ==
  /\ history[s] = {}
  /\ history' = [history EXCEPT ![s] = {Innermost.menu}]
  /\ calls' = Outer

EndAnother(s) ==
  /\ history[s] # {}
  /\ history' = [history EXCEPT ![s] = {}]
  /\ calls' = [calls EXCEPT ![Len(calls)] =
                  Call("display", s, Innermost.menu, history[s], "Cancelled")]

LEMMA DisplayedSteps ==
  ASSUME TypeOK, Displayed
  PROVE  /\ calls # <<>> /\ Innermost \in Calls
         /\ Innermost.slot \in Slots /\ Innermost.menu \in {0} \cup Menus
         /\ Innermost.op = "display" /\ Innermost.ending = {}
         /\ ShowNow(Innermost.slot) \/ EndAnother(Innermost.slot)
         /\ Call("display", Innermost.slot, Innermost.menu, history[Innermost.slot],
                 "Cancelled") \in Calls
         /\ UNCHANGED <<host, valid, noticed, clearing, iface, live, loaded, shutting,
                        misused>>
<1>1. calls # <<>> /\ calls \in Seq(Calls)
  BY DEF Displayed, TypeOK
<1>2. Innermost \in Calls
  BY <1>1, InnermostType
<1>3. Innermost.slot \in Slots /\ Innermost.menu \in {0} \cup Menus
  BY <1>2 DEF Calls
<1>4. history[Innermost.slot] \in SUBSET Menus
  BY <1>3 DEF TypeOK
<1>5. Call("display", Innermost.slot, Innermost.menu, history[Innermost.slot],
           "Cancelled") \in Calls
  BY <1>3, <1>4, CallTypes
<1>6. Innermost.op = "display" /\ Innermost.ending = {}
      /\ UNCHANGED <<host, valid, noticed, clearing, iface, live, loaded, shutting,
                     misused>>
  BY Zenon DEF Displayed
<1>7. ShowNow(Innermost.slot) \/ EndAnother(Innermost.slot)
  BY Zenon DEF Displayed, ShowNow, EndAnother
<1>8. QED
  BY <1>1, <1>2, <1>3, <1>5, <1>6, <1>7

\* Where Shutdown can be.
Progress == [slot : {0} \cup Slots, step : {"idle", "cancel", "copy", "destroy"},
             left : SUBSET Menus]

LEMMA ShuttingTypes ==
  ASSUME NEW s \in {0} \cup Slots, NEW step \in {"idle", "cancel", "copy", "destroy"},
         NEW left \in SUBSET Menus
  PROVE  [slot |-> s, step |-> step, left |-> left] \in Progress
  BY DEF Progress

LEMMA ShuttingLeft ==
  ASSUME NEW r \in Progress, NEW menu
  PROVE  /\ [r EXCEPT !.left = @ \ {menu}] \in Progress
         /\ [r EXCEPT !.left = @ \ {menu}].left = r.left \ {menu}
         /\ [r EXCEPT !.left = @ \ {menu}].slot = r.slot
         /\ [r EXCEPT !.left = @ \ {menu}].step = r.step
  BY DEF Progress

LEMMA ShuttingCopies ==
  ASSUME NEW r \in Progress
  PROVE  /\ [r EXCEPT !.step = "copy"] \in Progress
         /\ [r EXCEPT !.step = "copy"].left = r.left
         /\ [r EXCEPT !.step = "copy"].slot = r.slot
         /\ [r EXCEPT !.step = "copy"].step = "copy"
  BY DEF Progress

LEMMA MenusTypeStep ==
  ASSUME TypeOK, LoadCycle, Ours, [Next]_vars
  PROVE  TypeOK'
<1> USE MenusAssumption, SlotTypes DEF TypeOK
<1>1. ASSUME NEW s \in Slots, Present(s) PROVE TypeOK'
  BY <1>1, PresentTypes
<1>2. ASSUME NEW s \in Slots, PresentRefused(s) PROVE TypeOK'
  <2>1. made \in 0 .. MaxMenus /\ made < MaxMenus /\ made' = made + 1
    BY <1>2, Zenon DEF PresentRefused
  <2>2. made' \in 0 .. MaxMenus
    BY <2>1, NextNumber, Zenon
  <2>3. QED
    BY <1>2, <2>2 DEF PresentRefused
<1>3. ASSUME NEW s \in Slots, ShowNotice(s) PROVE TypeOK'
  BY <1>3 DEF ShowNotice
<1>4. ASSUME NEW s \in Slots, Close(s) PROVE TypeOK'
  BY <1>4, EndDisplayTypes DEF Close
<1>5. ASSUME NEW s \in Slots, NoticeEnds(s) PROVE TypeOK'
  BY <1>5 DEF NoticeEnds
<1>6. CASE Displayed
  <2>1. /\ calls # <<>> /\ Innermost.slot \in Slots /\ Innermost.menu \in {0} \cup Menus
        /\ Innermost \in Calls /\ Innermost.op = "display"
        /\ ShowNow(Innermost.slot) \/ EndAnother(Innermost.slot)
    BY <1>6, DisplayedSteps
  <2>2. Innermost.menu \in Menus
    <3>1. Len(calls) \in 1 .. Len(calls)
      BY <2>1, InnermostType
    <3>2. Innermost.menu \in 1 .. made
      BY <2>1, <3>1 DEF Ours, Keeps, Innermost
    <3>3. 1 .. made \subseteq Menus
      BY Within, MenusAssumption
    <3>4. QED
      BY <3>2, <3>3, Zenon
  <2>3. calls' \in Seq(Calls) /\ history' \in [Slots -> SUBSET Menus]
    <3>1. CASE ShowNow(Innermost.slot)
      BY <2>1, <2>2, <3>1, InnermostExtends DEF ShowNow, Extends
    <3>2. CASE EndAnother(Innermost.slot)
      <4>1. Call("display", Innermost.slot, Innermost.menu, history[Innermost.slot],
                 "Cancelled") \in Calls
        BY <1>6, DisplayedSteps
      <4>2. calls' \in Seq(Calls)
        BY <2>1, <3>2, <4>1, AlterStack DEF EndAnother
      <4>3. QED
        BY <2>1, <3>2, <4>2 DEF EndAnother
    <3>3. QED
      BY <2>1, <3>1, <3>2
  <2>4. QED
    BY <1>6, <2>3 DEF Displayed
<1>7. CASE End
  <2>1. PICK menu \in Innermost.ending : Ended(menu)
    BY <1>7 DEF End
  <2>2. calls' \in Seq(Calls) /\ Innermost.slot \in Slots
    BY <1>7, <2>1, EndedStack DEF End
  <2>3. live' \in [Slots -> SUBSET Menus] /\ valid' \subseteq Menus
        /\ misused' \subseteq {"gone instance", "not a menu of ours"}
    BY <2>1, <2>2 DEF Ended
  <2>4. QED
    BY <1>7, <2>2, <2>3 DEF End
<1>8. CASE Return
  <2>1. calls' \in Seq(Calls)
    BY <1>8, InnermostExtends DEF Return, Extends
  <2>2. QED
    BY <1>8, <2>1 DEF Return
<1>9. CASE MenusLoad
  <2>1. instances' \in 0 .. MaxInstances /\ instance' \in Instances
    <3>1. instances \in 0 .. MaxInstances /\ instances < MaxInstances
          /\ instances' = instances + 1 /\ instance' = instances'
      BY <1>9, Zenon DEF MenusLoad
    <3>2. QED
      BY <3>1, NextNumber, Zenon
  <2>2. /\ iface' \in {0} \cup Instances /\ live' \in [Slots -> SUBSET Menus]
        /\ made' = 0
        /\ UNCHANGED <<valid, history, noticed, clearing, loaded, shutting, calls,
                       misused>>
    BY <1>9, <2>1 DEF MenusLoad
  <2>3. 0 \in 0 .. MaxMenus
    BY Zero
  <2>4. QED
    BY <2>1, <2>2, <2>3
<1>10. CASE MenusUnload \/ MenusCleared \/ MetaClear
  BY <1>10 DEF MenusUnload, MenusCleared, MetaClear
<1>11. CASE ShutdownBegin
  <2>1. shutting' = Idle \/ shutting' = [slot |-> 1, step |-> "cancel", left |-> {}]
    BY <1>11 DEF ShutdownBegin
  <2>2. shutting' \in Progress
    <3>1. Idle \in Progress /\ [slot |-> 1, step |-> "cancel", left |-> {}] \in Progress
      BY ShuttingTypes DEF Progress
    <3>2. QED
      BY <2>1, <3>1
  <2>3. iface' \in {0} \cup Instances /\ live' \in [Slots -> SUBSET Menus]
        /\ loaded' \in BOOLEAN
    BY <1>11 DEF ShutdownBegin
  <2>4. UNCHANGED <<host, valid, history, noticed, clearing, calls, misused>>
    BY <1>11 DEF ShutdownBegin
  <2>5. QED
    BY <2>2, <2>3, <2>4 DEF Progress
<1>12. CASE ShutdownCancel
  <2>1. shutting.slot \in Slots
    BY <1>12 DEF ShutdownCancel, LoadCycle, Idle
  <2>2. calls' \in Seq(Calls) /\ history' \in [Slots -> SUBSET Menus]
    BY <1>12, <2>1, EndDisplayTypes DEF ShutdownCancel
  <2>3. QED
    BY <1>12, <2>2 DEF ShutdownCancel
<1>13. CASE ShutdownCopy
  <2>1. shutting.slot \in Slots
    BY <1>13 DEF ShutdownCopy, LoadCycle, Idle
  <2>2. QED
    BY <1>13, <2>1 DEF ShutdownCopy
<1>14. CASE ShutdownDestroy
  <2>1. shutting.slot \in Slots
    BY <1>14 DEF ShutdownDestroy, LoadCycle, Idle
  <2>2. calls' \in Seq(Calls) /\ history' \in [Slots -> SUBSET Menus]
    BY <1>14, <2>1, EndDisplayTypes DEF ShutdownDestroy
  <2>3. shutting' \in Progress
    <3>1. shutting \in Progress
      BY DEF Progress
    <3>2. PICK menu \in shutting.left : shutting' = [shutting EXCEPT !.left = @ \ {menu}]
      BY <1>14, Zenon DEF ShutdownDestroy
    <3>3. QED
      BY <3>1, <3>2, ShuttingLeft
  <2>4. valid' \subseteq Menus /\ misused' \subseteq {"gone instance", "not a menu of ours"}
        /\ UNCHANGED <<host, noticed, clearing, iface, live, loaded>>
    BY <1>14 DEF ShutdownDestroy
  <2>5. QED
    BY <2>2, <2>3, <2>4 DEF Progress
<1>15. CASE ShutdownNext
  <2>1. \/ shutting' = Idle
        \/ /\ shutting.slot + 1 \in Slots
           /\ shutting' = [slot |-> shutting.slot + 1, step |-> "cancel", left |-> {}]
    BY <1>15 DEF ShutdownNext
  <2>2. shutting' \in Progress
    <3>1. Idle \in Progress
      BY DEF Progress
    <3>2. shutting.slot + 1 \in Slots =>
            [slot |-> shutting.slot + 1, step |-> "cancel", left |-> {}] \in Progress
      BY ShuttingTypes
    <3>3. QED
      BY <2>1, <3>1, <3>2
  <2>3. iface' \in {0} \cup Instances /\ live' \in [Slots -> SUBSET Menus]
        /\ loaded' \in BOOLEAN
    BY <1>15 DEF ShutdownNext
  <2>4. UNCHANGED <<host, valid, history, noticed, clearing, calls, misused>>
    BY <1>15 DEF ShutdownNext
  <2>5. QED
    BY <2>2, <2>3, <2>4 DEF Progress
<1>16. CASE UNCHANGED vars
  BY <1>16 DEF vars
<1>17. QED
  BY <1>1, <1>2, <1>3, <1>4, <1>5, <1>6, <1>7, <1>8, <1>9, <1>10, <1>11, <1>12, <1>13,
     <1>14, <1>15, <1>16 DEF Next, Consumer, Metamod, Shutdown

-----------------------------------------------------------------------------
(* Where the plugin stands to the host *)

LEMMA IdleFields == Idle.slot = 0 /\ Idle.step = "idle" /\ Idle.left = {}
  BY DEF Idle

\* Whoever shows something, or ends what is shown, calls an instance that is there.
LEMMA ShowingLinked ==
  ASSUME LoadCycle, NEW s \in Slots, Showing(s)
  PROVE  loaded /\ iface = instance /\ instance # 0 /\ shutting.step # "cancel"
  BY IdleFields DEF LoadCycle, Showing, Running, Overlooked

LEMMA CallsLinked ==
  ASSUME LoadCycle, calls # <<>>
  PROVE  instance # 0 /\ (loaded => iface = instance) /\ shutting.step # "cancel"
  BY DEF LoadCycle, Overlooked

\* Shutdown begins by asking Metamod again, and nothing is unloaded during it.
LEMMA ShuttingLinked ==
  ASSUME LoadCycle, shutting # Idle
  PROVE  loaded /\ iface = instance /\ instance # 0 /\ shutting.slot \in Slots
  BY DEF LoadCycle, Overlooked

\* A display ends at an instance that is there, and not during its CancelMenu.
LEMMA CloseLinked ==
  ASSUME LoadCycle, NEW s \in Slots, Close(s)
  PROVE  instance # 0 /\ (loaded => iface = instance) /\ shutting.step # "cancel"
<1>1. history[s] # {} /\ (calls = <<>> => shutting = Idle /\ ~clearing)
  BY DEF Close, Running, Told
<1>2. instance # 0
  BY <1>1 DEF LoadCycle, Empty
<1>3. loaded => iface = instance
  BY <1>2 DEF LoadCycle, Overlooked
<1>4. shutting.step # "cancel"
  BY <1>1, IdleFields DEF LoadCycle
<1>5. QED
  BY <1>2, <1>3, <1>4

LEMMA MenusLoadCycleInit == Init => LoadCycle
  BY IdleFields DEF Init, LoadCycle, Overlooked

LEMMA LoadCycleStep ==
  ASSUME TypeOK, LoadCycle, [Next]_vars
  PROVE  LoadCycle'
<1> USE IdleFields
<1>1. ASSUME NEW s \in Slots, Present(s) PROVE LoadCycle'
  <2>1. loaded /\ iface = instance /\ instance # 0 /\ shutting.step # "cancel"
    BY <1>1, ShowingLinked DEF Present
  <2>2. UNCHANGED <<instance, iface, loaded, shutting>>
    BY <1>1 DEF Present
  <2>3. QED
    BY <2>1, <2>2 DEF LoadCycle
<1>2. ASSUME NEW s \in Slots, PresentRefused(s) PROVE LoadCycle'
  BY <1>2 DEF PresentRefused, LoadCycle, Overlooked
<1>3. ASSUME NEW s \in Slots, ShowNotice(s) PROVE LoadCycle'
  <2>1. instance # 0
    BY <1>3, ShowingLinked DEF ShowNotice
  <2>2. UNCHANGED <<instance, iface, loaded, shutting, calls, clearing, live>>
    BY <1>3 DEF ShowNotice
  <2>3. QED
    BY <2>1, <2>2 DEF LoadCycle, Overlooked
<1>4. ASSUME NEW s \in Slots, Close(s) PROVE LoadCycle'
  <2>1. instance # 0 /\ (loaded => iface = instance) /\ shutting.step # "cancel"
    BY <1>4, CloseLinked
  <2>2. UNCHANGED <<instance, iface, loaded, shutting, clearing, live>>
    BY <1>4 DEF Close
  <2>3. QED
    BY <2>1, <2>2 DEF LoadCycle, Overlooked
<1>5. ASSUME NEW s \in Slots, NoticeEnds(s) PROVE LoadCycle'
  BY <1>5 DEF NoticeEnds, LoadCycle, Overlooked
<1>6. CASE Displayed
  <2>1. instance # 0 /\ (loaded => iface = instance) /\ shutting.step # "cancel"
    BY <1>6, CallsLinked DEF Displayed
  <2>2. UNCHANGED <<instance, iface, loaded, shutting, clearing, live>>
    BY <1>6, DisplayedSteps
  <2>3. QED
    BY <2>1, <2>2 DEF LoadCycle, Overlooked
<1>7. CASE End
  <2>1. PICK menu \in Innermost.ending : Ended(menu)
    BY <1>7 DEF End
  <2>2. instance # 0 /\ (loaded => iface = instance) /\ shutting.step # "cancel"
    BY <1>7, CallsLinked DEF End
  <2>3. UNCHANGED <<instance, iface, loaded, shutting, clearing>>
    BY <1>7 DEF End
  <2>4. live = Empty => live' = Empty
    BY <2>1 DEF Ended, Empty
  <2>5. QED
    BY <2>2, <2>3, <2>4 DEF LoadCycle, Overlooked
<1>8. CASE Return
  <2>1. instance # 0 /\ (loaded => iface = instance) /\ shutting.step # "cancel"
    BY <1>8, CallsLinked DEF Return
  <2>2. UNCHANGED <<instance, iface, loaded, shutting, clearing, live>>
    BY <1>8 DEF Return
  <2>3. QED
    BY <2>1, <2>2 DEF LoadCycle, Overlooked
<1>9. CASE MenusLoad
  <2>1. /\ UNCHANGED <<valid, history, noticed, clearing, loaded, shutting, calls>>
        /\ shutting = Idle /\ instance' # 0
        /\ IF loaded THEN iface' = instance' ELSE UNCHANGED <<iface, live>>
    <3>1. instances \in 0 .. MaxInstances /\ instances < MaxInstances
          /\ instances' = instances + 1
      BY <1>9, Zenon DEF MenusLoad, TypeOK
    <3>2. instances' \in 1 .. MaxInstances
      BY <3>1, NextNumber, MenusAssumption, Zenon
    <3>3. QED
      BY <1>9, <3>2 DEF MenusLoad
  <2>2. QED
    BY <2>1 DEF LoadCycle, Overlooked
<1>10. CASE MenusUnload
  BY <1>10 DEF MenusUnload, LoadCycle, Overlooked
<1>11. CASE MetaClear
  BY <1>11 DEF MetaClear, LoadCycle, Overlooked
<1>12. CASE MenusCleared
  BY <1>12 DEF MenusCleared, LoadCycle, Overlooked
<1>13. CASE ShutdownBegin
  <2>1. CASE instance = 0
    BY <1>13, <2>1 DEF ShutdownBegin, LoadCycle, Overlooked
  <2>2. CASE instance # 0
    <3>1. /\ shutting' = [slot |-> 1, step |-> "cancel", left |-> {}]
          /\ iface' = instance /\ calls' = <<>> /\ loaded'
          /\ UNCHANGED <<instance, live>>
      BY <1>13, <2>2 DEF ShutdownBegin
    <3>2. shutting'.slot = 1 /\ shutting'.step = "cancel" /\ 1 \in Slots
      BY <3>1, SlotTypes
    <3>3. QED
      BY <2>2, <3>1, <3>2 DEF LoadCycle
  <2>3. QED
    BY <2>1, <2>2
<1>14. ASSUME shutting # Idle, shutting'.slot = shutting.slot,
              shutting'.step \in {"copy", "destroy"},
              UNCHANGED <<instance, iface, loaded, live>>
       PROVE  LoadCycle'
  BY <1>14, ShuttingLinked DEF LoadCycle
<1>15. CASE ShutdownCancel
  <2>1. shutting # Idle /\ shutting \in Progress
    BY <1>15 DEF ShutdownCancel, TypeOK, Progress
  <2>2. shutting'.slot = shutting.slot /\ shutting'.step = "copy"
    BY <1>15, <2>1, ShuttingCopies DEF ShutdownCancel
  <2>3. QED
    BY <1>14, <1>15, <2>1, <2>2 DEF ShutdownCancel
<1>16. CASE ShutdownCopy
  <2>1. shutting # Idle
    BY <1>16 DEF ShutdownCopy
  <2>2. shutting'.slot = shutting.slot /\ shutting'.step = "destroy"
    BY <1>16 DEF ShutdownCopy
  <2>3. QED
    BY <1>14, <1>16, <2>1, <2>2 DEF ShutdownCopy
<1>17. CASE ShutdownDestroy
  <2>1. shutting # Idle /\ shutting \in Progress /\ shutting.step = "destroy"
    BY <1>17 DEF ShutdownDestroy, TypeOK, Progress
  <2>2. \E menu \in shutting.left : shutting' = [shutting EXCEPT !.left = @ \ {menu}]
    BY <1>17, Zenon DEF ShutdownDestroy
  <2>3. shutting'.slot = shutting.slot /\ shutting'.step = "destroy"
    BY <2>1, <2>2, ShuttingLeft
  <2>4. QED
    BY <1>14, <1>17, <2>1, <2>3 DEF ShutdownDestroy
<1>18. CASE ShutdownNext
  <2>1. shutting # Idle /\ calls = <<>> /\ UNCHANGED <<instance, calls>>
        /\ UNCHANGED <<valid, history, noticed>>
    BY <1>18 DEF ShutdownNext
  <2>2. CASE shutting.slot + 1 \in Slots
    <3>1. /\ shutting' = [slot |-> shutting.slot + 1, step |-> "cancel", left |-> {}]
          /\ UNCHANGED <<iface, live, loaded>>
      BY <1>18, <2>2 DEF ShutdownNext
    <3>2. shutting'.slot \in Slots /\ shutting'.step = "cancel"
      BY <2>2, <3>1
    <3>3. QED
      BY <2>1, <3>1, <3>2, ShuttingLinked DEF LoadCycle
  <2>3. CASE ~(shutting.slot + 1 \in Slots)
    BY <1>18, <2>1, <2>3 DEF ShutdownNext, LoadCycle
  <2>4. QED
    BY <2>2, <2>3
<1>19. CASE UNCHANGED vars
  BY <1>19 DEF vars, LoadCycle, Overlooked
<1>20. QED
  BY <1>1, <1>2, <1>3, <1>4, <1>5, <1>6, <1>7, <1>8, <1>9, <1>10, <1>11, <1>12, <1>13,
     <1>15, <1>16, <1>17, <1>18, <1>19 DEF Next, Consumer, Metamod, Shutdown

-----------------------------------------------------------------------------
(* Handles *)

Kept(t, menus) == \A i \in 1 .. Len(t) : Keeps(t[i], menus)

LEMMA KeptOnTop ==
  ASSUME NEW t, NEW b, NEW c, Extends(t, b, c), NEW menus
  PROVE  Kept(t, menus) <=> Kept(b, menus) /\ Keeps(c, menus)
  BY EveryCall DEF Kept

LEMMA OursSteps ==
  Ours <=> /\ valid \subseteq 1 .. made /\ shutting.left \subseteq 1 .. made
           /\ \A s \in Slots : history[s] \subseteq 1 .. made /\ live[s] \subseteq 1 .. made
           /\ Kept(calls, 1 .. made)
  BY DEF Ours, Kept

LEMMA MenusOursInit == Init => Ours
  BY IdleFields DEF Init, Ours, Empty

LEMMA EndDisplayKept ==
  ASSUME TypeOK, NEW s \in Slots, NEW reason \in Reasons, EndDisplay(s, reason),
         NEW menus, Kept(calls, menus), \A u \in Slots : history[u] \subseteq menus
  PROVE  Kept(calls', menus) /\ \A u \in Slots : history'[u] \subseteq menus
<1> DEFINE c == Call("other", s, 0, history[s], reason)
<1>1. c \in Calls /\ Enter(c) /\ calls \in Seq(Calls)
  BY EndDisplayTypes DEF EndDisplay, TypeOK
<1>2. Keeps(c, menus)
  BY DEF Keeps, Call
<1> HIDE DEF c
<1>3. Kept(calls', menus)
  BY <1>1, <1>2, EnterExtends, KeptOnTop
<1>4. history' = [history EXCEPT ![s] = {}] /\ history \in [Slots -> SUBSET Menus]
  BY DEF EndDisplay, TypeOK
<1>5. QED
  BY <1>3, <1>4

LEMMA OneMore ==
  ASSUME NEW n \in Nat
  PROVE  1 .. n \subseteq 1 .. (n + 1) /\ n + 1 \in 1 .. (n + 1) /\ n + 1 \notin 1 .. n
  OBVIOUS

LEMMA KeptMore ==
  ASSUME NEW t, NEW few, NEW many, few \subseteq many, Kept(t, few)
  PROVE  Kept(t, many)
  BY DEF Kept, Keeps

LEMMA OursStep ==
  ASSUME TypeOK, LoadCycle, Ours, [Next]_vars
  PROVE  Ours'
<1> DEFINE mine == 1 .. made
<1>a. /\ valid \subseteq mine /\ shutting.left \subseteq mine
      /\ \A s \in Slots : history[s] \subseteq mine /\ live[s] \subseteq mine
      /\ Kept(calls, mine)
  BY OursSteps
<1>b. ASSUME valid' \subseteq 1 .. made', shutting'.left \subseteq 1 .. made',
             \A s \in Slots : history'[s] \subseteq 1 .. made' /\ live'[s] \subseteq 1 .. made',
             Kept(calls', 1 .. made')
      PROVE  Ours'
  BY <1>b DEF Ours, Kept
<1>t. /\ calls \in Seq(Calls) /\ history \in [Slots -> SUBSET Menus]
      /\ live \in [Slots -> SUBSET Menus] /\ made \in Nat /\ shutting \in Progress
  <2>1. made \in Nat
    <3>1. made \in 0 .. MaxMenus
      BY DEF TypeOK
    <3>2. QED
      BY <3>1
  <2>2. QED
    BY <2>1 DEF TypeOK, Progress
<1>m. 1 .. made \subseteq 1 .. (made + 1) /\ made + 1 \in 1 .. (made + 1)
  BY <1>t, OneMore
<1>1. ASSUME NEW s \in Slots, Present(s) PROVE Ours'
  <2> DEFINE more == 1 .. (made + 1)
             menu == made + 1
  <2>1. /\ made' = menu /\ valid' = valid \cup {menu}
        /\ live' = [live EXCEPT ![s] = @ \cup {menu}]
        /\ shutting' = shutting
    BY <1>1, Zenon DEF Present
  <2>2. Kept(calls, more)
    BY <1>a, <1>m, KeptMore
  <2>3. menu \in Menus
    <3>1. made \in 0 .. MaxMenus /\ made < MaxMenus
      BY <1>1, Zenon DEF Present, TypeOK
    <3>2. QED
      BY <3>1, NextNumber, MenusAssumption, Zenon
  <2>4. Kept(calls', more) /\ \A u \in Slots : history'[u] \subseteq more
    <3>1. CASE Enter(Call("display", s, menu, history[s], "Cancelled"))
               /\ history' = [history EXCEPT ![s] = {}]
      <4> DEFINE c == Call("display", s, menu, history[s], "Cancelled")
      <4>1. c \in Calls
        BY <1>t, <2>3, CallTypes
      <4>2. Keeps(c, more)
        BY <1>a, <1>m DEF Keeps, Call
      <4>3. Enter(c)
        BY <3>1
      <4> HIDE DEF c
      <4>4. Kept(calls', more)
        BY <1>t, <2>2, <4>1, <4>2, <4>3, EnterExtends, KeptOnTop
      <4>5. QED
        BY <1>a, <1>m, <1>t, <3>1, <4>4
    <3>2. ASSUME NEW dropped \in SUBSET history[s],
                 Enter(Call("other", s, menu, dropped, "Cancelled")),
                 history' = [history EXCEPT ![s] = (@ \ dropped) \cup {menu}]
          PROVE  Kept(calls', more) /\ \A u \in Slots : history'[u] \subseteq more
      <4> DEFINE c == Call("other", s, menu, dropped, "Cancelled")
      <4>1. c \in Calls
        BY <1>t, <2>3, CallTypes
      <4>2. Keeps(c, more)
        BY <1>a, <1>m DEF Keeps, Call
      <4>3. Enter(c)
        BY <3>2
      <4> HIDE DEF c
      <4>4. Kept(calls', more)
        BY <1>t, <2>2, <4>1, <4>2, <4>3, EnterExtends, KeptOnTop
      <4>5. QED
        BY <1>a, <1>m, <1>t, <3>2, <4>4
    <3>3. QED
      BY <1>1, <2>1, <3>1, <3>2 DEF Present
  <2>5. QED
    BY <1>a, <1>b, <1>m, <1>t, <2>1, <2>4
<1>2. ASSUME NEW s \in Slots, PresentRefused(s) PROVE Ours'
  <2>1. /\ made' = made + 1
        /\ UNCHANGED <<valid, history, live, shutting, calls>>
    BY <1>2 DEF PresentRefused
  <2>2. Kept(calls', 1 .. made')
    BY <1>a, <1>m, <2>1, KeptMore
  <2>3. QED
    BY <1>a, <1>b, <1>m, <2>1, <2>2
<1>3. ASSUME UNCHANGED <<made, valid, history, live, shutting, calls>> PROVE Ours'
  BY <1>3 DEF Ours
<1>4. ASSUME NEW s \in Slots, Close(s) PROVE Ours'
  <2>1. EndDisplay(s, "Cancelled") /\ UNCHANGED <<made, valid, live, shutting>>
    BY <1>4 DEF Close
  <2>2. Kept(calls', mine) /\ \A u \in Slots : history'[u] \subseteq mine
    BY <1>a, <2>1, EndDisplayKept
  <2>3. QED
    BY <1>a, <1>b, <2>1, <2>2
<1>6. CASE Displayed
  <2> DEFINE s == Innermost.slot
             c == Call("display", s, Innermost.menu, history[s], "Cancelled")
  <2>1. /\ calls # <<>> /\ s \in Slots /\ c \in Calls
        /\ Innermost.op = "display"
        /\ ShowNow(s) \/ EndAnother(s)
        /\ UNCHANGED <<made, valid, live, shutting>>
    BY <1>6, DisplayedSteps
  <2>2. Extends(calls, Outer, Innermost)
    BY <1>t, <2>1, InnermostExtends
  <2>3. Kept(Outer, mine) /\ Keeps(Innermost, mine)
    BY <1>a, <2>2, KeptOnTop
  <2>4. Kept(calls', mine) /\ \A u \in Slots : history'[u] \subseteq mine
    <3>1. CASE ShowNow(s)
      BY <1>a, <1>t, <2>1, <2>3, <3>1 DEF ShowNow, Keeps
    <3>2. CASE EndAnother(s)
      <4>1. Keeps(c, mine)
        BY <1>a, <2>1, <2>3 DEF Keeps, Call
      <4>2. calls' = [calls EXCEPT ![Len(calls)] = c]
            /\ history' = [history EXCEPT ![s] = {}]
        BY <3>2 DEF EndAnother
      <4>3. Kept(calls', mine)
        <5> HIDE DEF c
        <5>1. Extends(calls', Outer, c)
          BY <1>t, <2>1, <4>2, AlterExtends
        <5>2. QED
          BY <2>3, <4>1, <5>1, KeptOnTop
      <4>4. QED
        BY <1>a, <1>t, <4>2, <4>3
    <3>3. QED
      BY <2>1, <3>1, <3>2
  <2>5. QED
    BY <1>a, <1>b, <2>1, <2>4
<1>7. CASE End
  <2>1. calls # <<>> /\ UNCHANGED <<made, history, shutting>>
    BY <1>7 DEF End
  <2>2. PICK menu \in Innermost.ending : Ended(menu)
    BY <1>7 DEF End
  <2>3. PICK t : Extends(t, Outer, Less(menu)) /\ Extends(calls', t, OnEnd(menu))
    BY <1>t, <2>1, <2>2, EndedExtends
  <2>4. Kept(Outer, mine) /\ Keeps(Innermost, mine)
    BY <1>a, <1>t, <2>1, InnermostExtends, KeptOnTop
  <2>5. Keeps(Less(menu), mine) /\ Keeps(OnEnd(menu), mine)
    BY <2>4 DEF Keeps, Less, OnEnd, Call
  <2>6. Kept(calls', mine)
    BY <2>3, <2>4, <2>5, KeptOnTop
  <2>7. valid' \subseteq mine /\ \A u \in Slots : live'[u] \subseteq mine
    BY <1>a, <1>t, <2>2 DEF Ended
  <2>8. QED
    BY <1>a, <1>b, <2>1, <2>6, <2>7
<1>8. CASE Return
  <2>1. calls # <<>> /\ calls' = Outer /\ UNCHANGED <<made, valid, history, live, shutting>>
    BY <1>8 DEF Return
  <2>2. Kept(calls', mine)
    BY <1>a, <1>t, <2>1, InnermostExtends, KeptOnTop
  <2>3. QED
    BY <1>a, <1>b, <2>1, <2>2
<1>9. CASE MenusLoad
  <2>1. instance = 0 /\ calls' = <<>> /\ valid' = {} /\ history' = Empty /\ shutting' = Idle
    BY <1>9 DEF MenusLoad, LoadCycle
  <2>2. live = Empty
    BY <1>9 DEF MenusLoad, LoadCycle, Overlooked
  <2>3. live' = Empty
    BY <1>9, <2>2 DEF MenusLoad
  <2>4. QED
    BY <2>1, <2>3, IdleFields DEF Ours, Empty
<1>10. CASE MenusUnload \/ MenusCleared
  <2>1. /\ calls' = <<>> /\ valid' = {} /\ history' = Empty /\ shutting' = Idle
        /\ made' = made /\ (live' = live \/ live' = Empty)
    BY <1>10 DEF MenusUnload, MenusCleared
  <2>2. \A s \in Slots : live'[s] \subseteq mine
    BY <1>a, <2>1 DEF Empty
  <2>3. QED
    BY <2>1, <2>2, IdleFields DEF Ours, Empty
<1>11. CASE ShutdownBegin \/ ShutdownNext
  <2>1. /\ UNCHANGED <<made, valid, history, calls>>
        /\ live' = live \/ live' = Empty
        /\ shutting'.left = {}
    BY <1>11, IdleFields DEF ShutdownBegin, ShutdownNext
  <2>2. \A s \in Slots : live'[s] \subseteq mine
    BY <1>a, <2>1 DEF Empty
  <2>3. QED
    BY <1>a, <1>b, <2>1, <2>2
<1>12. CASE ShutdownCancel
  <2>1. shutting.slot \in Slots
    BY <1>12, IdleFields DEF ShutdownCancel, LoadCycle
  <2>2. shutting'.left = shutting.left /\ UNCHANGED <<made, valid, live>>
    BY <1>12, <1>t, ShuttingCopies DEF ShutdownCancel
  <2>3. UNCHANGED <<calls, history>> \/ EndDisplay(shutting.slot, "Cancelled")
    BY <1>12 DEF ShutdownCancel
  <2>4. Kept(calls', mine) /\ \A u \in Slots : history'[u] \subseteq mine
    <3>1. CASE UNCHANGED <<calls, history>>
      BY <1>a, <3>1
    <3>2. CASE EndDisplay(shutting.slot, "Cancelled")
      BY <1>a, <2>1, <3>2, EndDisplayKept
    <3>3. QED
      BY <2>3, <3>1, <3>2
  <2>5. QED
    BY <1>a, <1>b, <2>2, <2>4
<1>13. CASE ShutdownCopy
  <2>1. shutting.slot \in Slots
    BY <1>13, IdleFields DEF ShutdownCopy, LoadCycle
  <2>2. shutting'.left = live[shutting.slot] /\ UNCHANGED <<made, valid, history, live, calls>>
    BY <1>13 DEF ShutdownCopy
  <2>3. QED
    BY <1>a, <1>b, <2>1, <2>2
<1>14. CASE ShutdownDestroy
  <2>1. shutting.slot \in Slots
    BY <1>14, IdleFields DEF ShutdownDestroy, LoadCycle
  <2>2. PICK menu \in shutting.left :
          /\ shutting' = [shutting EXCEPT !.left = @ \ {menu}]
          /\ valid' = valid \ {menu}
          /\ UNCHANGED <<calls, history>> \/ EndDisplay(shutting.slot, "Destroyed")
    BY <1>14 DEF ShutdownDestroy
  <2>3. shutting'.left \subseteq mine
    BY <1>a, <1>t, <2>2, ShuttingLeft
  <2>4. Kept(calls', mine) /\ \A u \in Slots : history'[u] \subseteq mine
    <3>1. CASE UNCHANGED <<calls, history>>
      BY <1>a, <3>1
    <3>2. CASE EndDisplay(shutting.slot, "Destroyed")
      BY <1>a, <2>1, <3>2, EndDisplayKept
    <3>3. QED
      BY <2>2, <3>1, <3>2
  <2>5. UNCHANGED <<made, live>>
    BY <1>14 DEF ShutdownDestroy
  <2>6. QED
    BY <1>a, <1>b, <2>2, <2>3, <2>4, <2>5
<1>20. QED
  BY <1>1, <1>2, <1>3, <1>4, <1>6, <1>7, <1>8, <1>9, <1>10, <1>11, <1>12, <1>13, <1>14
     DEF Next, Consumer, Metamod, Shutdown, ShowNotice, NoticeEnds, MetaClear, vars

-----------------------------------------------------------------------------
Link == TypeOK /\ LoadCycle /\ Ours

LEMMA LinkCorrect == Spec => []Link
<1>1. Init => Link
  BY MenusTypeInit, MenusLoadCycleInit, MenusOursInit DEF Link
<1>2. Link /\ [Next]_vars => Link'
  BY MenusTypeStep, LoadCycleStep, OursStep DEF Link
<1>3. QED
  BY <1>1, <1>2, PTL DEF Spec

\* The variables keep their types, with any number of slots, of loads of
\* mm-cs2menus, of menus and of nested calls.
THEOREM MenusTypeCorrect == Spec => []TypeOK
<1>1. Link => TypeOK
  BY DEF Link
<1>2. QED
  BY <1>1, LinkCorrect, PTL

\* Whatever loads, unloads and callbacks come in between, the plugin calls
\* mm-cs2menus only while it is there, and has it destroy only menus that this
\* instance made for it: neither InterfaceBridge::m_iface nor a handle in m_live
\* outlives the instance it is of.
THEOREM HostCorrect == Spec => []HostIsUsedWell
<1>1. Init => HostIsUsedWell
  BY DEF Init, HostIsUsedWell
<1>2. ASSUME Link, HostIsUsedWell, [Next]_vars PROVE HostIsUsedWell'
  <2> USE <1>2 DEF HostIsUsedWell
  <2>a. TypeOK /\ LoadCycle /\ Ours
    BY DEF Link
  <2>1. ASSUME NEW s \in Slots, Consumer(s) PROVE misused' = {}
    <3>1. Showing(s)
      BY <2>1 DEF Consumer, Present, PresentRefused, ShowNotice
    <3>2. iface = instance
      BY <2>a, <3>1, ShowingLinked
    <3>3. QED
      BY <2>1, <3>2 DEF Consumer, Present, PresentRefused, ShowNotice
  <2>2. CASE End
    <3>1. calls # <<>>
      BY <2>2 DEF End
    <3>2. PICK menu \in Innermost.ending : Ended(menu)
      BY <2>2 DEF End
    <3>3. menu \in 1 .. made
      <4>1. Len(calls) \in 1 .. Len(calls)
        BY <2>a, <3>1, InnermostType DEF TypeOK
      <4>2. QED
        BY <2>a, <4>1 DEF Ours, Keeps, Innermost
    <3>4. iface # 0 => iface = instance
      BY <2>a, <3>1, CallsLinked DEF LoadCycle
    <3>5. QED
      BY <3>2, <3>3, <3>4 DEF Ended
  <2>3. CASE ShutdownCancel
    <3>1. iface = instance
      BY <2>a, <2>3, ShuttingLinked, IdleFields DEF ShutdownCancel
    <3>2. QED
      BY <2>3, <3>1 DEF ShutdownCancel
  <2>4. CASE ShutdownDestroy
    <3>1. iface = instance
      BY <2>a, <2>4, ShuttingLinked, IdleFields DEF ShutdownDestroy
    <3>2. PICK menu \in shutting.left : Destroying(menu)
      BY <2>4 DEF ShutdownDestroy
    <3>3. menu \in 1 .. made
      BY <2>a DEF Ours
    <3>4. QED
      BY <3>1, <3>2, <3>3
  <2>5. CASE UNCHANGED misused
    BY <2>5
  <2>6. QED
    BY <2>1, <2>2, <2>3, <2>4, <2>5
       DEF Next, Metamod, Shutdown, Close, NoticeEnds, Displayed, Return, MenusLoad,
           MenusUnload, MetaClear, MenusCleared, ShutdownBegin, ShutdownCopy, ShutdownNext,
           vars
<1>3. QED
  BY <1>1, <1>2, LinkCorrect, PTL DEF Spec

-----------------------------------------------------------------------------
(* Where the menus are *)

\* What the calls of a stack still have to tell of a slot, what they will show
\* there, and what they have to tell that was destroyed.
Ends(t, s) == {m \in Menus : \E i \in 1 .. Len(t) : t[i].slot = s /\ m \in t[i].ending}
Comes(t, s) == {m \in {0} \cup Menus : \E i \in 1 .. Len(t) :
                  t[i].slot = s /\ t[i].op = "display" /\ m = t[i].menu}
Dooms(t, s) == {m \in Menus : \E i \in 1 .. Len(t) :
                  t[i].slot = s /\ t[i].reason = "Destroyed" /\ m \in t[i].ending}

\* No two of them have the same menu to tell or to show.
Once(t) ==
  \A i, j \in 1 .. Len(t) : i # j /\ t[i].slot = t[j].slot =>
    /\ t[i].ending \cap t[j].ending = {}
    /\ t[i].op = "display" /\ t[j].op = "display" => t[i].menu # t[j].menu

\* A menu in m_live is in one place: in its slot's history, with a call that has
\* its end to tell, or with one that will show it.
Placed(s) ==
  /\ live[s] = history[s] \cup Ends(calls, s) \cup Comes(calls, s)
  /\ history[s] \cap Ends(calls, s) = {}
  /\ history[s] \cap Comes(calls, s) = {}
  /\ Ends(calls, s) \cap Comes(calls, s) = {}

Apart(s, t) == s # t => live[s] \cap live[t] = {}

Books ==
  /\ \A s \in Slots : Placed(s)
  /\ \A s, t \in Slots : Apart(s, t)
  /\ Once(calls)
  /\ \A m \in valid : \E s \in Slots : m \in live[s]
  /\ \A s \in Slots : live[s] \subseteq valid \cup Dooms(calls, s)
  /\ \A s \in Slots : s # shutting.slot => shutting.left \cap live[s] = {}

Booked == loaded /\ iface = instance => Books

\* What one call adds to each.
EndsOf(c, s) == IF c.slot = s THEN c.ending ELSE {}
ComesOf(c, s) == IF c.slot = s /\ c.op = "display" THEN {c.menu} ELSE {}
DoomsOf(c, s) == IF c.slot = s /\ c.reason = "Destroyed" THEN c.ending ELSE {}

LEMMA StackOnTop ==
  ASSUME NEW t, NEW b, NEW c, Extends(t, b, c), NEW s
  PROVE  /\ Ends(t, s) = Ends(b, s) \cup EndsOf(c, s)
         /\ Comes(t, s) = Comes(b, s) \cup ComesOf(c, s)
         /\ Dooms(t, s) = Dooms(b, s) \cup DoomsOf(c, s)
<1>1. /\ \A i \in 1 .. Len(t) : t[i] = c \/ \E j \in 1 .. Len(b) : t[i] = b[j]
      /\ \A j \in 1 .. Len(b) : j \in 1 .. Len(t) /\ t[j] = b[j]
      /\ Len(t) \in 1 .. Len(t) /\ t[Len(t)] = c
  BY EveryCall
<1>2. c.ending \subseteq Menus /\ c.menu \in {0} \cup Menus
  BY DEF Extends, Calls
<1>3. Ends(t, s) = Ends(b, s) \cup EndsOf(c, s)
  BY <1>1, <1>2 DEF Ends, EndsOf
<1>4. Comes(t, s) = Comes(b, s) \cup ComesOf(c, s)
  BY <1>1, <1>2 DEF Comes, ComesOf
<1>5. Dooms(t, s) = Dooms(b, s) \cup DoomsOf(c, s)
  BY <1>1, <1>2 DEF Dooms, DoomsOf
<1>6. QED
  BY <1>3, <1>4, <1>5

LEMMA OnceOnTop ==
  ASSUME NEW t, NEW b, NEW c, Extends(t, b, c)
  PROVE  Once(t) <=> /\ Once(b)
                     /\ Ends(b, c.slot) \cap c.ending = {}
                     /\ c.op = "display" => c.menu \notin Comes(b, c.slot)
<1>1. /\ Len(b) \in Nat /\ Len(t) = Len(b) + 1
      /\ \A j \in 1 .. Len(b) : j \in 1 .. Len(t) /\ t[j] = b[j] /\ j # Len(t)
      /\ Len(t) \in 1 .. Len(t) /\ t[Len(t)] = c
  BY EveryCall, LenProperties DEF Extends
<1>2. \A i \in 1 .. Len(t) : i = Len(t) \/ i \in 1 .. Len(b)
  BY <1>1
<1>3. c.ending \subseteq Menus /\ c.menu \in {0} \cup Menus
  BY DEF Extends, Calls
<1>4. ASSUME Once(t)
      PROVE  /\ Once(b) /\ Ends(b, c.slot) \cap c.ending = {}
             /\ c.op = "display" => c.menu \notin Comes(b, c.slot)
  BY <1>1, <1>4 DEF Once, Ends, Comes
<1>5. ASSUME Once(b), Ends(b, c.slot) \cap c.ending = {},
             c.op = "display" => c.menu \notin Comes(b, c.slot)
      PROVE  Once(t)
  <2>1. ASSUME NEW i \in 1 .. Len(b), t[i].slot = c.slot
        PROVE  /\ t[i].ending \cap c.ending = {}
               /\ t[i].op = "display" /\ c.op = "display" => t[i].menu # c.menu
    BY <1>1, <1>3, <1>5, <2>1 DEF Ends, Comes
  <2>2. SUFFICES ASSUME NEW i \in 1 .. Len(t), NEW j \in 1 .. Len(t), i # j,
                        t[i].slot = t[j].slot
                 PROVE  /\ t[i].ending \cap t[j].ending = {}
                        /\ t[i].op = "display" /\ t[j].op = "display" => t[i].menu # t[j].menu
    BY DEF Once
  <2>3. CASE i \in 1 .. Len(b) /\ j \in 1 .. Len(b)
    BY <1>1, <1>5, <2>2, <2>3 DEF Once
  <2>4. CASE i \in 1 .. Len(b) /\ j = Len(t)
    BY <1>1, <2>1, <2>2, <2>4
  <2>5. CASE j \in 1 .. Len(b) /\ i = Len(t)
    BY <1>1, <2>1, <2>2, <2>5
  <2>6. QED
    BY <1>2, <2>2, <2>3, <2>4, <2>5
<1>6. QED
  BY <1>4, <1>5

LEMMA EmptyStack ==
  ASSUME NEW t, t = <<>>, NEW s
  PROVE  Ends(t, s) = {} /\ Comes(t, s) = {} /\ Dooms(t, s) = {} /\ Once(t)
<1>1. Len(t) = 0 /\ 1 .. 0 = {}
  OBVIOUS
<1>2. QED
  BY <1>1 DEF Ends, Comes, Dooms, Once

LEMMA EmptyBooks ==
  ASSUME calls = <<>>, live = Empty, history = Empty, valid = {}
  PROVE  Books
  BY EmptyStack DEF Books, Placed, Apart, Empty

LEMMA BooksOf ==
  ASSUME Books
  PROVE  /\ \A s \in Slots : Placed(s)
         /\ \A s, t \in Slots : Apart(s, t)
         /\ Once(calls)
         /\ \A m \in valid : \E s \in Slots : m \in live[s]
         /\ \A s \in Slots : live[s] \subseteq valid \cup Dooms(calls, s)
         /\ \A s \in Slots : s # shutting.slot => shutting.left \cap live[s] = {}
  BY DEF Books

\* What ended is with the call that tells it.
LEMMA EndDisplayBooks ==
  ASSUME TypeOK, Books, NEW s \in Slots, NEW reason \in Reasons, EndDisplay(s, reason),
         live' = live
  PROVE  /\ \A u \in Slots : Placed(u)'
         /\ Once(calls')
         /\ \A u \in Slots : Dooms(calls, u) \subseteq Dooms(calls', u)
         /\ reason = "Destroyed" => history[s] \subseteq Dooms(calls', s)
<1> DEFINE c == Call("other", s, 0, history[s], reason)
<1>1. c \in Calls /\ Enter(c) /\ calls \in Seq(Calls)
  BY EndDisplayTypes DEF EndDisplay, TypeOK
<1>2. c.slot = s /\ c.op = "other" /\ c.ending = history[s] /\ c.reason = reason
  BY DEF Call
<1>3. history' = [history EXCEPT ![s] = {}] /\ history \in [Slots -> SUBSET Menus]
  BY DEF EndDisplay, TypeOK
<1> HIDE DEF c
<1>4. Extends(calls', calls, c)
  BY <1>1, EnterExtends
<1>5. \A u \in Slots : Placed(u) /\ Once(calls)
  BY BooksOf
<1>6. ASSUME NEW u \in Slots
      PROVE  /\ Placed(u)'
             /\ Dooms(calls, u) \subseteq Dooms(calls', u)
             /\ u = s /\ reason = "Destroyed" => history[s] \subseteq Dooms(calls', s)
  <2>1. /\ Ends(calls', u) = Ends(calls, u) \cup EndsOf(c, u)
        /\ Comes(calls', u) = Comes(calls, u) \cup ComesOf(c, u)
        /\ Dooms(calls', u) = Dooms(calls, u) \cup DoomsOf(c, u)
    BY <1>4, StackOnTop
  <2>2. /\ EndsOf(c, u) = IF u = s THEN history[s] ELSE {}
        /\ ComesOf(c, u) = {}
        /\ u = s /\ reason = "Destroyed" => DoomsOf(c, u) = history[s]
    BY <1>2 DEF EndsOf, ComesOf, DoomsOf
  <2>3. history'[u] = IF u = s THEN {} ELSE history[u]
    BY <1>3
  <2>4. Placed(u)'
    BY <1>5, <2>1, <2>2, <2>3 DEF Placed
  <2>5. QED
    BY <2>1, <2>2, <2>4
<1>7. Once(calls')
  BY <1>2, <1>4, <1>5, OnceOnTop DEF Placed
<1>8. QED
  BY <1>6, <1>7

LEMMA CloseBooks ==
  ASSUME TypeOK, Books, NEW s \in Slots, Close(s)
  PROVE  Books'
<1>1. EndDisplay(s, "Cancelled") /\ UNCHANGED <<live, valid, shutting>>
  BY DEF Close
<1>2. /\ \A u \in Slots : Placed(u)'
      /\ Once(calls')
      /\ \A u \in Slots : Dooms(calls, u) \subseteq Dooms(calls', u)
  BY <1>1, EndDisplayBooks
<1>3. QED
  BY <1>1, <1>2, BooksOf DEF Books, Apart

\* A menu just made is nowhere yet.
LEMMA Fresh ==
  ASSUME TypeOK, Ours, Books, made < MaxMenus
  PROVE  /\ made + 1 \in Menus /\ made + 1 \notin valid /\ made + 1 \notin shutting.left
         /\ \A u \in Slots : /\ made + 1 \notin live[u] /\ made + 1 \notin history[u]
                             /\ made + 1 \notin Ends(calls, u) /\ made + 1 \notin Comes(calls, u)
<1>1. made \in 0 .. MaxMenus
  BY DEF TypeOK
<1>2. made + 1 \in Menus
  BY <1>1, NextNumber, MenusAssumption, Zenon
<1>3. made + 1 \notin 1 .. made
  <2>1. made \in Nat
    BY <1>1
  <2>2. QED
    BY <2>1, OneMore
<1>4. QED
  BY <1>2, <1>3, BooksOf DEF Ours, Placed

LEMMA PresentBooks ==
  ASSUME TypeOK, Ours, Books, NEW s \in Slots, Present(s),
         shutting = Idle \/ s = shutting.slot
  PROVE  Books'
<1> DEFINE menu == made + 1
<1>1. /\ made < MaxMenus /\ made' = menu /\ valid' = valid \cup {menu}
      /\ live' = [live EXCEPT ![s] = @ \cup {menu}]
      /\ shutting' = shutting
  BY Zenon DEF Present
<1>2. /\ menu \in Menus /\ menu \notin valid /\ menu \notin shutting.left
      /\ \A u \in Slots : /\ menu \notin live[u] /\ menu \notin history[u]
                          /\ menu \notin Ends(calls, u) /\ menu \notin Comes(calls, u)
  BY <1>1, Fresh
<1>3. \E dropped \in SUBSET history[s], shown \in BOOLEAN :
         /\ Enter(Call(IF shown THEN "other" ELSE "display", s, menu, dropped, "Cancelled"))
         /\ history' = [history EXCEPT ![s] = IF shown THEN (@ \ dropped) \cup {menu} ELSE {}]
         /\ ~shown => dropped = history[s]
  BY <1>1 DEF Present
<1> HIDE DEF menu
<1>4. PICK dropped \in SUBSET history[s], shown \in BOOLEAN :
         /\ Enter(Call(IF shown THEN "other" ELSE "display", s, menu, dropped, "Cancelled"))
         /\ history' = [history EXCEPT ![s] = IF shown THEN (@ \ dropped) \cup {menu} ELSE {}]
         /\ ~shown => dropped = history[s]
  BY <1>3
<1> DEFINE c == Call(IF shown THEN "other" ELSE "display", s, menu, dropped, "Cancelled")
<1>5. /\ history \in [Slots -> SUBSET Menus] /\ live \in [Slots -> SUBSET Menus]
      /\ calls \in Seq(Calls)
  BY DEF TypeOK
<1>6. /\ c \in Calls /\ c.slot = s /\ c.op = (IF shown THEN "other" ELSE "display")
      /\ c.menu = menu /\ c.ending = dropped /\ c.reason = "Cancelled"
  BY <1>2, <1>4, <1>5, CallTypes
<1>7. Extends(calls', calls, c)
  <2> HIDE DEF c
  <2>1. Enter(c)
    BY <1>4 DEF c
  <2>2. QED
    BY <1>5, <1>6, <2>1, EnterExtends
<1> HIDE DEF c
<1>8. ASSUME NEW u \in Slots
      PROVE  /\ Placed(u)'
             /\ live'[u] = IF u = s THEN live[s] \cup {menu} ELSE live[u]
             /\ Dooms(calls', u) = Dooms(calls, u)
  <2>1. /\ Ends(calls', u) = Ends(calls, u) \cup EndsOf(c, u)
        /\ Comes(calls', u) = Comes(calls, u) \cup ComesOf(c, u)
        /\ Dooms(calls', u) = Dooms(calls, u) \cup DoomsOf(c, u)
    BY <1>7, StackOnTop
  <2>2. /\ EndsOf(c, u) = (IF u = s THEN dropped ELSE {})
        /\ ComesOf(c, u) = (IF u = s /\ ~shown THEN {menu} ELSE {})
        /\ DoomsOf(c, u) = {}
    BY <1>6 DEF EndsOf, ComesOf, DoomsOf
  <2>3. /\ live'[u] = IF u = s THEN live[s] \cup {menu} ELSE live[u]
        /\ history'[u] = IF u # s THEN history[u]
                         ELSE IF shown THEN (history[s] \ dropped) \cup {menu} ELSE {}
    BY <1>1, <1>4, <1>5
  <2>4. /\ live[u] = history[u] \cup Ends(calls, u) \cup Comes(calls, u)
        /\ history[u] \cap Ends(calls, u) = {}
        /\ history[u] \cap Comes(calls, u) = {}
        /\ Ends(calls, u) \cap Comes(calls, u) = {}
    BY BooksOf DEF Placed
  <2>5. menu \notin history[u] /\ menu \notin Ends(calls, u) /\ menu \notin Comes(calls, u)
    BY <1>2
  <2>6. Placed(u)'
    <3>1. CASE u # s
      BY <2>1, <2>2, <2>3, <2>4, <3>1 DEF Placed
    <3>2. CASE u = s /\ shown
      BY <1>4, <2>1, <2>2, <2>3, <2>4, <2>5, <3>2 DEF Placed
    <3>3. CASE u = s /\ ~shown
      BY <1>4, <2>1, <2>2, <2>3, <2>4, <2>5, <3>3 DEF Placed
    <3>4. QED
      BY <3>1, <3>2, <3>3
  <2>7. QED
    BY <2>1, <2>2, <2>3, <2>6
<1>9. Once(calls')
  <2>1. Ends(calls, s) \cap dropped = {} /\ menu \notin Comes(calls, s) /\ Once(calls)
    BY <1>2, BooksOf DEF Placed
  <2>2. QED
    BY <1>6, <1>7, <2>1, OnceOnTop
<1>10. \A u, v \in Slots : u # v => live'[u] \cap live'[v] = {}
  BY <1>2, <1>8, BooksOf DEF Apart
<1>11. \A m \in valid' : \E u \in Slots : m \in live'[u]
  BY <1>1, <1>8, BooksOf
<1>12. \A u \in Slots : live'[u] \subseteq valid' \cup Dooms(calls', u)
  BY <1>1, <1>8, BooksOf
<1>13. \A u \in Slots : u # shutting'.slot => shutting'.left \cap live'[u] = {}
  BY <1>1, <1>2, <1>8, BooksOf, IdleFields
<1>14. QED
  BY <1>8, <1>9, <1>10, <1>11, <1>12, <1>13 DEF Books, Apart

LEMMA DisplayedBooks ==
  ASSUME TypeOK, Books, Displayed
  PROVE  Books'
<1> DEFINE s == Innermost.slot
           shown == Innermost.menu
           c == Call("display", s, shown, history[s], "Cancelled")
<1>1. /\ calls # <<>> /\ s \in Slots /\ c \in Calls
      /\ Innermost.op = "display" /\ Innermost.ending = {}
      /\ ShowNow(s) \/ EndAnother(s)
      /\ UNCHANGED <<valid, live, shutting>>
  BY DisplayedSteps
<1>2. calls \in Seq(Calls) /\ history \in [Slots -> SUBSET Menus]
  BY DEF TypeOK
<1>3. Extends(calls, Outer, Innermost)
  BY <1>1, <1>2, InnermostExtends
<1>4. ASSUME NEW u
      PROVE  /\ Ends(calls, u) = Ends(Outer, u)
             /\ Comes(calls, u) = Comes(Outer, u) \cup IF u = s THEN {shown} ELSE {}
             /\ Dooms(calls, u) = Dooms(Outer, u)
  <2>1. /\ Ends(calls, u) = Ends(Outer, u) \cup EndsOf(Innermost, u)
        /\ Comes(calls, u) = Comes(Outer, u) \cup ComesOf(Innermost, u)
        /\ Dooms(calls, u) = Dooms(Outer, u) \cup DoomsOf(Innermost, u)
    BY <1>3, StackOnTop
  <2>2. /\ EndsOf(Innermost, u) = {} /\ DoomsOf(Innermost, u) = {}
        /\ ComesOf(Innermost, u) = IF u = s THEN {shown} ELSE {}
    BY <1>1 DEF EndsOf, ComesOf, DoomsOf
  <2>3. QED
    BY <2>1, <2>2
<1>5. Once(Outer) /\ shown \notin Comes(Outer, s)
  BY <1>1, <1>3, OnceOnTop, BooksOf
<1>6. /\ \A u \in Slots : Placed(u)' /\ Dooms(calls', u) = Dooms(calls, u)
      /\ Once(calls')
  <2>1. CASE ShowNow(s)
    <3>1. /\ calls' = Outer /\ history[s] = {}
          /\ \A u \in Slots : history'[u] = IF u = s THEN {shown} ELSE history[u]
      BY <1>2, <2>1 DEF ShowNow
    <3>2. \A u \in Slots : Placed(u)'
      BY <1>1, <1>4, <1>5, <3>1, BooksOf DEF Placed
    <3>3. QED
      BY <1>4, <1>5, <3>1, <3>2
  <2>2. CASE EndAnother(s)
    <3>1. /\ calls' = [calls EXCEPT ![Len(calls)] = c]
          /\ \A u \in Slots : history'[u] = IF u = s THEN {} ELSE history[u]
      BY <1>2, <2>2 DEF EndAnother
    <3>2. c.slot = s /\ c.op = "display" /\ c.menu = shown /\ c.ending = history[s]
          /\ c.reason = "Cancelled"
      BY DEF Call
    <3> HIDE DEF c
    <3>3. Extends(calls', Outer, c)
      BY <1>1, <1>2, <3>1, AlterExtends
    <3>4. ASSUME NEW u
          PROVE  /\ Ends(calls', u) = Ends(Outer, u) \cup IF u = s THEN history[s] ELSE {}
                 /\ Comes(calls', u) = Comes(Outer, u) \cup IF u = s THEN {shown} ELSE {}
                 /\ Dooms(calls', u) = Dooms(Outer, u)
      <4>1. /\ Ends(calls', u) = Ends(Outer, u) \cup EndsOf(c, u)
            /\ Comes(calls', u) = Comes(Outer, u) \cup ComesOf(c, u)
            /\ Dooms(calls', u) = Dooms(Outer, u) \cup DoomsOf(c, u)
        BY <3>3, StackOnTop
      <4>2. /\ EndsOf(c, u) = (IF u = s THEN history[s] ELSE {}) /\ DoomsOf(c, u) = {}
            /\ ComesOf(c, u) = IF u = s THEN {shown} ELSE {}
        BY <3>2 DEF EndsOf, ComesOf, DoomsOf
      <4>3. QED
        BY <4>1, <4>2
    <3>5. ASSUME NEW u \in Slots PROVE Placed(u)'
      <4>1. Placed(u) /\ live' = live
        BY <1>1, BooksOf
      <4>2. history'[u] = IF u = s THEN {} ELSE history[u]
        BY <3>1
      <4>3. CASE u = s
        BY <1>4, <3>4, <4>1, <4>2, <4>3 DEF Placed
      <4>4. CASE u # s
        BY <1>4, <3>4, <4>1, <4>2, <4>4 DEF Placed
      <4>5. QED
        BY <4>3, <4>4
    <3>6. Once(calls')
      <4>1. Ends(Outer, s) \cap history[s] = {}
        BY <1>1, <1>4, BooksOf DEF Placed
      <4>2. QED
        BY <1>5, <3>2, <3>3, <4>1, OnceOnTop
    <3>7. QED
      BY <1>4, <3>4, <3>5, <3>6
  <2>3. QED
    BY <1>1, <2>1, <2>2
<1>7. QED
  BY <1>1, <1>6, BooksOf DEF Books, Apart

LEMMA EndBooks ==
  ASSUME TypeOK, Books, End, iface # 0
  PROVE  Books'
<1>1. calls # <<>> /\ UNCHANGED <<history, shutting>>
  BY DEF End
<1>2. PICK menu \in Innermost.ending : Ended(menu)
  BY DEF End
<1> DEFINE s == Innermost.slot
<1>3. /\ calls \in Seq(Calls) /\ live \in [Slots -> SUBSET Menus] /\ s \in Slots
  BY <1>1, <1>2, EndedStack DEF TypeOK
<1>4. /\ live' = [live EXCEPT ![s] = @ \ {menu}] /\ valid' = valid \ {menu}
  BY <1>2 DEF Ended
<1>5. PICK t : Extends(t, Outer, Less(menu)) /\ Extends(calls', t, OnEnd(menu))
  BY <1>1, <1>2, <1>3, EndedExtends
<1>6. Extends(calls, Outer, Innermost)
  BY <1>1, <1>3, InnermostExtends
<1>7. /\ Less(menu).slot = s /\ Less(menu).op = Innermost.op
      /\ Less(menu).menu = Innermost.menu /\ Less(menu).reason = Innermost.reason
      /\ Less(menu).ending = Innermost.ending \ {menu}
      /\ OnEnd(menu).ending = {} /\ OnEnd(menu).op = "onEnd"
  BY DEF Less, OnEnd, Call
<1>8. /\ Once(Outer) /\ Ends(Outer, s) \cap Innermost.ending = {}
      /\ Innermost.op = "display" => Innermost.menu \notin Comes(Outer, s)
  BY <1>6, OnceOnTop, BooksOf
<1>9. ASSUME NEW u
      PROVE  /\ Ends(calls', u) = IF u = s THEN Ends(calls, u) \ {menu} ELSE Ends(calls, u)
             /\ Comes(calls', u) = Comes(calls, u)
             /\ Dooms(calls, u) \ {menu} \subseteq Dooms(calls', u)
  <2>1. /\ Ends(calls, u) = Ends(Outer, u) \cup EndsOf(Innermost, u)
        /\ Comes(calls, u) = Comes(Outer, u) \cup ComesOf(Innermost, u)
        /\ Dooms(calls, u) = Dooms(Outer, u) \cup DoomsOf(Innermost, u)
    BY <1>6, StackOnTop
  <2>2. /\ Ends(t, u) = Ends(Outer, u) \cup EndsOf(Less(menu), u)
        /\ Comes(t, u) = Comes(Outer, u) \cup ComesOf(Less(menu), u)
        /\ Dooms(t, u) = Dooms(Outer, u) \cup DoomsOf(Less(menu), u)
    BY <1>5, StackOnTop
  <2>3. /\ Ends(calls', u) = Ends(t, u) \cup EndsOf(OnEnd(menu), u)
        /\ Comes(calls', u) = Comes(t, u) \cup ComesOf(OnEnd(menu), u)
        /\ Dooms(calls', u) = Dooms(t, u) \cup DoomsOf(OnEnd(menu), u)
    BY <1>5, StackOnTop
  <2>4. Ends(calls', u) = IF u = s THEN Ends(calls, u) \ {menu} ELSE Ends(calls, u)
    BY <1>2, <1>7, <1>8, <2>1, <2>2, <2>3 DEF EndsOf
  <2>5. Comes(calls', u) = Comes(calls, u)
    BY <1>7, <2>1, <2>2, <2>3 DEF ComesOf
  <2>6. Dooms(calls, u) \ {menu} \subseteq Dooms(calls', u)
    BY <1>7, <2>1, <2>2, <2>3 DEF DoomsOf
  <2>7. QED
    BY <2>4, <2>5, <2>6
<1>10. menu \in Ends(calls, s)
  BY <1>2, <1>6, StackOnTop DEF EndsOf
<1>11. \A u \in Slots : live'[u] = IF u = s THEN live[s] \ {menu} ELSE live[u]
  BY <1>3, <1>4
<1>12. ASSUME NEW u \in Slots PROVE Placed(u)'
  BY <1>1, <1>3, <1>9, <1>10, <1>11, BooksOf DEF Placed
<1>13. Once(calls')
  <2>1. Once(t)
    BY <1>5, <1>7, <1>8, OnceOnTop
  <2>2. QED
    BY <1>5, <1>7, <2>1, OnceOnTop
<1>14. \A u, v \in Slots : u # v => live'[u] \cap live'[v] = {}
  BY <1>11, BooksOf DEF Apart
<1>15. \A m \in valid' : \E u \in Slots : m \in live'[u]
  BY <1>4, <1>11, BooksOf
<1>16. ASSUME NEW u \in Slots PROVE live'[u] \subseteq valid' \cup Dooms(calls', u)
  <2>1. menu \in live[s]
    BY <1>3, <1>10, BooksOf DEF Placed
  <2>2. menu \notin live'[u]
    BY <1>3, <1>11, <2>1, BooksOf DEF Apart
  <2>3. live'[u] \subseteq live[u] /\ live[u] \subseteq valid \cup Dooms(calls, u)
    BY <1>11, BooksOf
  <2>4. QED
    BY <1>4, <1>9, <2>2, <2>3
<1>17. \A u \in Slots : u # shutting'.slot => shutting'.left \cap live'[u] = {}
  BY <1>1, <1>11, BooksOf
<1>18. QED
  BY <1>12, <1>13, <1>14, <1>15, <1>16, <1>17 DEF Books, Apart

LEMMA ReturnBooks ==
  ASSUME TypeOK, Books, Return
  PROVE  Books'
<1>1. /\ calls # <<>> /\ Innermost.op # "display" /\ Innermost.ending = {}
      /\ calls' = Outer /\ UNCHANGED <<valid, live, history, shutting>>
  BY DEF Return
<1>2. Extends(calls, Outer, Innermost)
  BY <1>1, InnermostExtends DEF TypeOK
<1>3. ASSUME NEW u
      PROVE  /\ Ends(calls', u) = Ends(calls, u) /\ Comes(calls', u) = Comes(calls, u)
             /\ Dooms(calls', u) = Dooms(calls, u)
  <2>1. /\ Ends(calls, u) = Ends(Outer, u) \cup EndsOf(Innermost, u)
        /\ Comes(calls, u) = Comes(Outer, u) \cup ComesOf(Innermost, u)
        /\ Dooms(calls, u) = Dooms(Outer, u) \cup DoomsOf(Innermost, u)
    BY <1>2, StackOnTop
  <2>2. EndsOf(Innermost, u) = {} /\ DoomsOf(Innermost, u) = {} /\ ComesOf(Innermost, u) = {}
    BY <1>1 DEF EndsOf, ComesOf, DoomsOf
  <2>3. QED
    BY <1>1, <2>1, <2>2
<1>4. Once(calls')
  BY <1>1, <1>2, OnceOnTop, BooksOf
<1>5. \A u \in Slots : Placed(u)'
  BY <1>1, <1>3, BooksOf DEF Placed
<1>6. QED
  BY <1>1, <1>3, <1>4, <1>5, BooksOf DEF Books, Apart

LEMMA ShutdownCancelBooks ==
  ASSUME TypeOK, LoadCycle, Books, ShutdownCancel
  PROVE  Books'
<1> DEFINE s == shutting.slot
<1>1. s \in Slots /\ shutting \in Progress
  BY IdleFields DEF ShutdownCancel, LoadCycle, TypeOK, Progress
<1>2. /\ shutting'.slot = s /\ shutting'.left = shutting.left
      /\ UNCHANGED <<valid, live>>
      /\ UNCHANGED <<calls, history>> \/ EndDisplay(s, "Cancelled")
  BY <1>1, ShuttingCopies DEF ShutdownCancel
<1>3. /\ \A u \in Slots : Placed(u)'
      /\ Once(calls')
      /\ \A u \in Slots : Dooms(calls, u) \subseteq Dooms(calls', u)
  <2>1. CASE UNCHANGED <<calls, history>>
    BY <1>2, <2>1, BooksOf DEF Placed
  <2>2. CASE EndDisplay(s, "Cancelled")
    BY <1>1, <1>2, <2>2, EndDisplayBooks
  <2>3. QED
    BY <1>2, <2>1, <2>2
<1>4. QED
  BY <1>2, <1>3, BooksOf DEF Books, Apart

LEMMA ShutdownCopyBooks ==
  ASSUME LoadCycle, Books, ShutdownCopy
  PROVE  Books'
<1>1. /\ shutting.slot \in Slots /\ shutting'.slot = shutting.slot
      /\ shutting'.left = live[shutting.slot]
      /\ UNCHANGED <<valid, live, history, calls>>
  BY IdleFields DEF ShutdownCopy, LoadCycle
<1>2. \A u \in Slots : u # shutting'.slot => shutting'.left \cap live'[u] = {}
  BY <1>1, BooksOf DEF Apart
<1>3. QED
  BY <1>1, <1>2, BooksOf DEF Books, Apart, Placed

\* Between two calls, what is in m_live is on screen or in the history: the menu
\* that is destroyed is gone from m_live, or the display it was in ends.
LEMMA ShutdownDestroyBooks ==
  ASSUME TypeOK, LoadCycle, Books, ShutdownDestroy
  PROVE  Books'
<1> DEFINE s == shutting.slot
<1>1. s \in Slots /\ shutting \in Progress /\ calls = <<>>
  BY IdleFields DEF ShutdownDestroy, LoadCycle, TypeOK, Progress
<1>2. PICK menu \in shutting.left :
        /\ shutting' = [shutting EXCEPT !.left = @ \ {menu}]
        /\ valid' = valid \ {menu}
        /\ IF menu \in history[s] THEN EndDisplay(s, "Destroyed")
           ELSE UNCHANGED <<calls, history>>
  BY DEF ShutdownDestroy
<1>3. shutting'.slot = s /\ shutting'.left = shutting.left \ {menu} /\ live' = live
  BY <1>1, <1>2, ShuttingLeft DEF ShutdownDestroy
<1>4. /\ \A u \in Slots : Placed(u)'
      /\ Once(calls')
      /\ \A u \in Slots : Dooms(calls, u) \subseteq Dooms(calls', u)
      /\ menu \in history[s] => menu \in Dooms(calls', s)
  <2>1. CASE menu \in history[s]
    BY <1>1, <1>2, <1>3, <2>1, EndDisplayBooks
  <2>2. CASE menu \notin history[s]
    BY <1>2, <1>3, <2>2, BooksOf DEF Placed
  <2>3. QED
    BY <2>1, <2>2
<1>5. ASSUME NEW u \in Slots PROVE live'[u] \subseteq valid' \cup Dooms(calls', u)
  <2>1. live[u] \subseteq valid \cup Dooms(calls, u)
    BY BooksOf
  <2>2. menu \in live[u] => u = s
    BY <1>2, BooksOf
  <2>3. live[s] = history[s]
    <3>1. Ends(calls, s) = {} /\ Comes(calls, s) = {}
      BY <1>1, EmptyStack
    <3>2. live[s] = history[s] \cup Ends(calls, s) \cup Comes(calls, s)
      BY <1>1, BooksOf DEF Placed
    <3>3. QED
      BY <3>1, <3>2
  <2>4. QED
    BY <1>2, <1>3, <1>4, <2>1, <2>2, <2>3
<1>6. \A m \in valid' : \E u \in Slots : m \in live'[u]
  BY <1>2, <1>3, BooksOf
<1>7. \A u \in Slots : u # shutting'.slot => shutting'.left \cap live'[u] = {}
  BY <1>3, BooksOf
<1>8. QED
  BY <1>3, <1>4, <1>5, <1>6, <1>7, BooksOf DEF Books, Apart

LEMMA BookedInit == Init => Booked
  BY EmptyBooks, IdleFields DEF Init, Booked

LEMMA BookedStep ==
  ASSUME Link, Booked, [Next]_vars
  PROVE  Booked'
<1>a. TypeOK /\ LoadCycle /\ Ours
  BY DEF Link
<1>1. ASSUME NEW s \in Slots, Present(s) PROVE Booked'
  <2>1. loaded /\ iface = instance /\ (shutting = Idle \/ s = shutting.slot)
    BY <1>1, <1>a, ShowingLinked DEF Present, Showing
  <2>2. Books'
    BY <1>1, <1>a, <2>1, PresentBooks DEF Booked
  <2>3. QED
    BY <2>2 DEF Booked
<1>2. ASSUME UNCHANGED <<instance, valid, history, iface, live, loaded, shutting, calls>>
      PROVE  Booked'
  BY <1>2 DEF Booked, Books, Placed, Apart
<1>3. ASSUME NEW s \in Slots, Close(s) PROVE Booked'
  <2>1. UNCHANGED <<instance, iface, loaded>>
    BY <1>3 DEF Close
  <2>2. QED
    BY <1>3, <1>a, <2>1, CloseBooks DEF Booked
<1>4. CASE Displayed
  <2>1. UNCHANGED <<instance, iface, loaded>>
    BY <1>4 DEF Displayed
  <2>2. QED
    BY <1>4, <1>a, <2>1, DisplayedBooks DEF Booked
<1>5. CASE End
  <2>1. calls # <<>> /\ UNCHANGED <<instance, iface, loaded>>
    BY <1>5 DEF End
  <2>2. instance # 0
    BY <1>a, <2>1, CallsLinked
  <2>3. QED
    BY <1>5, <1>a, <2>1, <2>2, EndBooks DEF Booked
<1>6. CASE Return
  <2>1. UNCHANGED <<instance, iface, loaded>>
    BY <1>6 DEF Return
  <2>2. QED
    BY <1>6, <1>a, <2>1, ReturnBooks DEF Booked
<1>7. CASE MenusLoad \/ MenusUnload \/ MenusCleared
  <2>1. calls' = <<>> /\ valid' = {} /\ history' = Empty /\ shutting' = Idle
        /\ (~loaded => ~loaded')
    BY <1>7, <1>a DEF MenusLoad, MenusUnload, MenusCleared, LoadCycle
  <2>2. ASSUME loaded', iface' = instance' PROVE live' = Empty
    <3>1. CASE MenusLoad
      BY <1>a, <3>1, <2>1, <2>2 DEF MenusLoad, LoadCycle, Overlooked
    <3>2. CASE MenusUnload
      BY <1>a, <3>2, <2>1, <2>2 DEF MenusUnload, LoadCycle
    <3>3. CASE MenusCleared
      BY <1>a, <3>3, <2>2 DEF MenusCleared, LoadCycle
    <3>4. QED
      BY <1>7, <3>1, <3>2, <3>3
  <2>3. ASSUME live' = Empty PROVE Books'
    <3>1. /\ \A s : Ends(calls', s) = {} /\ Comes(calls', s) = {} /\ Dooms(calls', s) = {}
          /\ Once(calls')
      BY <2>1, EmptyStack
    <3>2. QED
      BY <2>1, <2>3, <3>1, IdleFields DEF Books, Placed, Apart, Empty
  <2>4. QED
    BY <2>2, <2>3 DEF Booked
<1>8. CASE ShutdownBegin
  <2>1. CASE instance = 0
    BY <1>8, <2>1 DEF ShutdownBegin, Booked
  <2>2. CASE instance # 0
    <3>1. /\ loaded /\ iface = instance
          /\ shutting' = [slot |-> 1, step |-> "cancel", left |-> {}]
          /\ UNCHANGED <<valid, history, live, calls>>
      BY <1>8, <1>a, <2>2 DEF ShutdownBegin, LoadCycle, Overlooked
    <3>2. shutting'.left = {}
      BY <3>1
    <3>3. QED
      BY <3>1, <3>2 DEF Booked, Books, Placed, Apart
  <2>3. QED
    BY <2>1, <2>2
<1>9. CASE ShutdownCancel \/ ShutdownCopy \/ ShutdownDestroy
  <2>1. UNCHANGED <<instance, iface, loaded>>
    BY <1>9 DEF ShutdownCancel, ShutdownCopy, ShutdownDestroy
  <2>2. QED
    BY <1>9, <1>a, <2>1, ShutdownCancelBooks, ShutdownCopyBooks, ShutdownDestroyBooks
       DEF Booked
<1>10. CASE ShutdownNext
  <2>1. CASE shutting.slot + 1 \in Slots
    <3>1. /\ shutting' = [slot |-> shutting.slot + 1, step |-> "cancel", left |-> {}]
          /\ UNCHANGED <<instance, iface, loaded, valid, history, live, calls>>
      BY <1>10, <2>1 DEF ShutdownNext
    <3>2. shutting'.left = {}
      BY <3>1
    <3>3. QED
      BY <3>1, <3>2 DEF Booked, Books, Placed, Apart
  <2>2. CASE shutting.slot + 1 \notin Slots
    BY <1>10, <2>2 DEF ShutdownNext, Booked
  <2>3. QED
    BY <2>1, <2>2
<1>11. QED
  BY <1>1, <1>2, <1>3, <1>4, <1>5, <1>6, <1>7, <1>8, <1>9, <1>10
     DEF Next, Consumer, Metamod, Shutdown, PresentRefused, ShowNotice, NoticeEnds,
         MetaClear, vars

LEMMA BookedCorrect == Spec => []Booked
  BY BookedInit, BookedStep, LinkCorrect, PTL DEF Spec

\* Between two calls m_live is what is on screen or in the slots' histories, and
\* the plugin has no other menu: no end is lost and none is told twice, however
\* the callbacks nest, show other menus and close them.
THEOREM OwnsCorrect == Spec => []OwnsWhatIsShown
<1>1. ASSUME Link, Booked PROVE OwnsWhatIsShown
  <2> SUFFICES ASSUME calls = <<>>, loaded, ~clearing, shutting = Idle
               PROVE  live = history /\ valid = UNION {history[s] : s \in Slots}
    BY DEF OwnsWhatIsShown
  <2>1. Books
    BY <1>1 DEF Link, LoadCycle, Overlooked, Booked
  <2>2. \A s : Ends(calls, s) = {} /\ Comes(calls, s) = {} /\ Dooms(calls, s) = {}
    BY EmptyStack
  <2>3. ASSUME NEW s \in Slots PROVE live[s] = history[s]
    <3>1. live[s] = history[s] \cup Ends(calls, s) \cup Comes(calls, s)
      BY <2>1, BooksOf DEF Placed
    <3>2. QED
      BY <2>2, <3>1
  <2>4. live \in [Slots -> SUBSET Menus] /\ history \in [Slots -> SUBSET Menus]
    BY <1>1 DEF Link, TypeOK
  <2>5. live = history
    BY <2>3, <2>4
  <2>6. \A m : m \in valid <=> \E s \in Slots : m \in history[s]
    BY <2>1, <2>2, <2>3, BooksOf
  <2>7. QED
    BY <2>5, <2>6
<1>2. QED
  BY <1>1, LinkCorrect, BookedCorrect, PTL

-----------------------------------------------------------------------------
(* What Shutdown leaves *)

\* A call that tells the ends of the slot being emptied tells that its menus were
\* destroyed, and puts nothing there.
Settles(t, s) ==
  \A i \in 1 .. Len(t) : t[i].slot = s => t[i].reason = "Destroyed" /\ t[i].op # "display"

Gone == calls = <<>> /\ valid = {} /\ history = Empty /\ noticed = {}

Cleaned ==
  /\ ~loaded => Gone
  /\ \A s \in Slots : s < shutting.slot => live[s] = {} /\ s \notin noticed
  /\ shutting.step \in {"copy", "destroy"} => shutting.slot \notin noticed
  /\ shutting.step = "destroy" =>
       /\ history[shutting.slot] \subseteq shutting.left
       /\ calls # <<>> => history[shutting.slot] = {}
       /\ Settles(calls, shutting.slot)

LEMMA SettlesOnTop ==
  ASSUME NEW t, NEW b, NEW c, Extends(t, b, c), NEW s
  PROVE  Settles(t, s) <=>
           Settles(b, s) /\ (c.slot = s => c.reason = "Destroyed" /\ c.op # "display")
  BY EveryCall DEF Settles

LEMMA SettlesEmpty ==
  ASSUME NEW t, t = <<>>, NEW s
  PROVE  Settles(t, s)
<1>1. Len(t) = 0 /\ 1 .. 0 = {}
  OBVIOUS
<1>2. QED
  BY <1>1 DEF Settles

LEMMA EndDisplaySettles ==
  ASSUME TypeOK, NEW s \in Slots, NEW reason \in Reasons, EndDisplay(s, reason), NEW u,
         Settles(calls, u), s = u => reason = "Destroyed"
  PROVE  Settles(calls', u)
<1> DEFINE c == Call("other", s, 0, history[s], reason)
<1>1. c \in Calls /\ Enter(c) /\ calls \in Seq(Calls)
  BY EndDisplayTypes DEF EndDisplay, TypeOK
<1>2. c.slot = s /\ c.op = "other" /\ c.reason = reason
  BY DEF Call
<1> HIDE DEF c
<1>3. QED
  BY <1>1, <1>2, EnterExtends, SettlesOnTop

LEMMA CleanedInit == Init => Cleaned
  BY IdleFields DEF Init, Cleaned, Slots

\* While Shutdown destroys the slot's menus, what runs in between shows nothing.
LEMMA NoneShown ==
  ASSUME TypeOK, Cleaned, "Destroyed" \notin ChainsAtUnload, NEW s \in Slots, Showing(s)
  PROVE  shutting # Idle => s = shutting.slot /\ calls # <<>> /\ shutting.step # "destroy"
<1> SUFFICES ASSUME shutting # Idle
             PROVE  s = shutting.slot /\ calls # <<>> /\ shutting.step # "destroy"
  OBVIOUS
<1>1. /\ calls # <<>> /\ s = shutting.slot /\ s = Innermost.slot
      /\ Innermost.reason \in ChainsAtUnload
  BY DEF Showing, Running
<1>2. Len(calls) \in 1 .. Len(calls)
  BY <1>1, InnermostType DEF TypeOK
<1>3. shutting.step = "destroy" => Innermost.reason = "Destroyed"
  BY <1>1, <1>2 DEF Cleaned, Settles, Innermost
<1>4. QED
  BY <1>1, <1>3

LEMMA CleanedStep ==
  ASSUME Link, Booked, Cleaned, "Destroyed" \notin ChainsAtUnload, [Next]_vars
  PROVE  Cleaned'
<1>a. TypeOK /\ LoadCycle
  BY DEF Link
<1>t. /\ calls \in Seq(Calls) /\ history \in [Slots -> SUBSET Menus]
      /\ live \in [Slots -> SUBSET Menus] /\ shutting \in Progress
  BY <1>a DEF TypeOK, Progress
<1>c. /\ ~loaded => Gone
      /\ \A s \in Slots : s < shutting.slot => live[s] = {} /\ s \notin noticed
      /\ shutting.step \in {"copy", "destroy"} => shutting.slot \notin noticed
      /\ shutting.step = "destroy" =>
           /\ history[shutting.slot] \subseteq shutting.left
           /\ calls # <<>> => history[shutting.slot] = {}
           /\ Settles(calls, shutting.slot)
  BY DEF Cleaned
<1>i. shutting = Idle => \A s \in Slots : ~(s < shutting.slot)
  BY IdleFields, SlotTypes
<1>1. ASSUME NEW s \in Slots, Present(s) PROVE Cleaned'
  <2>1. loaded /\ UNCHANGED <<loaded, shutting, noticed>>
        /\ live' = [live EXCEPT ![s] = @ \cup {made + 1}]
    BY <1>1, <1>a, ShowingLinked DEF Present
  <2>2. shutting # Idle => s = shutting.slot /\ shutting.step # "destroy"
    BY <1>1, <1>a, NoneShown DEF Present
  <2>3. shutting.step # "destroy"
    BY <2>2, IdleFields
  <2>4. \A u \in Slots : u < shutting.slot => live'[u] = {}
    <3>1. \A u \in Slots : u < u => FALSE
      BY SlotTypes
    <3>2. QED
      BY <1>c, <1>i, <1>t, <2>1, <2>2, <3>1
  <2>5. QED
    BY <1>c, <2>1, <2>3, <2>4 DEF Cleaned
<1>2. ASSUME NEW s \in Slots, PresentRefused(s) PROVE Cleaned'
  BY <1>2 DEF PresentRefused, Cleaned, Gone
<1>3. ASSUME NEW s \in Slots, ShowNotice(s) PROVE Cleaned'
  <2>1. shutting = Idle /\ loaded /\ UNCHANGED <<loaded, shutting>>
    BY <1>3 DEF ShowNotice, Showing, Running
  <2>2. QED
    BY <1>i, <2>1, IdleFields DEF Cleaned
<1>4. ASSUME NEW s \in Slots, NoticeEnds(s) PROVE Cleaned'
  <2>1. noticed' \subseteq noticed
        /\ UNCHANGED <<loaded, shutting, live, history, valid, calls>>
    BY <1>4 DEF NoticeEnds
  <2>2. QED
    BY <1>c, <2>1 DEF Cleaned, Gone
<1>5. ASSUME NEW s \in Slots, Close(s) PROVE Cleaned'
  <2>1. /\ history[s] # {} /\ EndDisplay(s, "Cancelled")
        /\ history' = [history EXCEPT ![s] = {}]
        /\ UNCHANGED <<loaded, shutting, live, valid, noticed>>
        /\ calls = <<>> => shutting = Idle
    BY <1>5 DEF Close, EndDisplay, Running, Told
  <2>2. loaded
    BY <1>c, <2>1 DEF Gone, Empty
  <2>3. ASSUME shutting.step = "destroy"
        PROVE  s # shutting.slot /\ Settles(calls', shutting.slot)
               /\ history'[shutting.slot] = {}
    <3>1. shutting.slot \in Slots /\ calls # <<>> /\ history[shutting.slot] = {}
      BY <1>a, <1>c, <2>1, <2>3, IdleFields DEF LoadCycle
    <3>2. s # shutting.slot
      BY <2>1, <3>1
    <3>3. Settles(calls', shutting.slot)
      BY <1>a, <1>c, <2>1, <2>3, <3>2, EndDisplaySettles
    <3>4. QED
      BY <1>t, <2>1, <3>1, <3>2, <3>3
  <2>4. QED
    BY <1>c, <2>1, <2>2, <2>3 DEF Cleaned
<1>6. CASE Displayed
  <2> DEFINE s == Innermost.slot
             c == Call("display", s, Innermost.menu, history[s], "Cancelled")
  <2>1. /\ calls # <<>> /\ s \in Slots /\ c \in Calls
        /\ Innermost.op = "display"
        /\ ShowNow(s) \/ EndAnother(s)
        /\ UNCHANGED <<loaded, shutting, live, valid, noticed>>
    BY <1>6, <1>a, DisplayedSteps
  <2>2. loaded
    BY <1>c, <2>1 DEF Gone
  <2>3. ASSUME shutting.step = "destroy"
        PROVE  Settles(calls', shutting.slot) /\ history'[shutting.slot] = {}
    <3>1. shutting.slot \in Slots /\ history[shutting.slot] = {}
      BY <1>a, <1>c, <2>1, <2>3, IdleFields DEF LoadCycle
    <3>2. Settles(Outer, shutting.slot) /\ s # shutting.slot
      BY <1>c, <1>t, <2>1, <2>3, InnermostExtends, SettlesOnTop
    <3>3. CASE ShowNow(s)
      BY <1>t, <3>1, <3>2, <3>3 DEF ShowNow
    <3>4. CASE EndAnother(s)
      <4>1. calls' = [calls EXCEPT ![Len(calls)] = c] /\ c.slot = s
            /\ history' = [history EXCEPT ![s] = {}]
        BY <3>4 DEF EndAnother, Call
      <4> HIDE DEF c
      <4>2. Extends(calls', Outer, c)
        BY <1>t, <2>1, <4>1, AlterExtends
      <4>3. QED
        BY <1>t, <3>1, <3>2, <4>1, <4>2, SettlesOnTop
    <3>5. QED
      BY <2>1, <3>3, <3>4
  <2>4. QED
    BY <1>c, <2>1, <2>2, <2>3 DEF Cleaned
<1>7. CASE End
  <2>1. calls # <<>> /\ UNCHANGED <<history, noticed, loaded, shutting>>
    BY <1>7 DEF End
  <2>2. loaded
    BY <1>c, <2>1 DEF Gone
  <2>3. PICK menu \in Innermost.ending : Ended(menu)
    BY <1>7 DEF End
  <2>4. \A u \in Slots : live'[u] \subseteq live[u]
    BY <1>t, <2>3 DEF Ended
  <2>5. ASSUME NEW u, Settles(calls, u) PROVE Settles(calls', u)
    <3>1. PICK t : Extends(t, Outer, Less(menu)) /\ Extends(calls', t, OnEnd(menu))
      BY <1>t, <2>1, <2>3, EndedExtends
    <3>2. /\ Settles(Outer, u)
          /\ Innermost.slot = u => Innermost.reason = "Destroyed" /\ Innermost.op # "display"
      BY <1>t, <2>1, <2>5, InnermostExtends, SettlesOnTop
    <3>3. /\ Less(menu).slot = Innermost.slot /\ Less(menu).op = Innermost.op
          /\ Less(menu).reason = Innermost.reason
          /\ OnEnd(menu).slot = Innermost.slot /\ OnEnd(menu).op = "onEnd"
          /\ OnEnd(menu).reason = Innermost.reason
      BY DEF Less, OnEnd, Call
    <3>4. Settles(t, u)
      BY <3>1, <3>2, <3>3, SettlesOnTop
    <3>5. QED
      BY <3>1, <3>2, <3>3, <3>4, SettlesOnTop
  <2>6. QED
    BY <1>c, <2>1, <2>2, <2>4, <2>5 DEF Cleaned
<1>8. CASE Return
  <2>1. calls # <<>> /\ calls' = Outer
        /\ UNCHANGED <<valid, history, noticed, live, loaded, shutting>>
    BY <1>8 DEF Return
  <2>2. \A u : Settles(calls, u) => Settles(calls', u)
    BY <1>t, <2>1, InnermostExtends, SettlesOnTop
  <2>3. QED
    BY <1>c, <2>1, <2>2 DEF Cleaned, Gone
<1>9. CASE Metamod
  <2>1. /\ shutting' = shutting /\ shutting = Idle /\ calls' = calls /\ loaded' = loaded
        /\ UNCHANGED <<valid, history, noticed>> \/ (valid' = {} /\ history' = Empty /\ noticed' = {})
    BY <1>9 DEF Metamod, MenusLoad, MenusUnload, MetaClear, MenusCleared
  <2>2. QED
    BY <1>c, <1>i, <2>1, IdleFields DEF Cleaned, Gone
<1>10. CASE ShutdownBegin
  <2>0. shutting' = Idle \/ shutting' = [slot |-> 1, step |-> "cancel", left |-> {}]
    BY <1>10 DEF ShutdownBegin
  <2>1. shutting'.slot = 0 \/ shutting'.slot = 1
    BY <2>0, IdleFields
  <2>2. shutting'.step = "idle" \/ shutting'.step = "cancel"
    BY <2>0, IdleFields
  <2>3. \A s \in Slots : ~(s < shutting'.slot)
    BY <2>1 DEF Slots
  <2>4. ~loaded' => Gone'
    <3>1. loaded /\ UNCHANGED <<valid, history, noticed, calls>>
          /\ (~loaded' => instance = 0)
      BY <1>10 DEF ShutdownBegin
    <3>2. QED
      BY <1>a, <3>1 DEF LoadCycle, Gone
  <2>5. QED
    BY <2>2, <2>3, <2>4 DEF Cleaned
<1>11. CASE ShutdownCancel
  <2>1. shutting # Idle /\ shutting.slot \in Slots /\ loaded /\ loaded'
    BY <1>11, <1>a, IdleFields, ShuttingLinked DEF ShutdownCancel
  <2>2. /\ shutting'.slot = shutting.slot /\ shutting'.step = "copy"
        /\ noticed' = noticed \ {shutting.slot} /\ live' = live
    BY <1>11, <1>t, ShuttingCopies DEF ShutdownCancel
  <2>3. QED
    BY <1>c, <2>1, <2>2 DEF Cleaned
<1>12. CASE ShutdownCopy
  <2>1. shutting # Idle /\ shutting.slot \in Slots /\ loaded /\ iface = instance
    BY <1>12, <1>a, IdleFields, ShuttingLinked DEF ShutdownCopy
  <2>2. /\ shutting'.slot = shutting.slot /\ shutting'.left = live[shutting.slot]
        /\ shutting.step = "copy" /\ calls' = <<>>
        /\ UNCHANGED <<loaded, live, history, noticed>>
    BY <1>12 DEF ShutdownCopy
  <2>3. history'[shutting'.slot] \subseteq shutting'.left
    BY <2>1, <2>2, BooksOf DEF Booked, Placed
  <2>4. QED
    BY <1>c, <2>1, <2>2, <2>3, SettlesEmpty DEF Cleaned
<1>13. CASE ShutdownDestroy
  <2> DEFINE s == shutting.slot
  <2>1. s \in Slots /\ loaded /\ calls = <<>> /\ shutting.step = "destroy"
        /\ UNCHANGED <<noticed, live, loaded>>
    BY <1>13, <1>a, IdleFields, ShuttingLinked DEF ShutdownDestroy
  <2>2. PICK menu \in shutting.left :
          /\ shutting' = [shutting EXCEPT !.left = @ \ {menu}]
          /\ IF menu \in history[s] THEN EndDisplay(s, "Destroyed")
             ELSE UNCHANGED <<calls, history>>
    BY <1>13 DEF ShutdownDestroy
  <2>3. shutting'.slot = s /\ shutting'.left = shutting.left \ {menu}
        /\ shutting'.step = "destroy"
    BY <1>t, <2>1, <2>2, ShuttingLeft
  <2>4. /\ history'[s] \subseteq shutting'.left
        /\ calls' # <<>> => history'[s] = {}
        /\ Settles(calls', s)
    <3>1. CASE menu \in history[s]
      <4>1. history'[s] = {}
        BY <1>t, <2>1, <2>2, <3>1 DEF EndDisplay
      <4>2. Settles(calls', s)
        BY <1>a, <1>c, <2>1, <2>2, <3>1, EndDisplaySettles
      <4>3. QED
        BY <4>1, <4>2
    <3>2. CASE menu \notin history[s]
      BY <1>c, <2>1, <2>2, <2>3, <3>2
    <3>3. QED
      BY <3>1, <3>2
  <2>5. QED
    BY <1>c, <2>1, <2>3, <2>4 DEF Cleaned
<1>14. CASE ShutdownNext
  <2> DEFINE s == shutting.slot
  <2>1. s \in Slots /\ loaded /\ iface = instance /\ calls = <<>> /\ calls' = <<>>
        /\ shutting.step = "destroy" /\ shutting.left = {}
        /\ UNCHANGED <<valid, history, noticed>>
    BY <1>14, <1>a, IdleFields, ShuttingLinked DEF ShutdownNext
  <2>2. \A u \in Slots : Placed(u) /\ live[u] = history[u]
    <3>1. \A u : Ends(calls, u) = {} /\ Comes(calls, u) = {}
      BY <2>1, EmptyStack
    <3>2. ASSUME NEW u \in Slots PROVE Placed(u) /\ live[u] = history[u]
      <4>1. Placed(u)
        BY <2>1, BooksOf DEF Booked
      <4>2. QED
        BY <3>1, <4>1 DEF Placed
    <3>3. QED
      BY <3>2
  <2>3. live[s] = {} /\ s \notin noticed
    BY <1>c, <2>1, <2>2
  <2>4. CASE s + 1 \in Slots
    <3>1. /\ shutting' = [slot |-> s + 1, step |-> "cancel", left |-> {}]
          /\ UNCHANGED <<live, loaded>>
      BY <1>14, <2>4 DEF ShutdownNext
    <3>2. shutting'.slot = s + 1 /\ shutting'.step = "cancel"
      BY <3>1
    <3>3. \A u \in Slots : u < s + 1 => u < s \/ u = s
      <4>1. s \in Nat
        BY <2>1, SlotTypes
      <4>2. \A u \in Nat : u < s + 1 => u < s \/ u = s
        BY <4>1
      <4>3. QED
        BY <4>2, SlotTypes
    <3>4. QED
      BY <1>c, <2>1, <2>3, <3>1, <3>2, <3>3 DEF Cleaned
  <2>5. CASE s + 1 \notin Slots
    <3>1. shutting' = Idle
      BY <1>14, <2>5 DEF ShutdownNext
    <3>2. \A u \in Slots : u < s \/ u = s
      BY <2>1, <2>5, MenusAssumption DEF Slots
    <3>3. \A u \in Slots : live[u] = {} /\ u \notin noticed
      BY <1>c, <2>3, <3>2
    <3>4. history = Empty /\ noticed = {} /\ valid = {}
      <4>1. history = Empty
        BY <1>t, <2>2, <3>3 DEF Empty
      <4>2. noticed = {}
        BY <1>a, <3>3 DEF TypeOK
      <4>3. valid = {}
        BY <2>1, <3>3, BooksOf DEF Booked
      <4>4. QED
        BY <4>1, <4>2, <4>3
    <3>5. Gone'
      BY <2>1, <3>4 DEF Gone
    <3>6. \A u \in Slots : ~(u < shutting'.slot)
      BY <3>1, IdleFields DEF Slots
    <3>7. QED
      BY <3>1, <3>5, <3>6, IdleFields DEF Cleaned
  <2>6. QED
    BY <2>4, <2>5
<1>15. CASE UNCHANGED vars
  BY <1>15 DEF vars, Cleaned, Gone
<1>16. QED
  BY <1>1, <1>2, <1>3, <1>4, <1>5, <1>6, <1>7, <1>8, <1>9, <1>10, <1>11, <1>12, <1>13,
     <1>14, <1>15 DEF Next, Consumer, Shutdown

\* After Shutdown mm-cs2menus holds no callback into this plugin, whatever the
\* callbacks did that it ran, as long as none of them shows the slot's next menu
\* when its own was destroyed: the loop goes over a copy of m_live made before.
THEOREM LeftCorrect ==
  ASSUME "Destroyed" \notin ChainsAtUnload
  PROVE  Spec => []NothingLeftAtTheHost
<1>1. Link /\ Booked /\ Cleaned /\ [Next]_vars => Cleaned'
  BY CleanedStep
<1>2. Spec => []Cleaned
  BY <1>1, CleanedInit, LinkCorrect, BookedCorrect, PTL DEF Spec
<1>3. Cleaned => NothingLeftAtTheHost
  BY DEF Cleaned, Gone, NothingLeftAtTheHost
<1>4. QED
  BY <1>2, <1>3, PTL
=============================================================================
