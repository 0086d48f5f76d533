----------------------------- MODULE MenusClient -----------------------------
(***************************************************************************)
(* interfaces/cs2menus/menus_client.h over interfaces/interface_bridge.h: a *)
(* plugin shows menus of mm-cs2menus, which calls back when a display ends. *)
(* All of it runs on the game thread; what interleaves are the calls that   *)
(* the consumer makes from end callbacks, in the middle of a call of its    *)
(* own, and the plugins' loads and unloads.  mm-cs2menus is external and is *)
(* modelled by the contract of ics2menus.h.                                 *)
(***************************************************************************)
EXTENDS Integers, Sequences

CONSTANTS
  MAXPLAYERS,     \* slots
  MaxInstances,   \* bound: loads of mm-cs2menus
  MaxMenus,       \* bound: menus created in each of them
  MaxDepth,       \* bound: nested calls
  ChainsAtUnload  \* ends at which an onEnd that Shutdown runs shows the
                  \* slot's next menu: {} to all of Reasons

ASSUME MenusAssumption ==
  /\ MAXPLAYERS \in Nat \ {0}
  /\ MaxInstances \in Nat /\ MaxMenus \in Nat /\ MaxDepth \in Nat
  /\ ChainsAtUnload \subseteq {"Cancelled", "Destroyed"}

Slots == 1 .. MAXPLAYERS  \* 0 .. MAXPLAYERS-1 in the code
Reasons == {"Cancelled", "Destroyed"}  \* the others are alike
Instances == 1 .. MaxInstances
Menus == 1 .. MaxMenus

VARIABLES
  instance,  \* the instance of mm-cs2menus that is loaded, 0 for none
  instances, \* how many there have been
  made,      \* its menus are numbered: how many it has made for this client
  valid,     \* its menus of this client that were not destroyed
  history,   \* per slot, those on screen or in the slot's history
  noticed,   \* slots where it shows this client's notice
  clearing,  \* `meta clear`: all plugins are unloaded, and none is told
  iface,     \* InterfaceBridge::m_iface, 0 for null
  live,      \* m_live
  loaded,    \* this plugin is loaded
  shutting,  \* where Shutdown is: the slot of its loop, what it does there,
             \* and the copy of m_live[i] that the inner loop has left
  calls,     \* calls under way, the innermost last
  misused    \* observer: what went wrong at the host

host == <<instance, instances, made>>
vars == <<host, valid, history, noticed, clearing, iface, live, loaded,
          shutting, calls, misused>>

Empty == [s \in Slots |-> {}]
Idle == [slot |-> 0, step |-> "idle", left |-> {}]

\* A call of the host, whose `ending` have still to be told, or an onEnd.
\* A "display" puts `menu` on screen when they all are.
Call(op, slot, menu, ending, reason) ==
  [op |-> op, slot |-> slot, menu |-> menu, ending |-> ending, reason |-> reason]
Calls == [op : {"display", "other", "onEnd"}, slot : Slots, menu : {0} \cup Menus,
          ending : SUBSET Menus, reason : Reasons]

Init ==
  /\ instance = 0 /\ instances = 0 /\ made = 0
  /\ valid = {}
  /\ history = Empty
  /\ noticed = {}
  /\ clearing = FALSE
  /\ iface = 0
  /\ live = Empty
  /\ loaded = TRUE
  /\ shutting = Idle
  /\ calls = <<>>
  /\ misused = {}

Innermost == calls[Len(calls)]
Outer == SubSeq(calls, 1, Len(calls) - 1)
Enter(call) == calls' = Append(calls, call)

\* What the slot shows ends: its whole history.
EndDisplay(s, reason) ==
  /\ Enter(Call("other", s, 0, history[s], reason))
  /\ history' = [history EXCEPT ![s] = {}]

\* The consumer's code runs on the game thread between calls and in an onEnd.
Running ==
  /\ loaded
  /\ IF calls = <<>> THEN ~clearing /\ shutting = Idle
     ELSE Innermost.op = "onEnd" /\ Len(calls) < MaxDepth

\* The consumer looks at Available before it shows something.
Showing(s) ==
  /\ Running /\ iface /= 0
  /\ shutting /= Idle =>
       s = shutting.slot /\ s = Innermost.slot /\ Innermost.reason \in ChainsAtUnload

\* A call through m_iface.
Through == IF iface = instance THEN {} ELSE {"gone instance"}
\* DestroyMenu, which does nothing with a handle that was destroyed.
Destroying(menu) ==
  /\ valid' = valid \ {menu}
  /\ misused' = misused \cup Through
                  \cup IF menu \in 1 .. made THEN {} ELSE {"not a menu of ours"}

-----------------------------------------------------------------------------
(* Metamod: Refresh runs in OnPluginLoad and OnPluginUnload. *)

Refresh(now) ==
  /\ iface' = now
  /\ live' = IF iface /= 0 /\ now = 0 THEN Empty ELSE live

Told == calls = <<>> /\ shutting = Idle /\ ~clearing

MenusLoad ==
  /\ Told /\ instance = 0
  /\ instances < MaxInstances
  /\ instances' = instances + 1
  /\ instance' = instances'
  /\ made' = 0
  /\ IF loaded THEN Refresh(instance') ELSE UNCHANGED <<iface, live>>
  /\ UNCHANGED <<valid, history, noticed, clearing, loaded, shutting, calls, misused>>

MenusGone ==
  /\ instance' = 0
  /\ valid' = {} /\ history' = Empty /\ noticed' = {}
  /\ UNCHANGED <<instances, made, clearing, loaded, shutting, calls, misused>>

MenusUnload ==
  /\ Told /\ instance /= 0
  /\ MenusGone
  /\ IF loaded THEN Refresh(0) ELSE UNCHANGED <<iface, live>>

MetaClear ==
  /\ Told
  /\ clearing' = TRUE
  /\ UNCHANGED <<host, valid, history, noticed, iface, live, loaded, shutting,
                 calls, misused>>

MenusCleared ==
  /\ clearing /\ calls = <<>> /\ shutting = Idle /\ instance /= 0
  /\ MenusGone
  /\ UNCHANGED <<iface, live>>

-----------------------------------------------------------------------------
(* Present. *)

\* The push_back before showing.
Recorded(s, menu) == live' = [live EXCEPT ![s] = @ \cup {menu}]

\* SetMenuEndCallback and one of the three calls, on a menu just created.
\* DisplayMenu ends what is open first; what PushMenu drops of the history and
\* what ReplaceMenu takes the place of may be told when the menu is there.
Present(s) ==
  /\ Showing(s)
  /\ made < MaxMenus
  /\ made' = made + 1
  /\ valid' = valid \cup {made'}
  /\ misused' = misused \cup Through
  /\ Recorded(s, made')
  /\ \/ /\ Enter(Call("display", s, made', history[s], "Cancelled"))
        /\ history' = [history EXCEPT ![s] = {}]
     \/ \E dropped \in SUBSET history[s] :
          /\ Enter(Call("other", s, made', dropped, "Cancelled"))
          /\ history' = [history EXCEPT ![s] = (@ \ dropped) \cup {made'}]
  /\ UNCHANGED <<instance, instances, noticed, clearing, iface, loaded, shutting>>

\* A host menu owns the slot: Forget and DestroyMenu, and nothing is shown.
PresentRefused(s) ==
  /\ Showing(s)
  /\ made < MaxMenus
  /\ made' = made + 1
  /\ misused' = misused \cup Through
  /\ UNCHANGED <<instance, instances, valid, history, noticed, clearing, iface, live,
                 loaded, shutting, calls>>

\* The callbacks have run; one of them may have shown another menu there.
Displayed ==
  /\ calls /= <<>> /\ Innermost.op = "display" /\ Innermost.ending = {}
  /\ LET s == Innermost.slot
     IN IF history[s] = {}
          THEN /\ history' = [history EXCEPT ![s] = {Innermost.menu}]
               /\ calls' = Outer
          ELSE /\ history' = [history EXCEPT ![s] = {}]
               /\ calls' = [calls EXCEPT ![Len(calls)] =
                              Call("display", s, Innermost.menu, history[s], "Cancelled")]
  /\ UNCHANGED <<host, valid, noticed, clearing, iface, live, loaded, shutting, misused>>

-----------------------------------------------------------------------------
(* A display ends. *)

\* CancelMenu by the consumer, a timeout, a choice, another plugin's menu, ...
Close(s) ==
  /\ \/ Running
     \/ calls = <<>> /\ Told
  /\ history[s] /= {}
  /\ EndDisplay(s, "Cancelled")
  /\ UNCHANGED <<host, valid, noticed, clearing, iface, live, loaded, shutting, misused>>

\* Mutant: the end callback does not Forget.
EndedUnforgotten(menu) ==
  LET s == Innermost.slot
  IN /\ UNCHANGED live
     /\ IF iface /= 0 THEN Destroying(menu) ELSE UNCHANGED <<valid, misused>>
     /\ calls' = Append([calls EXCEPT ![Len(calls)] =
                           Call(@.op, s, @.menu, @.ending \ {menu}, @.reason)],
                        Call("onEnd", s, menu, {}, Innermost.reason))

\* The end callback that Present set, up to the call of onEnd.
Ended(menu) ==
  LET s == Innermost.slot
  IN /\ live' = [live EXCEPT ![s] = @ \ {menu}]
     /\ IF iface /= 0 THEN Destroying(menu) ELSE UNCHANGED <<valid, misused>>
     /\ calls' = Append([calls EXCEPT ![Len(calls)] =
                           Call(@.op, s, @.menu, @.ending \ {menu}, @.reason)],
                        Call("onEnd", s, menu, {}, Innermost.reason))

End ==
  /\ calls /= <<>>
  /\ \E menu \in Innermost.ending : Ended(menu)
  /\ UNCHANGED <<host, history, noticed, clearing, iface, loaded, shutting>>

\* onEnd returns, or a call of the host with nobody left to tell.
Return ==
  /\ calls /= <<>> /\ Innermost.op /= "display" /\ Innermost.ending = {}
  /\ calls' = Outer
  /\ UNCHANGED <<host, valid, history, noticed, clearing, iface, live, loaded,
                 shutting, misused>>

-----------------------------------------------------------------------------
(* Notices. *)

ShowNotice(s) ==
  /\ Showing(s) /\ shutting = Idle
  /\ noticed' = noticed \cup {s}
  /\ misused' = misused \cup Through
  /\ UNCHANGED <<host, valid, history, clearing, iface, live, loaded, shutting, calls>>

\* Its seconds are over, or it was clicked, or HideNotice.
NoticeEnds(s) ==
  /\ Told \/ Running
  /\ s \in noticed
  /\ noticed' = noticed \ {s}
  /\ UNCHANGED <<host, valid, history, clearing, iface, live, loaded, shutting,
                 calls, misused>>

-----------------------------------------------------------------------------
(* Shutdown. *)

Unload ==
  /\ iface' = 0 /\ live' = Empty
  /\ loaded' = FALSE
  /\ shutting' = Idle

\* Mutant: the cached pointer is trusted.
Trusted == iface

Revalidate == instance

ShutdownBegin ==
  /\ calls = <<>> /\ loaded /\ shutting = Idle
  /\ IF Revalidate = 0 THEN Unload
     ELSE /\ iface' = Revalidate
          /\ shutting' = [slot |-> 1, step |-> "cancel", left |-> {}]
          /\ UNCHANGED <<live, loaded>>
  /\ UNCHANGED <<host, valid, history, noticed, clearing, calls, misused>>

\* Mutant: Shutdown leaves the notice.
HideNoNotice(s) == UNCHANGED noticed

HideNotice(s) == noticed' = noticed \ {s}

\* HideNotice and CancelMenu of one slot.
ShutdownCancel ==
  /\ calls = <<>> /\ shutting.step = "cancel"
  /\ LET s == shutting.slot
     IN /\ HideNotice(s)
        /\ IF live[s] = {} THEN UNCHANGED <<calls, history>>
           ELSE EndDisplay(s, "Cancelled")
  /\ misused' = misused \cup Through
  /\ shutting' = [shutting EXCEPT !.step = "copy"]
  /\ UNCHANGED <<host, valid, clearing, iface, live, loaded>>

ShutdownCopy ==
  /\ calls = <<>> /\ shutting.step = "copy"
  /\ shutting' = [slot |-> shutting.slot, step |-> "destroy", left |-> live[shutting.slot]]
  /\ UNCHANGED <<host, valid, history, noticed, clearing, iface, live, loaded, calls,
                 misused>>

\* Destroying a menu that is on screen closes the display.
ShutdownDestroy ==
  /\ calls = <<>> /\ shutting.step = "destroy"
  /\ \E menu \in shutting.left :
       /\ shutting' = [shutting EXCEPT !.left = @ \ {menu}]
       /\ Destroying(menu)
       /\ LET s == shutting.slot
          IN IF menu \in history[s]
               THEN EndDisplay(s, "Destroyed")
               ELSE UNCHANGED <<calls, history>>
  /\ UNCHANGED <<host, noticed, clearing, iface, live, loaded>>

ShutdownNext ==
  /\ calls = <<>> /\ shutting.step = "destroy" /\ shutting.left = {}
  /\ IF shutting.slot + 1 \in Slots
       THEN /\ shutting' = [slot |-> shutting.slot + 1, step |-> "cancel", left |-> {}]
            /\ UNCHANGED <<iface, live, loaded>>
       ELSE Unload
  /\ UNCHANGED <<host, valid, history, noticed, clearing, calls, misused>>

-----------------------------------------------------------------------------
Consumer(s) == Present(s) \/ PresentRefused(s) \/ ShowNotice(s)
Metamod == MenusLoad \/ MenusUnload \/ MetaClear \/ MenusCleared
Shutdown == ShutdownBegin \/ ShutdownCancel \/ ShutdownCopy \/ ShutdownDestroy \/ ShutdownNext

Next ==
  \/ \E s \in Slots : Consumer(s) \/ Close(s) \/ NoticeEnds(s)
  \/ Displayed \/ End \/ Return
  \/ Metamod
  \/ Shutdown

Spec == Init /\ [][Next]_vars

-----------------------------------------------------------------------------
TypeOK ==
  /\ instance \in {0} \cup Instances /\ iface \in {0} \cup Instances
  /\ instances \in 0 .. MaxInstances /\ made \in 0 .. MaxMenus
  /\ valid \subseteq Menus
  /\ history \in [Slots -> SUBSET Menus] /\ live \in [Slots -> SUBSET Menus]
  /\ noticed \subseteq Slots
  /\ clearing \in BOOLEAN /\ loaded \in BOOLEAN
  /\ shutting \in [slot : {0} \cup Slots, step : {"idle", "cancel", "copy", "destroy"},
                   left : SUBSET Menus]
  /\ calls \in Seq(Calls)
  /\ misused \subseteq {"gone instance", "not a menu of ours"}

\* Between two calls, Owns says of each menu whether it is on screen or in the
\* slot's history (menus_client.h:119), and no other menu of the plugin exists:
\* each was destroyed when its display ended, whatever the callbacks showed
\* meanwhile, and none is taken for a menu of an instance that is gone.
OwnsWhatIsShown ==
  calls = <<>> /\ loaded /\ ~clearing /\ shutting = Idle =>
    live = history /\ valid = UNION {history[s] : s \in Slots}

\* No handle of an instance that is gone is destroyed, and no call reaches one,
\* announced or not (interface_bridge.h:46-47, menus_client.h:42).
HostIsUsedWell == misused = {}

\* After Unload mm-cs2menus holds no callback into this plugin: no menu, on
\* screen or off, and no notice (menus_client.h:11 and :39).
NothingLeftAtTheHost == ~loaded => valid = {} /\ history = Empty /\ noticed = {}
=============================================================================
