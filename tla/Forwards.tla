------------------------------ MODULE Forwards ------------------------------
(***************************************************************************)
(* interfaces/cs2admin/forwards.h and interfaces/cs2rockthevote/forwards.h: *)
(* the forward lists of a host plugin, to which other plugins subscribe,    *)
(* while Metamod loads and unloads them.  All of it runs on the game        *)
(* thread: what interleaves are calls made by callbacks in the middle of a  *)
(* Fire, which may subscribe, leave, fire again, or unload a third plugin.  *)
(* What other plugins do is external; they keep the contract of             *)
(* forwards.h:58-59.                                                        *)
(***************************************************************************)
EXTENDS Naturals, Sequences, FiniteSets

CONSTANTS
  Plugins,    \* each is loaded once: Metamod gives a new id to every load
  Lists,      \* the m_on... members of the host
  Blockable,  \* those whose callbacks return bool
  Empty,      \* the empty std::function
  MaxAdds,    \* bound: registrations per list
  MaxDepth    \* bound: nested firings

ASSUME ForwardsAssumption ==
  /\ Blockable \subseteq Lists
  /\ Empty \notin Plugins
  /\ MaxAdds \in Nat
  /\ MaxDepth \in Nat

INSTANCE ForwardList

VARIABLES
  lists,    \* the ForwardList of each forward
  stack,    \* the calls of Fire that have not returned, the innermost last
  result,   \* what the Fire that returned last returned
  host,     \* the host is loaded
  mapped,   \* plugins whose code is in memory
  unloaded, \* plugins that were unloaded
  ruined    \* observer: plugins of which code was run after they were unmapped

vars == <<lists, stack, result, host, mapped, unloaded, ruined>>

\* A frame of Fire: `ids` that the loop has still to visit, the entry it calls
\* (0 between two calls), and the copy `fn` of its callback.
Frames == [list : Lists, ids : SUBSET Nat, callee : Nat, fn : Plugins \cup {Empty}]

Init ==
  /\ lists = [l \in Lists |-> NewList]
  /\ stack = <<>>
  /\ result = FALSE
  /\ host = TRUE
  /\ mapped = {}
  /\ unloaded = {}
  /\ ruined = {}

Innermost == stack[Len(stack)]
Outer == SubSeq(stack, 1, Len(stack) - 1)

\* Code of a plugin runs between two calls of the host and inside a callback.
Callable == stack /= <<>> => Innermost.callee /= 0

\* Code run on behalf of `plugins` now.
Touch(plugins, inMemory) == ruined' = ruined \cup (plugins \ inMemory)

-----------------------------------------------------------------------------
(* Registration. *)

Load(p) ==
  /\ Callable
  /\ p \notin mapped \cup unloaded
  /\ mapped' = mapped \cup {p}
  /\ UNCHANGED <<lists, stack, result, host, unloaded, ruined>>

RegisterOn(l, p) ==
  /\ Callable /\ host
  /\ p \in mapped
  /\ lists[l].nextId <= MaxAdds
  /\ lists' = [lists EXCEPT ![l] = Add(@, p)]
  /\ UNCHANGED <<stack, result, host, mapped, unloaded, ruined>>

\* A handle is given to its own plugin; one that is gone matches no entry.
UnregisterOn(l, id) ==
  /\ Callable /\ host
  /\ id \in Ids(lists[l])
  /\ lists[l].entries[id].owner \in mapped
  /\ lists' = [lists EXCEPT ![l] = Erase(@, {id})]
  /\ Touch(Destroyed(lists[l], {id}), mapped)
  /\ UNCHANGED <<stack, result, host, mapped, unloaded>>

-----------------------------------------------------------------------------
(* Unloading. *)

\* Drop, on a plugin that is out of memory already.
Drop(list, p) == Erase(Leaked(list, p), OwnedBy(list, p))
DropTouches(list, p) == Destroyed(Leaked(list, p), OwnedBy(list, p))

\* EachList with Drop.
DropOwnedBy(p, inMemory) ==
  /\ lists' = [l \in Lists |-> Drop(lists[l], p)]
  /\ Touch(UNION {DropTouches(lists[l], p) : l \in Lists}, inMemory)

OnStack == {stack[k].fn : k \in DOMAIN stack} \ {Empty}

\* Not from inside its own callback, which would return into unmapped code.
Unloadable(p) == Callable /\ p \in mapped /\ p \notin OnStack

\* Metamod tells every plugin: the host's OnPluginUnload drops what is left.
UnloadAnnounced(p) ==
  /\ Unloadable(p)
  /\ mapped' = mapped \ {p}
  /\ unloaded' = unloaded \cup {p}
  /\ IF host THEN DropOwnedBy(p, mapped') ELSE UNCHANGED <<lists, ruined>>
  /\ UNCHANGED <<stack, result, host>>

\* `meta clear` tells nobody: the plugin's own Unload has unregistered all.
UnloadSilently(p) ==
  /\ Unloadable(p)
  /\ mapped' = mapped \ {p}
  /\ unloaded' = unloaded \cup {p}
  /\ IF host
       THEN /\ lists' = [l \in Lists |-> Erase(lists[l], OwnedBy(lists[l], p))]
            /\ Touch(UNION {Destroyed(lists[l], OwnedBy(lists[l], p)) : l \in Lists},
                     mapped)
       ELSE UNCHANGED <<lists, ruined>>
  /\ UNCHANGED <<stack, result, host>>

\* The host's Unload: EachList with Clear.
Shutdown ==
  /\ host /\ stack = <<>>
  /\ host' = FALSE
  /\ lists' = [l \in Lists |-> Erase(lists[l], Ids(lists[l]))]
  /\ Touch(UNION {Destroyed(lists[l], Ids(lists[l])) : l \in Lists}, mapped)
  /\ UNCHANGED <<stack, result, mapped, unloaded>>

-----------------------------------------------------------------------------
(* Fire. *)

\* Mutant: the loop walks the entries instead of the snapshot.
FireOnEntries(l) ==
  /\ Callable /\ host
  /\ Len(stack) < MaxDepth
  /\ stack' = Append(stack, [list |-> l, ids |-> 1 .. MaxAdds, callee |-> 0,
                             fn |-> Empty])
  /\ UNCHANGED <<lists, result, host, mapped, unloaded, ruined>>

FireOn(l) ==
  /\ Callable /\ host
  /\ Len(stack) < MaxDepth
  /\ stack' = Append(stack, [list |-> l, ids |-> Ids(lists[l]), callee |-> 0,
                             fn |-> Empty])
  /\ UNCHANGED <<lists, result, host, mapped, unloaded, ruined>>

\* What find_if finds of the ids that are left.
Found(frame) == frame.ids \cap Ids(lists[frame.list])

\* The rounds of the loop up to the next entry that is still there.
CallNext ==
  /\ stack /= <<>> /\ Innermost.callee = 0
  /\ \E id \in Found(Innermost) :
       LET entry == lists[Innermost.list].entries[id]
       IN /\ \A later \in Found(Innermost) : id <= later
          /\ stack' = [stack EXCEPT ![Len(stack)] =
                [list |-> Innermost.list, ids |-> {i \in Innermost.ids : i > id},
                 callee |-> id, fn |-> entry.fn]]
          /\ Touch({entry.fn}, mapped)
  /\ UNCHANGED <<lists, result, host, mapped, unloaded>>

\* The callback returns; the copy of it is destroyed at the end of the round.
Return(blocks) ==
  /\ stack /= <<>> /\ Innermost.callee /= 0
  /\ blocks => Innermost.list \in Blockable
  /\ IF blocks
       THEN stack' = Outer /\ result' = TRUE
       ELSE /\ stack' = [stack EXCEPT ![Len(stack)] =
                  [list |-> Innermost.list, ids |-> Innermost.ids,
                   callee |-> 0, fn |-> Empty]]
            /\ UNCHANGED result
  /\ Touch({Innermost.fn}, mapped)
  /\ UNCHANGED <<lists, host, mapped, unloaded>>

EndFire ==
  /\ stack /= <<>> /\ Innermost.callee = 0
  /\ Found(Innermost) = {}
  /\ stack' = Outer
  /\ result' = FALSE
  /\ UNCHANGED <<lists, host, mapped, unloaded, ruined>>

-----------------------------------------------------------------------------
Next ==
  \/ \E p \in Plugins : Load(p) \/ UnloadAnnounced(p) \/ UnloadSilently(p)
  \/ \E l \in Lists : FireOn(l)
  \/ \E l \in Lists, p \in Plugins : RegisterOn(l, p)
  \/ \E l \in Lists : \E id \in Ids(lists[l]) : UnregisterOn(l, id)
  \/ Shutdown
  \/ CallNext
  \/ \E blocks \in BOOLEAN : Return(blocks)
  \/ EndFire

Spec == Init /\ [][Next]_vars

-----------------------------------------------------------------------------
TypeOK ==
  /\ DOMAIN lists = Lists
  /\ \A l \in Lists :
       /\ lists[l].nextId \in Nat \ {0}
       /\ lists[l].entries \in
            [Ids(lists[l]) -> [owner : Plugins, fn : Plugins \cup {Empty}]]
       /\ Ids(lists[l]) \subseteq 1 .. (lists[l].nextId - 1)
  /\ stack \in Seq(Frames)
  /\ result \in BOOLEAN /\ host \in BOOLEAN
  /\ mapped \subseteq Plugins /\ unloaded \subseteq Plugins
  /\ ruined \subseteq Plugins \cup {Empty}

\* No code of a plugin that left the memory is run: none of its callbacks is
\* called, copied or destroyed afterwards, whoever unloaded it, in the middle
\* of however many firings, and whether or not Metamod announced it
\* (forward_list.h:45, forwards.h:99-100).
NothingUnmappedRuns == ruined = {}

\* What Firing sees of the lists and of the frames.
Joined == [l \in Lists |-> lists[l].nextId - 1]
Members == [l \in Lists |-> Ids(lists[l])]
FiringOf(frame) ==
  [list |-> frame.list, due |-> Found(frame), calling |-> frame.callee]
Firings == [k \in DOMAIN stack |-> FiringOf(stack[k])]

\* The snapshot of ids, looked up again before each call, does what the header
\* says of it (forward_list.h:60): every subscriber that stays is called once,
\* in order, one that leaves no more, one that comes not yet.
Promised == INSTANCE Firing WITH
  joined <- Joined, members <- Members, firings <- Firings
RefinesFiring == Promised!Spec
=============================================================================
