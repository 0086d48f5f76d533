----------------------------- MODULE ForwardList -----------------------------
(***************************************************************************)
(* interfaces/forward_list.h: one list of subscribers.  m_entries is a      *)
(* function from ids: ids are handed out in increasing order and entries    *)
(* are appended, so the order of the vector is the order of the ids.  A     *)
(* callback is the plugin whose code it runs, Empty one that was replaced   *)
(* by `new (&e.fn) Fn()`.                                                   *)
(***************************************************************************)
EXTENDS Naturals

CONSTANT Empty

NewList == [entries |-> [id \in {} |-> Empty], nextId |-> 1]

Ids(list) == DOMAIN list.entries

\* Add of a callback that is not empty; the empty one is refused with id 0.
Add(list, owner) ==
  [entries |-> [id \in Ids(list) \cup {list.nextId} |->
                  IF id = list.nextId THEN [owner |-> owner, fn |-> owner]
                                      ELSE list.entries[id]],
   nextId |-> list.nextId + 1]

OwnedBy(list, owner) == {id \in Ids(list) : list.entries[id].owner = owner}

\* erase, which destroys the callbacks of the entries: see Destroyed.
Erase(list, ids) ==
  [entries |-> [id \in Ids(list) \ ids |-> list.entries[id]],
   nextId |-> list.nextId]

Destroyed(list, ids) == {list.entries[id].fn : id \in ids \cap Ids(list)} \ {Empty}

\* Mutant: Drop without its first loop.
LeakedNothing(list, owner) == list

\* The first loop of Drop.
Leaked(list, owner) ==
  [entries |-> [id \in Ids(list) |->
     IF list.entries[id].owner = owner THEN [owner |-> owner, fn |-> Empty]
                                       ELSE list.entries[id]],
   nextId |-> list.nextId]
=============================================================================
