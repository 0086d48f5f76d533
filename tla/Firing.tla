------------------------------- MODULE Firing -------------------------------
(***************************************************************************)
(* What a forward list promises (interfaces/forward_list.h:60 and           *)
(* interfaces/cs2admin/forwards.h:271), without its snapshot: a firing owes *)
(* one call to each member that was there when it began, in the order in    *)
(* which they joined.  Who leaves is owed nothing any more, from that       *)
(* moment; who joins meanwhile is not called.  Firings nest.                *)
(***************************************************************************)
EXTENDS Naturals, Sequences

CONSTANTS Lists, Blockable

VARIABLES
  joined,   \* per list, how many have joined: members are numbered
  members,  \* per list, the numbers of those that have not left
  firings,  \* the firings under way, the innermost last
  result    \* what the firing that ended last returned

vars == <<joined, members, firings, result>>

\* A firing of l that owes calls to `due` and is inside that of `i` (0: none).
Owing(l, due, i) == [list |-> l, due |-> due, calling |-> i]

Firsts(S) == {i \in S : \A j \in S : i <= j}

Init ==
  /\ joined = [l \in Lists |-> 0]
  /\ members = [l \in Lists |-> {}]
  /\ firings = <<>>
  /\ result = FALSE

Join(l) ==
  /\ joined' = [joined EXCEPT ![l] = @ + 1]
  /\ members' = [members EXCEPT ![l] = @ \cup {joined[l] + 1}]
  /\ UNCHANGED <<firings, result>>

AllMembers == UNION {members[l] : l \in Lists}

Leave(leaving) ==
  /\ members' = [l \in Lists |-> members[l] \ leaving[l]]
  /\ firings' = [k \in DOMAIN firings |->
       Owing(firings[k].list, firings[k].due \ leaving[firings[k].list],
               firings[k].calling)]
  /\ UNCHANGED <<joined, result>>

Begin(l) ==
  /\ firings' = Append(firings, Owing(l, members[l], 0))
  /\ UNCHANGED <<joined, members, result>>

Innermost == firings[Len(firings)]
Outer == SubSeq(firings, 1, Len(firings) - 1)

Call ==
  /\ firings /= <<>>
  /\ Innermost.calling = 0
  /\ \E i \in Firsts(Innermost.due) :
       firings' = [firings EXCEPT ![Len(firings)] =
                     Owing(Innermost.list, Innermost.due \ {i}, i)]
  /\ UNCHANGED <<joined, members, result>>

\* A callback that blocks ends the firing, and the others are not called.
Answer(blocks) ==
  /\ firings /= <<>>
  /\ Innermost.calling /= 0
  /\ blocks => Innermost.list \in Blockable
  /\ firings' = IF blocks THEN Outer
                ELSE [firings EXCEPT ![Len(firings)] =
                        Owing(Innermost.list, Innermost.due, 0)]
  /\ result' = IF blocks THEN TRUE ELSE result
  /\ UNCHANGED <<joined, members>>

End ==
  /\ firings /= <<>>
  /\ Innermost.calling = 0
  /\ Innermost.due = {}
  /\ firings' = Outer
  /\ result' = FALSE
  /\ UNCHANGED <<joined, members>>

Next ==
  \/ \E l \in Lists : Join(l) \/ Begin(l)
  \/ \E leaving \in [Lists -> SUBSET AllMembers] : Leave(leaving)
  \/ \E blocks \in BOOLEAN : Answer(blocks)
  \/ Call
  \/ End

Spec == Init /\ [][Next]_vars
=============================================================================
