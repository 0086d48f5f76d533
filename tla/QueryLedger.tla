---------------------------- MODULE QueryLedger ----------------------------
(***************************************************************************)
(* What utils/sql.h promises for the callbacks of the queries it accepts:  *)
(* each is called once, in the order the queries were sent, unless the     *)
(* connection it waits on is given up, which forgets all that wait.        *)
(* SqlConnection implements this module.                                   *)
(***************************************************************************)
EXTENDS Naturals, Sequences

VARIABLES accepted,   \* number of queries accepted, which numbers them
          waiting,    \* their callbacks not called yet, oldest first
          told,       \* those called, in that order
          forgotten   \* those that never will be

qvars == <<accepted, waiting, told, forgotten>>

Elems(s) == {s[i] : i \in DOMAIN s}

QInit ==
  /\ accepted = 0
  /\ waiting = <<>>
  /\ told = <<>>
  /\ forgotten = {}

\* One query, or those a new connection begins with.
SendQueries ==
  /\ accepted' \in Nat /\ accepted' > accepted
  /\ waiting' = waiting \o [i \in 1..(accepted' - accepted) |-> accepted + i]
  /\ UNCHANGED <<told, forgotten>>

Tell ==
  /\ waiting # <<>>
  /\ told' = Append(told, Head(waiting))
  /\ waiting' = Tail(waiting)
  /\ UNCHANGED <<accepted, forgotten>>

Abandon ==
  /\ forgotten' = forgotten \cup Elems(waiting)
  /\ waiting' = <<>>
  /\ UNCHANGED <<accepted, told>>

QNext == SendQueries \/ Tell \/ Abandon

QSpec == QInit /\ [][QNext]_qvars
=============================================================================
