--------------------------- MODULE RequestLedger ---------------------------
(***************************************************************************)
(* What utils/http_client.h promises the caller of Get, Post and PostForm, *)
(* whatever the threads do: an accepted request waits in the order it was  *)
(* sent, is started once, and then is either answered once or, when it was *)
(* still waiting as the client was shut down, discarded.  A discard only   *)
(* happens when nothing is in flight: no answer follows it.                *)
(* HttpClient implements this module.                                      *)
(***************************************************************************)
EXTENDS Naturals, Sequences

CONSTANT Requests

VARIABLES waiting,    \* accepted, not started, oldest first
          active,     \* being performed, or in their callback
          answered,   \* performed, and their callback has returned
          discarded   \* dropped unperformed by a shutdown

lvars == <<waiting, active, answered, discarded>>

Elems(s) == {s[i] : i \in DOMAIN s}

Known == Elems(waiting) \cup active \cup answered \cup discarded

LInit ==
  /\ waiting = <<>>
  /\ active = {}
  /\ answered = {}
  /\ discarded = {}

Accept(r) ==
  /\ r \notin Known
  /\ waiting' = Append(waiting, r)
  /\ UNCHANGED <<active, answered, discarded>>

Start ==
  /\ waiting # <<>>
  /\ active' = active \cup {Head(waiting)}
  /\ waiting' = Tail(waiting)
  /\ UNCHANGED <<answered, discarded>>

Answer(r) ==
  /\ r \in active
  /\ active' = active \ {r}
  /\ answered' = answered \cup {r}
  /\ UNCHANGED <<waiting, discarded>>

Discard ==
  /\ active = {}
  /\ discarded' = discarded \cup Elems(waiting)
  /\ waiting' = <<>>
  /\ UNCHANGED <<active, answered>>

LNext ==
  \/ \E r \in Requests : Accept(r) \/ Answer(r)
  \/ Start
  \/ Discard

LSpec == LInit /\ [][LNext]_lvars

=============================================================================
