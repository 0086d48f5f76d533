---------------------------- MODULE MCHttpClient ----------------------------
(***************************************************************************)
(* HttpClient on small instances.  The workers are interchangeable; the    *)
(* symmetry is used by the runs that check no liveness.                    *)
(***************************************************************************)
EXTENDS HttpClient, TLC

Symmetry == Permutations(Workers)
=============================================================================
