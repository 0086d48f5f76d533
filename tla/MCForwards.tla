----------------------------- MODULE MCForwards -----------------------------
(* Forwards for TLC: the plugins are interchangeable, no definition names one. *)
EXTENDS Forwards, TLC

Symmetry == Permutations(Plugins)
=============================================================================
