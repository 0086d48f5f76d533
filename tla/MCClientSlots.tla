--------------------------- MODULE MCClientSlots ---------------------------
(* ClientSlots with two slots: one changes hands, one has a client or none. *)
EXTENDS ClientSlots

CONSTANTS p1, p2

TwoSlots == {1, 2}
TwoPeople == {p1, p2}
TwoSeats == [s \in TwoSlots |-> IF s = 1 THEN {p1, p2, None} ELSE {p2}]
TwoWires == [s \in TwoSlots |-> IF s = 1 THEN 2 ELSE 0]
=============================================================================
