--------------------------- MODULE MCStackSwitch ---------------------------
(* Instances of StackSwitch for TLC. *)
EXTENDS StackSwitch, TLC

CONSTANTS a1, a2

TwoAddrs == {a1, a2}

=============================================================================
