---------------------------- MODULE MCLeaseSync ----------------------------
(* Instances of LeaseSync for TLC. *)
EXTENDS LeaseSync, TLC

CONSTANTS switch1, post

=============================================================================
