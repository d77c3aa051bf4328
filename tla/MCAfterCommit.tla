--------------------------- MODULE MCAfterCommit ---------------------------
(* Instances of AfterCommit for TLC. *)
EXTENDS AfterCommit, TLC

CONSTANTS dns, dhcp, stackSwitch, bootEnd, req

TwoHolders == {stackSwitch, bootEnd}

\* The holders are alike.
HolderSymmetry == Permutations(TwoHolders)

=============================================================================
