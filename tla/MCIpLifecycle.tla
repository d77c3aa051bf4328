--------------------------- MODULE MCIpLifecycle ---------------------------
(* Instances of IpLifecycle for TLC. *)
EXTENDS IpLifecycle, TLC

\* Addresses, clients and names are interchangeable.
MCSymmetry == Permutations(Addresses) \cup Permutations(Clients)
                \cup Permutations(Names)
=============================================================================
