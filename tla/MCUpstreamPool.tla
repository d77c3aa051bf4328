--------------------------- MODULE MCUpstreamPool ---------------------------
(***************************************************************************)
(* Instance of UpstreamPool for TLC: a DoT pool that is asked enough for    *)
(* its wire ids to wrap round, and a DoH pool.                             *)
(***************************************************************************)
EXTENDS UpstreamPool

CONSTANTS a1, a2, q1, q2, q3

MCTraffic ==
    [dot |-> {<<q1, <<a1, a2>>>>, <<q2, <<a1>>>>, <<q3, <<a1>>>>},
     doh |-> {<<q1, <<a1>>>>, <<q2, <<a1>>>>, <<q2, << >>>>}]
=============================================================================
