------------------------- MODULE MCReplicaMembership -------------------------
EXTENDS ReplicaMembership
CONSTANTS a1, a2, r1, r2
=============================================================================
