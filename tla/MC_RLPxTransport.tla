------------------------- MODULE MC_RLPxTransport -------------------------
EXTENDS RLPxTransport

(* Builds that both advertise a version at or above the snappy threshold *)
MCVersionsNew == {5, 6}
=============================================================================
