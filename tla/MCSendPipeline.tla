--------------------------- MODULE MCSendPipeline ---------------------------
(* Instances of SendPipeline for TLC.                                       *)
EXTENDS SendPipeline

CONSTANTS s1, s2, a1, p1, p2
=============================================================================
