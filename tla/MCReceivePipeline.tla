------------------------- MODULE MCReceivePipeline -------------------------
(* Instances of ReceivePipeline for TLC.                                    *)
EXTENDS ReceivePipeline

CONSTANTS v1, a1
=============================================================================
