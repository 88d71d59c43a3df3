---------------------------- MODULE MCMessageBus ----------------------------
(* An instance of MessageBus for TLC.                                       *)
EXTENDS MessageBus

CONSTANTS p1, p2, b1, o1
=============================================================================
