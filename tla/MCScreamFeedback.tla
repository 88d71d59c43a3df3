-------------------------- MODULE MCScreamFeedback --------------------------
(* An instance of ScreamFeedback for TLC.                                   *)
EXTENDS ScreamFeedback

CONSTANTS s1, s2
=============================================================================
