------------------------------- MODULE MCBridge -------------------------------
(* Instance of Bridge for TLC: two pages, one of which shows two streams. *)
EXTENDS Bridge

CONSTANTS p1, p2

MCPages == {p1, p2}
MCShows == [p \in MCPages |-> IF p = p1 THEN 2 ELSE 0]
===============================================================================
