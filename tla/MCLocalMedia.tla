---------------------------- MODULE MCLocalMedia ----------------------------
(* Instances of LocalMedia for TLC.                                         *)
EXTENDS LocalMedia

CONSTANTS s1, s2, r1, r2, t1, h1, h2
=============================================================================
