---------------------------- MODULE MCImageServer ----------------------------
(* Instances of ImageServer for TLC.                                        *)
EXTENDS ImageServer

CONSTANTS r1, r2, s1, t1, t2, o1, c1, c2

\* A renderer of half the size of the other.
Widths == [r \in Renderer |-> IF r = r1 THEN 2 ELSE 1]
Heights == [r \in Renderer |-> 1]

=============================================================================
