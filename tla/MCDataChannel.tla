--------------------------- MODULE MCDataChannel ---------------------------
(* Instances of DataChannel for TLC: two peers, one or two stream ids, and  *)
(* the ways two applications use a channel.                                 *)
EXTENDS DataChannel

CONSTANTS A, B, c1, c2

\* c1 has the parity of A, c2 that of B.
OneOpener == [c \in {c1} |-> A]
BothOpen == [c \in {c1, c2} |-> IF c = c1 THEN A ELSE B]

\* Both applications wait for the other end's OPEN; nobody acts; both wait for
\* OPEN; one of them acts.
Prudent == [r \in Role |-> "prudent"]
Never == [r \in Role |-> "never"]
WhenOpen == [r \in Role |-> "open"]
OpenerEager == [r \in Role |-> IF r = "opener" THEN "eager" ELSE "never"]
OpenerDrained == [r \in Role |-> IF r = "opener" THEN "drained" ELSE "never"]
=============================================================================
