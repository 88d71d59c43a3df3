-------------------------- MODULE MessageDelivery --------------------------
(***************************************************************************)
(* What message origins and buses promise an application, without threads,  *)
(* locks and references: an origin's messages have an order, each bus takes *)
(* some of them in that order, and a bus that is given up first handles     *)
(* what it has taken.                                                       *)
(***************************************************************************)
EXTENDS Naturals, Sequences

CONSTANTS Bus, Origin, Message

VARIABLES
    log,        \* the messages of each origin, in its order
    accepted,   \* the messages each bus has taken
    handled,    \* how many of them it is done with
    status      \* "live", "last" once the application gave the bus up, "gone"

vars == <<log, accepted, handled, status>>

Init ==
    /\ log = [o \in Origin |-> <<>>]
    /\ accepted = [b \in Bus |-> <<>>]
    /\ handled = [b \in Bus |-> 0]
    /\ status = [b \in Bus |-> "live"]

\* A message is posted once.
Post(msg) ==
    /\ \A i \in DOMAIN log[msg.origin] : log[msg.origin][i] # msg
    /\ log' = [log EXCEPT ![msg.origin] = Append(@, msg)]
    /\ UNCHANGED <<accepted, handled, status>>

\* The bus has taken, of this origin, only messages that come before.
Later(b, o, i) ==
    \A j \in DOMAIN accepted[b] :
        accepted[b][j].origin = o => \E k \in 1..i - 1 : log[o][k] = accepted[b][j]

Accept(b, o) ==
    /\ status[b] = "live"
    /\ \E i \in DOMAIN log[o] :
           /\ Later(b, o, i)
           /\ accepted' = [accepted EXCEPT ![b] = Append(@, log[o][i])]
    /\ UNCHANGED <<log, handled, status>>

Handle(b) ==
    /\ handled[b] < Len(accepted[b])
    /\ handled' = [handled EXCEPT ![b] = @ + 1]
    /\ UNCHANGED <<log, accepted, status>>

GiveUp(b) ==
    /\ status[b] = "live"
    /\ status' = [status EXCEPT ![b] = "last"]
    /\ UNCHANGED <<log, accepted, handled>>

End(b) ==
    /\ status[b] = "last"
    /\ handled[b] = Len(accepted[b])
    /\ status' = [status EXCEPT ![b] = "gone"]
    /\ UNCHANGED <<log, accepted, handled>>

Next ==
    \/ \E msg \in Message : Post(msg)
    \/ \E b \in Bus, o \in Origin : Accept(b, o)
    \/ \E b \in Bus : Handle(b) \/ GiveUp(b) \/ End(b)

Spec == Init /\ [][Next]_vars
=============================================================================
