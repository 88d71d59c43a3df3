--------------------------- MODULE ScreamFeedback ---------------------------
(***************************************************************************)
(* Feedback for bandwidth adaptation: a probe looks at the RTP packets of a *)
(* session before rtpbin does, keeps the highest sequence number, a vector  *)
(* of the packets right before it and a count of losses, and leaves what    *)
(* the sender is to know in the agent's rtcp_list.  The thread that sends   *)
(* RTCP for the session takes it from there; the sender passes it on to its *)
(* screamqueue.                                                            *)
(*                                                                         *)
(* Sequence numbers have 16 bits and wrap; a packet is known here by its    *)
(* number in the stream, which does not.  A session has one stream.  ECN,   *)
(* arrival times and the RTCP of other kinds are left out.                  *)
(* An operator that nothing uses, right before one with the same            *)
(* parameters, is a faulty variant of it; the README tells what for.        *)
(***************************************************************************)
EXTENDS Integers, Sequences, FiniteSets

CONSTANTS
    Session,         \* media sessions of one agent
    Adapting,        \* those whose receive payload adapts with SCReAM
    None,
    SeqnoMod,          \* 65536: highest_seq is a gushort
    Threshold,       \* 20000: a larger step is taken for a wrap
    Window,          \* 16: the bits of ack_vec
    Grace,           \* 5: how late a packet may be before it counts as lost
    LossMod,         \* 256: n_loss is a guint8
    FirstSeq,        \* the sequence number of packet 0
    MaxGap,          \* how far the network puts packets out of place
    MaxPacket,       \* bound: packets of a session
    MaxArrival,      \* bound: packets that arrive, in all sessions together
    MaxWire,         \* bound: reports under way
    MaxStats         \* bound: statistics that wait for the main loop

ASSUME SessionAssumption ==
    /\ Adapting \subseteq Session
    /\ None \notin [session : Session, highest : Int, loss : Int, top : Int]
ASSUME NumberAssumption ==
    /\ SeqnoMod \in Nat \ {0} /\ FirstSeq \in 0..(SeqnoMod - 1)
    /\ Threshold \in Nat /\ MaxGap \in Nat
    /\ MaxGap <= Threshold /\ Threshold + MaxGap < SeqnoMod
    /\ Window \in Nat \ {0} /\ Grace \in 1..Window /\ LossMod \in Nat \ {0}
ASSUME BoundAssumption ==
    MaxPacket \in Nat /\ MaxArrival \in Nat /\ MaxWire \in Nat /\ MaxStats \in Nat

Packet == 1..MaxPacket
Seqno == 0..(SeqnoMod - 1)
SeqnoOf(n) == (FirstSeq + n) % SeqnoMod

\* ack: bit 16 - d of ack_vec is that of the packet d before the highest.
ScreamRx == [known : BOOLEAN, adapt : BOOLEAN, highest : Seqno,
             ack : SUBSET (1..Window), loss : 0..(LossMod - 1)]
\* rtcp_info; top is not in the code: the packet it is about.
Report == [session : Session, highest : Seqno, loss : 0..(LossMod - 1), top : Packet]

VARIABLES
    payload,         \* whether a session has been given its receive payload
    rx,              \* what the probe of each session keeps
    info,            \* the rtcp_info a probe has made and not yet queued
    rtcpList,        \* rtcp_list, whose order does not matter
    wire,            \* reports in RTCP packets under way
    heard,           \* the report each screamqueue has heard last
    stats,           \* sessions whose statistics the main loop has to emit
    arrivals,        \* counts up to MaxArrival
    arrived,         \* history: the packets the probe of each session counted
    forgot           \* history: the probe took up a stream anew

vars == <<payload, rx, info, rtcpList, wire, heard, stats, arrivals, arrived, forgot>>

Init ==
    /\ payload = [s \in Session |-> FALSE]
    /\ rx = [s \in Session |-> [known |-> FALSE, adapt |-> TRUE, highest |-> 0,
                                ack |-> {}, loss |-> 0]]
    /\ info = [s \in Session |-> None]
    /\ rtcpList = {}
    /\ wire = {}
    /\ heard = [s \in Session |-> None]
    /\ stats = <<>>
    /\ arrivals = 0
    /\ arrived = [s \in Session |-> {}]
    /\ forgot = [s \in Session |-> FALSE]

----------------------------------------------------------------------------
(* What a packet does to a ScreamRx *)

\* How far a packet is ahead of the highest one, if it is not too far.
AheadUnwrapped(seq, highest) == seq - highest
Ahead(seq, highest) ==
    IF highest - seq > Threshold THEN seq + SeqnoMod - highest
    ELSE IF seq - highest > Threshold THEN seq - (highest + SeqnoMod)
    ELSE seq - highest

Acknowledged(ack, ahead) ==
    IF ahead >= Window THEN {}
    ELSE IF ahead > 0 THEN ({d + ahead : d \in ack} \cap 1..Window) \cup {ahead}
    ELSE ack \cup ({-ahead} \cap 1..(Window - 1))

\* Nothing was counted yet, as far as the fields tell.
Unused(r) == r.highest = 0 /\ r.ack = {}

Counted(r, seq) ==
    LET ahead == IF Unused(r) THEN 0 ELSE Ahead(seq, r.highest)
        ack == Acknowledged(r.ack, ahead)
    IN  [r EXCEPT !.highest = IF ahead >= 0 THEN seq ELSE @,
                  !.ack = ack,
                  !.loss = IF Grace \in ack THEN @ ELSE (@ + 1) % LossMod]

Top(s) == CHOOSE n \in arrived[s] : \A k \in arrived[s] : k <= n

\* The first packet after the payload came tells what it is.  Before, adapt is what
\* happened to be on the stack.
AdaptRead(s) ==
    IF rx[s].known THEN {rx[s].adapt}
    ELSE IF payload[s] THEN {s \in Adapting}
    ELSE BOOLEAN

----------------------------------------------------------------------------
(* Actions *)

\* owr_media_session_add_receive_payload has run.
AddReceivePayload(s) ==
    /\ ~payload[s]
    /\ payload' = [payload EXCEPT ![s] = TRUE]
    /\ UNCHANGED <<rx, info, rtcpList, wire, heard, stats, arrivals, arrived, forgot>>

Arrives(s) ==
    /\ info[s] = None
    /\ arrivals < MaxArrival
    /\ arrivals' = arrivals + 1

\* probe_rtp_info, up to rtcp_lock.  Packets are lost, doubled and out of place.
ProbeRtpInfo(s, n) ==
    /\ Arrives(s)
    /\ arrived[s] # {} => n - Top(s) <= MaxGap /\ Top(s) - n <= MaxGap
    /\ TRUE \in AdaptRead(s)
    /\ LET r == Counted([rx[s] EXCEPT !.known = payload[s], !.adapt = TRUE], SeqnoOf(n))
       IN  /\ rx' = [rx EXCEPT ![s] = r]
           /\ info' = [info EXCEPT ![s] =
                  [session |-> s, highest |-> r.highest, loss |-> r.loss,
                   top |-> IF arrived[s] = {} \/ n > Top(s) THEN n ELSE Top(s)]]
    /\ arrived' = [arrived EXCEPT ![s] = @ \cup {n}]
    /\ forgot' = [forgot EXCEPT ![s] = @ \/ (arrived[s] # {} /\ Unused(rx[s]))]
    /\ UNCHANGED <<payload, rtcpList, wire, heard, stats>>

\* A packet that does not count: a retransmission, one without an arrival time, or one
\* of a payload that does not adapt.
ProbeRtpInfoUncounted(s) ==
    /\ Arrives(s)
    /\ \E adapt \in AdaptRead(s) :
           rx' = [rx EXCEPT ![s].known = payload[s], ![s].adapt = adapt]
    /\ UNCHANGED <<payload, info, rtcpList, wire, heard, stats, arrived, forgot>>

\* The rest, under rtcp_lock: the report takes the place of one that was not sent yet.
QueueReport(s) ==
    /\ info[s] # None
    /\ LET same == {i \in rtcpList : i.session = s}
       IN  \/ same = {} /\ rtcpList' = rtcpList \cup {info[s]}
           \/ \E old \in same : rtcpList' = (rtcpList \ {old}) \cup {info[s]}
    /\ info' = [info EXCEPT ![s] = None]
    /\ UNCHANGED <<payload, rx, wire, heard, stats, arrivals, arrived, forgot>>

\* on_sending_rtcp: the session's reports go out, as far as the packet has room for
\* them, and the others stay.
OnSendingRtcp(s) ==
    /\ Len(stats) < MaxStats
    /\ \E out \in SUBSET {i \in rtcpList : i.session = s} :
           /\ Cardinality(wire \cup out) <= MaxWire
           /\ wire' = wire \cup out
           /\ rtcpList' = rtcpList \ out
    /\ stats' = Append(stats, s)
    /\ UNCHANGED <<payload, rx, info, heard, arrivals, arrived, forgot>>

\* on_ssrc_active
OnSsrcActive(s) ==
    /\ Len(stats) < MaxStats
    /\ stats' = Append(stats, s)
    /\ UNCHANGED <<payload, rx, info, rtcpList, wire, heard, arrivals, arrived, forgot>>

EmitStatsSignal ==
    /\ stats # <<>>
    /\ stats' = Tail(stats)
    /\ UNCHANGED <<payload, rx, info, rtcpList, wire, heard, arrivals, arrived, forgot>>

\* RTCP gets lost, and comes late or twice.
LoseRtcp(i) ==
    /\ wire' = wire \ {i}
    /\ UNCHANGED <<payload, rx, info, rtcpList, heard, stats, arrivals, arrived, forgot>>

\* on_feedback_rtcp, at the sender
OnFeedbackRtcp(i) ==
    /\ heard' = [heard EXCEPT ![i.session] = i]
    /\ UNCHANGED <<payload, rx, info, rtcpList, wire, stats, arrivals, arrived, forgot>>

Next ==
    \/ \E s \in Session :
           \/ AddReceivePayload(s)
           \/ \E n \in Packet : ProbeRtpInfo(s, n)
           \/ ProbeRtpInfoUncounted(s)
           \/ QueueReport(s)
           \/ OnSendingRtcp(s)
           \/ OnSsrcActive(s)
    \/ EmitStatsSignal
    \/ \E i \in wire : LoseRtcp(i) \/ OnFeedbackRtcp(i)

Spec == Init /\ [][Next]_vars

----------------------------------------------------------------------------
(* Properties *)

TypeOK ==
    /\ payload \in [Session -> BOOLEAN]
    /\ rx \in [Session -> ScreamRx]
    /\ info \in [Session -> Report \cup {None}]
    /\ rtcpList \subseteq Report
    /\ wire \subseteq Report
    /\ heard \in [Session -> Report \cup {None}]
    /\ stats \in Seq(Session)
    /\ arrivals \in 0..MaxArrival
    /\ arrived \in [Session -> SUBSET Packet]
    /\ forgot \in [Session -> BOOLEAN]

Reports ==
    rtcpList \cup wire
        \cup (({info[s] : s \in Session} \cup {heard[s] : s \in Session}) \ {None})

\* The probe knows the last packet of the stream and which of those right before it
\* have come, over any wrap of the sequence numbers.
ProbeKnows(s) ==
    arrived[s] # {} =>
        /\ rx[s].highest = SeqnoOf(Top(s))
        /\ \A d \in 1..(Window - 1) : d \in rx[s].ack <=> Top(s) - d \in arrived[s]
        /\ Window \in rx[s].ack => Top(s) - Window \in arrived[s]

\* What the sender is told of a session is what arrived there, in the order it did:
\* a report is about a packet that came, has its sequence number, and no report is
\* about an earlier one than those that left before; there is one at most to send.
\* Unless the probe took the stream up anew: its fields do not tell packet 0 with
\* nothing before it from no packet (line 4326).
FeedbackRight ==
    \A s \in Session : ~forgot[s] =>
        /\ ProbeKnows(s)
        /\ \A i \in Reports : i.session = s =>
               i.top \in arrived[s] /\ i.highest = SeqnoOf(i.top)
        /\ \A q, r \in rtcpList : q.session = s /\ r.session = s => q = r
        /\ \A q \in rtcpList, w \in wire :
               q.session = s /\ w.session = s => w.top <= q.top
=============================================================================
