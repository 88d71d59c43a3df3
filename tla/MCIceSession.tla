---------------------------- MODULE MCIceSession ----------------------------
(* Instances of IceSession for TLC.                                         *)
EXTENDS IceSession

CONSTANTS s1, h1, h2

Host == [component |-> "rtp", transport |-> "udp", addressed |-> TRUE, port |-> 5120]
HostRtcp == [component |-> "rtcp", transport |-> "udp", addressed |-> TRUE, port |-> 5121]
Active == [component |-> "rtp", transport |-> "tcp_active", addressed |-> TRUE, port |-> 0]
Portless == [component |-> "rtcp", transport |-> "udp", addressed |-> TRUE, port |-> 0]

\* The candidates of a peer that multiplexes not, and a candidate without a port,
\* as the bridge passes on when the other end sent none.
OneHost == {Host}
Several == {Active, HostRtcp, Portless}
=============================================================================
