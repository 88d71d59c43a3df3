------------------------- MODULE MCPeerConnection -------------------------
EXTENDS PeerConnection

Line(kind, sends, mux, candidates) ==
    [kind |-> kind, sends |-> sends, mux |-> mux, candidates |-> candidates]

\* Data first with a candidate in the description, media then data, two media lines.
MCRemoteOffers ==
    {<<Line("application", FALSE, FALSE, {}), Line("audio", TRUE, TRUE, {"rtp"})>>,
     <<Line("audio", TRUE, FALSE, {"rtcp"}), Line("application", TRUE, FALSE, {})>>,
     <<Line("audio", TRUE, TRUE, {}), Line("audio", TRUE, FALSE, {})>>}

\* One that a multiplexing session drops, one of a line nobody described.
MCCandidates == {<<1, "rtcp">>, <<3, "rtp">>}

\* A caller; callees whose stream comes before and after the offer; a caller that negotiates its
\* stream after its data; calls in states that refuse them; pages that close.
MCScripts ==
    {<<"addStream", "createDataChannel", "createOffer", "setLocal", "remoteAnswer", "addCandidate">>,
     <<"addStream", "remoteOffer", "addCandidate", "createAnswer", "setLocal", "createDataChannel">>,
     <<"remoteOffer", "addStream", "createAnswer", "setLocal", "createOffer">>,
     <<"createDataChannel", "createOffer", "setLocal", "addStream", "remoteAnswer", "createOffer",
       "setLocal", "remoteAnswer">>,
     <<"createAnswer", "addCandidate", "addStream", "createOffer", "setLocal", "remoteOffer">>,
     <<"addStream", "createOffer", "setLocal", "close">>,
     <<"remoteOffer", "createAnswer", "close">>}
=============================================================================
