--------------------------- MODULE ReceivePipeline ---------------------------
(***************************************************************************)
(* The receiving half of one OwrMediaSession in an OwrTransportAgent.  The  *)
(* application adds receive payloads and the session, in any order; media   *)
(* comes from the network, and the first stream that rtpbin offers a pad    *)
(* for gets the session's receive-output-bin and becomes the remote media   *)
(* source that the session announces.                                      *)
(*                                                                         *)
(* Calls of the application schedule tasks on the main loop, which runs     *)
(* them in order.  rtpbin has a thread for every stream it receives; each   *)
(* runs on_rtpbin_pad_added for itself.  Those threads and the main loop    *)
(* hook up the sending of RTCP, whoever is first.                          *)
(*                                                                         *)
(* rtpbin is outside: it asks for an auxiliary receiver when its pad for    *)
(* RTP is requested, makes a jitter buffer for a new SSRC, drops packets    *)
(* without caps, and adds a pad for each SSRC and payload type.  The        *)
(* auxiliary receiver turns retransmissions of the payloads in its map back *)
(* into packets of their stream; without it they are a stream like another. *)
(* A bin whose name is taken is not added, and nothing links to it.         *)
(* An operator that nothing uses, right before one with the same            *)
(* parameters, is a faulty variant of it; the README tells what for.        *)
(***************************************************************************)
EXTENDS Integers, Sequences

CONSTANTS
    Payload,         \* payloads of the application, of different types
    Video,           \* those that are video; others are audio
    HasRtx,          \* those with an rtx-payload-type
    None,            \* NULL
    MaxCall          \* bound: calls of the application

ASSUME PayloadAssumption ==
    None \notin Payload /\ Video \subseteq Payload /\ HasRtx \subseteq Payload
ASSUME BoundAssumption == MaxCall \in Nat

\* What the peer sends: each payload from an SSRC of its own, and its
\* retransmissions (TRUE) from another.
Stream == Payload \X BOOLEAN
Media(st) == st[2] = FALSE
Kind(st) == IF st[1] \in Video THEN "video" ELSE "audio"

\* The threads: one for each stream, and the main loop.
Main == <<None, FALSE>>
Thread == Stream \cup {Main}
VARIABLES
    calls,           \* calls the application has made
    tasks,           \* the main context's sources; the head runs next
    receivePayloads, \* priv->receive_payloads of the session
    added,           \* the session is in priv->sessions
    late,            \* history: a payload with retransmissions came after that
    auxMap,          \* the payload-type-map of rtprtxreceive; {} without one
    jitterbuffer,    \* of each SSRC: "none", "plain" or "retransmit"
    held,            \* streams whose jitter buffers have packets to push
    outputBin,       \* the stream whose receive-output-bin is in transport_bin
    at,              \* where each thread is in its work, see Phase
    linkedRtcp,      \* send_bin_info->linked_rtcp
    hookups,         \* times the RTCP output selector was made
    announced,       \* media types of the sources announced
    gone             \* the agent is finalized

appVars == <<calls, tasks>>
sessionVars == <<receivePayloads, added, late, auxMap>>
streamVars == <<jitterbuffer, held>>
rtcpVars == <<linkedRtcp, hookups>>
vars == <<appVars, sessionVars, streamVars, outputBin, at, rtcpVars, announced, gone>>

\* A thread has yet to begin; expose the decoder's pad; look at linked_rtcp;
\* hook RTCP up; or nothing left to do.
Phase == {"idle", "expose", "look", "hook", "done"}

Init ==
    /\ calls = 0 /\ tasks = <<>>
    /\ receivePayloads = {} /\ added = FALSE /\ late = FALSE /\ auxMap = {}
    /\ jitterbuffer = [st \in Stream |-> "none"] /\ held = {}
    /\ outputBin = None /\ at = [t \in Thread |-> "idle"]
    /\ linkedRtcp = FALSE /\ hookups = 0
    /\ announced = <<>> /\ gone = FALSE

Schedule(op, value) == tasks' = Append(tasks, [op |-> op, value |-> value])

----------------------------------------------------------------------------
(* The application *)

Call ==
    /\ calls < MaxCall /\ ~gone
    /\ calls' = calls + 1
    /\ UNCHANGED <<sessionVars, streamVars, outputBin, at, rtcpVars, announced, gone>>

AddReceivePayload(p) == Call /\ Schedule("add_receive_payload", p)

AddSession == Call /\ Schedule("add_session", None)

\* Tasks that add a session hold the agent, and stopping the pipeline waits
\* for its threads.
Finalize ==
    /\ ~gone /\ gone' = TRUE
    /\ \A i \in 1..Len(tasks) : tasks[i].op # "add_session"
    /\ \A t \in Thread : at[t] \in {"idle", "done"}
    /\ UNCHANGED <<appVars, sessionVars, streamVars, outputBin, at, rtcpVars, announced>>

----------------------------------------------------------------------------
(* The main loop *)

MainIsFree == at[Main] \in {"idle", "done"}

\* Two payloads of one type are one payload here: the second is turned away.
RunAddReceivePayload(p) ==
    /\ receivePayloads' = receivePayloads \cup {p}
    /\ late' = (late \/ (added /\ p \in HasRtx \ receivePayloads))
    /\ UNCHANGED <<added, auxMap, announced>>

\* What rtprtxreceive is told to turn back, when rtpbin asks for it.
RtxPtMapEmpty(payloads) == {}
RtxPtMap(payloads) == payloads \cap HasRtx

\* Requesting rtpbin's pad makes it ask for the auxiliary receiver.
RunAddSession ==
    /\ added' = TRUE
    /\ auxMap' = IF added THEN auxMap ELSE RtxPtMap(receivePayloads)
    /\ UNCHANGED <<receivePayloads, late, announced>>

RunEmit(kind) ==
    /\ announced' = Append(announced, kind)
    /\ UNCHANGED <<receivePayloads, added, late, auxMap>>

RunTask ==
    /\ tasks # <<>> /\ MainIsFree
    /\ tasks' = Tail(tasks)
    /\ CASE Head(tasks).op = "add_receive_payload" -> RunAddReceivePayload(Head(tasks).value)
         [] Head(tasks).op = "add_session" -> RunAddSession
         [] OTHER -> RunEmit(Head(tasks).value)
    /\ UNCHANGED <<calls, streamVars, outputBin, at, rtcpVars, gone>>

\* handle_new_send_payload, as far as RTCP goes: once the session sends.
StartSending ==
    /\ added /\ ~gone /\ at[Main] = "idle"
    /\ at' = [at EXCEPT ![Main] = "look"]
    /\ UNCHANGED <<appVars, sessionVars, streamVars, outputBin, rtcpVars, announced, gone>>

----------------------------------------------------------------------------
(* Media from the network *)

WantReceiveRtx == receivePayloads \cap HasRtx # {}

\* A payload is found by its type and by the type of its retransmissions.
HasReceivePayload(st) == st[1] \in receivePayloads

\* The first packet of an SSRC makes its jitter buffer, which asks for lost
\* packets if some payload has retransmissions by then.
OnNewJitterbuffer(st) ==
    jitterbuffer' =
        IF jitterbuffer[st] # "none" THEN jitterbuffer
        ELSE [jitterbuffer EXCEPT ![st] = IF WantReceiveRtx THEN "retransmit" ELSE "plain"]

\* Packets are kept if on_rtpbin_request_pt_map has caps for their type.
Arrives(st) ==
    /\ OnNewJitterbuffer(st)
    /\ held' = IF HasReceivePayload(st) THEN held \cup {st} ELSE held
    /\ UNCHANGED <<appVars, sessionVars, outputBin, at, rtcpVars, announced, gone>>

MediaArrives(p) == added /\ ~gone /\ Arrives(<<p, FALSE>>)

\* A packet that the jitter buffer asked for, over RTCP, comes again.
RtxArrives(p) ==
    /\ ~gone /\ p \in HasRtx \ auxMap
    /\ <<p, FALSE>> \in held /\ jitterbuffer[<<p, FALSE>>] = "retransmit" /\ hookups > 0
    /\ Arrives(<<p, TRUE>>)

----------------------------------------------------------------------------
(* The threads of the streams: on_rtpbin_pad_added *)

\* The first one's receive-output-bin is added and linked; another one's name
\* is taken, and its pad stays as it is.
SetUpReceiveElements(st) ==
    /\ st \in held /\ at[st] = "idle" /\ ~gone
    /\ outputBin' = IF outputBin = None THEN st ELSE outputBin
    /\ at' = [at EXCEPT ![st] = IF outputBin = None THEN "expose" ELSE "look"]
    /\ UNCHANGED <<appVars, sessionVars, streamVars, rtcpVars, announced, gone>>

\* The remote source is made here, on the stream's thread.
SignalIncomingSource(kind) == Schedule("emit_on_incoming_source", kind)

\* The decoder's pad appears on transport_bin.
OnTransportBinPadAdded(st) ==
    /\ at[st] = "expose"
    /\ at' = [at EXCEPT ![st] = "look"]
    /\ SignalIncomingSource(Kind(st))
    /\ UNCHANGED <<calls, sessionVars, streamVars, outputBin, rtcpVars, announced, gone>>

\* link_rtpbin_to_send_output_bin, in two steps: no lock protects linked_rtcp.
LookAtLinkedRtcp(t) ==
    /\ at[t] = "look"
    /\ at' = [at EXCEPT ![t] = IF linkedRtcp THEN "done" ELSE "hook"]
    /\ UNCHANGED <<appVars, sessionVars, streamVars, outputBin, rtcpVars, announced, gone>>

HookUpRtcp(t) ==
    /\ at[t] = "hook"
    /\ at' = [at EXCEPT ![t] = "done"]
    /\ hookups' = hookups + 1 /\ linkedRtcp' = TRUE
    /\ UNCHANGED <<appVars, sessionVars, streamVars, outputBin, announced, gone>>

----------------------------------------------------------------------------

Application == (\E p \in Payload : AddReceivePayload(p)) \/ AddSession \/ Finalize
Network == \E p \in Payload : MediaArrives(p) \/ RtxArrives(p)
Linking(t) == LookAtLinkedRtcp(t) \/ HookUpRtcp(t)
MainLoop == RunTask \/ Linking(Main)
StreamThread(st) == SetUpReceiveElements(st) \/ OnTransportBinPadAdded(st) \/ Linking(st)

Next ==
    \/ Application \/ Network
    \/ RunTask \/ StartSending
    \/ \E st \in Stream : SetUpReceiveElements(st) \/ OnTransportBinPadAdded(st)
    \/ \E t \in Thread : LookAtLinkedRtcp(t) \/ HookUpRtcp(t)

Spec == Init /\ [][Next]_vars

\* The main loop and the threads of the streams run; media, calls and the
\* start of sending need not come.
FairSpec == Spec /\ WF_vars(MainLoop) /\ \A st \in Stream : WF_vars(StreamThread(st))

----------------------------------------------------------------------------
(* Properties *)

\* The media that is to be heard or seen is announced, as one source of its own
\* kind, and RTCP about it is sent.
Received ==
    /\ outputBin \in Stream /\ Media(outputBin)
    /\ announced = <<Kind(outputBin)>>
    /\ linkedRtcp

\* Once media of a known payload has come, a media stream, and never one of
\* retransmissions, is what on-incoming-source announces, exactly once, whatever
\* the order of payloads, session, media and the start of sending; unless the
\* agent goes away, or a payload with retransmissions was added too late for
\* the auxiliary receiver (on_rtpbin_pad_added, on_rtpbin_request_aux_receiver).
MediaReceived ==
    \A p \in Payload : <<p, FALSE>> \in held ~> (gone \/ late \/ Received)
=============================================================================
