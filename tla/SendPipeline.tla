---------------------------- MODULE SendPipeline ----------------------------
(***************************************************************************)
(* The sending half of one OwrMediaSession in an OwrTransportAgent.  The    *)
(* application sets a send source and a send payload, adds the session and  *)
(* may turn rtcp-mux on, in any order and at any time; the library builds   *)
(* the send pipeline once both are set and the DTLS keys have arrived, and  *)
(* takes it down when one of them is replaced.                             *)
(*                                                                         *)
(* Calls of the application schedule tasks on the main loop, which runs     *)
(* them in order.  libnice selects candidate pairs and the DTLS element     *)
(* sets its keys on threads of their own; both go through pending_sessions, *)
(* under sessions_lock.                                                    *)
(*                                                                         *)
(* GStreamer, libnice and DTLS are outside: a bin with a taken name is not   *)
(* added, a linked pad is not linked again, rtpbin hands out the same pad    *)
(* for a session again, keys come once DTLS runs.                           *)
(* An operator that nothing uses, right before one with the same            *)
(* parameters, is a faulty variant of it; the README tells what for.        *)
(***************************************************************************)
EXTENDS Integers, Sequences

CONSTANTS
    Source,          \* media sources of the application
    Payload,         \* payloads of the application
    Video,           \* the sources and payloads that are video; others are audio
    None,            \* NULL
    MaxCall          \* bound: calls of the application

ASSUME NoneAssumption == None \notin Source \cup Payload
ASSUME BoundAssumption == MaxCall \in Nat

SameKind(source, payload) == source \in Video <=> payload \in Video

Component == {"rtp", "rtcp"}
Task == [op : {"set_send_payload"}, value : Payload \cup {None}]
    \cup [op : {"set_send_source"}, value : Source \cup {None}]
    \cup [op : {"add_session", "maybe_handle"}, value : {None}]

VARIABLES
    calls,           \* calls the application has made
    mux,             \* the property rtcp-mux
    notifying,       \* whether notify::rtcp-mux is yet to be emitted
    careful,         \* history: every call so far was a careful one
    tasks,           \* the main context's sources; the head is the one that runs
    at,              \* in the head: "start", "check" or "build"
    aborted,         \* a g_assert has failed
    sendPayload,     \* priv->send_payload
    sendSource,      \* priv->send_source
    added,           \* the session is in priv->sessions and has its closures
    pending,         \* the session is in priv->pending_sessions
    rtcpBin,         \* the session has DTLS bins for RTCP of its own
    blocked,         \* components with nice_src blocked and DTLS bins locked
    keyed,           \* external: the RTP encoder has its keys
    keySignals,      \* on-key-set handlers that have not run yet
    inputBin,        \* the payload send-input-bin was made for, with its ghost pad
    linked,          \* the source whose bin is linked to that ghost pad
    strays,          \* source bins in the pipeline that are linked to nothing
    rtcpVia          \* component the RTCP output selector sends to

appVars == <<calls, mux, notifying, careful>>
loopVars == <<tasks, at, aborted>>
propertyVars == <<sendPayload, sendSource>>
sessionVars == <<added, rtcpBin>>
iceVars == <<blocked, keyed, keySignals>>
pipelineVars == <<inputBin, linked, strays, rtcpVia>>
vars == <<appVars, loopVars, propertyVars, sessionVars, pending, iceVars, pipelineVars>>

Init ==
    /\ calls = 0 /\ mux = FALSE /\ notifying = FALSE /\ careful = TRUE
    /\ tasks = <<>> /\ at = "start" /\ aborted = FALSE
    /\ sendPayload = None /\ sendSource = None
    /\ added = FALSE /\ rtcpBin = FALSE /\ pending = FALSE
    /\ blocked = {} /\ keyed = FALSE /\ keySignals = 0
    /\ inputBin = None /\ linked = None /\ strays = 0 /\ rtcpVia = "none"

----------------------------------------------------------------------------
(* The application *)

Call ==
    /\ calls < MaxCall /\ ~notifying
    /\ calls' = calls + 1

Schedule(op, value) == tasks' = Append(tasks, [op |-> op, value |-> value])

\* A careful application waits for its own tasks, and replaces or unsets only
\* what is being sent (or what the agent does not know of yet).
Waited == \A i \in DOMAIN tasks : tasks[i].op = "maybe_handle"
Careful(old, new) == Waited /\ (~added \/ old \in {None, new} \/ linked # None)

SetSendPayload(payload) ==
    /\ Call
    /\ Schedule("set_send_payload", payload)
    /\ careful' = (careful /\ Careful(sendPayload, payload))
    /\ UNCHANGED <<mux, notifying, at, aborted, propertyVars, sessionVars, pending,
                   iceVars, pipelineVars>>

SetSendSource(source) ==
    /\ Call
    /\ Schedule("set_send_source", source)
    /\ careful' = (careful /\ Careful(sendSource, source))
    /\ UNCHANGED <<mux, notifying, at, aborted, propertyVars, sessionVars, pending,
                   iceVars, pipelineVars>>

AddSession ==
    /\ Call
    /\ Schedule("add_session", None)
    /\ careful' = (careful /\ Waited)
    /\ UNCHANGED <<mux, notifying, at, aborted, propertyVars, sessionVars, pending,
                   iceVars, pipelineVars>>

\* Once on, rtcp-mux stays on.  GObject notifies in either case.
SetRtcpMux(value) ==
    /\ Call
    /\ mux' = (mux \/ value)
    /\ notifying' = TRUE
    /\ UNCHANGED <<careful, loopVars, propertyVars, sessionVars, pending, iceVars,
                   pipelineVars>>

\* The handler is connected when RTCP is linked, and only with RTCP bins.
OnRtcpMuxChanged ==
    /\ notifying
    /\ notifying' = FALSE
    /\ rtcpVia' = IF rtcpBin /\ rtcpVia # "none"
                  THEN IF mux THEN "rtp" ELSE "rtcp"
                  ELSE rtcpVia
    /\ UNCHANGED <<calls, mux, careful, loopVars, propertyVars, sessionVars, pending,
                   iceVars, inputBin, linked, strays>>

----------------------------------------------------------------------------
(* The main loop *)

Runs(op) == at = "start" /\ tasks # <<>> /\ Head(tasks).op = op
Finish == at' = "start" /\ tasks' = Tail(tasks)
GoTo(step) == at' = step /\ UNCHANGED tasks

\* What the assertions of remove_existing_send_source_and_payload ask for.
CanRemove(source) ==
    /\ source # None
    /\ inputBin # None /\ SameKind(source, inputBin)
    /\ linked # None

RemoveExisting ==
    /\ inputBin' = None
    /\ linked' = None
    /\ UNCHANGED <<strays, rtcpVia>>

\* on_new_send_source and on_new_send_payload; source is the one they release.
OnNewReleasesCurrent(old, new, source) ==
    \/ /\ old \notin {None, new} /\ ~CanRemove(new)
       /\ aborted' = TRUE
       /\ UNCHANGED <<tasks, at, pipelineVars>>
    \/ /\ old \notin {None, new} => CanRemove(new)
       /\ UNCHANGED aborted
       /\ IF old \notin {None, new} THEN RemoveExisting ELSE UNCHANGED pipelineVars
       /\ IF new \notin {None, old} THEN GoTo("check") ELSE Finish
OnNewKept(old, new, source) ==
    /\ UNCHANGED <<aborted, pipelineVars>>
    /\ IF new \notin {None, old} THEN GoTo("check") ELSE Finish
OnNew(old, new, source) ==
    \/ /\ old \notin {None, new} /\ ~CanRemove(source)
       /\ aborted' = TRUE
       /\ UNCHANGED <<tasks, at, pipelineVars>>
    \/ /\ old \notin {None, new} => CanRemove(source)
       /\ UNCHANGED aborted
       /\ IF old \notin {None, new} THEN RemoveExisting ELSE UNCHANGED pipelineVars
       /\ IF new \notin {None, old} THEN GoTo("check") ELSE Finish

\* Without its closure, before add_session, the session only keeps the value.
RunSetSendPayload ==
    /\ Runs("set_send_payload")
    /\ sendPayload' = Head(tasks).value
    /\ IF added
       THEN OnNew(sendPayload, Head(tasks).value, sendSource)
       ELSE Finish /\ UNCHANGED <<aborted, pipelineVars>>
    /\ UNCHANGED <<appVars, sendSource, sessionVars, pending, iceVars>>

RunSetSendSource ==
    /\ Runs("set_send_source")
    /\ sendSource' = Head(tasks).value
    /\ IF added
       THEN OnNew(sendSource, Head(tasks).value, sendSource)
       ELSE Finish /\ UNCHANGED <<aborted, pipelineVars>>
    /\ UNCHANGED <<appVars, sendPayload, sessionVars, pending, iceVars>>

\* prepare_transport_bin_receive_elements blocks the components it makes.
PreparedBins == IF mux THEN {"rtp"} ELSE Component

\* The bins are made for the rtcp-mux of the moment and wait for a pair; the
\* task goes on to look for a source and a payload.
RunAddSession ==
    /\ Runs("add_session")
    /\ IF added
       THEN Finish /\ UNCHANGED <<sessionVars, pending, blocked>>
       ELSE /\ added' = TRUE
            /\ rtcpBin' = ~mux
            /\ pending' = TRUE
            /\ blocked' = PreparedBins
            /\ GoTo("check")
    /\ UNCHANGED <<appVars, aborted, propertyVars, keyed, keySignals, pipelineVars>>

RunMaybeHandle ==
    /\ Runs("maybe_handle")
    /\ GoTo("check")
    /\ UNCHANGED <<appVars, aborted, propertyVars, sessionVars, pending, iceVars,
                   pipelineVars>>

\* maybe_handle_new_send_source_with_payload reads pending under sessions_lock
\* and gives the lock up before it acts.
CheckPending ==
    /\ at = "check"
    /\ IF pending THEN Finish ELSE GoTo("build")
    /\ UNCHANGED <<appVars, aborted, propertyVars, sessionVars, pending, iceVars,
                   pipelineVars>>

\* RTCP is linked once, to the RTCP bin if there is one.
LinkRtcp ==
    rtcpVia' = IF rtcpVia = "none" THEN IF rtcpBin THEN "rtcp" ELSE "rtp" ELSE rtcpVia

\* handle_new_send_payload: a second send-input-bin has a taken name.
HandleNewSendPayload ==
    IF inputBin = None
    THEN inputBin' = sendPayload /\ LinkRtcp
    ELSE UNCHANGED <<inputBin, rtcpVia>>

\* handle_new_send_source: the bin requested of the source is in the pipeline
\* whether or not it can be linked.
HandleNewSendSource ==
    IF ~SameKind(sendSource, sendPayload) THEN UNCHANGED <<linked, strays>>
    ELSE IF linked = None THEN linked' = sendSource /\ UNCHANGED strays
    ELSE strays' = strays + 1 /\ UNCHANGED linked

Build ==
    /\ at = "build"
    /\ IF None \in {sendPayload, sendSource}
       THEN UNCHANGED pipelineVars
       ELSE HandleNewSendPayload /\ HandleNewSendSource
    /\ Finish
    /\ UNCHANGED <<appVars, aborted, propertyVars, sessionVars, pending, iceVars>>

----------------------------------------------------------------------------
(* libnice and DTLS *)

\* Remote candidates reach libnice when add_session ends.
OnNewSelectedPairOwn(component) ==
    /\ pending /\ ~(at = "check" /\ Head(tasks).op = "add_session")
    /\ component = "rtcp" => rtcpBin
    /\ blocked' = blocked \ {component}
    /\ UNCHANGED <<appVars, loopVars, propertyVars, sessionVars, pending, keyed,
                   keySignals, pipelineVars>>
OnNewSelectedPair(component) ==
    /\ pending /\ ~(at = "check" /\ Head(tasks).op = "add_session")
    /\ component = "rtcp" => rtcpBin
    /\ blocked' = blocked \ {component, "rtcp"}
    /\ UNCHANGED <<appVars, loopVars, propertyVars, sessionVars, pending, keyed,
                   keySignals, pipelineVars>>

\* prepare_transport_bin_send_elements connects the handler to the RTP encoder,
\* and does so again if there are RTCP bins.
KeyHandlers == IF rtcpBin THEN 2 ELSE 1

KeySet ==
    /\ added /\ "rtp" \notin blocked /\ ~keyed
    /\ keyed' = TRUE
    /\ keySignals' = KeyHandlers
    /\ UNCHANGED <<appVars, loopVars, propertyVars, sessionVars, pending, blocked,
                   pipelineVars>>

OnDtlsEncKeySetUnscheduled ==
    /\ keySignals > 0
    /\ keySignals' = keySignals - 1
    /\ pending' = FALSE
    /\ UNCHANGED <<appVars, loopVars, propertyVars, sessionVars, blocked, keyed,
                   pipelineVars>>
OnDtlsEncKeySetStillPending ==
    /\ keySignals > 0
    /\ keySignals' = keySignals - 1
    /\ Schedule("maybe_handle", None)
    /\ UNCHANGED <<appVars, at, aborted, propertyVars, sessionVars, pending, blocked,
                   keyed, pipelineVars>>
OnDtlsEncKeySet ==
    /\ keySignals > 0
    /\ keySignals' = keySignals - 1
    /\ IF pending
       THEN pending' = FALSE /\ Schedule("maybe_handle", None)
       ELSE UNCHANGED <<pending, tasks>>
    /\ UNCHANGED <<appVars, at, aborted, propertyVars, sessionVars, blocked, keyed,
                   pipelineVars>>

----------------------------------------------------------------------------
Application ==
    \/ \E payload \in Payload \cup {None} : SetSendPayload(payload)
    \/ \E source \in Source \cup {None} : SetSendSource(source)
    \/ AddSession
    \/ \E value \in BOOLEAN : SetRtcpMux(value)
    \/ OnRtcpMuxChanged

MainLoop ==
    \/ RunSetSendPayload \/ RunSetSendSource \/ RunAddSession \/ RunMaybeHandle
    \/ CheckPending \/ Build

Next ==
    /\ ~aborted
    /\ \/ Application
       \/ MainLoop
       \/ \E component \in Component : OnNewSelectedPair(component)
       \/ KeySet
       \/ OnDtlsEncKeySet

Spec == Init /\ [][Next]_vars

\* The main loop runs what is scheduled; the peers find each other, finish the
\* handshake, and the stream thread calls its handlers.  Nobody has to call.
Fairness ==
    /\ WF_vars(~aborted /\ MainLoop)
    /\ WF_vars(~aborted /\ OnNewSelectedPair("rtp"))
    /\ WF_vars(~aborted /\ (KeySet \/ OnDtlsEncKeySet))

FairSpec == Spec /\ Fairness

----------------------------------------------------------------------------
(* Properties *)

TypeOK ==
    /\ calls \in 0..MaxCall
    /\ mux \in BOOLEAN /\ notifying \in BOOLEAN /\ careful \in BOOLEAN
    /\ tasks \in Seq(Task)
    /\ at \in {"start", "check", "build"}
    /\ aborted \in BOOLEAN
    /\ sendPayload \in Payload \cup {None}
    /\ sendSource \in Source \cup {None}
    /\ added \in BOOLEAN /\ rtcpBin \in BOOLEAN /\ pending \in BOOLEAN
    /\ blocked \in SUBSET Component
    /\ keyed \in BOOLEAN /\ keySignals \in 0..2
    /\ inputBin \in Payload \cup {None}
    /\ linked \in Source \cup {None}
    /\ strays \in Nat
    /\ rtcpVia \in Component \cup {"none"}

\* A source and a payload that can be sent.
Sendable ==
    /\ sendPayload # None /\ sendSource # None
    /\ SameKind(sendSource, sendPayload)

\* What is sent is what is set: the pipeline never carries a source or payload
\* that the application has replaced, whenever the keys arrive.
SendsWhatIsSet ==
    linked # None => linked = sendSource /\ inputBin = sendPayload

\* The start of sending is not lost: once the keys have ended pending and no task
\* is left, a source and a payload that fit are sent, although the keys arrive on
\* a thread of their own while the main loop looks at pending.
StartNotLost ==
    added /\ ~pending /\ tasks = <<>> /\ Sendable => linked # None

\* Nothing stays blocked: on_new_selected_pair opens no component any more once
\* the session has left pending_sessions, so all must be open by then.
NothingLeftBlocked == added /\ ~pending => blocked = {}

\* An application that replaces or unsets only what is being sent, and waits for
\* its tasks, never runs into an assertion of
\* remove_existing_send_source_and_payload.
CarefulNeverAborts == careful => ~aborted

\* The race between the keys and a set_send_source that is already queued can
\* build the pipeline a second time; it leaks one source bin, and never more.
OneStray == strays <= 1

\* A session with a source and a payload that fit is sending sooner or later,
\* unless they are replaced or an assertion fails.
SendingStarts == added /\ Sendable ~> linked # None \/ ~Sendable \/ aborted
=============================================================================
