--------------------------- MODULE PeerConnection ---------------------------
(***************************************************************************)
(* One RTCPeerConnection of the page (src/bridge/client/webrtc.js), the    *)
(* PeerHandler behind it in the worker (src/bridge/worker/peerhandler.js)  *)
(* and the two ordered directions of the bridge between them.              *)
(*                                                                         *)
(* The page is an event loop: an action is one task, that is one call of   *)
(* the script, one timer or one message of the bridge.  Timers of zero     *)
(* delay fire in the order they were set, messages come in order, and the  *)
(* two kinds of task interleave.  A session description is the sequence of *)
(* its media lines.                                                        *)
(***************************************************************************)
EXTENDS Naturals, FiniteSets, Sequences, SequencesExt

CONSTANTS RemoteOffers,  \* the media lines of the offers the other end may make
          Candidates,    \* the remote candidates: pairs of a media line and a component
          Scripts,       \* the sequences of calls a page may make, at whatever times
          MaxQueue       \* bound on the operations it leaves outstanding

Call == {"addStream", "createDataChannel", "createOffer", "setLocal", "remoteOffer",
         "remoteAnswer", "createAnswer", "addCandidate", "close"}
Component == {"rtp", "rtcp"}
Kind == {"audio", "application"}
SignalingState == {"stable", "have-local-offer", "have-remote-offer", "closed"}

\* A media line of the other end, before and after it gets a local source; one of this end.
OfferLine == [kind : Kind, sends : BOOLEAN, mux : BOOLEAN, candidates : SUBSET Component]
RemoteLine == [kind : Kind, sends : BOOLEAN, mux : BOOLEAN, candidates : SUBSET Component,
               source : BOOLEAN]
LineOfThisEnd == [kind : Kind, track : BOOLEAN, mux : BOOLEAN, done : BOOLEAN]

ASSUME PeerConnectionAssumption ==
    /\ MaxQueue \in Nat /\ Candidates \subseteq (Nat \X Component)
    /\ Scripts \subseteq Seq(Call)
    /\ RemoteOffers \subseteq Seq(OfferLine) \ {<<>>}

NoDescription == [type |-> "none", lines |-> <<>>]

VARIABLES
    \* the calls the script has still to make
    script,
    \* the page's attributes and its operation queue
    sig, queue, waiting, stateChanging, timers,
    \* what it negotiates
    hasTrack, hasDataChannels, local, remote, status, created, canCreate, deferred, channels,
    \* the peer handler's reference as the page knows it, and the keys
    known, keys,
    \* the bridge, one sequence per direction
    toWorker, toPage,
    \* the worker
    sessions, receivePrepared, sendPrepared, nextId,
    \* what has happened: see History below
    hist

queueVars == <<sig, queue, waiting, stateChanging, timers>>
descVars == <<hasTrack, hasDataChannels, local, remote, status, created>>
channelVars == <<canCreate, deferred, channels>>
workerVars == <<sessions, receivePrepared, sendPrepared, nextId>>
vars == <<script, queueVars, descVars, channelVars, known, keys, toWorker, toPage, workerVars, hist>>

\* What the properties remember and the program does not:
\*   asked       an operation was asked for
\*   signalled   negotiationneeded was dispatched since the last thing to negotiate
\*   aside       since the last thing to negotiate was added, an operation that sets no
\*               description has been asked for or was outstanding
\*   closed      the page has called close()
\*   early       an offer was made while the keys were not there
\*   first       the stream was added before any operation was asked for
\*   ended       the null candidate was dispatched since the local description was set
\*   stale       the lines whose end of gathering was noted in a local description that has
\*               been replaced since
\*   withdrawn   a remote description took back a source that had not come
\*   announced   the lines whose source an addstream event has delivered
History == [asked : BOOLEAN, signalled : BOOLEAN, aside : BOOLEAN, closed : BOOLEAN,
            early : BOOLEAN, first : BOOLEAN, ended : BOOLEAN, stale : SUBSET Nat,
            withdrawn : BOOLEAN, announced : SUBSET Nat]

Init ==
    /\ script \in Scripts
    /\ sig = "stable" /\ queue = <<>> /\ waiting = <<>> /\ stateChanging = FALSE /\ timers = <<>>
    /\ hasTrack = FALSE /\ hasDataChannels = FALSE /\ local = <<>> /\ remote = <<>> /\ status = <<>>
    /\ created = NoDescription /\ canCreate = FALSE /\ deferred = <<>> /\ channels = <<>>
    /\ known = FALSE /\ keys = "generating"
    /\ toWorker = <<>> /\ toPage = <<>>
    /\ sessions = <<>> /\ receivePrepared = 0 /\ sendPrepared = 0 /\ nextId = 0
    /\ hist = [asked |-> FALSE, signalled |-> FALSE, aside |-> FALSE, closed |-> FALSE,
               early |-> FALSE, first |-> FALSE, ended |-> FALSE, stale |-> {},
               withdrawn |-> FALSE, announced |-> {}]

----------------------------------------------------------------------------
(***************************************************************************)
(* The queue of operations.                                                *)
(***************************************************************************)

\* signalingStateMap: the state a description leads to, "none" when it is invalid.
Target(state, call, type) ==
    CASE state = "stable" /\ type = "offer" ->
             IF call = "setLocal" THEN "have-local-offer" ELSE "have-remote-offer"
      [] state = "have-local-offer" /\ call = "setLocal" /\ type = "offer" -> "have-local-offer"
      [] state = "have-local-offer" /\ call = "setRemote" /\ type = "answer" -> "stable"
      [] state = "have-remote-offer" /\ call = "setLocal" /\ type = "answer" -> "stable"
      [] state = "have-remote-offer" /\ call = "setRemote" /\ type = "offer" -> "have-remote-offer"
      [] OTHER -> "none"

HasKind(lines, kind) == \E i \in DOMAIN lines : lines[i].kind = kind

FirstAudio(lines) ==
    CHOOSE i \in DOMAIN lines :
        lines[i].kind = "audio" /\ \A j \in 1..(i - 1) : lines[j].kind # "audio"

\* The local track has a line.
Described(lines) == \E i \in DOMAIN lines : lines[i].track

\* Something local that the local description does not have.
Lacks(lines) ==
    \/ hasDataChannels /\ ~HasKind(lines, "application")
    \/ hasTrack /\ ~Described(lines)

\* maybeDispatchNegotiationNeeded, on the timers it may add to.
MaybeDispatchNegotiationNeeded(ts, q, state, lines) ==
    IF ~Contains(ts, "fire") /\ q = <<>> /\ state = "stable" /\ Lacks(lines)
    THEN Append(ts, "fire") ELSE ts

\* enqueueOperation: note that the flag is the last operation's, not any operation's.
EnqueueOperation(op, isStateChanger) ==
    /\ sig # "closed"
    /\ Len(queue) < MaxQueue
    /\ queue' = Append(queue, op)
    /\ stateChanging' = isStateChanger
    /\ timers' = IF queue = <<>> THEN Append(timers, "op") ELSE timers
    /\ hist' = [hist EXCEPT !.asked = TRUE, !.aside = @ \/ ~isStateChanger]
    /\ UNCHANGED <<sig, waiting>>

\* Faulty: the need to negotiate is judged before the callback has set the state.
CompleteQueuedOperationTooSoon(ts, state, lines) ==
    LET rest == Tail(queue)
        next == IF rest = <<>> THEN ts ELSE Append(ts, "op")
    IN  /\ queue' = rest
        /\ sig' = state
        /\ timers' = IF rest = <<>> /\ stateChanging
                     THEN MaybeDispatchNegotiationNeeded(next, rest, sig, lines) ELSE next
        /\ stateChanging' = (stateChanging /\ rest # <<>>)

\* Faulty: the next operation is not started.
CompleteQueuedOperationAlone(ts, state, lines) ==
    LET rest == Tail(queue)
    IN  /\ queue' = rest
        /\ sig' = state
        /\ timers' = IF rest = <<>> /\ stateChanging
                     THEN MaybeDispatchNegotiationNeeded(ts, rest, state, lines) ELSE ts
        /\ stateChanging' = (stateChanging /\ rest # <<>>)

\* completeQueuedOperation with a callback that leaves the signalling state at "state".
CompleteQueuedOperation(ts, state, lines) ==
    LET rest == Tail(queue)
        next == IF rest = <<>> THEN ts ELSE Append(ts, "op")
    IN  /\ queue' = rest
        /\ sig' = state
        /\ timers' = IF rest = <<>> /\ stateChanging
                     THEN MaybeDispatchNegotiationNeeded(next, rest, state, lines) ELSE next
        /\ stateChanging' = (stateChanging /\ rest # <<>>)

\* The timer of the operation at the head of the queue fires.
Running(call) == timers # <<>> /\ Head(timers) = "op" /\ queue # <<>> /\ Head(queue).call = call

\* The promise is rejected, nothing else happens.
Reject ==
    /\ CompleteQueuedOperation(Tail(timers), sig, local)
    /\ UNCHANGED <<waiting, descVars, toWorker, hist>>

\* The operation throws: its promise and those behind it are never settled.
Throw ==
    /\ timers' = Tail(timers)
    /\ UNCHANGED <<sig, queue, waiting, stateChanging, descVars, toWorker>>

----------------------------------------------------------------------------
(***************************************************************************)
(* Making descriptions.                                                    *)
(***************************************************************************)

\* updateMediaDescriptionsWithTracks: the track stays on its line or takes the first of its kind.
WithTracks(lines) ==
    IF hasTrack /\ HasKind(lines, "audio") /\ ~Described(lines)
    THEN [lines EXCEPT ![FirstAudio(lines)].track = TRUE] ELSE lines

LocalLine(kind, track, mux) == [kind |-> kind, track |-> track, mux |-> mux, done |-> FALSE]

\* The lines an offer adds to those it already has.
NewLines(lines) ==
    (IF hasTrack /\ ~Described(lines)
     THEN <<LocalLine("audio", TRUE, TRUE)>> ELSE <<>>)
    \o (IF hasDataChannels /\ ~HasKind(lines, "application")
        THEN <<LocalLine("application", FALSE, FALSE)>> ELSE <<>>)

\* SDP.generate: what a line has gathered goes into its attributes, that it has done so does not.
Generated(lines) == [i \in DOMAIN lines |-> [lines[i] EXCEPT !.done = FALSE]]

\* queuedCreateOffer: a new line needs the fingerprint of the keys.
RunCreateOffer ==
    /\ Running("createOffer")
    /\ LET lines == WithTracks(local)
           new == NewLines(lines)
       IN  IF new # <<>> /\ keys # "done"
           THEN Throw /\ hist' = [hist EXCEPT !.early = TRUE]
           ELSE /\ created' = [type |-> "offer", lines |-> Generated(lines \o new)]
                /\ CompleteQueuedOperation(Tail(timers), sig, local)
                /\ UNCHANGED <<waiting, hasTrack, hasDataChannels, local, remote, status, toWorker, hist>>
    /\ UNCHANGED <<channelVars, known, keys, toPage, workerVars>>

\* queuedCreateAnswer
RunCreateAnswer ==
    /\ Running("createAnswer")
    /\ IF remote = <<>> THEN Reject
       ELSE /\ created' =
                 [type |-> "answer",
                  lines |-> Generated(WithTracks([i \in 1..Len(remote) |->
                      IF i \in DOMAIN local THEN [local[i] EXCEPT !.mux = remote[i].mux]
                      ELSE LocalLine(remote[i].kind, FALSE, remote[i].mux)]))]
            /\ CompleteQueuedOperation(Tail(timers), sig, local)
            /\ UNCHANGED <<waiting, hasTrack, hasDataChannels, local, remote, status, toWorker, hist>>
    /\ UNCHANGED <<channelVars, known, keys, toPage, workerVars>>

----------------------------------------------------------------------------
(***************************************************************************)
(* Applying descriptions.                                                  *)
(***************************************************************************)

PrepareToReceive(lines, initiator) ==
    [call |-> "prepareToReceive", lines |-> lines, initiator |-> initiator]
PrepareToSend(lines, initiator) ==
    [call |-> "prepareToSend", lines |-> lines, initiator |-> initiator]

\* The rest of an operation once there is a peer handler: the calls it makes, then its end.
Applied(calls, target, ts, lines) ==
    /\ toWorker' = toWorker \o calls
    /\ CompleteQueuedOperation(ts, target, lines)

\* whenPeerHandler
WhenPeerHandler(calls, target, lines) ==
    IF known
    THEN Applied(calls, target, Tail(timers), lines) /\ UNCHANGED waiting
    ELSE /\ waiting' = <<[calls |-> calls, target |-> target]>>
         /\ timers' = Tail(timers)
         /\ UNCHANGED <<sig, queue, stateChanging, toWorker>>

\* The calls that follow a local description with these lines.
CallsForLocal(lines, initiator) ==
    (IF Len(lines) > Len(local) THEN <<PrepareToReceive(lines, initiator)>> ELSE <<>>)
    \o (IF remote # <<>> THEN <<PrepareToSend(remote, initiator)>> ELSE <<>>)

\* queuedSetLocalDescription; signalingStateMap has no row for "closed".
RunSetLocalDescription ==
    /\ Running("setLocal")
    /\ LET d == Head(queue).description
           target == Target(sig, "setLocal", d.type)
       IN  IF sig = "closed" THEN Throw /\ UNCHANGED hist
           ELSE IF target = "none" THEN Reject
           ELSE /\ local' = d.lines
                /\ hist' = [hist EXCEPT !.ended = FALSE,
                                        !.stale = @ \cup {i \in DOMAIN local : local[i].done}]
                /\ WhenPeerHandler(CallsForLocal(d.lines, d.type = "offer"), target, d.lines)
                /\ UNCHANGED <<hasTrack, hasDataChannels, remote, status, created>>
    /\ UNCHANGED <<channelVars, known, keys, toPage, workerVars>>

\* Faulty: the first track goes to the first line, whatever its kind.
WithSourceByIndex(lines) ==
    [i \in DOMAIN lines |->
        [kind |-> lines[i].kind, sends |-> lines[i].sends, mux |-> lines[i].mux,
         candidates |-> lines[i].candidates,
         source |-> hasTrack /\ lines[i].kind = "audio" /\ i = 1]]

\* The local track becomes the source of the first line of its kind.
WithSource(lines) ==
    [i \in DOMAIN lines |->
        [kind |-> lines[i].kind, sends |-> lines[i].sends, mux |-> lines[i].mux,
         candidates |-> lines[i].candidates,
         source |-> hasTrack /\ lines[i].kind = "audio" /\ i = FirstAudio(lines)]]

NoStatus == [expected |-> FALSE, source |-> FALSE, updated |-> FALSE]

\* The status of the lines once a description with these lines is set.
Expecting(lines) ==
    [i \in DOMAIN lines \cup DOMAIN status |->
        IF i \notin DOMAIN lines THEN status[i]
        ELSE [(IF i \in DOMAIN status THEN status[i] ELSE NoStatus) EXCEPT !.expected = lines[i].sends]]

\* queuedSetRemoteDescription: an application line counts as a source unless it is recvonly.
RunSetRemoteDescription ==
    /\ Running("setRemote")
    /\ LET d == Head(queue).description
           target == Target(sig, "setRemote", d.type)
           lines == WithSource(d.lines)
       IN  IF sig = "closed" THEN Throw /\ UNCHANGED hist
           ELSE IF target = "none" THEN Reject
           ELSE /\ remote' = lines
                /\ status' = Expecting(d.lines)
                /\ hist' = [hist EXCEPT !.withdrawn = @ \/ \E i \in DOMAIN status :
                                status[i].expected /\ ~status[i].source /\ ~status'[i].expected]
                /\ WhenPeerHandler(<<PrepareToSend(lines, d.type = "answer")>>, target, local)
                /\ UNCHANGED <<hasTrack, hasDataChannels, local, created>>
    /\ UNCHANGED <<channelVars, known, keys, toPage, workerVars>>

\* queuedAddIceCandidate: the candidate is kept in the description and sent on its own.
RunAddIceCandidate ==
    /\ Running("addCandidate")
    /\ LET op == Head(queue)
       IN  IF op.line \notin DOMAIN remote THEN Reject
           ELSE /\ remote' = [remote EXCEPT ![op.line].candidates = @ \cup {op.candidate}]
                /\ WhenPeerHandler(<<[call |-> "addRemoteCandidate", line |-> op.line,
                                      candidate |-> op.candidate]>>, sig, local)
                /\ UNCHANGED <<hasTrack, hasDataChannels, local, status, created, hist>>
    /\ UNCHANGED <<channelVars, known, keys, toPage, workerVars>>

\* A timer of addStream or createDataChannel fires.
RunMaybeDispatch ==
    /\ timers # <<>> /\ Head(timers) = "maybe"
    /\ timers' = MaybeDispatchNegotiationNeeded(Tail(timers), queue, sig, local)
    /\ UNCHANGED <<sig, queue, waiting, stateChanging, descVars, channelVars, known, keys,
                   toWorker, toPage, workerVars, hist>>

\* The timer of maybeDispatchNegotiationNeeded: only the state is looked at again.
RunDispatchNegotiationNeeded ==
    /\ timers # <<>> /\ Head(timers) = "fire"
    /\ timers' = Tail(timers)
    /\ hist' = [hist EXCEPT !.signalled = @ \/ sig = "stable"]
    /\ UNCHANGED <<sig, queue, waiting, stateChanging, descVars, channelVars, known, keys,
                   toWorker, toPage, workerVars>>

----------------------------------------------------------------------------
(***************************************************************************)
(* The calls of the script.  It sets the description it made last, takes   *)
(* remote offers that keep the lines agreed so far, and does not take one  *)
(* while it is making a description itself.                                *)
(***************************************************************************)

\* The next call of the script.
Calling(call) == script # <<>> /\ Head(script) = call /\ script' = Tail(script)

Kinds(lines) == [i \in DOMAIN lines |-> lines[i].kind]
Making == \E i \in DOMAIN queue : queue[i].call \in {"createOffer", "createAnswer", "setRemote"}

PageUnchanged == UNCHANGED <<hasTrack, hasDataChannels, local, remote, status, channelVars, known,
                             keys, toWorker, toPage, workerVars>>

CreateOffer ==
    /\ Calling("createOffer")
    /\ EnqueueOperation([call |-> "createOffer"], FALSE)
    /\ PageUnchanged /\ UNCHANGED created

CreateAnswer ==
    /\ Calling("createAnswer")
    /\ EnqueueOperation([call |-> "createAnswer"], FALSE)
    /\ PageUnchanged /\ UNCHANGED created

SetLocalDescription ==
    /\ Calling("setLocal")
    /\ created.lines # <<>> /\ Len(created.lines) >= Len(local)
    /\ created.type = "answer" => Len(created.lines) = Len(remote)
    /\ ~Making
    /\ EnqueueOperation([call |-> "setLocal", description |-> created], TRUE)
    /\ created' = NoDescription
    /\ PageUnchanged

SetRemoteOffer ==
    /\ Calling("remoteOffer")
    /\ ~Making
    /\ \E offer \in RemoteOffers :
          /\ IsPrefix(Kinds(IF Len(local) > Len(remote) THEN local ELSE remote), Kinds(offer))
          /\ EnqueueOperation([call |-> "setRemote",
                               description |-> [type |-> "offer", lines |-> offer]], TRUE)
    /\ created' = NoDescription
    /\ PageUnchanged

\* The other end answers an offer that was set; this bridge's answers make data lines recvonly.
SetRemoteAnswer ==
    /\ Calling("remoteAnswer")
    /\ sig = "have-local-offer" /\ ~Making
    /\ \E sends \in BOOLEAN :
          EnqueueOperation([call |-> "setRemote", description |->
              [type |-> "answer",
               lines |-> [i \in DOMAIN local |->
                   [kind |-> local[i].kind, sends |-> sends /\ local[i].kind = "audio",
                    mux |-> local[i].mux, candidates |-> {}]]]], TRUE)
    /\ created' = NoDescription
    /\ PageUnchanged

AddIceCandidate ==
    /\ Calling("addCandidate")
    /\ \E c \in Candidates :
          EnqueueOperation([call |-> "addCandidate", line |-> c[1], candidate |-> c[2]], FALSE)
    /\ PageUnchanged /\ UNCHANGED created

\* There is something new to negotiate.
Unnegotiated ==
    [hist EXCEPT !.signalled = FALSE,
                 !.aside = \E i \in DOMAIN queue : queue[i].call \notin {"setLocal", "setRemote"}]

AddStream ==
    /\ Calling("addStream") /\ sig # "closed" /\ ~hasTrack
    /\ hasTrack' = TRUE
    /\ timers' = Append(timers, "maybe")
    /\ hist' = [Unnegotiated EXCEPT !.first = ~hist.asked]
    /\ UNCHANGED <<sig, queue, waiting, stateChanging, hasDataChannels, local, remote, status,
                   created, channelVars, known, keys, toWorker, toPage, workerVars>>

CreateChannel(n, id) == [call |-> "createDataChannel", channel |-> n, id |-> id]

\* A channel that can be created now is, another waits for dataChannelsEnabled.
NewChannel(id) ==
    /\ channels' = Append(channels, id)
    /\ IF canCreate
       THEN /\ toWorker' = Append(toWorker, CreateChannel(Len(channels) + 1, id))
            /\ UNCHANGED deferred
       ELSE deferred' = Append(deferred, Len(channels) + 1) /\ UNCHANGED toWorker

Unassigned == 65535

CreateDataChannel ==
    /\ Calling("createDataChannel") /\ sig # "closed"
    /\ hasDataChannels' = TRUE
    /\ timers' = IF hasDataChannels THEN timers ELSE Append(timers, "maybe")
    /\ NewChannel(Unassigned)
    /\ hist' = IF hasDataChannels THEN hist ELSE Unnegotiated
    /\ UNCHANGED <<sig, queue, waiting, stateChanging, hasTrack, local, remote, status, created,
                   canCreate, known, keys, toPage, workerVars>>

Close ==
    /\ Calling("close")
    /\ sig' = "closed"
    /\ hist' = [hist EXCEPT !.closed = TRUE]
    /\ UNCHANGED <<queue, waiting, stateChanging, timers, descVars, channelVars, known, keys,
                   toWorker, toPage, workerVars>>

----------------------------------------------------------------------------
(***************************************************************************)
(* Messages of the worker reach the page.                                  *)
(***************************************************************************)

FromWorker(event) == toPage # <<>> /\ Head(toPage).event = event

\* createPeerHandler's callback: the deferred call of the running operation is made.
GotPeerHandler ==
    /\ FromWorker("peerHandler")
    /\ known' = TRUE
    /\ toPage' = Tail(toPage)
    /\ waiting' = <<>>
    /\ IF waiting = <<>> THEN UNCHANGED <<sig, queue, stateChanging, timers, toWorker>>
       ELSE Applied(waiting[1].calls, waiting[1].target, timers, local)
    /\ UNCHANGED <<descVars, channelVars, keys, workerVars, hist>>

\* Faulty: one line that is done is enough.
AnyGatheringDone(lines) == \E i \in DOMAIN lines : lines[i].done

\* isAllGatheringDone
AllGatheringDone(lines) == \A i \in DOMAIN lines : lines[i].done

GotIceCandidate ==
    /\ FromWorker("candidate")
    /\ toPage' = Tail(toPage)
    /\ hist' = [hist EXCEPT !.ended = @ \/ AllGatheringDone(local)]
    /\ UNCHANGED <<queueVars, descVars, channelVars, known, keys, toWorker, workerVars>>

CandidateGatheringDone ==
    /\ FromWorker("gatheringDone")
    /\ toPage' = Tail(toPage)
    /\ local' = [local EXCEPT ![Head(toPage).line].done = TRUE]
    /\ hist' = [hist EXCEPT !.ended = @ \/ AllGatheringDone(local')]
    /\ UNCHANGED <<queueVars, hasTrack, hasDataChannels, remote, status, created, channelVars,
                   known, keys, toWorker, workerVars>>

\* Faulty: only the source that came last is announced.
GotRemoteSourceAlone ==
    /\ FromWorker("source")
    /\ toPage' = Tail(toPage)
    /\ LET i == Head(toPage).line
           got == [status EXCEPT ![i] = [@ EXCEPT !.source = TRUE]]
       IN  /\ status' = got
           /\ hist' = IF \E j \in DOMAIN got : got[j].expected /\ ~got[j].source THEN hist
                      ELSE [hist EXCEPT !.announced = @ \cup {i}]
    /\ UNCHANGED <<queueVars, hasTrack, hasDataChannels, local, remote, created, channelVars,
                   known, keys, toWorker, workerVars>>

\* gotRemoteSource: nothing is announced before every expected source is there.
GotRemoteSource ==
    /\ FromWorker("source")
    /\ toPage' = Tail(toPage)
    /\ LET got == [status EXCEPT ![Head(toPage).line] = [@ EXCEPT !.source = TRUE, !.updated = TRUE]]
           updated == {i \in DOMAIN got : got[i].updated}
       IN  IF \E i \in DOMAIN got : got[i].expected /\ ~got[i].source
           THEN status' = got /\ UNCHANGED hist
           ELSE /\ status' = [i \in DOMAIN got |-> [got[i] EXCEPT !.updated = FALSE]]
                /\ hist' = [hist EXCEPT !.announced = @ \cup updated]
    /\ UNCHANGED <<queueVars, hasTrack, hasDataChannels, local, remote, created, channelVars,
                   known, keys, toWorker, workerVars>>

\* dataChannelsEnabled: the deferred channels are created now.
DataChannelsEnabled ==
    /\ FromWorker("dataChannelsEnabled")
    /\ toPage' = Tail(toPage)
    /\ canCreate' = TRUE
    /\ toWorker' = toWorker \o
           [k \in DOMAIN deferred |-> CreateChannel(deferred[k], channels[deferred[k]])]
    /\ deferred' = <<>>
    /\ UNCHANGED <<queueVars, descVars, channels, known, keys, workerVars, hist>>

DataChannelRequested ==
    /\ FromWorker("dataChannelRequested")
    /\ toPage' = Tail(toPage)
    /\ NewChannel(Head(toPage).id)
    /\ UNCHANGED <<queueVars, descVars, canCreate, known, keys, workerVars, hist>>

\* The answer of createDataChannel brings the id the worker gave.
GotChannel ==
    /\ FromWorker("channel")
    /\ toPage' = Tail(toPage)
    /\ channels' = [channels EXCEPT ![Head(toPage).channel] = Head(toPage).id]
    /\ UNCHANGED <<queueVars, descVars, canCreate, deferred, known, keys, toWorker, workerVars, hist>>

----------------------------------------------------------------------------
(***************************************************************************)
(* The worker.                                                             *)
(***************************************************************************)

ToPeerHandler(call) == toWorker # <<>> /\ Head(toWorker).call = call

WorkerOnly == UNCHANGED <<queueVars, descVars, channelVars, known, hist>>

\* createKeys' callback, and the createPeerHandler the page defers until then.
KeysGenerated ==
    /\ keys = "generating"
    /\ \/ keys' = "done" /\ toWorker' = Append(toWorker, [call |-> "createPeerHandler"])
       \/ keys' = "failed" /\ UNCHANGED toWorker
    /\ UNCHANGED <<toPage, workerVars>> /\ WorkerOnly

CreatePeerHandler ==
    /\ ToPeerHandler("createPeerHandler")
    /\ toWorker' = Tail(toWorker)
    /\ toPage' = Append(toPage, [event |-> "peerHandler"])
    /\ UNCHANGED <<keys, workerVars>> /\ WorkerOnly

\* Faulty: one session is made at most.
WithOneSession(lines, initiator) ==
    sessions \o [i \in 1..(IF Len(lines) > Len(sessions) THEN 1 ELSE 0) |->
        [kind |-> lines[Len(sessions) + i].kind, client |-> ~initiator, mux |-> FALSE,
         sending |-> FALSE, candidates |-> {}, added |-> 0, gathering |-> "not", flow |-> "none",
         channels |-> "none"]]

\* ensureTransportAgentAndSessions: a session for every line that has none.  An offer of this
\* end says actpass, and it is the DTLS server; to the other end's actpass it is the client.
WithSessions(lines, initiator) ==
    sessions \o [i \in 1..(IF Len(lines) > Len(sessions) THEN Len(lines) - Len(sessions) ELSE 0) |->
        [kind |-> lines[Len(sessions) + i].kind, client |-> ~initiator, mux |-> FALSE,
         sending |-> FALSE, candidates |-> {}, added |-> 0, gathering |-> "not", flow |-> "none",
         channels |-> "none"]]

\* prepareToReceive: the sessions not prepared yet are, and are added to the agent.
ReceivePrepareToReceive ==
    /\ ToPeerHandler("prepareToReceive")
    /\ LET msg == Head(toWorker)
           all == WithSessions(msg.lines, msg.initiator)
           fresh == (receivePrepared + 1)..Len(all)
           enabled == {i \in fresh : all[i].kind = "application"}
       IN  /\ sessions' = [i \in DOMAIN all |->
                  IF i \notin fresh THEN all[i]
                  ELSE [all[i] EXCEPT !.mux = ~msg.initiator /\ msg.lines[i].mux,
                                      !.added = @ + 1, !.gathering = "going"]]
           /\ receivePrepared' = Len(all)
           /\ toPage' = IF enabled = {} THEN toPage
                        ELSE Append(toPage, [event |-> "dataChannelsEnabled"])
    /\ toWorker' = Tail(toWorker)
    /\ UNCHANGED <<sendPrepared, nextId, keys>> /\ WorkerOnly

\* internalAddRemoteCandidate: an RTCP candidate is of no use to a session that multiplexes.
Taken(candidates, mux) == candidates \ (IF mux THEN {"rtcp"} ELSE {})

\* prepareToSend: a line without a source is passed over, and does not hold back later ones.
ReceivePrepareToSend ==
    /\ ToPeerHandler("prepareToSend")
    /\ LET msg == Head(toWorker)
           lines == msg.lines
           all == WithSessions(lines, msg.initiator)
           fresh == {i \in DOMAIN lines : i > sendPrepared}
           prepared == {i \in fresh : lines[i].kind = "application" \/ lines[i].source}
       IN  /\ sessions' = [i \in DOMAIN all |->
                  IF i \notin DOMAIN lines THEN all[i]
                  ELSE LET mux == lines[i].kind = "audio" /\ lines[i].mux
                       IN  [all[i] EXCEPT
                               !.mux = mux,
                               !.candidates = @ \cup Taken(lines[i].candidates, mux),
                               !.sending = @ \/ (i \in fresh /\ lines[i].source),
                               !.flow = IF @ = "none" /\ lines[i].sends THEN "expected" ELSE @]]
           /\ IF prepared = {} THEN UNCHANGED sendPrepared
              ELSE \E i \in prepared : (\A j \in prepared : j <= i) /\ sendPrepared' = i
    /\ toWorker' = Tail(toWorker)
    /\ UNCHANGED <<toPage, receivePrepared, nextId, keys>> /\ WorkerOnly

ReceiveAddRemoteCandidate ==
    /\ ToPeerHandler("addRemoteCandidate")
    /\ LET msg == Head(toWorker)
       IN  sessions' = [sessions EXCEPT ![msg.line].candidates =
                            @ \cup Taken({msg.candidate}, sessions[msg.line].mux)]
    /\ toWorker' = Tail(toWorker)
    /\ UNCHANGED <<toPage, receivePrepared, sendPrepared, nextId, keys>> /\ WorkerOnly

\* createDataChannel: the DTLS client takes the even ids.
DataSession == CHOOSE i \in DOMAIN sessions : sessions[i].kind = "application"

ReceiveCreateDataChannel ==
    /\ ToPeerHandler("createDataChannel")
    /\ LET msg == Head(toWorker)
           next == IF nextId = 0 /\ ~sessions[DataSession].client THEN 1 ELSE nextId
       IN  /\ nextId' = IF msg.id = Unassigned THEN next + 2 ELSE nextId
           /\ toPage' = Append(toPage, [event |-> "channel", channel |-> msg.channel,
                                        id |-> IF msg.id = Unassigned THEN next ELSE msg.id])
    /\ toWorker' = Tail(toWorker)
    /\ UNCHANGED <<sessions, receivePrepared, sendPrepared, keys>> /\ WorkerOnly

\* The transport agent announces a candidate, or the end of a session's gathering.
Gather(i) ==
    /\ \/ /\ sessions[i].gathering = "going"
          /\ sessions' = [sessions EXCEPT ![i].gathering = "found"]
          /\ toPage' = Append(toPage, [event |-> "candidate", line |-> i])
       \/ /\ sessions[i].gathering = "found"
          /\ sessions' = [sessions EXCEPT ![i].gathering = "done"]
          /\ toPage' = Append(toPage, [event |-> "gatheringDone", line |-> i])
    /\ UNCHANGED <<toWorker, receivePrepared, sendPrepared, nextId, keys>> /\ WorkerOnly

\* The transport agent announces the source of a media session.
IncomingSource(i) ==
    /\ sessions[i].kind = "audio" /\ sessions[i].flow = "expected" /\ sessions[i].added > 0
    /\ sessions' = [sessions EXCEPT ![i].flow = "arrived"]
    /\ toPage' = Append(toPage, [event |-> "source", line |-> i])
    /\ UNCHANGED <<toWorker, receivePrepared, sendPrepared, nextId, keys>> /\ WorkerOnly

\* The other end opens a channel, with the first id of its parity.
IncomingChannel(i) ==
    /\ sessions[i].kind = "application" /\ sessions[i].channels = "none"
    /\ sessions[i].added > 0 /\ i <= sendPrepared
    /\ sessions' = [sessions EXCEPT ![i].channels = "requested"]
    /\ toPage' = Append(toPage, [event |-> "dataChannelRequested",
                                 id |-> IF sessions[i].client THEN 1 ELSE 0])
    /\ UNCHANGED <<toWorker, receivePrepared, sendPrepared, nextId, keys>> /\ WorkerOnly

----------------------------------------------------------------------------
Script == \/ CreateOffer \/ CreateAnswer \/ SetLocalDescription \/ SetRemoteOffer
          \/ SetRemoteAnswer \/ AddIceCandidate \/ AddStream \/ CreateDataChannel \/ Close

Timer == \/ RunCreateOffer \/ RunCreateAnswer \/ RunSetLocalDescription \/ RunSetRemoteDescription
         \/ RunAddIceCandidate \/ RunMaybeDispatch \/ RunDispatchNegotiationNeeded

PageMessage == \/ GotPeerHandler \/ GotIceCandidate \/ CandidateGatheringDone \/ GotRemoteSource
               \/ DataChannelsEnabled \/ DataChannelRequested \/ GotChannel

Worker == \/ CreatePeerHandler \/ ReceivePrepareToReceive \/ ReceivePrepareToSend
          \/ ReceiveAddRemoteCandidate \/ ReceiveCreateDataChannel

Native == \/ KeysGenerated
          \/ \E i \in DOMAIN sessions : Gather(i) \/ IncomingSource(i) \/ IncomingChannel(i)

Next == Script \/ ((Timer \/ PageMessage \/ Worker \/ Native) /\ UNCHANGED script)

Spec == Init /\ [][Next]_vars

\* The event loops of the page and of the worker run what is ready, and the keys get generated.
FairSpec == Spec /\ WF_vars(Timer /\ UNCHANGED script) /\ WF_vars(PageMessage /\ UNCHANGED script)
                 /\ WF_vars(Worker /\ UNCHANGED script) /\ WF_vars(KeysGenerated /\ UNCHANGED script)

----------------------------------------------------------------------------
(***************************************************************************)
(* Properties                                                              *)
(***************************************************************************)

LocalDescription == [type : {"offer", "answer"}, lines : Seq(LineOfThisEnd)]
RemoteDescription == [type : {"offer", "answer"}, lines : Seq(OfferLine)]
Operation ==
    [call : {"createOffer", "createAnswer"}]
    \cup [call : {"setLocal"}, description : LocalDescription]
    \cup [call : {"setRemote"}, description : RemoteDescription]
    \cup [call : {"addCandidate"}, line : Nat, candidate : Component]
PeerCall ==
    [call : {"createPeerHandler"}]
    \cup [call : {"prepareToReceive"}, lines : Seq(LineOfThisEnd), initiator : BOOLEAN]
    \cup [call : {"prepareToSend"}, lines : Seq(RemoteLine), initiator : BOOLEAN]
    \cup [call : {"addRemoteCandidate"}, line : Nat, candidate : Component]
    \cup [call : {"createDataChannel"}, channel : Nat, id : Nat]
PageEvent ==
    [event : {"peerHandler", "dataChannelsEnabled"}]
    \cup [event : {"candidate", "gatheringDone", "source"}, line : Nat]
    \cup [event : {"dataChannelRequested"}, id : Nat]
    \cup [event : {"channel"}, channel : Nat, id : Nat]
Session ==
    [kind : Kind, client : BOOLEAN, mux : BOOLEAN, sending : BOOLEAN,
     candidates : SUBSET Component, added : 0..1, gathering : {"not", "going", "found", "done"},
     flow : {"none", "expected", "arrived"}, channels : {"none", "requested"}]

\* Every part of the state has its type; a session is added to the transport agent once.
TypeOK ==
    /\ script \in Seq(Call)
    /\ sig \in SignalingState /\ stateChanging \in BOOLEAN /\ queue \in Seq(Operation)
    /\ Len(waiting) <= 1 /\ waiting \in Seq([calls : Seq(PeerCall), target : SignalingState])
    /\ timers \in Seq({"op", "maybe", "fire"})
    /\ hasTrack \in BOOLEAN /\ hasDataChannels \in BOOLEAN
    /\ local \in Seq(LineOfThisEnd) /\ remote \in Seq(RemoteLine)
    /\ status \in Seq([expected : BOOLEAN, source : BOOLEAN, updated : BOOLEAN])
    /\ created \in LocalDescription \cup {NoDescription}
    /\ canCreate \in BOOLEAN /\ channels \in Seq(Nat) /\ deferred \in Seq(DOMAIN channels)
    /\ known \in BOOLEAN /\ keys \in {"generating", "done", "failed"}
    /\ toWorker \in Seq(PeerCall) /\ toPage \in Seq(PageEvent)
    /\ sessions \in Seq(Session) /\ receivePrepared \in Nat /\ sendPrepared \in Nat
    /\ nextId \in Nat /\ hist \in History

\* A call that names a session, or needs the data session, finds it in the worker, whatever the
\* descriptions in front of it (addRemoteCandidate, createDataChannel).
CallsFindSessions ==
    /\ ToPeerHandler("addRemoteCandidate") => Head(toWorker).line \in DOMAIN sessions
    /\ ToPeerHandler("createDataChannel") => HasKind(sessions, "application")
    /\ receivePrepared <= Len(sessions) /\ sendPrepared <= Len(sessions)

\* Operations are not lost: each one asked for is settled in its turn, unless the page closes the
\* connection, offers before the keys are there, or no keys can be made (completeQueuedOperation).
OperationsSettle ==
    queue # <<>> ~> (queue = <<>> \/ hist.closed \/ hist.early \/ keys = "failed")

\* A page that does nothing but set descriptions once it has added a stream or its first data
\* channel is told that it has to be negotiated, whatever descriptions were being applied when
\* it was added (completeQueuedOperation, maybeDispatchNegotiationNeeded).
NegotiationSignalled ==
    (queue = <<>> /\ timers = <<>> /\ sig = "stable" /\ Lacks(local) /\ ~hist.aside)
        => hist.signalled

\* A stream added before anything was asked for is sent on the first line of its kind, whatever
\* lines stand around it and however often descriptions change (prepareToSend).
StreamSent ==
    (toWorker = <<>> /\ queue = <<>> /\ hist.first /\ HasKind(remote, "audio"))
        => sessions[FirstAudio(remote)].sending

\* For the local description in force the page gets the null candidate exactly when the gathering
\* of every line has ended and none of the ends was noted in a description it has replaced: those
\* are forgotten with it, so a page that negotiates again once a line has ended never gets the
\* null candidate again (maybeDispatchGatheringDone, setLocalDescription).
EndOfCandidates ==
    (toPage = <<>> /\ local # <<>>) =>
        (hist.ended <=> \A i \in DOMAIN local :
            i \in DOMAIN sessions /\ sessions[i].gathering = "done" /\ i \notin hist.stale)

\* As long as no description takes back a source that has not come, the page learns of every remote
\* source once all the sources of the remote description are there (gotRemoteSource).
RemoteStreamsAnnounced ==
    (~hist.withdrawn /\ \A i \in DOMAIN status : status[i].expected => status[i].source) =>
        {i \in DOMAIN status : status[i].source} = hist.announced

=============================================================================
