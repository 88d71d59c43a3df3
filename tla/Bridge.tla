-------------------------------- MODULE Bridge --------------------------------
(***************************************************************************)
(* The bridge between web pages and the worker: JSON-RPC over a hidden     *)
(* frame and a web socket, the worker's requestSources and renderSources,  *)
(* and the queue of consent requests to the browser extension.             *)
(*                                                                         *)
(* A page runs in its own process, the worker is one thread of callbacks.  *)
(* A message is the call it carries; JSON, frame headers and masks are not *)
(* modelled.  The messages of a page wait in one place, outbox, until its  *)
(* frame is loaded and then until the frame's socket is open.  A page asks *)
(* for one kind of source, so a list of sources is a single reference.     *)
(* The image server a controller also registers with is not modelled.      *)
(***************************************************************************)
EXTENDS Naturals, Sequences, FiniteSets

CONSTANTS Pages,        \* pages that load owr.js
          MaxRequests,  \* bound: calls of getUserMedia per page
          MaxShows,     \* bound: streams each page gives to a video element
          MaxRestarts,  \* bound: restarts of the worker
          MaxCloses     \* bound: times the extension closes its socket

ASSUME BoundsAssumption ==
    /\ MaxRequests \in Nat \ {0}
    /\ MaxShows \in [Pages -> Nat]
    /\ MaxRestarts \in Nat /\ MaxCloses \in Nat

VARIABLES
    frame,       \* per page: the hidden frame and its socket
    outbox,      \* per page: messages that wait for the frame or the socket
    promise,     \* per page and request: the state of the promise
    refs,        \* per page: requests whose client object is referenced
    callbacks,   \* per page: render calls whose callback is stored
    source,      \* per page: the reference to the last source it was given
    shown,       \* per page: the controller of what its element shows
    shows,       \* per page: render calls made
    up, down,    \* per page: frames on the way to and from the worker
    session,     \* per page: the worker's end of the socket
    referenced,  \* per page: the worker's referencedObjects
    running,     \* per page: controllers that render
    capturing,   \* requests that wait for the list of capture sources
    ext,         \* the extension's socket
    queue,       \* consentRequestQueue: requests, the first one outstanding
    asked,       \* requests on the way to, or in front of, the extension
    verdicts,    \* answers on the way from the extension
    verdict,     \* history: what the extension said of a request
    restarts, closes

pageVars == <<frame, outbox, promise, refs, callbacks, source, shown, shows>>
extVars  == <<ext, queue, asked, verdicts, verdict, closes>>
workVars == <<session, referenced, running, capturing>>
vars == <<pageVars, up, down, workVars, extVars, restarts>>

Requests == [page : Pages, n : 1..MaxRequests]
Shows    == UNION {1..MaxShows[p] : p \in Pages}
None     == [kind |-> "none", run |-> 0, n |-> 0]

\* The id of a referenced object starts with a random number drawn when the
\* end point is made: it never names an object of an earlier worker.
ObjectRef(kind, n) == [kind |-> kind, run |-> restarts, n |-> n]

Refs     == [kind : {"source", "controller"}, run : 0..MaxRestarts,
             n : (1..MaxRequests) \cup Shows]
Calls    == [call : {"requestSources"}, n : 1..MaxRequests]
            \cup [call : {"renderSources"}, source : Refs, n : Shows]
            \cup [call : {"stop"}, target : Refs]
Messages == [call : {"gotSources"}, n : 1..MaxRequests, source : Refs]
            \cup [call : {"noSources"}, n : 1..MaxRequests]
            \cup [call : {"result"}, n : Shows, controller : Refs]
            \cup [call : {"error"}, n : Shows]

Left(p)   == frame[p] = "gone"
Consent   == ext \in {"live", "deaf"}     \* consentRequestQueue is set
Gone(p)   == session[p] = "closed"        \* ws and jsonRpc are null

Init ==
    /\ frame = [p \in Pages |-> "loading"]
    /\ outbox = [p \in Pages |-> <<>>]
    /\ promise = [p \in Pages |-> [n \in 1..MaxRequests |-> "none"]]
    /\ refs = [p \in Pages |-> {}]
    /\ callbacks = [p \in Pages |-> {}]
    /\ source = [p \in Pages |-> None]
    /\ shown = [p \in Pages |-> None]
    /\ shows = [p \in Pages |-> 0]
    /\ up = [p \in Pages |-> <<>>]
    /\ down = [p \in Pages |-> <<>>]
    /\ session = [p \in Pages |-> "none"]
    /\ referenced = [p \in Pages |-> {}]
    /\ running = [p \in Pages |-> {}]
    /\ capturing = {}
    /\ ext = "none"
    /\ queue = <<>>
    /\ asked = <<>>
    /\ verdicts = <<>>
    /\ verdict = [r \in Requests |-> "none"]
    /\ restarts = 0
    /\ closes = 0

-------------------------------------------------------------------------------
(* The page and its frame                                                  *)

\* postMessage: a message goes out at once when the frame's socket is open;
\* otherwise it waits, and a frame without a socket opens one.
Post(p, msgs) ==
    /\ up' = [up EXCEPT ![p] = IF frame[p] = "open" THEN @ \o msgs ELSE @]
    /\ outbox' = [outbox EXCEPT ![p] = IF frame[p] = "open" THEN @ ELSE @ \o msgs]
    /\ frame' = [frame EXCEPT ![p] =
                    IF @ = "idle" /\ msgs # <<>> THEN "connecting" ELSE @]

\* The frame is loaded: what was queued is passed to it, and the first message
\* makes it open the socket.
FrameLoaded(p) ==
    /\ frame[p] = "loading"
    /\ frame' = [frame EXCEPT ![p] = IF outbox[p] = <<>> THEN "idle" ELSE "connecting"]
    /\ UNCHANGED <<outbox, promise, refs, callbacks, source, shown, shows,
                   up, down, workVars, extVars, restarts>>

\* The handshake is done: the worker makes the page's RPC end point, and the
\* frame sends what it has queued.
Accept(p) ==
    /\ frame[p] = "connecting"
    /\ frame' = [frame EXCEPT ![p] = "open"]
    /\ up' = [up EXCEPT ![p] = @ \o outbox[p]]
    /\ outbox' = [outbox EXCEPT ![p] = <<>>]
    /\ session' = [session EXCEPT ![p] = "live"]
    /\ UNCHANGED <<promise, refs, callbacks, source, shown, shows, down,
                   referenced, running, capturing, extVars, restarts>>

GetUserMedia(p) ==
    \E n \in 1..MaxRequests :
        /\ ~Left(p)
        /\ \A k \in 1..MaxRequests : promise[p][k] = "none" <=> k >= n
        /\ promise' = [promise EXCEPT ![p][n] = "pending"]
        /\ refs' = [refs EXCEPT ![p] = @ \cup {n}]
        /\ Post(p, <<[call |-> "requestSources", n |-> n]>>)
        /\ UNCHANGED <<callbacks, source, shown, shows, down, workVars, extVars, restarts>>

\* A stream is given to the page's video element: scanVideoElements.
Show(p) ==
    /\ ~Left(p)
    /\ source[p] # None
    /\ shows[p] < MaxShows[p]
    /\ shows' = [shows EXCEPT ![p] = @ + 1]
    /\ callbacks' = [callbacks EXCEPT ![p] = @ \cup {shows[p] + 1}]
    /\ Post(p, <<[call |-> "renderSources", source |-> source[p], n |-> shows[p] + 1]>>)
    /\ UNCHANGED <<promise, refs, source, shown, down, workVars, extVars, restarts>>

StopCall(ref) == IF ref = None THEN <<>> ELSE <<[call |-> "stop", target |-> ref]>>

\* The element's own stop().
StopShown(p) ==
    /\ ~Left(p)
    /\ shown[p] # None
    /\ shown' = [shown EXCEPT ![p] = None]
    /\ Post(p, StopCall(shown[p]))
    /\ UNCHANGED <<promise, refs, callbacks, source, shows, down, workVars, extVars, restarts>>

\* client.gotSources: the promise is resolved, once; the reference is removed.
GotSources(p, msg) ==
    /\ IF msg.n \in refs[p]
       THEN /\ promise' = [promise EXCEPT ![p][msg.n] =
                              IF @ = "pending" THEN "resolved" ELSE @]
            /\ source' = [source EXCEPT ![p] = msg.source]
            /\ refs' = [refs EXCEPT ![p] = @ \ {msg.n}]
       ELSE UNCHANGED <<promise, source, refs>>   \* "referenced object not found"
    /\ UNCHANGED <<callbacks, shown, up, outbox, frame>>

\* client.noSources: the promise is rejected; the reference stays.
NoSources(p, msg) ==
    /\ promise' = [promise EXCEPT ![p][msg.n] =
                      IF @ = "pending" /\ msg.n \in refs[p] THEN "rejected" ELSE @]
    /\ UNCHANGED <<refs, source, callbacks, shown, up, outbox, frame>>

\* The callback of renderSources: what the element showed before is stopped.
Rendered(p, msg) ==
    /\ IF msg.n \in callbacks[p]
       THEN /\ callbacks' = [callbacks EXCEPT ![p] = @ \ {msg.n}]
            /\ shown' = [shown EXCEPT ![p] = msg.controller]
            /\ Post(p, StopCall(shown[p]))
       ELSE UNCHANGED <<callbacks, shown, up, outbox, frame>>
    /\ UNCHANGED <<promise, source, refs>>

\* An error answer is thrown in the page; the callback stays stored.
RemoteError(p, msg) ==
    UNCHANGED <<promise, source, refs, callbacks, shown, up, outbox, frame>>

\* onmessage of the page's end point.
PageMessage(p) ==
    /\ frame[p] = "open"
    /\ down[p] # <<>>
    /\ down' = [down EXCEPT ![p] = Tail(@)]
    /\ LET msg == Head(down[p]) IN
       \/ msg.call = "gotSources" /\ GotSources(p, msg)
       \/ msg.call = "noSources" /\ NoSources(p, msg)
       \/ msg.call = "result" /\ Rendered(p, msg)
       \/ msg.call = "error" /\ RemoteError(p, msg)
    /\ UNCHANGED <<shows, workVars, extVars, restarts>>

\* The page is left or reloaded: its end of the socket closes; what it sent
\* is still read by the worker.
LeavePage(p) ==
    /\ ~Left(p)
    /\ frame' = [frame EXCEPT ![p] = "gone"]
    /\ outbox' = [outbox EXCEPT ![p] = <<>>]
    /\ down' = [down EXCEPT ![p] = <<>>]
    /\ UNCHANGED <<promise, refs, callbacks, source, shown, shows, up, workVars,
                   extVars, restarts>>

-------------------------------------------------------------------------------
(* The worker's sockets                                                    *)

\* WebSocket.send: a message is queued behind the ones being written; a socket
\* that is closing drops it, and what is written to a page that left is lost.
Send(p, msg) ==
    down' = [down EXCEPT ![p] =
                IF Left(p) \/ session[p] \notin {"live", "deaf"} THEN @ ELSE Append(@, msg)]

\* receiveFrame and gotFrame: the next frame is read only after onmessage has
\* returned.
Receives(p) == session[p] = "live" /\ up[p] # <<>>

\* rpcScope.requestSources: owr.get_capture_sources answers later.
RequestSources(p, msg) ==
    /\ capturing' = capturing \cup {[page |-> p, n |-> msg.n]}
    /\ UNCHANGED <<session, referenced, running, down>>

\* rpcScope.renderSources.  A reference this worker never gave out stays a
\* plain object, which prepareRefObj cannot import: the call fails.
RenderSources(p, msg) ==
    LET ref == ObjectRef("controller", msg.n) IN
    /\ IF msg.source \in referenced[p]
       THEN /\ referenced' = [referenced EXCEPT ![p] = @ \cup {ref}]
            /\ running' = [running EXCEPT ![p] = @ \cup {ref}]
            /\ Send(p, [call |-> "result", n |-> msg.n, controller |-> ref])
       ELSE /\ Send(p, [call |-> "error", n |-> msg.n])
            /\ UNCHANGED <<referenced, running>>
    /\ UNCHANGED <<session, capturing>>

\* RenderController.stop.  A call on an unknown reference throws out of
\* onmessage, and the socket is never read again.
StopController(p, msg) ==
    /\ running' = [running EXCEPT ![p] = @ \ {msg.target}]
    /\ session' = [session EXCEPT ![p] =
                      IF msg.target \in referenced[p] THEN @ ELSE "deaf"]
    /\ UNCHANGED <<referenced, capturing, down>>

\* onmessage of the worker's end point for a page.
WorkerMessage(p) ==
    /\ Receives(p)
    /\ up' = [up EXCEPT ![p] = Tail(@)]
    /\ LET msg == Head(up[p]) IN
       \/ msg.call = "requestSources" /\ RequestSources(p, msg)
       \/ msg.call = "renderSources" /\ RenderSources(p, msg)
       \/ msg.call = "stop" /\ StopController(p, msg)
    /\ UNCHANGED <<pageVars, extVars, restarts>>

\* The end of the stream is read: closeConnection.
EndOfStream(p) ==
    /\ session[p] = "live"
    /\ Left(p)
    /\ up[p] = <<>>
    /\ session' = [session EXCEPT ![p] = "closing"]
    /\ UNCHANGED <<pageVars, up, down, referenced, running, capturing, extVars, restarts>>

\* Faulty variant: onclose forgets the controllers without stopping them.
SocketClosedRunning(p) ==
    /\ session[p] = "closing"
    /\ session' = [session EXCEPT ![p] = "closed"]
    /\ referenced' = [referenced EXCEPT ![p] = {}]
    /\ UNCHANGED <<pageVars, up, down, running, capturing, extVars, restarts>>

\* ws.onclose: the page's controllers are stopped and everything is set to null.
SocketClosed(p) ==
    /\ session[p] = "closing"
    /\ session' = [session EXCEPT ![p] = "closed"]
    /\ running' = [running EXCEPT ![p] = {}]
    /\ referenced' = [referenced EXCEPT ![p] = {}]
    /\ UNCHANGED <<pageVars, up, down, capturing, extVars, restarts>>

\* The worker process ends and is started again: sockets, references, renderers
\* and the consent queue are gone; a page connects again when it next calls.
RestartWorker ==
    /\ restarts < MaxRestarts
    /\ restarts' = restarts + 1
    /\ frame' = [p \in Pages |-> IF frame[p] \in {"connecting", "open"} THEN "idle" ELSE frame[p]]
    /\ up' = [p \in Pages |-> <<>>]
    /\ down' = [p \in Pages |-> <<>>]
    /\ session' = [p \in Pages |-> "none"]
    /\ referenced' = [p \in Pages |-> {}]
    /\ running' = [p \in Pages |-> {}]
    /\ capturing' = {}
    /\ ext' = "none"
    /\ queue' = <<>>
    /\ asked' = <<>>
    /\ verdicts' = <<>>
    /\ UNCHANGED <<outbox, promise, refs, callbacks, source, shown, shows, verdict, closes>>

-------------------------------------------------------------------------------
(* The consent queue and the extension                                     *)

\* Faulty variant: every request is sent to the extension at once.
AddAndSend(req) == queue' = Append(queue, req) /\ asked' = Append(asked, req)

\* consentRequestQueue.add
AddToQueue(req) ==
    /\ queue' = Append(queue, req)
    /\ asked' = IF queue = <<>> THEN Append(asked, req) ELSE asked

\* The callback of owr.get_capture_sources.  For a page that is gone the first
\* use of its end point throws.
SourcesFound(req) ==
    LET p == req.page
        ref == ObjectRef("source", req.n)
    IN
    /\ req \in capturing
    /\ capturing' = capturing \ {req}
    /\ \/ /\ Gone(p)
          /\ UNCHANGED <<referenced, down, queue, asked>>
       \/ /\ ~Gone(p)                            \* no source of this kind
          /\ Send(p, [call |-> "noSources", n |-> req.n])
          /\ UNCHANGED <<referenced, queue, asked>>
       \/ /\ ~Gone(p)
          /\ referenced' = [referenced EXCEPT ![p] = @ \cup {ref}]
          /\ IF Consent
             THEN AddToQueue(req) /\ UNCHANGED down
             ELSE /\ Send(p, [call |-> "gotSources", n |-> req.n, source |-> ref])
                  /\ UNCHANGED <<queue, asked>>
    /\ UNCHANGED <<pageVars, up, session, running, ext, verdicts, verdict, closes, restarts>>

\* The first extension to connect gets the queue; another one is refused.
ExtensionConnects ==
    /\ ~Consent
    /\ ext' = "live"
    /\ queue' = <<>>
    /\ asked' = <<>>
    /\ verdicts' = <<>>
    /\ UNCHANGED <<pageVars, up, down, workVars, verdict, closes, restarts>>

\* The extension, outside this repository: the user accepts or rejects.
ExtensionAnswers ==
    /\ asked # <<>>
    /\ asked' = Tail(asked)
    /\ \E v \in {"accept", "reject"} :
        /\ verdicts' = Append(verdicts, [req |-> Head(asked), name |-> v])
        /\ verdict' = [verdict EXCEPT ![Head(asked)] = v]
    /\ UNCHANGED <<pageVars, up, down, workVars, ext, queue, closes, restarts>>

\* What handleResponse tells the page whose request is at the head.
Answer(req, answer) ==
    IF answer.name = "accept"
    THEN [call |-> "gotSources", n |-> req.n, source |-> ObjectRef("source", req.n)]
    ELSE [call |-> "noSources", n |-> req.n]

\* Faulty variants: the answered request stays at the head of the queue; the
\* request behind it is never sent.
HandleResponsePeeking ==
    /\ ext = "live" /\ verdicts # <<>> /\ queue # <<>>
    /\ verdicts' = Tail(verdicts)
    /\ Send(Head(queue).page, Answer(Head(queue), Head(verdicts)))
    /\ UNCHANGED <<pageVars, up, workVars, ext, queue, asked, verdict, closes, restarts>>

HandleResponseAlone ==
    /\ ext = "live" /\ verdicts # <<>> /\ queue # <<>>
    /\ verdicts' = Tail(verdicts)
    /\ queue' = Tail(queue)
    /\ Send(Head(queue).page, Answer(Head(queue), Head(verdicts)))
    /\ UNCHANGED <<pageVars, up, workVars, ext, asked, verdict, closes, restarts>>

\* handleResponse.  The call to a page that is gone throws: the next request is
\* not sent and the extension's socket is never read again.
HandleResponse ==
    LET req == Head(queue)
        answer == Head(verdicts)
        fits == answer.req = req
    IN
    /\ ext = "live"
    /\ verdicts # <<>>
    /\ queue # <<>>
    /\ verdicts' = Tail(verdicts)
    /\ queue' = Tail(queue)
    /\ IF fits THEN Send(req.page, Answer(req, answer)) ELSE UNCHANGED down
    /\ IF fits /\ Gone(req.page)
       THEN ext' = "deaf" /\ UNCHANGED asked
       ELSE /\ asked' = IF Len(queue) > 1 THEN Append(asked, queue[2]) ELSE asked
            /\ UNCHANGED ext
    /\ UNCHANGED <<pageVars, up, workVars, verdict, closes, restarts>>

\* extws.onclose: the queue is dropped with the requests in it.
ExtensionCloses ==
    /\ ext = "live"
    /\ verdicts = <<>>
    /\ closes < MaxCloses
    /\ closes' = closes + 1
    /\ ext' = "closed"
    /\ queue' = <<>>
    /\ asked' = <<>>
    /\ UNCHANGED <<pageVars, up, down, workVars, verdicts, verdict, restarts>>

-------------------------------------------------------------------------------
PageStep(p) ==
    \/ FrameLoaded(p) \/ Accept(p) \/ PageMessage(p)
    \/ GetUserMedia(p) \/ Show(p) \/ StopShown(p) \/ LeavePage(p)

WorkerStep(p) == WorkerMessage(p) \/ EndOfStream(p) \/ SocketClosed(p)

Next ==
    \/ \E p \in Pages : PageStep(p) \/ WorkerStep(p)
    \/ \E req \in Requests : SourcesFound(req)
    \/ ExtensionConnects \/ ExtensionAnswers \/ HandleResponse \/ ExtensionCloses
    \/ RestartWorker

\* The browser and the worker's main loop run every callback that is due, the
\* list of sources arrives, and the user answers what the extension shows.
Fairness ==
    /\ \A p \in Pages : WF_vars(FrameLoaded(p) \/ Accept(p)) /\ WF_vars(PageMessage(p))
                        /\ WF_vars(WorkerStep(p))
    /\ \A req \in Requests : WF_vars(SourcesFound(req))
    /\ WF_vars(ExtensionAnswers) /\ WF_vars(HandleResponse)

Spec == Init /\ [][Next]_vars /\ Fairness

-------------------------------------------------------------------------------
(* Properties                                                              *)

\* Types: what each end of the bridge can hold; a page has messages waiting
\* only while it has no open socket, and the queue exists only with a socket.
TypeOK ==
    /\ frame \in [Pages -> {"loading", "idle", "connecting", "open", "gone"}]
    /\ outbox \in [Pages -> Seq(Calls)] /\ up \in [Pages -> Seq(Calls)]
    /\ down \in [Pages -> Seq(Messages)]
    /\ \A p \in Pages : outbox[p] # <<>> => frame[p] \notin {"open", "gone"}
    /\ promise \in [Pages -> [1..MaxRequests -> {"none", "pending", "resolved", "rejected"}]]
    /\ refs \in [Pages -> SUBSET (1..MaxRequests)]
    /\ callbacks \in [Pages -> SUBSET Shows]
    /\ source \in [Pages -> Refs \cup {None}]
    /\ shown \in [Pages -> Refs \cup {None}]
    /\ shows \in [Pages -> Nat] /\ \A p \in Pages : shows[p] <= MaxShows[p]
    /\ session \in [Pages -> {"none", "live", "deaf", "closing", "closed"}]
    /\ referenced \in [Pages -> SUBSET Refs]
    /\ running \in [Pages -> SUBSET Refs]
    /\ capturing \subseteq Requests
    /\ ext \in {"none", "live", "deaf", "closed"}
    /\ queue \in Seq(Requests) /\ asked \in Seq(Requests)
    /\ verdicts \in Seq([req : Requests, name : {"accept", "reject"}])
    /\ (~Consent) => (queue = <<>>)
    /\ verdict \in [Requests -> {"none", "accept", "reject"}]
    /\ restarts \in 0..MaxRestarts /\ closes \in 0..MaxCloses

Waiting(p) == outbox[p] \o up[p]

\* Places of a request between the page's call and the page's answer.
Places(p, n) ==
    Cardinality({i \in DOMAIN Waiting(p) : Waiting(p)[i] = [call |-> "requestSources", n |-> n]})
    + Cardinality({r \in capturing : r = [page |-> p, n |-> n]})
    + Cardinality({i \in DOMAIN queue : queue[i] = [page |-> p, n |-> n]})
    + Cardinality({i \in DOMAIN down[p] : down[p][i].call \in {"gotSources", "noSources"}
                                           /\ down[p][i].n = n})

\* A call of getUserMedia is in one place at most on its way through the frame,
\* the worker, the consent queue and back, and nowhere once its promise is
\* settled: no request is asked or answered twice (requestSources,
\* consentRequestQueue, handleResponse).
AnsweredOnce ==
    \A p \in Pages, n \in 1..MaxRequests :
        Places(p, n) <= (IF promise[p][n] = "pending" THEN 1 ELSE 0)

\* One request is in front of the user at a time, it is the first of the queue,
\* and nobody else's answer settles a promise: a promise whose request the
\* extension was asked about follows the verdict on that very request.
UserDecides ==
    /\ ext = "live" => Len(asked) + Len(verdicts) = (IF queue = <<>> THEN 0 ELSE 1)
    /\ asked # <<>> /\ ext = "live" => Head(asked) = Head(queue)
    /\ \A r \in Requests :
        LET state == promise[r.page][r.n] IN
        /\ verdict[r] = "accept" => state # "rejected"
        /\ verdict[r] = "reject" => state # "resolved"

\* Every call of getUserMedia is settled, unless the page is left, the worker
\* is restarted, or the extension's socket is closed or no longer read.
RequestsSettle ==
    \A p \in Pages, n \in 1..MaxRequests :
        promise[p][n] = "pending"
            ~> \/ promise[p][n] # "pending"
               \/ Left(p) \/ restarts > 0 \/ closes > 0 \/ ext = "deaf"

\* What a page shows stops after the page is left, also when the page never
\* heard of its controller: ws.onclose stops every controller, unless the
\* worker had stopped reading the page's socket.
RenderersReleased ==
    \A p \in Pages : Left(p) ~> (running[p] = {} \/ session[p] = "deaf")
===============================================================================
