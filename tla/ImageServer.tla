----------------------------- MODULE ImageServer -----------------------------
(***************************************************************************)
(* An OwrImageServer and the image renderers it serves: the bridge shows    *)
(* video in pages by fetching one bitmap after the other over HTTP.         *)
(*                                                                         *)
(* The application gives renderers a source, adds them under a tag, removes *)
(* them and adds origins, on its own thread; set_source is a task of the    *)
(* main loop.  The threaded socket service has a number of workers; each    *)
(* serves one connection until it closes, a request at a time.              *)
(*                                                                         *)
(* Outside: clients, and GStreamer's appsink, which keeps the newest frame, *)
(* gives it to one that pulls, lets others wait, and sends them away when   *)
(* its pipeline is not running.  Pixels, and the property disabled, which   *)
(* makes an image black, are left out; a server is not dropped here.        *)
(* An operator that nothing uses, right before one with the same            *)
(* parameters, is a faulty variant of it; the README tells what for.        *)
(***************************************************************************)
EXTENDS Integers, Sequences, FiniteSets

CONSTANTS
    Renderer,        \* image renderers
    Source,          \* video sources
    Tag,             \* tags of renderers
    Origin,          \* origins of pages
    Connection,      \* connections of clients
    Worker,          \* number of the service's threads, 8
    Width, Height,   \* functions: the width and height of a renderer's caps
    None,            \* NULL
    MaxCall,         \* bound: calls of the application
    MaxRequest       \* bound: requests of the clients

ASSUME BoundAssumption == Worker \in Nat /\ MaxCall \in Nat /\ MaxRequest \in Nat
ASSUME SizeAssumption == Width \in [Renderer -> Nat] /\ Height \in [Renderer -> Nat]
ASSUME NoneAssumption == None \notin Renderer \cup Source

VARIABLES
    calls,           \* calls of the application so far
    tasks,           \* the main context's set_source tasks: renderer and source
    source,          \* priv->source of each renderer
    playing,         \* whether the renderer's pipeline, with its appsink, runs
    frame,           \* whether the appsink holds a frame
    imageRenderers,  \* priv->image_renderers: tag to renderer, or None
    allowOrigin,     \* the origins in priv->allow_origin
    started,         \* priv->socket_service_is_started
    requests,        \* requests of the clients so far
    conn,            \* each connection, with the locals of its worker
    reply            \* the last reply of each connection

rendererVars == <<tasks, source, playing, frame>>
serverVars == <<imageRenderers, allowOrigin, started>>
vars == <<calls, rendererVars, serverVars, requests, conn, reply>>

\* What on_incoming_connection keeps from one request to the next.
NoHeader == [contentLength |-> 0, origins |-> {}]
NoReply == [code |-> 0, renderer |-> None, header |-> NoHeader]
NotFound == [NoReply EXCEPT !.code = 404]

Init ==
    /\ calls = 0 /\ requests = 0 /\ tasks = <<>>
    /\ source = [r \in Renderer |-> None]
    /\ playing = [r \in Renderer |-> FALSE] /\ frame = [r \in Renderer |-> FALSE]
    /\ imageRenderers = [t \in Tag |-> None] /\ allowOrigin = {} /\ started = FALSE
    /\ conn = [c \in Connection |->
                [at |-> "new", tag |-> None, renderer |-> None,
                 header |-> NoHeader, hungUp |-> FALSE]]
    /\ reply = [c \in Connection |-> NoReply]

----------------------------------------------------------------------------
(* The application *)

Call == calls < MaxCall /\ calls' = calls + 1 /\ UNCHANGED <<requests, conn, reply>>

SetSource(r, s) ==
    /\ Call /\ tasks' = Append(tasks, [renderer |-> r, source |-> s])
    /\ UNCHANGED <<source, playing, frame, serverVars>>

\* A taken tag keeps its renderer.  The service starts with the first one.
AddImageRenderer(r, t) ==
    /\ Call /\ started' = TRUE
    /\ imageRenderers' =
           IF imageRenderers[t] = None THEN [imageRenderers EXCEPT ![t] = r] ELSE imageRenderers
    /\ UNCHANGED <<rendererVars, allowOrigin>>

RemoveImageRenderer(t) ==
    /\ Call /\ imageRenderers' = [imageRenderers EXCEPT ![t] = None]
    /\ UNCHANGED <<rendererVars, allowOrigin, started>>

AllowOrigin(o) ==
    /\ Call /\ allowOrigin' = allowOrigin \cup {o}
    /\ UNCHANGED <<rendererVars, imageRenderers, started>>

----------------------------------------------------------------------------
(* The main loop and the pipelines *)

\* Without a source the pipeline stops, and the appsink drops its frame; from
\* one source to another it runs on.
RunSetSourceGoesOn(r, s) ==
    /\ source' = [source EXCEPT ![r] = s]
    /\ playing' = [playing EXCEPT ![r] = playing[r] \/ s # None]
    /\ UNCHANGED frame
RunSetSource(r, s) ==
    /\ source' = [source EXCEPT ![r] = s]
    /\ playing' = [playing EXCEPT ![r] = s # None]
    /\ frame' = [frame EXCEPT ![r] = frame[r] /\ s # None]

RunTask ==
    /\ tasks # <<>> /\ tasks' = Tail(tasks)
    /\ RunSetSource(Head(tasks).renderer, Head(tasks).source)
    /\ UNCHANGED <<calls, serverVars, requests, conn, reply>>

FrameComes(r) ==
    /\ playing[r] /\ source[r] # None
    /\ frame' = [frame EXCEPT ![r] = TRUE]
    /\ UNCHANGED <<calls, tasks, source, playing, serverVars, requests, conn, reply>>

----------------------------------------------------------------------------
(* Clients *)

Connect(c) ==
    /\ started /\ conn[c].at = "new"
    /\ conn' = [conn EXCEPT ![c].at = "waiting"]
    /\ UNCHANGED <<calls, rendererVars, serverVars, requests, reply>>

\* A whole request.  One without a tag is answered like one for a tag that no
\* renderer has.
Request(c, t) ==
    /\ conn[c].at = "reading" /\ ~conn[c].hungUp /\ requests < MaxRequest
    /\ requests' = requests + 1
    /\ conn' = [conn EXCEPT ![c].at = "lookup", ![c].tag = t]
    /\ UNCHANGED <<calls, rendererVars, serverVars, reply>>

HangUp(c) ==
    /\ conn[c].at # "new" /\ ~conn[c].hungUp
    /\ conn' = [conn EXCEPT ![c].hungUp = TRUE]
    /\ UNCHANGED <<calls, rendererVars, serverVars, requests, reply>>

----------------------------------------------------------------------------
(* The workers: on_incoming_connection *)

Serving == {"reading", "lookup", "pull"}

Accept(c) ==
    /\ conn[c].at = "waiting"
    /\ Cardinality({d \in Connection : conn[d].at \in Serving}) < Worker
    /\ conn' = [conn EXCEPT ![c].at = "reading"]
    /\ UNCHANGED <<calls, rendererVars, serverVars, requests, reply>>

EndOfStream(c) ==
    /\ conn[c].at = "reading" /\ conn[c].hungUp
    /\ conn' = [conn EXCEPT ![c].at = "closed"]
    /\ UNCHANGED <<calls, rendererVars, serverVars, requests, reply>>

\* The reply 404 ends the connection.
AnswerNotFound(c) ==
    /\ reply' = [reply EXCEPT ![c] = NotFound]
    /\ conn' = [conn EXCEPT ![c].at = "closed", ![c].tag = None, ![c].renderer = None]

\* Under the mutex; the reference that is taken keeps the renderer.
LookUp(c) ==
    LET r == imageRenderers[conn[c].tag] IN
    /\ conn[c].at = "lookup"
    /\ IF r = None THEN AnswerNotFound(c)
       ELSE /\ conn' = [conn EXCEPT ![c].at = "pull", ![c].tag = None, ![c].renderer = r]
            /\ UNCHANGED reply
    /\ UNCHANGED <<calls, rendererVars, serverVars, requests>>

\* A bitmap has two headers, 54 bytes, and rows of 32 bits per pixel.
RowSize(width) == ((32 * width + 31) \div 32) * 4
ImageSize(r) == 54 + RowSize(Width[r]) * Height[r]

\* The header is made anew when the size of the image changes.
ResponseHeader(old, size) ==
    IF old.contentLength = size THEN old
    ELSE [contentLength |-> size, origins |-> allowOrigin]

AnswerImage(c) ==
    LET r == conn[c].renderer
        header == ResponseHeader(conn[c].header, ImageSize(r)) IN
    /\ reply' = [reply EXCEPT ![c] = [code |-> 200, renderer |-> r, header |-> header]]
    /\ conn' = [conn EXCEPT ![c].at = "reading", ![c].renderer = None, ![c].header = header]

\* Pulling waits while the pipeline runs and has no frame.
Pull(c) ==
    LET r == conn[c].renderer IN
    /\ conn[c].at = "pull"
    /\ \/ playing[r] /\ frame[r] /\ frame' = [frame EXCEPT ![r] = FALSE] /\ AnswerImage(c)
       \/ ~playing[r] /\ AnswerNotFound(c) /\ UNCHANGED frame
    /\ UNCHANGED <<calls, tasks, source, playing, serverVars, requests>>

----------------------------------------------------------------------------

Application ==
    \/ \E r \in Renderer, s \in Source \cup {None} : SetSource(r, s)
    \/ \E r \in Renderer, t \in Tag : AddImageRenderer(r, t)
    \/ \E t \in Tag : RemoveImageRenderer(t)
    \/ \E o \in Origin : AllowOrigin(o)
Client(c) == Connect(c) \/ (\E t \in Tag : Request(c, t)) \/ HangUp(c)
Service(c) == Accept(c) \/ EndOfStream(c) \/ LookUp(c) \/ Pull(c)

Next ==
    \/ Application \/ RunTask
    \/ \E r \in Renderer : FrameComes(r)
    \/ \E c \in Connection : Client(c) \/ Service(c)

Spec == Init /\ [][Next]_vars

\* The main loop and the workers run.  Frames and requests need not come.
FairSpec == Spec /\ WF_vars(RunTask) /\ \A c \in Connection : WF_vars(Service(c))

----------------------------------------------------------------------------
(* Properties *)

\* A worker that waits for the frames of a source that gives none.
Starved(c) ==
    /\ conn[c].at = "pull"
    /\ source[conn[c].renderer] # None /\ ~frame[conn[c].renderer]

\* Not found, with the connection closed, or an image of the announced length.
Answered(c) ==
    \/ conn[c].at = "closed" /\ reply[c] = NotFound
    \/ /\ conn[c].at \in {"reading", "closed"} /\ reply[c].code = 200
       /\ reply[c].header.contentLength = ImageSize(reply[c].renderer)

\* Every request that a worker has read is answered, whatever is added, removed,
\* stopped or replaced meanwhile, unless the renderer's source stops giving
\* frames and the renderer keeps it: then the worker waits for ever
\* (on_incoming_connection, _owr_image_renderer_pull_bmp_image, set_source).
RequestsAnswered ==
    \A c \in Connection :
        <>[]Starved(c) \/ (conn[c].at \in {"lookup", "pull"} ~> Answered(c))
=============================================================================
