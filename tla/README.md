# OpenWebRTC in TLA+

OpenWebRTC is a library for peer-to-peer media and data sessions on top of
GStreamer, libnice and usrsctp, with a bridge that offers the WebRTC API to web
pages. These modules specify the parts of it whose correctness depends on the
order in which threads, peers, processes and applications act. TLC checks them
on small instances; TLAPS proves some of the results for every instance.

Paths are relative to `src/`.

## 1. The system

Applications call the library from their own threads. Almost every call that
changes state packs its arguments in a hash table and schedules an idle source
on **one main context** (`owr/owr.c`, `_owr_schedule_with_hash_table`); the
thread in `owr_run` runs these in FIFO order. GStreamer's streaming threads call
into the library when pads appear, buffers arrive, keys are set. libnice
reports candidates and ICE states on the main context or on a thread of its
own. Buses run a thread each. The bridge runs JavaScript on a GLib main loop and
talks to web pages over a WebSocket.

| Component | State it keeps | Operations | Hard behaviours | What makes it correct |
|---|---|---|---|---|
| Data channels (`transport/owr_transport_agent.c` 3170-4160, `owr_data_channel.c`, `owr_data_session.c`) | per agent: `data_session_established`, a table stream id → entry (state, locks, appsrc, appsink, parameters); per session: the application's channels; per channel: ready state, closures | add, send, close; OPEN, ACK, data messages; pads added and removed; association up and down | main loop against SCTP threads on one table with three levels of locks; two machines in a handshake; tear-down from both ends | both ends open what both applications want, nothing is lost or reordered, no assertion fails, ready states go forward, closing completes |
| Message bus (`owr/owr_bus.c`, `owr_message_origin.c`) | bus: queue, callback, mask, thread; origin: table of weak references to buses | subscribe, post, set callback, drop | posts from any thread, the last reference dropped anywhere, finalize joins a thread | order, no loss, user data outlives callbacks, finalize ends |
| Main loop (`owr/owr.c`) | context, loop, background thread | init, run, quit, schedule | quit against run | FIFO, nothing runs after quit |
| Transport agent, sending (`transport/owr_transport_agent.c`, `owr_media_session.c`) | sessions, rtpbin, pending send sources and payloads | add session, set send source and payload | DTLS keys on a streaming thread against calls on the main loop | one pipeline per session, built when all its parts are there, removed with them |
| Transport agent and sessions, ICE (`owr_transport_agent.c`, `owr_session.c`, `owr_candidate.c`) | nice streams, helper servers and a count of pending lookups; candidate lists, forced pairs, ICE state per component | add servers, sessions, candidates, pairs; set rtcp-mux and credentials | a resolver thread per server counting without a lock; rtcp-mux read at different times; handlers of the application between two steps | gathering starts when every lookup has ended, libnice gets every candidate, the aggregate ICE state is what its components say |
| Media sources (`owr/owr_media_source.c`, `local/owr_local_media_source.c`) | pipeline and tee, branches, volume and mute and their element | request, release, set volume | removal of a branch on a streaming thread while the source is requested again | a source runs exactly while used, and with the volume that was set |
| Renderers, window registry (`local/owr_*renderer.c`, `owr_window_registry.c`) | source, sink, pipeline; tag → window, renderer | set source, set sink, register, finalize | registration on two threads without a lock | a branch has one owner, a renderer has the window of its tag |
| WebRTC API and peer handler (`bridge/client/webrtc.js`, `bridge/worker/peerhandler.js`) | operation queue, signalling state, descriptions, statuses; the worker's sessions and counters | JSEP calls, streams, channels, candidates, close | operations queued behind others, timers against messages, two ends that each hold half of the state | operations settle in turn, events are fired once when due |
| Bridge: RPC, sockets, consent (`bridge/shared/wbjsonrpc.js`, `bridge/seed/websocket.js`, `bridge/worker/bridgeserver.js`) | sockets, callbacks and references, the queue of consent requests | requestSources, renderSources, stop; open, message, close | answers that never come, pages that leave, an extension that restarts | each request is answered once, by its own verdict; what a page showed stops with it |
| Transport agent, receiving (`transport/owr_transport_agent.c` 2446-2846, `owr_remote_media_source.c`) | receive payloads, auxiliary receivers, one receive-output-bin per session | add payload, add session; pads of rtpbin | one thread per received stream against the main loop; calls in any order against media that already comes | the media stream, not its retransmissions, is announced, once, and RTCP is sent about it |
| SCReAM feedback (`transport/owr_transport_agent.c` 2939-3056, 4180-4405) | per session `ScreamRx`; the agent's `rtcp_list` | packet, RTCP out, RTCP in | 16-bit numbers that wrap, packets late and lost; a report made outside the lock under which it is queued | a report says what arrived, and never less than one before it |
| Image renderer and server (`local/owr_image_renderer.c`, `owr_image_server.c`) | source, pipeline with an appsink; tag → renderer, HTTP connections | set source; add, remove, request | workers that wait for frames while the renderer is stopped, removed or replaced | a request is answered, with an image of the length announced, or refused |
| Payloads, crypto, device list, inter elements, types, wrappers | values | conversions, element factories | none beyond GStreamer's | conversions are right |
| Java bindings | none at run time | generated code | none | - |

`owr_message_origin_post_message` is called by most components, so the bus is
below all of them. The data channels use the session's scheduled calls upward
and the agent's SCTP elements downward. The bridge's peer handler drives
sessions and agent through the public API.

## 2. Plan

| # | Module | Models | Status |
|---|---|---|---|
| 1 | `DataChannel` | the data channels of two peers and the associations between them | done |
| 2 | `DataChannelProofs` | types; an open entry has its channel; order and at most once; entries are found and ready states go forward for applications that wait | done |
| 3 | `MessageBus` | buses, origins, posting threads | done |
| 4 | `MessageDelivery` | abstract: what buses promise | done; `MessageBus` implements it |
| 5 | `MessageBusProofs` | types, callback data, nothing lost, reference counts, the implementation of `MessageDelivery` | done |
| 6 | `SendPipeline` | send source, payload, DTLS keys and rtcp-mux of a media session | done |
| 7 | `SendPipelineProofs` | types, all invariants of the run | done |
| 8 | `IceSession` | helper servers, candidates, gathering, forced pairs, aggregate state | done |
| 9 | `IceSessionProofs` | types, all invariants of the run, the lookups a gathering waits for | done |
| 10 | `PeerConnection` | a page's RTCPeerConnection, its peer handler and the bridge between them | done |
| 11 | `PeerConnectionProofs` | types, all invariants of the run | done |
| 12 | `LocalMedia` | sources, branches, renderers, tags and windows | done |
| 13 | `LocalMediaProofs` | types, all invariants of the run | done |
| 14 | `Bridge` | frame, socket, RPC, consent queue, restarts | done |
| 15 | `BridgeProofs` | types, all invariants of the run, controllers stop with their page | done |
| 16 | `ScreamFeedback`, `ScreamFeedbackProofs` | the probe, reports and RTCP of bandwidth adaptation; types and the invariant of the run | done |
| 17 | `ReceivePipeline` | payloads, auxiliary receiver, streams, remote source | done |
| 18 | `ImageServer` | renderers, tags, workers, requests | done |
| 19 | `MainLoop` | `owr_init`, `owr_run`, `owr_quit` | open |
| 20 | `UriAgent` | sources of a URI | open |
| 21 | `Conversions` | flip methods, frame lengths: operators against references | open |

Abstract specifications still worth stating: a channel as two FIFO streams that
both applications opened (for `DataChannel`), a queue that runs each operation
once and in order (for `PeerConnection`). Theorems still worth proving: the
safety core of `ReceivePipeline` (one output bin, one announcement) and of
`ImageServer` (an image has the length announced).

## 3. Modules

### `DataChannel`

Two `Peer`s, each with an application, a main loop and an SCTP thread;
`Channel`s are stream ids, `Opener` says whose parity an id has. A role is that
of the opener or of the acceptor, or, in a channel both applications negotiated,
of a party. Constants say what applications do: `SendWhen` and `CloseWhen` give
each role a policy ("eager": at any time; "open": once its ready state is open; "prudent": once the
other end is known to be open as well; "drained": once all messages of both ends
are through; "never"), `EarlyAdd` lets a channel be added before the association
is up, `MayTerminate` lets the association go down, `Negotiated` and `Unordered`
are sets of ids.

| Variable | Code |
|---|---|
| `established` | `priv->data_session_established` |
| `entry` | `priv->data_channels`, one record per id: `DataChannel` with its `state` |
| `added`, `ready`, `hooked` | the session's `data_channels`, a channel's `ready_state`, its closures |
| `src`, `sink`, `encPad`, `decPad` | appsrc and appsink of an entry, the pads of sctpenc and sctpdec |
| `tableLock`, `entryLock` | `data_channels_rw_mutex`, an entry's `rw_mutex`, as far as a path leaves one held |
| `mainQ` | the idle sources scheduled on the main context |
| `matched` | negotiated entries whose parameters the application has given |
| `worklist`, `pc` | where a handler is that gives a lock up in the middle |
| `wire`, `assoc` | SCTP: per-stream queues of messages and resets, the association |
| `fate` | the assertion that failed or the freed entry that was used, if the peer died of it |
| `offered`, `asked`, `sent`, `got`, `closing`, `early` | what the application has heard and done; messages dropped because an entry was not open |

Each handler is an action, cut where the code gives up its locks and another
thread can come between: `on_new_datachannel` is `LookUpEntry`, `CreateEntry`,
`OpenRequest`, `AdoptEntry`, `CompleteAndAck`, `SetOpen`; `on_datachannel_close`
is `RunClose`, `CloseDecoder`, `CloseEncoder`, `ReleaseEncoder`.

Abstractions. A reader lock that a path forgets blocks writers; a writer lock
that a path forgets blocks other threads and not its holder, as
`GRWLock` does in practice. The sections that tear down the two ends of an entry
are atomic. Message payloads are numbers; OPEN carries the parameters the
properties tell apart (id, negotiated). The session is already part of the agent
when channels are added, and there is one data session per agent; the agent's
table, keyed by stream id, has room for no more. The session's list of channels
never shrinks in the code, so an id is used once.

Outside `src/`: sctpdec adds the pad of a stream with the first message on it
and removes it when `reset-stream` is emitted or the peer resets; sctpenc resets
a stream when its pad is released; a message on a stream whose pad is gone adds
the pad again; a stream's messages arrive in order unless it is unordered.

### `MessageBus` and `MessageDelivery`

`Poster`s are threads of application and library; each `Bus` names its own
thread. `refs` are strong references, by holder: the application's (`App`) and
the one each loop of `owr_message_origin_post_message` takes with
`g_weak_ref_get`. `call[t]` is where thread t is in an API call, `loop[b]` where
a bus thread is, `joining[t]` the bus whose thread t joins in
`owr_bus_finalize`. A post is cut at every lock and every reference: it locks the
bus set, visits buses in any order (a hash table), takes a reference, pushes,
drops the reference (and may thereby finalize the bus, mutex in hand), and ends.
`CallbackMay` says what a callback that is set does besides returning.

The mask is read when a message is pushed, without a lock, as in the code. The
reference on the origin that each message holds is left out: it is taken and
dropped with the message's own count. Origins always have a bus set.

`MessageDelivery` has no threads or locks: an origin's messages are ordered,
each bus takes some of them in this order and at most once, none once it was
given up, and it ends only when it has handled all it took. The refinement maps
`log` to the order in which posts take the bus set's mutex (a history variable)
and `status` to `phase`.

### `SendPipeline`

One media session of one agent. The application sets a source, a payload and
rtcp-mux and adds the session, in any order; each call but rtcp-mux schedules a
task (`tasks`). The main loop runs the first task: `RunSetSendPayload`,
`RunSetSendSource`, `RunAddSession` or `RunMaybeHandle`, and where these reach
`maybe_handle_new_send_source_with_payload`, `at` goes to `CheckPending` (which
reads `pending_sessions` under `sessions_lock`) and, after the lock is released,
to `Build`. `OnNewSelectedPair` and `OnDtlsEncKeySet` are libnice's and the DTLS
element's callbacks, on threads of their own, each inside `sessions_lock`.

| Variable | Code |
|---|---|
| `sendSource`, `sendPayload`, `mux` | the media session's `send_source`, `send_payload`, `rtcp_mux` |
| `notifying` | between the setter of rtcp-mux and `notify::rtcp-mux` |
| `added`, `pending`, `rtcpBin` | `priv->sessions`, `priv->pending_sessions`, `SendBinInfo.dtls_srtp_bin_rtcp` |
| `blocked` | components whose `nice_src_block_*` is there and whose DTLS bins are locked |
| `keyed`, `keySignals` | the encoder's keys, and how many handlers of `on-key-set` have yet to run |
| `inputBin`, `linked`, `strays` | `send-input-bin` with its ghost pad, the source bin linked to it, source bins linked to nothing |
| `rtcpVia` | the active pad of `rtcp_output_selector`, and whether RTCP is linked |
| `careful` | history: the application waited for its tasks and replaced or unset only what was sent |

Abstractions. What the bins contain is left out; a bin with a taken name is not
added, and then `handle_new_send_payload` returns; a linked pad is not linked
again. Sessions and agents live as long as the model. Keys that the application
sets itself (SRTP without DTLS) are left out; for receiving see `ReceivePipeline`.

### `IceSession`

Sessions of one agent. The application's thread calls; its calls schedule
`tasks` on the main loop, and so do libnice's callbacks.

| Variable | Code |
|---|---|
| `server`, `deferred` | helper servers, `deferred_helper_server_adds` (negative for a `guint` that wrapped) |
| `adding`, `removing` | what `owr_transport_agent_add_helper_server` and `add_helper_server_info` have read of the count and not yet written |
| `streams`, `local`, `gatheringDone`, `remotes`, `forced`, `pair` | the agent's sessions, a session's lists and pairs |
| `componentState`, `iceState`, `mux` | `rtp_ice_state` and `rtcp_ice_state`, the aggregate, `rtcp-mux` |
| `configured`, `gathering`, `announced`, `nice`, `agentCredential`, `handed`, `selected` | libnice's side of a stream |
| `miscounted`, `lateMux` | histories: one thread overwrote the other's count; rtcp-mux changed after a state was reported |

`add_helper_server` counts up on the caller's thread and `add_helper_server_info`
counts down on the main loop, with no lock: each is a read and a write.
`HelperServerResolved` is the resolver's thread. `EmitNewCandidate` hands a
candidate to the application's handler, which may replace its credentials, as
the bridge and `tests/test_send_receive.c` do; `EmitCandidateGatheringDone` is
the only place that calls `nice_agent_set_selected_pair`; `EmitIceStateChanged`
computes old and new aggregate with the rtcp-mux of the moment.

Outside `src/`: libnice gathers a stream once, announces at most `MaxLocal`
candidates and then that it is done, and puts components in any of the
`Reported` states. Addresses and remote credentials are left out.

### `PeerConnection`

One RTCPeerConnection of `webrtc.js`, the `PeerHandler` of the worker behind it
and the two ordered directions between them. The page is an event loop: an
action is a call of its script, a timer or a message. Timers of no delay fire in
the order they were set; timers and messages interleave.

| Variable | Code |
|---|---|
| `sig`, `queue`, `waiting`, `stateChanging`, `timers` | `signalingState`, `operationsQueue`, the head's outstanding callback, `stateChangingOperationsQueued`, timers set |
| `local`, `remote`, `status`, `created` | `localSessionInfo` and `remoteSessionInfo`, whether each line's gathering ended, the description an application may set |
| `hasTrack`, `hasDataChannels`, `canCreate`, `deferred`, `channels` | `localStreams`, `hasDataChannels`, whether the worker can make data channels, those that wait for it, all of them |
| `known`, `keys` | the peer handler's reference and its keys |
| `toWorker`, `toPage` | calls and events under way |
| `sessions`, `receivePrepared`, `sendPrepared`, `nextId` | the worker's sessions and `numberOf…PreparedSessions` |
| `script`, `hist` | the calls still to make; what the properties remember |

A description is the sequence of its media lines: a kind, whether it sends,
whether it multiplexes, the components of its candidates. SDP text, DTMF and
statistics are left out.

### `LocalMedia`

Sources, renderers and the registry that matches windows with video renderers.
Requests and shutdowns run on the main loop (`mainQ`); branches leave on a
streaming thread (`ProbeIdle`); the application makes and drops renderers and
sets volumes on its thread. The functions of the registry take no lock: each
looks its tag up in one step and goes on in another (`frame`, per thread).

| Variable | Code |
|---|---|
| `media[s]` | `running`: the pipeline and tee; `pads`: `numsrcpads`; `leaving`: branches with an idle probe; `left`: branches of renderers that were finalized; `element`: references on `source_volume`, `level` what is set, `applied` what plays |
| `renderers[r]` | its `source`, `sink`, whether it has a branch, whether it plays; `tag`; whether the application holds it |
| `registry[t]` | `registry_hash_table`: window handle and renderer of a tag |
| `misuse` | kinds of memory used after it was freed; what the use was for does not happen |
| `wanted`, `raced` | histories: the window last given to a tag; tags whose registration met another thread's |

An audio renderer is a renderer without a tag. The transport agent, which
requests sources as renderers do, is left out, as are caps and capture elements.

### `Bridge`

Pages load `owr.js`, which makes a hidden frame; the frame opens a socket to the
worker. What a page sends waits in `outbox` until the frame is loaded and then
until the socket is open (two hops of `postMessage` and a send queue in the
code). Up and down the socket run the calls `requestSources`, `renderSources`
and `stop` and their answers.

| Variable | Code |
|---|---|
| `frame`, `outbox`, `up`, `down`, `session` | the frame and its socket, what waits, what is under way, the worker's end |
| `promise`, `refs`, `callbacks`, `source`, `shown`, `shows` | getUserMedia's promises, exported objects and pending callbacks of wbjsonrpc, what the page was given and shows |
| `referenced`, `running`, `capturing` | the worker's `referencedObjects`, its controllers, requests that wait for `owr.get_capture_sources` |
| `ext`, `queue`, `asked`, `verdicts` | the extension's socket, `consentRequestQueue`, requests and answers under way |
| `verdict` | history: what the extension said |

A page may leave, the worker restart and the extension close at any moment. An
exception in `onmessage` leaves a socket unread for good (`websocket.js` reads
the next frame only after its handler returned): `session` or `ext` is then
"deaf". A socket fails when
its end leaves, restarts or closes; one that breaks while both ends stay is not
modelled, neither a short read (`closeConnection`, as for a page that leaves) nor
a read that fails, where `fill_finish` throws at `bridge/seed/websocket.js:160`
and the socket is never read again nor `onclose` called. `RequestsSettle` and
`RenderersReleased` say nothing of these. A page asks for one kind of source. Frame headers, handshakes and
the check of exported names are left out; the image server, which pages fetch
video from, is `ImageServer`.

### `ScreamFeedback`

Sessions of one agent that receive, and the sender's side of their feedback.
A packet is known by its number in the stream; its sequence number is that plus
`FirstSeq`, modulo `SeqnoMod`.

| Variable | Code |
|---|---|
| `payload` | whether `owr_media_session_add_receive_payload` has run |
| `rx` | `ScreamRx`: `rx_payload` known, `adapt`, `highest_seq`, `ack_vec` as the set of distances whose bit is set, `n_loss` |
| `info`, `rtcpList` | the `rtcp_info` a probe has made and not yet queued, `rtcp_list` |
| `wire`, `heard`, `stats` | RTCP under way, what a screamqueue was told last, statistics that wait for the main loop |
| `arrived`, `forgot` | histories: packets counted; the probe took the stream up anew |

`ProbeRtpInfo` is the probe up to `rtcp_lock`, `QueueReport` the rest;
`OnSendingRtcp` empties the list in between. `adapt` is read uninitialized
before the first packet after the payload came. The code takes `highest_seq` = 0
with an empty `ack_vec` for a stream that has not begun (line 4326), which a
running stream can come to; `forgot` marks it. ECN, arrival times and RTCP of
other kinds are left out.

### `ReceivePipeline`

The receiving half of a media session. The application's calls schedule `tasks`;
each stream that rtpbin receives, a payload or its retransmissions, has a thread
that runs `on_rtpbin_pad_added`.

| Variable | Code |
|---|---|
| `receivePayloads`, `added` | the session's `receive_payloads`, `priv->sessions` |
| `auxMap` | the map of rtprtxreceive, made when `add_session` requests rtpbin's pad |
| `jitterbuffer`, `held` | rtpbin: the jitter buffer of an SSRC and whether it asks for retransmissions, streams with packets to push |
| `outputBin` | the stream that has the session's `receive-output-bin` |
| `at`, `linkedRtcp`, `hookups` | where each thread is, `SendBinInfo.linked_rtcp`, how often RTCP was hooked up |
| `announced`, `gone` | `on-incoming-source`, the agent finalized |
| `late` | history: a payload with retransmissions was added after the session |

rtpbin and rtprtxreceive are outside `src/`. What the bins contain, other
sessions of the agent, and the removal of pads are left out.

### `ImageServer`

| Variable | Code |
|---|---|
| `source`, `playing`, `frame` | a renderer's source, whether its pipeline runs, whether the appsink holds a frame |
| `imageRenderers`, `allowOrigin`, `started` | the server's `image_renderers`, `allow_origin`, `socket_service_is_started` |
| `conn` | per connection: where its worker is in `on_incoming_connection`, the tag and renderer it works with, the header it keeps |
| `reply` | the last reply |
| `tasks` | `set_source` tasks of the main loop |

`Worker` threads serve a connection each until it ends; others wait. Pulling a
frame blocks while the pipeline runs and has none. Pixels, `disabled` (a black
image) and dropping the server are left out. A request of a connection that no
worker has accepted may wait for ever, and the model lets it.

### Faulty variants

An operator that no specification uses, placed before one with the same
parameters (`PushedNoAck` before `Pushed`, `VisitDead` before `VisitBus`), is a
plausible mistake in the code it varies: an ACK forgotten, a dead bus visited.
Put in its place it must break the property it is paired with in
`PROJECT.json`; this shows that the property can fail.

## 4. What the runs show

| Run | Instance | Shows |
|---|---|---|
| `DC_open` | an id opened in-band (the acceptor speaks first), closed by its opener when all is heard, and an unordered id both applications negotiated | the handshake completes at both ends, messages arrive, closing completes at both ends with no entry left, ready states only move forward, every handler finds the entry it looks for |
| `DC_up` | one id, added while the association comes up or goes down; its opener sends and closes at any time | an open entry has a channel and ordered messages stay in order, while entries are torn down under running handlers |
| `DC_early_message` | an acceptor that adds, an opener that sends once open | a finding, below |
| `BUS_order` | 2 threads, 1 bus, 1 origin, 3 messages, 2 callbacks set, which only use what they are given | reference counts are right, nothing is lost, user data is alive in every callback, `MessageDelivery` is implemented, messages are handled, calls (finalize among them) return |
| `SP_send` | 2 video sources, an audio source, 2 video payloads, 5 calls | what is sent is what is set; a start of sending is not lost; nothing stays blocked; careful applications meet no failing assertion; a session with all it needs sends |
| `ICE_up` | 1 session, 2 servers, 3 kinds of remote candidates (connecting, RTCP's, without a port), 3 calls | gathering starts unless the count was overwritten; every remote candidate reaches libnice; all candidates of a session have one set of credentials, libnice's; the ICE state is the components' |
| `SF_wrap` | 2 sessions, one adapting; 4 arrivals of 5 packets up to 3 places out of order, numbers modulo 7, a window of 3 | what the probe keeps is what arrived, over wraps; reports are about packets that came, and do not go back |
| `RP_receive` | an audio payload, a video payload with retransmissions, 4 calls | the media stream is announced once, with RTCP, in every order of payloads, session, media and sending |
| `PC_call` | 7 scripts (callers, callees, renegotiation, refused calls, pages that close), 3 remote offers, 2 candidates | operations settle in turn; a page is told of what it has to negotiate, of the end of gathering, of remote streams; what it adds first is sent; calls of the page find the worker's session |
| `LM_show` | 2 sources (one with a volume element), 2 renderers, 1 tag, 2 windows, 5 calls | branches have one owner or were left behind, sources run while used and stop when not, renderers find the window of their tag, volume is kept over restarts, also when set while stopped |
| `IS_serve` | 2 renderers of different sizes, 2 tags, 2 workers and connections, 4 calls, 2 requests | a request that was read is answered, with the length of its image |
| `BRIDGE_ask` | 2 pages, one showing two streams; a restart, a closing extension, pages that leave | a request is answered once and by its own verdict, is settled, and what a page showed stops with the page |

One run shows a disagreement between the code and what it says of itself
(`findings` in `PROJECT.json` quotes the lines):

| Run | The code says | What happens |
|---|---|---|
| `DC_early_message` | "This should never happen" | the ACK leaves before the acceptor's entry is open; the opener's first message is dropped |

The models contain more states in which the code goes wrong for some uses of it.
The properties say which uses they are about, and the behaviour is recorded here:

- A candidate pair forced once gathering is done is stored and never applied:
  `emit_candidate_gathering_done` is the only caller of
  `nice_agent_set_selected_pair`. `transport/owr_session.c:432` says that the
  function "Forces the transport agent to use the given candidate pair.", and the
  repository's own test forces its pairs at that moment
  (`tests/test_send_receive.c:205`).
- `linked_rtcp` is read and set without a lock on several threads, so RTCP can be
  hooked up twice (`hookups` = 2), where `transport/owr_transport_agent.c:2544`
  means to do so only "if it isn't already".
- The first packets of a stream each count as a loss, for `ack_vec` starts empty;
  the comments at `transport/owr_transport_agent.c:4339` and 4356 mean it to start
  with all bits set.
- A connection that is kept alive sends the `Access-Control-Allow-Origin` it
  began with until the size of its images changes, whatever is added to `allow-origin` later
  (`local/owr_image_server.c:341`).
- A payload with retransmissions that is added after the session is not in the
  auxiliary receiver's map; its retransmissions then come as a stream of their
  own, which may take the output bin (`late`).
- The workers of the image server wait for frames without a time limit, so
  renderers whose sources give none can hold them all; `RequestsAnswered` excepts
  the worker that waits (`Starved`).
- A data channel added while the association comes up is visited by the main
  loop and by the SCTP thread; the second visit takes the entry of the first for
  a remote one and acknowledges it to a peer that has not added it. Closed in
  between, it is opened again, so its application sees CLOSING, then OPEN.
- Closing a channel with messages in flight, or from both ends at once, reaches
  assertions (`on_sctpdec_pad_removed`, `on_datachannel_close`); `EntriesFound` is
  checked for applications of which one closes when both have heard all, and
  proved for all that are `Patient` (section 5, which lists what each condition
  is for).
- A callback that drops the last reference of its bus, or replaces its own
  callback, makes its thread wait for itself.
- rtcp-mux turned on after a session was added and before RTCP is linked has no
  effect. A payload or source replaced or unset while nothing is sent reaches
  assertions; `CarefulNeverAborts` is about applications that do not.
- A lost update of the count of lookups makes gathering start early or never;
  `GatheringStarts` excludes it through `miscounted`.
- The ICE state of a session whose rtcp-mux changes between two reports is stale
  until the next one (`lateMux`).
- An offer made before the keys are there throws inside an operation, and the
  queue stops; so does an operation queued before `close()`
  (`OperationsSettle` names both). An operation that sets no description, queued
  behind one that does, takes `negotiationneeded` with it.
- `maybe_close_data_channel` frees the entry with its writer lock held
  (`transport/owr_transport_agent.c:4090`) and then unlocks the freed lock (4092).
  This happens at every completed close. Whether it shows is up to the build, so
  `UnlockFreed` is a choice: nothing happens, or the peer dies (`fate` =
  "freed_lock"). `EntriesFound` is about all other uses of entries, and the
  liveness properties of `DC_open` excuse a peer that died there.
- A new local description is parsed from text (`bridge/client/webrtc.js:771`), and
  `SDP.generate` writes no `gatheringDone`: what a line noted before is forgotten,
  its session gathers once, and so a page that sets a second local description
  after the gathering of a line ended never gets the null candidate again (1216).
  `Generated` models it; `EndOfCandidates` says exactly when the candidate comes.
- `owr_media_renderer_finalize` unrefs the pipeline
  (`local/owr_media_renderer.c:100`) and with it the element `priv->src`, and
  releases the branch by that element afterwards (106). The type check of a freed
  element fails at best; `LeftBehind` has the branch stay on the tee, so that the
  source of a renderer dropped without `set_source(NULL)` never stops.
  `BranchesOwned` counts these branches and `StopsWhenUnused` excepts them.
- A shutdown drops one of the two references of the volume element
  (`local/owr_local_media_source.c:434`), the pipeline that goes with it drops the
  other, and the pointer stays: after any shutdown, timely or late, a volume set while the source is stopped is also written to a freed
  element (`misuse`). It is applied at the next start all the same, which is what
  `VolumeKept` says. A shutdown that finds the source requested again drops one
  reference of an element that plays; two of these free it, and
  what is set then is lost until the next start.
- A remote description that no longer expects a source, set while another has
  come, leaves the one that came unannounced until a further one comes (1268); a
  stream added once the session of a later line is prepared is not sent
  (`bridge/worker/peerhandler.js:198`). `RemoteStreamsAnnounced` and `StreamSent`
  are about the other orders.
- Renderers registered while the main loop looks their tag up get no window
  (`raced`), or a freed entry is used (`misuse`).
- An answer of the extension for a page that has gone throws, after which its
  socket is never read again (`ext` = "deaf") and every later request hangs;
  `RequestsSettle` excepts this, restarts and an extension that closes.

Deadlock is not checked: applications may stop calling, so every model may
rest. Liveness is checked instead.

**Bounds.** `MaxSend`, `MaxAdd`: messages and add calls per peer and id. One
message tells early from late, two tell order. One id suffices for everything
that concerns one entry, since ids share only the table's lock; `DC_open` has two
so that a lock left by one shows at the other. Two posting threads are the least
where posts compete; three messages let one be in a callback, one queued and one
being posted; two callbacks set are one that runs and one that replaces it. More
buses and callbacks that call back are left to the proofs, which cover any number
of buses and every `CallbackMay`. `SP_send` has five calls:
what it takes to set a source and a payload, add the session and replace one of
them twice, before, between and after the keys; two sources of one kind tell old
from new and the third does not fit the payloads. `ICE_up`: two servers are
what it takes for one lookup to end while the other is counted; three calls are
a session and two of candidate, mux or pair in either order; `MaxTask` only
keeps libnice from reporting ever more states while tasks wait. `PC_call`: two
outstanding operations are one running and one queued behind it; the offers hold
data before and after media, two lines of a kind, with and without mux. `LM_show`:
five calls give a renderer, a source and a window and take or replace two of
them; two windows tell the last from an earlier one; two renderers share a
source, a tag, or neither. `BRIDGE_ask`: two pages make two requests in the
consent queue, of which the second waits; two streams of one element let the
answer of the first come after the second was asked for. `SF_wrap`: with numbers
modulo 7 five packets pass the wrap, 3 is the largest step that is not taken for
one (20000 of 65536 in the code), a window of 3 loses bits at its end, and four
arrivals are two in and two out of order. `RP_receive`: four calls are two
payloads and the session, and one repeated. `IS_serve`: four calls give one
renderer a source, add it, and stop, remove or replace it; two requests meet at
one renderer or follow each other on one connection.

**Fairness.** Nobody has to call anything, in any module; everything below is
weak. `DataChannel`: the main loop and the SCTP thread of each peer keep running
what is queued, SCTP delivers what was sent, the association comes up, and an
application that was offered a channel adds it. `MessageBus`: a thread inside a
call goes on, bus threads run; mutexes are not fair, but only finitely many
calls compete. `SendPipeline`: the main loop runs its tasks, libnice selects a
pair for RTP (never necessarily for RTCP), DTLS gets its keys and calls its
handlers; without these there is nothing to send over. `IceSession`: the main
loop runs, every lookup ends (`GResolver` calls back for a failure too), a begun
call returns. `PeerConnection`: the page's timers fire, messages of both
directions are handled, keys are generated or fail. `LocalMedia`: the main loop
runs, a thread inside a function of the registry goes on, an idle probe is
called (GStreamer calls it when no buffer passes). `Bridge`: a frame of a page
that stays loads and connects, messages are handled by page and worker, GStreamer
answers with its sources, the extension answers the request in front of the user.
None is assumed for a page that left or a socket nobody reads.
`ReceivePipeline`: the main loop and the threads of streams run; media,
retransmissions, calls and the start of sending need not come. `ImageServer`:
the main loop and each worker run; frames, connections and requests need not
come. `ScreamFeedback` has no liveness: every step may stay away.

## 5. What is proved

`DataChannelProofs` proves, for any peers, ids, policies and bounds:

- `TypeCorrect`: the state keeps its types.
- `OpenHasChannelAlways`: an open entry, and a channel with closures, always has
  the application's channel behind it in the session. `handle_data_channel_message`
  and `emit_incoming_data` rely on it without a check.

The inductive invariant is `ChannelInv`: types, the property, and `WorksOnAdded`
(the SCTP thread's work list and the handler in progress only hold channels that
were added). `OpenHasChannel` alone is not inductive: `SetOpen` opens the entry
of the channel a handler looked up earlier, and only `WorksOnAdded` says that
this was one of the session's. The proof has one lemma per action and uses the
assumptions on constants that the module names.

- `InOrderAlways`: the messages of an ordered channel reach the application in
  the order they were sent, each at most once. `AtMostOnceAlways`: those of an
  unordered channel too are never doubled.

`InOrder` speaks of what the application got; *`OrderInv`* says of all four
places where a message can be — with the application, on the receiver's main
loop, on the wire, on the sender's main loop — that numbers rise in each (on an
unordered channel: that they differ), that each place is ahead of the next, and
that none exceeds what was sent. A step either removes messages from a place or
moves the first of one place, or of an unordered stream any, to the end of the
next.

Two more theorems are about applications that wait, `Patient`, and again about
any peers, ids, bounds, negotiated and unordered channels, with the association
going down at any time:

- `EntriesFoundPatient`: no handler misses an entry that an assertion asks for, or
  follows a pointer to an entry that another thread freed. (The unlock at line
  4092, of the entry its own thread has just freed, is not a matter of order and
  no condition avoids it; section 4.)
- `ReadyForwardPatient`: ready states never go back.

`Patient` is a condition on the constants that say what applications do, which
the instance of `DC_open` satisfies. Neither the code nor a document asks
applications for it, but none of its conjuncts can be spared: without any one of
them, and with the others kept, TLC finds a missed or a freed entry with two
peers, one channel and one message.

| Conjunct | Without it |
|---|---|
| `~EarlyAdd` | both threads handle a channel (section 4); the ACK of the second visit finds no entry at the other peer |
| parties send when both are OPEN | the first message reaches the peer whose parity the id has before its entry exists: the pad is refused, and its removal finds no entry |
| parties do not close | both do, as below |
| the others close when drained | a message scheduled behind the close uses the freed entry, or one in flight adds a pad to the closed channel |
| one of the two closes | the second close finds no entry: the reset of the first has removed it |
| an opener that closes has got a message (`MaxSend > 0`) | the acceptor's handler is still about to open the entry that the reset frees |

The inductive invariant is *`WaitInv`*: `ChannelInv`, `OrderInv`, and for each end
of each channel (`EndInv`)

- where a handler can be and what its end holds then (`LabelInv`, `EntryInv`),
  what an end has before its channel is added (`AskedInv`, `FreshInv`), and what
  the other end must have for an acceptor, or a party that both agreed with, to
  be where it is (`AcceptInv`, `AgreedInv`, `SourceInv`);
- what the wire may carry: OPEN or ACK only in front, nothing behind a RESET
  but a RESET (`WireInv`);
- that until a close runs both ends are undisturbed (`CalmInv`), what an
  application knew when it closed (`SettledInv`), that nothing is scheduled to be
  sent behind a close (`CloseInv`), and where both ends can be from then on until
  nothing is left (`ShutInv`);
- that the ready states still scheduled climb from the one seen to the one the
  entry's state stands for (`ReadyInv`).

`EntriesFound` alone says nothing about why the entry is there when a message or a
reset comes. The heart of it is the closing end: an application that has as many
messages as the other end ever sends has, by `OrderInv` and the pigeonhole
principle, all of them (`AllThrough`), so none is in flight and nothing but
resets can come after the close. There is one lemma per action
(`Wait_AppAdd`, ... `Wait_AppClose`); a step touches one channel of the two peers
and leaves the others alone (`Quiet`), so each lemma is about that channel only.

`MessageBusProofs` proves, for any threads, buses, origins, message types and
bounds (assumed: the application is not a thread, `None` is nothing, bus
threads are not posting threads):

- `TypeCorrect`: the state keeps its types.
- `CallbackDataAliveAlways`: no user data is destroyed under the callback it was
  passed to.
- `NothingLostEver`: a bus whose finalize returns has handled what it accepted.
- `CountedRefsAlways`: a message's `ref_count` is the number of the posts, queues
  and bus threads that hold it, so that it is freed neither early nor never.
- `DeliveryImplemented`: the specification implements `MessageDelivery`.

The inductive invariant `BusInv` has five parts, each preserved on the strength
of those before it. *Types.* *`LifeInv`*: a bus with a reference is live, one
that is gone has no thread, a post holds the reference it works with, and only
the thread that dropped the last reference joins. *`CallbacksInv`*: the bus
thread owns `callback_mutex` during a call, so the data it passed is the data
that is set; what was destroyed was set before. *`QueuesInv`*: `last_message` is
in the queue exactly while the bus closes, and last; accepted = handled + in
work + waiting. *`PostsInv`*: the post that holds the bus set's mutex has the
origin's last message, and buses it has not visited lack it. `NothingLost` fails
to be inductive because it says nothing about a bus that still closes; the
count in `QueuesInv` does. Reference counts need *`NumbersInv`* as well: no queue
holds a message twice, nor one its thread works on, and a post's number is its
own; then each step of *`CountsInv`* adds or removes one element of one of three
finite sets. In the refinement `LockBusSet` is `Post`,
`PushMessage` is `Accept`, `UnrefHandled` is `Handle`, dropping a last reference
is `GiveUp`, `FinishFinalize` is `End`, and all else stutters.

`SendPipelineProofs` proves every invariant of `SP_send`, and that at most one
source bin is left behind, for any sources, payloads and number of calls (assumed: `None` is neither): `TypeCorrect`,
`SendsWhatIsSetAlways`, `StartNeverLost`, `NothingLeftBlockedEver`,
`CarefulNeverAbort`, `OneStrayAtMost`. The inductive invariant `PipelineInv`
adds to the types: *`QueueInv`*, the keys have scheduled one task at most, and an
application's task that goes on to look at `pending` has found or left nothing
linked; *`StageInv`*, nothing is built before the keys, and a stray bin means
that the keys' task has run; *`BuiltInv`*, bins carry what is set; *`StartInv`*,
a start that is due is in the running task or in the keys' one, which is what
`StartNotLost` lacks while tasks are left; *`BlockInv`*, RTCP is never blocked
alone; *`CarefulInv`*, a careful application's one task still finds what it found
when it was scheduled. There is a lemma per part, with a step per action; the
lemmas about the queue say where tasks are after one is scheduled or finished.

`LocalMediaProofs` proves, for any sources, renderers, tags, windows and number
of calls (assumed: `None` is nothing and no registry entry, there are finitely
many renderers, a source has its volume in one place at most):

- `TypeCorrect`: the state keeps its types.
- `BranchesOwnedAlways`: the branches of a tee are those that are leaving, those of
  the renderers that have one, and those left behind by finalized renderers.
- `RunsWhileUsedAlways`: a source with a consumer runs.
- `VolumeKeptAlways`: a running source whose volume element is there applies what
  was set last, before its start, since, or while it was stopped.
- `WindowReachesAlways`: once nothing is left to do, the renderer of a tag draws
  into the window last registered for it, if the threads worked on the tag one at
  a time.

`BranchesOwned` is not inductive: a sink is only set on a renderer that has no
branch, which depends on which thread holds the renderer, and that on what the
two threads have found in the registry. So `LocalMediaInv` has, besides the
types: *`FrameInv`*, what a thread in the middle of a function has in its hands;
*`EntryInv`*, an entry a thread goes on with is there, and while the main loop
is about to insert one nobody else has; *`StageInv`*, the thread that holds a
renderer under construction or destruction, and no other; *`BranchInv`*, a renderer
with a branch has a source, and one whose sink the main loop sets has no branch;
*`MediaInv`*, `BranchesOwned` together with the pads that keep a source running.
The first four are shown to survive each step together (`Control_…`), the counts
after them (`Media_…`), with the library's facts on cardinalities.
There the branches that nobody owns any more, leaving or left behind, count as one
number. `VolumeKept` is inductive given these.

`WindowReaches` speaks of a state with nothing left to do. *`WindowInv`* says for
any state what the rest of the work will come to: `TagInv` keeps the tags of
renderers, entries and threads together, and for each tag without a race `Alone`
has one thread at it, `LooksRight` says that what that thread has read of the
entry is still so, `Outcome` that the tasks still queued turn the window of the
entry into the one wanted, and `SinkFits` that the renderer has the window of the
entry or is about to get it. `Outcome` runs the queue by a witness, a sequence of
the windows after each task, since the prover has no induction over it.

`IceSessionProofs` proves, for any sessions, servers, remote candidates and
bounds (assumed: `None` is neither a server nor a candidate, there are finitely
many servers, data sessions are sessions, libnice reports states of the
enumeration):

- `TypeCorrect`: the state keeps its types.
- `CredentialsAgreeAlways`: all candidates of a session have the credentials
  libnice answers to.
- `RemoteCandidatesAlwaysHanded`: remote and forced candidates reach libnice, in
  whatever order they and the session were added.
- `IceStateAgreesAlways`: once its reports are handled, a session's state is that
  of libnice's components, unless rtcp-mux changed after the first of them.
- `GatheringWaitsForLookups`: a session in the agent that does not gather waits
  for a lookup, unless one thread overwrote the other's count. This is the safety
  core of `GatheringStarts`.

For each property a lemma `..._Frame` names the steps that touch its variables,
and `..._Next` shows that these keep it. The first two properties are inductive
with the types. `IceStateAgrees` speaks of an empty queue only; *`ReportsInv`*
says for any queue that what the session knows of a component, followed by the
reports that wait, ends in libnice's state, and *`AggregateInv`* that the
aggregate is that of what it knows. Gathering needs *`CountInv`*: the count is
the number of lookups under way until one thread overwrites the other's. What a
thread read before its write may be stale, but then its write is such an
overwriting.

`PeerConnectionProofs` proves, for any scripts, offers, candidates and queue
bound (assumed: scripts are sequences of calls, offers are not empty, candidates
have a line and a component):

- `TypeCorrect`, and `Invariant`, of which the rest are consequences.
- `Signalled` (`NegotiationSignalled`): a page that changes what is to be
  negotiated is told so.
- `Announced` (`RemoteStreamsAnnounced`): all sources of a remote description are
  announced once they have come, unless a later description took one back.
- `SessionsFound` (`CallsFindSessions`): the worker's session that a call indexes
  has been made.
- `CandidatesEnd` (`EndOfCandidates`): for the local description in force the null
  candidate is fired exactly when the gathering of every line has ended and none
  of the ends was noted in a description that it replaced.
- `FirstStreamSent` (`StreamSent`): a stream added before anything else is sent.

Page and worker each hold half of the state, and the other half is under way; so
none of these is inductive. `IndInv` follows a description through all stages:
*`QueueInv`* (who starts the next operation), *`SignalInv`* and *`AnnounceInv`*
(what is yet to be told), *`PlanInv`* and *`LinesInv`* (the descriptions that
queued operations will set fit those that are set), *`CallsInv`*, *`SessionsInv`*
and *`ChannelsInv`* (the calls under way, in order, find or make the sessions
they need), *`GatheringInv`* and *`StreamInv`*.

`BridgeProofs` proves, for any pages, numbers of requests, streams shown,
restarts and closing extensions (assumed: at least one request per page):

- `TypeCorrect`, and `ControllersStop`: the worker runs what it can name, and
  nothing for a page that is not connected.
- `AnsweredOnceAlways`: a request is in one place, and is answered once.
- `UserDecidesAlways`: what the extension said of a request is what its page is
  told.

The extension's answers name no request; they are taken for the head of the
queue. So `UserDecides` needs *`ConsentInv`*: what waits for the user, or comes
from there, is one thing at most and is about the head. *`PlacesInv`* has the five
places of a request (what the page has yet to send, up the socket, waiting for
the list of sources, the consent queue, down the socket) exclude each other, and
a request be in one only while its promise is pending; a restart or an extension
that closes empties some of them. *`VerdictInv`* says that no answer under way
contradicts the verdict. `AnsweredOnce` counts the places and follows from
`PlacesInv` by the library's facts on cardinalities.

`ScreamFeedbackProofs` proves, for every width of the sequence numbers, window,
threshold and grace, any number of sessions and packets and any `FirstSeq`
(assumed: the network puts packets less out of place than the threshold, and the
threshold and that together are less than the numbers there are, as 20000 is in
65536):

- `TypeCorrect`: the fields stay in their widths.
- `FeedbackRightAlways`: `highest_seq` and `ack_vec` are those of what arrived,
  over any number of wraps, and reports are about what came and do not go back.

The lemmas `Remainders` and `AheadRight` show that the code's comparison of two
sequence numbers is the distance of their packets. `FeedbackInv` adds to the types
that a top packet exists (`HasTop`), *`KnowsInv`* for the probe, *`ReportsInv`* and
*`OrderInv`*: reports on the wire are no later than the one in the list, and that
no later than the one the probe has just made, outside the lock.

Every safety and action property of the passing runs is stated by a theorem,
`EntriesFound` and `ReadyForward` for applications that wait. Model-checked only:

- All liveness, which is beyond the prover: `OpenCompletes`, `MessagesArrive`,
  `CloseCompletes`, `MessagesHandled`, `CallsReturn`, `SendingStarts`,
  `GatheringStarts`, `MediaReceived`, `OperationsSettle`, `StopsWhenUnused`,
  `RequestsAnswered`, `RequestsSettle`, `RenderersReleased`.

## 6. What is not modelled

`components` in `PROJECT.json` lists every part, with what is left out of the
parts that are modelled partly. Section 2 lists what is open: start and end of
the main loop; the URI agent, which needs a model of `uridecodebin` the
repository gives little to build on; conversions.
Left out for good: payload factories and the GStreamer wrappers (element
configuration), device lists (platform input), crypto utilities (calls of
OpenSSL), inter elements (GStreamer's own locks), Java bindings (a generator),
the SDP grammar (text conversion), the numeric rate control of SCReAM.
