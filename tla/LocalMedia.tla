----------------------------- MODULE LocalMedia -----------------------------
(***************************************************************************)
(* Local media sources, the renderers that show them and the registry that  *)
(* matches windows with video renderers by a tag.                           *)
(*                                                                         *)
(* A source builds one pipeline with a tee when somebody first requests it, *)
(* gives every consumer a branch of its own and shuts the pipeline down     *)
(* when the last branch is gone.  Branches leave on a streaming thread, from*)
(* an idle probe; requests and shutdowns run on the main loop, in the order *)
(* they were scheduled in.  The application makes and drops renderers and   *)
(* sets the volume on its own thread.  The functions of the registry take   *)
(* no lock: each looks its tag up in one step and goes on in another, while *)
(* the other thread may change the table in between.                        *)
(*                                                                         *)
(* Memory that is used after it was freed is recorded in misuse; what the   *)
(* use was for does not happen, and nothing else does: a renderer that is   *)
(* finalized with a source leaves its branch on the tee.  Caps, elements    *)
(* and device names are left out; so is the transport agent, a consumer     *)
(* like the renderers on the main loop.                                     *)
(* An operator that nothing uses, right before one with the same            *)
(* parameters, is a faulty variant of it; the README tells what for.        *)
(***************************************************************************)
EXTENDS Integers, Sequences, FiniteSets

CONSTANTS
    Source,          \* local media sources
    VolumeElement,   \* audio sources whose volume is set on an element "volume"
    StreamVolume,    \* audio sources whose own element sets the volume
    Renderer,        \* renderers of the application
    Tag,             \* tags of windows
    Handle,          \* window handles
    None,            \* NULL
    MaxCall          \* bound: calls of the application

ASSUME NoneAssumption == None \notin Source \cup Renderer \cup Tag \cup Handle
ASSUME VolumeAssumption == /\ VolumeElement \cup StreamVolume \subseteq Source
                           /\ VolumeElement \cap StreamVolume = {}
ASSUME BoundAssumption == MaxCall \in Nat
ASSUME RendererAssumption == IsFiniteSet(Renderer)

Thread == {"app", "main"}
Level == {"default", "other"}   \* volume and mute; "default" is what an element starts with

VARIABLES
    media,           \* the sources, and what hangs on their tees
    renderers,       \* the renderers
    registry,        \* registry_hash_table: handle and renderer of a tag, or None
    mainQ,           \* the idle sources of the main loop
    frame,           \* what each thread is in the middle of
    misuse,          \* kinds of memory used after it was freed
    calls,           \* calls of the application so far
    wanted,          \* history: the window the application last gave a tag
    raced            \* history: tags that both threads worked on at once

vars == <<media, renderers, registry, mainQ, frame, misuse, calls, wanted, raced>>

NoElement == -1                 \* source_volume is NULL
Own == "own"                    \* the window of a sink without a tag

Media == [running : BOOLEAN,    \* source_bin and source_tee are set
          pads : Nat,           \* numsrcpads of the tee
          leaving : Nat,        \* those that wait for an idle probe
          left : Nat,           \* those that finalized renderers have left behind
          element : NoElement..2, \* references of source_volume
          level : Level,        \* priv->volume and priv->mute
          applied : Level]      \* what the pipeline applies

Rendering == [stage : {"none", "making", "live", "dying", "gone"},
              held : BOOLEAN,   \* the application holds a reference
              tag : Tag \cup {None},
              source : Source \cup {None},
              branch : BOOLEAN, \* src is set
              sink : Handle \cup {Own, None},
              playing : BOOLEAN,
              asked : Source \cup {None}]  \* history: the last set_source

Entry == [handle : Handle \cup {None}, renderer : Renderer \cup {None}]
ASSUME EntryAssumption == None \notin Entry

\* A thread in the middle of a function: with a renderer, a tag, a window, and what it
\* found when it looked the tag up.
Frame == [pc : {"idle", "register", "unregister", "renderer", "check", "clear", "show",
                "return", "finalize", "release"},
          r : Renderer \cup {None}, t : Tag \cup {None}, h : Handle \cup {None},
          data : {"none", "held", "stale"}]
Idle == [pc |-> "idle", r |-> None, t |-> None, h |-> None, data |-> "none"]

Task == [task : {"set_source"}, r : Renderer, s : Source \cup {None}]
        \cup [task : {"register"}, t : Tag, h : Handle]
        \cup [task : {"unregister"}, t : Tag]
        \cup [task : {"shutdown"}, s : Source]

Init ==
    /\ media = [s \in Source |->
          [running |-> FALSE, pads |-> 0, leaving |-> 0, left |-> 0, element |-> NoElement,
           level |-> "default", applied |-> "default"]]
    /\ renderers = [r \in Renderer |->
          [stage |-> "none", held |-> FALSE, tag |-> None, source |-> None, branch |-> FALSE,
           sink |-> None, playing |-> FALSE, asked |-> None]]
    /\ registry = [t \in Tag |-> None]
    /\ mainQ = <<>>
    /\ frame = [th \in Thread |-> Idle]
    /\ misuse = {}
    /\ calls = 0
    /\ wanted = [t \in Tag |-> None]
    /\ raced = {}
-----------------------------------------------------------------------------
(* The source.                                                              *)

\* An element that sets its volume itself is created as it is; others get an element
\* "volume" with the volume and mute of before.
VolumeCreatedPlain(m, s) == [m EXCEPT !.element = IF s \in VolumeElement THEN 2 ELSE @, !.applied = "default"]
VolumeCreated(m, s) ==
    IF s \in VolumeElement THEN [m EXCEPT !.element = 2, !.applied = m.level]
    ELSE [m EXCEPT !.applied = "default"]

\* The new pipeline and its tee are set and play.
Started(m, s) == [VolumeCreated(m, s) EXCEPT !.running = TRUE]

Branched(m) == [m EXCEPT !.pads = @ + 1]

\* _owr_media_source_request_source: the pipeline is built once.
Requested(m, s) == Branched(IF m.running THEN m ELSE Started(m, s))

\* _owr_media_source_release_source: an idle probe will unlink the branch.
Released(m) == IF m.running THEN [m EXCEPT !.leaving = @ + 1] ELSE m

\* tee_idle_probe_cb and tee_pad_removed_cb.
ProbeIdleOffByOne(s) ==
    /\ media[s].leaving > 0
    /\ media' = [media EXCEPT ![s].leaving = @ - 1, ![s].pads = @ - 1]
    /\ mainQ' = IF media[s].pads = 2 THEN Append(mainQ, [task |-> "shutdown", s |-> s]) ELSE mainQ
    /\ UNCHANGED <<renderers, registry, frame, misuse, calls, wanted, raced>>
ProbeIdle(s) ==
    /\ media[s].leaving > 0
    /\ media' = [media EXCEPT ![s].leaving = @ - 1, ![s].pads = @ - 1]
    /\ mainQ' = IF media[s].pads = 1 THEN Append(mainQ, [task |-> "shutdown", s |-> s]) ELSE mainQ
    /\ UNCHANGED <<renderers, registry, frame, misuse, calls, wanted, raced>>

\* A reference of source_volume is dropped, at every shutdown; the pointer stays.
VolumeUnreffed(m) == IF m.element > 0 THEN [m EXCEPT !.element = @ - 1] ELSE m

\* The pipeline goes, and with it the reference its bin holds of the element.
Stopped(m) == VolumeUnreffed([m EXCEPT !.running = FALSE])

\* Branches that were added again keep the pipeline.
ShutDownAnyway(m) == IF m.running THEN Stopped(VolumeUnreffed(m)) ELSE VolumeUnreffed(m)
ShutDown(m) ==
    LET unreffed == VolumeUnreffed(m)
    IN IF m.running /\ m.pads = 0 THEN Stopped(unreffed) ELSE unreffed

UnrefsFreed(m) == m.element = 0 \/ (m.element = 1 /\ m.running /\ m.pads = 0)
-----------------------------------------------------------------------------
(* The renderer.                                                            *)

Dead(r) == renderers[r].stage \in {"dying", "gone"}

\* maybe_start_renderer
MaybeStarted(x) ==
    IF x.sink # None /\ x.source # None THEN [x EXCEPT !.branch = TRUE, !.playing = TRUE] ELSE x

Requests(x) == x.sink # None /\ x.source # None

\* _owr_media_renderer_set_sink with NULL, under the lock of the renderer.
WithoutSink(x) ==
    [x EXCEPT !.sink = None, !.branch = FALSE, !.playing = IF x.sink # None THEN FALSE ELSE @]

ClearSinkOnly(r) ==
    /\ renderers' = [renderers EXCEPT ![r] = WithoutSink(@)]
    /\ UNCHANGED media
ClearSink(r) ==
    /\ renderers' = [renderers EXCEPT ![r] = WithoutSink(@)]
    /\ media' = IF renderers[r].branch
                THEN [media EXCEPT ![renderers[r].source] = Released(@)] ELSE media

\* _owr_media_renderer_set_sink with a sink that draws into window h.
SetSink(r, h) ==
    LET x == MaybeStarted([renderers[r] EXCEPT !.sink = h, !.playing = FALSE])
    IN /\ renderers' = [renderers EXCEPT ![r] = x]
       /\ media' = IF Requests(x) THEN [media EXCEPT ![x.source] = Requested(@, x.source)] ELSE media

\* set_source: the old branch is released, if there is one, and the new source
\* requested.  Without a source the pipeline is shut down.
Replaced(m, x, s) ==
    LET out == IF x.branch THEN [m EXCEPT ![x.source] = Released(@)] ELSE m
    IN IF s # None /\ x.sink # None THEN [out EXCEPT ![s] = Requested(@, s)] ELSE out

Shown(x, s) ==
    LET y == [x EXCEPT !.source = s, !.branch = FALSE]
    IN IF s = None THEN [y EXCEPT !.playing = FALSE] ELSE MaybeStarted(y)

\* The last reference of a renderer goes on thread th.
Refs(r, q) == renderers[r].held \/ \E i \in DOMAIN q : q[i].task = "set_source" /\ q[i].r = r

Other(th) == IF th = "app" THEN "main" ELSE "app"

\* Thread th is about to work on tag t.
Races(th, t) == IF t # None /\ frame[Other(th)].t = t THEN raced \cup {t} ELSE raced

StartFinalize(th, r) ==
    /\ frame' = [frame EXCEPT ![th] = [Idle EXCEPT !.pc = "finalize", !.r = r, !.t = renderers[r].tag]]
    /\ raced' = Races(th, renderers[r].tag)

SetSourceTask(r, s) ==
    LET x == renderers[r]
        same == s = x.source
        new == IF same THEN x ELSE Shown(x, s)
        last == ~Refs(r, Tail(mainQ))
    IN /\ media' = IF same THEN media ELSE Replaced(media, x, s)
       /\ renderers' = [renderers EXCEPT ![r] = IF last THEN [new EXCEPT !.stage = "dying"] ELSE new]
       /\ IF last THEN StartFinalize("main", r) ELSE UNCHANGED <<frame, raced>>
       /\ UNCHANGED <<registry, misuse>>
-----------------------------------------------------------------------------
(* The registry.                                                            *)

Found(t) == IF registry[t] = None THEN "none" ELSE "held"

\* The entry of t is freed: what the other thread looked up is stale.
Stale(f, t) == IF f.t = t /\ f.data = "held" THEN [f EXCEPT !.data = "stale"] ELSE f

\* Thread th returns; a renderer that was being made is now ready.
Return(th) ==
    /\ frame' = [frame EXCEPT ![th] = Idle]
    /\ renderers' = IF th = "app" /\ renderers[frame[th].r].stage = "making"
                    THEN [renderers EXCEPT ![frame[th].r].stage = "live"] ELSE renderers
    /\ UNCHANGED media

Go(th, pc, r, h) ==
    /\ frame' = [frame EXCEPT ![th].pc = pc, ![th].r = r, ![th].h = h]
    /\ UNCHANGED <<media, renderers>>

Misused(th, kind) == misuse' = misuse \cup {kind} /\ Return(th) /\ UNCHANGED registry

\* g_hash_table_insert replaces what another thread inserted meanwhile.
Insert(th, t, entry) ==
    /\ registry' = [registry EXCEPT ![t] = entry]
    /\ frame' = [frame EXCEPT ![th] = Idle, ![Other(th)] = Stale(@, t)]
    /\ renderers' = IF th = "app" THEN [renderers EXCEPT ![frame[th].r].stage = "live"] ELSE renderers
    /\ UNCHANGED <<media, misuse>>

\* do_register, after the lookup.
DoRegisterSilently ==
    LET f == frame["main"]
    IN /\ f.pc = "register"
       /\ \/ f.data = "none" /\ Insert("main", f.t, [handle |-> f.h, renderer |-> None])
          \/ f.data = "stale" /\ Misused("main", "registry")
          \/ /\ f.data = "held"
             /\ registry' = [registry EXCEPT ![f.t].handle = IF @ = None THEN f.h ELSE @]
             /\ Return("main")
             /\ UNCHANGED misuse
       /\ UNCHANGED <<mainQ, calls, wanted, raced>>
DoRegister ==
    LET f == frame["main"]
        entry == registry[f.t]
    IN /\ f.pc = "register"
       /\ \/ f.data = "none" /\ Insert("main", f.t, [handle |-> f.h, renderer |-> None])
          \/ f.data = "stale" /\ Misused("main", "registry")
          \/ f.data = "held" /\ entry.handle # None /\ Return("main") /\ UNCHANGED <<registry, misuse>>
          \/ /\ f.data = "held" /\ entry.handle = None
             /\ registry' = [registry EXCEPT ![f.t].handle = f.h]
             /\ IF entry.renderer = None THEN Return("main") ELSE Go("main", "clear", entry.renderer, f.h)
             /\ UNCHANGED misuse
       /\ UNCHANGED <<mainQ, calls, wanted, raced>>

\* do_unregister, after the lookup.
DoUnregister ==
    LET f == frame["main"]
        entry == registry[f.t]
    IN /\ f.pc = "unregister"
       /\ \/ f.data = "stale" /\ Misused("main", "registry")
          \/ /\ f.data = "held" /\ entry.renderer # None
             /\ registry' = [registry EXCEPT ![f.t].handle = None]
             /\ Go("main", "clear", entry.renderer, None)
             /\ UNCHANGED misuse
          \/ /\ f.data = "held" /\ entry.renderer = None
             /\ registry' = [registry EXCEPT ![f.t] = None]
             /\ frame' = [frame EXCEPT !["main"] = Idle, !["app"] = Stale(@, f.t)]
             /\ UNCHANGED <<media, renderers, misuse>>
       /\ UNCHANGED <<mainQ, calls, wanted, raced>>

\* _owr_window_registry_register_renderer, after the lookup.  Once the entry names
\* the renderer nobody frees it, so the handle is read from it as it is then.
RegisterRenderer ==
    LET f == frame["app"]
    IN /\ f.pc = "renderer"
       /\ \/ f.data = "none" /\ Insert("app", f.t, [handle |-> None, renderer |-> f.r])
          \/ f.data = "stale" /\ Misused("app", "registry")
          \/ /\ f.data = "held" /\ registry[f.t].renderer # None
             /\ Return("app")
             /\ UNCHANGED <<registry, misuse>>
          \/ /\ f.data = "held" /\ registry[f.t].renderer = None
             /\ registry' = [registry EXCEPT ![f.t].renderer = f.r]
             /\ Go("app", "check", f.r, None)
             /\ UNCHANGED misuse
       /\ UNCHANGED <<mainQ, calls, wanted, raced>>

CheckHandle ==
    LET f == frame["app"]
    IN /\ f.pc = "check"
       /\ IF registry[f.t].handle = None THEN Return("app")
          ELSE Go("app", "clear", f.r, registry[f.t].handle)
       /\ UNCHANGED <<registry, mainQ, misuse, calls, wanted, raced>>

\* _owr_video_renderer_notify_tag_changed takes the sink away ...
NotifyClear(th) ==
    LET f == frame[th]
    IN /\ f.pc = "clear"
       /\ IF Dead(f.r) THEN Misused(th, "renderer")
          ELSE /\ ClearSink(f.r)
               /\ frame' = [frame EXCEPT ![th].pc = IF f.h = None THEN "return" ELSE "show"]
               /\ UNCHANGED <<registry, misuse>>
       /\ UNCHANGED <<mainQ, calls, wanted, raced>>

\* ... and gives the renderer one for the new window.
NotifyShow(th) ==
    LET f == frame[th]
    IN /\ f.pc = "show"
       /\ IF Dead(f.r) THEN Misused(th, "renderer")
          ELSE /\ SetSink(f.r, f.h)
               /\ frame' = [frame EXCEPT ![th].pc = "return"]
               /\ UNCHANGED <<registry, misuse>>
       /\ UNCHANGED <<mainQ, calls, wanted, raced>>

NotifyReturn(th) ==
    /\ frame[th].pc = "return"
    /\ Return(th)
    /\ UNCHANGED <<registry, mainQ, misuse, calls, wanted, raced>>

\* The last reference of a renderer is gone: its tag is taken out of the registry, if
\* the entry is its own; an entry with a window stays for the window ...
Unregistered(t, r) ==
    IF registry[t].handle = None THEN [registry EXCEPT ![t] = None]
    ELSE [registry EXCEPT ![t].renderer = None]

UnregisterRenderer(th) ==
    LET f == frame[th]
        known == f.t # None /\ registry[f.t] # None /\ registry[f.t].renderer = f.r
    IN /\ f.pc = "finalize"
       /\ registry' = IF known THEN Unregistered(f.t, f.r) ELSE registry
       /\ frame' = [frame EXCEPT ![th].pc = "release",
                                 ![Other(th)] = IF known /\ registry'[f.t] = None THEN Stale(@, f.t) ELSE @]
       /\ UNCHANGED <<media, renderers, mainQ, misuse, calls, wanted, raced>>

\* The pipeline of a renderer goes before its branch is released: the element to release it
\* with is freed, its type check refuses it, and the branch stays.
LeftBehind(m) == [m EXCEPT !.left = @ + 1]

\* ... and owr_media_renderer_finalize frees the pipeline and gives up the source.
Finalize(th) ==
    LET r == frame[th].r
        x == renderers[r]
    IN /\ frame[th].pc = "release"
       /\ media' = IF x.branch THEN [media EXCEPT ![x.source] = LeftBehind(@)] ELSE media
       /\ misuse' = IF x.branch THEN misuse \cup {"branch"} ELSE misuse
       /\ renderers' = [renderers EXCEPT ![r] =
             [@ EXCEPT !.stage = "gone", !.source = None, !.branch = FALSE,
                       !.sink = None, !.playing = FALSE]]
       /\ frame' = [frame EXCEPT ![th] = Idle]
       /\ UNCHANGED <<registry, mainQ, calls, wanted, raced>>
-----------------------------------------------------------------------------
(* The main loop takes its next task.                                       *)

Lookup(pc, t, h) ==
    /\ frame' = [frame EXCEPT !["main"] = [pc |-> pc, r |-> None, t |-> t, h |-> h, data |-> Found(t)]]
    /\ raced' = Races("main", t)
    /\ UNCHANGED <<media, renderers, registry, misuse>>

ShutdownTask(s) ==
    /\ media' = [media EXCEPT ![s] = ShutDown(@)]
    /\ misuse' = IF UnrefsFreed(media[s]) THEN misuse \cup {"volume"} ELSE misuse
    /\ UNCHANGED <<renderers, registry, frame, raced>>

RunTask ==
    /\ frame["main"] = Idle /\ mainQ # <<>>
    /\ mainQ' = Tail(mainQ)
    /\ LET k == Head(mainQ)
       IN \/ k.task = "set_source" /\ SetSourceTask(k.r, k.s)
          \/ k.task = "register" /\ Lookup("register", k.t, k.h)
          \/ k.task = "unregister" /\ registry[k.t] # None /\ Lookup("unregister", k.t, None)
          \/ /\ k.task = "unregister" /\ registry[k.t] = None
             /\ UNCHANGED <<media, renderers, registry, frame, misuse, raced>>
          \/ k.task = "shutdown" /\ ShutdownTask(k.s)
    /\ UNCHANGED <<calls, wanted>>
-----------------------------------------------------------------------------
(* The application.                                                         *)

Call ==
    /\ frame["app"] = Idle /\ calls < MaxCall
    /\ calls' = calls + 1

Schedule(task) ==
    /\ mainQ' = Append(mainQ, task)
    /\ UNCHANGED <<media, registry, frame, misuse, raced>>

\* owr_video_renderer_new, with the tag of a window; the tag is set first.
NewTagged(r, t) ==
    /\ Call /\ renderers[r].stage = "none"
    /\ renderers' = [renderers EXCEPT ![r].stage = "making", ![r].held = TRUE, ![r].tag = t]
    /\ frame' = [frame EXCEPT !["app"] =
          [pc |-> "renderer", r |-> r, t |-> t, h |-> None, data |-> Found(t)]]
    /\ raced' = Races("app", t)
    /\ UNCHANGED <<media, registry, mainQ, misuse, wanted>>

\* A renderer without a tag has its sink from the start.
New(r) ==
    /\ Call /\ renderers[r].stage = "none"
    /\ renderers' = [renderers EXCEPT ![r].stage = "live", ![r].held = TRUE, ![r].sink = Own]
    /\ UNCHANGED <<media, registry, mainQ, frame, misuse, wanted, raced>>

\* g_object_unref of the application.
Drop(r) ==
    /\ Call /\ renderers[r].stage = "live" /\ renderers[r].held
    /\ LET last == \A i \in DOMAIN mainQ : ~(mainQ[i].task = "set_source" /\ mainQ[i].r = r)
       IN /\ renderers' = [renderers EXCEPT ![r].held = FALSE, ![r].stage = IF last THEN "dying" ELSE @]
          /\ IF last THEN StartFinalize("app", r) ELSE UNCHANGED <<frame, raced>>
    /\ UNCHANGED <<media, registry, mainQ, misuse, wanted>>

\* owr_media_renderer_set_source
SetSource(r, s) ==
    /\ Call /\ renderers[r].stage = "live" /\ renderers[r].held
    /\ renderers' = [renderers EXCEPT ![r].asked = s]
    /\ Schedule([task |-> "set_source", r |-> r, s |-> s])
    /\ UNCHANGED wanted

\* owr_window_registry_register; a tag that has a window keeps it.
Register(t, h) ==
    /\ Call
    /\ wanted' = [wanted EXCEPT ![t] = IF @ = None THEN h ELSE @]
    /\ Schedule([task |-> "register", t |-> t, h |-> h])
    /\ UNCHANGED renderers

\* owr_window_registry_unregister
Unregister(t) ==
    /\ Call
    /\ wanted' = [wanted EXCEPT ![t] = None]
    /\ Schedule([task |-> "unregister", t |-> t])
    /\ UNCHANGED renderers

\* The properties volume and mute: kept for the next start, and set on the element
\* if there is one.
SetVolume(s, l) ==
    /\ Call /\ s \in VolumeElement \cup StreamVolume
    /\ LET m == media[s]
           freed == m.element = 0
           reaches == m.running /\ ~freed
       IN /\ media' = [media EXCEPT ![s].level = l, ![s].applied = IF reaches THEN l ELSE @]
          /\ misuse' = IF freed THEN misuse \cup {"volume"} ELSE misuse
    /\ UNCHANGED <<renderers, registry, mainQ, frame, wanted, raced>>

App ==
    \/ \E r \in Renderer : New(r) \/ Drop(r) \/ (\E t \in Tag : NewTagged(r, t))
    \/ \E r \in Renderer, s \in Source \cup {None} : SetSource(r, s)
    \/ \E t \in Tag : Unregister(t) \/ (\E h \in Handle : Register(t, h))
    \/ \E s \in Source, l \in Level : SetVolume(s, l)

\* What a thread that is in the middle of a function does next.
Continue(th) ==
    \/ th = "main" /\ (DoRegister \/ DoUnregister)
    \/ th = "app" /\ (RegisterRenderer \/ CheckHandle)
    \/ NotifyClear(th) \/ NotifyShow(th) \/ NotifyReturn(th)
    \/ UnregisterRenderer(th) \/ Finalize(th)

Next ==
    \/ App
    \/ RunTask
    \/ \E th \in Thread : Continue(th)
    \/ \E s \in Source : ProbeIdle(s)

Spec == Init /\ [][Next]_vars

\* The threads run, and a streaming thread finds a moment for its idle probes.
FairSpec ==
    /\ Spec
    /\ WF_vars(RunTask)
    /\ \A th \in Thread : WF_vars(Continue(th))
    /\ \A s \in Source : WF_vars(ProbeIdle(s))
-----------------------------------------------------------------------------
(* Properties.                                                              *)

\* Types: the counts of a tee's branches and of the volume's references stay in their
\* ranges, and a thread only holds entries that are there or known to be stale.
TypeOK ==
    /\ media \in [Source -> Media]
    /\ renderers \in [Renderer -> Rendering]
    /\ registry \in [Tag -> Entry \cup {None}]
    /\ mainQ \in Seq(Task)
    /\ frame \in [Thread -> Frame]
    /\ misuse \subseteq {"volume", "registry", "renderer", "branch"}
    /\ calls \in 0..MaxCall
    /\ wanted \in [Tag -> Handle \cup {None}]
    /\ raced \subseteq Tag

Quiet == mainQ = <<>> /\ \A th \in Thread : frame[th] = Idle

Consumers(s) == {r \in Renderer : renderers[r].branch /\ renderers[r].source = s}

\* Every branch of a tee that is not about to leave is the branch of one renderer, whatever
\* order sinks, sources and windows came and went in: none is released twice, and none is left
\* over but the one that each renderer leaves that is finalized while it has a source
\* (owr_media_renderer.c set_source, set_sink and finalize).
BranchesOwned ==
    \A s \in Source :
        media[s].pads = media[s].leaving + media[s].left + Cardinality(Consumers(s))

\* A pipeline is never stopped under a renderer that has a branch of it, although
\* shutdowns are scheduled ahead of the requests that make them void
\* (shutdown_media_source looks at numsrcpads again).
RunsWhileUsed == \A s \in Source : Consumers(s) # {} => media[s].running

\* Once everything has run, the renderer of a tag draws into the window registered
\* for it, whichever of the two came first, and into none once it is unregistered;
\* except after both threads worked on the tag at once.
WindowFound(t) ==
    \A r \in Renderer :
        (renderers[r].stage = "live" /\ renderers[r].tag = t
           /\ (\A q \in Renderer \ {r} : renderers[q].tag # t)) => renderers[r].sink = wanted[t]
WindowReaches == Quiet => \A t \in Tag \ raced : WindowFound(t)

\* A source that nobody uses any more stops, unless somebody takes it again, or a renderer
\* was finalized with it and left its branch behind.
StopsWhenUnused ==
    \A s \in Source :
        (media[s].running /\ Consumers(s) = {}) ~>
            (~media[s].running \/ Consumers(s) # {} \/ media[s].left > 0)

\* A running source applies the volume and mute that were set last, before it started, since,
\* or while it was stopped and its element freed; only while the element of a running pipeline
\* is itself freed, by shutdowns that came too late to stop it, what is set is lost
\* (owr_local_media_source_set_property, shutdown_media_source).
VolumeKept ==
    \A s \in VolumeElement :
        media[s].running /\ media[s].element # 0 => media[s].applied = media[s].level

=============================================================================
