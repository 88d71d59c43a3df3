-------------------------- MODULE LocalMediaProofs --------------------------
(***************************************************************************)
(* Proofs about LocalMedia for any sources, renderers, tags and windows.    *)
(*                                                                         *)
(* That every branch has one owner needs to know that a renderer gets a     *)
(* sink only while it has no branch; this depends on which thread holds it  *)
(* (StageInv, BranchInv), and that on what the two threads find in the      *)
(* registry (EntryInv).  Each part is shown to survive each step: first the *)
(* types, then the parts about frames, entries and renderers (Control_...), *)
(* then the counts of branches (Media_...).  The last section proves that    *)
(* the window an application registers reaches the renderer of its tag.     *)
(***************************************************************************)
EXTENDS LocalMedia, FiniteSetTheorems, TLAPS

----------------------------------------------------------------------------
(* The inductive invariant *)

\* What a thread in the middle of a function has in its hands.
Fits(th, f) ==
    /\ f.pc \in {"renderer", "check"} => th = "app"
    /\ f.pc \in {"register", "unregister"} => th = "main"
    /\ f.pc \in {"renderer", "check", "clear", "show", "return", "finalize", "release"}
          => f.r \in Renderer
    /\ f.pc \in {"register", "unregister", "renderer", "check"} => f.t \in Tag
    /\ f.pc \in {"register", "show"} => f.h \in Handle
FrameInv == \A th \in Thread : Fits(th, frame[th])

\* An entry without a window and a renderer is taken out; one that a thread holds is
\* there; and while the main loop is about to insert an entry, nobody else has set a
\* window, nor found the window of its renderer.
EntryInv ==
    /\ \A t \in Tag : registry[t] # None =>
          registry[t].handle # None \/ registry[t].renderer # None
    /\ \A th \in Thread :
          frame[th].pc \in {"register", "unregister", "renderer"} /\ frame[th].data = "held"
             => registry[frame[th].t] # None
    /\ frame["main"].pc = "register" /\ frame["main"].data = "none" =>
          /\ registry[frame["main"].t] # None => registry[frame["main"].t].handle = None
          /\ ~(frame["app"].pc = "check" /\ frame["app"].t = frame["main"].t)
    /\ frame["app"].pc = "check" =>
          /\ registry[frame["app"].t] # None
          /\ registry[frame["app"].t].renderer = frame["app"].r

\* The life of a renderer: the application gets it when it is made; then it is given
\* sources; the thread that drops the last reference finalizes it, alone.
Finalizing(th) == frame[th].pc \in {"finalize", "release"}
StageInv ==
    /\ frame["app"].pc \in {"renderer", "check", "clear", "show", "return"} =>
          renderers[frame["app"].r].stage = "making"
    /\ \A th \in Thread : Finalizing(th) => renderers[frame[th].r].stage = "dying"
    /\ Finalizing("main") /\ Finalizing("app") => frame["main"].r # frame["app"].r
    /\ \A i \in DOMAIN mainQ : mainQ[i].task = "set_source" =>
          renderers[mainQ[i].r].stage = "live"

\* A renderer with a branch has a source, which it gets once it is made; one whose
\* sink the main loop is changing has no branch.
BranchInv ==
    /\ \A r \in Renderer : renderers[r].stage \in {"none", "making"} => renderers[r].source = None
    /\ \A r \in Renderer : renderers[r].branch => renderers[r].source # None
    /\ frame["main"].pc = "show" =>
          Dead(frame["main"].r) \/ ~renderers[frame["main"].r].branch

\* A tee has branches only while the pipeline runs.
PadsRun == \A s \in Source : media[s].pads > 0 => media[s].running

\* The branches that have left their renderer, released or not.
Away(m) == m.leaving + m.left

MediaInv == BranchesOwned /\ PadsRun

LocalMediaInv ==
    TypeOK /\ FrameInv /\ EntryInv /\ StageInv /\ BranchInv /\ MediaInv

----------------------------------------------------------------------------
(* What the functions make of a source and of a renderer *)

LEMMA MediaFacts ==
    ASSUME NEW m \in Media, NEW s \in Source
    PROVE  /\ Requested(m, s) \in Media
           /\ Requested(m, s).running
           /\ Requested(m, s).pads = m.pads + 1
           /\ Away(Requested(m, s)) = Away(m)
           /\ Released(m) \in Media
           /\ Released(m).running = m.running
           /\ Released(m).pads = m.pads
           /\ Away(Released(m)) = IF m.running THEN Away(m) + 1 ELSE Away(m)
           /\ LeftBehind(m) \in Media
           /\ LeftBehind(m).running = m.running
           /\ LeftBehind(m).pads = m.pads
           /\ Away(LeftBehind(m)) = Away(m) + 1
           /\ ShutDown(m) \in Media
           /\ ShutDown(m).pads = m.pads
           /\ Away(ShutDown(m)) = Away(m)
           /\ m.pads > 0 => ShutDown(m).running = m.running
<1>1. /\ VolumeCreated(m, s) \in Media
      /\ VolumeCreated(m, s).pads = m.pads /\ Away(VolumeCreated(m, s)) = Away(m)
  <2> DEFINE n == [m EXCEPT !.element = 2]
  <2>1. n \in Media /\ n.pads = m.pads /\ Away(n) = Away(m)
    BY DEF Media, NoElement, Away
  <2>2. [n EXCEPT !.applied = m.level] = [m EXCEPT !.element = 2, !.applied = m.level]
    OBVIOUS
  <2>3. ASSUME NEW k \in Media, NEW l \in Level
        PROVE  /\ [k EXCEPT !.applied = l] \in Media
               /\ [k EXCEPT !.applied = l].pads = k.pads
               /\ Away([k EXCEPT !.applied = l]) = Away(k)
    BY DEF Media, Away
  <2>4. m.level \in Level /\ "default" \in Level
    BY DEF Media, Level
  <2> QED BY <2>1, <2>2, <2>3, <2>4 DEF VolumeCreated
<1>2. /\ Started(m, s) \in Media /\ Started(m, s).running
      /\ Started(m, s).pads = m.pads /\ Away(Started(m, s)) = Away(m)
  BY <1>1 DEF Started, Media, Away
<1>3. ASSUME NEW n \in Media
      PROVE  /\ Branched(n) \in Media /\ Branched(n).running = n.running
             /\ Branched(n).pads = n.pads + 1 /\ Away(Branched(n)) = Away(n)
  BY DEF Branched, Media, Away
<1>4. ASSUME NEW n \in Media
      PROVE  /\ VolumeUnreffed(n) \in Media /\ VolumeUnreffed(n).running = n.running
             /\ VolumeUnreffed(n).pads = n.pads /\ Away(VolumeUnreffed(n)) = Away(n)
  <2>1. CASE n.element > 0
    BY <2>1 DEF VolumeUnreffed, Media, NoElement, Away
  <2>2. CASE ~(n.element > 0)
    BY <2>2 DEF VolumeUnreffed, Media, NoElement, Away
  <2> QED BY <2>1, <2>2
<1>5. ASSUME NEW n \in Media
      PROVE  /\ Stopped(n) \in Media
             /\ Stopped(n).pads = n.pads /\ Away(Stopped(n)) = Away(n)
  <2> DEFINE off == [n EXCEPT !.running = FALSE]
  <2>1. off \in Media /\ off.pads = n.pads /\ Away(off) = Away(n)
    BY DEF Media, Away
  <2> QED BY <2>1, <1>4 DEF Stopped
<1>6. /\ Requested(m, s) \in Media /\ Requested(m, s).running
      /\ Requested(m, s).pads = m.pads + 1 /\ Away(Requested(m, s)) = Away(m)
  BY <1>2, <1>3 DEF Requested
<1>7. /\ Released(m) \in Media /\ Released(m).running = m.running
      /\ Released(m).pads = m.pads
      /\ Away(Released(m)) = IF m.running THEN Away(m) + 1 ELSE Away(m)
  BY DEF Released, Media, Away
<1>8. m.pads \in Nat
  BY DEF Media
<1>9. /\ ShutDown(m) \in Media /\ ShutDown(m).pads = m.pads
      /\ Away(ShutDown(m)) = Away(m)
      /\ m.pads > 0 => ShutDown(m).running = m.running
  BY <1>4, <1>5, <1>8 DEF ShutDown
<1>10. /\ LeftBehind(m) \in Media /\ LeftBehind(m).running = m.running
       /\ LeftBehind(m).pads = m.pads /\ Away(LeftBehind(m)) = Away(m) + 1
  BY DEF LeftBehind, Media, Away
<1> QED BY <1>6, <1>7, <1>9, <1>10

\* What becomes of a branch of a running source.
LEMMA BranchFacts ==
    ASSUME NEW m \in Media, NEW s \in Source
    PROVE  /\ Requested(m, s).running /\ Requested(m, s).pads = m.pads + 1
           /\ Away(Requested(m, s)) = Away(m)
           /\ m.running => \A n \in {Released(m), LeftBehind(m)} :
                 n \in Media /\ n.running /\ n.pads = m.pads /\ Away(n) = Away(m) + 1
<1>1. /\ Requested(m, s).running /\ Requested(m, s).pads = m.pads + 1
      /\ Away(Requested(m, s)) = Away(m)
  BY MediaFacts
<1>2. /\ Released(m) \in Media /\ Released(m).running = m.running /\ Released(m).pads = m.pads
      /\ Away(Released(m)) = IF m.running THEN Away(m) + 1 ELSE Away(m)
  BY MediaFacts
<1>3. /\ LeftBehind(m) \in Media /\ LeftBehind(m).running = m.running
      /\ LeftBehind(m).pads = m.pads /\ Away(LeftBehind(m)) = Away(m) + 1
  BY MediaFacts
<1> QED BY <1>1, <1>2, <1>3

LEMMA AwayType ==
    ASSUME NEW m \in Media
    PROVE  m.pads \in Nat /\ m.leaving \in Nat /\ m.left \in Nat /\ Away(m) \in Nat
  BY DEF Media, Away

LEMMA RenderingFacts ==
    ASSUME NEW x \in Rendering, NEW s \in Source \cup {None}, NEW h \in Handle \cup {Own}
    PROVE  /\ WithoutSink(x) \in Rendering
           /\ Shown(x, s) \in Rendering
           /\ MaybeStarted([x EXCEPT !.sink = h, !.playing = FALSE]) \in Rendering
<1>1. WithoutSink(x) \in Rendering
  BY DEF WithoutSink, Rendering
<1>2. Shown(x, s) \in Rendering
  BY DEF Shown, MaybeStarted, Rendering
<1>3. MaybeStarted([x EXCEPT !.sink = h, !.playing = FALSE]) \in Rendering
  BY DEF MaybeStarted, Rendering
<1> QED BY <1>1, <1>2, <1>3

----------------------------------------------------------------------------
(* Types *)

LEMMA FrameFacts ==
    /\ Idle \in Frame
    /\ \A f \in Frame, t \in Tag \cup {None} : Stale(f, t) \in Frame
    /\ \A th \in Thread : Other(th) \in Thread /\ Other(th) # th
  BY DEF Idle, Frame, Stale, Other, Thread

LEMMA RacesType ==
    ASSUME TypeOK, NEW th \in Thread, NEW t \in Tag \cup {None}
    PROVE  Races(th, t) \subseteq Tag
  BY DEF TypeOK, Races

LEMMA TaskFacts ==
    ASSUME TypeOK, mainQ # <<>>
    PROVE  /\ Head(mainQ) \in Task
           /\ Tail(mainQ) \in Seq(Task)
           /\ Head(mainQ) = mainQ[1] /\ 1 \in DOMAIN mainQ
           /\ \A i \in DOMAIN Tail(mainQ) :
                 i + 1 \in DOMAIN mainQ /\ Tail(mainQ)[i] = mainQ[i + 1]
  BY DEF TypeOK

LEMMA TaskFields ==
    ASSUME NEW k \in Task
    PROVE  /\ k.task = "set_source" => k.r \in Renderer /\ k.s \in Source \cup {None}
           /\ k.task = "register" => k.t \in Tag /\ k.h \in Handle
           /\ k.task = "unregister" => k.t \in Tag
           /\ k.task = "shutdown" => k.s \in Source
  BY DEF Task

LEMMA ReturnType ==
    ASSUME TypeOK, NEW th \in Thread, Return(th), th = "app" => frame[th].r \in Renderer
    PROVE  /\ media' \in [Source -> Media]
           /\ renderers' \in [Renderer -> Rendering]
           /\ frame' \in [Thread -> Frame]
           /\ \A r \in Renderer :
                 /\ renderers'[r].source = renderers[r].source
                 /\ renderers'[r].branch = renderers[r].branch
<1>1. frame' \in [Thread -> Frame]
  BY FrameFacts DEF Return, TypeOK
<1>2. ASSUME NEW x \in Rendering
      PROVE  /\ [x EXCEPT !.stage = "live"] \in Rendering
             /\ [x EXCEPT !.stage = "live"].source = x.source
             /\ [x EXCEPT !.stage = "live"].branch = x.branch
  BY DEF Rendering
<1>3. \/ renderers' = renderers
      \/ /\ frame[th].r \in Renderer
         /\ renderers' = [renderers EXCEPT ![frame[th].r] = [@ EXCEPT !.stage = "live"]]
  BY DEF Return
<1> QED BY <1>1, <1>2, <1>3 DEF Return, TypeOK

LEMMA GoType ==
    ASSUME TypeOK, NEW th \in Thread, NEW pc, NEW r \in Renderer,
           NEW h \in Handle \cup {None}, Go(th, pc, r, h), pc \in {"clear", "check"}
    PROVE  /\ media' \in [Source -> Media]
           /\ renderers' \in [Renderer -> Rendering]
           /\ frame' \in [Thread -> Frame]
<1> DEFINE f == frame[th]
           g == [f EXCEPT !.pc = pc, !.r = r, !.h = h]
<1>1. f \in Frame
  BY DEF TypeOK
<1>2. g \in Frame
  BY <1>1 DEF Frame
<1>3. frame' = [frame EXCEPT ![th] = g]
  BY DEF Go, TypeOK
<1>4. frame' \in [Thread -> Frame]
  BY <1>2, <1>3 DEF TypeOK
<1> QED BY <1>4 DEF Go, TypeOK

LEMMA InsertType ==
    ASSUME TypeOK, NEW th \in Thread, NEW t \in Tag, NEW entry \in Entry,
           Insert(th, t, entry), th = "app" => frame[th].r \in Renderer
    PROVE  /\ media' \in [Source -> Media]
           /\ renderers' \in [Renderer -> Rendering]
           /\ registry' \in [Tag -> Entry \cup {None}]
           /\ frame' \in [Thread -> Frame]
           /\ \A r \in Renderer :
                 /\ renderers'[r].source = renderers[r].source
                 /\ renderers'[r].branch = renderers[r].branch
<1>1. frame' \in [Thread -> Frame]
  BY FrameFacts DEF Insert, TypeOK
<1>2. ASSUME NEW x \in Rendering
      PROVE  /\ [x EXCEPT !.stage = "live"] \in Rendering
             /\ [x EXCEPT !.stage = "live"].source = x.source
             /\ [x EXCEPT !.stage = "live"].branch = x.branch
  BY DEF Rendering
<1>3. \/ renderers' = renderers
      \/ /\ frame[th].r \in Renderer
         /\ renderers' = [renderers EXCEPT ![frame[th].r] = [@ EXCEPT !.stage = "live"]]
  BY DEF Insert
<1> QED BY <1>1, <1>2, <1>3 DEF Insert, TypeOK

LEMMA ClearSinkType ==
    ASSUME TypeOK, NEW r \in Renderer, ClearSink(r),
           renderers[r].branch => renderers[r].source # None
    PROVE  /\ media' \in [Source -> Media]
           /\ renderers' \in [Renderer -> Rendering]
<1>1. renderers[r] \in Rendering /\ renderers[r].source \in Source \cup {None}
  BY DEF TypeOK, Rendering
<1>2. renderers' \in [Renderer -> Rendering]
  BY <1>1, RenderingFacts DEF ClearSink, TypeOK
<1>3. media' \in [Source -> Media]
  BY <1>1, MediaFacts DEF ClearSink, TypeOK
<1> QED BY <1>2, <1>3

LEMMA SetSinkType ==
    ASSUME TypeOK, NEW r \in Renderer, NEW h \in Handle, SetSink(r, h)
    PROVE  /\ media' \in [Source -> Media]
           /\ renderers' \in [Renderer -> Rendering]
<1> DEFINE x == MaybeStarted([renderers[r] EXCEPT !.sink = h, !.playing = FALSE])
<1>1. x \in Rendering /\ x.source \in Source \cup {None}
  BY RenderingFacts DEF TypeOK, Rendering
<1>2. Requests(x) => x.source \in Source
  BY <1>1 DEF Requests
<1>3. /\ renderers' = [renderers EXCEPT ![r] = x]
      /\ media' = IF Requests(x) THEN [media EXCEPT ![x.source] = Requested(@, x.source)]
                  ELSE media
  BY DEF SetSink
<1> HIDE DEF x
<1>4. media' \in [Source -> Media]
  <2>1. CASE Requests(x)
    <3>1. x.source \in Source /\ media[x.source] \in Media
      BY <1>2, <2>1 DEF TypeOK
    <3>2. Requested(media[x.source], x.source) \in Media
      BY <3>1, MediaFacts
    <3> QED BY <1>3, <2>1, <3>1, <3>2 DEF TypeOK
  <2>2. CASE ~Requests(x)
    BY <1>3, <2>2 DEF TypeOK
  <2> QED BY <2>1, <2>2
<1> QED BY <1>1, <1>3, <1>4 DEF TypeOK

LEMMA ReplacedType ==
    ASSUME NEW m \in [Source -> Media], NEW x \in Rendering, NEW s \in Source \cup {None},
           x.branch => x.source # None
    PROVE  Replaced(m, x, s) \in [Source -> Media]
<1> DEFINE out == IF x.branch THEN [m EXCEPT ![x.source] = Released(@)] ELSE m
<1>1. x.source \in Source \cup {None}
  BY DEF Rendering
<1>2. out \in [Source -> Media]
  BY <1>1, MediaFacts
<1>3. s # None => [out EXCEPT ![s] = Requested(@, s)] \in [Source -> Media]
  <2>1. ASSUME s # None PROVE s \in Source /\ Requested(out[s], s) \in Media
    BY <1>2, <2>1, MediaFacts
  <2> QED BY <1>2, <2>1
<1> QED BY <1>2, <1>3 DEF Replaced

LEMMA TypeOK_App ==
    ASSUME TypeOK, App
    PROVE  TypeOK'
<1> USE DEF Call
<1>0. "app" \in Thread /\ "main" \in Thread
  BY DEF Thread
<1>1. ASSUME NEW r \in Renderer, New(r) PROVE TypeOK'
  <2>1. \A x \in Rendering : [x EXCEPT !.stage = "live", !.held = TRUE, !.sink = Own] \in Rendering
    BY DEF Rendering
  <2>2. renderers' \in [Renderer -> Rendering]
    BY <1>1, <2>1 DEF New, TypeOK
  <2> QED BY <1>1, <2>2, BoundAssumption DEF New, TypeOK
<1>2. ASSUME NEW r \in Renderer, Drop(r) PROVE TypeOK'
  <2>1. \A x \in Rendering : /\ [x EXCEPT !.held = FALSE, !.stage = "dying"] \in Rendering
                             /\ [x EXCEPT !.held = FALSE, !.stage = x.stage] \in Rendering
    BY DEF Rendering
  <2>2. renderers' \in [Renderer -> Rendering]
    BY <1>2, <2>1 DEF Drop, TypeOK
  <2>3. renderers[r].tag \in Tag \cup {None}
    BY DEF TypeOK, Rendering
  <2>4. [Idle EXCEPT !.pc = "finalize", !.r = r, !.t = renderers[r].tag] \in Frame
    BY <2>3 DEF Idle, Frame
  <2>5. Races("app", renderers[r].tag) \subseteq Tag
    BY <1>0, <2>3, RacesType
  <2>6. frame' \in [Thread -> Frame] /\ raced' \subseteq Tag
    BY <1>2, <1>0, <2>4, <2>5 DEF Drop, StartFinalize, TypeOK
  <2> QED BY <1>2, <2>2, <2>6, BoundAssumption DEF Drop, TypeOK
<1>3. ASSUME NEW r \in Renderer, NEW t \in Tag, NewTagged(r, t) PROVE TypeOK'
  <2>1. \A x \in Rendering : [x EXCEPT !.stage = "making", !.held = TRUE, !.tag = t] \in Rendering
    BY DEF Rendering
  <2>2. renderers' \in [Renderer -> Rendering]
    BY <1>3, <2>1 DEF NewTagged, TypeOK
  <2>3. [pc |-> "renderer", r |-> r, t |-> t, h |-> None, data |-> Found(t)] \in Frame
    BY DEF Frame, Found
  <2>4. frame' \in [Thread -> Frame] /\ raced' \subseteq Tag
    BY <1>3, <1>0, <2>3, RacesType DEF NewTagged, TypeOK
  <2> QED BY <1>3, <2>2, <2>4, BoundAssumption DEF NewTagged, TypeOK
<1>4. ASSUME NEW r \in Renderer, NEW s \in Source \cup {None}, SetSource(r, s) PROVE TypeOK'
  <2>1. \A x \in Rendering : [x EXCEPT !.asked = s] \in Rendering
    BY DEF Rendering
  <2>2. renderers' \in [Renderer -> Rendering]
    BY <1>4, <2>1 DEF SetSource, TypeOK
  <2>3. [task |-> "set_source", r |-> r, s |-> s] \in Task
    BY DEF Task
  <2> QED BY <1>4, <2>2, <2>3, BoundAssumption DEF SetSource, Schedule, TypeOK
<1>5. ASSUME NEW t \in Tag, Unregister(t) PROVE TypeOK'
  <2>1. [task |-> "unregister", t |-> t] \in Task
    BY DEF Task
  <2> QED BY <1>5, <2>1, BoundAssumption DEF Unregister, Schedule, TypeOK
<1>6. ASSUME NEW t \in Tag, NEW h \in Handle, Register(t, h) PROVE TypeOK'
  <2>1. [task |-> "register", t |-> t, h |-> h] \in Task
    BY DEF Task
  <2> QED BY <1>6, <2>1, BoundAssumption DEF Register, Schedule, TypeOK
<1>7. ASSUME NEW s \in Source, NEW l \in Level, SetVolume(s, l) PROVE TypeOK'
  <2>1. \A m \in Media : /\ [m EXCEPT !.level = l, !.applied = l] \in Media
                         /\ [m EXCEPT !.level = l, !.applied = m.applied] \in Media
    <3>1. ASSUME NEW m \in Media, NEW k \in Level
          PROVE  [m EXCEPT !.level = l, !.applied = k] \in Media
      <4>1. [m EXCEPT !.level = l, !.applied = k] = [[m EXCEPT !.level = l] EXCEPT !.applied = k]
        OBVIOUS
      <4>2. [m EXCEPT !.level = l] \in Media
        BY DEF Media
      <4>3. \A n \in Media : [n EXCEPT !.applied = k] \in Media
        BY DEF Media
      <4> QED BY <4>1, <4>2, <4>3
    <3>2. \A m \in Media : m.applied \in Level
      BY DEF Media
    <3> QED BY <3>1, <3>2
  <2>2. media' \in [Source -> Media]
    BY <1>7, <2>1 DEF SetVolume, TypeOK
  <2> QED BY <1>7, <2>2, BoundAssumption DEF SetVolume, TypeOK
<1> QED BY <1>1, <1>2, <1>3, <1>4, <1>5, <1>6, <1>7 DEF App

LEMMA TypeOK_RunTask ==
    ASSUME TypeOK, BranchInv, RunTask
    PROVE  TypeOK'
<1>0. "main" \in Thread
  BY DEF Thread
<1> DEFINE k == Head(mainQ)
<1>1. /\ mainQ # <<>> /\ mainQ' = Tail(mainQ)
      /\ calls' = calls /\ wanted' = wanted
      /\ k \in Task /\ mainQ' \in Seq(Task)
  BY TaskFacts DEF RunTask
<1>2. CASE k.task = "set_source" /\ SetSourceTask(k.r, k.s)
  <2>1. k.r \in Renderer /\ k.s \in Source \cup {None}
    BY <1>1, <1>2, TaskFields
  <2> DEFINE x == renderers[k.r]
             new == IF k.s = x.source THEN x ELSE Shown(x, k.s)
  <2>2. x \in Rendering /\ (x.branch => x.source # None) /\ x.tag \in Tag \cup {None}
    BY <2>1 DEF BranchInv, TypeOK, Rendering
  <2>3. new \in Rendering
    BY <2>1, <2>2, RenderingFacts
  <2>4. \A y \in Rendering : [y EXCEPT !.stage = "dying"] \in Rendering
    BY DEF Rendering
  <2>5. renderers' = [renderers EXCEPT ![k.r] =
                        IF ~Refs(k.r, Tail(mainQ)) THEN [new EXCEPT !.stage = "dying"] ELSE new]
    BY <1>2 DEF SetSourceTask
  <2>6. media' = IF k.s = x.source THEN media ELSE Replaced(media, x, k.s)
    BY <1>2 DEF SetSourceTask
  <2>7. Replaced(media, x, k.s) \in [Source -> Media] /\ media \in [Source -> Media]
    BY <2>1, <2>2, ReplacedType DEF TypeOK
  <2>8. [Idle EXCEPT !.pc = "finalize", !.r = k.r, !.t = x.tag] \in Frame
    BY <2>1, <2>2 DEF Idle, Frame
  <2>9. Races("main", x.tag) \subseteq Tag
    BY <1>0, <2>2, RacesType
  <2>10. frame' \in [Thread -> Frame] /\ raced' \subseteq Tag
    BY <1>0, <1>2, <2>8, <2>9 DEF SetSourceTask, StartFinalize, TypeOK
  <2>11. registry' = registry /\ misuse' = misuse
    BY <1>2 DEF SetSourceTask
  <2> HIDE DEF new, x, k
  <2>12. renderers' \in [Renderer -> Rendering]
    BY <2>1, <2>3, <2>4, <2>5 DEF TypeOK
  <2> QED BY <1>1, <2>6, <2>7, <2>10, <2>11, <2>12 DEF TypeOK
<1>3. ASSUME NEW pc \in {"register", "unregister"}, NEW t \in Tag, NEW h \in Handle \cup {None},
             Lookup(pc, t, h)
      PROVE  TypeOK'
  <2>1. [pc |-> pc, r |-> None, t |-> t, h |-> h, data |-> Found(t)] \in Frame
    BY DEF Frame, Found
  <2>2. frame' \in [Thread -> Frame] /\ raced' \subseteq Tag
    BY <1>0, <1>3, <2>1, RacesType DEF Lookup, TypeOK
  <2> QED BY <1>1, <1>3, <2>2 DEF Lookup, TypeOK
<1>4. CASE k.task = "register" /\ Lookup("register", k.t, k.h)
  BY <1>1, <1>3, <1>4, TaskFields
<1>5. CASE k.task = "unregister" /\ Lookup("unregister", k.t, None)
  BY <1>1, <1>3, <1>5, TaskFields
<1>6. CASE UNCHANGED <<media, renderers, registry, frame, misuse, raced>>
  BY <1>1, <1>6 DEF TypeOK
<1>7. CASE k.task = "shutdown" /\ ShutdownTask(k.s)
  <2>1. k.s \in Source
    BY <1>1, <1>7, TaskFields
  <2>2. media' \in [Source -> Media]
    BY <1>7, <2>1, MediaFacts DEF ShutdownTask, TypeOK
  <2> QED BY <1>1, <1>7, <2>2 DEF ShutdownTask, TypeOK
<1> QED BY <1>2, <1>4, <1>5, <1>6, <1>7 DEF RunTask

LEMMA TypeOK_Continue ==
    ASSUME TypeOK, FrameInv, EntryInv, BranchInv, NEW th \in Thread, Continue(th)
    PROVE  TypeOK'
<1>0. /\ "app" \in Thread /\ "main" \in Thread
      /\ frame["main"] \in Frame /\ frame["app"] \in Frame /\ frame[th] \in Frame
  BY DEF Thread, TypeOK
<1>e. ASSUME NEW t \in Tag, registry[t] # None
      PROVE  /\ registry[t] \in Entry
             /\ registry[t].renderer \in Renderer \cup {None}
             /\ registry[t].handle \in Handle \cup {None}
             /\ \A h \in Handle \cup {None} : [registry[t] EXCEPT !.handle = h] \in Entry
             /\ \A r \in Renderer \cup {None} : [registry[t] EXCEPT !.renderer = r] \in Entry
  BY <1>e DEF TypeOK, Entry
<1>m. ASSUME NEW u \in Thread, NEW kind \in {"registry", "renderer"}, Misused(u, kind),
             u = "app" => frame[u].r \in Renderer,
             UNCHANGED <<mainQ, calls, wanted, raced>>
      PROVE  TypeOK'
  BY <1>m, ReturnType DEF Misused, TypeOK
<1>i. ASSUME NEW u \in Thread, NEW t \in Tag, NEW entry \in Entry, Insert(u, t, entry),
             u = "app" => frame[u].r \in Renderer,
             UNCHANGED <<mainQ, calls, wanted, raced>>
      PROVE  TypeOK'
  <2>1. misuse' = misuse
    BY <1>i DEF Insert
  <2> QED BY <1>i, <2>1, InsertType DEF TypeOK
<1>r. ASSUME NEW u \in Thread, Return(u), u = "app" => frame[u].r \in Renderer,
             registry' \in [Tag -> Entry \cup {None}], UNCHANGED misuse,
             UNCHANGED <<mainQ, calls, wanted, raced>>
      PROVE  TypeOK'
  BY <1>r, ReturnType DEF TypeOK
<1>g. ASSUME NEW u \in Thread, NEW pc \in {"clear", "check"}, NEW r \in Renderer,
             NEW h \in Handle \cup {None}, Go(u, pc, r, h),
             registry' \in [Tag -> Entry \cup {None}], UNCHANGED misuse,
             UNCHANGED <<mainQ, calls, wanted, raced>>
      PROVE  TypeOK'
  BY <1>g, GoType DEF TypeOK
<1>1. CASE DoRegister
  <2> DEFINE f == frame["main"]
             entry == registry[f.t]
  <2>1. f.pc = "register" /\ f.t \in Tag /\ f.h \in Handle
        /\ UNCHANGED <<mainQ, calls, wanted, raced>>
    BY <1>0, <1>1 DEF DoRegister, FrameInv, Fits
  <2>2. CASE f.data = "none" /\ Insert("main", f.t, [handle |-> f.h, renderer |-> None])
    <3>1. [handle |-> f.h, renderer |-> None] \in Entry
      BY <2>1 DEF Entry
    <3> QED BY <1>0, <1>i, <2>1, <2>2, <3>1
  <2>3. CASE f.data = "stale" /\ Misused("main", "registry")
    BY <1>0, <1>m, <2>1, <2>3
  <2>4. CASE f.data = "held" /\ Return("main") /\ UNCHANGED <<registry, misuse>>
    <3>1. registry' \in [Tag -> Entry \cup {None}]
      BY <2>4 DEF TypeOK
    <3> QED BY <1>0, <1>r, <2>1, <2>4, <3>1
  <2>5. CASE /\ f.data = "held"
             /\ registry' = [registry EXCEPT ![f.t].handle = f.h]
             /\ IF entry.renderer = None THEN Return("main")
                ELSE Go("main", "clear", entry.renderer, f.h)
             /\ UNCHANGED misuse
    <3>1. entry # None
      BY <1>0, <2>1, <2>5 DEF EntryInv
    <3>2. registry' \in [Tag -> Entry \cup {None}]
      BY <1>e, <2>1, <2>5, <3>1 DEF TypeOK
    <3>3. CASE entry.renderer = None
      BY <1>0, <1>r, <2>1, <2>5, <3>2, <3>3
    <3>4. CASE entry.renderer # None
      <4>1. entry.renderer \in Renderer
        BY <1>e, <2>1, <3>1, <3>4
      <4> QED BY <1>0, <1>g, <2>1, <2>5, <3>2, <3>4, <4>1
    <3> QED BY <3>3, <3>4
  <2> QED BY <1>1, <2>1, <2>2, <2>3, <2>4, <2>5 DEF DoRegister
<1>2. CASE DoUnregister
  <2> DEFINE f == frame["main"]
             entry == registry[f.t]
  <2>1. f.pc = "unregister" /\ f.t \in Tag /\ UNCHANGED <<mainQ, calls, wanted, raced>>
    BY <1>0, <1>2 DEF DoUnregister, FrameInv, Fits
  <2>2. CASE f.data = "stale" /\ Misused("main", "registry")
    BY <1>0, <1>m, <2>1, <2>2
  <2>3. CASE /\ f.data = "held" /\ entry.renderer # None
             /\ registry' = [registry EXCEPT ![f.t].handle = None]
             /\ Go("main", "clear", entry.renderer, None)
             /\ UNCHANGED misuse
    <3>1. entry # None
      BY <1>0, <2>1, <2>3 DEF EntryInv
    <3>2. registry' \in [Tag -> Entry \cup {None}]
      BY <1>e, <2>1, <2>3, <3>1 DEF TypeOK
    <3>3. entry.renderer \in Renderer
      BY <1>e, <2>1, <2>3, <3>1
    <3> QED BY <1>0, <1>g, <2>1, <2>3, <3>2, <3>3
  <2>4. CASE /\ f.data = "held" /\ entry.renderer = None
             /\ registry' = [registry EXCEPT ![f.t] = None]
             /\ frame' = [frame EXCEPT !["main"] = Idle, !["app"] = Stale(@, f.t)]
             /\ UNCHANGED <<media, renderers, misuse>>
    <3>1. frame' \in [Thread -> Frame]
      BY <1>0, <2>1, <2>4, FrameFacts DEF TypeOK
    <3> QED BY <2>1, <2>4, <3>1 DEF TypeOK
  <2> QED BY <1>2, <2>1, <2>2, <2>3, <2>4 DEF DoUnregister
<1>3. CASE RegisterRenderer
  <2> DEFINE f == frame["app"]
  <2>1. /\ f.pc = "renderer" /\ f.t \in Tag /\ f.r \in Renderer
        /\ UNCHANGED <<mainQ, calls, wanted, raced>>
    BY <1>0, <1>3 DEF RegisterRenderer, FrameInv, Fits
  <2>2. CASE f.data = "none" /\ Insert("app", f.t, [handle |-> None, renderer |-> f.r])
    <3>1. [handle |-> None, renderer |-> f.r] \in Entry
      BY <2>1 DEF Entry
    <3> QED BY <1>0, <1>i, <2>1, <2>2, <3>1
  <2>3. CASE f.data = "stale" /\ Misused("app", "registry")
    BY <1>0, <1>m, <2>1, <2>3
  <2>4. CASE Return("app") /\ UNCHANGED <<registry, misuse>>
    <3>1. registry' \in [Tag -> Entry \cup {None}]
      BY <2>4 DEF TypeOK
    <3> QED BY <1>0, <1>r, <2>1, <2>4, <3>1
  <2>5. CASE /\ f.data = "held"
             /\ registry' = [registry EXCEPT ![f.t].renderer = f.r]
             /\ Go("app", "check", f.r, None)
             /\ UNCHANGED misuse
    <3>1. registry[f.t] # None
      BY <1>0, <2>1, <2>5 DEF EntryInv
    <3>2. registry' \in [Tag -> Entry \cup {None}]
      BY <1>e, <2>1, <2>5, <3>1 DEF TypeOK
    <3> QED BY <1>0, <1>g, <2>1, <2>5, <3>2
  <2> QED BY <1>3, <2>1, <2>2, <2>3, <2>4, <2>5 DEF RegisterRenderer
<1>4. CASE CheckHandle
  <2> DEFINE f == frame["app"]
  <2>1. /\ f.pc = "check" /\ f.t \in Tag /\ f.r \in Renderer
        /\ UNCHANGED <<registry, mainQ, misuse, calls, wanted, raced>>
    BY <1>0, <1>4 DEF CheckHandle, FrameInv, Fits
  <2>2. registry' \in [Tag -> Entry \cup {None}]
    BY <2>1 DEF TypeOK
  <2>3. CASE Return("app")
    BY <1>0, <1>r, <2>1, <2>2, <2>3
  <2>4. CASE Go("app", "clear", f.r, registry[f.t].handle)
    <3>1. registry[f.t].handle \in Handle \cup {None}
      BY <1>e, <2>1 DEF EntryInv
    <3> QED BY <1>0, <1>g, <2>1, <2>2, <2>4, <3>1
  <2> QED BY <1>4, <2>3, <2>4 DEF CheckHandle
<1>5. CASE NotifyClear(th)
  <2>1. frame[th].r \in Renderer /\ UNCHANGED <<mainQ, calls, wanted, raced>>
    BY <1>5 DEF NotifyClear, FrameInv, Fits
  <2>2. CASE Misused(th, "renderer")
    BY <1>m, <2>1, <2>2
  <2>3. CASE /\ ClearSink(frame[th].r)
             /\ frame' = [frame EXCEPT ![th].pc = IF frame[th].h = None THEN "return" ELSE "show"]
             /\ UNCHANGED <<registry, misuse>>
    <3>1. \A f \in Frame : /\ [f EXCEPT !.pc = "return"] \in Frame
                           /\ [f EXCEPT !.pc = "show"] \in Frame
      BY DEF Frame
    <3>2. frame' \in [Thread -> Frame]
      BY <2>3, <3>1 DEF TypeOK
    <3>3. media' \in [Source -> Media] /\ renderers' \in [Renderer -> Rendering]
      BY <2>1, <2>3, ClearSinkType DEF BranchInv
    <3> QED BY <2>1, <2>3, <3>2, <3>3 DEF TypeOK
  <2> QED BY <1>5, <2>2, <2>3 DEF NotifyClear
<1>6. CASE NotifyShow(th)
  <2>1. /\ frame[th].r \in Renderer /\ frame[th].h \in Handle
        /\ UNCHANGED <<mainQ, calls, wanted, raced>>
    BY <1>6 DEF NotifyShow, FrameInv, Fits
  <2>2. CASE Misused(th, "renderer")
    BY <1>m, <2>1, <2>2
  <2>3. CASE /\ SetSink(frame[th].r, frame[th].h)
             /\ frame' = [frame EXCEPT ![th].pc = "return"]
             /\ UNCHANGED <<registry, misuse>>
    <3>1. \A f \in Frame : [f EXCEPT !.pc = "return"] \in Frame
      BY DEF Frame
    <3>2. frame' \in [Thread -> Frame]
      BY <2>3, <3>1 DEF TypeOK
    <3>3. media' \in [Source -> Media] /\ renderers' \in [Renderer -> Rendering]
      BY <2>1, <2>3, SetSinkType
    <3> QED BY <2>1, <2>3, <3>2, <3>3 DEF TypeOK
  <2> QED BY <1>6, <2>2, <2>3 DEF NotifyShow
<1>7. CASE NotifyReturn(th)
  <2>1. frame[th].r \in Renderer /\ registry' \in [Tag -> Entry \cup {None}]
    BY <1>7 DEF NotifyReturn, FrameInv, Fits, TypeOK
  <2> QED BY <1>7, <1>r, <2>1 DEF NotifyReturn
<1>8. CASE UnregisterRenderer(th)
  <2> DEFINE f == frame[th]
  <2>1. f.r \in Renderer /\ f.t \in Tag \cup {None}
    BY <1>0, <1>8 DEF UnregisterRenderer, FrameInv, Fits, Frame
  <2>2. registry' \in [Tag -> Entry \cup {None}]
    <3>1. CASE f.t # None /\ registry[f.t] # None
      <4>1. Unregistered(f.t, f.r) \in [Tag -> Entry \cup {None}]
        BY <1>e, <2>1, <3>1 DEF Unregistered, TypeOK
      <4> QED BY <1>8, <4>1 DEF UnregisterRenderer, TypeOK
    <3>2. CASE ~(f.t # None /\ registry[f.t] # None)
      BY <1>8, <3>2 DEF UnregisterRenderer, TypeOK
    <3> QED BY <3>1, <3>2
  <2>3. \A g \in Frame : [g EXCEPT !.pc = "release"] \in Frame
    BY DEF Frame
  <2>4. frame' \in [Thread -> Frame]
    <3>1. Other(th) \in Thread /\ Other(th) # th /\ frame[Other(th)] \in Frame
      BY FrameFacts DEF TypeOK
    <3>2. Stale(frame[Other(th)], f.t) \in Frame
      BY <2>1, <3>1, FrameFacts
    <3>3. PICK g \in Frame : frame' = [frame EXCEPT ![th] = [@ EXCEPT !.pc = "release"], ![Other(th)] = g]
      BY <1>8, <3>1, <3>2 DEF UnregisterRenderer
    <3> QED BY <1>0, <2>3, <3>1, <3>3 DEF TypeOK
  <2> QED BY <1>8, <2>2, <2>4 DEF UnregisterRenderer, TypeOK
<1>9. CASE Finalize(th)
  <2> DEFINE r == frame[th].r
             x == renderers[r]
  <2>1. r \in Renderer
    BY <1>9 DEF Finalize, FrameInv, Fits
  <2>2. \A y \in Rendering : [y EXCEPT !.stage = "gone", !.source = None, !.branch = FALSE,
                                      !.sink = None, !.playing = FALSE] \in Rendering
    BY DEF Rendering
  <2>3. renderers' \in [Renderer -> Rendering]
    BY <1>9, <2>1, <2>2 DEF Finalize, TypeOK
  <2>4. x.branch => x.source \in Source
    BY <2>1 DEF BranchInv, TypeOK, Rendering
  <2>5. media' \in [Source -> Media]
    BY <1>9, <2>4, MediaFacts DEF Finalize, TypeOK
  <2>6. frame' \in [Thread -> Frame]
    BY <1>9, FrameFacts DEF Finalize, TypeOK
  <2>7. misuse' \subseteq {"volume", "registry", "renderer", "branch"}
    BY <1>9 DEF Finalize, TypeOK
  <2> QED BY <1>9, <2>3, <2>5, <2>6, <2>7 DEF Finalize, TypeOK
<1> QED BY <1>1, <1>2, <1>3, <1>4, <1>5, <1>6, <1>7, <1>8, <1>9 DEF Continue

LEMMA ConsumersFinite ==
    ASSUME NEW s \in Source
    PROVE  IsFiniteSet(Consumers(s)) /\ Cardinality(Consumers(s)) \in Nat
  BY RendererAssumption, FS_Subset, FS_CardinalityType DEF Consumers

LEMMA TypeOK_ProbeIdle ==
    ASSUME TypeOK, MediaInv, NEW s \in Source, ProbeIdle(s)
    PROVE  TypeOK'
<1>1. media[s] \in Media /\ media[s].leaving > 0
      /\ media[s].leaving \in Nat /\ media[s].pads \in Nat
  BY DEF TypeOK, ProbeIdle, Media
<1>2. media[s].leaving - 1 \in Nat /\ media[s].pads - 1 \in Nat
  <2>1. media[s].pads = media[s].leaving + media[s].left + Cardinality(Consumers(s))
    BY DEF MediaInv, BranchesOwned
  <2> QED BY <1>1, <2>1, AwayType, ConsumersFinite
<1>3. \A m \in Media, i, j \in Nat : [[m EXCEPT !.leaving = i] EXCEPT !.pads = j] \in Media
  <2>1. \A m \in Media, i \in Nat : [m EXCEPT !.leaving = i] \in Media
    BY DEF Media
  <2>2. \A m \in Media, i \in Nat : [m EXCEPT !.pads = i] \in Media
    BY DEF Media
  <2> QED BY <2>1, <2>2
<1> DEFINE a == media[s].leaving - 1
           b == media[s].pads - 1
           m == [media[s] EXCEPT !.leaving = a]
           n == [m EXCEPT !.pads = b]
<1>4. media' = [media EXCEPT ![s].leaving = a, ![s].pads = b]
  BY DEF ProbeIdle
<1>5. media' \in [Source -> Media]
  <2>1. n \in Media
    BY <1>1, <1>2, <1>3
  <2> HIDE DEF a, b
  <2>2. [media EXCEPT ![s].leaving = a, ![s].pads = b] = [media EXCEPT ![s] = n]
    BY DEF TypeOK
  <2> HIDE DEF n
  <2> QED BY <1>4, <2>1, <2>2 DEF TypeOK
<1>6. [task |-> "shutdown", s |-> s] \in Task
  BY DEF Task
<1> QED BY <1>5, <1>6 DEF ProbeIdle, TypeOK

----------------------------------------------------------------------------
(* What a thread's step does, field by field *)

Same(f, g) == f.pc = g.pc /\ f.r = g.r /\ f.t = g.t /\ f.h = g.h

LEMMA IdleFacts ==
    ASSUME NEW th \in Thread
    PROVE  /\ Idle.pc = "idle" /\ Fits(th, Idle)
           /\ \A f \in Frame : \A t : Same(Stale(f, t), f)
           /\ \A f \in Frame : \A t : Stale(f, t).data = "held" => f.data = "held" /\ f.t # t
           /\ \A f \in Frame : \A t : Stale(f, t).data = "none" => f.data = "none"
  BY DEF Idle, Fits, Same, Stale, Frame

LEMMA ReturnEffect ==
    ASSUME TypeOK, NEW th \in Thread, Return(th), th = "app" => frame[th].r \in Renderer
    PROVE  /\ frame'[th] = Idle /\ frame'[Other(th)] = frame[Other(th)]
           /\ \A r \in Renderer :
                 /\ renderers'[r].source = renderers[r].source
                 /\ renderers'[r].branch = renderers[r].branch
                 /\ \/ renderers'[r].stage = renderers[r].stage
                    \/ /\ th = "app" /\ r = frame[th].r /\ renderers'[r].stage = "live"
                       /\ renderers[r].stage = "making"
<1>1. frame'[th] = Idle /\ frame'[Other(th)] = frame[Other(th)]
  BY FrameFacts DEF Return, TypeOK
<1>2. ASSUME NEW x \in Rendering
      PROVE  /\ [x EXCEPT !.stage = "live"].stage = "live"
             /\ [x EXCEPT !.stage = "live"].source = x.source
             /\ [x EXCEPT !.stage = "live"].branch = x.branch
  BY DEF Rendering
<1>3. \/ renderers' = renderers
      \/ /\ th = "app" /\ frame[th].r \in Renderer /\ renderers[frame[th].r].stage = "making"
         /\ renderers' = [renderers EXCEPT ![frame[th].r] = [@ EXCEPT !.stage = "live"]]
  BY DEF Return
<1>4. ASSUME NEW r \in Renderer
      PROVE  /\ renderers'[r].source = renderers[r].source
             /\ renderers'[r].branch = renderers[r].branch
             /\ \/ renderers'[r].stage = renderers[r].stage
                \/ /\ th = "app" /\ r = frame[th].r /\ renderers'[r].stage = "live"
                   /\ renderers[r].stage = "making"
  <2>1. renderers[r] \in Rendering
    BY DEF TypeOK
  <2>2. CASE renderers' = renderers
    BY <2>2
  <2>3. CASE renderers' # renderers /\ r = frame[th].r
    <3>1. renderers'[r] = [renderers[r] EXCEPT !.stage = "live"]
      BY <1>3, <2>3 DEF TypeOK
    <3> QED BY <1>2, <1>3, <2>1, <2>3, <3>1
  <2>4. CASE renderers' # renderers /\ r # frame[th].r
    <3>1. renderers'[r] = renderers[r]
      BY <1>3, <2>4 DEF TypeOK
    <3> QED BY <3>1
  <2> QED BY <2>2, <2>3, <2>4
<1> QED BY <1>1, <1>4

LEMMA InsertEffect ==
    ASSUME TypeOK, NEW th \in Thread, NEW t \in Tag, NEW entry, Insert(th, t, entry),
           th = "app" => frame[th].r \in Renderer
    PROVE  /\ frame'[th] = Idle /\ frame'[Other(th)] = Stale(frame[Other(th)], t)
           /\ registry' = [registry EXCEPT ![t] = entry]
           /\ \A r \in Renderer :
                 /\ renderers'[r].source = renderers[r].source
                 /\ renderers'[r].branch = renderers[r].branch
                 /\ \/ renderers'[r].stage = renderers[r].stage
                    \/ th = "app" /\ r = frame[th].r /\ renderers'[r].stage = "live"
<1>1. frame'[th] = Idle /\ frame'[Other(th)] = Stale(frame[Other(th)], t)
  BY FrameFacts DEF Insert, TypeOK
<1>2. ASSUME NEW x \in Rendering
      PROVE  /\ [x EXCEPT !.stage = "live"].stage = "live"
             /\ [x EXCEPT !.stage = "live"].source = x.source
             /\ [x EXCEPT !.stage = "live"].branch = x.branch
  BY DEF Rendering
<1>3. \/ renderers' = renderers
      \/ /\ th = "app" /\ frame[th].r \in Renderer
         /\ renderers' = [renderers EXCEPT ![frame[th].r] = [@ EXCEPT !.stage = "live"]]
  BY DEF Insert
<1>4. registry' = [registry EXCEPT ![t] = entry]
  BY DEF Insert
<1>5. ASSUME NEW r \in Renderer
      PROVE  /\ renderers'[r].source = renderers[r].source
             /\ renderers'[r].branch = renderers[r].branch
             /\ \/ renderers'[r].stage = renderers[r].stage
                \/ th = "app" /\ r = frame[th].r /\ renderers'[r].stage = "live"
  <2>1. renderers[r] \in Rendering
    BY DEF TypeOK
  <2>2. CASE renderers' = renderers
    BY <2>2
  <2>3. CASE renderers' # renderers /\ r = frame[th].r
    <3>1. renderers'[r] = [renderers[r] EXCEPT !.stage = "live"]
      BY <1>3, <2>3 DEF TypeOK
    <3> QED BY <1>2, <1>3, <2>1, <2>3, <3>1
  <2>4. CASE renderers' # renderers /\ r # frame[th].r
    <3>1. renderers'[r] = renderers[r]
      BY <1>3, <2>4 DEF TypeOK
    <3> QED BY <3>1
  <2> QED BY <2>2, <2>3, <2>4
<1> QED BY <1>1, <1>4, <1>5

LEMMA GoEffect ==
    ASSUME TypeOK, NEW th \in Thread, NEW pc, NEW r, NEW h, Go(th, pc, r, h)
    PROVE  /\ frame'[th].pc = pc /\ frame'[th].r = r /\ frame'[th].h = h
           /\ frame'[th].t = frame[th].t /\ frame'[th].data = frame[th].data
           /\ frame'[Other(th)] = frame[Other(th)]
           /\ renderers' = renderers
<1>1. ASSUME NEW f \in Frame
      PROVE  LET g == [f EXCEPT !.pc = pc, !.r = r, !.h = h] IN
             /\ g.pc = pc /\ g.r = r /\ g.h = h /\ g.t = f.t /\ g.data = f.data
  BY DEF Frame
<1>2. frame[th] \in Frame /\ frame' = [frame EXCEPT ![th] = [frame[th] EXCEPT !.pc = pc, !.r = r, !.h = h]]
  BY DEF Go, TypeOK
<1>3. frame'[th] = [frame[th] EXCEPT !.pc = pc, !.r = r, !.h = h]
  BY <1>2 DEF TypeOK
<1>4. frame'[Other(th)] = frame[Other(th)]
  BY <1>2, FrameFacts DEF TypeOK
<1> QED BY <1>1, <1>2, <1>3, <1>4 DEF Go

\* One thread's frame changes; the other's keeps all but what it knows of its entry.
LEMMA FrameInvStep ==
    ASSUME TypeOK, FrameInv, NEW th \in Thread, Fits(th, frame'[th]),
           Same(frame'[Other(th)], frame[Other(th)])
    PROVE  FrameInv'
<1>1. \A u \in Thread : u = th \/ u = Other(th)
  BY DEF Thread, Other
<1>2. Other(th) \in Thread
  BY FrameFacts
<1> QED BY <1>1, <1>2 DEF FrameInv, Fits, Same

----------------------------------------------------------------------------
(* Which parts of the invariant a step can disturb *)

ControlInv == FrameInv /\ EntryInv /\ StageInv /\ BranchInv

Working == {"renderer", "check", "clear", "show", "return"}

LEMMA Threads ==
    /\ Thread = {"app", "main"} /\ "app" \in Thread /\ "main" \in Thread
    /\ Other("app") = "main" /\ Other("main") = "app"
  BY DEF Thread, Other

\* A thread's next step keeps its renderer, and a renderer that is being made is at most
\* made.
LEMMA StageStep ==
    ASSUME TypeOK, FrameInv, StageInv, mainQ' = mainQ,
           frame'["app"].pc \in Working =>
              /\ frame["app"].pc \in Working /\ frame'["app"].r = frame["app"].r
              /\ renderers'[frame["app"].r].stage = renderers[frame["app"].r].stage,
           \A th \in Thread : frame'[th].pc \in {"finalize", "release"} =>
              Finalizing(th) /\ frame'[th].r = frame[th].r,
           \A r \in Renderer : \/ renderers'[r].stage = renderers[r].stage
                               \/ renderers'[r].stage = "live" /\ renderers[r].stage = "making"
    PROVE  StageInv'
<1>1. frame'["app"].pc \in Working => renderers'[frame'["app"].r].stage = "making"
  BY DEF StageInv, Working
<1>2. \A th \in Thread : Finalizing(th) => frame[th].r \in Renderer
  BY DEF Finalizing, FrameInv, Fits
<1>3. ASSUME NEW th \in Thread, Finalizing(th)'
      PROVE  renderers'[frame'[th].r].stage = "dying"
  <2>1. Finalizing(th) /\ frame'[th].r = frame[th].r
    BY <1>3 DEF Finalizing
  <2>2. frame[th].r \in Renderer /\ renderers[frame[th].r].stage = "dying"
    BY <2>1, <1>2 DEF StageInv
  <2>3. renderers'[frame[th].r].stage = "dying"
    BY <2>2
  <2> QED BY <2>1, <2>3
<1>4. Finalizing("main")' /\ Finalizing("app")' => frame'["main"].r # frame'["app"].r
  BY Threads DEF Finalizing, StageInv
<1>5. \A i \in DOMAIN mainQ : mainQ[i].task = "set_source" => mainQ[i].r \in Renderer
  BY TaskFields DEF TypeOK
<1>6. \A i \in DOMAIN mainQ' : mainQ'[i].task = "set_source" => renderers'[mainQ'[i].r].stage = "live"
  BY <1>5 DEF StageInv
<1> QED BY <1>1, <1>3, <1>4, <1>6 DEF StageInv, Working

LEMMA BranchStep ==
    ASSUME TypeOK, FrameInv, BranchInv,
           \A r \in Renderer :
              /\ \/ renderers'[r].source = renderers[r].source
                 \/ renderers'[r].source = None /\ ~renderers'[r].branch
              /\ renderers'[r].branch => renderers[r].branch
              /\ renderers'[r].stage \in {"none", "making"} => renderers[r].stage \in {"none", "making"}
              /\ renderers[r].stage \in {"dying", "gone"} => renderers'[r].stage \in {"dying", "gone"},
           frame'["main"].pc = "show" =>
              \/ frame["main"].pc = "show" /\ frame'["main"].r = frame["main"].r
              \/ frame'["main"].r \in Renderer /\ ~renderers'[frame'["main"].r].branch
    PROVE  BranchInv'
<1>1. ASSUME NEW r \in Renderer
      PROVE  /\ renderers'[r].stage \in {"none", "making"} => renderers'[r].source = None
             /\ renderers'[r].branch => renderers'[r].source # None
  BY DEF BranchInv
<1>2. frame["main"].pc = "show" => frame["main"].r \in Renderer
  BY Threads DEF FrameInv, Fits
<1>3. frame'["main"].pc = "show" =>
         renderers'[frame'["main"].r].stage \in {"dying", "gone"} \/ ~renderers'[frame'["main"].r].branch
  BY <1>2 DEF BranchInv, Dead
<1> QED BY <1>1, <1>3 DEF BranchInv, Dead

\* The registry stays as it is, and no thread has just looked its tag up.
LEMMA EntryStep ==
    ASSUME EntryInv, registry' = registry,
           \A th \in Thread : frame'[th].pc \in {"register", "unregister", "renderer", "check"} =>
              frame'[th] = frame[th]
    PROVE  EntryInv'
<1>1. ASSUME NEW th \in Thread, frame'[th].pc \in {"register", "unregister", "renderer"},
             frame'[th].data = "held"
      PROVE  registry[frame'[th].t] # None
  BY <1>1 DEF EntryInv
<1>2. ASSUME frame'["main"].pc = "register", frame'["main"].data = "none"
      PROVE  /\ registry[frame'["main"].t] # None => registry[frame'["main"].t].handle = None
             /\ ~(frame'["app"].pc = "check" /\ frame'["app"].t = frame'["main"].t)
  BY <1>2, Threads DEF EntryInv
<1>3. ASSUME frame'["app"].pc = "check"
      PROVE  registry[frame'["app"].t] # None /\ registry[frame'["app"].t].renderer = frame'["app"].r
  BY <1>3, Threads DEF EntryInv
<1> QED BY <1>1, <1>2, <1>3 DEF EntryInv

----------------------------------------------------------------------------
(* Every step of a thread keeps the parts about frames, entries and renderers *)

LEMMA ControlParts ==
    ASSUME TypeOK, ControlInv
    PROVE  /\ FrameInv /\ EntryInv /\ StageInv /\ BranchInv
           /\ frame["app"] \in Frame /\ frame["main"] \in Frame
           /\ Fits("app", frame["app"]) /\ Fits("main", frame["main"])
  BY Threads DEF ControlInv, TypeOK, FrameInv

\* A thread that returns; a change of the registry is judged by the caller.
LEMMA Control_Return ==
    ASSUME TypeOK, ControlInv, NEW th \in Thread, Return(th), mainQ' = mainQ,
           registry' = registry \/ EntryInv', th = "app" => frame[th].pc \in Working
    PROVE  ControlInv'
<1>1. FrameInv /\ EntryInv /\ StageInv /\ BranchInv
  BY DEF ControlInv
<1>2. th = "app" => frame[th].r \in Renderer
  BY <1>1, ControlParts DEF Fits, Working
<1>3. /\ frame'[th] = Idle /\ frame'[Other(th)] = frame[Other(th)]
      /\ \A r \in Renderer :
            /\ renderers'[r].source = renderers[r].source
            /\ renderers'[r].branch = renderers[r].branch
            /\ \/ renderers'[r].stage = renderers[r].stage
               \/ /\ th = "app" /\ r = frame[th].r /\ renderers'[r].stage = "live"
                  /\ renderers[r].stage = "making"
  BY <1>2, ReturnEffect
<1>4. Idle.pc = "idle" /\ Fits(th, Idle)
  BY IdleFacts
<1>5. FrameInv'
  BY <1>1, <1>3, <1>4, FrameInvStep DEF Same
<1>6. \A u \in Thread : u = th \/ u = Other(th)
  BY DEF Thread, Other
<1>7. EntryInv'
  <2>1. \A u \in Thread : frame'[u].pc \in {"register", "unregister", "renderer", "check"} =>
           frame'[u] = frame[u]
    BY <1>3, <1>4, <1>6
  <2> QED BY <1>1, <2>1, EntryStep
<1>8. StageInv'
  <2>1. \A u \in Thread : frame'[u].pc \in {"finalize", "release"} =>
           Finalizing(u) /\ frame'[u].r = frame[u].r
    BY <1>3, <1>4, <1>6 DEF Finalizing
  <2>2. ASSUME frame'["app"].pc \in Working
        PROVE  /\ frame["app"].pc \in Working /\ frame'["app"].r = frame["app"].r
               /\ renderers'[frame["app"].r].stage = renderers[frame["app"].r].stage
    <3>1. th = "main" /\ frame'["app"] = frame["app"]
      BY <1>3, <1>4, <2>2, Threads DEF Working
    <3>2. frame["app"].r \in Renderer
      BY <2>2, <3>1, ControlParts DEF Fits, Working
    <3> QED BY <1>3, <2>2, <3>1, <3>2
  <2> QED BY <1>1, <1>3, <2>1, <2>2, StageStep
<1>9. BranchInv'
  <2>1. frame'["main"].pc = "show" => frame["main"].pc = "show" /\ frame'["main"].r = frame["main"].r
    BY <1>3, <1>4, Threads
  <2> QED BY <1>1, <1>3, <2>1, BranchStep
<1> QED BY <1>5, <1>7, <1>8, <1>9 DEF ControlInv

\* A thread that goes on with a renderer, to change its sink; the registry is judged
\* by the caller.
LEMMA Control_Go ==
    ASSUME TypeOK, ControlInv, NEW th \in Thread, NEW pc \in {"clear", "check"},
           NEW r \in Renderer, NEW h \in Handle \cup {None}, Go(th, pc, r, h), mainQ' = mainQ,
           th = "app" => frame[th].pc \in Working /\ r = frame[th].r,
           pc = "check" => th = "app" /\ frame[th].t \in Tag, EntryInv'
    PROVE  ControlInv'
<1>1. FrameInv /\ EntryInv /\ StageInv /\ BranchInv
  BY DEF ControlInv
<1>2. /\ frame'[th].pc = pc /\ frame'[th].r = r /\ frame'[th].t = frame[th].t
      /\ frame'[Other(th)] = frame[Other(th)]
      /\ renderers' = renderers
  BY GoEffect
<1>3. \A u \in Thread : u = th \/ u = Other(th)
  BY DEF Thread, Other
<1>4. FrameInv'
  <2>1. Fits(th, frame'[th])
    BY <1>2 DEF Fits
  <2> QED BY <1>1, <1>2, <2>1, FrameInvStep DEF Same
<1>5. StageInv'
  <2>1. \A u \in Thread : frame'[u].pc \in {"finalize", "release"} =>
           Finalizing(u) /\ frame'[u].r = frame[u].r
    BY <1>2, <1>3 DEF Finalizing
  <2>2. frame'["app"].pc \in Working =>
           /\ frame["app"].pc \in Working /\ frame'["app"].r = frame["app"].r
           /\ renderers'[frame["app"].r].stage = renderers[frame["app"].r].stage
    BY <1>2, Threads
  <2> QED BY <1>1, <1>2, <2>1, <2>2, StageStep
<1>6. BranchInv'
  <2>1. frame'["main"].pc = "show" => frame["main"].pc = "show" /\ frame'["main"].r = frame["main"].r
    BY <1>2, Threads
  <2> QED BY <1>1, <1>2, <2>1, BranchStep
<1> QED BY <1>4, <1>5, <1>6 DEF ControlInv

\* A thread that inserts an entry, or takes one out, and returns; so does the other
\* thread's knowledge of it.
LEMMA Control_Insert ==
    ASSUME TypeOK, ControlInv, NEW th \in Thread, NEW t \in Tag, NEW entry \in Entry,
           Insert(th, t, entry), mainQ' = mainQ,
           th = "app" => frame[th].pc \in Working, EntryInv'
    PROVE  ControlInv'
<1>1. FrameInv /\ EntryInv /\ StageInv /\ BranchInv
  BY DEF ControlInv
<1>2. th = "app" => frame[th].r \in Renderer
  BY <1>1, ControlParts DEF Fits, Working
<1>3. /\ frame'[th] = Idle /\ frame'[Other(th)] = Stale(frame[Other(th)], t)
      /\ \A r \in Renderer :
            /\ renderers'[r].source = renderers[r].source
            /\ renderers'[r].branch = renderers[r].branch
            /\ \/ renderers'[r].stage = renderers[r].stage
               \/ th = "app" /\ r = frame[th].r /\ renderers'[r].stage = "live"
  BY <1>2, InsertEffect
<1>4. th = "app" => renderers[frame[th].r].stage = "making"
  BY <1>1 DEF StageInv, Working
<1>5. Idle.pc = "idle" /\ Fits(th, Idle) /\ Same(frame'[Other(th)], frame[Other(th)])
  <2>1. frame[Other(th)] \in Frame
    BY FrameFacts DEF TypeOK
  <2> QED BY <1>3, <2>1, IdleFacts
<1>6. FrameInv'
  BY <1>1, <1>3, <1>5, FrameInvStep
<1>7. \A u \in Thread : u = th \/ u = Other(th)
  BY DEF Thread, Other
<1>8. StageInv'
  <2>1. \A u \in Thread : frame'[u].pc \in {"finalize", "release"} =>
           Finalizing(u) /\ frame'[u].r = frame[u].r
    BY <1>3, <1>5, <1>7 DEF Finalizing, Same
  <2>2. ASSUME frame'["app"].pc \in Working
        PROVE  /\ frame["app"].pc \in Working /\ frame'["app"].r = frame["app"].r
               /\ renderers'[frame["app"].r].stage = renderers[frame["app"].r].stage
    <3>1. th = "main" /\ frame["app"].pc \in Working /\ frame'["app"].r = frame["app"].r
      BY <1>3, <1>5, <2>2, Threads DEF Working, Same
    <3>2. frame["app"].r \in Renderer
      BY <3>1, ControlParts DEF Fits, Working
    <3> QED BY <1>3, <3>1, <3>2
  <2> QED BY <1>1, <1>3, <1>4, <2>1, <2>2, StageStep
<1>9. BranchInv'
  <2>1. frame'["main"].pc = "show" => frame["main"].pc = "show" /\ frame'["main"].r = frame["main"].r
    BY <1>3, <1>5, Threads DEF Same
  <2> QED BY <1>1, <1>3, <1>4, <2>1, BranchStep
<1> QED BY <1>6, <1>8, <1>9 DEF ControlInv

LEMMA EntryFacts ==
    ASSUME NEW e \in Entry
    PROVE  /\ e # None /\ e.handle \in Handle \cup {None} /\ e.renderer \in Renderer \cup {None}
           /\ \A h \in Handle \cup {None} :
                 /\ [e EXCEPT !.handle = h] \in Entry
                 /\ [e EXCEPT !.handle = h].handle = h
                 /\ [e EXCEPT !.handle = h].renderer = e.renderer
           /\ \A r \in Renderer \cup {None} :
                 /\ [e EXCEPT !.renderer = r] \in Entry
                 /\ [e EXCEPT !.renderer = r].renderer = r
                 /\ [e EXCEPT !.renderer = r].handle = e.handle
  BY EntryAssumption DEF Entry

LEMMA Control_DoRegister ==
    ASSUME TypeOK, ControlInv, DoRegister
    PROVE  ControlInv'
<1> DEFINE f == frame["main"]
           entry == registry[f.t]
<1>1. FrameInv /\ EntryInv /\ StageInv /\ BranchInv
  BY DEF ControlInv
<1>2. f.pc = "register" /\ f.t \in Tag /\ f.h \in Handle /\ f.h # None /\ mainQ' = mainQ
  BY <1>1, Threads, NoneAssumption DEF DoRegister, FrameInv, Fits
<1>3. "app" # "main" /\ Idle.pc = "idle"
  BY DEF Idle
<1>4. CASE f.data = "none" /\ Insert("main", f.t, [handle |-> f.h, renderer |-> None])
  <2> DEFINE new == [handle |-> f.h, renderer |-> None]
  <2>1. new \in Entry /\ new.handle = f.h
    BY <1>2 DEF Entry
  <2> HIDE DEF new
  <2>2. /\ frame'["main"] = Idle /\ frame'["app"] = Stale(frame["app"], f.t)
        /\ registry' = [registry EXCEPT ![f.t] = new]
    BY <1>2, <1>4, Threads, InsertEffect DEF new
  <2>3. /\ Same(frame'["app"], frame["app"])
        /\ frame'["app"].data = "held" => frame["app"].data = "held" /\ frame["app"].t # f.t
    BY <2>2, ControlParts, IdleFacts, Threads
  <2>4. EntryInv'
    <3>1. \A t \in Tag : registry'[t] # None => registry'[t].handle # None \/ registry'[t].renderer # None
      BY <1>1, <1>2, <2>1, <2>2 DEF EntryInv, TypeOK
    <3>2. frame'["app"].pc = "renderer" /\ frame'["app"].data = "held" => registry'[frame'["app"].t] # None
      BY <1>1, <1>2, <2>2, <2>3, ControlParts, Threads DEF EntryInv, TypeOK, Same, Fits
    <3>3. frame'["app"].pc = "check" =>
             /\ registry'[frame'["app"].t] # None
             /\ registry'[frame'["app"].t].renderer = frame'["app"].r
      BY <1>1, <1>2, <1>4, <2>2, <2>3, ControlParts DEF EntryInv, TypeOK, Same, Fits
    <3>4. frame'["app"].pc \notin {"register", "unregister"}
      BY <2>3, ControlParts DEF Same, Fits
    <3> QED BY <1>3, <2>2, <3>1, <3>2, <3>3, <3>4, Threads DEF EntryInv
  <2> QED BY <1>2, <1>4, <2>1, <2>4, Threads, Control_Insert DEF new
<1>5. CASE Return("main") /\ registry' = registry
  BY <1>2, <1>5, Threads, Control_Return
<1>6. CASE /\ f.data = "held" /\ entry.handle = None
           /\ registry' = [registry EXCEPT ![f.t].handle = f.h]
           /\ IF entry.renderer = None THEN Return("main") ELSE Go("main", "clear", entry.renderer, f.h)
  <2>1. entry \in Entry
    BY <1>1, <1>2, <1>6, Threads DEF EntryInv, TypeOK
  <2> DEFINE new == [entry EXCEPT !.handle = f.h]
  <2>2. /\ new \in Entry /\ new # None /\ new.handle = f.h /\ new.renderer = entry.renderer
        /\ registry' = [registry EXCEPT ![f.t] = new]
    <3>1. new \in Entry /\ new.handle = f.h /\ new.renderer = entry.renderer
      BY <1>2, <2>1, EntryFacts
    <3>2. new # None
      BY <3>1, EntryFacts
    <3> QED BY <1>6, <3>1, <3>2
  <2> HIDE DEF new
  <2>3. frame'["app"] = frame["app"] /\ frame'["main"].pc \in {"idle", "clear"}
    <3>1. CASE Return("main")
      BY <1>3, <3>1, Threads DEF Return, TypeOK
    <3>2. CASE Go("main", "clear", entry.renderer, f.h)
      BY <3>2, Threads, GoEffect
    <3> QED BY <1>6, <3>1, <3>2
  <2>4. EntryInv'
    <3>1. \A t \in Tag : registry'[t] # None => registry'[t].handle # None \/ registry'[t].renderer # None
      BY <1>1, <1>2, <2>2 DEF EntryInv, TypeOK
    <3>2. frame'["app"].pc = "renderer" /\ frame'["app"].data = "held" => registry'[frame'["app"].t] # None
      BY <1>1, <1>2, <2>2, <2>3, ControlParts, Threads DEF EntryInv, TypeOK, Fits
    <3>3. frame'["app"].pc = "check" =>
             /\ registry'[frame'["app"].t] # None
             /\ registry'[frame'["app"].t].renderer = frame'["app"].r
      BY <1>1, <1>2, <2>2, <2>3, ControlParts DEF EntryInv, TypeOK, Fits
    <3>4. frame'["app"].pc \notin {"register", "unregister"}
      BY <2>3, ControlParts DEF Fits
    <3> QED BY <2>3, <3>1, <3>2, <3>3, <3>4, Threads DEF EntryInv
  <2>5. CASE entry.renderer = None
    <3>1. Return("main")
      BY <1>6, <2>5
    <3> QED BY <1>2, <2>4, <3>1, Threads, Control_Return
  <2>6. CASE entry.renderer # None
    <3>1. entry.renderer \in Renderer
      BY <2>1, <2>6, EntryFacts
    <3> QED BY <1>2, <1>6, <2>4, <2>6, <3>1, Threads, Control_Go
  <2> QED BY <2>5, <2>6
<1> QED BY <1>2, <1>4, <1>5, <1>6 DEF DoRegister, Misused

LEMMA Control_DoUnregister ==
    ASSUME TypeOK, ControlInv, DoUnregister
    PROVE  ControlInv'
<1> DEFINE f == frame["main"]
           entry == registry[f.t]
<1>1. FrameInv /\ EntryInv /\ StageInv /\ BranchInv
  BY DEF ControlInv
<1>2. f.pc = "unregister" /\ f.t \in Tag /\ mainQ' = mainQ
  BY <1>1, Threads DEF DoUnregister, FrameInv, Fits
<1>3. "app" # "main" /\ Idle.pc = "idle" /\ Fits("main", Idle)
  BY Threads, IdleFacts
<1>4. CASE f.data = "stale" /\ Misused("main", "registry")
  BY <1>2, <1>4, Threads, Control_Return DEF Misused
<1>5. CASE /\ f.data = "held" /\ entry.renderer # None
           /\ registry' = [registry EXCEPT ![f.t].handle = None]
           /\ Go("main", "clear", entry.renderer, None)
  <2>1. entry \in Entry
    BY <1>1, <1>2, <1>5, Threads DEF EntryInv, TypeOK
  <2> DEFINE new == [entry EXCEPT !.handle = None]
  <2>2. /\ new \in Entry /\ new # None /\ new.handle = None /\ new.renderer = entry.renderer
        /\ registry' = [registry EXCEPT ![f.t] = new]
    <3>1. new \in Entry /\ new.handle = None /\ new.renderer = entry.renderer
      BY <2>1, EntryFacts
    <3>2. new # None
      BY <3>1, EntryFacts
    <3> QED BY <1>5, <3>1, <3>2
  <2> HIDE DEF new
  <2>3. frame'["app"] = frame["app"] /\ frame'["main"].pc = "clear"
    BY <1>5, Threads, GoEffect
  <2>4. EntryInv'
    <3>1. \A t \in Tag : registry'[t] # None => registry'[t].handle # None \/ registry'[t].renderer # None
      BY <1>1, <1>2, <1>5, <2>2 DEF EntryInv, TypeOK
    <3>2. frame'["app"].pc = "renderer" /\ frame'["app"].data = "held" => registry'[frame'["app"].t] # None
      BY <1>1, <1>2, <2>2, <2>3, ControlParts, Threads DEF EntryInv, TypeOK, Fits
    <3>3. frame'["app"].pc = "check" =>
             /\ registry'[frame'["app"].t] # None
             /\ registry'[frame'["app"].t].renderer = frame'["app"].r
      BY <1>1, <1>2, <2>2, <2>3, ControlParts DEF EntryInv, TypeOK, Fits
    <3>4. frame'["app"].pc \notin {"register", "unregister"}
      BY <2>3, ControlParts DEF Fits
    <3> QED BY <2>3, <3>1, <3>2, <3>3, <3>4, Threads DEF EntryInv
  <2>5. entry.renderer \in Renderer
    BY <1>5, <2>1, EntryFacts
  <2> QED BY <1>2, <1>5, <2>4, <2>5, Threads, Control_Go
<1>6. CASE /\ f.data = "held" /\ entry.renderer = None
           /\ registry' = [registry EXCEPT ![f.t] = None]
           /\ frame' = [frame EXCEPT !["main"] = Idle, !["app"] = Stale(@, f.t)]
           /\ UNCHANGED <<media, renderers>>
  <2>1. frame'["main"] = Idle /\ frame'["app"] = Stale(frame["app"], f.t)
    BY <1>6, Threads DEF TypeOK
  <2>2. /\ Same(frame'["app"], frame["app"])
        /\ frame'["app"].data = "held" => frame["app"].data = "held" /\ frame["app"].t # f.t
    BY <2>1, ControlParts, IdleFacts, Threads
  <2>3. FrameInv'
    BY <1>1, <1>3, <2>1, <2>2, Threads, FrameInvStep
  <2>4. EntryInv'
    <3>1. \A t \in Tag : registry'[t] # None => registry'[t].handle # None \/ registry'[t].renderer # None
      BY <1>1, <1>2, <1>6 DEF EntryInv, TypeOK
    <3>2. frame'["app"].pc = "renderer" /\ frame'["app"].data = "held" => registry'[frame'["app"].t] # None
      BY <1>1, <1>2, <1>6, <2>2, ControlParts, Threads DEF EntryInv, TypeOK, Same, Fits
    <3>3. frame'["app"].pc = "check" =>
             /\ registry'[frame'["app"].t] # None
             /\ registry'[frame'["app"].t].renderer = frame'["app"].r
      BY <1>1, <1>2, <1>6, <2>2, ControlParts, NoneAssumption DEF EntryInv, TypeOK, Same, Fits
    <3>4. frame'["app"].pc \notin {"register", "unregister"}
      BY <2>2, ControlParts DEF Same, Fits
    <3> QED BY <1>3, <2>1, <3>1, <3>2, <3>3, <3>4, Threads DEF EntryInv
  <2>5. StageInv'
    <3>1. \A u \in Thread : frame'[u].pc \in {"finalize", "release"} =>
             Finalizing(u) /\ frame'[u].r = frame[u].r
      BY <1>3, <2>1, <2>2, Threads DEF Finalizing, Same
    <3>2. frame'["app"].pc \in Working =>
             /\ frame["app"].pc \in Working /\ frame'["app"].r = frame["app"].r
             /\ renderers'[frame["app"].r].stage = renderers[frame["app"].r].stage
      BY <1>6, <2>2 DEF Same
    <3> QED BY <1>1, <1>2, <1>6, <3>1, <3>2, StageStep
  <2>6. BranchInv'
    <3>1. frame'["main"].pc # "show"
      BY <1>3, <2>1
    <3> QED BY <1>1, <1>6, <3>1, BranchStep
  <2> QED BY <2>3, <2>4, <2>5, <2>6 DEF ControlInv
<1> QED BY <1>2, <1>4, <1>5, <1>6 DEF DoUnregister

LEMMA Control_RegisterRenderer ==
    ASSUME TypeOK, ControlInv, RegisterRenderer
    PROVE  ControlInv'
<1> DEFINE f == frame["app"]
           entry == registry[f.t]
<1>1. FrameInv /\ EntryInv /\ StageInv /\ BranchInv
  BY DEF ControlInv
<1>2. /\ f.pc = "renderer" /\ f.pc \in Working /\ f.t \in Tag
      /\ f.r \in Renderer /\ f.r # None /\ mainQ' = mainQ
  BY <1>1, Threads, NoneAssumption DEF RegisterRenderer, FrameInv, Fits, Working
<1>3. "app" # "main" /\ Idle.pc = "idle"
  BY DEF Idle
<1>4. CASE f.data = "none" /\ Insert("app", f.t, [handle |-> None, renderer |-> f.r])
  <2> DEFINE new == [handle |-> None, renderer |-> f.r]
  <2>1. new \in Entry /\ new.handle = None /\ new.renderer = f.r
    BY <1>2 DEF Entry
  <2> HIDE DEF new
  <2>2. /\ frame'["app"] = Idle /\ frame'["main"] = Stale(frame["main"], f.t)
        /\ registry' = [registry EXCEPT ![f.t] = new]
    BY <1>2, <1>4, Threads, InsertEffect DEF new
  <2>3. /\ Same(frame'["main"], frame["main"])
        /\ frame'["main"].data = "held" => frame["main"].data = "held" /\ frame["main"].t # f.t
        /\ frame'["main"].data = "none" => frame["main"].data = "none"
    BY <2>2, ControlParts, IdleFacts, Threads
  <2>4. EntryInv'
    <3>1. \A t \in Tag : registry'[t] # None => registry'[t].handle # None \/ registry'[t].renderer # None
      BY <1>1, <1>2, <2>1, <2>2 DEF EntryInv, TypeOK
    <3>2. frame'["main"].pc \in {"register", "unregister"} /\ frame'["main"].data = "held"
             => registry'[frame'["main"].t] # None
      BY <1>1, <1>2, <2>2, <2>3, ControlParts, Threads DEF EntryInv, TypeOK, Same, Fits
    <3>3. frame'["main"].pc = "register" /\ frame'["main"].data = "none"
          /\ registry'[frame'["main"].t] # None => registry'[frame'["main"].t].handle = None
      BY <1>1, <1>2, <2>1, <2>2, <2>3, ControlParts DEF EntryInv, TypeOK, Same, Fits
    <3>4. frame'["main"].pc # "renderer"
      BY <2>3, ControlParts DEF Same, Fits
    <3> QED BY <1>3, <2>2, <3>1, <3>2, <3>3, <3>4, Threads DEF EntryInv
  <2> QED BY <1>2, <1>4, <2>1, <2>4, Threads, Control_Insert DEF new
<1>5. CASE Return("app") /\ registry' = registry
  BY <1>2, <1>5, Threads, Control_Return
<1>6. CASE /\ f.data = "held" /\ entry.renderer = None
           /\ registry' = [registry EXCEPT ![f.t].renderer = f.r]
           /\ Go("app", "check", f.r, None)
  <2>1. entry \in Entry
    BY <1>1, <1>2, <1>6, Threads DEF EntryInv, TypeOK
  <2> DEFINE new == [entry EXCEPT !.renderer = f.r]
  <2>2. /\ new # None /\ new.handle = entry.handle /\ new.renderer = f.r
        /\ registry' = [registry EXCEPT ![f.t] = new]
    <3>1. new \in Entry /\ new.handle = entry.handle /\ new.renderer = f.r
      BY <1>2, <2>1, EntryFacts
    <3>2. new # None
      BY <3>1, EntryFacts
    <3> QED BY <1>6, <3>1, <3>2
  <2> HIDE DEF new
  <2>3. /\ frame'["main"] = frame["main"] /\ frame'["app"].pc = "check"
        /\ frame'["app"].t = f.t /\ frame'["app"].r = f.r
    BY <1>6, Threads, GoEffect
  <2>4. ~(frame["main"].pc = "register" /\ frame["main"].data = "none" /\ frame["main"].t = f.t)
    BY <1>1, <1>2, <1>6, <2>1, EntryFacts DEF EntryInv
  <2>5. EntryInv'
    <3>1. \A t \in Tag : registry'[t] # None => registry'[t].handle # None \/ registry'[t].renderer # None
      BY <1>1, <1>2, <2>2 DEF EntryInv, TypeOK
    <3>2. frame'["main"].pc \in {"register", "unregister"} /\ frame'["main"].data = "held"
             => registry'[frame'["main"].t] # None
      BY <1>1, <1>2, <2>2, <2>3, ControlParts, Threads DEF EntryInv, TypeOK, Fits
    <3>3. frame'["main"].pc = "register" /\ frame'["main"].data = "none" =>
             /\ registry'[frame'["main"].t] # None => registry'[frame'["main"].t].handle = None
             /\ frame'["main"].t # f.t
      BY <1>1, <1>2, <2>2, <2>3, <2>4, ControlParts DEF EntryInv, TypeOK, Fits
    <3>4. frame'["main"].pc # "renderer"
      BY <2>3, ControlParts DEF Fits
    <3>5. registry'[f.t] = new
      BY <1>2, <2>2 DEF TypeOK
    <3> QED BY <1>3, <2>2, <2>3, <3>1, <3>2, <3>3, <3>4, <3>5, Threads DEF EntryInv
  <2> QED BY <1>2, <1>6, <2>5, Threads, Control_Go
<1> QED BY <1>2, <1>4, <1>5, <1>6 DEF RegisterRenderer, Misused

LEMMA Control_CheckHandle ==
    ASSUME TypeOK, ControlInv, CheckHandle
    PROVE  ControlInv'
<1> DEFINE f == frame["app"]
<1>1. FrameInv /\ EntryInv /\ StageInv /\ BranchInv
  BY DEF ControlInv
<1>2. /\ f.pc = "check" /\ f.pc \in Working /\ f.t \in Tag /\ f.r \in Renderer
      /\ mainQ' = mainQ /\ registry' = registry
  BY <1>1, Threads DEF CheckHandle, FrameInv, Fits, Working
<1>3. CASE Return("app")
  BY <1>2, <1>3, Threads, Control_Return
<1>4. CASE Go("app", "clear", f.r, registry[f.t].handle)
  <2>1. registry[f.t].handle \in Handle \cup {None}
    BY <1>1, <1>2, EntryFacts DEF EntryInv, TypeOK
  <2>2. EntryInv'
    <3>1. \A u \in Thread : frame'[u].pc \in {"register", "unregister", "renderer", "check"} =>
             frame'[u] = frame[u]
      BY <1>4, Threads, GoEffect
    <3> QED BY <1>1, <1>2, <3>1, EntryStep
  <2> QED BY <1>2, <1>4, <2>1, <2>2, Threads, Control_Go
<1> QED BY <1>3, <1>4 DEF CheckHandle

LEMMA ClearSinkEffect ==
    ASSUME TypeOK, NEW r \in Renderer, ClearSink(r)
    PROVE  /\ renderers'[r].source = renderers[r].source
           /\ renderers'[r].stage = renderers[r].stage
           /\ ~renderers'[r].branch
           /\ \A q \in Renderer \ {r} : renderers'[q] = renderers[q]
<1>1. \A x \in Rendering : /\ WithoutSink(x).source = x.source
                           /\ WithoutSink(x).stage = x.stage
                           /\ WithoutSink(x).branch = FALSE
  BY DEF WithoutSink, Rendering
<1>2. renderers[r] \in Rendering /\ renderers' = [renderers EXCEPT ![r] = WithoutSink(renderers[r])]
  BY DEF ClearSink, TypeOK
<1> QED BY <1>1, <1>2 DEF TypeOK

LEMMA SetSinkEffect ==
    ASSUME TypeOK, NEW r \in Renderer, NEW h \in Handle, SetSink(r, h)
    PROVE  /\ renderers'[r].source = renderers[r].source
           /\ renderers'[r].stage = renderers[r].stage
           /\ renderers'[r].branch = (renderers[r].branch \/ renderers[r].source # None)
           /\ \A q \in Renderer \ {r} : renderers'[q] = renderers[q]
           /\ media' = IF renderers[r].source # None
                       THEN [media EXCEPT ![renderers[r].source] = Requested(@, renderers[r].source)]
                       ELSE media
<1> DEFINE y == [renderers[r] EXCEPT !.sink = h, !.playing = FALSE]
           x == MaybeStarted(y)
<1>1. renderers[r] \in Rendering /\ h # None
  BY NoneAssumption DEF TypeOK
<1>2. y.source = renderers[r].source /\ y.stage = renderers[r].stage
      /\ y.branch = renderers[r].branch /\ y.sink = h /\ y \in Rendering
  BY <1>1 DEF Rendering
<1> HIDE DEF y
<1>3. /\ x.source = y.source /\ x.stage = y.stage /\ x.sink = y.sink
      /\ x.branch = (y.branch \/ y.source # None)
  <2>1. CASE y.source # None
    BY <1>1, <1>2, <2>1 DEF MaybeStarted, Rendering
  <2>2. CASE y.source = None
    BY <1>1, <1>2, <2>2 DEF MaybeStarted, Rendering
  <2> QED BY <2>1, <2>2
<1>4. /\ renderers' = [renderers EXCEPT ![r] = x]
      /\ media' = IF Requests(x) THEN [media EXCEPT ![x.source] = Requested(@, x.source)] ELSE media
  BY DEF SetSink, y
<1> HIDE DEF x
<1>5. Requests(x) <=> renderers[r].source # None
  BY <1>1, <1>2, <1>3 DEF Requests
<1>6. renderers'[r] = x /\ \A q \in Renderer \ {r} : renderers'[q] = renderers[q]
  BY <1>4 DEF TypeOK
<1> QED BY <1>2, <1>3, <1>4, <1>5, <1>6

LEMMA Control_NotifyClear ==
    ASSUME TypeOK, ControlInv, NEW th \in Thread, NotifyClear(th)
    PROVE  ControlInv'
<1> DEFINE f == frame[th]
<1>1. FrameInv /\ EntryInv /\ StageInv /\ BranchInv
  BY DEF ControlInv
<1>2. /\ f.pc = "clear" /\ f.pc \in Working /\ f.r \in Renderer /\ f \in Frame
      /\ f.h \in Handle \cup {None} /\ mainQ' = mainQ
  BY <1>1 DEF NotifyClear, FrameInv, Fits, Working, TypeOK, Frame
<1>3. CASE Misused(th, "renderer")
  BY <1>2, <1>3, Control_Return DEF Misused
<1>4. CASE /\ ClearSink(f.r)
           /\ frame' = [frame EXCEPT ![th].pc = IF f.h = None THEN "return" ELSE "show"]
           /\ registry' = registry
  <2>1. /\ frame'[Other(th)] = frame[Other(th)]
        /\ frame'[th] = [f EXCEPT !.pc = IF f.h = None THEN "return" ELSE "show"]
    BY <1>4, FrameFacts DEF TypeOK
  <2>2. /\ frame'[th].pc = IF f.h = None THEN "return" ELSE "show"
        /\ frame'[th].r = f.r /\ frame'[th].h = f.h
    BY <1>2, <2>1 DEF Frame
  <2>3. \A u \in Thread : u = th \/ u = Other(th)
    BY DEF Thread, Other
  <2>4. FrameInv'
    <3>1. Fits(th, frame'[th])
      BY <1>2, <2>2 DEF Fits
    <3> QED BY <1>1, <2>1, <3>1, FrameInvStep DEF Same
  <2>5. EntryInv'
    <3>1. \A u \in Thread : frame'[u].pc \in {"register", "unregister", "renderer", "check"} =>
             frame'[u] = frame[u]
      BY <2>1, <2>2, <2>3
    <3> QED BY <1>1, <1>4, <3>1, EntryStep
  <2>6. \A r \in Renderer : /\ renderers'[r].source = renderers[r].source
                            /\ renderers'[r].stage = renderers[r].stage
                            /\ renderers'[r].branch => renderers[r].branch
    BY <1>2, <1>4, ClearSinkEffect
  <2>7. StageInv'
    <3>1. \A u \in Thread : frame'[u].pc \in {"finalize", "release"} =>
             Finalizing(u) /\ frame'[u].r = frame[u].r
      BY <2>1, <2>2, <2>3 DEF Finalizing
    <3>2. ASSUME frame'["app"].pc \in Working
          PROVE  /\ frame["app"].pc \in Working /\ frame'["app"].r = frame["app"].r
                 /\ renderers'[frame["app"].r].stage = renderers[frame["app"].r].stage
      <4>1. frame["app"].pc \in Working /\ frame'["app"].r = frame["app"].r
        BY <1>2, <2>1, <2>2, <2>3, <3>2, Threads
      <4>2. frame["app"].r \in Renderer
        BY <4>1, ControlParts DEF Fits, Working
      <4> QED BY <2>6, <4>1, <4>2
    <3> QED BY <1>1, <1>2, <2>6, <3>1, <3>2, StageStep
  <2>8. BranchInv'
    <3>1. ~renderers'[f.r].branch
      BY <1>2, <1>4, ClearSinkEffect
    <3>2. frame'["main"].pc = "show" =>
             \/ frame["main"].pc = "show" /\ frame'["main"].r = frame["main"].r
             \/ frame'["main"].r \in Renderer /\ ~renderers'[frame'["main"].r].branch
      BY <1>2, <2>1, <2>2, <2>3, <3>1, Threads
    <3> QED BY <1>1, <2>6, <3>2, BranchStep
  <2> QED BY <2>4, <2>5, <2>7, <2>8 DEF ControlInv
<1> QED BY <1>3, <1>4 DEF NotifyClear

LEMMA Control_NotifyShow ==
    ASSUME TypeOK, ControlInv, NEW th \in Thread, NotifyShow(th)
    PROVE  ControlInv'
<1> DEFINE f == frame[th]
<1>1. FrameInv /\ EntryInv /\ StageInv /\ BranchInv
  BY DEF ControlInv
<1>2. /\ f.pc = "show" /\ f.pc \in Working /\ f.r \in Renderer /\ f \in Frame
      /\ f.h \in Handle /\ mainQ' = mainQ
  BY <1>1 DEF NotifyShow, FrameInv, Fits, Working, TypeOK
<1>3. CASE Misused(th, "renderer")
  BY <1>2, <1>3, Control_Return DEF Misused
<1>4. CASE /\ SetSink(f.r, f.h)
           /\ frame' = [frame EXCEPT ![th].pc = "return"]
           /\ registry' = registry
  <2>1. frame'[Other(th)] = frame[Other(th)] /\ frame'[th] = [f EXCEPT !.pc = "return"]
    BY <1>4, FrameFacts DEF TypeOK
  <2>2. frame'[th].pc = "return" /\ frame'[th].r = f.r
    BY <1>2, <2>1 DEF Frame
  <2>3. \A u \in Thread : u = th \/ u = Other(th)
    BY DEF Thread, Other
  <2>4. FrameInv'
    <3>1. Fits(th, frame'[th])
      BY <1>2, <2>2 DEF Fits
    <3> QED BY <1>1, <2>1, <3>1, FrameInvStep DEF Same
  <2>5. EntryInv'
    <3>1. \A u \in Thread : frame'[u].pc \in {"register", "unregister", "renderer", "check"} =>
             frame'[u] = frame[u]
      BY <2>1, <2>2, <2>3
    <3> QED BY <1>1, <1>4, <3>1, EntryStep
  <2>6. /\ \A r \in Renderer : /\ renderers'[r].source = renderers[r].source
                               /\ renderers'[r].stage = renderers[r].stage
        /\ \A r \in Renderer \ {f.r} : renderers'[r] = renderers[r]
        /\ renderers'[f.r].branch = (renderers[f.r].branch \/ renderers[f.r].source # None)
    BY <1>2, <1>4, SetSinkEffect
  <2>7. StageInv'
    <3>1. \A u \in Thread : frame'[u].pc \in {"finalize", "release"} =>
             Finalizing(u) /\ frame'[u].r = frame[u].r
      BY <2>1, <2>2, <2>3 DEF Finalizing
    <3>2. ASSUME frame'["app"].pc \in Working
          PROVE  /\ frame["app"].pc \in Working /\ frame'["app"].r = frame["app"].r
                 /\ renderers'[frame["app"].r].stage = renderers[frame["app"].r].stage
      <4>1. frame["app"].pc \in Working /\ frame'["app"].r = frame["app"].r
        BY <1>2, <2>1, <2>2, <2>3, <3>2, Threads
      <4>2. frame["app"].r \in Renderer
        BY <4>1, ControlParts DEF Fits, Working
      <4> QED BY <2>6, <4>1, <4>2
    <3> QED BY <1>1, <1>2, <2>6, <3>1, <3>2, StageStep
  <2>8. BranchInv'
    \* The application's renderer is being made and has no source, so it gets no branch.
    <3>1. th = "app" => renderers[f.r].source = None
      BY <1>1, <1>2 DEF BranchInv, StageInv, Working
    <3>2. \A r \in Renderer : renderers'[r].branch => renderers'[r].source # None
      BY <1>1, <2>6 DEF BranchInv
    <3>3. \A r \in Renderer : renderers'[r].stage \in {"none", "making"} => renderers'[r].source = None
      BY <1>1, <2>6 DEF BranchInv
    <3>4. ASSUME frame'["main"].pc = "show"
          PROVE  Dead(frame["main"].r)' \/ ~renderers'[frame'["main"].r].branch
      <4>1. th = "app" /\ frame'["main"] = frame["main"]
        BY <2>1, <2>2, <2>3, <3>4, Threads
      <4>2. frame["main"].r \in Renderer
        BY <3>4, <4>1, ControlParts DEF Fits
      <4>3. ~renderers[frame["main"].r].branch => ~renderers'[frame["main"].r].branch
        <5>1. CASE frame["main"].r = f.r
          BY <2>6, <3>1, <4>1, <5>1
        <5>2. CASE frame["main"].r # f.r
          BY <2>6, <4>2, <5>2
        <5> QED BY <5>1, <5>2
      <4>4. renderers[frame["main"].r].stage \in {"dying", "gone"} \/ ~renderers[frame["main"].r].branch
        BY <1>1, <3>4, <4>1 DEF BranchInv, Dead
      <4> QED BY <2>6, <4>1, <4>2, <4>3, <4>4 DEF Dead
    <3> QED BY <3>2, <3>3, <3>4 DEF BranchInv, Dead
  <2> QED BY <2>4, <2>5, <2>7, <2>8 DEF ControlInv
<1> QED BY <1>3, <1>4 DEF NotifyShow

LEMMA Control_NotifyReturn ==
    ASSUME TypeOK, ControlInv, NEW th \in Thread, NotifyReturn(th)
    PROVE  ControlInv'
  BY Control_Return DEF NotifyReturn, Working

LEMMA Control_UnregisterRenderer ==
    ASSUME TypeOK, ControlInv, NEW th \in Thread, UnregisterRenderer(th)
    PROVE  ControlInv'
<1> DEFINE f == frame[th]
           o == frame[Other(th)]
           known == f.t # None /\ registry[f.t] # None /\ registry[f.t].renderer = f.r
<1>1. FrameInv /\ EntryInv /\ StageInv /\ BranchInv
  BY DEF ControlInv
<1>2. /\ f.pc = "finalize" /\ f.r \in Renderer /\ f.r # None /\ f \in Frame /\ f.t \in Tag \cup {None}
      /\ o \in Frame /\ renderers' = renderers /\ mainQ' = mainQ
      /\ registry' = IF known THEN Unregistered(f.t, f.r) ELSE registry
  BY <1>1, FrameFacts, NoneAssumption DEF UnregisterRenderer, FrameInv, Fits, TypeOK, Frame
<1>3. /\ frame'[th] = [f EXCEPT !.pc = "release"]
      /\ frame'[Other(th)] = IF known /\ registry'[f.t] = None THEN Stale(o, f.t) ELSE o
  BY FrameFacts DEF UnregisterRenderer, TypeOK
<1>4. frame'[th].pc = "release" /\ frame'[th].r = f.r
  BY <1>2, <1>3 DEF Frame
<1>5. /\ Same(frame'[Other(th)], o)
      /\ frame'[Other(th)].data = "held" => o.data = "held"
      /\ frame'[Other(th)].data = "none" => o.data = "none"
      /\ known /\ registry'[f.t] = None /\ frame'[Other(th)].data = "held" => o.t # f.t
  <2>1. CASE known /\ registry'[f.t] = None
    BY <1>2, <1>3, <2>1, FrameFacts, IdleFacts
  <2>2. CASE ~(known /\ registry'[f.t] = None)
    BY <1>3, <2>2 DEF Same
  <2> QED BY <2>1, <2>2
<1>6. \A u \in Thread : u = th \/ u = Other(th)
  BY DEF Thread, Other
<1>7. FrameInv'
  <2>1. Fits(th, frame'[th])
    BY <1>2, <1>4 DEF Fits
  <2> QED BY <1>1, <1>5, <2>1, FrameInvStep
\* What the registry becomes: an entry of the renderer goes, or loses the renderer.
<1>8. \/ registry' = registry
      \/ /\ f.t \in Tag /\ registry[f.t] \in Entry /\ registry[f.t].renderer = f.r
         /\ \A t \in Tag \ {f.t} : registry'[t] = registry[t]
         /\ \/ registry'[f.t] = None /\ registry[f.t].handle = None
            \/ /\ registry'[f.t] # None /\ registry[f.t].handle # None
               /\ registry'[f.t].handle = registry[f.t].handle
  <2>1. CASE known /\ registry[f.t].handle = None
    <3>1. f.t \in Tag /\ registry[f.t] \in Entry
      BY <1>2, <2>1 DEF TypeOK
    <3>2. registry' = [registry EXCEPT ![f.t] = None]
      BY <1>2, <2>1 DEF Unregistered
    <3> QED BY <2>1, <3>1, <3>2 DEF TypeOK
  <2>2. CASE known /\ registry[f.t].handle # None
    <3>1. f.t \in Tag /\ registry[f.t] \in Entry
      BY <1>2, <2>2 DEF TypeOK
    <3> DEFINE new == [registry[f.t] EXCEPT !.renderer = None]
    <3>2. registry' = [registry EXCEPT ![f.t] = new]
      BY <1>2, <2>2 DEF Unregistered
    <3>3. new \in Entry /\ new.handle = registry[f.t].handle
      BY <3>1, EntryFacts
    <3>4. new # None
      BY <3>3, EntryFacts
    <3> HIDE DEF new
    <3> QED BY <2>2, <3>1, <3>2, <3>3, <3>4 DEF TypeOK
  <2>3. CASE ~known
    BY <1>2, <2>3
  <2> QED BY <2>1, <2>2, <2>3
<1>9. EntryInv'
  <2>1. \A t \in Tag : registry'[t] # None => registry'[t].handle # None \/ registry'[t].renderer # None
    BY <1>1, <1>8 DEF EntryInv
  <2>2. ASSUME NEW u \in Thread, frame'[u].pc \in {"register", "unregister", "renderer"},
               frame'[u].data = "held"
        PROVE  registry'[frame'[u].t] # None
    <3>1. u = Other(th)
      BY <1>4, <1>6, <2>2
    <3>2. /\ frame'[u].t = o.t /\ o.pc \in {"register", "unregister", "renderer"} /\ o.data = "held"
          /\ o.t \in Tag
      BY <1>1, <1>5, <2>2, <3>1 DEF Same, FrameInv, Fits
    <3>3. registry[o.t] # None
      BY <1>1, <3>1, <3>2 DEF EntryInv
    <3>4. ASSUME registry'[o.t] = None PROVE FALSE
      <4>1. f.t \in Tag /\ o.t = f.t /\ registry[f.t].renderer = f.r
        BY <1>8, <3>2, <3>3, <3>4
      <4>2. known /\ registry'[f.t] = None
        BY <1>2, <3>3, <3>4, <4>1, NoneAssumption
      <4> QED BY <1>5, <2>2, <3>1, <4>1, <4>2
    <3> QED BY <3>2, <3>4
  <2>3. ASSUME frame'["main"].pc = "register", frame'["main"].data = "none"
        PROVE  /\ registry'[frame'["main"].t] # None => registry'[frame'["main"].t].handle = None
               /\ ~(frame'["app"].pc = "check" /\ frame'["app"].t = frame'["main"].t)
    <3>1. th = "app" /\ Other(th) = "main" /\ frame'["app"].pc = "release"
      BY <1>4, <2>3, Threads
    <3>2. frame'["main"].t = o.t /\ o.pc = "register" /\ o.data = "none" /\ o.t \in Tag
      BY <1>5, <2>3, <3>1, ControlParts DEF Same, Fits
    <3>3. registry[o.t] # None => registry[o.t].handle = None
      BY <1>1, <3>1, <3>2 DEF EntryInv
    <3>4. registry'[o.t] # None => registry'[o.t].handle = None
      BY <1>8, <3>2, <3>3, EntryAssumption
    <3> QED BY <3>1, <3>2, <3>4
  <2>4. ASSUME frame'["app"].pc = "check"
        PROVE  /\ registry'[frame'["app"].t] # None
               /\ registry'[frame'["app"].t].renderer = frame'["app"].r
    <3>1. th = "main" /\ Other(th) = "app"
      BY <1>4, <2>4, Threads
    <3>2. /\ frame'["app"].t = o.t /\ frame'["app"].r = o.r /\ o.pc = "check" /\ o.t \in Tag
          /\ o.r \in Renderer
      BY <1>5, <2>4, <3>1, ControlParts DEF Same, Fits
    <3>3. registry[o.t] # None /\ registry[o.t].renderer = o.r
      BY <1>1, <3>1, <3>2 DEF EntryInv
    \* The renderer that is checked is being made, not finalized.
    <3>4. o.r # f.r
      BY <1>1, <1>2, <3>1, <3>2, Threads DEF StageInv, Finalizing
    <3>5. registry'[o.t] = registry[o.t]
      BY <1>8, <3>2, <3>3, <3>4
    <3> QED BY <3>2, <3>3, <3>5
  <2> QED BY <2>1, <2>2, <2>3, <2>4 DEF EntryInv
<1>10. StageInv'
  <2>1. \A u \in Thread : frame'[u].pc \in {"finalize", "release"} =>
           Finalizing(u) /\ frame'[u].r = frame[u].r
    BY <1>2, <1>4, <1>5, <1>6 DEF Finalizing, Same
  <2>2. frame'["app"].pc \in Working =>
           /\ frame["app"].pc \in Working /\ frame'["app"].r = frame["app"].r
           /\ renderers'[frame["app"].r].stage = renderers[frame["app"].r].stage
    BY <1>2, <1>4, <1>5, <1>6, Threads DEF Working, Same
  <2> QED BY <1>1, <1>2, <2>1, <2>2, StageStep
<1>11. BranchInv'
  <2>1. frame'["main"].pc = "show" => frame["main"].pc = "show" /\ frame'["main"].r = frame["main"].r
    BY <1>4, <1>5, Threads DEF Same
  <2> QED BY <1>1, <1>2, <2>1, BranchStep
<1> QED BY <1>7, <1>9, <1>10, <1>11 DEF ControlInv

LEMMA Control_Finalize ==
    ASSUME TypeOK, ControlInv, NEW th \in Thread, Finalize(th)
    PROVE  ControlInv'
<1> DEFINE f == frame[th]
           x == renderers[f.r]
<1>1. FrameInv /\ EntryInv /\ StageInv /\ BranchInv
  BY DEF ControlInv
<1>2. /\ f.pc = "release" /\ f.r \in Renderer /\ renderers[f.r].stage = "dying"
      /\ mainQ' = mainQ /\ registry' = registry
  BY <1>1 DEF Finalize, FrameInv, Fits, StageInv, Finalizing
<1>3. frame'[th] = Idle /\ frame'[Other(th)] = frame[Other(th)] /\ Idle.pc = "idle"
  BY FrameFacts, IdleFacts DEF Finalize, TypeOK
<1>4. \A u \in Thread : u = th \/ u = Other(th)
  BY DEF Thread, Other
<1>5. FrameInv'
  BY <1>1, <1>3, IdleFacts, FrameInvStep DEF Same
<1>6. EntryInv'
  <2>1. \A u \in Thread : frame'[u].pc \in {"register", "unregister", "renderer", "check"} =>
           frame'[u] = frame[u]
    BY <1>3, <1>4
  <2> QED BY <1>1, <1>2, <2>1, EntryStep
<1>7. /\ renderers'[f.r].stage = "gone" /\ renderers'[f.r].source = None /\ ~renderers'[f.r].branch
      /\ \A r \in Renderer \ {f.r} : renderers'[r] = renderers[r]
  <2> DEFINE n == [x EXCEPT !.stage = "gone", !.source = None, !.branch = FALSE,
                            !.sink = None, !.playing = FALSE]
  <2>1. n.stage = "gone" /\ n.source = None /\ n.branch = FALSE
    BY <1>2 DEF TypeOK, Rendering
  <2>2. renderers' = [renderers EXCEPT ![f.r] = n]
    BY DEF Finalize
  <2> HIDE DEF n
  <2> QED BY <1>2, <2>1, <2>2 DEF TypeOK
<1>8. StageInv'
  <2>1. frame'["app"].pc \in Working =>
           th = "main" /\ frame'["app"] = frame["app"] /\ frame["app"].r \in Renderer
    BY <1>1, <1>3, <1>4, Threads, ControlParts DEF Working, Fits
  <2>2. frame'["app"].pc \in Working => renderers'[frame'["app"].r].stage = "making"
    BY <1>1, <1>2, <1>7, <2>1 DEF StageInv, Working
  <2>3. ASSUME NEW u \in Thread, Finalizing(u)' PROVE renderers'[frame'[u].r].stage = "dying"
    <3>1. u = Other(th) /\ frame'[u] = frame[u] /\ Finalizing(u) /\ Finalizing(th)
      BY <1>2, <1>3, <1>4, <2>3 DEF Finalizing
    <3>2. frame[u].r # f.r /\ frame[u].r \in Renderer
      BY <1>1, <3>1, <1>4, Threads DEF StageInv, FrameInv, Fits, Finalizing
    <3> QED BY <1>1, <1>7, <3>1, <3>2 DEF StageInv
  <2>4. ~(Finalizing("main")' /\ Finalizing("app")')
    BY <1>3, Threads DEF Finalizing
  <2>5. ASSUME NEW i \in DOMAIN mainQ', mainQ'[i].task = "set_source"
        PROVE  renderers'[mainQ'[i].r].stage = "live"
    <3>1. i \in DOMAIN mainQ /\ mainQ[i] \in Task /\ mainQ[i].task = "set_source"
      BY <1>2, <2>5 DEF TypeOK
    <3>2. mainQ[i].r \in Renderer /\ renderers[mainQ[i].r].stage = "live"
      BY <1>1, <3>1, TaskFields DEF StageInv
    <3> QED BY <1>2, <1>7, <3>2
  <2> QED BY <2>2, <2>3, <2>4, <2>5 DEF StageInv, Working
<1>9. BranchInv'
  <2>1. frame'["main"].pc = "show" => frame["main"].pc = "show" /\ frame'["main"].r = frame["main"].r
    BY <1>3, Threads
  <2>2. \A r \in Renderer :
              /\ \/ renderers'[r].source = renderers[r].source
                 \/ renderers'[r].source = None /\ ~renderers'[r].branch
              /\ renderers'[r].branch => renderers[r].branch
              /\ renderers'[r].stage \in {"none", "making"} => renderers[r].stage \in {"none", "making"}
              /\ renderers[r].stage \in {"dying", "gone"} => renderers'[r].stage \in {"dying", "gone"}
    BY <1>7
  <2> QED BY <1>1, <2>1, <2>2, BranchStep
<1> QED BY <1>5, <1>6, <1>8, <1>9 DEF ControlInv

LEMMA Control_Continue ==
    ASSUME TypeOK, ControlInv, NEW th \in Thread, Continue(th)
    PROVE  ControlInv'
  BY Control_DoRegister, Control_DoUnregister, Control_RegisterRenderer, Control_CheckHandle,
     Control_NotifyClear, Control_NotifyShow, Control_NotifyReturn,
     Control_UnregisterRenderer, Control_Finalize
  DEF Continue

----------------------------------------------------------------------------
(* The tasks of the main loop *)

LEMMA FinalizeFrame ==
    ASSUME NEW r \in Renderer, NEW t
    PROVE  LET g == [Idle EXCEPT !.pc = "finalize", !.r = r, !.t = t]
           IN g.pc = "finalize" /\ g.r = r
  BY DEF Idle

LEMMA SetSourceEffect ==
    ASSUME TypeOK, NEW r \in Renderer, NEW s \in Source \cup {None}, SetSourceTask(r, s)
    PROVE  LET x == renderers[r] IN
           /\ renderers'[r].source = s
           /\ s = x.source => renderers'[r].branch = x.branch
           /\ s # x.source => renderers'[r].branch = (s # None /\ x.sink # None)
           /\ \A q \in Renderer \ {r} : renderers'[q] = renderers[q]
           /\ media' = IF s = x.source THEN media ELSE Replaced(media, x, s)
           /\ frame'["app"] = frame["app"]
           /\ \/ /\ renderers'[r].stage = x.stage /\ frame' = frame
              \/ /\ renderers'[r].stage = "dying" /\ ~Refs(r, Tail(mainQ))
                 /\ frame'["main"].pc = "finalize" /\ frame'["main"].r = r
<1> DEFINE x == renderers[r]
           new == IF s = x.source THEN x ELSE Shown(x, s)
           last == ~Refs(r, Tail(mainQ))
           y == IF last THEN [new EXCEPT !.stage = "dying"] ELSE new
<1>1. x \in Rendering
  BY DEF TypeOK
<1>2. /\ Shown(x, s) \in Rendering /\ Shown(x, s).source = s /\ Shown(x, s).stage = x.stage
      /\ Shown(x, s).branch = (s # None /\ x.sink # None)
  <2>1. CASE s = None
    BY <1>1, <2>1 DEF Shown, Rendering
  <2>2. CASE s # None
    BY <1>1, <2>2 DEF Shown, MaybeStarted, Rendering
  <2> QED BY <2>1, <2>2
<1>3. /\ new \in Rendering /\ new.source = s /\ new.stage = x.stage
      /\ s = x.source => new.branch = x.branch
      /\ s # x.source => new.branch = (s # None /\ x.sink # None)
  BY <1>1, <1>2
<1>4. /\ media' = IF s = x.source THEN media ELSE Replaced(media, x, s)
      /\ renderers' = [renderers EXCEPT ![r] = y]
      /\ IF last THEN StartFinalize("main", r) ELSE frame' = frame
  BY DEF SetSourceTask
<1> HIDE DEF new
<1>5. /\ y.source = new.source /\ y.branch = new.branch
      /\ y.stage = IF last THEN "dying" ELSE new.stage
  BY <1>3 DEF Rendering
<1> HIDE DEF y
<1>6. renderers'[r] = y /\ \A q \in Renderer \ {r} : renderers'[q] = renderers[q]
  BY <1>4 DEF TypeOK
<1>7. CASE last
  <2>1. frame' = [frame EXCEPT !["main"] = [Idle EXCEPT !.pc = "finalize", !.r = r, !.t = renderers[r].tag]]
    BY <1>4, <1>7 DEF StartFinalize
  <2>2. frame'["app"] = frame["app"]
        /\ frame'["main"] = [Idle EXCEPT !.pc = "finalize", !.r = r, !.t = renderers[r].tag]
    BY <2>1, Threads DEF TypeOK
  <2>3. frame'["main"].pc = "finalize" /\ frame'["main"].r = r
    BY <2>2, FinalizeFrame
  <2> QED BY <1>3, <1>4, <1>5, <1>6, <1>7, <2>2, <2>3
<1>8. CASE ~last
  BY <1>3, <1>4, <1>5, <1>6, <1>8
<1> QED BY <1>7, <1>8

\* The main loop is idle, and the tasks that are left are tasks that were there.
LEMMA Control_RunTask ==
    ASSUME TypeOK, ControlInv, RunTask
    PROVE  ControlInv'
<1> DEFINE k == Head(mainQ)
           A == frame["app"]
<1>1. FrameInv /\ EntryInv /\ StageInv /\ BranchInv
  BY DEF ControlInv
<1>2. frame["main"] = Idle /\ Idle.pc = "idle" /\ mainQ # <<>> /\ mainQ' = Tail(mainQ) /\ k \in Task
  BY TaskFacts, IdleFacts, Threads DEF RunTask
<1>3. \A i \in DOMAIN mainQ' : i + 1 \in DOMAIN mainQ /\ mainQ'[i] = mainQ[i + 1] /\ mainQ'[i] \in Task
  BY <1>2, TaskFacts DEF TypeOK
<1>4. \A u \in Thread : u = "app" \/ u = "main"
  BY Threads
\* Tasks that do not touch a renderer leave the stages alone.
<1>5. ASSUME renderers' = renderers, frame'["app"] = A,
             frame'["main"].pc \in {"idle", "register", "unregister"}
      PROVE  StageInv' /\ BranchInv'
  <2>1. StageInv'
    <3>1. \A i \in DOMAIN mainQ' : mainQ'[i].task = "set_source" => renderers'[mainQ'[i].r].stage = "live"
      BY <1>1, <1>3, <1>5 DEF StageInv
    <3>2. ~Finalizing("main")'
      BY <1>5 DEF Finalizing
    <3> QED BY <1>1, <1>4, <1>5, <3>1, <3>2 DEF StageInv, Finalizing
  <2>2. BranchInv'
    BY <1>1, <1>5, BranchStep
  <2> QED BY <2>1, <2>2
<1>6. CASE k.task = "set_source" /\ SetSourceTask(k.r, k.s)
  <2> DEFINE r == k.r
             s == k.s
  <2>1. r \in Renderer /\ s \in Source \cup {None} /\ renderers[r].stage = "live"
    BY <1>1, <1>2, <1>6, TaskFields, TaskFacts DEF StageInv
  <2>2. /\ renderers'[r].source = s
        /\ s = renderers[r].source => renderers'[r].branch = renderers[r].branch
        /\ s # renderers[r].source => renderers'[r].branch = (s # None /\ renderers[r].sink # None)
        /\ \A q \in Renderer \ {r} : renderers'[q] = renderers[q]
        /\ frame'["app"] = A /\ registry' = registry
        /\ \/ renderers'[r].stage = "live" /\ frame' = frame
           \/ /\ renderers'[r].stage = "dying" /\ ~Refs(r, Tail(mainQ))
              /\ frame'["main"].pc = "finalize" /\ frame'["main"].r = r
    <3>1. registry' = registry
      BY <1>6 DEF SetSourceTask
    <3> HIDE DEF r, s
    <3>2. SetSourceTask(r, s)
      BY <1>6 DEF r, s
    <3> QED BY <2>1, <3>1, <3>2, SetSourceEffect
  <2> HIDE DEF r, s
  <2>3. frame'["main"].pc \in {"idle", "finalize"} /\ (frame'["main"].pc = "finalize" => frame'["main"].r = r)
    BY <1>2, <2>2
  <2>4. FrameInv'
    <3>1. Fits("main", frame'["main"])
      BY <2>1, <2>3 DEF Fits
    <3> QED BY <1>1, <2>2, <3>1, Threads, FrameInvStep DEF Same
  <2>5. EntryInv'
    <3>1. \A u \in Thread : frame'[u].pc \in {"register", "unregister", "renderer", "check"} =>
             frame'[u] = frame[u]
      BY <1>4, <2>2, <2>3
    <3> QED BY <1>1, <2>2, <3>1, EntryStep
  <2>6. StageInv'
    <3>1. A.pc \in Working \/ Finalizing("app") => A.r \in Renderer /\ A.r # r
      BY <1>1, <2>1, Threads, ControlParts DEF Finalizing, Working, Fits, StageInv
    <3>2. frame'["app"].pc \in Working => renderers'[frame'["app"].r].stage = "making"
      BY <1>1, <2>2, <3>1 DEF StageInv, Working
    <3>3. ASSUME NEW u \in Thread, Finalizing(u)' PROVE renderers'[frame'[u].r].stage = "dying"
      <4>1. CASE u = "app"
        <5>1. Finalizing("app") /\ frame'["app"] = A
          BY <2>2, <3>3, <4>1 DEF Finalizing
        <5>2. renderers'[A.r] = renderers[A.r]
          BY <2>2, <3>1, <5>1
        <5> QED BY <1>1, <4>1, <5>1, <5>2, Threads DEF StageInv
      <4>2. CASE u = "main"
        BY <1>2, <2>2, <2>3, <3>3, <4>2 DEF Finalizing
      <4> QED BY <1>4, <4>1, <4>2
    <3>4. Finalizing("main")' /\ Finalizing("app")' => frame'["main"].r # frame'["app"].r
      BY <2>2, <2>3, <3>1 DEF Finalizing
    <3>5. ASSUME NEW i \in DOMAIN mainQ', mainQ'[i].task = "set_source"
          PROVE  renderers'[mainQ'[i].r].stage = "live"
      <4>1. mainQ'[i].r \in Renderer /\ renderers[mainQ'[i].r].stage = "live"
        BY <1>1, <1>3, <3>5, TaskFields DEF StageInv
      <4>2. CASE mainQ'[i].r = r
        <5>1. Refs(r, Tail(mainQ))
          BY <1>2, <3>5, <4>2 DEF Refs
        <5> QED BY <2>2, <4>2, <5>1
      <4>3. CASE mainQ'[i].r # r
        BY <2>2, <4>1, <4>3
      <4> QED BY <4>2, <4>3
    <3> QED BY <3>2, <3>3, <3>4, <3>5 DEF StageInv, Working
  <2>7. BranchInv'
    <3>1. \A q \in Renderer : renderers'[q].stage \in {"none", "making"} => renderers'[q].source = None
      BY <1>1, <2>2 DEF BranchInv
    <3>2. \A q \in Renderer : renderers'[q].branch => renderers'[q].source # None
      BY <1>1, <2>1, <2>2 DEF BranchInv
    <3> QED BY <2>3, <3>1, <3>2 DEF BranchInv
  <2> QED BY <2>4, <2>5, <2>6, <2>7 DEF ControlInv
<1>7. ASSUME NEW pc \in {"register", "unregister"}, NEW t \in Tag, NEW h \in Handle \cup {None},
             Lookup(pc, t, h), pc = "register" => h \in Handle
      PROVE  ControlInv'
  <2> DEFINE g == [pc |-> pc, r |-> None, t |-> t, h |-> h, data |-> Found(t)]
  <2>1. frame'["main"] = g /\ frame'["app"] = A /\ renderers' = renderers /\ registry' = registry
    BY <1>7, Threads DEF Lookup, TypeOK
  <2>2. g.pc = pc /\ g.t = t /\ g.h = h
        /\ (g.data = "held" => registry[t] # None) /\ (g.data = "none" => registry[t] = None)
    BY DEF Found
  <2> HIDE DEF g
  <2>3. FrameInv'
    <3>1. Fits("main", g)
      BY <1>7, <2>2 DEF Fits
    <3> QED BY <1>1, <2>1, <3>1, Threads, FrameInvStep DEF Same
  <2>4. EntryInv'
    <3>1. ASSUME NEW u \in Thread, frame'[u].pc \in {"register", "unregister", "renderer"},
                 frame'[u].data = "held"
          PROVE  registry'[frame'[u].t] # None
      BY <1>1, <1>4, <2>1, <2>2, <3>1 DEF EntryInv
    <3>2. ASSUME frame'["main"].pc = "register", frame'["main"].data = "none"
          PROVE  /\ registry'[frame'["main"].t] # None => registry'[frame'["main"].t].handle = None
                 /\ ~(frame'["app"].pc = "check" /\ frame'["app"].t = frame'["main"].t)
      BY <1>1, <2>1, <2>2, <3>2 DEF EntryInv
    <3> QED BY <1>1, <2>1, <3>1, <3>2 DEF EntryInv
  <2>5. StageInv' /\ BranchInv'
    BY <1>5, <1>7, <2>1, <2>2
  <2> QED BY <2>3, <2>4, <2>5 DEF ControlInv
<1>8. ASSUME UNCHANGED <<renderers, registry, frame>> PROVE ControlInv'
  <2>1. FrameInv' /\ EntryInv'
    BY <1>1, <1>8 DEF FrameInv, EntryInv
  <2>2. StageInv' /\ BranchInv'
    BY <1>2, <1>5, <1>8
  <2> QED BY <2>1, <2>2 DEF ControlInv
<1>9. CASE k.task = "register" /\ Lookup("register", k.t, k.h)
  BY <1>2, <1>7, <1>9, TaskFields
<1>10. CASE k.task = "unregister" /\ Lookup("unregister", k.t, None)
  BY <1>2, <1>7, <1>10, TaskFields
<1>11. CASE k.task = "shutdown" /\ ShutdownTask(k.s)
  BY <1>8, <1>11 DEF ShutdownTask
<1> QED BY <1>6, <1>8, <1>9, <1>10, <1>11 DEF RunTask

----------------------------------------------------------------------------
(* The calls of the application, and the steps that touch sources only *)

\* What a call does to one renderer.
LEMMA Control_OneRenderer ==
    ASSUME TypeOK, ControlInv, NEW r \in Renderer, frame["app"] = Idle,
           frame'["main"] = frame["main"], registry' = registry, mainQ' = mainQ,
           \A q \in Renderer \ {r} : renderers'[q] = renderers[q],
           renderers'[r].source = renderers[r].source,
           renderers'[r].branch = renderers[r].branch,
           \/ /\ frame'["app"] = Idle /\ renderers'[r].stage = "live"
              /\ renderers[r].stage \in {"none", "live"}
           \/ /\ renderers[r].stage = "none" /\ renderers'[r].stage = "making"
              /\ frame'["app"].pc = "renderer" /\ frame'["app"].r = r
              /\ frame'["app"].t \in Tag
              /\ frame'["app"].data = "held" => registry[frame'["app"].t] # None
           \/ /\ renderers[r].stage = "live" /\ renderers'[r].stage = "dying"
              /\ frame'["app"].pc = "finalize" /\ frame'["app"].r = r
              /\ \A i \in DOMAIN mainQ : ~(mainQ[i].task = "set_source" /\ mainQ[i].r = r)
    PROVE  ControlInv'
<1> DEFINE B == frame'["app"]
           M == frame["main"]
<1>1. FrameInv /\ EntryInv /\ StageInv /\ BranchInv
  BY DEF ControlInv
<1>2. Idle.pc = "idle"
  BY DEF Idle
<1>3. \/ /\ B = Idle /\ renderers'[r].stage = "live"
         /\ renderers[r].stage \in {"none", "live"}
      \/ /\ renderers[r].stage = "none" /\ renderers'[r].stage = "making"
         /\ B.pc = "renderer" /\ B.r = r /\ B.t \in Tag /\ (B.data = "held" => registry[B.t] # None)
      \/ /\ renderers[r].stage = "live" /\ renderers'[r].stage = "dying"
         /\ B.pc = "finalize" /\ B.r = r
         /\ \A i \in DOMAIN mainQ : ~(mainQ[i].task = "set_source" /\ mainQ[i].r = r)
  OBVIOUS
<1>4. \A u \in Thread : u = "app" \/ u = "main"
  BY Threads
<1>5. FrameInv'
  <2>1. Fits("app", B)
    BY <1>2, <1>3 DEF Fits
  <2> QED BY <1>1, <2>1, Threads, FrameInvStep DEF Same
<1>6. EntryInv'
  <2>1. ASSUME NEW u \in Thread, frame'[u].pc \in {"register", "unregister", "renderer"},
               frame'[u].data = "held"
        PROVE  registry'[frame'[u].t] # None
    BY <1>1, <1>2, <1>3, <1>4, <2>1 DEF EntryInv
  <2>2. frame'["app"].pc # "check"
    BY <1>2, <1>3
  <2> QED BY <1>1, <2>1, <2>2 DEF EntryInv
<1>7. Finalizing("main") => M.r \in Renderer /\ M.r # r
  BY <1>1, <1>3, Threads, ControlParts DEF Finalizing, StageInv, Fits
<1>8. StageInv'
  <2>1. frame'["app"].pc \in Working => renderers'[frame'["app"].r].stage = "making"
    BY <1>2, <1>3 DEF Working
  <2>2. ASSUME NEW u \in Thread, Finalizing(u)' PROVE renderers'[frame'[u].r].stage = "dying"
    <3>1. CASE u = "app"
      BY <1>2, <1>3, <2>2, <3>1 DEF Finalizing
    <3>2. CASE u = "main"
      <4>1. Finalizing("main") /\ renderers[M.r].stage = "dying"
        BY <1>1, <2>2, <3>2, Threads DEF Finalizing, StageInv
      <4> QED BY <1>7, <3>2, <4>1
    <3> QED BY <1>4, <3>1, <3>2
  <2>3. Finalizing("main")' /\ Finalizing("app")' => frame'["main"].r # frame'["app"].r
    BY <1>2, <1>3, <1>7 DEF Finalizing
  <2>4. ASSUME NEW i \in DOMAIN mainQ', mainQ'[i].task = "set_source"
        PROVE  renderers'[mainQ'[i].r].stage = "live"
    <3>1. mainQ[i].r \in Renderer /\ renderers[mainQ[i].r].stage = "live"
      BY <1>1, <2>4, TaskFields DEF StageInv, TypeOK
    <3> QED BY <1>3, <2>4, <3>1
  <2> QED BY <2>1, <2>2, <2>3, <2>4 DEF StageInv, Working
<1>9. BranchInv'
  <2>1. \A q \in Renderer : renderers'[q].stage \in {"none", "making"} => renderers'[q].source = None
    BY <1>1, <1>3 DEF BranchInv
  <2>2. \A q \in Renderer : renderers'[q].branch => renderers'[q].source # None
    BY <1>1 DEF BranchInv
  <2>3. ASSUME frame'["main"].pc = "show" PROVE Dead(M.r)' \/ ~renderers'[M.r].branch
    <3>1. M.r \in Renderer
      BY <2>3, ControlParts DEF Fits
    <3>2. renderers[M.r].stage \in {"dying", "gone"} \/ ~renderers[M.r].branch
      BY <1>1, <2>3 DEF BranchInv, Dead
    <3> QED BY <1>3, <3>1, <3>2 DEF Dead
  <2> QED BY <2>1, <2>2, <2>3 DEF BranchInv, Dead
<1> QED BY <1>5, <1>6, <1>8, <1>9 DEF ControlInv

\* A task is appended; a set_source is for a live renderer.
LEMMA Control_Schedule ==
    ASSUME TypeOK, ControlInv, NEW k \in Task, mainQ' = Append(mainQ, k) \/ mainQ' = mainQ,
           k.task = "set_source" => k.r \in Renderer /\ renderers[k.r].stage = "live",
           frame' = frame, registry' = registry,
           \A r \in Renderer : /\ renderers'[r].source = renderers[r].source
                               /\ renderers'[r].branch = renderers[r].branch
                               /\ renderers'[r].stage = renderers[r].stage
    PROVE  ControlInv'
<1>1. FrameInv /\ EntryInv /\ StageInv /\ BranchInv
  BY DEF ControlInv
<1>2. FrameInv' /\ EntryInv'
  BY <1>1 DEF FrameInv, EntryInv
<1>3. BranchInv'
  <2>1. frame'["main"].pc = "show" => frame["main"].pc = "show" /\ frame'["main"].r = frame["main"].r
    OBVIOUS
  <2> QED BY <1>1, <2>1, BranchStep
<1>4. StageInv'
  <2>1. frame["app"].pc \in Working => frame["app"].r \in Renderer
    BY ControlParts DEF Fits, Working
  <2>2. \A u \in Thread : Finalizing(u) => frame[u].r \in Renderer
    BY <1>1 DEF Finalizing, FrameInv, Fits
  <2>3. ASSUME NEW i \in DOMAIN mainQ', mainQ'[i].task = "set_source"
        PROVE  renderers'[mainQ'[i].r].stage = "live"
    <3>1. (i \in DOMAIN mainQ /\ mainQ'[i] = mainQ[i]) \/ mainQ'[i] = k
      BY DEF TypeOK
    <3>2. CASE i \in DOMAIN mainQ /\ mainQ'[i] = mainQ[i]
      <4>1. mainQ[i].r \in Renderer /\ renderers[mainQ[i].r].stage = "live"
        BY <1>1, <2>3, <3>2, TaskFields DEF StageInv, TypeOK
      <4> QED BY <3>2, <4>1
    <3>3. CASE mainQ'[i] = k
      BY <2>3, <3>3
    <3> QED BY <3>1, <3>2, <3>3
  <2>4. \A u \in Thread : Finalizing(u)' => renderers'[frame'[u].r].stage = "dying"
    BY <1>1, <2>2 DEF StageInv, Finalizing
  <2>5. frame'["app"].pc \in Working => renderers'[frame'["app"].r].stage = "making"
    BY <1>1, <2>1 DEF StageInv, Working
  <2>6. Finalizing("main")' /\ Finalizing("app")' => frame'["main"].r # frame'["app"].r
    BY <1>1 DEF StageInv, Finalizing
  <2> QED BY <2>3, <2>4, <2>5, <2>6 DEF StageInv, Working
<1> QED BY <1>2, <1>3, <1>4 DEF ControlInv

LEMMA Control_Idle ==
    ASSUME TypeOK, ControlInv, UNCHANGED <<renderers, registry, mainQ, frame>>
    PROVE  ControlInv'
  BY DEF ControlInv, FrameInv, EntryInv, StageInv, BranchInv, Finalizing, Dead

LEMMA Control_App ==
    ASSUME TypeOK, ControlInv, App
    PROVE  ControlInv'
<1> USE DEF Call
<1>1. ASSUME NEW r \in Renderer, New(r) PROVE ControlInv'
  <2>1. \A x \in Rendering : LET y == [x EXCEPT !.stage = "live", !.held = TRUE, !.sink = Own]
                             IN y.stage = "live" /\ y.source = x.source /\ y.branch = x.branch
    BY DEF Rendering
  <2>2. /\ \A q \in Renderer \ {r} : renderers'[q] = renderers[q]
        /\ renderers'[r] = [renderers[r] EXCEPT !.stage = "live", !.held = TRUE, !.sink = Own]
    BY <1>1 DEF New, TypeOK
  <2>3. /\ renderers'[r].stage = "live" /\ renderers'[r].source = renderers[r].source
        /\ renderers'[r].branch = renderers[r].branch
    BY <2>1, <2>2 DEF TypeOK
  <2> QED BY <1>1, <2>2, <2>3, Control_OneRenderer DEF New
<1>2. ASSUME NEW r \in Renderer, Drop(r) PROVE ControlInv'
  <2> DEFINE last == \A i \in DOMAIN mainQ : ~(mainQ[i].task = "set_source" /\ mainQ[i].r = r)
  <2>1. \A x \in Rendering : \A g \in {"dying", x.stage} :
           LET y == [x EXCEPT !.held = FALSE, !.stage = g]
           IN y.stage = g /\ y.source = x.source /\ y.branch = x.branch
    BY DEF Rendering
  <2>2. /\ \A q \in Renderer \ {r} : renderers'[q] = renderers[q]
        /\ renderers'[r] = [renderers[r] EXCEPT !.held = FALSE,
                               !.stage = IF last THEN "dying" ELSE renderers[r].stage]
    BY <1>2 DEF Drop, TypeOK
  <2>3. /\ renderers'[r].stage = IF last THEN "dying" ELSE renderers[r].stage
        /\ renderers'[r].source = renderers[r].source
        /\ renderers'[r].branch = renderers[r].branch
    BY <2>1, <2>2 DEF TypeOK
  <2>4. frame'["main"] = frame["main"]
    BY <1>2, Threads DEF Drop, StartFinalize, TypeOK
  <2>5. CASE last
    <3>1. frame'["app"] = [Idle EXCEPT !.pc = "finalize", !.r = r, !.t = renderers[r].tag]
      BY <1>2, <2>5, Threads DEF Drop, StartFinalize, TypeOK
    <3>2. frame'["app"].pc = "finalize" /\ frame'["app"].r = r
      BY <3>1, FinalizeFrame
    <3>3. /\ frame["app"] = Idle /\ registry' = registry /\ mainQ' = mainQ
          /\ renderers[r].stage = "live" /\ renderers'[r].stage = "dying"
      BY <1>2, <2>3, <2>5 DEF Drop
    <3> QED BY <2>2, <2>3, <2>4, <2>5, <3>2, <3>3, Control_OneRenderer
  <2>6. CASE ~last
    <3>1. frame' = frame
      BY <1>2, <2>6 DEF Drop
    <3>2. /\ frame["app"] = Idle /\ frame'["app"] = Idle /\ registry' = registry /\ mainQ' = mainQ
          /\ renderers[r].stage = "live" /\ renderers'[r].stage = "live"
      BY <1>2, <2>3, <2>6, <3>1 DEF Drop
    <3> QED BY <2>2, <2>3, <2>4, <3>2, Control_OneRenderer
  <2> QED BY <2>5, <2>6
<1>3. ASSUME NEW r \in Renderer, NEW t \in Tag, NewTagged(r, t) PROVE ControlInv'
  <2>1. \A x \in Rendering : LET y == [x EXCEPT !.stage = "making", !.held = TRUE, !.tag = t]
                             IN y.stage = "making" /\ y.source = x.source /\ y.branch = x.branch
    BY DEF Rendering
  <2>2. /\ \A q \in Renderer \ {r} : renderers'[q] = renderers[q]
        /\ renderers'[r] = [renderers[r] EXCEPT !.stage = "making", !.held = TRUE, !.tag = t]
    BY <1>3 DEF NewTagged, TypeOK
  <2>3. /\ renderers'[r].stage = "making" /\ renderers'[r].source = renderers[r].source
        /\ renderers'[r].branch = renderers[r].branch
    BY <2>1, <2>2 DEF TypeOK
  <2>4. /\ frame'["main"] = frame["main"]
        /\ frame'["app"] = [pc |-> "renderer", r |-> r, t |-> t, h |-> None, data |-> Found(t)]
    BY <1>3, Threads DEF NewTagged, TypeOK
  <2>5. /\ frame'["app"].pc = "renderer" /\ frame'["app"].r = r /\ frame'["app"].t = t
        /\ frame'["app"].data = "held" => registry[t] # None
    BY <2>4 DEF Found
  <2> QED BY <1>3, <2>2, <2>3, <2>4, <2>5, Control_OneRenderer DEF NewTagged
<1>4. ASSUME NEW r \in Renderer, NEW s \in Source \cup {None}, SetSource(r, s) PROVE ControlInv'
  <2>1. \A x \in Rendering : LET y == [x EXCEPT !.asked = s]
                             IN y.stage = x.stage /\ y.source = x.source /\ y.branch = x.branch
    BY DEF Rendering
  <2>2. renderers' = [renderers EXCEPT ![r] = [renderers[r] EXCEPT !.asked = s]]
    BY <1>4 DEF SetSource
  <2>3. \A q \in Renderer : /\ renderers'[q].source = renderers[q].source
                            /\ renderers'[q].branch = renderers[q].branch
                            /\ renderers'[q].stage = renderers[q].stage
    BY <2>1, <2>2 DEF TypeOK
  <2> DEFINE k == [task |-> "set_source", r |-> r, s |-> s]
  <2>4. k \in Task /\ k.r = r
    BY DEF Task
  <2>5. mainQ' = Append(mainQ, k) /\ frame' = frame /\ registry' = registry /\ renderers[r].stage = "live"
    BY <1>4 DEF SetSource, Schedule
  <2> HIDE DEF k
  <2> QED BY <2>3, <2>4, <2>5, Control_Schedule
<1>5. ASSUME NEW t \in Tag, Unregister(t) PROVE ControlInv'
  <2> DEFINE k == [task |-> "unregister", t |-> t]
  <2>1. k \in Task /\ k.task = "unregister"
    BY DEF Task
  <2>2. mainQ' = Append(mainQ, k) /\ frame' = frame /\ registry' = registry /\ renderers' = renderers
    BY <1>5 DEF Unregister, Schedule
  <2> HIDE DEF k
  <2> QED BY <2>1, <2>2, Control_Schedule
<1>6. ASSUME NEW t \in Tag, NEW h \in Handle, Register(t, h) PROVE ControlInv'
  <2> DEFINE k == [task |-> "register", t |-> t, h |-> h]
  <2>1. k \in Task /\ k.task = "register"
    BY DEF Task
  <2>2. mainQ' = Append(mainQ, k) /\ frame' = frame /\ registry' = registry /\ renderers' = renderers
    BY <1>6 DEF Register, Schedule
  <2> HIDE DEF k
  <2> QED BY <2>1, <2>2, Control_Schedule
<1>7. ASSUME NEW s \in Source, NEW l \in Level, SetVolume(s, l) PROVE ControlInv'
  BY <1>7, Control_Idle DEF SetVolume
<1> QED BY <1>1, <1>2, <1>3, <1>4, <1>5, <1>6, <1>7 DEF App

LEMMA Control_ProbeIdle ==
    ASSUME TypeOK, ControlInv, NEW s \in Source, ProbeIdle(s)
    PROVE  ControlInv'
<1> DEFINE k == [task |-> "shutdown", s |-> s]
<1>1. k \in Task /\ k.task = "shutdown"
  BY DEF Task
<1>2. /\ mainQ' = Append(mainQ, k) \/ mainQ' = mainQ
      /\ frame' = frame /\ registry' = registry /\ renderers' = renderers
  BY DEF ProbeIdle
<1> HIDE DEF k
<1> QED BY <1>1, <1>2, Control_Schedule

----------------------------------------------------------------------------
(* The branches of the tees *)

\* The renderer has a branch of the source.
Feeds(s, r) == renderers[r].branch /\ renderers[r].source = s

\* Only renderer r changes, so the consumers of a source gain it or lose it.
LEMMA ConsumersStep ==
    ASSUME NEW r \in Renderer, NEW s \in Source,
           \A q \in Renderer \ {r} : Feeds(s, q)' <=> Feeds(s, q)
    PROVE  /\ Feeds(s, r)' /\ ~Feeds(s, r) =>
                 Cardinality(Consumers(s)') = Cardinality(Consumers(s)) + 1
           /\ ~Feeds(s, r)' /\ Feeds(s, r) =>
                 Cardinality(Consumers(s)') = Cardinality(Consumers(s)) - 1
           /\ (Feeds(s, r)' <=> Feeds(s, r)) => Consumers(s)' = Consumers(s)
<1> DEFINE D == Consumers(s) \ {r}
<1>1. IsFiniteSet(D) /\ IsFiniteSet(Consumers(s)) /\ Cardinality(D) \in Nat /\ r \notin D
  <2>1. IsFiniteSet(Consumers(s)) /\ IsFiniteSet(D)
    BY ConsumersFinite, FS_Subset
  <2> QED BY <2>1, FS_CardinalityType
<1>2. Cardinality(D \cup {r}) = Cardinality(D) + 1
  BY <1>1, FS_AddElement
<1>3. Consumers(s) = IF Feeds(s, r) THEN D \cup {r} ELSE D
  BY DEF Consumers, Feeds
<1>4. Consumers(s)' = IF Feeds(s, r)' THEN D \cup {r} ELSE D
  BY DEF Consumers, Feeds
<1> HIDE DEF D
<1> QED BY <1>1, <1>2, <1>3, <1>4

\* A renderer's branch keeps the pipeline running.
LEMMA UsedRuns ==
    ASSUME TypeOK, MediaInv, NEW s \in Source, NEW r \in Consumers(s)
    PROVE  media[s].running /\ media[s].pads > 0
<1>1. IsFiniteSet(Consumers(s)) /\ Cardinality(Consumers(s)) \in Nat
  BY ConsumersFinite
<1>2. Cardinality(Consumers(s)) > 0
  BY <1>1, FS_EmptySet
<1>3. media[s].pads \in Nat /\ Away(media[s]) \in Nat
  BY AwayType DEF TypeOK
<1>4. media[s].pads = Away(media[s]) + Cardinality(Consumers(s))
  BY DEF MediaInv, BranchesOwned, Away
<1> QED BY <1>1, <1>2, <1>3, <1>4 DEF MediaInv, PadsRun

\* A step that changes one renderer, and the sources by the branch that it loses or gets.
LEMMA MediaStep ==
    ASSUME TypeOK, MediaInv, media' \in [Source -> Media], NEW r \in Renderer,
           \A q \in Renderer \ {r} : renderers'[q] = renderers[q],
           \A s \in Source :
              /\ media'[s].pads > 0 => media'[s].running
              /\ (Feeds(s, r)' <=> Feeds(s, r)) =>
                    /\ media'[s].pads = media[s].pads /\ Away(media'[s]) = Away(media[s])
              /\ Feeds(s, r)' /\ ~Feeds(s, r) =>
                    /\ media'[s].pads = media[s].pads + 1 /\ Away(media'[s]) = Away(media[s])
              /\ ~Feeds(s, r)' /\ Feeds(s, r) =>
                    /\ media'[s].pads = media[s].pads /\ Away(media'[s]) = Away(media[s]) + 1
    PROVE  MediaInv'
<1>1. ASSUME NEW s \in Source
      PROVE  media'[s].pads = Away(media'[s]) + Cardinality(Consumers(s)')
  <2>1. \A q \in Renderer \ {r} : Feeds(s, q)' <=> Feeds(s, q)
    BY DEF Feeds
  <2>2. /\ media[s].pads \in Nat /\ Away(media[s]) \in Nat
        /\ media'[s].pads \in Nat /\ Away(media'[s]) \in Nat
    BY AwayType DEF TypeOK
  <2>3. media[s].pads = Away(media[s]) + Cardinality(Consumers(s))
    BY DEF MediaInv, BranchesOwned, Away
  <2>4. Cardinality(Consumers(s)) \in Nat
    BY ConsumersFinite
  <2>5. CASE Feeds(s, r)' <=> Feeds(s, r)
    <3>1. Consumers(s)' = Consumers(s)
      BY <2>1, <2>5, ConsumersStep
    <3> QED BY <2>3, <2>5, <3>1
  <2>6. CASE Feeds(s, r)' /\ ~Feeds(s, r)
    <3>1. Cardinality(Consumers(s)') = Cardinality(Consumers(s)) + 1
      BY <2>1, <2>6, ConsumersStep
    <3> QED BY <2>2, <2>3, <2>4, <2>6, <3>1
  <2>7. CASE ~Feeds(s, r)' /\ Feeds(s, r)
    <3>1. Cardinality(Consumers(s)') = Cardinality(Consumers(s)) - 1
      BY <2>1, <2>7, ConsumersStep
    <3> QED BY <2>2, <2>3, <2>4, <2>7, <3>1
  <2> QED BY <2>5, <2>6, <2>7
<1>2. BranchesOwned'
  BY <1>1 DEF BranchesOwned, Away
<1>3. PadsRun'
  BY DEF PadsRun
<1> QED BY <1>2, <1>3 DEF MediaInv

\* A step that leaves every branch with its renderer.
LEMMA MediaSame ==
    ASSUME TypeOK, MediaInv,
           \A r \in Renderer : /\ renderers'[r].source = renderers[r].source
                               /\ renderers'[r].branch = renderers[r].branch,
           \A s \in Source : /\ media'[s].pads = media[s].pads
                             /\ Away(media'[s]) = Away(media[s])
                             /\ media[s].pads > 0 => media'[s].running = media[s].running
    PROVE  MediaInv'
<1>1. \A s \in Source : Consumers(s)' = Consumers(s)
  BY DEF Consumers
<1>2. BranchesOwned'
  BY <1>1 DEF MediaInv, BranchesOwned, Away
<1>3. PadsRun'
  BY DEF MediaInv, PadsRun
<1> QED BY <1>2, <1>3 DEF MediaInv

\* The renderer's branch, if it has one, is released or left behind.
LEMMA MediaReleased ==
    ASSUME TypeOK, MediaInv, NEW r \in Renderer,
           renderers[r].branch => renderers[r].source # None,
           \A q \in Renderer \ {r} : renderers'[q] = renderers[q],
           ~renderers'[r].branch,
           ~renderers[r].branch => media' = media,
           renderers[r].branch =>
               \/ media' = [media EXCEPT ![renderers[r].source] = Released(@)]
               \/ media' = [media EXCEPT ![renderers[r].source] = LeftBehind(@)]
    PROVE  MediaInv'
<1> DEFINE o == renderers[r].source
<1>1. o \in Source \cup {None}
  BY DEF TypeOK, Rendering
<1>2. CASE renderers[r].branch
  <2>1. o \in Source /\ r \in Consumers(o) /\ media[o] \in Media
    BY <1>1, <1>2 DEF Consumers, TypeOK
  <2>2. media[o].running
    BY <2>1, UsedRuns
  <2>4. PICK n \in {Released(media[o]), LeftBehind(media[o])} : media' = [media EXCEPT ![o] = n]
    BY <1>2
  <2>3. n \in Media /\ n.running /\ n.pads = media[o].pads /\ Away(n) = Away(media[o]) + 1
    BY <2>1, <2>2, BranchFacts
  <2>5. media' \in [Source -> Media]
    BY <2>3, <2>4 DEF TypeOK
  <2>6. media'[o] = n /\ \A s \in Source \ {o} : media'[s] = media[s]
    BY <2>1, <2>4 DEF TypeOK
  <2>7. ASSUME NEW s \in Source
        PROVE  /\ media'[s].pads > 0 => media'[s].running
               /\ (Feeds(s, r)' <=> Feeds(s, r)) =>
                     /\ media'[s].pads = media[s].pads /\ Away(media'[s]) = Away(media[s])
               /\ ~Feeds(s, r)'
               /\ ~Feeds(s, r)' /\ Feeds(s, r) =>
                     /\ media'[s].pads = media[s].pads /\ Away(media'[s]) = Away(media[s]) + 1
    <3>1. ~Feeds(s, r)' /\ (Feeds(s, r) <=> s = o)
      BY <1>2 DEF Feeds
    <3>2. CASE s = o
      BY <2>3, <2>6, <3>1, <3>2
    <3>3. CASE s # o
      BY <2>6, <3>1, <3>3 DEF MediaInv, PadsRun
    <3> QED BY <3>2, <3>3
  <2> QED BY <2>5, <2>7, MediaStep
<1>3. CASE ~renderers[r].branch
  <2>1. media' = media /\ \A q \in Renderer \ {r} : renderers'[q] = renderers[q]
    BY <1>3
  <2>2. \A s \in Source : Consumers(s)' = Consumers(s)
    BY <1>3, <2>1 DEF Consumers
  <2> QED BY <2>1, <2>2 DEF MediaInv, BranchesOwned, PadsRun
<1> QED BY <1>2, <1>3

\* The renderer's source changes: the branch of the old one is released, and one of the
\* new one requested if there is a sink.
LEMMA Media_SetSource ==
    ASSUME TypeOK, BranchInv, MediaInv, NEW r \in Renderer, NEW s \in Source \cup {None},
           SetSourceTask(r, s)
    PROVE  MediaInv'
<1> DEFINE x == renderers[r]
           o == x.source
           out == IF x.branch THEN [media EXCEPT ![o] = Released(@)] ELSE media
           new == s # None /\ x.sink # None
<1>1. x \in Rendering /\ o \in Source \cup {None} /\ (x.branch => o # None)
  BY DEF TypeOK, Rendering, BranchInv
<1>2. /\ renderers'[r].source = s
      /\ s = o => renderers'[r].branch = x.branch
      /\ s # o => renderers'[r].branch = new
      /\ \A q \in Renderer \ {r} : renderers'[q] = renderers[q]
      /\ media' = IF s = o THEN media ELSE Replaced(media, x, s)
  BY SetSourceEffect
<1>3. CASE s = o
  <2>1. \A q \in Renderer : /\ renderers'[q].source = renderers[q].source
                            /\ renderers'[q].branch = renderers[q].branch
    BY <1>2, <1>3
  <2>2. media' = media
    BY <1>2, <1>3
  <2> QED BY <2>1, <2>2, MediaSame
<1>4. CASE s # o
  <2>1. out \in [Source -> Media] /\ media' = (IF new THEN [out EXCEPT ![s] = Requested(@, s)] ELSE out)
    <3>1. out \in [Source -> Media]
      BY <1>1, MediaFacts DEF TypeOK
    <3> QED BY <1>2, <1>4, <3>1 DEF Replaced
  <2>2. media' \in [Source -> Media]
    BY <1>1, <1>2, <1>4, ReplacedType DEF TypeOK
  <2>3. \A t \in Source \ {o} : out[t] = media[t]
    BY DEF TypeOK
  <2>4. ASSUME x.branch
        PROVE  /\ o \in Source /\ out[o].running /\ out[o].pads = media[o].pads
               /\ Away(out[o]) = Away(media[o]) + 1
    <3>1. o \in Source /\ r \in Consumers(o) /\ media[o] \in Media
      BY <1>1, <2>4 DEF Consumers, TypeOK
    <3>2. media[o].running
      BY <3>1, UsedRuns
    <3>3. out[o] = Released(media[o])
      BY <2>4, <3>1 DEF TypeOK
    <3> QED BY <3>1, <3>2, <3>3, BranchFacts
  <2>5. ~x.branch => out = media
    OBVIOUS
  <2> HIDE DEF out
  <2>6. new => /\ s \in Source /\ media'[s].running /\ media'[s].pads = media[s].pads + 1
               /\ Away(media'[s]) = Away(media[s])
    <3>1. ASSUME new PROVE s \in Source /\ media'[s] = Requested(out[s], s) /\ out[s] = media[s]
                           /\ media[s] \in Media
      BY <1>4, <2>1, <2>3, <3>1 DEF TypeOK
    <3> QED BY <3>1, BranchFacts
  <2>7. \A t \in Source : ~(new /\ t = s) => media'[t] = out[t]
    BY <2>1
  <2>8. ASSUME NEW t \in Source
        PROVE  /\ media'[t].pads > 0 => media'[t].running
               /\ (Feeds(t, r)' <=> Feeds(t, r)) =>
                     /\ media'[t].pads = media[t].pads /\ Away(media'[t]) = Away(media[t])
               /\ Feeds(t, r)' /\ ~Feeds(t, r) =>
                     /\ media'[t].pads = media[t].pads + 1 /\ Away(media'[t]) = Away(media[t])
               /\ ~Feeds(t, r)' /\ Feeds(t, r) =>
                     /\ media'[t].pads = media[t].pads /\ Away(media'[t]) = Away(media[t]) + 1
    <3>1. (Feeds(t, r)' <=> new /\ t = s) /\ (Feeds(t, r) <=> x.branch /\ t = o)
      BY <1>2, <1>4 DEF Feeds
    <3>2. CASE new /\ t = s
      BY <1>4, <2>6, <3>1, <3>2
    <3>3. CASE x.branch /\ t = o
      <4>1. media'[t] = out[t]
        BY <1>4, <2>7, <3>3
      <4> QED BY <1>4, <2>4, <3>1, <3>3, <4>1
    <3>4. CASE ~(new /\ t = s) /\ ~(x.branch /\ t = o)
      <4>1. media'[t] = media[t]
        BY <2>3, <2>5, <2>7, <3>4
      <4> QED BY <3>1, <3>4, <4>1 DEF MediaInv, PadsRun
    <3> QED BY <3>2, <3>3, <3>4
  <2> QED BY <1>2, <2>2, <2>8, MediaStep
<1> QED BY <1>3, <1>4

\* A sink is set on a renderer without a branch.
LEMMA Media_SetSink ==
    ASSUME TypeOK, MediaInv, NEW r \in Renderer, NEW h \in Handle, ~renderers[r].branch,
           SetSink(r, h)
    PROVE  MediaInv'
<1> DEFINE o == renderers[r].source
<1>1. /\ renderers'[r].source = o /\ (renderers'[r].branch <=> o # None)
      /\ \A q \in Renderer \ {r} : renderers'[q] = renderers[q]
      /\ media' = IF o # None THEN [media EXCEPT ![o] = Requested(@, o)] ELSE media
  BY SetSinkEffect
<1>2. media' \in [Source -> Media] /\ o \in Source \cup {None}
  BY SetSinkType DEF TypeOK, Rendering
<1>3. o # None => /\ media'[o].running /\ media'[o].pads = media[o].pads + 1
                  /\ Away(media'[o]) = Away(media[o])
  <2>1. ASSUME o # None PROVE o \in Source /\ media[o] \in Media /\ media'[o] = Requested(media[o], o)
    BY <1>1, <1>2, <2>1 DEF TypeOK
  <2> QED BY <2>1, BranchFacts
<1>4. \A s \in Source \ {o} : media'[s] = media[s]
  BY <1>1 DEF TypeOK
<1>5. ASSUME NEW s \in Source
      PROVE  /\ media'[s].pads > 0 => media'[s].running
             /\ ~Feeds(s, r)
             /\ (Feeds(s, r)' <=> Feeds(s, r)) =>
                   /\ media'[s].pads = media[s].pads /\ Away(media'[s]) = Away(media[s])
             /\ Feeds(s, r)' =>
                   /\ media'[s].pads = media[s].pads + 1 /\ Away(media'[s]) = Away(media[s])
  <2>1. ~Feeds(s, r) /\ (Feeds(s, r)' <=> s = o)
    BY <1>1, NoneAssumption DEF Feeds
  <2>2. s = o => o # None
    BY NoneAssumption
  <2>3. CASE s = o
    BY <1>3, <2>1, <2>2, <2>3
  <2>4. CASE s # o
    BY <1>4, <2>1, <2>4 DEF MediaInv, PadsRun
  <2> QED BY <2>1, <2>3, <2>4
<1> QED BY <1>1, <1>2, <1>5, MediaStep

LEMMA Media_Continue ==
    ASSUME TypeOK, ControlInv, MediaInv, NEW th \in Thread, Continue(th)
    PROVE  MediaInv'
<1> DEFINE f == frame[th]
<1>1. FrameInv /\ EntryInv /\ StageInv /\ BranchInv
  BY DEF ControlInv
<1>2. ASSUME NEW u \in Thread, Return(u), u = "app" => frame[u].r \in Renderer
      PROVE  MediaInv'
  <2>1. media' = media
    BY <1>2 DEF Return
  <2>2. \A r \in Renderer : /\ renderers'[r].source = renderers[r].source
                            /\ renderers'[r].branch = renderers[r].branch
    BY <1>2, ReturnType
  <2> QED BY <2>1, <2>2, MediaSame
<1>3. ASSUME NEW u \in Thread, NEW t \in Tag, NEW entry \in Entry, Insert(u, t, entry),
             u = "app" => frame[u].r \in Renderer
      PROVE  MediaInv'
  <2>1. media' = media
    BY <1>3 DEF Insert
  <2>2. \A r \in Renderer : /\ renderers'[r].source = renderers[r].source
                            /\ renderers'[r].branch = renderers[r].branch
    BY <1>3, InsertType
  <2> QED BY <2>1, <2>2, MediaSame
<1>4. ASSUME UNCHANGED <<media, renderers>> PROVE MediaInv'
  BY <1>4, MediaSame
<1>5. ASSUME NEW u, NEW pc, NEW r, NEW h, Go(u, pc, r, h) PROVE MediaInv'
  BY <1>4, <1>5 DEF Go
<1>6. CASE DoRegister
  <2>1. frame["main"].t \in Tag /\ frame["main"].h \in Handle
    BY <1>6, ControlParts DEF DoRegister, Fits
  <2>2. [handle |-> frame["main"].h, renderer |-> None] \in Entry
    BY <2>1 DEF Entry
  <2> QED BY <1>2, <1>3, <1>5, <1>6, <2>1, <2>2, Threads DEF DoRegister, Misused
<1>7. CASE DoUnregister
  BY <1>2, <1>4, <1>5, <1>7, Threads DEF DoUnregister, Misused
<1>8. CASE RegisterRenderer
  <2>1. frame["app"].t \in Tag /\ frame["app"].r \in Renderer
    BY <1>8, ControlParts DEF RegisterRenderer, Fits
  <2>2. [handle |-> None, renderer |-> frame["app"].r] \in Entry
    BY <2>1 DEF Entry
  <2> QED BY <1>2, <1>3, <1>5, <1>8, <2>1, <2>2, Threads DEF RegisterRenderer, Misused
<1>9. CASE CheckHandle
  <2>1. frame["app"].r \in Renderer
    BY <1>9, ControlParts DEF CheckHandle, Fits
  <2> QED BY <1>2, <1>5, <1>9, <2>1, Threads DEF CheckHandle
<1>10. CASE NotifyClear(th)
  <2>1. f.r \in Renderer
    BY <1>1, <1>10 DEF NotifyClear, FrameInv, Fits
  <2>2. CASE ClearSink(f.r)
    <3>1. /\ ~renderers'[f.r].branch
          /\ \A q \in Renderer \ {f.r} : renderers'[q] = renderers[q]
      BY <2>1, <2>2, ClearSinkEffect
    <3>2. renderers[f.r].branch => renderers[f.r].source # None
      BY <1>1, <2>1 DEF BranchInv
    <3>3. media' = IF renderers[f.r].branch
                   THEN [media EXCEPT ![renderers[f.r].source] = Released(@)] ELSE media
      BY <2>2 DEF ClearSink
    <3> HIDE DEF f
    <3> QED BY <2>1, <3>1, <3>2, <3>3, MediaReleased
  <2> QED BY <1>2, <1>10, <2>1, <2>2 DEF NotifyClear, Misused
<1>11. CASE NotifyShow(th)
  <2>1. f.r \in Renderer /\ f.h \in Handle
    BY <1>1, <1>11 DEF NotifyShow, FrameInv, Fits
  <2>2. CASE SetSink(f.r, f.h) /\ ~Dead(f.r)
    <3>1. ~renderers[f.r].branch
      <4>1. CASE th = "main"
        BY <1>1, <1>11, <2>2, <4>1 DEF BranchInv, NotifyShow
      <4>2. CASE th = "app"
        BY <1>1, <1>11, <2>1, <4>2 DEF BranchInv, StageInv, NotifyShow
      <4> QED BY <4>1, <4>2, Threads
    <3> QED BY <2>1, <2>2, <3>1, Media_SetSink
  <2> QED BY <1>2, <1>11, <2>1, <2>2 DEF NotifyShow, Misused
<1>12. CASE NotifyReturn(th)
  <2>1. f.r \in Renderer
    BY <1>1, <1>12 DEF NotifyReturn, FrameInv, Fits
  <2> QED BY <1>2, <1>12, <2>1 DEF NotifyReturn
<1>13. CASE UnregisterRenderer(th)
  BY <1>4, <1>13 DEF UnregisterRenderer
<1>14. CASE Finalize(th)
  <2>1. f.r \in Renderer
    BY <1>1, <1>14 DEF Finalize, FrameInv, Fits
  <2>2. renderers[f.r].branch => renderers[f.r].source # None
    BY <1>1, <2>1 DEF BranchInv
  <2> DEFINE n == [renderers[f.r] EXCEPT !.stage = "gone", !.source = None, !.branch = FALSE,
                                         !.sink = None, !.playing = FALSE]
  <2>3. n.branch = FALSE
    BY <2>1 DEF TypeOK, Rendering
  <2>4. renderers' = [renderers EXCEPT ![f.r] = n]
    BY <1>14 DEF Finalize
  <2> HIDE DEF n
  <2>5. ~renderers'[f.r].branch /\ \A q \in Renderer \ {f.r} : renderers'[q] = renderers[q]
    BY <2>1, <2>3, <2>4 DEF TypeOK
  <2>6. media' = IF renderers[f.r].branch
                 THEN [media EXCEPT ![renderers[f.r].source] = LeftBehind(@)] ELSE media
    BY <1>14 DEF Finalize
  <2> HIDE DEF f
  <2> QED BY <2>1, <2>2, <2>5, <2>6, MediaReleased
<1> QED BY <1>6, <1>7, <1>8, <1>9, <1>10, <1>11, <1>12, <1>13, <1>14 DEF Continue

LEMMA Media_RunTask ==
    ASSUME TypeOK, ControlInv, MediaInv, RunTask
    PROVE  MediaInv'
<1> DEFINE k == Head(mainQ)
<1>1. k \in Task
  BY TaskFacts DEF RunTask
<1>2. CASE k.task = "set_source" /\ SetSourceTask(k.r, k.s)
  <2>1. k.r \in Renderer /\ k.s \in Source \cup {None}
    BY <1>1, <1>2, TaskFields
  <2> HIDE DEF k
  <2> QED BY <1>2, <2>1, Media_SetSource DEF ControlInv
<1>3. CASE k.task = "shutdown" /\ ShutdownTask(k.s)
  <2> DEFINE s == k.s
             n == ShutDown(media[s])
  <2>1. s \in Source /\ media[s] \in Media
    BY <1>1, <1>3, TaskFields DEF TypeOK
  <2>2. /\ n.pads = media[s].pads /\ Away(n) = Away(media[s])
        /\ media[s].pads > 0 => n.running = media[s].running
    BY <2>1, MediaFacts
  <2>3. media' = [media EXCEPT ![s] = n] /\ renderers' = renderers
    BY <1>3 DEF ShutdownTask
  <2> HIDE DEF n, s
  <2>4. \A t \in Source : /\ media'[t].pads = media[t].pads
                          /\ Away(media'[t]) = Away(media[t])
                          /\ media[t].pads > 0 => media'[t].running = media[t].running
    BY <2>1, <2>2, <2>3 DEF TypeOK
  <2> QED BY <2>3, <2>4, MediaSame
<1>4. CASE UNCHANGED <<media, renderers>>
  BY <1>4, MediaSame
<1> QED BY <1>2, <1>3, <1>4 DEF RunTask, Lookup

LEMMA Media_App ==
    ASSUME TypeOK, MediaInv, App
    PROVE  MediaInv'
<1> USE DEF Call
<1>1. CASE media' = media /\ \E r \in Renderer, y \in Rendering :
              /\ renderers' = [renderers EXCEPT ![r] = y]
              /\ y.source = renderers[r].source /\ y.branch = renderers[r].branch
  BY <1>1, MediaSame DEF TypeOK
<1>2. ASSUME NEW r \in Renderer, New(r) PROVE MediaInv'
  <2>1. \A x \in Rendering :
           LET y == [x EXCEPT !.stage = "live", !.held = TRUE, !.sink = Own]
           IN y \in Rendering /\ y.source = x.source /\ y.branch = x.branch
    BY DEF Rendering
  <2>2. renderers[r] \in Rendering
    BY DEF TypeOK
  <2> DEFINE y == [renderers[r] EXCEPT !.stage = "live", !.held = TRUE, !.sink = Own]
  <2>3. y \in Rendering /\ y.source = renderers[r].source /\ y.branch = renderers[r].branch
    BY <2>1, <2>2
  <2>4. media' = media /\ renderers' = [renderers EXCEPT ![r] = y]
    BY <1>2 DEF New, TypeOK
  <2> HIDE DEF y
  <2> QED BY <1>1, <2>3, <2>4
<1>3. ASSUME NEW r \in Renderer, Drop(r) PROVE MediaInv'
  <2>1. \A x \in Rendering : \A g \in {"dying", x.stage} :
           LET y == [x EXCEPT !.held = FALSE, !.stage = g]
           IN y \in Rendering /\ y.source = x.source /\ y.branch = x.branch
    BY DEF Rendering
  <2>2. renderers[r] \in Rendering
    BY DEF TypeOK
  <2>3. PICK g \in {"dying", renderers[r].stage} :
           renderers' = [renderers EXCEPT ![r] = [renderers[r] EXCEPT !.held = FALSE, !.stage = g]]
    BY <1>3 DEF Drop, TypeOK
  <2> DEFINE y == [renderers[r] EXCEPT !.held = FALSE, !.stage = g]
  <2>4. y \in Rendering /\ y.source = renderers[r].source /\ y.branch = renderers[r].branch
    BY <2>1, <2>2
  <2>5. media' = media /\ renderers' = [renderers EXCEPT ![r] = y]
    BY <1>3, <2>3 DEF Drop
  <2> HIDE DEF y
  <2> QED BY <1>1, <2>4, <2>5
<1>4. ASSUME NEW r \in Renderer, NEW t \in Tag, NewTagged(r, t) PROVE MediaInv'
  <2>1. \A x \in Rendering :
           LET y == [x EXCEPT !.stage = "making", !.held = TRUE, !.tag = t]
           IN y \in Rendering /\ y.source = x.source /\ y.branch = x.branch
    BY DEF Rendering
  <2>2. renderers[r] \in Rendering
    BY DEF TypeOK
  <2> DEFINE y == [renderers[r] EXCEPT !.stage = "making", !.held = TRUE, !.tag = t]
  <2>3. y \in Rendering /\ y.source = renderers[r].source /\ y.branch = renderers[r].branch
    BY <2>1, <2>2
  <2>4. media' = media /\ renderers' = [renderers EXCEPT ![r] = y]
    BY <1>4 DEF NewTagged, TypeOK
  <2> HIDE DEF y
  <2> QED BY <1>1, <2>3, <2>4
<1>5. ASSUME NEW r \in Renderer, NEW s \in Source \cup {None}, SetSource(r, s) PROVE MediaInv'
  <2>1. \A x \in Rendering :
           LET y == [x EXCEPT !.asked = s]
           IN y \in Rendering /\ y.source = x.source /\ y.branch = x.branch
    BY DEF Rendering
  <2>2. renderers[r] \in Rendering
    BY DEF TypeOK
  <2> QED BY <1>1, <1>5, <2>1, <2>2 DEF SetSource, Schedule
<1>6. ASSUME NEW t \in Tag, Unregister(t) PROVE MediaInv'
  BY <1>6, MediaSame DEF Unregister, Schedule
<1>7. ASSUME NEW t \in Tag, NEW h \in Handle, Register(t, h) PROVE MediaInv'
  BY <1>7, MediaSame DEF Register, Schedule
<1>8. ASSUME NEW s \in Source, NEW l \in Level, SetVolume(s, l) PROVE MediaInv'
  <2>1. PICK a \in {l, media[s].applied} :
           media' = [media EXCEPT ![s] = [[@ EXCEPT !.level = l] EXCEPT !.applied = a]]
    BY <1>8 DEF SetVolume, TypeOK, Media
  <2> DEFINE n == [[media[s] EXCEPT !.level = l] EXCEPT !.applied = a]
  <2>2. n.pads = media[s].pads /\ Away(n) = Away(media[s]) /\ n.running = media[s].running
    BY DEF TypeOK, Media, Away
  <2> HIDE DEF n
  <2>3. media' = [media EXCEPT ![s] = n] /\ renderers' = renderers
    BY <1>8, <2>1 DEF SetVolume, n
  <2>4. \A t \in Source : /\ media'[t].pads = media[t].pads
                          /\ Away(media'[t]) = Away(media[t])
                          /\ media[t].pads > 0 => media'[t].running = media[t].running
    BY <2>2, <2>3 DEF TypeOK
  <2> QED BY <2>3, <2>4, MediaSame
<1> QED BY <1>2, <1>3, <1>4, <1>5, <1>6, <1>7, <1>8 DEF App

LEMMA Media_ProbeIdle ==
    ASSUME TypeOK, MediaInv, NEW s \in Source, ProbeIdle(s), TypeOK'
    PROVE  MediaInv'
<1>1. /\ media'[s].leaving = media[s].leaving - 1 /\ media'[s].pads = media[s].pads - 1
      /\ media'[s].left = media[s].left /\ media'[s].running = media[s].running
      /\ \A t \in Source \ {s} : media'[t] = media[t]
      /\ renderers' = renderers
  <2> DEFINE a == media[s].leaving - 1
             b == media[s].pads - 1
             n == [[media[s] EXCEPT !.leaving = a] EXCEPT !.pads = b]
  <2>1. media' = [media EXCEPT ![s] = n] /\ renderers' = renderers
    <3>1. media' = [media EXCEPT ![s].leaving = a, ![s].pads = b] /\ renderers' = renderers
      BY DEF ProbeIdle
    <3> HIDE DEF a, b
    <3>2. [media EXCEPT ![s].leaving = a, ![s].pads = b] = [media EXCEPT ![s] = n]
      BY DEF TypeOK
    <3> QED BY <3>1, <3>2
  <2>2. /\ n.leaving = media[s].leaving - 1 /\ n.pads = media[s].pads - 1
        /\ n.left = media[s].left /\ n.running = media[s].running
    BY DEF TypeOK, Media
  <2> HIDE DEF n
  <2> QED BY <2>1, <2>2 DEF TypeOK
<1>2. /\ media[s].pads \in Nat /\ media[s].leaving \in Nat /\ media[s].left \in Nat
      /\ Cardinality(Consumers(s)) \in Nat
  BY ConsumersFinite, AwayType DEF TypeOK
<1>3. \A t \in Source : Consumers(t)' = Consumers(t)
  BY <1>1 DEF Consumers
<1>4. ASSUME NEW t \in Source
      PROVE  media'[t].pads = media'[t].leaving + media'[t].left + Cardinality(Consumers(t)')
  <2>1. media[t].pads = media[t].leaving + media[t].left + Cardinality(Consumers(t))
    BY DEF MediaInv, BranchesOwned
  <2>2. CASE t = s
    BY <1>1, <1>2, <1>3, <2>1, <2>2
  <2>3. CASE t # s
    BY <1>1, <1>3, <2>1, <2>3
  <2> QED BY <2>2, <2>3
<1>5. PadsRun'
  BY <1>1, <1>2 DEF MediaInv, PadsRun
<1> QED BY <1>4, <1>5 DEF MediaInv, BranchesOwned

----------------------------------------------------------------------------
(* The theorems *)

LEMMA InitInv == Init => LocalMediaInv
<1> SUFFICES ASSUME Init PROVE LocalMediaInv
  OBVIOUS
<1>1. TypeOK
  <2>1. [running |-> FALSE, pads |-> 0, leaving |-> 0, left |-> 0, element |-> NoElement,
         level |-> "default", applied |-> "default"] \in Media
    BY DEF Media, Level, NoElement
  <2>2. [stage |-> "none", held |-> FALSE, tag |-> None, source |-> None, branch |-> FALSE,
         sink |-> None, playing |-> FALSE, asked |-> None] \in Rendering
    BY DEF Rendering
  <2> QED BY <2>1, <2>2, FrameFacts, BoundAssumption DEF Init, TypeOK
<1>2. \A th \in Thread : frame[th] = Idle
  BY DEF Init
<1>3. FrameInv /\ EntryInv
  BY <1>2, IdleFacts, Threads DEF FrameInv, EntryInv, Init
<1>4. StageInv
  <2>1. Idle.pc = "idle" /\ DOMAIN mainQ = {}
    BY DEF Idle, Init
  <2> QED BY <1>2, <2>1, Threads DEF StageInv, Finalizing
<1>5. BranchInv
  BY <1>2, IdleFacts, Threads DEF BranchInv, Init
<1>6. MediaInv
  <2>1. \A s \in Source : Consumers(s) = {} /\ media[s].pads = 0 /\ media[s].leaving = 0
                           /\ media[s].left = 0
    BY DEF Init, Consumers
  <2> QED BY <2>1, FS_EmptySet DEF MediaInv, BranchesOwned, PadsRun
<1> QED BY <1>1, <1>3, <1>4, <1>5, <1>6 DEF LocalMediaInv

LEMMA NextInv == LocalMediaInv /\ [Next]_vars => LocalMediaInv'
<1> SUFFICES ASSUME LocalMediaInv, [Next]_vars PROVE LocalMediaInv'
  OBVIOUS
<1>1. TypeOK /\ ControlInv /\ MediaInv
  BY DEF LocalMediaInv, ControlInv
<1>2. CASE App
  BY <1>1, <1>2, TypeOK_App, Control_App, Media_App DEF LocalMediaInv, ControlInv
<1>3. CASE RunTask
  BY <1>1, <1>3, TypeOK_RunTask, Control_RunTask, Media_RunTask DEF LocalMediaInv, ControlInv
<1>4. ASSUME NEW th \in Thread, Continue(th) PROVE LocalMediaInv'
  BY <1>1, <1>4, TypeOK_Continue, Control_Continue, Media_Continue DEF LocalMediaInv, ControlInv
<1>5. ASSUME NEW s \in Source, ProbeIdle(s) PROVE LocalMediaInv'
  BY <1>1, <1>5, TypeOK_ProbeIdle, Control_ProbeIdle, Media_ProbeIdle DEF LocalMediaInv, ControlInv
<1>6. CASE UNCHANGED vars
  <2>1. TypeOK'
    BY <1>1, <1>6 DEF TypeOK, vars
  <2>2. ControlInv'
    BY <1>1, <1>6, Control_Idle DEF vars
  <2>3. MediaInv'
    BY <1>1, <1>6, MediaSame DEF vars
  <2> QED BY <2>1, <2>2, <2>3 DEF LocalMediaInv, ControlInv
<1> QED BY <1>2, <1>3, <1>4, <1>5, <1>6 DEF Next

LEMMA AlwaysInv == Spec => []LocalMediaInv
  BY InitInv, NextInv, PTL DEF Spec

\* The counts of branches and of the volume's references stay in their ranges, and what
\* a thread holds between two steps is of the type that its next step needs
\* (owr_local_media_source.c, owr_media_renderer.c, owr_window_registry.c).
THEOREM TypeCorrect == Spec => []TypeOK
<1>1. LocalMediaInv => TypeOK
  BY DEF LocalMediaInv
<1> QED BY <1>1, AlwaysInv, PTL

\* However many sources, renderers and windows there are: every branch of a tee that is not
\* about to leave is the branch of exactly one renderer, or was left behind by one that was
\* finalized with its source (owr_media_renderer.c set_source, _owr_media_renderer_set_sink,
\* owr_media_renderer_finalize).
THEOREM BranchesOwnedAlways == Spec => []BranchesOwned
<1>1. LocalMediaInv => BranchesOwned
  BY DEF LocalMediaInv, MediaInv
<1> QED BY <1>1, AlwaysInv, PTL

\* A pipeline runs as long as a renderer has a branch of it, whenever the shutdowns that
\* were scheduled for it come (owr_local_media_source.c shutdown_media_source).
THEOREM RunsWhileUsedAlways == Spec => []RunsWhileUsed
<1>1. LocalMediaInv => RunsWhileUsed
  <2>1. ASSUME LocalMediaInv, NEW s \in Source, Consumers(s) # {} PROVE media[s].running
    <3>1. PICK r \in Consumers(s) : TRUE
      BY <2>1
    <3> QED BY <2>1, <3>1, UsedRuns DEF LocalMediaInv
  <2> QED BY <2>1 DEF RunsWhileUsed
<1> QED BY <1>1, AlwaysInv, PTL

----------------------------------------------------------------------------
(* The volume *)

Keeps(m) == m.running /\ m.element # 0 => m.applied = m.level

LEMMA KeepsFacts ==
    ASSUME NEW m \in Media, NEW s \in Source, s \in VolumeElement => Keeps(m)
    PROVE  s \in VolumeElement => /\ Keeps(Requested(m, s)) /\ Keeps(Released(m))
                                  /\ Keeps(LeftBehind(m)) /\ Keeps(ShutDown(m))
<1> SUFFICES ASSUME s \in VolumeElement, Keeps(m)
             PROVE  /\ Keeps(Requested(m, s)) /\ Keeps(Released(m))
                    /\ Keeps(LeftBehind(m)) /\ Keeps(ShutDown(m))
  OBVIOUS
<1>1. Keeps(Requested(m, s))
  <2>1. \A k \in Media : /\ Branched(k).running = k.running /\ Branched(k).element = k.element
                         /\ Branched(k).applied = k.applied /\ Branched(k).level = k.level
    BY DEF Branched, Media
  <2>2. CASE m.running
    BY <2>1, <2>2 DEF Requested, Keeps
  <2>3. CASE ~m.running
    <3> DEFINE n == [m EXCEPT !.element = 2]
               c == [n EXCEPT !.applied = m.level]
               d == [c EXCEPT !.running = TRUE]
    <3>1. n \in Media /\ n.level = m.level
      BY DEF Media, NoElement
    <3>2. m.level \in Level
      BY DEF Media
    <3> HIDE DEF n
    <3>3. c \in Media /\ c.level = m.level /\ c.applied = m.level
      BY <3>1, <3>2 DEF Media
    <3> HIDE DEF c
    <3>4. d \in Media /\ d.level = m.level /\ d.applied = m.level
      BY <3>3 DEF Media
    <3>5. Started(m, s) = d
      BY DEF Started, VolumeCreated, d, c, n
    <3> QED BY <2>1, <2>3, <3>4, <3>5 DEF Requested, Keeps
  <2> QED BY <2>2, <2>3
<1>2. Keeps(Released(m)) /\ Keeps(LeftBehind(m))
  BY DEF Released, LeftBehind, Keeps, Media
<1>3. Keeps(ShutDown(m))
  <2>1. ASSUME NEW k \in Media
        PROVE  /\ VolumeUnreffed(k).applied = k.applied /\ VolumeUnreffed(k).level = k.level
               /\ VolumeUnreffed(k).running = k.running
               /\ k.element = 0 => VolumeUnreffed(k).element = 0
    BY DEF VolumeUnreffed, Media
  <2>2. VolumeUnreffed(m) \in Media
    <3>1. CASE m.element > 0
      BY <3>1 DEF VolumeUnreffed, Media, NoElement
    <3>2. CASE ~(m.element > 0)
      BY <3>2 DEF VolumeUnreffed
    <3> QED BY <3>1, <3>2
  <2>3. \A k \in Media : [k EXCEPT !.running = FALSE] \in Media /\ [k EXCEPT !.running = FALSE].running = FALSE
    BY DEF Media
  <2>4. Stopped(VolumeUnreffed(m)).running = FALSE
    BY <2>1, <2>2, <2>3 DEF Stopped
  <2> QED BY <2>1, <2>4 DEF ShutDown, Keeps
<1> QED BY <1>1, <1>2, <1>3

AllKeep(m) == \A s \in VolumeElement : Keeps(m[s])

LEMMA ReplacedKeeps ==
    ASSUME NEW m \in [Source -> Media], NEW x \in Rendering, NEW s \in Source \cup {None},
           x.branch => x.source # None, AllKeep(m)
    PROVE  AllKeep(Replaced(m, x, s))
<1> DEFINE out == IF x.branch THEN [m EXCEPT ![x.source] = Released(@)] ELSE m
<1>1. x.source \in Source \cup {None} /\ VolumeElement \subseteq Source
  BY VolumeAssumption DEF Rendering
<1>2. out \in [Source -> Media] /\ AllKeep(out)
  BY <1>1, MediaFacts, KeepsFacts DEF AllKeep
<1>3. Replaced(m, x, s) = IF s # None /\ x.sink # None THEN [out EXCEPT ![s] = Requested(@, s)] ELSE out
  BY DEF Replaced
<1> HIDE DEF out
<1>4. s # None => s \in Source /\ (s \in VolumeElement => Keeps(Requested(out[s], s)))
  BY <1>2, KeepsFacts DEF AllKeep
<1> QED BY <1>1, <1>2, <1>3, <1>4 DEF AllKeep

\* What a step makes of the sources.
LEMMA VolumeStep ==
    ASSUME LocalMediaInv, AllKeep(media), Next
    PROVE  AllKeep(media')
<1>1. TypeOK /\ ControlInv /\ BranchInv /\ media \in [Source -> Media] /\ VolumeElement \subseteq Source
  BY VolumeAssumption DEF LocalMediaInv, ControlInv, TypeOK
<1>2. ASSUME NEW r \in Renderer, ClearSink(r) PROVE AllKeep(media')
  <2>1. renderers[r].branch => renderers[r].source \in Source
    BY <1>1 DEF TypeOK, Rendering, BranchInv
  <2> QED BY <1>1, <1>2, <2>1, KeepsFacts DEF ClearSink, AllKeep
<1>3. ASSUME NEW r \in Renderer, NEW h \in Handle, SetSink(r, h) PROVE AllKeep(media')
  <2> DEFINE o == renderers[r].source
  <2>1. media' = IF o # None THEN [media EXCEPT ![o] = Requested(@, o)] ELSE media
    BY <1>1, <1>3, SetSinkEffect
  <2>2. o \in Source \cup {None}
    BY <1>1 DEF TypeOK, Rendering
  <2> HIDE DEF o
  <2>3. o # None => o \in Source /\ (o \in VolumeElement => Keeps(Requested(media[o], o)))
    BY <1>1, <2>2, KeepsFacts DEF AllKeep
  <2> QED BY <1>1, <2>1, <2>3 DEF AllKeep
<1>4. CASE App
  <2>1. ASSUME NEW s \in Source, NEW l \in Level, SetVolume(s, l) PROVE AllKeep(media')
    <3> DEFINE a == IF media[s].running /\ media[s].element # 0 THEN l ELSE media[s].applied
               n == [[media[s] EXCEPT !.level = l] EXCEPT !.applied = a]
    <3>1. media' = [media EXCEPT ![s] = n]
      <4>1. media' = [media EXCEPT ![s].level = l, ![s].applied = a]
        BY <2>1 DEF SetVolume
      <4> HIDE DEF a
      <4>2. [media EXCEPT ![s].level = l, ![s].applied = a] = [media EXCEPT ![s] = n]
        BY <1>1
      <4> QED BY <4>1, <4>2
    <3>2. /\ n.level = l /\ n.applied = a /\ n.running = media[s].running
          /\ n.element = media[s].element
      BY <1>1 DEF Media
    <3>3. Keeps(n)
      BY <3>2 DEF Keeps
    <3> HIDE DEF n
    <3> QED BY <1>1, <3>1, <3>3 DEF AllKeep
  <2>2. ASSUME media' = media PROVE AllKeep(media')
    BY <2>2
  <2> QED BY <1>4, <2>1, <2>2 DEF App, New, Drop, NewTagged, SetSource, Unregister, Register, Schedule
<1>5. CASE RunTask
  <2> DEFINE k == Head(mainQ)
  <2>1. k \in Task
    BY <1>1, <1>5, TaskFacts DEF RunTask
  <2>2. CASE k.task = "set_source" /\ SetSourceTask(k.r, k.s)
    <3>1. k.r \in Renderer /\ k.s \in Source \cup {None}
      BY <2>1, <2>2, TaskFields
    <3> HIDE DEF k
    <3>2. renderers[k.r] \in Rendering /\ (renderers[k.r].branch => renderers[k.r].source # None)
      BY <1>1, <3>1 DEF TypeOK, BranchInv
    <3>3. media' = IF k.s = renderers[k.r].source THEN media ELSE Replaced(media, renderers[k.r], k.s)
      BY <2>2 DEF SetSourceTask
    <3> QED BY <1>1, <3>1, <3>2, <3>3, ReplacedKeeps
  <2>3. CASE k.task = "shutdown" /\ ShutdownTask(k.s)
    <3>1. k.s \in Source /\ media' = [media EXCEPT ![k.s] = ShutDown(@)]
      BY <2>1, <2>3, TaskFields DEF ShutdownTask
    <3> HIDE DEF k
    <3> QED BY <1>1, <3>1, KeepsFacts DEF AllKeep
  <2> QED BY <1>5, <2>2, <2>3 DEF RunTask, Lookup
<1>6. ASSUME NEW th \in Thread, Continue(th) PROVE AllKeep(media')
  <2>1. frame[th].pc \in {"clear", "show", "release"} => frame[th].r \in Renderer
    BY <1>1 DEF ControlInv, FrameInv, Fits
  <2>2. frame[th].pc = "show" => frame[th].h \in Handle
    BY <1>1 DEF ControlInv, FrameInv, Fits
  <2>3. CASE NotifyClear(th)
    BY <1>2, <2>1, <2>3 DEF NotifyClear, Misused, Return
  <2>4. CASE NotifyShow(th)
    BY <1>3, <2>1, <2>2, <2>4 DEF NotifyShow, Misused, Return
  <2>5. CASE Finalize(th)
    <3> DEFINE r == frame[th].r
    <3>1. r \in Renderer
      BY <2>1, <2>5 DEF Finalize
    <3>2. media' = IF renderers[r].branch
                   THEN [media EXCEPT ![renderers[r].source] = LeftBehind(@)] ELSE media
      BY <2>5 DEF Finalize
    <3> HIDE DEF r
    <3>3. renderers[r].branch => renderers[r].source \in Source
      BY <1>1, <3>1 DEF TypeOK, Rendering, BranchInv
    <3> QED BY <1>1, <3>2, <3>3, KeepsFacts DEF AllKeep
  <2> QED BY <1>6, <2>3, <2>4, <2>5
       DEF Continue, DoRegister, DoUnregister, RegisterRenderer, CheckHandle, NotifyReturn,
           UnregisterRenderer, Misused, Return, Go, Insert
<1>7. ASSUME NEW s \in Source, ProbeIdle(s) PROVE AllKeep(media')
  <2> DEFINE a == media[s].leaving - 1
             b == media[s].pads - 1
             n == [[media[s] EXCEPT !.leaving = a] EXCEPT !.pads = b]
  <2>1. media' = [media EXCEPT ![s].leaving = a, ![s].pads = b]
    BY <1>7 DEF ProbeIdle
  <2> HIDE DEF a, b
  <2>2. media' = [media EXCEPT ![s] = n]
    BY <1>1, <2>1
  <2>3. /\ n.running = media[s].running /\ n.applied = media[s].applied
        /\ n.level = media[s].level /\ n.element = media[s].element
    BY <1>1 DEF Media
  <2> HIDE DEF n
  <2> QED BY <1>1, <2>2, <2>3 DEF AllKeep, Keeps
<1> QED BY <1>4, <1>5, <1>6, <1>7 DEF Next

\* However often a source is stopped and started again, it applies the volume and mute that were
\* set last, while it was stopped too, unless late shutdowns have freed the element of the
\* running pipeline (owr_local_media_source.c owr_local_media_source_set_property,
\* shutdown_media_source).
THEOREM VolumeKeptAlways == Spec => []VolumeKept
<1>1. Init => AllKeep(media)
  BY VolumeAssumption DEF Init, AllKeep, Keeps
<1>2. LocalMediaInv /\ AllKeep(media) /\ [Next]_vars => AllKeep(media)'
  <2>1. CASE Next
    BY <2>1, VolumeStep DEF AllKeep, Keeps
  <2>2. CASE UNCHANGED vars
    BY <2>2 DEF vars, AllKeep, Keeps
  <2> QED BY <2>1, <2>2
<1>3. AllKeep(media) => VolumeKept
  BY DEF AllKeep, Keeps, VolumeKept
<1> QED BY <1>1, <1>2, <1>3, AlwaysInv, PTL DEF Spec

----------------------------------------------------------------------------
(* The windows                                                              *)
(*                                                                          *)
(* The window that the application wants for a tag is what the tasks that   *)
(* wait make of the window the registry has decided on (Outcome), and a     *)
(* renderer that is alone with its tag is in the entry of the tag and shows *)
(* its window, or is about to be told (SinkFits).  Both hold while no two   *)
(* threads work on the tag at once, for then what a thread found when it    *)
(* looked the tag up is what is there (LooksRight).                         *)

HandleOf(t) == IF registry[t] = None THEN None ELSE registry[t].handle

\* The tag in a frame, in an entry and of a renderer are the same.
FrameTag(f) ==
    /\ f.pc = "idle" => f.t = None
    /\ f.pc # "idle" /\ f.r # None => renderers[f.r].tag = f.t
    /\ f.pc \in Working => f.t # None
EntryTag(t) == registry[t] # None /\ registry[t].renderer # None => renderers[registry[t].renderer].tag = t
TagInv ==
    /\ \A th \in Thread : FrameTag(frame[th])
    /\ \A t \in Tag : EntryTag(t)
    /\ \A r \in Renderer : renderers[r].stage = "none" => renderers[r].tag = None /\ renderers[r].sink = None
    /\ \A r \in Renderer : renderers[r].stage = "making" =>
          frame["app"].pc \in Working /\ frame["app"].r = r

Alone(t) == ~(frame["app"].t = t /\ frame["main"].t = t)
LooksRight(t) ==
    \A th \in Thread :
        frame[th].t = t /\ frame[th].pc \in {"register", "unregister", "renderer"} => frame[th].data = Found(t)

\* What task k makes of window h of tag t.
Given(k, t, h) ==
    IF k.task = "register" /\ k.t = t THEN (IF h = None THEN k.h ELSE h)
    ELSE IF k.task = "unregister" /\ k.t = t THEN None ELSE h
\* The window of t once the main loop is done with the task it runs.
Decided(t) ==
    IF frame["main"].t = t /\ frame["main"].pc = "register" /\ HandleOf(t) = None THEN frame["main"].h
    ELSE IF frame["main"].t = t /\ frame["main"].pc = "unregister" THEN None ELSE HandleOf(t)
Leads(w, q, t, h, last) ==
    /\ w \in [1..(Len(q) + 1) -> Handle \cup {None}]
    /\ w[1] = h /\ w[Len(q) + 1] = last
    /\ \A i \in 1..Len(q) : w[i + 1] = Given(q[i], t, w[i])
Outcome(t) == \E w : Leads(w, mainQ, t, Decided(t), wanted[t])

Unique(t, r) == renderers[r].tag = t /\ \A q \in Renderer \ {r} : renderers[q].tag # t
Registered(t, r) == registry[t] # None /\ registry[t].renderer = r
MakingFits(t, r) ==
    /\ frame["app"].pc \in {"renderer", "check"} => renderers[r].sink = None
    /\ frame["app"].pc = "renderer" => registry[t] = None \/ registry[t].renderer = None
    /\ frame["app"].pc # "renderer" => Registered(t, r)
    /\ frame["app"].pc \in {"clear", "show"} => frame["app"].h = HandleOf(t)
    /\ frame["app"].pc = "return" => renderers[r].sink = HandleOf(t)
LiveFits(t, r) ==
    /\ Registered(t, r)
    /\ IF frame["main"].t = t /\ frame["main"].pc \in {"clear", "show"} THEN frame["main"].h = HandleOf(t)
       ELSE renderers[r].sink = HandleOf(t)
SinkFits(t, r) ==
    /\ renderers[r].stage = "making" => MakingFits(t, r)
    /\ renderers[r].stage = "live" => LiveFits(t, r)

WindowAt(t) == Alone(t) /\ LooksRight(t) /\ Outcome(t) /\ \A r \in Renderer : Unique(t, r) => SinkFits(t, r)
WindowInv == TagInv /\ \A t \in Tag \ raced : WindowAt(t)

LEMMA GivenType ==
    ASSUME NEW k \in Task, NEW t \in Tag, NEW h \in Handle \cup {None}
    PROVE  Given(k, t, h) \in Handle \cup {None}
  BY TaskFields DEF Given

LEMMA LeadsAppend ==
    ASSUME NEW q \in Seq(Task), NEW k \in Task, NEW t \in Tag, NEW h, NEW w, NEW last, Leads(w, q, t, h, last)
    PROVE  \E v : Leads(v, Append(q, k), t, h, Given(k, t, last))
<1> DEFINE n == Len(q)
           v == [i \in 1..(n + 2) |-> IF i <= n + 1 THEN w[i] ELSE Given(k, t, last)]
           p == Append(q, k)
<1>1. /\ n \in Nat /\ Len(p) = n + 1 /\ p[n + 1] = k /\ \A i \in 1..n : p[i] = q[i]
  OBVIOUS
<1> HIDE DEF p, n
<1>2. /\ w \in [1..(n + 1) -> Handle \cup {None}] /\ w[1] = h /\ w[n + 1] = last
      /\ \A i \in 1..n : w[i + 1] = Given(q[i], t, w[i])
  BY DEF Leads, n
<1>3. last \in Handle \cup {None} /\ Given(k, t, last) \in Handle \cup {None}
  BY <1>1, <1>2, GivenType
<1>4. v \in [1..(n + 2) -> Handle \cup {None}]
  BY <1>1, <1>2, <1>3
<1>5. /\ \A i \in 1..(n + 1) : v[i] = w[i]
      /\ v[n + 2] = Given(k, t, last) /\ 1 \in 1..(n + 1)
  BY <1>1
<1> HIDE DEF v
<1>6. ASSUME NEW i \in 1..(n + 1) PROVE v[i + 1] = Given(p[i], t, v[i])
  <2>1. CASE i = n + 1
    <3>1. i + 1 = n + 2 /\ v[i] = last /\ p[i] = k
      BY <1>1, <1>2, <1>5, <2>1
    <3> QED BY <1>5, <3>1
  <2>2. CASE i # n + 1
    <3>1. i \in 1..n /\ i + 1 \in 1..(n + 1)
      BY <1>1, <2>2
    <3> QED BY <1>1, <1>2, <1>5, <3>1
  <2> QED BY <2>1, <2>2
<1>7. Len(p) + 1 = n + 2
  BY <1>1
<1>8. Leads(v, p, t, h, Given(k, t, last))
  BY <1>1, <1>2, <1>4, <1>5, <1>6, <1>7 DEF Leads
<1> QED BY <1>8 DEF p

LEMMA LeadsTail ==
    ASSUME NEW q \in Seq(Task), q # <<>>, NEW t \in Tag, NEW h, NEW w, NEW last, Leads(w, q, t, h, last)
    PROVE  \E v : Leads(v, Tail(q), t, Given(Head(q), t, h), last)
<1> DEFINE n == Len(q)
           v == [i \in 1..n |-> w[i + 1]]
           p == Tail(q)
<1>1. /\ n \in Nat /\ n > 0 /\ Len(p) = n - 1 /\ Head(q) = q[1] /\ \A i \in 1..(n - 1) : p[i] = q[i + 1]
  OBVIOUS
<1> HIDE DEF p, n
<1>2. /\ w \in [1..(n + 1) -> Handle \cup {None}] /\ w[1] = h /\ w[n + 1] = last
      /\ \A i \in 1..n : w[i + 1] = Given(q[i], t, w[i])
  BY DEF Leads, n
<1>3. v \in [1..n -> Handle \cup {None}] /\ v[n] = last /\ v[1] = Given(q[1], t, h)
  BY <1>1, <1>2
<1>4. \A i \in 1..(n - 1) : v[i] = w[i + 1] /\ v[i + 1] = w[i + 1 + 1] /\ i + 1 \in 1..n
  BY <1>1
<1> HIDE DEF v
<1>5. \A i \in 1..(n - 1) : v[i + 1] = Given(p[i], t, v[i])
  BY <1>1, <1>2, <1>4
<1>6. Len(p) + 1 = n
  BY <1>1
<1>7. Leads(v, p, t, Given(Head(q), t, h), last)
  BY <1>1, <1>3, <1>5, <1>6 DEF Leads
<1> QED BY <1>7 DEF p

\* The three ways in which the tasks that wait change.
LEMMA OutcomeSame ==
    ASSUME NEW t \in Tag, Outcome(t), mainQ' = mainQ, wanted'[t] = wanted[t], Decided(t)' = Decided(t)
    PROVE  Outcome(t)'
  BY DEF Outcome, Leads

LEMMA OutcomeAppend ==
    ASSUME TypeOK, NEW t \in Tag, Outcome(t), NEW k \in Task, mainQ' = Append(mainQ, k),
           wanted'[t] = Given(k, t, wanted[t]), Decided(t)' = Decided(t)
    PROVE  Outcome(t)'
<1>1. mainQ \in Seq(Task)
  BY DEF TypeOK
<1>2. PICK w : Leads(w, mainQ, t, Decided(t), wanted[t])
  BY DEF Outcome
<1>3. \E v : Leads(v, Append(mainQ, k), t, Decided(t), Given(k, t, wanted[t]))
  BY <1>1, <1>2, LeadsAppend
<1>4. \E v : Leads(v, mainQ', t, Decided(t)', wanted'[t])
  BY <1>3
<1> QED BY <1>4 DEF Outcome, Leads

LEMMA OutcomeTail ==
    ASSUME TypeOK, NEW t \in Tag, Outcome(t), mainQ # <<>>, mainQ' = Tail(mainQ),
           wanted'[t] = wanted[t], Decided(t)' = Given(Head(mainQ), t, Decided(t))
    PROVE  Outcome(t)'
<1>1. mainQ \in Seq(Task)
  BY DEF TypeOK
<1>2. PICK w : Leads(w, mainQ, t, Decided(t), wanted[t])
  BY DEF Outcome
<1>3. \E v : Leads(v, Tail(mainQ), t, Given(Head(mainQ), t, Decided(t)), wanted[t])
  BY <1>1, <1>2, LeadsTail
<1>4. \E v : Leads(v, mainQ', t, Decided(t)', wanted'[t])
  BY <1>3
<1> QED BY <1>4 DEF Outcome, Leads

\* What the functions of a renderer make of its tag and its sink.
LEMMA LooksOf ==
    ASSUME NEW x \in Rendering
    PROVE  /\ \A g \in {"live", "dying"} : LET y == [x EXCEPT !.stage = g] IN
                 y.stage = g /\ y.tag = x.tag /\ y.sink = x.sink
           /\ WithoutSink(x).tag = x.tag /\ WithoutSink(x).sink = None /\ WithoutSink(x).stage = x.stage
           /\ \A s \in Source \cup {None} : Shown(x, s).tag = x.tag /\ Shown(x, s).sink = x.sink
                                            /\ Shown(x, s).stage = x.stage
           /\ \A h \in Handle : LET y == MaybeStarted([x EXCEPT !.sink = h, !.playing = FALSE]) IN
                 y.tag = x.tag /\ y.sink = h /\ y.stage = x.stage
<1>1. ASSUME NEW g \in {"live", "dying"}
      PROVE  LET y == [x EXCEPT !.stage = g] IN y.stage = g /\ y.tag = x.tag /\ y.sink = x.sink
  BY DEF Rendering
<1>2. WithoutSink(x).tag = x.tag /\ WithoutSink(x).sink = None /\ WithoutSink(x).stage = x.stage
  BY DEF WithoutSink, Rendering
<1>3. ASSUME NEW y \in Rendering
      PROVE  MaybeStarted(y).tag = y.tag /\ MaybeStarted(y).sink = y.sink /\ MaybeStarted(y).stage = y.stage
  BY DEF MaybeStarted, Rendering
<1>4. ASSUME NEW s \in Source \cup {None}
      PROVE  Shown(x, s).tag = x.tag /\ Shown(x, s).sink = x.sink /\ Shown(x, s).stage = x.stage
  <2> DEFINE y == [x EXCEPT !.source = s, !.branch = FALSE]
  <2>1. y \in Rendering /\ y.tag = x.tag /\ y.sink = x.sink /\ y.stage = x.stage
    BY DEF Rendering
  <2> HIDE DEF y
  <2>2. [y EXCEPT !.playing = FALSE].tag = y.tag /\ [y EXCEPT !.playing = FALSE].sink = y.sink
        /\ [y EXCEPT !.playing = FALSE].stage = y.stage
    BY <2>1 DEF Rendering
  <2>3. Shown(x, s) = IF s = None THEN [y EXCEPT !.playing = FALSE] ELSE MaybeStarted(y)
    BY DEF Shown, y
  <2> QED BY <1>3, <2>1, <2>2, <2>3
<1>5. ASSUME NEW h \in Handle
      PROVE  LET y == MaybeStarted([x EXCEPT !.sink = h, !.playing = FALSE]) IN
             y.tag = x.tag /\ y.sink = h /\ y.stage = x.stage
  <2> DEFINE z == [x EXCEPT !.sink = h, !.playing = FALSE]
  <2>1. z \in Rendering /\ z.tag = x.tag /\ z.sink = h /\ z.stage = x.stage
    BY DEF Rendering
  <2> HIDE DEF z
  <2>2. MaybeStarted(z).tag = x.tag /\ MaybeStarted(z).sink = h /\ MaybeStarted(z).stage = x.stage
    BY <1>3, <2>1
  <2> QED BY <2>2 DEF z
<1> QED BY <1>1, <1>2, <1>4, <1>5

\* A step that leaves the tags, and the sinks of those that are not made yet.
LEMMA TagKept ==
    ASSUME TypeOK, TypeOK', TagInv,
           \A r \in Renderer :
              /\ renderers'[r].tag = renderers[r].tag
              /\ renderers'[r].stage = "none" =>
                    renderers[r].stage = "none" /\ renderers'[r].sink = renderers[r].sink
              /\ renderers'[r].stage = "making" =>
                    /\ renderers[r].stage = "making"
                    /\ frame["app"].r = r => frame'["app"].r = r /\ frame'["app"].pc \in Working,
           \A th \in Thread : FrameTag(frame'[th]),
           \A t \in Tag : registry'[t] # None /\ registry'[t].renderer # None =>
              renderers[registry'[t].renderer].tag = t
    PROVE  TagInv'
<1>1. ASSUME NEW th \in Thread PROVE FrameTag(frame[th])'
  <2>1. frame'[th].r # None => frame'[th].r \in Renderer
    BY DEF TypeOK, Frame
  <2> QED BY <2>1 DEF FrameTag
<1>2. ASSUME NEW t \in Tag PROVE EntryTag(t)'
  <2>1. registry'[t] # None /\ registry'[t].renderer # None => registry'[t].renderer \in Renderer
    BY DEF TypeOK, Entry
  <2> QED BY <2>1 DEF EntryTag
<1>3. ASSUME NEW r \in Renderer, renderers'[r].stage = "none"
      PROVE  renderers'[r].tag = None /\ renderers'[r].sink = None
  BY <1>3 DEF TagInv
<1>4. ASSUME NEW r \in Renderer, renderers'[r].stage = "making"
      PROVE  frame'["app"].pc \in Working /\ frame'["app"].r = r
  BY <1>4 DEF TagInv
<1> QED BY <1>1, <1>2, <1>3, <1>4 DEF TagInv

\* A step of threads that do not work on tag t.
LEMMA WindowSame ==
    ASSUME TypeOK, TagInv, NEW t \in Tag, WindowAt(t), Outcome(t)', registry'[t] = registry[t],
           \A th \in Thread : frame'[th] = frame[th] \/ (frame[th].t # t /\ frame'[th].t # t),
           \A r \in Renderer :
              /\ renderers[r].tag = t => renderers'[r].tag = t
              /\ renderers'[r].tag = t /\ renderers'[r].stage \in {"making", "live"} =>
                    /\ renderers[r].tag = t /\ renderers'[r].stage = renderers[r].stage
                    /\ renderers'[r].sink = renderers[r].sink
    PROVE  WindowAt(t)'
<1>1. Alone(t)'
  BY Threads DEF WindowAt, Alone
<1>2. LooksRight(t)'
  BY DEF WindowAt, LooksRight, Found
<1>3. HandleOf(t)' = HandleOf(t) /\ \A r : Registered(t, r)' <=> Registered(t, r)
  BY DEF HandleOf, Registered
<1>4. ASSUME NEW r \in Renderer, Unique(t, r)' PROVE SinkFits(t, r)'
  <2>1. CASE renderers'[r].stage \notin {"making", "live"}
    BY <2>1 DEF SinkFits
  <2>2. CASE renderers'[r].stage \in {"making", "live"}
    <3>1. Unique(t, r) /\ renderers'[r].stage = renderers[r].stage /\ renderers'[r].sink = renderers[r].sink
      BY <1>4, <2>2 DEF Unique
    <3>2. SinkFits(t, r)
      BY <3>1 DEF WindowAt
    <3>3. CASE renderers[r].stage = "making"
      <4>1. frame["app"].r = r /\ frame["app"].pc # "idle" /\ r # None
        BY <3>3, NoneAssumption DEF TagInv, Working
      <4>2. frame["app"].t = t
        BY <3>1, <4>1, Threads DEF TagInv, FrameTag, Unique
      <4>3. frame'["app"] = frame["app"]
        BY <4>2, Threads
      <4>4. MakingFits(t, r)
        BY <3>2, <3>3 DEF SinkFits
      <4>5. MakingFits(t, r)'
        BY <1>3, <3>1, <4>3, <4>4 DEF MakingFits
      <4> QED BY <3>1, <3>3, <4>5 DEF SinkFits
    <3>4. CASE renderers[r].stage = "live"
      <4>1. LiveFits(t, r)
        BY <3>2, <3>4 DEF SinkFits
      <4>2. LiveFits(t, r)'
        BY <1>3, <3>1, <4>1, Threads DEF LiveFits
      <4> QED BY <3>1, <3>4, <4>2 DEF SinkFits
    <3> QED BY <2>2, <3>1, <3>3, <3>4
  <2> QED BY <2>1, <2>2
<1> QED BY <1>1, <1>2, <1>4 DEF WindowAt

\* Such a step leaves the window that is decided on.
LEMMA DecidedSame ==
    ASSUME NEW t \in Tag, registry'[t] = registry[t],
           frame'["main"] = frame["main"] \/ (frame["main"].t # t /\ frame'["main"].t # t)
    PROVE  Decided(t)' = Decided(t)
  BY DEF Decided, HandleOf

\* The application makes a renderer for a tag, and looks the tag up.
LEMMA Window_NewTagged ==
    ASSUME LocalMediaInv, LocalMediaInv', WindowInv, NEW r \in Renderer, NEW t \in Tag, NewTagged(r, t)
    PROVE  WindowInv'
<1> DEFINE f == [pc |-> "renderer", r |-> r, t |-> t, h |-> None, data |-> Found(t)]
<1>1. /\ TypeOK /\ TypeOK' /\ TagInv /\ t # None /\ r # None
      /\ UNCHANGED <<registry, mainQ, wanted>> /\ raced' = Races("app", t)
      /\ frame["app"] = Idle /\ renderers[r].stage = "none"
      /\ frame' = [frame EXCEPT !["app"] = f]
      /\ renderers' = [renderers EXCEPT ![r].stage = "making", ![r].held = TRUE, ![r].tag = t]
  BY NoneAssumption DEF LocalMediaInv, WindowInv, NewTagged, Call
<1>2. /\ frame'["app"] = f /\ frame'["main"] = frame["main"] /\ frame["app"].t = None
  BY <1>1, Threads DEF TypeOK, Idle
<1>3. f.pc = "renderer" /\ f.r = r /\ f.t = t /\ f.data = Found(t)
  OBVIOUS
<1> HIDE DEF f
<1>4. /\ renderers'[r].stage = "making" /\ renderers'[r].tag = t /\ renderers'[r].sink = None
      /\ renderers[r].tag = None
      /\ \A q \in Renderer \ {r} : renderers'[q] = renderers[q]
  <2>1. renderers[r] \in Rendering /\ renderers[r].sink = None /\ renderers[r].tag = None
    BY <1>1 DEF TypeOK, TagInv
  <2>2. renderers'[r] = [renderers[r] EXCEPT !.stage = "making", !.held = TRUE, !.tag = t]
    BY <1>1 DEF TypeOK
  <2>3. \A q \in Renderer \ {r} : renderers'[q] = renderers[q]
    BY <1>1 DEF TypeOK
  <2> QED BY <2>1, <2>2, <2>3 DEF Rendering
<1>5. \A q \in Renderer : renderers[q].stage # "making"
  BY <1>1, <1>2 DEF TagInv, Idle, Working
<1>6. TagInv'
  <2>1. ASSUME NEW th \in Thread PROVE FrameTag(frame[th])'
    <3>1. CASE th = "app"
      BY <1>1, <1>2, <1>3, <1>4, <3>1 DEF FrameTag
    <3>2. CASE th # "app"
      <4>1. frame'[th] = frame[th] /\ FrameTag(frame[th]) /\ frame[th].r \in Renderer \cup {None}
        BY <1>1, <1>2, <3>2, Threads DEF TagInv, TypeOK, Frame
      <4>2. CASE frame[th].r = r
        <5>1. frame[th].pc \in {"idle", "register", "unregister", "renderer", "check", "clear", "show",
                                "return", "finalize", "release"}
          BY <1>1 DEF TypeOK, Frame
        <5>2. CASE frame[th].pc = "idle"
          BY <4>1, <5>2 DEF FrameTag
        <5>3. CASE frame[th].pc # "idle"
          <6>1. frame[th].t = None
            BY <1>1, <1>4, <4>1, <4>2, <5>3 DEF FrameTag
          <6>2. frame[th].pc \notin Working
            BY <4>1, <6>1 DEF FrameTag
          <6>3. frame[th].pc \in {"register", "unregister"} => frame[th].t \in Tag
            BY DEF LocalMediaInv, FrameInv, Fits
          <6>4. frame[th].pc \in {"finalize", "release"} => renderers[r].stage = "dying"
            BY <4>2 DEF LocalMediaInv, StageInv, Finalizing
          <6> QED BY <1>1, <5>1, <5>3, <6>1, <6>2, <6>3, <6>4, NoneAssumption DEF Working
        <5> QED BY <5>2, <5>3
      <4>3. CASE frame[th].r # r
        BY <1>4, <4>1, <4>3 DEF FrameTag
      <4> QED BY <4>2, <4>3
    <3> QED BY <3>1, <3>2
  <2>2. ASSUME NEW u \in Tag PROVE EntryTag(u)'
    <3>1. EntryTag(u) /\ registry'[u] = registry[u] /\ u # None
      BY <1>1, NoneAssumption DEF TagInv
    <3>2. registry[u] # None /\ registry[u].renderer # None =>
             registry[u].renderer \in Renderer \ {r}
      BY <1>1, <1>4, <3>1 DEF EntryTag, TypeOK, Entry
    <3> QED BY <1>4, <3>1, <3>2 DEF EntryTag
  <2>3. ASSUME NEW q \in Renderer, renderers'[q].stage = "none"
        PROVE  renderers'[q].tag = None /\ renderers'[q].sink = None
    BY <1>1, <1>4, <2>3 DEF TagInv
  <2>4. ASSUME NEW q \in Renderer, renderers'[q].stage = "making"
        PROVE  frame'["app"].pc \in Working /\ frame'["app"].r = q
    BY <1>2, <1>3, <1>4, <1>5, <2>4 DEF Working
  <2> QED BY <2>1, <2>2, <2>3, <2>4 DEF TagInv
<1>7. ASSUME NEW u \in Tag \ raced', u # t PROVE WindowAt(u)'
  <2>1. WindowAt(u)
    BY <1>1, <1>7 DEF WindowInv, Races
  <2>2. Outcome(u)'
    BY <1>1, <1>2, <2>1, DecidedSame, OutcomeSame DEF WindowAt
  <2>3. \A th \in Thread : frame'[th] = frame[th] \/ (frame[th].t # u /\ frame'[th].t # u)
    BY <1>2, <1>3, <1>7, Threads, NoneAssumption
  <2> QED BY <1>1, <1>4, <1>7, <2>1, <2>2, <2>3, NoneAssumption, WindowSame
<1>8. ASSUME t \notin raced' PROVE WindowAt(t)'
  <2>1. WindowAt(t) /\ frame["main"].t # t
    BY <1>1, <1>8, Threads DEF WindowInv, Races
  <2>2. Alone(t)' /\ LooksRight(t)'
    <3>1. Found(t)' = Found(t)
      BY <1>1 DEF Found
    <3> QED BY <1>2, <1>3, <2>1, <3>1, Threads DEF Alone, LooksRight
  <2>3. Outcome(t)'
    BY <1>1, <1>2, <2>1, DecidedSame, OutcomeSame DEF WindowAt
  <2>4. ASSUME NEW q \in Renderer, Unique(t, q)' PROVE SinkFits(t, q)'
    <3>1. q = r
      BY <1>4, <2>4 DEF Unique
    <3>2. registry[t] = None \/ registry[t].renderer = None
      <4> SUFFICES ASSUME registry[t] # None, registry[t].renderer # None PROVE FALSE
        OBVIOUS
      <4>1. registry[t].renderer \in Renderer /\ renderers[registry[t].renderer].tag = t
        BY <1>1 DEF TagInv, EntryTag, TypeOK, Entry
      <4>2. registry[t].renderer # r /\ renderers'[registry[t].renderer].tag = t
        BY <1>1, <1>4, <4>1
      <4> QED BY <2>4, <3>1, <4>1, <4>2 DEF Unique
    <3>3. MakingFits(t, r)'
      BY <1>1, <1>2, <1>3, <1>4, <3>2 DEF MakingFits
    <3> QED BY <1>4, <3>1, <3>3 DEF SinkFits
  <2> QED BY <2>2, <2>3, <2>4 DEF WindowAt
<1>9. \A u \in Tag \ raced' : WindowAt(u)'
  BY <1>7, <1>8
<1> QED BY <1>6, <1>9 DEF WindowInv

\* A thread drops the last reference of a renderer: by then it is made, and no longer counts.
LEMMA Window_Dying ==
    ASSUME LocalMediaInv, LocalMediaInv', WindowInv, NEW th \in Thread, NEW r \in Renderer,
           frame[th] = Idle, renderers[r].stage = "live", StartFinalize(th, r), registry' = registry,
           renderers'[r].stage = "dying", wanted' = wanted,
           \A q \in Renderer : /\ renderers'[q].tag = renderers[q].tag
                               /\ renderers'[q].sink = renderers[q].sink
                               /\ q # r => renderers'[q] = renderers[q],
           \A t \in Tag : Decided(t)' = Decided(t) => (Outcome(t) => Outcome(t)')
    PROVE  WindowInv'
<1> DEFINE f == [Idle EXCEPT !.pc = "finalize", !.r = r, !.t = renderers[r].tag]
<1>1. /\ TypeOK /\ TypeOK' /\ TagInv /\ raced' = Races(th, renderers[r].tag)
      /\ frame' = [frame EXCEPT ![th] = f] /\ raced \subseteq raced'
  BY DEF LocalMediaInv, WindowInv, StartFinalize, Races
<1>2. f.pc = "finalize" /\ f.r = r /\ f.t = renderers[r].tag
  BY DEF Idle
<1> HIDE DEF f
<1>3. /\ frame'[th] = f /\ frame'[Other(th)] = frame[Other(th)]
      /\ \A u \in Thread : u = th \/ u = Other(th)
      /\ Other(th) \in Thread /\ Other(th) # th
  BY <1>1, FrameFacts DEF TypeOK, Thread, Other
<1>4. TagInv'
  <2>1. \A u \in Thread : FrameTag(frame'[u])
    BY <1>1, <1>2, <1>3 DEF TagInv, FrameTag, Working
  <2>2. \A q \in Renderer : renderers[q].stage = "making" => frame["app"].pc # "idle"
    BY <1>1 DEF TagInv, Working
  <2>3. \A q \in Renderer : renderers'[q].stage = "making" /\ frame["app"].r = q =>
           frame'["app"].r = q /\ frame'["app"].pc \in Working
    <3> SUFFICES ASSUME NEW q \in Renderer, renderers'[q].stage = "making"
                 PROVE  frame'["app"].r = q /\ frame'["app"].pc \in Working
      OBVIOUS
    <3>1. renderers[q].stage = "making"
      OBVIOUS
    <3>2. th # "app"
      BY <2>2, <3>1 DEF Idle
    <3> QED BY <1>1, <1>3, <3>1, <3>2, Threads DEF TagInv
  <2> QED BY <1>1, <2>1, <2>3, TagKept DEF TagInv, EntryTag
<1>5. ASSUME NEW t \in Tag \ raced' PROVE WindowAt(t)'
  <2>1. WindowAt(t)
    BY <1>1 DEF WindowInv
  <2>2. Decided(t)' = Decided(t)
    <3>1. CASE th = "app"
      BY <1>3, <3>1, Threads, DecidedSame
    <3>2. CASE th = "main"
      BY <1>2, <1>3, <3>2 DEF Decided, HandleOf, Idle
    <3> QED BY <3>1, <3>2, Threads
  <2>3. Outcome(t)'
    BY <2>1, <2>2 DEF WindowAt
  <2>4. CASE renderers[r].tag # t
    <3>1. frame[th].t # t
      BY NoneAssumption DEF Idle
    <3>2. \A u \in Thread : frame'[u] = frame[u] \/ (frame[u].t # t /\ frame'[u].t # t)
      BY <1>2, <1>3, <2>4, <3>1
    <3> QED BY <1>1, <2>1, <2>3, <2>4, <3>2, WindowSame
  <2>5. CASE renderers[r].tag = t
    <3>1. frame[Other(th)].t # t
      BY <1>1, <2>5, NoneAssumption DEF Races
    <3>2. Alone(t)'
      BY <1>3, <3>1, Threads DEF Alone
    <3>3. LooksRight(t)'
      BY <1>2, <1>3, <3>1 DEF LooksRight
    <3>4. \A q \in Renderer : Unique(t, q)' => q = r
      BY <2>5 DEF Unique
    <3>5. SinkFits(t, r)'
      BY DEF SinkFits
    <3> QED BY <2>3, <3>2, <3>3, <3>4, <3>5 DEF WindowAt
  <2> QED BY <2>4, <2>5
<1> QED BY <1>4, <1>5 DEF WindowInv

\* No thread goes on, and no renderer with a tag changes but for its references.
LEMMA Window_Still ==
    ASSUME LocalMediaInv, LocalMediaInv', WindowInv, UNCHANGED <<registry, frame, raced>>,
           \A r \in Renderer :
              /\ renderers'[r].tag = renderers[r].tag
              /\ \/ renderers'[r].stage = renderers[r].stage /\ renderers'[r].sink = renderers[r].sink
                 \/ renderers[r].stage = "none" /\ renderers'[r].stage = "live",
           \A t \in Tag : Outcome(t) /\ Decided(t)' = Decided(t) => Outcome(t)'
    PROVE  WindowInv'
<1>1. TypeOK /\ TypeOK' /\ TagInv
  BY DEF LocalMediaInv, WindowInv
<1>2. TagInv'
  <2>1. \A th \in Thread : FrameTag(frame'[th])
    BY <1>1 DEF TagInv, FrameTag
  <2>2. \A t \in Tag : registry'[t] # None /\ registry'[t].renderer # None =>
              renderers[registry'[t].renderer].tag = t
    BY <1>1 DEF TagInv, EntryTag
  <2>3. \A r \in Renderer :
              /\ renderers'[r].tag = renderers[r].tag
              /\ renderers'[r].stage = "none" =>
                    renderers[r].stage = "none" /\ renderers'[r].sink = renderers[r].sink
              /\ renderers'[r].stage = "making" =>
                    /\ renderers[r].stage = "making"
                    /\ frame["app"].r = r => frame'["app"].r = r /\ frame'["app"].pc \in Working
    BY <1>1 DEF TagInv
  <2> QED BY <1>1, <2>1, <2>2, <2>3, TagKept
<1>3. ASSUME NEW t \in Tag \ raced' PROVE WindowAt(t)'
  <2>1. WindowAt(t) /\ t # None
    BY NoneAssumption DEF WindowInv
  <2>2. Outcome(t)'
    BY <2>1, DecidedSame DEF WindowAt
  <2>3. \A r \in Renderer : renderers[r].stage = "none" => renderers[r].tag = None
    BY <1>1 DEF TagInv
  <2>4. \A r \in Renderer :
              /\ renderers[r].tag = t => renderers'[r].tag = t
              /\ renderers'[r].tag = t /\ renderers'[r].stage \in {"making", "live"} =>
                    /\ renderers[r].tag = t /\ renderers'[r].stage = renderers[r].stage
                    /\ renderers'[r].sink = renderers[r].sink
    BY <2>1, <2>3
  <2> QED BY <1>1, <2>1, <2>2, <2>4, WindowSame
<1> QED BY <1>2, <1>3 DEF WindowInv

LEMMA Window_App ==
    ASSUME LocalMediaInv, LocalMediaInv', WindowInv, App
    PROVE  WindowInv'
<1>1. TypeOK /\ TypeOK' /\ TagInv
  BY DEF LocalMediaInv, WindowInv
<1>2. ASSUME NEW r \in Renderer, New(r) PROVE WindowInv'
  <2>1. /\ UNCHANGED <<registry, frame, raced, mainQ, wanted>> /\ renderers[r].stage = "none"
        /\ renderers' = [renderers EXCEPT ![r] = [@ EXCEPT !.stage = "live", !.held = TRUE, !.sink = Own]]
    BY <1>2 DEF New, Call
  <2>2. renderers[r] \in Rendering
    BY <1>1 DEF TypeOK
  <2>3. renderers'[r].stage = "live" /\ renderers'[r].tag = renderers[r].tag
        /\ \A q \in Renderer \ {r} : renderers'[q] = renderers[q]
    BY <1>1, <2>1, <2>2 DEF TypeOK, Rendering
  <2>4. \A t \in Tag : Outcome(t) /\ Decided(t)' = Decided(t) => Outcome(t)'
    BY <2>1, OutcomeSame
  <2> QED BY <2>1, <2>3, <2>4, Window_Still
<1>3. ASSUME NEW r \in Renderer, Drop(r) PROVE WindowInv'
  <2> DEFINE last == \A i \in DOMAIN mainQ : ~(mainQ[i].task = "set_source" /\ mainQ[i].r = r)
  <2>1. /\ UNCHANGED <<registry, mainQ, wanted>> /\ renderers[r].stage = "live" /\ frame["app"] = Idle
        /\ renderers' = [renderers EXCEPT ![r].held = FALSE, ![r].stage = IF last THEN "dying" ELSE @]
        /\ IF last THEN StartFinalize("app", r) ELSE UNCHANGED <<frame, raced>>
    BY <1>3 DEF Drop, Call
  <2> HIDE DEF last
  <2>2. renderers[r] \in Rendering
    BY <1>1 DEF TypeOK
  <2>3. /\ renderers'[r].stage = (IF last THEN "dying" ELSE renderers[r].stage)
        /\ renderers'[r].tag = renderers[r].tag /\ renderers'[r].sink = renderers[r].sink
        /\ \A q \in Renderer \ {r} : renderers'[q] = renderers[q]
    <3> DEFINE g == IF last THEN "dying" ELSE renderers[r].stage
    <3>1. renderers' = [renderers EXCEPT ![r].held = FALSE, ![r].stage = g]
      BY <2>1
    <3> HIDE DEF g
    <3>2. renderers'[r] = [renderers[r] EXCEPT !.held = FALSE, !.stage = g]
      BY <1>1, <3>1 DEF TypeOK
    <3>3. \A q \in Renderer \ {r} : renderers'[q] = renderers[q]
      BY <1>1, <3>1 DEF TypeOK
    <3>4. renderers'[r].stage = g /\ renderers'[r].tag = renderers[r].tag
          /\ renderers'[r].sink = renderers[r].sink
      BY <2>2, <3>2 DEF Rendering
    <3> QED BY <3>3, <3>4 DEF g
  <2>4. \A t \in Tag : Outcome(t) /\ Decided(t)' = Decided(t) => Outcome(t)'
    BY <2>1, OutcomeSame
  <2>5. CASE last
    <3>1. StartFinalize("app", r) /\ renderers'[r].stage = "dying"
      BY <2>1, <2>3, <2>5
    <3> QED BY <2>1, <2>3, <2>4, <3>1, Threads, Window_Dying
  <2>6. CASE ~last
    BY <2>1, <2>3, <2>4, <2>6, Window_Still
  <2> QED BY <2>5, <2>6
<1>4. ASSUME NEW k \in Task, Schedule(k),
             \A t \in Tag : wanted'[t] = Given(k, t, wanted[t]),
             \A r \in Renderer : /\ renderers'[r].tag = renderers[r].tag
                                 /\ renderers'[r].stage = renderers[r].stage
                                 /\ renderers'[r].sink = renderers[r].sink
      PROVE  WindowInv'
  <2>1. UNCHANGED <<registry, frame, raced>> /\ mainQ' = Append(mainQ, k)
    BY <1>4 DEF Schedule
  <2>2. \A t \in Tag : Outcome(t) /\ Decided(t)' = Decided(t) => Outcome(t)'
    BY <1>1, <1>4, <2>1, OutcomeAppend
  <2> QED BY <1>4, <2>1, <2>2, Window_Still
<1>5. ASSUME NEW r \in Renderer, NEW s \in Source \cup {None}, SetSource(r, s) PROVE WindowInv'
  <2> DEFINE k == [task |-> "set_source", r |-> r, s |-> s]
  <2>1. k \in Task /\ \A t : \A h : Given(k, t, h) = h
    BY DEF Task, Given
  <2>2. Schedule(k) /\ wanted' = wanted /\ renderers' = [renderers EXCEPT ![r] = [@ EXCEPT !.asked = s]]
    BY <1>5 DEF SetSource
  <2> HIDE DEF k
  <2>3. renderers[r] \in Rendering
    BY <1>1 DEF TypeOK
  <2>4. \A q \in Renderer : /\ renderers'[q].tag = renderers[q].tag
                            /\ renderers'[q].stage = renderers[q].stage
                            /\ renderers'[q].sink = renderers[q].sink
    BY <1>1, <2>2, <2>3 DEF TypeOK, Rendering
  <2> QED BY <1>4, <2>1, <2>2, <2>4
<1>6. ASSUME NEW u \in Tag, NEW h \in Handle, Register(u, h) PROVE WindowInv'
  <2> DEFINE k == [task |-> "register", t |-> u, h |-> h]
  <2>1. k \in Task /\ \A t : \A g : Given(k, t, g) = IF t = u /\ g = None THEN h ELSE g
    BY DEF Task, Given
  <2>2. Schedule(k) /\ renderers' = renderers
        /\ wanted' = [wanted EXCEPT ![u] = IF @ = None THEN h ELSE @]
    BY <1>6 DEF Register
  <2> HIDE DEF k
  <2>3. \A t \in Tag : wanted'[t] = Given(k, t, wanted[t])
    BY <1>1, <2>1, <2>2 DEF TypeOK
  <2> QED BY <1>4, <2>1, <2>2, <2>3
<1>7. ASSUME NEW u \in Tag, Unregister(u) PROVE WindowInv'
  <2> DEFINE k == [task |-> "unregister", t |-> u]
  <2>1. k \in Task /\ \A t : \A g : Given(k, t, g) = IF t = u THEN None ELSE g
    BY DEF Task, Given
  <2>2. Schedule(k) /\ renderers' = renderers /\ wanted' = [wanted EXCEPT ![u] = None]
    BY <1>7 DEF Unregister
  <2> HIDE DEF k
  <2>3. \A t \in Tag : wanted'[t] = Given(k, t, wanted[t])
    BY <1>1, <2>1, <2>2 DEF TypeOK
  <2> QED BY <1>4, <2>1, <2>2, <2>3
<1>8. ASSUME NEW s \in Source, NEW l \in Level, SetVolume(s, l) PROVE WindowInv'
  <2>1. UNCHANGED <<renderers, registry, mainQ, frame, wanted, raced>>
    BY <1>8 DEF SetVolume
  <2>2. \A t \in Tag : Outcome(t) /\ Decided(t)' = Decided(t) => Outcome(t)'
    BY <2>1, OutcomeSame
  <2> QED BY <2>1, <2>2, Window_Still
<1>9. ASSUME NEW r \in Renderer, NEW t \in Tag, NewTagged(r, t) PROVE WindowInv'
  BY <1>9, Window_NewTagged
<1> QED BY <1>2, <1>3, <1>5, <1>6, <1>7, <1>8, <1>9 DEF App

LEMMA Window_ProbeIdle ==
    ASSUME LocalMediaInv, LocalMediaInv', WindowInv, NEW s \in Source, ProbeIdle(s)
    PROVE  WindowInv'
<1> DEFINE k == [task |-> "shutdown", s |-> s]
<1>1. UNCHANGED <<renderers, registry, frame, wanted, raced>> /\ mainQ' \in {mainQ, Append(mainQ, k)}
  BY DEF ProbeIdle
<1>2. TypeOK /\ k \in Task /\ \A t : \A h : Given(k, t, h) = h
  BY DEF LocalMediaInv, Task, Given
<1> HIDE DEF k
<1>3. \A t \in Tag : Outcome(t) /\ Decided(t)' = Decided(t) => Outcome(t)'
  BY <1>1, <1>2, OutcomeSame, OutcomeAppend
<1> QED BY <1>1, <1>3, Window_Still

LEMMA SetSourceLooks ==
    ASSUME TypeOK, NEW r \in Renderer, NEW s \in Source \cup {None}, SetSourceTask(r, s)
    PROVE  /\ registry' = registry
           /\ \A q \in Renderer : /\ renderers'[q].tag = renderers[q].tag
                                  /\ renderers'[q].sink = renderers[q].sink
                                  /\ q # r => renderers'[q] = renderers[q]
           /\ \/ renderers'[r].stage = "dying" /\ StartFinalize("main", r)
              \/ renderers'[r].stage = renderers[r].stage /\ UNCHANGED <<frame, raced>>
<1> DEFINE x == renderers[r]
           new == IF s = x.source THEN x ELSE Shown(x, s)
           last == ~Refs(r, Tail(mainQ))
           y == IF last THEN [new EXCEPT !.stage = "dying"] ELSE new
<1>1. x \in Rendering
  BY DEF TypeOK
<1>2. new \in Rendering /\ new.tag = x.tag /\ new.sink = x.sink /\ new.stage = x.stage
  <2>1. Shown(x, s) \in Rendering /\ Shown(x, s).tag = x.tag /\ Shown(x, s).sink = x.sink
        /\ Shown(x, s).stage = x.stage
    <3>1. Shown(x, s) \in Rendering
      BY <1>1 DEF Shown, MaybeStarted, Rendering
    <3> QED BY <1>1, <3>1, LooksOf
  <2> QED BY <1>1, <2>1
<1>3. /\ renderers' = [renderers EXCEPT ![r] = y] /\ registry' = registry
      /\ IF last THEN StartFinalize("main", r) ELSE UNCHANGED <<frame, raced>>
  BY DEF SetSourceTask
<1> HIDE DEF new
<1>4. y.tag = x.tag /\ y.sink = x.sink /\ y.stage = IF last THEN "dying" ELSE x.stage
  BY <1>2, LooksOf
<1> HIDE DEF y, last
<1>5. renderers'[r] = y /\ \A q \in Renderer \ {r} : renderers'[q] = renderers[q]
  BY <1>3 DEF TypeOK
<1> QED BY <1>3, <1>4, <1>5

\* The main loop looks tag u up for the task k that is next.
LEMMA Window_Lookup ==
    ASSUME LocalMediaInv, LocalMediaInv', WindowInv, frame["main"] = Idle, mainQ # <<>>,
           NEW k \in Task, k = Head(mainQ), mainQ' = Tail(mainQ), wanted' = wanted,
           NEW pc, NEW u \in Tag, NEW h \in Handle \cup {None}, Lookup(pc, u, h),
           \/ pc = "register" /\ k.task = "register" /\ u = k.t /\ h = k.h
           \/ pc = "unregister" /\ k.task = "unregister" /\ u = k.t /\ registry[u] # None
    PROVE  WindowInv'
<1> DEFINE f == [pc |-> pc, r |-> None, t |-> u, h |-> h, data |-> Found(u)]
<1>1. /\ TypeOK /\ TypeOK' /\ TagInv /\ UNCHANGED <<registry, renderers>> /\ raced' = Races("main", u)
      /\ frame' = [frame EXCEPT !["main"] = f] /\ frame["main"].t = None /\ frame["main"].pc = "idle"
  BY DEF LocalMediaInv, WindowInv, Lookup, Idle
<1>2. f.pc = pc /\ f.r = None /\ f.t = u /\ f.h = h /\ f.data = Found(u)
  OBVIOUS
<1> HIDE DEF f
<1>3. frame'["main"] = f /\ frame'["app"] = frame["app"] /\ raced \subseteq raced'
  BY <1>1, Threads DEF TypeOK, Races
<1>4. TagInv'
  <2>1. pc \notin Working /\ pc # "idle"
    BY DEF Working
  <2>2. \A th \in Thread : FrameTag(frame'[th])
    BY <1>1, <1>2, <1>3, <2>1, Threads DEF TagInv, FrameTag
  <2>3. \A t \in Tag : registry'[t] # None /\ registry'[t].renderer # None =>
              renderers[registry'[t].renderer].tag = t
    BY <1>1 DEF TagInv, EntryTag
  <2>4. \A r \in Renderer : renderers'[r].stage = "making" =>
              (frame["app"].r = r => frame'["app"].r = r /\ frame'["app"].pc \in Working)
    BY <1>1, <1>3 DEF TagInv
  <2> QED BY <1>1, <2>2, <2>3, <2>4, TagKept
<1>5. ASSUME NEW t \in Tag PROVE Decided(t)' = Given(k, t, Decided(t))
  <2>1. Decided(t) = HandleOf(t) /\ HandleOf(t)' = HandleOf(t)
    BY <1>1, NoneAssumption DEF Decided, HandleOf
  <2>2. CASE pc = "register"
    BY <1>2, <1>3, <2>1, <2>2 DEF Decided, Given
  <2>3. CASE pc = "unregister"
    BY <1>2, <1>3, <2>1, <2>3 DEF Decided, Given
  <2> QED BY <2>2, <2>3
<1>6. ASSUME NEW t \in Tag \ raced' PROVE WindowAt(t)'
  <2>1. WindowAt(t)
    BY <1>3 DEF WindowInv
  <2>2. Outcome(t)'
    BY <1>1, <1>5, <2>1, OutcomeTail DEF WindowAt
  <2>3. CASE t # u
    <3>1. \A th \in Thread : frame'[th] = frame[th] \/ (frame[th].t # t /\ frame'[th].t # t)
      BY <1>1, <1>2, <1>3, <2>3, Threads, NoneAssumption
    <3> QED BY <1>1, <2>1, <2>2, <3>1, WindowSame
  <2>4. CASE t = u
    <3>1. frame["app"].t # t
      BY <1>1, <2>4, Threads, NoneAssumption DEF Races
    <3>2. Found(t)' = Found(t) /\ HandleOf(t)' = HandleOf(t)
      BY <1>1 DEF Found, HandleOf
    <3>3. Alone(t)' /\ LooksRight(t)'
      BY <1>2, <1>3, <2>4, <3>1, <3>2, Threads DEF Alone, LooksRight
    <3>4. ASSUME NEW q \in Renderer, Unique(t, q)' PROVE SinkFits(t, q)'
      <4>1. Unique(t, q) /\ renderers[q].tag = t
        BY <1>1, <3>4 DEF Unique
      <4>2. SinkFits(t, q)
        BY <2>1, <4>1 DEF WindowAt
      <4>3. renderers[q].stage # "making"
        BY <1>1, <3>1, <4>1, NoneAssumption, Threads DEF TagInv, FrameTag, Working
      <4>4. renderers[q].stage = "live" => LiveFits(t, q)'
        BY <1>1, <1>2, <1>3, <3>2, <4>2 DEF SinkFits, LiveFits, Registered
      <4> QED BY <1>1, <4>3, <4>4 DEF SinkFits
    <3> QED BY <2>2, <3>3, <3>4 DEF WindowAt
  <2> QED BY <2>3, <2>4
<1> QED BY <1>4, <1>6 DEF WindowInv

LEMMA Window_RunTask ==
    ASSUME LocalMediaInv, LocalMediaInv', WindowInv, RunTask
    PROVE  WindowInv'
<1> DEFINE k == Head(mainQ)
<1>1. /\ TypeOK /\ TypeOK' /\ frame["main"] = Idle /\ mainQ # <<>> /\ mainQ' = Tail(mainQ) /\ wanted' = wanted
      /\ k \in Task /\ k = mainQ[1] /\ 1 \in DOMAIN mainQ
  BY TaskFacts DEF LocalMediaInv, RunTask
<1>2. ASSUME \A t \in Tag : Given(k, t, Decided(t)) = Decided(t)
      PROVE  \A t \in Tag : Outcome(t) /\ Decided(t)' = Decided(t) => Outcome(t)'
  <2> HIDE DEF k
  <2> SUFFICES ASSUME NEW t \in Tag, Outcome(t), Decided(t)' = Decided(t) PROVE Outcome(t)'
    OBVIOUS
  <2>1. Decided(t)' = Given(k, t, Decided(t)) /\ wanted'[t] = wanted[t]
    BY <1>1, <1>2
  <2> QED BY <1>1, <2>1, OutcomeTail DEF k
<1>3. CASE k.task = "set_source" /\ SetSourceTask(k.r, k.s)
  <2>1. k.r \in Renderer /\ k.s \in Source \cup {None}
    BY <1>1, <1>3, TaskFields
  <2>2. renderers[k.r].stage = "live"
    BY <1>1, <1>3 DEF LocalMediaInv, StageInv
  <2>3. \A t \in Tag : Given(k, t, Decided(t)) = Decided(t)
    BY <1>3 DEF Given
  <2> DEFINE r == k.r
  <2>4. /\ registry' = registry
        /\ \A q \in Renderer : /\ renderers'[q].tag = renderers[q].tag
                               /\ renderers'[q].sink = renderers[q].sink
                               /\ q # r => renderers'[q] = renderers[q]
        /\ \/ renderers'[r].stage = "dying" /\ StartFinalize("main", r)
           \/ renderers'[r].stage = renderers[r].stage /\ UNCHANGED <<frame, raced>>
    BY <1>1, <1>3, <2>1, SetSourceLooks
  <2>5. \A t \in Tag : Outcome(t) /\ Decided(t)' = Decided(t) => Outcome(t)'
    BY <1>2, <2>3
  <2>6. r \in Renderer /\ renderers[r].stage = "live"
    BY <2>1, <2>2
  <2> HIDE DEF k, r
  <2>7. CASE renderers'[r].stage = "dying" /\ StartFinalize("main", r)
    BY <1>1, <2>4, <2>5, <2>6, <2>7, Threads, Window_Dying
  <2>8. CASE renderers'[r].stage = renderers[r].stage /\ UNCHANGED <<frame, raced>>
    BY <2>4, <2>5, <2>6, <2>8, Window_Still
  <2> QED BY <2>4, <2>7, <2>8
<1>4. CASE k.task = "register" /\ Lookup("register", k.t, k.h)
  BY <1>1, <1>4, TaskFields, Window_Lookup
<1>5. CASE k.task = "unregister" /\ registry[k.t] # None /\ Lookup("unregister", k.t, None)
  BY <1>1, <1>5, TaskFields, Window_Lookup
<1>6. CASE /\ k.task \in {"unregister", "shutdown"}
           /\ k.task = "unregister" => registry[k.t] = None
           /\ UNCHANGED <<renderers, registry, frame, raced>>
  <2>1. \A t \in Tag : Decided(t) = HandleOf(t)
    BY <1>1 DEF Decided, Idle
  <2>2. \A t \in Tag : Given(k, t, Decided(t)) = Decided(t)
    BY <1>6, <2>1 DEF Given, HandleOf
  <2>3. \A t \in Tag : Outcome(t) /\ Decided(t)' = Decided(t) => Outcome(t)'
    BY <1>2, <2>2
  <2> QED BY <1>6, <2>3, Window_Still
<1> QED BY <1>3, <1>4, <1>5, <1>6 DEF RunTask, ShutdownTask

\* A thread goes on with its tag: what is left to show is what becomes of that tag.
LEMMA Window_Step ==
    ASSUME LocalMediaInv, LocalMediaInv', WindowInv, NEW th \in Thread, NEW u, u = frame[th].t,
           UNCHANGED <<mainQ, wanted, raced>>, frame[th].pc # "idle",
           FrameTag(frame'[th]), frame'[th].t \in {u, None},
           frame'[Other(th)] \in {frame[Other(th)], Stale(frame[Other(th)], u)},
           \A t \in Tag : t # u => registry'[t] = registry[t],
           u \in Tag /\ registry'[u] # None /\ registry'[u].renderer # None =>
              renderers[registry'[u].renderer].tag = u,
           \A r \in Renderer :
              /\ renderers'[r].tag = renderers[r].tag
              /\ renderers[r].tag # u =>
                    renderers'[r].stage = renderers[r].stage /\ renderers'[r].sink = renderers[r].sink
              /\ renderers'[r].stage = "none" =>
                    renderers[r].stage = "none" /\ renderers'[r].sink = renderers[r].sink
              /\ renderers'[r].stage = "making" => renderers[r].stage = "making",
           th = "app" /\ frame'["app"].pc \notin Working => \A r \in Renderer : renderers'[r].stage # "making",
           th = "app" /\ frame'["app"].pc \in Working => frame'["app"].r = frame["app"].r,
           u \in Tag \ raced /\ WindowAt(u) /\ frame[Other(th)].t # u
              /\ frame'[Other(th)] = frame[Other(th)] => Decided(u)' = Decided(u),
           u \in Tag \ raced /\ WindowAt(u) /\ frame[Other(th)].t # u
              /\ frame'[Other(th)] = frame[Other(th)] /\ LooksRight(u)' /\ Outcome(u)' =>
              \A r \in Renderer : Unique(u, r) => SinkFits(u, r)',
           frame'[th].pc \in {"register", "unregister", "renderer"} => frame'[th].t # u
    PROVE  WindowInv'
<1> DEFINE o == Other(th)
<1>1. /\ TypeOK /\ TypeOK' /\ TagInv /\ o \in Thread /\ o # th /\ \A v \in Thread : v = th \/ v = o
      /\ frame[o] \in Frame
  BY FrameFacts DEF LocalMediaInv, WindowInv, Thread, Other, TypeOK
<1>2. /\ Same(frame'[o], frame[o])
      /\ frame[o].t # u => frame'[o] = frame[o]
  BY <1>1 DEF Same, Stale, Frame
<1> HIDE DEF o
<1>3. TagInv'
  <2>1. \A v \in Thread : FrameTag(frame'[v])
    BY <1>1, <1>2 DEF TagInv, FrameTag, Same
  <2>2. \A t \in Tag : registry'[t] # None /\ registry'[t].renderer # None =>
              renderers[registry'[t].renderer].tag = t
    BY <1>1 DEF TagInv, EntryTag
  <2>3. ASSUME NEW r \in Renderer, renderers'[r].stage = "making"
        PROVE  /\ renderers[r].stage = "making"
               /\ frame["app"].r = r => frame'["app"].r = r /\ frame'["app"].pc \in Working
    <3>1. renderers[r].stage = "making" /\ frame["app"].pc \in Working /\ frame["app"].r = r
      BY <1>1, <2>3 DEF TagInv
    <3>2. CASE th = "app"
      BY <2>3, <3>1, <3>2
    <3>3. CASE o = "app"
      BY <1>2, <3>1, <3>3 DEF Same
    <3> QED BY <1>1, <3>1, <3>2, <3>3, Threads
  <2> QED BY <1>1, <2>1, <2>2, <2>3, TagKept
<1>4. ASSUME NEW t \in Tag \ raced', t # u PROVE WindowAt(t)'
  <2>1. WindowAt(t) /\ registry'[t] = registry[t] /\ t # None
    BY <1>4, NoneAssumption DEF WindowInv
  <2>2. ASSUME NEW v \in Thread PROVE frame'[v] = frame[v] \/ (frame[v].t # t /\ frame'[v].t # t)
    <3>1. CASE v = th
      BY <1>4, <2>1, <3>1
    <3>2. CASE v = o
      BY <1>2, <1>4, <3>2 DEF Same
    <3> QED BY <1>1, <3>1, <3>2
  <2>3. Decided(t)' = Decided(t)
    BY <2>1, <2>2, Threads, DecidedSame
  <2>4. Outcome(t)'
    BY <2>1, <2>3, OutcomeSame DEF WindowAt
  <2> QED BY <1>1, <1>4, <2>1, <2>2, <2>4, WindowSame
<1>5. ASSUME u \in Tag \ raced' PROVE WindowAt(u)'
  <2>1. WindowAt(u) /\ u # None
    BY <1>5, NoneAssumption DEF WindowInv
  <2>2. frame[o].t # u /\ frame'[o] = frame[o]
    <3>1. Alone(u)
      BY <2>1 DEF WindowAt
    <3> QED BY <1>1, <1>2, <3>1, Threads DEF Alone, o
  <2>3. Alone(u)'
    BY <1>1, <2>2, Threads DEF Alone
  <2>4. LooksRight(u)'
    BY <1>1, <2>2 DEF LooksRight
  <2>5. Outcome(u)'
    BY <1>5, <2>1, <2>2, OutcomeSame DEF WindowAt, o
  <2>6. \A r \in Renderer : Unique(u, r)' => Unique(u, r)
    BY DEF Unique
  <2>7. \A r \in Renderer : Unique(u, r)' => SinkFits(u, r)'
    BY <1>5, <2>1, <2>2, <2>4, <2>5, <2>6 DEF o
  <2> QED BY <2>3, <2>4, <2>5, <2>7 DEF WindowAt
<1> QED BY <1>3, <1>4, <1>5 DEF WindowInv

\* What a returning thread leaves of the renderers.
LEMMA LooksReturned ==
    ASSUME TypeOK, NEW r \in Renderer,
           \/ renderers' = renderers
           \/ renderers' = [renderers EXCEPT ![r].stage = "live"]
    PROVE  \A q \in Renderer : /\ renderers'[q].tag = renderers[q].tag
                               /\ renderers'[q].sink = renderers[q].sink
                               /\ \/ renderers'[q].stage = renderers[q].stage
                                  \/ q = r /\ renderers'[q].stage = "live"
<1>1. renderers[r] \in Rendering
  BY DEF TypeOK
<1>2. CASE renderers' = renderers
  BY <1>2
<1>3. CASE renderers' = [renderers EXCEPT ![r] = [@ EXCEPT !.stage = "live"]]
  <2>1. renderers'[r] = [renderers[r] EXCEPT !.stage = "live"]
        /\ \A q \in Renderer \ {r} : renderers'[q] = renderers[q]
    BY <1>3 DEF TypeOK
  <2>2. renderers'[r].stage = "live" /\ renderers'[r].tag = renderers[r].tag
        /\ renderers'[r].sink = renderers[r].sink
    BY <1>1, <2>1 DEF Rendering
  <2> QED BY <2>1, <2>2
<1> QED BY <1>2, <1>3

LEMMA IdleTag == FrameTag(Idle) /\ Idle.t = None /\ Idle.pc = "idle"
  BY DEF FrameTag, Idle, Working

\* Only the renderer in the frame of the application's thread is being made.
LEMMA Making ==
    ASSUME LocalMediaInv, WindowInv
    PROVE  /\ \A r \in Renderer : renderers[r].stage = "making" =>
                 frame["app"].pc \in Working /\ frame["app"].r = r /\ frame["app"].t = renderers[r].tag
           /\ frame["app"].pc \in Working =>
                 /\ frame["app"].r \in Renderer /\ renderers[frame["app"].r].stage = "making"
                 /\ renderers[frame["app"].r].tag = frame["app"].t /\ frame["app"].t \in Tag
           /\ \A r \in Renderer : renderers[r].tag \in Tag \cup {None}
<1>1. TypeOK /\ TagInv
  BY DEF LocalMediaInv, WindowInv
<1>2. FrameTag(frame["app"])
  BY <1>1, Threads DEF TagInv
<1>3. ASSUME NEW r \in Renderer, renderers[r].stage = "making"
      PROVE  frame["app"].pc \in Working /\ frame["app"].r = r /\ frame["app"].t = renderers[r].tag
  <2>1. frame["app"].pc \in Working /\ frame["app"].r = r /\ r # None
    BY <1>1, <1>3, NoneAssumption DEF TagInv
  <2> QED BY <1>2, <2>1 DEF FrameTag, Working
<1>4. ASSUME frame["app"].pc \in Working
      PROVE  /\ frame["app"].r \in Renderer /\ renderers[frame["app"].r].stage = "making"
             /\ renderers[frame["app"].r].tag = frame["app"].t /\ frame["app"].t \in Tag
  <2>1. frame["app"].r \in Renderer /\ renderers[frame["app"].r].stage = "making"
    BY <1>4, Threads DEF LocalMediaInv, StageInv, FrameInv, Fits, Working
  <2>2. frame["app"].t = renderers[frame["app"].r].tag
    BY <1>3, <2>1
  <2>3. frame["app"].t \in Tag
    BY <1>1, <1>2, <1>4, Threads DEF FrameTag, TypeOK, Frame
  <2> QED BY <2>1, <2>2, <2>3
<1>5. \A r \in Renderer : renderers[r].tag \in Tag \cup {None}
  BY <1>1 DEF TypeOK, Rendering
<1> QED BY <1>3, <1>4, <1>5

LEMMA Window_Return ==
    ASSUME LocalMediaInv, LocalMediaInv', WindowInv, NEW th \in Thread, NEW u, u = frame[th].t,
           UNCHANGED <<mainQ, wanted, raced>>, frame[th].pc # "idle", Return(th),
           th = "app" => frame["app"].pc \in Working,
           \A t \in Tag : t # u => registry'[t] = registry[t],
           u \in Tag /\ registry'[u] # None /\ registry'[u].renderer # None =>
              renderers[registry'[u].renderer].tag = u,
           u \in Tag \ raced /\ WindowAt(u) /\ frame[Other(th)].t # u
              => /\ HandleOf(u)' = Decided(u)
                 /\ \A r \in Renderer : Unique(u, r) /\ renderers'[r].stage = "live" =>
                       Registered(u, r)' /\ renderers[r].sink = HandleOf(u)'
    PROVE  WindowInv'
<1> DEFINE g == frame["app"].r
<1>1. TypeOK /\ TypeOK' /\ (th = "app" => g \in Renderer /\ renderers[g].stage = "making"
                                          /\ renderers[g].tag = u /\ u \in Tag)
  BY Making DEF LocalMediaInv
<1>2. frame'[th] = Idle /\ frame'[Other(th)] = frame[Other(th)] /\ FrameTag(frame'[th])
      /\ frame'[th].t = None /\ frame'[th].pc = "idle"
  BY <1>1, FrameFacts, IdleTag DEF Return, TypeOK
<1>3. \/ renderers' = renderers /\ th # "app"
      \/ th = "app" /\ renderers' = [renderers EXCEPT ![g].stage = "live"]
  BY <1>1 DEF Return
<1> HIDE DEF g
<1>4. ASSUME NEW q \in Renderer
      PROVE  /\ renderers'[q].tag = renderers[q].tag
             /\ renderers'[q].sink = renderers[q].sink
             /\ \/ renderers'[q].stage = renderers[q].stage
                \/ th = "app" /\ q = g /\ renderers'[q].stage = "live"
  <2>1. CASE renderers' = renderers /\ th # "app"
    BY <2>1
  <2>2. CASE th = "app" /\ renderers' = [renderers EXCEPT ![g].stage = "live"]
    BY <1>1, <2>2, LooksReturned
  <2> QED BY <1>3, <2>1, <2>2
<1>5. ASSUME th = "app", NEW q \in Renderer PROVE renderers'[q].stage # "making"
  <2>1. CASE q = g
    <3>1. renderers'[g] = [renderers[g] EXCEPT !.stage = "live"] /\ renderers[g] \in Rendering
      BY <1>1, <1>3, <1>5 DEF TypeOK
    <3> QED BY <2>1, <3>1, LooksOf
  <2>2. CASE q # g
    BY <1>4, <1>5, <2>2, Making DEF g
  <2> QED BY <2>1, <2>2
<1>6. ASSUME u \in Tag \ raced, WindowAt(u), frame[Other(th)].t # u,
             frame'[Other(th)] = frame[Other(th)]
      PROVE  /\ Decided(u)' = Decided(u)
             /\ \A r \in Renderer : Unique(u, r) => SinkFits(u, r)'
  <2>1. u # None
    BY <1>6, NoneAssumption
  <2>2. frame'["main"].t # u
    BY <1>2, <1>6, <2>1, Threads
  <2>3. Decided(u)' = HandleOf(u)'
    BY <2>2 DEF Decided
  <2>4. ASSUME NEW r \in Renderer, Unique(u, r) PROVE SinkFits(u, r)'
    <3>1. renderers'[r].stage # "making"
      <4>1. CASE th = "app"
        BY <1>5, <4>1
      <4>2. CASE th = "main"
        <5>1. frame["app"].t # renderers[r].tag
          BY <1>6, <2>4, <4>2, Threads DEF Unique
        <5>2. renderers[r].stage # "making"
          BY <5>1, Making
        <5> QED BY <1>4, <4>2, <5>2
      <4> QED BY <4>1, <4>2, Threads
    <3>2. renderers'[r].stage = "live" => LiveFits(u, r)'
      BY <1>4, <1>6, <2>2, <2>4 DEF LiveFits
    <3> QED BY <3>1, <3>2 DEF SinkFits
  <2> QED BY <1>6, <2>3, <2>4
<1>7. \A q \in Renderer :
        /\ renderers'[q].tag = renderers[q].tag
        /\ renderers[q].tag # u =>
              renderers'[q].stage = renderers[q].stage /\ renderers'[q].sink = renderers[q].sink
        /\ renderers'[q].stage = "none" =>
              renderers[q].stage = "none" /\ renderers'[q].sink = renderers[q].sink
        /\ renderers'[q].stage = "making" => renderers[q].stage = "making"
  BY <1>1, <1>4
<1>8. frame'[th].pc \notin Working \cup {"register", "unregister", "renderer"}
  BY <1>2 DEF Working
<1> QED BY <1>2, <1>5, <1>6, <1>7, <1>8, Window_Step

\* A thread goes on to the next part of its function, about a renderer of its tag.
LEMMA Window_Go ==
    ASSUME LocalMediaInv, LocalMediaInv', WindowInv, NEW th \in Thread, NEW u \in Tag, u = frame[th].t,
           UNCHANGED <<mainQ, wanted, raced>>, frame[th].pc # "idle",
           NEW pc, NEW r \in Renderer, NEW h, Go(th, pc, r, h), pc \in Working \ {"renderer"},
           renderers[r].tag = u, th = "app" => frame["app"].pc \in Working /\ r = frame["app"].r,
           \A t \in Tag : t # u => registry'[t] = registry[t],
           registry'[u] # None /\ registry'[u].renderer # None =>
              renderers[registry'[u].renderer].tag = u,
           u \in Tag \ raced /\ WindowAt(u) /\ frame[Other(th)].t # u
              => /\ HandleOf(u)' = Decided(u)
                 /\ \A q \in Renderer : Unique(u, q) /\ renderers[q].stage \in {"making", "live"} =>
                          /\ q = r /\ Registered(u, q)'
                          /\ IF pc = "check" THEN renderers[q].sink = None
                             ELSE pc \in {"clear", "show"} /\ h = HandleOf(u)'
    PROVE  WindowInv'
<1>1. TypeOK /\ TypeOK'
  BY DEF LocalMediaInv
<1>2. /\ frame'[th].pc = pc /\ frame'[th].r = r /\ frame'[th].h = h /\ frame'[th].t = u
      /\ frame'[Other(th)] = frame[Other(th)] /\ renderers' = renderers
      /\ pc # "idle" /\ pc \notin {"register", "unregister", "renderer"} /\ u # None /\ r # None
  BY <1>1, GoEffect, NoneAssumption DEF Working
<1>3. FrameTag(frame'[th])
  BY <1>2 DEF FrameTag
<1>4. ASSUME u \in Tag \ raced, WindowAt(u), frame[Other(th)].t # u
      PROVE  /\ Decided(u)' = Decided(u)
             /\ \A q \in Renderer : Unique(u, q) => SinkFits(u, q)'
  <2>1. frame'["main"].t # u \/ frame'["main"].pc \notin {"register", "unregister"}
    BY <1>2, <1>4, Threads
  <2>2. Decided(u)' = HandleOf(u)'
    BY <2>1 DEF Decided
  <2>3. ASSUME NEW q \in Renderer, Unique(u, q) PROVE SinkFits(u, q)'
    <3>1. CASE th = "app"
      <4>1. frame'["app"].pc = pc /\ frame'["app"].h = h
        BY <1>2, <3>1
      <4>2. renderers'[q].stage = "making" => MakingFits(u, q)'
        BY <1>2, <1>4, <2>3, <4>1 DEF MakingFits, Working
      <4>3. renderers'[q].stage # "live"
        <5>1. renderers[frame["app"].r].stage = "making" /\ renderers[frame["app"].r].tag = u
              /\ frame["app"].r \in Renderer
          BY <3>1, Making
        <5> QED BY <1>2, <2>3, <5>1 DEF Unique
      <4> QED BY <4>2, <4>3 DEF SinkFits
    <3>2. CASE th = "main"
      <4>1. frame'["main"].pc = pc /\ frame'["main"].h = h /\ frame'["main"].t = u
        BY <1>2, <3>2
      <4>2. pc # "check"
        <5>1. Fits("main", frame'["main"])
          BY Threads DEF LocalMediaInv, FrameInv
        <5> QED BY <4>1, <5>1 DEF Fits
      <4>3. renderers'[q].stage = "live" => LiveFits(u, q)'
        BY <1>2, <1>4, <2>3, <4>1, <4>2 DEF LiveFits
      <4>4. renderers'[q].stage # "making"
        BY <1>2, <1>4, <2>3, <3>2, Making, Threads DEF Unique
      <4> QED BY <4>3, <4>4 DEF SinkFits
    <3> QED BY <3>1, <3>2, Threads
  <2> QED BY <1>4, <2>2, <2>3
<1>5. th = "app" => /\ frame'["app"].pc \in Working
                    /\ frame'["app"].r = frame["app"].r
  BY <1>2
<1> QED BY <1>2, <1>3, <1>4, <1>5, Window_Step

\* A thread that found no entry makes one.
LEMMA Window_Insert ==
    ASSUME LocalMediaInv, LocalMediaInv', WindowInv, NEW th \in Thread, NEW u \in Tag, u = frame[th].t,
           UNCHANGED <<mainQ, wanted, raced>>, frame[th].pc # "idle",
           NEW entry \in Entry, Insert(th, u, entry),
           IF th = "app" THEN frame["app"].pc = "renderer" /\ entry.renderer = frame["app"].r /\ entry.handle = None
           ELSE frame["main"].pc = "register" /\ entry.renderer = None /\ entry.handle = frame["main"].h,
           frame[th].data = "none"
    PROVE  WindowInv'
<1> DEFINE g == frame["app"].r
<1>1. /\ TypeOK /\ TypeOK' /\ entry # None /\ u # None
      /\ th = "app" => g \in Renderer /\ renderers[g].stage = "making" /\ renderers[g].tag = u
  BY Making, EntryFacts, NoneAssumption DEF LocalMediaInv, Working
<1>2. /\ frame'[th] = Idle /\ frame'[Other(th)] = Stale(frame[Other(th)], u)
      /\ registry' = [registry EXCEPT ![u] = entry]
  BY <1>1, InsertEffect DEF g
<1>3. \/ renderers' = renderers /\ th # "app"
      \/ th = "app" /\ renderers' = [renderers EXCEPT ![g].stage = "live"]
  BY DEF Insert
<1> HIDE DEF g
<1>4. ASSUME NEW q \in Renderer
      PROVE  /\ renderers'[q].tag = renderers[q].tag
             /\ renderers'[q].sink = renderers[q].sink
             /\ \/ renderers'[q].stage = renderers[q].stage
                \/ th = "app" /\ q = g /\ renderers'[q].stage = "live"
  <2>1. CASE renderers' = renderers /\ th # "app"
    BY <2>1
  <2>2. CASE th = "app" /\ renderers' = [renderers EXCEPT ![g].stage = "live"]
    BY <1>1, <2>2, LooksReturned
  <2> QED BY <1>3, <2>1, <2>2
<1>5. ASSUME th = "app", NEW q \in Renderer PROVE renderers'[q].stage # "making"
  <2>1. CASE q = g
    <3>1. renderers'[g] = [renderers[g] EXCEPT !.stage = "live"] /\ renderers[g] \in Rendering
      BY <1>1, <1>3, <1>5 DEF TypeOK
    <3> QED BY <2>1, <3>1, LooksOf
  <2>2. CASE q # g
    BY <1>4, <1>5, <2>2, Making DEF g
  <2> QED BY <2>1, <2>2
<1>6. registry'[u] = entry /\ \A t \in Tag : t # u => registry'[t] = registry[t]
  BY <1>1, <1>2 DEF TypeOK
<1>7. HandleOf(u)' = entry.handle /\ \A r : Registered(u, r)' <=> entry.renderer = r
  BY <1>1, <1>6 DEF HandleOf, Registered
<1>8. ASSUME u \in Tag \ raced, WindowAt(u), frame[Other(th)].t # u
      PROVE  /\ Decided(u)' = Decided(u)
             /\ \A q \in Renderer : Unique(u, q) => SinkFits(u, q)'
  <2>1. registry[u] = None
    BY <1>8, Threads DEF WindowAt, LooksRight, Found
  <2>2. HandleOf(u) = None
    BY <2>1 DEF HandleOf
  <2>3. frame'["main"].t # u
    <3>1. \A f \in Frame : Stale(f, u).t = f.t
      BY IdleFacts DEF Same
    <3>2. frame[Other(th)] \in Frame
      BY <1>1, FrameFacts DEF TypeOK
    <3>3. frame'[Other(th)].t # u /\ frame'[th].t # u
      BY <1>1, <1>2, <1>8, <3>1, <3>2, IdleTag
    <3> QED BY <3>3, Threads
  <2>4. Decided(u)' = HandleOf(u)'
    BY <2>3 DEF Decided
  <2>5. Decided(u) = entry.handle
    <3>1. CASE th = "app"
      BY <1>8, <2>2, <3>1, Threads DEF Decided
    <3>2. CASE th = "main"
      BY <2>2, <3>2 DEF Decided
    <3> QED BY <3>1, <3>2, Threads
  <2>6. ASSUME NEW q \in Renderer, Unique(u, q) PROVE SinkFits(u, q)'
    <3>0. SinkFits(u, q) /\ renderers[q].tag = u
      BY <1>8, <2>6 DEF WindowAt, Unique
    <3>1. renderers[q].stage # "live"
      BY <2>1, <3>0 DEF SinkFits, LiveFits, Registered
    <3>2. CASE th = "app"
      <4>1. renderers'[q].stage # "making"
        BY <1>5, <3>2
      <4>2. q = g /\ renderers[q].stage = "making"
        BY <1>1, <2>6, <3>2 DEF Unique
      <4>3. renderers[q].sink = None
        BY <3>0, <3>2, <4>2 DEF SinkFits, MakingFits
      <4>4. LiveFits(u, q)'
        BY <1>4, <1>7, <2>3, <3>2, <4>2, <4>3 DEF LiveFits, g
      <4> QED BY <4>1, <4>4 DEF SinkFits
    <3>3. CASE th = "main"
      <4>1. renderers[q].stage # "making"
        BY <1>8, <3>0, <3>3, Making, Threads
      <4> QED BY <1>4, <3>1, <3>3, <4>1 DEF SinkFits
    <3> QED BY <3>2, <3>3, Threads
  <2> QED BY <1>7, <2>4, <2>5, <2>6
<1>9. \A q \in Renderer :
        /\ renderers'[q].tag = renderers[q].tag
        /\ renderers[q].tag # u =>
              renderers'[q].stage = renderers[q].stage /\ renderers'[q].sink = renderers[q].sink
        /\ renderers'[q].stage = "none" =>
              renderers[q].stage = "none" /\ renderers'[q].sink = renderers[q].sink
        /\ renderers'[q].stage = "making" => renderers[q].stage = "making"
  BY <1>1, <1>4
<1>10. entry.renderer # None => renderers[entry.renderer].tag = u
  BY <1>1 DEF g
<1>11. frame'[th].t = None /\ FrameTag(frame'[th])
       /\ frame'[th].pc \notin Working \cup {"register", "unregister", "renderer"}
  BY <1>2, IdleTag DEF Working
<1> QED BY <1>2, <1>5, <1>6, <1>8, <1>9, <1>10, <1>11, Window_Step

LEMMA Window_DoRegister ==
    ASSUME LocalMediaInv, LocalMediaInv', WindowInv, DoRegister
    PROVE  WindowInv'
<1> DEFINE f == frame["main"]
<1>0. PICK u \in Tag : u = f.t
  BY Threads DEF LocalMediaInv, DoRegister, FrameInv, Fits
<1> DEFINE entry == registry[u]
<1>1. /\ TypeOK /\ TagInv /\ f.pc = "register" /\ f.h \in Handle /\ f.h # None
      /\ UNCHANGED <<mainQ, wanted, raced>> /\ Other("main") = "app" /\ "main" \in Thread
      /\ EntryTag(u)
  BY Threads, NoneAssumption DEF LocalMediaInv, WindowInv, DoRegister, FrameInv, Fits, TagInv
<1>2. ASSUME u \notin raced PROVE f.data = Found(u) /\ frame["app"].t # u
  BY <1>0, <1>1, <1>2 DEF WindowInv, WindowAt, LooksRight, Alone
<1>3. CASE f.data = "none" /\ Insert("main", u, [handle |-> f.h, renderer |-> None])
  <2> DEFINE new == [handle |-> f.h, renderer |-> None]
  <2>1. new \in Entry /\ new.handle = f.h /\ new.renderer = None
    BY <1>0, <1>1 DEF Entry
  <2> HIDE DEF new
  <2>2. Insert("main", u, new) /\ f.data = "none" /\ f.pc # "idle"
    BY <1>0, <1>1, <1>3 DEF new
  <2> QED BY <1>0, <1>1, <2>1, <2>2, Window_Insert
<1>4. CASE f.data = "stale" /\ Misused("main", "registry")
  <2>1. u \in raced /\ registry' = registry /\ Return("main") /\ f.pc # "idle"
    BY <1>0, <1>1, <1>2, <1>4 DEF Found, Misused
  <2> QED BY <1>0, <1>1, <2>1, Window_Return DEF EntryTag
<1>5. CASE f.data = "held" /\ entry.handle # None /\ Return("main") /\ registry' = registry
  <2>1. WindowAt(u) /\ u \in Tag \ raced => entry # None
    BY <1>0, <1>1, <1>2, <1>5 DEF Found
  <2>2. WindowAt(u) /\ u \in Tag \ raced =>
           /\ HandleOf(u)' = Decided(u)
           /\ \A r \in Renderer : Unique(u, r) /\ renderers'[r].stage = "live" =>
                       Registered(u, r)' /\ renderers[r].sink = HandleOf(u)'
    <3> SUFFICES ASSUME WindowAt(u), u \in Tag \ raced
                 PROVE  /\ HandleOf(u)' = Decided(u)
                        /\ \A r \in Renderer : Unique(u, r) /\ renderers'[r].stage = "live" =>
                              Registered(u, r)' /\ renderers[r].sink = HandleOf(u)'
      OBVIOUS
    <3>1. HandleOf(u) = entry.handle /\ HandleOf(u)' = HandleOf(u)
      BY <1>5, <2>1 DEF HandleOf
    <3>2. Decided(u) = HandleOf(u)
      BY <1>0, <1>1, <1>5, <3>1 DEF Decided
    <3>3. ASSUME NEW r \in Renderer, Unique(u, r), renderers'[r].stage = "live"
          PROVE  Registered(u, r)' /\ renderers[r].sink = HandleOf(u)'
      <4>1. renderers[r].stage = "live"
        BY <1>5, <3>3 DEF Return
      <4>2. LiveFits(u, r)
        BY <3>3, <4>1 DEF WindowAt, SinkFits
      <4> QED BY <1>0, <1>1, <1>5, <3>1, <4>2 DEF LiveFits, Registered
    <3> QED BY <3>1, <3>2, <3>3
  <2>3. f.pc # "idle"
    BY <1>0, <1>1
  <2> QED BY <1>0, <1>1, <1>5, <2>2, <2>3, Window_Return DEF EntryTag
<1>6. CASE /\ f.data = "held" /\ entry.handle = None
           /\ registry' = [registry EXCEPT ![u].handle = f.h]
           /\ IF entry.renderer = None THEN Return("main") ELSE Go("main", "clear", entry.renderer, f.h)
  <2>1. entry \in Entry /\ entry # None
    BY <1>0, <1>1, <1>6, Threads, EntryFacts DEF LocalMediaInv, EntryInv, TypeOK
  <2> DEFINE new == [entry EXCEPT !.handle = f.h]
  <2>2. /\ new \in Entry /\ new # None /\ new.handle = f.h /\ new.renderer = entry.renderer
    <3>1. new \in Entry /\ new.handle = f.h /\ new.renderer = entry.renderer
      BY <1>0, <1>1, <2>1, EntryFacts
    <3>2. new # None
      BY <3>1, EntryFacts
    <3> QED BY <3>1, <3>2
  <2>3. registry' = [registry EXCEPT ![u] = new]
    BY <1>6
  <2> HIDE DEF new
  <2>4. registry'[u] = new /\ \A t \in Tag : t # u => registry'[t] = registry[t]
    BY <1>0, <1>1, <2>3 DEF TypeOK
  <2>5. /\ HandleOf(u)' = f.h /\ Decided(u) = f.h
        /\ \A r : Registered(u, r)' <=> Registered(u, r)
    BY <1>0, <1>1, <1>6, <2>1, <2>2, <2>4 DEF HandleOf, Decided, Registered
  <2>6. registry'[u].renderer # None => renderers[registry'[u].renderer].tag = u
    BY <1>0, <1>1, <2>1, <2>2, <2>4 DEF EntryTag
  <2>7. ASSUME u \in Tag \ raced, WindowAt(u), NEW q \in Renderer, Unique(u, q)
        PROVE  /\ renderers[q].stage # "making"
               /\ renderers[q].stage = "live" => entry.renderer = q /\ q # None
    <3>1. renderers[q].stage # "making"
      BY <1>2, <2>7, Making DEF Unique
    <3>2. SinkFits(u, q)
      BY <2>7 DEF WindowAt
    <3> QED BY <3>1, <3>2, NoneAssumption DEF SinkFits, LiveFits, Registered
  <2>8. CASE entry.renderer = None
    <3>1. Return("main") /\ f.pc # "idle"
      BY <1>0, <1>1, <1>6, <2>8
    <3>2. \A q \in Renderer : renderers'[q].stage = renderers[q].stage
      BY <3>1 DEF Return
    <3> QED BY <1>0, <1>1, <2>4, <2>5, <2>6, <2>7, <2>8, <3>1, <3>2, Window_Return
  <2>9. CASE entry.renderer # None
    <3>1. entry.renderer \in Renderer /\ renderers[entry.renderer].tag = u
      BY <1>0, <1>1, <2>1, <2>9, EntryFacts DEF EntryTag
    <3>2. Go("main", "clear", entry.renderer, f.h) /\ f.pc # "idle" /\ "clear" \in Working \ {"renderer"}
      BY <1>0, <1>1, <1>6, <2>9 DEF Working
    <3>3. \A q \in Renderer : Registered(u, q) <=> entry.renderer = q
      BY <2>1 DEF Registered
    <3> HIDE DEF entry
    <3> QED BY <1>0, <1>1, <2>4, <2>5, <2>6, <2>7, <3>1, <3>2, <3>3, Window_Go
  <2> QED BY <2>8, <2>9
<1> QED BY <1>0, <1>1, <1>3, <1>4, <1>5, <1>6 DEF DoRegister, Misused

LEMMA Window_DoUnregister ==
    ASSUME LocalMediaInv, LocalMediaInv', WindowInv, DoUnregister
    PROVE  WindowInv'
<1> DEFINE f == frame["main"]
<1>0. PICK u \in Tag : u = f.t
  BY Threads DEF LocalMediaInv, DoUnregister, FrameInv, Fits
<1> DEFINE entry == registry[u]
<1>1. /\ TypeOK /\ TypeOK' /\ TagInv /\ f.pc = "unregister"
      /\ UNCHANGED <<mainQ, wanted, raced>> /\ Other("main") = "app" /\ "main" \in Thread
      /\ EntryTag(u) /\ u # None
  BY <1>0, Threads, NoneAssumption DEF LocalMediaInv, WindowInv, DoUnregister, TagInv
<1>2. ASSUME u \notin raced PROVE f.data = Found(u) /\ frame["app"].t # u
  BY <1>0, <1>1, <1>2 DEF WindowInv, WindowAt, LooksRight, Alone
<1>3. Decided(u) = None
  BY <1>0, <1>1 DEF Decided
<1>4. ASSUME u \in Tag \ raced, WindowAt(u), NEW q \in Renderer, Unique(u, q)
      PROVE  /\ renderers[q].stage # "making"
             /\ renderers[q].stage = "live" => entry # None /\ entry.renderer = q /\ q # None
  <2>1. renderers[q].stage # "making"
    BY <1>2, <1>4, Making DEF Unique
  <2>2. SinkFits(u, q)
    BY <1>4 DEF WindowAt
  <2> QED BY <2>1, <2>2, NoneAssumption DEF SinkFits, LiveFits, Registered
<1>5. CASE f.data = "stale" /\ Misused("main", "registry")
  <2>1. u \in raced /\ registry' = registry /\ Return("main") /\ f.pc # "idle"
    BY <1>0, <1>1, <1>2, <1>5 DEF Found, Misused
  <2> QED BY <1>0, <1>1, <2>1, Window_Return DEF EntryTag
<1>6. CASE /\ f.data = "held" /\ entry.renderer # None
           /\ registry' = [registry EXCEPT ![u].handle = None]
           /\ Go("main", "clear", entry.renderer, None)
  <2>1. entry \in Entry /\ entry # None
    BY <1>0, <1>1, <1>6, Threads, EntryFacts DEF LocalMediaInv, EntryInv, TypeOK
  <2> DEFINE new == [entry EXCEPT !.handle = None]
  <2>2. /\ new \in Entry /\ new # None /\ new.handle = None /\ new.renderer = entry.renderer
    <3>1. new \in Entry /\ new.handle = None /\ new.renderer = entry.renderer
      BY <2>1, EntryFacts
    <3>2. new # None
      BY <3>1, EntryFacts
    <3> QED BY <3>1, <3>2
  <2>3. registry' = [registry EXCEPT ![u] = new]
    BY <1>6
  <2> HIDE DEF new
  <2>4. registry'[u] = new /\ \A t \in Tag : t # u => registry'[t] = registry[t]
    BY <1>1, <2>3 DEF TypeOK
  <2>5. HandleOf(u)' = None /\ \A r : Registered(u, r)' <=> Registered(u, r)
    BY <2>1, <2>2, <2>4 DEF HandleOf, Registered
  <2>6. entry.renderer \in Renderer /\ renderers[entry.renderer].tag = u
    BY <1>1, <1>6, <2>1, EntryFacts DEF EntryTag
  <2>7. Go("main", "clear", entry.renderer, None) /\ f.pc # "idle" /\ "clear" \in Working \ {"renderer"}
    BY <1>1, <1>6 DEF Working
  <2>8. \A q \in Renderer : Registered(u, q) <=> entry.renderer = q
    BY <2>1 DEF Registered
  <2>9. registry'[u].renderer = entry.renderer
    BY <2>2, <2>4
  <2> HIDE DEF entry
  <2> QED BY <1>0, <1>1, <1>3, <1>4, <2>4, <2>5, <2>6, <2>7, <2>8, <2>9, Window_Go
<1>7. CASE /\ f.data = "held" /\ entry.renderer = None
           /\ registry' = [registry EXCEPT ![u] = None]
           /\ frame' = [frame EXCEPT !["main"] = Idle, !["app"] = Stale(@, u)]
           /\ UNCHANGED renderers
  <2>1. frame'["main"] = Idle /\ frame'["app"] = Stale(frame["app"], u)
    BY <1>1, <1>7, Threads DEF TypeOK
  <2>2. registry'[u] = None /\ \A t \in Tag : t # u => registry'[t] = registry[t]
    BY <1>1, <1>7 DEF TypeOK
  <2>3. HandleOf(u)' = None
    BY <2>2 DEF HandleOf
  <2>4. frame'["main"].t = None /\ FrameTag(frame'["main"]) /\ frame'["main"].pc = "idle"
    BY <2>1, IdleTag
  <2>5. ASSUME u \in Tag \ raced, WindowAt(u)
        PROVE  /\ Decided(u)' = Decided(u)
               /\ \A q \in Renderer : Unique(u, q) => SinkFits(u, q)'
    <3>1. Decided(u)' = None
      BY <1>1, <2>3, <2>4 DEF Decided
    <3>2. \A q \in Renderer : Unique(u, q) => renderers'[q].stage \notin {"making", "live"}
      BY <1>4, <1>7, <2>5
    <3> QED BY <1>3, <3>1, <3>2 DEF SinkFits
  <2>6. \A q \in Renderer : renderers'[q] = renderers[q]
    BY <1>7
  <2>7. /\ f.pc # "idle" /\ "main" # "app"
        /\ frame'[Other("main")] \in {frame[Other("main")], Stale(frame[Other("main")], u)}
    BY <1>1, <2>1
  <2>8. frame'["main"].pc \notin {"register", "unregister", "renderer"}
    BY <2>4
  <2> QED BY <1>0, <1>1, <2>2, <2>4, <2>5, <2>6, <2>7, <2>8, Window_Step
<1> QED BY <1>0, <1>1, <1>5, <1>6, <1>7 DEF DoUnregister

LEMMA Window_RegisterRenderer ==
    ASSUME LocalMediaInv, LocalMediaInv', WindowInv, RegisterRenderer
    PROVE  WindowInv'
<1> DEFINE f == frame["app"]
<1>0. PICK u \in Tag, r \in Renderer : u = f.t /\ r = f.r
  BY Threads DEF LocalMediaInv, RegisterRenderer, FrameInv, Fits
<1> DEFINE entry == registry[u]
<1>1. /\ TypeOK /\ TypeOK' /\ TagInv /\ f.pc = "renderer" /\ f.pc \in Working
      /\ UNCHANGED <<mainQ, wanted, raced>> /\ Other("app") = "main" /\ "app" \in Thread
      /\ EntryTag(u) /\ u # None /\ r # None
      /\ renderers[r].stage = "making" /\ renderers[r].tag = u
  BY <1>0, Threads, NoneAssumption, Making DEF LocalMediaInv, WindowInv, RegisterRenderer, TagInv, Working
<1>2. ASSUME u \in Tag \ raced PROVE f.data = Found(u) /\ frame["main"].t # u
  BY <1>0, <1>1, <1>2, Threads DEF WindowInv, WindowAt, LooksRight, Alone
<1>3. ASSUME u \in Tag \ raced, WindowAt(u), NEW q \in Renderer, Unique(u, q)
      PROVE  q = r /\ renderers[q].sink = None /\ (registry[u] = None \/ registry[u].renderer = None)
  <2>1. q = r
    BY <1>1, <1>3 DEF Unique
  <2>2. MakingFits(u, q)
    BY <1>1, <1>3, <2>1 DEF WindowAt, SinkFits
  <2> QED BY <1>1, <2>1, <2>2 DEF MakingFits
<1>4. CASE f.data = "none" /\ Insert("app", u, [handle |-> None, renderer |-> r])
  <2> DEFINE new == [handle |-> None, renderer |-> r]
  <2>1. new \in Entry /\ new.handle = None /\ new.renderer = r
    BY DEF Entry
  <2> HIDE DEF new
  <2>2. Insert("app", u, new) /\ f.data = "none" /\ f.pc # "idle"
    BY <1>1, <1>4 DEF new
  <2> QED BY <1>0, <1>1, <2>1, <2>2, Window_Insert
<1>5. CASE f.data = "stale" /\ Misused("app", "registry")
  <2>1. u \in raced /\ registry' = registry /\ Return("app") /\ f.pc # "idle"
    BY <1>0, <1>1, <1>2, <1>5 DEF Found, Misused
  <2> QED BY <1>0, <1>1, <2>1, Window_Return DEF EntryTag
<1>6. CASE f.data = "held" /\ entry.renderer # None /\ Return("app") /\ registry' = registry
  <2>1. entry # None
    BY <1>0, <1>1, <1>6, Threads DEF LocalMediaInv, EntryInv
  <2>2. u \in Tag \ raced /\ WindowAt(u) => \A q \in Renderer : ~Unique(u, q)
    BY <1>3, <1>6, <2>1
  <2>3. u \in Tag \ raced => HandleOf(u)' = Decided(u)
    BY <1>2, <1>6 DEF HandleOf, Decided
  <2>4. f.pc # "idle"
    BY <1>1
  <2> QED BY <1>0, <1>1, <1>6, <2>2, <2>3, <2>4, Window_Return DEF EntryTag
<1>7. CASE /\ f.data = "held" /\ entry.renderer = None
           /\ registry' = [registry EXCEPT ![u].renderer = r]
           /\ Go("app", "check", r, None)
  <2>1. entry \in Entry /\ entry # None
    BY <1>0, <1>1, <1>7, Threads, EntryFacts DEF LocalMediaInv, EntryInv, TypeOK
  <2> DEFINE new == [entry EXCEPT !.renderer = r]
  <2>2. /\ new \in Entry /\ new # None /\ new.handle = entry.handle /\ new.renderer = r
    <3>1. new \in Entry /\ new.handle = entry.handle /\ new.renderer = r
      BY <2>1, EntryFacts
    <3>2. new # None
      BY <3>1, EntryFacts
    <3> QED BY <3>1, <3>2
  <2>3. registry' = [registry EXCEPT ![u] = new]
    BY <1>7
  <2> HIDE DEF new
  <2>4. registry'[u] = new /\ \A t \in Tag : t # u => registry'[t] = registry[t]
    BY <1>1, <2>3 DEF TypeOK
  <2>5. HandleOf(u)' = HandleOf(u) /\ Registered(u, r)'
    BY <2>1, <2>2, <2>4 DEF HandleOf, Registered
  <2>6. u \in Tag \ raced => Decided(u) = HandleOf(u)
    BY <1>2 DEF Decided
  <2>7. Go("app", "check", r, None) /\ f.pc # "idle" /\ "check" \in Working \ {"renderer"}
    BY <1>1, <1>7 DEF Working
  <2>8. registry'[u].renderer = r
    BY <2>2, <2>4
  <2> QED BY <1>0, <1>1, <1>3, <2>4, <2>5, <2>6, <2>7, <2>8, Window_Go
<1> QED BY <1>0, <1>1, <1>4, <1>5, <1>6, <1>7 DEF RegisterRenderer

LEMMA Window_CheckHandle ==
    ASSUME LocalMediaInv, LocalMediaInv', WindowInv, CheckHandle
    PROVE  WindowInv'
<1> DEFINE f == frame["app"]
<1>0. PICK u \in Tag, r \in Renderer : u = f.t /\ r = f.r
  BY Threads DEF LocalMediaInv, CheckHandle, FrameInv, Fits
<1> DEFINE entry == registry[u]
<1>1. /\ TypeOK /\ TypeOK' /\ TagInv /\ f.pc = "check" /\ f.pc \in Working /\ f.pc # "idle"
      /\ UNCHANGED <<registry, mainQ, wanted, raced>> /\ Other("app") = "main" /\ "app" \in Thread
      /\ EntryTag(u) /\ u # None /\ r # None
      /\ renderers[r].stage = "making" /\ renderers[r].tag = u
      /\ entry # None /\ entry.renderer = r
  BY <1>0, Threads, NoneAssumption, Making DEF LocalMediaInv, WindowInv, CheckHandle, TagInv, Working, EntryInv
<1>2. u \in Tag \ raced /\ frame["main"].t # u => HandleOf(u)' = Decided(u) /\ HandleOf(u)' = entry.handle
  BY <1>1 DEF Decided, HandleOf
<1>3. ASSUME u \in Tag \ raced, WindowAt(u), NEW q \in Renderer, Unique(u, q)
      PROVE  q = r /\ renderers[q].sink = None
  <2>1. q = r
    BY <1>1, <1>3 DEF Unique
  <2>2. MakingFits(u, q)
    BY <1>1, <1>3, <2>1 DEF WindowAt, SinkFits
  <2> QED BY <1>1, <2>1, <2>2 DEF MakingFits
<1>4. Registered(u, r)'
  BY <1>1 DEF Registered
<1>5. CASE entry.handle = None /\ Return("app")
  BY <1>0, <1>1, <1>2, <1>3, <1>4, <1>5, Window_Return DEF EntryTag
<1>6. CASE entry.handle # None /\ Go("app", "clear", r, entry.handle)
  <2>1. "clear" \in Working \ {"renderer"} /\ "clear" # "check"
    BY DEF Working
  <2>2. registry'[u].renderer = r /\ \A t \in Tag : registry'[t] = registry[t]
    BY <1>1
  <2>3. Go("app", "clear", r, entry.handle)
    BY <1>6
  <2> QED BY <1>0, <1>1, <1>2, <1>3, <1>4, <2>1, <2>2, <2>3, Window_Go
<1> QED BY <1>0, <1>1, <1>5, <1>6 DEF CheckHandle

LEMMA Window_NotifyClear ==
    ASSUME LocalMediaInv, LocalMediaInv', WindowInv, NEW th \in Thread, NotifyClear(th)
    PROVE  WindowInv'
<1> DEFINE f == frame[th]
<1>0. PICK u \in Tag, r \in Renderer : u = f.t /\ r = f.r
  <2>1. f.r \in Renderer /\ f.pc = "clear" /\ f \in Frame
    BY DEF LocalMediaInv, NotifyClear, FrameInv, Fits, TypeOK
  <2>2. f.t # None
    BY <2>1 DEF WindowInv, TagInv, FrameTag, Working
  <2> QED BY <2>1, <2>2 DEF Frame
<1>1. /\ TypeOK /\ TypeOK' /\ TagInv /\ f.pc = "clear" /\ f.pc \in Working /\ f.pc # "idle"
      /\ UNCHANGED <<registry, mainQ, wanted, raced>> /\ Other(th) \in Thread /\ th \in {"app", "main"}
      /\ EntryTag(u) /\ u # None /\ r # None /\ renderers[r].tag = u
  <2>1. f.pc = "clear" /\ UNCHANGED <<registry, mainQ, wanted, raced>>
    BY DEF NotifyClear, Misused
  <2>2. FrameTag(f)
    BY DEF WindowInv, TagInv
  <2> QED BY <1>0, <2>1, <2>2, FrameFacts, Threads, NoneAssumption
      DEF LocalMediaInv, WindowInv, TagInv, Working, FrameTag
<1>2. u \in Tag \ raced /\ frame[Other(th)].t # u => Decided(u) = HandleOf(u) /\ HandleOf(u)' = HandleOf(u)
  BY <1>0, <1>1, Threads DEF Decided, HandleOf
<1>3. ASSUME u \in Tag \ raced, WindowAt(u), frame[Other(th)].t # u, NEW q \in Renderer, Unique(u, q)
      PROVE  /\ q = r
             /\ renderers[q].stage \in {"making", "live"} => Registered(u, q) /\ f.h = HandleOf(u)
             /\ th = "app" => renderers[q].stage = "making"
             /\ th = "main" => renderers[q].stage # "making"
  <2>1. q = r /\ SinkFits(u, q)
    BY <1>1, <1>3 DEF Unique, WindowAt
  <2>2. CASE th = "app"
    <3>1. renderers[q].stage = "making"
      BY <1>0, <1>1, <2>1, <2>2, Making
    <3>2. MakingFits(u, q)
      BY <2>1, <3>1 DEF SinkFits
    <3> QED BY <1>1, <2>1, <2>2, <3>1, <3>2 DEF MakingFits
  <2>3. CASE th = "main"
    <3>1. renderers[q].stage # "making"
      BY <1>0, <1>1, <1>3, <2>1, <2>3, Making, Threads
    <3>2. renderers[q].stage = "live" => LiveFits(u, q)
      BY <2>1 DEF SinkFits
    <3> QED BY <1>0, <1>1, <2>1, <2>3, <3>1, <3>2 DEF LiveFits
  <2> QED BY <1>1, <2>2, <2>3
<1>4. CASE Dead(f.r) /\ Misused(th, "renderer")
  <2>1. Return(th) /\ renderers[r].stage \in {"dying", "gone"}
    BY <1>0, <1>4 DEF Misused, Dead
  <2>2. th # "app"
    BY <1>0, <1>1, <2>1, Making
  <2>3. \A q \in Renderer : renderers'[q].stage = renderers[q].stage
    BY <2>1, <2>2 DEF Return
  <2>4. u \in Tag \ raced /\ WindowAt(u) /\ frame[Other(th)].t # u =>
           \A q \in Renderer : Unique(u, q) => renderers'[q].stage # "live"
    BY <1>3, <2>1, <2>3
  <2> QED BY <1>0, <1>1, <1>2, <2>1, <2>2, <2>4, Window_Return DEF EntryTag
<1>5. CASE ClearSink(r) /\ frame' = [frame EXCEPT ![th].pc = IF f.h = None THEN "return" ELSE "show"]
  <2> DEFINE pc == IF f.h = None THEN "return" ELSE "show"
  <2>1. /\ frame'[th].pc = pc /\ frame'[th].t = u /\ frame'[th].r = r /\ frame'[th].h = f.h
        /\ frame'[Other(th)] = frame[Other(th)]
    <3>1. f \in Frame /\ frame' = [frame EXCEPT ![th] = [f EXCEPT !.pc = pc]]
      BY <1>1, <1>5 DEF TypeOK
    <3>2. frame'[th] = [f EXCEPT !.pc = pc] /\ frame'[Other(th)] = frame[Other(th)]
      BY <1>1, <3>1, FrameFacts DEF TypeOK
    <3> QED BY <1>0, <3>1, <3>2 DEF Frame
  <2>2. /\ renderers'[r].tag = u /\ renderers'[r].sink = None /\ renderers'[r].stage = renderers[r].stage
        /\ \A q \in Renderer \ {r} : renderers'[q] = renderers[q]
    <3>1. renderers[r] \in Rendering
      BY <1>1 DEF TypeOK
    <3>2. renderers'[r] = WithoutSink(renderers[r]) /\ \A q \in Renderer \ {r} : renderers'[q] = renderers[q]
      BY <1>1, <1>5 DEF ClearSink, TypeOK
    <3> QED BY <1>1, <3>1, <3>2, LooksOf
  <2>3. /\ pc \in Working \ {"renderer", "check"} /\ pc # "idle"
        /\ pc \notin {"register", "unregister", "renderer"}
    BY DEF Working
  <2>4. FrameTag(frame'[th])
    BY <1>1, <2>1 DEF FrameTag
  <2>5. renderers[r].stage # "none"
    BY <1>1 DEF TagInv
  <2>6. ASSUME u \in Tag \ raced, WindowAt(u), frame[Other(th)].t # u
        PROVE  /\ Decided(u)' = Decided(u)
               /\ \A q \in Renderer : Unique(u, q) => SinkFits(u, q)'
    <3>1. Decided(u)' = HandleOf(u)'
      BY <1>1, <2>1, <2>3, <2>6, Threads DEF Decided
    <3>2. ASSUME NEW q \in Renderer, Unique(u, q) PROVE SinkFits(u, q)'
      <4>0. q = r /\ f.h \in Handle \cup {None} /\ (Registered(u, q)' <=> Registered(u, q))
        BY <1>1, <1>3, <2>6, <3>2 DEF TypeOK, Frame, Registered
      <4>1. CASE th = "app"
        <5>1. MakingFits(u, q)'
          BY <1>2, <1>3, <2>1, <2>2, <2>6, <3>2, <4>0, <4>1 DEF MakingFits
        <5>2. renderers'[q].stage = "making"
          BY <1>3, <2>2, <2>6, <3>2, <4>0, <4>1
        <5> QED BY <5>1, <5>2 DEF SinkFits
      <4>2. CASE th = "main"
        <5>1. renderers'[q].stage = "live" => LiveFits(u, q)'
          BY <1>2, <1>3, <2>1, <2>2, <2>6, <3>2, <4>0, <4>2 DEF LiveFits
        <5>2. renderers'[q].stage # "making"
          BY <1>3, <2>2, <2>6, <3>2, <4>0, <4>2
        <5> QED BY <5>1, <5>2 DEF SinkFits
      <4> QED BY <1>1, <4>1, <4>2
    <3> QED BY <1>2, <2>6, <3>1, <3>2
  <2>7. \A q \in Renderer :
              /\ renderers'[q].tag = renderers[q].tag
              /\ renderers[q].tag # u =>
                    renderers'[q].stage = renderers[q].stage /\ renderers'[q].sink = renderers[q].sink
              /\ renderers'[q].stage = "none" =>
                    renderers[q].stage = "none" /\ renderers'[q].sink = renderers[q].sink
              /\ renderers'[q].stage = "making" => renderers[q].stage = "making"
    BY <1>1, <2>2, <2>5
  <2> HIDE DEF pc
  <2>8. th = "app" => frame'["app"].pc \in Working /\ frame'["app"].r = frame["app"].r
    BY <1>0, <2>1, <2>3
  <2>9. registry'[u] # None /\ registry'[u].renderer # None => renderers[registry'[u].renderer].tag = u
    BY <1>1 DEF EntryTag
  <2> QED BY <1>0, <1>1, <2>1, <2>3, <2>4, <2>6, <2>7, <2>8, <2>9, Window_Step
<1> QED BY <1>0, <1>4, <1>5 DEF NotifyClear

LEMMA Window_NotifyShow ==
    ASSUME LocalMediaInv, LocalMediaInv', WindowInv, NEW th \in Thread, NotifyShow(th)
    PROVE  WindowInv'
<1> DEFINE f == frame[th]
<1>0. PICK u \in Tag, r \in Renderer, h \in Handle : u = f.t /\ r = f.r /\ h = f.h
  <2>1. f.r \in Renderer /\ f.pc = "show" /\ f \in Frame /\ f.h \in Handle
    BY DEF LocalMediaInv, NotifyShow, FrameInv, Fits, TypeOK
  <2>2. f.t # None
    BY <2>1 DEF WindowInv, TagInv, FrameTag, Working
  <2> QED BY <2>1, <2>2 DEF Frame
<1>1. /\ TypeOK /\ TypeOK' /\ TagInv /\ f.pc = "show" /\ f.pc \in Working /\ f.pc # "idle"
      /\ UNCHANGED <<registry, mainQ, wanted, raced>> /\ Other(th) \in Thread /\ th \in {"app", "main"}
      /\ EntryTag(u) /\ u # None /\ r # None /\ renderers[r].tag = u
  <2>1. f.pc = "show" /\ UNCHANGED <<registry, mainQ, wanted, raced>>
    BY DEF NotifyShow, Misused
  <2>2. FrameTag(f)
    BY DEF WindowInv, TagInv
  <2> QED BY <1>0, <2>1, <2>2, FrameFacts, Threads, NoneAssumption
      DEF LocalMediaInv, WindowInv, TagInv, Working, FrameTag
<1>2. u \in Tag \ raced /\ frame[Other(th)].t # u => Decided(u) = HandleOf(u) /\ HandleOf(u)' = HandleOf(u)
  BY <1>0, <1>1, Threads DEF Decided, HandleOf
<1>3. ASSUME u \in Tag \ raced, WindowAt(u), frame[Other(th)].t # u, NEW q \in Renderer, Unique(u, q)
      PROVE  /\ q = r
             /\ renderers[q].stage \in {"making", "live"} => Registered(u, q) /\ f.h = HandleOf(u)
             /\ th = "app" => renderers[q].stage = "making"
             /\ th = "main" => renderers[q].stage # "making"
  <2>1. q = r /\ SinkFits(u, q)
    BY <1>1, <1>3 DEF Unique, WindowAt
  <2>2. CASE th = "app"
    <3>1. renderers[q].stage = "making"
      BY <1>0, <1>1, <2>1, <2>2, Making
    <3>2. MakingFits(u, q)
      BY <2>1, <3>1 DEF SinkFits
    <3> QED BY <1>1, <2>1, <2>2, <3>1, <3>2 DEF MakingFits
  <2>3. CASE th = "main"
    <3>1. renderers[q].stage # "making"
      BY <1>0, <1>1, <1>3, <2>1, <2>3, Making, Threads
    <3>2. renderers[q].stage = "live" => LiveFits(u, q)
      BY <2>1 DEF SinkFits
    <3> QED BY <1>0, <1>1, <2>1, <2>3, <3>1, <3>2 DEF LiveFits
  <2> QED BY <1>1, <2>2, <2>3
<1>4. CASE Dead(f.r) /\ Misused(th, "renderer")
  <2>1. Return(th) /\ renderers[r].stage \in {"dying", "gone"}
    BY <1>0, <1>4 DEF Misused, Dead
  <2>2. th # "app"
    BY <1>0, <1>1, <2>1, Making
  <2>3. \A q \in Renderer : renderers'[q].stage = renderers[q].stage
    BY <2>1, <2>2 DEF Return
  <2>4. u \in Tag \ raced /\ WindowAt(u) /\ frame[Other(th)].t # u =>
           \A q \in Renderer : Unique(u, q) => renderers'[q].stage # "live"
    BY <1>3, <2>1, <2>3
  <2> QED BY <1>0, <1>1, <1>2, <2>1, <2>2, <2>4, Window_Return DEF EntryTag
<1>5. CASE SetSink(r, h) /\ frame' = [frame EXCEPT ![th].pc = "return"]
  <2>1. /\ frame'[th].pc = "return" /\ frame'[th].t = u /\ frame'[th].r = r
        /\ frame'[Other(th)] = frame[Other(th)]
    <3>1. f \in Frame /\ frame' = [frame EXCEPT ![th] = [f EXCEPT !.pc = "return"]]
      BY <1>1, <1>5 DEF TypeOK
    <3>2. frame'[th] = [f EXCEPT !.pc = "return"] /\ frame'[Other(th)] = frame[Other(th)]
      BY <1>1, <3>1, FrameFacts DEF TypeOK
    <3> QED BY <1>0, <3>1, <3>2 DEF Frame
  <2>2. /\ renderers'[r].tag = u /\ renderers'[r].sink = h /\ renderers'[r].stage = renderers[r].stage
        /\ \A q \in Renderer \ {r} : renderers'[q] = renderers[q]
    <3>1. renderers[r] \in Rendering
      BY <1>1 DEF TypeOK
    <3> DEFINE y == MaybeStarted([renderers[r] EXCEPT !.sink = h, !.playing = FALSE])
    <3>2. renderers' = [renderers EXCEPT ![r] = y]
      BY <1>5 DEF SetSink
    <3>3. y.tag = renderers[r].tag /\ y.sink = h /\ y.stage = renderers[r].stage
      BY <3>1, LooksOf
    <3> HIDE DEF y
    <3>4. renderers'[r] = y /\ \A q \in Renderer \ {r} : renderers'[q] = renderers[q]
      BY <1>1, <3>2 DEF TypeOK
    <3> QED BY <1>1, <3>3, <3>4
  <2>3. "return" \in Working
    BY DEF Working
  <2>4. FrameTag(frame'[th])
    BY <1>1, <2>1 DEF FrameTag
  <2>5. renderers[r].stage # "none"
    BY <1>1 DEF TagInv
  <2>6. ASSUME u \in Tag \ raced, WindowAt(u), frame[Other(th)].t # u
        PROVE  /\ Decided(u)' = Decided(u)
               /\ \A q \in Renderer : Unique(u, q) => SinkFits(u, q)'
    <3>1. Decided(u)' = HandleOf(u)'
      BY <1>1, <2>1, <2>6, Threads DEF Decided
    <3>2. ASSUME NEW q \in Renderer, Unique(u, q) PROVE SinkFits(u, q)'
      <4>0. q = r /\ (Registered(u, q)' <=> Registered(u, q))
        BY <1>1, <1>3, <2>6, <3>2 DEF Registered
      <4>1. CASE th = "app"
        <5>1. MakingFits(u, q)'
          BY <1>0, <1>2, <1>3, <2>1, <2>2, <2>6, <3>2, <4>0, <4>1 DEF MakingFits
        <5>2. renderers'[q].stage = "making"
          BY <1>3, <2>2, <2>6, <3>2, <4>0, <4>1
        <5> QED BY <5>1, <5>2 DEF SinkFits
      <4>2. CASE th = "main"
        <5>1. renderers'[q].stage = "live" => LiveFits(u, q)'
          BY <1>0, <1>2, <1>3, <2>1, <2>2, <2>6, <3>2, <4>0, <4>2 DEF LiveFits
        <5>2. renderers'[q].stage # "making"
          BY <1>3, <2>2, <2>6, <3>2, <4>0, <4>2
        <5> QED BY <5>1, <5>2 DEF SinkFits
      <4> QED BY <1>1, <4>1, <4>2
    <3> QED BY <1>2, <2>6, <3>1, <3>2
  <2>7. \A q \in Renderer :
              /\ renderers'[q].tag = renderers[q].tag
              /\ renderers[q].tag # u =>
                    renderers'[q].stage = renderers[q].stage /\ renderers'[q].sink = renderers[q].sink
              /\ renderers'[q].stage = "none" =>
                    renderers[q].stage = "none" /\ renderers'[q].sink = renderers[q].sink
              /\ renderers'[q].stage = "making" => renderers[q].stage = "making"
    BY <1>1, <2>2, <2>5
  <2>8. th = "app" => frame'["app"].pc \in Working /\ frame'["app"].r = frame["app"].r
    BY <1>0, <2>1, <2>3
  <2>9. registry'[u] # None /\ registry'[u].renderer # None => renderers[registry'[u].renderer].tag = u
    BY <1>1 DEF EntryTag
  <2>10. frame'[th].pc \notin {"register", "unregister", "renderer"}
    BY <2>1
  <2> QED BY <1>0, <1>1, <2>1, <2>4, <2>6, <2>7, <2>8, <2>9, <2>10, Window_Step
<1> QED BY <1>0, <1>4, <1>5 DEF NotifyShow

LEMMA Window_NotifyReturn ==
    ASSUME LocalMediaInv, LocalMediaInv', WindowInv, NEW th \in Thread, NotifyReturn(th)
    PROVE  WindowInv'
<1> DEFINE f == frame[th]
<1>0. PICK u \in Tag, r \in Renderer : u = f.t /\ r = f.r
  <2>1. f.r \in Renderer /\ f.pc = "return" /\ f \in Frame
    BY DEF LocalMediaInv, NotifyReturn, FrameInv, Fits, TypeOK
  <2>2. f.t # None
    BY <2>1 DEF WindowInv, TagInv, FrameTag, Working
  <2> QED BY <2>1, <2>2 DEF Frame
<1>1. /\ TypeOK /\ TypeOK' /\ TagInv /\ f.pc = "return" /\ f.pc \in Working /\ f.pc # "idle"
      /\ UNCHANGED <<registry, mainQ, wanted, raced>> /\ Other(th) \in Thread /\ th \in {"app", "main"}
      /\ EntryTag(u) /\ u # None /\ r # None /\ renderers[r].tag = u /\ Return(th)
  <2>1. f.pc = "return" /\ UNCHANGED <<registry, mainQ, wanted, raced>> /\ Return(th)
    BY DEF NotifyReturn
  <2>2. FrameTag(f)
    BY DEF WindowInv, TagInv
  <2> QED BY <1>0, <2>1, <2>2, FrameFacts, Threads, NoneAssumption
      DEF LocalMediaInv, WindowInv, TagInv, Working, FrameTag
<1>2. u \in Tag \ raced /\ frame[Other(th)].t # u => Decided(u) = HandleOf(u) /\ HandleOf(u)' = HandleOf(u)
  BY <1>0, <1>1, Threads DEF Decided, HandleOf
<1>3. ASSUME u \in Tag \ raced, WindowAt(u), frame[Other(th)].t # u,
             NEW q \in Renderer, Unique(u, q), renderers'[q].stage = "live"
      PROVE  Registered(u, q)' /\ renderers[q].sink = HandleOf(u)'
  <2>1. q = r /\ SinkFits(u, q)
    BY <1>1, <1>3 DEF Unique, WindowAt
  <2>2. Registered(u, q)' <=> Registered(u, q)
    BY <1>1 DEF Registered
  <2>3. CASE th = "app"
    <3>1. renderers[q].stage = "making"
      BY <1>0, <1>1, <2>1, <2>3, Making
    <3>2. MakingFits(u, q)
      BY <2>1, <3>1 DEF SinkFits
    <3> QED BY <1>1, <1>2, <1>3, <2>1, <2>2, <2>3, <3>2 DEF MakingFits
  <2>4. CASE th = "main"
    <3>1. renderers[q].stage = "live"
      BY <1>1, <1>3, <2>4 DEF Return
    <3>2. LiveFits(u, q)
      BY <2>1, <3>1 DEF SinkFits
    <3> QED BY <1>1, <1>2, <1>3, <2>1, <2>2, <2>4, <3>2 DEF LiveFits
  <2> QED BY <1>1, <2>3, <2>4
<1> QED BY <1>0, <1>1, <1>2, <1>3, Window_Return DEF EntryTag

LEMMA Window_UnregisterRenderer ==
    ASSUME LocalMediaInv, LocalMediaInv', WindowInv, NEW th \in Thread, UnregisterRenderer(th)
    PROVE  WindowInv'
<1> DEFINE f == frame[th]
<1>0. PICK u \in Tag \cup {None}, r \in Renderer : u = f.t /\ r = f.r
  BY DEF LocalMediaInv, UnregisterRenderer, FrameInv, Fits, TypeOK, Frame
<1>1. /\ TypeOK /\ TypeOK' /\ TagInv /\ f.pc = "finalize" /\ f.pc \notin Working /\ f.pc # "idle"
      /\ UNCHANGED <<renderers, mainQ, wanted, raced>> /\ Other(th) \in Thread /\ Other(th) # th
      /\ th \in {"app", "main"}
      /\ r # None /\ renderers[r].tag = u /\ renderers[r].stage = "dying"
  <2>1. f.pc = "finalize" /\ UNCHANGED <<renderers, mainQ, wanted, raced>>
    BY DEF UnregisterRenderer
  <2>2. FrameTag(f)
    BY DEF WindowInv, TagInv
  <2> QED BY <1>0, <2>1, <2>2, FrameFacts, Threads, NoneAssumption
      DEF LocalMediaInv, WindowInv, TagInv, Working, FrameTag, StageInv, Finalizing
<1> DEFINE known == u # None /\ registry[u] # None /\ registry[u].renderer = r
<1>2. /\ registry' = IF known THEN Unregistered(u, r) ELSE registry
      /\ \E v \in {frame[Other(th)], Stale(frame[Other(th)], u)} :
            frame' = [frame EXCEPT ![th].pc = "release", ![Other(th)] = v]
  <2>1. \E b \in BOOLEAN : frame' = [frame EXCEPT ![th].pc = "release",
                                        ![Other(th)] = IF b THEN Stale(@, u) ELSE @]
    BY <1>0 DEF UnregisterRenderer
  <2>2. PICK b \in BOOLEAN : frame' = [frame EXCEPT ![th].pc = "release",
                                        ![Other(th)] = IF b THEN Stale(@, u) ELSE @]
    BY <2>1
  <2>3. registry' = IF known THEN Unregistered(u, r) ELSE registry
    BY <1>0 DEF UnregisterRenderer
  <2>4. CASE b
    BY <1>1, <2>2, <2>3, <2>4 DEF TypeOK
  <2>5. CASE ~b
    BY <1>1, <2>2, <2>3, <2>5 DEF TypeOK
  <2> QED BY <2>4, <2>5
<1>3. /\ frame'[th].pc = "release" /\ frame'[th].t = u /\ frame'[th].r = r
      /\ frame'[Other(th)] \in {frame[Other(th)], Stale(frame[Other(th)], u)}
  <2>1. PICK v \in {frame[Other(th)], Stale(frame[Other(th)], u)} :
              frame' = [frame EXCEPT ![th].pc = "release", ![Other(th)] = v]
    BY <1>2
  <2>2. f \in Frame /\ frame'[th] = [f EXCEPT !.pc = "release"] /\ frame'[Other(th)] = v
    BY <1>1, <2>1 DEF TypeOK
  <2> QED BY <1>0, <2>1, <2>2 DEF Frame
<1>4. /\ \A t \in Tag : t # u => registry'[t] = registry[t]
      /\ u \in Tag => HandleOf(u)' = HandleOf(u)
      /\ u \in Tag /\ registry'[u] # None /\ registry'[u].renderer # None =>
            renderers[registry'[u].renderer].tag = u
  <2>1. CASE ~known
    BY <1>1, <1>2, <2>1 DEF HandleOf, TagInv, EntryTag
  <2>2. CASE known /\ registry[u].handle = None
    <3>1. registry' = [registry EXCEPT ![u] = None] /\ u \in Tag
      BY <1>2, <2>2 DEF Unregistered
    <3> QED BY <1>1, <2>2, <3>1 DEF HandleOf, TypeOK
  <2>3. CASE known /\ registry[u].handle # None
    <3> DEFINE e == registry[u]
               new == [e EXCEPT !.renderer = None]
    <3>1. registry' = [registry EXCEPT ![u] = new] /\ u \in Tag /\ e \in Entry
      BY <1>1, <1>2, <2>3 DEF Unregistered, TypeOK
    <3>2. new \in Entry /\ new.handle = e.handle /\ new.renderer = None
      BY <3>1, EntryFacts
    <3>3. new # None
      BY <3>2, EntryFacts
    <3> HIDE DEF new
    <3>4. registry'[u] = new /\ \A t \in Tag : t # u => registry'[t] = registry[t]
      BY <1>1, <3>1 DEF TypeOK
    <3> QED BY <2>3, <3>1, <3>2, <3>3, <3>4 DEF HandleOf
  <2> QED BY <2>1, <2>2, <2>3
<1>5. FrameTag(frame'[th])
  BY <1>1, <1>3 DEF FrameTag, Working
<1>6. ASSUME u \in Tag \ raced, WindowAt(u), frame[Other(th)].t # u,
             frame'[Other(th)] = frame[Other(th)]
      PROVE  /\ Decided(u)' = Decided(u)
             /\ \A q \in Renderer : Unique(u, q) => SinkFits(u, q)'
  <2>1. frame["main"].t # u \/ frame["main"].pc = "finalize"
    BY <1>0, <1>1, <1>6, Threads
  <2>2. frame'["main"].t # u \/ frame'["main"].pc = "release"
    BY <1>1, <1>3, <1>6, Threads
  <2>3. Decided(u)' = HandleOf(u)' /\ Decided(u) = HandleOf(u)
    BY <2>1, <2>2 DEF Decided
  <2>4. \A q \in Renderer : Unique(u, q) => renderers'[q].stage = "dying"
    BY <1>1 DEF Unique
  <2> QED BY <1>4, <1>6, <2>3, <2>4 DEF SinkFits
<1>7. \A q \in Renderer : renderers'[q] = renderers[q]
  BY <1>1
<1>8. frame'[th].pc \notin {"register", "unregister", "renderer"}
  BY <1>3
<1>9. ASSUME th = "app" PROVE /\ frame'["app"].pc \notin Working
                              /\ \A q \in Renderer : renderers'[q].stage # "making"
  <2>1. frame["app"].pc \notin Working
    BY <1>1, <1>9
  <2> QED BY <1>1, <1>3, <1>9, <2>1, Making DEF Working
<1> QED BY <1>0, <1>1, <1>3, <1>4, <1>5, <1>6, <1>7, <1>8, <1>9, Window_Step

LEMMA Window_Finalize ==
    ASSUME LocalMediaInv, LocalMediaInv', WindowInv, NEW th \in Thread, Finalize(th)
    PROVE  WindowInv'
<1> DEFINE f == frame[th]
<1>0. PICK u \in Tag \cup {None}, r \in Renderer : u = f.t /\ r = f.r
  BY DEF LocalMediaInv, Finalize, FrameInv, Fits, TypeOK, Frame
<1>1. /\ TypeOK /\ TypeOK' /\ TagInv /\ f.pc = "release" /\ f.pc \notin Working /\ f.pc # "idle"
      /\ UNCHANGED <<registry, mainQ, wanted, raced>> /\ Other(th) \in Thread /\ Other(th) # th
      /\ th \in {"app", "main"}
      /\ r # None /\ renderers[r].tag = u /\ frame' = [frame EXCEPT ![th] = Idle]
  <2>1. f.pc = "release" /\ UNCHANGED <<registry, mainQ, wanted, raced>>
        /\ frame' = [frame EXCEPT ![th] = Idle]
    BY DEF Finalize
  <2>2. FrameTag(f)
    BY DEF WindowInv, TagInv
  <2> QED BY <1>0, <2>1, <2>2, FrameFacts, Threads, NoneAssumption
      DEF LocalMediaInv, WindowInv, TagInv, Working, FrameTag
<1>2. frame'[th] = Idle /\ frame'[Other(th)] = frame[Other(th)] /\ FrameTag(frame'[th])
      /\ frame'[th].t = None /\ frame'[th].pc = "idle"
  BY <1>1, IdleTag DEF TypeOK
<1>3. /\ renderers'[r].stage = "gone" /\ renderers'[r].tag = u
      /\ \A q \in Renderer \ {r} : renderers'[q] = renderers[q]
  <2>1. renderers' = [renderers EXCEPT ![r] =
             [@ EXCEPT !.stage = "gone", !.source = None, !.branch = FALSE,
                       !.sink = None, !.playing = FALSE]]
    BY <1>0 DEF Finalize
  <2>2. /\ renderers[r] \in Rendering
        /\ renderers'[r] = [renderers[r] EXCEPT !.stage = "gone", !.source = None, !.branch = FALSE,
                       !.sink = None, !.playing = FALSE]
    BY <1>1, <2>1 DEF TypeOK
  <2>3. \A q \in Renderer \ {r} : renderers'[q] = renderers[q]
    BY <1>1, <2>1 DEF TypeOK
  <2> QED BY <1>1, <2>2, <2>3 DEF Rendering
<1>4. ASSUME u \in Tag \ raced, WindowAt(u), frame[Other(th)].t # u,
             frame'[Other(th)] = frame[Other(th)]
      PROVE  /\ Decided(u)' = Decided(u)
             /\ \A q \in Renderer : Unique(u, q) => SinkFits(u, q)'
  <2>1. frame["main"].t # u \/ frame["main"].pc = "release"
    BY <1>0, <1>1, <1>4, Threads
  <2>2. frame'["main"].t # u
    BY <1>1, <1>2, <1>4, Threads, NoneAssumption
  <2>3. Decided(u)' = HandleOf(u)' /\ Decided(u) = HandleOf(u) /\ HandleOf(u)' = HandleOf(u)
    BY <1>1, <2>1, <2>2 DEF Decided, HandleOf
  <2>4. \A q \in Renderer : Unique(u, q) => renderers'[q].stage = "gone"
    BY <1>1, <1>3 DEF Unique
  <2> QED BY <1>4, <2>3, <2>4 DEF SinkFits
<1>5. \A q \in Renderer :
              /\ renderers'[q].tag = renderers[q].tag
              /\ renderers[q].tag # u =>
                    renderers'[q].stage = renderers[q].stage /\ renderers'[q].sink = renderers[q].sink
              /\ renderers'[q].stage = "none" =>
                    renderers[q].stage = "none" /\ renderers'[q].sink = renderers[q].sink
              /\ renderers'[q].stage = "making" => renderers[q].stage = "making"
  BY <1>1, <1>3
<1>6. ASSUME th = "app" PROVE /\ frame'["app"].pc \notin Working
                              /\ \A q \in Renderer : renderers'[q].stage # "making"
  <2>1. frame["app"].pc \notin Working
    BY <1>1, <1>6
  <2> QED BY <1>2, <1>5, <1>6, <2>1, Making DEF Working
<1>7. u \in Tag /\ registry'[u] # None /\ registry'[u].renderer # None =>
            renderers[registry'[u].renderer].tag = u
  BY <1>1 DEF TagInv, EntryTag
<1>8. frame'[th].pc \notin {"register", "unregister", "renderer"}
  BY <1>2
<1> QED BY <1>0, <1>1, <1>2, <1>4, <1>5, <1>6, <1>7, <1>8, Window_Step

LEMMA InitWindow == Init => WindowInv
<1> SUFFICES ASSUME Init PROVE WindowInv
  OBVIOUS
<1>1. /\ \A th \in Thread : frame[th] = Idle
      /\ \A t \in Tag : registry[t] = None /\ wanted[t] = None
      /\ \A r \in Renderer : /\ renderers[r].stage = "none" /\ renderers[r].tag = None
                             /\ renderers[r].sink = None
      /\ mainQ = <<>>
  BY DEF Init
<1>2. TagInv
  BY <1>1, IdleTag DEF TagInv, EntryTag
<1>3. ASSUME NEW t \in Tag PROVE WindowAt(t)
  <2>1. t # None /\ Decided(t) = None
    BY <1>1, Threads, IdleTag, NoneAssumption DEF Decided, HandleOf
  <2>2. Alone(t) /\ LooksRight(t)
    BY <1>1, <2>1, Threads, IdleTag DEF Alone, LooksRight
  <2>3. Leads([i \in 1..1 |-> None], mainQ, t, Decided(t), wanted[t])
    BY <1>1, <2>1 DEF Leads
  <2>4. Outcome(t)
    BY <2>3 DEF Outcome
  <2>5. \A r \in Renderer : ~Unique(t, r)
    BY <1>1, <2>1 DEF Unique
  <2> QED BY <2>2, <2>4, <2>5 DEF WindowAt
<1> QED BY <1>2, <1>3 DEF WindowInv

LEMMA NextWindow == LocalMediaInv /\ LocalMediaInv' /\ WindowInv /\ [Next]_vars => WindowInv'
<1> SUFFICES ASSUME LocalMediaInv, LocalMediaInv', WindowInv, [Next]_vars PROVE WindowInv'
  OBVIOUS
<1>1. CASE App
  BY <1>1, Window_App
<1>2. CASE RunTask
  BY <1>2, Window_RunTask
<1>3. ASSUME NEW th \in Thread, Continue(th) PROVE WindowInv'
  BY <1>3, Window_DoRegister, Window_DoUnregister, Window_RegisterRenderer, Window_CheckHandle,
     Window_NotifyClear, Window_NotifyShow, Window_NotifyReturn, Window_UnregisterRenderer,
     Window_Finalize DEF Continue
<1>4. ASSUME NEW s \in Source, ProbeIdle(s) PROVE WindowInv'
  BY <1>4, Window_ProbeIdle
<1>5. CASE UNCHANGED vars
  <2>1. \A t \in Tag : Outcome(t) /\ Decided(t)' = Decided(t) => Outcome(t)'
    BY <1>5, OutcomeSame DEF vars
  <2> QED BY <1>5, <2>1, Window_Still DEF vars
<1> QED BY <1>1, <1>2, <1>3, <1>4, <1>5 DEF Next

\* However many windows, renderers and tags there are and whatever order they are
\* registered, made, taken back and dropped in: once nothing is left to do, the renderer
\* of a tag that the threads worked on one at a time draws into the window wanted for it
\* (owr_window_registry.c do_register, do_unregister,
\* _owr_window_registry_register_renderer; owr_video_renderer.c notify_tag_changed).
THEOREM WindowReachesAlways == Spec => []WindowReaches
<1>1. Spec => []WindowInv
  BY AlwaysInv, InitWindow, NextWindow, PTL DEF Spec
<1>2. LocalMediaInv /\ WindowInv => WindowReaches
  <2> SUFFICES ASSUME LocalMediaInv, WindowInv, Quiet, NEW t \in Tag \ raced, NEW r \in Renderer,
                      renderers[r].stage = "live", renderers[r].tag = t,
                      \A q \in Renderer \ {r} : renderers[q].tag # t
               PROVE  renderers[r].sink = wanted[t]
    BY DEF WindowReaches, WindowFound
  <2>1. WindowAt(t) /\ Unique(t, r) /\ mainQ = <<>> /\ frame["main"] = Idle /\ t # None
    BY Threads, NoneAssumption DEF WindowInv, Unique, Quiet
  <2>2. Decided(t) = HandleOf(t)
    BY <2>1, IdleTag DEF Decided
  <2>3. PICK w : Leads(w, mainQ, t, Decided(t), wanted[t])
    BY <2>1 DEF WindowAt, Outcome
  <2>4. wanted[t] = HandleOf(t)
    <3>1. Len(mainQ) = 0
      BY <2>1
    <3> QED BY <2>2, <2>3, <3>1 DEF Leads
  <2>5. LiveFits(t, r)
    BY <2>1 DEF WindowAt, SinkFits
  <2> QED BY <2>1, <2>4, <2>5, IdleTag DEF LiveFits
<1> QED BY <1>1, <1>2, AlwaysInv, PTL
=============================================================================
