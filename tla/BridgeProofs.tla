------------------------------ MODULE BridgeProofs ------------------------------
(***************************************************************************)
(* Proofs about Bridge for any pages and any bounds.                       *)
(*                                                                         *)
(* A call of getUserMedia is in one of five places on its way: the page's  *)
(* outbox, the socket, the lookup of sources, the consent queue, and the   *)
(* socket back.  PlacesInv says that it is in one of them at most, once,   *)
(* and only while its promise is pending.  ConsentInv says what is in      *)
(* front of the user, VerdictInv what has been decided about whom: a       *)
(* verdict belongs to a request that has reached the queue, and the answer *)
(* on its way back agrees with it.  WorkerInv says that the worker runs   *)
(* controllers for connected pages only, and each one under a reference    *)
(* by which the closing of the socket stops it.                            *)
(***************************************************************************)
EXTENDS Bridge, SequenceTheorems, FiniteSetTheorems, TLAPS

-------------------------------------------------------------------------------
(* Members of sequences *)

\* A sequence holds a member of a set; it holds one such member at most.
Holds(s, T) == \E i \in DOMAIN s : s[i] \in T
OnceIn(s, T) == \A i, j \in DOMAIN s : s[i] \in T /\ s[j] \in T => i = j

LEMMA EmptyHolds == ASSUME NEW T PROVE ~Holds(<<>>, T) /\ OnceIn(<<>>, T)
  BY DEF Holds, OnceIn

LEMMA AppendHolds ==
    ASSUME NEW S, NEW s \in Seq(S), NEW e \in S, NEW T
    PROVE  /\ Holds(Append(s, e), T) <=> Holds(s, T) \/ e \in T
           /\ OnceIn(Append(s, e), T) <=> OnceIn(s, T) /\ ~(e \in T /\ Holds(s, T))
<1> DEFINE l == Append(s, e)
<1>1. /\ Len(s) \in Nat /\ DOMAIN s = 1..Len(s)
      /\ DOMAIN l = 1..Len(s) + 1 /\ l[Len(s) + 1] = e
      /\ \A i \in 1..Len(s) : l[i] = s[i]
  OBVIOUS
<1> HIDE DEF l
<1>2. Holds(l, T) <=> Holds(s, T) \/ e \in T
  BY <1>1 DEF Holds
<1>3. OnceIn(l, T) => OnceIn(s, T) /\ ~(e \in T /\ Holds(s, T))
  BY <1>1 DEF OnceIn, Holds
<1>4. OnceIn(s, T) /\ ~(e \in T /\ Holds(s, T)) => OnceIn(l, T)
  BY <1>1 DEF OnceIn, Holds
<1> QED BY <1>2, <1>3, <1>4 DEF l

LEMMA TailHolds ==
    ASSUME NEW S, NEW s \in Seq(S), s # <<>>, NEW T
    PROVE  /\ Holds(Tail(s), T) => Holds(s, T)
           /\ Head(s) \in T => Holds(s, T)
           /\ Head(s) \notin T => (Holds(s, T) <=> Holds(Tail(s), T))
           /\ OnceIn(s, T) => OnceIn(Tail(s), T)
           /\ OnceIn(s, T) /\ Head(s) \in T => ~Holds(Tail(s), T)
<1> DEFINE l == Tail(s)
<1>1. /\ Len(s) \in Nat \ {0} /\ DOMAIN s = 1..Len(s)
      /\ DOMAIN l = 1..Len(s) - 1 /\ Head(s) = s[1]
      /\ \A i \in 1..Len(s) - 1 : l[i] = s[i + 1]
  OBVIOUS
<1> HIDE DEF l
<1>2. Holds(l, T) => Holds(s, T)
  BY <1>1 DEF Holds
<1>3. Head(s) \in T => Holds(s, T)
  BY <1>1 DEF Holds
<1>4. ASSUME Head(s) \notin T, Holds(s, T) PROVE Holds(l, T)
  <2>1. PICK i \in 1..Len(s) : s[i] \in T /\ i # 1
    BY <1>1, <1>4 DEF Holds
  <2>2. i - 1 \in DOMAIN l /\ l[i - 1] = s[i]
    BY <1>1, <2>1
  <2> QED BY <2>1, <2>2 DEF Holds
<1>5. OnceIn(s, T) => OnceIn(l, T)
  BY <1>1 DEF OnceIn
<1>6. OnceIn(s, T) /\ Head(s) \in T => ~Holds(l, T)
  BY <1>1 DEF OnceIn, Holds
<1> QED BY <1>2, <1>3, <1>4, <1>5, <1>6 DEF l

\* What is held once at most is counted so.
LEMMA CountOnce ==
    ASSUME NEW S, NEW s \in Seq(S), NEW T, OnceIn(s, T)
    PROVE  Cardinality({i \in DOMAIN s : s[i] \in T}) = IF Holds(s, T) THEN 1 ELSE 0
<1>1. CASE Holds(s, T)
  <2>1. PICK i \in DOMAIN s : s[i] \in T
    BY <1>1 DEF Holds
  <2>2. {j \in DOMAIN s : s[j] \in T} = {i}
    BY <2>1 DEF OnceIn
  <2> QED BY <1>1, <2>2, FS_Singleton
<1>2. CASE ~Holds(s, T)
  <2>1. {j \in DOMAIN s : s[j] \in T} = {}
    BY <1>2 DEF Holds
  <2> QED BY <1>2, <2>1, FS_EmptySet
<1> QED BY <1>1, <1>2

-------------------------------------------------------------------------------
(* The places of a request *)

Asks(n) == {[call |-> "requestSources", n |-> n]}
Answers(n) == {msg \in Messages : msg.call \in {"gotSources", "noSources"} /\ msg.n = n}
Req(p, n) == [page |-> p, n |-> n]

InOutbox(p, n) == Holds(outbox[p], Asks(n))
InUp(p, n)     == Holds(up[p], Asks(n))
InCapture(p, n) == Req(p, n) \in capturing
InQueue(p, n)  == Holds(queue, {Req(p, n)})
InDown(p, n)   == Holds(down[p], Answers(n))

\* The request is nowhere, or in one place, and there once.
InOnePlace(p, n) ==
    /\ OnceIn(outbox[p], Asks(n)) /\ OnceIn(up[p], Asks(n))
    /\ OnceIn(queue, {Req(p, n)}) /\ OnceIn(down[p], Answers(n))
    /\ InOutbox(p, n) => ~InUp(p, n)
    /\ InCapture(p, n) => ~InOutbox(p, n) /\ ~InUp(p, n)
    /\ InQueue(p, n) => ~InOutbox(p, n) /\ ~InUp(p, n) /\ ~InCapture(p, n)
    /\ InDown(p, n) => ~InOutbox(p, n) /\ ~InUp(p, n) /\ ~InCapture(p, n) /\ ~InQueue(p, n)

InSomePlace(p, n) ==
    InOutbox(p, n) \/ InUp(p, n) \/ InCapture(p, n) \/ InQueue(p, n) \/ InDown(p, n)

\* A request is in one place at most, there once, and only while it is pending; nothing
\* is on its way on a socket that is not open yet.
PlacesInv ==
    /\ \A p \in Pages : frame[p] \notin {"open", "gone"} => up[p] = <<>> /\ down[p] = <<>>
    /\ \A p \in Pages, n \in 1..MaxRequests :
          InOnePlace(p, n) /\ (InSomePlace(p, n) => promise[p][n] = "pending")

\* What waits for the user, or comes from there, is about the head of the queue.
ConsentInv ==
    /\ ~Consent => asked = <<>> /\ verdicts = <<>>
    /\ Len(asked) + Len(verdicts) <= 1
    /\ ext = "live" => Len(asked) + Len(verdicts) = IF queue = <<>> THEN 0 ELSE 1
    /\ asked # <<>> => queue # <<>> /\ Head(asked) = Head(queue)
    /\ verdicts # <<>> => /\ queue # <<>> /\ Head(verdicts).req = Head(queue)
                          /\ verdict[Head(queue)] = Head(verdicts).name

\* The answers that contradict a verdict.
Denies(n, v) ==
    {msg \in Answers(n) : msg.call = IF v = "accept" THEN "noSources" ELSE "gotSources"}

\* A verdict is about a request that has reached the queue, its answer agrees with it,
\* and so does the state of its promise.
Agrees(p, n) ==
    LET v == verdict[Req(p, n)] IN
    v # "none" =>
        /\ ~InOutbox(p, n) /\ ~InUp(p, n) /\ ~InCapture(p, n)
        /\ promise[p][n] # "none"
        /\ ~Holds(down[p], Denies(n, v))
        /\ promise[p][n] # (IF v = "accept" THEN "rejected" ELSE "resolved")
VerdictInv == \A p \in Pages, n \in 1..MaxRequests : Agrees(p, n)

\* The worker runs what it can name, and nothing for a page that is not connected; a page
\* is connected once its frame is.
WorkerInv ==
    \A p \in Pages : /\ running[p] \subseteq referenced[p]
                     /\ session[p] \in {"none", "closed"} => running[p] = {}
                     /\ frame[p] \notin {"open", "gone"} => session[p] = "none"

-------------------------------------------------------------------------------
(* Types *)

\* The variables of a group keep their types when they keep their values.
FrameTypeOK ==
    /\ frame \in [Pages -> {"loading", "idle", "connecting", "open", "gone"}]
    /\ outbox \in [Pages -> Seq(Calls)] /\ up \in [Pages -> Seq(Calls)]
    /\ \A p \in Pages : outbox[p] # <<>> => frame[p] \notin {"open", "gone"}
ScriptTypeOK ==
    /\ promise \in [Pages -> [1..MaxRequests -> {"none", "pending", "resolved", "rejected"}]]
    /\ refs \in [Pages -> SUBSET (1..MaxRequests)]
    /\ callbacks \in [Pages -> SUBSET Shows]
    /\ source \in [Pages -> Refs \cup {None}]
    /\ shown \in [Pages -> Refs \cup {None}]
    /\ shows \in [Pages -> Nat] /\ \A p \in Pages : shows[p] <= MaxShows[p]
WorkTypeOK ==
    /\ session \in [Pages -> {"none", "live", "deaf", "closing", "closed"}]
    /\ referenced \in [Pages -> SUBSET Refs]
    /\ running \in [Pages -> SUBSET Refs]
    /\ capturing \subseteq Requests
ExtTypeOK ==
    /\ ext \in {"none", "live", "deaf", "closed"}
    /\ queue \in Seq(Requests) /\ asked \in Seq(Requests)
    /\ verdicts \in Seq([req : Requests, name : {"accept", "reject"}])
    /\ (~Consent) => (queue = <<>>)
    /\ verdict \in [Requests -> {"none", "accept", "reject"}]
    /\ closes \in 0..MaxCloses

DownTypeOK == down \in [Pages -> Seq(Messages)]
RestartsTypeOK == restarts \in 0..MaxRestarts

LEMMA Groups ==
    TypeOK <=> FrameTypeOK /\ ScriptTypeOK /\ DownTypeOK /\ WorkTypeOK /\ ExtTypeOK
               /\ RestartsTypeOK
  BY DEF TypeOK, FrameTypeOK, ScriptTypeOK, DownTypeOK, WorkTypeOK, ExtTypeOK, RestartsTypeOK

LEMMA GroupsNext ==
    TypeOK' <=> FrameTypeOK' /\ ScriptTypeOK' /\ DownTypeOK' /\ WorkTypeOK' /\ ExtTypeOK'
                /\ RestartsTypeOK'
  BY DEF TypeOK, FrameTypeOK, ScriptTypeOK, DownTypeOK, WorkTypeOK, ExtTypeOK, RestartsTypeOK

LEMMA GroupsSame ==
    /\ FrameTypeOK /\ UNCHANGED <<frame, outbox, up>> => FrameTypeOK'
    /\ ScriptTypeOK /\ UNCHANGED <<promise, refs, callbacks, source, shown, shows>> => ScriptTypeOK'
    /\ DownTypeOK /\ UNCHANGED down => DownTypeOK'
    /\ WorkTypeOK /\ UNCHANGED workVars => WorkTypeOK'
    /\ ExtTypeOK /\ UNCHANGED extVars => ExtTypeOK'
    /\ RestartsTypeOK /\ UNCHANGED restarts => RestartsTypeOK'
  BY DEF FrameTypeOK, ScriptTypeOK, DownTypeOK, WorkTypeOK, ExtTypeOK, RestartsTypeOK,
     workVars, extVars, Consent

LEMMA RefTypes ==
    ASSUME RestartsTypeOK, NEW kind \in {"source", "controller"},
           NEW n \in (1..MaxRequests) \cup Shows
    PROVE  ObjectRef(kind, n) \in Refs /\ ObjectRef(kind, n) # None
  BY DEF ObjectRef, Refs, None, RestartsTypeOK

\* The fields of the messages a page sends, and of those it receives.
LEMMA CallFields ==
    ASSUME NEW msg \in Calls
    PROVE  /\ msg.call \in {"requestSources", "renderSources", "stop"}
           /\ msg.call = "requestSources" => /\ msg.n \in 1..MaxRequests
                                             /\ msg \in Asks(msg.n)
           /\ msg.call = "renderSources" => /\ msg.n \in Shows /\ msg.source \in Refs
                                            /\ \A n \in 1..MaxRequests : msg \notin Asks(n)
           /\ msg.call = "stop" => /\ msg.target \in Refs
                                   /\ \A n \in 1..MaxRequests : msg \notin Asks(n)
  BY DEF Calls, Asks

LEMMA MessageFields ==
    ASSUME NEW msg \in Messages
    PROVE  /\ msg.call \in {"gotSources", "noSources", "result", "error"}
           /\ msg.call = "gotSources" => msg.n \in 1..MaxRequests /\ msg.source \in Refs
           /\ msg.call = "noSources" => msg.n \in 1..MaxRequests
           /\ msg.call = "result" => msg.n \in Shows /\ msg.controller \in Refs
           /\ msg.call = "error" => msg.n \in Shows
  BY DEF Messages

LEMMA SendType ==
    ASSUME DownTypeOK, NEW p \in Pages, NEW msg \in Messages, Send(p, msg)
    PROVE  DownTypeOK'
  BY DEF DownTypeOK, Send

\* Only a page that has not left posts.
LEMMA PostType ==
    ASSUME FrameTypeOK, NEW p \in Pages, frame[p] # "gone", NEW msgs \in Seq(Calls), Post(p, msgs)
    PROVE  FrameTypeOK'
<1>1. CASE frame[p] = "open"
  BY <1>1 DEF Post, FrameTypeOK
<1>2. CASE frame[p] # "open"
  <2>1. outbox[p] \o msgs \in Seq(Calls)
    BY DEF FrameTypeOK
  <2> QED BY <1>2, <2>1 DEF Post, FrameTypeOK
<1> QED BY <1>1, <1>2

LEMMA StopType ==
    ASSUME NEW ref \in Refs \cup {None}
    PROVE  StopCall(ref) \in Seq(Calls)
<1>1. ref \in Refs => [call |-> "stop", target |-> ref] \in Calls
  BY DEF Calls
<1> QED BY <1>1 DEF StopCall

LEMMA TypeOK_Init == Init => TypeOK
<1> SUFFICES ASSUME Init PROVE TypeOK
  OBVIOUS
<1> USE DEF Init
<1>1. FrameTypeOK
  BY DEF FrameTypeOK
<1>2. ScriptTypeOK
  BY BoundsAssumption DEF ScriptTypeOK
<1>3. DownTypeOK
  BY DEF DownTypeOK
<1>4. WorkTypeOK
  BY DEF WorkTypeOK
<1>5. ExtTypeOK
  BY BoundsAssumption DEF ExtTypeOK
<1>6. RestartsTypeOK
  BY BoundsAssumption DEF RestartsTypeOK
<1> QED BY <1>1, <1>2, <1>3, <1>4, <1>5, <1>6, Groups

\* The steps of a page.
LEMMA TypeOK_Page ==
    ASSUME TypeOK, NEW p \in Pages, PageStep(p)
    PROVE  TypeOK'
<1> USE Groups
<1>1. ASSUME FrameLoaded(p) PROVE TypeOK'
  <2>1. FrameTypeOK'
    BY <1>1 DEF FrameLoaded, FrameTypeOK
  <2> QED BY <1>1, <2>1, GroupsSame, GroupsNext DEF FrameLoaded
<1>2. ASSUME Accept(p) PROVE TypeOK'
  <2>1. up[p] \o outbox[p] \in Seq(Calls)
    BY DEF FrameTypeOK
  <2>2. FrameTypeOK'
    BY <1>2, <2>1 DEF Accept, FrameTypeOK
  <2>3. WorkTypeOK'
    BY <1>2 DEF Accept, WorkTypeOK
  <2> QED BY <1>2, <2>2, <2>3, GroupsSame, GroupsNext DEF Accept
<1>3. ASSUME PageMessage(p) PROVE TypeOK'
  <2> DEFINE msg == Head(down[p])
  <2>1. msg \in Messages /\ Tail(down[p]) \in Seq(Messages)
    BY <1>3 DEF PageMessage, DownTypeOK
  <2>2. DownTypeOK'
    BY <1>3, <2>1 DEF PageMessage, DownTypeOK
  <2>3. shows' = shows /\ frame[p] # "gone"
    BY <1>3 DEF PageMessage
  <2>4. CASE msg.call = "gotSources" /\ GotSources(p, msg)
    <3>1. msg.n \in 1..MaxRequests /\ msg.source \in Refs
      BY <2>1, <2>4, MessageFields
    <3>2. /\ promise' = promise \/ promise' = [promise EXCEPT ![p][msg.n] = "resolved"]
          /\ source' = source \/ source' = [source EXCEPT ![p] = msg.source]
          /\ refs' = refs \/ refs' = [refs EXCEPT ![p] = @ \ {msg.n}]
          /\ UNCHANGED <<callbacks, shown, shows>>
      <4>1. promise[p][msg.n] # "pending" => [promise EXCEPT ![p][msg.n] = @] = promise
        BY DEF ScriptTypeOK
      <4> QED BY <2>3, <2>4, <4>1 DEF GotSources
    <3>3. ScriptTypeOK'
      <4> HIDE DEF msg
      <4>1. PICK n \in 1..MaxRequests, ref \in Refs : n = msg.n /\ ref = msg.source
        BY <3>1
      <4>5. /\ promise' = promise \/ promise' = [promise EXCEPT ![p][n] = "resolved"]
            /\ source' = source \/ source' = [source EXCEPT ![p] = ref]
            /\ refs' = refs \/ refs' = [refs EXCEPT ![p] = @ \ {n}]
        BY <3>2, <4>1
      <4>2. promise' \in [Pages -> [1..MaxRequests -> {"none", "pending", "resolved", "rejected"}]]
        <5>1. CASE promise' = [promise EXCEPT ![p][n] = "resolved"]
          BY <5>1 DEF ScriptTypeOK
        <5> QED BY <4>5, <5>1 DEF ScriptTypeOK
      <4>3. source' \in [Pages -> Refs \cup {None}]
        BY <4>5 DEF ScriptTypeOK
      <4>4. refs' \in [Pages -> SUBSET (1..MaxRequests)]
        <5>1. CASE refs' = [refs EXCEPT ![p] = @ \ {n}]
          BY <5>1 DEF ScriptTypeOK
        <5> QED BY <4>5, <5>1 DEF ScriptTypeOK
      <4> QED BY <3>2, <4>2, <4>3, <4>4 DEF ScriptTypeOK
    <3> QED BY <1>3, <2>2, <2>4, <3>3, GroupsSame, GroupsNext DEF PageMessage, GotSources, msg
  <2>5. CASE msg.call = "noSources" /\ NoSources(p, msg)
    <3>1. ScriptTypeOK'
      BY <2>1, <2>3, <2>5, MessageFields DEF NoSources, ScriptTypeOK
    <3> QED BY <1>3, <2>2, <2>5, <3>1, GroupsSame, GroupsNext DEF PageMessage, NoSources
  <2>6. CASE msg.call = "result" /\ Rendered(p, msg)
    <3>1. ScriptTypeOK'
      BY <2>1, <2>3, <2>6, MessageFields DEF Rendered, ScriptTypeOK
    <3>2. StopCall(shown[p]) \in Seq(Calls)
      BY StopType DEF ScriptTypeOK
    <3>3. FrameTypeOK'
      <4>1. CASE Post(p, StopCall(shown[p]))
        BY <2>3, <3>2, <4>1, PostType
      <4>2. CASE UNCHANGED <<callbacks, shown, up, outbox, frame>>
        BY <4>2, GroupsSame
      <4> QED BY <2>6, <4>1, <4>2 DEF Rendered
    <3> QED BY <1>3, <2>2, <3>1, <3>3, GroupsSame, GroupsNext DEF PageMessage
  <2>7. CASE msg.call = "error" /\ RemoteError(p, msg)
    BY <1>3, <2>2, <2>7, GroupsSame, GroupsNext DEF PageMessage, RemoteError
  <2> QED BY <1>3, <2>4, <2>5, <2>6, <2>7 DEF PageMessage
<1>4. ASSUME GetUserMedia(p) PROVE TypeOK'
  <2>1. PICK n \in 1..MaxRequests :
            /\ ~Left(p)
            /\ promise' = [promise EXCEPT ![p][n] = "pending"]
            /\ refs' = [refs EXCEPT ![p] = @ \cup {n}]
            /\ Post(p, <<[call |-> "requestSources", n |-> n]>>)
            /\ UNCHANGED <<callbacks, source, shown, shows, down, workVars, extVars, restarts>>
    BY <1>4 DEF GetUserMedia
  <2>2. <<[call |-> "requestSources", n |-> n]>> \in Seq(Calls)
    BY DEF Calls
  <2>3. FrameTypeOK'
    BY <2>1, <2>2, PostType DEF Left
  <2>4. ScriptTypeOK'
    BY <2>1 DEF ScriptTypeOK
  <2> QED BY <2>1, <2>3, <2>4, GroupsSame, GroupsNext
<1>5. ASSUME Show(p) PROVE TypeOK'
  <2>0. MaxShows[p] \in Nat /\ shows[p] \in Nat /\ shows[p] < MaxShows[p]
    BY <1>5, BoundsAssumption DEF Show, ScriptTypeOK
  <2>1. shows[p] + 1 \in Shows /\ source[p] \in Refs
    <3>1. shows[p] + 1 \in 1..MaxShows[p]
      BY <2>0
    <3>2. source[p] \in Refs
      BY <1>5 DEF Show, ScriptTypeOK
    <3> QED BY <3>1, <3>2 DEF Shows
  <2>2. <<[call |-> "renderSources", source |-> source[p], n |-> shows[p] + 1]>> \in Seq(Calls)
    BY <2>1 DEF Calls
  <2>3. FrameTypeOK'
    BY <1>5, <2>2, PostType DEF Show, Left
  <2>4. ScriptTypeOK'
    <3>1. callbacks' \in [Pages -> SUBSET Shows]
      BY <1>5, <2>1 DEF Show, ScriptTypeOK
    <3>2. shows' \in [Pages -> Nat] /\ \A q \in Pages : shows'[q] <= MaxShows[q]
      BY <1>5, <2>0, BoundsAssumption DEF Show, ScriptTypeOK
    <3> QED BY <1>5, <3>1, <3>2 DEF Show, ScriptTypeOK
  <2> QED BY <1>5, <2>3, <2>4, GroupsSame, GroupsNext DEF Show
<1>6. ASSUME StopShown(p) PROVE TypeOK'
  <2>1. StopCall(shown[p]) \in Seq(Calls)
    BY StopType DEF ScriptTypeOK
  <2>2. FrameTypeOK'
    BY <1>6, <2>1, PostType DEF StopShown, Left
  <2>3. ScriptTypeOK'
    BY <1>6 DEF StopShown, ScriptTypeOK
  <2> QED BY <1>6, <2>2, <2>3, GroupsSame, GroupsNext DEF StopShown
<1>7. ASSUME LeavePage(p) PROVE TypeOK'
  <2>1. FrameTypeOK'
    BY <1>7 DEF LeavePage, FrameTypeOK
  <2>2. DownTypeOK'
    BY <1>7 DEF LeavePage, DownTypeOK
  <2> QED BY <1>7, <2>1, <2>2, GroupsSame, GroupsNext DEF LeavePage
<1> QED BY <1>1, <1>2, <1>3, <1>4, <1>5, <1>6, <1>7 DEF PageStep

\* The steps of the worker for a page.
LEMMA TypeOK_Worker ==
    ASSUME TypeOK, NEW p \in Pages, WorkerStep(p)
    PROVE  TypeOK'
<1> USE Groups
<1>1. ASSUME WorkerMessage(p) PROVE TypeOK'
  <2> DEFINE msg == Head(up[p])
  <2>1. msg \in Calls /\ Tail(up[p]) \in Seq(Calls)
    BY <1>1 DEF WorkerMessage, Receives, FrameTypeOK
  <2>2. FrameTypeOK'
    BY <1>1, <2>1 DEF WorkerMessage, pageVars, FrameTypeOK
  <2>3. CASE msg.call = "requestSources" /\ RequestSources(p, msg)
    <3>1. WorkTypeOK'
      BY <2>1, <2>3, CallFields DEF RequestSources, WorkTypeOK, Requests
    <3> QED BY <1>1, <2>2, <2>3, <3>1, GroupsSame, GroupsNext
            DEF WorkerMessage, RequestSources, pageVars
  <2>4. CASE msg.call = "renderSources" /\ RenderSources(p, msg)
    <3> DEFINE ref == ObjectRef("controller", msg.n)
    <3>1. msg.n \in Shows /\ ref \in Refs
      BY <2>1, <2>4, CallFields, RefTypes
    <3>2. /\ [call |-> "result", n |-> msg.n, controller |-> ref] \in Messages
          /\ [call |-> "error", n |-> msg.n] \in Messages
      BY <3>1 DEF Messages
    <3>3. DownTypeOK'
      BY <2>4, <3>2, SendType DEF RenderSources
    <3>4. WorkTypeOK'
      BY <2>4, <3>1 DEF RenderSources, WorkTypeOK
    <3> QED BY <1>1, <2>2, <3>3, <3>4, GroupsSame, GroupsNext DEF WorkerMessage, pageVars
  <2>5. CASE msg.call = "stop" /\ StopController(p, msg)
    <3>1. WorkTypeOK'
      BY <2>5 DEF StopController, WorkTypeOK
    <3> QED BY <1>1, <2>2, <2>5, <3>1, GroupsSame, GroupsNext
            DEF WorkerMessage, StopController, pageVars
  <2> QED BY <1>1, <2>3, <2>4, <2>5 DEF WorkerMessage
<1>2. ASSUME EndOfStream(p) PROVE TypeOK'
  <2>1. WorkTypeOK'
    BY <1>2 DEF EndOfStream, WorkTypeOK
  <2> QED BY <1>2, <2>1, GroupsSame, GroupsNext DEF EndOfStream, pageVars
<1>3. ASSUME SocketClosed(p) PROVE TypeOK'
  <2>1. WorkTypeOK'
    BY <1>3 DEF SocketClosed, WorkTypeOK
  <2> QED BY <1>3, <2>1, GroupsSame, GroupsNext DEF SocketClosed, pageVars
<1> QED BY <1>1, <1>2, <1>3 DEF WorkerStep

\* The lookup, the consent queue and the restart.
LEMMA TypeOK_Consent ==
    ASSUME TypeOK,
           \/ \E req \in Requests : SourcesFound(req)
           \/ ExtensionConnects \/ ExtensionAnswers \/ HandleResponse \/ ExtensionCloses
           \/ RestartWorker
    PROVE  TypeOK'
<1> USE Groups
<1>1. ASSUME NEW req \in Requests, SourcesFound(req) PROVE TypeOK'
  <2> DEFINE p == req.page
             ref == ObjectRef("source", req.n)
  <2>1. p \in Pages /\ req.n \in 1..MaxRequests /\ ref \in Refs
    BY RefTypes DEF Requests
  <2>2. /\ [call |-> "noSources", n |-> req.n] \in Messages
        /\ [call |-> "gotSources", n |-> req.n, source |-> ref] \in Messages
    BY <2>1 DEF Messages
  <2>3. DownTypeOK'
    BY <1>1, <2>1, <2>2, SendType, GroupsSame DEF SourcesFound
  <2>4. WorkTypeOK'
    BY <1>1, <2>1 DEF SourcesFound, WorkTypeOK
  <2>5. ExtTypeOK'
    <3>1. CASE AddToQueue(req) /\ Consent
      BY <1>1, <3>1 DEF SourcesFound, ExtTypeOK, AddToQueue, Consent
    <3>2. CASE UNCHANGED <<queue, asked>>
      BY <1>1, <3>2 DEF SourcesFound, ExtTypeOK, Consent
    <3> QED BY <1>1, <3>1, <3>2 DEF SourcesFound
  <2> QED BY <1>1, <2>3, <2>4, <2>5, GroupsSame, GroupsNext DEF SourcesFound, pageVars
<1>2. ASSUME ExtensionConnects PROVE TypeOK'
  <2>1. ExtTypeOK'
    BY <1>2 DEF ExtensionConnects, ExtTypeOK, Consent
  <2> QED BY <1>2, <2>1, GroupsSame, GroupsNext DEF ExtensionConnects, pageVars
<1>3. ASSUME ExtensionAnswers PROVE TypeOK'
  <2>1. Head(asked) \in Requests /\ Tail(asked) \in Seq(Requests)
    BY <1>3 DEF ExtensionAnswers, ExtTypeOK
  <2>2. ExtTypeOK'
    BY <1>3, <2>1 DEF ExtensionAnswers, ExtTypeOK, Consent
  <2> QED BY <1>3, <2>2, GroupsSame, GroupsNext DEF ExtensionAnswers, pageVars
<1>4. ASSUME HandleResponse PROVE TypeOK'
  <2> DEFINE req == Head(queue)
             answer == Head(verdicts)
  <2>1. /\ req \in Requests /\ Tail(queue) \in Seq(Requests)
        /\ Len(queue) > 1 => queue[2] \in Requests
        /\ Tail(verdicts) \in Seq([req : Requests, name : {"accept", "reject"}])
    BY <1>4 DEF HandleResponse, ExtTypeOK
  <2>2. req.page \in Pages /\ Answer(req, answer) \in Messages
    BY <2>1, RefTypes DEF Answer, Messages, Requests
  <2>3. DownTypeOK'
    BY <1>4, <2>2, SendType, GroupsSame DEF HandleResponse
  <2>4. asked' \in Seq(Requests) /\ ext' \in {"live", "deaf"}
    <3>1. asked' = asked \/ (Len(queue) > 1 /\ asked' = Append(asked, queue[2]))
      BY <1>4 DEF HandleResponse
    <3>2. asked' \in Seq(Requests)
      BY <2>1, <3>1 DEF ExtTypeOK
    <3>3. ext' \in {"live", "deaf"}
      BY <1>4 DEF HandleResponse
    <3> QED BY <3>2, <3>3
  <2>5. ExtTypeOK'
    BY <1>4, <2>1, <2>4 DEF HandleResponse, ExtTypeOK, Consent
  <2> QED BY <1>4, <2>3, <2>5, GroupsSame, GroupsNext DEF HandleResponse, pageVars
<1>5. ASSUME ExtensionCloses PROVE TypeOK'
  <2>1. ExtTypeOK'
    BY <1>5, BoundsAssumption DEF ExtensionCloses, ExtTypeOK, Consent
  <2> QED BY <1>5, <2>1, GroupsSame, GroupsNext DEF ExtensionCloses, pageVars
<1>6. ASSUME RestartWorker PROVE TypeOK'
  <2>1. FrameTypeOK'
    BY <1>6 DEF RestartWorker, FrameTypeOK
  <2>2. DownTypeOK' /\ WorkTypeOK' /\ RestartsTypeOK'
    BY <1>6, BoundsAssumption DEF RestartWorker, DownTypeOK, WorkTypeOK, RestartsTypeOK
  <2>3. ExtTypeOK'
    BY <1>6 DEF RestartWorker, ExtTypeOK, Consent
  <2> QED BY <1>6, <2>1, <2>2, <2>3, GroupsSame, GroupsNext DEF RestartWorker
<1> QED BY <1>1, <1>2, <1>3, <1>4, <1>5, <1>6

LEMMA TypeOK_Next == TypeOK /\ [Next]_vars => TypeOK'
<1>1. TypeOK /\ UNCHANGED vars => TypeOK'
  BY Groups, GroupsSame, GroupsNext DEF vars, pageVars
<1> QED BY <1>1, TypeOK_Page, TypeOK_Worker, TypeOK_Consent DEF Next

\* The types of the model hold in every reachable state.
THEOREM TypeCorrect == Spec => []TypeOK
  BY TypeOK_Init, TypeOK_Next, PTL DEF Spec

-------------------------------------------------------------------------------
(* A request is in one place at most *)

\* A step that takes requests away, and puts none anywhere, keeps what is known of them.
LEMMA PlacesLost ==
    ASSUME NEW p \in Pages, NEW n \in 1..MaxRequests, InOnePlace(p, n),
           InSomePlace(p, n) => promise[p][n] = "pending",
           OnceIn(outbox'[p], Asks(n)), OnceIn(up'[p], Asks(n)),
           OnceIn(queue', {Req(p, n)}), OnceIn(down'[p], Answers(n)),
           InOutbox(p, n)' => InOutbox(p, n), InUp(p, n)' => InUp(p, n),
           InCapture(p, n)' => InCapture(p, n), InQueue(p, n)' => InQueue(p, n),
           InDown(p, n)' => InDown(p, n),
           InSomePlace(p, n)' => promise'[p][n] = promise[p][n]
    PROVE  InOnePlace(p, n)' /\ (InSomePlace(p, n)' => promise'[p][n] = "pending")
  BY DEF InOnePlace, InSomePlace

\* What the places of a request are made of.
LEMMA PlacesSame ==
    ASSUME NEW p \in Pages, NEW n \in 1..MaxRequests
    PROVE  /\ outbox'[p] = outbox[p] =>
                /\ InOutbox(p, n)' <=> InOutbox(p, n)
                /\ OnceIn(outbox'[p], Asks(n)) <=> OnceIn(outbox[p], Asks(n))
           /\ up'[p] = up[p] =>
                /\ InUp(p, n)' <=> InUp(p, n)
                /\ OnceIn(up'[p], Asks(n)) <=> OnceIn(up[p], Asks(n))
           /\ capturing' = capturing => (InCapture(p, n)' <=> InCapture(p, n))
           /\ queue' = queue =>
                /\ InQueue(p, n)' <=> InQueue(p, n)
                /\ OnceIn(queue', {Req(p, n)}) <=> OnceIn(queue, {Req(p, n)})
           /\ down'[p] = down[p] =>
                /\ InDown(p, n)' <=> InDown(p, n)
                /\ OnceIn(down'[p], Answers(n)) <=> OnceIn(down[p], Answers(n))
  BY DEF InOutbox, InUp, InCapture, InQueue, InDown

\* Where a page's message goes.
LEMMA PostPlaces ==
    ASSUME FrameTypeOK, NEW p \in Pages, NEW msg \in Calls, Post(p, <<msg>>)
    PROVE  /\ \A q \in Pages \ {p} : /\ outbox'[q] = outbox[q] /\ up'[q] = up[q]
                                     /\ frame'[q] = frame[q]
           /\ \/ /\ frame[p] = "open" /\ frame'[p] = "open"
                 /\ outbox'[p] = outbox[p] /\ up'[p] = Append(up[p], msg)
              \/ /\ frame[p] # "open" /\ frame'[p] # "open" /\ (frame'[p] = "gone" <=> frame[p] = "gone")
                 /\ outbox'[p] = Append(outbox[p], msg) /\ up'[p] = up[p]
<1>1. /\ up[p] \o <<msg>> = Append(up[p], msg)
      /\ outbox[p] \o <<msg>> = Append(outbox[p], msg)
  BY DEF FrameTypeOK
<1> QED BY <1>1 DEF Post, FrameTypeOK

LEMMA PostNothing ==
    ASSUME FrameTypeOK, NEW p \in Pages, Post(p, <<>>)
    PROVE  UNCHANGED <<outbox, up, frame>>
<1>1. outbox[p] \o <<>> = outbox[p] /\ up[p] \o <<>> = up[p]
  BY DEF FrameTypeOK
<1> QED BY <1>1 DEF Post, FrameTypeOK

\* A message that asks for no sources concerns no place of a request.
LEMMA PostOther ==
    ASSUME TypeOK, PlacesInv, NEW p \in Pages, NEW msgs \in Seq(Calls),
           msgs = <<>> \/ \E msg \in Calls : msgs = <<msg>> /\ msg.call # "requestSources",
           Post(p, msgs), NEW q \in Pages
    PROVE  /\ frame'[q] \notin {"open", "gone"} => frame[q] \notin {"open", "gone"} /\ up'[q] = <<>>
           /\ \A n \in 1..MaxRequests :
                /\ InOutbox(q, n)' <=> InOutbox(q, n)
                /\ InUp(q, n)' <=> InUp(q, n)
                /\ OnceIn(outbox'[q], Asks(n)) /\ OnceIn(up'[q], Asks(n))
<1>0. FrameTypeOK
  BY Groups
<1>1. CASE msgs = <<>>
  BY <1>0, <1>1, PostNothing, PlacesSame DEF PlacesInv, InOnePlace
<1>2. ASSUME NEW msg \in Calls, msgs = <<msg>>, msg.call # "requestSources"
      PROVE  /\ frame'[q] \notin {"open", "gone"} => frame[q] \notin {"open", "gone"} /\ up'[q] = <<>>
             /\ \A n \in 1..MaxRequests :
                  /\ InOutbox(q, n)' <=> InOutbox(q, n)
                  /\ InUp(q, n)' <=> InUp(q, n)
                  /\ OnceIn(outbox'[q], Asks(n)) /\ OnceIn(up'[q], Asks(n))
  <2> SUFFICES ASSUME NEW n \in 1..MaxRequests
               PROVE  /\ frame'[q] \notin {"open", "gone"} => frame[q] \notin {"open", "gone"} /\ up'[q] = <<>>
                      /\ InOutbox(q, n)' <=> InOutbox(q, n)
                      /\ InUp(q, n)' <=> InUp(q, n)
                      /\ OnceIn(outbox'[q], Asks(n)) /\ OnceIn(up'[q], Asks(n))
    BY BoundsAssumption
  <2>1. msg \notin Asks(n)
    BY <1>2 DEF Asks
  <2>2. /\ InOnePlace(q, n)
        /\ frame[q] \notin {"open", "gone"} => up[q] = <<>>
    BY DEF PlacesInv
  <2>3. CASE q # p
    BY <1>0, <1>2, <2>2, <2>3, PostPlaces, PlacesSame DEF InOnePlace
  <2>4. CASE q = p /\ outbox'[p] = outbox[p] /\ up'[p] = Append(up[p], msg) /\ frame'[p] = "open"
    <3>1. /\ Holds(up'[q], Asks(n)) <=> Holds(up[q], Asks(n))
          /\ OnceIn(up'[q], Asks(n)) <=> OnceIn(up[q], Asks(n))
      BY <1>0, <2>1, <2>4, AppendHolds DEF FrameTypeOK
    <3> QED BY <2>2, <2>4, <3>1, PlacesSame DEF InOnePlace, InUp
  <2>5. CASE /\ q = p /\ outbox'[p] = Append(outbox[p], msg) /\ up'[p] = up[p]
             /\ frame[p] # "open" /\ (frame'[p] = "gone" <=> frame[p] = "gone")
    <3>1. /\ Holds(outbox'[q], Asks(n)) <=> Holds(outbox[q], Asks(n))
          /\ OnceIn(outbox'[q], Asks(n)) <=> OnceIn(outbox[q], Asks(n))
      BY <1>0, <2>1, <2>5, AppendHolds DEF FrameTypeOK
    <3> QED BY <2>2, <2>5, <3>1, PlacesSame DEF InOnePlace, InOutbox
  <2> QED BY <1>0, <1>2, <2>3, <2>4, <2>5, PostPlaces
<1> QED BY <1>1, <1>2

\* Only a request that was not made before is asked for.
AsksAnew ==
    \A q \in Pages, n \in 1..MaxRequests :
        InOutbox(q, n)' \/ InUp(q, n)' => InOutbox(q, n) \/ InUp(q, n) \/ promise[q][n] = "none"

\* The steps of a page.
LEMMA Places_Page ==
    ASSUME TypeOK, PlacesInv, NEW p \in Pages, PageStep(p)
    PROVE  PlacesInv' /\ AsksAnew
<1>0. FrameTypeOK /\ ScriptTypeOK /\ DownTypeOK
  BY Groups
<1>a. ASSUME NEW q \in Pages, NEW n \in 1..MaxRequests
      PROVE  /\ InOnePlace(q, n) /\ (InSomePlace(q, n) => promise[q][n] = "pending")
             /\ OnceIn(outbox[q], Asks(n)) /\ OnceIn(up[q], Asks(n))
             /\ OnceIn(queue, {Req(q, n)}) /\ OnceIn(down[q], Answers(n))
  BY DEF PlacesInv, InOnePlace
<1>b. \A q \in Pages : frame[q] \notin {"open", "gone"} => up[q] = <<>> /\ down[q] = <<>>
  BY DEF PlacesInv
<1>1. ASSUME FrameLoaded(p) PROVE PlacesInv' /\ AsksAnew
  <2>1. /\ UNCHANGED <<outbox, up, down, queue, capturing, promise>>
        /\ \A q \in Pages : frame'[q] \notin {"open", "gone"} => frame[q] \notin {"open", "gone"}
    BY <1>0, <1>1 DEF FrameLoaded, workVars, extVars, FrameTypeOK
  <2>2. ASSUME NEW q \in Pages, NEW n \in 1..MaxRequests
        PROVE  InOnePlace(q, n)' /\ (InSomePlace(q, n)' => promise'[q][n] = "pending")
    BY <1>a, <2>1, PlacesLost, PlacesSame
  <2>3. AsksAnew
    BY <2>1, PlacesSame DEF AsksAnew
  <2> QED BY <1>b, <2>1, <2>2, <2>3 DEF PlacesInv
<1>2. ASSUME Accept(p) PROVE PlacesInv' /\ AsksAnew
  <2>1. /\ UNCHANGED <<down, queue, capturing, promise>>
        /\ up' = [up EXCEPT ![p] = outbox[p]] /\ outbox' = [outbox EXCEPT ![p] = <<>>]
        /\ up[p] = <<>> /\ frame' = [frame EXCEPT ![p] = "open"]
    <3>1. up[p] = <<>> /\ <<>> \o outbox[p] = outbox[p]
      BY <1>0, <1>2, <1>b DEF Accept, FrameTypeOK
    <3> QED BY <1>2, <3>1 DEF Accept, extVars
  <2>2. ASSUME NEW q \in Pages, NEW n \in 1..MaxRequests
        PROVE  InOnePlace(q, n)' /\ (InSomePlace(q, n)' => promise'[q][n] = "pending")
    <3>1. CASE q # p
      <4>1. outbox'[q] = outbox[q] /\ up'[q] = up[q]
        BY <1>0, <2>1, <3>1 DEF FrameTypeOK
      <4> QED BY <1>a, <2>1, <4>1, PlacesLost, PlacesSame
    <3>2. CASE q = p
      <4>1. up'[p] = outbox[p] /\ outbox'[p] = <<>>
        BY <1>0, <2>1 DEF FrameTypeOK
      <4>2. /\ ~InOutbox(q, n)' /\ OnceIn(outbox'[q], Asks(n))
            /\ InUp(q, n)' <=> InOutbox(q, n)
            /\ OnceIn(up'[q], Asks(n))
        BY <1>a, <3>2, <4>1, EmptyHolds DEF InOutbox, InUp
      <4> QED BY <1>a, <2>1, <3>2, <4>2, PlacesSame DEF InOnePlace, InSomePlace
    <3> QED BY <3>1, <3>2
  <2>3. \A q \in Pages : frame'[q] \notin {"open", "gone"} => up'[q] = <<>> /\ down'[q] = <<>>
    BY <1>0, <1>b, <2>1 DEF FrameTypeOK
  <2>4. AsksAnew
    <3>1. /\ \A q \in Pages : /\ outbox'[q] = IF q = p THEN <<>> ELSE outbox[q]
                             /\ up'[q] = IF q = p THEN outbox[q] ELSE up[q]
      BY <1>0, <2>1 DEF FrameTypeOK
    <3> QED BY <3>1, EmptyHolds, PlacesSame DEF AsksAnew, InOutbox, InUp
  <2> QED BY <2>2, <2>3, <2>4 DEF PlacesInv
<1>3. ASSUME PageMessage(p) PROVE PlacesInv' /\ AsksAnew
  <2> DEFINE msg == Head(down[p])
  <2>1. /\ msg \in Messages /\ down[p] \in Seq(Messages) /\ down[p] # <<>>
        /\ down' = [down EXCEPT ![p] = Tail(down[p])] /\ frame[p] = "open"
        /\ UNCHANGED <<capturing, queue>>
    BY <1>0, <1>3 DEF PageMessage, DownTypeOK, workVars, extVars
  <2>2. \A q \in Pages : down'[q] = IF q = p THEN Tail(down[p]) ELSE down[q]
    BY <1>0, <2>1 DEF DownTypeOK
  <2>3. ASSUME NEW q \in Pages, NEW n \in 1..MaxRequests
        PROVE  /\ InDown(q, n)' => InDown(q, n)
               /\ OnceIn(down'[q], Answers(n))
               /\ q = p /\ msg \in Answers(n) => InDown(q, n) /\ ~InDown(q, n)'
    <3>1. CASE q # p
      BY <1>a, <2>2, <3>1, PlacesSame
    <3>2. CASE q = p
      <4>1. down'[q] = Tail(down[q]) /\ OnceIn(down[q], Answers(n))
        BY <1>a, <2>2, <3>2
      <4>2. /\ Holds(Tail(down[q]), Answers(n)) => Holds(down[q], Answers(n))
            /\ OnceIn(Tail(down[q]), Answers(n))
            /\ msg \in Answers(n) => Holds(down[q], Answers(n)) /\ ~Holds(Tail(down[q]), Answers(n))
        BY <2>1, <3>2, <4>1, TailHolds
      <4> QED BY <4>1, <4>2 DEF InDown
    <3> QED BY <3>1, <3>2
  <2>4. ASSUME NEW q \in Pages
        PROVE  /\ frame'[q] \notin {"open", "gone"} => frame[q] \notin {"open", "gone"} /\ up'[q] = <<>>
               /\ \A n \in 1..MaxRequests :
                    /\ InOutbox(q, n)' <=> InOutbox(q, n)
                    /\ InUp(q, n)' <=> InUp(q, n)
                    /\ OnceIn(outbox'[q], Asks(n)) /\ OnceIn(up'[q], Asks(n))
    <3>1. CASE UNCHANGED <<outbox, up, frame>>
      BY <1>a, <1>b, <3>1, PlacesSame
    <3>2. CASE Post(p, StopCall(shown[p]))
      <4>1. /\ StopCall(shown[p]) \in Seq(Calls)
            /\ \/ StopCall(shown[p]) = <<>>
               \/ \E m \in Calls : StopCall(shown[p]) = <<m>> /\ m.call # "requestSources"
        <5>1. shown[p] \in Refs => [call |-> "stop", target |-> shown[p]] \in Calls
          BY DEF Calls
        <5>2. shown[p] \in Refs \cup {None}
          BY <1>0 DEF ScriptTypeOK
        <5> QED BY <5>1, <5>2, StopType DEF StopCall
      <4> QED BY <3>2, <4>1, PostOther
    <3> QED BY <1>3, <3>1, <3>2 DEF PageMessage, GotSources, NoSources, Rendered, RemoteError
  <2>5. ASSUME NEW q \in Pages, NEW n \in 1..MaxRequests
        PROVE  promise'[q][n] = promise[q][n] \/ (q = p /\ msg \in Answers(n))
    <3>1. msg.call \in {"gotSources", "noSources"} =>
             msg.n \in 1..MaxRequests /\ msg \in Answers(msg.n)
      BY <2>1, MessageFields DEF Answers
    <3>2. promise' = promise \/ (/\ msg.call \in {"gotSources", "noSources"}
                                 /\ \E x : promise' = [promise EXCEPT ![p][msg.n] = x])
      BY <1>3 DEF PageMessage, GotSources, NoSources, Rendered, RemoteError
    <3>3. CASE /\ msg.call \in {"gotSources", "noSources"} /\ n # msg.n
               /\ \E x : promise' = [promise EXCEPT ![p][msg.n] = x]
      <4> HIDE DEF msg
      <4> QED BY <1>0, <3>1, <3>3 DEF ScriptTypeOK
    <3>4. CASE /\ msg.call \in {"gotSources", "noSources"} /\ n = msg.n /\ q # p
               /\ \E x : promise' = [promise EXCEPT ![p][msg.n] = x]
      <4> HIDE DEF msg
      <4> QED BY <1>0, <3>1, <3>4 DEF ScriptTypeOK
    <3> QED BY <3>1, <3>2, <3>3, <3>4
  <2>6. ASSUME NEW q \in Pages, NEW n \in 1..MaxRequests
        PROVE  InOnePlace(q, n)' /\ (InSomePlace(q, n)' => promise'[q][n] = "pending")
    <3>1. OnceIn(queue', {Req(q, n)}) /\ (InQueue(q, n)' <=> InQueue(q, n))
          /\ (InCapture(q, n)' <=> InCapture(q, n))
      BY <1>a, <2>1, PlacesSame
    <3>2. CASE promise'[q][n] = promise[q][n]
      BY <1>a, <2>3, <2>4, <3>1, <3>2, PlacesLost
    <3>3. CASE q = p /\ msg \in Answers(n)
      BY <1>a, <2>3, <2>4, <3>1, <3>3 DEF InOnePlace, InSomePlace
    <3> QED BY <2>5, <3>2, <3>3
  <2>7. \A q \in Pages : frame'[q] \notin {"open", "gone"} => up'[q] = <<>> /\ down'[q] = <<>>
    BY <1>b, <2>1, <2>2, <2>4
  <2>8. AsksAnew
    BY <2>4 DEF AsksAnew
  <2> QED BY <2>6, <2>7, <2>8 DEF PlacesInv
<1>4. ASSUME GetUserMedia(p) PROVE PlacesInv' /\ AsksAnew
  <2>1. PICK k \in 1..MaxRequests :
            /\ ~Left(p) /\ promise[p][k] = "none"
            /\ promise' = [promise EXCEPT ![p][k] = "pending"]
            /\ Post(p, <<[call |-> "requestSources", n |-> k]>>)
            /\ UNCHANGED <<down, queue, capturing>>
    <3>1. PICK k \in 1..MaxRequests :
              /\ ~Left(p)
              /\ \A i \in 1..MaxRequests : promise[p][i] = "none" <=> i >= k
              /\ promise' = [promise EXCEPT ![p][k] = "pending"]
              /\ Post(p, <<[call |-> "requestSources", n |-> k]>>)
              /\ UNCHANGED <<down, queue, capturing>>
      BY <1>4 DEF GetUserMedia, workVars, extVars
    <3>2. promise[p][k] = "none"
      BY <3>1
    <3> QED BY <3>1, <3>2
  <2> DEFINE msg == [call |-> "requestSources", n |-> k]
  <2>2. msg \in Calls /\ \A n \in 1..MaxRequests : msg \in Asks(n) <=> n = k
    BY DEF Calls, Asks
  <2> HIDE DEF msg
  <2>3. /\ \A q \in Pages \ {p} : /\ outbox'[q] = outbox[q] /\ up'[q] = up[q]
                                  /\ frame'[q] = frame[q]
        /\ \/ /\ frame[p] = "open" /\ frame'[p] = "open"
              /\ outbox'[p] = outbox[p] /\ up'[p] = Append(up[p], msg)
           \/ /\ frame[p] # "open" /\ frame'[p] # "open" /\ (frame'[p] = "gone" <=> frame[p] = "gone")
              /\ outbox'[p] = Append(outbox[p], msg) /\ up'[p] = up[p]
    BY <1>0, <2>1, <2>2, PostPlaces DEF msg
  <2>4. \A q \in Pages, n \in 1..MaxRequests :
            promise'[q][n] = IF q = p /\ n = k THEN "pending" ELSE promise[q][n]
    BY <1>0, <2>1 DEF ScriptTypeOK
  <2>5. ASSUME NEW q \in Pages, NEW n \in 1..MaxRequests
        PROVE  InOnePlace(q, n)' /\ (InSomePlace(q, n)' => promise'[q][n] = "pending")
    <3>1. CASE q # p
      <4>1. outbox'[q] = outbox[q] /\ up'[q] = up[q] /\ promise'[q][n] = promise[q][n]
        BY <2>3, <2>4, <3>1
      <4> QED BY <1>a, <2>1, <4>1, PlacesLost, PlacesSame
    <3>2. CASE q = p
      <4>1. /\ outbox[p] \in Seq(Calls) /\ up[p] \in Seq(Calls)
            /\ n = k => ~InSomePlace(p, n)
        BY <1>0, <1>a, <2>1 DEF FrameTypeOK
      <4>2. /\ Holds(Append(up[p], msg), Asks(n)) <=> InUp(p, n) \/ n = k
            /\ OnceIn(Append(up[p], msg), Asks(n)) <=> OnceIn(up[p], Asks(n)) /\ ~(n = k /\ InUp(p, n))
            /\ Holds(Append(outbox[p], msg), Asks(n)) <=> InOutbox(p, n) \/ n = k
            /\ OnceIn(Append(outbox[p], msg), Asks(n))
                  <=> OnceIn(outbox[p], Asks(n)) /\ ~(n = k /\ InOutbox(p, n))
        BY <2>2, <4>1, AppendHolds DEF InUp, InOutbox
      <4>3. /\ InCapture(p, n)' <=> InCapture(p, n)
            /\ (InQueue(p, n)' <=> InQueue(p, n)) /\ OnceIn(queue', {Req(p, n)})
            /\ (InDown(p, n)' <=> InDown(p, n)) /\ OnceIn(down'[p], Answers(n))
        BY <1>a, <2>1, PlacesSame
      <4>4. promise'[p][n] = IF n = k THEN "pending" ELSE promise[p][n]
        BY <2>4
      <4>5. CASE outbox'[p] = outbox[p] /\ up'[p] = Append(up[p], msg)
        <5>1. /\ InUp(p, n)' <=> InUp(p, n) \/ n = k
              /\ OnceIn(up'[p], Asks(n)) <=> OnceIn(up[p], Asks(n)) /\ ~(n = k /\ InUp(p, n))
          BY <4>2, <4>5 DEF InUp
        <5>2. (InOutbox(p, n)' <=> InOutbox(p, n)) /\ OnceIn(outbox'[p], Asks(n))
          BY <1>a, <4>5, PlacesSame
        <5> QED BY <1>a, <3>2, <4>1, <4>3, <4>4, <5>1, <5>2 DEF InOnePlace, InSomePlace
      <4>6. CASE outbox'[p] = Append(outbox[p], msg) /\ up'[p] = up[p]
        <5>1. /\ InOutbox(p, n)' <=> InOutbox(p, n) \/ n = k
              /\ OnceIn(outbox'[p], Asks(n))
                    <=> OnceIn(outbox[p], Asks(n)) /\ ~(n = k /\ InOutbox(p, n))
          BY <4>2, <4>6 DEF InOutbox
        <5>2. (InUp(p, n)' <=> InUp(p, n)) /\ OnceIn(up'[p], Asks(n))
          BY <1>a, <4>6, PlacesSame
        <5> QED BY <1>a, <3>2, <4>1, <4>3, <4>4, <5>1, <5>2 DEF InOnePlace, InSomePlace
      <4> QED BY <2>3, <4>5, <4>6
    <3> QED BY <3>1, <3>2
  <2>6. \A q \in Pages : frame'[q] \notin {"open", "gone"} => up'[q] = <<>> /\ down'[q] = <<>>
    BY <1>b, <2>1, <2>3
  <2>7. AsksAnew
    <3>1. ASSUME NEW q \in Pages, NEW n \in 1..MaxRequests, q # p
          PROVE  (InOutbox(q, n)' <=> InOutbox(q, n)) /\ (InUp(q, n)' <=> InUp(q, n))
      BY <2>3, <3>1, PlacesSame
    <3>2. ASSUME NEW n \in 1..MaxRequests, n # k
          PROVE  InOutbox(p, n)' \/ InUp(p, n)' => InOutbox(p, n) \/ InUp(p, n)
      <4>1. /\ outbox[p] \in Seq(Calls) /\ up[p] \in Seq(Calls) /\ msg \notin Asks(n)
        BY <1>0, <2>2, <3>2 DEF FrameTypeOK
      <4>2. /\ Holds(Append(up[p], msg), Asks(n)) <=> InUp(p, n)
            /\ Holds(Append(outbox[p], msg), Asks(n)) <=> InOutbox(p, n)
        BY <2>2, <4>1, AppendHolds DEF InUp, InOutbox
      <4> QED BY <2>3, <4>2 DEF InUp, InOutbox
    <3> QED BY <2>1, <3>1, <3>2 DEF AsksAnew
  <2> QED BY <2>5, <2>6, <2>7 DEF PlacesInv
<1>5. ASSUME Show(p) \/ StopShown(p) PROVE PlacesInv' /\ AsksAnew
  <2>1. PICK msgs \in Seq(Calls) :
            /\ msgs = <<>> \/ \E msg \in Calls : msgs = <<msg>> /\ msg.call # "requestSources"
            /\ Post(p, msgs)
    <3>1. CASE Show(p)
      <4> DEFINE msg == [call |-> "renderSources", source |-> source[p], n |-> shows[p] + 1]
      <4>0. MaxShows[p] \in Nat /\ shows[p] \in Nat /\ shows[p] < MaxShows[p]
        BY <1>0, <3>1, BoundsAssumption DEF Show, ScriptTypeOK
      <4>1. shows[p] + 1 \in Shows
        <5>1. shows[p] + 1 \in 1..MaxShows[p]
          BY <4>0
        <5> QED BY <5>1 DEF Shows
      <4>2. source[p] \in Refs
        BY <1>0, <3>1 DEF Show, ScriptTypeOK
      <4>3. msg \in Calls /\ msg.call # "requestSources" /\ <<msg>> \in Seq(Calls)
        BY <4>1, <4>2 DEF Calls
      <4>4. Post(p, <<msg>>)
        BY <3>1 DEF Show
      <4> QED BY <4>3, <4>4
    <3>2. CASE StopShown(p)
      <4>1. shown[p] \in Refs
        BY <1>0, <3>2 DEF StopShown, ScriptTypeOK
      <4>2. [call |-> "stop", target |-> shown[p]] \in Calls
        BY <4>1 DEF Calls
      <4> DEFINE msg == [call |-> "stop", target |-> shown[p]]
      <4>3. <<msg>> \in Seq(Calls) /\ msg.call # "requestSources"
        BY <4>2
      <4>4. Post(p, <<msg>>)
        BY <3>2 DEF StopShown, StopCall
      <4> QED BY <4>2, <4>3, <4>4
    <3> QED BY <1>5, <3>1, <3>2
  <2>2. UNCHANGED <<down, queue, capturing, promise>>
    BY <1>5 DEF Show, StopShown, workVars, extVars
  <2>3. ASSUME NEW q \in Pages
        PROVE  /\ frame'[q] \notin {"open", "gone"} => frame[q] \notin {"open", "gone"} /\ up'[q] = <<>>
               /\ \A n \in 1..MaxRequests :
                    /\ InOutbox(q, n)' <=> InOutbox(q, n)
                    /\ InUp(q, n)' <=> InUp(q, n)
                    /\ OnceIn(outbox'[q], Asks(n)) /\ OnceIn(up'[q], Asks(n))
    BY <2>1, PostOther
  <2>4. ASSUME NEW q \in Pages, NEW n \in 1..MaxRequests
        PROVE  InOnePlace(q, n)' /\ (InSomePlace(q, n)' => promise'[q][n] = "pending")
    BY <1>a, <2>2, <2>3, PlacesLost, PlacesSame
  <2>5. AsksAnew
    BY <2>3 DEF AsksAnew
  <2> QED BY <1>b, <2>2, <2>3, <2>4, <2>5 DEF PlacesInv
<1>6. ASSUME LeavePage(p) PROVE PlacesInv' /\ AsksAnew
  <2>1. /\ UNCHANGED <<up, queue, capturing, promise>>
        /\ \A q \in Pages : /\ outbox'[q] = IF q = p THEN <<>> ELSE outbox[q]
                            /\ down'[q] = IF q = p THEN <<>> ELSE down[q]
                            /\ frame'[q] = IF q = p THEN "gone" ELSE frame[q]
    BY <1>0, <1>6 DEF LeavePage, FrameTypeOK, DownTypeOK, workVars, extVars
  <2>2. ASSUME NEW q \in Pages, NEW n \in 1..MaxRequests
        PROVE  InOnePlace(q, n)' /\ (InSomePlace(q, n)' => promise'[q][n] = "pending")
    <3>1. /\ InOutbox(q, n)' => InOutbox(q, n)
          /\ OnceIn(outbox'[q], Asks(n))
          /\ InDown(q, n)' => InDown(q, n)
          /\ OnceIn(down'[q], Answers(n))
      BY <1>a, <2>1, EmptyHolds, PlacesSame DEF InOutbox, InDown
    <3> QED BY <1>a, <2>1, <3>1, PlacesLost, PlacesSame
  <2>3. AsksAnew
    BY <2>1, EmptyHolds, PlacesSame DEF AsksAnew, InOutbox
  <2> QED BY <1>b, <2>1, <2>2, <2>3 DEF PlacesInv
<1> QED BY <1>1, <1>2, <1>3, <1>4, <1>5, <1>6 DEF PageStep

\* The steps of the worker for a page.
LEMMA Places_Worker ==
    ASSUME TypeOK, PlacesInv, NEW p \in Pages, WorkerStep(p)
    PROVE  PlacesInv'
<1>0. FrameTypeOK /\ DownTypeOK /\ WorkTypeOK /\ RestartsTypeOK
  BY Groups
<1>a. ASSUME NEW q \in Pages, NEW n \in 1..MaxRequests
      PROVE  /\ InOnePlace(q, n) /\ (InSomePlace(q, n) => promise[q][n] = "pending")
             /\ OnceIn(outbox[q], Asks(n)) /\ OnceIn(up[q], Asks(n))
             /\ OnceIn(queue, {Req(q, n)}) /\ OnceIn(down[q], Answers(n))
  BY DEF PlacesInv, InOnePlace
<1>b. \A q \in Pages : frame[q] \notin {"open", "gone"} => up[q] = <<>> /\ down[q] = <<>>
  BY DEF PlacesInv
<1>1. ASSUME WorkerMessage(p) PROVE PlacesInv'
  <2> DEFINE msg == Head(up[p])
  <2>1. /\ msg \in Calls /\ up[p] \in Seq(Calls) /\ up[p] # <<>>
        /\ \A q \in Pages : up'[q] = IF q = p THEN Tail(up[p]) ELSE up[q]
        /\ UNCHANGED <<frame, outbox, promise, queue>>
    BY <1>0, <1>1 DEF WorkerMessage, Receives, FrameTypeOK, pageVars, extVars
  <2>2. ASSUME NEW q \in Pages, NEW n \in 1..MaxRequests
        PROVE  /\ InUp(q, n)' => InUp(q, n)
               /\ OnceIn(up'[q], Asks(n))
               /\ q = p /\ msg \in Asks(n) => InUp(q, n) /\ ~InUp(q, n)'
    <3>1. CASE q # p
      BY <1>a, <2>1, <3>1, PlacesSame
    <3>2. CASE q = p
      <4>1. up'[q] = Tail(up[q]) /\ OnceIn(up[q], Asks(n))
        BY <1>a, <2>1, <3>2
      <4>2. /\ Holds(Tail(up[q]), Asks(n)) => Holds(up[q], Asks(n))
            /\ OnceIn(Tail(up[q]), Asks(n))
            /\ msg \in Asks(n) => Holds(up[q], Asks(n)) /\ ~Holds(Tail(up[q]), Asks(n))
        BY <2>1, <3>2, <4>1, TailHolds
      <4> QED BY <4>1, <4>2 DEF InUp
    <3> QED BY <3>1, <3>2
  <2>3. CASE msg.call = "requestSources" /\ RequestSources(p, msg)
    <3>1. capturing' = capturing \cup {Req(p, msg.n)} /\ UNCHANGED down
      BY <2>3 DEF RequestSources, Req
    <3>2. msg.n \in 1..MaxRequests /\ msg \in Asks(msg.n)
      BY <2>1, <2>3, CallFields
    <3>3. ASSUME NEW q \in Pages, NEW n \in 1..MaxRequests
          PROVE  InCapture(q, n)' => InCapture(q, n) \/ (q = p /\ n = msg.n)
      BY <3>1 DEF InCapture, Req
    <3>4. ASSUME NEW q \in Pages, NEW n \in 1..MaxRequests
          PROVE  InOnePlace(q, n)' /\ (InSomePlace(q, n)' => promise'[q][n] = "pending")
      <4>1. CASE q = p /\ n = msg.n
        <5>1. InUp(q, n) /\ ~InUp(q, n)'
          BY <2>2, <3>2, <4>1
        <5> QED BY <1>a, <2>1, <2>2, <3>1, <5>1, PlacesSame DEF InOnePlace, InSomePlace
      <4>2. CASE ~(q = p /\ n = msg.n)
        BY <1>a, <2>1, <2>2, <3>1, <3>3, <4>2, PlacesLost, PlacesSame
      <4> QED BY <4>1, <4>2
    <3>5. \A q \in Pages : frame'[q] \notin {"open", "gone"} => up'[q] = <<>> /\ down'[q] = <<>>
      BY <1>b, <2>1, <3>1
    <3> QED BY <3>4, <3>5 DEF PlacesInv
  <2>4. CASE \/ msg.call = "renderSources" /\ RenderSources(p, msg)
             \/ msg.call = "stop" /\ StopController(p, msg)
    <3>1. ASSUME NEW q \in Pages
          PROVE  \/ down'[q] = down[q]
                 \/ /\ ~Left(p) /\ session[p] \in {"live", "deaf"} /\ q = p
                    /\ \E m \in Messages : /\ down'[q] = Append(down[q], m)
                                           /\ m.call \in {"result", "error"}
      <4>1. CASE msg.call = "stop" /\ StopController(p, msg)
        BY <4>1 DEF StopController
      <4>2. CASE msg.call = "renderSources" /\ RenderSources(p, msg)
        <5> DEFINE ref == ObjectRef("controller", msg.n)
        <5>1. msg.n \in Shows /\ ref \in Refs
          BY <1>0, <2>1, <4>2, CallFields, RefTypes
        <5>2. /\ [call |-> "result", n |-> msg.n, controller |-> ref] \in Messages
              /\ [call |-> "error", n |-> msg.n] \in Messages
          BY <5>1 DEF Messages
        <5>3. PICK m \in Messages : m.call \in {"result", "error"} /\ Send(p, m)
          BY <4>2, <5>2 DEF RenderSources
        <5> QED BY <1>0, <5>3 DEF Send, DownTypeOK
      <4> QED BY <2>4, <4>1, <4>2
    <3>2. ASSUME NEW q \in Pages, NEW n \in 1..MaxRequests
          PROVE  (InDown(q, n)' <=> InDown(q, n)) /\ OnceIn(down'[q], Answers(n))
      <4>1. CASE down'[q] = down[q]
        BY <1>a, <4>1, PlacesSame
      <4>2. ASSUME NEW m \in Messages, down'[q] = Append(down[q], m), m.call \in {"result", "error"}
            PROVE  (InDown(q, n)' <=> InDown(q, n)) /\ OnceIn(down'[q], Answers(n))
        <5>1. m \notin Answers(n)
          BY <4>2 DEF Answers
        <5>2. /\ Holds(Append(down[q], m), Answers(n)) <=> Holds(down[q], Answers(n))
              /\ OnceIn(Append(down[q], m), Answers(n)) <=> OnceIn(down[q], Answers(n))
          BY <1>0, <5>1, AppendHolds DEF DownTypeOK
        <5> QED BY <1>a, <4>2, <5>2 DEF InDown
      <4> QED BY <3>1, <4>1, <4>2
    <3>3. capturing' = capturing
      BY <2>4 DEF RenderSources, StopController
    <3>4. ASSUME NEW q \in Pages, NEW n \in 1..MaxRequests
          PROVE  InOnePlace(q, n)' /\ (InSomePlace(q, n)' => promise'[q][n] = "pending")
      BY <1>a, <2>1, <2>2, <3>2, <3>3, PlacesLost, PlacesSame
    <3>5. \A q \in Pages : frame'[q] \notin {"open", "gone"} => up'[q] = <<>> /\ down'[q] = <<>>
      BY <1>b, <2>1, <3>1
    <3> QED BY <3>4, <3>5 DEF PlacesInv
  <2> QED BY <1>1, <2>3, <2>4 DEF WorkerMessage
<1>2. ASSUME EndOfStream(p) \/ SocketClosed(p) PROVE PlacesInv'
  <2>1. UNCHANGED <<frame, outbox, up, down, queue, capturing, promise>>
    BY <1>2 DEF EndOfStream, SocketClosed, pageVars, extVars
  <2>2. ASSUME NEW q \in Pages, NEW n \in 1..MaxRequests
        PROVE  InOnePlace(q, n)' /\ (InSomePlace(q, n)' => promise'[q][n] = "pending")
    BY <1>a, <2>1, PlacesLost, PlacesSame
  <2> QED BY <1>b, <2>1, <2>2 DEF PlacesInv
<1> QED BY <1>1, <1>2 DEF WorkerStep

-------------------------------------------------------------------------------
(* What the worker runs *)

LEMMA WorkerInv_Next ==
    ASSUME TypeOK, WorkerInv, [Next]_vars
    PROVE  WorkerInv'
<1>0. FrameTypeOK /\ WorkTypeOK
  BY Groups
<1>1. ASSUME NEW p \in Pages, PageStep(p) PROVE WorkerInv'
  <2>1. /\ UNCHANGED <<referenced, running>>
        /\ UNCHANGED session \/ Accept(p)
    BY <1>1 DEF PageStep, FrameLoaded, Accept, PageMessage, GetUserMedia, Show, StopShown,
                LeavePage, workVars
  <2>2. CASE Accept(p)
    BY <1>0, <2>1, <2>2 DEF Accept, WorkerInv, FrameTypeOK, WorkTypeOK
  <2>3. CASE UNCHANGED session
    <3>1. \A q \in Pages : frame'[q] \notin {"open", "gone"} => frame[q] \notin {"open", "gone"}
      <4>1. CASE FrameLoaded(p) \/ Accept(p) \/ LeavePage(p)
        BY <1>0, <4>1 DEF FrameLoaded, Accept, LeavePage, FrameTypeOK
      <4>2. CASE UNCHANGED frame \/ \E msgs : Post(p, msgs)
        BY <1>0, <4>2 DEF Post, FrameTypeOK
      <4> QED BY <1>1, <4>1, <4>2
              DEF PageStep, PageMessage, GetUserMedia, Show, StopShown, GotSources, NoSources,
                  Rendered, RemoteError
    <3> QED BY <2>1, <2>3, <3>1 DEF WorkerInv
  <2> QED BY <2>1, <2>2, <2>3
<1>2. ASSUME NEW p \in Pages, WorkerStep(p) PROVE WorkerInv'
  <2>1. CASE WorkerMessage(p)
    <3> DEFINE msg == Head(up[p])
    <3>1. UNCHANGED frame /\ session[p] = "live"
      BY <2>1 DEF WorkerMessage, Receives, pageVars
    <3>2. CASE RequestSources(p, msg)
      BY <3>1, <3>2 DEF RequestSources, WorkerInv
    <3>3. CASE RenderSources(p, msg)
      <4>1. CASE UNCHANGED <<referenced, running, session>>
        BY <3>1, <4>1 DEF WorkerInv
      <4>2. ASSUME NEW ref, referenced' = [referenced EXCEPT ![p] = @ \cup {ref}],
                   running' = [running EXCEPT ![p] = @ \cup {ref}], UNCHANGED session
            PROVE  WorkerInv'
        BY <1>0, <3>1, <4>2 DEF WorkerInv, WorkTypeOK
      <4> QED BY <3>3, <4>1, <4>2 DEF RenderSources
    <3>4. CASE StopController(p, msg)
      <4>1. UNCHANGED referenced
        BY <3>4 DEF StopController
      <4>2. ASSUME NEW q \in Pages
            PROVE  /\ running'[q] \subseteq running[q]
                   /\ session'[q] = session[q] \/ (q = p /\ session'[q] \in {"live", "deaf"})
        <5> HIDE DEF msg
        <5>1. running'[q] \subseteq running[q]
          BY <1>0, <3>4 DEF StopController, WorkTypeOK
        <5>2. session'[q] = session[q] \/ (q = p /\ session'[q] = "deaf")
          BY <1>0, <3>4 DEF StopController, WorkTypeOK
        <5> QED BY <5>1, <5>2
      <4> QED BY <3>1, <4>1, <4>2 DEF WorkerInv
    <3> QED BY <2>1, <3>2, <3>3, <3>4 DEF WorkerMessage
  <2>2. CASE EndOfStream(p)
    BY <1>0, <2>2 DEF EndOfStream, WorkerInv, WorkTypeOK, pageVars
  <2>3. CASE SocketClosed(p)
    BY <1>0, <2>3 DEF SocketClosed, WorkerInv, WorkTypeOK, pageVars
  <2> QED BY <1>2, <2>1, <2>2, <2>3 DEF WorkerStep
<1>3. ASSUME NEW req \in Requests, SourcesFound(req) PROVE WorkerInv'
  <2>1. /\ UNCHANGED <<frame, session, running>>
        /\ UNCHANGED referenced \/ \E x : referenced' = [referenced EXCEPT ![req.page] = @ \cup x]
    BY <1>3 DEF SourcesFound, pageVars
  <2> QED BY <1>0, <2>1 DEF WorkerInv, WorkTypeOK, Requests
<1>4. CASE RestartWorker
  BY <1>4 DEF RestartWorker, WorkerInv
<1>5. CASE \/ ExtensionConnects \/ ExtensionAnswers \/ HandleResponse \/ ExtensionCloses
           \/ UNCHANGED vars
  BY <1>5 DEF ExtensionConnects, ExtensionAnswers, HandleResponse, ExtensionCloses, vars,
              pageVars, workVars, WorkerInv
<1> QED BY <1>1, <1>2, <1>3, <1>4, <1>5 DEF Next

\* The worker runs nothing for a page that is not connected, and nothing it cannot name:
\* whatever it runs for a page is stopped when the page's socket closes.
THEOREM ControllersStop == Spec => []WorkerInv
<1>1. Init => WorkerInv
  BY DEF Init, WorkerInv
<1> QED BY <1>1, TypeCorrect, WorkerInv_Next, PTL DEF Spec

-------------------------------------------------------------------------------
(* The consent queue *)

\* The lookup, the consent queue and the restart, as far as requests are concerned.
LEMMA Places_Consent ==
    ASSUME TypeOK, PlacesInv, WorkerInv,
           \/ \E req \in Requests : SourcesFound(req)
           \/ ExtensionConnects \/ ExtensionAnswers \/ HandleResponse \/ ExtensionCloses
           \/ RestartWorker
    PROVE  PlacesInv'
<1>0. FrameTypeOK /\ DownTypeOK /\ WorkTypeOK /\ RestartsTypeOK /\ ExtTypeOK
  BY Groups
<1>a. ASSUME NEW q \in Pages, NEW n \in 1..MaxRequests
      PROVE  /\ InOnePlace(q, n) /\ (InSomePlace(q, n) => promise[q][n] = "pending")
             /\ OnceIn(outbox[q], Asks(n)) /\ OnceIn(up[q], Asks(n))
             /\ OnceIn(queue, {Req(q, n)}) /\ OnceIn(down[q], Answers(n))
  BY DEF PlacesInv, InOnePlace
<1>b. \A q \in Pages : frame[q] \notin {"open", "gone"} => up[q] = <<>> /\ down[q] = <<>>
  BY DEF PlacesInv
<1>c. ASSUME NEW p \in Pages, NEW msg \in Messages, Send(p, msg)
      PROVE  /\ \A q \in Pages : frame[q] \notin {"open", "gone"} => down'[q] = <<>>
             /\ \A q \in Pages, n \in 1..MaxRequests :
                  ~(q = p /\ msg \in Answers(n)) =>
                      (InDown(q, n)' <=> InDown(q, n)) /\ OnceIn(down'[q], Answers(n))
             /\ \A n \in 1..MaxRequests : ~InDown(p, n) => OnceIn(down'[p], Answers(n))
  <2>1. ASSUME NEW q \in Pages
        PROVE  \/ down'[q] = down[q]
               \/ /\ q = p /\ down'[q] = Append(down[q], msg)
                  /\ ~Left(q) /\ session[q] \in {"live", "deaf"}
    BY <1>0, <1>c DEF Send, DownTypeOK
  <2>2. ASSUME NEW q \in Pages, frame[q] \notin {"open", "gone"} PROVE down'[q] = <<>>
    BY <1>b, <2>1, <2>2 DEF WorkerInv
  <2>3. ASSUME NEW q \in Pages, NEW n \in 1..MaxRequests, ~(q = p /\ msg \in Answers(n))
        PROVE  (InDown(q, n)' <=> InDown(q, n)) /\ OnceIn(down'[q], Answers(n))
    <3>1. CASE down'[q] = down[q]
      BY <1>a, <3>1, PlacesSame
    <3>2. CASE q = p /\ down'[q] = Append(down[q], msg)
      <4>1. /\ Holds(Append(down[q], msg), Answers(n)) <=> Holds(down[q], Answers(n))
            /\ OnceIn(Append(down[q], msg), Answers(n)) <=> OnceIn(down[q], Answers(n))
        BY <1>0, <2>3, <3>2, AppendHolds DEF DownTypeOK
      <4> QED BY <1>a, <3>2, <4>1 DEF InDown
    <3> QED BY <2>1, <3>1, <3>2
  <2>4. ASSUME NEW n \in 1..MaxRequests, ~InDown(p, n) PROVE OnceIn(down'[p], Answers(n))
    <3>1. CASE down'[p] = down[p]
      BY <1>a, <3>1, PlacesSame
    <3>2. CASE down'[p] = Append(down[p], msg)
      <4>1. /\ down[p] \in Seq(Messages) /\ ~Holds(down[p], Answers(n))
            /\ OnceIn(down[p], Answers(n))
        BY <1>0, <1>a, <2>4 DEF DownTypeOK, InDown
      <4>2. OnceIn(Append(down[p], msg), Answers(n))
        BY <4>1, AppendHolds
      <4> QED BY <3>2, <4>2
    <3> QED BY <2>1, <3>1, <3>2
  <2> QED BY <2>2, <2>3, <2>4
<1>1. ASSUME NEW req \in Requests, SourcesFound(req) PROVE PlacesInv'
  <2> DEFINE p == req.page
             k == req.n
             ref == ObjectRef("source", req.n)
  <2>1. /\ p \in Pages /\ k \in 1..MaxRequests /\ ref \in Refs
        /\ req \in capturing /\ capturing' = capturing \ {req}
        /\ UNCHANGED <<frame, outbox, up, promise>>
        /\ \A q \in Pages, n \in 1..MaxRequests : Req(q, n) = req <=> q = p /\ n = k
    <3>1. p \in Pages /\ k \in 1..MaxRequests /\ req = Req(p, k)
      BY DEF Requests, Req
    <3>2. ref \in Refs
      BY <1>0, <3>1, RefTypes
    <3>3. \A q, n : Req(q, n) = Req(p, k) <=> q = p /\ n = k
      BY DEF Req
    <3>4. /\ req \in capturing /\ capturing' = capturing \ {req}
          /\ UNCHANGED <<frame, outbox, up, promise>>
      BY <1>1 DEF SourcesFound, pageVars
    <3> QED BY <3>1, <3>2, <3>3, <3>4
  <2>2. ASSUME NEW q \in Pages, NEW n \in 1..MaxRequests
        PROVE  InCapture(q, n)' <=> InCapture(q, n) /\ ~(q = p /\ n = k)
    BY <2>1 DEF InCapture
  <2>3. InCapture(p, k) /\ promise[p][k] = "pending"
        /\ ~InOutbox(p, k) /\ ~InUp(p, k) /\ ~InQueue(p, k) /\ ~InDown(p, k)
    <3>1. InCapture(p, k)
      BY <2>1 DEF InCapture
    <3> QED BY <1>a, <2>1, <3>1 DEF InOnePlace, InSomePlace
  <2>4. ASSUME NEW msg \in Messages, Send(p, msg), UNCHANGED queue,
               \A n \in 1..MaxRequests : msg \in Answers(n) <=> n = k
        PROVE  PlacesInv'
    <3>1. ASSUME NEW q \in Pages, NEW n \in 1..MaxRequests
          PROVE  InOnePlace(q, n)' /\ (InSomePlace(q, n)' => promise'[q][n] = "pending")
      <4>1. CASE q = p /\ n = k
        BY <1>a, <1>c, <2>1, <2>2, <2>3, <2>4, <4>1, PlacesSame DEF InOnePlace, InSomePlace
      <4>2. CASE ~(q = p /\ n = k)
        <5>1. (InDown(q, n)' <=> InDown(q, n)) /\ OnceIn(down'[q], Answers(n))
          BY <1>c, <2>1, <2>4, <4>2
        <5> QED BY <1>a, <2>1, <2>2, <2>4, <4>2, <5>1, PlacesLost, PlacesSame
      <4> QED BY <4>1, <4>2
    <3> QED BY <1>b, <1>c, <2>1, <2>4, <3>1 DEF PlacesInv
  <2>5. CASE UNCHANGED <<down, queue>>
    <3>1. ASSUME NEW q \in Pages, NEW n \in 1..MaxRequests
          PROVE  InOnePlace(q, n)' /\ (InSomePlace(q, n)' => promise'[q][n] = "pending")
      BY <1>a, <2>1, <2>2, <2>5, PlacesLost, PlacesSame
    <3> QED BY <1>b, <2>1, <2>5, <3>1 DEF PlacesInv
  <2>6. CASE AddToQueue(req) /\ UNCHANGED down
    <3>1. queue' = Append(queue, req)
      BY <2>6 DEF AddToQueue
    <3>2. ASSUME NEW q \in Pages, NEW n \in 1..MaxRequests
          PROVE  /\ InQueue(q, n)' <=> InQueue(q, n) \/ (q = p /\ n = k)
                 /\ OnceIn(queue', {Req(q, n)})
      <4>1. /\ Holds(Append(queue, req), {Req(q, n)}) <=> Holds(queue, {Req(q, n)}) \/ (q = p /\ n = k)
            /\ OnceIn(Append(queue, req), {Req(q, n)})
                  <=> OnceIn(queue, {Req(q, n)}) /\ ~(q = p /\ n = k /\ InQueue(q, n))
        BY <1>0, <2>1, AppendHolds DEF ExtTypeOK, InQueue
      <4> QED BY <1>a, <2>3, <3>1, <4>1 DEF InQueue
    <3>3. ASSUME NEW q \in Pages, NEW n \in 1..MaxRequests
          PROVE  InOnePlace(q, n)' /\ (InSomePlace(q, n)' => promise'[q][n] = "pending")
      <4>1. CASE q = p /\ n = k
        BY <1>a, <2>1, <2>2, <2>3, <2>6, <3>2, <4>1, PlacesSame DEF InOnePlace, InSomePlace
      <4>2. CASE ~(q = p /\ n = k)
        BY <1>a, <2>1, <2>2, <2>6, <3>2, <4>2, PlacesLost, PlacesSame
      <4> QED BY <4>1, <4>2
    <3> QED BY <1>b, <2>1, <2>6, <3>3 DEF PlacesInv
  <2>7. \/ Send(p, [call |-> "noSources", n |-> k]) /\ UNCHANGED queue
        \/ Send(p, [call |-> "gotSources", n |-> k, source |-> ref]) /\ UNCHANGED queue
        \/ UNCHANGED <<down, queue>>
        \/ AddToQueue(req) /\ UNCHANGED down
    BY <1>1 DEF SourcesFound
  <2>8. ASSUME NEW msg \in {[call |-> "noSources", n |-> k], [call |-> "gotSources", n |-> k, source |-> ref]}
        PROVE  msg \in Messages /\ \A n \in 1..MaxRequests : msg \in Answers(n) <=> n = k
    BY <2>1 DEF Answers, Messages
  <2> QED BY <2>4, <2>5, <2>6, <2>7, <2>8
<1>2. CASE ExtensionConnects \/ ExtensionAnswers \/ ExtensionCloses
  <2>1. /\ UNCHANGED <<frame, outbox, up, down, capturing, promise>>
        /\ queue' = queue \/ queue' = <<>>
    BY <1>2 DEF ExtensionConnects, ExtensionAnswers, ExtensionCloses, pageVars, workVars
  <2>2. ASSUME NEW q \in Pages, NEW n \in 1..MaxRequests
        PROVE  InOnePlace(q, n)' /\ (InSomePlace(q, n)' => promise'[q][n] = "pending")
    <3>1. (InQueue(q, n)' => InQueue(q, n)) /\ OnceIn(queue', {Req(q, n)})
      BY <1>a, <2>1, EmptyHolds DEF InQueue
    <3> QED BY <1>a, <2>1, <3>1, PlacesLost, PlacesSame
  <2> QED BY <1>b, <2>1, <2>2 DEF PlacesInv
<1>3. CASE HandleResponse
  <2> DEFINE req == Head(queue)
             answer == Head(verdicts)
             p == req.page
             k == req.n
             msg == Answer(req, answer)
  <2>1. /\ queue \in Seq(Requests) /\ queue # <<>> /\ req \in Requests /\ queue' = Tail(queue)
        /\ UNCHANGED <<frame, outbox, up, capturing, promise>>
        /\ Send(p, msg) \/ UNCHANGED down
    BY <1>0, <1>3 DEF HandleResponse, ExtTypeOK, pageVars, workVars
  <2>2. p \in Pages /\ k \in 1..MaxRequests
        /\ \A q \in Pages, n \in 1..MaxRequests : req \in {Req(q, n)} <=> q = p /\ n = k
    BY <2>1 DEF Requests, Req
  <2>3. msg \in Messages /\ \A n \in 1..MaxRequests : msg \in Answers(n) <=> n = k
    <3>1. ObjectRef("source", k) \in Refs
      BY <1>0, <2>2, RefTypes
    <3> QED BY <2>2, <3>1 DEF Answer, Answers, Messages
  <2>4. ASSUME NEW q \in Pages, NEW n \in 1..MaxRequests
        PROVE  /\ InQueue(q, n)' => InQueue(q, n)
               /\ OnceIn(queue', {Req(q, n)})
               /\ q = p /\ n = k => InQueue(q, n) /\ ~InQueue(q, n)'
    BY <1>a, <2>1, <2>2, TailHolds DEF InQueue
  <2>5. ASSUME NEW q \in Pages, NEW n \in 1..MaxRequests
        PROVE  InOnePlace(q, n)' /\ (InSomePlace(q, n)' => promise'[q][n] = "pending")
    <3>1. CASE q = p /\ n = k
      <4>1. ~InDown(q, n)
        BY <1>a, <2>4, <3>1 DEF InOnePlace
      <4>2. OnceIn(down'[q], Answers(n))
        BY <1>a, <1>c, <2>1, <2>2, <2>3, <3>1, <4>1, PlacesSame
      <4> QED BY <1>a, <2>1, <2>4, <3>1, <4>2, PlacesSame DEF InOnePlace, InSomePlace
    <3>2. CASE ~(q = p /\ n = k)
      <4>1. (InDown(q, n)' <=> InDown(q, n)) /\ OnceIn(down'[q], Answers(n))
        BY <1>a, <1>c, <2>1, <2>2, <2>3, <3>2, PlacesSame
      <4> QED BY <1>a, <2>1, <2>4, <4>1, PlacesLost, PlacesSame
    <3> QED BY <3>1, <3>2
  <2>6. \A q \in Pages : frame'[q] \notin {"open", "gone"} => up'[q] = <<>> /\ down'[q] = <<>>
    BY <1>b, <1>c, <2>1, <2>2, <2>3
  <2> QED BY <2>5, <2>6 DEF PlacesInv
<1>4. CASE RestartWorker
  <2>1. /\ \A q \in Pages : up'[q] = <<>> /\ down'[q] = <<>>
        /\ queue' = <<>> /\ capturing' = {} /\ UNCHANGED <<outbox, promise>>
    BY <1>4 DEF RestartWorker
  <2>2. ASSUME NEW q \in Pages, NEW n \in 1..MaxRequests
        PROVE  InOnePlace(q, n)' /\ (InSomePlace(q, n)' => promise'[q][n] = "pending")
    <3>1. /\ ~InUp(q, n)' /\ OnceIn(up'[q], Asks(n)) /\ ~InDown(q, n)'
          /\ OnceIn(down'[q], Answers(n)) /\ ~InQueue(q, n)' /\ OnceIn(queue', {Req(q, n)})
          /\ ~InCapture(q, n)'
      BY <2>1, EmptyHolds DEF InUp, InDown, InQueue, InCapture
    <3> QED BY <1>a, <2>1, <3>1, PlacesLost, PlacesSame
  <2> QED BY <2>1, <2>2 DEF PlacesInv
<1> QED BY <1>1, <1>2, <1>3, <1>4

LEMMA Places_Next ==
    ASSUME TypeOK, WorkerInv, PlacesInv, [Next]_vars
    PROVE  PlacesInv'
<1>1. CASE UNCHANGED vars
  <2>1. UNCHANGED <<frame, outbox, up, down, queue, capturing, promise>>
    BY <1>1 DEF vars, pageVars, workVars, extVars
  <2>2. ASSUME NEW q \in Pages, NEW n \in 1..MaxRequests
        PROVE  InOnePlace(q, n)' /\ (InSomePlace(q, n)' => promise'[q][n] = "pending")
    BY <2>1, PlacesLost, PlacesSame DEF PlacesInv, InOnePlace
  <2> QED BY <2>1, <2>2 DEF PlacesInv
<1> QED BY <1>1, Places_Page, Places_Worker, Places_Consent DEF Next

LEMMA OneOfTwo == ASSUME NEW a \in Nat \ {0}, NEW b \in Nat, a + b <= 1 PROVE a = 1 /\ b = 0
  OBVIOUS

LEMMA ShortSequence ==
    ASSUME NEW S, NEW s \in Seq(S)
    PROVE  /\ Len(s) \in Nat /\ (Len(s) = 0 <=> s = <<>>)
           /\ Len(s) = 1 => Tail(s) = <<>>
           /\ s # <<>> => Head(s) \in S
           /\ Len(s) > 1 => Tail(s) # <<>> /\ Head(Tail(s)) = s[2] /\ s[2] \in S
           /\ \A e \in S : Append(<<>>, e) = <<e>>
<1>1. Len(s) \in Nat /\ (Len(s) = 0 <=> s = <<>>)
  OBVIOUS
<1>2. ASSUME Len(s) = 1 PROVE Tail(s) = <<>>
  <2>1. Tail(s) \in Seq(S) /\ Len(Tail(s)) = 0
    BY <1>2, HeadTailProperties
  <2> QED BY <2>1, EmptySeq
<1>3. s # <<>> => Head(s) \in S
  OBVIOUS
<1>4. Len(s) > 1 => Tail(s) # <<>> /\ Head(Tail(s)) = s[2] /\ s[2] \in S
  OBVIOUS
<1>5. \A e \in S : Append(<<>>, e) = <<e>>
  OBVIOUS
<1> QED BY <1>1, <1>2, <1>3, <1>4, <1>5

LEMMA Consent_Next ==
    ASSUME TypeOK, ConsentInv, [Next]_vars
    PROVE  ConsentInv'
<1>0. ExtTypeOK
  BY Groups
<1>1. CASE \/ UNCHANGED extVars
           \/ \E p \in Pages : PageStep(p) \/ WorkerStep(p)
  <2>1. UNCHANGED extVars
    BY <1>1 DEF PageStep, WorkerStep, FrameLoaded, Accept, PageMessage, GetUserMedia, Show,
                StopShown, LeavePage, WorkerMessage, EndOfStream, SocketClosed
  <2> QED BY <2>1 DEF ConsentInv, Consent, extVars
<1>2. ASSUME NEW req \in Requests, SourcesFound(req) PROVE ConsentInv'
  <2>1. UNCHANGED <<ext, verdicts, verdict>>
    BY <1>2 DEF SourcesFound
  <2>2. CASE UNCHANGED <<queue, asked>>
    BY <2>1, <2>2 DEF ConsentInv, Consent
  <2>3. CASE Consent /\ AddToQueue(req)
    <3>1. CASE queue = <<>>
      <4>1. /\ asked = <<>> /\ verdicts = <<>>
            /\ queue' = <<req>> /\ asked' = <<req>>
        <5>1. asked = <<>> /\ verdicts = <<>>
          BY <3>1 DEF ConsentInv
        <5> QED BY <2>3, <3>1, <5>1 DEF AddToQueue
      <4> QED BY <2>1, <2>3, <4>1 DEF ConsentInv, Consent
    <3>2. CASE queue # <<>>
      <4>1. asked' = asked /\ queue' # <<>> /\ Head(queue') = Head(queue)
        BY <1>0, <2>3, <3>2 DEF AddToQueue, ExtTypeOK
      <4> QED BY <2>1, <2>3, <3>2, <4>1 DEF ConsentInv, Consent
    <3> QED BY <3>1, <3>2
  <2> QED BY <1>2, <2>2, <2>3 DEF SourcesFound
<1>3. CASE ExtensionConnects \/ RestartWorker
  <2>1. queue' = <<>> /\ asked' = <<>> /\ verdicts' = <<>>
    BY <1>3 DEF ExtensionConnects, RestartWorker
  <2> QED BY <2>1 DEF ConsentInv
<1>4. CASE ExtensionAnswers
  <2>1. /\ Len(asked) = 1 /\ verdicts = <<>> /\ queue # <<>> /\ Head(asked) = Head(queue)
        /\ Consent /\ asked' = <<>> /\ Head(asked) \in Requests
    <3>1. /\ asked \in Seq(Requests) /\ asked # <<>> /\ asked' = Tail(asked)
          /\ verdicts \in Seq([req : Requests, name : {"accept", "reject"}])
      BY <1>0, <1>4 DEF ExtensionAnswers, ExtTypeOK
    <3>2. /\ Len(asked) + Len(verdicts) <= 1 /\ Consent
          /\ queue # <<>> /\ Head(asked) = Head(queue)
      BY <3>1 DEF ConsentInv
    <3>3. Len(asked) = 1 /\ Len(verdicts) = 0
      <4>1. Len(asked) \in Nat \ {0} /\ Len(verdicts) \in Nat
        BY <3>1
      <4> QED BY <3>2, <4>1, OneOfTwo
    <3> QED BY <3>1, <3>2, <3>3, ShortSequence
  <2>2. PICK v \in {"accept", "reject"} :
            /\ verdicts' = Append(verdicts, [req |-> Head(asked), name |-> v])
            /\ verdict' = [verdict EXCEPT ![Head(asked)] = v]
            /\ UNCHANGED <<ext, queue>>
    BY <1>4 DEF ExtensionAnswers
  <2>3. /\ Len(verdicts') = 1 /\ Head(verdicts').req = Head(queue) /\ Head(verdicts').name = v
        /\ verdict'[Head(queue)] = v
    BY <1>0, <2>1, <2>2 DEF ExtTypeOK
  <2>4. Len(asked') = 0
    BY <2>1
  <2> QED BY <2>1, <2>2, <2>3, <2>4 DEF ConsentInv, Consent
<1>5. CASE HandleResponse
  <2>1. /\ Len(verdicts) = 1 /\ asked = <<>> /\ verdicts' = <<>> /\ ext' \in {"live", "deaf"}
        /\ queue # <<>> /\ queue' = Tail(queue) /\ UNCHANGED verdict
    <3>1. /\ verdicts \in Seq([req : Requests, name : {"accept", "reject"}])
          /\ verdicts # <<>> /\ verdicts' = Tail(verdicts) /\ asked \in Seq(Requests)
          /\ queue # <<>> /\ queue' = Tail(queue) /\ UNCHANGED verdict
          /\ ext' \in {"live", "deaf"}
      BY <1>0, <1>5 DEF HandleResponse, ExtTypeOK
    <3>2. Len(asked) + Len(verdicts) <= 1
      BY DEF ConsentInv
    <3>3. Len(verdicts) = 1 /\ Len(asked) = 0
      <4>1. Len(verdicts) \in Nat \ {0} /\ Len(asked) \in Nat
        BY <3>1
      <4>2. Len(verdicts) + Len(asked) <= 1
        BY <3>2, <4>1
      <4> QED BY <4>1, <4>2, OneOfTwo
    <3> QED BY <3>1, <3>3, ShortSequence
  <2>2. CASE Len(queue) > 1 /\ asked' = Append(asked, queue[2])
    <3>1. asked' = <<queue[2]>> /\ queue' # <<>> /\ Head(queue') = queue[2]
      <4>1. queue \in Seq(Requests)
        BY <1>0 DEF ExtTypeOK
      <4> QED BY <2>1, <2>2, <4>1, ShortSequence
    <3> QED BY <2>1, <3>1 DEF ConsentInv, Consent
  <2>3. CASE ~(Len(queue) > 1) /\ asked' = asked
    <3>1. queue' = <<>>
      BY <1>0, <2>1, <2>3 DEF ExtTypeOK
    <3> QED BY <2>1, <2>3, <3>1 DEF ConsentInv, Consent
  <2>4. CASE ext' = "deaf" /\ asked' = asked
    BY <2>1, <2>4 DEF ConsentInv, Consent
  <2> QED BY <1>5, <2>2, <2>3, <2>4 DEF HandleResponse
<1>6. CASE ExtensionCloses
  BY <1>0, <1>6 DEF ExtensionCloses, ConsentInv, Consent
<1> QED BY <1>1, <1>2, <1>3, <1>4, <1>5, <1>6 DEF Next, vars

-------------------------------------------------------------------------------
(* What the user said *)

LEMMA AgreesKept ==
    ASSUME NEW p \in Pages, NEW n \in 1..MaxRequests, Agrees(p, n),
           NEW v, v = verdict[Req(p, n)], verdict'[Req(p, n)] = v,
           v # "none" =>
              /\ InOutbox(p, n)' \/ InUp(p, n)' =>
                    InOutbox(p, n) \/ InUp(p, n) \/ promise[p][n] = "none"
              /\ InCapture(p, n)' => InCapture(p, n) \/ InUp(p, n)
              /\ Holds(down'[p], Denies(n, v)) => Holds(down[p], Denies(n, v))
              /\ \/ promise'[p][n] = promise[p][n]
                 \/ /\ promise'[p][n] # "none"
                    /\ promise'[p][n] # (IF v = "accept" THEN "rejected" ELSE "resolved")
    PROVE  Agrees(p, n)'
  BY DEF Agrees

LEMMA Verdict_Page ==
    ASSUME TypeOK, PlacesInv, VerdictInv, NEW p \in Pages, PageStep(p)
    PROVE  VerdictInv'
<1>0. ScriptTypeOK /\ DownTypeOK
  BY Groups
<1>1. UNCHANGED <<capturing, verdict>> /\ AsksAnew
  BY Places_Page DEF PageStep, FrameLoaded, Accept, PageMessage, GetUserMedia, Show, StopShown,
     LeavePage, workVars, extVars
<1>2. ASSUME NEW q \in Pages, NEW T PROVE Holds(down'[q], T) => Holds(down[q], T)
  <2>1. CASE down'[q] = down[q]
    BY <2>1
  <2>2. CASE down'[q] = <<>>
    BY <2>2, EmptyHolds
  <2>3. CASE down[q] # <<>> /\ down'[q] = Tail(down[q])
    <3>1. down[q] \in Seq(Messages)
      BY <1>0 DEF DownTypeOK
    <3> QED BY <2>3, <3>1, TailHolds
  <2>4. \/ UNCHANGED down
        \/ down' = [down EXCEPT ![p] = <<>>]
        \/ down[p] # <<>> /\ down' = [down EXCEPT ![p] = Tail(@)]
    BY DEF PageStep, FrameLoaded, Accept, PageMessage, GetUserMedia, Show, StopShown, LeavePage
  <2> QED BY <1>0, <2>1, <2>2, <2>3, <2>4 DEF DownTypeOK
<1>3. ASSUME NEW q \in Pages, NEW n \in 1..MaxRequests
      PROVE  \/ promise'[q][n] = promise[q][n]
             \/ promise'[q][n] = "pending"
             \/ \E msg \in Messages :
                   /\ Holds(down[q], {msg}) /\ msg.n = n
                   /\ \/ msg.call = "gotSources" /\ promise'[q][n] = "resolved"
                      \/ msg.call = "noSources" /\ promise'[q][n] = "rejected"
  <2>1. CASE UNCHANGED promise
    BY <2>1
  <2>2. ASSUME NEW k \in 1..MaxRequests, promise' = [promise EXCEPT ![p][k] = "pending"]
        PROVE  promise'[q][n] \in {promise[q][n], "pending"}
    BY <1>0, <2>2 DEF ScriptTypeOK
  <2>3. CASE PageMessage(p)
    <3> DEFINE msg == Head(down[p])
    <3>1. msg \in Messages /\ down[p] \in Seq(Messages) /\ down[p] # <<>>
      BY <1>0, <2>3 DEF PageMessage, DownTypeOK
    <3>2. Holds(down[p], {msg})
      BY <3>1, TailHolds
    <3> HIDE DEF msg
    <3>3. CASE msg.call = "gotSources" /\ GotSources(p, msg)
      <4>1. msg.n \in 1..MaxRequests
        BY <3>1, <3>3, MessageFields
      <4>2. promise'[q][n] = promise[q][n] \/ (q = p /\ n = msg.n /\ promise'[q][n] = "resolved")
        <5>1. PICK k \in 1..MaxRequests : k = msg.n
          BY <4>1
        <5>2. \/ promise' = promise
              \/ promise' = [promise EXCEPT ![p][k] = IF @ = "pending" THEN "resolved" ELSE @]
          BY <3>3, <5>1 DEF GotSources
        <5>3. CASE promise' = [promise EXCEPT ![p][k] = IF @ = "pending" THEN "resolved" ELSE @]
          BY <1>0, <5>1, <5>3 DEF ScriptTypeOK
        <5> QED BY <5>2, <5>3
      <4> QED BY <3>1, <3>2, <3>3, <4>2
    <3>4. CASE msg.call = "noSources" /\ NoSources(p, msg)
      <4>1. msg.n \in 1..MaxRequests
        BY <3>1, <3>4, MessageFields
      <4>2. promise'[q][n] = promise[q][n] \/ (q = p /\ n = msg.n /\ promise'[q][n] = "rejected")
        BY <1>0, <3>4, <4>1 DEF NoSources, ScriptTypeOK
      <4> QED BY <3>1, <3>2, <3>4, <4>2
    <3> QED BY <2>1, <2>3, <3>3, <3>4 DEF PageMessage, Rendered, RemoteError, msg
  <2>4. CASE GetUserMedia(p)
    <3>1. \E k \in 1..MaxRequests : promise' = [promise EXCEPT ![p][k] = "pending"]
      BY <2>4 DEF GetUserMedia
    <3> QED BY <2>2, <3>1
  <2> QED BY <2>1, <2>3, <2>4 DEF PageStep, FrameLoaded, Accept, Show, StopShown, LeavePage
<1>4. ASSUME NEW q \in Pages, NEW n \in 1..MaxRequests PROVE Agrees(q, n)'
  <2> DEFINE v == verdict[Req(q, n)]
  <2>1. Agrees(q, n) /\ v \in {"none", "accept", "reject"}
    <3>1. Req(q, n) \in Requests
      BY DEF Req, Requests
    <3> QED BY <3>1 DEF VerdictInv, TypeOK
  <2>2. ASSUME v # "none", NEW msg \in Messages, Holds(down[q], {msg}), msg.n = n,
               msg.call \in {"gotSources", "noSources"}
        PROVE  msg.call # (IF v = "accept" THEN "noSources" ELSE "gotSources")
    <3>1. msg \notin Denies(n, v)
      <4>1. \A T : msg \in T => Holds(down[q], T)
        BY <2>2 DEF Holds
      <4> QED BY <2>1, <2>2, <4>1 DEF Agrees
    <3> QED BY <2>2, <3>1 DEF Denies, Answers
  <2>3. v # "none" => \/ promise'[q][n] = promise[q][n]
                      \/ /\ promise'[q][n] # "none"
                         /\ promise'[q][n] # (IF v = "accept" THEN "rejected" ELSE "resolved")
    <3>1. CASE promise'[q][n] \in {promise[q][n], "pending"}
      BY <2>1, <3>1
    <3>2. ASSUME v # "none", NEW msg \in Messages, Holds(down[q], {msg}), msg.n = n,
                 \/ msg.call = "gotSources" /\ promise'[q][n] = "resolved"
                 \/ msg.call = "noSources" /\ promise'[q][n] = "rejected"
          PROVE  /\ promise'[q][n] # "none"
                 /\ promise'[q][n] # (IF v = "accept" THEN "rejected" ELSE "resolved")
      <4>1. msg.call # (IF v = "accept" THEN "noSources" ELSE "gotSources")
        BY <2>2, <3>2
      <4> QED BY <3>2, <4>1
    <3>3. ASSUME \E msg \in Messages :
                    /\ Holds(down[q], {msg}) /\ msg.n = n
                    /\ \/ msg.call = "gotSources" /\ promise'[q][n] = "resolved"
                       \/ msg.call = "noSources" /\ promise'[q][n] = "rejected",
                 v # "none"
          PROVE  /\ promise'[q][n] # "none"
                 /\ promise'[q][n] # (IF v = "accept" THEN "rejected" ELSE "resolved")
      <4>1. PICK msg \in Messages :
                    /\ Holds(down[q], {msg}) /\ msg.n = n
                    /\ \/ msg.call = "gotSources" /\ promise'[q][n] = "resolved"
                       \/ msg.call = "noSources" /\ promise'[q][n] = "rejected"
        BY <3>3
      <4> HIDE DEF v
      <4> QED BY <3>2, <3>3, <4>1
    <3>4. \/ promise'[q][n] \in {promise[q][n], "pending"}
          \/ \E msg \in Messages :
                    /\ Holds(down[q], {msg}) /\ msg.n = n
                    /\ \/ msg.call = "gotSources" /\ promise'[q][n] = "resolved"
                       \/ msg.call = "noSources" /\ promise'[q][n] = "rejected"
      BY <1>3
    <3> HIDE DEF v
    <3> QED BY <3>1, <3>3, <3>4
  <2>4. verdict'[Req(q, n)] = v /\ (InCapture(q, n)' <=> InCapture(q, n))
    BY <1>1, PlacesSame
  <2> HIDE DEF v
  <2>5. /\ InOutbox(q, n)' \/ InUp(q, n)' => InOutbox(q, n) \/ InUp(q, n) \/ promise[q][n] = "none"
        /\ Holds(down'[q], Denies(n, v)) => Holds(down[q], Denies(n, v))
    BY <1>1, <1>2 DEF AsksAnew
  <2>6. v = verdict[Req(q, n)]
    BY DEF v
  <2> QED BY <2>1, <2>3, <2>4, <2>5, <2>6, AgreesKept
<1> QED BY <1>4 DEF VerdictInv

LEMMA SendHolds ==
    ASSUME DownTypeOK, NEW p \in Pages, NEW msg \in Messages, Send(p, msg),
           NEW q \in Pages, NEW T, ~(q = p /\ msg \in T)
    PROVE  Holds(down'[q], T) => Holds(down[q], T)
<1>1. down[q] \in Seq(Messages) /\ down'[q] \in {down[q], Append(down[q], msg)}
  BY DEF Send, DownTypeOK
<1>2. CASE q = p
  <2>1. Holds(Append(down[q], msg), T) <=> Holds(down[q], T) \/ msg \in T
    BY <1>1, AppendHolds
  <2> QED BY <1>1, <1>2, <2>1
<1>3. CASE q # p
  BY <1>3 DEF Send, DownTypeOK
<1> QED BY <1>2, <1>3

LEMMA Verdict_Worker ==
    ASSUME TypeOK, VerdictInv, NEW p \in Pages, WorkerStep(p)
    PROVE  VerdictInv'
<1>0. FrameTypeOK /\ DownTypeOK /\ RestartsTypeOK
  BY Groups
<1>1. UNCHANGED <<outbox, promise, verdict>>
  BY DEF WorkerStep, WorkerMessage, EndOfStream, SocketClosed, pageVars, extVars
<1>2. ASSUME NEW q \in Pages, NEW n \in 1..MaxRequests, NEW v
      PROVE  /\ InUp(q, n)' => InUp(q, n)
             /\ InCapture(q, n)' => InCapture(q, n) \/ InUp(q, n)
             /\ Holds(down'[q], Denies(n, v)) => Holds(down[q], Denies(n, v))
  <2>1. CASE EndOfStream(p) \/ SocketClosed(p)
    BY <2>1, PlacesSame DEF EndOfStream, SocketClosed
  <2>2. CASE WorkerMessage(p)
    <3> DEFINE msg == Head(up[p])
    <3>1. /\ msg \in Calls /\ up[p] \in Seq(Calls) /\ up[p] # <<>>
          /\ up'[q] = IF q = p THEN Tail(up[p]) ELSE up[q]
      BY <1>0, <2>2 DEF WorkerMessage, Receives, FrameTypeOK
    <3>2. /\ InUp(q, n)' => InUp(q, n)
          /\ q = p /\ msg \in Asks(n) => InUp(q, n)
      BY <3>1, TailHolds DEF InUp
    <3>3. InCapture(q, n)' => InCapture(q, n) \/ InUp(q, n)
      <4>1. CASE UNCHANGED capturing
        BY <4>1, PlacesSame
      <4>2. CASE msg.call = "requestSources" /\ RequestSources(p, msg)
        <5>1. msg \in Asks(msg.n)
          BY <3>1, <4>2, CallFields
        <5>2. capturing' = capturing \cup {Req(p, msg.n)}
          BY <4>2 DEF RequestSources, Req
        <5> QED BY <3>2, <5>1, <5>2 DEF InCapture, Req
      <4> QED BY <2>2, <4>1, <4>2 DEF WorkerMessage, RenderSources, StopController
    <3>4. Holds(down'[q], Denies(n, v)) => Holds(down[q], Denies(n, v))
      <4>1. CASE UNCHANGED down
        BY <4>1
      <4>2. CASE msg.call = "renderSources" /\ RenderSources(p, msg)
        <5> DEFINE ref == ObjectRef("controller", msg.n)
        <5>1. msg.n \in Shows /\ ref \in Refs
          BY <1>0, <3>1, <4>2, CallFields, RefTypes
        <5>2. /\ [call |-> "result", n |-> msg.n, controller |-> ref] \in Messages
              /\ [call |-> "error", n |-> msg.n] \in Messages
          BY <5>1 DEF Messages
        <5>3. PICK m \in Messages : m.call \in {"result", "error"} /\ Send(p, m)
          BY <4>2, <5>2 DEF RenderSources
        <5>4. m \notin Denies(n, v)
          BY <5>3 DEF Denies, Answers
        <5> QED BY <1>0, <5>3, <5>4, SendHolds
      <4> QED BY <2>2, <4>1, <4>2 DEF WorkerMessage, RequestSources, StopController
    <3> QED BY <3>2, <3>3, <3>4
  <2> QED BY <2>1, <2>2 DEF WorkerStep
<1>3. ASSUME NEW q \in Pages, NEW n \in 1..MaxRequests PROVE Agrees(q, n)'
  <2>1. Agrees(q, n) /\ verdict'[Req(q, n)] = verdict[Req(q, n)] /\ promise'[q][n] = promise[q][n]
        /\ (InOutbox(q, n)' <=> InOutbox(q, n))
    BY <1>1, PlacesSame DEF VerdictInv
  <2> QED BY <1>2, <2>1, AgreesKept
<1> QED BY <1>3 DEF VerdictInv

LEMMA Verdict_Consent ==
    ASSUME TypeOK, PlacesInv, ConsentInv, VerdictInv,
           \/ \E req \in Requests : SourcesFound(req)
           \/ ExtensionConnects \/ ExtensionAnswers \/ HandleResponse \/ ExtensionCloses
           \/ RestartWorker
    PROVE  VerdictInv'
<1>0. DownTypeOK /\ RestartsTypeOK /\ ExtTypeOK
  BY Groups
<1>a. ASSUME NEW q \in Pages, NEW n \in 1..MaxRequests
      PROVE  Agrees(q, n) /\ InOnePlace(q, n) /\ (InSomePlace(q, n) => promise[q][n] = "pending")
  BY DEF VerdictInv, PlacesInv
<1>1. ASSUME NEW req \in Requests, SourcesFound(req) PROVE VerdictInv'
  <2> DEFINE p == req.page
             k == req.n
             ref == ObjectRef("source", req.n)
  <2>1. p \in Pages /\ k \in 1..MaxRequests /\ req = Req(p, k)
    BY DEF Requests, Req
  <2>2. /\ req \in capturing /\ capturing' = capturing \ {req}
        /\ UNCHANGED <<outbox, up, promise, verdict>>
    BY <1>1 DEF SourcesFound, pageVars
  <2>3. ref \in Refs
    BY <1>0, <2>1, RefTypes
  <2>4. UNCHANGED down \/ \E msg \in Messages :
                              Send(p, msg) /\ \A n \in 1..MaxRequests : msg \in Answers(n) => n = k
    <3>1. ASSUME NEW msg \in {[call |-> "noSources", n |-> k], [call |-> "gotSources", n |-> k, source |-> ref]}
          PROVE  msg \in Messages /\ \A n \in 1..MaxRequests : msg \in Answers(n) => n = k
      BY <2>1, <2>3 DEF Answers, Messages
    <3>2. \/ UNCHANGED down
          \/ Send(p, [call |-> "noSources", n |-> k])
          \/ Send(p, [call |-> "gotSources", n |-> k, source |-> ref])
      BY <1>1 DEF SourcesFound
    <3> QED BY <3>1, <3>2
  <2>5. ASSUME NEW q \in Pages, NEW n \in 1..MaxRequests PROVE Agrees(q, n)'
    <3> DEFINE v == verdict[Req(q, n)]
    <3>1. /\ Agrees(q, n) /\ verdict'[Req(q, n)] = v /\ promise'[q][n] = promise[q][n]
          /\ (InOutbox(q, n)' <=> InOutbox(q, n)) /\ (InUp(q, n)' <=> InUp(q, n))
          /\ InCapture(q, n)' => InCapture(q, n)
      BY <1>a, <2>2, PlacesSame DEF InCapture
    <3>2. ~(q = p /\ n = k) => (Holds(down'[q], Denies(n, v)) => Holds(down[q], Denies(n, v)))
      <4>1. CASE UNCHANGED down
        BY <4>1
      <4>2. ASSUME NEW msg \in Messages, Send(p, msg),
                   \A m \in 1..MaxRequests : msg \in Answers(m) => m = k,
                   ~(q = p /\ n = k)
            PROVE  Holds(down'[q], Denies(n, v)) => Holds(down[q], Denies(n, v))
        <5>1. ~(q = p /\ msg \in Denies(n, v))
          BY <4>2 DEF Denies
        <5> QED BY <1>0, <2>1, <4>2, <5>1, SendHolds
      <4> QED BY <2>4, <4>1, <4>2
    <3>3. q = p /\ n = k => v = "none"
      BY <1>a, <2>1, <2>2 DEF Agrees, InCapture
    <3> QED BY <3>1, <3>2, <3>3, AgreesKept
  <2> QED BY <2>5 DEF VerdictInv
<1>2. CASE ExtensionConnects \/ ExtensionCloses
  <2>1. UNCHANGED <<outbox, up, down, capturing, promise, verdict>>
    BY <1>2 DEF ExtensionConnects, ExtensionCloses, pageVars, workVars
  <2>2. ASSUME NEW q \in Pages, NEW n \in 1..MaxRequests PROVE Agrees(q, n)'
    BY <1>a, <2>1, PlacesSame, AgreesKept
  <2> QED BY <2>2 DEF VerdictInv
<1>3. CASE ExtensionAnswers
  <2>1. /\ UNCHANGED <<outbox, up, down, capturing, promise>>
        /\ Head(asked) = Head(queue) /\ queue # <<>> /\ queue \in Seq(Requests)
        /\ \E v \in {"accept", "reject"} : verdict' = [verdict EXCEPT ![Head(asked)] = v]
    BY <1>0, <1>3 DEF ExtensionAnswers, pageVars, workVars, ConsentInv, ExtTypeOK
  <2>2. ASSUME NEW q \in Pages, NEW n \in 1..MaxRequests PROVE Agrees(q, n)'
    <3>1. /\ InOutbox(q, n)' <=> InOutbox(q, n)
          /\ InUp(q, n)' <=> InUp(q, n)
          /\ InCapture(q, n)' <=> InCapture(q, n)
      BY <2>1, PlacesSame
    <3>2. CASE Req(q, n) = Head(queue)
      <4>1. InQueue(q, n)
        BY <2>1, <3>2, TailHolds DEF InQueue
      <4>2. /\ ~InOutbox(q, n) /\ ~InUp(q, n) /\ ~InCapture(q, n) /\ ~InDown(q, n)
            /\ promise[q][n] = "pending"
        BY <1>a, <4>1 DEF InOnePlace, InSomePlace
      <4>3. \A v : ~Holds(down[q], Denies(n, v))
        BY <4>2 DEF InDown, Denies, Holds
      <4> QED BY <2>1, <3>1, <4>2, <4>3 DEF Agrees
    <3>3. CASE Req(q, n) # Head(queue)
      <4>1. verdict'[Req(q, n)] = verdict[Req(q, n)]
        <5>1. Req(q, n) \in Requests
          BY DEF Req, Requests
        <5> QED BY <1>0, <2>1, <3>3, <5>1 DEF ExtTypeOK
      <4> QED BY <1>a, <2>1, <3>1, <4>1, AgreesKept
    <3> QED BY <3>2, <3>3
  <2> QED BY <2>2 DEF VerdictInv
<1>4. CASE HandleResponse
  <2> DEFINE req == Head(queue)
             answer == Head(verdicts)
             p == req.page
             k == req.n
             msg == Answer(req, answer)
  <2>1. /\ queue \in Seq(Requests) /\ queue # <<>> /\ req \in Requests
        /\ UNCHANGED <<outbox, up, capturing, promise, verdict>>
        /\ Send(p, msg) \/ UNCHANGED down
        /\ verdict[req] = answer.name
    BY <1>0, <1>4 DEF HandleResponse, ExtTypeOK, pageVars, workVars, ConsentInv
  <2>2. p \in Pages /\ k \in 1..MaxRequests /\ req = Req(p, k)
    BY <2>1 DEF Requests, Req
  <2>3. /\ msg \in Messages /\ \A n \in 1..MaxRequests : msg \in Answers(n) => n = k
        /\ msg.call = IF answer.name = "accept" THEN "gotSources" ELSE "noSources"
    <3>1. ObjectRef("source", k) \in Refs
      BY <1>0, <2>2, RefTypes
    <3> QED BY <2>2, <3>1 DEF Answer, Answers, Messages
  <2>4. ASSUME NEW q \in Pages, NEW n \in 1..MaxRequests PROVE Agrees(q, n)'
    <3>1. ~(q = p /\ msg \in Denies(n, verdict[Req(q, n)]))
      <4> HIDE DEF msg
      <4>1. msg \notin Denies(k, verdict[req])
        BY <2>1, <2>3 DEF Denies
      <4> QED BY <2>2, <2>3, <4>1 DEF Denies
    <3> HIDE DEF msg, p, req
    <3>2. Holds(down'[q], Denies(n, verdict[Req(q, n)])) => Holds(down[q], Denies(n, verdict[Req(q, n)]))
      BY <1>0, <2>1, <2>2, <2>3, <3>1, SendHolds
    <3> QED BY <1>a, <2>1, <3>2, PlacesSame, AgreesKept
  <2> QED BY <2>4 DEF VerdictInv
<1>5. CASE RestartWorker
  <2>1. /\ \A q \in Pages : up'[q] = <<>> /\ down'[q] = <<>>
        /\ capturing' = {} /\ UNCHANGED <<outbox, promise, verdict>>
    BY <1>5 DEF RestartWorker
  <2>2. ASSUME NEW q \in Pages, NEW n \in 1..MaxRequests PROVE Agrees(q, n)'
    <3>1. /\ ~InUp(q, n)' /\ ~InCapture(q, n)' /\ \A v : ~Holds(down'[q], Denies(n, v))
          /\ InOutbox(q, n)' <=> InOutbox(q, n)
      BY <2>1, EmptyHolds, PlacesSame DEF InUp, InCapture
    <3> QED BY <1>a, <2>1, <3>1, AgreesKept
  <2> QED BY <2>2 DEF VerdictInv
<1> QED BY <1>1, <1>2, <1>3, <1>4, <1>5

LEMMA Verdict_Next ==
    ASSUME TypeOK, PlacesInv, ConsentInv, VerdictInv, [Next]_vars
    PROVE  VerdictInv'
<1>1. CASE UNCHANGED vars
  <2>1. UNCHANGED <<outbox, up, down, capturing, promise, verdict>>
    BY <1>1 DEF vars, pageVars, workVars, extVars
  <2>2. ASSUME NEW q \in Pages, NEW n \in 1..MaxRequests PROVE Agrees(q, n)'
    BY <2>1, PlacesSame, AgreesKept DEF VerdictInv
  <2> QED BY <2>2 DEF VerdictInv
<1> QED BY <1>1, Verdict_Page, Verdict_Worker, Verdict_Consent DEF Next

-------------------------------------------------------------------------------
(* The properties *)

BridgeInv == TypeOK /\ WorkerInv /\ PlacesInv /\ ConsentInv /\ VerdictInv

LEMMA BridgeInv_Init == Init => BridgeInv
<1> SUFFICES ASSUME Init PROVE BridgeInv
  OBVIOUS
<1>1. TypeOK /\ WorkerInv
  BY TypeOK_Init DEF Init, WorkerInv
<1>2. ASSUME NEW p \in Pages, NEW n \in 1..MaxRequests
      PROVE  /\ ~InOutbox(p, n) /\ ~InUp(p, n) /\ ~InCapture(p, n) /\ ~InQueue(p, n) /\ ~InDown(p, n)
             /\ OnceIn(outbox[p], Asks(n)) /\ OnceIn(up[p], Asks(n))
             /\ OnceIn(queue, {Req(p, n)}) /\ OnceIn(down[p], Answers(n))
  BY EmptyHolds DEF Init, InOutbox, InUp, InCapture, InQueue, InDown
<1>3. PlacesInv
  BY <1>2 DEF Init, PlacesInv, InOnePlace, InSomePlace
<1>4. ConsentInv
  BY DEF Init, ConsentInv, Consent
<1>5. VerdictInv
  BY DEF Init, VerdictInv, Agrees, Requests, Req
<1> QED BY <1>1, <1>3, <1>4, <1>5 DEF BridgeInv

LEMMA BridgeInvAlways == Spec => []BridgeInv
<1>1. BridgeInv /\ [Next]_vars => BridgeInv'
  BY TypeOK_Next, WorkerInv_Next, Places_Next, Consent_Next, Verdict_Next DEF BridgeInv
<1> QED BY <1>1, BridgeInv_Init, PTL DEF Spec

\* A call of getUserMedia is in one place at most between page, worker and consent
\* queue, and nowhere once its promise is settled.
THEOREM AnsweredOnceAlways == Spec => []AnsweredOnce
<1>1. BridgeInv => AnsweredOnce
  <2> SUFFICES ASSUME BridgeInv, NEW p \in Pages, NEW n \in 1..MaxRequests
               PROVE  Places(p, n) <= (IF promise[p][n] = "pending" THEN 1 ELSE 0)
    BY DEF AnsweredOnce
  <2>0. FrameTypeOK /\ DownTypeOK /\ ExtTypeOK
    BY Groups DEF BridgeInv
  <2>1. InOnePlace(p, n) /\ (InSomePlace(p, n) => promise[p][n] = "pending")
    BY DEF BridgeInv, PlacesInv
  <2>2. Cardinality({i \in DOMAIN Waiting(p) : Waiting(p)[i] = [call |-> "requestSources", n |-> n]})
          = IF InOutbox(p, n) \/ InUp(p, n) THEN 1 ELSE 0
    <3>1. outbox[p] \in Seq(Calls) /\ up[p] \in Seq(Calls) /\ (outbox[p] = <<>> \/ up[p] = <<>>)
      BY <2>0 DEF FrameTypeOK, BridgeInv, PlacesInv
    <3>2. \/ Waiting(p) = outbox[p] /\ up[p] = <<>>
          \/ Waiting(p) = up[p] /\ outbox[p] = <<>>
      BY <3>1, ConcatEmptySeq DEF Waiting
    <3>3. \A s : {i \in DOMAIN s : s[i] = [call |-> "requestSources", n |-> n]}
                    = {i \in DOMAIN s : s[i] \in Asks(n)}
      BY DEF Asks
    <3> QED BY <2>1, <3>1, <3>2, <3>3, CountOnce, EmptyHolds DEF InOutbox, InUp, InOnePlace
  <2>3. Cardinality({r \in capturing : r = [page |-> p, n |-> n]}) = IF InCapture(p, n) THEN 1 ELSE 0
    <3>1. {r \in capturing : r = [page |-> p, n |-> n]} = IF InCapture(p, n) THEN {Req(p, n)} ELSE {}
      BY DEF InCapture, Req
    <3> QED BY <3>1, FS_Singleton, FS_EmptySet
  <2>4. Cardinality({i \in DOMAIN queue : queue[i] = [page |-> p, n |-> n]})
          = IF InQueue(p, n) THEN 1 ELSE 0
    <3>1. {i \in DOMAIN queue : queue[i] = [page |-> p, n |-> n]}
            = {i \in DOMAIN queue : queue[i] \in {Req(p, n)}}
      BY DEF Req
    <3> QED BY <2>0, <2>1, <3>1, CountOnce DEF InQueue, InOnePlace, ExtTypeOK
  <2>5. Cardinality({i \in DOMAIN down[p] : down[p][i].call \in {"gotSources", "noSources"}
                                             /\ down[p][i].n = n})
          = IF InDown(p, n) THEN 1 ELSE 0
    <3>1. \A i \in DOMAIN down[p] : down[p][i] \in Messages
      BY <2>0 DEF DownTypeOK
    <3>2. {i \in DOMAIN down[p] : down[p][i].call \in {"gotSources", "noSources"} /\ down[p][i].n = n}
            = {i \in DOMAIN down[p] : down[p][i] \in Answers(n)}
      BY <3>1 DEF Answers
    <3>3. down[p] \in Seq(Messages) /\ OnceIn(down[p], Answers(n))
      BY <2>0, <2>1 DEF DownTypeOK, InOnePlace
    <3>4. Cardinality({i \in DOMAIN down[p] : down[p][i] \in Answers(n)})
            = IF Holds(down[p], Answers(n)) THEN 1 ELSE 0
      BY <3>3, CountOnce
    <3> QED BY <3>2, <3>4 DEF InDown
  <2> QED BY <2>1, <2>2, <2>3, <2>4, <2>5 DEF Places, InOnePlace, InSomePlace
<1> QED BY <1>1, BridgeInvAlways, PTL

\* One request is in front of the user at a time, and a promise whose request the
\* extension was asked about follows the verdict on that very request.
THEOREM UserDecidesAlways == Spec => []UserDecides
<1>1. BridgeInv => UserDecides
  <2> SUFFICES ASSUME BridgeInv PROVE UserDecides
    OBVIOUS
  <2>1. ASSUME NEW req \in Requests
        PROVE  /\ verdict[req] = "accept" => promise[req.page][req.n] # "rejected"
               /\ verdict[req] = "reject" => promise[req.page][req.n] # "resolved"
    <3>1. req = Req(req.page, req.n) /\ req.page \in Pages /\ req.n \in 1..MaxRequests
      BY DEF Req, Requests
    <3>2. Agrees(req.page, req.n)
      BY <3>1 DEF BridgeInv, VerdictInv
    <3> QED BY <3>1, <3>2 DEF Agrees
  <2> QED BY <2>1 DEF BridgeInv, ConsentInv, UserDecides
<1> QED BY <1>1, BridgeInvAlways, PTL

===============================================================================
