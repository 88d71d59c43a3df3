----------------------------- MODULE MessageBus -----------------------------
(***************************************************************************)
(* OwrBus and OwrMessageOrigin: any thread posts messages at an origin; the *)
(* origin hands each one to the buses in its bus set, which it knows by     *)
(* weak references; every bus queues it for a thread of its own, which      *)
(* calls the application back.                                             *)
(*                                                                         *)
(* A bus dies with its last strong reference.  The thread that drops it     *)
(* runs owr_bus_finalize: it pushes last_message and joins the bus thread.  *)
(* That thread may be the application's, one that is in the middle of       *)
(* owr_message_origin_post_message (the loop holds a reference of its own), *)
(* or the bus thread itself, from within the callback.                      *)
(*                                                                         *)
(* GObject's references, GMutex and GAsyncQueue are not part of the         *)
(* repository; refs, the two mutexes and queue say what they do.            *)
(* An operator that nothing uses, right before one with the same            *)
(* parameters, is a faulty variant of it; the README tells what for.        *)
(***************************************************************************)
EXTENDS Integers, Sequences, FiniteSets

CONSTANTS
    Poster,          \* threads of the application and of the library
    Bus,             \* buses; also the names of their threads
    Origin,          \* message origins
    Type,            \* OwrMessageType
    App,             \* the application as the owner of a reference
    None,            \* no thread, no bus, no origin
    MaxPost,         \* bound: messages posted
    MaxCallback,     \* bound: callbacks set on a bus
    CallbackMay,     \* what a callback does: subset of {"post", "replace", "drop"}
    CallbackOrigin   \* the origins callbacks post at

Thread == Poster \cup Bus

ASSUME SetAssumption ==
    /\ App \notin Thread
    /\ None \notin Thread \cup Origin \cup {App}
    /\ Poster \cap Bus = {}
ASSUME BoundAssumption ==
    /\ MaxPost \in Nat
    /\ MaxCallback \in Nat
    /\ CallbackMay \subseteq {"post", "replace", "drop"}
    /\ CallbackOrigin \subseteq Origin

LastMessage == [n |-> 0]
Message == [n : 1..MaxPost, origin : Origin, type : Type]
Item == Message \cup {LastMessage}
CallState == [at : {"idle"}]
    \cup [at : {"lock", "visit"}, msg : Message, left : SUBSET Bus]
    \cup [at : {"push", "drop"}, msg : Message, left : SUBSET Bus, bus : Bus]
    \cup [at : {"replace"}, bus : Bus]
\* data: the user data the running callback was given; 0 when none is set.
LoopState == [at : {"pop", "exited"}]
    \cup [at : {"lock", "unref"}, msg : Message]
    \cup [at : {"call"}, msg : Message, data : Nat]

VARIABLES
    refs,            \* external: holders of strong references to each bus
    phase,           \* "live", "last" once finalize pushed last_message, "gone"
    mask,            \* message_type_mask of each bus
    callback,        \* the callback and user data set on each bus; 0 for none
    destroyed,       \* user data that callback_destroy_data was called on
    callbackMutex,   \* holder of each bus's callback_mutex
    queue,           \* each bus's queue
    loop,            \* where each bus thread is
    busSet,          \* the table of each origin's bus set (weak references)
    setMutex,        \* holder of each bus set's mutex
    call,            \* the API call each thread is in
    joining,         \* the bus whose thread a thread waits for in finalize
    posted,          \* messages made so far
    refCount,        \* ref_count of each message
    order,           \* messages of each origin in the order they took its mutex
    accepted,        \* messages queued on each bus so far
    handled,         \* how many of them its thread is done with
    delivered        \* the messages passed to callbacks of each bus

busVars == <<refs, phase, mask, callback, destroyed, callbackMutex, queue, loop>>
postVars == <<busSet, setMutex, call, joining, posted, refCount>>
history == <<order, accepted, handled, delivered>>
vars == <<busVars, postVars, history>>

Init ==
    /\ refs = [b \in Bus |-> {App}]
    /\ phase = [b \in Bus |-> "live"]
    /\ mask = [b \in Bus |-> Type]
    /\ callback = [b \in Bus |-> 0]
    /\ destroyed = [b \in Bus |-> {}]
    /\ callbackMutex = [b \in Bus |-> None]
    /\ queue = [b \in Bus |-> <<>>]
    /\ loop = [b \in Bus |-> [at |-> "pop"]]
    /\ busSet = [o \in Origin |-> {}]
    /\ setMutex = [o \in Origin |-> None]
    /\ call = [t \in Thread |-> [at |-> "idle"]]
    /\ joining = [t \in Thread |-> None]
    /\ posted = 0
    /\ refCount = [n \in 1..MaxPost |-> 0]
    /\ order = [o \in Origin |-> <<>>]
    /\ accepted = [b \in Bus |-> <<>>]
    /\ handled = [b \in Bus |-> 0]
    /\ delivered = [b \in Bus |-> <<>>]

----------------------------------------------------------------------------
(* Helpers *)

\* A thread starts a call when it is in none; a bus thread only from its callback.
May(t, what) ==
    /\ call[t].at = "idle" /\ joining[t] = None
    /\ t \in Bus => loop[t].at = "call" /\ loop[t].data # 0 /\ what \in CallbackMay

Enter(t, state) == call' = [call EXCEPT ![t] = state]
Leave(t) == Enter(t, [at |-> "idle"])

\* g_object_unref by a holder; the last one finalizes the bus, up to the join.
UnrefQuietly(t, holder, b) ==
    /\ refs' = [refs EXCEPT ![b] = @ \ {holder}]
    /\ IF refs[b] = {holder}
       THEN /\ phase' = [phase EXCEPT ![b] = "last"]
            /\ joining' = [joining EXCEPT ![t] = b]
       ELSE UNCHANGED <<phase, joining>>
    /\ UNCHANGED queue
Unref(t, holder, b) ==
    /\ refs' = [refs EXCEPT ![b] = @ \ {holder}]
    /\ IF refs[b] = {holder}
       THEN /\ phase' = [phase EXCEPT ![b] = "last"]
            /\ queue' = [queue EXCEPT ![b] = Append(@, LastMessage)]
            /\ joining' = [joining EXCEPT ![t] = b]
       ELSE UNCHANGED <<phase, queue, joining>>

\* _owr_message_ref and _owr_message_unref
RefOfNothing(n) == refCount
RefMessage(n) == [refCount EXCEPT ![n] = @ + 1]
UnrefMessage(n) == [refCount EXCEPT ![n] = @ - 1]

----------------------------------------------------------------------------
(* Calls of the application on a bus it has a reference to *)

\* owr_bus_add_message_origin; adding again replaces the weak reference.
AddMessageOrigin(t, b, o) ==
    /\ t \in Poster /\ May(t, "add")
    /\ App \in refs[b]
    /\ setMutex[o] = None
    /\ busSet' = [busSet EXCEPT ![o] = @ \cup {b}]
    /\ UNCHANGED <<busVars, setMutex, call, joining, posted, refCount, history>>

\* owr_bus_remove_message_origin
RemoveMessageOrigin(t, b, o) ==
    /\ t \in Poster /\ May(t, "remove")
    /\ App \in refs[b]
    /\ setMutex[o] = None
    /\ b \in busSet[o]
    /\ busSet' = [busSet EXCEPT ![o] = @ \ {b}]
    /\ UNCHANGED <<busVars, setMutex, call, joining, posted, refCount, history>>

\* owr_bus_set_property, without a lock.
SetMask(t, b) ==
    /\ t \in Poster /\ May(t, "mask")
    /\ App \in refs[b]
    /\ \E types \in SUBSET Type : mask' = [mask EXCEPT ![b] = types]
    /\ UNCHANGED <<refs, phase, callback, destroyed, callbackMutex, queue, loop,
                   postVars, history>>

\* owr_bus_set_message_callback up to its wait for callback_mutex.
SetMessageCallback(t, b) ==
    /\ May(t, "replace")
    /\ App \in refs[b]
    /\ callback[b] < MaxCallback
    /\ Enter(t, [at |-> "replace", bus |-> b])
    /\ UNCHANGED <<busVars, busSet, setMutex, joining, posted, refCount, history>>

\* The rest: the old user data is destroyed and the new callback takes over.
ReplaceUnlocked(t) ==
    /\ call[t].at = "replace"
    /\ LET b == call[t].bus
       IN  /\ destroyed' = [destroyed EXCEPT ![b] = @ \cup ({callback[b]} \ {0})]
           /\ callback' = [callback EXCEPT ![b] = @ + 1]
    /\ Leave(t)
    /\ UNCHANGED <<refs, phase, mask, callbackMutex, queue, loop, busSet, setMutex,
                   joining, posted, refCount, history>>
ReplaceCallback(t) ==
    /\ call[t].at = "replace"
    /\ LET b == call[t].bus
       IN  /\ callbackMutex[b] = None
           /\ destroyed' = [destroyed EXCEPT ![b] = @ \cup ({callback[b]} \ {0})]
           /\ callback' = [callback EXCEPT ![b] = @ + 1]
    /\ Leave(t)
    /\ UNCHANGED <<refs, phase, mask, callbackMutex, queue, loop, busSet, setMutex,
                   joining, posted, refCount, history>>

\* The application gives up its reference, when none of its threads is about to
\* set a callback on the bus.
DropBus(t, b) ==
    /\ May(t, "drop")
    /\ App \in refs[b]
    /\ \A u \in Thread : call[u].at = "replace" => call[u].bus # b
    /\ Unref(t, App, b)
    /\ UNCHANGED <<mask, callback, destroyed, callbackMutex, loop, busSet, setMutex,
                   call, posted, refCount, history>>

\* The rest of owr_bus_finalize, once the bus thread has exited.
FinishFinalize(t, b) ==
    /\ joining[t] = b
    /\ loop[b].at = "exited"
    /\ joining' = [joining EXCEPT ![t] = None]
    /\ phase' = [phase EXCEPT ![b] = "gone"]
    /\ destroyed' = [destroyed EXCEPT ![b] = @ \cup ({callback[b]} \ {0})]
    /\ UNCHANGED <<refs, mask, callback, callbackMutex, queue, loop, busSet, setMutex,
                   call, posted, refCount, history>>

----------------------------------------------------------------------------
(* owr_message_origin_post_message *)

PostMessage(t, o, type) ==
    /\ May(t, "post")
    /\ t \in Poster \/ o \in CallbackOrigin
    /\ posted < MaxPost
    /\ posted' = posted + 1
    /\ refCount' = [refCount EXCEPT ![posted + 1] = 1]
    /\ Enter(t, [at |-> "lock", left |-> {},
                 msg |-> [n |-> posted + 1, origin |-> o, type |-> type]])
    /\ UNCHANGED <<busVars, busSet, setMutex, joining, history>>

LockUnguarded(t) ==
    /\ call[t].at = "lock"
    /\ setMutex' = [setMutex EXCEPT ![call[t].msg.origin] = t]
    /\ Enter(t, [at |-> "visit", msg |-> call[t].msg, left |-> busSet[call[t].msg.origin]])
    /\ order' = [order EXCEPT ![call[t].msg.origin] = Append(@, call[t].msg)]
    /\ UNCHANGED <<busVars, busSet, joining, posted, refCount, accepted, handled,
                   delivered>>
LockBusSet(t) ==
    /\ call[t].at = "lock"
    /\ setMutex[call[t].msg.origin] = None
    /\ setMutex' = [setMutex EXCEPT ![call[t].msg.origin] = t]
    /\ Enter(t, [at |-> "visit", msg |-> call[t].msg, left |-> busSet[call[t].msg.origin]])
    /\ order' = [order EXCEPT ![call[t].msg.origin] = Append(@, call[t].msg)]
    /\ UNCHANGED <<busVars, busSet, joining, posted, refCount, accepted, handled,
                   delivered>>

VisitDead(t, b) ==
    /\ call[t].at = "visit"
    /\ b \in call[t].left
    /\ refs' = [refs EXCEPT ![b] = @ \cup {t}]
    /\ Enter(t, [at |-> "push", msg |-> call[t].msg,
                 left |-> call[t].left \ {b}, bus |-> b])
    /\ UNCHANGED <<phase, mask, callback, destroyed, callbackMutex, queue, loop,
                   busSet, setMutex, joining, posted, refCount, history>>
\* g_weak_ref_get: a bus that is being finalized is dropped from the table.
VisitBus(t, b) ==
    /\ call[t].at = "visit"
    /\ b \in call[t].left
    /\ IF refs[b] # {}
       THEN /\ refs' = [refs EXCEPT ![b] = @ \cup {t}]
            /\ Enter(t, [at |-> "push", msg |-> call[t].msg,
                         left |-> call[t].left \ {b}, bus |-> b])
            /\ UNCHANGED busSet
       ELSE /\ busSet' = [busSet EXCEPT ![call[t].msg.origin] = @ \ {b}]
            /\ Enter(t, [at |-> "visit", msg |-> call[t].msg, left |-> call[t].left \ {b}])
            /\ UNCHANGED refs
    /\ UNCHANGED <<phase, mask, callback, destroyed, callbackMutex, queue, loop,
                   setMutex, joining, posted, refCount, history>>

\* _owr_bus_post_message
PushMessage(t) ==
    /\ call[t].at = "push"
    /\ LET b == call[t].bus
           msg == call[t].msg
       IN  IF msg.type \in mask[b]
           THEN /\ refCount' = RefMessage(msg.n)
                /\ queue' = [queue EXCEPT ![b] = Append(@, msg)]
                /\ accepted' = [accepted EXCEPT ![b] = Append(@, msg)]
           ELSE UNCHANGED <<refCount, queue, accepted>>
    /\ Enter(t, [at |-> "drop", msg |-> call[t].msg, left |-> call[t].left,
                 bus |-> call[t].bus])
    /\ UNCHANGED <<refs, phase, mask, callback, destroyed, callbackMutex, loop,
                   busSet, setMutex, joining, posted, order, handled, delivered>>

\* The loop's own reference goes; it may have become the last one.
DropVisited(t) ==
    /\ call[t].at = "drop"
    /\ Unref(t, t, call[t].bus)
    /\ Enter(t, [at |-> "visit", msg |-> call[t].msg, left |-> call[t].left])
    /\ UNCHANGED <<mask, callback, destroyed, callbackMutex, loop, busSet, setMutex,
                   posted, refCount, history>>

EndPost(t) ==
    /\ call[t].at = "visit"
    /\ call[t].left = {}
    /\ joining[t] = None
    /\ refCount' = UnrefMessage(call[t].msg.n)
    /\ setMutex' = [setMutex EXCEPT ![call[t].msg.origin] = None]
    /\ Leave(t)
    /\ UNCHANGED <<busVars, busSet, joining, posted, history>>

----------------------------------------------------------------------------
(* bus_thread_func *)

Loop(b, state) == loop' = [loop EXCEPT ![b] = state]

PopMessage(b) ==
    /\ loop[b].at = "pop"
    /\ queue[b] # <<>>
    /\ queue' = [queue EXCEPT ![b] = Tail(@)]
    /\ Loop(b, IF Head(queue[b]) = LastMessage THEN [at |-> "exited"]
               ELSE [at |-> "lock", msg |-> Head(queue[b])])
    /\ UNCHANGED <<refs, phase, mask, callback, destroyed, callbackMutex, postVars,
                   history>>

CallBack(b) ==
    /\ loop[b].at = "lock"
    /\ callbackMutex[b] = None
    /\ callbackMutex' = [callbackMutex EXCEPT ![b] = b]
    /\ Loop(b, [at |-> "call", msg |-> loop[b].msg, data |-> callback[b]])
    /\ delivered' = IF callback[b] = 0 THEN delivered
                    ELSE [delivered EXCEPT ![b] = Append(@, loop[b].msg.n)]
    /\ UNCHANGED <<refs, phase, mask, callback, destroyed, queue, postVars, order,
                   accepted, handled>>

ReturnLocked(b) ==
    /\ loop[b].at = "call"
    /\ call[b].at = "idle" /\ joining[b] = None
    /\ Loop(b, [at |-> "unref", msg |-> loop[b].msg])
    /\ UNCHANGED <<refs, phase, mask, callback, destroyed, callbackMutex, queue,
                   postVars, history>>
ReturnFromCallback(b) ==
    /\ loop[b].at = "call"
    /\ call[b].at = "idle" /\ joining[b] = None
    /\ callbackMutex' = [callbackMutex EXCEPT ![b] = None]
    /\ Loop(b, [at |-> "unref", msg |-> loop[b].msg])
    /\ UNCHANGED <<refs, phase, mask, callback, destroyed, queue, postVars, history>>

UnrefHandled(b) ==
    /\ loop[b].at = "unref"
    /\ refCount' = UnrefMessage(loop[b].msg.n)
    /\ Loop(b, [at |-> "pop"])
    /\ handled' = [handled EXCEPT ![b] = @ + 1]
    /\ UNCHANGED <<refs, phase, mask, callback, destroyed, callbackMutex, queue,
                   busSet, setMutex, call, joining, posted, order, accepted, delivered>>

----------------------------------------------------------------------------
BusThread(b) ==
    PopMessage(b) \/ CallBack(b) \/ ReturnFromCallback(b) \/ UnrefHandled(b)

\* What a thread does to finish the call it is in; a thread that joins does
\* nothing else.
Continue(t) ==
    \/ \E b \in Bus : FinishFinalize(t, b)
    \/ /\ joining[t] = None
       /\ \/ ReplaceCallback(t)
          \/ LockBusSet(t)
          \/ \E b \in Bus : VisitBus(t, b)
          \/ PushMessage(t)
          \/ DropVisited(t)
          \/ EndPost(t)

StartCall(t) ==
    \/ \E b \in Bus, o \in Origin : AddMessageOrigin(t, b, o) \/ RemoveMessageOrigin(t, b, o)
    \/ \E b \in Bus : SetMask(t, b) \/ SetMessageCallback(t, b) \/ DropBus(t, b)
    \/ \E o \in Origin, type \in Type : PostMessage(t, o, type)

Next ==
    \/ \E t \in Thread : StartCall(t) \/ Continue(t)
    \/ \E b \in Bus : BusThread(b)

Spec == Init /\ [][Next]_vars

\* Threads inside a call keep running, and so do the bus threads; nobody has to
\* start a call.  A mutex is not fair, but only finitely many calls compete.
Fairness ==
    /\ \A t \in Thread : WF_vars(Continue(t))
    /\ \A b \in Bus : WF_vars(BusThread(b))

FairSpec == Spec /\ Fairness

----------------------------------------------------------------------------
(* Properties *)

BusTypeOK ==
    /\ refs \in [Bus -> SUBSET (Thread \cup {App})]
    /\ phase \in [Bus -> {"live", "last", "gone"}]
    /\ mask \in [Bus -> SUBSET Type]
    /\ callback \in [Bus -> Nat]
    /\ destroyed \in [Bus -> SUBSET (Nat \ {0})]
    /\ callbackMutex \in [Bus -> Bus \cup {None}]
    /\ queue \in [Bus -> Seq(Item)]
    /\ loop \in [Bus -> LoopState]
PostTypeOK ==
    /\ busSet \in [Origin -> SUBSET Bus]
    /\ setMutex \in [Origin -> Thread \cup {None}]
    /\ call \in [Thread -> CallState]
    /\ joining \in [Thread -> Bus \cup {None}]
    /\ posted \in 0..MaxPost
    /\ refCount \in [1..MaxPost -> Int]
HistoryTypeOK ==
    /\ order \in [Origin -> Seq(Message)]
    /\ accepted \in [Bus -> Seq(Message)]
    /\ handled \in [Bus -> Nat]
    /\ delivered \in [Bus -> Seq(1..MaxPost)]
TypeOK == BusTypeOK /\ PostTypeOK /\ HistoryTypeOK

\* A message's ref_count is the number of its holders: the call that posts it, the
\* buses that have it in their queue and those whose thread works on it.  So it is
\* freed neither early nor never, however the buses' threads overtake each other.
Posts(n) ==
    {t \in Thread : call[t].at \in {"lock", "visit", "push", "drop"} /\ call[t].msg.n = n}
QueuedOn(n) == {b \in Bus : \E i \in DOMAIN queue[b] : queue[b][i].n = n}
WorkedOn(n) == {b \in Bus : loop[b].at \in {"lock", "call", "unref"} /\ loop[b].msg.n = n}
CountedRefs ==
    \A n \in 1..MaxPost :
        refCount[n] = Cardinality(Posts(n)) + Cardinality(QueuedOn(n)) + Cardinality(WorkedOn(n))

\* A running callback's user data has not been handed to its destroy notify:
\* neither by a thread that sets another callback nor by the bus's finalize.
CallbackDataAlive ==
    \A b \in Bus : loop[b].at = "call" => loop[b].data \notin destroyed[b]

\* A bus that is gone has handled all it accepted: nothing can follow
\* last_message into its queue, so owr_bus_finalize frees an empty one.
NothingLost ==
    \A b \in Bus : phase[b] = "gone" => queue[b] = <<>> /\ handled[b] = Len(accepted[b])

\* Every accepted message is handled, unless a callback keeps its thread.
MessagesHandled ==
    \A b \in Bus, k \in 1..MaxPost : Len(accepted[b]) >= k ~> handled[b] >= k

\* owr_message_origin_post_message and owr_bus_set_message_callback return, and
\* so does the join of owr_bus_finalize, whichever thread runs it: also one that
\* is inside a post and holds the bus set's mutex.
CallsReturn ==
    \A t \in Thread : call[t].at # "idle" \/ joining[t] # None
                        ~> call[t].at = "idle" /\ joining[t] = None

\* Buses and origins implement the delivery that MessageDelivery promises: each
\* bus takes a message at most once, in the order of its origin, never after its
\* last reference is gone, and is gone only when it has handled all of them.
Delivery == INSTANCE MessageDelivery WITH log <- order, status <- phase
DeliveryPromised == Delivery!Spec
=============================================================================
