-------------------------- MODULE MessageBusProofs --------------------------
(* Proofs about MessageBus for any threads, buses, origins and bounds.      *)
EXTENDS MessageBus, FiniteSetTheorems, TLAPS

Posting == {"lock", "visit", "push", "drop"}

----------------------------------------------------------------------------
(* Facts about the states of a call and of a bus thread *)

\* Every message has a positive number, so none is last_message.
LEMMA MessageFacts ==
    ASSUME NEW msg \in Message
    PROVE  /\ msg.n \in 1..MaxPost /\ msg.n \in Nat
           /\ msg.origin \in Origin /\ msg.type \in Type
           /\ msg # LastMessage
<1>1. /\ msg.n \in 1..MaxPost /\ msg.origin \in Origin /\ msg.type \in Type
  BY DEF Message
<1>2. LastMessage.n = 0
  BY DEF LastMessage
<1> QED BY <1>1, <1>2, BoundAssumption

\* What a call carries, by where it is.
LEMMA CallFacts ==
    ASSUME NEW s \in CallState
    PROVE  /\ s.at \in {"idle", "replace"} \cup Posting
           /\ s.at \in Posting => s.msg \in Message /\ s.left \in SUBSET Bus
           /\ s.at \in {"push", "drop", "replace"} => s.bus \in Bus
<1>1. CASE s \in [at : {"idle"}]
  BY <1>1 DEF Posting
<1>2. CASE s \in [at : {"lock", "visit"}, msg : Message, left : SUBSET Bus]
  BY <1>2 DEF Posting
<1>3. CASE s \in [at : {"push", "drop"}, msg : Message, left : SUBSET Bus, bus : Bus]
  BY <1>3 DEF Posting
<1>4. CASE s \in [at : {"replace"}, bus : Bus]
  BY <1>4 DEF Posting
<1> QED BY <1>1, <1>2, <1>3, <1>4 DEF CallState

\* The states a call can be put into.
LEMMA CallMade ==
    ASSUME NEW msg \in Message, NEW left \in SUBSET Bus, NEW b \in Bus
    PROVE  /\ [at |-> "idle"] \in CallState
           /\ [at |-> "lock", left |-> left, msg |-> msg] \in CallState
           /\ [at |-> "visit", msg |-> msg, left |-> left] \in CallState
           /\ [at |-> "push", msg |-> msg, left |-> left, bus |-> b] \in CallState
           /\ [at |-> "drop", msg |-> msg, left |-> left, bus |-> b] \in CallState
           /\ [at |-> "replace", bus |-> b] \in CallState
  BY DEF CallState

\* The same two facts for a bus thread.
LEMMA LoopFacts ==
    ASSUME NEW s \in LoopState
    PROVE  /\ s.at \in {"pop", "exited", "lock", "unref", "call"}
           /\ s.at \in {"lock", "unref", "call"} => s.msg \in Message
           /\ s.at = "call" => s.data \in Nat
<1>1. CASE s \in [at : {"pop", "exited"}]
  BY <1>1
<1>2. CASE s \in [at : {"lock", "unref"}, msg : Message]
  BY <1>2
<1>3. CASE s \in [at : {"call"}, msg : Message, data : Nat]
  BY <1>3
<1> QED BY <1>1, <1>2, <1>3 DEF LoopState

LEMMA LoopMade ==
    ASSUME NEW msg \in Message, NEW data \in Nat
    PROVE  /\ [at |-> "pop"] \in LoopState
           /\ [at |-> "exited"] \in LoopState
           /\ [at |-> "lock", msg |-> msg] \in LoopState
           /\ [at |-> "unref", msg |-> msg] \in LoopState
           /\ [at |-> "call", msg |-> msg, data |-> data] \in LoopState
  BY DEF LoopState

----------------------------------------------------------------------------
(* Type correctness *)

\* A queue stays a queue when an item is put into it.
LEMMA PutType ==
    ASSUME BusTypeOK, NEW b \in Bus, NEW item \in Item
    PROVE  [queue EXCEPT ![b] = Append(@, item)] \in [Bus -> Seq(Item)]
<1>1. queue \in [Bus -> Seq(Item)]
  BY DEF BusTypeOK
<1>2. Append(queue[b], item) \in Seq(Item)
  BY <1>1
<1> QED BY <1>1, <1>2

LEMMA UnrefType ==
    ASSUME TypeOK, NEW t \in Thread, NEW holder, NEW b \in Bus, Unref(t, holder, b)
    PROVE  /\ refs' \in [Bus -> SUBSET (Thread \cup {App})]
           /\ phase' \in [Bus -> {"live", "last", "gone"}]
           /\ queue' \in [Bus -> Seq(Item)]
           /\ joining' \in [Thread -> Bus \cup {None}]
<1>1. refs' \in [Bus -> SUBSET (Thread \cup {App})]
  BY DEF Unref, TypeOK, BusTypeOK
<1>2. phase' \in [Bus -> {"live", "last", "gone"}]
  BY DEF Unref, TypeOK, BusTypeOK
<1>3. queue' \in [Bus -> Seq(Item)]
  <2>1. LastMessage \in Item /\ BusTypeOK
    BY DEF Item, TypeOK
  <2>2. queue \in [Bus -> Seq(Item)]
    BY <2>1 DEF BusTypeOK
  <2>3. queue' = queue \/ queue' = [queue EXCEPT ![b] = Append(@, LastMessage)]
    BY DEF Unref
  <2>4. [queue EXCEPT ![b] = Append(@, LastMessage)] \in [Bus -> Seq(Item)]
    BY <2>1, PutType
  <2> QED BY <2>2, <2>3, <2>4
<1>4. joining' \in [Thread -> Bus \cup {None}]
  BY DEF Unref, TypeOK, PostTypeOK
<1> QED BY <1>1, <1>2, <1>3, <1>4

\* Putting a thread or a bus thread into a state it can be in.
LEMMA EnterType ==
    ASSUME PostTypeOK, NEW t \in Thread, NEW s \in CallState, Enter(t, s)
    PROVE  call' \in [Thread -> CallState]
  BY DEF Enter, PostTypeOK

LEMMA LoopType ==
    ASSUME BusTypeOK, NEW b \in Bus, NEW s \in LoopState, Loop(b, s)
    PROVE  loop' \in [Bus -> LoopState]
  BY DEF Loop, BusTypeOK

\* The calls of the application keep the types.
LEMMA TypeOK_StartCall ==
    ASSUME TypeOK, NEW t \in Thread, StartCall(t)
    PROVE  TypeOK'
<1> USE DEF TypeOK
<1>1. ASSUME NEW b \in Bus, NEW o \in Origin,
             AddMessageOrigin(t, b, o) \/ RemoveMessageOrigin(t, b, o)
      PROVE  TypeOK'
  <2>1. busSet' \in [Origin -> SUBSET Bus]
    BY <1>1 DEF AddMessageOrigin, RemoveMessageOrigin, PostTypeOK
  <2>2. UNCHANGED <<busVars, setMutex, call, joining, posted, refCount, history>>
    BY <1>1 DEF AddMessageOrigin, RemoveMessageOrigin
  <2> QED BY <2>1, <2>2 DEF BusTypeOK, PostTypeOK, HistoryTypeOK, busVars, history
<1>2. ASSUME NEW b \in Bus, SetMask(t, b)
      PROVE  TypeOK'
  <2>1. mask' \in [Bus -> SUBSET Type]
    BY <1>2 DEF SetMask, BusTypeOK
  <2>2. UNCHANGED <<refs, phase, callback, destroyed, callbackMutex, queue, loop,
                    postVars, history>>
    BY <1>2 DEF SetMask
  <2> QED BY <2>1, <2>2 DEF BusTypeOK, PostTypeOK, HistoryTypeOK, postVars, history
<1>3. ASSUME NEW b \in Bus, SetMessageCallback(t, b)
      PROVE  TypeOK'
  <2>1. call' \in [Thread -> CallState]
    BY <1>3, EnterType DEF SetMessageCallback, CallState
  <2>2. UNCHANGED <<busVars, busSet, setMutex, joining, posted, refCount, history>>
    BY <1>3 DEF SetMessageCallback
  <2> QED BY <2>1, <2>2 DEF BusTypeOK, PostTypeOK, HistoryTypeOK, busVars, history
<1>4. ASSUME NEW b \in Bus, DropBus(t, b)
      PROVE  TypeOK'
  <2>1. Unref(t, App, b)
    BY <1>4 DEF DropBus
  <2>2. UNCHANGED <<mask, callback, destroyed, callbackMutex, loop, busSet, setMutex,
                    call, posted, refCount, history>>
    BY <1>4 DEF DropBus
  <2> QED BY <2>1, <2>2, UnrefType DEF BusTypeOK, PostTypeOK, HistoryTypeOK, history
<1>5. ASSUME NEW o \in Origin, NEW type \in Type, PostMessage(t, o, type)
      PROVE  TypeOK'
  <2> DEFINE msg == [n |-> posted + 1, origin |-> o, type |-> type]
  <2>1. posted + 1 \in 1..MaxPost
    BY <1>5, BoundAssumption DEF PostMessage, PostTypeOK
  <2>2. msg \in Message
    BY <2>1 DEF Message
  <2>3. [at |-> "lock", left |-> {}, msg |-> msg] \in CallState
    BY <2>2 DEF CallState
  <2>4. call' \in [Thread -> CallState]
    BY <1>5, <2>3, EnterType DEF PostMessage
  <2>5. refCount' \in [1..MaxPost -> Int] /\ posted' \in 0..MaxPost
    BY <1>5, <2>1, BoundAssumption DEF PostMessage, PostTypeOK
  <2>6. UNCHANGED <<busVars, busSet, setMutex, joining, history>>
    BY <1>5 DEF PostMessage
  <2> QED BY <2>4, <2>5, <2>6 DEF BusTypeOK, PostTypeOK, HistoryTypeOK, busVars, history
<1> QED BY <1>1, <1>2, <1>3, <1>4, <1>5 DEF StartCall

\* So do the steps that finish a call.
LEMMA TypeOK_Continue ==
    ASSUME TypeOK, NEW t \in Thread, Continue(t)
    PROVE  TypeOK'
<1> USE DEF TypeOK
<1>0. call[t] \in CallState
  BY DEF PostTypeOK
<1>1. ASSUME NEW b \in Bus, FinishFinalize(t, b)
      PROVE  TypeOK'
  <2>1. callback[b] \in Nat
    BY DEF BusTypeOK
  <2>2. destroyed' \in [Bus -> SUBSET (Nat \ {0})]
    BY <1>1, <2>1 DEF FinishFinalize, BusTypeOK
  <2>3. phase' \in [Bus -> {"live", "last", "gone"}]
    BY <1>1 DEF FinishFinalize, BusTypeOK
  <2>4. joining' \in [Thread -> Bus \cup {None}]
    BY <1>1 DEF FinishFinalize, PostTypeOK
  <2>5. UNCHANGED <<refs, mask, callback, callbackMutex, queue, loop, busSet, setMutex,
                    call, posted, refCount, history>>
    BY <1>1 DEF FinishFinalize
  <2> QED BY <2>2, <2>3, <2>4, <2>5 DEF BusTypeOK, PostTypeOK, HistoryTypeOK, history
<1>2. CASE ReplaceCallback(t)
  <2> DEFINE b == call[t].bus
  <2>1. b \in Bus
    BY <1>0, <1>2, CallFacts DEF ReplaceCallback
  <2>2. callback[b] \in Nat
    BY <2>1 DEF BusTypeOK
  <2>3. /\ destroyed' = [destroyed EXCEPT ![b] = @ \cup ({callback[b]} \ {0})]
        /\ callback' = [callback EXCEPT ![b] = @ + 1]
    BY <1>2 DEF ReplaceCallback
  <2> HIDE DEF b
  <2>4. destroyed' \in [Bus -> SUBSET (Nat \ {0})]
    BY <2>1, <2>2, <2>3 DEF BusTypeOK
  <2>5. callback' \in [Bus -> Nat]
    BY <2>1, <2>2, <2>3 DEF BusTypeOK
  <2>6. call' \in [Thread -> CallState]
    BY <1>2, EnterType DEF ReplaceCallback, Leave, CallState
  <2>7. UNCHANGED <<refs, phase, mask, callbackMutex, queue, loop, busSet, setMutex,
                    joining, posted, refCount, history>>
    BY <1>2 DEF ReplaceCallback
  <2> QED BY <2>4, <2>5, <2>6, <2>7 DEF BusTypeOK, PostTypeOK, HistoryTypeOK, history
<1>3. CASE LockBusSet(t)
  <2> DEFINE msg == call[t].msg
             left == busSet[msg.origin]
  <2>1. msg \in Message /\ msg.origin \in Origin
    BY <1>0, <1>3, CallFacts, MessageFacts DEF LockBusSet, Posting
  <2>2. left \in SUBSET Bus
    BY <2>1 DEF PostTypeOK
  <2>3. [at |-> "visit", msg |-> msg, left |-> left] \in CallState
    BY <2>1, <2>2 DEF CallState
  <2>4. call' \in [Thread -> CallState]
    BY <1>3, <2>3, EnterType DEF LockBusSet
  <2>5. setMutex' \in [Origin -> Thread \cup {None}]
    BY <1>3, <2>1 DEF LockBusSet, PostTypeOK
  <2>6. order' = [order EXCEPT ![msg.origin] = Append(@, msg)]
    BY <1>3 DEF LockBusSet
  <2>7. order' \in [Origin -> Seq(Message)]
    <3> HIDE DEF msg
    <3>1. Append(order[msg.origin], msg) \in Seq(Message)
      BY <2>1 DEF HistoryTypeOK
    <3> QED BY <2>1, <2>6, <3>1 DEF HistoryTypeOK
  <2>8. UNCHANGED <<busVars, busSet, joining, posted, refCount, accepted, handled,
                    delivered>>
    BY <1>3 DEF LockBusSet
  <2> QED BY <2>4, <2>5, <2>7, <2>8 DEF BusTypeOK, PostTypeOK, HistoryTypeOK, busVars
<1>4. ASSUME NEW b \in Bus, VisitBus(t, b)
      PROVE  TypeOK'
  <2>1. /\ call[t].msg \in Message /\ call[t].msg.origin \in Origin
        /\ call[t].left \ {b} \in SUBSET Bus
    BY <1>0, <1>4, CallFacts, MessageFacts DEF VisitBus, Posting
  <2>2. call' \in [Thread -> CallState]
    <3>1. /\ [at |-> "push", msg |-> call[t].msg, left |-> call[t].left \ {b}, bus |-> b]
               \in CallState
          /\ [at |-> "visit", msg |-> call[t].msg, left |-> call[t].left \ {b}]
               \in CallState
      BY <2>1, CallMade
    <3> QED BY <1>4, <3>1, EnterType DEF VisitBus
  <2>3. refs' \in [Bus -> SUBSET (Thread \cup {App})]
    <3>1. refs' = refs \/ refs' = [refs EXCEPT ![b] = @ \cup {t}]
      BY <1>4 DEF VisitBus
    <3>2. refs \in [Bus -> SUBSET (Thread \cup {App})]
      BY DEF BusTypeOK
    <3>3. refs[b] \cup {t} \in SUBSET (Thread \cup {App})
      BY <3>2
    <3> QED BY <3>1, <3>2, <3>3
  <2>4. busSet' \in [Origin -> SUBSET Bus]
    BY <1>4, <2>1 DEF VisitBus, PostTypeOK
  <2>5. UNCHANGED <<phase, mask, callback, destroyed, callbackMutex, queue, loop,
                    setMutex, joining, posted, refCount, history>>
    BY <1>4 DEF VisitBus
  <2> QED BY <2>2, <2>3, <2>4, <2>5 DEF BusTypeOK, PostTypeOK, HistoryTypeOK, history
<1>5. CASE PushMessage(t)
  <2> DEFINE b == call[t].bus
             msg == call[t].msg
  <2>1. msg \in Message /\ b \in Bus /\ call[t].left \in SUBSET Bus
    BY <1>0, <1>5, CallFacts DEF PushMessage, Posting
  <2>2. call' \in [Thread -> CallState]
    <3>1. [at |-> "drop", msg |-> msg, left |-> call[t].left, bus |-> b] \in CallState
      BY <2>1, CallMade
    <3> QED BY <1>5, <3>1, EnterType DEF PushMessage
  <2>3. \/ /\ refCount' = RefMessage(msg.n)
           /\ queue' = [queue EXCEPT ![b] = Append(@, msg)]
           /\ accepted' = [accepted EXCEPT ![b] = Append(@, msg)]
        \/ UNCHANGED <<refCount, queue, accepted>>
    BY <1>5 DEF PushMessage
  <2> HIDE DEF b, msg
  <2>4. refCount' \in [1..MaxPost -> Int]
    BY <2>1, <2>3, MessageFacts DEF RefMessage, PostTypeOK
  <2>5. queue' \in [Bus -> Seq(Item)]
    <3>1. msg \in Item /\ queue \in [Bus -> Seq(Item)]
      BY <2>1 DEF Item, BusTypeOK
    <3>2. [queue EXCEPT ![b] = Append(@, msg)] \in [Bus -> Seq(Item)]
      BY <2>1, <3>1, PutType
    <3> QED BY <2>3, <3>1, <3>2
  <2>6. accepted' \in [Bus -> Seq(Message)]
    <3>1. Append(accepted[b], msg) \in Seq(Message)
      BY <2>1 DEF HistoryTypeOK
    <3> QED BY <2>1, <2>3, <3>1 DEF HistoryTypeOK
  <2>7. UNCHANGED <<refs, phase, mask, callback, destroyed, callbackMutex, loop,
                    busSet, setMutex, joining, posted, order, handled, delivered>>
    BY <1>5 DEF PushMessage
  <2> QED BY <2>2, <2>4, <2>5, <2>6, <2>7 DEF BusTypeOK, PostTypeOK, HistoryTypeOK
<1>6. CASE DropVisited(t)
  <2>1. call[t].bus \in Bus /\ call[t].msg \in Message /\ call[t].left \in SUBSET Bus
    BY <1>0, <1>6, CallFacts DEF DropVisited, Posting
  <2>2. [at |-> "visit", msg |-> call[t].msg, left |-> call[t].left] \in CallState
    BY <2>1, CallMade
  <2>3. call' \in [Thread -> CallState]
    BY <1>6, <2>2, EnterType DEF DropVisited
  <2>4. Unref(t, t, call[t].bus)
    BY <1>6 DEF DropVisited
  <2>5. UNCHANGED <<mask, callback, destroyed, callbackMutex, loop, busSet, setMutex,
                    posted, refCount, history>>
    BY <1>6 DEF DropVisited
  <2>6. /\ refs' \in [Bus -> SUBSET (Thread \cup {App})]
        /\ phase' \in [Bus -> {"live", "last", "gone"}]
        /\ queue' \in [Bus -> Seq(Item)]
        /\ joining' \in [Thread -> Bus \cup {None}]
    BY <2>1, <2>4, UnrefType
  <2> QED BY <2>3, <2>5, <2>6 DEF BusTypeOK, PostTypeOK, HistoryTypeOK, history
<1>7. CASE EndPost(t)
  <2>1. call[t].msg.n \in 1..MaxPost /\ call[t].msg.origin \in Origin
    BY <1>0, <1>7, CallFacts, MessageFacts DEF EndPost, Posting
  <2>2. refCount' \in [1..MaxPost -> Int]
    BY <1>7, <2>1 DEF EndPost, UnrefMessage, PostTypeOK
  <2>3. setMutex' \in [Origin -> Thread \cup {None}]
    BY <1>7, <2>1 DEF EndPost, PostTypeOK
  <2>4. call' \in [Thread -> CallState]
    BY <1>7, EnterType DEF EndPost, Leave, CallState
  <2>5. UNCHANGED <<busVars, busSet, joining, posted, history>>
    BY <1>7 DEF EndPost
  <2> QED BY <2>2, <2>3, <2>4, <2>5 DEF BusTypeOK, PostTypeOK, HistoryTypeOK, busVars,
                                         history
<1> QED BY <1>1, <1>2, <1>3, <1>4, <1>5, <1>6, <1>7 DEF Continue

\* So do the bus threads.
LEMMA TypeOK_BusThread ==
    ASSUME TypeOK, NEW b \in Bus, BusThread(b)
    PROVE  TypeOK'
<1> USE DEF TypeOK
<1>0. loop[b] \in LoopState /\ callback[b] \in Nat /\ queue[b] \in Seq(Item)
  BY DEF BusTypeOK
<1>1. CASE PopMessage(b)
  <2>1. Head(queue[b]) \in Item /\ Tail(queue[b]) \in Seq(Item)
    BY <1>0, <1>1 DEF PopMessage
  <2>2. queue' \in [Bus -> Seq(Item)]
    BY <1>1, <2>1 DEF PopMessage, BusTypeOK
  <2>3. Head(queue[b]) # LastMessage => [at |-> "lock", msg |-> Head(queue[b])] \in LoopState
    BY <2>1 DEF Item, LoopState
  <2>4. [at |-> "exited"] \in LoopState
    BY DEF LoopState
  <2>5. loop' \in [Bus -> LoopState]
    BY <1>1, <2>3, <2>4, LoopType DEF PopMessage
  <2>6. UNCHANGED <<refs, phase, mask, callback, destroyed, callbackMutex, postVars,
                    history>>
    BY <1>1 DEF PopMessage
  <2> QED BY <2>2, <2>5, <2>6 DEF BusTypeOK, PostTypeOK, HistoryTypeOK, postVars, history
<1>2. CASE CallBack(b)
  <2>1. loop[b].msg \in Message
    BY <1>0, <1>2, LoopFacts DEF CallBack
  <2>2. [at |-> "call", msg |-> loop[b].msg, data |-> callback[b]] \in LoopState
    BY <1>0, <2>1, LoopMade
  <2>3. loop' \in [Bus -> LoopState]
    BY <1>2, <2>2, LoopType DEF CallBack
  <2>4. callbackMutex' \in [Bus -> Bus \cup {None}]
    BY <1>2 DEF CallBack, BusTypeOK
  <2>5. delivered' \in [Bus -> Seq(1..MaxPost)]
    <3>1. Append(delivered[b], loop[b].msg.n) \in Seq(1..MaxPost)
      BY <2>1, MessageFacts DEF HistoryTypeOK
    <3> QED BY <1>2, <3>1 DEF CallBack, HistoryTypeOK
  <2>6. UNCHANGED <<refs, phase, mask, callback, destroyed, queue, postVars, order,
                    accepted, handled>>
    BY <1>2 DEF CallBack
  <2> QED BY <2>3, <2>4, <2>5, <2>6 DEF BusTypeOK, PostTypeOK, HistoryTypeOK, postVars
<1>3. CASE ReturnFromCallback(b)
  <2>1. loop[b].msg \in Message
    BY <1>0, <1>3, LoopFacts DEF ReturnFromCallback
  <2>2. [at |-> "unref", msg |-> loop[b].msg] \in LoopState
    BY <1>0, <2>1, LoopMade
  <2>3. loop' \in [Bus -> LoopState]
    BY <1>3, <2>2, LoopType DEF ReturnFromCallback
  <2>4. callbackMutex' \in [Bus -> Bus \cup {None}]
    BY <1>3 DEF ReturnFromCallback, BusTypeOK
  <2>5. UNCHANGED <<refs, phase, mask, callback, destroyed, queue, postVars, history>>
    BY <1>3 DEF ReturnFromCallback
  <2> QED BY <2>3, <2>4, <2>5 DEF BusTypeOK, PostTypeOK, HistoryTypeOK, postVars, history
<1>4. CASE UnrefHandled(b)
  <2>1. loop[b].msg.n \in 1..MaxPost
    BY <1>0, <1>4, LoopFacts, MessageFacts DEF UnrefHandled
  <2>2. refCount' \in [1..MaxPost -> Int]
    BY <1>4, <2>1 DEF UnrefHandled, UnrefMessage, PostTypeOK
  <2>3. loop' \in [Bus -> LoopState]
    BY <1>4, LoopType DEF UnrefHandled, LoopState
  <2>4. handled' \in [Bus -> Nat]
    BY <1>4 DEF UnrefHandled, HistoryTypeOK
  <2>5. UNCHANGED <<refs, phase, mask, callback, destroyed, callbackMutex, queue,
                    busSet, setMutex, call, joining, posted, order, accepted, delivered>>
    BY <1>4 DEF UnrefHandled
  <2> QED BY <2>2, <2>3, <2>4, <2>5 DEF BusTypeOK, PostTypeOK, HistoryTypeOK
<1> QED BY <1>1, <1>2, <1>3, <1>4 DEF BusThread

----------------------------------------------------------------------------
(* Life of a bus *)

\* A bus with a reference has not begun to be finalized, one that is gone has no
\* thread any more, and the one thread that finalizes a bus is the one that
\* dropped its last reference.  A post holds the reference it works with.
BusLife(b) ==
    /\ refs[b] # {} => phase[b] = "live"
    /\ phase[b] = "gone" => loop[b].at = "exited"
ThreadLife(t) ==
    /\ call[t].at \in {"push", "drop"} => t \in refs[call[t].bus]
    /\ call[t].at = "replace" => App \in refs[call[t].bus]
    /\ joining[t] # None => phase[joining[t]] = "last"
    /\ \A u \in Thread : joining[u] = joining[t] /\ joining[t] # None => u = t
LifeInv ==
    /\ \A b \in Bus : BusLife(b)
    /\ \A t \in Thread : ThreadLife(t)

\* What dropping a reference does to the lives of buses and threads.
LEMMA UnrefLife ==
    ASSUME TypeOK, LifeInv, NEW t \in Thread, NEW holder \in Thread \cup {App},
           NEW b \in Bus, holder \in refs[b], joining[t] = None, Unref(t, holder, b),
           UNCHANGED loop
    PROVE  /\ \A c \in Bus : BusLife(c)'
           /\ \A u \in Thread : joining'[u] # None => phase'[joining'[u]] = "last"
           /\ \A u, v \in Thread : joining'[u] = joining'[v] /\ joining'[u] # None => u = v
<1>1. phase[b] = "live"
  BY DEF LifeInv, BusLife
<1>2. \A u \in Thread : joining[u] # b
  BY <1>1, SetAssumption DEF LifeInv, ThreadLife, Thread
<1>3. ASSUME NEW c \in Bus PROVE BusLife(c)'
  BY <1>1 DEF LifeInv, BusLife, Unref, TypeOK, BusTypeOK
<1>4. ASSUME NEW u \in Thread, joining'[u] # None
      PROVE  phase'[joining'[u]] = "last"
  <2>1. /\ phase \in [Bus -> {"live", "last", "gone"}]
        /\ joining \in [Thread -> Bus \cup {None}]
    BY DEF TypeOK, BusTypeOK, PostTypeOK
  <2>2. joining[u] # None => phase[joining[u]] = "last" /\ joining[u] \in Bus \ {b}
    BY <1>2, <2>1 DEF LifeInv, ThreadLife
  <2>3. CASE UNCHANGED <<phase, joining>>
    BY <1>4, <2>2, <2>3
  <2>4. CASE /\ phase' = [phase EXCEPT ![b] = "last"]
             /\ joining' = [joining EXCEPT ![t] = b]
    <3>1. CASE u = t
      BY <2>1, <2>4, <3>1
    <3>2. CASE u # t
      BY <1>4, <2>1, <2>2, <2>4, <3>2
    <3> QED BY <3>1, <3>2
  <2> QED BY <2>3, <2>4 DEF Unref
<1>5. ASSUME NEW u \in Thread, NEW v \in Thread, joining'[u] = joining'[v],
             joining'[u] # None
      PROVE  u = v
  BY <1>2, <1>5 DEF LifeInv, ThreadLife, Unref, TypeOK, PostTypeOK
<1> QED BY <1>3, <1>4, <1>5

\* The other threads keep the references they hold.
LEMMA UnrefOthers ==
    ASSUME TypeOK, NEW t \in Thread, NEW holder, NEW b \in Bus, Unref(t, holder, b),
           NEW c \in Bus, NEW u \in refs[c], u # holder \/ c # b
    PROVE  u \in refs'[c]
  BY DEF Unref, TypeOK, BusTypeOK

LEMMA LifeInv_StartCall ==
    ASSUME TypeOK, LifeInv, NEW t \in Thread, StartCall(t)
    PROVE  LifeInv'
<1> USE DEF LifeInv
<1>1. ASSUME NEW b \in Bus, NEW o \in Origin,
             AddMessageOrigin(t, b, o) \/ RemoveMessageOrigin(t, b, o)
      PROVE  LifeInv'
  <2>1. UNCHANGED <<refs, phase, loop, call, joining>>
    BY <1>1 DEF AddMessageOrigin, RemoveMessageOrigin, busVars
  <2> QED BY <2>1 DEF BusLife, ThreadLife
<1>2. ASSUME NEW b \in Bus, SetMask(t, b)
      PROVE  LifeInv'
  <2>1. UNCHANGED <<refs, phase, loop, call, joining>>
    BY <1>2 DEF SetMask, postVars
  <2> QED BY <2>1 DEF BusLife, ThreadLife
<1>3. ASSUME NEW b \in Bus, SetMessageCallback(t, b)
      PROVE  LifeInv'
  <2>1. UNCHANGED <<refs, phase, loop, joining>>
    BY <1>3 DEF SetMessageCallback, busVars
  <2>2. App \in refs[b] /\ call' = [call EXCEPT ![t] = [at |-> "replace", bus |-> b]]
    BY <1>3 DEF SetMessageCallback, Enter
  <2>3. ASSUME NEW u \in Thread PROVE ThreadLife(u)'
    BY <2>1, <2>2 DEF ThreadLife, TypeOK, PostTypeOK
  <2> QED BY <2>1, <2>3 DEF BusLife
<1>4. ASSUME NEW b \in Bus, DropBus(t, b)
      PROVE  LifeInv'
  <2>1. /\ Unref(t, App, b) /\ App \in refs[b] /\ joining[t] = None
        /\ UNCHANGED <<loop, call>>
        /\ \A u \in Thread : call[u].at = "replace" => call[u].bus # b
    BY <1>4 DEF DropBus, May
  <2>2. ASSUME NEW u \in Thread, call[u].at \in {"push", "drop"}
        PROVE  u \in refs'[call[u].bus]
    <3>1. call[u].bus \in Bus
      BY <2>2, CallFacts DEF TypeOK, PostTypeOK
    <3>2. u \in refs[call[u].bus] /\ u # App
      BY <2>2, SetAssumption DEF ThreadLife
    <3> QED BY <2>1, <3>1, <3>2, UnrefOthers
  <2>3. ASSUME NEW u \in Thread, call[u].at = "replace"
        PROVE  App \in refs'[call[u].bus]
    <3>1. call[u].bus \in Bus
      BY <2>3, CallFacts DEF TypeOK, PostTypeOK
    <3>2. App \in refs[call[u].bus] /\ call[u].bus # b
      BY <2>1, <2>3 DEF ThreadLife
    <3> QED BY <2>1, <3>1, <3>2, UnrefOthers
  <2>4. /\ \A c \in Bus : BusLife(c)'
        /\ \A u \in Thread : joining'[u] # None => phase'[joining'[u]] = "last"
        /\ \A u, v \in Thread : joining'[u] = joining'[v] /\ joining'[u] # None => u = v
    BY <2>1, UnrefLife
  <2> QED BY <2>1, <2>2, <2>3, <2>4 DEF ThreadLife
<1>5. ASSUME NEW o \in Origin, NEW type \in Type, PostMessage(t, o, type)
      PROVE  LifeInv'
  <2>1. UNCHANGED <<refs, phase, loop, joining>>
    BY <1>5 DEF PostMessage, busVars
  <2>2. /\ \A u \in Thread : u # t => call'[u] = call[u]
        /\ call'[t].at = "lock"
    BY <1>5 DEF PostMessage, Enter, TypeOK, PostTypeOK
  <2>3. ASSUME NEW u \in Thread PROVE ThreadLife(u)'
    BY <2>1, <2>2 DEF ThreadLife
  <2> QED BY <2>1, <2>3 DEF BusLife
<1> QED BY <1>1, <1>2, <1>3, <1>4, <1>5 DEF StartCall

LEMMA LifeInv_Continue ==
    ASSUME TypeOK, LifeInv, NEW t \in Thread, Continue(t)
    PROVE  LifeInv'
<1> USE DEF LifeInv
<1>0. call[t] \in CallState
  BY DEF TypeOK, PostTypeOK
<1>1. ASSUME NEW b \in Bus, FinishFinalize(t, b)
      PROVE  LifeInv'
  <2>1. /\ joining[t] = b /\ loop[b].at = "exited"
        /\ joining' = [joining EXCEPT ![t] = None]
        /\ phase' = [phase EXCEPT ![b] = "gone"]
        /\ UNCHANGED <<refs, loop, call>>
    BY <1>1 DEF FinishFinalize
  <2>2. phase[b] = "last" /\ b # None
    BY <2>1, SetAssumption DEF ThreadLife, Thread
  <2>3. ASSUME NEW c \in Bus PROVE BusLife(c)'
    BY <2>1, <2>2 DEF BusLife, TypeOK, BusTypeOK
  <2>4. ASSUME NEW u \in Thread PROVE ThreadLife(u)'
    <3>1. CASE u = t
      BY <2>1, <3>1 DEF ThreadLife, TypeOK, PostTypeOK
    <3>2. CASE u # t
      <4>1. joining[u] # b
        BY <2>1, <2>2, <3>2 DEF ThreadLife
      <4>2. joining'[u] = joining[u]
        BY <2>1, <3>2 DEF TypeOK, PostTypeOK
      <4>3. joining[u] # None => phase'[joining[u]] = "last"
        BY <2>1, <4>1 DEF ThreadLife, TypeOK, BusTypeOK, PostTypeOK
      <4>4. ASSUME NEW v \in Thread, joining'[v] = joining'[u], joining'[u] # None
            PROVE  v = u
        BY <2>1, <4>2, <4>4 DEF ThreadLife, TypeOK, PostTypeOK
      <4> QED BY <2>1, <4>2, <4>3, <4>4 DEF ThreadLife
    <3> QED BY <3>1, <3>2
  <2> QED BY <2>3, <2>4
<1>2. CASE ReplaceCallback(t) \/ LockBusSet(t) \/ EndPost(t)
  <2>1. UNCHANGED <<refs, phase, loop, joining>>
    BY <1>2 DEF ReplaceCallback, LockBusSet, EndPost, busVars
  <2>2. /\ \A u \in Thread : u # t => call'[u] = call[u]
        /\ call'[t].at \in {"idle", "visit"}
    BY <1>2 DEF ReplaceCallback, LockBusSet, EndPost, Leave, Enter, TypeOK, PostTypeOK
  <2>3. ASSUME NEW u \in Thread PROVE ThreadLife(u)'
    BY <2>1, <2>2 DEF ThreadLife
  <2> QED BY <2>1, <2>3 DEF BusLife
<1>3. ASSUME NEW b \in Bus, VisitBus(t, b)
      PROVE  LifeInv'
  <2>1. /\ UNCHANGED <<phase, loop, joining>>
        /\ \A u \in Thread : u # t => call'[u] = call[u]
    BY <1>3 DEF VisitBus, Enter, TypeOK, PostTypeOK
  <2>2. CASE /\ refs[b] # {}
             /\ refs' = [refs EXCEPT ![b] = @ \cup {t}]
             /\ call'[t].at = "push" /\ call'[t].bus = b
    <3>1. \A c \in Bus : refs[c] \subseteq refs'[c] /\ (c # b => refs'[c] = refs[c])
      BY <2>2 DEF TypeOK, BusTypeOK
    <3>2. t \in refs'[b]
      BY <2>2 DEF TypeOK, BusTypeOK
    <3>3. ASSUME NEW c \in Bus PROVE BusLife(c)'
      BY <2>1, <2>2, <3>1 DEF BusLife
    <3>4. ASSUME NEW u \in Thread PROVE ThreadLife(u)'
      <4>1. CASE u = t
        BY <2>1, <2>2, <3>2, <4>1 DEF ThreadLife
      <4>2. CASE u # t
        <5>1. call[u].at \in {"push", "drop", "replace"} => call[u].bus \in Bus
          BY CallFacts DEF TypeOK, PostTypeOK
        <5> QED BY <2>1, <3>1, <4>2, <5>1 DEF ThreadLife
      <4> QED BY <4>1, <4>2
    <3> QED BY <3>3, <3>4
  <2>3. CASE UNCHANGED refs /\ call'[t].at = "visit"
    <3>1. ASSUME NEW u \in Thread PROVE ThreadLife(u)'
      BY <2>1, <2>3 DEF ThreadLife
    <3> QED BY <2>1, <2>3, <3>1 DEF BusLife
  <2> QED BY <1>3, <2>2, <2>3 DEF VisitBus, Enter, TypeOK, PostTypeOK
<1>4. CASE PushMessage(t)
  <2>1. /\ UNCHANGED <<refs, phase, loop, joining>>
        /\ \A u \in Thread : u # t => call'[u] = call[u]
        /\ call[t].at = "push" /\ call'[t].at = "drop" /\ call'[t].bus = call[t].bus
    BY <1>4 DEF PushMessage, Enter, TypeOK, PostTypeOK
  <2>2. ASSUME NEW u \in Thread PROVE ThreadLife(u)'
    BY <2>1 DEF ThreadLife
  <2> QED BY <2>1, <2>2 DEF BusLife
<1>5. ASSUME DropVisited(t), joining[t] = None
      PROVE  LifeInv'
  <2> DEFINE b == call[t].bus
  <2>1. /\ Unref(t, t, b)
        /\ UNCHANGED loop
        /\ \A u \in Thread : u # t => call'[u] = call[u]
        /\ call[t].at = "drop" /\ call'[t].at = "visit"
    BY <1>5 DEF DropVisited, Enter, TypeOK, PostTypeOK
  <2>2. b \in Bus /\ t \in refs[b]
    BY <1>0, <2>1, CallFacts DEF ThreadLife
  <2> HIDE DEF b
  <2>3. ASSUME NEW u \in Thread, u # t, call[u].at \in {"push", "drop"}
        PROVE  u \in refs'[call[u].bus]
    <3>1. call[u].bus \in Bus
      BY <2>3, CallFacts DEF TypeOK, PostTypeOK
    <3>2. u \in refs[call[u].bus]
      BY <2>3 DEF ThreadLife
    <3> QED BY <2>1, <2>2, <2>3, <3>1, <3>2, UnrefOthers
  <2>4. ASSUME NEW u \in Thread, u # t, call[u].at = "replace"
        PROVE  App \in refs'[call[u].bus]
    <3>1. call[u].bus \in Bus
      BY <2>4, CallFacts DEF TypeOK, PostTypeOK
    <3>2. App \in refs[call[u].bus] /\ App # t
      BY <2>4, SetAssumption DEF ThreadLife
    <3> QED BY <2>1, <2>2, <3>1, <3>2, UnrefOthers
  <2>5. /\ \A c \in Bus : BusLife(c)'
        /\ \A u \in Thread : joining'[u] # None => phase'[joining'[u]] = "last"
        /\ \A u, v \in Thread : joining'[u] = joining'[v] /\ joining'[u] # None => u = v
    BY <1>5, <2>1, <2>2, UnrefLife
  <2>6. ASSUME NEW u \in Thread PROVE ThreadLife(u)'
    <3>1. CASE u = t
      BY <2>1, <2>5, <3>1 DEF ThreadLife
    <3>2. CASE u # t
      <4>1. call'[u] = call[u]
        BY <2>1, <3>2
      <4>2. call[u].at \in {"push", "drop"} => u \in refs'[call[u].bus]
        BY <2>3, <3>2
      <4>3. call[u].at = "replace" => App \in refs'[call[u].bus]
        BY <2>4, <3>2
      <4> QED BY <2>5, <4>1, <4>2, <4>3 DEF ThreadLife
    <3> QED BY <3>1, <3>2
  <2> QED BY <2>5, <2>6
<1> QED BY <1>1, <1>2, <1>3, <1>4, <1>5 DEF Continue

LEMMA LifeInv_BusThread ==
    ASSUME TypeOK, LifeInv, NEW b \in Bus, BusThread(b)
    PROVE  LifeInv'
<1>1. /\ UNCHANGED <<refs, phase, call, joining>>
      /\ loop[b].at # "exited"
      /\ \A c \in Bus : c # b => loop'[c] = loop[c]
  BY DEF BusThread, PopMessage, CallBack, ReturnFromCallback, UnrefHandled, Loop, postVars,
         TypeOK, BusTypeOK
<1>2. ASSUME NEW c \in Bus PROVE BusLife(c)'
  BY <1>1 DEF LifeInv, BusLife
<1>3. ASSUME NEW t \in Thread PROVE ThreadLife(t)'
  BY <1>1 DEF LifeInv, ThreadLife
<1> QED BY <1>2, <1>3 DEF LifeInv

----------------------------------------------------------------------------
(* The callback's user data *)

\* The bus thread holds callback_mutex while it calls, so the data it passed is
\* still the one that is set; what was destroyed was set earlier.
CallbackInv(b) ==
    /\ loop[b].at = "call" => callbackMutex[b] = b /\ loop[b].data = callback[b]
    /\ phase[b] # "gone" => \A d \in destroyed[b] : d < callback[b]
CallbacksInv == \A b \in Bus : CallbackInv(b)

\* Dropping a reference does not revive a bus.
LEMMA UnrefPhase ==
    ASSUME TypeOK, LifeInv, NEW t \in Thread, NEW holder, NEW b \in Bus,
           holder \in refs[b], Unref(t, holder, b), NEW c \in Bus, phase'[c] # "gone"
    PROVE  phase[c] # "gone"
<1>1. phase[b] = "live"
  BY DEF LifeInv, BusLife
<1> QED BY <1>1 DEF Unref, TypeOK, BusTypeOK

LEMMA CallbacksInv_Thread ==
    ASSUME TypeOK, LifeInv, CallbacksInv, NEW t \in Thread, StartCall(t) \/ Continue(t)
    PROVE  CallbacksInv'
<1> USE DEF CallbacksInv
<1>0. call[t] \in CallState
  BY DEF TypeOK, PostTypeOK
<1>1. CASE UNCHANGED <<phase, callback, destroyed, callbackMutex, loop>>
  BY <1>1 DEF CallbackInv
<1>2. ASSUME NEW holder, NEW b \in Bus, holder \in refs[b], Unref(t, holder, b),
             UNCHANGED <<callback, destroyed, callbackMutex, loop>>
      PROVE  CallbacksInv'
  BY <1>2, UnrefPhase DEF CallbackInv
<1>3. ASSUME NEW b \in Bus, DropBus(t, b)
      PROVE  CallbacksInv'
  BY <1>2, <1>3 DEF DropBus
<1>4. CASE DropVisited(t)
  <2>1. call[t].bus \in Bus /\ t \in refs[call[t].bus]
    BY <1>0, <1>4, CallFacts DEF DropVisited, LifeInv, ThreadLife
  <2> QED BY <1>2, <1>4, <2>1 DEF DropVisited
<1>5. ASSUME NEW b \in Bus, FinishFinalize(t, b)
      PROVE  CallbacksInv'
  <2>1. /\ loop[b].at = "exited"
        /\ phase' = [phase EXCEPT ![b] = "gone"]
        /\ destroyed' = [destroyed EXCEPT ![b] = @ \cup ({callback[b]} \ {0})]
        /\ UNCHANGED <<callback, callbackMutex, loop>>
    BY <1>5 DEF FinishFinalize
  <2>2. ASSUME NEW c \in Bus PROVE CallbackInv(c)'
    <3>1. CASE c = b
      BY <2>1, <3>1 DEF CallbackInv, TypeOK, BusTypeOK
    <3>2. CASE c # b
      BY <2>1, <3>2 DEF CallbackInv, TypeOK, BusTypeOK
    <3> QED BY <3>1, <3>2
  <2> QED BY <2>2
<1>6. CASE ReplaceCallback(t)
  <2> DEFINE b == call[t].bus
  <2>1. /\ callbackMutex[b] = None
        /\ destroyed' = [destroyed EXCEPT ![b] = @ \cup ({callback[b]} \ {0})]
        /\ callback' = [callback EXCEPT ![b] = @ + 1]
        /\ UNCHANGED <<phase, callbackMutex, loop>>
    BY <1>6 DEF ReplaceCallback
  <2>2. b \in Bus /\ App \in refs[b]
    BY <1>0, <1>6, CallFacts DEF ReplaceCallback, LifeInv, ThreadLife
  <2> HIDE DEF b
  <2>3. phase[b] = "live" /\ None # b
    BY <2>2, SetAssumption DEF LifeInv, BusLife, Thread
  <2>4. callback[b] \in Nat /\ destroyed[b] \in SUBSET (Nat \ {0})
    BY <2>2 DEF TypeOK, BusTypeOK
  <2>5. ASSUME NEW c \in Bus PROVE CallbackInv(c)'
    <3>1. CASE c = b
      <4>1. loop[b].at # "call"
        BY <2>1, <2>2, <2>3 DEF CallbackInv
      <4>2. \A d \in destroyed[b] : d < callback[b]
        BY <2>2, <2>3 DEF CallbackInv
      <4>3. callback'[b] = callback[b] + 1
        BY <2>1, <2>2 DEF TypeOK, BusTypeOK
      <4>4. destroyed'[b] = destroyed[b] \cup ({callback[b]} \ {0})
        BY <2>1, <2>2 DEF TypeOK, BusTypeOK
      <4>5. \A d \in destroyed'[b] : d < callback'[b]
        BY <2>4, <4>2, <4>3, <4>4
      <4> QED BY <2>1, <3>1, <4>1, <4>5 DEF CallbackInv
    <3>2. CASE c # b
      BY <2>1, <3>2 DEF CallbackInv, TypeOK, BusTypeOK
    <3> QED BY <3>1, <3>2
  <2> QED BY <2>5
<1>7. StartCall(t) => \/ UNCHANGED <<phase, callback, destroyed, callbackMutex, loop>>
                      \/ \E b \in Bus : DropBus(t, b)
  BY DEF StartCall, AddMessageOrigin, RemoveMessageOrigin, SetMask, SetMessageCallback,
         PostMessage, busVars
<1>8. Continue(t) => \/ UNCHANGED <<phase, callback, destroyed, callbackMutex, loop>>
                     \/ \E b \in Bus : FinishFinalize(t, b)
                     \/ ReplaceCallback(t) \/ DropVisited(t)
  BY DEF Continue, LockBusSet, VisitBus, PushMessage, EndPost, busVars
<1> QED BY <1>1, <1>3, <1>4, <1>5, <1>6, <1>7, <1>8

LEMMA CallbacksInv_BusThread ==
    ASSUME TypeOK, CallbacksInv, NEW b \in Bus, BusThread(b)
    PROVE  CallbacksInv'
<1>1. /\ UNCHANGED <<phase, callback, destroyed>>
      /\ \A c \in Bus : c # b => loop'[c] = loop[c] /\ callbackMutex'[c] = callbackMutex[c]
  BY DEF BusThread, PopMessage, CallBack, ReturnFromCallback, UnrefHandled, Loop, TypeOK,
         BusTypeOK
<1>2. loop'[b].at = "call" => callbackMutex'[b] = b /\ loop'[b].data = callback[b]
  <2>1. CASE CallBack(b)
    BY <2>1 DEF CallBack, Loop, TypeOK, BusTypeOK
  <2>2. CASE PopMessage(b) \/ ReturnFromCallback(b) \/ UnrefHandled(b)
    <3>1. loop'[b].at # "call"
      BY <2>2 DEF PopMessage, ReturnFromCallback, UnrefHandled, Loop, TypeOK, BusTypeOK
    <3> QED BY <3>1
  <2> QED BY <2>1, <2>2 DEF BusThread
<1>3. ASSUME NEW c \in Bus PROVE CallbackInv(c)'
  <2>1. CASE c = b
    BY <1>1, <1>2, <2>1 DEF CallbacksInv, CallbackInv
  <2>2. CASE c # b
    BY <1>1, <2>2 DEF CallbacksInv, CallbackInv
  <2> QED BY <2>1, <2>2
<1> QED BY <1>3 DEF CallbacksInv

----------------------------------------------------------------------------
(* The queue of a bus *)

\* owr_bus_finalize has pushed last_message and the thread has not popped it.
Closing(b) == phase[b] # "live" /\ loop[b].at # "exited"
Busy(b) == IF loop[b].at \in {"lock", "call", "unref"} THEN 1 ELSE 0
Waiting(b) == IF Closing(b) THEN Len(queue[b]) - 1 ELSE Len(queue[b])

\* last_message is in the queue exactly while the bus closes, and is its end; what
\* the bus accepted is handled, in work, or waiting.
QueueInv(b) ==
    /\ phase[b] = "live" => loop[b].at # "exited"
    /\ \A i \in DOMAIN queue[b] :
           queue[b][i] = LastMessage <=> Closing(b) /\ i = Len(queue[b])
    /\ Closing(b) => queue[b] # <<>>
    /\ loop[b].at = "exited" => queue[b] = <<>>
    /\ Len(accepted[b]) = handled[b] + Busy(b) + Waiting(b)
QueuesInv == \A b \in Bus : QueueInv(b)

LEMMA BusFacts ==
    ASSUME TypeOK, NEW b \in Bus
    PROVE  /\ queue[b] \in Seq(Item) /\ Len(queue[b]) \in Nat
           /\ accepted[b] \in Seq(Message) /\ Len(accepted[b]) \in Nat
           /\ handled[b] \in Nat /\ loop[b] \in LoopState
<1>1. /\ queue[b] \in Seq(Item) /\ accepted[b] \in Seq(Message)
      /\ handled[b] \in Nat /\ loop[b] \in LoopState
  BY DEF TypeOK, BusTypeOK, HistoryTypeOK
<1> QED BY <1>1

\* A bus that no step touches keeps its queue in order.
LEMMA QueueSame ==
    ASSUME NEW b \in Bus, QueueInv(b), phase'[b] = phase[b], loop'[b] = loop[b],
           queue'[b] = queue[b], accepted'[b] = accepted[b], handled'[b] = handled[b]
    PROVE  QueueInv(b)'
  BY DEF QueueInv, Closing, Busy, Waiting

\* An item put at the end of a queue.
LEMMA AppendFacts ==
    ASSUME NEW S, NEW s \in Seq(S), NEW x \in S
    PROVE  /\ Len(Append(s, x)) = Len(s) + 1
           /\ \A i \in DOMAIN Append(s, x) :
                  \/ i \in DOMAIN s /\ Append(s, x)[i] = s[i]
                  \/ i = Len(s) + 1 /\ Append(s, x)[i] = x
  OBVIOUS

LEMMA QueuesInv_Unref ==
    ASSUME TypeOK, LifeInv, QueuesInv, NEW t \in Thread, NEW holder, NEW b \in Bus,
           holder \in refs[b], Unref(t, holder, b), UNCHANGED <<loop, accepted, handled>>
    PROVE  QueuesInv'
<1>1. phase[b] = "live" /\ ~ Closing(b) /\ QueueInv(b)
  BY DEF LifeInv, BusLife, QueuesInv, Closing
<1>2. CASE UNCHANGED <<phase, queue>>
  BY <1>2, QueueSame DEF QueuesInv
<1>3. CASE /\ phase' = [phase EXCEPT ![b] = "last"]
           /\ queue' = [queue EXCEPT ![b] = Append(@, LastMessage)]
  <2>1. ASSUME NEW c \in Bus, c # b PROVE QueueInv(c)'
    BY <1>3, <2>1, QueueSame DEF QueuesInv, TypeOK, BusTypeOK
  <2>2. phase'[b] = "last" /\ queue'[b] = Append(queue[b], LastMessage)
    BY <1>3 DEF TypeOK, BusTypeOK
  <2>3. queue[b] \in Seq(Item) /\ LastMessage \in Item
    BY BusFacts DEF Item
  <2>4. loop[b].at # "exited" /\ Closing(b)'
    BY <1>1, <2>2 DEF QueueInv, Closing
  <2>5. \A i \in DOMAIN queue'[b] : queue'[b][i] = LastMessage <=> i = Len(queue'[b])
    <3>1. \A i \in DOMAIN queue[b] : queue[b][i] # LastMessage
      BY <1>1 DEF QueueInv
    <3>2. Len(queue[b]) \in Nat /\ DOMAIN queue[b] = 1..Len(queue[b])
      BY <2>3
    <3> QED BY <2>2, <2>3, <3>1, <3>2, AppendFacts
  <2>6. Len(queue'[b]) = Len(queue[b]) + 1 /\ queue'[b] # <<>>
    BY <2>2, <2>3, AppendFacts
  <2>7. Busy(b)' = Busy(b) /\ Waiting(b) = Len(queue[b]) /\ Waiting(b)' = Len(queue'[b]) - 1
    BY <1>1, <2>4 DEF Busy, Waiting
  <2>8. Waiting(b)' = Waiting(b)
    BY <2>3, <2>6, <2>7
  <2>9. QueueInv(b)'
    BY <1>1, <2>2, <2>4, <2>5, <2>6, <2>7, <2>8 DEF QueueInv
  <2> QED BY <2>1, <2>9 DEF QueuesInv
<1> QED BY <1>2, <1>3 DEF Unref

LEMMA QueuesInv_Push ==
    ASSUME TypeOK, LifeInv, QueuesInv, NEW t \in Thread, PushMessage(t)
    PROVE  QueuesInv'
<1>0. /\ call[t].bus \in Bus /\ call[t].msg \in Message
      /\ t \in refs[call[t].bus]
  BY CallFacts DEF PushMessage, Posting, LifeInv, ThreadLife, TypeOK, PostTypeOK
<1>1. PICK b \in Bus, msg \in Message :
          /\ b = call[t].bus /\ msg = call[t].msg
          /\ t \in refs[b]
  BY <1>0
<1>2. UNCHANGED <<phase, loop, handled>>
  BY DEF PushMessage
<1>3. CASE UNCHANGED <<queue, accepted>>
  BY <1>2, <1>3, QueueSame DEF QueuesInv
<1>4. CASE /\ queue' = [queue EXCEPT ![b] = Append(@, msg)]
           /\ accepted' = [accepted EXCEPT ![b] = Append(@, msg)]
  <2>1. ASSUME NEW c \in Bus, c # b PROVE QueueInv(c)'
    BY <1>2, <1>4, <2>1, QueueSame DEF QueuesInv, TypeOK, BusTypeOK, HistoryTypeOK
  <2>2. queue'[b] = Append(queue[b], msg) /\ accepted'[b] = Append(accepted[b], msg)
    BY <1>1, <1>4 DEF TypeOK, BusTypeOK, HistoryTypeOK
  <2>3. msg # LastMessage /\ msg \in Item
    BY <1>1, MessageFacts DEF Item
  <2>4. phase[b] = "live" /\ QueueInv(b)
    BY <1>1 DEF LifeInv, BusLife, QueuesInv
  <2>5. loop[b].at # "exited" /\ ~ Closing(b) /\ ~ Closing(b)'
    BY <1>2, <2>4 DEF QueueInv, Closing
  <2>6. \A i \in DOMAIN queue'[b] : queue'[b][i] # LastMessage
    <3>1. \A i \in DOMAIN queue[b] : queue[b][i] # LastMessage
      BY <2>4, <2>5 DEF QueueInv
    <3> QED BY <1>1, <2>2, <2>3, <3>1, BusFacts, AppendFacts
  <2>7. Len(queue'[b]) = Len(queue[b]) + 1 /\ Len(accepted'[b]) = Len(accepted[b]) + 1
    BY <1>1, <2>2, <2>3, BusFacts, AppendFacts
  <2>8. Busy(b)' = Busy(b) /\ Busy(b) \in Nat
    BY <1>2 DEF Busy
  <2>9. Waiting(b)' = Waiting(b) + 1 /\ Waiting(b) = Len(queue[b])
    BY <2>5, <2>7 DEF Waiting
  <2>10. Len(accepted[b]) = handled[b] + Busy(b) + Waiting(b)
    BY <2>4 DEF QueueInv
  <2>11. Len(accepted'[b]) = handled'[b] + Busy(b)' + Waiting(b)'
    <3>1. handled[b] \in Nat /\ Len(queue[b]) \in Nat /\ Len(accepted[b]) \in Nat
      BY <1>1, BusFacts
    <3>2. handled'[b] = handled[b]
      BY <1>2
    <3> QED BY <2>7, <2>8, <2>9, <2>10, <3>1, <3>2
  <2>12. QueueInv(b)'
    BY <1>2, <2>4, <2>5, <2>6, <2>8, <2>9, <2>11 DEF QueueInv
  <2> QED BY <2>1, <2>12 DEF QueuesInv
<1> QED BY <1>1, <1>3, <1>4 DEF PushMessage

LEMMA QueuesInv_Thread ==
    ASSUME TypeOK, LifeInv, QueuesInv, NEW t \in Thread, StartCall(t) \/ Continue(t)
    PROVE  QueuesInv'
<1>1. CASE UNCHANGED <<phase, queue, loop, accepted, handled>>
  BY <1>1, QueueSame DEF QueuesInv
<1>2. ASSUME NEW b \in Bus, DropBus(t, b)
      PROVE  QueuesInv'
  BY <1>2, QueuesInv_Unref DEF DropBus, history
<1>3. CASE DropVisited(t)
  <2>1. call[t].bus \in Bus /\ t \in refs[call[t].bus]
    BY <1>3, CallFacts DEF DropVisited, LifeInv, ThreadLife, TypeOK, PostTypeOK
  <2> QED BY <1>3, <2>1, QueuesInv_Unref DEF DropVisited, history
<1>4. ASSUME NEW b \in Bus, FinishFinalize(t, b)
      PROVE  QueuesInv'
  <2>1. /\ joining[t] = b /\ loop[b].at = "exited"
        /\ phase' = [phase EXCEPT ![b] = "gone"]
        /\ UNCHANGED <<queue, loop, accepted, handled>>
    BY <1>4 DEF FinishFinalize, history
  <2>2. ASSUME NEW c \in Bus, c # b PROVE QueueInv(c)'
    BY <2>1, <2>2, QueueSame DEF QueuesInv, TypeOK, BusTypeOK
  <2>3. phase'[b] = "gone"
    BY <2>1 DEF TypeOK, BusTypeOK
  <2>4. QueueInv(b)'
    BY <2>1, <2>3 DEF QueuesInv, QueueInv, Closing, Busy, Waiting
  <2> QED BY <2>2, <2>4 DEF QueuesInv
<1>5. StartCall(t) => \/ UNCHANGED <<phase, queue, loop, accepted, handled>>
                      \/ \E b \in Bus : DropBus(t, b)
  BY DEF StartCall, AddMessageOrigin, RemoveMessageOrigin, SetMask, SetMessageCallback,
         PostMessage, busVars, history
<1>6. Continue(t) => \/ UNCHANGED <<phase, queue, loop, accepted, handled>>
                     \/ \E b \in Bus : FinishFinalize(t, b)
                     \/ PushMessage(t) \/ DropVisited(t)
  BY DEF Continue, ReplaceCallback, LockBusSet, VisitBus, EndPost, busVars, history
<1> QED BY <1>1, <1>2, <1>3, <1>4, <1>5, <1>6, QueuesInv_Push

LEMMA QueuesInv_BusThread ==
    ASSUME TypeOK, QueuesInv, NEW b \in Bus, BusThread(b)
    PROVE  QueuesInv'
<1>0. QueueInv(b)
  BY DEF QueuesInv
<1>1. /\ UNCHANGED <<phase, accepted>>
      /\ \A c \in Bus : c # b => /\ loop'[c] = loop[c] /\ queue'[c] = queue[c]
                                 /\ handled'[c] = handled[c]
  BY DEF BusThread, PopMessage, CallBack, ReturnFromCallback, UnrefHandled, Loop, history,
         TypeOK, BusTypeOK, HistoryTypeOK
<1>2. ASSUME PopMessage(b) PROVE QueueInv(b)'
  <2>1. /\ loop[b].at = "pop" /\ queue[b] # <<>> /\ queue'[b] = Tail(queue[b])
        /\ handled' = handled
        /\ Head(queue[b]) = LastMessage => loop'[b].at = "exited"
        /\ Head(queue[b]) # LastMessage => loop'[b].at = "lock"
    BY <1>2 DEF PopMessage, Loop, history, TypeOK, BusTypeOK
  <2>2. queue[b] \in Seq(Item)
    BY BusFacts
  <2>3. /\ Head(queue[b]) = queue[b][1] /\ Len(queue[b]) \in Nat \ {0}
        /\ DOMAIN queue[b] = 1..Len(queue[b])
        /\ Len(queue'[b]) = Len(queue[b]) - 1
        /\ DOMAIN queue'[b] = 1..Len(queue[b]) - 1
        /\ \A i \in DOMAIN queue'[b] : queue'[b][i] = queue[b][i + 1]
    BY <2>1, <2>2
  <2>4. Len(accepted[b]) = handled[b] + Waiting(b) /\ Busy(b) = 0
    BY <1>0, <2>1, BusFacts DEF QueueInv, Busy, Waiting
  <2>5. CASE Head(queue[b]) = LastMessage
    <3>1. Closing(b) /\ Len(queue[b]) = 1
      <4>1. 1 \in DOMAIN queue[b] /\ queue[b][1] = LastMessage
        BY <2>3, <2>5
      <4> QED BY <1>0, <4>1 DEF QueueInv
    <3>2. queue'[b] = <<>> /\ loop'[b].at = "exited" /\ phase[b] # "live"
      BY <2>1, <2>2, <2>3, <2>5, <3>1 DEF Closing
    <3>3. ~ Closing(b)' /\ Busy(b)' = 0 /\ Waiting(b)' = 0 /\ Waiting(b) = 0
      BY <3>1, <3>2 DEF Closing, Busy, Waiting
    <3>4. Len(accepted'[b]) = handled'[b] + Busy(b)' + Waiting(b)'
      <4>1. handled[b] \in Nat /\ accepted'[b] = accepted[b] /\ handled'[b] = handled[b]
        BY <1>1, <2>1, BusFacts
      <4> QED BY <2>4, <3>3, <4>1
    <3> QED BY <1>1, <3>2, <3>3, <3>4 DEF QueueInv
  <2>6. CASE Head(queue[b]) # LastMessage
    <3>1. Closing(b)' <=> Closing(b)
      BY <1>1, <2>1, <2>6 DEF Closing
    <3>2. Closing(b) => Len(queue[b]) > 1
      BY <1>0, <2>3, <2>6 DEF QueueInv
    <3>3. Closing(b)' => queue'[b] # <<>>
      BY <2>3, <3>1, <3>2
    <3>4. ASSUME NEW i \in DOMAIN queue'[b]
          PROVE  queue'[b][i] = LastMessage <=> Closing(b)' /\ i = Len(queue'[b])
      <4>1. i + 1 \in DOMAIN queue[b] /\ queue'[b][i] = queue[b][i + 1]
        BY <2>3
      <4>2. queue[b][i + 1] = LastMessage <=> Closing(b) /\ i + 1 = Len(queue[b])
        BY <1>0, <4>1 DEF QueueInv
      <4>3. i + 1 = Len(queue[b]) <=> i = Len(queue'[b])
        BY <2>3
      <4> QED BY <3>1, <4>1, <4>2, <4>3
    <3>5. Busy(b)' = 1
      BY <2>1, <2>6 DEF Busy
    <3>6. Waiting(b)' = Waiting(b) - 1 /\ Waiting(b) \in Int
      BY <2>3, <3>1 DEF Waiting
    <3>7. Len(accepted[b]) = handled[b] + Busy(b)' + Waiting(b)'
      BY <2>4, <3>5, <3>6, BusFacts
    <3> QED BY <1>1, <2>1, <2>6, <3>3, <3>4, <3>7 DEF QueueInv
  <2> QED BY <2>5, <2>6
<1>3. ASSUME CallBack(b) \/ ReturnFromCallback(b) PROVE QueueInv(b)'
  <2>1. /\ loop[b].at \in {"lock", "call"} /\ loop'[b].at \in {"call", "unref"}
        /\ queue' = queue /\ handled' = handled
    BY <1>3 DEF CallBack, ReturnFromCallback, Loop, history, TypeOK, BusTypeOK
  <2> QED BY <1>0, <1>1, <2>1 DEF QueueInv, Closing, Busy, Waiting
<1>4. ASSUME UnrefHandled(b) PROVE QueueInv(b)'
  <2>1. /\ loop[b].at = "unref" /\ loop'[b].at = "pop"
        /\ queue' = queue /\ handled'[b] = handled[b] + 1
    BY <1>4 DEF UnrefHandled, Loop, history, TypeOK, BusTypeOK, HistoryTypeOK
  <2>2. Closing(b)' <=> Closing(b)
    BY <1>1, <2>1 DEF Closing
  <2>3. Waiting(b)' = Waiting(b) /\ Waiting(b) \in Int
    BY <2>1, <2>2, BusFacts DEF Waiting
  <2>4. Busy(b) = 1 /\ Busy(b)' = 0
    BY <2>1 DEF Busy
  <2>5. Len(accepted[b]) = handled[b] + 1 + Waiting(b)
    BY <1>0, <2>4 DEF QueueInv
  <2>6. Len(accepted'[b]) = handled'[b] + Busy(b)' + Waiting(b)'
    BY <1>1, <2>1, <2>3, <2>4, <2>5, BusFacts
  <2> QED BY <1>0, <1>1, <2>1, <2>2, <2>6 DEF QueueInv
<1>5. QueueInv(b)'
  BY <1>2, <1>3, <1>4 DEF BusThread
<1>6. ASSUME NEW c \in Bus, c # b PROVE QueueInv(c)'
  BY <1>1, <1>6, QueueSame DEF QueuesInv
<1> QED BY <1>5, <1>6 DEF QueuesInv

----------------------------------------------------------------------------
(* Posts and the order of an origin's messages *)

Absent(s, msg) == \A i \in DOMAIN s : s[i] # msg

\* A post has a message of its own; from the moment it has the bus set's mutex its
\* message is the last one of the origin, and the buses it has not come to yet
\* have not got it.
Alone(t) ==
    call[t].at \in Posting =>
        /\ call[t].msg.n <= posted
        /\ \A u \in Thread : call[u].at \in Posting /\ u # t => call[u].msg # call[t].msg
Unordered(t) ==
    call[t].at = "lock" => Absent(order[call[t].msg.origin], call[t].msg)
Holding(t) ==
    call[t].at \in {"visit", "push", "drop"} =>
        /\ setMutex[call[t].msg.origin] = t
        /\ order[call[t].msg.origin] # <<>>
        /\ order[call[t].msg.origin][Len(order[call[t].msg.origin])] = call[t].msg
Unsent(t) ==
    /\ call[t].at \in {"visit", "push", "drop"} =>
           \A b \in call[t].left : Absent(accepted[b], call[t].msg)
    /\ call[t].at \in {"push", "drop"} => call[t].bus \notin call[t].left
    /\ call[t].at = "push" => Absent(accepted[call[t].bus], call[t].msg)
PostInv(t) == Alone(t) /\ Unordered(t) /\ Holding(t) /\ Unsent(t)

\* Messages are numbered as they are made; a bus gets what its origin has ordered.
OrderInv ==
    /\ \A o \in Origin : \A i \in DOMAIN order[o] :
           order[o][i].n <= posted /\ order[o][i].origin = o
    /\ \A b \in Bus : \A j \in DOMAIN accepted[b] :
           ~ Absent(order[accepted[b][j].origin], accepted[b][j])
PostsInv == OrderInv /\ \A t \in Thread : PostInv(t)

\* Steps that leave posts and order alone.
LEMMA PostsInv_Same ==
    ASSUME PostsInv, UNCHANGED <<posted, order, accepted, setMutex>>,
           \A t \in Thread : call'[t].at \in Posting => call'[t] = call[t]
    PROVE  PostsInv'
<1>1. OrderInv'
  BY DEF PostsInv, OrderInv, Absent
<1>2. ASSUME NEW t \in Thread PROVE PostInv(t)'
  <2>1. CASE call'[t].at \in Posting
    <3>1. call'[t] = call[t] /\ call[t].at \in Posting
      BY <2>1
    <3>2. \A u \in Thread : call'[u].at \in Posting => call'[u] = call[u]
      OBVIOUS
    <3>3. Alone(t)'
      BY <3>1, <3>2 DEF PostsInv, PostInv, Alone
    <3>4. Unordered(t)'
      BY <3>1 DEF PostsInv, PostInv, Unordered, Absent
    <3>5. Holding(t)'
      BY <3>1 DEF PostsInv, PostInv, Holding
    <3>6. Unsent(t)'
      BY <3>1 DEF PostsInv, PostInv, Unsent, Absent
    <3> QED BY <3>3, <3>4, <3>5, <3>6 DEF PostInv
  <2>2. CASE call'[t].at \notin Posting
    BY <2>2 DEF PostInv, Alone, Unordered, Holding, Unsent, Posting
  <2> QED BY <2>1, <2>2
<1> QED BY <1>1, <1>2 DEF PostsInv

\* What an append to a log keeps and adds.
LEMMA AbsentAppend ==
    ASSUME NEW S, NEW s \in Seq(S), NEW x \in S, NEW y
    PROVE  Absent(Append(s, x), y) <=> Absent(s, y) /\ x # y
<1>1. /\ Len(Append(s, x)) \in DOMAIN Append(s, x)
      /\ Append(s, x)[Len(Append(s, x))] = x
  OBVIOUS
<1>2. \A i \in DOMAIN s : i \in DOMAIN Append(s, x) /\ Append(s, x)[i] = s[i]
  OBVIOUS
<1> QED BY <1>1, <1>2, AppendFacts DEF Absent

LEMMA PostsInv_PostMessage ==
    ASSUME TypeOK, PostsInv, NEW t \in Thread, NEW o \in Origin, NEW type \in Type,
           PostMessage(t, o, type)
    PROVE  PostsInv'
<1>1. /\ posted' = posted + 1 /\ posted \in Nat
      /\ UNCHANGED <<order, accepted, setMutex>>
      /\ \A u \in Thread : u # t => call'[u] = call[u]
      /\ call'[t].at = "lock" /\ call'[t].msg.n = posted + 1 /\ call'[t].msg.origin = o
  BY DEF PostMessage, Enter, history, TypeOK, PostTypeOK
<1>2. /\ \A p \in Origin : order[p] \in Seq(Message)
      /\ \A p \in Origin : \A i \in DOMAIN order[p] : order[p][i].n \in Nat
  <2>1. \A p \in Origin : order[p] \in Seq(Message)
    BY DEF TypeOK, HistoryTypeOK
  <2>2. \A p \in Origin : \A i \in DOMAIN order[p] : order[p][i] \in Message
    BY <2>1
  <2> QED BY <2>1, <2>2, MessageFacts
<1>3. \A u \in Thread : call[u].at \in Posting =>
          call[u].msg.n \in Nat /\ call[u].msg.n <= posted
  <2>1. \A u \in Thread : call[u].at \in Posting => call[u].msg \in Message
    BY CallFacts DEF TypeOK, PostTypeOK
  <2> QED BY <2>1, MessageFacts DEF PostsInv, PostInv, Alone
<1>4. OrderInv'
  <2>1. \A p \in Origin : \A i \in DOMAIN order[p] : order[p][i].n <= posted + 1
    BY <1>1, <1>2 DEF PostsInv, OrderInv
  <2> QED BY <1>1, <2>1 DEF PostsInv, OrderInv, Absent
<1>5. \A u \in Thread : u # t /\ call[u].at \in Posting => call[u].msg # call'[t].msg
  BY <1>1, <1>3
<1>6. Absent(order[o], call'[t].msg)
  BY <1>1, <1>2 DEF PostsInv, OrderInv, Absent
<1>7. ASSUME NEW u \in Thread PROVE PostInv(u)'
  <2>1. CASE u = t
    <3>1. call'[t].msg.n <= posted'
      BY <1>1
    <3>2. Alone(t)'
      BY <1>1, <1>5, <3>1 DEF Alone
    <3>3. Unordered(t)' /\ Holding(t)' /\ Unsent(t)'
      BY <1>1, <1>6 DEF Unordered, Holding, Unsent, Absent
    <3> QED BY <2>1, <3>2, <3>3 DEF PostInv
  <2>2. CASE u # t
    <3>1. call'[u] = call[u] /\ (call[u].at \in Posting => call[u].msg.n <= posted')
      BY <1>1, <1>3, <2>2
    <3>2. \A v \in Thread : call[u].at \in Posting /\ call'[v].at \in Posting /\ v # u
                            => call'[v].msg # call[u].msg
      BY <1>1, <1>5, <2>2 DEF PostsInv, PostInv, Alone
    <3>3. Alone(u)'
      BY <3>1, <3>2 DEF Alone
    <3>4. Unordered(u)'
      BY <1>1, <3>1 DEF PostsInv, PostInv, Unordered, Absent
    <3>5. Holding(u)'
      BY <1>1, <3>1 DEF PostsInv, PostInv, Holding
    <3>6. Unsent(u)'
      BY <1>1, <3>1 DEF PostsInv, PostInv, Unsent, Absent
    <3> QED BY <3>3, <3>4, <3>5, <3>6 DEF PostInv
  <2> QED BY <2>1, <2>2
<1> QED BY <1>4, <1>7 DEF PostsInv

\* A post that goes on, under the mutex, to a bus or away from it.
LEMMA PostsInv_Advance ==
    ASSUME PostsInv, NEW t \in Thread, UNCHANGED <<posted, order, accepted, setMutex>>,
           \A u \in Thread : u # t => call'[u] = call[u],
           call[t].at \in {"visit", "push", "drop"},
           call'[t].at \in {"visit", "push", "drop"},
           call'[t].msg = call[t].msg, call'[t].left \subseteq call[t].left,
           call'[t].at \in {"push", "drop"} => call'[t].bus \notin call'[t].left,
           call'[t].at = "push" => Absent(accepted[call'[t].bus], call[t].msg)
    PROVE  PostsInv'
<1>1. OrderInv'
  BY DEF PostsInv, OrderInv, Absent
<1>2. ASSUME NEW u \in Thread PROVE PostInv(u)'
  <2>1. \A v \in Thread : call'[v].at \in Posting =>
            call[v].at \in Posting /\ call'[v].msg = call[v].msg
    BY DEF Posting
  <2>2. Alone(u)'
    BY <2>1 DEF PostsInv, PostInv, Alone
  <2>3. CASE u = t
    <3>1. Unordered(t)' /\ Holding(t)'
      BY DEF PostsInv, PostInv, Unordered, Holding
    <3>2. Unsent(t)'
      BY DEF PostsInv, PostInv, Unsent, Absent
    <3> QED BY <2>2, <2>3, <3>1, <3>2 DEF PostInv
  <2>4. CASE u # t
    <3>1. call'[u] = call[u]
      BY <2>4
    <3>2. Unordered(u)'
      BY <3>1 DEF PostsInv, PostInv, Unordered, Absent
    <3>3. Holding(u)'
      BY <3>1 DEF PostsInv, PostInv, Holding
    <3>4. Unsent(u)'
      BY <3>1 DEF PostsInv, PostInv, Unsent, Absent
    <3> QED BY <2>2, <3>2, <3>3, <3>4 DEF PostInv
  <2> QED BY <2>3, <2>4
<1> QED BY <1>1, <1>2 DEF PostsInv

LEMMA PostsInv_VisitBus ==
    ASSUME TypeOK, PostsInv, NEW t \in Thread, NEW b \in Bus, VisitBus(t, b)
    PROVE  PostsInv'
<1>1. /\ UNCHANGED <<posted, order, accepted, setMutex>>
      /\ \A u \in Thread : u # t => call'[u] = call[u]
      /\ call[t].at = "visit" /\ b \in call[t].left
  BY DEF VisitBus, Enter, history, TypeOK, PostTypeOK
<1>2. \/ call'[t] = [at |-> "push", msg |-> call[t].msg, left |-> call[t].left \ {b},
                     bus |-> b]
      \/ call'[t] = [at |-> "visit", msg |-> call[t].msg, left |-> call[t].left \ {b}]
  BY DEF VisitBus, Enter, TypeOK, PostTypeOK
<1>3. Absent(accepted[b], call[t].msg)
  BY <1>1 DEF PostsInv, PostInv, Unsent
<1> QED BY <1>1, <1>2, <1>3, PostsInv_Advance

LEMMA PostsInv_DropVisited ==
    ASSUME TypeOK, PostsInv, NEW t \in Thread, DropVisited(t)
    PROVE  PostsInv'
<1>1. /\ UNCHANGED <<posted, order, accepted, setMutex>>
      /\ \A u \in Thread : u # t => call'[u] = call[u]
      /\ call[t].at = "drop"
      /\ call'[t] = [at |-> "visit", msg |-> call[t].msg, left |-> call[t].left]
  BY DEF DropVisited, Enter, history, TypeOK, PostTypeOK
<1> QED BY <1>1, PostsInv_Advance

LEMMA PostsInv_PushMessage ==
    ASSUME TypeOK, PostsInv, NEW t \in Thread, PushMessage(t)
    PROVE  PostsInv'
<1>0. call[t].bus \in Bus /\ call[t].msg \in Message /\ call[t].at = "push"
  BY CallFacts DEF PushMessage, Posting, TypeOK, PostTypeOK
<1>1. PICK b \in Bus, msg \in Message : b = call[t].bus /\ msg = call[t].msg
  BY <1>0
<1>2. /\ UNCHANGED <<posted, order, setMutex>>
      /\ \A u \in Thread : u # t => call'[u] = call[u]
      /\ call'[t] = [at |-> "drop", msg |-> msg, left |-> call[t].left, bus |-> b]
  BY <1>1 DEF PushMessage, Enter, TypeOK, PostTypeOK
<1>3. CASE UNCHANGED accepted
  <2>1. b \notin call[t].left
    BY <1>0, <1>1 DEF PostsInv, PostInv, Unsent
  <2> QED BY <1>0, <1>1, <1>2, <1>3, <2>1, PostsInv_Advance
<1>4. CASE accepted' = [accepted EXCEPT ![b] = Append(@, msg)]
  <2>1. accepted[b] \in Seq(Message)
    BY DEF TypeOK, HistoryTypeOK
  <2>2. accepted'[b] = Append(accepted[b], msg) /\ \A c \in Bus : c # b => accepted'[c] = accepted[c]
    BY <1>4 DEF TypeOK, HistoryTypeOK
  <2>3. \A y : Absent(accepted'[b], y) <=> Absent(accepted[b], y) /\ y # msg
    BY <2>1, <2>2, AbsentAppend
  <2>4. ~ Absent(order[msg.origin], msg)
    <3>1. /\ order[msg.origin] # <<>>
          /\ order[msg.origin][Len(order[msg.origin])] = msg
      BY <1>0, <1>1 DEF PostsInv, PostInv, Holding
    <3>2. order[msg.origin] \in Seq(Message)
      BY MessageFacts DEF TypeOK, HistoryTypeOK
    <3>3. Len(order[msg.origin]) \in DOMAIN order[msg.origin]
      BY <3>1, <3>2
    <3> QED BY <3>1, <3>3 DEF Absent
  <2>5. OrderInv'
    <3>1. ASSUME NEW c \in Bus, NEW j \in DOMAIN accepted'[c]
          PROVE  ~ Absent(order[accepted'[c][j].origin], accepted'[c][j])
      <4>1. CASE c # b
        BY <2>2, <4>1 DEF PostsInv, OrderInv
      <4>2. CASE c = b
        <5>1. \/ j \in DOMAIN accepted[b] /\ accepted'[b][j] = accepted[b][j]
              \/ accepted'[b][j] = msg
          BY <2>1, <2>2, <4>2, AppendFacts
        <5> QED BY <2>4, <4>2, <5>1 DEF PostsInv, OrderInv
      <4> QED BY <4>1, <4>2
    <3> QED BY <1>2, <3>1 DEF PostsInv, OrderInv, Absent
  <2>6. ASSUME NEW u \in Thread PROVE PostInv(u)'
    <3>1. \A v \in Thread : call'[v].at \in Posting =>
              call[v].at \in Posting /\ call'[v].msg = call[v].msg
      BY <1>0, <1>1, <1>2 DEF Posting
    <3>2. Alone(u)'
      BY <1>2, <3>1 DEF PostsInv, PostInv, Alone
    <3>3. CASE u = t
      <4>1. Unordered(t)' /\ Holding(t)'
        BY <1>0, <1>1, <1>2 DEF PostsInv, PostInv, Unordered, Holding
      <4>2. b \notin call[t].left /\ \A c \in call[t].left : Absent(accepted[c], msg)
        BY <1>0, <1>1 DEF PostsInv, PostInv, Unsent
      <4>3. call[t].left \subseteq Bus
        BY <1>0, CallFacts DEF Posting, TypeOK, PostTypeOK
      <4>4. \A c \in call[t].left : Absent(accepted'[c], msg)
        BY <2>2, <4>2, <4>3
      <4>5. Unsent(t)'
        BY <1>2, <4>2, <4>4 DEF Unsent
      <4> QED BY <3>2, <3>3, <4>1, <4>5 DEF PostInv
    <3>4. CASE u # t
      <4>1. call'[u] = call[u]
        BY <1>2, <3>4
      <4>2. call[u].at \in Posting => call[u].msg # msg
        BY <1>0, <1>1, <3>4 DEF PostsInv, PostInv, Alone, Posting
      <4>3. /\ call[u].at \in Posting => call[u].left \subseteq Bus
            /\ call[u].at = "push" => call[u].bus \in Bus
        BY CallFacts DEF TypeOK, PostTypeOK
      <4>4. \A c \in Bus : call[u].at \in Posting /\ Absent(accepted[c], call[u].msg)
                           => Absent(accepted'[c], call[u].msg)
        BY <2>2, <2>3, <4>2
      <4>5. Unordered(u)' /\ Holding(u)'
        BY <1>2, <4>1 DEF PostsInv, PostInv, Unordered, Holding, Absent
      <4>6. Unsent(u)'
        BY <4>1, <4>3, <4>4 DEF PostsInv, PostInv, Unsent, Posting
      <4> QED BY <3>2, <4>5, <4>6 DEF PostInv
    <3> QED BY <3>3, <3>4
  <2> QED BY <2>5, <2>6 DEF PostsInv
<1> QED BY <1>1, <1>3, <1>4 DEF PushMessage

LEMMA PostsInv_LockBusSet ==
    ASSUME TypeOK, PostsInv, NEW t \in Thread, LockBusSet(t)
    PROVE  PostsInv'
<1>0. call[t].msg \in Message /\ call[t].at = "lock"
  BY CallFacts DEF LockBusSet, Posting, TypeOK, PostTypeOK
<1>1. PICK o \in Origin, msg \in Message : msg = call[t].msg /\ o = msg.origin
  BY <1>0, MessageFacts
<1>2. /\ UNCHANGED <<posted, accepted>>
      /\ setMutex[o] = None /\ setMutex' = [setMutex EXCEPT ![o] = t]
      /\ order' = [order EXCEPT ![o] = Append(@, msg)]
      /\ \A u \in Thread : u # t => call'[u] = call[u]
      /\ call'[t] = [at |-> "visit", msg |-> msg, left |-> busSet[o]]
  BY <1>1 DEF LockBusSet, Enter, TypeOK, PostTypeOK
<1>3. order[o] \in Seq(Message) /\ Absent(order[o], msg)
  BY <1>0, <1>1 DEF PostsInv, PostInv, Unordered, TypeOK, HistoryTypeOK
<1>4. /\ order'[o] = Append(order[o], msg)
      /\ \A p \in Origin : p # o => order'[p] = order[p]
      /\ setMutex'[o] = t
      /\ \A p \in Origin : p # o => setMutex'[p] = setMutex[p]
  BY <1>2 DEF TypeOK, PostTypeOK, HistoryTypeOK
<1>5. \A y : Absent(order'[o], y) <=> Absent(order[o], y) /\ y # msg
  BY <1>3, <1>4, AbsentAppend
<1>6. \A b \in Bus : Absent(accepted[b], msg)
  BY <1>1, <1>3 DEF PostsInv, OrderInv, Absent
<1>7. OrderInv'
  <2>1. ASSUME NEW p \in Origin, NEW i \in DOMAIN order'[p]
        PROVE  order'[p][i].n <= posted /\ order'[p][i].origin = p
    <3>1. CASE p # o
      BY <1>4, <3>1 DEF PostsInv, OrderInv
    <3>2. CASE p = o
      <4>1. msg.n <= posted /\ msg.origin = o
        BY <1>0, <1>1 DEF PostsInv, PostInv, Alone, Posting
      <4>2. \/ i \in DOMAIN order[o] /\ order'[o][i] = order[o][i]
            \/ order'[o][i] = msg
        BY <1>3, <1>4, <3>2, AppendFacts
      <4> QED BY <3>2, <4>1, <4>2 DEF PostsInv, OrderInv
    <3> QED BY <3>1, <3>2
  <2>2. ASSUME NEW b \in Bus, NEW j \in DOMAIN accepted[b]
        PROVE  ~ Absent(order'[accepted[b][j].origin], accepted[b][j])
    <3>1. ~ Absent(order[accepted[b][j].origin], accepted[b][j])
      BY DEF PostsInv, OrderInv
    <3>2. accepted[b][j].origin \in Origin
      <4>1. accepted[b] \in Seq(Message)
        BY DEF TypeOK, HistoryTypeOK
      <4>2. accepted[b][j] \in Message
        BY <4>1
      <4> QED BY <4>2, MessageFacts
    <3> QED BY <1>4, <1>5, <3>1, <3>2
  <2> QED BY <1>2, <2>1, <2>2 DEF OrderInv
<1>8. ASSUME NEW u \in Thread PROVE PostInv(u)'
  <2>1. \A v \in Thread : call'[v].at \in Posting =>
            call[v].at \in Posting /\ call'[v].msg = call[v].msg
    BY <1>0, <1>1, <1>2 DEF Posting
  <2>2. Alone(u)'
    BY <1>2, <2>1 DEF PostsInv, PostInv, Alone
  <2>3. CASE u = t
    <3>1. Unordered(t)'
      BY <1>2 DEF Unordered
    <3>2. Holding(t)'
      <4>1. /\ order'[o] # <<>>
            /\ order'[o][Len(order'[o])] = msg
        BY <1>3, <1>4
      <4>2. call'[t].msg = msg
        BY <1>2
      <4>3. msg.origin = o /\ setMutex'[o] = t
        BY <1>1, <1>4
      <4> QED BY <4>1, <4>2, <4>3 DEF Holding
    <3>3. busSet[o] \subseteq Bus
      BY DEF TypeOK, PostTypeOK
    <3>4. Unsent(t)'
      BY <1>2, <1>6, <3>3 DEF Unsent
    <3> QED BY <2>2, <2>3, <3>1, <3>2, <3>4 DEF PostInv
  <2>4. CASE u # t
    <3>1. call'[u] = call[u]
      BY <1>2, <2>4
    <3>2. call[u].at \in Posting => call[u].msg # msg /\ call[u].msg.origin \in Origin
      <4>1. call[u].at \in Posting => call[u].msg \in Message
        BY CallFacts DEF TypeOK, PostTypeOK
      <4> QED BY <1>0, <1>1, <2>4, <4>1, MessageFacts DEF PostsInv, PostInv, Alone, Posting
    <3>3. Unordered(u)'
      BY <1>4, <1>5, <3>1, <3>2 DEF PostsInv, PostInv, Unordered, Posting
    <3>4. Holding(u)'
      <4>1. ASSUME call[u].at \in {"visit", "push", "drop"} PROVE call[u].msg.origin # o
        BY <1>2, <4>1, SetAssumption DEF PostsInv, PostInv, Holding
      <4> QED BY <1>4, <3>1, <3>2, <4>1 DEF PostsInv, PostInv, Holding, Posting
    <3>5. Unsent(u)'
      <4>1. accepted' = accepted /\ Unsent(u)
        BY <1>2 DEF PostsInv, PostInv
      <4> QED BY <3>1, <4>1 DEF Unsent, Absent
    <3> QED BY <2>2, <3>3, <3>4, <3>5 DEF PostInv
  <2> QED BY <2>3, <2>4
<1> QED BY <1>7, <1>8 DEF PostsInv

LEMMA PostsInv_EndPost ==
    ASSUME TypeOK, PostsInv, NEW t \in Thread, EndPost(t)
    PROVE  PostsInv'
<1>0. call[t].msg.origin \in Origin /\ call[t].at = "visit"
  BY CallFacts, MessageFacts DEF EndPost, Posting, TypeOK, PostTypeOK
<1>1. PICK o \in Origin : o = call[t].msg.origin
  BY <1>0
<1>2. /\ UNCHANGED <<posted, order, accepted>>
      /\ \A p \in Origin : p # o => setMutex'[p] = setMutex[p]
      /\ \A u \in Thread : u # t => call'[u] = call[u]
      /\ call'[t].at = "idle"
  BY <1>1 DEF EndPost, Leave, Enter, history, TypeOK, PostTypeOK
<1>3. OrderInv'
  BY <1>2 DEF PostsInv, OrderInv, Absent
<1>4. ASSUME NEW u \in Thread PROVE PostInv(u)'
  <2>1. CASE u = t
    BY <1>2, <2>1 DEF PostInv, Alone, Unordered, Holding, Unsent, Posting
  <2>2. CASE u # t
    <3>1. call'[u] = call[u]
      BY <1>2, <2>2
    <3>2. Alone(u)'
      BY <1>2, <3>1 DEF PostsInv, PostInv, Alone, Posting
    <3>3. Unordered(u)'
      BY <1>2, <3>1 DEF PostsInv, PostInv, Unordered, Absent
    <3>4. Holding(u)'
      <4>1. ASSUME call[u].at \in {"visit", "push", "drop"}
            PROVE  call[u].msg.origin # o /\ call[u].msg.origin \in Origin
        <5>1. setMutex[o] = t /\ setMutex[call[u].msg.origin] = u
          BY <1>0, <1>1, <4>1 DEF PostsInv, PostInv, Holding
        <5>2. call[u].msg \in Message
          BY <4>1, CallFacts DEF Posting, TypeOK, PostTypeOK
        <5> QED BY <2>2, <5>1, <5>2, MessageFacts
      <4> QED BY <1>2, <3>1, <4>1 DEF PostsInv, PostInv, Holding
    <3>5. Unsent(u)'
      <4>1. accepted' = accepted /\ Unsent(u)
        BY <1>2 DEF PostsInv, PostInv
      <4> QED BY <3>1, <4>1 DEF Unsent, Absent
    <3> QED BY <3>2, <3>3, <3>4, <3>5 DEF PostInv
  <2> QED BY <2>1, <2>2
<1> QED BY <1>3, <1>4 DEF PostsInv

LEMMA PostsInv_Step ==
    ASSUME TypeOK, PostsInv, [Next]_vars
    PROVE  PostsInv'
<1>1. ASSUME NEW t \in Thread, StartCall(t)
      PROVE  PostsInv'
  <2>1. ASSUME NEW b \in Bus, NEW o \in Origin,
               AddMessageOrigin(t, b, o) \/ RemoveMessageOrigin(t, b, o)
        PROVE  PostsInv'
    BY <2>1, PostsInv_Same DEF AddMessageOrigin, RemoveMessageOrigin, history
  <2>2. ASSUME NEW b \in Bus, SetMask(t, b)
        PROVE  PostsInv'
    BY <2>2, PostsInv_Same DEF SetMask, postVars, history
  <2>3. ASSUME NEW b \in Bus, DropBus(t, b)
        PROVE  PostsInv'
    BY <2>3, PostsInv_Same DEF DropBus, history
  <2>4. ASSUME NEW b \in Bus, SetMessageCallback(t, b)
        PROVE  PostsInv'
    <3>1. /\ UNCHANGED <<posted, order, accepted, setMutex>>
          /\ \A u \in Thread : u # t => call'[u] = call[u]
          /\ call'[t].at = "replace"
      BY <2>4 DEF SetMessageCallback, Enter, history, TypeOK, PostTypeOK
    <3> QED BY <3>1, PostsInv_Same DEF Posting
  <2> QED BY <1>1, <2>1, <2>2, <2>3, <2>4, PostsInv_PostMessage DEF StartCall
<1>2. ASSUME NEW t \in Thread, Continue(t)
      PROVE  PostsInv'
  <2>1. ASSUME NEW b \in Bus, FinishFinalize(t, b)
        PROVE  PostsInv'
    BY <2>1, PostsInv_Same DEF FinishFinalize, history
  <2>2. CASE ReplaceCallback(t)
    <3>1. /\ UNCHANGED <<posted, order, accepted, setMutex>>
          /\ \A u \in Thread : u # t => call'[u] = call[u]
          /\ call'[t].at = "idle"
      BY <2>2 DEF ReplaceCallback, Leave, Enter, history, TypeOK, PostTypeOK
    <3> QED BY <3>1, PostsInv_Same DEF Posting
  <2> QED BY <1>2, <2>1, <2>2, PostsInv_LockBusSet, PostsInv_VisitBus,
             PostsInv_PushMessage, PostsInv_DropVisited, PostsInv_EndPost DEF Continue
<1>3. ASSUME NEW b \in Bus, BusThread(b)
      PROVE  PostsInv'
  <2>1. UNCHANGED <<posted, order, accepted, setMutex, call>>
    BY <1>3 DEF BusThread, PopMessage, CallBack, ReturnFromCallback, UnrefHandled,
                postVars, history
  <2> QED BY <2>1, PostsInv_Same
<1>4. CASE UNCHANGED vars
  BY <1>4, PostsInv_Same DEF vars, postVars, history
<1> QED BY <1>1, <1>2, <1>3, <1>4 DEF Next

----------------------------------------------------------------------------
(* The theorems *)

BusInv == TypeOK /\ LifeInv /\ CallbacksInv /\ QueuesInv /\ PostsInv

LEMMA InitBusInv == Init => BusInv
<1> SUFFICES ASSUME Init PROVE BusInv
  OBVIOUS
<1>1. TypeOK
  BY BoundAssumption DEF Init, TypeOK, BusTypeOK, PostTypeOK, HistoryTypeOK, CallState,
                         LoopState
<1>2. LifeInv
  BY DEF Init, LifeInv, BusLife, ThreadLife
<1>3. CallbacksInv
  BY DEF Init, CallbacksInv, CallbackInv
<1>4. QueuesInv
  BY DEF Init, QueuesInv, QueueInv, Closing, Busy, Waiting
<1>5. PostsInv
  BY DEF Init, PostsInv, OrderInv, PostInv, Alone, Unordered, Holding, Unsent, Posting
<1> QED BY <1>1, <1>2, <1>3, <1>4, <1>5 DEF BusInv

LEMMA NextBusInv == BusInv /\ [Next]_vars => BusInv'
<1> SUFFICES ASSUME BusInv, [Next]_vars PROVE BusInv'
  OBVIOUS
<1> USE DEF BusInv
<1>1. TypeOK'
  <2>1. CASE UNCHANGED vars
    BY <2>1 DEF vars, busVars, postVars, history, TypeOK, BusTypeOK, PostTypeOK,
                HistoryTypeOK
  <2> QED BY <2>1, TypeOK_StartCall, TypeOK_Continue, TypeOK_BusThread DEF Next
<1>2. LifeInv'
  <2>1. CASE UNCHANGED vars
    BY <2>1 DEF vars, busVars, postVars, LifeInv, BusLife, ThreadLife
  <2> QED BY <2>1, LifeInv_StartCall, LifeInv_Continue, LifeInv_BusThread DEF Next
<1>3. CallbacksInv'
  <2>1. CASE UNCHANGED vars
    BY <2>1 DEF vars, busVars, CallbacksInv, CallbackInv
  <2> QED BY <2>1, CallbacksInv_Thread, CallbacksInv_BusThread DEF Next
<1>4. QueuesInv'
  <2>1. CASE UNCHANGED vars
    BY <2>1, QueueSame DEF vars, busVars, history, QueuesInv
  <2> QED BY <2>1, QueuesInv_Thread, QueuesInv_BusThread DEF Next
<1>5. PostsInv'
  BY PostsInv_Step
<1> QED BY <1>1, <1>2, <1>3, <1>4, <1>5

\* Every reachable state is well-typed: each thread, bus thread and lock is where
\* the functions of owr_bus.c and owr_message_origin.c can leave it.
THEOREM TypeCorrect == Spec => []TypeOK
<1>1. BusInv => TypeOK
  BY DEF BusInv
<1> QED BY <1>1, InitBusInv, NextBusInv, PTL DEF Spec

\* The user data of a running callback is never destroyed under it, whichever
\* threads set another callback and whichever thread finalizes the bus.
THEOREM CallbackDataAliveAlways == Spec => []CallbackDataAlive
<1>1. BusInv => CallbackDataAlive
  <2> SUFFICES ASSUME BusInv, NEW b \in Bus, loop[b].at = "call"
               PROVE  loop[b].data \notin destroyed[b]
    BY DEF CallbackDataAlive
  <2>1. phase[b] # "gone"
    BY DEF BusInv, LifeInv, BusLife
  <2>2. loop[b].data = callback[b] /\ \A d \in destroyed[b] : d < callback[b]
    BY <2>1 DEF BusInv, CallbacksInv, CallbackInv
  <2>3. callback[b] \in Nat
    BY DEF BusInv, TypeOK, BusTypeOK
  <2> QED BY <2>2, <2>3
<1> QED BY <1>1, InitBusInv, NextBusInv, PTL DEF Spec

\* When owr_bus_finalize frees the queue, the thread has handled everything that
\* was ever put into it: no post can slip a message in behind last_message.
THEOREM NothingLostEver == Spec => []NothingLost
<1>1. BusInv => NothingLost
  <2> SUFFICES ASSUME BusInv, NEW b \in Bus, phase[b] = "gone"
               PROVE  queue[b] = <<>> /\ handled[b] = Len(accepted[b])
    BY DEF NothingLost
  <2>1. loop[b].at = "exited" /\ QueueInv(b)
    BY DEF BusInv, LifeInv, BusLife, QueuesInv
  <2>2. queue[b] = <<>> /\ Busy(b) = 0 /\ Waiting(b) = 0
    BY <2>1 DEF QueueInv, Busy, Waiting, Closing
  <2>3. handled[b] \in Nat /\ Len(accepted[b]) = handled[b] + Busy(b) + Waiting(b)
    BY <2>1, BusFacts DEF BusInv, QueueInv
  <2> QED BY <2>2, <2>3
<1> QED BY <1>1, InitBusInv, NextBusInv, PTL DEF Spec

----------------------------------------------------------------------------
(* Refinement *)

LEMMA DeliveryInit == Init => Delivery!Init
  BY DEF Init, Delivery!Init

\* Dropping a reference gives the bus up, or nothing to the abstract eye.
LEMMA UnrefDelivery ==
    ASSUME TypeOK, LifeInv, NEW t \in Thread, NEW holder, NEW b \in Bus,
           holder \in refs[b], Unref(t, holder, b), UNCHANGED history
    PROVE  Delivery!GiveUp(b) \/ UNCHANGED Delivery!vars
<1>1. phase[b] = "live"
  BY DEF LifeInv, BusLife
<1> QED BY <1>1 DEF Unref, history, Delivery!GiveUp, Delivery!vars

LEMMA LockDelivery ==
    ASSUME TypeOK, PostsInv, NEW t \in Thread, LockBusSet(t)
    PROVE  \E msg \in Message : Delivery!Post(msg)
<1>1. call[t].msg \in Message /\ Absent(order[call[t].msg.origin], call[t].msg)
  BY CallFacts DEF LockBusSet, Posting, PostsInv, PostInv, Unordered, TypeOK, PostTypeOK
<1>2. /\ order' = [order EXCEPT ![call[t].msg.origin] = Append(@, call[t].msg)]
      /\ UNCHANGED <<accepted, handled, phase>>
  BY DEF LockBusSet, busVars
<1> QED BY <1>1, <1>2 DEF Absent, Delivery!Post

\* A message goes to a bus that has, of its origin, only earlier ones.
LEMMA PushDelivery ==
    ASSUME TypeOK, LifeInv, PostsInv, NEW t \in Thread, PushMessage(t)
    PROVE  (\E b \in Bus, o \in Origin : Delivery!Accept(b, o)) \/ UNCHANGED Delivery!vars
<1>1. call[t].bus \in Bus /\ call[t].msg \in Message /\ call[t].at = "push"
  BY CallFacts DEF PushMessage, Posting, TypeOK, PostTypeOK
<1>2. PICK b \in Bus, msg \in Message : b = call[t].bus /\ msg = call[t].msg
  BY <1>1
<1>3. PICK o \in Origin : o = msg.origin
  BY MessageFacts
<1>4. UNCHANGED <<order, handled, phase>>
  BY DEF PushMessage
<1>5. CASE UNCHANGED accepted
  BY <1>4, <1>5 DEF Delivery!vars
<1>6. CASE accepted' = [accepted EXCEPT ![b] = Append(@, msg)]
  <2>1. phase[b] = "live"
    BY <1>1, <1>2 DEF LifeInv, BusLife, ThreadLife
  <2>2. order[o] # <<>> /\ order[o][Len(order[o])] = msg
    BY <1>1, <1>2, <1>3 DEF PostsInv, PostInv, Holding
  <2>3. order[o] \in Seq(Message)
    BY DEF TypeOK, HistoryTypeOK
  <2>4. PICK n \in DOMAIN order[o] : n = Len(order[o]) /\ n \in Nat
    BY <2>2, <2>3
  <2>5. Absent(accepted[b], msg)
    BY <1>1, <1>2 DEF PostsInv, PostInv, Unsent
  <2>6. Delivery!Later(b, o, n)
    <3>1. ASSUME NEW j \in DOMAIN accepted[b], accepted[b][j].origin = o
          PROVE  \E k \in 1..n - 1 : order[o][k] = accepted[b][j]
      <4>1. PICK k \in DOMAIN order[o] : order[o][k] = accepted[b][j]
        BY <3>1 DEF PostsInv, OrderInv, Absent
      <4>2. k # n
        BY <2>2, <2>4, <2>5, <4>1 DEF Absent
      <4>3. k \in 1..n
        BY <2>3, <2>4
      <4>4. k \in 1..n - 1
        BY <2>4, <4>2, <4>3
      <4> QED BY <4>1, <4>4
    <3> QED BY <3>1 DEF Delivery!Later
  <2>7. accepted' = [accepted EXCEPT ![b] = Append(@, order[o][n])]
    BY <1>6, <2>2, <2>4
  <2>8. Delivery!Accept(b, o)
    BY <1>4, <2>1, <2>6, <2>7 DEF Delivery!Accept
  <2> QED BY <2>8
<1> QED BY <1>2, <1>5, <1>6 DEF PushMessage

LEMMA HandleDelivery ==
    ASSUME TypeOK, QueuesInv, NEW b \in Bus, UnrefHandled(b)
    PROVE  Delivery!Handle(b)
<1>1. /\ Busy(b) = 1
      /\ handled' = [handled EXCEPT ![b] = @ + 1]
      /\ UNCHANGED <<order, accepted, phase>>
  BY DEF UnrefHandled, Busy
<1>2. /\ Len(accepted[b]) = handled[b] + Busy(b) + Waiting(b)
      /\ Closing(b) => queue[b] # <<>>
  BY DEF QueuesInv, QueueInv
<1>3. Waiting(b) \in Nat
  <2>1. queue[b] \in Seq(Item)
    BY BusFacts
  <2> QED BY <1>2, <2>1 DEF Waiting
<1>4. handled[b] < Len(accepted[b])
  <2>1. handled[b] \in Nat
    BY BusFacts
  <2> QED BY <1>1, <1>2, <1>3, <2>1
<1> QED BY <1>1, <1>4 DEF Delivery!Handle

LEMMA FinishDelivery ==
    ASSUME TypeOK, LifeInv, QueuesInv, NEW t \in Thread, NEW b \in Bus, FinishFinalize(t, b)
    PROVE  Delivery!End(b)
<1>1. /\ joining[t] = b /\ loop[b].at = "exited"
      /\ phase' = [phase EXCEPT ![b] = "gone"]
      /\ UNCHANGED <<order, accepted, handled>>
  BY DEF FinishFinalize, history
<1>2. phase[b] = "last"
  BY <1>1, SetAssumption DEF LifeInv, ThreadLife, Thread
<1>3. QueueInv(b)
  BY DEF QueuesInv
<1>4. Busy(b) = 0 /\ Waiting(b) = 0
  BY <1>1, <1>3 DEF QueueInv, Busy, Waiting, Closing
<1>5. handled[b] = Len(accepted[b])
  <2>1. handled[b] \in Nat /\ Len(accepted[b]) = handled[b] + Busy(b) + Waiting(b)
    BY <1>3, BusFacts DEF QueueInv
  <2> QED BY <1>4, <2>1
<1> QED BY <1>1, <1>2, <1>5 DEF Delivery!End

LEMMA NextDelivery == BusInv /\ [Next]_vars => [Delivery!Next]_Delivery!vars
<1> SUFFICES ASSUME BusInv, [Next]_vars PROVE [Delivery!Next]_Delivery!vars
  OBVIOUS
<1> USE DEF BusInv
<1>1. ASSUME NEW t \in Thread, StartCall(t)
      PROVE  [Delivery!Next]_Delivery!vars
  <2>1. ASSUME NEW b \in Bus, DropBus(t, b)
        PROVE  [Delivery!Next]_Delivery!vars
    BY <2>1, UnrefDelivery DEF DropBus, Delivery!Next
  <2>2. \/ UNCHANGED <<order, accepted, handled, phase>>
        \/ \E b \in Bus : DropBus(t, b)
    BY <1>1 DEF StartCall, AddMessageOrigin, RemoveMessageOrigin, SetMask,
                SetMessageCallback, PostMessage, busVars, history
  <2> QED BY <2>1, <2>2 DEF Delivery!vars
<1>2. ASSUME NEW t \in Thread, Continue(t)
      PROVE  [Delivery!Next]_Delivery!vars
  <2>1. ASSUME NEW b \in Bus, FinishFinalize(t, b)
        PROVE  [Delivery!Next]_Delivery!vars
    BY <2>1, FinishDelivery DEF Delivery!Next
  <2>2. CASE LockBusSet(t)
    BY <2>2, LockDelivery DEF Delivery!Next
  <2>3. CASE PushMessage(t)
    BY <2>3, PushDelivery DEF Delivery!Next
  <2>4. CASE DropVisited(t)
    <3>1. call[t].bus \in Bus /\ t \in refs[call[t].bus]
      BY <2>4, CallFacts DEF DropVisited, LifeInv, ThreadLife, TypeOK, PostTypeOK
    <3>2. Unref(t, t, call[t].bus) /\ UNCHANGED history
      BY <2>4 DEF DropVisited
    <3> QED BY <3>1, <3>2, UnrefDelivery DEF Delivery!Next
  <2>5. \/ UNCHANGED <<order, accepted, handled, phase>>
        \/ \E b \in Bus : FinishFinalize(t, b)
        \/ LockBusSet(t) \/ PushMessage(t) \/ DropVisited(t)
    BY <1>2 DEF Continue, ReplaceCallback, VisitBus, EndPost, busVars, history
  <2> QED BY <2>1, <2>2, <2>3, <2>4, <2>5 DEF Delivery!vars
<1>3. ASSUME NEW b \in Bus, BusThread(b)
      PROVE  [Delivery!Next]_Delivery!vars
  <2>1. CASE UnrefHandled(b)
    BY <2>1, HandleDelivery DEF Delivery!Next
  <2>2. CASE PopMessage(b) \/ CallBack(b) \/ ReturnFromCallback(b)
    BY <2>2 DEF PopMessage, CallBack, ReturnFromCallback, history, Delivery!vars
  <2> QED BY <1>3, <2>1, <2>2 DEF BusThread
<1>4. CASE UNCHANGED vars
  BY <1>4 DEF vars, busVars, history, Delivery!vars
<1> QED BY <1>1, <1>2, <1>3, <1>4 DEF Next

\* Whatever the threads do, the buses deliver as MessageDelivery promises: each
\* takes an origin's messages at most once and in the origin's order, none after
\* its last reference is gone, and it is gone only when it has handled them.
THEOREM DeliveryImplemented == Spec => DeliveryPromised
  BY InitBusInv, NextBusInv, DeliveryInit, NextDelivery, PTL
     DEF Spec, DeliveryPromised, Delivery!Spec

----------------------------------------------------------------------------
(* A message's references are counted.  That a queue gives up one holder    *)
(* when it gives up a message needs to know that no queue has it twice: a    *)
(* post has a number of its own, and no bus it has yet to come to knows it.  *)

Free(b, n) == \A i \in DOMAIN queue[b] : queue[b][i].n # n
InWork(b) == loop[b].at \in {"lock", "call", "unref"}

NumberInv(t) ==
    call[t].at \in Posting =>
        /\ call[t].msg.n =< posted
        /\ \A u \in Thread : u # t /\ call[u].at \in Posting => call[u].msg.n # call[t].msg.n
        /\ call[t].at = "lock" => \A b \in Bus : Free(b, call[t].msg.n)
        /\ call[t].at # "lock" => \A b \in call[t].left : Free(b, call[t].msg.n)
        /\ call[t].at = "push" => Free(call[t].bus, call[t].msg.n) /\ call[t].bus \notin call[t].left
QueueNumbers(b) ==
    \A i, j \in DOMAIN queue[b] :
        /\ queue[b][i].n =< posted
        /\ queue[b][i].n # 0 /\ i # j => queue[b][i].n # queue[b][j].n
WorkNumber(b) == InWork(b) => loop[b].msg.n =< posted
NumbersInv ==
    /\ \A t \in Thread : NumberInv(t)
    /\ \A b \in Bus : QueueNumbers(b) /\ WorkNumber(b)

CountInv(n) ==
    /\ IsFiniteSet(Posts(n)) /\ IsFiniteSet(QueuedOn(n)) /\ IsFiniteSet(WorkedOn(n))
    /\ refCount[n] = Cardinality(Posts(n)) + Cardinality(QueuedOn(n)) + Cardinality(WorkedOn(n))
CountsInv == \A n \in 1..MaxPost : CountInv(n)

\* The items of a queue have numbers.
LEMMA ItemNumbers ==
    ASSUME TypeOK, NEW b \in Bus
    PROVE  /\ queue[b] \in Seq(Item)
           /\ \A i \in DOMAIN queue[b] : queue[b][i] \in Item /\ queue[b][i].n \in Nat
<1>1. queue[b] \in Seq(Item)
  BY DEF TypeOK, BusTypeOK
<1>2. ASSUME NEW e \in Item PROVE e.n \in Nat
  BY MessageFacts DEF Item, LastMessage
<1> QED BY <1>1, <1>2

\* The message a thread posts, and the one a bus thread works on.
LEMMA PostedMessage ==
    ASSUME TypeOK, NEW t \in Thread, call[t].at \in Posting
    PROVE  /\ call[t].msg \in Message /\ call[t].msg.n \in 1..MaxPost
           /\ call[t].left \in SUBSET Bus
           /\ call[t].at \in {"push", "drop"} => call[t].bus \in Bus
  BY CallFacts, MessageFacts DEF TypeOK, PostTypeOK

LEMMA WorkedMessage ==
    ASSUME TypeOK, NEW b \in Bus, InWork(b)
    PROVE  loop[b].msg \in Message /\ loop[b].msg.n \in 1..MaxPost
  BY LoopFacts, MessageFacts DEF TypeOK, BusTypeOK, InWork

\* An item at the end of a queue.
LEMMA AppendNumbers ==
    ASSUME TypeOK, NEW b \in Bus, NEW e \in Item, queue'[b] = Append(queue[b], e),
           UNCHANGED posted, QueueNumbers(b), e.n =< posted,
           e.n # 0 => Free(b, e.n)
    PROVE  /\ QueueNumbers(b)'
           /\ \A n \in Nat : Free(b, n)' <=> Free(b, n) /\ n # e.n
<1> DEFINE q == queue[b]
           z == Append(q, e)
<1>1. q \in Seq(Item) /\ \A i \in DOMAIN q : q[i].n \in Nat
  BY ItemNumbers
<1>2. /\ DOMAIN q = 1 .. Len(q) /\ Len(q) \in Nat /\ DOMAIN z = 1 .. Len(q) + 1
      /\ \A i \in DOMAIN q : z[i] = q[i]
      /\ z[Len(q) + 1] = e
  BY <1>1
<1>3. \A i \in DOMAIN z : i \in DOMAIN q \/ i = Len(q) + 1
  BY <1>2
<1>4. queue'[b] = z /\ posted' = posted
  OBVIOUS
<1> HIDE DEF z
<1>5. ASSUME NEW i \in DOMAIN z, NEW j \in DOMAIN z
      PROVE  z[i].n =< posted /\ (z[i].n # 0 /\ i # j => z[i].n # z[j].n)
  <2>1. CASE i \in DOMAIN q /\ j \in DOMAIN q
    BY <1>2, <2>1 DEF QueueNumbers
  <2>2. CASE i \in DOMAIN q /\ j = Len(q) + 1
    <3>1. z[i] = q[i] /\ z[j] = e
      BY <1>2, <2>2
    <3>2. q[i].n =< posted
      BY <2>2 DEF QueueNumbers
    <3>3. q[i].n = e.n => e.n = 0
      BY <2>2 DEF Free
    <3> QED BY <3>1, <3>2, <3>3
  <2>3. CASE i = Len(q) + 1
    <3>1. z[i] = e
      BY <1>2, <2>3
    <3>2. i # j => j \in DOMAIN q /\ z[j] = q[j]
      BY <1>2, <1>3, <2>3
    <3>3. j \in DOMAIN q => (q[j].n = e.n => e.n = 0)
      BY DEF Free
    <3> QED BY <3>1, <3>2, <3>3
  <2> QED BY <1>3, <2>1, <2>2, <2>3
<1>6. QueueNumbers(b)'
  BY <1>4, <1>5 DEF QueueNumbers
<1>7. ASSUME NEW n \in Nat PROVE Free(b, n)' <=> Free(b, n) /\ n # e.n
  <2>1. Free(b, n)' => Free(b, n)
    BY <1>2, <1>4 DEF Free
  <2>2. Free(b, n)' => n # e.n
    <3>1. Len(q) + 1 \in DOMAIN z
      BY <1>2
    <3> QED BY <1>2, <1>4, <3>1 DEF Free
  <2>3. Free(b, n) /\ n # e.n => Free(b, n)'
    BY <1>2, <1>3, <1>4 DEF Free
  <2> QED BY <2>1, <2>2, <2>3
<1> QED BY <1>6, <1>7

\* A bus that is not touched.
LEMMA NumbersSame ==
    ASSUME NEW b \in Bus, queue'[b] = queue[b], UNCHANGED posted, QueueNumbers(b)
    PROVE  QueueNumbers(b)' /\ \A n \in Nat : Free(b, n)' <=> Free(b, n)
  BY DEF QueueNumbers, Free

\* Dropping a reference puts no message into a queue.
LEMMA UnrefNumbers ==
    ASSUME TypeOK, NumbersInv, NEW t \in Thread, NEW holder, NEW b \in Bus, Unref(t, holder, b),
           UNCHANGED posted, NEW c \in Bus
    PROVE  QueueNumbers(c)' /\ \A n \in 1..MaxPost : Free(c, n)' <=> Free(c, n)
<1>1. QueueNumbers(c) /\ queue \in [Bus -> Seq(Item)]
  BY DEF NumbersInv, TypeOK, BusTypeOK
<1>2. queue'[c] = queue[c] \/ queue'[c] = Append(queue[c], LastMessage)
  BY <1>1 DEF Unref
<1>3. CASE queue'[c] = queue[c]
  BY <1>1, <1>3, NumbersSame
<1>4. CASE queue'[c] = Append(queue[c], LastMessage)
  <2>1. LastMessage \in Item /\ LastMessage.n = 0 /\ posted \in Nat
    BY BoundAssumption DEF Item, LastMessage, TypeOK, PostTypeOK
  <2>2. QueueNumbers(c)' /\ \A n \in Nat : Free(c, n)' <=> Free(c, n) /\ n # 0
    BY <1>1, <1>4, <2>1, AppendNumbers
  <2> QED BY <2>2
<1> QED BY <1>2, <1>3, <1>4

\* Steps that leave the messages of the posts alone, and put none into a queue.
LEMMA NumbersKept ==
    ASSUME TypeOK, NumbersInv, UNCHANGED posted,
           \A t \in Thread : call'[t].at \in Posting => call'[t] = call[t],
           \A b \in Bus : QueueNumbers(b)' /\ WorkNumber(b)',
           \A b \in Bus : \A n \in 1..MaxPost : Free(b, n) => Free(b, n)'
    PROVE  NumbersInv'
<1> SUFFICES ASSUME NEW t \in Thread, call'[t].at \in Posting PROVE NumberInv(t)'
  BY DEF NumbersInv, NumberInv
<1>1. call'[t] = call[t] /\ call[t].at \in Posting /\ NumberInv(t)
  BY DEF NumbersInv
<1>2. call[t].msg.n \in 1..MaxPost /\ call[t].left \in SUBSET Bus
      /\ (call[t].at = "push" => call[t].bus \in Bus)
  BY <1>1, PostedMessage
<1>3. \A u \in Thread : u # t /\ call'[u].at \in Posting => call'[u].msg.n # call'[t].msg.n
  BY <1>1 DEF NumberInv
<1> QED BY <1>1, <1>2, <1>3 DEF NumberInv

\* A post that moves on with its message.
LEMMA NumbersMoved ==
    ASSUME TypeOK, NumbersInv, NEW t \in Thread, UNCHANGED posted,
           call[t].at \in Posting, call'[t].at \in Posting, call'[t].msg = call[t].msg,
           \A u \in Thread : u # t => call'[u] = call[u],
           \A b \in Bus : QueueNumbers(b)' /\ WorkNumber(b)',
           \A b \in Bus : \A n \in 1..MaxPost :
              Free(b, n) /\ n # call[t].msg.n => Free(b, n)',
           call'[t].at # "lock",
           \A b \in call'[t].left : Free(b, call[t].msg.n)',
           call'[t].at = "push" =>
              Free(call[t].bus, call[t].msg.n)' /\ call'[t].bus \notin call'[t].left
    PROVE  NumbersInv'
<1> SUFFICES ASSUME NEW u \in Thread, call'[u].at \in Posting PROVE NumberInv(u)'
  BY DEF NumbersInv, NumberInv
<1>1. /\ call[u].at \in Posting /\ call'[u].msg = call[u].msg
      /\ call[u].msg.n =< posted
      /\ \A v \in Thread : v # u /\ call'[v].at \in Posting => call'[v].msg.n # call'[u].msg.n
  BY DEF NumbersInv, NumberInv
<1>2. CASE u = t
  BY <1>1, <1>2 DEF NumberInv
<1>3. CASE u # t
  <2>1. call'[u] = call[u] /\ NumberInv(u) /\ call[u].msg.n # call[t].msg.n
    BY <1>1, <1>3 DEF NumbersInv, NumberInv
  <2>2. call[u].msg.n \in 1..MaxPost /\ call[u].left \in SUBSET Bus
        /\ (call[u].at = "push" => call[u].bus \in Bus)
    BY <1>1, PostedMessage
  <2>3. \A b \in Bus : Free(b, call[u].msg.n) => Free(b, call[u].msg.n)'
    BY <2>1, <2>2
  <2>4. call[u].at = "lock" => \A b \in Bus : Free(b, call[u].msg.n)'
    BY <1>1, <2>1, <2>3 DEF NumberInv
  <2>5. call[u].at # "lock" => \A b \in call[u].left : Free(b, call[u].msg.n)'
    BY <1>1, <2>1, <2>2, <2>3 DEF NumberInv
  <2>6. call[u].at = "push" =>
           Free(call[u].bus, call[u].msg.n)' /\ call[u].bus \notin call[u].left
    BY <1>1, <2>1, <2>2, <2>3 DEF NumberInv
  <2> QED BY <1>1, <2>1, <2>4, <2>5, <2>6 DEF NumberInv
<1> QED BY <1>2, <1>3

\* The calls of the application.
LEMMA Numbers_StartCall ==
    ASSUME TypeOK, NumbersInv, NEW t \in Thread, StartCall(t)
    PROVE  NumbersInv'
<1>0. call \in [Thread -> CallState] /\ posted \in Nat
  BY BoundAssumption DEF TypeOK, PostTypeOK
<1>1. CASE \E b \in Bus, o \in Origin : AddMessageOrigin(t, b, o) \/ RemoveMessageOrigin(t, b, o)
  <2>1. UNCHANGED <<call, queue, loop, posted>>
    BY <1>1 DEF AddMessageOrigin, RemoveMessageOrigin, busVars
  <2>2. \A b \in Bus : QueueNumbers(b)' /\ WorkNumber(b)'
    BY <2>1 DEF NumbersInv, QueueNumbers, WorkNumber, InWork
  <2>3. \A b \in Bus : \A n \in 1..MaxPost : Free(b, n) => Free(b, n)'
    BY <2>1 DEF Free
  <2> QED BY <2>1, <2>2, <2>3, NumbersKept
<1>2. CASE \E b \in Bus : SetMask(t, b) \/ SetMessageCallback(t, b)
  <2>1. UNCHANGED <<queue, loop, posted>>
    BY <1>2 DEF SetMask, SetMessageCallback, busVars, postVars
  <2>2. \A u \in Thread : call'[u].at \in Posting => call'[u] = call[u]
    BY <1>0, <1>2 DEF SetMask, SetMessageCallback, Enter, Posting, postVars
  <2>3. \A b \in Bus : QueueNumbers(b)' /\ WorkNumber(b)'
    BY <2>1 DEF NumbersInv, QueueNumbers, WorkNumber, InWork
  <2>4. \A b \in Bus : \A n \in 1..MaxPost : Free(b, n) => Free(b, n)'
    BY <2>1 DEF Free
  <2> QED BY <2>1, <2>2, <2>3, <2>4, NumbersKept
<1>3. CASE \E b \in Bus : DropBus(t, b)
  <2>1. PICK b \in Bus : Unref(t, App, b) /\ UNCHANGED <<loop, call, posted>>
    BY <1>3 DEF DropBus
  <2>2. \A c \in Bus : QueueNumbers(c)' /\ \A n \in 1..MaxPost : Free(c, n)' <=> Free(c, n)
    BY <2>1, UnrefNumbers
  <2>3. \A c \in Bus : WorkNumber(c)'
    BY <2>1 DEF NumbersInv, WorkNumber, InWork
  <2> QED BY <2>1, <2>2, <2>3, NumbersKept
<1>4. CASE \E o \in Origin, type \in Type : PostMessage(t, o, type)
  <2>1. PICK o \in Origin, type \in Type : PostMessage(t, o, type)
    BY <1>4
  <2> DEFINE msg == [n |-> posted + 1, origin |-> o, type |-> type]
  <2>2. /\ posted' = posted + 1 /\ UNCHANGED <<queue, loop>> /\ call[t].at = "idle"
        /\ call' = [call EXCEPT ![t] = [at |-> "lock", left |-> {}, msg |-> msg]]
    BY <2>1 DEF PostMessage, Enter, May, busVars
  <2>3. /\ call'[t].at = "lock" /\ call'[t].msg = msg /\ msg.n = posted + 1
        /\ \A u \in Thread : u # t => call'[u] = call[u]
    BY <1>0, <2>2
  <2>4. \A b \in Bus : Free(b, posted + 1)
    <3> SUFFICES ASSUME NEW b \in Bus, NEW i \in DOMAIN queue[b] PROVE queue[b][i].n # posted + 1
      BY DEF Free
    <3>1. queue[b][i].n =< posted /\ queue[b][i].n \in Nat
      BY ItemNumbers DEF NumbersInv, QueueNumbers
    <3> QED BY <1>0, <3>1
  <2>5. \A b \in Bus : \A n : Free(b, n)' <=> Free(b, n)
    BY <2>2 DEF Free
  <2>6. ASSUME NEW b \in Bus PROVE QueueNumbers(b)' /\ WorkNumber(b)'
    <3>1. \A i \in DOMAIN queue[b] : queue[b][i].n =< posted + 1
      BY <1>0, ItemNumbers DEF NumbersInv, QueueNumbers
    <3>2. QueueNumbers(b)'
      BY <2>2, <3>1 DEF NumbersInv, QueueNumbers
    <3>3. InWork(b) => loop[b].msg.n =< posted + 1
      BY <1>0, WorkedMessage, BoundAssumption DEF NumbersInv, WorkNumber
    <3> QED BY <2>2, <3>2, <3>3 DEF WorkNumber, InWork
  <2>7. ASSUME NEW u \in Thread, u # t, call[u].at \in Posting
        PROVE  call[u].msg.n =< posted /\ call[u].msg.n \in Nat
    BY <2>7, PostedMessage, BoundAssumption DEF NumbersInv, NumberInv
  <2>8. ASSUME NEW u \in Thread, call'[u].at \in Posting PROVE NumberInv(u)'
    <3>1. CASE u = t
      <4>1. \A v \in Thread : v # u /\ call'[v].at \in Posting => call'[v].msg.n # call'[u].msg.n
        BY <1>0, <2>3, <2>7, <3>1
      <4>2. call'[u].msg.n =< posted'
        BY <1>0, <2>2, <2>3, <3>1
      <4>3. \A b \in Bus : Free(b, call[u].msg.n)'
        BY <1>0, <2>3, <2>4, <2>5, <3>1
      <4> QED BY <2>3, <3>1, <4>1, <4>2, <4>3 DEF NumberInv
    <3>2. CASE u # t
      <4>1. call'[u] = call[u] /\ call[u].at \in Posting /\ NumberInv(u)
        BY <2>3, <2>8, <3>2 DEF NumbersInv
      <4>2. \A v \in Thread : v # u /\ call'[v].at \in Posting => call'[v].msg.n # call'[u].msg.n
        BY <1>0, <2>3, <2>7, <3>2, <4>1 DEF NumberInv
      <4>3. call'[u].msg.n =< posted'
        BY <1>0, <2>2, <2>7, <3>2, <4>1
      <4> QED BY <2>5, <4>1, <4>2, <4>3, PostedMessage DEF NumberInv
    <3> QED BY <3>1, <3>2
  <2> QED BY <2>6, <2>8 DEF NumbersInv, NumberInv
<1> QED BY <1>1, <1>2, <1>3, <1>4 DEF StartCall

\* The way of a post over the buses.
LEMMA Numbers_Continue ==
    ASSUME TypeOK, NumbersInv, NEW t \in Thread, Continue(t)
    PROVE  NumbersInv'
<1>0. call \in [Thread -> CallState] /\ posted \in Nat /\ queue \in [Bus -> Seq(Item)]
  BY BoundAssumption DEF TypeOK, PostTypeOK, BusTypeOK
<1>1. CASE (\E b \in Bus : FinishFinalize(t, b)) \/ ReplaceCallback(t) \/ EndPost(t)
  <2>1. UNCHANGED <<queue, loop, posted>>
    BY <1>1 DEF FinishFinalize, ReplaceCallback, EndPost, busVars
  <2>2. \A u \in Thread : call'[u].at \in Posting => call'[u] = call[u]
    BY <1>0, <1>1 DEF FinishFinalize, ReplaceCallback, EndPost, Leave, Enter, Posting
  <2>3. \A b \in Bus : QueueNumbers(b)' /\ WorkNumber(b)'
    BY <2>1 DEF NumbersInv, QueueNumbers, WorkNumber, InWork
  <2>4. \A b \in Bus : \A n \in 1..MaxPost : Free(b, n) => Free(b, n)'
    BY <2>1 DEF Free
  <2> QED BY <2>1, <2>2, <2>3, <2>4, NumbersKept
<1>2. CASE LockBusSet(t) \/ \E b \in Bus : VisitBus(t, b)
  <2>1. UNCHANGED <<queue, loop, posted>> /\ call[t].at \in {"lock", "visit"}
    BY <1>2 DEF LockBusSet, VisitBus, busVars
  <2>2. \A b \in Bus : QueueNumbers(b)' /\ WorkNumber(b)'
    BY <2>1 DEF NumbersInv, QueueNumbers, WorkNumber, InWork
  <2>3. \A b \in Bus : \A n \in 1..MaxPost : Free(b, n)' <=> Free(b, n)
    BY <2>1 DEF Free
  <2>4. call[t].at \in Posting /\ call[t].msg.n \in 1..MaxPost /\ call[t].left \in SUBSET Bus
        /\ call[t].msg.origin \in Origin
    BY <2>1, PostedMessage, MessageFacts DEF Posting
  <2>5. NumberInv(t)
    BY DEF NumbersInv
  <2>6. CASE LockBusSet(t)
    <3>1. call[t].at = "lock" /\ call' = [call EXCEPT ![t] = [at |-> "visit", msg |-> call[t].msg,
                                         left |-> busSet[call[t].msg.origin]]]
      BY <2>6 DEF LockBusSet, Enter
    <3>2. busSet[call[t].msg.origin] \in SUBSET Bus
      BY <2>4 DEF TypeOK, PostTypeOK
    <3>3. /\ call'[t].at = "visit" /\ call'[t].msg = call[t].msg
          /\ call'[t].left \in SUBSET Bus
          /\ \A u \in Thread : u # t => call'[u] = call[u]
      BY <1>0, <3>1, <3>2
    <3>4. \A b \in Bus : Free(b, call[t].msg.n)'
      BY <2>3, <2>4, <2>5, <3>1 DEF NumberInv
    <3> QED BY <2>1, <2>2, <2>3, <2>4, <3>3, <3>4, NumbersMoved DEF Posting
  <2>7. CASE \E b \in Bus : VisitBus(t, b)
    <3>1. PICK b \in Bus : VisitBus(t, b)
      BY <2>7
    <3>2. /\ call[t].at = "visit" /\ b \in call[t].left
          /\ \/ call' = [call EXCEPT ![t] = [at |-> "push", msg |-> call[t].msg,
                                             left |-> call[t].left \ {b}, bus |-> b]]
             \/ call' = [call EXCEPT ![t] = [at |-> "visit", msg |-> call[t].msg,
                                             left |-> call[t].left \ {b}]]
      BY <3>1 DEF VisitBus, Enter
    <3>3. /\ call'[t].at \in {"push", "visit"} /\ call'[t].msg = call[t].msg
          /\ call'[t].left = call[t].left \ {b}
          /\ (call'[t].at = "push" => call'[t].bus = b)
          /\ \A u \in Thread : u # t => call'[u] = call[u]
      BY <1>0, <3>2
    <3>4. \A c \in call[t].left : Free(c, call[t].msg.n)'
      BY <2>3, <2>4, <2>5, <3>2, <3>3 DEF NumberInv
    <3>5. call'[t].at = "push" => Free(call[t].bus, call[t].msg.n)'
      BY <3>2, <3>3, <3>4
    <3> QED BY <2>1, <2>2, <2>3, <2>4, <3>2, <3>3, <3>4, <3>5, NumbersMoved DEF Posting
  <2> QED BY <1>2, <2>6, <2>7
<1>3. CASE PushMessage(t)
  <2> DEFINE b == call[t].bus
             msg == call[t].msg
  <2>1. call[t].at = "push" /\ UNCHANGED <<loop, posted>>
    BY <1>3 DEF PushMessage
  <2>2. /\ call[t].at \in Posting /\ msg \in Message /\ msg.n \in 1..MaxPost
        /\ call[t].left \in SUBSET Bus /\ b \in Bus /\ NumberInv(t)
    BY <2>1, PostedMessage DEF Posting, NumbersInv
  <2>3. call' = [call EXCEPT ![t] = [at |-> "drop", msg |-> msg, left |-> call[t].left, bus |-> b]]
    BY <1>3 DEF PushMessage, Enter
  <2>4. /\ call'[t].at = "drop" /\ call'[t].msg = msg /\ call'[t].left = call[t].left
        /\ \A u \in Thread : u # t => call'[u] = call[u]
    BY <1>0, <2>3
  <2>5. queue' = queue \/ queue' = [queue EXCEPT ![b] = Append(@, msg)]
    BY <1>3 DEF PushMessage
  <2>6. Free(b, msg.n) /\ b \notin call[t].left /\ msg.n =< posted
        /\ \A c \in call[t].left : Free(c, msg.n)
    BY <2>1, <2>2 DEF NumberInv
  <2>7. \A c \in Bus : WorkNumber(c)'
    BY <2>1 DEF NumbersInv, WorkNumber, InWork
  <2>8. ASSUME NEW c \in Bus
        PROVE  /\ QueueNumbers(c)'
               /\ \A n \in Nat : Free(c, n) /\ n # msg.n => Free(c, n)'
               /\ c # b => \A n \in Nat : Free(c, n)' <=> Free(c, n)
    <3>1. QueueNumbers(c)
      BY DEF NumbersInv
    <3>2. CASE queue'[c] = queue[c]
      BY <2>1, <3>1, <3>2, NumbersSame
    <3>3. CASE queue'[c] # queue[c]
      <4>1. c = b /\ queue'[c] = Append(queue[c], msg)
        BY <1>0, <2>2, <2>5, <3>3
      <4>2. msg \in Item /\ msg.n # 0
        BY <2>2 DEF Item
      <4>3. QueueNumbers(c)' /\ \A n \in Nat : Free(c, n)' <=> Free(c, n) /\ n # msg.n
        BY <2>1, <2>6, <3>1, <4>1, <4>2, AppendNumbers
      <4> QED BY <4>1, <4>3
    <3> QED BY <3>2, <3>3
  <2>9. \A c \in call'[t].left : Free(c, msg.n)'
    BY <2>2, <2>4, <2>6, <2>8
  <2> QED BY <2>1, <2>2, <2>4, <2>7, <2>8, <2>9, NumbersMoved DEF Posting
<1>4. CASE DropVisited(t)
  <2>1. call[t].at = "drop" /\ Unref(t, t, call[t].bus) /\ UNCHANGED <<loop, posted>>
        /\ call' = [call EXCEPT ![t] = [at |-> "visit", msg |-> call[t].msg, left |-> call[t].left]]
    BY <1>4 DEF DropVisited, Enter
  <2>2. /\ call[t].at \in Posting /\ call[t].msg.n \in 1..MaxPost
        /\ call[t].left \in SUBSET Bus /\ call[t].bus \in Bus /\ NumberInv(t)
    BY <2>1, PostedMessage DEF Posting, NumbersInv
  <2>3. /\ call'[t].at = "visit" /\ call'[t].msg = call[t].msg /\ call'[t].left = call[t].left
        /\ \A u \in Thread : u # t => call'[u] = call[u]
    BY <1>0, <2>1
  <2>4. \A c \in Bus : QueueNumbers(c)' /\ \A n \in 1..MaxPost : Free(c, n)' <=> Free(c, n)
    BY <2>1, <2>2, UnrefNumbers
  <2>5. \A c \in Bus : WorkNumber(c)'
    BY <2>1 DEF NumbersInv, WorkNumber, InWork
  <2>6. \A c \in call'[t].left : Free(c, call[t].msg.n)'
    BY <2>1, <2>2, <2>3, <2>4 DEF NumberInv
  <2> QED BY <2>1, <2>2, <2>3, <2>4, <2>5, <2>6, NumbersMoved DEF Posting
<1> QED BY <1>1, <1>2, <1>3, <1>4 DEF Continue

\* Taking the first item of a queue.
LEMMA TailNumbers ==
    ASSUME TypeOK, NEW b \in Bus, queue[b] # <<>>, queue'[b] = Tail(queue[b]),
           UNCHANGED posted, QueueNumbers(b)
    PROVE  /\ QueueNumbers(b)' /\ Head(queue[b]) \in Item /\ Head(queue[b]).n =< posted
           /\ \A n \in Nat : n # Head(queue[b]).n => (Free(b, n)' <=> Free(b, n))
           /\ \A n \in Nat : n = Head(queue[b]).n /\ n # 0 => Free(b, n)'
           /\ ~Free(b, Head(queue[b]).n)
<1> DEFINE q == queue[b]
           z == Tail(q)
<1>1. q \in Seq(Item) /\ Len(q) \in Nat \ {0} /\ z \in Seq(Item) /\ Len(z) = Len(q) - 1
  BY ItemNumbers
<1>2. DOMAIN q = 1 .. Len(q) /\ DOMAIN z = 1 .. Len(z) /\ Head(q) = q[1] /\ 1 \in DOMAIN q
  BY <1>1
<1>3. \A i \in DOMAIN z : i + 1 \in DOMAIN q /\ z[i] = q[i + 1] /\ i + 1 # 1
  BY <1>1, <1>2
<1>4. \A j \in DOMAIN q : j # 1 => \E i \in DOMAIN z : z[i] = q[j]
  <2> SUFFICES ASSUME NEW j \in DOMAIN q, j # 1 PROVE \E i \in DOMAIN z : z[i] = q[j]
    OBVIOUS
  <2>1. j - 1 \in DOMAIN z /\ (j - 1) + 1 = j
    BY <1>1, <1>2
  <2> QED BY <1>3, <2>1
<1>5. queue'[b] = z /\ posted' = posted
  OBVIOUS
<1> HIDE DEF z
<1>6. ASSUME NEW i \in DOMAIN z, NEW j \in DOMAIN z
      PROVE  z[i].n =< posted /\ (z[i].n # 0 /\ i # j => z[i].n # z[j].n)
  <2>1. i \in Nat /\ j \in Nat /\ (i # j => i + 1 # j + 1)
    BY <1>1, <1>2
  <2> QED BY <1>3, <2>1 DEF QueueNumbers
<1>7. QueueNumbers(b)'
  BY <1>5, <1>6 DEF QueueNumbers
<1>8. Head(q) \in Item /\ Head(q).n =< posted /\ ~Free(b, Head(q).n)
  BY <1>1, <1>2 DEF QueueNumbers, Free
<1>9. ASSUME NEW n \in Nat, n # Head(q).n PROVE Free(b, n)' <=> Free(b, n)
  <2>1. Free(b, n) => Free(b, n)'
    BY <1>3, <1>5 DEF Free
  <2>2. ASSUME Free(b, n)', NEW j \in DOMAIN q PROVE q[j].n # n
    BY <1>2, <1>4, <1>5, <1>9, <2>2 DEF Free
  <2> QED BY <2>1, <2>2 DEF Free
<1>10. ASSUME NEW n \in Nat, n = Head(q).n, n # 0 PROVE Free(b, n)'
  <2>1. \A i \in DOMAIN z : z[i].n # n
    BY <1>2, <1>3, <1>10 DEF QueueNumbers
  <2> QED BY <1>5, <2>1 DEF Free
<1> QED BY <1>7, <1>8, <1>9, <1>10

\* The bus threads.
LEMMA Numbers_BusThread ==
    ASSUME TypeOK, NumbersInv, NEW b \in Bus, BusThread(b)
    PROVE  NumbersInv'
<1>0. /\ queue \in [Bus -> Seq(Item)] /\ loop \in [Bus -> LoopState]
      /\ UNCHANGED <<call, posted>>
  BY DEF TypeOK, BusTypeOK, BusThread, PopMessage, CallBack, ReturnFromCallback,
         UnrefHandled, postVars
<1>1. CASE PopMessage(b)
  <2>1. /\ queue[b] # <<>> /\ queue'[b] = Tail(queue[b])
        /\ \A c \in Bus : c # b => queue'[c] = queue[c] /\ loop'[c] = loop[c]
        /\ loop'[b] = IF Head(queue[b]) = LastMessage THEN [at |-> "exited"]
                      ELSE [at |-> "lock", msg |-> Head(queue[b])]
    BY <1>0, <1>1 DEF PopMessage, Loop
  <2>2. /\ QueueNumbers(b)' /\ Head(queue[b]) \in Item /\ Head(queue[b]).n =< posted
        /\ \A n \in Nat : Free(b, n) => Free(b, n)'
    BY <1>0, <2>1, TailNumbers DEF NumbersInv
  <2>3. \A c \in Bus : c # b => QueueNumbers(c)' /\ \A n \in Nat : Free(c, n)' <=> Free(c, n)
    BY <1>0, <2>1, NumbersSame DEF NumbersInv
  <2>4. WorkNumber(b)'
    BY <1>0, <2>1, <2>2 DEF WorkNumber, InWork
  <2>5. \A c \in Bus : c # b => WorkNumber(c)'
    BY <1>0, <2>1 DEF NumbersInv, WorkNumber, InWork
  <2> QED BY <1>0, <2>2, <2>3, <2>4, <2>5, NumbersKept
<1>2. CASE CallBack(b) \/ ReturnFromCallback(b) \/ UnrefHandled(b)
  <2>1. /\ UNCHANGED queue
        /\ \A c \in Bus : InWork(c)' => InWork(c) /\ loop'[c].msg = loop[c].msg
    BY <1>0, <1>2 DEF CallBack, ReturnFromCallback, UnrefHandled, Loop, InWork
  <2>2. \A c \in Bus : QueueNumbers(c)' /\ \A n \in Nat : Free(c, n)' <=> Free(c, n)
    BY <1>0, <2>1, NumbersSame DEF NumbersInv
  <2>3. \A c \in Bus : WorkNumber(c)'
    BY <1>0, <2>1 DEF NumbersInv, WorkNumber
  <2> QED BY <1>0, <2>2, <2>3, NumbersKept
<1> QED BY <1>1, <1>2 DEF BusThread

\* The holders a step leaves alone.
LEMMA PostsSame ==
    ASSUME \A u \in Thread : /\ call'[u].at \in Posting <=> call[u].at \in Posting
                             /\ call[u].at \in Posting => call'[u].msg = call[u].msg,
           NEW n
    PROVE  Posts(n)' = Posts(n)
  BY DEF Posts, Posting

LEMMA QueuedSame ==
    ASSUME NEW n, \A b \in Bus : Free(b, n)' <=> Free(b, n)
    PROVE  QueuedOn(n)' = QueuedOn(n)
  BY DEF QueuedOn, Free

LEMMA WorkedSame ==
    ASSUME \A b \in Bus : /\ InWork(b)' <=> InWork(b)
                          /\ InWork(b) => loop'[b].msg = loop[b].msg,
           NEW n
    PROVE  WorkedOn(n)' = WorkedOn(n)
  BY DEF WorkedOn, InWork

LEMMA CountSame ==
    ASSUME NEW n \in 1..MaxPost, CountInv(n), refCount'[n] = refCount[n],
           Posts(n)' = Posts(n), QueuedOn(n)' = QueuedOn(n), WorkedOn(n)' = WorkedOn(n)
    PROVE  CountInv(n)'
  BY DEF CountInv

\* The calls of the application; a new message has one holder.
LEMMA Counts_StartCall ==
    ASSUME TypeOK, NumbersInv, CountsInv, NEW t \in Thread, StartCall(t)
    PROVE  CountsInv'
<1>0. call \in [Thread -> CallState] /\ posted \in Nat /\ refCount \in [1..MaxPost -> Int]
  BY BoundAssumption DEF TypeOK, PostTypeOK
<1> SUFFICES ASSUME NEW n \in 1..MaxPost PROVE CountInv(n)'
  BY DEF CountsInv
<1>1. CountInv(n) /\ n \in Nat
  BY BoundAssumption DEF CountsInv
<1>2. CASE \E b \in Bus, o \in Origin : AddMessageOrigin(t, b, o) \/ RemoveMessageOrigin(t, b, o)
  <2>1. UNCHANGED <<call, queue, loop, refCount>>
    BY <1>2 DEF AddMessageOrigin, RemoveMessageOrigin, busVars
  <2> QED BY <1>1, <2>1 DEF CountInv, Posts, QueuedOn, WorkedOn
<1>3. CASE \E b \in Bus : SetMask(t, b) \/ SetMessageCallback(t, b)
  <2>1. UNCHANGED <<queue, loop, refCount>>
    BY <1>3 DEF SetMask, SetMessageCallback, busVars, postVars
  <2>2. \A u \in Thread : /\ call'[u].at \in Posting <=> call[u].at \in Posting
                          /\ call[u].at \in Posting => call'[u] = call[u]
    BY <1>0, <1>3 DEF SetMask, SetMessageCallback, May, Enter, Posting, postVars
  <2>3. Posts(n)' = Posts(n)
    BY <2>2, PostsSame
  <2>4. QueuedOn(n)' = QueuedOn(n) /\ WorkedOn(n)' = WorkedOn(n)
    BY <2>1 DEF QueuedOn, WorkedOn
  <2> QED BY <1>1, <2>1, <2>3, <2>4, CountSame
<1>4. CASE \E b \in Bus : DropBus(t, b)
  <2>1. PICK b \in Bus : Unref(t, App, b) /\ UNCHANGED <<loop, call, posted, refCount>>
    BY <1>4 DEF DropBus
  <2>2. \A c \in Bus : Free(c, n)' <=> Free(c, n)
    BY <2>1, UnrefNumbers
  <2>3. QueuedOn(n)' = QueuedOn(n)
    BY <2>2, QueuedSame
  <2>4. Posts(n)' = Posts(n) /\ WorkedOn(n)' = WorkedOn(n)
    BY <2>1 DEF Posts, WorkedOn
  <2> QED BY <1>1, <2>1, <2>3, <2>4, CountSame
<1>5. CASE \E o \in Origin, type \in Type : PostMessage(t, o, type)
  <2>1. PICK o \in Origin, type \in Type : PostMessage(t, o, type)
    BY <1>5
  <2> DEFINE msg == [n |-> posted + 1, origin |-> o, type |-> type]
  <2>2. /\ refCount' = [refCount EXCEPT ![posted + 1] = 1] /\ UNCHANGED <<queue, loop>>
        /\ call[t].at = "idle"
        /\ call' = [call EXCEPT ![t] = [at |-> "lock", left |-> {}, msg |-> msg]]
    BY <2>1 DEF PostMessage, Enter, May, busVars
  <2>3. /\ call'[t].at = "lock" /\ call'[t].msg = msg /\ msg.n = posted + 1
        /\ \A u \in Thread : u # t => call'[u] = call[u]
    BY <1>0, <2>2
  <2>4. QueuedOn(n)' = QueuedOn(n) /\ WorkedOn(n)' = WorkedOn(n)
    BY <2>2 DEF QueuedOn, WorkedOn
  <2>5. CASE n # posted + 1
    <3>1. Posts(n)' = Posts(n)
      BY <2>2, <2>3, <2>5 DEF Posts
    <3>2. refCount'[n] = refCount[n]
      BY <1>0, <2>2, <2>5
    <3> QED BY <1>1, <2>4, <3>1, <3>2, CountSame
  <2>6. CASE n = posted + 1
    <3>1. \A u \in Thread : u # t /\ call[u].at \in Posting => call[u].msg.n # n
      BY <1>0, <2>6, PostedMessage DEF NumbersInv, NumberInv
    <3>2. Posts(n)' = {t}
      <4>1. t \in Posts(n)'
        BY <2>3, <2>6 DEF Posts
      <4>2. \A u \in Posts(n)' : u = t
        BY <2>3, <3>1 DEF Posts, Posting
      <4> QED BY <4>1, <4>2
    <3>3. QueuedOn(n) = {}
      <4> SUFFICES ASSUME NEW b \in Bus, NEW i \in DOMAIN queue[b] PROVE queue[b][i].n # n
        BY DEF QueuedOn
      <4>1. queue[b][i].n =< posted /\ queue[b][i].n \in Nat
        BY ItemNumbers DEF NumbersInv, QueueNumbers
      <4> QED BY <1>0, <2>6, <4>1
    <3>4. WorkedOn(n) = {}
      <4> SUFFICES ASSUME NEW b \in Bus, InWork(b) PROVE loop[b].msg.n # n
        BY DEF WorkedOn, InWork
      <4>1. loop[b].msg.n =< posted /\ loop[b].msg.n \in Nat
        BY WorkedMessage, BoundAssumption DEF NumbersInv, WorkNumber
      <4> QED BY <1>0, <2>6, <4>1
    <3>5. refCount'[n] = 1
      BY <1>0, <2>2, <2>6
    <3>6. IsFiniteSet({t}) /\ Cardinality({t}) = 1 /\ IsFiniteSet({}) /\ Cardinality({}) = 0
      BY FS_Singleton, FS_EmptySet
    <3>7. /\ IsFiniteSet(Posts(n)') /\ Cardinality(Posts(n)') = 1
          /\ IsFiniteSet(QueuedOn(n)') /\ Cardinality(QueuedOn(n)') = 0
          /\ IsFiniteSet(WorkedOn(n)') /\ Cardinality(WorkedOn(n)') = 0
      BY <2>4, <3>2, <3>3, <3>4, <3>6
    <3> QED BY <3>5, <3>7 DEF CountInv
  <2> QED BY <2>5, <2>6
<1> QED BY <1>2, <1>3, <1>4, <1>5 DEF StartCall

\* A post: a queue takes a reference of its own before the post drops its.
LEMMA Counts_Continue ==
    ASSUME TypeOK, NumbersInv, CountsInv, NEW t \in Thread, Continue(t)
    PROVE  CountsInv'
<1>0. /\ call \in [Thread -> CallState] /\ refCount \in [1..MaxPost -> Int]
      /\ queue \in [Bus -> Seq(Item)]
  BY DEF TypeOK, PostTypeOK, BusTypeOK
<1> SUFFICES ASSUME NEW n \in 1..MaxPost PROVE CountInv(n)'
  BY DEF CountsInv
<1>1. CountInv(n)
  BY DEF CountsInv
<1>2. CASE (\E b \in Bus : FinishFinalize(t, b)) \/ ReplaceCallback(t) \/ LockBusSet(t)
           \/ \E b \in Bus : VisitBus(t, b)
  <2>1. UNCHANGED <<queue, loop, refCount>>
    BY <1>2 DEF FinishFinalize, ReplaceCallback, LockBusSet, VisitBus, busVars
  <2>2. \A u \in Thread : /\ call'[u].at \in Posting <=> call[u].at \in Posting
                          /\ call[u].at \in Posting => call'[u].msg = call[u].msg
    <3>1. CASE (\E b \in Bus : FinishFinalize(t, b)) \/ ReplaceCallback(t)
      BY <1>0, <3>1 DEF FinishFinalize, ReplaceCallback, Leave, Enter, Posting
    <3>2. CASE LockBusSet(t)
      BY <1>0, <3>2 DEF LockBusSet, Enter, Posting
    <3>3. CASE \E b \in Bus : VisitBus(t, b)
      <4>1. \E at \in {"push", "visit"} :
               /\ call[t].at = "visit" /\ call'[t].at = at /\ call'[t].msg = call[t].msg
               /\ \A u \in Thread : u # t => call'[u] = call[u]
        BY <1>0, <3>3 DEF VisitBus, Enter
      <4> QED BY <4>1 DEF Posting
    <3> QED BY <1>2, <3>1, <3>2, <3>3
  <2>3. Posts(n)' = Posts(n)
    BY <2>2, PostsSame
  <2>4. QueuedOn(n)' = QueuedOn(n) /\ WorkedOn(n)' = WorkedOn(n)
    BY <2>1 DEF QueuedOn, WorkedOn
  <2> QED BY <1>1, <2>1, <2>3, <2>4, CountSame
<1>3. CASE DropVisited(t)
  <2>1. call[t].at = "drop" /\ Unref(t, t, call[t].bus) /\ UNCHANGED <<loop, posted, refCount>>
        /\ call' = [call EXCEPT ![t] = [at |-> "visit", msg |-> call[t].msg, left |-> call[t].left]]
    BY <1>3 DEF DropVisited, Enter
  <2>2. call[t].bus \in Bus
    BY <2>1, PostedMessage DEF Posting
  <2>3. \A u \in Thread : /\ call'[u].at \in Posting <=> call[u].at \in Posting
                          /\ call[u].at \in Posting => call'[u].msg = call[u].msg
    BY <1>0, <2>1 DEF Posting
  <2>4. Posts(n)' = Posts(n)
    BY <2>3, PostsSame
  <2>5. \A c \in Bus : Free(c, n)' <=> Free(c, n)
    BY <2>1, <2>2, UnrefNumbers
  <2>6. QueuedOn(n)' = QueuedOn(n)
    BY <2>5, QueuedSame
  <2>7. WorkedOn(n)' = WorkedOn(n)
    BY <2>1 DEF WorkedOn
  <2> QED BY <1>1, <2>1, <2>4, <2>6, <2>7, CountSame
<1>4. CASE PushMessage(t)
  <2>0. PICK b \in Bus, msg \in Message :
          /\ b = call[t].bus /\ msg = call[t].msg
          /\ call[t].at = "push" /\ UNCHANGED <<loop, posted>>
          /\ call' = [call EXCEPT ![t] = [at |-> "drop", msg |-> msg, left |-> call[t].left,
                                         bus |-> b]]
          /\ \/ UNCHANGED <<queue, refCount>>
             \/ /\ queue' = [queue EXCEPT ![b] = Append(@, msg)]
                /\ refCount' = [refCount EXCEPT ![msg.n] = @ + 1]
    <3>1. call[t].at = "push"
      BY <1>4 DEF PushMessage
    <3>2. call[t].bus \in Bus /\ call[t].msg \in Message
      BY <3>1, PostedMessage DEF Posting
    <3> QED BY <1>4, <3>1, <3>2 DEF PushMessage, Enter, RefMessage
  <2>1. call[t].at = "push" /\ UNCHANGED <<loop, posted>>
        /\ call' = [call EXCEPT ![t] = [at |-> "drop", msg |-> msg, left |-> call[t].left, bus |-> b]]
        /\ \/ UNCHANGED <<queue, refCount>>
           \/ /\ queue' = [queue EXCEPT ![b] = Append(@, msg)]
              /\ refCount' = [refCount EXCEPT ![msg.n] = @ + 1]
    BY <2>0
  <2>2. /\ call[t].at \in Posting /\ msg \in Message /\ msg.n \in 1..MaxPost /\ b \in Bus
        /\ Free(b, msg.n) /\ msg.n =< posted
    <3>1. call[t].at \in Posting /\ NumberInv(t)
      BY <2>1 DEF Posting, NumbersInv
    <3> QED BY <2>0, <2>1, <3>1, PostedMessage DEF NumberInv
  <2>3. \A u \in Thread : /\ call'[u].at \in Posting <=> call[u].at \in Posting
                          /\ call[u].at \in Posting => call'[u].msg = call[u].msg
    <3>1. call'[t] = [at |-> "drop", msg |-> msg, left |-> call[t].left, bus |-> b]
          /\ \A u \in Thread : u # t => call'[u] = call[u]
      BY <1>0, <2>0
    <3>2. call[t].at = "push" /\ call[t].msg = msg
      BY <2>0
    <3> QED BY <3>1, <3>2 DEF Posting
  <2>4. Posts(n)' = Posts(n)
    BY <2>3, PostsSame
  <2>5. WorkedOn(n)' = WorkedOn(n)
    BY <2>1 DEF WorkedOn
  <2>6. CASE UNCHANGED <<queue, refCount>>
    <3>1. QueuedOn(n)' = QueuedOn(n)
      BY <2>6 DEF QueuedOn
    <3> QED BY <1>1, <2>4, <2>5, <2>6, <3>1, CountSame
  <2>7. CASE /\ queue' = [queue EXCEPT ![b] = Append(@, msg)]
             /\ refCount' = [refCount EXCEPT ![msg.n] = @ + 1]
    <3>1. queue'[b] = Append(queue[b], msg) /\ \A c \in Bus : c # b => queue'[c] = queue[c]
      BY <1>0, <2>2, <2>7
    <3>2. msg \in Item /\ msg.n # 0 /\ QueueNumbers(b)
      BY <2>2 DEF Item, NumbersInv
    <3>3. \A k \in Nat : Free(b, k)' <=> Free(b, k) /\ k # msg.n
      BY <2>1, <2>2, <3>1, <3>2, AppendNumbers
    <3>4. \A c \in Bus : c # b => \A k \in Nat : Free(c, k)' <=> Free(c, k)
      BY <3>1 DEF Free
    <3>5. n \in Nat
      BY BoundAssumption
    <3>6. CASE n # msg.n
      <4>1. QueuedOn(n)' = QueuedOn(n)
        BY <3>3, <3>4, <3>5, <3>6, QueuedSame
      <4>2. refCount'[n] = refCount[n]
        BY <1>0, <2>7, <3>6
      <4> QED BY <1>1, <2>4, <2>5, <4>1, <4>2, CountSame
    <3>7. CASE n = msg.n
      <4>1. b \notin QueuedOn(n)
        BY <2>2, <3>7 DEF QueuedOn, Free
      <4>2. ASSUME NEW c \in Bus PROVE c \in QueuedOn(n)' <=> c \in QueuedOn(n) \cup {b}
        <5>1. c \in QueuedOn(n)' <=> ~Free(c, n)'
          BY DEF QueuedOn, Free
        <5>2. c \in QueuedOn(n) <=> ~Free(c, n)
          BY DEF QueuedOn, Free
        <5>3. CASE c = b
          BY <3>3, <3>5, <3>7, <5>1, <5>3
        <5>4. CASE c # b
          BY <3>4, <3>5, <5>1, <5>2, <5>4
        <5> QED BY <5>3, <5>4
      <4>3. QueuedOn(n)' = QueuedOn(n) \cup {b}
        <5>1. QueuedOn(n)' \subseteq Bus /\ QueuedOn(n) \cup {b} \subseteq Bus
          BY <2>2 DEF QueuedOn
        <5> QED BY <4>2, <5>1
      <4>4. IsFiniteSet(QueuedOn(n))
        BY <1>1 DEF CountInv
      <4>5. /\ IsFiniteSet(QueuedOn(n) \cup {b})
            /\ Cardinality(QueuedOn(n) \cup {b}) = Cardinality(QueuedOn(n)) + 1
        BY <4>1, <4>4, FS_AddElement
      <4>6. refCount'[n] = refCount[n] + 1
        BY <1>0, <2>2, <2>7, <3>7
      <4>7. /\ Cardinality(Posts(n)) \in Nat /\ Cardinality(QueuedOn(n)) \in Nat
            /\ Cardinality(WorkedOn(n)) \in Nat
        BY <1>1, FS_CardinalityType DEF CountInv
      <4> QED BY <1>1, <2>4, <2>5, <4>3, <4>5, <4>6, <4>7 DEF CountInv
    <3> QED BY <3>6, <3>7
  <2> QED BY <2>1, <2>6, <2>7
<1>5. CASE EndPost(t)
  <2> DEFINE msg == call[t].msg
  <2>1. call[t].at = "visit" /\ UNCHANGED <<queue, loop>>
        /\ refCount' = [refCount EXCEPT ![msg.n] = @ - 1]
        /\ call' = [call EXCEPT ![t] = [at |-> "idle"]]
    BY <1>5 DEF EndPost, Leave, Enter, UnrefMessage, busVars
  <2>2. msg.n \in 1..MaxPost
    BY <2>1, PostedMessage DEF Posting
  <2>3. QueuedOn(n)' = QueuedOn(n) /\ WorkedOn(n)' = WorkedOn(n)
    BY <2>1 DEF QueuedOn, WorkedOn
  <2>4. call'[t].at = "idle" /\ \A u \in Thread : u # t => call'[u] = call[u]
    BY <1>0, <2>1
  <2>5. CASE n # msg.n
    <3>1. Posts(n)' = Posts(n)
      BY <2>1, <2>4, <2>5 DEF Posts
    <3>2. refCount'[n] = refCount[n]
      BY <1>0, <2>1, <2>5
    <3> QED BY <1>1, <2>3, <3>1, <3>2, CountSame
  <2>6. CASE n = msg.n
    <3>1. t \in Posts(n)
      BY <2>1, <2>6 DEF Posts
    <3>2. Posts(n)' = Posts(n) \ {t}
      BY <2>4 DEF Posts
    <3>3. IsFiniteSet(Posts(n))
      BY <1>1 DEF CountInv
    <3>4. /\ IsFiniteSet(Posts(n) \ {t})
          /\ Cardinality(Posts(n) \ {t}) = Cardinality(Posts(n)) - 1
      BY <3>1, <3>3, FS_RemoveElement
    <3>5. refCount'[n] = refCount[n] - 1
      BY <1>0, <2>1, <2>2, <2>6
    <3>6. /\ Cardinality(Posts(n)) \in Nat /\ Cardinality(QueuedOn(n)) \in Nat
          /\ Cardinality(WorkedOn(n)) \in Nat
      BY <1>1, FS_CardinalityType DEF CountInv
    <3> QED BY <1>1, <2>3, <3>2, <3>4, <3>5, <3>6 DEF CountInv
  <2> QED BY <2>5, <2>6
<1> QED BY <1>2, <1>3, <1>4, <1>5 DEF Continue

\* A bus thread takes over the reference of its queue, and drops it in the end.
LEMMA Counts_BusThread ==
    ASSUME TypeOK, NumbersInv, CountsInv, NEW b \in Bus, BusThread(b)
    PROVE  CountsInv'
<1>0. /\ queue \in [Bus -> Seq(Item)] /\ loop \in [Bus -> LoopState]
      /\ refCount \in [1..MaxPost -> Int] /\ UNCHANGED call /\ UNCHANGED posted
  BY DEF TypeOK, BusTypeOK, PostTypeOK, BusThread, PopMessage, CallBack, ReturnFromCallback,
         UnrefHandled, postVars
<1> SUFFICES ASSUME NEW n \in 1..MaxPost PROVE CountInv(n)'
  BY DEF CountsInv
<1>1. CountInv(n) /\ n \in Nat /\ n # 0
  BY BoundAssumption DEF CountsInv
<1>2. Posts(n)' = Posts(n)
  BY <1>0 DEF Posts
<1>3. CASE PopMessage(b)
  <2>1. /\ queue[b] # <<>> /\ queue'[b] = Tail(queue[b]) /\ loop[b].at = "pop"
        /\ \A c \in Bus : c # b => queue'[c] = queue[c] /\ loop'[c] = loop[c]
        /\ loop'[b] = IF Head(queue[b]) = LastMessage THEN [at |-> "exited"]
                      ELSE [at |-> "lock", msg |-> Head(queue[b])]
        /\ UNCHANGED refCount
    BY <1>0, <1>3 DEF PopMessage, Loop, postVars
  <2>2. PICK e : e = Head(queue[b])
    OBVIOUS
  <2>3. /\ e \in Item /\ ~Free(b, e.n)
        /\ \A k \in Nat : k # e.n => (Free(b, k)' <=> Free(b, k))
        /\ \A k \in Nat : k = e.n /\ k # 0 => Free(b, k)'
    BY <1>0, <2>1, <2>2, TailNumbers DEF NumbersInv
  <2>4. \A c \in Bus : c # b => (Free(c, n)' <=> Free(c, n))
    BY <2>1 DEF Free
  <2>5. CASE e = LastMessage
    <3>1. QueuedOn(n)' = QueuedOn(n)
      BY <1>1, <2>3, <2>4, <2>5, QueuedSame DEF LastMessage
    <3>2. WorkedOn(n)' = WorkedOn(n)
      BY <2>1, <2>2, <2>5 DEF WorkedOn
    <3> QED BY <1>1, <1>2, <2>1, <3>1, <3>2, CountSame
  <2>6. CASE e # LastMessage
    <3>1. loop'[b].at = "lock" /\ loop'[b].msg = e
      BY <2>1, <2>2, <2>6
    <3>2. CASE n # e.n
      <4>1. QueuedOn(n)' = QueuedOn(n)
        BY <1>1, <2>3, <2>4, <3>2, QueuedSame
      <4>2. WorkedOn(n)' = WorkedOn(n)
        BY <2>1, <3>1, <3>2 DEF WorkedOn
      <4> QED BY <1>1, <1>2, <2>1, <4>1, <4>2, CountSame
    <3>3. CASE n = e.n
      <4>1. b \in QueuedOn(n)
        BY <2>3, <3>3 DEF QueuedOn, Free
      <4>2. b \notin WorkedOn(n)
        BY <2>1 DEF WorkedOn
      <4>3. QueuedOn(n)' = QueuedOn(n) \ {b}
        <5>1. Free(b, n)'
          BY <1>1, <2>3, <3>3
        <5>2. ASSUME NEW c \in Bus PROVE c \in QueuedOn(n)' <=> c \in QueuedOn(n) \ {b}
          <6>1. c \in QueuedOn(n)' <=> ~Free(c, n)'
            BY DEF QueuedOn, Free
          <6>2. c \in QueuedOn(n) <=> ~Free(c, n)
            BY DEF QueuedOn, Free
          <6> QED BY <2>4, <5>1, <6>1, <6>2
        <5>3. QueuedOn(n)' \subseteq Bus /\ QueuedOn(n) \subseteq Bus
          BY DEF QueuedOn
        <5> QED BY <5>2, <5>3
      <4>4. WorkedOn(n)' = WorkedOn(n) \cup {b}
        <5>1. b \in WorkedOn(n)'
          BY <3>1, <3>3 DEF WorkedOn
        <5>2. \A c \in Bus : c # b => (c \in WorkedOn(n)' <=> c \in WorkedOn(n))
          BY <2>1 DEF WorkedOn
        <5>3. WorkedOn(n)' \subseteq Bus /\ WorkedOn(n) \subseteq Bus
          BY DEF WorkedOn
        <5> QED BY <5>1, <5>2, <5>3
      <4>5. IsFiniteSet(QueuedOn(n)) /\ IsFiniteSet(WorkedOn(n))
        BY <1>1 DEF CountInv
      <4>6. /\ IsFiniteSet(QueuedOn(n) \ {b})
            /\ Cardinality(QueuedOn(n) \ {b}) = Cardinality(QueuedOn(n)) - 1
        BY <4>1, <4>5, FS_RemoveElement
      <4>7. /\ IsFiniteSet(WorkedOn(n) \cup {b})
            /\ Cardinality(WorkedOn(n) \cup {b}) = Cardinality(WorkedOn(n)) + 1
        BY <4>2, <4>5, FS_AddElement
      <4>8. /\ Cardinality(Posts(n)) \in Nat /\ Cardinality(QueuedOn(n)) \in Nat
            /\ Cardinality(WorkedOn(n)) \in Nat
        BY <1>1, FS_CardinalityType DEF CountInv
      <4> QED BY <1>1, <1>2, <2>1, <4>3, <4>4, <4>6, <4>7, <4>8 DEF CountInv
    <3> QED BY <3>2, <3>3
  <2> QED BY <2>5, <2>6
<1>4. CASE CallBack(b) \/ ReturnFromCallback(b)
  <2>1. UNCHANGED <<queue, refCount>>
    BY <1>4 DEF CallBack, ReturnFromCallback, postVars
  <2>2. \A c \in Bus : /\ InWork(c)' <=> InWork(c)
                       /\ InWork(c) => loop'[c].msg = loop[c].msg
    <3>1. PICK next \in {"call", "unref"} :
            /\ loop[b].at \in {"lock", "call"}
            /\ loop'[b].at = next /\ loop'[b].msg = loop[b].msg
            /\ \A c \in Bus : c # b => loop'[c] = loop[c]
      <4>1. CASE CallBack(b)
        <5>1. loop[b].at = "lock" /\ loop' = [loop EXCEPT ![b] =
                [at |-> "call", msg |-> loop[b].msg, data |-> callback[b]]]
          BY <4>1 DEF CallBack, Loop
        <5>2. loop'[b] = [at |-> "call", msg |-> loop[b].msg, data |-> callback[b]]
              /\ \A c \in Bus : c # b => loop'[c] = loop[c]
          BY <1>0, <5>1
        <5> QED BY <5>1, <5>2
      <4>2. CASE ReturnFromCallback(b)
        <5>1. loop[b].at = "call" /\ loop' = [loop EXCEPT ![b] =
                [at |-> "unref", msg |-> loop[b].msg]]
          BY <4>2 DEF ReturnFromCallback, Loop
        <5>2. loop'[b] = [at |-> "unref", msg |-> loop[b].msg]
              /\ \A c \in Bus : c # b => loop'[c] = loop[c]
          BY <1>0, <5>1
        <5> QED BY <5>1, <5>2
      <4> QED BY <1>4, <4>1, <4>2
    <3>2. InWork(b) /\ InWork(b)'
      BY <3>1 DEF InWork
    <3>3. ASSUME NEW c \in Bus, c # b PROVE InWork(c)' <=> InWork(c)
      BY <3>1, <3>3 DEF InWork
    <3> QED BY <3>1, <3>2, <3>3
  <2>3. WorkedOn(n)' = WorkedOn(n)
    BY <2>2, WorkedSame
  <2>4. QueuedOn(n)' = QueuedOn(n)
    BY <2>1 DEF QueuedOn
  <2> QED BY <1>1, <1>2, <2>1, <2>3, <2>4, CountSame
<1>5. CASE UnrefHandled(b)
  <2> DEFINE msg == loop[b].msg
  <2>1. /\ loop[b].at = "unref" /\ UNCHANGED queue
        /\ refCount' = [refCount EXCEPT ![msg.n] = @ - 1]
        /\ loop' = [loop EXCEPT ![b] = [at |-> "pop"]]
    BY <1>5 DEF UnrefHandled, Loop, UnrefMessage
  <2>2. msg.n \in 1..MaxPost
    BY <2>1, WorkedMessage DEF InWork
  <2>3. loop'[b].at = "pop" /\ \A c \in Bus : c # b => loop'[c] = loop[c]
    BY <1>0, <2>1
  <2>4. QueuedOn(n)' = QueuedOn(n)
    BY <2>1 DEF QueuedOn
  <2>5. CASE n # msg.n
    <3>1. WorkedOn(n)' = WorkedOn(n)
      BY <2>1, <2>3, <2>5 DEF WorkedOn
    <3>2. refCount'[n] = refCount[n]
      BY <1>0, <2>1, <2>5
    <3> QED BY <1>1, <1>2, <2>4, <3>1, <3>2, CountSame
  <2>6. CASE n = msg.n
    <3>1. b \in WorkedOn(n)
      BY <2>1, <2>6 DEF WorkedOn
    <3>2. WorkedOn(n)' = WorkedOn(n) \ {b}
      BY <2>3 DEF WorkedOn
    <3>3. IsFiniteSet(WorkedOn(n))
      BY <1>1 DEF CountInv
    <3>4. /\ IsFiniteSet(WorkedOn(n) \ {b})
          /\ Cardinality(WorkedOn(n) \ {b}) = Cardinality(WorkedOn(n)) - 1
      BY <3>1, <3>3, FS_RemoveElement
    <3>5. refCount'[n] = refCount[n] - 1
      BY <1>0, <2>1, <2>2, <2>6
    <3>6. /\ Cardinality(Posts(n)) \in Nat /\ Cardinality(QueuedOn(n)) \in Nat
          /\ Cardinality(WorkedOn(n)) \in Nat
      BY <1>1, FS_CardinalityType DEF CountInv
    <3> QED BY <1>1, <1>2, <2>4, <3>2, <3>4, <3>5, <3>6 DEF CountInv
  <2> QED BY <2>5, <2>6
<1> QED BY <1>3, <1>4, <1>5 DEF BusThread

\* At first there is no message.
LEMMA InitCounts == Init => NumbersInv /\ CountsInv
<1> SUFFICES ASSUME Init PROVE NumbersInv /\ CountsInv
  OBVIOUS
<1>1. NumbersInv
  BY DEF Init, NumbersInv, NumberInv, QueueNumbers, WorkNumber, InWork, Posting
<1>2. ASSUME NEW n \in 1..MaxPost PROVE CountInv(n)
  <2>1. Posts(n) = {} /\ QueuedOn(n) = {} /\ WorkedOn(n) = {}
    BY DEF Init, Posts, QueuedOn, WorkedOn
  <2>2. IsFiniteSet({}) /\ Cardinality({}) = 0
    BY FS_EmptySet
  <2>3. refCount[n] = 0
    BY DEF Init
  <2> QED BY <2>1, <2>2, <2>3 DEF CountInv
<1> QED BY <1>1, <1>2 DEF CountsInv

LEMMA NextCounts == TypeOK /\ NumbersInv /\ CountsInv /\ [Next]_vars => (NumbersInv /\ CountsInv)'
<1> SUFFICES ASSUME TypeOK, NumbersInv, CountsInv, [Next]_vars PROVE (NumbersInv /\ CountsInv)'
  OBVIOUS
<1>1. CASE UNCHANGED vars
  <2>1. UNCHANGED <<call, queue, loop, posted, refCount>>
    BY <1>1 DEF vars, busVars, postVars
  <2>2. NumbersInv'
    BY <2>1 DEF NumbersInv, NumberInv, QueueNumbers, WorkNumber, InWork, Free
  <2>3. CountsInv'
    BY <2>1 DEF CountsInv, CountInv, Posts, QueuedOn, WorkedOn
  <2> QED BY <2>2, <2>3
<1>2. CASE Next
  BY <1>2, Numbers_StartCall, Numbers_Continue, Numbers_BusThread, Counts_StartCall,
     Counts_Continue, Counts_BusThread DEF Next
<1> QED BY <1>1, <1>2

\* A message's ref_count is the number of the calls, queues and bus threads that hold
\* it, for any number of threads and buses: it is freed when the last of them is done
\* with it, neither before nor never.
THEOREM CountedRefsAlways == Spec => []CountedRefs
<1>1. Init => BusInv /\ NumbersInv /\ CountsInv
  BY InitBusInv, InitCounts
<1>2. BusInv /\ NumbersInv /\ CountsInv /\ [Next]_vars => (BusInv /\ NumbersInv /\ CountsInv)'
  BY NextBusInv, NextCounts DEF BusInv
<1>3. CountsInv => CountedRefs
  BY DEF CountsInv, CountInv, CountedRefs
<1> QED BY <1>1, <1>2, <1>3, PTL DEF Spec
=============================================================================
