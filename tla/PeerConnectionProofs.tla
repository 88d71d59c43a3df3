-------------------------- MODULE PeerConnectionProofs --------------------------
(***************************************************************************)
(* Proofs about PeerConnection: the type invariant and every safety        *)
(* property of the run PC_call, for every value of the constants.          *)
(*                                                                         *)
(* None of the properties is inductive.  The invariant below says which    *)
(* descriptions are in the queue and what they agree on, which calls are   *)
(* on their way to the peer handler and which sessions they will meet, and *)
(* what the page has been told of them.  Each of its parts has a section   *)
(* of lemmas, one per group of actions; the theorems are at the end.       *)
(***************************************************************************)
EXTENDS PeerConnection, SequenceTheorems, WellFoundedInduction, TLAPS

-------------------------------------------------------------------------------
(* Sequences *)

LEMMA SequenceFacts ==
    ASSUME NEW S, NEW s \in Seq(S)
    PROVE  /\ Len(s) \in Nat /\ DOMAIN s = 1..Len(s) /\ s \in [1..Len(s) -> S]
           /\ \A i \in DOMAIN s : s[i] \in S
           /\ s # <<>> <=> Len(s) > 0
  OBVIOUS

LEMMA AppendFacts ==
    ASSUME NEW S, NEW s \in Seq(S), NEW e \in S
    PROVE  /\ Append(s, e) \in Seq(S) /\ Append(s, e) # <<>>
           /\ Len(Append(s, e)) = Len(s) + 1 /\ DOMAIN Append(s, e) = 1..(Len(s) + 1)
           /\ \A i \in 1..Len(s) : Append(s, e)[i] = s[i]
           /\ Append(s, e)[Len(s) + 1] = e
  OBVIOUS

LEMMA TailFacts ==
    ASSUME NEW S, NEW s \in Seq(S), s # <<>>
    PROVE  /\ Tail(s) \in Seq(S) /\ Head(s) \in S /\ Head(s) = s[1]
           /\ Len(s) > 0 /\ Len(Tail(s)) = Len(s) - 1 /\ DOMAIN Tail(s) = 1..(Len(s) - 1)
           /\ \A i \in 1..(Len(s) - 1) : Tail(s)[i] = s[i + 1]
           /\ Tail(s) = <<>> <=> Len(s) = 1
<1>1. /\ Tail(s) \in Seq(S) /\ Head(s) \in S /\ Head(s) = s[1]
      /\ Len(s) > 0 /\ Len(Tail(s)) = Len(s) - 1 /\ DOMAIN Tail(s) = 1..(Len(s) - 1)
      /\ \A i \in 1..(Len(s) - 1) : Tail(s)[i] = s[i + 1]
  OBVIOUS
<1>2. Tail(s) = <<>> <=> Len(Tail(s)) = 0
  BY <1>1, EmptySeq
<1>3. Len(s) \in Nat
  OBVIOUS
<1> QED BY <1>1, <1>2, <1>3

LEMMA ConcatFacts ==
    ASSUME NEW S, NEW s \in Seq(S), NEW t \in Seq(S)
    PROVE  /\ s \o t \in Seq(S) /\ Len(s \o t) = Len(s) + Len(t)
           /\ DOMAIN (s \o t) = 1..(Len(s) + Len(t))
           /\ \A i \in 1..Len(s) : (s \o t)[i] = s[i]
           /\ \A i \in 1..Len(t) : (s \o t)[Len(s) + i] = t[i]
           /\ \A i \in (Len(s) + 1)..(Len(s) + Len(t)) : (s \o t)[i] = t[i - Len(s)]
  OBVIOUS

LEMMA SingleFacts ==
    ASSUME NEW S, NEW e \in S
    PROVE  <<e>> \in Seq(S) /\ Len(<<e>>) = 1 /\ DOMAIN <<e>> = {1} /\ <<e>>[1] = e /\ <<e>> # <<>>
  OBVIOUS

LEMMA FunctionSequence ==
    ASSUME NEW S, NEW n \in Nat, NEW f \in [1..n -> S]
    PROVE  f \in Seq(S) /\ Len(f) = n
  OBVIOUS

LEMMA ExceptFacts ==
    ASSUME NEW S, NEW s \in Seq(S), NEW i, NEW e \in S
    PROVE  /\ [s EXCEPT ![i] = e] \in Seq(S) /\ Len([s EXCEPT ![i] = e]) = Len(s)
           /\ DOMAIN [s EXCEPT ![i] = e] = DOMAIN s
           /\ \A j \in DOMAIN s : [s EXCEPT ![i] = e][j] = IF j = i THEN e ELSE s[j]
<1> DEFINE t == [s EXCEPT ![i] = e]
<1>1. s \in [1..Len(s) -> S] /\ Len(s) \in Nat /\ DOMAIN s = 1..Len(s)
  OBVIOUS
<1>2. t \in [1..Len(s) -> S] /\ DOMAIN t = DOMAIN s
      /\ \A j \in DOMAIN s : t[j] = IF j = i THEN e ELSE s[j]
  BY <1>1
<1> HIDE DEF t
<1>3. t \in Seq(S) /\ Len(t) = Len(s)
  BY <1>1, <1>2, FunctionSequence
<1> QED BY <1>2, <1>3 DEF t

LEMMA ToSetFacts ==
    ASSUME NEW S, NEW s \in Seq(S)
    PROVE  /\ ToSet(s) \subseteq S /\ (\A i \in DOMAIN s : s[i] \in ToSet(s))
           /\ \A e \in S : ToSet(Append(s, e)) = ToSet(s) \cup {e}
           /\ \A t \in Seq(S) : ToSet(s \o t) = ToSet(s) \cup ToSet(t)
           /\ s # <<>> => ToSet(s) = {Head(s)} \cup ToSet(Tail(s))
<1>1. ToSet(s) \subseteq S /\ \A i \in DOMAIN s : s[i] \in ToSet(s)
  BY SequenceFacts DEF ToSet
<1>2. ASSUME NEW e \in S PROVE ToSet(Append(s, e)) = ToSet(s) \cup {e}
  <2>1. /\ Len(s) \in Nat /\ DOMAIN s = 1..Len(s) /\ DOMAIN Append(s, e) = 1..(Len(s) + 1)
        /\ \A i \in 1..Len(s) : Append(s, e)[i] = s[i]
        /\ Append(s, e)[Len(s) + 1] = e
    BY AppendFacts, SequenceFacts
  <2> QED BY <2>1 DEF ToSet
<1>3. ASSUME NEW t \in Seq(S) PROVE ToSet(s \o t) = ToSet(s) \cup ToSet(t)
  <2> DEFINE d == s \o t
  <2>1. /\ Len(s) \in Nat /\ DOMAIN s = 1..Len(s) /\ Len(t) \in Nat /\ DOMAIN t = 1..Len(t)
        /\ DOMAIN d = 1..(Len(s) + Len(t)) /\ (\A i \in 1..Len(s) : d[i] = s[i])
        /\ \A i \in 1..Len(t) : d[Len(s) + i] = t[i]
    BY ConcatFacts, SequenceFacts
  <2> HIDE DEF d
  <2>2. ASSUME NEW i \in DOMAIN d PROVE d[i] \in ToSet(s) \cup ToSet(t)
    <3>1. CASE i \in 1..Len(s)
      BY <2>1, <3>1 DEF ToSet
    <3>2. CASE i \notin 1..Len(s)
      <4>1. i - Len(s) \in DOMAIN t /\ Len(s) + (i - Len(s)) = i
        BY <2>1, <3>2
      <4>2. d[i] = t[i - Len(s)]
        BY <2>1, <4>1
      <4> QED BY <4>1, <4>2 DEF ToSet
    <3> QED BY <3>1, <3>2
  <2>3. \A i \in DOMAIN s : s[i] \in ToSet(d)
    BY <2>1 DEF ToSet
  <2>4. ASSUME NEW i \in DOMAIN t PROVE t[i] \in ToSet(d)
    <3>1. Len(s) + i \in DOMAIN d /\ d[Len(s) + i] = t[i]
      BY <2>1
    <3> QED BY <3>1 DEF ToSet
  <2>5. ToSet(d) \subseteq ToSet(s) \cup ToSet(t)
    BY <2>2 DEF ToSet
  <2>6. ToSet(s) \cup ToSet(t) \subseteq ToSet(d)
    BY <2>3, <2>4 DEF ToSet
  <2> QED BY <2>5, <2>6 DEF d
<1>4. ASSUME s # <<>> PROVE ToSet(s) = {Head(s)} \cup ToSet(Tail(s))
  <2> DEFINE d == Tail(s)
  <2>1. /\ Len(s) \in Nat /\ DOMAIN s = 1..Len(s) /\ Head(s) = s[1] /\ Len(s) > 0
        /\ DOMAIN d = 1..(Len(s) - 1)
        /\ \A i \in 1..(Len(s) - 1) : d[i] = s[i + 1]
    BY <1>4, TailFacts, SequenceFacts
  <2> HIDE DEF d
  <2>2. ASSUME NEW i \in DOMAIN s PROVE s[i] \in {Head(s)} \cup ToSet(d)
    <3>1. i = 1 \/ (i - 1 \in DOMAIN d /\ d[i - 1] = s[i])
      BY <2>1
    <3> QED BY <2>1, <3>1 DEF ToSet
  <2>3. \A i \in DOMAIN d : i + 1 \in DOMAIN s /\ d[i] = s[i + 1]
    BY <2>1
  <2>4. ToSet(d) \subseteq ToSet(s)
    BY <2>3 DEF ToSet
  <2>5. Head(s) \in ToSet(s)
    BY <2>1 DEF ToSet
  <2>6. ToSet(s) \subseteq {Head(s)} \cup ToSet(d)
    BY <2>2 DEF ToSet
  <2> QED BY <2>4, <2>5, <2>6 DEF d
<1> QED BY <1>1, <1>2, <1>3, <1>4

-------------------------------------------------------------------------------
(* Types *)

Timers == {"op", "maybe", "fire"}
Deferred == [calls : Seq(PeerCall), target : SignalingState]
Status == [expected : BOOLEAN, source : BOOLEAN, updated : BOOLEAN]

\* TypeOK by the parts of the state that change together.
QueueTypeOK ==
    /\ sig \in SignalingState /\ stateChanging \in BOOLEAN /\ queue \in Seq(Operation)
    /\ Len(waiting) <= 1 /\ waiting \in Seq(Deferred)
    /\ timers \in Seq(Timers)
DescTypeOK ==
    /\ hasTrack \in BOOLEAN /\ hasDataChannels \in BOOLEAN
    /\ local \in Seq(LineOfThisEnd) /\ remote \in Seq(RemoteLine)
    /\ status \in Seq(Status)
    /\ created \in LocalDescription \cup {NoDescription}
ChannelTypeOK ==
    /\ canCreate \in BOOLEAN /\ channels \in Seq(Nat) /\ deferred \in Seq(DOMAIN channels)
    /\ known \in BOOLEAN /\ keys \in {"generating", "done", "failed"}
MessageTypeOK == toWorker \in Seq(PeerCall) /\ toPage \in Seq(PageEvent)
WorkerTypeOK ==
    /\ sessions \in Seq(Session) /\ receivePrepared \in Nat /\ sendPrepared \in Nat
    /\ nextId \in Nat

LEMMA Groups ==
    TypeOK <=> /\ script \in Seq(Call) /\ QueueTypeOK /\ DescTypeOK /\ ChannelTypeOK
               /\ MessageTypeOK /\ WorkerTypeOK /\ hist \in History
  BY DEF TypeOK, QueueTypeOK, DescTypeOK, ChannelTypeOK, MessageTypeOK, WorkerTypeOK, Timers,
         Deferred, Status

LEMMA GroupsNext ==
    TypeOK' <=> /\ (script \in Seq(Call))' /\ QueueTypeOK' /\ DescTypeOK' /\ ChannelTypeOK'
                /\ MessageTypeOK' /\ WorkerTypeOK' /\ (hist \in History)'
  BY DEF TypeOK, QueueTypeOK, DescTypeOK, ChannelTypeOK, MessageTypeOK, WorkerTypeOK, Timers,
         Deferred, Status

LEMMA GroupsSame ==
    /\ QueueTypeOK /\ UNCHANGED queueVars => QueueTypeOK'
    /\ DescTypeOK /\ UNCHANGED descVars => DescTypeOK'
    /\ ChannelTypeOK /\ UNCHANGED <<channelVars, known, keys>> => ChannelTypeOK'
    /\ MessageTypeOK /\ UNCHANGED <<toWorker, toPage>> => MessageTypeOK'
    /\ WorkerTypeOK /\ UNCHANGED workerVars => WorkerTypeOK'
  BY DEF QueueTypeOK, DescTypeOK, ChannelTypeOK, MessageTypeOK, WorkerTypeOK, queueVars, descVars,
         channelVars, workerVars

LEMMA OperationFields ==
    ASSUME NEW op \in Operation
    PROVE  /\ op.call = "setLocal" => op.description \in LocalDescription
           /\ op.call = "setRemote" => op.description \in RemoteDescription
           /\ op.call = "addCandidate" => op.line \in Nat /\ op.candidate \in Component
  BY DEF Operation

LEMMA CallFields ==
    ASSUME NEW c \in PeerCall
    PROVE  /\ c.call = "prepareToReceive" => c.lines \in Seq(LineOfThisEnd) /\ c.initiator \in BOOLEAN
           /\ c.call = "prepareToSend" => c.lines \in Seq(RemoteLine) /\ c.initiator \in BOOLEAN
           /\ c.call = "addRemoteCandidate" => c.line \in Nat /\ c.candidate \in Component
           /\ c.call = "createDataChannel" => c.channel \in Nat /\ c.id \in Nat
  BY DEF PeerCall

LEMMA EventFields ==
    ASSUME NEW e \in PageEvent
    PROVE  /\ e.event \in {"candidate", "gatheringDone", "source"} => e.line \in Nat
           /\ e.event = "dataChannelRequested" => e.id \in Nat
           /\ e.event = "channel" => e.channel \in Nat /\ e.id \in Nat
  BY DEF PageEvent

LEMMA TargetType ==
    ASSUME NEW s, NEW c, NEW t PROVE Target(s, c, t) \in SignalingState \cup {"none"}
  BY DEF Target, SignalingState

\* What the operators that make lines return.
LEMMA WithTracksType ==
    ASSUME NEW lines \in Seq(LineOfThisEnd)
    PROVE  /\ WithTracks(lines) \in Seq(LineOfThisEnd) /\ Len(WithTracks(lines)) = Len(lines)
           /\ \A i \in DOMAIN lines : WithTracks(lines)[i].kind = lines[i].kind
<1>1. CASE WithTracks(lines) = lines
  BY <1>1, SequenceFacts
<1>2. CASE WithTracks(lines) = [lines EXCEPT ![FirstAudio(lines)].track = TRUE]
  <2> DEFINE k == FirstAudio(lines)
             t == [lines EXCEPT ![k].track = TRUE]
  <2> HIDE DEF k
  <2>1. lines \in [1..Len(lines) -> LineOfThisEnd] /\ Len(lines) \in Nat /\ DOMAIN lines = 1..Len(lines)
    BY SequenceFacts
  <2>2. t \in [1..Len(lines) -> LineOfThisEnd]
        /\ \A i \in DOMAIN lines : t[i].kind = lines[i].kind
    BY <2>1 DEF LineOfThisEnd
  <2> HIDE DEF t
  <2>3. t \in Seq(LineOfThisEnd) /\ Len(t) = Len(lines)
    BY <2>1, <2>2, FunctionSequence
  <2> QED BY <1>2, <2>2, <2>3 DEF t, k
<1> QED BY <1>1, <1>2 DEF WithTracks

LEMMA NewLinesType ==
    ASSUME DescTypeOK, NEW lines
    PROVE  NewLines(lines) \in Seq(LineOfThisEnd)
<1> DEFINE a == IF hasTrack /\ ~Described(lines)
                THEN <<LocalLine("audio", TRUE, TRUE)>> ELSE <<>>
           b == IF hasDataChannels /\ ~HasKind(lines, "application")
                THEN <<LocalLine("application", FALSE, FALSE)>> ELSE <<>>
<1>1. /\ LocalLine("audio", TRUE, TRUE) \in LineOfThisEnd
      /\ LocalLine("application", FALSE, FALSE) \in LineOfThisEnd
  BY DEF LocalLine, LineOfThisEnd, Kind
<1>2. /\ <<LocalLine("audio", TRUE, TRUE)>> \in Seq(LineOfThisEnd)
      /\ <<LocalLine("application", FALSE, FALSE)>> \in Seq(LineOfThisEnd)
      /\ <<>> \in Seq(LineOfThisEnd)
  BY <1>1, SingleFacts, EmptySeq
<1>3. a \in Seq(LineOfThisEnd) /\ b \in Seq(LineOfThisEnd)
  BY <1>2
<1> HIDE DEF a, b
<1>4. a \o b \in Seq(LineOfThisEnd)
  BY <1>3, ConcatFacts
<1> QED BY <1>4 DEF NewLines, a, b

\* SDP keeps the kind of a line, and forgets that it is done.
LEMMA GeneratedType ==
    ASSUME NEW lines \in Seq(LineOfThisEnd)
    PROVE  /\ Generated(lines) \in Seq(LineOfThisEnd) /\ Len(Generated(lines)) = Len(lines)
           /\ DOMAIN Generated(lines) = DOMAIN lines
           /\ \A i \in DOMAIN lines : /\ Generated(lines)[i].kind = lines[i].kind
                                      /\ ~Generated(lines)[i].done
<1>1. /\ lines \in [1..Len(lines) -> LineOfThisEnd] /\ Len(lines) \in Nat
      /\ DOMAIN lines = 1..Len(lines)
  BY SequenceFacts
<1>2. /\ Generated(lines) \in [1..Len(lines) -> LineOfThisEnd]
      /\ \A i \in DOMAIN lines : /\ Generated(lines)[i].kind = lines[i].kind
                                 /\ ~Generated(lines)[i].done
  BY <1>1 DEF Generated, LineOfThisEnd
<1>3. Generated(lines) \in Seq(LineOfThisEnd) /\ Len(Generated(lines)) = Len(lines)
  BY <1>1, <1>2, FunctionSequence
<1> QED BY <1>1, <1>2, <1>3

LEMMA WithSourceType ==
    ASSUME DescTypeOK, NEW lines \in Seq(OfferLine)
    PROVE  /\ WithSource(lines) \in Seq(RemoteLine) /\ Len(WithSource(lines)) = Len(lines)
           /\ DOMAIN WithSource(lines) = DOMAIN lines
           /\ \A i \in DOMAIN lines : WithSource(lines)[i].kind = lines[i].kind
<1>1. /\ lines \in [1..Len(lines) -> OfferLine] /\ Len(lines) \in Nat /\ DOMAIN lines = 1..Len(lines)
  BY SequenceFacts
<1>2. WithSource(lines) \in [1..Len(lines) -> RemoteLine]
  BY <1>1 DEF WithSource, OfferLine, RemoteLine, DescTypeOK
<1>3. WithSource(lines) \in Seq(RemoteLine) /\ Len(WithSource(lines)) = Len(lines)
  BY <1>1, <1>2, FunctionSequence
<1> QED BY <1>1, <1>3 DEF WithSource

LEMMA ExpectingType ==
    ASSUME DescTypeOK, NEW lines \in Seq(OfferLine)
    PROVE  /\ Expecting(lines) \in Seq(Status)
           /\ DOMAIN Expecting(lines) = DOMAIN lines \cup DOMAIN status
<1> DEFINE n == IF Len(lines) > Len(status) THEN Len(lines) ELSE Len(status)
<1>1. /\ lines \in [1..Len(lines) -> OfferLine] /\ Len(lines) \in Nat /\ DOMAIN lines = 1..Len(lines)
  BY SequenceFacts
<1>2. /\ status \in [1..Len(status) -> Status] /\ Len(status) \in Nat /\ DOMAIN status = 1..Len(status)
  BY SequenceFacts DEF DescTypeOK
<1>3. n \in Nat /\ DOMAIN lines \cup DOMAIN status = 1..n
  BY <1>1, <1>2
<1>4. Expecting(lines) \in [1..n -> Status]
  BY <1>1, <1>2, <1>3 DEF Expecting, OfferLine, Status, NoStatus
<1> HIDE DEF n
<1> QED BY <1>3, <1>4, FunctionSequence DEF Expecting

-------------------------------------------------------------------------------
(* Every step keeps the types *)

LEMMA TypeOK_Init == Init => TypeOK
<1> SUFFICES ASSUME Init PROVE TypeOK
  OBVIOUS
<1>1. script \in Seq(Call)
  BY PeerConnectionAssumption DEF Init
<1>2. QueueTypeOK
  <2>1. /\ <<>> \in Seq(Operation) /\ <<>> \in Seq(Deferred) /\ <<>> \in Seq(Timers)
        /\ Len(<<>>) = 0
    BY EmptySeq
  <2>2. /\ sig = "stable" /\ queue = <<>> /\ waiting = <<>> /\ stateChanging = FALSE
        /\ timers = <<>>
    BY DEF Init
  <2>3. sig \in SignalingState /\ stateChanging \in BOOLEAN
    BY <2>2 DEF SignalingState
  <2>4. Len(waiting) <= 1
    BY <2>1, <2>2
  <2> QED BY <2>1, <2>2, <2>3, <2>4 DEF QueueTypeOK
<1>3. DescTypeOK /\ ChannelTypeOK /\ MessageTypeOK /\ WorkerTypeOK
  <2>1. /\ <<>> \in Seq(LineOfThisEnd) /\ <<>> \in Seq(RemoteLine) /\ <<>> \in Seq(Status)
        /\ <<>> \in Seq(Nat) /\ <<>> \in Seq(DOMAIN <<>>) /\ <<>> \in Seq(PeerCall) /\ <<>> \in Seq(PageEvent)
        /\ <<>> \in Seq(Session)
    BY EmptySeq
  <2> QED BY <2>1 DEF Init, DescTypeOK, ChannelTypeOK, MessageTypeOK, WorkerTypeOK
<1>4. hist \in History
  BY DEF Init, History
<1> QED BY <1>1, <1>2, <1>3, <1>4, Groups

LEMMA DispatchType ==
    ASSUME NEW ts \in Seq(Timers), NEW q, NEW state, NEW lines
    PROVE  MaybeDispatchNegotiationNeeded(ts, q, state, lines) \in Seq(Timers)
  BY AppendFacts DEF MaybeDispatchNegotiationNeeded, Timers

LEMMA EnqueueType ==
    ASSUME QueueTypeOK, hist \in History, NEW op \in Operation, NEW c \in BOOLEAN,
           EnqueueOperation(op, c)
    PROVE  QueueTypeOK' /\ hist' \in History
<1>1. queue' \in Seq(Operation)
  BY AppendFacts DEF EnqueueOperation, QueueTypeOK
<1>2. timers' \in Seq(Timers)
  BY AppendFacts DEF EnqueueOperation, QueueTypeOK, Timers
<1>3. hist' \in History
  BY DEF EnqueueOperation, History
<1> QED BY <1>1, <1>2, <1>3 DEF EnqueueOperation, QueueTypeOK

LEMMA CompleteType ==
    ASSUME QueueTypeOK, queue # <<>>, NEW ts \in Seq(Timers), NEW state \in SignalingState, NEW lines,
           CompleteQueuedOperation(ts, state, lines)
    PROVE  /\ queue' \in Seq(Operation) /\ sig' \in SignalingState /\ stateChanging' \in BOOLEAN
           /\ timers' \in Seq(Timers) /\ queue' = Tail(queue) /\ sig' = state
<1> DEFINE rest == Tail(queue)
           next == IF rest = <<>> THEN ts ELSE Append(ts, "op")
<1>1. rest \in Seq(Operation)
  BY TailFacts DEF QueueTypeOK
<1>2. next \in Seq(Timers)
  BY AppendFacts DEF Timers
<1>3. /\ queue' = rest /\ sig' = state
      /\ timers' = IF rest = <<>> /\ stateChanging
                   THEN MaybeDispatchNegotiationNeeded(next, rest, state, lines) ELSE next
      /\ stateChanging' = (stateChanging /\ rest # <<>>)
  BY DEF CompleteQueuedOperation
<1> HIDE DEF rest, next
<1>4. timers' \in Seq(Timers)
  BY <1>2, <1>3, DispatchType
<1> QED BY <1>1, <1>3, <1>4 DEF rest, QueueTypeOK

\* An operation that waits: there is one, and its calls are those of the operation at the head.
LEMMA WaitingType ==
    ASSUME QueueTypeOK, waiting # <<>>
    PROVE  /\ waiting[1].calls \in Seq(PeerCall) /\ waiting[1].target \in SignalingState
           /\ Len(waiting) = 1
<1>1. waiting \in Seq(Deferred) /\ Len(waiting) <= 1
  BY DEF QueueTypeOK
<1>2. Len(waiting) \in Nat /\ Len(waiting) > 0 /\ DOMAIN waiting = 1..Len(waiting)
  BY <1>1, SequenceFacts
<1>3. Len(waiting) = 1 /\ 1 \in DOMAIN waiting
  BY <1>1, <1>2
<1>4. waiting[1] \in Deferred
  BY <1>1, <1>3, SequenceFacts
<1> QED BY <1>3, <1>4 DEF Deferred

LEMMA AppliedType ==
    ASSUME QueueTypeOK, queue # <<>>, toWorker \in Seq(PeerCall),
           NEW calls \in Seq(PeerCall), NEW target \in SignalingState, NEW ts \in Seq(Timers), NEW lines,
           Applied(calls, target, ts, lines)
    PROVE  /\ queue' \in Seq(Operation) /\ sig' \in SignalingState /\ stateChanging' \in BOOLEAN
           /\ timers' \in Seq(Timers) /\ queue' = Tail(queue) /\ sig' = target
           /\ toWorker' \in Seq(PeerCall) /\ toWorker' = toWorker \o calls
<1>1. CompleteQueuedOperation(ts, target, lines) /\ toWorker' = toWorker \o calls
  BY DEF Applied
<1> QED BY <1>1, CompleteType, ConcatFacts

LEMMA WhenPeerHandlerType ==
    ASSUME QueueTypeOK, queue # <<>>, timers # <<>>, toWorker \in Seq(PeerCall),
           NEW calls \in Seq(PeerCall), NEW target \in SignalingState, NEW lines,
           WhenPeerHandler(calls, target, lines)
    PROVE  QueueTypeOK' /\ toWorker' \in Seq(PeerCall)
<1>1. Tail(timers) \in Seq(Timers)
  BY TailFacts DEF QueueTypeOK
<1>2. CASE known
  <2>1. Applied(calls, target, Tail(timers), lines) /\ waiting' = waiting
    BY <1>2 DEF WhenPeerHandler
  <2>2. /\ queue' \in Seq(Operation) /\ sig' \in SignalingState /\ stateChanging' \in BOOLEAN
        /\ timers' \in Seq(Timers) /\ toWorker' \in Seq(PeerCall)
    BY <1>1, <2>1, AppliedType
  <2> QED BY <2>1, <2>2 DEF QueueTypeOK
<1>3. CASE ~known
  <2> DEFINE w == [calls |-> calls, target |-> target]
  <2>1. w \in Deferred
    BY DEF Deferred
  <2>2. waiting' = <<w>> /\ timers' = Tail(timers) /\ UNCHANGED <<sig, queue, stateChanging, toWorker>>
    BY <1>3 DEF WhenPeerHandler
  <2> HIDE DEF w
  <2>3. waiting' \in Seq(Deferred) /\ Len(waiting') <= 1
    BY <2>1, <2>2, SingleFacts
  <2> QED BY <1>1, <2>2, <2>3 DEF QueueTypeOK
<1> QED BY <1>2, <1>3

\* The operation at the head, when its timer fires.
LEMMA RunningFacts ==
    ASSUME QueueTypeOK, NEW call, Running(call)
    PROVE  /\ timers # <<>> /\ queue # <<>> /\ Head(queue) \in Operation /\ Head(queue).call = call
           /\ Tail(timers) \in Seq(Timers) /\ Head(queue) = queue[1]
  BY TailFacts DEF Running, QueueTypeOK

LEMMA RejectType ==
    ASSUME QueueTypeOK, DescTypeOK, MessageTypeOK, queue # <<>>, timers # <<>>, Reject
    PROVE  QueueTypeOK' /\ DescTypeOK' /\ UNCHANGED <<descVars, toWorker, hist>>
<1>1. Tail(timers) \in Seq(Timers) /\ sig \in SignalingState
  BY TailFacts DEF QueueTypeOK
<1>2. CompleteQueuedOperation(Tail(timers), sig, local) /\ UNCHANGED <<waiting, descVars, toWorker, hist>>
  BY DEF Reject
<1>3. /\ queue' \in Seq(Operation) /\ sig' \in SignalingState /\ stateChanging' \in BOOLEAN
      /\ timers' \in Seq(Timers)
  BY <1>1, <1>2, CompleteType
<1> QED BY <1>2, <1>3, GroupsSame DEF QueueTypeOK

LEMMA ThrowType ==
    ASSUME QueueTypeOK, DescTypeOK, timers # <<>>, Throw
    PROVE  QueueTypeOK' /\ DescTypeOK' /\ UNCHANGED toWorker
<1>1. Tail(timers) \in Seq(Timers)
  BY TailFacts DEF QueueTypeOK
<1> QED BY <1>1, GroupsSame DEF Throw, QueueTypeOK

LEMMA HistoryExcept ==
    ASSUME hist \in History
    PROVE  /\ [hist EXCEPT !.early = TRUE] \in History
           /\ [hist EXCEPT !.closed = TRUE] \in History
           /\ \A b \in BOOLEAN : /\ [hist EXCEPT !.ended = b] \in History
                                 /\ [hist EXCEPT !.withdrawn = b] \in History
                                 /\ [hist EXCEPT !.signalled = b] \in History
           /\ \A b, c \in BOOLEAN : [hist EXCEPT !.signalled = b, !.aside = c] \in History
           /\ \A b, c, d \in BOOLEAN :
                 [hist EXCEPT !.signalled = b, !.aside = c, !.first = d] \in History
           /\ \A s \in SUBSET Nat : [hist EXCEPT !.announced = s] \in History
  BY DEF History

LEMMA NewChannelType ==
    ASSUME ChannelTypeOK, MessageTypeOK, NEW n \in Nat, NewChannel(n),
           UNCHANGED <<canCreate, known, keys>>
    PROVE  ChannelTypeOK' /\ toWorker' \in Seq(PeerCall)
<1> DEFINE k == Len(channels) + 1
           c == CreateChannel(k, n)
<1>1. k \in Nat
  BY SequenceFacts DEF ChannelTypeOK
<1>2. c \in PeerCall
  BY <1>1 DEF CreateChannel, PeerCall
<1>3. /\ channels' = Append(channels, n)
      /\ \/ toWorker' = Append(toWorker, c) /\ deferred' = deferred
         \/ deferred' = Append(deferred, k) /\ toWorker' = toWorker
  BY DEF NewChannel
<1> HIDE DEF k, c
<1>4. /\ channels \in Seq(Nat) /\ deferred \in Seq(DOMAIN channels)
      /\ (canCreate \in BOOLEAN /\ known \in BOOLEAN /\ keys \in {"generating", "done", "failed"})'
      /\ toWorker \in Seq(PeerCall)
  BY DEF ChannelTypeOK, MessageTypeOK
<1>5. Append(channels, n) \in Seq(Nat) /\ Append(toWorker, c) \in Seq(PeerCall)
  BY <1>2, <1>4, AppendFacts
<1>6. DOMAIN channels \subseteq DOMAIN channels' /\ k \in DOMAIN channels'
  BY <1>3, <1>4, AppendFacts, SequenceFacts DEF k
<1>7. deferred \in Seq(DOMAIN channels')
  BY <1>4, <1>6, SeqMonotonic
<1>8. deferred' \in Seq(DOMAIN channels')
  <2>1. Append(deferred, k) \in Seq(DOMAIN channels')
    BY <1>6, <1>7, AppendFacts
  <2> QED BY <1>3, <1>7, <2>1
<1>9. channels' \in Seq(Nat) /\ toWorker' \in Seq(PeerCall)
  BY <1>3, <1>4, <1>5
<1> QED BY <1>4, <1>8, <1>9 DEF ChannelTypeOK

\* The operations that set a description of the other end.
LEMMA RemoteOfferOperation ==
    ASSUME SetRemoteOffer
    PROVE  \E op \in Operation :
              /\ op.call = "setRemote" /\ op.description.type = "offer" /\ op.description.lines # <<>>
              /\ IsPrefix(Kinds(IF Len(local) > Len(remote) THEN local ELSE remote),
                          Kinds(op.description.lines))
              /\ EnqueueOperation(op, TRUE)
<1>1. PICK offer \in RemoteOffers :
        /\ IsPrefix(Kinds(IF Len(local) > Len(remote) THEN local ELSE remote), Kinds(offer))
        /\ EnqueueOperation([call |-> "setRemote",
                             description |-> [type |-> "offer", lines |-> offer]], TRUE)
  BY DEF SetRemoteOffer
<1>2. offer \in Seq(OfferLine) /\ offer # <<>>
  BY PeerConnectionAssumption
<1> DEFINE d == [type |-> "offer", lines |-> offer]
           op == [call |-> "setRemote", description |-> d]
<1>3. d \in RemoteDescription /\ d.type = "offer" /\ d.lines = offer
  BY <1>2 DEF RemoteDescription
<1>4. EnqueueOperation(op, TRUE)
  BY <1>1
<1> HIDE DEF d
<1>5. op \in Operation /\ op.call = "setRemote" /\ op.description = d
  BY <1>3 DEF Operation
<1> HIDE DEF op
<1> QED BY <1>1, <1>2, <1>3, <1>4, <1>5

LEMMA RemoteAnswerOperation ==
    ASSUME DescTypeOK, SetRemoteAnswer
    PROVE  \E op \in Operation :
              /\ op.call = "setRemote" /\ op.description.type = "answer"
              /\ Len(op.description.lines) = Len(local)
              /\ \A i \in DOMAIN local : op.description.lines[i].kind = local[i].kind
              /\ EnqueueOperation(op, TRUE)
<1>1. PICK sends \in BOOLEAN :
        EnqueueOperation([call |-> "setRemote", description |->
            [type |-> "answer",
             lines |-> [i \in DOMAIN local |->
                 [kind |-> local[i].kind, sends |-> sends /\ local[i].kind = "audio",
                  mux |-> local[i].mux, candidates |-> {}]]]], TRUE)
  BY DEF SetRemoteAnswer
<1> DEFINE l == [i \in DOMAIN local |->
                   [kind |-> local[i].kind, sends |-> sends /\ local[i].kind = "audio",
                    mux |-> local[i].mux, candidates |-> {}]]
           d == [type |-> "answer", lines |-> l]
           op == [call |-> "setRemote", description |-> d]
<1>2. l \in Seq(OfferLine) /\ Len(l) = Len(local) /\ \A i \in DOMAIN local : l[i].kind = local[i].kind
  <2>1. local \in [1..Len(local) -> LineOfThisEnd] /\ Len(local) \in Nat /\ DOMAIN local = 1..Len(local)
    BY SequenceFacts DEF DescTypeOK
  <2>2. l \in [1..Len(local) -> OfferLine] /\ \A i \in DOMAIN local : l[i].kind = local[i].kind
    BY <2>1 DEF LineOfThisEnd, OfferLine
  <2> HIDE DEF l
  <2> QED BY <2>1, <2>2, FunctionSequence
<1>3. EnqueueOperation(op, TRUE)
  BY <1>1
<1> HIDE DEF l
<1>4. d \in RemoteDescription /\ d.type = "answer" /\ d.lines = l
  BY <1>2 DEF RemoteDescription
<1> HIDE DEF d
<1>5. op \in Operation /\ op.call = "setRemote" /\ op.description = d
  BY <1>4 DEF Operation
<1> HIDE DEF op
<1> QED BY <1>2, <1>3, <1>4, <1>5

LEMMA TypeOK_Script ==
    ASSUME TypeOK, Script PROVE TypeOK'
<1>0. /\ script \in Seq(Call) /\ QueueTypeOK /\ DescTypeOK /\ ChannelTypeOK /\ MessageTypeOK
      /\ WorkerTypeOK /\ hist \in History
  BY Groups
<1>1. \A call : Calling(call) => (script \in Seq(Call))'
  BY <1>0, TailFacts DEF Calling
<1>2. ASSUME NEW op \in Operation, NEW c \in BOOLEAN, EnqueueOperation(op, c), PageUnchanged,
             (script \in Seq(Call))', created' \in {created, NoDescription}
      PROVE  TypeOK'
  <2>1. QueueTypeOK' /\ hist' \in History
    BY <1>0, <1>2, EnqueueType
  <2>2. DescTypeOK'
    BY <1>0, <1>2 DEF PageUnchanged, DescTypeOK
  <2>3. ChannelTypeOK' /\ MessageTypeOK' /\ WorkerTypeOK'
    BY <1>0, <1>2, GroupsSame DEF PageUnchanged
  <2> QED BY <1>2, <2>1, <2>2, <2>3, GroupsNext
<1>3. CASE CreateOffer
  <2> DEFINE op == [call |-> "createOffer"]
  <2>1. op \in Operation
    BY DEF Operation
  <2> QED BY <1>1, <1>2, <1>3, <2>1 DEF CreateOffer
<1>4. CASE CreateAnswer
  <2> DEFINE op == [call |-> "createAnswer"]
  <2>1. op \in Operation
    BY DEF Operation
  <2> QED BY <1>1, <1>2, <1>4, <2>1 DEF CreateAnswer
<1>5. CASE SetLocalDescription
  <2> DEFINE op == [call |-> "setLocal", description |-> created]
  <2>1. created \in LocalDescription
    BY <1>0, <1>5 DEF SetLocalDescription, DescTypeOK, NoDescription
  <2>2. op \in Operation
    BY <2>1 DEF Operation
  <2> QED BY <1>1, <1>2, <1>5, <2>2 DEF SetLocalDescription
<1>6. CASE SetRemoteOffer
  <2>1. PICK offer \in RemoteOffers :
          EnqueueOperation([call |-> "setRemote",
                            description |-> [type |-> "offer", lines |-> offer]], TRUE)
    BY <1>6 DEF SetRemoteOffer
  <2>2. offer \in Seq(OfferLine)
    BY PeerConnectionAssumption
  <2> DEFINE d == [type |-> "offer", lines |-> offer]
             op == [call |-> "setRemote", description |-> d]
  <2>3. d \in RemoteDescription
    BY <2>2 DEF RemoteDescription
  <2> HIDE DEF d
  <2>4. op \in Operation
    BY <2>3 DEF Operation
  <2>5. EnqueueOperation(op, TRUE)
    BY <2>1 DEF d
  <2> HIDE DEF op
  <2> QED BY <1>1, <1>2, <1>6, <2>4, <2>5 DEF SetRemoteOffer
<1>7. CASE SetRemoteAnswer
  <2>1. PICK sends \in BOOLEAN :
          EnqueueOperation([call |-> "setRemote", description |->
              [type |-> "answer",
               lines |-> [i \in DOMAIN local |->
                   [kind |-> local[i].kind, sends |-> sends /\ local[i].kind = "audio",
                    mux |-> local[i].mux, candidates |-> {}]]]], TRUE)
    BY <1>7 DEF SetRemoteAnswer
  <2> DEFINE l == [i \in DOMAIN local |->
                     [kind |-> local[i].kind, sends |-> sends /\ local[i].kind = "audio",
                      mux |-> local[i].mux, candidates |-> {}]]
             d == [type |-> "answer", lines |-> l]
             op == [call |-> "setRemote", description |-> d]
  <2>2. l \in Seq(OfferLine)
    <3>1. local \in [1..Len(local) -> LineOfThisEnd] /\ Len(local) \in Nat /\ DOMAIN local = 1..Len(local)
      BY <1>0, SequenceFacts DEF DescTypeOK
    <3>2. l \in [1..Len(local) -> OfferLine]
      BY <3>1 DEF LineOfThisEnd, OfferLine
    <3> HIDE DEF l
    <3> QED BY <3>1, <3>2, FunctionSequence
  <2> HIDE DEF l
  <2>3. d \in RemoteDescription
    BY <2>2 DEF RemoteDescription
  <2> HIDE DEF d
  <2>4. op \in Operation
    BY <2>3 DEF Operation
  <2>5. EnqueueOperation(op, TRUE)
    BY <2>1 DEF d, l
  <2> HIDE DEF op
  <2> QED BY <1>1, <1>2, <1>7, <2>4, <2>5 DEF SetRemoteAnswer
<1>8. CASE AddIceCandidate
  <2>1. PICK c \in Candidates :
          EnqueueOperation([call |-> "addCandidate", line |-> c[1], candidate |-> c[2]], FALSE)
    BY <1>8 DEF AddIceCandidate
  <2>2. c[1] \in Nat /\ c[2] \in Component
    BY PeerConnectionAssumption
  <2>3. [call |-> "addCandidate", line |-> c[1], candidate |-> c[2]] \in Operation
    BY <2>2 DEF Operation
  <2> QED BY <1>1, <1>2, <1>8, <2>1, <2>3 DEF AddIceCandidate
<1>9. \A b, d \in BOOLEAN : /\ Unnegotiated \in History
                            /\ [Unnegotiated EXCEPT !.first = b] \in History
  BY <1>0 DEF Unnegotiated, History
<1>10. CASE AddStream
  <2>1. timers' \in Seq(Timers)
    BY <1>0, <1>10, AppendFacts DEF AddStream, QueueTypeOK, Timers
  <2>2. QueueTypeOK'
    BY <1>0, <1>10, <2>1 DEF AddStream, QueueTypeOK
  <2>3. DescTypeOK'
    BY <1>0, <1>10 DEF AddStream, DescTypeOK
  <2>4. ChannelTypeOK' /\ MessageTypeOK' /\ WorkerTypeOK'
    BY <1>0, <1>10, GroupsSame DEF AddStream
  <2>5. hist' \in History
    BY <1>9, <1>10 DEF AddStream
  <2> QED BY <1>1, <1>10, <2>2, <2>3, <2>4, <2>5, GroupsNext DEF AddStream
<1>11. CASE CreateDataChannel
  <2>1. timers' \in Seq(Timers)
    BY <1>0, <1>11, AppendFacts DEF CreateDataChannel, QueueTypeOK, Timers
  <2>2. QueueTypeOK'
    BY <1>0, <1>11, <2>1 DEF CreateDataChannel, QueueTypeOK
  <2>3. DescTypeOK'
    BY <1>0, <1>11 DEF CreateDataChannel, DescTypeOK
  <2>4. WorkerTypeOK'
    BY <1>0, <1>11, GroupsSame DEF CreateDataChannel
  <2>5. hist' \in History
    BY <1>0, <1>9, <1>11 DEF CreateDataChannel
  <2>6. ChannelTypeOK' /\ MessageTypeOK'
    BY <1>0, <1>11, NewChannelType DEF CreateDataChannel, Unassigned, MessageTypeOK
  <2> QED BY <1>1, <1>11, <2>2, <2>3, <2>4, <2>5, <2>6, GroupsNext DEF CreateDataChannel
<1>12. CASE Close
  <2>1. QueueTypeOK'
    BY <1>0, <1>12 DEF Close, QueueTypeOK, SignalingState
  <2>2. DescTypeOK' /\ ChannelTypeOK' /\ MessageTypeOK' /\ WorkerTypeOK'
    BY <1>0, <1>12, GroupsSame DEF Close
  <2>3. hist' \in History
    BY <1>0, <1>12, HistoryExcept DEF Close
  <2> QED BY <1>1, <1>12, <2>1, <2>2, <2>3, GroupsNext DEF Close
<1> QED BY <1>3, <1>4, <1>5, <1>6, <1>7, <1>8, <1>10, <1>11, <1>12 DEF Script

\* No line of a description that was made is done: SDP does not say so.
Undone(lines) == \A k \in DOMAIN lines : ~lines[k].done

\* The lines of an answer.
LEMMA AnswerType ==
    ASSUME DescTypeOK
    PROVE  LET l == [i \in 1..Len(remote) |->
                        IF i \in DOMAIN local THEN [local[i] EXCEPT !.mux = remote[i].mux]
                        ELSE LocalLine(remote[i].kind, FALSE, remote[i].mux)]
               g == Generated(WithTracks(l))
           IN  /\ g \in Seq(LineOfThisEnd) /\ Len(g) = Len(remote) /\ Undone(g)
               /\ \A i \in 1..Len(remote) :
                     g[i].kind = IF i \in DOMAIN local THEN local[i].kind ELSE remote[i].kind
<1> DEFINE l == [i \in 1..Len(remote) |->
                    IF i \in DOMAIN local THEN [local[i] EXCEPT !.mux = remote[i].mux]
                    ELSE LocalLine(remote[i].kind, FALSE, remote[i].mux)]
<1>1. /\ local \in [1..Len(local) -> LineOfThisEnd] /\ DOMAIN local = 1..Len(local)
      /\ remote \in [1..Len(remote) -> RemoteLine] /\ Len(remote) \in Nat /\ Len(local) \in Nat
  BY SequenceFacts DEF DescTypeOK
<1>2. ASSUME NEW i \in 1..Len(remote)
      PROVE  /\ l[i] \in LineOfThisEnd
             /\ l[i].kind = IF i \in DOMAIN local THEN local[i].kind ELSE remote[i].kind
  BY <1>1, <1>2 DEF LineOfThisEnd, RemoteLine, LocalLine
<1>3. l \in [1..Len(remote) -> LineOfThisEnd] /\ DOMAIN l = 1..Len(remote)
  BY <1>2
<1> HIDE DEF l
<1>4. l \in Seq(LineOfThisEnd) /\ Len(l) = Len(remote)
  BY <1>1, <1>3, FunctionSequence
<1>5. /\ WithTracks(l) \in Seq(LineOfThisEnd) /\ Len(WithTracks(l)) = Len(l)
      /\ \A i \in DOMAIN l : WithTracks(l)[i].kind = l[i].kind
  BY <1>4, WithTracksType
<1> DEFINE t == WithTracks(l)
           g == Generated(t)
<1> HIDE DEF t
<1>6. t \in Seq(LineOfThisEnd) /\ Len(t) = Len(remote) /\ DOMAIN t = 1..Len(remote)
  BY <1>1, <1>4, <1>5, SequenceFacts DEF t
<1>7. /\ g \in Seq(LineOfThisEnd) /\ Len(g) = Len(t) /\ DOMAIN g = DOMAIN t
      /\ \A i \in DOMAIN t : g[i].kind = t[i].kind /\ ~g[i].done
  BY <1>6, GeneratedType
<1> HIDE DEF g
<1>8. /\ g \in Seq(LineOfThisEnd) /\ Len(g) = Len(remote) /\ Undone(g)
      /\ \A i \in 1..Len(remote) :
            g[i].kind = IF i \in DOMAIN local THEN local[i].kind ELSE remote[i].kind
  BY <1>2, <1>3, <1>5, <1>6, <1>7 DEF Undone, t
<1> QED BY <1>8 DEF l, t, g

LEMMA CallTypes ==
    ASSUME DescTypeOK, NEW b \in BOOLEAN
    PROVE  /\ \A lines \in Seq(LineOfThisEnd) : PrepareToReceive(lines, b) \in PeerCall
           /\ \A lines \in Seq(RemoteLine) : PrepareToSend(lines, b) \in PeerCall
  BY DEF PrepareToReceive, PrepareToSend, PeerCall

\* The calls that follow a local description, one by one.
LEMMA CallsForLocalFacts ==
    ASSUME DescTypeOK, NEW lines \in Seq(LineOfThisEnd), NEW b \in BOOLEAN
    PROVE  /\ CallsForLocal(lines, b) \in Seq(PeerCall)
           /\ \A i \in DOMAIN CallsForLocal(lines, b) :
                 LET c == CallsForLocal(lines, b)[i]
                 IN  \/ i = 1 /\ Len(lines) > Len(local) /\ c = PrepareToReceive(lines, b)
                     \/ remote # <<>> /\ c = PrepareToSend(remote, b)
           /\ remote # <<>> =>
                 \E i \in DOMAIN CallsForLocal(lines, b) :
                    CallsForLocal(lines, b)[i] = PrepareToSend(remote, b)
<1> DEFINE r == PrepareToReceive(lines, b)
           s == PrepareToSend(remote, b)
           x == IF Len(lines) > Len(local) THEN <<r>> ELSE <<>>
           y == IF remote # <<>> THEN <<s>> ELSE <<>>
<1>1. r \in PeerCall /\ s \in PeerCall
  BY CallTypes DEF DescTypeOK
<1>2. CallsForLocal(lines, b) = x \o y
  BY DEF CallsForLocal
<1>3. /\ (x = <<r>> /\ Len(lines) > Len(local)) \/ x = <<>>
      /\ (y = <<s>> /\ remote # <<>>) \/ (y = <<>> /\ remote = <<>>)
  <2> HIDE DEF r, s
  <2>1. (x = <<r>> /\ Len(lines) > Len(local)) \/ x = <<>>
    BY DEF x
  <2>2. (y = <<s>> /\ remote # <<>>) \/ (y = <<>> /\ remote = <<>>)
    BY DEF y
  <2> QED BY <2>1, <2>2
<1> HIDE DEF x, y, r, s
<1>4. ASSUME NEW e \in PeerCall, NEW q, q = <<>> \/ q = <<e>>
      PROVE  q \in Seq(PeerCall) /\ Len(q) \in 0..1 /\ \A i \in 1..Len(q) : i = 1 /\ q = <<e>> /\ q[i] = e
  <2>1. CASE q = <<>>
    <3>1. <<>> \in Seq(PeerCall) /\ Len(<<>>) = 0
      BY EmptySeq
    <3> QED BY <2>1, <3>1
  <2>2. CASE q = <<e>>
    BY <1>4, <2>2, SingleFacts
  <2> QED BY <1>4, <2>1, <2>2
<1>5. x \in Seq(PeerCall) /\ Len(x) \in 0..1 /\ \A i \in 1..Len(x) : i = 1 /\ x = <<r>> /\ x[i] = r
  BY <1>1, <1>3, <1>4
<1>6. y \in Seq(PeerCall) /\ Len(y) \in 0..1 /\ \A i \in 1..Len(y) : i = 1 /\ y = <<s>> /\ y[i] = s
  BY <1>1, <1>3, <1>4
<1>7. x \o y \in Seq(PeerCall) /\ DOMAIN (x \o y) = 1..(Len(x) + Len(y))
  BY <1>5, <1>6, ConcatFacts
<1>8. <<r>> # <<>> /\ <<s>> # <<>> /\ Len(<<s>>) = 1
  BY <1>1, SingleFacts
<1>9. ASSUME NEW i \in DOMAIN (x \o y)
      PROVE  \/ i = 1 /\ Len(lines) > Len(local) /\ (x \o y)[i] = r
             \/ remote # <<>> /\ (x \o y)[i] = s
  <2>1. CASE i \in 1..Len(x)
    <3>1. (x \o y)[i] = x[i] /\ i = 1 /\ x = <<r>>
      BY <1>5, <1>6, <2>1, ConcatFacts
    <3> QED BY <1>3, <1>5, <1>8, <2>1, <3>1
  <2>2. CASE i \in (Len(x) + 1)..(Len(x) + Len(y))
    <3>1. i - Len(x) \in 1..Len(y)
      BY <1>5, <1>6, <2>2
    <3>2. (x \o y)[i] = y[i - Len(x)] /\ y = <<s>>
      BY <1>5, <1>6, <2>2, <3>1, ConcatFacts
    <3> QED BY <1>3, <1>6, <1>8, <3>1, <3>2
  <2> QED BY <1>5, <1>6, <1>7, <1>9, <2>1, <2>2
<1>10. ASSUME remote # <<>> PROVE \E i \in DOMAIN (x \o y) : (x \o y)[i] = s
  <2>1. y = <<s>> /\ Len(y) = 1
    BY <1>3, <1>8, <1>10
  <2>2. Len(x) + 1 \in DOMAIN (x \o y) /\ (x \o y)[Len(x) + 1] = s
    BY <1>5, <1>6, <1>7, <2>1, ConcatFacts
  <2> QED BY <2>2
<1> QED BY <1>2, <1>7, <1>9, <1>10 DEF r, s

LEMMA TypeOK_Timer ==
    ASSUME TypeOK, Timer, UNCHANGED script PROVE TypeOK'
<1>0. /\ script \in Seq(Call) /\ QueueTypeOK /\ DescTypeOK /\ ChannelTypeOK /\ MessageTypeOK
      /\ WorkerTypeOK /\ hist \in History
  BY Groups
<1>1. ASSUME UNCHANGED <<channelVars, known, keys, toPage, workerVars>>, toWorker' \in Seq(PeerCall),
             QueueTypeOK', DescTypeOK', hist' \in History
      PROVE  TypeOK'
  BY <1>0, <1>1, GroupsNext, GroupsSame DEF MessageTypeOK
<1>2. ASSUME UNCHANGED <<channelVars, known, keys, toPage, workerVars>>, queue # <<>>, timers # <<>>,
             Reject
      PROVE  TypeOK'
  <2>1. QueueTypeOK' /\ DescTypeOK' /\ UNCHANGED <<descVars, toWorker, hist>>
    BY <1>0, <1>2, RejectType
  <2> QED BY <1>0, <1>1, <1>2, <2>1 DEF MessageTypeOK
<1>3. ASSUME UNCHANGED <<channelVars, known, keys, toPage, workerVars>>, timers # <<>>,
             Throw, hist' \in History
      PROVE  TypeOK'
  <2>1. QueueTypeOK' /\ DescTypeOK' /\ UNCHANGED toWorker
    BY <1>0, <1>3, ThrowType
  <2> QED BY <1>0, <1>1, <1>3, <2>1 DEF MessageTypeOK
<1>4. ASSUME UNCHANGED <<channelVars, known, keys, toPage, workerVars>>, queue # <<>>, timers # <<>>,
             CompleteQueuedOperation(Tail(timers), sig, local),
             UNCHANGED <<waiting, hasTrack, hasDataChannels, local, remote, status, toWorker, hist>>,
             created' \in LocalDescription
      PROVE  TypeOK'
  <2>1. Tail(timers) \in Seq(Timers) /\ sig \in SignalingState
    BY <1>0, <1>4, TailFacts DEF QueueTypeOK
  <2>2. /\ queue' \in Seq(Operation) /\ sig' \in SignalingState /\ stateChanging' \in BOOLEAN
        /\ timers' \in Seq(Timers)
    BY <1>0, <1>4, <2>1, CompleteType
  <2>3. QueueTypeOK'
    BY <1>0, <1>4, <2>2 DEF QueueTypeOK
  <2>4. DescTypeOK'
    BY <1>0, <1>4 DEF DescTypeOK
  <2> QED BY <1>0, <1>1, <1>4, <2>3, <2>4 DEF MessageTypeOK
<1>5. CASE RunCreateOffer
  <2> DEFINE lines == WithTracks(local)
             new == NewLines(lines)
             d == [type |-> "offer", lines |-> Generated(lines \o new)]
  <2>1. timers # <<>> /\ queue # <<>>
    BY <1>0, <1>5, RunningFacts DEF RunCreateOffer
  <2>2. d \in LocalDescription
    <3>1. local \in Seq(LineOfThisEnd)
      BY <1>0 DEF DescTypeOK
    <3>2. lines \in Seq(LineOfThisEnd) /\ new \in Seq(LineOfThisEnd)
      BY <1>0, <3>1, WithTracksType, NewLinesType
    <3> HIDE DEF lines, new
    <3>3. lines \o new \in Seq(LineOfThisEnd)
      BY <3>2, ConcatFacts
    <3>4. Generated(lines \o new) \in Seq(LineOfThisEnd)
      BY <3>3, GeneratedType
    <3> QED BY <3>4 DEF LocalDescription
  <2>3. CASE Throw /\ hist' = [hist EXCEPT !.early = TRUE]
    BY <1>0, <1>3, <1>5, <2>1, <2>3, HistoryExcept DEF RunCreateOffer
  <2>4. CASE /\ created' = d
             /\ CompleteQueuedOperation(Tail(timers), sig, local)
             /\ UNCHANGED <<waiting, hasTrack, hasDataChannels, local, remote, status, toWorker, hist>>
    <3> HIDE DEF d
    <3> QED BY <1>4, <1>5, <2>1, <2>2, <2>4 DEF RunCreateOffer
  <2> QED BY <1>5, <2>3, <2>4 DEF RunCreateOffer
<1>6. CASE RunCreateAnswer
  <2> DEFINE l == [i \in 1..Len(remote) |->
                      IF i \in DOMAIN local THEN [local[i] EXCEPT !.mux = remote[i].mux]
                      ELSE LocalLine(remote[i].kind, FALSE, remote[i].mux)]
             d == [type |-> "answer", lines |-> Generated(WithTracks(l))]
  <2>1. timers # <<>> /\ queue # <<>>
    BY <1>0, <1>6, RunningFacts DEF RunCreateAnswer
  <2>2. d \in LocalDescription
    BY <1>0, AnswerType DEF LocalDescription
  <2>3. CASE Reject
    BY <1>2, <1>6, <2>1, <2>3 DEF RunCreateAnswer
  <2>4. CASE /\ created' = d
             /\ CompleteQueuedOperation(Tail(timers), sig, local)
             /\ UNCHANGED <<waiting, hasTrack, hasDataChannels, local, remote, status, toWorker, hist>>
    <3> HIDE DEF d
    <3> QED BY <1>4, <1>6, <2>1, <2>2, <2>4 DEF RunCreateAnswer
  <2> QED BY <1>6, <2>3, <2>4 DEF RunCreateAnswer
<1>7. CASE RunSetLocalDescription
  <2> DEFINE d == Head(queue).description
             target == Target(sig, "setLocal", d.type)
             calls == CallsForLocal(d.lines, d.type = "offer")
  <2>1. timers # <<>> /\ queue # <<>> /\ d \in LocalDescription
    BY <1>0, <1>7, RunningFacts, OperationFields DEF RunSetLocalDescription
  <2>2. d.lines \in Seq(LineOfThisEnd) /\ (d.type = "offer") \in BOOLEAN
    BY <2>1 DEF LocalDescription
  <2>3. \/ Throw /\ UNCHANGED hist
        \/ Reject
        \/ /\ target # "none" /\ local' = d.lines
           /\ hist' = [hist EXCEPT !.ended = FALSE,
                                   !.stale = @ \cup {i \in DOMAIN local : local[i].done}]
           /\ WhenPeerHandler(calls, target, d.lines)
           /\ UNCHANGED <<hasTrack, hasDataChannels, remote, status, created>>
    BY <1>7 DEF RunSetLocalDescription
  <2>4. UNCHANGED <<channelVars, known, keys, toPage, workerVars>>
    BY <1>7 DEF RunSetLocalDescription
  <2>5. calls \in Seq(PeerCall)
    BY <1>0, <2>2, CallsForLocalFacts
  <2>6. target # "none" => target \in SignalingState
    BY TargetType
  <2>7. [hist EXCEPT !.ended = FALSE, !.stale = @ \cup {i \in DOMAIN local : local[i].done}] \in History
    <3> DEFINE done == {i \in DOMAIN local : local[i].done}
    <3>1. done \in SUBSET Nat
      <4>1. DOMAIN local = 1..Len(local) /\ Len(local) \in Nat
        BY <1>0, SequenceFacts DEF DescTypeOK
      <4> QED BY <4>1
    <3> HIDE DEF done
    <3>2. hist.stale \cup done \in SUBSET Nat
      BY <1>0, <3>1 DEF History
    <3>3. [hist EXCEPT !.ended = FALSE, !.stale = @ \cup done] \in History
      BY <1>0, <3>2 DEF History
    <3> QED BY <3>3 DEF done
  <2> HIDE DEF d, target, calls
  <2>8. CASE /\ target # "none" /\ local' = d.lines
             /\ hist' = [hist EXCEPT !.ended = FALSE,
                                   !.stale = @ \cup {i \in DOMAIN local : local[i].done}]
             /\ WhenPeerHandler(calls, target, d.lines)
             /\ UNCHANGED <<hasTrack, hasDataChannels, remote, status, created>>
    <3>1. QueueTypeOK' /\ toWorker' \in Seq(PeerCall)
      BY <1>0, <2>1, <2>5, <2>6, <2>8, WhenPeerHandlerType DEF MessageTypeOK
    <3>2. DescTypeOK'
      BY <1>0, <2>2, <2>8 DEF DescTypeOK
    <3> QED BY <1>1, <2>4, <2>7, <2>8, <3>1, <3>2
  <2> QED BY <1>0, <1>2, <1>3, <2>1, <2>3, <2>4, <2>8
<1>8. CASE RunSetRemoteDescription
  <2> DEFINE d == Head(queue).description
             target == Target(sig, "setRemote", d.type)
             lines == WithSource(d.lines)
             c == PrepareToSend(lines, d.type = "answer")
             calls == <<c>>
  <2>1. timers # <<>> /\ queue # <<>> /\ d \in RemoteDescription
    BY <1>0, <1>8, RunningFacts, OperationFields DEF RunSetRemoteDescription
  <2>2. d.lines \in Seq(OfferLine) /\ (d.type = "answer") \in BOOLEAN
    BY <2>1 DEF RemoteDescription
  <2>3. \/ Throw /\ UNCHANGED hist
        \/ Reject
        \/ /\ target # "none" /\ remote' = lines /\ status' = Expecting(d.lines)
           /\ hist' = [hist EXCEPT !.withdrawn = @ \/ \E i \in DOMAIN status :
                                status[i].expected /\ ~status[i].source /\ ~status'[i].expected]
           /\ WhenPeerHandler(calls, target, local)
           /\ UNCHANGED <<hasTrack, hasDataChannels, local, created>>
    BY <1>8 DEF RunSetRemoteDescription
  <2>4. UNCHANGED <<channelVars, known, keys, toPage, workerVars>>
    BY <1>8 DEF RunSetRemoteDescription
  <2>5. lines \in Seq(RemoteLine) /\ Expecting(d.lines) \in Seq(Status)
    BY <1>0, <2>2, WithSourceType, ExpectingType
  <2>6. calls \in Seq(PeerCall)
    <3>1. c \in PeerCall
      BY <1>0, <2>2, <2>5, CallTypes
    <3> HIDE DEF c
    <3> QED BY <3>1, SingleFacts
  <2>7. target # "none" => target \in SignalingState
    BY TargetType
  <2>8. [hist EXCEPT !.withdrawn = @ \/ \E i \in DOMAIN status :
              status[i].expected /\ ~status[i].source /\ ~status'[i].expected] \in History
    BY <1>0 DEF History
  <2> HIDE DEF d, target, lines, c, calls
  <2>9. CASE /\ target # "none" /\ remote' = lines /\ status' = Expecting(d.lines)
             /\ hist' = [hist EXCEPT !.withdrawn = @ \/ \E i \in DOMAIN status :
                                status[i].expected /\ ~status[i].source /\ ~status'[i].expected]
             /\ WhenPeerHandler(calls, target, local)
             /\ UNCHANGED <<hasTrack, hasDataChannels, local, created>>
    <3>1. QueueTypeOK' /\ toWorker' \in Seq(PeerCall)
      BY <1>0, <2>1, <2>6, <2>7, <2>9, WhenPeerHandlerType DEF MessageTypeOK
    <3>2. DescTypeOK'
      BY <1>0, <2>5, <2>9 DEF DescTypeOK
    <3> QED BY <1>1, <2>4, <2>8, <2>9, <3>1, <3>2
  <2> QED BY <1>0, <1>2, <1>3, <2>1, <2>3, <2>4, <2>9
<1>9. CASE RunAddIceCandidate
  <2> DEFINE op == Head(queue)
             c == [call |-> "addRemoteCandidate", line |-> op.line, candidate |-> op.candidate]
             calls == <<c>>
             r == [remote EXCEPT ![op.line].candidates = @ \cup {op.candidate}]
  <2>1. timers # <<>> /\ queue # <<>> /\ op.line \in Nat /\ op.candidate \in Component
    BY <1>0, <1>9, RunningFacts, OperationFields DEF RunAddIceCandidate
  <2>2. \/ Reject
        \/ /\ remote' = r
           /\ WhenPeerHandler(calls, sig, local)
           /\ UNCHANGED <<hasTrack, hasDataChannels, local, status, created, hist>>
    BY <1>9 DEF RunAddIceCandidate
  <2>3. UNCHANGED <<channelVars, known, keys, toPage, workerVars>>
    BY <1>9 DEF RunAddIceCandidate
  <2>4. c \in PeerCall
    BY <2>1 DEF PeerCall
  <2>5. r \in Seq(RemoteLine)
    <3>1. remote \in [1..Len(remote) -> RemoteLine] /\ Len(remote) \in Nat
      BY <1>0, SequenceFacts DEF DescTypeOK
    <3> DEFINE x == op.line
               y == op.candidate
    <3>2. y \in Component /\ r = [remote EXCEPT ![x].candidates = @ \cup {y}]
      BY <2>1
    <3> HIDE DEF op, r, x, y
    <3>3. r \in [1..Len(remote) -> RemoteLine]
      BY <3>1, <3>2 DEF RemoteLine
    <3> QED BY <3>1, <3>3, FunctionSequence
  <2> HIDE DEF op, c, r
  <2>6. calls \in Seq(PeerCall) /\ sig \in SignalingState
    BY <1>0, <2>4, SingleFacts DEF QueueTypeOK
  <2> HIDE DEF calls
  <2>7. CASE /\ remote' = r
             /\ WhenPeerHandler(calls, sig, local)
             /\ UNCHANGED <<hasTrack, hasDataChannels, local, status, created, hist>>
    <3>1. QueueTypeOK' /\ toWorker' \in Seq(PeerCall)
      BY <1>0, <2>1, <2>6, <2>7, WhenPeerHandlerType DEF MessageTypeOK
    <3>2. DescTypeOK'
      BY <1>0, <2>5, <2>7 DEF DescTypeOK
    <3> QED BY <1>0, <1>1, <2>3, <2>7, <3>1, <3>2
  <2> QED BY <1>2, <2>1, <2>2, <2>3, <2>7
<1>10. CASE RunMaybeDispatch
  <2>1. timers' \in Seq(Timers)
    BY <1>0, <1>10, TailFacts, DispatchType DEF RunMaybeDispatch, QueueTypeOK
  <2>2. QueueTypeOK'
    BY <1>0, <1>10, <2>1 DEF RunMaybeDispatch, QueueTypeOK
  <2> QED BY <1>0, <1>1, <1>10, <2>2, GroupsSame DEF RunMaybeDispatch, MessageTypeOK
<1>11. CASE RunDispatchNegotiationNeeded
  <2>1. timers' \in Seq(Timers)
    BY <1>0, <1>11, TailFacts DEF RunDispatchNegotiationNeeded, QueueTypeOK
  <2>2. QueueTypeOK'
    BY <1>0, <1>11, <2>1 DEF RunDispatchNegotiationNeeded, QueueTypeOK
  <2>3. hist' \in History
    BY <1>0, <1>11 DEF RunDispatchNegotiationNeeded, History
  <2> QED BY <1>0, <1>1, <1>11, <2>2, <2>3, GroupsSame DEF RunDispatchNegotiationNeeded, MessageTypeOK
<1> QED BY <1>5, <1>6, <1>7, <1>8, <1>9, <1>10, <1>11 DEF Timer

LEMMA TypeOK_PageMessage ==
    ASSUME TypeOK, waiting # <<>> => queue # <<>>, PageMessage, UNCHANGED script PROVE TypeOK'
<1>0. /\ script \in Seq(Call) /\ QueueTypeOK /\ DescTypeOK /\ ChannelTypeOK /\ MessageTypeOK
      /\ WorkerTypeOK /\ hist \in History
  BY Groups
<1>1. ASSUME toPage # <<>>, toPage' = Tail(toPage), toWorker' \in Seq(PeerCall)
      PROVE  MessageTypeOK'
  BY <1>0, <1>1, TailFacts DEF MessageTypeOK
<1>2. toPage # <<>> => Head(toPage) \in PageEvent
  BY <1>0, TailFacts DEF MessageTypeOK
<1>3. CASE GotPeerHandler
  <2>1. ChannelTypeOK'
    BY <1>0, <1>3 DEF GotPeerHandler, ChannelTypeOK, channelVars
  <2>2. DescTypeOK' /\ WorkerTypeOK'
    BY <1>0, <1>3, GroupsSame DEF GotPeerHandler
  <2>3. <<>> \in Seq(Deferred) /\ Len(<<>>) = 0
    BY EmptySeq
  <2>4. QueueTypeOK' /\ toWorker' \in Seq(PeerCall)
    <3>1. CASE waiting = <<>>
      BY <1>0, <1>3, <2>3, <3>1 DEF GotPeerHandler, QueueTypeOK, MessageTypeOK
    <3>2. CASE waiting # <<>>
      <4> DEFINE c == waiting[1].calls
                 t == waiting[1].target
      <4>1. c \in Seq(PeerCall) /\ t \in SignalingState
        BY <1>0, <3>2, WaitingType
      <4>2. Applied(c, t, timers, local) /\ waiting' = <<>>
        BY <1>3, <3>2 DEF GotPeerHandler
      <4> HIDE DEF c, t
      <4>3. timers \in Seq(Timers) /\ toWorker \in Seq(PeerCall)
        BY <1>0 DEF QueueTypeOK, MessageTypeOK
      <4>4. /\ queue' \in Seq(Operation) /\ sig' \in SignalingState /\ stateChanging' \in BOOLEAN
            /\ timers' \in Seq(Timers) /\ toWorker' \in Seq(PeerCall)
        BY <1>0, <3>2, <4>1, <4>2, <4>3, AppliedType
      <4>5. waiting' \in Seq(Deferred) /\ Len(waiting') <= 1
        BY <2>3, <4>2
      <4> QED BY <4>4, <4>5 DEF QueueTypeOK
    <3> QED BY <3>1, <3>2
  <2> QED BY <1>0, <1>1, <1>3, <2>1, <2>2, <2>4, GroupsNext DEF GotPeerHandler, FromWorker
<1>4. CASE GotIceCandidate
  <2>1. [hist EXCEPT !.ended = @ \/ AllGatheringDone(local)] \in History
    BY <1>0 DEF History
  <2>2. toWorker' \in Seq(PeerCall) /\ toPage # <<>> /\ toPage' = Tail(toPage)
    BY <1>0, <1>4 DEF GotIceCandidate, FromWorker, MessageTypeOK
  <2> QED BY <1>0, <1>1, <1>4, <2>1, <2>2, GroupsNext, GroupsSame DEF GotIceCandidate
<1>5. CASE CandidateGatheringDone
  <2> DEFINE x == Head(toPage).line
  <2>1. local' \in Seq(LineOfThisEnd)
    <3>1. local \in [1..Len(local) -> LineOfThisEnd] /\ Len(local) \in Nat
      BY <1>0, SequenceFacts DEF DescTypeOK
    <3>2. local' = [local EXCEPT ![x].done = TRUE]
      BY <1>5 DEF CandidateGatheringDone
    <3> HIDE DEF x
    <3>3. local' \in [1..Len(local) -> LineOfThisEnd]
      BY <3>1, <3>2 DEF LineOfThisEnd
    <3> QED BY <3>1, <3>3, FunctionSequence
  <2>2. DescTypeOK'
    BY <1>0, <1>5, <2>1 DEF CandidateGatheringDone, DescTypeOK
  <2>3. [hist EXCEPT !.ended = @ \/ AllGatheringDone(local')] \in History
    BY <1>0 DEF History
  <2>4. toWorker' \in Seq(PeerCall) /\ toPage # <<>> /\ toPage' = Tail(toPage)
    BY <1>0, <1>5 DEF CandidateGatheringDone, FromWorker, MessageTypeOK
  <2> QED BY <1>0, <1>1, <1>5, <2>2, <2>3, <2>4, GroupsNext, GroupsSame DEF CandidateGatheringDone
<1>6. CASE GotRemoteSource
  <2> DEFINE x == Head(toPage).line
             got == [status EXCEPT ![x] = [@ EXCEPT !.source = TRUE, !.updated = TRUE]]
             updated == {i \in DOMAIN got : got[i].updated}
  <2>1. status \in [1..Len(status) -> Status] /\ Len(status) \in Nat
    BY <1>0, SequenceFacts DEF DescTypeOK
  <2>2. \/ status' = got /\ UNCHANGED hist
        \/ /\ status' = [i \in DOMAIN got |-> [got[i] EXCEPT !.updated = FALSE]]
           /\ hist' = [hist EXCEPT !.announced = @ \cup updated]
    BY <1>6 DEF GotRemoteSource
  <2> HIDE DEF x
  <2>3. got \in [1..Len(status) -> Status] /\ updated \subseteq Nat
    <3>1. got \in [1..Len(status) -> Status] /\ DOMAIN got = 1..Len(status)
      BY <2>1 DEF Status
    <3> HIDE DEF got
    <3> QED BY <2>1, <3>1
  <2>4. [i \in DOMAIN got |-> [got[i] EXCEPT !.updated = FALSE]] \in [1..Len(status) -> Status]
    <3> HIDE DEF got
    <3> QED BY <2>1, <2>3 DEF Status
  <2> HIDE DEF got, updated
  <2>5. status' \in [1..Len(status) -> Status]
    BY <2>2, <2>3, <2>4
  <2>6. status' \in Seq(Status)
    BY <2>1, <2>5, FunctionSequence
  <2>7. [hist EXCEPT !.announced = @ \cup updated] \in History
    BY <1>0, <2>3 DEF History
  <2>8. DescTypeOK'
    BY <1>0, <1>6, <2>6 DEF GotRemoteSource, DescTypeOK
  <2>9. toWorker' \in Seq(PeerCall) /\ toPage # <<>> /\ toPage' = Tail(toPage)
    BY <1>0, <1>6 DEF GotRemoteSource, FromWorker, MessageTypeOK
  <2> QED BY <1>0, <1>1, <1>6, <2>2, <2>7, <2>8, <2>9, GroupsNext, GroupsSame DEF GotRemoteSource
<1>7. CASE DataChannelsEnabled
  <2> DEFINE f == [k \in DOMAIN deferred |-> CreateChannel(deferred[k], channels[deferred[k]])]
  <2>1. /\ deferred \in [1..Len(deferred) -> DOMAIN channels] /\ Len(deferred) \in Nat /\ DOMAIN deferred = 1..Len(deferred)
        /\ channels \in [1..Len(channels) -> Nat] /\ DOMAIN channels = 1..Len(channels)
    BY <1>0, SequenceFacts DEF ChannelTypeOK
  <2>2. f \in [1..Len(deferred) -> PeerCall]
    BY <1>0, <2>1 DEF CreateChannel, PeerCall
  <2> HIDE DEF f
  <2>3. f \in Seq(PeerCall)
    BY <2>1, <2>2, FunctionSequence
  <2>4. toWorker' = toWorker \o f
    BY <1>7 DEF DataChannelsEnabled, f
  <2>5. toWorker' \in Seq(PeerCall)
    BY <1>0, <2>3, <2>4, ConcatFacts DEF MessageTypeOK
  <2>6. <<>> \in Seq(DOMAIN channels)
    BY EmptySeq
  <2>7. ChannelTypeOK'
    BY <1>0, <1>7, <2>6 DEF DataChannelsEnabled, ChannelTypeOK
  <2> QED BY <1>0, <1>1, <1>7, <2>5, <2>7, GroupsNext, GroupsSame DEF DataChannelsEnabled, FromWorker
<1>8. CASE DataChannelRequested
  <2> DEFINE n == Head(toPage).id
  <2>1. n \in Nat /\ NewChannel(n)
    BY <1>2, <1>8, EventFields DEF DataChannelRequested, FromWorker
  <2> HIDE DEF n
  <2>2. UNCHANGED <<canCreate, known, keys>> /\ toPage # <<>> /\ toPage' = Tail(toPage)
    BY <1>8 DEF DataChannelRequested, FromWorker
  <2>3. ChannelTypeOK' /\ toWorker' \in Seq(PeerCall)
    BY <1>0, <2>1, <2>2, NewChannelType DEF MessageTypeOK
  <2> QED BY <1>0, <1>1, <1>8, <2>2, <2>3, GroupsNext, GroupsSame DEF DataChannelRequested
<1>9. CASE GotChannel
  <2> DEFINE x == Head(toPage).channel
             n == Head(toPage).id
  <2>1. n \in Nat /\ toPage # <<>> /\ toPage' = Tail(toPage)
    BY <1>2, <1>9, EventFields DEF GotChannel, FromWorker
  <2>2. channels' = [channels EXCEPT ![x] = n]
    BY <1>9 DEF GotChannel
  <2> HIDE DEF x, n
  <2>3. channels' \in Seq(Nat) /\ DOMAIN channels' = DOMAIN channels
    BY <1>0, <2>1, <2>2, ExceptFacts DEF ChannelTypeOK
  <2>4. ChannelTypeOK' /\ toWorker' \in Seq(PeerCall)
    BY <1>0, <1>9, <2>3 DEF GotChannel, ChannelTypeOK, MessageTypeOK
  <2> QED BY <1>0, <1>1, <1>9, <2>1, <2>4, GroupsNext, GroupsSame DEF GotChannel
<1> QED BY <1>3, <1>4, <1>5, <1>6, <1>7, <1>8, <1>9 DEF PageMessage

\* The sessions made for the lines of a call.
LEMMA WithSessionsType ==
    ASSUME WorkerTypeOK, NEW S, NEW lines \in Seq(S), \A i \in DOMAIN lines : lines[i].kind \in Kind,
           NEW b \in BOOLEAN
    PROVE  LET all == WithSessions(lines, b)
           IN  /\ all \in Seq(Session)
               /\ Len(all) = IF Len(lines) > Len(sessions) THEN Len(lines) ELSE Len(sessions)
               /\ \A i \in DOMAIN sessions : all[i] = sessions[i]
               /\ \A i \in DOMAIN all : i \notin DOMAIN sessions =>
                     /\ i \in DOMAIN lines /\ all[i].kind = lines[i].kind
                     /\ all[i].added = 0 /\ all[i].gathering = "not" /\ ~all[i].sending
<1> DEFINE n == IF Len(lines) > Len(sessions) THEN Len(lines) - Len(sessions) ELSE 0
           f == [i \in 1..n |->
                   [kind |-> lines[Len(sessions) + i].kind, client |-> ~b, mux |-> FALSE,
                    sending |-> FALSE, candidates |-> {}, added |-> 0, gathering |-> "not",
                    flow |-> "none", channels |-> "none"]]
           all == sessions \o f
<1>1. /\ sessions \in Seq(Session) /\ Len(sessions) \in Nat /\ DOMAIN sessions = 1..Len(sessions)
      /\ Len(lines) \in Nat /\ DOMAIN lines = 1..Len(lines)
  BY SequenceFacts DEF WorkerTypeOK
<1>2. n \in Nat /\ \A i \in 1..n : Len(sessions) + i \in DOMAIN lines
  BY <1>1
<1>3. \A i \in 1..n : lines[Len(sessions) + i].kind \in Kind
  BY <1>2
<1> HIDE DEF n
<1>4. f \in [1..n -> Session]
  BY <1>3 DEF Session
<1>5. \A i \in 1..n : /\ f[i].kind = lines[Len(sessions) + i].kind /\ f[i].added = 0
                      /\ f[i].gathering = "not" /\ ~f[i].sending
  OBVIOUS
<1> HIDE DEF f
<1>6. f \in Seq(Session) /\ Len(f) = n
  BY <1>2, <1>4, FunctionSequence
<1>7. /\ all \in Seq(Session) /\ Len(all) = Len(sessions) + n /\ DOMAIN all = 1..(Len(sessions) + n)
      /\ \A i \in 1..Len(sessions) : all[i] = sessions[i]
      /\ \A i \in (Len(sessions) + 1)..(Len(sessions) + n) : all[i] = f[i - Len(sessions)]
  BY <1>1, <1>6, ConcatFacts
<1> HIDE DEF all
<1>8. ASSUME NEW i \in DOMAIN all, i \notin DOMAIN sessions
      PROVE  /\ i \in DOMAIN lines /\ all[i].kind = lines[i].kind
             /\ all[i].added = 0 /\ all[i].gathering = "not" /\ ~all[i].sending
  <2> DEFINE k == i - Len(sessions)
  <2>1. i \in (Len(sessions) + 1)..(Len(sessions) + n)
    BY <1>1, <1>2, <1>7, <1>8
  <2>2. all[i] = f[k]
    BY <1>7, <2>1
  <2>3. k \in 1..n /\ i = Len(sessions) + k
    BY <1>1, <1>2, <2>1
  <2> HIDE DEF k
  <2> QED BY <1>2, <1>5, <2>2, <2>3
<1>9. Len(all) = IF Len(lines) > Len(sessions) THEN Len(lines) ELSE Len(sessions)
  BY <1>1, <1>7 DEF n
<1>10. WithSessions(lines, b) = all
  BY DEF WithSessions, all, f, n
<1> QED BY <1>1, <1>7, <1>8, <1>9, <1>10

LEMMA LineKinds ==
    /\ \A lines \in Seq(LineOfThisEnd) : \A i \in DOMAIN lines : lines[i].kind \in Kind
    /\ \A lines \in Seq(RemoteLine) : \A i \in DOMAIN lines : lines[i].kind \in Kind
    /\ \A lines \in Seq(OfferLine) : \A i \in DOMAIN lines : lines[i].kind \in Kind
<1>1. \A x : /\ x \in LineOfThisEnd \/ x \in RemoteLine \/ x \in OfferLine => x.kind \in Kind
  BY DEF LineOfThisEnd, RemoteLine, OfferLine
<1> QED BY <1>1, SequenceFacts

LEMMA PreparedType ==
    ASSUME NEW x \in Session, x.added = 0, NEW mux \in BOOLEAN
    PROVE  [x EXCEPT !.mux = mux, !.added = @ + 1, !.gathering = "going"] \in Session
<1>1. [x EXCEPT !.mux = mux, !.added = @ + 1, !.gathering = "going"] =
          [x EXCEPT !.mux = mux, !.added = 1, !.gathering = "going"]
  OBVIOUS
<1>2. ASSUME NEW a \in 0..1
      PROVE  [x EXCEPT !.mux = mux, !.added = a, !.gathering = "going"] \in Session
  BY DEF Session
<1> QED BY <1>1, <1>2

LEMMA SenderType ==
    ASSUME NEW x \in Session, NEW mux \in BOOLEAN, NEW c \in SUBSET Component, NEW s \in BOOLEAN,
           NEW sends \in BOOLEAN
    PROVE  [x EXCEPT !.mux = mux, !.candidates = @ \cup c, !.sending = @ \/ s,
                     !.flow = IF @ = "none" /\ sends THEN "expected" ELSE @] \in Session
<1> DEFINE k == x.candidates \cup c
           g == x.sending \/ s
           f == IF x.flow = "none" /\ sends THEN "expected" ELSE x.flow
<1>1. k \in SUBSET Component /\ g \in BOOLEAN /\ f \in {"none", "expected", "arrived"}
  BY DEF Session
<1> HIDE DEF k, g, f
<1>2. [x EXCEPT !.mux = mux, !.candidates = k, !.sending = g, !.flow = f] \in Session
  BY <1>1 DEF Session
<1> QED BY <1>2 DEF k, g, f

LEMMA TypeOK_Worker ==
    ASSUME TypeOK, Worker, UNCHANGED script,
           \A i \in DOMAIN sessions : sessions[i].added = 0 \/ i <= receivePrepared
    PROVE  TypeOK'
<1>0. /\ script \in Seq(Call) /\ QueueTypeOK /\ DescTypeOK /\ ChannelTypeOK /\ MessageTypeOK
      /\ WorkerTypeOK /\ hist \in History
  BY Groups
<1>1. ASSUME toWorker # <<>>, toWorker' = Tail(toWorker), toPage' \in Seq(PageEvent),
             WorkerTypeOK', UNCHANGED keys, WorkerOnly
      PROVE  TypeOK'
  <2>1. MessageTypeOK'
    BY <1>0, <1>1, TailFacts DEF MessageTypeOK
  <2> QED BY <1>0, <1>1, <2>1, GroupsNext, GroupsSame DEF WorkerOnly
<1>2. /\ toWorker # <<>> => Head(toWorker) \in PeerCall
      /\ toPage \in Seq(PageEvent) /\ sessions \in Seq(Session) /\ Len(sessions) \in Nat
      /\ DOMAIN sessions = 1..Len(sessions) /\ sessions \in [1..Len(sessions) -> Session]
  BY <1>0, TailFacts, SequenceFacts DEF MessageTypeOK, WorkerTypeOK
<1>3. CASE CreatePeerHandler
  <2>1. [event |-> "peerHandler"] \in PageEvent
    BY DEF PageEvent
  <2>2. toPage' \in Seq(PageEvent)
    BY <1>2, <1>3, <2>1, AppendFacts DEF CreatePeerHandler
  <2> QED BY <1>0, <1>1, <1>3, <2>2, GroupsSame DEF CreatePeerHandler, ToPeerHandler
<1>4. CASE ReceivePrepareToReceive
  <2> DEFINE msg == Head(toWorker)
             l == msg.lines
             b == msg.initiator
             all == WithSessions(l, b)
             fresh == (receivePrepared + 1)..Len(all)
             enabled == {i \in fresh : all[i].kind = "application"}
             e == [event |-> "dataChannelsEnabled"]
             f == [i \in DOMAIN all |->
                      IF i \notin fresh THEN all[i]
                      ELSE [all[i] EXCEPT !.mux = ~b /\ l[i].mux, !.added = @ + 1, !.gathering = "going"]]
  <2>1. l \in Seq(LineOfThisEnd) /\ b \in BOOLEAN
    BY <1>2, <1>4, CallFields DEF ReceivePrepareToReceive, ToPeerHandler
  <2>2. /\ sessions' = f /\ receivePrepared' = Len(all)
        /\ toPage' = IF enabled = {} THEN toPage ELSE Append(toPage, e)
        /\ toWorker # <<>> /\ toWorker' = Tail(toWorker)
        /\ UNCHANGED <<sendPrepared, nextId, keys>> /\ WorkerOnly
    BY <1>4 DEF ReceivePrepareToReceive, ToPeerHandler
  <2> HIDE DEF l, b
  <2>3. /\ all \in Seq(Session) /\ \A i \in DOMAIN sessions : all[i] = sessions[i]
        /\ \A i \in DOMAIN all : i \notin DOMAIN sessions => all[i].added = 0
    BY <1>0, <2>1, LineKinds, WithSessionsType
  <2> HIDE DEF all
  <2>4. all \in [1..Len(all) -> Session] /\ Len(all) \in Nat /\ DOMAIN all = 1..Len(all)
    BY <2>3, SequenceFacts
  <2>5. \A i \in fresh \cap DOMAIN all : all[i].added = 0
    BY <1>0, <1>2, <2>3, <2>4 DEF WorkerTypeOK
  <2>6. f \in [1..Len(all) -> Session]
    <3>1. ASSUME NEW i \in 1..Len(all) PROVE f[i] \in Session
      <4>1. CASE i \notin fresh
        BY <2>4, <4>1
      <4>2. CASE i \in fresh
        <5> DEFINE x == all[i]
                   mux == ~b /\ l[i].mux
        <5>1. x \in Session /\ x.added = 0 /\ mux \in BOOLEAN
          BY <2>4, <2>5, <4>2
        <5>2. f[i] = [x EXCEPT !.mux = mux, !.added = @ + 1, !.gathering = "going"]
          BY <2>4, <4>2
        <5> HIDE DEF x, mux, f
        <5>3. [x EXCEPT !.mux = mux, !.added = @ + 1, !.gathering = "going"] \in Session
          BY <5>1, PreparedType
        <5> QED BY <5>2, <5>3
      <4> QED BY <4>1, <4>2
    <3> QED BY <2>4, <3>1
  <2>7. e \in PageEvent
    BY DEF PageEvent
  <2> HIDE DEF f, e, enabled
  <2>8. toPage' \in Seq(PageEvent)
    BY <1>2, <2>2, <2>7, AppendFacts
  <2>9. sessions' \in Seq(Session)
    BY <2>2, <2>4, <2>6, FunctionSequence
  <2>10. WorkerTypeOK'
    BY <1>0, <2>2, <2>4, <2>9 DEF WorkerTypeOK
  <2> QED BY <1>1, <2>2, <2>8, <2>10
<1>5. CASE ReceivePrepareToSend
  <2> DEFINE msg == Head(toWorker)
             lines == msg.lines
             b == msg.initiator
             all == WithSessions(lines, b)
             fresh == {i \in DOMAIN lines : i > sendPrepared}
             prepared == {i \in fresh : lines[i].kind = "application" \/ lines[i].source}
             f == [i \in DOMAIN all |->
                     IF i \notin DOMAIN lines THEN all[i]
                     ELSE LET mux == lines[i].kind = "audio" /\ lines[i].mux
                          IN  [all[i] EXCEPT
                               !.mux = mux,
                               !.candidates = @ \cup Taken(lines[i].candidates, mux),
                               !.sending = @ \/ (i \in fresh /\ lines[i].source),
                               !.flow = IF @ = "none" /\ lines[i].sends THEN "expected" ELSE @]]
  <2>1. lines \in Seq(RemoteLine) /\ b \in BOOLEAN
    BY <1>2, <1>5, CallFields DEF ReceivePrepareToSend, ToPeerHandler
  <2>2. /\ sessions' = f
        /\ IF prepared = {} THEN UNCHANGED sendPrepared
           ELSE \E i \in prepared : (\A j \in prepared : j <= i) /\ sendPrepared' = i
        /\ toWorker # <<>> /\ toWorker' = Tail(toWorker)
        /\ UNCHANGED <<toPage, receivePrepared, nextId, keys>> /\ WorkerOnly
    BY <1>5 DEF ReceivePrepareToSend, ToPeerHandler
  <2> HIDE DEF lines, b
  <2>3. all \in Seq(Session)
    BY <1>0, <2>1, LineKinds, WithSessionsType
  <2> HIDE DEF all
  <2>4. /\ all \in [1..Len(all) -> Session] /\ Len(all) \in Nat /\ DOMAIN all = 1..Len(all)
        /\ lines \in [1..Len(lines) -> RemoteLine] /\ DOMAIN lines = 1..Len(lines)
    BY <2>1, <2>3, SequenceFacts
  <2>5. sendPrepared' \in Nat
    <3>1. CASE UNCHANGED sendPrepared
      BY <1>0, <3>1 DEF WorkerTypeOK
    <3>2. CASE \E i \in prepared : sendPrepared' = i
      BY <2>4, <3>2
    <3> HIDE DEF prepared
    <3> QED BY <2>2, <3>1, <3>2
  <2>6. f \in [1..Len(all) -> Session]
    <3>1. ASSUME NEW i \in 1..Len(all) PROVE f[i] \in Session
      <4>1. CASE i \notin DOMAIN lines
        BY <2>4, <4>1
      <4>2. CASE i \in DOMAIN lines
        <5> DEFINE x == all[i]
                   y == lines[i]
                   mux == y.kind = "audio" /\ y.mux
                   c == Taken(y.candidates, mux)
                   s == i \in fresh /\ y.source
        <5>1. x \in Session /\ y \in RemoteLine
          BY <2>4, <4>2
        <5>2. mux \in BOOLEAN /\ s \in BOOLEAN /\ c \in SUBSET Component
          BY <5>1 DEF Taken, RemoteLine
        <5>3. f[i] = [x EXCEPT !.mux = mux, !.candidates = @ \cup c, !.sending = @ \/ s,
                                !.flow = IF @ = "none" /\ y.sends THEN "expected" ELSE @]
          BY <2>4, <4>2
        <5> HIDE DEF x, y, mux, c, s, f
        <5>4. y.sends \in BOOLEAN
          BY <5>1 DEF RemoteLine
        <5>5. [x EXCEPT !.mux = mux, !.candidates = @ \cup c, !.sending = @ \/ s,
                        !.flow = IF @ = "none" /\ y.sends THEN "expected" ELSE @] \in Session
          BY <5>1, <5>2, <5>4, SenderType
        <5> QED BY <5>3, <5>5
      <4> QED BY <4>1, <4>2
    <3> QED BY <2>4, <3>1
  <2> HIDE DEF f, prepared
  <2>7. sessions' \in Seq(Session)
    BY <2>2, <2>4, <2>6, FunctionSequence
  <2>8. WorkerTypeOK'
    BY <1>0, <2>2, <2>5, <2>7 DEF WorkerTypeOK
  <2> QED BY <1>1, <1>2, <2>2, <2>8
<1>6. CASE ReceiveAddRemoteCandidate
  <2> DEFINE x == Head(toWorker).line
             c == Taken({Head(toWorker).candidate}, sessions[x].mux)
  <2>1. Head(toWorker).candidate \in Component
    BY <1>2, <1>6, CallFields DEF ReceiveAddRemoteCandidate, ToPeerHandler
  <2>2. c \in SUBSET Component
    BY <2>1 DEF Taken
  <2>3. sessions' = [sessions EXCEPT ![x].candidates = @ \cup c]
    BY <1>6 DEF ReceiveAddRemoteCandidate
  <2> HIDE DEF x, c
  <2>4. sessions' \in [1..Len(sessions) -> Session]
    BY <1>2, <2>2, <2>3 DEF Session
  <2>5. WorkerTypeOK'
    BY <1>0, <1>2, <1>6, <2>4, FunctionSequence DEF ReceiveAddRemoteCandidate, WorkerTypeOK
  <2> QED BY <1>1, <1>2, <1>6, <2>5 DEF ReceiveAddRemoteCandidate, ToPeerHandler
<1>7. CASE ReceiveCreateDataChannel
  <2> DEFINE msg == Head(toWorker)
             next == IF nextId = 0 /\ ~sessions[DataSession].client THEN 1 ELSE nextId
             n == IF msg.id = Unassigned THEN next ELSE msg.id
             e == [event |-> "channel", channel |-> msg.channel, id |-> n]
  <2>1. msg.channel \in Nat /\ msg.id \in Nat
    BY <1>2, <1>7, CallFields DEF ReceiveCreateDataChannel, ToPeerHandler
  <2>2. next \in Nat
    BY <1>0 DEF WorkerTypeOK
  <2>3. /\ nextId' = IF msg.id = Unassigned THEN next + 2 ELSE nextId
        /\ toPage' = Append(toPage, e)
        /\ toWorker # <<>> /\ toWorker' = Tail(toWorker)
        /\ UNCHANGED <<sessions, receivePrepared, sendPrepared, keys>> /\ WorkerOnly
    BY <1>7 DEF ReceiveCreateDataChannel, ToPeerHandler
  <2> HIDE DEF next
  <2>4. e \in PageEvent
    BY <2>1, <2>2 DEF PageEvent
  <2> HIDE DEF msg, n, e
  <2>5. toPage' \in Seq(PageEvent)
    BY <1>2, <2>3, <2>4, AppendFacts
  <2>6. WorkerTypeOK'
    BY <1>0, <2>2, <2>3 DEF WorkerTypeOK
  <2> QED BY <1>1, <2>3, <2>5, <2>6
<1> QED BY <1>3, <1>4, <1>5, <1>6, <1>7 DEF Worker

LEMMA TypeOK_Native ==
    ASSUME TypeOK, Native, UNCHANGED script PROVE TypeOK'
<1>0. /\ script \in Seq(Call) /\ QueueTypeOK /\ DescTypeOK /\ ChannelTypeOK /\ MessageTypeOK
      /\ WorkerTypeOK /\ hist \in History
  BY Groups
<1>1. /\ toPage \in Seq(PageEvent) /\ sessions \in Seq(Session) /\ Len(sessions) \in Nat
      /\ DOMAIN sessions = 1..Len(sessions) /\ sessions \in [1..Len(sessions) -> Session]
      /\ toWorker \in Seq(PeerCall)
  BY <1>0, SequenceFacts DEF MessageTypeOK, WorkerTypeOK
<1>2. CASE KeysGenerated
  <2>1. [call |-> "createPeerHandler"] \in PeerCall
    BY DEF PeerCall
  <2>2. Append(toWorker, [call |-> "createPeerHandler"]) \in Seq(PeerCall)
    BY <1>1, <2>1, AppendFacts
  <2>3. MessageTypeOK'
    BY <1>1, <1>2, <2>2 DEF KeysGenerated, MessageTypeOK
  <2>4. ChannelTypeOK'
    BY <1>0, <1>2 DEF KeysGenerated, ChannelTypeOK, WorkerOnly, channelVars
  <2> QED BY <1>0, <1>2, <2>3, <2>4, GroupsNext, GroupsSame DEF KeysGenerated, WorkerOnly
<1>3. ASSUME NEW i \in DOMAIN sessions, sessions' \in [1..Len(sessions) -> Session],
             NEW e \in PageEvent, toPage' = Append(toPage, e),
             UNCHANGED <<toWorker, receivePrepared, sendPrepared, nextId, keys>>, WorkerOnly
      PROVE  TypeOK'
  <2>1. toPage' \in Seq(PageEvent)
    BY <1>1, <1>3, AppendFacts
  <2>2. MessageTypeOK'
    BY <1>1, <1>3, <2>1 DEF MessageTypeOK
  <2>3. WorkerTypeOK'
    BY <1>0, <1>1, <1>3, FunctionSequence DEF WorkerTypeOK
  <2> QED BY <1>0, <1>3, <2>2, <2>3, GroupsNext, GroupsSame DEF WorkerOnly
<1>4. ASSUME NEW i \in DOMAIN sessions
      PROVE  /\ [event |-> "candidate", line |-> i] \in PageEvent
             /\ [event |-> "gatheringDone", line |-> i] \in PageEvent
             /\ [event |-> "source", line |-> i] \in PageEvent
             /\ \A n \in {0, 1} : [event |-> "dataChannelRequested", id |-> n] \in PageEvent
             /\ \A g \in {"found", "done"} :
                   [sessions EXCEPT ![i].gathering = g] \in [1..Len(sessions) -> Session]
             /\ [sessions EXCEPT ![i].flow = "arrived"] \in [1..Len(sessions) -> Session]
             /\ [sessions EXCEPT ![i].channels = "requested"] \in [1..Len(sessions) -> Session]
  <2>1. i \in Nat
    BY <1>1
  <2>2. /\ [event |-> "candidate", line |-> i] \in PageEvent
        /\ [event |-> "gatheringDone", line |-> i] \in PageEvent
        /\ [event |-> "source", line |-> i] \in PageEvent
        /\ \A n \in {0, 1} : [event |-> "dataChannelRequested", id |-> n] \in PageEvent
    BY <2>1 DEF PageEvent
  <2>3. \A g \in {"found", "done"} :
            [sessions EXCEPT ![i].gathering = g] \in [1..Len(sessions) -> Session]
    BY <1>1 DEF Session
  <2>4. [sessions EXCEPT ![i].flow = "arrived"] \in [1..Len(sessions) -> Session]
    BY <1>1 DEF Session
  <2>5. [sessions EXCEPT ![i].channels = "requested"] \in [1..Len(sessions) -> Session]
    BY <1>1 DEF Session
  <2> QED BY <2>2, <2>3, <2>4, <2>5
<1>5. ASSUME NEW i \in DOMAIN sessions, Gather(i) PROVE TypeOK'
  BY <1>3, <1>4, <1>5 DEF Gather
<1>6. ASSUME NEW i \in DOMAIN sessions, IncomingSource(i) PROVE TypeOK'
  BY <1>3, <1>4, <1>6 DEF IncomingSource
<1>7. ASSUME NEW i \in DOMAIN sessions, IncomingChannel(i) PROVE TypeOK'
  BY <1>3, <1>4, <1>7 DEF IncomingChannel
<1> QED BY <1>2, <1>5, <1>6, <1>7 DEF Native

-------------------------------------------------------------------------------
(* The inductive invariant *)

Changes(op) == op.call \in {"setLocal", "setRemote"}
Makes(op) == op.call \in {"createOffer", "createAnswer", "setRemote"}
Has(s, e) == \E i \in DOMAIN s : s[i] = e

\* The queue of operations: one timer at most starts one, none while the operation at the head
\* waits for the peer handler; the flag is about the operation at the end.
QueueInv ==
    /\ \A i, j \in DOMAIN timers : timers[i] = "op" /\ timers[j] = "op" => i = j
    /\ Has(timers, "op") => queue # <<>> /\ waiting = <<>>
    /\ waiting # <<>> => queue # <<>> /\ ~known
    /\ queue # <<>> => (stateChanging <=> Changes(queue[Len(queue)]))
    /\ ~hist.aside => \A i \in DOMAIN queue : Changes(queue[i])

\* What has to be negotiated and has not been signalled is going to be looked at again.
SignalInv ==
    ~hist.aside /\ ~hist.signalled /\ Lacks(local) =>
        queue # <<>> \/ sig # "stable" \/ Has(timers, "maybe") \/ Has(timers, "fire")

\* A source that has not been announced is marked, and held back by one that has not come.
AnnounceInv ==
    /\ \A i \in DOMAIN status : /\ status[i].source => i \in hist.announced \/ status[i].updated
                                /\ status[i].updated => status[i].source
    /\ hist.announced \subseteq {i \in DOMAIN status : status[i].source}
    /\ ~hist.withdrawn /\ (\E i \in DOMAIN status : status[i].updated) =>
           \E i \in DOMAIN status : status[i].expected /\ ~status[i].source

\* The state of signalling once the operation that waits for the peer handler is done.
NextSig == IF waiting = <<>> THEN sig ELSE waiting[1].target

\* The lines agreed so far; those that fit them, and those that go on from them.
Agreed == IF Len(local) > Len(remote) THEN local ELSE remote
Fits(lines) ==
    /\ Len(lines) <= Len(Agreed)
    /\ \A i \in DOMAIN lines : lines[i].kind = Agreed[i].kind
Extends(lines) ==
    /\ Len(Agreed) <= Len(lines)
    /\ \A i \in DOMAIN Agreed : lines[i].kind = Agreed[i].kind

\* The operations of a queue; those that change the state are in front of those that make a
\* description, and this end sets one description at a time.
Free(q) == \A i \in DOMAIN q : ~Changes(q[i])
Ordered(q) ==
    \A i, j \in DOMAIN q : i < j =>
        /\ Makes(q[i]) => ~Changes(q[j])
        /\ q[i].call = "setLocal" => q[j].call # "setLocal"

\* A description in the queue goes on from the lines agreed unless it is going to be rejected.
LocalPlan(d) ==
    /\ d.lines # <<>> /\ Len(local) <= Len(d.lines)
    /\ d.type = "answer" => Len(d.lines) = Len(remote)
    /\ Extends(d.lines) \/ (d.type = "offer" /\ NextSig \in {"have-remote-offer", "closed"})
    /\ Undone(d.lines)
RemotePlan(d) ==
    IF d.type = "offer"
    THEN Extends(d.lines) \/ NextSig \in {"have-local-offer", "closed"}
    ELSE Fits(d.lines) /\ Len(d.lines) <= Len(local)

\* The description in the script's hands.
CreatedPlan ==
    /\ created.type = "offer" =>
           /\ Len(local) <= Len(created.lines)
           /\ \A i \in DOMAIN local : created.lines[i].kind = local[i].kind
    /\ created.type = "answer" => Fits(created.lines) /\ Len(created.lines) = Len(remote)
    /\ Undone(created.lines)

\* A description is used before the next one is made.
PlanInv ==
    /\ Ordered(queue)
    /\ created # NoDescription => Free(queue)
    /\ \A op \in ToSet(queue) : op.call = "setLocal" => LocalPlan(op.description)
    /\ \A op \in ToSet(queue) : op.call = "setRemote" => RemotePlan(op.description)
    /\ CreatedPlan

\* Both descriptions agree; the longer one is this end's unless an offer is to be answered.
LinesInv ==
    /\ Fits(local) /\ Fits(remote)
    /\ NextSig \in {"stable", "have-local-offer"} => Len(remote) <= Len(local)
    /\ NextSig = "have-remote-offer" => Len(local) <= Len(remote)
    /\ ~known /\ waiting = <<>> => remote = <<>> /\ local = <<>>

\* The calls to the peer handler, in order: on their way, then those that wait for it.
Waiting == IF waiting = <<>> THEN <<>> ELSE waiting[1].calls
Calls == toWorker \o Waiting
Prepares(c) == c.call \in {"prepareToReceive", "prepareToSend"}

\* A call fits the lines agreed, of which this end has set "most", and the sessions it will meet,
\* of which "made" are there.
FitLines(lines, agreed) ==
    /\ Len(lines) <= Len(agreed)
    /\ \A i \in DOMAIN lines : lines[i].kind = agreed[i].kind
CallFits(c, i, agreed, most, made) ==
    /\ Prepares(c[i]) => FitLines(c[i].lines, agreed)
    /\ c[i].call = "prepareToReceive" =>
          /\ Len(c[i].lines) <= most /\ made <= Len(c[i].lines)
          /\ \A j \in 1..(i - 1) : Prepares(c[j]) => Len(c[j].lines) <= Len(c[i].lines)
    /\ c[i].call = "addRemoteCandidate" =>
          \/ c[i].line \in 1..made
          \/ \E j \in 1..(i - 1) : c[j].call = "prepareToSend" /\ c[i].line \in DOMAIN c[j].lines
CallsFit(c, agreed, most, made) == \A i \in DOMAIN c : CallFits(c, i, agreed, most, made)

\* The lines of the other end have sessions or are going to.
Covered(c, n, made) ==
    n <= made \/ \E j \in DOMAIN c : c[j].call = "prepareToSend" /\ n <= Len(c[j].lines)

CallsInv ==
    /\ \A i \in DOMAIN Waiting : Prepares(Waiting[i])
    /\ CallsFit(Calls, Agreed, Len(local), Len(sessions))
    /\ Covered(Calls, Len(remote), Len(sessions))

\* The sessions of the worker.
SessionsInv ==
    /\ Fits(sessions)
    /\ receivePrepared <= Len(sessions) /\ sendPrepared <= Len(sessions)
    /\ receivePrepared <= Len(local)
    /\ \A i \in DOMAIN sessions :
          (sessions[i].added = 0 /\ sessions[i].gathering = "not") \/ i <= receivePrepared

\* Channels are made once there is a session for them.
HasCall(c, call) == \E e \in ToSet(c) : e.call = call
HasEvent(c, event) == \E e \in ToSet(c) : e.event = event
ChannelsInv ==
    (canCreate \/ HasEvent(toPage, "dataChannelsEnabled") \/ HasCall(Calls, "createDataChannel"))
        => HasKind(sessions, "application")

\* The end of gathering of a line is told once, and noted in the description that is there;
\* what was noted in a description that has been replaced is not told again.
Told(s, i) == \E k \in DOMAIN s : s[k].event = "gatheringDone" /\ s[k].line = i
ToldOnce(s) ==
    \A j, k \in DOMAIN s :
        s[j].event = "gatheringDone" /\ s[k].event = "gatheringDone" /\ s[j].line = s[k].line => j = k
Ended(i) == i \in DOMAIN sessions /\ sessions[i].gathering = "done"
GatheringInv ==
    /\ ToldOnce(toPage) /\ \A i : Told(toPage, i) => Ended(i)
    /\ \A i \in hist.stale : Ended(i) /\ ~Told(toPage, i)
    /\ \A i \in DOMAIN local : local[i].done <=> Ended(i) /\ ~Told(toPage, i) /\ i \notin hist.stale
    /\ local # <<>> => (hist.ended <=> AllGatheringDone(local))

\* The first line of audio.
IsFirst(lines, i) ==
    /\ i \in DOMAIN lines /\ lines[i].kind = "audio"
    /\ \A j \in 1..(i - 1) : lines[j].kind # "audio"

\* A stream added before anything was asked for is the source of that line in every description
\* of the other end, and is sent there or going to be.
Sent == {e \in ToSet(Calls) : e.call = "prepareToSend"}
SourceFirst(lines) == \A k \in DOMAIN lines : lines[k].source <=> IsFirst(lines, k)
StreamInv ==
    /\ ~hist.asked => queue = <<>> /\ remote = <<>> /\ sendPrepared = 0 /\ Sent = {}
    /\ hist.first =>
          /\ hasTrack
          /\ \A e \in Sent : SourceFirst(e.lines)
          /\ SourceFirst(remote)
          /\ \A k \in DOMAIN sessions : IsFirst(sessions, k) /\ k <= sendPrepared => sessions[k].sending
          /\ \A k \in DOMAIN remote : IsFirst(remote, k) =>
                \/ k \in DOMAIN sessions /\ sessions[k].sending
                \/ \E e \in Sent : k \in DOMAIN e.lines

-------------------------------------------------------------------------------
(* The queue and its timers *)

Once(ts) == \A i, j \in DOMAIN ts : ts[i] = "op" /\ ts[j] = "op" => i = j

LEMMA HasAppend ==
    ASSUME NEW S, NEW s \in Seq(S), NEW e \in S, NEW x
    PROVE  Has(Append(s, e), x) <=> Has(s, x) \/ x = e
<1>1. /\ Len(s) \in Nat /\ DOMAIN s = 1..Len(s) /\ DOMAIN Append(s, e) = 1..(Len(s) + 1)
      /\ \A i \in 1..Len(s) : Append(s, e)[i] = s[i]
      /\ Append(s, e)[Len(s) + 1] = e
  BY AppendFacts, SequenceFacts
<1>2. ASSUME Has(s, x) PROVE Has(Append(s, e), x)
  BY <1>1, <1>2 DEF Has
<1>3. ASSUME x = e PROVE Has(Append(s, e), x)
  BY <1>1, <1>3 DEF Has
<1>4. ASSUME Has(Append(s, e), x), x # e PROVE Has(s, x)
  BY <1>1, <1>4 DEF Has
<1> QED BY <1>2, <1>3, <1>4

LEMMA HasTail ==
    ASSUME NEW S, NEW s \in Seq(S), s # <<>>, NEW x
    PROVE  /\ Has(s, x) <=> Has(Tail(s), x) \/ x = Head(s)
<1>1. /\ Len(s) \in Nat /\ DOMAIN s = 1..Len(s) /\ Head(s) = s[1] /\ Len(s) > 0
      /\ DOMAIN Tail(s) = 1..(Len(s) - 1)
      /\ \A i \in 1..(Len(s) - 1) : Tail(s)[i] = s[i + 1]
  BY TailFacts, SequenceFacts
<1>2. ASSUME Has(Tail(s), x) PROVE Has(s, x)
  <2>1. PICK i \in 1..(Len(s) - 1) : Tail(s)[i] = x
    BY <1>1, <1>2 DEF Has
  <2>2. i + 1 \in DOMAIN s /\ s[i + 1] = x
    BY <1>1, <2>1
  <2> QED BY <2>2 DEF Has
<1>3. ASSUME x = Head(s) PROVE Has(s, x)
  BY <1>1, <1>3 DEF Has
<1>4. ASSUME Has(s, x), x # Head(s) PROVE Has(Tail(s), x)
  <2>1. PICK i \in 1..Len(s) : s[i] = x
    BY <1>1, <1>4 DEF Has
  <2>2. i - 1 \in 1..(Len(s) - 1) /\ (i - 1) + 1 = i
    BY <1>1, <1>4, <2>1
  <2>3. Tail(s)[i - 1] = x
    BY <1>1, <2>1, <2>2
  <2> QED BY <1>1, <2>2, <2>3 DEF Has
<1> QED BY <1>2, <1>3, <1>4

LEMMA OnceAppend ==
    ASSUME NEW s \in Seq(Timers), NEW e \in Timers, Once(s), e = "op" => ~Has(s, "op")
    PROVE  Once(Append(s, e))
<1>1. /\ Len(s) \in Nat /\ DOMAIN s = 1..Len(s) /\ DOMAIN Append(s, e) = 1..(Len(s) + 1)
      /\ \A i \in 1..Len(s) : Append(s, e)[i] = s[i]
      /\ Append(s, e)[Len(s) + 1] = e
  BY AppendFacts, SequenceFacts
<1>2. ASSUME NEW i \in DOMAIN Append(s, e), NEW j \in DOMAIN Append(s, e),
             Append(s, e)[i] = "op", Append(s, e)[j] = "op"
      PROVE  i = j
  <2>1. CASE i \in 1..Len(s) /\ j \in 1..Len(s)
    BY <1>1, <1>2, <2>1 DEF Once
  <2>2. CASE i = Len(s) + 1 /\ j = Len(s) + 1
    BY <2>2
  <2>3. ~(i \in 1..Len(s) /\ j = Len(s) + 1) /\ ~(j \in 1..Len(s) /\ i = Len(s) + 1)
    BY <1>1, <1>2 DEF Has
  <2> QED BY <1>1, <1>2, <2>1, <2>2, <2>3
<1> QED BY <1>2 DEF Once

LEMMA OnceTail ==
    ASSUME NEW s \in Seq(Timers), s # <<>>, Once(s)
    PROVE  Once(Tail(s)) /\ (Head(s) = "op" => ~Has(Tail(s), "op"))
<1>1. /\ Len(s) \in Nat /\ DOMAIN s = 1..Len(s) /\ Head(s) = s[1] /\ Len(s) > 0
      /\ DOMAIN Tail(s) = 1..(Len(s) - 1)
      /\ \A i \in 1..(Len(s) - 1) : Tail(s)[i] = s[i + 1]
  BY TailFacts, SequenceFacts
<1>2. ASSUME NEW i \in DOMAIN Tail(s), NEW j \in DOMAIN Tail(s),
             Tail(s)[i] = "op", Tail(s)[j] = "op"
      PROVE  i = j
  <2>1. i + 1 \in DOMAIN s /\ j + 1 \in DOMAIN s /\ s[i + 1] = "op" /\ s[j + 1] = "op"
    BY <1>1, <1>2
  <2>2. i + 1 = j + 1
    BY <2>1 DEF Once
  <2> QED BY <1>1, <1>2, <2>2
<1>3. ASSUME Head(s) = "op", Has(Tail(s), "op") PROVE FALSE
  <2>1. PICK i \in 1..(Len(s) - 1) : Tail(s)[i] = "op"
    BY <1>1, <1>3 DEF Has
  <2>2. i + 1 \in DOMAIN s /\ 1 \in DOMAIN s /\ s[i + 1] = "op" /\ s[1] = "op"
    BY <1>1, <1>3, <2>1
  <2>3. i + 1 = 1
    BY <2>2 DEF Once
  <2> QED BY <1>1, <2>1, <2>3
<1> QED BY <1>2, <1>3 DEF Once

\* What maybeDispatchNegotiationNeeded does to the timers.
LEMMA DispatchFacts ==
    ASSUME NEW ts \in Seq(Timers), Once(ts), NEW q, NEW state, NEW lines
    PROVE  LET r == MaybeDispatchNegotiationNeeded(ts, q, state, lines)
           IN  /\ Once(r) /\ (Has(r, "op") <=> Has(ts, "op")) /\ (Has(r, "maybe") <=> Has(ts, "maybe"))
               /\ Has(ts, "fire") => Has(r, "fire")
               /\ q = <<>> /\ state = "stable" /\ Lacks(lines) => Has(r, "fire")
<1>1. "fire" \in Timers
  BY DEF Timers
<1>2. Contains(ts, "fire") <=> Has(ts, "fire")
  BY SequenceFacts DEF Contains, Has
<1>3. CASE ~Contains(ts, "fire") /\ q = <<>> /\ state = "stable" /\ Lacks(lines)
  BY <1>1, <1>3, HasAppend, OnceAppend DEF MaybeDispatchNegotiationNeeded
<1>4. CASE ~(~Contains(ts, "fire") /\ q = <<>> /\ state = "stable" /\ Lacks(lines))
  BY <1>2, <1>4 DEF MaybeDispatchNegotiationNeeded
<1> QED BY <1>3, <1>4

\* What the end of an operation does to the queue and the timers.
LEMMA CompleteFacts ==
    ASSUME QueueTypeOK, queue # <<>>, NEW ts \in Seq(Timers), Once(ts), ~Has(ts, "op"),
           NEW state, NEW lines, CompleteQueuedOperation(ts, state, lines)
    PROVE  /\ queue' = Tail(queue) /\ sig' = state /\ stateChanging' = (stateChanging /\ queue' # <<>>)
           /\ Once(timers') /\ (Has(timers', "op") <=> queue' # <<>>)
           /\ Has(ts, "maybe") => Has(timers', "maybe")
           /\ Has(ts, "fire") => Has(timers', "fire")
           /\ queue' = <<>> /\ stateChanging /\ state = "stable" /\ Lacks(lines) => Has(timers', "fire")
<1> DEFINE rest == Tail(queue)
           next == IF rest = <<>> THEN ts ELSE Append(ts, "op")
<1>1. /\ queue' = rest /\ sig' = state
      /\ timers' = IF rest = <<>> /\ stateChanging
                   THEN MaybeDispatchNegotiationNeeded(next, rest, state, lines) ELSE next
      /\ stateChanging' = (stateChanging /\ rest # <<>>)
  BY DEF CompleteQueuedOperation
<1>2. "op" \in Timers
  BY DEF Timers
<1>3. CASE rest = <<>> /\ stateChanging
  <2>1. timers' = MaybeDispatchNegotiationNeeded(ts, rest, state, lines)
    BY <1>1, <1>3
  <2> DEFINE x == MaybeDispatchNegotiationNeeded(ts, rest, state, lines)
  <2>2. /\ Once(x) /\ (Has(x, "op") <=> Has(ts, "op")) /\ (Has(x, "maybe") <=> Has(ts, "maybe"))
        /\ Has(ts, "fire") => Has(x, "fire")
        /\ rest = <<>> /\ state = "stable" /\ Lacks(lines) => Has(x, "fire")
    BY DispatchFacts
  <2> HIDE DEF x
  <2> QED BY <1>1, <1>3, <2>1, <2>2 DEF x
<1>4. CASE rest = <<>> /\ ~stateChanging
  BY <1>1, <1>4
<1>5. CASE rest # <<>>
  <2>1. timers' = Append(ts, "op")
    BY <1>1, <1>5
  <2>2. /\ Once(Append(ts, "op")) /\ Has(Append(ts, "op"), "op")
        /\ Has(ts, "maybe") => Has(Append(ts, "op"), "maybe")
        /\ Has(ts, "fire") => Has(Append(ts, "op"), "fire")
    BY <1>2, HasAppend, OnceAppend
  <2>3. /\ Once(timers') /\ Has(timers', "op")
        /\ Has(ts, "maybe") => Has(timers', "maybe")
        /\ Has(ts, "fire") => Has(timers', "fire")
    BY <2>1, <2>2
  <2> HIDE DEF rest, next
  <2>4. /\ queue' # <<>> /\ sig' = state
        /\ stateChanging' = (stateChanging /\ queue' # <<>>)
    BY <1>1, <1>5
  <2>5. queue' = Tail(queue)
    BY <1>1 DEF rest
  <2> QED BY <2>3, <2>4, <2>5
<1> QED BY <1>3, <1>4, <1>5

LEMMA QueueSame ==
    ASSUME QueueInv, UNCHANGED <<queueVars, known>>, hist'.aside = hist.aside
    PROVE  QueueInv'
  BY DEF QueueInv, queueVars, Has

LEMMA SignalSame ==
    ASSUME SignalInv, UNCHANGED <<queueVars, hasTrack, hasDataChannels, local>>,
           hist'.aside = hist.aside, hist.signalled => hist'.signalled
    PROVE  SignalInv'
  BY DEF SignalInv, queueVars, Has, Lacks

LEMMA Queue_Complete ==
    ASSUME QueueTypeOK, QueueInv, queue # <<>>, NEW ts \in Seq(Timers), Once(ts), ~Has(ts, "op"),
           NEW state, NEW lines, CompleteQueuedOperation(ts, state, lines),
           waiting' = <<>>, hist'.aside = hist.aside
    PROVE  QueueInv'
<1>1. /\ queue' = Tail(queue) /\ stateChanging' = (stateChanging /\ queue' # <<>>)
      /\ Once(timers') /\ (Has(timers', "op") <=> queue' # <<>>)
  BY CompleteFacts
<1>2. /\ Len(queue) \in Nat /\ DOMAIN queue = 1..Len(queue) /\ Len(queue) > 0
      /\ Len(queue') = Len(queue) - 1 /\ DOMAIN queue' = 1..(Len(queue) - 1)
      /\ \A i \in 1..(Len(queue) - 1) : queue'[i] = queue[i + 1]
      /\ queue' = <<>> <=> Len(queue) = 1
  BY <1>1, TailFacts, SequenceFacts DEF QueueTypeOK
<1>3. queue' # <<>> => (stateChanging' <=> Changes(queue'[Len(queue')]))
  <2> SUFFICES ASSUME queue' # <<>> PROVE stateChanging' <=> Changes(queue'[Len(queue')])
    OBVIOUS
  <2>1. Len(queue') \in 1..(Len(queue) - 1) /\ Len(queue') + 1 = Len(queue)
    BY <1>2
  <2>2. queue'[Len(queue')] = queue[Len(queue)]
    BY <1>2, <2>1
  <2>3. stateChanging <=> Changes(queue[Len(queue)])
    BY DEF QueueInv
  <2> QED BY <1>1, <2>2, <2>3
<1>4. ~hist'.aside => \A i \in DOMAIN queue' : Changes(queue'[i])
  <2> SUFFICES ASSUME ~hist'.aside, NEW i \in DOMAIN queue' PROVE Changes(queue'[i])
    OBVIOUS
  <2>1. i + 1 \in DOMAIN queue /\ queue'[i] = queue[i + 1]
    BY <1>2
  <2> QED BY <2>1 DEF QueueInv
<1> QED BY <1>1, <1>3, <1>4 DEF QueueInv, Once, Has

\* The last operation that changes the state judges the need to negotiate.
LEMMA Signal_Complete ==
    ASSUME QueueTypeOK, QueueInv, queue # <<>>, NEW ts \in Seq(Timers), Once(ts), ~Has(ts, "op"),
           NEW state, NEW lines, CompleteQueuedOperation(ts, state, lines),
           UNCHANGED <<hasTrack, hasDataChannels>>, lines = local',
           hist'.aside = hist.aside
    PROVE  SignalInv'
<1>1. /\ sig' = state
      /\ queue' = <<>> /\ stateChanging /\ state = "stable" /\ Lacks(lines) => Has(timers', "fire")
  BY CompleteFacts
<1>2. Lacks(local)' <=> Lacks(lines)
  BY DEF Lacks
<1>3. ~hist.aside => stateChanging
  <2>1. Len(queue) \in DOMAIN queue
    BY SequenceFacts DEF QueueTypeOK
  <2> QED BY <2>1 DEF QueueInv
<1> QED BY <1>1, <1>2, <1>3 DEF SignalInv, Has

LEMMA Queue_Enqueue ==
    ASSUME QueueTypeOK, QueueInv, hist \in History, NEW op \in Operation, NEW c \in BOOLEAN,
           c <=> Changes(op), EnqueueOperation(op, c), UNCHANGED known
    PROVE  QueueInv'
<1>1. /\ queue' = Append(queue, op) /\ stateChanging' = c
      /\ timers' = IF queue = <<>> THEN Append(timers, "op") ELSE timers
      /\ hist' = [hist EXCEPT !.asked = TRUE, !.aside = @ \/ ~c]
      /\ UNCHANGED <<sig, waiting>>
  BY DEF EnqueueOperation
<1>2. hist'.aside <=> hist.aside \/ ~c
  BY <1>1 DEF History
<1>3. /\ Len(queue) \in Nat /\ DOMAIN queue = 1..Len(queue) /\ DOMAIN queue' = 1..(Len(queue) + 1)
      /\ Len(queue') = Len(queue) + 1 /\ queue' # <<>>
      /\ \A i \in 1..Len(queue) : queue'[i] = queue[i]
      /\ queue'[Len(queue) + 1] = op
  BY <1>1, AppendFacts, SequenceFacts DEF QueueTypeOK
<1>4. Once(timers') /\ (Has(timers', "op") => waiting' = <<>>)
  <2>1. timers \in Seq(Timers) /\ "op" \in Timers /\ Once(timers)
    BY DEF QueueTypeOK, QueueInv, Once, Timers
  <2>2. CASE queue = <<>>
    <3>1. ~Has(timers, "op") /\ waiting = <<>>
      BY <2>2 DEF QueueInv
    <3> QED BY <1>1, <2>1, <2>2, <3>1, OnceAppend
  <2>3. CASE queue # <<>>
    BY <1>1, <2>1, <2>3 DEF QueueInv
  <2> QED BY <2>2, <2>3
<1>5. ~hist'.aside => \A i \in DOMAIN queue' : Changes(queue'[i])
  BY <1>2, <1>3 DEF QueueInv
<1> QED BY <1>1, <1>3, <1>4, <1>5 DEF QueueInv, Once, Has

LEMMA Signal_Enqueue ==
    ASSUME QueueTypeOK, NEW op \in Operation, NEW c, EnqueueOperation(op, c)
    PROVE  SignalInv'
<1>1. queue' # <<>>
  BY AppendFacts DEF EnqueueOperation, QueueTypeOK
<1> QED BY <1>1 DEF SignalInv

\* The timer that starts an operation is gone once it runs.
LEMMA RunningTimers ==
    ASSUME QueueTypeOK, QueueInv, NEW call, Running(call)
    PROVE  /\ Tail(timers) \in Seq(Timers) /\ Once(Tail(timers)) /\ ~Has(Tail(timers), "op")
           /\ queue # <<>> /\ waiting = <<>>
<1>1. timers \in Seq(Timers) /\ timers # <<>> /\ Head(timers) = "op" /\ queue # <<>> /\ Once(timers)
  BY DEF Running, QueueTypeOK, QueueInv, Once
<1>2. Has(timers, "op")
  BY <1>1, HasTail
<1>3. waiting = <<>>
  BY <1>2 DEF QueueInv
<1> QED BY <1>1, <1>3, OnceTail, TailFacts

LEMMA Queue_WhenPeerHandler ==
    ASSUME QueueTypeOK, QueueInv, NEW call, Running(call), NEW calls, NEW target, NEW lines,
           WhenPeerHandler(calls, target, lines), UNCHANGED <<known, hasTrack, hasDataChannels>>,
           hist'.aside = hist.aside, lines = local'
    PROVE  QueueInv' /\ SignalInv'
<1>1. /\ Tail(timers) \in Seq(Timers) /\ Once(Tail(timers)) /\ ~Has(Tail(timers), "op")
      /\ queue # <<>> /\ waiting = <<>>
  BY RunningTimers
<1>2. CASE known
  <2>1. CompleteQueuedOperation(Tail(timers), target, lines) /\ waiting' = <<>>
    BY <1>1, <1>2 DEF WhenPeerHandler, Applied
  <2> QED BY <1>1, <2>1, Queue_Complete, Signal_Complete
<1>3. CASE ~known
  <2>1. timers' = Tail(timers) /\ UNCHANGED <<sig, queue, stateChanging>>
    BY <1>3 DEF WhenPeerHandler
  <2>2. Once(timers') /\ ~Has(timers', "op")
    BY <1>1, <2>1
  <2>3. QueueInv'
    BY <1>1, <1>3, <2>1, <2>2 DEF QueueInv, Once, Has
  <2>4. SignalInv'
    BY <1>1, <2>1 DEF SignalInv
  <2> QED BY <2>3, <2>4
<1> QED BY <1>2, <1>3

LEMMA Queue_Reject ==
    ASSUME QueueTypeOK, QueueInv, NEW call, Running(call), Reject, UNCHANGED known
    PROVE  QueueInv' /\ SignalInv'
<1>1. /\ Tail(timers) \in Seq(Timers) /\ Once(Tail(timers)) /\ ~Has(Tail(timers), "op")
      /\ queue # <<>> /\ waiting = <<>>
  BY RunningTimers
<1>2. /\ CompleteQueuedOperation(Tail(timers), sig, local) /\ waiting' = <<>> /\ local' = local
      /\ hist' = hist /\ UNCHANGED <<hasTrack, hasDataChannels>>
  BY <1>1 DEF Reject, descVars
<1> QED BY <1>1, <1>2, Queue_Complete, Signal_Complete

LEMMA Queue_Throw ==
    ASSUME QueueTypeOK, QueueInv, NEW call, Running(call), Throw, UNCHANGED known,
           hist'.aside = hist.aside
    PROVE  QueueInv' /\ SignalInv'
<1>1. /\ Once(Tail(timers)) /\ ~Has(Tail(timers), "op") /\ queue # <<>> /\ waiting = <<>>
  BY RunningTimers
<1>2. /\ timers' = Tail(timers) /\ UNCHANGED <<sig, queue, waiting, stateChanging>>
  BY DEF Throw
<1>3. Once(timers') /\ ~Has(timers', "op")
  BY <1>1, <1>2
<1>4. QueueInv'
  BY <1>1, <1>2, <1>3 DEF QueueInv, Once, Has
<1> QED BY <1>1, <1>2, <1>4 DEF SignalInv

LEMMA Queue_Timer ==
    ASSUME TypeOK, QueueInv, SignalInv, Timer PROVE QueueInv' /\ SignalInv'
<1>0. QueueTypeOK /\ DescTypeOK /\ hist \in History
  BY Groups
<1>1. CASE RunCreateOffer
  <2>1. CASE Throw /\ hist' = [hist EXCEPT !.early = TRUE]
    <3>1. hist'.aside = hist.aside
      BY <1>0, <2>1 DEF History
    <3> QED BY <1>0, <1>1, <2>1, <3>1, Queue_Throw DEF RunCreateOffer
  <2>2. CASE /\ CompleteQueuedOperation(Tail(timers), sig, local)
             /\ UNCHANGED <<waiting, hasTrack, hasDataChannels, local, remote, status, toWorker, hist>>
    BY <1>0, <1>1, <2>2, RunningTimers, Queue_Complete, Signal_Complete DEF RunCreateOffer
  <2> QED BY <1>1, <2>1, <2>2 DEF RunCreateOffer
<1>2. CASE RunCreateAnswer
  <2>1. CASE Reject
    BY <1>0, <1>2, <2>1, Queue_Reject DEF RunCreateAnswer
  <2>2. CASE /\ CompleteQueuedOperation(Tail(timers), sig, local)
             /\ UNCHANGED <<waiting, hasTrack, hasDataChannels, local, remote, status, toWorker, hist>>
    BY <1>0, <1>2, <2>2, RunningTimers, Queue_Complete, Signal_Complete DEF RunCreateAnswer
  <2> QED BY <1>2, <2>1, <2>2 DEF RunCreateAnswer
<1>3. CASE RunSetLocalDescription
  <2> DEFINE d == Head(queue).description
             target == Target(sig, "setLocal", d.type)
             calls == CallsForLocal(d.lines, d.type = "offer")
  <2>1. \/ Throw /\ UNCHANGED hist
        \/ Reject
        \/ /\ local' = d.lines
           /\ hist' = [hist EXCEPT !.ended = FALSE,
                                   !.stale = @ \cup {i \in DOMAIN local : local[i].done}]
           /\ WhenPeerHandler(calls, target, d.lines)
           /\ UNCHANGED <<hasTrack, hasDataChannels, remote, status, created>>
    BY <1>3 DEF RunSetLocalDescription
  <2>2. Running("setLocal") /\ UNCHANGED known
    BY <1>3 DEF RunSetLocalDescription
  <2> HIDE DEF d, target, calls
  <2>3. CASE /\ local' = d.lines
             /\ hist' = [hist EXCEPT !.ended = FALSE,
                                     !.stale = @ \cup {i \in DOMAIN local : local[i].done}]
             /\ WhenPeerHandler(calls, target, d.lines)
             /\ UNCHANGED <<hasTrack, hasDataChannels, remote, status, created>>
    <3>1. hist'.aside = hist.aside
      BY <1>0, <2>3 DEF History
    <3> QED BY <1>0, <2>2, <2>3, <3>1, Queue_WhenPeerHandler
  <2> QED BY <1>0, <2>1, <2>2, <2>3, Queue_Throw, Queue_Reject
<1>4. CASE RunSetRemoteDescription
  <2> DEFINE d == Head(queue).description
             target == Target(sig, "setRemote", d.type)
             calls == <<PrepareToSend(WithSource(d.lines), d.type = "answer")>>
  <2>1. \/ Throw /\ UNCHANGED hist
        \/ Reject
        \/ /\ hist' = [hist EXCEPT !.withdrawn = @ \/ \E i \in DOMAIN status :
                                status[i].expected /\ ~status[i].source /\ ~status'[i].expected]
           /\ WhenPeerHandler(calls, target, local)
           /\ UNCHANGED <<hasTrack, hasDataChannels, local, created>>
    BY <1>4 DEF RunSetRemoteDescription
  <2>2. Running("setRemote") /\ UNCHANGED known
    BY <1>4 DEF RunSetRemoteDescription
  <2> HIDE DEF d, target, calls
  <2>3. CASE /\ hist' = [hist EXCEPT !.withdrawn = @ \/ \E i \in DOMAIN status :
                                status[i].expected /\ ~status[i].source /\ ~status'[i].expected]
             /\ WhenPeerHandler(calls, target, local)
             /\ UNCHANGED <<hasTrack, hasDataChannels, local, created>>
    <3>1. hist'.aside = hist.aside
      BY <1>0, <2>3 DEF History
    <3> QED BY <1>0, <2>2, <2>3, <3>1, Queue_WhenPeerHandler
  <2> QED BY <1>0, <2>1, <2>2, <2>3, Queue_Throw, Queue_Reject
<1>5. CASE RunAddIceCandidate
  <2> DEFINE op == Head(queue)
             calls == <<[call |-> "addRemoteCandidate", line |-> op.line, candidate |-> op.candidate]>>
  <2>1. \/ Reject
        \/ /\ WhenPeerHandler(calls, sig, local)
           /\ UNCHANGED <<hasTrack, hasDataChannels, local, status, created, hist>>
    BY <1>5 DEF RunAddIceCandidate
  <2>2. Running("addCandidate") /\ UNCHANGED known
    BY <1>5 DEF RunAddIceCandidate
  <2> HIDE DEF op, calls
  <2> QED BY <1>0, <2>1, <2>2, Queue_Reject, Queue_WhenPeerHandler
<1>6. CASE RunMaybeDispatch
  <2> DEFINE ts == Tail(timers)
             x == MaybeDispatchNegotiationNeeded(ts, queue, sig, local)
  <2>1. /\ timers' = x /\ UNCHANGED <<sig, queue, waiting, stateChanging, hasTrack, hasDataChannels, local,
                                      known, hist>>
        /\ timers # <<>> /\ Head(timers) = "maybe"
    BY <1>6 DEF RunMaybeDispatch, descVars
  <2>2. timers \in Seq(Timers) /\ Once(timers)
    BY <1>0 DEF QueueTypeOK, QueueInv, Once
  <2>3. ts \in Seq(Timers) /\ Once(ts) /\ (Has(ts, "op") <=> Has(timers, "op"))
    BY <2>1, <2>2, TailFacts, OnceTail, HasTail
  <2> HIDE DEF ts
  <2>4. /\ Once(x) /\ (Has(x, "op") <=> Has(ts, "op"))
        /\ queue = <<>> /\ sig = "stable" /\ Lacks(local) => Has(x, "fire")
    BY <2>3, DispatchFacts
  <2> HIDE DEF x
  <2>5. Once(timers') /\ (Has(timers', "op") <=> Has(timers, "op"))
        /\ (queue = <<>> /\ sig = "stable" /\ Lacks(local) => Has(timers', "fire"))
    BY <2>1, <2>3, <2>4
  <2>6. Lacks(local)' <=> Lacks(local)
    BY <2>1 DEF Lacks
  <2>7. QueueInv'
    BY <2>1, <2>5 DEF QueueInv, Once, Has
  <2>8. SignalInv'
    BY <2>1, <2>5, <2>6 DEF SignalInv, Has
  <2> QED BY <2>7, <2>8
<1>7. CASE RunDispatchNegotiationNeeded
  <2> DEFINE ts == Tail(timers)
  <2>1. /\ timers' = ts /\ UNCHANGED <<sig, queue, waiting, stateChanging, hasTrack, hasDataChannels, local,
                                      known>>
        /\ timers # <<>> /\ Head(timers) = "fire"
        /\ hist' = [hist EXCEPT !.signalled = @ \/ sig = "stable"]
    BY <1>7 DEF RunDispatchNegotiationNeeded, descVars
  <2>2. timers \in Seq(Timers) /\ Once(timers)
    BY <1>0 DEF QueueTypeOK, QueueInv, Once
  <2>3. Once(ts) /\ (Has(ts, "op") <=> Has(timers, "op"))
    BY <2>1, <2>2, OnceTail, HasTail
  <2> HIDE DEF ts
  <2>4. Once(timers') /\ (Has(timers', "op") <=> Has(timers, "op"))
    BY <2>1, <2>3
  <2>5. hist'.aside = hist.aside /\ (hist'.signalled <=> hist.signalled \/ sig = "stable")
    BY <1>0, <2>1 DEF History
  <2>6. QueueInv'
    BY <2>1, <2>4, <2>5 DEF QueueInv, Once, Has
  <2>7. SignalInv'
    BY <2>1, <2>5 DEF SignalInv
  <2> QED BY <2>6, <2>7
<1> QED BY <1>1, <1>2, <1>3, <1>4, <1>5, <1>6, <1>7 DEF Timer

\* A call of the script that adds something to negotiate sets the timer that looks at it.
LEMMA Queue_Added ==
    ASSUME QueueTypeOK, QueueInv, hist \in History, timers' = Append(timers, "maybe"),
           UNCHANGED <<sig, queue, waiting, stateChanging, known>>,
           hist'.aside = \E i \in DOMAIN queue : queue[i].call \notin {"setLocal", "setRemote"}
    PROVE  QueueInv' /\ SignalInv'
<1>1. timers \in Seq(Timers) /\ "maybe" \in Timers /\ Once(timers)
  BY DEF QueueTypeOK, QueueInv, Once, Timers
<1>2. /\ Once(timers') /\ (Has(timers', "op") <=> Has(timers, "op")) /\ Has(timers', "maybe")
  BY <1>1, HasAppend, OnceAppend
<1>3. ~hist'.aside => \A i \in DOMAIN queue : Changes(queue[i])
  BY DEF Changes
<1>4. QueueInv'
  BY <1>2, <1>3 DEF QueueInv, Once, Has
<1> QED BY <1>2, <1>4 DEF SignalInv, Has

LEMMA UnnegotiatedFacts ==
    ASSUME hist \in History
    PROVE  LET aside == \E i \in DOMAIN queue : queue[i].call \notin {"setLocal", "setRemote"}
           IN  /\ Unnegotiated.aside = aside /\ ~Unnegotiated.signalled
               /\ \A b \in BOOLEAN : [Unnegotiated EXCEPT !.first = b].aside = aside
  BY DEF Unnegotiated, History

LEMMA Queue_Script ==
    ASSUME TypeOK, QueueInv, SignalInv, Script PROVE QueueInv' /\ SignalInv'
<1>0. QueueTypeOK /\ DescTypeOK /\ hist \in History
  BY Groups
<1>1. ASSUME NEW op \in Operation, NEW c \in BOOLEAN, c <=> Changes(op), EnqueueOperation(op, c),
             PageUnchanged
      PROVE  QueueInv' /\ SignalInv'
  BY <1>0, <1>1, Queue_Enqueue, Signal_Enqueue DEF PageUnchanged
<1>2. CASE CreateOffer
  <2>1. [call |-> "createOffer"] \in Operation /\ ~Changes([call |-> "createOffer"])
    BY DEF Operation, Changes
  <2> QED BY <1>1, <1>2, <2>1 DEF CreateOffer
<1>3. CASE CreateAnswer
  <2>1. [call |-> "createAnswer"] \in Operation /\ ~Changes([call |-> "createAnswer"])
    BY DEF Operation, Changes
  <2> QED BY <1>1, <1>3, <2>1 DEF CreateAnswer
<1>4. CASE SetLocalDescription
  <2> DEFINE op == [call |-> "setLocal", description |-> created]
  <2>1. created \in LocalDescription
    BY <1>0, <1>4 DEF SetLocalDescription, DescTypeOK, NoDescription
  <2>2. op \in Operation /\ Changes(op)
    BY <2>1 DEF Operation, Changes
  <2> QED BY <1>1, <1>4, <2>2 DEF SetLocalDescription
<1>5. CASE SetRemoteOffer
  <2>1. PICK op \in Operation : op.call = "setRemote" /\ EnqueueOperation(op, TRUE)
    BY <1>0, <1>5, RemoteOfferOperation
  <2> QED BY <1>1, <1>5, <2>1 DEF SetRemoteOffer, Changes
<1>6. CASE SetRemoteAnswer
  <2>1. PICK op \in Operation : op.call = "setRemote" /\ EnqueueOperation(op, TRUE)
    BY <1>0, <1>6, RemoteAnswerOperation
  <2> QED BY <1>1, <1>6, <2>1 DEF SetRemoteAnswer, Changes
<1>7. CASE AddIceCandidate
  <2>1. PICK c \in Candidates :
          EnqueueOperation([call |-> "addCandidate", line |-> c[1], candidate |-> c[2]], FALSE)
    BY <1>7 DEF AddIceCandidate
  <2> DEFINE op == [call |-> "addCandidate", line |-> c[1], candidate |-> c[2]]
  <2>2. c[1] \in Nat /\ c[2] \in Component
    BY PeerConnectionAssumption
  <2>3. op \in Operation /\ ~Changes(op)
    BY <2>2 DEF Operation, Changes
  <2> QED BY <1>1, <1>7, <2>1, <2>3 DEF AddIceCandidate
<1>8. CASE AddStream
  BY <1>0, <1>8, Queue_Added, UnnegotiatedFacts DEF AddStream
<1>9. CASE CreateDataChannel
  <2>1. CASE hasDataChannels
    <3>1. UNCHANGED <<queueVars, known, hasTrack, hasDataChannels, local, hist>>
      BY <1>0, <1>9, <2>1 DEF CreateDataChannel, queueVars, DescTypeOK
    <3> QED BY <3>1, QueueSame, SignalSame
  <2>2. CASE ~hasDataChannels
    BY <1>0, <1>9, <2>2, Queue_Added, UnnegotiatedFacts DEF CreateDataChannel
  <2> QED BY <2>1, <2>2
<1>10. CASE Close
  <2>1. hist'.aside = hist.aside
    BY <1>0, <1>10 DEF Close, History
  <2>2. QueueInv'
    BY <1>10, <2>1 DEF Close, QueueInv, Has
  <2> QED BY <1>10, <2>2 DEF Close, SignalInv
<1> QED BY <1>2, <1>3, <1>4, <1>5, <1>6, <1>7, <1>8, <1>9, <1>10 DEF Script

LEMMA Queue_PageMessage ==
    ASSUME TypeOK, QueueInv, SignalInv, PageMessage PROVE QueueInv' /\ SignalInv'
<1>0. QueueTypeOK /\ DescTypeOK /\ hist \in History
  BY Groups
<1>1. CASE GotPeerHandler
  <2>0. known' = TRUE /\ waiting' = <<>> /\ UNCHANGED <<hasTrack, hasDataChannels, local, hist>>
    BY <1>1 DEF GotPeerHandler, descVars
  <2>1. CASE waiting = <<>>
    <3>1. UNCHANGED <<sig, queue, waiting, stateChanging, timers>>
      BY <1>1, <2>0, <2>1 DEF GotPeerHandler
    <3>2. QueueInv'
      BY <2>0, <3>1 DEF QueueInv, Has
    <3> QED BY <2>0, <3>1, <3>2, SignalSame DEF queueVars
  <2>2. CASE waiting # <<>>
    <3> DEFINE t == waiting[1].target
               c == waiting[1].calls
    <3>1. Applied(c, t, timers, local)
      BY <1>1, <2>2 DEF GotPeerHandler
    <3> HIDE DEF t, c
    <3>2. CompleteQueuedOperation(timers, t, local)
      BY <3>1 DEF Applied
    <3>3. timers \in Seq(Timers) /\ Once(timers) /\ ~Has(timers, "op") /\ queue # <<>>
      BY <1>0, <2>2 DEF QueueTypeOK, QueueInv, Once
    <3> QED BY <1>0, <2>0, <3>2, <3>3, Queue_Complete, Signal_Complete
  <2> QED BY <2>1, <2>2
<1>2. CASE ~GotPeerHandler
  <2>1. UNCHANGED <<queueVars, known, hasTrack, hasDataChannels>>
    BY <1>2 DEF PageMessage, GotIceCandidate, CandidateGatheringDone, GotRemoteSource,
                DataChannelsEnabled, DataChannelRequested, GotChannel, descVars
  <2>2. hist'.aside = hist.aside /\ hist'.signalled = hist.signalled
    BY <1>0, <1>2 DEF PageMessage, GotIceCandidate, CandidateGatheringDone, GotRemoteSource,
                DataChannelsEnabled, DataChannelRequested, GotChannel, History
  <2>3. Lacks(local)' <=> Lacks(local)
    <3>1. CASE CandidateGatheringDone
      <4> DEFINE x == Head(toPage).line
      <4>1. local' = [local EXCEPT ![x].done = TRUE]
        BY <3>1 DEF CandidateGatheringDone
      <4> HIDE DEF x
      <4>2. /\ local \in [1..Len(local) -> LineOfThisEnd] /\ DOMAIN local = 1..Len(local)
        BY <1>0, SequenceFacts DEF DescTypeOK
      <4>3. DOMAIN local' = DOMAIN local
            /\ \A i \in DOMAIN local : local'[i].kind = local[i].kind /\ local'[i].track = local[i].track
        BY <4>1, <4>2 DEF LineOfThisEnd
      <4> QED BY <2>1, <4>3 DEF Lacks, HasKind, Described
    <3>2. CASE ~CandidateGatheringDone
      <4>1. local' = local
        BY <1>2, <3>2 DEF PageMessage, GotIceCandidate, GotRemoteSource,
                DataChannelsEnabled, DataChannelRequested, GotChannel, descVars
      <4> QED BY <2>1, <4>1 DEF Lacks
    <3> QED BY <3>1, <3>2
  <2>4. QueueInv'
    BY <2>1, <2>2, QueueSame
  <2> QED BY <2>1, <2>2, <2>3, <2>4 DEF SignalInv, queueVars, Has
<1> QED BY <1>1, <1>2

LEMMA WorkerUnchanged ==
    ASSUME Worker \/ Native
    PROVE  WorkerOnly
<1>1. Worker => WorkerOnly
  BY DEF Worker, CreatePeerHandler, ReceivePrepareToReceive, ReceivePrepareToSend,
         ReceiveAddRemoteCandidate, ReceiveCreateDataChannel
<1>2. Native => WorkerOnly
  BY DEF Native, KeysGenerated, Gather, IncomingSource, IncomingChannel
<1> QED BY <1>1, <1>2

LEMMA Queue_Worker ==
    ASSUME QueueInv, SignalInv, Worker \/ Native PROVE QueueInv' /\ SignalInv'
<1>1. UNCHANGED <<queueVars, known, hasTrack, hasDataChannels, local, hist>>
  BY WorkerUnchanged DEF WorkerOnly, descVars
<1> QED BY <1>1, QueueSame, SignalSame

-------------------------------------------------------------------------------
(* Remote sources *)

\* A description keeps what is known of each line.
LEMMA ExpectingFacts ==
    ASSUME DescTypeOK, NEW lines \in Seq(OfferLine)
    PROVE  /\ DOMAIN status \subseteq DOMAIN Expecting(lines)
           /\ \A i \in DOMAIN status : /\ Expecting(lines)[i].source = status[i].source
                                       /\ Expecting(lines)[i].updated = status[i].updated
           /\ \A i \in DOMAIN Expecting(lines) : i \notin DOMAIN status =>
                 ~Expecting(lines)[i].source /\ ~Expecting(lines)[i].updated
<1>1. \A i \in DOMAIN status : status[i] \in Status
  BY SequenceFacts DEF DescTypeOK
<1>2. DOMAIN Expecting(lines) = DOMAIN lines \cup DOMAIN status
  BY ExpectingType
<1>3. ASSUME NEW x \in Status, NEW b
      PROVE  [x EXCEPT !.expected = b].source = x.source /\ [x EXCEPT !.expected = b].updated = x.updated
  BY DEF Status
<1>4. NoStatus \in Status /\ ~NoStatus.source /\ ~NoStatus.updated
  BY DEF NoStatus, Status
<1>5. ASSUME NEW i \in DOMAIN Expecting(lines)
      PROVE  LET x == IF i \in DOMAIN status THEN status[i] ELSE NoStatus
             IN  Expecting(lines)[i].source = x.source /\ Expecting(lines)[i].updated = x.updated
  <2> DEFINE x == IF i \in DOMAIN status THEN status[i] ELSE NoStatus
  <2>1. x \in Status
    BY <1>1, <1>4
  <2>2. Expecting(lines)[i] = IF i \notin DOMAIN lines THEN x ELSE [x EXCEPT !.expected = lines[i].sends]
    BY <1>2, <1>5 DEF Expecting
  <2> HIDE DEF x
  <2>3. CASE i \notin DOMAIN lines
    BY <2>2, <2>3 DEF x
  <2>4. CASE i \in DOMAIN lines
    <3>1. Expecting(lines)[i] = [x EXCEPT !.expected = lines[i].sends]
      BY <2>2, <2>4
    <3>2. Expecting(lines)[i].source = x.source /\ Expecting(lines)[i].updated = x.updated
      BY <1>3, <2>1, <3>1
    <3> QED BY <3>2 DEF x
  <2> QED BY <2>3, <2>4
<1>6. ASSUME NEW i \in DOMAIN status
      PROVE  /\ Expecting(lines)[i].source = status[i].source
             /\ Expecting(lines)[i].updated = status[i].updated
  <2>1. i \in DOMAIN Expecting(lines)
    BY <1>2
  <2> QED BY <1>5, <2>1
<1>7. ASSUME NEW i \in DOMAIN Expecting(lines), i \notin DOMAIN status
      PROVE  ~Expecting(lines)[i].source /\ ~Expecting(lines)[i].updated
  BY <1>4, <1>5, <1>7
<1> QED BY <1>2, <1>6, <1>7

LEMMA Announce_Set ==
    ASSUME TypeOK, AnnounceInv, RunSetRemoteDescription PROVE AnnounceInv'
<1>0. QueueTypeOK /\ DescTypeOK /\ hist \in History
  BY Groups
<1>1. Running("setRemote")
  BY DEF RunSetRemoteDescription
<1> DEFINE d == Head(queue).description
           e == Expecting(d.lines)
<1>2. d.lines \in Seq(OfferLine)
  <2>1. Head(queue) \in Operation /\ Head(queue).call = "setRemote"
    BY <1>0, <1>1, RunningFacts
  <2>2. d \in RemoteDescription
    BY <2>1, OperationFields
  <2> QED BY <2>2 DEF RemoteDescription
<1>3. \/ UNCHANGED <<status, hist>>
      \/ /\ status' = e
         /\ hist' = [hist EXCEPT !.withdrawn = @ \/ \E i \in DOMAIN status :
                         status[i].expected /\ ~status[i].source /\ ~status'[i].expected]
  BY DEF RunSetRemoteDescription, Throw, Reject, descVars
<1> HIDE DEF d
<1>4. /\ DOMAIN status \subseteq DOMAIN e
      /\ \A i \in DOMAIN status : e[i].source = status[i].source /\ e[i].updated = status[i].updated
      /\ \A i \in DOMAIN e : i \notin DOMAIN status => ~e[i].source /\ ~e[i].updated
  BY <1>0, <1>2, ExpectingFacts
<1> HIDE DEF e
<1>5. CASE UNCHANGED <<status, hist>>
  BY <1>5 DEF AnnounceInv
<1>6. CASE /\ status' = e
           /\ hist' = [hist EXCEPT !.withdrawn = @ \/ \E i \in DOMAIN status :
                         status[i].expected /\ ~status[i].source /\ ~status'[i].expected]
  <2>1. hist'.announced = hist.announced
        /\ (~hist'.withdrawn => ~hist.withdrawn /\ \A i \in DOMAIN status :
                status[i].expected /\ ~status[i].source => status'[i].expected)
    BY <1>0, <1>6 DEF History
  <2>2. ASSUME ~hist'.withdrawn, NEW i \in DOMAIN status', status'[i].updated
        PROVE  \E j \in DOMAIN status' : status'[j].expected /\ ~status'[j].source
    <3>1. i \in DOMAIN status /\ status[i].updated
      BY <1>4, <1>6, <2>2
    <3>2. PICK j \in DOMAIN status : status[j].expected /\ ~status[j].source
      BY <2>1, <2>2, <3>1 DEF AnnounceInv
    <3>3. j \in DOMAIN status' /\ status'[j].expected /\ ~status'[j].source
      BY <1>4, <1>6, <2>1, <2>2, <3>2
    <3> QED BY <3>3
  <2>3. \A i \in DOMAIN status' : /\ status'[i].source => i \in hist'.announced \/ status'[i].updated
                                  /\ status'[i].updated => status'[i].source
    BY <1>4, <1>6, <2>1 DEF AnnounceInv
  <2>4. hist'.announced \subseteq {i \in DOMAIN status' : status'[i].source}
    BY <1>4, <1>6, <2>1 DEF AnnounceInv
  <2> QED BY <2>2, <2>3, <2>4 DEF AnnounceInv
<1> QED BY <1>3, <1>5, <1>6

LEMMA Announce_Source ==
    ASSUME TypeOK, AnnounceInv, GotRemoteSource PROVE AnnounceInv'
<1>0. DescTypeOK /\ hist \in History
  BY Groups
<1> DEFINE x == Head(toPage).line
           got == [status EXCEPT ![x] = [@ EXCEPT !.source = TRUE, !.updated = TRUE]]
           updated == {i \in DOMAIN got : got[i].updated}
<1>1. \/ /\ \E i \in DOMAIN got : got[i].expected /\ ~got[i].source
         /\ status' = got /\ UNCHANGED hist
      \/ /\ ~\E i \in DOMAIN got : got[i].expected /\ ~got[i].source
         /\ status' = [i \in DOMAIN got |-> [got[i] EXCEPT !.updated = FALSE]]
         /\ hist' = [hist EXCEPT !.announced = @ \cup updated]
  BY DEF GotRemoteSource
<1> HIDE DEF x
<1>2. /\ DOMAIN got = DOMAIN status
      /\ \A i \in DOMAIN got : got[i] \in Status
      /\ \A i \in DOMAIN got : i # x => got[i] = status[i]
      /\ x \in DOMAIN got => got[x].source /\ got[x].updated
  <2>1. status \in [1..Len(status) -> Status] /\ DOMAIN status = 1..Len(status)
    BY <1>0, SequenceFacts DEF DescTypeOK
  <2> QED BY <2>1 DEF Status
<1> HIDE DEF got
<1>3. \A i \in DOMAIN got : /\ got[i].source => i \in hist.announced \/ got[i].updated
                            /\ got[i].updated => got[i].source
  BY <1>2 DEF AnnounceInv
<1>4. hist.announced \subseteq {i \in DOMAIN got : got[i].source}
  BY <1>2 DEF AnnounceInv
<1>5. CASE /\ \E i \in DOMAIN got : got[i].expected /\ ~got[i].source
           /\ status' = got /\ UNCHANGED hist
  BY <1>3, <1>4, <1>5 DEF AnnounceInv
<1>6. CASE /\ status' = [i \in DOMAIN got |-> [got[i] EXCEPT !.updated = FALSE]]
           /\ hist' = [hist EXCEPT !.announced = @ \cup updated]
  <2>1. hist'.announced = hist.announced \cup updated
    BY <1>0, <1>6 DEF History
  <2>2. /\ DOMAIN status' = DOMAIN got
        /\ \A i \in DOMAIN got : ~status'[i].updated /\ status'[i].source = got[i].source
    BY <1>2, <1>6 DEF Status
  <2>3. \A i \in DOMAIN status' : status'[i].source => i \in hist'.announced
    BY <1>3, <2>1, <2>2
  <2>4. hist'.announced \subseteq {i \in DOMAIN status' : status'[i].source}
    BY <1>3, <1>4, <2>1, <2>2
  <2> QED BY <2>2, <2>3, <2>4 DEF AnnounceInv
<1> QED BY <1>1, <1>5, <1>6

LEMMA Announce_Other ==
    ASSUME TypeOK, AnnounceInv, Next, ~RunSetRemoteDescription, ~GotRemoteSource PROVE AnnounceInv'
<1>0. hist \in History
  BY Groups
<1>1. status' = status
  BY WorkerUnchanged DEF Next, Script, CreateOffer, CreateAnswer, SetLocalDescription, SetRemoteOffer, SetRemoteAnswer,
         AddIceCandidate, AddStream, CreateDataChannel, Close, PageUnchanged, Timer, RunCreateOffer, RunCreateAnswer,
         RunSetLocalDescription, RunAddIceCandidate, RunMaybeDispatch,
         RunDispatchNegotiationNeeded, Throw, Reject, descVars, PageMessage, GotPeerHandler,
         GotIceCandidate, CandidateGatheringDone, DataChannelsEnabled,
         DataChannelRequested, GotChannel, WorkerOnly
<1>2. hist'.withdrawn = hist.withdrawn /\ hist'.announced = hist.announced
  <2>1. Script => hist'.withdrawn = hist.withdrawn /\ hist'.announced = hist.announced
    BY <1>0 DEF Script, CreateOffer, CreateAnswer, SetLocalDescription, SetRemoteOffer, SetRemoteAnswer,
         AddIceCandidate, AddStream, CreateDataChannel, Close, EnqueueOperation, Unnegotiated, History
  <2>2. Timer => hist'.withdrawn = hist.withdrawn /\ hist'.announced = hist.announced
    BY <1>0 DEF Timer, RunCreateOffer, RunCreateAnswer, RunSetLocalDescription, RunAddIceCandidate,
         RunMaybeDispatch, RunDispatchNegotiationNeeded, Throw, Reject, History
  <2>3. PageMessage => hist'.withdrawn = hist.withdrawn /\ hist'.announced = hist.announced
    BY <1>0 DEF PageMessage, GotPeerHandler, GotIceCandidate, CandidateGatheringDone, DataChannelsEnabled,
         DataChannelRequested, GotChannel, History
  <2>4. Worker \/ Native => hist' = hist
    BY WorkerUnchanged DEF WorkerOnly
  <2> QED BY <2>1, <2>2, <2>3, <2>4 DEF Next
<1> QED BY <1>1, <1>2 DEF AnnounceInv

-------------------------------------------------------------------------------
(* Plans: the lines agreed and the descriptions on their way *)

LEMMA OpsTail ==
    ASSUME NEW q \in Seq(Operation), q # <<>>
    PROVE  /\ ToSet(Tail(q)) \subseteq ToSet(q) /\ Head(q) \in ToSet(q) /\ ToSet(q) \subseteq Operation
           /\ Free(q) => Free(Tail(q))
           /\ Ordered(q) => /\ Ordered(Tail(q))
                            /\ Makes(Head(q)) => Free(Tail(q))
                            /\ Head(q).call = "setLocal" =>
                                  \A op \in ToSet(Tail(q)) : op.call # "setLocal"
<1>1. /\ Len(q) \in Nat /\ DOMAIN q = 1..Len(q) /\ Head(q) = q[1] /\ Len(q) > 0
      /\ DOMAIN Tail(q) = 1..(Len(q) - 1)
      /\ \A i \in 1..(Len(q) - 1) : Tail(q)[i] = q[i + 1]
      /\ \A i \in DOMAIN q : q[i] \in Operation
  BY TailFacts, SequenceFacts
<1>2. \A i \in DOMAIN Tail(q) : i + 1 \in DOMAIN q /\ 1 < i + 1 /\ 1 \in DOMAIN q
  BY <1>1
<1>3. ASSUME Ordered(q) PROVE Ordered(Tail(q))
  <2> SUFFICES ASSUME NEW i \in DOMAIN Tail(q), NEW j \in DOMAIN Tail(q), i < j
               PROVE  /\ Makes(Tail(q)[i]) => ~Changes(Tail(q)[j])
                      /\ Tail(q)[i].call = "setLocal" => Tail(q)[j].call # "setLocal"
    BY DEF Ordered
  <2>1. i + 1 < j + 1 /\ i + 1 \in DOMAIN q /\ j + 1 \in DOMAIN q
    BY <1>1
  <2> QED BY <1>1, <1>3, <2>1 DEF Ordered
<1>4. ASSUME Ordered(q), Makes(Head(q)) PROVE Free(Tail(q))
  BY <1>1, <1>2, <1>4 DEF Ordered, Free
<1>5. ASSUME Ordered(q), Head(q).call = "setLocal", NEW op \in ToSet(Tail(q)) PROVE op.call # "setLocal"
  <2>1. PICK i \in DOMAIN Tail(q) : op = Tail(q)[i]
    BY DEF ToSet
  <2> QED BY <1>1, <1>2, <1>5, <2>1 DEF Ordered
<1>6. ToSet(Tail(q)) \subseteq ToSet(q) /\ Head(q) \in ToSet(q) /\ ToSet(q) \subseteq Operation
  BY <1>1, <1>2 DEF ToSet
<1>7. Free(q) => Free(Tail(q))
  BY <1>1, <1>2 DEF Free
<1> QED BY <1>3, <1>4, <1>5, <1>6, <1>7

LEMMA OpsAppend ==
    ASSUME NEW q \in Seq(Operation), NEW op \in Operation
    PROVE  /\ ToSet(Append(q, op)) = ToSet(q) \cup {op}
           /\ Free(q) /\ ~Changes(op) => Free(Append(q, op))
           /\ /\ Ordered(q)
              /\ Changes(op) => \A x \in ToSet(q) : ~Makes(x)
              /\ op.call = "setLocal" => \A x \in ToSet(q) : x.call # "setLocal"
              => Ordered(Append(q, op))
<1>1. /\ Len(q) \in Nat /\ DOMAIN q = 1..Len(q) /\ DOMAIN Append(q, op) = 1..(Len(q) + 1)
      /\ \A i \in 1..Len(q) : Append(q, op)[i] = q[i]
      /\ Append(q, op)[Len(q) + 1] = op
  BY AppendFacts, SequenceFacts
<1>2. ToSet(Append(q, op)) = ToSet(q) \cup {op}
  BY <1>1 DEF ToSet
<1>3. Free(q) /\ ~Changes(op) => Free(Append(q, op))
  BY <1>1 DEF Free
<1>4. ASSUME Ordered(q), Changes(op) => \A x \in ToSet(q) : ~Makes(x),
             op.call = "setLocal" => \A x \in ToSet(q) : x.call # "setLocal"
      PROVE  Ordered(Append(q, op))
  <2> SUFFICES ASSUME NEW i \in DOMAIN Append(q, op), NEW j \in DOMAIN Append(q, op), i < j
               PROVE  /\ Makes(Append(q, op)[i]) => ~Changes(Append(q, op)[j])
                      /\ Append(q, op)[i].call = "setLocal" => Append(q, op)[j].call # "setLocal"
    BY DEF Ordered
  <2>1. i \in 1..Len(q) /\ Append(q, op)[i] = q[i] /\ q[i] \in ToSet(q)
    BY <1>1 DEF ToSet
  <2>2. CASE j \in 1..Len(q)
    BY <1>1, <1>4, <2>1, <2>2 DEF Ordered
  <2>3. CASE j = Len(q) + 1
    BY <1>1, <1>4, <2>1, <2>3
  <2> QED BY <1>1, <2>2, <2>3
<1> QED BY <1>2, <1>3, <1>4

\* The lines agreed are those of a description, and both descriptions fit them.
LEMMA AgreedFacts ==
    ASSUME DescTypeOK
    PROVE  /\ Len(Agreed) \in Nat /\ DOMAIN Agreed = 1..Len(Agreed)
           /\ Len(local) \in Nat /\ DOMAIN local = 1..Len(local)
           /\ Len(remote) \in Nat /\ DOMAIN remote = 1..Len(remote)
           /\ Len(local) <= Len(Agreed) /\ Len(remote) <= Len(Agreed)
           /\ Agreed = local \/ Agreed = remote
<1>1. /\ Len(local) \in Nat /\ DOMAIN local = 1..Len(local)
      /\ Len(remote) \in Nat /\ DOMAIN remote = 1..Len(remote)
  BY SequenceFacts DEF DescTypeOK
<1> QED BY <1>1 DEF Agreed

LEMMA AgreedLocal ==
    ASSUME DescTypeOK, Len(remote) <= Len(local)
    PROVE  Len(Agreed) = Len(local) /\ DOMAIN Agreed = DOMAIN local
<1>1. /\ Len(Agreed) \in Nat /\ DOMAIN Agreed = 1..Len(Agreed) /\ Len(local) <= Len(Agreed)
      /\ Len(local) \in Nat /\ DOMAIN local = 1..Len(local) /\ Len(remote) \in Nat
  BY AgreedFacts
<1>2. Agreed = local \/ Agreed = remote
  BY AgreedFacts
<1>3. CASE Agreed = local
  BY <1>3
<1>4. CASE Agreed = remote
  <2>1. Len(Agreed) = Len(remote)
    BY <1>4
  <2>2. Len(Agreed) = Len(local)
    <3>1. Len(remote) <= Len(local) /\ Len(local) <= Len(Agreed) /\ Len(local) \in Nat /\ Len(remote) \in Nat
      BY <1>1
    <3> QED BY <2>1, <3>1
  <2> QED BY <1>1, <2>2
<1> QED BY <1>2, <1>3, <1>4

\* The lines agreed only grow; what fitted them still does.
Grows ==
    /\ Len(Agreed) <= Len(Agreed')
    /\ \A i \in DOMAIN Agreed : Agreed'[i].kind = Agreed[i].kind

LEMMA FitsGrows ==
    ASSUME DescTypeOK, DescTypeOK', Grows, NEW S, NEW l \in Seq(S), Fits(l)
    PROVE  Fits(l)'
<1>1. Len(l) \in Nat /\ DOMAIN l = 1..Len(l) /\ Len(Agreed) \in Nat /\ DOMAIN Agreed = 1..Len(Agreed)
      /\ Len(Agreed') \in Nat
  BY AgreedFacts, SequenceFacts DEF DescTypeOK, Agreed
<1>2. Len(l) <= Len(Agreed) /\ \A i \in DOMAIN l : l[i].kind = Agreed[i].kind
  BY DEF Fits
<1>3. \A i \in DOMAIN l : i \in DOMAIN Agreed
  BY <1>1, <1>2
<1> QED BY <1>1, <1>2, <1>3 DEF Fits, Grows

\* Steps that leave the lines, and the state to come, as they are.
SameLines(a, b) == Len(a) = Len(b) /\ \A i \in DOMAIN b : a[i].kind = b[i].kind
LinesKept ==
    /\ SameLines(local', local) /\ SameLines(remote', remote)
    /\ NextSig' \in {NextSig, "closed"}

LEMMA KeptGrows ==
    ASSUME DescTypeOK, DescTypeOK', LinesKept
    PROVE  /\ Grows /\ Len(Agreed') = Len(Agreed)
           /\ \A i : Agreed'[i].kind = Agreed[i].kind \/ i \notin DOMAIN Agreed
<1>1. /\ Len(local') = Len(local) /\ Len(remote') = Len(remote)
      /\ \A i \in DOMAIN local : local'[i].kind = local[i].kind
      /\ \A i \in DOMAIN remote : remote'[i].kind = remote[i].kind
      /\ Len(local) \in Nat /\ Len(remote) \in Nat
  BY AgreedFacts DEF LinesKept, SameLines
<1>2. CASE Len(local) > Len(remote)
  <2>1. Agreed = local /\ Agreed' = local'
    BY <1>1, <1>2 DEF Agreed
  <2> QED BY <1>1, <2>1 DEF Grows
<1>3. CASE ~(Len(local) > Len(remote))
  <2>1. Agreed = remote /\ Agreed' = remote'
    BY <1>1, <1>3 DEF Agreed
  <2> QED BY <1>1, <2>1 DEF Grows
<1> QED BY <1>2, <1>3

LEMMA CreatedLines ==
    ASSUME DescTypeOK
    PROVE  created.lines \in Seq(LineOfThisEnd) /\ (created # NoDescription => created \in LocalDescription)
<1>1. CASE created = NoDescription
  <2>1. created.lines = <<>> /\ <<>> \in Seq(LineOfThisEnd)
    BY <1>1, EmptySeq DEF NoDescription
  <2> QED BY <1>1, <2>1
<1>2. CASE created # NoDescription
  <2>1. created \in LocalDescription
    BY <1>2 DEF DescTypeOK
  <2> QED BY <2>1 DEF LocalDescription
<1> QED BY <1>1, <1>2

LEMMA KeptPlans ==
    ASSUME DescTypeOK, DescTypeOK', LinesKept
    PROVE  /\ \A d \in LocalDescription : LocalPlan(d) => LocalPlan(d)'
           /\ \A d \in RemoteDescription : RemotePlan(d) => RemotePlan(d)'
           /\ created' = created /\ CreatedPlan => CreatedPlan'
<1>1. /\ Grows /\ Len(Agreed') = Len(Agreed)
      /\ \A i \in DOMAIN Agreed : Agreed'[i].kind = Agreed[i].kind
  BY KeptGrows
<1>2. /\ Len(Agreed) \in Nat /\ DOMAIN Agreed = 1..Len(Agreed)
      /\ (DOMAIN Agreed = 1..Len(Agreed))'
      /\ Len(local') = Len(local) /\ Len(remote') = Len(remote) /\ DOMAIN local' = DOMAIN local
      /\ NextSig' \in {NextSig, "closed"}
      /\ \A i \in DOMAIN local : local'[i].kind = local[i].kind
  BY AgreedFacts, SequenceFacts DEF LinesKept, SameLines, DescTypeOK, Agreed
<1>3. DOMAIN Agreed' = DOMAIN Agreed
  BY <1>1, <1>2
<1>4. ASSUME NEW l, Extends(l) PROVE Extends(l)'
  BY <1>1, <1>2, <1>3, <1>4 DEF Extends
<1>5. ASSUME NEW S, NEW l \in Seq(S), Fits(l) PROVE Fits(l)'
  BY <1>1, <1>5, FitsGrows
<1>6. ASSUME NEW l, Undone(l) PROVE Undone(l)'
  BY <1>6 DEF Undone
<1>7. ASSUME NEW d \in LocalDescription, LocalPlan(d) PROVE LocalPlan(d)'
  BY <1>2, <1>4, <1>6, <1>7 DEF LocalPlan
<1>8. ASSUME NEW d \in RemoteDescription, RemotePlan(d) PROVE RemotePlan(d)'
  <2>1. d.lines \in Seq(OfferLine)
    BY DEF RemoteDescription
  <2> QED BY <1>2, <1>4, <1>5, <1>8, <2>1 DEF RemotePlan
<1>9. ASSUME created' = created, CreatedPlan PROVE CreatedPlan'
  <2>1. created.lines \in Seq(LineOfThisEnd)
    BY CreatedLines
  <2>2. Undone(created.lines)'
    BY <1>9 DEF CreatedPlan, Undone
  <2>3. created.type = "answer" => Fits(created.lines)'
    BY <1>5, <1>9, <2>1 DEF CreatedPlan
  <2>4. created.type = "answer" => (Fits(created.lines))'
    BY <1>9, <2>3 DEF Fits
  <2> QED BY <1>2, <1>9, <2>2, <2>4 DEF CreatedPlan
<1> QED BY <1>7, <1>8, <1>9

\* Every step that leaves the lines and takes operations out of the queue only.
LEMMA Plan_Kept ==
    ASSUME QueueTypeOK, DescTypeOK, DescTypeOK', PlanInv, LinesKept,
           queue' \in {queue, Tail(queue)}, queue' # queue => queue # <<>>,
           created' = created \/ (Free(queue') /\ CreatedPlan')
    PROVE  PlanInv'
<1>1. queue \in Seq(Operation)
  BY DEF QueueTypeOK
<1>2. ToSet(queue') \subseteq ToSet(queue) /\ Ordered(queue') /\ (Free(queue) => Free(queue'))
  BY <1>1, OpsTail DEF PlanInv
<1>3. \A op \in ToSet(queue) : op \in Operation
  BY <1>1, SequenceFacts DEF ToSet
<1>4. \A op \in ToSet(queue') : op.call = "setLocal" => LocalPlan(op.description)'
  <2> SUFFICES ASSUME NEW op \in ToSet(queue'), op.call = "setLocal" PROVE LocalPlan(op.description)'
    OBVIOUS
  <2> DEFINE d == op.description
  <2>1. d \in LocalDescription /\ LocalPlan(d)
    BY <1>2, <1>3, OperationFields DEF PlanInv
  <2> HIDE DEF d
  <2>2. LocalPlan(d)'
    BY <2>1, KeptPlans
  <2> QED BY <2>2 DEF d
<1>5. \A op \in ToSet(queue') : op.call = "setRemote" => RemotePlan(op.description)'
  <2> SUFFICES ASSUME NEW op \in ToSet(queue'), op.call = "setRemote" PROVE RemotePlan(op.description)'
    OBVIOUS
  <2> DEFINE d == op.description
  <2>1. d \in RemoteDescription /\ RemotePlan(d)
    BY <1>2, <1>3, OperationFields DEF PlanInv
  <2> HIDE DEF d
  <2>2. RemotePlan(d)'
    BY <2>1, KeptPlans
  <2> QED BY <2>2 DEF d
<1>6. CreatedPlan'
  BY KeptPlans DEF PlanInv
<1>7. created' # NoDescription => Free(queue')
  BY <1>2 DEF PlanInv
<1> QED BY <1>2, <1>4, <1>5, <1>6, <1>7 DEF PlanInv, ToSet, Free, Ordered

LEMMA Lines_Kept ==
    ASSUME DescTypeOK, DescTypeOK', LinesInv, LinesKept,
           ~known' /\ waiting' = <<>> => ~known /\ waiting = <<>>
    PROVE  LinesInv'
<1>1. /\ Len(Agreed') = Len(Agreed) /\ \A i \in DOMAIN Agreed : Agreed'[i].kind = Agreed[i].kind
  BY KeptGrows
<1>2. /\ Len(Agreed) \in Nat /\ DOMAIN Agreed = 1..Len(Agreed)
      /\ Len(local) \in Nat /\ DOMAIN local = 1..Len(local)
      /\ Len(remote) \in Nat /\ DOMAIN remote = 1..Len(remote)
      /\ Len(local) <= Len(Agreed) /\ Len(remote) <= Len(Agreed)
  BY AgreedFacts
<1>3. /\ Len(local') = Len(local) /\ Len(remote') = Len(remote) /\ NextSig' \in {NextSig, "closed"}
      /\ DOMAIN local' = DOMAIN local /\ DOMAIN remote' = DOMAIN remote
      /\ \A i \in DOMAIN local : local'[i].kind = local[i].kind
      /\ \A i \in DOMAIN remote : remote'[i].kind = remote[i].kind
  BY <1>2, SequenceFacts DEF LinesKept, SameLines, DescTypeOK
<1>4. Fits(local)' /\ Fits(remote)'
  <2>1. \A i \in DOMAIN local : i \in DOMAIN Agreed /\ local[i].kind = Agreed[i].kind
    BY <1>2 DEF LinesInv, Fits
  <2>2. \A i \in DOMAIN remote : i \in DOMAIN Agreed /\ remote[i].kind = Agreed[i].kind
    BY <1>2 DEF LinesInv, Fits
  <2> QED BY <1>1, <1>2, <1>3, <2>1, <2>2 DEF Fits
<1>5. remote = <<>> /\ local = <<>> => remote' = <<>> /\ local' = <<>>
  BY <1>2, <1>3, EmptySeq DEF DescTypeOK
<1> QED BY <1>3, <1>4, <1>5 DEF LinesInv

LEMMA NextSigType ==
    ASSUME QueueTypeOK PROVE NextSig \in SignalingState
  BY WaitingType DEF NextSig, QueueTypeOK

LEMMA KindsPrefix ==
    ASSUME NEW S, NEW T, NEW x \in Seq(S), NEW y \in Seq(T), IsPrefix(Kinds(x), Kinds(y))
    PROVE  Len(x) <= Len(y) /\ \A i \in DOMAIN x : y[i].kind = x[i].kind
<1> DEFINE K == {x[i].kind : i \in DOMAIN x} \cup {y[i].kind : i \in DOMAIN y}
<1>1. /\ Len(x) \in Nat /\ DOMAIN x = 1..Len(x) /\ Len(y) \in Nat /\ DOMAIN y = 1..Len(y)
  BY SequenceFacts
<1>2. Kinds(x) \in [1..Len(x) -> K] /\ Kinds(y) \in [1..Len(y) -> K]
  BY <1>1 DEF Kinds
<1>3. (\A i \in DOMAIN x : Kinds(x)[i] = x[i].kind) /\ (\A i \in DOMAIN y : Kinds(y)[i] = y[i].kind)
  BY DEF Kinds
<1> HIDE DEF K
<1>4. Kinds(x) \in Seq(K) /\ Len(Kinds(x)) = Len(x) /\ Kinds(y) \in Seq(K) /\ Len(Kinds(y)) = Len(y)
  BY <1>1, <1>2, FunctionSequence
<1>5. Len(x) <= Len(y) /\ SubSeq(Kinds(x), 1, Len(x)) = SubSeq(Kinds(y), 1, Len(x))
  BY <1>4 DEF IsPrefix
<1>6. \A i \in 1..Len(x) : Kinds(x)[i] = Kinds(y)[i]
  <2> DEFINE a == Kinds(x)
             b == Kinds(y)
             n == Len(x)
  <2> HIDE DEF a, b
  <2>1. a \in Seq(K) /\ b \in Seq(K) /\ n \in Nat /\ n <= Len(a) /\ n <= Len(b) /\ SubSeq(a, 1, n) = SubSeq(b, 1, n)
    BY <1>1, <1>4, <1>5 DEF a, b
  <2> HIDE DEF n
  <2>2. \A i \in 1..n : SubSeq(a, 1, n)[i] = a[i] /\ SubSeq(b, 1, n)[i] = b[i]
    BY <2>1
  <2>3. \A i \in 1..n : a[i] = b[i]
    BY <2>1, <2>2
  <2> QED BY <2>3 DEF a, b, n
<1> QED BY <1>1, <1>3, <1>5, <1>6

LEMMA NothingCreated ==
    ASSUME created' = NoDescription PROVE CreatedPlan'
<1>1. created'.type = "none" /\ DOMAIN created'.lines = {}
  BY DEF NoDescription
<1> QED BY <1>1 DEF CreatedPlan, Undone

\* An operation that is asked for.
LEMMA Plan_Append ==
    ASSUME QueueTypeOK, DescTypeOK, DescTypeOK', PlanInv, LinesKept,
           NEW op \in Operation, queue' = Append(queue, op), created' \in {created, NoDescription},
           created' # NoDescription => ~Changes(op),
           Changes(op) => \A x \in ToSet(queue) : ~Makes(x),
           op.call = "setLocal" => /\ \A x \in ToSet(queue) : x.call # "setLocal"
                                   /\ LocalPlan(op.description),
           op.call = "setRemote" => RemotePlan(op.description)
    PROVE  PlanInv'
<1>1. queue \in Seq(Operation) /\ ToSet(queue) \subseteq Operation
  BY SequenceFacts DEF QueueTypeOK, ToSet
<1>2. ToSet(queue') = ToSet(queue) \cup {op} /\ Ordered(queue')
  BY <1>1, OpsAppend DEF PlanInv
<1>3. created' # NoDescription => Free(queue')
  BY <1>1, OpsAppend DEF PlanInv
<1>4. \A x \in ToSet(queue') : x.call = "setLocal" => LocalPlan(x.description)'
  <2> SUFFICES ASSUME NEW x \in ToSet(queue'), x.call = "setLocal" PROVE LocalPlan(x.description)'
    OBVIOUS
  <2> DEFINE d == x.description
  <2>1. d \in LocalDescription /\ LocalPlan(d)
    BY <1>1, <1>2, OperationFields DEF PlanInv
  <2> HIDE DEF d
  <2>2. LocalPlan(d)'
    BY <2>1, KeptPlans
  <2> QED BY <2>2 DEF d
<1>5. \A x \in ToSet(queue') : x.call = "setRemote" => RemotePlan(x.description)'
  <2> SUFFICES ASSUME NEW x \in ToSet(queue'), x.call = "setRemote" PROVE RemotePlan(x.description)'
    OBVIOUS
  <2> DEFINE d == x.description
  <2>1. d \in RemoteDescription /\ RemotePlan(d)
    BY <1>1, <1>2, OperationFields DEF PlanInv
  <2> HIDE DEF d
  <2>2. RemotePlan(d)'
    BY <2>1, KeptPlans
  <2> QED BY <2>2 DEF d
<1>6. CreatedPlan'
  BY KeptPlans, NothingCreated DEF PlanInv
<1> QED BY <1>2, <1>3, <1>4, <1>5, <1>6 DEF PlanInv, ToSet, Free, Ordered

LEMMA LinesUnchanged ==
    ASSUME UNCHANGED <<local, remote>>, NextSig' \in {NextSig, "closed"}
    PROVE  LinesKept
  BY DEF LinesKept, SameLines

LEMMA MakingFacts ==
    ~Making <=> \A x \in ToSet(queue) : ~Makes(x)
  BY DEF Making, ToSet, Makes

\* The description the script has goes on from the lines agreed when it is set.
LEMMA CreatedFits ==
    ASSUME QueueTypeOK, DescTypeOK, PlanInv, LinesInv, created.lines # <<>>,
           Len(created.lines) >= Len(local), created.type = "answer" => Len(created.lines) = Len(remote)
    PROVE  LocalPlan(created) /\ created # NoDescription
<1>1. created # NoDescription
  BY DEF NoDescription
<1>2. created \in LocalDescription /\ created.lines \in Seq(LineOfThisEnd)
      /\ created.type \in {"offer", "answer"}
  BY <1>1, CreatedLines DEF LocalDescription
<1>3. Len(created.lines) \in Nat /\ DOMAIN created.lines = 1..Len(created.lines)
  BY <1>2, SequenceFacts
<1>4. CreatedPlan
  BY DEF PlanInv
<1>5. CASE created.type = "answer"
  <2>1. Extends(created.lines)
    BY <1>3, <1>4, <1>5, AgreedFacts DEF CreatedPlan, Fits, Extends
  <2> QED BY <1>1, <1>3, <1>4, <2>1 DEF LocalPlan, CreatedPlan
<1>6. CASE created.type = "offer"
  <2>1. CASE NextSig \in {"stable", "have-local-offer"}
    <3>0. Len(remote) <= Len(local)
      BY <2>1 DEF LinesInv
    <3>1. Len(Agreed) = Len(local) /\ DOMAIN Agreed = DOMAIN local
      BY <3>0, AgreedLocal
    <3>3. \A i \in DOMAIN Agreed : i \in DOMAIN local /\ local[i].kind = Agreed[i].kind
      BY <3>1 DEF LinesInv, Fits
    <3>2. Extends(created.lines)
      BY <1>3, <1>4, <1>6, <3>1, <3>3 DEF CreatedPlan, Extends
    <3> QED BY <1>1, <1>3, <1>4, <1>6, <3>2, AgreedFacts DEF LocalPlan, CreatedPlan
  <2>2. CASE NextSig \in {"have-remote-offer", "closed"}
    BY <1>1, <1>3, <1>4, <1>6, <2>2, AgreedFacts DEF LocalPlan, CreatedPlan
  <2> QED BY <2>1, <2>2, NextSigType DEF SignalingState
<1> QED BY <1>2, <1>5, <1>6

LEMMA Plan_Script ==
    ASSUME TypeOK, TypeOK', PlanInv, LinesInv, Script PROVE PlanInv' /\ LinesInv'
<1>0. /\ QueueTypeOK /\ DescTypeOK /\ DescTypeOK' /\ hist \in History
  BY Groups, GroupsNext
<1>1. ASSUME UNCHANGED <<queue, created, local, remote, waiting, known>>, sig' \in {sig, "closed"}
      PROVE  PlanInv' /\ LinesInv'
  <2>1. LinesKept
    BY <1>1, LinesUnchanged DEF NextSig
  <2>2. PlanInv'
    <3>1. /\ queue' \in {queue, Tail(queue)} /\ (queue' # queue => queue # <<>>)
          /\ created' = created
      BY <1>1
    <3> QED BY <1>0, <2>1, <3>1, Plan_Kept
  <2>3. LinesInv'
    BY <1>0, <1>1, <2>1, Lines_Kept
  <2> QED BY <2>2, <2>3
<1>2. ASSUME NEW op \in Operation, NEW c \in BOOLEAN, EnqueueOperation(op, c), PageUnchanged,
             created' \in {created, NoDescription}, created' # NoDescription => ~Changes(op),
             Changes(op) => ~Making,
             op.call = "setLocal" => /\ \A x \in ToSet(queue) : x.call # "setLocal"
                                     /\ LocalPlan(op.description),
             op.call = "setRemote" => RemotePlan(op.description)
      PROVE  PlanInv' /\ LinesInv'
  <2>1. queue' = Append(queue, op) /\ UNCHANGED <<sig, waiting, local, remote, known>>
    BY <1>2 DEF EnqueueOperation, PageUnchanged
  <2>3. LinesKept
    BY <2>1, LinesUnchanged DEF NextSig
  <2>4. PlanInv'
    BY <1>0, <1>2, <2>1, <2>3, MakingFacts, Plan_Append
  <2> QED BY <1>0, <2>1, <2>3, <2>4, Lines_Kept
<1>3. ASSUME CreateOffer \/ CreateAnswer PROVE PlanInv' /\ LinesInv'
  <2>1. PICK call \in {"createOffer", "createAnswer"} :
           EnqueueOperation([call |-> call], FALSE) /\ PageUnchanged /\ UNCHANGED created
    BY <1>3 DEF CreateOffer, CreateAnswer
  <2> DEFINE op == [call |-> call]
  <2>2. op \in Operation /\ ~Changes(op) /\ op.call \notin {"setLocal", "setRemote"}
    BY DEF Operation, Changes
  <2> QED BY <1>2, <2>1, <2>2
<1>4. CASE SetLocalDescription
  <2> DEFINE op == [call |-> "setLocal", description |-> created]
  <2>1. LocalPlan(created) /\ created # NoDescription
    BY <1>0, <1>4, CreatedFits DEF SetLocalDescription
  <2>2. op \in Operation
    BY <1>0, <2>1 DEF Operation, DescTypeOK
  <2>3. op.call = "setLocal" /\ op.description = created
    OBVIOUS
  <2>4. \A x \in ToSet(queue) : x.call # "setLocal"
    BY <2>1 DEF PlanInv, Free, ToSet, Changes
  <2>5. EnqueueOperation(op, TRUE) /\ PageUnchanged /\ created' = NoDescription /\ ~Making
    BY <1>4 DEF SetLocalDescription
  <2> HIDE DEF op
  <2> QED BY <1>2, <2>1, <2>2, <2>3, <2>4, <2>5
<1>5. CASE SetRemoteOffer
  <2>1. PICK op \in Operation :
              /\ op.call = "setRemote" /\ op.description.type = "offer" /\ op.description.lines # <<>>
              /\ IsPrefix(Kinds(IF Len(local) > Len(remote) THEN local ELSE remote),
                          Kinds(op.description.lines))
              /\ EnqueueOperation(op, TRUE)
    BY <1>5, RemoteOfferOperation
  <2> DEFINE l == op.description.lines
  <2>2. l \in Seq(OfferLine)
    BY <2>1, OperationFields DEF RemoteDescription
  <2>3. IsPrefix(Kinds(Agreed), Kinds(l))
    BY <2>1 DEF Agreed
  <2> HIDE DEF l
  <2>4. (Agreed \in Seq(LineOfThisEnd) \/ Agreed \in Seq(RemoteLine))
    BY <1>0 DEF Agreed, DescTypeOK
  <2>5. Extends(l)
    BY <2>2, <2>3, <2>4, KindsPrefix DEF Extends
  <2>6. RemotePlan(op.description)
    BY <2>1, <2>5 DEF RemotePlan, l
  <2>7. PageUnchanged /\ created' = NoDescription /\ ~Making
    BY <1>5 DEF SetRemoteOffer
  <2> QED BY <1>2, <2>1, <2>6, <2>7
<1>6. CASE SetRemoteAnswer
  <2>1. PICK op \in Operation :
              /\ op.call = "setRemote" /\ op.description.type = "answer"
              /\ Len(op.description.lines) = Len(local)
              /\ \A i \in DOMAIN local : op.description.lines[i].kind = local[i].kind
              /\ EnqueueOperation(op, TRUE)
    BY <1>0, <1>6, RemoteAnswerOperation
  <2> DEFINE l == op.description.lines
  <2>2. l \in Seq(OfferLine)
    BY <2>1, OperationFields DEF RemoteDescription
  <2>3. Len(l) = Len(local) /\ \A i \in DOMAIN local : l[i].kind = local[i].kind
    BY <2>1
  <2> HIDE DEF l
  <2>4. DOMAIN l = DOMAIN local /\ Len(local) <= Len(Agreed) /\ Len(local) <= Len(local)
    BY <1>0, <2>2, <2>3, AgreedFacts, SequenceFacts
  <2>5. Fits(l)
    BY <2>3, <2>4 DEF LinesInv, Fits
  <2>6. RemotePlan(op.description)
    BY <2>1, <2>4, <2>5 DEF RemotePlan, l
  <2>7. PageUnchanged /\ created' = NoDescription /\ ~Making
    BY <1>6 DEF SetRemoteAnswer
  <2> QED BY <1>2, <2>1, <2>6, <2>7
<1>7. CASE AddIceCandidate
  <2>1. PICK c \in Candidates :
          EnqueueOperation([call |-> "addCandidate", line |-> c[1], candidate |-> c[2]], FALSE)
    BY <1>7 DEF AddIceCandidate
  <2> DEFINE op == [call |-> "addCandidate", line |-> c[1], candidate |-> c[2]]
  <2>2. c[1] \in Nat /\ c[2] \in Component
    BY PeerConnectionAssumption
  <2>3. op \in Operation /\ ~Changes(op) /\ op.call \notin {"setLocal", "setRemote"}
    BY <2>2 DEF Operation, Changes
  <2> QED BY <1>2, <1>7, <2>1, <2>3 DEF AddIceCandidate
<1>8. CASE AddStream
  BY <1>1, <1>8 DEF AddStream
<1>9. CASE CreateDataChannel
  BY <1>1, <1>9 DEF CreateDataChannel
<1>10. CASE Close
  BY <1>1, <1>10 DEF Close, descVars
<1> QED BY <1>3, <1>4, <1>5, <1>6, <1>7, <1>8, <1>9, <1>10 DEF Script

\* What the end of an operation with a callback does, whether it can be called at once or not.
LEMMA HandlerFacts ==
    ASSUME QueueTypeOK, QueueInv, toWorker \in Seq(PeerCall), NEW call, Running(call),
           NEW calls \in Seq(PeerCall), NEW target, NEW lines,
           WhenPeerHandler(calls, target, lines), UNCHANGED known
    PROVE  /\ queue # <<>> /\ queue' \in {queue, Tail(queue)}
           /\ NextSig = sig /\ NextSig' = target /\ (~known' => waiting' # <<>>)
           /\ Calls = toWorker /\ Calls' = toWorker \o calls
           /\ waiting' # <<>> => waiting'[1].calls = calls
<1>1. waiting = <<>> /\ queue # <<>> /\ <<>> \in Seq(PeerCall)
  BY RunningTimers, EmptySeq
<1>2. \A s \in Seq(PeerCall) : s \o <<>> = s
  OBVIOUS
<1>3. Calls = toWorker /\ NextSig = sig
  BY <1>1, <1>2 DEF Calls, Waiting, NextSig
<1>4. CASE known
  <2>1. CompleteQueuedOperation(Tail(timers), target, lines) /\ toWorker' = toWorker \o calls
        /\ waiting' = <<>>
    BY <1>1, <1>4 DEF WhenPeerHandler, Applied
  <2>2. queue' = Tail(queue) /\ sig' = target
    BY <2>1 DEF CompleteQueuedOperation
  <2>3. toWorker \o calls \in Seq(PeerCall)
    BY ConcatFacts
  <2>4. Calls' = toWorker \o calls
    BY <1>2, <2>1, <2>3 DEF Calls, Waiting
  <2> QED BY <1>1, <1>3, <1>4, <2>1, <2>2, <2>4 DEF NextSig
<1>5. CASE ~known
  <2> DEFINE w == [calls |-> calls, target |-> target]
  <2>1. waiting' = <<w>> /\ UNCHANGED <<queue, toWorker>>
    BY <1>5 DEF WhenPeerHandler
  <2>2. <<w>> # <<>> /\ <<w>>[1].calls = calls /\ <<w>>[1].target = target
    OBVIOUS
  <2> HIDE DEF w
  <2>3. waiting' # <<>> /\ waiting'[1].calls = calls /\ waiting'[1].target = target
    BY <2>1, <2>2
  <2> QED BY <1>1, <1>3, <2>1, <2>3 DEF NextSig, Calls, Waiting
<1> QED BY <1>4, <1>5

LEMMA RejectFacts ==
    ASSUME QueueTypeOK, QueueInv, NEW call, Running(call), Reject, UNCHANGED known
    PROVE  /\ queue # <<>> /\ queue' = Tail(queue)
           /\ NextSig' = NextSig /\ UNCHANGED <<sig, waiting, toWorker, descVars, hist>>
<1>1. waiting = <<>> /\ queue # <<>>
  BY RunningTimers
<1>2. queue' = Tail(queue) /\ sig' = sig /\ UNCHANGED <<waiting, toWorker, descVars, hist>>
  BY DEF Reject, CompleteQueuedOperation
<1> QED BY <1>1, <1>2 DEF NextSig

\* The operation at the head of the queue when its timer fires.
LEMMA HeadFacts ==
    ASSUME QueueTypeOK, PlanInv, NEW call, Running(call)
    PROVE  /\ queue \in Seq(Operation) /\ queue # <<>>
           /\ Head(queue) \in Operation /\ Head(queue).call = call
           /\ call = "setLocal" => /\ Head(queue).description \in LocalDescription
                                   /\ LocalPlan(Head(queue).description)
           /\ call = "setRemote" => /\ Head(queue).description \in RemoteDescription
                                    /\ RemotePlan(Head(queue).description)
           /\ call \in {"setLocal", "setRemote"} => created = NoDescription
<1>1. /\ queue \in Seq(Operation) /\ queue # <<>> /\ Head(queue) \in Operation
      /\ Head(queue).call = call /\ Head(queue) \in ToSet(queue)
  BY RunningFacts, OpsTail DEF QueueTypeOK
<1>2. call \in {"setLocal", "setRemote"} => ~Free(queue)
  BY <1>1 DEF Free, Changes, ToSet
<1> QED BY <1>1, <1>2, OperationFields DEF PlanInv

LEMMA Plan_SetLocal ==
    ASSUME QueueTypeOK, DescTypeOK, DescTypeOK', PlanInv, LinesInv, hist \in History, Running("setLocal"),
           NEW d, d = Head(queue).description,
           sig # "closed", NextSig = sig, NextSig' = Target(sig, "setLocal", d.type), NextSig' # "none",
           local' = d.lines, UNCHANGED <<remote, created>>, queue' \in {queue, Tail(queue)},
           ~known' => waiting' # <<>>
    PROVE  PlanInv' /\ LinesInv' /\ Grows /\ Len(local) <= Len(local') /\ Len(Agreed) <= Len(local')
<1>1. /\ queue \in Seq(Operation) /\ queue # <<>> /\ Head(queue).call = "setLocal"
      /\ d \in LocalDescription /\ LocalPlan(d) /\ created = NoDescription
  BY HeadFacts
<1>2. d.type \in {"offer", "answer"} /\ d.lines \in Seq(LineOfThisEnd)
  BY <1>1 DEF LocalDescription
<1>3. sig \in {"stable", "have-local-offer", "have-remote-offer"}
  BY DEF QueueTypeOK, SignalingState
<1>4. \/ sig \in {"stable", "have-local-offer"} /\ d.type = "offer" /\ NextSig' = "have-local-offer"
      \/ sig = "have-remote-offer" /\ d.type = "answer" /\ NextSig' = "stable"
  BY <1>2, <1>3 DEF Target
<1>5. /\ Len(local) <= Len(d.lines) /\ d.lines # <<>> /\ Extends(d.lines)
      /\ d.type = "answer" => Len(d.lines) = Len(remote)
      /\ Undone(d.lines)
  BY <1>1, <1>4 DEF LocalPlan
<1>6. /\ Len(Agreed) \in Nat /\ DOMAIN Agreed = 1..Len(Agreed)
      /\ Len(local) \in Nat /\ Len(remote) \in Nat /\ Len(local) <= Len(Agreed) /\ Len(remote) <= Len(Agreed)
      /\ Len(d.lines) \in Nat /\ DOMAIN d.lines = 1..Len(d.lines) /\ DOMAIN remote = 1..Len(remote)
  BY <1>2, AgreedFacts, SequenceFacts
<1>7. Len(Agreed) <= Len(d.lines) /\ \A i \in DOMAIN Agreed : d.lines[i].kind = Agreed[i].kind
  BY <1>5 DEF Extends
<1>8. \A i \in DOMAIN remote : remote[i].kind = Agreed[i].kind
  BY DEF LinesInv, Fits
<1>9. Grows /\ Fits(local)' /\ Extends(d.lines)' /\ Len(Agreed') = Len(d.lines)
  <2>1. CASE Len(d.lines) > Len(remote)
    <3>1. Agreed' = d.lines /\ local' = d.lines
      BY <2>1 DEF Agreed
    <3> QED BY <1>6, <1>7, <3>1 DEF Grows, Fits, Extends
  <2>2. CASE ~(Len(d.lines) > Len(remote))
    <3>1. Agreed' = remote /\ local' = d.lines
      BY <2>2 DEF Agreed
    <3>2. Len(Agreed) = Len(d.lines) /\ Len(remote) = Len(d.lines)
      BY <1>6, <1>7, <2>2
    <3>3. \A i \in 1..Len(d.lines) : remote[i].kind = Agreed[i].kind /\ d.lines[i].kind = Agreed[i].kind
      BY <1>6, <1>7, <1>8, <3>2
    <3> QED BY <1>6, <3>1, <3>2, <3>3 DEF Grows, Fits, Extends
  <2> QED BY <2>1, <2>2
<1>10. Fits(remote)'
  <2>1. remote \in Seq(RemoteLine) /\ Fits(remote)
    BY DEF DescTypeOK, LinesInv
  <2>2. \A l \in Seq(RemoteLine) : Fits(l) => Fits(l)'
    BY <1>9, FitsGrows
  <2> QED BY <2>1, <2>2 DEF Fits
<1>11. LinesInv'
  BY <1>4, <1>6, <1>7, <1>9, <1>10 DEF LinesInv
<1>12. /\ ToSet(queue') \subseteq ToSet(queue) /\ Ordered(queue')
       /\ \A op \in ToSet(queue') : op.call = "setLocal" => op = Head(queue)
  <2>1. ToSet(Tail(queue)) \subseteq ToSet(queue) /\ Ordered(Tail(queue)) /\ Ordered(queue)
    BY <1>1, OpsTail DEF PlanInv
  <2>2. \A op \in ToSet(Tail(queue)) : op.call # "setLocal"
    BY <1>1, <2>1, OpsTail
  <2>3. ToSet(queue) = {Head(queue)} \cup ToSet(Tail(queue))
    BY <1>1, ToSetFacts
  <2>4. queue' = queue \/ queue' = Tail(queue)
    OBVIOUS
  <2>5. CASE queue' = queue
    BY <2>1, <2>2, <2>3, <2>5
  <2>6. CASE queue' = Tail(queue)
    BY <2>1, <2>2, <2>6
  <2> QED BY <2>4, <2>5, <2>6
<1>13. LocalPlan(d)'
  <2>1. Undone(d.lines)'
    BY <1>5 DEF Undone
  <2>2. Len(local') <= Len(d.lines) /\ (d.type = "answer" => Len(d.lines) = Len(remote'))
    BY <1>5, <1>6
  <2> QED BY <1>5, <1>9, <2>1, <2>2 DEF LocalPlan
<1>14. \A op \in ToSet(queue') : op.call = "setLocal" => LocalPlan(op.description)'
  <2> SUFFICES ASSUME NEW op \in ToSet(queue'), op.call = "setLocal" PROVE LocalPlan(op.description)'
    OBVIOUS
  <2>1. op.description = d
    BY <1>12
  <2> QED BY <1>13, <2>1 DEF LocalPlan, Extends, Undone
<1>15. \A op \in ToSet(queue') : op.call = "setRemote" => RemotePlan(op.description)'
  <2> SUFFICES ASSUME NEW op \in ToSet(queue'), op.call = "setRemote" PROVE RemotePlan(op.description)'
    OBVIOUS
  <2> DEFINE x == op.description
  <2>1. x \in RemoteDescription /\ RemotePlan(x)
    BY <1>1, <1>12, OpsTail, OperationFields DEF PlanInv
  <2> HIDE DEF x
  <2>2. x.lines \in Seq(OfferLine)
    BY <2>1 DEF RemoteDescription
  <2>3. CASE x.type = "offer"
    <3>1. CASE NextSig' = "have-local-offer"
      BY <2>3, <3>1 DEF RemotePlan, x
    <3>2. CASE sig = "have-remote-offer" /\ d.type = "answer"
      <4>1. Extends(x.lines)
        BY <2>1, <2>3, <3>2 DEF RemotePlan
      <4>2. Len(Agreed') = Len(Agreed)
        BY <1>5, <1>6, <1>7, <1>9, <3>2
      <4>3. DOMAIN Agreed' = DOMAIN Agreed
        <5>1. (DOMAIN Agreed = 1..Len(Agreed))'
          BY SequenceFacts DEF Agreed, DescTypeOK
        <5> QED BY <1>6, <4>2, <5>1
      <4>4. Extends(x.lines)'
        BY <1>9, <4>1, <4>2, <4>3 DEF Extends, Grows
      <4> QED BY <2>3, <4>4 DEF RemotePlan, x
    <3> QED BY <1>4, <3>1, <3>2
  <2>4. CASE x.type # "offer"
    <3>1. Fits(x.lines) /\ Len(x.lines) <= Len(local) /\ Len(x.lines) \in Nat
      BY <2>1, <2>2, <2>4, SequenceFacts DEF RemotePlan
    <3>2. Fits(x.lines)'
      BY <1>9, <2>2, <3>1, FitsGrows
    <3>3. Len(x.lines) <= Len(local')
      BY <1>5, <1>6, <3>1
    <3> QED BY <2>4, <3>2, <3>3 DEF RemotePlan, x
  <2> QED BY <2>3, <2>4
<1>16. CreatedPlan' /\ created' = NoDescription
  BY <1>1, NothingCreated
<1>17. PlanInv'
  BY <1>12, <1>14, <1>15, <1>16 DEF PlanInv, ToSet, Ordered, Free
<1> QED BY <1>5, <1>7, <1>9, <1>11, <1>17

LEMMA Plan_SetRemote ==
    ASSUME QueueTypeOK, DescTypeOK, DescTypeOK', PlanInv, LinesInv, hist \in History, Running("setRemote"),
           NEW d, d = Head(queue).description,
           sig # "closed", NextSig = sig, NextSig' = Target(sig, "setRemote", d.type), NextSig' # "none",
           SameLines(remote', d.lines), UNCHANGED <<local, created>>, queue' \in {queue, Tail(queue)},
           ~known' => waiting' # <<>>
    PROVE  PlanInv' /\ LinesInv' /\ Grows
<1>1. /\ queue \in Seq(Operation) /\ queue # <<>> /\ Head(queue).call = "setRemote"
      /\ d \in RemoteDescription /\ RemotePlan(d) /\ created = NoDescription
  BY HeadFacts
<1>2. d.type \in {"offer", "answer"} /\ d.lines \in Seq(OfferLine)
  BY <1>1 DEF RemoteDescription
<1>3. sig \in {"stable", "have-local-offer", "have-remote-offer"}
  BY DEF QueueTypeOK, SignalingState
<1>4. \/ sig \in {"stable", "have-remote-offer"} /\ d.type = "offer" /\ NextSig' = "have-remote-offer"
      \/ sig = "have-local-offer" /\ d.type = "answer" /\ NextSig' = "stable"
  BY <1>2, <1>3 DEF Target
<1>5. /\ Len(Agreed) \in Nat /\ DOMAIN Agreed = 1..Len(Agreed)
      /\ Len(local) \in Nat /\ Len(remote) \in Nat /\ Len(local) <= Len(Agreed) /\ Len(remote) <= Len(Agreed)
      /\ Len(d.lines) \in Nat /\ DOMAIN d.lines = 1..Len(d.lines) /\ DOMAIN local = 1..Len(local)
  BY <1>2, AgreedFacts, SequenceFacts
<1>6. /\ Len(remote') = Len(d.lines) /\ \A i \in DOMAIN d.lines : remote'[i].kind = d.lines[i].kind
      /\ DOMAIN remote' = DOMAIN d.lines
  BY <1>5, SequenceFacts DEF SameLines, DescTypeOK
<1>7. \A i \in DOMAIN local : local[i].kind = Agreed[i].kind
  BY DEF LinesInv, Fits
<1>8. ASSUME d.type = "offer" PROVE RemotePlan(d)' /\ LinesInv' /\ Grows
  <2>1. Extends(d.lines) /\ NextSig' = "have-remote-offer"
    BY <1>1, <1>4, <1>8 DEF RemotePlan
  <2>2. Len(Agreed) <= Len(d.lines) /\ \A i \in DOMAIN Agreed : d.lines[i].kind = Agreed[i].kind
    BY <2>1 DEF Extends
  <2>3. Len(local) <= Len(remote') /\ Len(remote') \in Nat
    BY <1>5, <1>6, <2>2
  <2>4. Agreed' = remote'
    BY <1>5, <2>3 DEF Agreed
  <2>5. Grows /\ Fits(remote)' /\ Extends(d.lines)'
    BY <1>5, <1>6, <2>2, <2>4 DEF Grows, Fits, Extends
  <2>6. Fits(local)'
    BY <1>5, <1>6, <1>7, <2>2, <2>3, <2>4 DEF Fits
  <2> QED BY <1>8, <2>1, <2>3, <2>5, <2>6 DEF LinesInv, RemotePlan
<1>9. ASSUME d.type = "answer" PROVE RemotePlan(d)' /\ LinesInv' /\ Grows
  <2>1. Fits(d.lines) /\ Len(d.lines) <= Len(local) /\ NextSig' = "stable" /\ Len(remote) <= Len(local)
    BY <1>1, <1>4, <1>9 DEF RemotePlan, LinesInv
  <2>2. Len(Agreed) = Len(local) /\ DOMAIN Agreed = DOMAIN local
    BY <2>1, AgreedLocal
  <2>3. \A i \in DOMAIN d.lines : d.lines[i].kind = Agreed[i].kind
    BY <2>1 DEF Fits
  <2>4. Grows /\ Len(Agreed') = Len(local) /\ \A i \in DOMAIN local : Agreed'[i].kind = local[i].kind
    <3>1. CASE Len(local) > Len(remote')
      <4>1. Agreed' = local
        BY <3>1 DEF Agreed
      <4> QED BY <1>5, <1>7, <2>2, <4>1 DEF Grows
    <3>2. CASE ~(Len(local) > Len(remote'))
      <4>1. Agreed' = remote'
        BY <3>2 DEF Agreed
      <4>2. Len(remote') = Len(local)
        BY <1>5, <1>6, <2>1, <3>2
      <4>3. \A i \in DOMAIN local : remote'[i].kind = Agreed[i].kind
        BY <1>5, <1>6, <2>3, <4>2
      <4> QED BY <1>5, <1>7, <2>2, <4>1, <4>2, <4>3 DEF Grows
    <3> QED BY <3>1, <3>2
  <2>5. Fits(d.lines)' /\ Fits(local)' /\ Fits(remote)'
    <3>1. Fits(local)'
      BY <1>5, <2>4 DEF Fits
    <3>2. Fits(d.lines)'
      BY <1>2, <2>1, <2>4, FitsGrows
    <3>3. Fits(remote)'
      BY <1>6, <3>2 DEF Fits
    <3> QED BY <3>1, <3>2, <3>3
  <2>6. RemotePlan(d)'
    BY <1>9, <2>1, <2>5 DEF RemotePlan
  <2>7. LinesInv'
    BY <1>6, <2>1, <2>5 DEF LinesInv
  <2> QED BY <2>4, <2>6, <2>7
<1>10. RemotePlan(d)' /\ LinesInv' /\ Grows
  BY <1>2, <1>8, <1>9
<1>11. /\ Ordered(queue')
       /\ \A op \in ToSet(queue') : op = Head(queue) \/ ~Changes(op)
  <2>1. ToSet(Tail(queue)) \subseteq ToSet(queue) /\ Ordered(Tail(queue)) /\ Ordered(queue) /\ Makes(Head(queue))
    BY <1>1, OpsTail DEF PlanInv, Makes
  <2>2. Free(Tail(queue))
    BY <1>1, <2>1, OpsTail
  <2>3. \A op \in ToSet(Tail(queue)) : ~Changes(op)
    BY <2>2 DEF Free, ToSet
  <2>4. ToSet(queue) = {Head(queue)} \cup ToSet(Tail(queue))
    BY <1>1, ToSetFacts
  <2>5. CASE queue' = queue
    BY <2>1, <2>3, <2>4, <2>5
  <2>6. CASE queue' = Tail(queue)
    BY <2>1, <2>3, <2>6
  <2> QED BY <2>5, <2>6
<1>12. \A op \in ToSet(queue') : op.call = "setRemote" => RemotePlan(op.description)'
  <2> SUFFICES ASSUME NEW op \in ToSet(queue'), op.call = "setRemote" PROVE RemotePlan(op.description)'
    OBVIOUS
  <2>1. op.description = d
    BY <1>11 DEF Changes
  <2> QED BY <1>10, <2>1 DEF RemotePlan, Extends, Fits
<1>13. \A op \in ToSet(queue') : op.call # "setLocal"
  BY <1>1, <1>11 DEF Changes
<1>14. CreatedPlan' /\ created' = NoDescription
  BY <1>1, NothingCreated
<1>15. PlanInv'
  BY <1>11, <1>12, <1>13, <1>14 DEF PlanInv, ToSet, Ordered, Free
<1> QED BY <1>10, <1>15

LEMMA AddCandidateType ==
    ASSUME remote \in Seq(RemoteLine), NEW i, NEW c \in Component
    PROVE  LET r == [remote EXCEPT ![i].candidates = @ \cup {c}]
           IN  /\ r \in Seq(RemoteLine) /\ SameLines(r, remote) /\ DOMAIN r = DOMAIN remote
               /\ \A k \in DOMAIN remote : r[k].source = remote[k].source
<1> DEFINE r == [remote EXCEPT ![i].candidates = @ \cup {c}]
<1>1. remote \in [1..Len(remote) -> RemoteLine] /\ Len(remote) \in Nat /\ DOMAIN remote = 1..Len(remote)
  BY SequenceFacts
<1>2. /\ r \in [1..Len(remote) -> RemoteLine]
      /\ \A k \in DOMAIN remote : r[k].kind = remote[k].kind /\ r[k].source = remote[k].source
  BY <1>1 DEF RemoteLine
<1> HIDE DEF r
<1>3. r \in Seq(RemoteLine) /\ Len(r) = Len(remote)
  BY <1>1, <1>2, FunctionSequence
<1>4. DOMAIN r = DOMAIN remote
  BY <1>1, <1>2
<1>5. SameLines(r, remote)
  BY <1>2, <1>3 DEF SameLines
<1> QED BY <1>2, <1>3, <1>4, <1>5 DEF r

LEMMA Plan_Timer ==
    ASSUME TypeOK, TypeOK', QueueInv, PlanInv, LinesInv, Timer PROVE PlanInv' /\ LinesInv'
<1>0. /\ QueueTypeOK /\ DescTypeOK /\ DescTypeOK' /\ hist \in History /\ toWorker \in Seq(PeerCall)
  BY Groups, GroupsNext DEF MessageTypeOK
<1>1. ASSUME NEW call, Running(call), Reject, UNCHANGED known PROVE PlanInv' /\ LinesInv'
  <2>1. /\ queue # <<>> /\ queue' = Tail(queue)
        /\ NextSig' = NextSig /\ UNCHANGED <<waiting, local, remote, created, hist>>
    BY <1>0, <1>1, RejectFacts DEF descVars
  <2>2. LinesKept
    BY <2>1, LinesUnchanged
  <2>3. PlanInv'
    BY <1>0, <2>1, <2>2, Plan_Kept
  <2> QED BY <1>0, <1>1, <2>1, <2>2, <2>3, Lines_Kept
<1>2. ASSUME Throw, UNCHANGED known PROVE PlanInv' /\ LinesInv'
  <2>1. UNCHANGED <<queue, sig, waiting, local, remote, created>>
    BY <1>2 DEF Throw, descVars
  <2>2. LinesKept
    BY <1>2, <2>1, LinesUnchanged DEF NextSig
  <2>3. queue' \in {queue, Tail(queue)} /\ (queue' # queue => queue # <<>>) /\ created' = created
    BY <2>1
  <2>4. PlanInv'
    BY <1>0, <2>2, <2>3, Plan_Kept
  <2> QED BY <1>0, <1>2, <2>1, <2>2, <2>4, Lines_Kept
<1>3. ASSUME NEW call \in {"createOffer", "createAnswer"}, Running(call),
             CompleteQueuedOperation(Tail(timers), sig, local), CreatedPlan',
             UNCHANGED <<waiting, local, remote, hist, known>>
      PROVE  PlanInv' /\ LinesInv'
  <2>1. queue # <<>> /\ queue' = Tail(queue) /\ sig' = sig
    BY <1>0, <1>3, RunningFacts DEF CompleteQueuedOperation
  <2>2. LinesKept
    BY <1>3, <2>1, LinesUnchanged DEF NextSig
  <2>3. Free(queue')
    <3>1. Head(queue).call = call /\ queue \in Seq(Operation) /\ Ordered(queue)
      BY <1>0, <1>3, RunningFacts DEF QueueTypeOK, PlanInv
    <3>2. Makes(Head(queue))
      BY <1>3, <3>1 DEF Makes
    <3>3. Free(Tail(queue))
      BY <2>1, <3>1, <3>2, OpsTail
    <3> QED BY <2>1, <3>3
  <2>4. PlanInv'
    BY <1>0, <1>3, <2>1, <2>2, <2>3, Plan_Kept
  <2> QED BY <1>0, <1>3, <2>2, <2>4, Lines_Kept
<1>4. CASE RunCreateOffer
  <2>1. CASE Throw /\ hist' = [hist EXCEPT !.early = TRUE]
    BY <1>2, <1>4, <2>1 DEF RunCreateOffer
  <2>2. CASE /\ created' = [type |-> "offer",
                            lines |-> Generated(WithTracks(local) \o NewLines(WithTracks(local)))]
             /\ CompleteQueuedOperation(Tail(timers), sig, local)
             /\ UNCHANGED <<waiting, hasTrack, hasDataChannels, local, remote, status, toWorker, hist>>
    <3> DEFINE lines == WithTracks(local)
               new == NewLines(lines)
    <3>1. /\ created' = [type |-> "offer", lines |-> Generated(lines \o new)]
          /\ CompleteQueuedOperation(Tail(timers), sig, local)
          /\ UNCHANGED <<waiting, local, remote, hist, known>> /\ Running("createOffer")
      BY <1>4, <2>2 DEF RunCreateOffer
    <3>2. CreatedPlan'
      <4>0. local \in Seq(LineOfThisEnd)
        BY <1>0 DEF DescTypeOK
      <4>1. /\ lines \in Seq(LineOfThisEnd) /\ Len(lines) = Len(local)
            /\ \A i \in DOMAIN local : lines[i].kind = local[i].kind
        BY <4>0, WithTracksType
      <4> HIDE DEF lines
      <4>2. new \in Seq(LineOfThisEnd)
        BY <1>0, NewLinesType
      <4> HIDE DEF new
      <4>3. /\ Len(local) \in Nat /\ DOMAIN local = 1..Len(local) /\ DOMAIN new = 1..Len(new) /\ Len(new) \in Nat
        BY <4>0, <4>2, SequenceFacts
      <4> DEFINE c == lines \o new
             g == Generated(c)
      <4>4. /\ c \in Seq(LineOfThisEnd) /\ Len(c) = Len(local) + Len(new)
            /\ DOMAIN c = 1..(Len(local) + Len(new)) /\ \A i \in 1..Len(local) : c[i] = lines[i]
        <5>1. lines \in Seq(LineOfThisEnd) /\ new \in Seq(LineOfThisEnd)
          BY <4>1, <4>2
        <5>2. /\ lines \o new \in Seq(LineOfThisEnd) /\ Len(lines \o new) = Len(lines) + Len(new)
              /\ DOMAIN (lines \o new) = 1..(Len(lines) + Len(new))
              /\ \A i \in 1..Len(lines) : (lines \o new)[i] = lines[i]
          BY <5>1, ConcatFacts
        <5>3. Len(lines) = Len(local)
          BY <4>1
        <5> HIDE DEF c
        <5>4. c = lines \o new
          BY DEF c
        <5> QED BY <5>2, <5>3, <5>4
      <4> HIDE DEF c
      <4>5. /\ Len(g) = Len(c) /\ DOMAIN g = DOMAIN c
            /\ \A i \in DOMAIN c : g[i].kind = c[i].kind /\ ~g[i].done
        BY <4>4, GeneratedType
      <4> HIDE DEF g
      <4>6. Len(local) <= Len(g) /\ \A i \in DOMAIN local : g[i].kind = local[i].kind
        BY <4>1, <4>3, <4>4, <4>5
      <4>7. created' = [type |-> "offer", lines |-> g]
        BY <3>1 DEF c, g
      <4> QED BY <3>1, <4>5, <4>6, <4>7 DEF CreatedPlan, Undone
    <3> QED BY <1>3, <3>1, <3>2
  <2> QED BY <1>4, <2>1, <2>2 DEF RunCreateOffer
<1>5. CASE RunCreateAnswer
  <2>1. CASE Reject
    BY <1>1, <1>5, <2>1 DEF RunCreateAnswer
  <2>2. CASE ~Reject
    <3> DEFINE l == [i \in 1..Len(remote) |->
                        IF i \in DOMAIN local THEN [local[i] EXCEPT !.mux = remote[i].mux]
                        ELSE LocalLine(remote[i].kind, FALSE, remote[i].mux)]
               c == Generated(WithTracks(l))
    <3>1. /\ created' = [type |-> "answer", lines |-> c]
          /\ CompleteQueuedOperation(Tail(timers), sig, local)
          /\ UNCHANGED <<waiting, local, remote, hist, known>> /\ Running("createAnswer")
      BY <1>5, <2>2 DEF RunCreateAnswer
    <3>2. /\ c \in Seq(LineOfThisEnd) /\ Len(c) = Len(remote) /\ Undone(c)
          /\ \A i \in 1..Len(remote) :
                c[i].kind = IF i \in DOMAIN local THEN local[i].kind ELSE remote[i].kind
      BY <1>0, AnswerType
    <3> HIDE DEF c
    <3>3. CreatedPlan'
      <4>1. /\ DOMAIN c = 1..Len(remote) /\ Len(remote) <= Len(Agreed) /\ DOMAIN remote = 1..Len(remote)
        BY <1>0, <3>2, AgreedFacts, SequenceFacts
      <4>2. \A i \in DOMAIN c : c[i].kind = Agreed[i].kind
        BY <3>2, <4>1 DEF LinesInv, Fits
      <4>3. UNCHANGED <<Agreed, local, remote>>
        BY <3>1 DEF Agreed
      <4>4. Len(c) <= Len(Agreed)
        BY <3>2, <4>1
      <4> QED BY <3>1, <3>2, <4>2, <4>3, <4>4 DEF CreatedPlan, Undone, Fits
    <3> QED BY <1>3, <3>1, <3>3
  <2> QED BY <2>1, <2>2
<1>6. CASE RunSetLocalDescription
  <2> DEFINE d == Head(queue).description
             target == Target(sig, "setLocal", d.type)
             calls == CallsForLocal(d.lines, d.type = "offer")
  <2>1. \/ Throw /\ UNCHANGED hist
        \/ Reject
        \/ /\ sig # "closed" /\ target # "none" /\ local' = d.lines
           /\ hist' = [hist EXCEPT !.ended = FALSE,
                                   !.stale = @ \cup {i \in DOMAIN local : local[i].done}]
           /\ WhenPeerHandler(calls, target, d.lines)
           /\ UNCHANGED <<hasTrack, hasDataChannels, remote, status, created>>
    BY <1>6 DEF RunSetLocalDescription
  <2>2. Running("setLocal") /\ UNCHANGED known
    BY <1>6 DEF RunSetLocalDescription
  <2>3. calls \in Seq(PeerCall)
    <3>1. d \in LocalDescription
      BY <1>0, <2>2, HeadFacts
    <3>2. d.lines \in Seq(LineOfThisEnd) /\ (d.type = "offer") \in BOOLEAN
      BY <3>1 DEF LocalDescription
    <3> QED BY <1>0, <3>2, CallsForLocalFacts
  <2> HIDE DEF calls
  <2>4. CASE /\ sig # "closed" /\ target # "none" /\ local' = d.lines
             /\ hist' = [hist EXCEPT !.ended = FALSE,
                                     !.stale = @ \cup {i \in DOMAIN local : local[i].done}]
             /\ WhenPeerHandler(calls, target, d.lines)
             /\ UNCHANGED <<hasTrack, hasDataChannels, remote, status, created>>
    <3>2. queue' \in {queue, Tail(queue)} /\ NextSig = sig /\ NextSig' = target /\ (~known' => waiting' # <<>>)
      BY <1>0, <2>2, <2>3, <2>4, HandlerFacts
    <3> QED BY <1>0, <2>2, <2>4, <3>2, Plan_SetLocal
  <2> HIDE DEF d, target
  <2> QED BY <1>1, <1>2, <2>1, <2>2, <2>4
<1>7. CASE RunSetRemoteDescription
  <2> DEFINE d == Head(queue).description
             target == Target(sig, "setRemote", d.type)
             lines == WithSource(d.lines)
             calls == <<PrepareToSend(lines, d.type = "answer")>>
  <2>1. \/ Throw /\ UNCHANGED hist
        \/ Reject
        \/ /\ sig # "closed" /\ target # "none" /\ remote' = lines
           /\ WhenPeerHandler(calls, target, local)
           /\ UNCHANGED <<hasTrack, hasDataChannels, local, created>>
    BY <1>7 DEF RunSetRemoteDescription
  <2>2. Running("setRemote") /\ UNCHANGED known
    BY <1>7 DEF RunSetRemoteDescription
  <2>3. calls \in Seq(PeerCall) /\ SameLines(lines, d.lines)
    <3>1. d \in RemoteDescription
      BY <1>0, <2>2, HeadFacts
    <3>2. d.lines \in Seq(OfferLine) /\ (d.type = "answer") \in BOOLEAN
      BY <3>1 DEF RemoteDescription
    <3>3. /\ lines \in Seq(RemoteLine) /\ Len(lines) = Len(d.lines)
          /\ \A i \in DOMAIN d.lines : lines[i].kind = d.lines[i].kind
      BY <1>0, <3>2, WithSourceType
    <3> HIDE DEF lines
    <3>4. PrepareToSend(lines, d.type = "answer") \in PeerCall
      BY <1>0, <3>2, <3>3, CallTypes
    <3> QED BY <3>3, <3>4, SingleFacts DEF SameLines
  <2> HIDE DEF calls, lines
  <2>4. CASE /\ sig # "closed" /\ target # "none" /\ remote' = lines
             /\ WhenPeerHandler(calls, target, local)
             /\ UNCHANGED <<hasTrack, hasDataChannels, local, created>>
    <3>1. queue' \in {queue, Tail(queue)} /\ NextSig = sig /\ NextSig' = target /\ (~known' => waiting' # <<>>)
      BY <1>0, <2>2, <2>3, <2>4, HandlerFacts
    <3>2. SameLines(remote', d.lines)
      BY <2>3, <2>4
    <3> QED BY <1>0, <2>2, <2>4, <3>1, <3>2, Plan_SetRemote
  <2> HIDE DEF d, target
  <2> QED BY <1>1, <1>2, <2>1, <2>2, <2>4
<1>8. CASE RunAddIceCandidate
  <2> DEFINE op == Head(queue)
             calls == <<[call |-> "addRemoteCandidate", line |-> op.line, candidate |-> op.candidate]>>
  <2>1. \/ Reject
        \/ /\ remote' = [remote EXCEPT ![op.line].candidates = @ \cup {op.candidate}]
           /\ WhenPeerHandler(calls, sig, local)
           /\ UNCHANGED <<hasTrack, hasDataChannels, local, status, created, hist>>
    BY <1>8 DEF RunAddIceCandidate
  <2>2. Running("addCandidate") /\ UNCHANGED known
    BY <1>8 DEF RunAddIceCandidate
  <2>3. op.line \in Nat /\ op.candidate \in Component
    BY <1>0, <2>2, HeadFacts, OperationFields
  <2> HIDE DEF op
  <2>4. calls \in Seq(PeerCall)
    <3>1. [call |-> "addRemoteCandidate", line |-> op.line, candidate |-> op.candidate] \in PeerCall
      BY <2>3 DEF PeerCall
    <3> QED BY <3>1, SingleFacts
  <2> HIDE DEF calls
  <2>5. CASE /\ remote' = [remote EXCEPT ![op.line].candidates = @ \cup {op.candidate}]
             /\ WhenPeerHandler(calls, sig, local)
             /\ UNCHANGED <<hasTrack, hasDataChannels, local, status, created, hist>>
    <3>1. /\ queue' \in {queue, Tail(queue)} /\ NextSig' = NextSig /\ (~known' => waiting' # <<>>)
          /\ queue # <<>>
      BY <1>0, <2>2, <2>4, <2>5, HandlerFacts
    <3>2. SameLines(remote', remote)
      BY <1>0, <2>3, <2>5, AddCandidateType DEF DescTypeOK
    <3>3. LinesKept
      BY <2>5, <3>1, <3>2 DEF LinesKept, SameLines
    <3>4. PlanInv'
      BY <1>0, <2>5, <3>1, <3>3, Plan_Kept
    <3>5. LinesInv'
      BY <1>0, <3>1, <3>3, Lines_Kept
    <3> QED BY <3>4, <3>5
  <2> QED BY <1>1, <2>1, <2>2, <2>5
<1>9. CASE RunMaybeDispatch \/ RunDispatchNegotiationNeeded
  <2>1. UNCHANGED <<queue, sig, waiting, local, remote, created, known>>
    BY <1>9 DEF RunMaybeDispatch, RunDispatchNegotiationNeeded, descVars
  <2>3. LinesKept
    BY <2>1, LinesUnchanged DEF NextSig
  <2>4. queue' \in {queue, Tail(queue)} /\ (queue' # queue => queue # <<>>) /\ created' = created
    BY <2>1
  <2>5. PlanInv'
    BY <1>0, <2>3, <2>4, Plan_Kept
  <2> QED BY <1>0, <2>1, <2>3, <2>5, Lines_Kept
<1> QED BY <1>4, <1>5, <1>6, <1>7, <1>8, <1>9 DEF Timer

\* The end of gathering of a line is noted in the description.
LEMMA DoneKept ==
    ASSUME DescTypeOK, hist \in History, CandidateGatheringDone
    PROVE  /\ LinesKept /\ UNCHANGED <<queue, sig, waiting, remote, created, known>>
           /\ Len(local') = Len(local)
           /\ \A i \in DOMAIN local : local'[i].done <=> (local[i].done \/ i = Head(toPage).line)
<1> DEFINE x == Head(toPage).line
<1>1. /\ local' = [local EXCEPT ![x].done = TRUE]
      /\ UNCHANGED <<queue, sig, waiting, remote, created, known>>
  BY DEF CandidateGatheringDone, queueVars
<1> HIDE DEF x
<1>3. local \in [1..Len(local) -> LineOfThisEnd] /\ DOMAIN local = 1..Len(local) /\ Len(local) \in Nat
  BY SequenceFacts DEF DescTypeOK
<1>4. /\ local' \in [1..Len(local) -> LineOfThisEnd]
      /\ \A i \in DOMAIN local : local'[i].kind = local[i].kind
      /\ \A i \in DOMAIN local : local'[i].done <=> (local[i].done \/ i = x)
  BY <1>1, <1>3 DEF LineOfThisEnd
<1>5. Len(local') = Len(local)
  BY <1>3, <1>4, FunctionSequence
<1>6. LinesKept
  BY <1>1, <1>4, <1>5 DEF LinesKept, SameLines, NextSig
<1> QED BY <1>1, <1>4, <1>5, <1>6 DEF x

LEMMA Plan_PageMessage ==
    ASSUME TypeOK, TypeOK', QueueInv, PlanInv, LinesInv, PageMessage PROVE PlanInv' /\ LinesInv'
<1>0. /\ QueueTypeOK /\ DescTypeOK /\ DescTypeOK' /\ hist \in History
  BY Groups, GroupsNext
<1>1. ASSUME LinesKept, queue' \in {queue, Tail(queue)}, queue' # queue => queue # <<>>,
             created' = created, ~known' /\ waiting' = <<>> => ~known /\ waiting = <<>>
      PROVE  PlanInv' /\ LinesInv'
  <2>1. PlanInv'
    BY <1>0, <1>1, Plan_Kept
  <2> QED BY <1>0, <1>1, <2>1, Lines_Kept
<1>2. CASE GotPeerHandler
  <2>0. known' = TRUE /\ waiting' = <<>> /\ UNCHANGED <<local, remote, created, hist>>
    BY <1>2 DEF GotPeerHandler, descVars
  <2>1. CASE waiting = <<>>
    <3>1. UNCHANGED <<sig, queue>>
      BY <1>2, <2>1 DEF GotPeerHandler
    <3>2. LinesKept
      BY <2>0, <2>1, <3>1, LinesUnchanged DEF NextSig
    <3> QED BY <1>1, <2>0, <3>1, <3>2
  <2>2. CASE waiting # <<>>
    <3>1. sig' = waiting[1].target /\ queue' = Tail(queue) /\ queue # <<>>
      BY <1>2, <2>2 DEF GotPeerHandler, Applied, CompleteQueuedOperation, QueueInv
    <3>2. LinesKept
      BY <2>0, <2>2, <3>1, LinesUnchanged DEF NextSig
    <3> QED BY <1>1, <2>0, <3>1, <3>2
  <2> QED BY <2>1, <2>2
<1>3. CASE CandidateGatheringDone
  BY <1>0, <1>1, <1>3, DoneKept
<1>4. CASE ~GotPeerHandler /\ ~CandidateGatheringDone
  <2>1. UNCHANGED <<queue, sig, waiting, local, remote, created, known>>
    BY <1>4 DEF PageMessage, GotIceCandidate, GotRemoteSource, DataChannelsEnabled,
                DataChannelRequested, GotChannel, queueVars, descVars
  <2>3. LinesKept
    BY <2>1, LinesUnchanged DEF NextSig
  <2> QED BY <1>1, <2>1, <2>3
<1> QED BY <1>2, <1>3, <1>4

LEMMA Plan_Worker ==
    ASSUME PlanInv, LinesInv, Worker \/ Native PROVE PlanInv' /\ LinesInv'
<1>1. UNCHANGED <<queue, sig, waiting, known, local, remote, created, hist>>
  BY WorkerUnchanged DEF WorkerOnly, queueVars, descVars
<1>2. UNCHANGED <<Agreed, NextSig>>
  BY <1>1 DEF Agreed, NextSig
<1>3. PlanInv'
  BY <1>1, <1>2 DEF PlanInv, LocalPlan, RemotePlan, CreatedPlan, Extends, Fits, Undone, ToSet, Free, Ordered
<1> QED BY <1>1, <1>2, <1>3 DEF LinesInv, Fits

-------------------------------------------------------------------------------
(* The calls to the peer handler and the sessions they meet *)

\* The lines a call that prepares has, and the line of a candidate.
LEMMA PrepareFields ==
    ASSUME NEW c \in PeerCall
    PROVE  /\ Prepares(c) => Len(c.lines) \in Nat /\ DOMAIN c.lines = 1..Len(c.lines)
           /\ c.call = "addRemoteCandidate" => c.line \in Nat
<1>1. c.call = "prepareToReceive" => c.lines \in Seq(LineOfThisEnd)
  BY CallFields
<1>2. c.call = "prepareToSend" => c.lines \in Seq(RemoteLine)
  BY CallFields
<1>3. c.call = "addRemoteCandidate" => c.line \in Nat
  BY CallFields
<1> QED BY <1>1, <1>2, <1>3, SequenceFacts DEF Prepares

\* More lines are agreed or set.
LEMMA CallsGrow ==
    ASSUME NEW c \in Seq(PeerCall), NEW a, NEW b, Len(a) \in Nat, DOMAIN a = 1..Len(a),
           Len(b) \in Nat, Len(a) <= Len(b),
           \A i \in DOMAIN a : b[i].kind = a[i].kind,
           NEW most \in Nat, NEW more \in Nat, most <= more, NEW made \in Nat,
           CallsFit(c, a, most, made)
    PROVE  CallsFit(c, b, more, made)
<1> SUFFICES ASSUME NEW i \in DOMAIN c PROVE CallFits(c, i, b, more, made)
  BY DEF CallsFit
<1>1. CallFits(c, i, a, most, made) /\ c[i] \in PeerCall
  BY SequenceFacts DEF CallsFit
<1>2. Prepares(c[i]) => FitLines(c[i].lines, b)
  <2> SUFFICES ASSUME Prepares(c[i]) PROVE FitLines(c[i].lines, b)
    OBVIOUS
  <2> DEFINE l == c[i].lines
  <2>1. Len(l) \in Nat /\ DOMAIN l = 1..Len(l)
    BY <1>1, PrepareFields
  <2>2. Len(l) <= Len(a) /\ \A k \in DOMAIN l : l[k].kind = a[k].kind
    BY <1>1 DEF CallFits, FitLines
  <2> HIDE DEF l
  <2>3. Len(l) <= Len(b) /\ \A k \in DOMAIN l : l[k].kind = b[k].kind
    BY <2>1, <2>2
  <2> QED BY <2>3 DEF FitLines, l
<1>3. c[i].call = "prepareToReceive" => Len(c[i].lines) <= more
  <2> SUFFICES ASSUME c[i].call = "prepareToReceive" PROVE Len(c[i].lines) <= more
    OBVIOUS
  <2>1. Len(c[i].lines) \in Nat
    BY <1>1, PrepareFields DEF Prepares
  <2>2. Len(c[i].lines) <= most
    BY <1>1 DEF CallFits
  <2> QED BY <2>1, <2>2
<1> QED BY <1>1, <1>2, <1>3 DEF CallFits

\* Calls go behind the others.
LEMMA CallsConcat ==
    ASSUME NEW c \in Seq(PeerCall), NEW x \in Seq(PeerCall), NEW a, NEW most, NEW made,
           CallsFit(c, a, most, made),
           \A i \in DOMAIN x : CallFits(c \o x, Len(c) + i, a, most, made)
    PROVE  CallsFit(c \o x, a, most, made)
<1> DEFINE d == c \o x
<1>1. /\ Len(c) \in Nat /\ DOMAIN c = 1..Len(c) /\ Len(x) \in Nat /\ DOMAIN x = 1..Len(x)
      /\ DOMAIN d = 1..(Len(c) + Len(x)) /\ \A i \in 1..Len(c) : d[i] = c[i]
  BY ConcatFacts, SequenceFacts
<1> HIDE DEF d
<1>2. ASSUME NEW i \in 1..Len(c) PROVE CallFits(d, i, a, most, made)
  <2>1. d[i] = c[i] /\ \A j \in 1..(i - 1) : d[j] = c[j]
    BY <1>1
  <2>2. CallFits(c, i, a, most, made)
    BY <1>1 DEF CallsFit
  <2> QED BY <2>1, <2>2 DEF CallFits
<1>3. ASSUME NEW i \in DOMAIN d, i \notin 1..Len(c) PROVE CallFits(d, i, a, most, made)
  <2>1. i - Len(c) \in DOMAIN x /\ Len(c) + (i - Len(c)) = i
    BY <1>1, <1>3
  <2>2. CallFits(d, Len(c) + (i - Len(c)), a, most, made)
    BY <2>1 DEF d
  <2> QED BY <2>1, <2>2
<1>4. \A i \in DOMAIN d : CallFits(d, i, a, most, made)
  BY <1>2, <1>3
<1> QED BY <1>4 DEF CallsFit, d

LEMMA CoveredConcat ==
    ASSUME NEW c \in Seq(PeerCall), NEW x \in Seq(PeerCall), NEW n, NEW made,
           Covered(c, n, made) \/ Covered(x, n, made)
    PROVE  Covered(c \o x, n, made)
<1> DEFINE d == c \o x
<1>1. /\ Len(c) \in Nat /\ DOMAIN c = 1..Len(c) /\ Len(x) \in Nat /\ DOMAIN x = 1..Len(x)
      /\ DOMAIN d = 1..(Len(c) + Len(x)) /\ (\A i \in 1..Len(c) : d[i] = c[i])
      /\ \A i \in 1..Len(x) : d[Len(c) + i] = x[i]
  BY ConcatFacts, SequenceFacts
<1> HIDE DEF d
<1>2. CASE n <= made
  BY <1>2 DEF Covered
<1>3. ASSUME NEW j \in DOMAIN c, c[j].call = "prepareToSend", n <= Len(c[j].lines) PROVE Covered(d, n, made)
  <2>1. j \in DOMAIN d /\ d[j] = c[j]
    BY <1>1
  <2> QED BY <1>3, <2>1 DEF Covered
<1>4. ASSUME NEW j \in DOMAIN x, x[j].call = "prepareToSend", n <= Len(x[j].lines) PROVE Covered(d, n, made)
  <2>1. Len(c) + j \in DOMAIN d /\ d[Len(c) + j] = x[j]
    BY <1>1
  <2> QED BY <1>4, <2>1 DEF Covered
<1> QED BY <1>2, <1>3, <1>4 DEF Covered, d

\* Calls that do not concern the lines go between those on their way and those that wait.
LEMMA CallsInsert ==
    ASSUME NEW s \in Seq(PeerCall), NEW x \in Seq(PeerCall), NEW w \in Seq(PeerCall),
           \A i \in DOMAIN x : ~Prepares(x[i]) /\ x[i].call # "addRemoteCandidate",
           \A i \in DOMAIN w : Prepares(w[i]),
           NEW a, NEW most, NEW made, NEW n,
           CallsFit(s \o w, a, most, made), Covered(s \o w, n, made)
    PROVE  CallsFit((s \o x) \o w, a, most, made) /\ Covered((s \o x) \o w, n, made)
<1> DEFINE c == s \o w
           d == (s \o x) \o w
           p == Len(s)
           q == Len(x)
           r == Len(w)
<1>1. /\ p \in Nat /\ q \in Nat /\ r \in Nat /\ DOMAIN x = 1..q /\ DOMAIN w = 1..r
      /\ DOMAIN c = 1..(p + r)
      /\ (\A i \in 1..p : c[i] = s[i]) /\ (\A i \in (p + 1)..(p + r) : c[i] = w[i - p])
  BY ConcatFacts, SequenceFacts
<1>2. /\ s \o x \in Seq(PeerCall) /\ Len(s \o x) = p + q
      /\ (\A i \in 1..p : (s \o x)[i] = s[i]) /\ (\A i \in (p + 1)..(p + q) : (s \o x)[i] = x[i - p])
  BY ConcatFacts
<1>3. /\ DOMAIN d = 1..(p + q + r)
      /\ (\A i \in 1..(p + q) : d[i] = (s \o x)[i])
      /\ (\A i \in (p + q + 1)..(p + q + r) : d[i] = w[i - (p + q)])
  <2>1. /\ DOMAIN d = 1..(Len(s \o x) + r)
        /\ (\A i \in 1..Len(s \o x) : d[i] = (s \o x)[i])
        /\ (\A i \in (Len(s \o x) + 1)..(Len(s \o x) + r) : d[i] = w[i - Len(s \o x)])
    <3> DEFINE u == s \o x
    <3>1. u \in Seq(PeerCall) /\ d = u \o w
      BY <1>2
    <3> HIDE DEF u, d
    <3>2. /\ DOMAIN (u \o w) = 1..(Len(u) + r)
          /\ (\A i \in 1..Len(u) : (u \o w)[i] = u[i])
          /\ (\A i \in (Len(u) + 1)..(Len(u) + r) : (u \o w)[i] = w[i - Len(u)])
      BY <3>1, ConcatFacts
    <3>3. /\ DOMAIN d = 1..(Len(u) + r)
          /\ (\A i \in 1..Len(u) : d[i] = u[i])
          /\ (\A i \in (Len(u) + 1)..(Len(u) + r) : d[i] = w[i - Len(u)])
      BY <3>1, <3>2
    <3> QED BY <3>3 DEF u
  <2> HIDE DEF d, p, q, r
  <2> QED BY <1>2, <2>1
<1> HIDE DEF c, d, p, q, r
<1>4. \A i \in 1..p : d[i] = c[i]
  BY <1>1, <1>2, <1>3
<1>5. \A i \in (p + 1)..(p + q) : i \in DOMAIN d /\ ~Prepares(d[i]) /\ d[i].call # "addRemoteCandidate"
  <2> SUFFICES ASSUME NEW i \in (p + 1)..(p + q)
               PROVE  i \in DOMAIN d /\ ~Prepares(d[i]) /\ d[i].call # "addRemoteCandidate"
    OBVIOUS
  <2>1. i \in 1..(p + q) /\ i \in DOMAIN d /\ i - p \in DOMAIN x
    BY <1>1, <1>3
  <2>2. d[i] = x[i - p]
    BY <1>2, <1>3, <2>1
  <2> QED BY <2>1, <2>2
<1>6. \A i \in (p + q + 1)..(p + q + r) : i - q \in DOMAIN c /\ d[i] = c[i - q] /\ Prepares(d[i])
  <2> SUFFICES ASSUME NEW i \in (p + q + 1)..(p + q + r)
               PROVE  i - q \in DOMAIN c /\ d[i] = c[i - q] /\ Prepares(d[i])
    OBVIOUS
  <2>1. i - q \in (p + 1)..(p + r) /\ i - (p + q) = (i - q) - p /\ i - (p + q) \in DOMAIN w
    BY <1>1
  <2>2. c[i - q] = w[(i - q) - p] /\ d[i] = w[i - (p + q)]
    BY <1>1, <1>3, <2>1
  <2> QED BY <1>1, <2>1, <2>2
<1>7. CallsFit(c, a, most, made)
  BY DEF c
<1>8. ASSUME NEW i \in DOMAIN d PROVE CallFits(d, i, a, most, made)
  <2>1. CASE i \in 1..p
    <3>1. d[i] = c[i] /\ \A j \in 1..(i - 1) : d[j] = c[j]
      BY <1>1, <1>4, <2>1
    <3>2. CallFits(c, i, a, most, made)
      BY <1>1, <1>7, <2>1 DEF CallsFit
    <3> QED BY <3>1, <3>2 DEF CallFits
  <2>2. CASE i \in (p + 1)..(p + q)
    BY <1>5, <2>2 DEF CallFits, Prepares
  <2>3. CASE i \in (p + q + 1)..(p + q + r)
    <3> DEFINE k == i - q
    <3>1. k \in DOMAIN c /\ d[i] = c[k] /\ Prepares(d[i])
      BY <1>6, <2>3
    <3>2. CallFits(c, k, a, most, made)
      BY <1>7, <3>1 DEF CallsFit
    <3>3. ASSUME NEW j \in 1..(i - 1), Prepares(d[j]), d[i].call = "prepareToReceive"
          PROVE  Len(d[j].lines) <= Len(d[i].lines)
      <4>0. \A m \in 1..(k - 1) : Prepares(c[m]) => Len(c[m].lines) <= Len(c[k].lines)
        BY <3>1, <3>2, <3>3 DEF CallFits
      <4>1. CASE j \in 1..p
        <5>1. j \in 1..(k - 1) /\ d[j] = c[j]
          BY <1>1, <1>4, <2>3, <4>1
        <5> QED BY <3>1, <3>3, <4>0, <5>1
      <4>2. CASE j \in (p + 1)..(p + q)
        BY <1>5, <3>3, <4>2
      <4>3. CASE j \in (p + q + 1)..(p + q + r)
        <5>1. j - q \in 1..(k - 1) /\ d[j] = c[j - q]
          BY <1>1, <1>6, <2>3, <3>3, <4>3
        <5> QED BY <3>1, <3>3, <4>0, <5>1
      <4> QED BY <1>1, <1>3, <2>3, <4>1, <4>2, <4>3
    <3>4. d[i].call # "addRemoteCandidate"
      BY <3>1 DEF Prepares
    <3> HIDE DEF k
    <3> QED BY <3>1, <3>2, <3>3, <3>4 DEF CallFits
  <2> QED BY <1>1, <1>3, <2>1, <2>2, <2>3
<1>9. Covered(d, n, made)
  <2>1. CASE n <= made
    BY <2>1 DEF Covered
  <2>2. CASE \E j \in DOMAIN c : c[j].call = "prepareToSend" /\ n <= Len(c[j].lines)
    <3>1. PICK j \in DOMAIN c : c[j].call = "prepareToSend" /\ n <= Len(c[j].lines)
      BY <2>2
    <3>2. CASE j \in 1..p
      <4>1. j \in DOMAIN d /\ d[j] = c[j]
        BY <1>1, <1>3, <1>4, <3>2
      <4> QED BY <3>1, <4>1 DEF Covered
    <3>3. CASE j \in (p + 1)..(p + r)
      <4>1. j + q \in (p + q + 1)..(p + q + r) /\ (j + q) - q = j /\ j + q \in DOMAIN d
        BY <1>1, <1>3, <3>3
      <4>2. d[j + q] = c[j]
        BY <1>6, <4>1
      <4> QED BY <3>1, <4>1, <4>2 DEF Covered
    <3> QED BY <1>1, <3>2, <3>3
  <2> QED BY <2>1, <2>2 DEF Covered, c
<1> QED BY <1>8, <1>9 DEF CallsFit, c, d

\* The worker has taken the first call, and has made sessions for its lines.
LEMMA CallsTaken ==
    ASSUME NEW c \in Seq(PeerCall), c # <<>>, NEW a, NEW most, NEW made \in Nat, NEW more \in Nat,
           NEW n \in Nat, made <= more,
           more = made \/ (Prepares(c[1]) /\ more = Len(c[1].lines)),
           c[1].call = "prepareToSend" => Len(c[1].lines) <= more,
           CallsFit(c, a, most, made), Covered(c, n, made)
    PROVE  CallsFit(Tail(c), a, most, more) /\ Covered(Tail(c), n, more)
<1> DEFINE d == Tail(c)
<1>1. /\ Len(c) \in Nat /\ Len(c) > 0 /\ DOMAIN c = 1..Len(c) /\ DOMAIN d = 1..(Len(c) - 1)
      /\ \A i \in 1..(Len(c) - 1) : d[i] = c[i + 1]
      /\ \A i \in DOMAIN c : c[i] \in PeerCall
  BY TailFacts, SequenceFacts
<1> HIDE DEF d
<1>2. ASSUME NEW i \in DOMAIN d PROVE CallFits(d, i, a, most, more)
  <2> DEFINE k == i + 1
  <2>1. /\ k \in DOMAIN c /\ 1 \in 1..(k - 1) /\ d[i] = c[k]
        /\ \A j \in 1..(i - 1) : d[j] = c[j + 1] /\ j + 1 \in 1..(k - 1)
        /\ \A j \in 1..(k - 1) : j # 1 => j - 1 \in 1..(i - 1) /\ d[j - 1] = c[j]
    <3>1. k \in DOMAIN c /\ 1 \in 1..(k - 1) /\ d[i] = c[k]
      BY <1>1
    <3>2. \A j \in 1..(i - 1) : d[j] = c[j + 1] /\ j + 1 \in 1..(k - 1)
      BY <1>1
    <3>3. ASSUME NEW j \in 1..(k - 1), j # 1
          PROVE  j - 1 \in 1..(i - 1) /\ d[j - 1] = c[j]
      <4>1. j - 1 \in 1..(i - 1) /\ j - 1 \in 1..(Len(c) - 1) /\ (j - 1) + 1 = j
        BY <1>1, <3>3
      <4> QED BY <1>1, <4>1
    <3> QED BY <3>1, <3>2, <3>3
  <2>2. CallFits(c, k, a, most, made) /\ c[k] \in PeerCall /\ c[1] \in PeerCall
    BY <1>1, <2>1 DEF CallsFit
  <2> HIDE DEF k
  <2>3. Prepares(d[i]) => FitLines(d[i].lines, a)
    BY <2>1, <2>2 DEF CallFits
  <2>4. ASSUME d[i].call = "prepareToReceive"
        PROVE  /\ Len(d[i].lines) <= most /\ more <= Len(d[i].lines)
               /\ \A j \in 1..(i - 1) : Prepares(d[j]) => Len(d[j].lines) <= Len(d[i].lines)
    <3>1. /\ Len(c[k].lines) <= most /\ made <= Len(c[k].lines)
          /\ \A j \in 1..(k - 1) : Prepares(c[j]) => Len(c[j].lines) <= Len(c[k].lines)
      BY <2>1, <2>2, <2>4 DEF CallFits
    <3>2. more <= Len(c[k].lines)
      BY <2>1, <3>1
    <3> QED BY <2>1, <3>1, <3>2
  <2>5. ASSUME d[i].call = "addRemoteCandidate"
        PROVE  \/ d[i].line \in 1..more
               \/ \E j \in 1..(i - 1) : d[j].call = "prepareToSend" /\ d[i].line \in DOMAIN d[j].lines
    <3>1. CASE c[k].line \in 1..made
      BY <2>1, <3>1
    <3>2. CASE \E j \in 1..(k - 1) : c[j].call = "prepareToSend" /\ c[k].line \in DOMAIN c[j].lines
      <4>1. PICK j \in 1..(k - 1) : c[j].call = "prepareToSend" /\ c[k].line \in DOMAIN c[j].lines
        BY <3>2
      <4>2. CASE j = 1
        <5>1. DOMAIN c[1].lines = 1..Len(c[1].lines) /\ Len(c[1].lines) \in Nat /\ Len(c[1].lines) <= more
          BY <2>2, <4>1, <4>2, PrepareFields DEF Prepares
        <5>2. c[k].line \in 1..Len(c[1].lines)
          BY <4>1, <4>2, <5>1
        <5>3. c[k].line \in 1..more
          BY <5>1, <5>2
        <5> QED BY <2>1, <5>3
      <4>3. CASE j # 1
        BY <2>1, <4>1, <4>3
      <4> QED BY <4>2, <4>3
    <3> QED BY <2>1, <2>2, <2>5, <3>1, <3>2 DEF CallFits
  <2> QED BY <2>3, <2>4, <2>5 DEF CallFits
<1>3. Covered(d, n, more)
  <2>1. CASE n <= made
    BY <2>1 DEF Covered
  <2>2. CASE \E j \in DOMAIN c : c[j].call = "prepareToSend" /\ n <= Len(c[j].lines)
    <3>1. PICK j \in DOMAIN c : c[j].call = "prepareToSend" /\ n <= Len(c[j].lines)
      BY <2>2
    <3>2. CASE j = 1
      <4>1. Len(c[1].lines) \in Nat /\ Len(c[1].lines) <= more
        BY <1>1, <3>1, <3>2, PrepareFields DEF Prepares
      <4>2. n <= more
        BY <3>1, <3>2, <4>1
      <4> QED BY <4>2 DEF Covered
    <3>3. CASE j # 1
      <4>1. j - 1 \in DOMAIN d /\ (j - 1) + 1 = j
        BY <1>1, <3>3
      <4>2. d[j - 1] = c[j]
        BY <1>1, <4>1
      <4> QED BY <3>1, <4>1, <4>2 DEF Covered
    <3> QED BY <3>2, <3>3
  <2> QED BY <2>1, <2>2 DEF Covered
<1> QED BY <1>2, <1>3 DEF CallsFit, d

\* The parts of the state the calls are judged by.
LEMMA CallsType ==
    ASSUME TypeOK
    PROVE  /\ Calls \in Seq(PeerCall) /\ Waiting \in Seq(PeerCall) /\ toWorker \in Seq(PeerCall)
           /\ sessions \in Seq(Session) /\ Len(sessions) \in Nat /\ DOMAIN sessions = 1..Len(sessions)
           /\ receivePrepared \in Nat /\ sendPrepared \in Nat
<1>1. /\ toWorker \in Seq(PeerCall) /\ QueueTypeOK /\ sessions \in Seq(Session)
      /\ receivePrepared \in Nat /\ sendPrepared \in Nat
  BY Groups DEF MessageTypeOK, WorkerTypeOK
<1>2. Waiting \in Seq(PeerCall)
  <2>1. CASE waiting = <<>>
    BY <2>1, EmptySeq DEF Waiting
  <2>2. CASE waiting # <<>>
    <3>1. waiting \in Seq(Deferred) /\ 1 \in DOMAIN waiting
      BY <1>1, <2>2, SequenceFacts DEF QueueTypeOK
    <3>2. waiting[1] \in Deferred
      BY <3>1, SequenceFacts
    <3> QED BY <2>2, <3>2 DEF Waiting, Deferred
  <2> QED BY <2>1, <2>2
<1>3. Calls \in Seq(PeerCall)
  BY <1>1, <1>2, ConcatFacts DEF Calls
<1> QED BY <1>1, <1>2, <1>3, SequenceFacts

\* The page makes calls while the lines agreed grow; the worker does nothing.
LEMMA Calls_Page ==
    ASSUME TypeOK, TypeOK', CallsInv, SessionsInv, Grows, Len(local) <= Len(local'),
           UNCHANGED workerVars, NEW x \in Seq(PeerCall), Calls' = Calls \o x,
           \A i \in DOMAIN x : CallFits(Calls \o x, Len(Calls) + i, Agreed', Len(local'), Len(sessions)),
           Covered(Calls, Len(remote'), Len(sessions)) \/ Covered(x, Len(remote'), Len(sessions)),
           \A i \in DOMAIN Waiting' : Prepares(Waiting'[i])
    PROVE  CallsInv' /\ SessionsInv'
<1> DEFINE c == Calls
           a == Agreed
           b == Agreed'
           n == Len(remote')
           m == Len(local)
           m2 == Len(local')
           made == Len(sessions)
<1>0. DescTypeOK /\ DescTypeOK'
  BY Groups, GroupsNext
<1>1. /\ c \in Seq(PeerCall) /\ made \in Nat /\ Len(a) \in Nat /\ DOMAIN a = 1..Len(a) /\ m \in Nat
  BY <1>0, CallsType, AgreedFacts
<1>2. Len(b) \in Nat /\ m2 \in Nat /\ n \in Nat
  BY <1>0, SequenceFacts DEF Agreed, DescTypeOK
<1>3. Len(a) <= Len(b) /\ (\A i \in DOMAIN a : b[i].kind = a[i].kind) /\ m <= m2
  BY DEF Grows
<1>4. CallsFit(c, a, m, made)
  BY DEF CallsInv
<1>5. Calls' = c \o x /\ Len(sessions') = made /\ UNCHANGED <<sessions, receivePrepared, sendPrepared>>
  BY DEF workerVars
<1>6. SessionsInv'
  <2>1. Fits(sessions)'
    <3>1. Fits(sessions) /\ sessions \in Seq(Session)
      BY CallsType DEF SessionsInv
    <3>2. \A l \in Seq(Session) : Fits(l) => Fits(l)'
      BY <1>0, FitsGrows
    <3> QED BY <1>5, <3>1, <3>2 DEF Fits
  <2>2. receivePrepared <= m2
    <3>1. receivePrepared \in Nat /\ receivePrepared <= m
      BY CallsType DEF SessionsInv
    <3> QED BY <1>1, <1>2, <1>3, <3>1
  <2> QED BY <1>5, <2>1, <2>2 DEF SessionsInv
<1>7. \A i \in DOMAIN x : CallFits(c \o x, Len(c) + i, b, m2, made)
  OBVIOUS
<1>8. Covered(c, n, made) \/ Covered(x, n, made)
  OBVIOUS
<1> HIDE DEF c, a, b, n, m, m2, made
<1>9. CallsFit(c, b, m2, made)
  BY <1>1, <1>2, <1>3, <1>4, CallsGrow
<1>10. CallsFit(c \o x, b, m2, made)
  BY <1>1, <1>7, <1>9, CallsConcat
<1>11. Covered(c \o x, n, made)
  BY <1>1, <1>8, CoveredConcat
<1> QED BY <1>5, <1>6, <1>10, <1>11 DEF CallsInv, b, m2, made, n

\* No call is made, and the lines stay.
LEMMA Calls_Same ==
    ASSUME TypeOK, TypeOK', CallsInv, SessionsInv, LinesKept, UNCHANGED workerVars, Calls' = Calls,
           Waiting' \in {Waiting, <<>>}
    PROVE  CallsInv' /\ SessionsInv'
<1>0. DescTypeOK /\ DescTypeOK'
  BY Groups, GroupsNext
<1>1. Grows /\ Len(local) <= Len(local') /\ Len(remote') = Len(remote)
  BY <1>0, KeptGrows, AgreedFacts DEF LinesKept, SameLines
<1>2. Calls \in Seq(PeerCall) /\ <<>> \in Seq(PeerCall) /\ DOMAIN <<>> = {}
  BY CallsType, EmptySeq
<1>3. Calls' = Calls \o <<>>
  BY <1>2
<1>4. Covered(Calls, Len(remote'), Len(sessions))
  BY <1>1 DEF CallsInv
<1>5. \A i \in DOMAIN Waiting' : Prepares(Waiting'[i])
  BY <1>2 DEF CallsInv
<1> QED BY <1>1, <1>2, <1>3, <1>4, <1>5, Calls_Page

\* Calls that do not concern the lines are made.
LEMMA Calls_Insert ==
    ASSUME TypeOK, TypeOK', CallsInv, SessionsInv, UNCHANGED <<local, remote, waiting, workerVars>>,
           NEW x \in Seq(PeerCall), toWorker' = toWorker \o x,
           \A i \in DOMAIN x : ~Prepares(x[i]) /\ x[i].call # "addRemoteCandidate"
    PROVE  CallsInv' /\ SessionsInv'
<1>1. Waiting' = Waiting /\ Agreed' = Agreed /\ UNCHANGED <<sessions, receivePrepared, sendPrepared>>
  BY DEF Waiting, Agreed, workerVars
<1>2. SessionsInv'
  BY <1>1 DEF SessionsInv, Fits
<1>3. Calls' = (toWorker \o x) \o Waiting
  BY <1>1 DEF Calls
<1>4. /\ CallsFit(toWorker \o Waiting, Agreed, Len(local), Len(sessions))
      /\ Covered(toWorker \o Waiting, Len(remote), Len(sessions))
      /\ \A i \in DOMAIN Waiting : Prepares(Waiting[i])
  BY DEF CallsInv, Calls
<1>5. /\ CallsFit((toWorker \o x) \o Waiting, Agreed, Len(local), Len(sessions))
      /\ Covered((toWorker \o x) \o Waiting, Len(remote), Len(sessions))
  BY <1>4, CallsType, CallsInsert
<1> QED BY <1>1, <1>2, <1>3, <1>4, <1>5 DEF CallsInv
\* The calls that follow a description of this end.
LEMMA Calls_SetLocal ==
    ASSUME TypeOK, TypeOK', CallsInv, SessionsInv, LinesInv', Grows, Len(local) <= Len(local'),
           Len(Agreed) <= Len(local'), UNCHANGED <<workerVars, remote>>,
           NEW lines \in Seq(LineOfThisEnd), local' = lines, NEW b \in BOOLEAN,
           Calls' = Calls \o CallsForLocal(lines, b), Waiting' \in {<<>>, CallsForLocal(lines, b)}
    PROVE  CallsInv' /\ SessionsInv'
<1> DEFINE x == CallsForLocal(lines, b)
           c == Calls
           d == c \o x
<1>0. DescTypeOK /\ DescTypeOK' /\ remote \in Seq(RemoteLine)
  BY Groups, GroupsNext DEF DescTypeOK
<1>1. /\ x \in Seq(PeerCall)
      /\ \A i \in DOMAIN x : \/ i = 1 /\ Len(lines) > Len(local) /\ x[i] = PrepareToReceive(lines, b)
                             \/ remote # <<>> /\ x[i] = PrepareToSend(remote, b)
      /\ remote # <<>> => \E i \in DOMAIN x : x[i] = PrepareToSend(remote, b)
  BY <1>0, CallsForLocalFacts
<1>2. c \in Seq(PeerCall) /\ CallsFit(c, Agreed, Len(local), Len(sessions))
  BY CallsType DEF CallsInv
<1>3. Calls' = d /\ Waiting' \in {<<>>, x}
  OBVIOUS
<1> HIDE DEF x, c
<1>4. /\ Len(c) \in Nat /\ DOMAIN x = 1..Len(x)
      /\ (\A i \in 1..Len(c) : d[i] = c[i] /\ i \in DOMAIN c)
      /\ \A i \in DOMAIN x : d[Len(c) + i] = x[i]
  BY <1>1, <1>2, ConcatFacts, SequenceFacts
<1>5. Prepares(PrepareToReceive(lines, b)) /\ Prepares(PrepareToSend(remote, b))
  BY DEF Prepares, PrepareToReceive, PrepareToSend
<1>6. /\ Len(sessions) \in Nat /\ Len(Agreed) \in Nat /\ Len(local) \in Nat /\ Len(lines) \in Nat
      /\ Len(sessions) <= Len(Agreed) /\ Len(Agreed) <= Len(lines)
  BY <1>0, AgreedFacts, CallsType, SequenceFacts DEF SessionsInv, Fits
<1>7. FitLines(lines, Agreed') /\ FitLines(remote, Agreed')
  BY DEF LinesInv, Fits, FitLines
<1> HIDE DEF d
<1>8. ASSUME NEW i \in DOMAIN x PROVE CallFits(d, Len(c) + i, Agreed', Len(local'), Len(sessions))
  <2>1. CASE i = 1 /\ x[i] = PrepareToReceive(lines, b)
    <3> DEFINE k == Len(c) + i
    <3>1. d[k].lines = lines /\ d[k].call = "prepareToReceive"
      <4>1. d[k] = x[i]
        BY <1>4
      <4>2. d[k] = PrepareToReceive(lines, b)
        BY <2>1, <4>1
      <4> HIDE DEF k
      <4> QED BY <4>2 DEF PrepareToReceive
    <3>2. ASSUME NEW j \in 1..(k - 1), Prepares(d[j]) PROVE Len(d[j].lines) <= Len(lines)
      <4>1. j \in DOMAIN c /\ d[j] = c[j]
        BY <1>4, <2>1
      <4>2. CallFits(c, j, Agreed, Len(local), Len(sessions)) /\ c[j] \in PeerCall
        BY <1>2, <4>1, SequenceFacts DEF CallsFit
      <4>3. Len(c[j].lines) <= Len(Agreed) /\ Len(c[j].lines) \in Nat
        BY <3>2, <4>1, <4>2, PrepareFields DEF CallFits, FitLines
      <4> QED BY <1>6, <4>1, <4>3
    <3>3. Len(lines) <= Len(local') /\ Len(sessions) <= Len(lines)
      BY <1>6
    <3> HIDE DEF k
    <3>4. CallFits(d, k, Agreed', Len(local'), Len(sessions))
      BY <1>7, <3>1, <3>2, <3>3 DEF CallFits
    <3> QED BY <3>4 DEF k
  <2>2. CASE x[i] = PrepareToSend(remote, b)
    <3> DEFINE k == Len(c) + i
    <3>1. d[k].lines = remote /\ d[k].call = "prepareToSend"
      BY <1>4, <2>2 DEF PrepareToSend
    <3> HIDE DEF k
    <3>2. CallFits(d, k, Agreed', Len(local'), Len(sessions))
      BY <1>7, <3>1 DEF CallFits
    <3> QED BY <3>2 DEF k
  <2> QED BY <1>1, <2>1, <2>2
<1>9. Covered(c, Len(remote'), Len(sessions))
  BY DEF CallsInv, c
<1>10. \A i \in DOMAIN Waiting' : Prepares(Waiting'[i])
  <2>1. \A i \in DOMAIN x : Prepares(x[i])
    BY <1>1, <1>5
  <2>2. DOMAIN <<>> = {}
    OBVIOUS
  <2> QED BY <1>3, <2>1, <2>2
<1> QED BY <1>1, <1>3, <1>8, <1>9, <1>10, Calls_Page DEF c, d

\* The call that follows a description of the other end.
LEMMA Calls_SetRemote ==
    ASSUME TypeOK, TypeOK', CallsInv, SessionsInv, LinesInv', Grows, UNCHANGED <<workerVars, local>>,
           NEW lines \in Seq(RemoteLine), remote' = lines, NEW b \in BOOLEAN,
           Calls' = Calls \o <<PrepareToSend(lines, b)>>, Waiting' \in {<<>>, <<PrepareToSend(lines, b)>>}
    PROVE  CallsInv' /\ SessionsInv'
<1> DEFINE e == PrepareToSend(lines, b)
           x == <<e>>
           c == Calls
           d == c \o x
<1>0. DescTypeOK /\ DescTypeOK'
  BY Groups, GroupsNext
<1>1. e \in PeerCall /\ Prepares(e) /\ e.call = "prepareToSend" /\ e.lines = lines
  BY <1>0, CallTypes DEF Prepares, PrepareToSend
<1>2. Calls' = d /\ Waiting' \in {<<>>, x} /\ c \in Seq(PeerCall)
  BY CallsType
<1> HIDE DEF e, c
<1>3. x \in Seq(PeerCall) /\ Len(x) = 1 /\ DOMAIN x = {1} /\ x[1] = e
  BY <1>1, SingleFacts
<1> HIDE DEF x
<1>4. d[Len(c) + 1] = e
  BY <1>2, <1>3, ConcatFacts
<1>5. FitLines(lines, Agreed')
  BY DEF LinesInv, Fits, FitLines
<1> HIDE DEF d
<1>6. ASSUME NEW i \in DOMAIN x PROVE CallFits(d, Len(c) + i, Agreed', Len(local'), Len(sessions))
  <2>1. i = 1
    BY <1>3
  <2>2. CallFits(d, Len(c) + 1, Agreed', Len(local'), Len(sessions))
    BY <1>1, <1>4, <1>5 DEF CallFits
  <2> QED BY <2>1, <2>2
<1>7. Covered(x, Len(remote'), Len(sessions))
  <2>1. 1 \in DOMAIN x /\ x[1].call = "prepareToSend" /\ Len(remote') <= Len(x[1].lines)
    <3>1. Len(lines) \in Nat /\ Len(remote') = Len(lines)
      BY SequenceFacts
    <3> QED BY <1>1, <1>3, <3>1
  <2> QED BY <2>1 DEF Covered
<1>8. \A i \in DOMAIN Waiting' : Prepares(Waiting'[i])
  <2>1. DOMAIN <<>> = {}
    OBVIOUS
  <2> QED BY <1>1, <1>2, <1>3, <2>1
<1>9. Len(local) <= Len(local')
  BY <1>0, AgreedFacts
<1> QED BY <1>2, <1>3, <1>6, <1>7, <1>8, <1>9, Calls_Page DEF c, d

\* A candidate is for a line that has its session or is getting it.
LEMMA Calls_AddCandidate ==
    ASSUME TypeOK, TypeOK', CallsInv, SessionsInv, LinesKept, UNCHANGED workerVars,
           NEW e \in PeerCall, e.call = "addRemoteCandidate", e.line \in DOMAIN remote,
           Calls' = Calls \o <<e>>, Waiting' = <<>>
    PROVE  CallsInv' /\ SessionsInv'
<1> DEFINE x == <<e>>
           c == Calls
           d == c \o x
<1>0. DescTypeOK /\ DescTypeOK'
  BY Groups, GroupsNext
<1>1. /\ Calls' = d /\ c \in Seq(PeerCall) /\ Covered(c, Len(remote), Len(sessions))
      /\ Len(sessions) \in Nat
  BY CallsType DEF CallsInv
<1>2. x \in Seq(PeerCall) /\ Len(x) = 1 /\ DOMAIN x = {1} /\ x[1] = e
  BY SingleFacts
<1> HIDE DEF x, c
<1>3. /\ Len(c) \in Nat /\ d[Len(c) + 1] = e
      /\ \A i \in DOMAIN c : i \in 1..Len(c) /\ d[i] = c[i]
  BY <1>1, <1>2, ConcatFacts, SequenceFacts
<1> HIDE DEF d
<1>4. e.line \in 1..Len(remote) /\ Len(remote) \in Nat /\ Len(remote') = Len(remote)
      /\ Grows /\ Len(local) <= Len(local')
  BY <1>0, KeptGrows, AgreedFacts DEF LinesKept, SameLines
<1>5. \/ e.line \in 1..Len(sessions)
      \/ \E j \in 1..Len(c) : d[j].call = "prepareToSend" /\ e.line \in DOMAIN d[j].lines
  <2>1. CASE Len(remote) <= Len(sessions)
    BY <1>1, <1>4, <2>1
  <2>2. CASE \E j \in DOMAIN c : c[j].call = "prepareToSend" /\ Len(remote) <= Len(c[j].lines)
    <3>1. PICK j \in DOMAIN c : c[j].call = "prepareToSend" /\ Len(remote) <= Len(c[j].lines)
      BY <2>2
    <3>2. DOMAIN c[j].lines = 1..Len(c[j].lines) /\ Len(c[j].lines) \in Nat
      BY <1>1, <3>1, PrepareFields, SequenceFacts DEF Prepares
    <3>3. e.line \in DOMAIN c[j].lines /\ j \in 1..Len(c) /\ d[j] = c[j]
      BY <1>3, <1>4, <3>1, <3>2
    <3> QED BY <3>1, <3>3
  <2> QED BY <1>1, <2>1, <2>2 DEF Covered
<1>6. ASSUME NEW i \in DOMAIN x PROVE CallFits(d, Len(c) + i, Agreed', Len(local'), Len(sessions))
  <2>1. i = 1 /\ (Len(c) + 1) - 1 = Len(c)
    BY <1>2, <1>3
  <2> DEFINE k == Len(c) + 1
  <2>2. d[k] = e /\ k - 1 = Len(c)
    BY <1>3, <2>1
  <2> HIDE DEF k
  <2>3. CallFits(d, k, Agreed', Len(local'), Len(sessions))
    BY <1>5, <2>2 DEF CallFits, Prepares
  <2> QED BY <2>1, <2>3 DEF k
<1>7. Covered(c, Len(remote'), Len(sessions))
  BY <1>1, <1>4
<1>8. \A i \in DOMAIN Waiting' : Prepares(Waiting'[i])
  <2>1. DOMAIN <<>> = {}
    OBVIOUS
  <2> QED BY <2>1
<1> QED BY <1>1, <1>2, <1>4, <1>6, <1>7, <1>8, Calls_Page DEF c, d
LEMMA CreateChannelType ==
    ASSUME NEW n \in Nat, NEW id \in Nat
    PROVE  /\ CreateChannel(n, id) \in PeerCall /\ CreateChannel(n, id).call = "createDataChannel"
           /\ ~Prepares(CreateChannel(n, id))
  BY DEF CreateChannel, PeerCall, Prepares

\* A call that makes a channel.
LEMMA Calls_NewChannel ==
    ASSUME TypeOK, TypeOK', CallsInv, SessionsInv, UNCHANGED <<local, remote, waiting, workerVars>>,
           NEW id \in Nat, NewChannel(id)
    PROVE  CallsInv' /\ SessionsInv'
<1>1. CASE toWorker' = toWorker
  <2>1. UNCHANGED <<Calls, Agreed, Waiting, sessions, receivePrepared, sendPrepared>>
    BY <1>1 DEF Calls, Agreed, Waiting, workerVars
  <2> QED BY <2>1 DEF CallsInv, SessionsInv, Fits
<1>2. CASE toWorker' = Append(toWorker, CreateChannel(Len(channels) + 1, id))
  <2> DEFINE e == CreateChannel(Len(channels) + 1, id)
  <2>1. e \in PeerCall /\ e.call = "createDataChannel" /\ ~Prepares(e)
    <3>1. Len(channels) + 1 \in Nat
      BY Groups, SequenceFacts DEF ChannelTypeOK
    <3> QED BY <3>1, CreateChannelType
  <2> HIDE DEF e
  <2>2. <<e>> \in Seq(PeerCall) /\ DOMAIN <<e>> = {1} /\ <<e>>[1] = e
    BY <2>1, SingleFacts
  <2>3. toWorker' = toWorker \o <<e>>
    <3>1. toWorker \in Seq(PeerCall)
      BY CallsType
    <3> QED BY <1>2, <2>1, <3>1, AppendProperties, ConcatProperties DEF e
  <2> QED BY <2>1, <2>2, <2>3, Calls_Insert
<1> QED BY <1>1, <1>2 DEF NewChannel

LEMMA Calls_Timer ==
    ASSUME TypeOK, TypeOK', QueueInv, PlanInv, LinesInv, LinesInv', CallsInv, SessionsInv, Timer
    PROVE  CallsInv' /\ SessionsInv'
<1>0. /\ QueueTypeOK /\ DescTypeOK /\ DescTypeOK' /\ hist \in History /\ toWorker \in Seq(PeerCall)
  BY Groups, GroupsNext DEF MessageTypeOK
<1>1. ASSUME UNCHANGED <<waiting, toWorker, local, remote, workerVars>>, sig' = sig
      PROVE  CallsInv' /\ SessionsInv'
  <2>1. LinesKept /\ Calls' = Calls /\ Waiting' = Waiting
    BY <1>1, LinesUnchanged DEF NextSig, Calls, Waiting
  <2> QED BY <1>1, <2>1, Calls_Same
<1>2. ASSUME Reject, UNCHANGED workerVars PROVE CallsInv' /\ SessionsInv'
  BY <1>1, <1>2 DEF Reject, CompleteQueuedOperation, descVars
<1>3. ASSUME Throw, UNCHANGED workerVars PROVE CallsInv' /\ SessionsInv'
  BY <1>1, <1>3 DEF Throw, descVars
<1>4. CASE RunCreateOffer
  <2>1. CASE Throw /\ hist' = [hist EXCEPT !.early = TRUE]
    BY <1>3, <1>4, <2>1 DEF RunCreateOffer
  <2>2. CASE CompleteQueuedOperation(Tail(timers), sig, local)
             /\ UNCHANGED <<waiting, hasTrack, hasDataChannels, local, remote, status, toWorker, hist>>
    BY <1>1, <1>4, <2>2 DEF RunCreateOffer, CompleteQueuedOperation
  <2> QED BY <1>4, <2>1, <2>2 DEF RunCreateOffer
<1>5. CASE RunCreateAnswer
  <2>1. CASE Reject
    BY <1>2, <1>5, <2>1 DEF RunCreateAnswer
  <2>2. CASE CompleteQueuedOperation(Tail(timers), sig, local)
             /\ UNCHANGED <<waiting, hasTrack, hasDataChannels, local, remote, status, toWorker, hist>>
    BY <1>1, <1>5, <2>2 DEF RunCreateAnswer, CompleteQueuedOperation
  <2> QED BY <1>5, <2>1, <2>2 DEF RunCreateAnswer
<1>6. CASE RunSetLocalDescription
  <2> DEFINE d == Head(queue).description
             target == Target(sig, "setLocal", d.type)
             b == d.type = "offer"
             calls == CallsForLocal(d.lines, b)
  <2>1. \/ Throw /\ UNCHANGED hist
        \/ Reject
        \/ /\ sig # "closed" /\ target # "none" /\ local' = d.lines
           /\ hist' = [hist EXCEPT !.ended = FALSE,
                                   !.stale = @ \cup {i \in DOMAIN local : local[i].done}]
           /\ WhenPeerHandler(calls, target, d.lines)
           /\ UNCHANGED <<hasTrack, hasDataChannels, remote, status, created>>
    BY <1>6 DEF RunSetLocalDescription
  <2>2. Running("setLocal") /\ UNCHANGED <<known, workerVars>>
    BY <1>6 DEF RunSetLocalDescription
  <2>3. calls \in Seq(PeerCall) /\ d.lines \in Seq(LineOfThisEnd) /\ b \in BOOLEAN
    <3>1. d \in LocalDescription
      BY <1>0, <2>2, HeadFacts
    <3>2. d.lines \in Seq(LineOfThisEnd) /\ b \in BOOLEAN
      BY <3>1 DEF LocalDescription
    <3> QED BY <1>0, <3>2, CallsForLocalFacts
  <2>4. CASE /\ sig # "closed" /\ target # "none" /\ local' = d.lines
             /\ hist' = [hist EXCEPT !.ended = FALSE,
                                     !.stale = @ \cup {i \in DOMAIN local : local[i].done}]
             /\ WhenPeerHandler(calls, target, d.lines)
             /\ UNCHANGED <<hasTrack, hasDataChannels, remote, status, created>>
    <3> HIDE DEF calls
    <3>2. /\ queue' \in {queue, Tail(queue)} /\ NextSig = sig /\ NextSig' = target
          /\ (~known' => waiting' # <<>>) /\ Calls' = Calls \o calls
          /\ waiting' # <<>> => waiting'[1].calls = calls
      BY <1>0, <2>2, <2>3, <2>4, HandlerFacts
    <3>3. Grows /\ Len(local) <= Len(local') /\ Len(Agreed) <= Len(local')
      BY <1>0, <2>2, <2>4, <3>2, Plan_SetLocal
    <3>4. Waiting' \in {<<>>, calls}
      BY <3>2 DEF Waiting
    <3> USE DEF calls
    <3> HIDE DEF b, d
    <3> QED BY <2>2, <2>3, <2>4, <3>2, <3>3, <3>4, Calls_SetLocal
  <2> HIDE DEF d, target, calls
  <2> QED BY <1>2, <1>3, <2>1, <2>2, <2>4
<1>7. CASE RunSetRemoteDescription
  <2> DEFINE d == Head(queue).description
             target == Target(sig, "setRemote", d.type)
             lines == WithSource(d.lines)
             b == d.type = "answer"
             calls == <<PrepareToSend(lines, b)>>
  <2>1. \/ Throw /\ UNCHANGED hist
        \/ Reject
        \/ /\ sig # "closed" /\ target # "none" /\ remote' = lines
           /\ WhenPeerHandler(calls, target, local)
           /\ UNCHANGED <<hasTrack, hasDataChannels, local, created>>
    BY <1>7 DEF RunSetRemoteDescription
  <2>2. Running("setRemote") /\ UNCHANGED <<known, workerVars>>
    BY <1>7 DEF RunSetRemoteDescription
  <2>3. /\ calls \in Seq(PeerCall) /\ SameLines(lines, d.lines)
        /\ lines \in Seq(RemoteLine) /\ b \in BOOLEAN
    <3>1. d \in RemoteDescription
      BY <1>0, <2>2, HeadFacts
    <3>2. d.lines \in Seq(OfferLine) /\ b \in BOOLEAN
      BY <3>1 DEF RemoteDescription
    <3>3. /\ lines \in Seq(RemoteLine) /\ Len(lines) = Len(d.lines)
          /\ \A i \in DOMAIN d.lines : lines[i].kind = d.lines[i].kind
      BY <1>0, <3>2, WithSourceType
    <3> HIDE DEF lines, b
    <3>4. PrepareToSend(lines, b) \in PeerCall
      BY <1>0, <3>2, <3>3, CallTypes
    <3> QED BY <3>2, <3>3, <3>4, SingleFacts DEF SameLines
  <2>4. CASE /\ sig # "closed" /\ target # "none" /\ remote' = lines
             /\ WhenPeerHandler(calls, target, local)
             /\ UNCHANGED <<hasTrack, hasDataChannels, local, created>>
    <3> HIDE DEF calls, lines, b
    <3>1. /\ queue' \in {queue, Tail(queue)} /\ NextSig = sig /\ NextSig' = target
          /\ (~known' => waiting' # <<>>) /\ Calls' = Calls \o calls
          /\ waiting' # <<>> => waiting'[1].calls = calls
      BY <1>0, <2>2, <2>3, <2>4, HandlerFacts
    <3>2. SameLines(remote', d.lines)
      BY <2>3, <2>4
    <3>3. Grows
      BY <1>0, <2>2, <2>4, <3>1, <3>2, Plan_SetRemote
    <3>4. Waiting' \in {<<>>, calls}
      BY <3>1 DEF Waiting
    <3> QED BY <2>2, <2>3, <2>4, <3>1, <3>3, <3>4, Calls_SetRemote DEF calls
  <2> HIDE DEF d, target, lines, calls
  <2> QED BY <1>2, <1>3, <2>1, <2>2, <2>4
<1>8. CASE RunAddIceCandidate
  <2> DEFINE op == Head(queue)
             e == [call |-> "addRemoteCandidate", line |-> op.line, candidate |-> op.candidate]
             calls == <<e>>
  <2>1. \/ Reject
        \/ /\ op.line \in DOMAIN remote
           /\ remote' = [remote EXCEPT ![op.line].candidates = @ \cup {op.candidate}]
           /\ WhenPeerHandler(calls, sig, local)
           /\ UNCHANGED <<hasTrack, hasDataChannels, local, status, created, hist>>
    BY <1>8 DEF RunAddIceCandidate
  <2>2. Running("addCandidate") /\ UNCHANGED <<known, workerVars>>
    BY <1>8 DEF RunAddIceCandidate
  <2>3. op.line \in Nat /\ op.candidate \in Component
    BY <1>0, <2>2, HeadFacts, OperationFields
  <2> HIDE DEF op
  <2>4. e \in PeerCall /\ e.call = "addRemoteCandidate" /\ e.line = op.line
    BY <2>3 DEF PeerCall
  <2> HIDE DEF e
  <2>5. calls \in Seq(PeerCall)
    BY <2>4, SingleFacts
  <2>6. CASE /\ op.line \in DOMAIN remote
             /\ remote' = [remote EXCEPT ![op.line].candidates = @ \cup {op.candidate}]
             /\ WhenPeerHandler(calls, sig, local)
             /\ UNCHANGED <<hasTrack, hasDataChannels, local, status, created, hist>>
    <3> HIDE DEF calls
    <3>1. NextSig' = NextSig /\ Calls' = Calls \o calls
      BY <1>0, <2>2, <2>5, <2>6, HandlerFacts
    <3>2. SameLines(remote', remote)
      BY <1>0, <2>3, <2>6, AddCandidateType DEF DescTypeOK
    <3>3. LinesKept
      BY <2>6, <3>1, <3>2 DEF LinesKept, SameLines
    <3>4. known
      <4>1. waiting = <<>>
        BY <1>0, <2>2, RunningTimers
      <4>2. remote # <<>>
        <5>1. DOMAIN <<>> = {}
          OBVIOUS
        <5> QED BY <2>6, <5>1
      <4> QED BY <4>1, <4>2 DEF LinesInv
    <3>5. Waiting' = <<>>
      <4>1. waiting = <<>>
        BY <1>0, <2>2, RunningTimers
      <4>2. waiting' = waiting
        BY <2>6, <3>4 DEF WhenPeerHandler
      <4> QED BY <4>1, <4>2 DEF Waiting
    <3> QED BY <2>2, <2>4, <2>6, <3>1, <3>3, <3>5, Calls_AddCandidate DEF calls
  <2> QED BY <1>2, <2>1, <2>2, <2>6
<1>9. CASE RunMaybeDispatch \/ RunDispatchNegotiationNeeded
  <2>1. UNCHANGED <<sig, waiting, toWorker, local, remote, workerVars>>
    BY <1>9 DEF RunMaybeDispatch, RunDispatchNegotiationNeeded, descVars
  <2> QED BY <1>1, <2>1
<1> QED BY <1>4, <1>5, <1>6, <1>7, <1>8, <1>9 DEF Timer

LEMMA Calls_Script ==
    ASSUME TypeOK, TypeOK', CallsInv, SessionsInv, Script PROVE CallsInv' /\ SessionsInv'
<1>0. hist \in History /\ QueueTypeOK /\ ChannelTypeOK
  BY Groups
<1>1. ASSUME UNCHANGED <<waiting, toWorker, local, remote, workerVars>>, sig' \in {sig, "closed"}
      PROVE  CallsInv' /\ SessionsInv'
  <2>1. LinesKept /\ Calls' = Calls /\ Waiting' = Waiting
    BY <1>1, LinesUnchanged DEF NextSig, Calls, Waiting
  <2> QED BY <1>1, <2>1, Calls_Same
<1>2. ASSUME NEW op, NEW f, EnqueueOperation(op, f), PageUnchanged PROVE CallsInv' /\ SessionsInv'
  <2> QED BY <1>1, <1>2 DEF EnqueueOperation, PageUnchanged
<1>3. CASE CreateOffer \/ CreateAnswer \/ SetLocalDescription \/ SetRemoteOffer \/ SetRemoteAnswer
           \/ AddIceCandidate
  BY <1>2, <1>3 DEF CreateOffer, CreateAnswer, SetLocalDescription, SetRemoteOffer, SetRemoteAnswer,
                    AddIceCandidate
<1>4. CASE AddStream
  BY <1>1, <1>4 DEF AddStream
<1>5. CASE Close
  BY <1>1, <1>5 DEF Close, descVars
<1>6. CASE CreateDataChannel
  <2>2. UNCHANGED <<waiting, local, remote, workerVars, sig>> /\ NewChannel(Unassigned)
    BY <1>6 DEF CreateDataChannel
  <2> QED BY <1>0, <1>1, <2>2, Calls_NewChannel DEF Unassigned
<1> QED BY <1>3, <1>4, <1>5, <1>6 DEF Script

\* The calls that make the channels that were deferred.
LEMMA DeferredType ==
    ASSUME ChannelTypeOK
    PROVE  LET x == [k \in DOMAIN deferred |-> CreateChannel(deferred[k], channels[deferred[k]])]
           IN  /\ x \in Seq(PeerCall)
               /\ \A i \in DOMAIN x : ~Prepares(x[i]) /\ x[i].call = "createDataChannel"
<1> DEFINE x == [k \in DOMAIN deferred |-> CreateChannel(deferred[k], channels[deferred[k]])]
<1>1. /\ DOMAIN deferred = 1..Len(deferred) /\ Len(deferred) \in Nat
      /\ \A k \in DOMAIN deferred : deferred[k] \in DOMAIN channels
  BY SequenceFacts DEF ChannelTypeOK
<1>2. DOMAIN channels \subseteq Nat /\ \A n \in DOMAIN channels : channels[n] \in Nat
  BY SequenceFacts DEF ChannelTypeOK
<1>3. ASSUME NEW k \in DOMAIN deferred
      PROVE  x[k] \in PeerCall /\ x[k].call = "createDataChannel" /\ ~Prepares(x[k])
  <2>1. deferred[k] \in Nat /\ channels[deferred[k]] \in Nat
    BY <1>1, <1>2
  <2> QED BY <2>1, CreateChannelType
<1>4. DOMAIN x = DOMAIN deferred
  OBVIOUS
<1>5. x \in [1..Len(deferred) -> PeerCall]
  BY <1>1, <1>3
<1> HIDE DEF x
<1>6. x \in Seq(PeerCall)
  BY <1>1, <1>5, FunctionSequence
<1> QED BY <1>3, <1>4, <1>6 DEF x

LEMMA Calls_PageMessage ==
    ASSUME TypeOK, TypeOK', QueueInv, CallsInv, SessionsInv, PageMessage
    PROVE  CallsInv' /\ SessionsInv'
<1>0. /\ QueueTypeOK /\ DescTypeOK /\ ChannelTypeOK /\ MessageTypeOK /\ hist \in History
  BY Groups
<1>1. ASSUME LinesKept, UNCHANGED <<waiting, toWorker, workerVars>> PROVE CallsInv' /\ SessionsInv'
  BY <1>1, Calls_Same DEF Calls, Waiting
<1>2. CASE GotPeerHandler
  <2>0. known' = TRUE /\ waiting' = <<>> /\ UNCHANGED <<local, remote, hist, workerVars>>
    BY <1>2 DEF GotPeerHandler, descVars
  <2>1. CASE waiting = <<>>
    <3>1. UNCHANGED <<sig, toWorker>>
      BY <1>2, <2>1 DEF GotPeerHandler
    <3>2. LinesKept
      BY <2>0, <2>1, <3>1, LinesUnchanged DEF NextSig
    <3> QED BY <1>1, <2>0, <2>1, <3>1, <3>2
  <2>2. CASE waiting # <<>>
    <3>1. sig' = waiting[1].target /\ toWorker' = toWorker \o waiting[1].calls
      BY <1>2, <2>2 DEF GotPeerHandler, Applied, CompleteQueuedOperation
    <3>2. LinesKept
      BY <2>0, <2>2, <3>1, LinesUnchanged DEF NextSig
    <3>3. Calls = toWorker' /\ Waiting' = <<>>
      BY <2>0, <2>2, <3>1 DEF Calls, Waiting
    <3>4. Calls' = toWorker' \o Waiting'
      BY DEF Calls
    <3>5. Calls \in Seq(PeerCall)
      BY CallsType
    <3>6. Calls' = Calls
      BY <3>3, <3>4, <3>5
    <3> QED BY <2>0, <3>2, <3>3, <3>6, Calls_Same
  <2> QED BY <2>1, <2>2
<1>3. CASE CandidateGatheringDone
  <2>1. UNCHANGED <<waiting, toWorker, workerVars>>
    BY <1>3 DEF CandidateGatheringDone, queueVars
  <2> QED BY <1>0, <1>1, <1>3, <2>1, DoneKept
<1>4. CASE GotIceCandidate \/ GotRemoteSource \/ GotChannel
  <2>1. UNCHANGED <<sig, waiting, toWorker, local, remote, workerVars>>
    BY <1>4 DEF GotIceCandidate, GotRemoteSource, GotChannel, queueVars, descVars
  <2>3. LinesKept
    BY <2>1, LinesUnchanged DEF NextSig
  <2> QED BY <1>1, <2>1, <2>3
<1>5. CASE DataChannelRequested
  <2>1. UNCHANGED <<local, remote, waiting, workerVars>> /\ NewChannel(Head(toPage).id)
    BY <1>5 DEF DataChannelRequested, queueVars, descVars
  <2>2. Head(toPage).id \in Nat
    <3>1. Head(toPage) \in PageEvent /\ Head(toPage).event = "dataChannelRequested"
      BY <1>0, <1>5, TailFacts DEF DataChannelRequested, FromWorker, MessageTypeOK
    <3> QED BY <3>1, EventFields
  <2> QED BY <2>1, <2>2, Calls_NewChannel
<1>6. CASE DataChannelsEnabled
  <2> DEFINE x == [k \in DOMAIN deferred |-> CreateChannel(deferred[k], channels[deferred[k]])]
  <2>1. toWorker' = toWorker \o x /\ UNCHANGED <<local, remote, waiting, workerVars>>
    BY <1>6 DEF DataChannelsEnabled, queueVars, descVars
  <2>2. x \in Seq(PeerCall) /\ \A i \in DOMAIN x : ~Prepares(x[i]) /\ x[i].call = "createDataChannel"
    BY <1>0, DeferredType
  <2> HIDE DEF x
  <2> QED BY <2>1, <2>2, Calls_Insert
<1> QED BY <1>2, <1>3, <1>4, <1>5, <1>6 DEF PageMessage

\* What is prepared leaves the rest of a session alone.
LEMMA PreparedFields ==
    ASSUME NEW x \in Session, NEW mux, NEW c, NEW s, NEW sends
    PROVE  LET r == [x EXCEPT !.mux = mux, !.added = @ + 1, !.gathering = "going"]
               t == [x EXCEPT !.mux = mux, !.candidates = @ \cup c, !.sending = @ \/ s,
                              !.flow = IF @ = "none" /\ sends THEN "expected" ELSE @]
           IN  /\ r.kind = x.kind /\ r.gathering = "going" /\ r.sending = x.sending
               /\ t.kind = x.kind /\ t.gathering = x.gathering /\ t.added = x.added
               /\ t.sending <=> (x.sending \/ s)
<1> DEFINE g == x.sending \/ s
           f == IF x.flow = "none" /\ sends THEN "expected" ELSE x.flow
           k == x.candidates \cup c
           t == [x EXCEPT !.mux = mux, !.candidates = k, !.sending = g, !.flow = f]
           r == [x EXCEPT !.mux = mux, !.added = @ + 1, !.gathering = "going"]
<1>1. r.kind = x.kind /\ r.gathering = "going" /\ r.sending = x.sending
  BY DEF Session
<1> HIDE DEF g, f, k
<1>2. t.kind = x.kind /\ t.gathering = x.gathering /\ t.added = x.added /\ t.sending = g
  BY DEF Session
<1> QED BY <1>1, <1>2 DEF g, f, k

\* What the first call says about the sessions.
LEMMA HeadCall ==
    ASSUME TypeOK, CallsInv, toWorker # <<>>
    PROVE  /\ Calls # <<>> /\ Calls[1] = Head(toWorker) /\ Head(toWorker) \in PeerCall
           /\ Tail(Calls) = Tail(toWorker) \o Waiting
           /\ CallFits(Calls, 1, Agreed, Len(local), Len(sessions))
<1> DEFINE s == toWorker
           w == Waiting
           c == Calls
<1>1. s \in Seq(PeerCall) /\ w \in Seq(PeerCall) /\ s # <<>> /\ c = s \o w
  BY CallsType DEF Calls
<1> HIDE DEF s, w, c
<1>2. c # <<>> /\ c[1] = s[1] /\ Head(s) = s[1] /\ Head(s) \in PeerCall /\ 1 \in DOMAIN c
  <2>1. Len(s) \in Nat /\ Len(s) > 0 /\ Head(s) = s[1] /\ Head(s) \in PeerCall
    BY <1>1, TailFacts, SequenceFacts
  <2>2. /\ Len(c) = Len(s) + Len(w) /\ DOMAIN c = 1..(Len(s) + Len(w)) /\ Len(w) \in Nat
        /\ \A i \in 1..Len(s) : c[i] = s[i]
    BY <1>1, ConcatFacts, SequenceFacts
  <2>3. c # <<>>
    BY <2>1, <2>2, EmptySeq
  <2> QED BY <2>1, <2>2, <2>3
<1>3. Tail(c) = Tail(s) \o w
  BY <1>1
<1>4. CallsFit(c, Agreed, Len(local), Len(sessions))
  BY DEF CallsInv, c
<1> QED BY <1>2, <1>3, <1>4 DEF CallsFit, s, w, c

\* The worker takes the first call.
LEMMA Calls_Taken ==
    ASSUME TypeOK, TypeOK', CallsInv, toWorker # <<>>, toWorker' = Tail(toWorker), WorkerOnly,
           Len(sessions) <= Len(sessions'),
           \/ Len(sessions') = Len(sessions)
           \/ Prepares(Head(toWorker)) /\ Len(sessions') = Len(Head(toWorker).lines),
           Head(toWorker).call = "prepareToSend" => Len(Head(toWorker).lines) <= Len(sessions')
    PROVE  CallsInv'
<1>1. UNCHANGED <<local, remote, Waiting, Agreed>>
  BY DEF WorkerOnly, queueVars, descVars, Waiting, Agreed
<1>2. Calls' = Tail(Calls) /\ Calls # <<>> /\ Calls[1] = Head(toWorker) /\ Calls \in Seq(PeerCall)
  BY <1>1, HeadCall, CallsType DEF Calls
<1>3. Len(sessions) \in Nat /\ Len(remote) \in Nat
  BY Groups, CallsType, SequenceFacts DEF DescTypeOK
<1>4. sessions' \in Seq(Session)
  BY GroupsNext DEF WorkerTypeOK
<1>5. Len(sessions') \in Nat
  BY <1>4, SequenceFacts
<1>6. CallsFit(Calls, Agreed, Len(local), Len(sessions)) /\ Covered(Calls, Len(remote), Len(sessions))
      /\ \A i \in DOMAIN Waiting : Prepares(Waiting[i])
  BY DEF CallsInv
<1>7. CallsFit(Tail(Calls), Agreed, Len(local), Len(sessions'))
      /\ Covered(Tail(Calls), Len(remote), Len(sessions'))
  BY <1>2, <1>3, <1>5, <1>6, CallsTaken
<1> QED BY <1>1, <1>2, <1>6, <1>7 DEF CallsInv

\* The sessions made for the lines of a call.
LEMMA MadeFacts ==
    ASSUME TypeOK, SessionsInv, NEW S, NEW lines \in Seq(S), S \in {LineOfThisEnd, RemoteLine},
           NEW b \in BOOLEAN, FitLines(lines, Agreed)
    PROVE  LET all == WithSessions(lines, b)
           IN  /\ all \in Seq(Session) /\ Len(all) \in Nat /\ DOMAIN all = 1..Len(all)
               /\ Len(all) = IF Len(lines) > Len(sessions) THEN Len(lines) ELSE Len(sessions)
               /\ Len(sessions) <= Len(all) /\ Len(lines) <= Len(all) /\ Len(all) <= Len(Agreed)
               /\ \A i \in DOMAIN all : all[i] \in Session /\ all[i].kind = Agreed[i].kind
               /\ \A i \in DOMAIN all : i \notin DOMAIN sessions => ~all[i].sending
               /\ \A i \in DOMAIN sessions : all[i] = sessions[i] /\ i \in DOMAIN all
               /\ \A i \in DOMAIN all :
                     (all[i].added = 0 /\ all[i].gathering = "not") \/ i <= receivePrepared
<1>0. /\ WorkerTypeOK /\ DescTypeOK /\ Len(sessions) \in Nat /\ DOMAIN sessions = 1..Len(sessions)
      /\ \A i \in DOMAIN lines : lines[i].kind \in Kind
      /\ Len(lines) \in Nat /\ DOMAIN lines = 1..Len(lines)
  BY Groups, CallsType, LineKinds, SequenceFacts
<1> DEFINE all == WithSessions(lines, b)
<1>1. /\ all \in Seq(Session)
      /\ Len(all) = IF Len(lines) > Len(sessions) THEN Len(lines) ELSE Len(sessions)
      /\ \A i \in DOMAIN sessions : all[i] = sessions[i]
      /\ \A i \in DOMAIN all : i \notin DOMAIN sessions =>
            /\ i \in DOMAIN lines /\ all[i].kind = lines[i].kind
            /\ all[i].added = 0 /\ all[i].gathering = "not" /\ ~all[i].sending
  BY <1>0, WithSessionsType
<1> HIDE DEF all
<1>2. Len(all) \in Nat /\ DOMAIN all = 1..Len(all) /\ \A i \in DOMAIN all : all[i] \in Session
  BY <1>1, SequenceFacts
<1>3. /\ Len(lines) <= Len(Agreed) /\ \A i \in DOMAIN lines : lines[i].kind = Agreed[i].kind
      /\ Len(sessions) <= Len(Agreed) /\ \A i \in DOMAIN sessions : sessions[i].kind = Agreed[i].kind
      /\ \A i \in DOMAIN sessions :
            (sessions[i].added = 0 /\ sessions[i].gathering = "not") \/ i <= receivePrepared
  BY DEF FitLines, SessionsInv, Fits
<1>4. \A i \in DOMAIN all : all[i].kind = Agreed[i].kind
  BY <1>1, <1>3
<1>5. \A i \in DOMAIN sessions : i \in DOMAIN all
  BY <1>0, <1>1, <1>2
<1>6. Len(sessions) <= Len(all) /\ Len(lines) <= Len(all) /\ Len(all) <= Len(Agreed)
  BY <1>0, <1>1, <1>3
<1>7. \A i \in DOMAIN all : (all[i].added = 0 /\ all[i].gathering = "not") \/ i <= receivePrepared
  BY <1>1, <1>3
<1> QED BY <1>1, <1>2, <1>4, <1>5, <1>6, <1>7 DEF all

\* prepareToReceive, on what the properties look at.
LEMMA ReceiveFacts ==
    ASSUME TypeOK, CallsInv, SessionsInv, ReceivePrepareToReceive
    PROVE  LET n == Len(Head(toWorker).lines)
           IN  /\ n \in Nat /\ n <= Len(local) /\ n <= Len(Agreed) /\ Len(sessions) <= n
               /\ DOMAIN sessions' = 1..n /\ Len(sessions') = n /\ receivePrepared' = n
               /\ \A i \in 1..n : sessions'[i].kind = Agreed[i].kind
               /\ \A i \in DOMAIN sessions : /\ i \in 1..n /\ sessions'[i].kind = sessions[i].kind
                                             /\ sessions'[i].sending = sessions[i].sending
               /\ \A i \in 1..n : IF i <= receivePrepared
                                  THEN i \in DOMAIN sessions /\ sessions'[i] = sessions[i]
                                  ELSE sessions'[i].gathering = "going"
               /\ toPage' = toPage \/ ( /\ toPage' = Append(toPage, [event |-> "dataChannelsEnabled"])
                                        /\ HasKind(sessions', "application"))
<1> DEFINE msg == Head(toWorker)
           l == msg.lines
           b == msg.initiator
           all == WithSessions(l, b)
           fresh == (receivePrepared + 1)..Len(all)
           enabled == {i \in fresh : all[i].kind = "application"}
           f == [i \in DOMAIN all |->
                    IF i \notin fresh THEN all[i]
                    ELSE [all[i] EXCEPT !.mux = ~b /\ l[i].mux, !.added = @ + 1, !.gathering = "going"]]
<1>1. /\ sessions' = f /\ receivePrepared' = Len(all) /\ toWorker # <<>> /\ msg.call = "prepareToReceive"
      /\ toPage' = IF enabled = {} THEN toPage ELSE Append(toPage, [event |-> "dataChannelsEnabled"])
  BY DEF ReceivePrepareToReceive, ToPeerHandler
<1>2. CallFits(Calls, 1, Agreed, Len(local), Len(sessions)) /\ Calls[1] = msg /\ msg \in PeerCall
  BY <1>1, HeadCall
<1>3. l \in Seq(LineOfThisEnd) /\ b \in BOOLEAN
  BY <1>1, <1>2, CallFields
<1>4. FitLines(l, Agreed) /\ Len(l) <= Len(local) /\ Len(sessions) <= Len(l)
  BY <1>1, <1>2 DEF CallFits, Prepares
<1> HIDE DEF l, b
<1>5. /\ all \in Seq(Session) /\ Len(all) \in Nat /\ DOMAIN all = 1..Len(all)
      /\ Len(all) = IF Len(l) > Len(sessions) THEN Len(l) ELSE Len(sessions)
      /\ Len(all) <= Len(Agreed)
      /\ \A i \in DOMAIN all : all[i] \in Session /\ all[i].kind = Agreed[i].kind
      /\ \A i \in DOMAIN sessions : all[i] = sessions[i] /\ i \in DOMAIN all
  BY <1>3, <1>4, MadeFacts
<1> HIDE DEF all
<1>6. Len(l) \in Nat /\ Len(sessions) \in Nat /\ DOMAIN sessions = 1..Len(sessions)
      /\ receivePrepared \in Nat /\ receivePrepared <= Len(sessions)
  BY <1>3, CallsType, SequenceFacts DEF SessionsInv
<1>7. Len(all) = Len(l)
  BY <1>4, <1>5, <1>6
<1>8. ASSUME NEW i \in DOMAIN all
      PROVE  /\ f[i].kind = all[i].kind /\ f[i].sending = all[i].sending
             /\ IF i \in fresh THEN f[i].gathering = "going" ELSE f[i] = all[i]
  <2>1. CASE i \notin fresh
    BY <2>1
  <2>2. CASE i \in fresh
    <3> DEFINE x == all[i]
               m == ~b /\ l[i].mux
    <3>1. f[i] = [x EXCEPT !.mux = m, !.added = @ + 1, !.gathering = "going"]
      BY <2>2
    <3>2. x \in Session
      BY <1>5
    <3> HIDE DEF x, m, f
    <3>3. f[i].kind = x.kind /\ f[i].sending = x.sending /\ f[i].gathering = "going"
      BY <3>1, <3>2, PreparedFields
    <3> QED BY <2>2, <3>3 DEF x
  <2> QED BY <2>1, <2>2
<1>9. DOMAIN f = DOMAIN all /\ f \in [1..Len(all) -> {f[i] : i \in 1..Len(all)}]
  BY <1>5
<1>10. Len(f) = Len(all)
  <2> DEFINE S == {f[i] : i \in 1..Len(all)}
  <2>1. f \in [1..Len(all) -> S]
    BY <1>9
  <2> HIDE DEF f, S
  <2> QED BY <1>5, <2>1, FunctionSequence
<1>11. \A i \in DOMAIN all : i \in fresh <=> ~(i <= receivePrepared)
  BY <1>5, <1>6
<1>12. enabled # {} => HasKind(f, "application")
  <2>1. \A i \in fresh : i \in DOMAIN all
    BY <1>5, <1>6
  <2> HIDE DEF f, fresh
  <2> QED BY <1>8, <1>9, <2>1 DEF HasKind
<1> HIDE DEF f, fresh, enabled
<1>13. \A i \in 1..Len(l) : IF i <= receivePrepared THEN i \in DOMAIN sessions /\ f[i] = sessions[i]
                                                     ELSE f[i].gathering = "going"
  <2> SUFFICES ASSUME NEW i \in 1..Len(l)
               PROVE  IF i <= receivePrepared THEN i \in DOMAIN sessions /\ f[i] = sessions[i]
                                               ELSE f[i].gathering = "going"
    OBVIOUS
  <2>1. i \in DOMAIN all
    BY <1>5, <1>7
  <2>2. CASE i <= receivePrepared
    <3>1. i \in DOMAIN sessions
      BY <1>6, <2>2
    <3> QED BY <1>5, <1>8, <1>11, <2>1, <2>2, <3>1
  <2>3. CASE ~(i <= receivePrepared)
    BY <1>8, <1>11, <2>1, <2>3
  <2> QED BY <2>2, <2>3
<1>14. \A i \in DOMAIN sessions : f[i].kind = sessions[i].kind /\ f[i].sending = sessions[i].sending
  BY <1>5, <1>8
<1> QED BY <1>1, <1>4, <1>5, <1>6, <1>7, <1>8, <1>9, <1>10, <1>12, <1>13, <1>14 DEF l
\* prepareToSend, on what the properties look at.
LEMMA SendFacts ==
    ASSUME TypeOK, CallsInv, SessionsInv, ReceivePrepareToSend
    PROVE  LET l == Head(toWorker).lines
               n == Len(l)
               m == IF n > Len(sessions) THEN n ELSE Len(sessions)
           IN  /\ l \in Seq(RemoteLine) /\ n \in Nat /\ DOMAIN l = 1..n /\ Len(sessions) \in Nat
               /\ m <= Len(Agreed) /\ n <= m /\ Len(sessions) <= m
               /\ DOMAIN sessions' = 1..m /\ Len(sessions') = m
               /\ \A i \in 1..m : /\ sessions'[i].kind = Agreed[i].kind
                                  /\ \/ sessions'[i].added = 0 /\ sessions'[i].gathering = "not"
                                     \/ i <= receivePrepared
               /\ \A i \in DOMAIN sessions : /\ i \in 1..m /\ sessions'[i].kind = sessions[i].kind
                                             /\ sessions'[i].gathering = sessions[i].gathering
                                             /\ sessions[i].sending => sessions'[i].sending
               /\ \A i \in 1..n : i > sendPrepared /\ l[i].source => sessions'[i].sending /\ i <= sendPrepared'
               /\ sendPrepared' = sendPrepared \/ (sendPrepared' \in 1..n /\ sendPrepared < sendPrepared')
               /\ UNCHANGED <<toPage, receivePrepared>>
<1> DEFINE msg == Head(toWorker)
           l == msg.lines
           b == msg.initiator
           all == WithSessions(l, b)
           fresh == {i \in DOMAIN l : i > sendPrepared}
           prepared == {i \in fresh : l[i].kind = "application" \/ l[i].source}
           f == [i \in DOMAIN all |->
                   IF i \notin DOMAIN l THEN all[i]
                   ELSE LET mux == l[i].kind = "audio" /\ l[i].mux
                        IN  [all[i] EXCEPT
                             !.mux = mux,
                             !.candidates = @ \cup Taken(l[i].candidates, mux),
                             !.sending = @ \/ (i \in fresh /\ l[i].source),
                             !.flow = IF @ = "none" /\ l[i].sends THEN "expected" ELSE @]]
<1>1. /\ sessions' = f /\ toWorker # <<>> /\ msg.call = "prepareToSend" /\ UNCHANGED <<toPage, receivePrepared>>
      /\ IF prepared = {} THEN UNCHANGED sendPrepared
         ELSE \E i \in prepared : (\A j \in prepared : j <= i) /\ sendPrepared' = i
  BY DEF ReceivePrepareToSend, ToPeerHandler
<1>2. CallFits(Calls, 1, Agreed, Len(local), Len(sessions)) /\ Calls[1] = msg /\ msg \in PeerCall
  BY <1>1, HeadCall
<1>3. l \in Seq(RemoteLine) /\ b \in BOOLEAN
  BY <1>1, <1>2, CallFields
<1>4. FitLines(l, Agreed)
  BY <1>1, <1>2 DEF CallFits, Prepares
<1> HIDE DEF l, b
<1>5. /\ all \in Seq(Session) /\ Len(all) \in Nat /\ DOMAIN all = 1..Len(all)
      /\ Len(all) = IF Len(l) > Len(sessions) THEN Len(l) ELSE Len(sessions)
      /\ Len(all) <= Len(Agreed) /\ Len(l) <= Len(all) /\ Len(sessions) <= Len(all)
      /\ \A i \in DOMAIN all : all[i] \in Session /\ all[i].kind = Agreed[i].kind
      /\ \A i \in DOMAIN sessions : all[i] = sessions[i] /\ i \in DOMAIN all
      /\ \A i \in DOMAIN all :
            (all[i].added = 0 /\ all[i].gathering = "not") \/ i <= receivePrepared
  BY <1>3, <1>4, MadeFacts
<1> HIDE DEF all
<1>6. Len(l) \in Nat /\ DOMAIN l = 1..Len(l) /\ Len(sessions) \in Nat /\ sendPrepared \in Nat
  BY <1>3, CallsType, SequenceFacts
<1>7. ASSUME NEW i \in DOMAIN all
      PROVE  /\ f[i].kind = all[i].kind /\ f[i].gathering = all[i].gathering /\ f[i].added = all[i].added
             /\ all[i].sending => f[i].sending
             /\ i \in fresh /\ l[i].source => f[i].sending
  <2>1. CASE i \notin DOMAIN l
    BY <2>1
  <2>2. CASE i \in DOMAIN l
    <3> DEFINE x == all[i]
               m == l[i].kind = "audio" /\ l[i].mux
               c == Taken(l[i].candidates, m)
               s == i \in fresh /\ l[i].source
               o == l[i].sends
    <3>1. f[i] = [x EXCEPT !.mux = m, !.candidates = @ \cup c, !.sending = @ \/ s,
                           !.flow = IF @ = "none" /\ o THEN "expected" ELSE @]
      BY <2>2
    <3>2. x \in Session
      BY <1>5
    <3>3. i \in fresh /\ l[i].source <=> s
      OBVIOUS
    <3> HIDE DEF x, m, f, c, s, o
    <3>4. /\ f[i].kind = x.kind /\ f[i].gathering = x.gathering /\ f[i].added = x.added
          /\ f[i].sending <=> (x.sending \/ s)
      BY <3>1, <3>2, PreparedFields
    <3> QED BY <3>3, <3>4 DEF x
  <2> QED BY <2>1, <2>2
<1>8. DOMAIN f = DOMAIN all /\ f \in [1..Len(all) -> {f[i] : i \in 1..Len(all)}]
  BY <1>5
<1>9. Len(f) = Len(all)
  <2> DEFINE S == {f[i] : i \in 1..Len(all)}
  <2>1. f \in [1..Len(all) -> S]
    BY <1>8
  <2> HIDE DEF f, S
  <2> QED BY <1>5, <2>1, FunctionSequence
<1>10. \A i \in 1..Len(l) : i \in DOMAIN all /\ (i \in fresh <=> i > sendPrepared)
  BY <1>5, <1>6
<1>11. /\ \A i \in 1..Len(l) : i > sendPrepared /\ l[i].source => i <= sendPrepared'
       /\ sendPrepared' = sendPrepared \/ (sendPrepared' \in 1..Len(l) /\ sendPrepared < sendPrepared')
  <2>0. /\ \A i \in 1..Len(l) : i > sendPrepared /\ l[i].source => i \in prepared
        /\ \A i \in prepared : i \in 1..Len(l) /\ sendPrepared < i
    BY <1>6
  <2> HIDE DEF f, fresh, prepared
  <2>1. CASE prepared = {}
    BY <1>1, <2>0, <2>1
  <2>2. CASE prepared # {}
    <3>1. PICK i \in prepared : (\A j \in prepared : j <= i) /\ sendPrepared' = i
      BY <1>1, <2>2
    <3> QED BY <2>0, <3>1
  <2> QED BY <2>1, <2>2
<1> HIDE DEF f, fresh, prepared
<1>12. \A i \in DOMAIN sessions : /\ i \in DOMAIN all /\ f[i].kind = sessions[i].kind
                                  /\ f[i].gathering = sessions[i].gathering
                                  /\ sessions[i].sending => f[i].sending
  BY <1>5, <1>7
<1>13. \A i \in 1..Len(l) : i > sendPrepared /\ l[i].source => f[i].sending
  BY <1>7, <1>10
<1>14. \A i \in 1..Len(all) : /\ f[i].kind = Agreed[i].kind
                              /\ (f[i].added = 0 /\ f[i].gathering = "not") \/ i <= receivePrepared
  BY <1>5, <1>7
<1> QED BY <1>1, <1>3, <1>5, <1>6, <1>8, <1>9, <1>11, <1>12, <1>13, <1>14 DEF l

\* A candidate leaves the rest of the sessions as it is.
LEMMA CandidateFacts ==
    ASSUME TypeOK, ReceiveAddRemoteCandidate
    PROVE  /\ DOMAIN sessions' = DOMAIN sessions /\ Len(sessions') = Len(sessions)
           /\ \A i \in DOMAIN sessions : /\ sessions'[i].kind = sessions[i].kind
                                         /\ sessions'[i].gathering = sessions[i].gathering
                                         /\ sessions'[i].added = sessions[i].added
                                         /\ sessions'[i].sending = sessions[i].sending
           /\ UNCHANGED <<toPage, receivePrepared, sendPrepared>>
<1> DEFINE x == Head(toWorker).line
           c == sessions[x].candidates \cup Taken({Head(toWorker).candidate}, sessions[x].mux)
<1>1. sessions' = [sessions EXCEPT ![x].candidates = c] /\ UNCHANGED <<toPage, receivePrepared, sendPrepared>>
  BY DEF ReceiveAddRemoteCandidate
<1>2. /\ sessions \in [1..Len(sessions) -> Session] /\ Len(sessions) \in Nat
      /\ DOMAIN sessions = 1..Len(sessions)
  BY CallsType, SequenceFacts
<1> HIDE DEF x, c
<1>3. /\ DOMAIN sessions' = 1..Len(sessions)
      /\ \A i \in DOMAIN sessions : /\ sessions'[i].kind = sessions[i].kind
                                    /\ sessions'[i].gathering = sessions[i].gathering
                                    /\ sessions'[i].added = sessions[i].added
                                    /\ sessions'[i].sending = sessions[i].sending
  BY <1>1, <1>2 DEF Session
<1>4. sessions' \in [1..Len(sessions) -> {sessions'[i] : i \in 1..Len(sessions)}]
  BY <1>1, <1>2, <1>3
<1>5. Len(sessions') = Len(sessions)
  BY <1>2, <1>4, FunctionSequence
<1> QED BY <1>1, <1>2, <1>3, <1>5

\* What the transport agent tells of a session.
LEMMA NativeFacts ==
    ASSUME TypeOK, NEW i \in DOMAIN sessions, Gather(i) \/ IncomingSource(i) \/ IncomingChannel(i)
    PROVE  /\ DOMAIN sessions' = DOMAIN sessions /\ Len(sessions') = Len(sessions)
           /\ \A k \in DOMAIN sessions : /\ sessions'[k].kind = sessions[k].kind
                                         /\ sessions'[k].added = sessions[k].added
                                         /\ sessions'[k].sending = sessions[k].sending
                                         /\ k # i => sessions'[k].gathering = sessions[k].gathering
           /\ \/ /\ sessions[i].gathering = "going" /\ sessions'[i].gathering = "found"
                 /\ toPage' = Append(toPage, [event |-> "candidate", line |-> i])
              \/ /\ sessions[i].gathering = "found" /\ sessions'[i].gathering = "done"
                 /\ toPage' = Append(toPage, [event |-> "gatheringDone", line |-> i])
              \/ /\ sessions'[i].gathering = sessions[i].gathering
                 /\ toPage' = Append(toPage, [event |-> "source", line |-> i])
              \/ /\ sessions'[i].gathering = sessions[i].gathering
                 /\ \E n : toPage' = Append(toPage, [event |-> "dataChannelRequested", id |-> n])
           /\ UNCHANGED <<toWorker, receivePrepared, sendPrepared>>
<1>1. /\ sessions \in [1..Len(sessions) -> Session] /\ Len(sessions) \in Nat
      /\ DOMAIN sessions = 1..Len(sessions)
  BY CallsType, SequenceFacts
<1> DEFINE Kept == /\ DOMAIN sessions' = DOMAIN sessions
                   /\ \A k \in DOMAIN sessions : /\ sessions'[k].kind = sessions[k].kind
                                                 /\ sessions'[k].added = sessions[k].added
                                                 /\ sessions'[k].sending = sessions[k].sending
                                                 /\ k # i => sessions'[k].gathering = sessions[k].gathering
<1>2. ASSUME Kept PROVE Len(sessions') = Len(sessions)
  <2>1. DOMAIN sessions' = 1..Len(sessions)
    BY <1>1, <1>2
  <2> QED BY <1>1, <2>1
<1>3. ASSUME NEW g, sessions' = [sessions EXCEPT ![i].gathering = g]
      PROVE  Kept /\ sessions'[i].gathering = g
  BY <1>1, <1>3 DEF Session
<1>4. ASSUME sessions' = [sessions EXCEPT ![i].flow = "arrived"]
      PROVE  Kept /\ sessions'[i].gathering = sessions[i].gathering
  BY <1>1, <1>4 DEF Session
<1>5. ASSUME sessions' = [sessions EXCEPT ![i].channels = "requested"]
      PROVE  Kept /\ sessions'[i].gathering = sessions[i].gathering
  BY <1>1, <1>5 DEF Session
<1> HIDE DEF Kept
<1>6. CASE Gather(i)
  <2>1. UNCHANGED <<toWorker, receivePrepared, sendPrepared>>
    BY <1>6 DEF Gather
  <2>2. CASE /\ sessions[i].gathering = "going"
             /\ sessions' = [sessions EXCEPT ![i].gathering = "found"]
             /\ toPage' = Append(toPage, [event |-> "candidate", line |-> i])
    BY <1>2, <1>3, <2>1, <2>2 DEF Kept
  <2>3. CASE /\ sessions[i].gathering = "found"
             /\ sessions' = [sessions EXCEPT ![i].gathering = "done"]
             /\ toPage' = Append(toPage, [event |-> "gatheringDone", line |-> i])
    BY <1>2, <1>3, <2>1, <2>3 DEF Kept
  <2> QED BY <1>6, <2>2, <2>3 DEF Gather
<1>7. CASE IncomingSource(i)
  BY <1>2, <1>4, <1>7 DEF IncomingSource, Kept
<1>8. CASE IncomingChannel(i)
  BY <1>2, <1>5, <1>8 DEF IncomingChannel, Kept
<1> QED BY <1>6, <1>7, <1>8
LEMMA Calls_Worker ==
    ASSUME TypeOK, TypeOK', LinesInv, CallsInv, SessionsInv, Worker PROVE CallsInv' /\ SessionsInv'
<1>0. /\ WorkerOnly /\ UNCHANGED <<local, remote, Agreed>>
      /\ Len(sessions) \in Nat /\ DOMAIN sessions = 1..Len(sessions)
      /\ receivePrepared \in Nat /\ sendPrepared \in Nat
      /\ Len(local) \in Nat /\ Len(Agreed) \in Nat
  BY WorkerUnchanged, CallsType, Groups, AgreedFacts DEF WorkerOnly, descVars, Agreed
<1>1. receivePrepared <= Len(sessions) /\ sendPrepared <= Len(sessions) /\ receivePrepared <= Len(local)
  BY DEF SessionsInv
<1>2. CASE ReceivePrepareToReceive
  <2> DEFINE n == Len(Head(toWorker).lines)
  <2>1. toWorker # <<>> /\ toWorker' = Tail(toWorker) /\ Prepares(Head(toWorker))
        /\ Head(toWorker).call # "prepareToSend" /\ sendPrepared' = sendPrepared
    BY <1>2 DEF ReceivePrepareToReceive, ToPeerHandler, Prepares
  <2>2. /\ n \in Nat /\ n <= Len(local) /\ n <= Len(Agreed) /\ Len(sessions) <= n
        /\ DOMAIN sessions' = 1..n /\ Len(sessions') = n /\ receivePrepared' = n
        /\ \A i \in 1..n : sessions'[i].kind = Agreed[i].kind
    BY <1>2, ReceiveFacts
  <2>3. CallsInv'
    BY <1>0, <2>1, <2>2, Calls_Taken
  <2> HIDE DEF n
  <2>4. SessionsInv'
    BY <1>0, <1>1, <2>1, <2>2 DEF SessionsInv, Fits
  <2> QED BY <2>3, <2>4
<1>3. CASE ReceivePrepareToSend
  <2> DEFINE l == Head(toWorker).lines
             n == Len(l)
             m == IF n > Len(sessions) THEN n ELSE Len(sessions)
  <2>1. toWorker # <<>> /\ toWorker' = Tail(toWorker) /\ Prepares(Head(toWorker))
    BY <1>3 DEF ReceivePrepareToSend, ToPeerHandler, Prepares
  <2>2. /\ n \in Nat /\ m <= Len(Agreed) /\ n <= m /\ Len(sessions) <= m
        /\ DOMAIN sessions' = 1..m /\ Len(sessions') = m
        /\ \A i \in 1..m : /\ sessions'[i].kind = Agreed[i].kind
                           /\ (sessions'[i].added = 0 /\ sessions'[i].gathering = "not") \/ i <= receivePrepared
        /\ sendPrepared' = sendPrepared \/ (sendPrepared' \in 1..n /\ sendPrepared < sendPrepared')
        /\ receivePrepared' = receivePrepared
    BY <1>3, SendFacts
  <2>3. m = n \/ m = Len(sessions)
    OBVIOUS
  <2>4. CallsInv'
    <3> HIDE DEF m
    <3> QED BY <1>0, <2>1, <2>2, <2>3, Calls_Taken
  <2>5. SessionsInv'
    <3>1. m \in Nat /\ receivePrepared <= m /\ sendPrepared' <= m
      BY <1>0, <1>1, <2>2
    <3> HIDE DEF m, n
    <3>2. Fits(sessions)'
      BY <1>0, <2>2 DEF Fits
    <3> QED BY <1>0, <1>1, <2>2, <3>1, <3>2 DEF SessionsInv
  <2> QED BY <2>4, <2>5
<1>4. ASSUME toWorker # <<>>, toWorker' = Tail(toWorker), Len(sessions') = Len(sessions),
             DOMAIN sessions' = DOMAIN sessions, ~Prepares(Head(toWorker)),
             UNCHANGED <<receivePrepared, sendPrepared>>,
             \A i \in DOMAIN sessions : /\ sessions'[i].kind = sessions[i].kind
                                        /\ sessions'[i].added = sessions[i].added
                                        /\ sessions'[i].gathering = sessions[i].gathering
      PROVE  CallsInv' /\ SessionsInv'
  <2>1. Head(toWorker).call # "prepareToSend"
    BY <1>4 DEF Prepares
  <2>2. CallsInv'
    BY <1>0, <1>4, <2>1, Calls_Taken
  <2> QED BY <1>0, <1>4, <2>2 DEF SessionsInv, Fits
<1>5. CASE ReceiveAddRemoteCandidate
  <2>1. toWorker # <<>> /\ toWorker' = Tail(toWorker) /\ ~Prepares(Head(toWorker))
    BY <1>5 DEF ReceiveAddRemoteCandidate, ToPeerHandler, Prepares
  <2> QED BY <1>4, <1>5, <2>1, CandidateFacts
<1>6. CASE CreatePeerHandler \/ ReceiveCreateDataChannel
  <2>1. /\ toWorker # <<>> /\ toWorker' = Tail(toWorker) /\ ~Prepares(Head(toWorker))
        /\ UNCHANGED <<sessions, receivePrepared, sendPrepared>>
    BY <1>6 DEF CreatePeerHandler, ReceiveCreateDataChannel, ToPeerHandler, Prepares, workerVars
  <2> QED BY <1>4, <2>1
<1> QED BY <1>2, <1>3, <1>5, <1>6 DEF Worker

LEMMA Calls_Native ==
    ASSUME TypeOK, TypeOK', LinesInv, CallsInv, SessionsInv, Native PROVE CallsInv' /\ SessionsInv'
<1>0. WorkerOnly /\ UNCHANGED <<local, remote, waiting, Agreed, Waiting>>
  BY WorkerUnchanged DEF WorkerOnly, queueVars, descVars, Agreed, Waiting
<1>1. CASE KeysGenerated
  <2>1. CASE toWorker' = toWorker
    BY <1>0, <1>1, <2>1 DEF KeysGenerated, workerVars, CallsInv, SessionsInv, Fits, Calls
  <2>2. CASE toWorker' = Append(toWorker, [call |-> "createPeerHandler"])
    <3> DEFINE e == [call |-> "createPeerHandler"]
    <3>1. e \in PeerCall /\ ~Prepares(e) /\ e.call = "createPeerHandler"
      BY DEF PeerCall, Prepares
    <3> HIDE DEF e
    <3>2. <<e>> \in Seq(PeerCall) /\ DOMAIN <<e>> = {1} /\ <<e>>[1] = e
      BY <3>1, SingleFacts
    <3>3. toWorker' = toWorker \o <<e>>
      <4>1. toWorker \in Seq(PeerCall)
        BY CallsType
      <4> QED BY <2>2, <3>1, <4>1, AppendIsConcat DEF e
    <3>4. UNCHANGED workerVars
      BY <1>1 DEF KeysGenerated
    <3> QED BY <1>0, <3>1, <3>2, <3>3, <3>4, Calls_Insert
  <2> QED BY <1>1, <2>1, <2>2 DEF KeysGenerated
<1>2. ASSUME NEW i \in DOMAIN sessions, Gather(i) \/ IncomingSource(i) \/ IncomingChannel(i)
      PROVE  CallsInv' /\ SessionsInv'
  <2>1. /\ DOMAIN sessions' = DOMAIN sessions /\ Len(sessions') = Len(sessions)
        /\ \A k \in DOMAIN sessions : /\ sessions'[k].kind = sessions[k].kind
                                      /\ sessions'[k].added = sessions[k].added
                                      /\ k # i => sessions'[k].gathering = sessions[k].gathering
        /\ UNCHANGED <<toWorker, receivePrepared, sendPrepared>>
    BY <1>2, NativeFacts
  <2>2. i <= receivePrepared
    <3>1. i \in DOMAIN sessions /\ sessions[i] \in Session
      BY <1>2, CallsType, SequenceFacts
    <3>2. sessions[i].gathering # "not" \/ sessions[i].added > 0
      BY <1>2 DEF Gather, IncomingSource, IncomingChannel
    <3>3. sessions[i].added # 0 \/ sessions[i].gathering # "not"
      BY <3>2
    <3> QED BY <3>1, <3>3 DEF SessionsInv
  <2>3. CallsInv'
    BY <1>0, <2>1 DEF CallsInv, Calls
  <2>4. SessionsInv'
    <3>1. Fits(sessions)'
      BY <1>0, <2>1 DEF SessionsInv, Fits
    <3>2. \A k \in DOMAIN sessions : (sessions'[k].added = 0 /\ sessions'[k].gathering = "not")
                                     \/ k <= receivePrepared
      BY <2>1, <2>2 DEF SessionsInv
    <3> QED BY <1>0, <2>1, <3>1, <3>2 DEF SessionsInv
  <2> QED BY <2>3, <2>4
<1> QED BY <1>1, <1>2 DEF Native
-------------------------------------------------------------------------------
(* What an operation tells the peer handler, and channels *)

\* Numbers have a least one.
Less == {p \in Nat \X Nat : p[1] < p[2]}

LEMMA LessWellFounded == IsWellFoundedOn(Less, Nat)
  BY NatLessThanWellFounded, Zenon DEF Less, OpToRel

\* The lines have a first one of audio, and one only.
LEMMA FirstAudioFacts ==
    ASSUME NEW lines, Len(lines) \in Nat, DOMAIN lines = 1..Len(lines)
    PROVE  /\ \A i, k : IsFirst(lines, i) /\ IsFirst(lines, k) => i = k
           /\ HasKind(lines, "audio") => IsFirst(lines, FirstAudio(lines))
<1>1. ASSUME NEW i, NEW k, IsFirst(lines, i), IsFirst(lines, k) PROVE i = k
  <2>1. i \in Nat /\ k \in Nat /\ i > 0 /\ k > 0
    BY <1>1 DEF IsFirst
  <2>2. ~(i < k) /\ ~(k < i)
    BY <1>1, <2>1 DEF IsFirst
  <2> QED BY <2>1, <2>2
<1>2. ASSUME HasKind(lines, "audio") PROVE \E i : IsFirst(lines, i)
  <2> DEFINE B == {i \in Nat : i \in DOMAIN lines /\ lines[i].kind = "audio"}
  <2>1. PICK b \in DOMAIN lines : lines[b].kind = "audio"
    BY <1>2 DEF HasKind
  <2>2. b \in B
    BY <2>1
  <2>3. PICK k \in B : \A j \in B : ~(<<j, k>> \in Less)
    <3>1. B # {} /\ B \subseteq Nat
      BY <2>2
    <3> HIDE DEF B
    <3> QED BY <3>1, LessWellFounded, WFMin
  <2>4. \A j \in 1..(k - 1) : lines[j].kind # "audio"
    <3> SUFFICES ASSUME NEW j \in 1..(k - 1), lines[j].kind = "audio" PROVE FALSE
      OBVIOUS
    <3>1. j \in Nat /\ k \in Nat /\ j < k /\ j \in DOMAIN lines
      BY <2>3
    <3>2. j \in B
      BY <3>1
    <3>3. <<j, k>> \in Less
      BY <3>1 DEF Less
    <3> QED BY <2>3, <3>2, <3>3
  <2> QED BY <2>3, <2>4 DEF IsFirst
<1>3. ASSUME NEW i, IsFirst(lines, i) PROVE IsFirst(lines, FirstAudio(lines))
  <2>1. i \in DOMAIN lines /\ lines[i].kind = "audio" /\ \A j \in 1..(i - 1) : lines[j].kind # "audio"
    BY <1>3 DEF IsFirst
  <2> QED BY <2>1 DEF FirstAudio, IsFirst
<1> QED BY <1>1, <1>2, <1>3

\* The line a remote description gives the local source.
LEMMA WithSourceFirst ==
    ASSUME DescTypeOK, NEW lines \in Seq(OfferLine)
    PROVE  LET r == WithSource(lines)
           IN  \A k \in DOMAIN r : r[k].source <=> hasTrack /\ IsFirst(r, k)
<1> DEFINE r == WithSource(lines)
<1>1. /\ Len(lines) \in Nat /\ DOMAIN lines = 1..Len(lines) /\ DOMAIN r = DOMAIN lines
      /\ \A i \in DOMAIN lines : r[i].kind = lines[i].kind
  BY SequenceFacts, WithSourceType
<1>2. ASSUME NEW k \in DOMAIN lines
      PROVE  r[k].source <=> hasTrack /\ lines[k].kind = "audio" /\ k = FirstAudio(lines)
  BY DEF WithSource
<1> HIDE DEF r
<1>3. ASSUME NEW k \in DOMAIN lines PROVE IsFirst(r, k) <=> IsFirst(lines, k)
  <2>1. \A j \in 1..(k - 1) : j \in DOMAIN lines
    BY <1>1
  <2> QED BY <1>1, <2>1 DEF IsFirst
<1>4. ASSUME NEW k \in DOMAIN lines
      PROVE  lines[k].kind = "audio" /\ k = FirstAudio(lines) <=> IsFirst(lines, k)
  <2>1. lines[k].kind = "audio" => IsFirst(lines, FirstAudio(lines))
    BY <1>1, FirstAudioFacts DEF HasKind
  <2>2. IsFirst(lines, k) => lines[k].kind = "audio"
    BY DEF IsFirst
  <2> QED BY <1>1, <2>1, <2>2, FirstAudioFacts
<1> QED BY <1>1, <1>2, <1>3, <1>4 DEF r

\* A timer makes calls about the lines that are set, and gives sources with a call that sends them.
LEMMA TimerCalls ==
    ASSUME TypeOK, TypeOK', QueueInv, PlanInv, Timer
    PROVE  \E x \in Seq(PeerCall) :
              /\ Calls' = Calls \o x
              /\ \A i \in DOMAIN x : \/ x[i].call \in {"prepareToReceive", "addRemoteCandidate"}
                                     \/ x[i].call = "prepareToSend" /\ x[i].lines = remote'
              /\ \/ /\ DOMAIN remote' = DOMAIN remote
                    /\ \A k \in DOMAIN remote : /\ remote'[k].source = remote[k].source
                                                /\ remote'[k].kind = remote[k].kind
                 \/ /\ \A k \in DOMAIN remote' : remote'[k].source <=> hasTrack /\ IsFirst(remote', k)
                    /\ \E i \in DOMAIN x : x[i].call = "prepareToSend"
<1> DEFINE Made(x) ==
              /\ Calls' = Calls \o x
              /\ \A i \in DOMAIN x : \/ x[i].call \in {"prepareToReceive", "addRemoteCandidate"}
                                     \/ x[i].call = "prepareToSend" /\ x[i].lines = remote'
              /\ \/ /\ DOMAIN remote' = DOMAIN remote
                    /\ \A k \in DOMAIN remote : /\ remote'[k].source = remote[k].source
                                                /\ remote'[k].kind = remote[k].kind
                 \/ /\ \A k \in DOMAIN remote' : remote'[k].source <=> hasTrack /\ IsFirst(remote', k)
                    /\ \E i \in DOMAIN x : x[i].call = "prepareToSend"
<1> SUFFICES \E x \in Seq(PeerCall) : Made(x)
  OBVIOUS
<1>0. /\ QueueTypeOK /\ DescTypeOK /\ DescTypeOK' /\ toWorker \in Seq(PeerCall)
  BY Groups, GroupsNext DEF MessageTypeOK
<1>1. ASSUME UNCHANGED <<waiting, toWorker, remote>> PROVE \E x \in Seq(PeerCall) : Made(x)
  <2>1. Calls' = Calls /\ Calls \in Seq(PeerCall)
    BY <1>1, CallsType DEF Calls, Waiting
  <2>2. <<>> \in Seq(PeerCall) /\ DOMAIN <<>> = {} /\ Calls = Calls \o <<>>
    BY <2>1, EmptySeq
  <2>3. Made(<<>>)
    BY <1>1, <2>1, <2>2
  <2> QED BY <2>2, <2>3
<1>2. ASSUME Reject \/ Throw PROVE \E x \in Seq(PeerCall) : Made(x)
  <2>1. UNCHANGED <<waiting, toWorker, remote>>
    BY <1>2 DEF Reject, Throw, descVars
  <2> HIDE DEF Made
  <2> QED BY <1>1, <2>1
<1>3. CASE RunCreateOffer \/ RunCreateAnswer \/ RunMaybeDispatch \/ RunDispatchNegotiationNeeded
  <2>1. UNCHANGED <<waiting, toWorker, remote>>
    BY <1>3 DEF RunCreateOffer, RunCreateAnswer, RunMaybeDispatch, RunDispatchNegotiationNeeded,
                Reject, Throw, descVars
  <2> HIDE DEF Made
  <2> QED BY <1>1, <2>1
<1>4. CASE RunSetLocalDescription
  <2> DEFINE d == Head(queue).description
             target == Target(sig, "setLocal", d.type)
             b == d.type = "offer"
             x == CallsForLocal(d.lines, b)
  <2>1. \/ Throw \/ Reject
        \/ WhenPeerHandler(x, target, d.lines) /\ UNCHANGED remote
    BY <1>4 DEF RunSetLocalDescription
  <2>2. Running("setLocal") /\ UNCHANGED known
    BY <1>4 DEF RunSetLocalDescription
  <2>3. /\ x \in Seq(PeerCall)
        /\ \A i \in DOMAIN x : \/ x[i] = PrepareToReceive(d.lines, b)
                               \/ x[i] = PrepareToSend(remote, b)
    <3>1. d \in LocalDescription
      BY <1>0, <2>2, HeadFacts
    <3>2. d.lines \in Seq(LineOfThisEnd) /\ b \in BOOLEAN
      BY <3>1 DEF LocalDescription
    <3> QED BY <1>0, <3>2, CallsForLocalFacts
  <2> HIDE DEF x
  <2>4. CASE WhenPeerHandler(x, target, d.lines) /\ UNCHANGED remote
    <3>1. Calls' = Calls \o x
      BY <1>0, <2>2, <2>3, <2>4, HandlerFacts
    <3>2. Made(x)
      BY <2>3, <2>4, <3>1 DEF PrepareToReceive, PrepareToSend
    <3> QED BY <2>3, <3>2
  <2> HIDE DEF d, target, Made
  <2> QED BY <1>2, <2>1, <2>4
<1>5. CASE RunSetRemoteDescription
  <2> DEFINE d == Head(queue).description
             target == Target(sig, "setRemote", d.type)
             lines == WithSource(d.lines)
             b == d.type = "answer"
             e == PrepareToSend(lines, b)
             x == <<e>>
  <2>1. \/ Throw \/ Reject
        \/ WhenPeerHandler(x, target, local) /\ remote' = lines
    BY <1>5 DEF RunSetRemoteDescription
  <2>2. Running("setRemote") /\ UNCHANGED known
    BY <1>5 DEF RunSetRemoteDescription
  <2>3. /\ lines \in Seq(RemoteLine) /\ b \in BOOLEAN
        /\ \A k \in DOMAIN lines : lines[k].source <=> hasTrack /\ IsFirst(lines, k)
    <3>1. d \in RemoteDescription
      BY <1>0, <2>2, HeadFacts
    <3>2. d.lines \in Seq(OfferLine) /\ b \in BOOLEAN
      BY <3>1 DEF RemoteDescription
    <3> QED BY <1>0, <3>2, WithSourceType, WithSourceFirst
  <2> HIDE DEF lines, b
  <2>4. e \in PeerCall /\ e.call = "prepareToSend" /\ e.lines = lines
    BY <1>0, <2>3, CallTypes DEF PrepareToSend
  <2> HIDE DEF e
  <2>5. x \in Seq(PeerCall) /\ DOMAIN x = {1} /\ x[1] = e
    BY <2>4, SingleFacts
  <2> HIDE DEF x
  <2>6. CASE WhenPeerHandler(x, target, local) /\ remote' = lines
    <3>1. Calls' = Calls \o x
      BY <1>0, <2>2, <2>5, <2>6, HandlerFacts
    <3>2. Made(x)
      BY <2>3, <2>4, <2>5, <2>6, <3>1
    <3> QED BY <2>5, <3>2
  <2> HIDE DEF d, target, Made
  <2> QED BY <1>2, <2>1, <2>6
<1>6. CASE RunAddIceCandidate
  <2> DEFINE op == Head(queue)
             e == [call |-> "addRemoteCandidate", line |-> op.line, candidate |-> op.candidate]
             x == <<e>>
  <2>1. \/ Reject
        \/ /\ remote' = [remote EXCEPT ![op.line].candidates = @ \cup {op.candidate}]
           /\ WhenPeerHandler(x, sig, local)
    BY <1>6 DEF RunAddIceCandidate
  <2>2. Running("addCandidate") /\ UNCHANGED known
    BY <1>6 DEF RunAddIceCandidate
  <2>3. op.line \in Nat /\ op.candidate \in Component
    <3>1. /\ queue \in Seq(Operation) /\ queue # <<>> /\ Head(queue) \in Operation
          /\ Head(queue).call = "addCandidate"
      BY <1>0, <2>2, RunningFacts, TailFacts DEF QueueTypeOK
    <3> QED BY <3>1, OperationFields
  <2> HIDE DEF op
  <2>4. e \in PeerCall /\ e.call = "addRemoteCandidate"
    BY <2>3 DEF PeerCall
  <2> HIDE DEF e
  <2>5. x \in Seq(PeerCall) /\ DOMAIN x = {1} /\ x[1] = e
    BY <2>4, SingleFacts
  <2> HIDE DEF x
  <2>6. CASE /\ remote' = [remote EXCEPT ![op.line].candidates = @ \cup {op.candidate}]
             /\ WhenPeerHandler(x, sig, local)
    <3>1. Calls' = Calls \o x
      BY <1>0, <2>2, <2>5, <2>6, HandlerFacts
    <3>2. /\ DOMAIN remote' = DOMAIN remote
          /\ \A k \in DOMAIN remote : /\ remote'[k].source = remote[k].source
                                       /\ remote'[k].kind = remote[k].kind
      BY <1>0, <2>3, <2>6, AddCandidateType DEF DescTypeOK, SameLines
    <3>3. Made(x)
      BY <2>4, <2>5, <3>1, <3>2
    <3> QED BY <2>5, <3>3
  <2> HIDE DEF Made
  <2> QED BY <1>2, <2>1, <2>6
<1> HIDE DEF Made
<1> QED BY <1>3, <1>4, <1>5, <1>6 DEF Timer

\* Sessions stay, and keep their kind.
LEMMA SessionsKept ==
    ASSUME TypeOK, CallsInv, SessionsInv, Next
    PROVE  \A i \in DOMAIN sessions : i \in DOMAIN sessions' /\ sessions'[i].kind = sessions[i].kind
<1>1. CASE Script \/ Timer \/ PageMessage
  <2>1. sessions' = sessions
    BY <1>1 DEF Script, CreateOffer, CreateAnswer, SetLocalDescription, SetRemoteOffer, SetRemoteAnswer,
                AddIceCandidate, AddStream, CreateDataChannel, Close, PageUnchanged,
                Timer, RunCreateOffer, RunCreateAnswer, RunSetLocalDescription, RunSetRemoteDescription,
                RunAddIceCandidate, RunMaybeDispatch, RunDispatchNegotiationNeeded,
                PageMessage, GotPeerHandler, GotIceCandidate, CandidateGatheringDone, GotRemoteSource,
                DataChannelsEnabled, DataChannelRequested, GotChannel, workerVars
  <2> QED BY <2>1
<1>2. CASE Worker
  <2>1. CASE ReceivePrepareToReceive
    BY <2>1, ReceiveFacts
  <2>2. CASE ReceivePrepareToSend
    BY <2>2, SendFacts
  <2>3. CASE ReceiveAddRemoteCandidate
    BY <2>3, CandidateFacts
  <2>4. CASE CreatePeerHandler \/ ReceiveCreateDataChannel
    <3>1. sessions' = sessions
      BY <2>4 DEF CreatePeerHandler, ReceiveCreateDataChannel, workerVars
    <3> QED BY <3>1
  <2> QED BY <1>2, <2>1, <2>2, <2>3, <2>4 DEF Worker
<1>3. CASE Native
  <2>1. CASE KeysGenerated
    BY <2>1 DEF KeysGenerated, workerVars
  <2>2. ASSUME NEW i \in DOMAIN sessions, Gather(i) \/ IncomingSource(i) \/ IncomingChannel(i)
        PROVE  \A k \in DOMAIN sessions : k \in DOMAIN sessions' /\ sessions'[k].kind = sessions[k].kind
    BY <2>2, NativeFacts
  <2> QED BY <1>3, <2>1, <2>2 DEF Native
<1> QED BY <1>1, <1>2, <1>3 DEF Next

LEMMA HasFacts ==
    /\ \A c : \A s, t \in Seq(PeerCall) : HasCall(s \o t, c) <=> HasCall(s, c) \/ HasCall(t, c)
    /\ \A c : \A s \in Seq(PeerCall) : s # <<>> /\ HasCall(Tail(s), c) => HasCall(s, c)
    /\ \A c : \A s \in Seq(PeerCall), e \in PeerCall : HasCall(Append(s, e), c) <=> HasCall(s, c) \/ e.call = c
    /\ \A v : \A s \in Seq(PageEvent) : s # <<>> /\ HasEvent(Tail(s), v) => HasEvent(s, v)
    /\ \A v : \A s \in Seq(PageEvent) : s # <<>> => HasEvent(s, Head(s).event)
    /\ \A v : \A s \in Seq(PageEvent), e \in PageEvent :
          HasEvent(Append(s, e), v) <=> HasEvent(s, v) \/ e.event = v
<1>1. ASSUME NEW s \in Seq(PeerCall), NEW t \in Seq(PeerCall), NEW c
      PROVE  HasCall(s \o t, c) <=> HasCall(s, c) \/ HasCall(t, c)
  <2>1. ToSet(s \o t) = ToSet(s) \cup ToSet(t)
    BY ToSetFacts
  <2> QED BY <2>1 DEF HasCall
<1>2. ASSUME NEW s \in Seq(PeerCall), NEW c, s # <<>>, HasCall(Tail(s), c) PROVE HasCall(s, c)
  <2>1. ToSet(s) = {Head(s)} \cup ToSet(Tail(s))
    BY <1>2, ToSetFacts
  <2> QED BY <1>2, <2>1 DEF HasCall
<1>3. ASSUME NEW s \in Seq(PeerCall), NEW e \in PeerCall, NEW c
      PROVE  HasCall(Append(s, e), c) <=> HasCall(s, c) \/ e.call = c
  <2>1. ToSet(Append(s, e)) = ToSet(s) \cup {e}
    BY ToSetFacts
  <2> QED BY <2>1 DEF HasCall
<1>4. ASSUME NEW s \in Seq(PageEvent), NEW v, s # <<>>
      PROVE  HasEvent(s, Head(s).event) /\ (HasEvent(Tail(s), v) => HasEvent(s, v))
  <2>1. ToSet(s) = {Head(s)} \cup ToSet(Tail(s))
    BY <1>4, ToSetFacts
  <2> QED BY <2>1 DEF HasEvent
<1>5. ASSUME NEW s \in Seq(PageEvent), NEW e \in PageEvent, NEW v
      PROVE  HasEvent(Append(s, e), v) <=> HasEvent(s, v) \/ e.event = v
  <2>1. ToSet(Append(s, e)) = ToSet(s) \cup {e}
    BY ToSetFacts
  <2> QED BY <2>1 DEF HasEvent
<1> QED BY <1>1, <1>2, <1>3, <1>4, <1>5

\* Channels can be made once the worker has a session for them.
LEMMA Channels_Next ==
    ASSUME TypeOK, TypeOK', QueueInv, PlanInv, CallsInv, SessionsInv, ChannelsInv, Next
    PROVE  ChannelsInv'
<1> DEFINE On == canCreate \/ HasEvent(toPage, "dataChannelsEnabled") \/ HasCall(Calls, "createDataChannel")
<1>0. /\ toPage \in Seq(PageEvent) /\ toPage' \in Seq(PageEvent)
      /\ toWorker \in Seq(PeerCall) /\ Waiting \in Seq(PeerCall) /\ Calls \in Seq(PeerCall)
  BY Groups, GroupsNext, CallsType DEF MessageTypeOK
<1>1. ASSUME On' => On \/ HasKind(sessions', "application") PROVE ChannelsInv'
  <2>1. HasKind(sessions, "application") => HasKind(sessions', "application")
    BY SessionsKept DEF HasKind
  <2> QED BY <1>1, <2>1 DEF ChannelsInv
<1>2. HasCall(Calls, "createDataChannel") <=>
          HasCall(toWorker, "createDataChannel") \/ HasCall(Waiting, "createDataChannel")
  BY <1>0, HasFacts DEF Calls
<1>3. ASSUME canCreate' = canCreate, toPage' = toPage \/ (toPage # <<>> /\ toPage' = Tail(toPage)),
             Calls' = Calls
      PROVE  ChannelsInv'
  <2>1. On' => On
    BY <1>0, <1>3, HasFacts
  <2> HIDE DEF On
  <2> QED BY <1>1, <2>1
<1>4. ASSUME canCreate' = canCreate, toPage' = toPage \/ (toPage # <<>> /\ toPage' = Tail(toPage)),
             waiting' = waiting, NEW id \in Nat, NewChannel(id)
      PROVE  ChannelsInv'
  <2>1. CASE canCreate
    <3>1. On
      BY <2>1
    <3> HIDE DEF On
    <3> QED BY <1>1, <3>1
  <2>2. CASE ~canCreate
    <3>1. Calls' = Calls
      BY <1>4, <2>2 DEF NewChannel, Calls, Waiting
    <3> QED BY <1>3, <1>4, <3>1
  <2> QED BY <2>1, <2>2
<1>5. CASE Script
  <2>1. CASE CreateDataChannel
    <3>1. /\ UNCHANGED <<canCreate, toPage, waiting>> /\ NewChannel(Unassigned) /\ Unassigned \in Nat
      BY <2>1 DEF CreateDataChannel, Unassigned
    <3> QED BY <1>4, <3>1
  <2>2. CASE ~CreateDataChannel
    <3>1. UNCHANGED <<canCreate, toPage, toWorker, waiting>>
      BY <1>5, <2>2 DEF Script, CreateOffer, CreateAnswer, SetLocalDescription, SetRemoteOffer, SetRemoteAnswer,
                AddIceCandidate, AddStream, Close, PageUnchanged, EnqueueOperation, channelVars
    <3>2. Calls' = Calls
      BY <3>1 DEF Calls, Waiting
    <3> QED BY <1>3, <3>1, <3>2
  <2> QED BY <2>1, <2>2
<1>6. CASE Timer
  <2>1. UNCHANGED <<canCreate, toPage>>
    BY <1>6 DEF Timer, RunCreateOffer, RunCreateAnswer, RunSetLocalDescription, RunSetRemoteDescription,
                RunAddIceCandidate, RunMaybeDispatch, RunDispatchNegotiationNeeded, channelVars
  <2>2. PICK x \in Seq(PeerCall) :
            /\ Calls' = Calls \o x
            /\ \A i \in DOMAIN x : x[i].call \in {"prepareToReceive", "addRemoteCandidate", "prepareToSend"}
    BY <1>6, TimerCalls
  <2>3. ~HasCall(x, "createDataChannel")
    BY <2>2 DEF HasCall, ToSet
  <2>4. HasCall(Calls', "createDataChannel") => HasCall(Calls, "createDataChannel")
    BY <1>0, <2>2, <2>3, HasFacts
  <2>5. On' => On
    BY <2>1, <2>4
  <2> HIDE DEF On
  <2> QED BY <1>1, <2>5
<1>7. CASE PageMessage
  <2>0. toPage # <<>> /\ toPage' = Tail(toPage)
    BY <1>7 DEF PageMessage, GotPeerHandler, GotIceCandidate, CandidateGatheringDone, GotRemoteSource,
                DataChannelsEnabled, DataChannelRequested, GotChannel, FromWorker
  <2>1. CASE GotPeerHandler
    <3>1. canCreate' = canCreate /\ waiting' = <<>>
      BY <2>1 DEF GotPeerHandler, channelVars
    <3>2. toWorker' = Calls
      <4>1. CASE waiting = <<>>
        <5>1. Calls = toWorker \o <<>> /\ toWorker' = toWorker
          BY <2>1, <4>1 DEF GotPeerHandler, Calls, Waiting
        <5> QED BY <1>0, <5>1
      <4>2. CASE waiting # <<>>
        BY <2>1, <4>2 DEF GotPeerHandler, Applied, Calls, Waiting
      <4> QED BY <4>1, <4>2
    <3>3. Calls' = Calls \o <<>>
      BY <3>1, <3>2 DEF Calls, Waiting
    <3>4. Calls' = Calls
      BY <1>0, <3>3
    <3> QED BY <1>3, <2>0, <3>1, <3>4
  <2>2. CASE GotIceCandidate \/ CandidateGatheringDone \/ GotRemoteSource \/ GotChannel
    <3>1. UNCHANGED <<canCreate, toWorker, waiting>>
      BY <2>2 DEF GotIceCandidate, CandidateGatheringDone, GotRemoteSource, GotChannel, queueVars, channelVars
    <3>2. Calls' = Calls
      BY <3>1 DEF Calls, Waiting
    <3> QED BY <1>3, <2>0, <3>1, <3>2
  <2>3. CASE DataChannelRequested
    <3>1. Head(toPage) \in PageEvent /\ Head(toPage).event = "dataChannelRequested"
      BY <1>0, <2>0, <2>3, TailFacts DEF DataChannelRequested, FromWorker
    <3>2. Head(toPage).id \in Nat
      BY <3>1, EventFields
    <3>3. UNCHANGED <<canCreate, waiting>> /\ NewChannel(Head(toPage).id)
      BY <2>3 DEF DataChannelRequested, queueVars
    <3> QED BY <1>4, <2>0, <3>2, <3>3
  <2>4. CASE DataChannelsEnabled
    <3>1. HasEvent(toPage, "dataChannelsEnabled")
      BY <1>0, <2>4, HasFacts DEF DataChannelsEnabled, FromWorker
    <3>2. On
      BY <3>1
    <3> HIDE DEF On
    <3> QED BY <1>1, <3>2
  <2> QED BY <1>7, <2>1, <2>2, <2>3, <2>4 DEF PageMessage
<1>8. CASE Worker
  <2>1. /\ toWorker # <<>> /\ toWorker' = Tail(toWorker)
    BY <1>8 DEF Worker, CreatePeerHandler, ReceivePrepareToReceive, ReceivePrepareToSend,
                ReceiveAddRemoteCandidate, ReceiveCreateDataChannel, ToPeerHandler
  <2>2. UNCHANGED <<canCreate, waiting>>
    BY <1>8, WorkerUnchanged DEF WorkerOnly, queueVars, channelVars
  <2>3. HasCall(Calls', "createDataChannel") => HasCall(Calls, "createDataChannel")
    <3>1. Calls' = Tail(Calls) /\ Calls # <<>>
      BY <2>1, <2>2, HeadCall DEF Calls, Waiting
    <3> QED BY <1>0, <3>1, HasFacts
  <2>4. HasEvent(toPage', "dataChannelsEnabled") =>
            HasEvent(toPage, "dataChannelsEnabled") \/ HasKind(sessions', "application")
    <3>1. CASE ReceivePrepareToReceive
      <4>1. toPage' = toPage \/ HasKind(sessions', "application")
        BY <3>1, ReceiveFacts
      <4> QED BY <4>1
    <3>2. CASE ReceivePrepareToSend \/ ReceiveAddRemoteCandidate
      BY <3>2 DEF ReceivePrepareToSend, ReceiveAddRemoteCandidate
    <3>3. CASE CreatePeerHandler
      <4>1. [event |-> "peerHandler"] \in PageEvent /\ toPage' = Append(toPage, [event |-> "peerHandler"])
        BY <3>3 DEF CreatePeerHandler, PageEvent
      <4> QED BY <1>0, <4>1, HasFacts
    <3>4. CASE ReceiveCreateDataChannel
      <4> DEFINE n == IF Head(toWorker).id = Unassigned
                      THEN IF nextId = 0 /\ ~sessions[DataSession].client THEN 1 ELSE nextId
                      ELSE Head(toWorker).id
                 e == [event |-> "channel", channel |-> Head(toWorker).channel, id |-> n]
      <4>1. toPage' = Append(toPage, e)
        BY <3>4 DEF ReceiveCreateDataChannel
      <4>2. Head(toWorker) \in PeerCall /\ Head(toWorker).call = "createDataChannel"
        BY <2>1, <3>4, HeadCall DEF ReceiveCreateDataChannel, ToPeerHandler
      <4>3. Head(toWorker).channel \in Nat /\ Head(toWorker).id \in Nat /\ nextId \in Nat
        BY <4>2, CallFields, Groups DEF WorkerTypeOK
      <4>4. e \in PageEvent /\ e.event = "channel"
        BY <4>3 DEF PageEvent
      <4> HIDE DEF e
      <4> QED BY <1>0, <4>1, <4>4, HasFacts
    <3> QED BY <1>8, <3>1, <3>2, <3>3, <3>4 DEF Worker
  <2>5. On' => On \/ HasKind(sessions', "application")
    BY <2>2, <2>3, <2>4
  <2> HIDE DEF On
  <2> QED BY <1>1, <2>5
<1>9. CASE Native
  <2>1. UNCHANGED <<canCreate, waiting, Waiting>>
    BY <1>9, WorkerUnchanged DEF WorkerOnly, queueVars, channelVars, Waiting
  <2>2. CASE KeysGenerated
    <3>1. toPage' = toPage
      BY <2>2 DEF KeysGenerated
    <3>2. HasCall(toWorker', "createDataChannel") => HasCall(toWorker, "createDataChannel")
      <4>1. CASE toWorker' = toWorker
        BY <4>1
      <4>2. CASE toWorker' = Append(toWorker, [call |-> "createPeerHandler"])
        <5>1. [call |-> "createPeerHandler"] \in PeerCall
          BY DEF PeerCall
        <5> QED BY <1>0, <4>2, <5>1, HasFacts
      <4> QED BY <2>2, <4>1, <4>2 DEF KeysGenerated
    <3>3. HasCall(Calls', "createDataChannel") <=>
              HasCall(toWorker', "createDataChannel") \/ HasCall(Waiting, "createDataChannel")
      <4>1. toWorker' \in Seq(PeerCall) /\ Calls' = toWorker' \o Waiting
        BY <2>1, GroupsNext DEF MessageTypeOK, Calls
      <4> QED BY <1>0, <4>1, HasFacts
    <3>4. On' => On
      BY <1>2, <2>1, <3>1, <3>2, <3>3
    <3> HIDE DEF On
    <3> QED BY <1>1, <3>4
  <2>3. ASSUME NEW i \in DOMAIN sessions, Gather(i) \/ IncomingSource(i) \/ IncomingChannel(i)
        PROVE  ChannelsInv'
    <3>1. PICK e : toPage' = Append(toPage, e) /\ e.event # "dataChannelsEnabled"
      BY <2>3 DEF Gather, IncomingSource, IncomingChannel
    <3>2. ToSet(toPage') = ToSet(toPage) \cup {e}
      <4>1. /\ Len(toPage) \in Nat /\ DOMAIN toPage = 1..Len(toPage)
            /\ DOMAIN Append(toPage, e) = 1..(Len(toPage) + 1)
            /\ \A j \in 1..Len(toPage) : Append(toPage, e)[j] = toPage[j]
            /\ Append(toPage, e)[Len(toPage) + 1] = e
        BY <1>0
      <4> QED BY <3>1, <4>1 DEF ToSet
    <3>3. HasEvent(toPage', "dataChannelsEnabled") => HasEvent(toPage, "dataChannelsEnabled")
      BY <3>1, <3>2 DEF HasEvent
    <3>4. Calls' = Calls
      BY <2>1, <2>3, NativeFacts DEF Calls
    <3>5. On' => On
      BY <2>1, <3>3, <3>4
    <3> HIDE DEF On
    <3> QED BY <1>1, <3>5
  <2> QED BY <1>9, <2>2, <2>3 DEF Native
<1> QED BY <1>5, <1>6, <1>7, <1>8, <1>9 DEF Next

-------------------------------------------------------------------------------
(* The end of gathering *)

LEMMA ToldAppend ==
    ASSUME NEW s \in Seq(PageEvent), NEW e \in PageEvent, ToldOnce(s)
    PROVE  /\ \A i : Told(Append(s, e), i) <=> Told(s, i) \/ (e.event = "gatheringDone" /\ e.line = i)
           /\ ~(e.event = "gatheringDone" /\ Told(s, e.line)) => ToldOnce(Append(s, e))
<1> DEFINE t == Append(s, e)
<1>1. /\ Len(s) \in Nat /\ DOMAIN s = 1..Len(s) /\ DOMAIN t = 1..(Len(s) + 1)
      /\ (\A k \in 1..Len(s) : t[k] = s[k]) /\ t[Len(s) + 1] = e
  BY AppendFacts, SequenceFacts
<1> HIDE DEF t
<1>2. \A i : Told(t, i) <=> Told(s, i) \/ (e.event = "gatheringDone" /\ e.line = i)
  BY <1>1 DEF Told
<1>3. ASSUME ~(e.event = "gatheringDone" /\ Told(s, e.line)) PROVE ToldOnce(t)
  <2> SUFFICES ASSUME NEW j \in DOMAIN t, NEW k \in DOMAIN t, t[j].event = "gatheringDone",
                      t[k].event = "gatheringDone", t[j].line = t[k].line
               PROVE  j = k
    BY DEF ToldOnce
  <2>1. CASE j \in DOMAIN s /\ k \in DOMAIN s
    BY <1>1, <2>1 DEF ToldOnce
  <2>2. CASE j \in DOMAIN s /\ k \notin DOMAIN s
    BY <1>1, <1>3, <2>2 DEF Told
  <2>3. CASE j \notin DOMAIN s /\ k \in DOMAIN s
    BY <1>1, <1>3, <2>3 DEF Told
  <2>4. CASE j \notin DOMAIN s /\ k \notin DOMAIN s
    BY <1>1, <2>4
  <2> QED BY <2>1, <2>2, <2>3, <2>4
<1> QED BY <1>2, <1>3 DEF t

LEMMA ToldTail ==
    ASSUME NEW s \in Seq(PageEvent), s # <<>>, ToldOnce(s)
    PROVE  /\ ToldOnce(Tail(s))
           /\ \A i : Told(Tail(s), i) <=>
                     Told(s, i) /\ ~(Head(s).event = "gatheringDone" /\ Head(s).line = i)
           /\ Head(s).event = "gatheringDone" => Told(s, Head(s).line)
<1> DEFINE t == Tail(s)
<1>1. /\ Len(s) \in Nat /\ Len(s) > 0 /\ DOMAIN s = 1..Len(s) /\ DOMAIN t = 1..(Len(s) - 1)
      /\ (\A k \in 1..(Len(s) - 1) : t[k] = s[k + 1]) /\ Head(s) = s[1]
  BY TailFacts, SequenceFacts
<1> HIDE DEF t
<1>2. \A k \in DOMAIN t : k + 1 \in DOMAIN s /\ t[k] = s[k + 1] /\ k + 1 # 1
  BY <1>1
<1>3. \A k \in DOMAIN s : k = 1 \/ (k - 1 \in DOMAIN t /\ t[k - 1] = s[k])
  BY <1>1
<1>4. ToldOnce(t)
  <2> SUFFICES ASSUME NEW j \in DOMAIN t, NEW k \in DOMAIN t, t[j].event = "gatheringDone",
                      t[k].event = "gatheringDone", t[j].line = t[k].line
               PROVE  j = k
    BY DEF ToldOnce
  <2>1. j + 1 = k + 1
    BY <1>2 DEF ToldOnce
  <2> QED BY <1>1, <2>1
<1>5. 1 \in DOMAIN s
  BY <1>1
<1>6. ASSUME NEW i, Told(t, i)
      PROVE  Told(s, i) /\ ~(Head(s).event = "gatheringDone" /\ Head(s).line = i)
  <2>1. PICK k \in DOMAIN t : t[k].event = "gatheringDone" /\ t[k].line = i
    BY <1>6 DEF Told
  <2>2. k + 1 \in DOMAIN s /\ s[k + 1].event = "gatheringDone" /\ s[k + 1].line = i /\ k + 1 # 1
    BY <1>2, <2>1
  <2>3. ~(s[1].event = "gatheringDone" /\ s[1].line = i)
    BY <1>5, <2>2 DEF ToldOnce
  <2> QED BY <1>1, <2>2, <2>3 DEF Told
<1>7. ASSUME NEW i, Told(s, i), ~(Head(s).event = "gatheringDone" /\ Head(s).line = i) PROVE Told(t, i)
  <2>1. PICK k \in DOMAIN s : s[k].event = "gatheringDone" /\ s[k].line = i
    BY <1>7 DEF Told
  <2>2. k # 1
    BY <1>1, <1>7, <2>1
  <2> QED BY <1>3, <2>1, <2>2 DEF Told
<1>8. Head(s).event = "gatheringDone" => Told(s, Head(s).line)
  BY <1>1, <1>5 DEF Told
<1> QED BY <1>4, <1>6, <1>7, <1>8 DEF t

\* Steps that tell nothing of gathering and leave the description.
LEMMA Gathering_Same ==
    ASSUME TypeOK, GatheringInv, UNCHANGED local, hist'.stale = hist.stale, hist'.ended = hist.ended,
           \A i : Ended(i)' <=> Ended(i),
           \/ toPage' = toPage
           \/ toPage # <<>> /\ toPage' = Tail(toPage) /\ Head(toPage).event # "gatheringDone"
           \/ \E e \in PageEvent : toPage' = Append(toPage, e) /\ e.event # "gatheringDone"
    PROVE  GatheringInv'
<1>1. toPage \in Seq(PageEvent) /\ ToldOnce(toPage)
  BY Groups DEF MessageTypeOK, GatheringInv
<1>2. ToldOnce(toPage') /\ \A i : Told(toPage', i) <=> Told(toPage, i)
  <2>1. CASE toPage' = toPage
    BY <1>1, <2>1
  <2>2. CASE toPage # <<>> /\ toPage' = Tail(toPage) /\ Head(toPage).event # "gatheringDone"
    BY <1>1, <2>2, ToldTail
  <2>3. ASSUME NEW e \in PageEvent, toPage' = Append(toPage, e), e.event # "gatheringDone"
        PROVE  ToldOnce(toPage') /\ \A i : Told(toPage', i) <=> Told(toPage, i)
    BY <1>1, <2>3, ToldAppend
  <2> QED BY <2>1, <2>2, <2>3
<1>3. (ToldOnce(toPage))' /\ \A i : (Told(toPage, i))' <=> Told(toPage, i)
  BY <1>2 DEF ToldOnce, Told
<1>4. AllGatheringDone(local)' <=> AllGatheringDone(local)
  BY DEF AllGatheringDone
<1> QED BY <1>3, <1>4 DEF GatheringInv

\* Nothing is done in a description that replaces another; what was done there is stale.
LEMMA Gathering_SetLocal ==
    ASSUME TypeOK, PlanInv, SessionsInv, GatheringInv, RunSetLocalDescription
    PROVE  GatheringInv'
<1> DEFINE d == Head(queue).description
<1>0. /\ QueueTypeOK /\ DescTypeOK /\ hist \in History
      /\ Len(sessions) \in Nat /\ DOMAIN sessions = 1..Len(sessions) /\ receivePrepared \in Nat
      /\ Len(local) \in Nat /\ DOMAIN local = 1..Len(local)
  BY Groups, CallsType, AgreedFacts
<1>1. Running("setLocal") /\ UNCHANGED <<toPage, sessions>>
  BY DEF RunSetLocalDescription, workerVars
<1>2. \A i : Ended(i)' <=> Ended(i)
  BY <1>1 DEF Ended
<1>3. CASE UNCHANGED <<local, hist>>
  BY <1>1, <1>2, <1>3, Gathering_Same
<1>4. CASE /\ local' = d.lines
           /\ hist' = [hist EXCEPT !.ended = FALSE,
                                   !.stale = @ \cup {i \in DOMAIN local : local[i].done}]
  <2>1. hist'.ended = FALSE /\ hist'.stale = hist.stale \cup {i \in DOMAIN local : local[i].done}
    BY <1>0, <1>4 DEF History
  <2>2. d \in LocalDescription /\ LocalPlan(d)
    BY <1>0, <1>1, HeadFacts
  <2>3. d.lines # <<>> /\ Undone(d.lines) /\ d.lines \in Seq(LineOfThisEnd)
    BY <2>2 DEF LocalPlan, LocalDescription
  <2> HIDE DEF d
  <2>4. Len(d.lines) \in Nat /\ DOMAIN d.lines = 1..Len(d.lines) /\ Len(d.lines) > 0
    BY <2>3, SequenceFacts
  <2>5. \A i \in hist'.stale : Ended(i) /\ ~Told(toPage, i)
    BY <2>1 DEF GatheringInv
  <2>6. ASSUME NEW i, Ended(i), ~Told(toPage, i) PROVE i \in hist'.stale
    <3>1. i \in DOMAIN sessions /\ sessions[i].gathering = "done"
      BY <2>6 DEF Ended
    <3>2. i <= receivePrepared /\ receivePrepared <= Len(local)
      BY <3>1 DEF SessionsInv
    <3>3. i \in DOMAIN local
      BY <1>0, <3>1, <3>2
    <3> QED BY <2>1, <2>6, <3>3 DEF GatheringInv
  <2>7. \A i \in DOMAIN local' :
            local'[i].done <=> Ended(i)' /\ ~Told(toPage', i) /\ i \notin hist'.stale
    BY <1>1, <1>2, <1>4, <2>3, <2>6 DEF Undone
  <2>8. local' # <<>> => (hist'.ended <=> AllGatheringDone(local'))
    <3>1. 1 \in DOMAIN d.lines
      BY <2>4
    <3> QED BY <1>4, <2>1, <2>3, <3>1 DEF AllGatheringDone, Undone
  <2>9. ToldOnce(toPage') /\ \A i : Told(toPage', i) => Ended(i)'
    BY <1>1, <1>2 DEF GatheringInv
  <2>10. \A i \in hist'.stale : Ended(i)' /\ ~Told(toPage', i)
    BY <1>1, <1>2, <2>5
  <2> QED BY <2>7, <2>8, <2>9, <2>10 DEF GatheringInv, ToldOnce, Told, AllGatheringDone
<1> QED BY <1>3, <1>4 DEF RunSetLocalDescription, Throw, Reject, descVars

\* The page notes the end of gathering it is told of.
LEMMA Gathering_Told ==
    ASSUME TypeOK, GatheringInv, CandidateGatheringDone PROVE GatheringInv'
<1> DEFINE x == Head(toPage).line
<1>0. /\ DescTypeOK /\ hist \in History /\ toPage \in Seq(PageEvent) /\ ToldOnce(toPage)
      /\ Len(local) \in Nat /\ DOMAIN local = 1..Len(local) /\ local \in Seq(LineOfThisEnd)
  BY Groups, AgreedFacts DEF MessageTypeOK, GatheringInv, DescTypeOK
<1>1. /\ toPage # <<>> /\ Head(toPage).event = "gatheringDone" /\ toPage' = Tail(toPage)
      /\ hist' = [hist EXCEPT !.ended = @ \/ AllGatheringDone(local')] /\ UNCHANGED sessions
      /\ local' = [local EXCEPT ![x].done = TRUE]
  BY DEF CandidateGatheringDone, FromWorker, workerVars
<1>2. /\ hist'.stale = hist.stale
      /\ hist'.ended <=> (hist.ended \/ AllGatheringDone(local'))
  BY <1>0, <1>1 DEF History
<1>3. /\ Len(local') = Len(local) /\ DOMAIN local' = DOMAIN local
      /\ \A i \in DOMAIN local : local'[i].done <=> (local[i].done \/ i = x)
  BY <1>0, <1>1, DoneKept
<1>4. /\ ToldOnce(toPage') /\ Told(toPage, x)
      /\ \A i : Told(toPage', i) <=> Told(toPage, i) /\ i # x
  BY <1>0, <1>1, ToldTail
<1> HIDE DEF x
<1>5. \A i : Ended(i)' <=> Ended(i)
  BY <1>1 DEF Ended
<1>6. \A i \in DOMAIN local :
          local'[i].done <=> Ended(i) /\ ~Told(toPage', i) /\ i \notin hist.stale
  <2> SUFFICES ASSUME NEW i \in DOMAIN local
               PROVE  local'[i].done <=> Ended(i) /\ ~Told(toPage', i) /\ i \notin hist.stale
    OBVIOUS
  <2>1. local[i].done <=> Ended(i) /\ ~Told(toPage, i) /\ i \notin hist.stale
    BY DEF GatheringInv
  <2>2. CASE i = x
    <3>1. Ended(x) /\ x \notin hist.stale
      BY <1>4 DEF GatheringInv
    <3> QED BY <1>3, <1>4, <2>2, <3>1
  <2>3. CASE i # x
    BY <1>3, <1>4, <2>1, <2>3
  <2> QED BY <2>2, <2>3
<1>7. ASSUME local' # <<>> PROVE hist'.ended <=> AllGatheringDone(local')
  <2>1. local # <<>>
    BY <1>1, <1>7
  <2>2. hist.ended <=> AllGatheringDone(local)
    BY <1>7, <2>1 DEF GatheringInv
  <2>3. AllGatheringDone(local) => AllGatheringDone(local')
    BY <1>3 DEF AllGatheringDone
  <2> QED BY <1>2, <2>2, <2>3
<1>8. \A i : Told(toPage', i) => Ended(i)'
  BY <1>4, <1>5 DEF GatheringInv
<1>9. \A i \in hist'.stale : Ended(i)' /\ ~Told(toPage', i)
  BY <1>2, <1>4, <1>5 DEF GatheringInv
<1>10. \A i \in DOMAIN local' :
           local'[i].done <=> Ended(i)' /\ ~Told(toPage', i) /\ i \notin hist'.stale
  BY <1>2, <1>3, <1>5, <1>6
<1> QED BY <1>4, <1>7, <1>8, <1>9, <1>10 DEF GatheringInv, ToldOnce, Told, AllGatheringDone

\* The transport agent ends the gathering of a session, and tells of it.
LEMMA Gathering_Native ==
    ASSUME TypeOK, GatheringInv, Native PROVE GatheringInv'
<1>0. toPage \in Seq(PageEvent) /\ UNCHANGED <<local, hist>>
  BY Groups, WorkerUnchanged DEF MessageTypeOK, WorkerOnly, descVars
<1>1. CASE KeysGenerated
  <2>1. \A i : Ended(i)' <=> Ended(i)
    BY <1>1 DEF KeysGenerated, workerVars, Ended
  <2> QED BY <1>0, <1>1, <2>1, Gathering_Same DEF KeysGenerated
<1>2. ASSUME NEW i \in DOMAIN sessions, Gather(i) \/ IncomingSource(i) \/ IncomingChannel(i)
      PROVE  GatheringInv'
  <2> DEFINE e == [event |-> "gatheringDone", line |-> i]
  <2>1. /\ DOMAIN sessions' = DOMAIN sessions
        /\ \A k \in DOMAIN sessions : k # i => sessions'[k].gathering = sessions[k].gathering
    BY <1>2, NativeFacts
  <2>2. i \in Nat
    BY CallsType
  <2>3. ASSUME NEW v \in PageEvent, toPage' = Append(toPage, v), v.event # "gatheringDone",
               sessions'[i].gathering = "done" <=> sessions[i].gathering = "done"
        PROVE  GatheringInv'
    <3>1. \A k : Ended(k)' <=> Ended(k)
      BY <2>1, <2>3 DEF Ended
    <3> QED BY <1>0, <2>3, <3>1, Gathering_Same
  <2>4. CASE /\ sessions[i].gathering = "going" /\ sessions'[i].gathering = "found"
             /\ toPage' = Append(toPage, [event |-> "candidate", line |-> i])
    <3>1. [event |-> "candidate", line |-> i] \in PageEvent
      BY <2>2 DEF PageEvent
    <3> QED BY <2>3, <2>4, <3>1
  <2>5. CASE /\ sessions'[i].gathering = sessions[i].gathering
             /\ toPage' = Append(toPage, [event |-> "source", line |-> i])
    <3>1. [event |-> "source", line |-> i] \in PageEvent
      BY <2>2 DEF PageEvent
    <3> QED BY <2>3, <2>5, <3>1
  <2>6. CASE /\ sessions'[i].gathering = sessions[i].gathering
             /\ IncomingChannel(i)
    <3> DEFINE n == IF sessions[i].client THEN 1 ELSE 0
    <3>1. toPage' = Append(toPage, [event |-> "dataChannelRequested", id |-> n])
      BY <2>6 DEF IncomingChannel
    <3>2. n \in Nat
      OBVIOUS
    <3> HIDE DEF n
    <3>3. [event |-> "dataChannelRequested", id |-> n] \in PageEvent
      BY <3>2 DEF PageEvent
    <3> QED BY <2>3, <2>6, <3>1, <3>3
  <2>7. CASE /\ sessions[i].gathering = "found" /\ sessions'[i].gathering = "done"
             /\ toPage' = Append(toPage, e)
    <3>1. e \in PageEvent /\ e.event = "gatheringDone" /\ e.line = i
      BY <2>2 DEF PageEvent
    <3>2. ~Ended(i) /\ ~Told(toPage, i) /\ Ended(i)'
      BY <2>1, <2>7 DEF Ended, GatheringInv
    <3>3. \A k : k # i => (Ended(k)' <=> Ended(k))
      BY <2>1 DEF Ended
    <3> HIDE DEF e
    <3>4. ToldOnce(toPage') /\ \A k : Told(toPage', k) <=> Told(toPage, k) \/ k = i
      <4>1. ToldOnce(toPage)
        BY DEF GatheringInv
      <4> QED BY <1>0, <2>7, <3>1, <3>2, <4>1, ToldAppend
    <3>5. \A k : Told(toPage', k) => Ended(k)'
      BY <3>2, <3>3, <3>4 DEF GatheringInv
    <3>6. \A k \in DOMAIN local :
              local[k].done <=> Ended(k)' /\ ~Told(toPage', k) /\ k \notin hist.stale
      <4> SUFFICES ASSUME NEW k \in DOMAIN local
                   PROVE  local[k].done <=> Ended(k)' /\ ~Told(toPage', k) /\ k \notin hist.stale
        OBVIOUS
      <4>1. local[k].done <=> Ended(k) /\ ~Told(toPage, k) /\ k \notin hist.stale
        BY DEF GatheringInv
      <4>2. CASE k = i
        BY <3>2, <3>4, <4>1, <4>2
      <4>3. CASE k # i
        BY <3>3, <3>4, <4>1, <4>3
      <4> QED BY <4>2, <4>3
    <3>7. \A k \in hist.stale : Ended(k)' /\ ~Told(toPage', k)
      <4> SUFFICES ASSUME NEW k \in hist.stale PROVE Ended(k)' /\ ~Told(toPage', k)
        OBVIOUS
      <4>1. Ended(k) /\ ~Told(toPage, k)
        BY DEF GatheringInv
      <4> QED BY <3>2, <3>3, <3>4, <4>1
    <3>8. (ToldOnce(toPage) /\ \A k : Told(toPage, k) => Ended(k))'
      BY <3>4, <3>5 DEF ToldOnce, Told
    <3>9. /\ (\A k \in DOMAIN local :
                  local[k].done <=> Ended(k) /\ ~Told(toPage, k) /\ k \notin hist.stale)'
          /\ (\A k \in hist.stale : Ended(k) /\ ~Told(toPage, k))'
      BY <1>0, <3>6, <3>7 DEF Told
    <3>10. (local # <<>> => (hist.ended <=> AllGatheringDone(local)))'
      BY <1>0 DEF AllGatheringDone, GatheringInv
    <3> QED BY <3>8, <3>9, <3>10 DEF GatheringInv
  <2>8. CASE Gather(i) \/ IncomingSource(i)
    <3>1. ~\E n : toPage' = Append(toPage, [event |-> "dataChannelRequested", id |-> n])
      <4>1. PICK v : toPage' = Append(toPage, v) /\ v.event # "dataChannelRequested"
        BY <2>8 DEF Gather, IncomingSource
      <4>2. \A n : Append(toPage, v) # Append(toPage, [event |-> "dataChannelRequested", id |-> n])
        <5>1. \A v1, v2 : Append(toPage, v1) = Append(toPage, v2) => v1 = v2
          BY <1>0, SequenceFacts
        <5> QED BY <4>1, <5>1
      <4> QED BY <4>1, <4>2
    <3> QED BY <1>2, <2>4, <2>5, <2>7, <3>1, NativeFacts
  <2>9. CASE IncomingChannel(i)
    <3>1. sessions'[i].gathering = sessions[i].gathering
      <4>1. sessions[i] \in Session
        BY CallsType, SequenceFacts
      <4>2. sessions'[i] = [sessions[i] EXCEPT !.channels = "requested"]
        BY <2>9 DEF IncomingChannel
      <4> QED BY <4>1, <4>2 DEF Session
    <3> QED BY <2>6, <2>9, <3>1
  <2> QED BY <1>2, <2>8, <2>9
<1> QED BY <1>1, <1>2 DEF Native

LEMMA Gathering_Page ==
    ASSUME TypeOK, PlanInv, SessionsInv, GatheringInv, Script \/ Timer \/ PageMessage PROVE GatheringInv'
<1>0. hist \in History /\ toPage \in Seq(PageEvent)
  BY Groups DEF MessageTypeOK
<1>1. ASSUME UNCHANGED <<local, sessions>>, hist'.stale = hist.stale, hist'.ended = hist.ended,
             \/ toPage' = toPage
             \/ toPage # <<>> /\ toPage' = Tail(toPage) /\ Head(toPage).event # "gatheringDone"
      PROVE  GatheringInv'
  <2>1. \A i : Ended(i)' <=> Ended(i)
    BY <1>1 DEF Ended
  <2> QED BY <1>1, <2>1, Gathering_Same
<1>2. CASE Script
  <2>1. UNCHANGED <<local, sessions, toPage>>
    BY <1>2 DEF Script, CreateOffer, CreateAnswer, SetLocalDescription, SetRemoteOffer, SetRemoteAnswer,
                AddIceCandidate, AddStream, CreateDataChannel, Close, PageUnchanged, descVars, workerVars
  <2>2. hist'.stale = hist.stale /\ hist'.ended = hist.ended
    <3>1. CASE AddStream \/ CreateDataChannel \/ Close
      BY <1>0, <3>1 DEF AddStream, CreateDataChannel, Close, Unnegotiated, History
    <3>2. ASSUME NEW op, NEW f, EnqueueOperation(op, f)
          PROVE  hist'.stale = hist.stale /\ hist'.ended = hist.ended
      BY <1>0, <3>2 DEF EnqueueOperation, History
    <3>3. CASE CreateOffer \/ CreateAnswer \/ SetLocalDescription \/ SetRemoteOffer \/ SetRemoteAnswer
               \/ AddIceCandidate
      BY <3>2, <3>3 DEF CreateOffer, CreateAnswer, SetLocalDescription, SetRemoteOffer, SetRemoteAnswer,
                        AddIceCandidate
    <3> QED BY <1>2, <3>1, <3>3 DEF Script
  <2> QED BY <1>1, <2>1, <2>2
<1>3. CASE Timer
  <2>1. CASE RunSetLocalDescription
    BY <2>1, Gathering_SetLocal
  <2>2. CASE ~RunSetLocalDescription
    <3>1. UNCHANGED <<local, sessions, toPage>>
      BY <1>3, <2>2 DEF Timer, RunCreateOffer, RunCreateAnswer, RunSetRemoteDescription, RunAddIceCandidate,
                        RunMaybeDispatch, RunDispatchNegotiationNeeded, Throw, Reject, descVars, workerVars
    <3>2. hist'.stale = hist.stale /\ hist'.ended = hist.ended
      <4>1. CASE RunCreateOffer \/ RunCreateAnswer \/ RunMaybeDispatch \/ RunDispatchNegotiationNeeded
        BY <1>0, <4>1 DEF RunCreateOffer, RunCreateAnswer, RunMaybeDispatch, RunDispatchNegotiationNeeded,
                          Reject, History
      <4>2. CASE RunSetRemoteDescription
        BY <1>0, <4>2 DEF RunSetRemoteDescription, Reject, History
      <4>3. CASE RunAddIceCandidate
        BY <1>0, <4>3 DEF RunAddIceCandidate, Reject
      <4> QED BY <1>3, <2>2, <4>1, <4>2, <4>3 DEF Timer
    <3> QED BY <1>1, <3>1, <3>2
  <2> QED BY <2>1, <2>2
<1>4. CASE PageMessage
  <2>1. CASE CandidateGatheringDone
    BY <2>1, Gathering_Told
  <2>2. CASE ~CandidateGatheringDone
    <3>1. /\ UNCHANGED <<local, sessions>>
          /\ toPage # <<>> /\ toPage' = Tail(toPage) /\ Head(toPage).event # "gatheringDone"
      BY <1>4, <2>2 DEF PageMessage, GotPeerHandler, GotIceCandidate, GotRemoteSource, DataChannelsEnabled,
                        DataChannelRequested, GotChannel, FromWorker, descVars, workerVars
    <3>2. hist'.stale = hist.stale /\ (~GotIceCandidate => hist'.ended = hist.ended)
      BY <1>0, <1>4, <2>2 DEF PageMessage, GotPeerHandler, GotIceCandidate, GotRemoteSource,
                        DataChannelsEnabled, DataChannelRequested, GotChannel, History
    <3>3. CASE GotIceCandidate
      <4>1. hist'.ended <=> (hist.ended \/ AllGatheringDone(local))
        BY <1>0, <3>3 DEF GotIceCandidate, History
      <4>2. \A i : Ended(i)' <=> Ended(i)
        BY <3>1 DEF Ended
      <4>3. ToldOnce(toPage') /\ \A i : Told(toPage', i) <=> Told(toPage, i)
        <5>1. ToldOnce(toPage)
          BY DEF GatheringInv
        <5> QED BY <1>0, <3>1, <5>1, ToldTail
      <4>4. local' # <<>> => (hist'.ended <=> AllGatheringDone(local'))
        BY <3>1, <3>2, <4>1 DEF GatheringInv
      <4>5. /\ \A i \in DOMAIN local' :
                   local'[i].done <=> Ended(i)' /\ ~Told(toPage', i) /\ i \notin hist'.stale
            /\ \A i \in hist'.stale : Ended(i)' /\ ~Told(toPage', i)
        BY <3>1, <3>2, <4>2, <4>3 DEF GatheringInv
      <4>6. \A i : Told(toPage', i) => Ended(i)'
        BY <4>2, <4>3 DEF GatheringInv
      <4> QED BY <4>3, <4>4, <4>5, <4>6 DEF GatheringInv, ToldOnce, Told, AllGatheringDone
    <3>4. CASE ~GotIceCandidate
      BY <1>1, <3>1, <3>2, <3>4
    <3> QED BY <3>3, <3>4
  <2> QED BY <2>1, <2>2
<1> QED BY <1>2, <1>3, <1>4

LEMMA Gathering_Worker ==
    ASSUME TypeOK, CallsInv, SessionsInv, GatheringInv, Worker PROVE GatheringInv'
<1>0. UNCHANGED <<local, hist>> /\ DOMAIN sessions = 1..Len(sessions) /\ receivePrepared \in Nat
      /\ Len(sessions) \in Nat
  BY WorkerUnchanged, CallsType DEF WorkerOnly, descVars
<1>1. CASE ReceivePrepareToReceive
  <2> DEFINE n == Len(Head(toWorker).lines)
  <2>1. /\ n \in Nat /\ DOMAIN sessions' = 1..n
        /\ \A i \in 1..n : IF i <= receivePrepared
                           THEN i \in DOMAIN sessions /\ sessions'[i] = sessions[i]
                           ELSE sessions'[i].gathering = "going"
        /\ \A i \in DOMAIN sessions : i \in 1..n
        /\ \/ toPage' = toPage
           \/ toPage' = Append(toPage, [event |-> "dataChannelsEnabled"])
    BY <1>1, ReceiveFacts
  <2> HIDE DEF n
  <2>2. \A i : Ended(i)' <=> Ended(i)
    <3> SUFFICES ASSUME NEW i PROVE Ended(i)' <=> Ended(i)
      OBVIOUS
    <3>1. CASE i \in 1..n
      <4>1. CASE i <= receivePrepared
        BY <2>1, <3>1, <4>1 DEF Ended
      <4>2. CASE ~(i <= receivePrepared)
        <5>1. i \in DOMAIN sessions => sessions[i].gathering = "not"
          BY <4>2 DEF SessionsInv
        <5>2. sessions'[i].gathering = "going"
          BY <2>1, <3>1, <4>2
        <5> QED BY <5>1, <5>2 DEF Ended
      <4> QED BY <4>1, <4>2
    <3>2. CASE i \notin 1..n
      BY <2>1, <3>2 DEF Ended
    <3> QED BY <3>1, <3>2
  <2>3. [event |-> "dataChannelsEnabled"] \in PageEvent
    BY DEF PageEvent
  <2> QED BY <1>0, <2>1, <2>2, <2>3, Gathering_Same
<1>2. CASE ReceivePrepareToSend
  <2> DEFINE m == IF Len(Head(toWorker).lines) > Len(sessions) THEN Len(Head(toWorker).lines) ELSE Len(sessions)
  <2>1. /\ DOMAIN sessions' = 1..m /\ toPage' = toPage
        /\ \A i \in 1..m : (sessions'[i].added = 0 /\ sessions'[i].gathering = "not") \/ i <= receivePrepared
        /\ \A i \in DOMAIN sessions : i \in 1..m /\ sessions'[i].gathering = sessions[i].gathering
    BY <1>2, SendFacts
  <2> HIDE DEF m
  <2>2. \A i : Ended(i)' <=> Ended(i)
    <3> SUFFICES ASSUME NEW i PROVE Ended(i)' <=> Ended(i)
      OBVIOUS
    <3>1. CASE i \in DOMAIN sessions
      BY <2>1, <3>1 DEF Ended
    <3>2. CASE i \notin DOMAIN sessions
      <4>1. ASSUME i \in 1..m, sessions'[i].gathering = "done" PROVE FALSE
        <5>1. i <= receivePrepared /\ receivePrepared <= Len(sessions)
          BY <2>1, <4>1 DEF SessionsInv
        <5>2. m \in Nat => i \in 1..Len(sessions)
          BY <1>0, <4>1, <5>1
        <5>3. i \in Int /\ i >= 1
          BY <4>1
        <5> QED BY <1>0, <3>2, <5>1, <5>3
      <4> QED BY <2>1, <3>2, <4>1 DEF Ended
    <3> QED BY <3>1, <3>2
  <2> QED BY <1>0, <2>1, <2>2, Gathering_Same
<1>3. CASE ReceiveAddRemoteCandidate
  <2>1. \A i : Ended(i)' <=> Ended(i)
    BY <1>3, CandidateFacts DEF Ended
  <2> QED BY <1>0, <1>3, <2>1, Gathering_Same DEF ReceiveAddRemoteCandidate
<1>4. CASE CreatePeerHandler
  <2>1. \A i : Ended(i)' <=> Ended(i)
    BY <1>4 DEF CreatePeerHandler, workerVars, Ended
  <2>2. [event |-> "peerHandler"] \in PageEvent /\ toPage' = Append(toPage, [event |-> "peerHandler"])
    BY <1>4 DEF CreatePeerHandler, PageEvent
  <2> QED BY <1>0, <2>1, <2>2, Gathering_Same
<1>5. CASE ReceiveCreateDataChannel
  <2> DEFINE n == IF Head(toWorker).id = Unassigned
                  THEN IF nextId = 0 /\ ~sessions[DataSession].client THEN 1 ELSE nextId
                  ELSE Head(toWorker).id
             e == [event |-> "channel", channel |-> Head(toWorker).channel, id |-> n]
  <2>1. toPage' = Append(toPage, e) /\ UNCHANGED sessions
    BY <1>5 DEF ReceiveCreateDataChannel
  <2>2. Head(toWorker) \in PeerCall /\ Head(toWorker).call = "createDataChannel"
    BY <1>5, HeadCall DEF ReceiveCreateDataChannel, ToPeerHandler
  <2>3. Head(toWorker).channel \in Nat /\ Head(toWorker).id \in Nat /\ nextId \in Nat
    BY <2>2, CallFields, Groups DEF WorkerTypeOK
  <2>4. e \in PageEvent /\ e.event = "channel"
    BY <2>3 DEF PageEvent
  <2> HIDE DEF e
  <2>5. \A i : Ended(i)' <=> Ended(i)
    BY <2>1 DEF Ended
  <2> QED BY <1>0, <2>1, <2>4, <2>5, Gathering_Same
<1> QED BY <1>1, <1>2, <1>3, <1>4, <1>5 DEF Worker

-------------------------------------------------------------------------------
(* The stream that was added first *)

LEMMA FirstWaiting ==
    ASSUME NEW w \in Seq(Deferred), w # <<>> PROVE w[1].calls \in Seq(PeerCall)
<1>1. 1 \in DOMAIN w
  BY SequenceFacts
<1>2. w[1] \in Deferred
  BY <1>1, SequenceFacts
<1> QED BY <1>2 DEF Deferred

LEMMA SentFacts ==
    /\ TypeOK => Sent = {e \in ToSet(toWorker) \cup ToSet(Waiting) : e.call = "prepareToSend"}
    /\ TypeOK' => Sent' = {e \in ToSet(toWorker') \cup ToSet(Waiting') : e.call = "prepareToSend"}
<1>1. ASSUME NEW s \in Seq(PeerCall), NEW t \in Seq(PeerCall) PROVE ToSet(s \o t) = ToSet(s) \cup ToSet(t)
  BY ToSetFacts
<1>2. TypeOK => toWorker \in Seq(PeerCall) /\ Waiting \in Seq(PeerCall)
  BY CallsType
<1>3. ASSUME TypeOK' PROVE toWorker' \in Seq(PeerCall) /\ Waiting' \in Seq(PeerCall)
  <2>1. toWorker' \in Seq(PeerCall) /\ waiting' \in Seq(Deferred)
    BY <1>3, GroupsNext DEF QueueTypeOK, MessageTypeOK
  <2>2. CASE waiting' = <<>>
    <3>1. Waiting' = <<>>
      BY <2>2 DEF Waiting
    <3> QED BY <2>1, <3>1, EmptySeq
  <2>3. CASE waiting' # <<>>
    <3>1. Waiting' = waiting'[1].calls
      BY <2>3 DEF Waiting
    <3> QED BY <2>1, <2>3, <3>1, FirstWaiting
  <2> QED BY <2>2, <2>3
<1>4. TypeOK => ToSet(Calls) = ToSet(toWorker) \cup ToSet(Waiting)
  BY <1>1, <1>2 DEF Calls
<1>5. TypeOK' => ToSet(Calls)' = ToSet(toWorker') \cup ToSet(Waiting')
  <2>1. ToSet(Calls)' = ToSet(Calls')
    BY DEF ToSet
  <2> QED BY <1>1, <1>3, <2>1 DEF Calls
<1> QED BY <1>4, <1>5 DEF Sent

\* Nothing happens to the lines of the other end, to what is sent or to be sent.
LEMMA Stream_Same ==
    ASSUME TypeOK, StreamInv, Sent' = Sent, UNCHANGED <<remote, sendPrepared>>, hasTrack => hasTrack',
           hist'.first = hist.first, ~hist'.asked => ~hist.asked /\ queue' = <<>>,
           DOMAIN sessions' = DOMAIN sessions,
           \A k \in DOMAIN sessions : /\ sessions'[k].kind = sessions[k].kind
                                      /\ sessions'[k].sending = sessions[k].sending
    PROVE  StreamInv'
<1>1. \A k \in DOMAIN sessions : IsFirst(sessions', k) => IsFirst(sessions, k)
  <2>1. Len(sessions) \in Nat /\ DOMAIN sessions = 1..Len(sessions)
    BY CallsType
  <2>2. \A k \in DOMAIN sessions : \A j \in 1..(k - 1) : j \in DOMAIN sessions
    BY <2>1
  <2> QED BY <2>2 DEF IsFirst
<1> QED BY <1>1 DEF StreamInv, SourceFirst

\* The page makes no call that sends.
LEMMA Sent_Page ==
    ASSUME TypeOK, TypeOK', NEW x \in Seq(PeerCall), \A i \in DOMAIN x : x[i].call # "prepareToSend",
           \/ toWorker' = toWorker /\ Waiting' = Waiting
           \/ toWorker' = toWorker \o x /\ Waiting' = Waiting
           \/ toWorker' = toWorker \o Waiting /\ Waiting' = <<>>
    PROVE  Sent' = Sent
<1>1. toWorker \in Seq(PeerCall) /\ Waiting \in Seq(PeerCall)
  BY CallsType
<1>2. /\ Sent = {e \in ToSet(toWorker) \cup ToSet(Waiting) : e.call = "prepareToSend"}
      /\ Sent' = {e \in ToSet(toWorker') \cup ToSet(Waiting') : e.call = "prepareToSend"}
  BY SentFacts
<1>3. CASE toWorker' = toWorker /\ Waiting' = Waiting
  BY <1>2, <1>3
<1>4. CASE toWorker' = toWorker \o x /\ Waiting' = Waiting
  <2>1. ToSet(toWorker') = ToSet(toWorker) \cup ToSet(x)
    BY <1>1, <1>4, ToSetFacts
  <2>2. \A e \in ToSet(x) : e.call # "prepareToSend"
    BY DEF ToSet
  <2> QED BY <1>2, <1>4, <2>1, <2>2
<1>5. CASE toWorker' = toWorker \o Waiting /\ Waiting' = <<>>
  <2>1. ToSet(toWorker') = ToSet(toWorker) \cup ToSet(Waiting)
    BY <1>1, <1>5, ToSetFacts
  <2>2. ToSet(<<>>) = {}
    BY DEF ToSet
  <2> QED BY <1>2, <1>5, <2>1, <2>2
<1> QED BY <1>3, <1>4, <1>5

LEMMA Sent_Same ==
    ASSUME TypeOK, TypeOK',
           \/ toWorker' = toWorker /\ Waiting' = Waiting
           \/ toWorker' = toWorker \o Waiting /\ Waiting' = <<>>
    PROVE  Sent' = Sent
<1>1. <<>> \in Seq(PeerCall) /\ \A i \in DOMAIN <<>> : <<>>[i].call # "prepareToSend"
  BY EmptySeq
<1> QED BY <1>1, Sent_Page

LEMMA Sent_NewChannel ==
    ASSUME TypeOK, TypeOK', waiting' = waiting, NEW id \in Nat, NewChannel(id) PROVE Sent' = Sent
<1> DEFINE e == CreateChannel(Len(channels) + 1, id)
<1>1. e \in PeerCall /\ e.call = "createDataChannel"
  <2>1. Len(channels) + 1 \in Nat
    BY Groups, SequenceFacts DEF ChannelTypeOK
  <2> QED BY <2>1, CreateChannelType
<1>2. toWorker' = toWorker \/ toWorker' = Append(toWorker, e)
  BY DEF NewChannel
<1> HIDE DEF e
<1>3. <<e>> \in Seq(PeerCall) /\ DOMAIN <<e>> = {1} /\ <<e>>[1] = e
  BY <1>1, SingleFacts
<1>4. Append(toWorker, e) = toWorker \o <<e>>
  <2>1. toWorker \in Seq(PeerCall)
    BY CallsType
  <2> QED BY <1>1, <2>1, AppendProperties, ConcatProperties
<1>5. Waiting' = Waiting
  BY DEF Waiting
<1>6. \A i \in DOMAIN <<e>> : <<e>>[i].call # "prepareToSend"
  BY <1>1, <1>3
<1> QED BY <1>2, <1>3, <1>4, <1>5, <1>6, Sent_Page

LEMMA Stream_Script ==
    ASSUME TypeOK, TypeOK', StreamInv, Script PROVE StreamInv'
<1>0. hist \in History
  BY Groups
<1>1. ASSUME UNCHANGED <<waiting, toWorker>> PROVE Sent' = Sent
  <2>1. UNCHANGED Waiting
    BY <1>1 DEF Waiting
  <2> QED BY <1>1, <2>1, Sent_Same
<1>2. ASSUME NEW op, NEW f, EnqueueOperation(op, f), PageUnchanged PROVE StreamInv'
  <2>1. hist'.first = hist.first /\ hist'.asked
    BY <1>0, <1>2 DEF EnqueueOperation, History
  <2>2. UNCHANGED <<waiting, toWorker, remote, hasTrack, sessions, sendPrepared>>
    BY <1>2 DEF EnqueueOperation, PageUnchanged, workerVars
  <2> QED BY <1>1, <2>1, <2>2, Stream_Same
<1>3. CASE CreateOffer \/ CreateAnswer \/ SetLocalDescription \/ SetRemoteOffer \/ SetRemoteAnswer
           \/ AddIceCandidate
  BY <1>2, <1>3 DEF CreateOffer, CreateAnswer, SetLocalDescription, SetRemoteOffer, SetRemoteAnswer,
                    AddIceCandidate
<1>4. CASE AddStream
  <2>1. /\ UNCHANGED <<waiting, toWorker, remote, queue, sessions, sendPrepared>>
        /\ hasTrack' = TRUE /\ ~hasTrack
    BY <1>4 DEF AddStream, workerVars
  <2>2. hist'.asked = hist.asked /\ hist'.first = ~hist.asked
    BY <1>0, <1>4 DEF AddStream, Unnegotiated, History
  <2>3. Sent' = Sent
    BY <1>1, <2>1
  <2>4. ~hist.asked => queue = <<>> /\ remote = <<>> /\ sendPrepared = 0 /\ Sent = {}
    BY DEF StreamInv
  <2>5. CASE hist.asked
    BY <2>1, <2>2, <2>5 DEF StreamInv
  <2>6. CASE ~hist.asked
    <3>1. SourceFirst(<<>>)
      BY DEF SourceFirst
    <3>2. \A k \in DOMAIN sessions : ~(k <= 0)
      BY CallsType
    <3>3. hist'.first => SourceFirst(remote')
      BY <2>1, <2>4, <2>6, <3>1 DEF SourceFirst
    <3> QED BY <2>1, <2>2, <2>3, <2>4, <2>6, <3>2, <3>3 DEF StreamInv
  <2> QED BY <2>5, <2>6
<1>5. CASE Close
  <2>1. /\ hist'.first = hist.first /\ hist'.asked = hist.asked
    BY <1>0, <1>5 DEF Close, History
  <2>2. UNCHANGED <<waiting, toWorker, remote, hasTrack, queue, sessions, sendPrepared>>
    BY <1>5 DEF Close, descVars, workerVars
  <2>3. ~hist'.asked => queue' = <<>>
    BY <2>1, <2>2 DEF StreamInv
  <2> QED BY <1>1, <2>1, <2>2, <2>3, Stream_Same
<1>6. CASE CreateDataChannel
  <2>1. /\ hist'.first = hist.first /\ hist'.asked = hist.asked
    BY <1>0, <1>6 DEF CreateDataChannel, Unnegotiated, History
  <2>2. /\ UNCHANGED <<waiting, remote, hasTrack, queue, sessions, sendPrepared>>
        /\ NewChannel(Unassigned) /\ Unassigned \in Nat
    BY <1>6 DEF CreateDataChannel, workerVars, Unassigned
  <2>3. ~hist'.asked => queue' = <<>>
    BY <2>1, <2>2 DEF StreamInv
  <2>4. Sent' = Sent
    BY <2>2, Sent_NewChannel
  <2> QED BY <2>1, <2>2, <2>3, <2>4, Stream_Same
<1> QED BY <1>3, <1>4, <1>5, <1>6 DEF Script

LEMMA Stream_PageMessage ==
    ASSUME TypeOK, TypeOK', QueueInv, StreamInv, PageMessage PROVE StreamInv'
<1>0. hist \in History /\ ChannelTypeOK /\ MessageTypeOK
  BY Groups
<1>1. hist'.first = hist.first /\ hist'.asked = hist.asked
  BY <1>0 DEF PageMessage, GotPeerHandler, GotIceCandidate, CandidateGatheringDone, GotRemoteSource,
              DataChannelsEnabled, DataChannelRequested, GotChannel, History
<1>2. UNCHANGED <<remote, hasTrack, sessions, sendPrepared>>
  BY DEF PageMessage, GotPeerHandler, GotIceCandidate, CandidateGatheringDone, GotRemoteSource,
         DataChannelsEnabled, DataChannelRequested, GotChannel, descVars, workerVars
<1>3. ~hist.asked => queue = <<>>
  BY DEF StreamInv
<1>4. ASSUME Sent' = Sent, queue = <<>> => queue' = <<>> PROVE StreamInv'
  BY <1>1, <1>2, <1>3, <1>4, Stream_Same
<1>5. CASE GotPeerHandler
  <2>1. waiting' = <<>> /\ Waiting' = <<>>
    BY <1>5 DEF GotPeerHandler, Waiting
  <2>2. CASE waiting = <<>>
    <3>1. toWorker' = toWorker /\ queue' = queue /\ Waiting = <<>>
      BY <1>5, <2>2 DEF GotPeerHandler, Waiting
    <3>2. Sent' = Sent
      BY <2>1, <3>1, Sent_Same
    <3> QED BY <1>4, <3>1, <3>2
  <2>3. CASE waiting # <<>>
    <3>1. toWorker' = toWorker \o Waiting
      BY <1>5, <2>3 DEF GotPeerHandler, Applied, Waiting
    <3>2. Sent' = Sent
      BY <2>1, <3>1, Sent_Same
    <3>3. queue # <<>>
      BY <2>3 DEF QueueInv
    <3> QED BY <1>4, <3>2, <3>3
  <2> QED BY <2>2, <2>3
<1>6. CASE GotIceCandidate \/ CandidateGatheringDone \/ GotRemoteSource \/ GotChannel
  <2>1. UNCHANGED <<waiting, toWorker, queue>>
    BY <1>6 DEF GotIceCandidate, CandidateGatheringDone, GotRemoteSource, GotChannel, queueVars
  <2>2. Waiting' = Waiting
    BY <2>1 DEF Waiting
  <2>3. Sent' = Sent
    BY <2>1, <2>2, Sent_Same
  <2> QED BY <1>4, <2>1, <2>3
<1>7. CASE DataChannelRequested
  <2>1. UNCHANGED <<queue, waiting>> /\ NewChannel(Head(toPage).id)
    BY <1>7 DEF DataChannelRequested, queueVars
  <2>2. Head(toPage).id \in Nat
    <3>1. Head(toPage) \in PageEvent /\ Head(toPage).event = "dataChannelRequested"
      BY <1>0, <1>7, TailFacts DEF DataChannelRequested, FromWorker, MessageTypeOK
    <3> QED BY <3>1, EventFields
  <2>3. Sent' = Sent
    BY <2>1, <2>2, Sent_NewChannel
  <2> QED BY <1>4, <2>1, <2>3
<1>8. CASE DataChannelsEnabled
  <2> DEFINE x == [k \in DOMAIN deferred |-> CreateChannel(deferred[k], channels[deferred[k]])]
  <2>1. toWorker' = toWorker \o x /\ UNCHANGED <<queue, waiting>>
    BY <1>8 DEF DataChannelsEnabled, queueVars
  <2>2. x \in Seq(PeerCall) /\ \A i \in DOMAIN x : x[i].call = "createDataChannel"
    BY <1>0, DeferredType
  <2> HIDE DEF x
  <2>3. Waiting' = Waiting /\ \A i \in DOMAIN x : x[i].call # "prepareToSend"
    BY <2>1, <2>2 DEF Waiting
  <2>4. Sent' = Sent
    BY <2>1, <2>2, <2>3, Sent_Page
  <2> QED BY <1>4, <2>1, <2>4
<1> QED BY <1>5, <1>6, <1>7, <1>8 DEF PageMessage

LEMMA Stream_Timer ==
    ASSUME TypeOK, TypeOK', QueueInv, PlanInv, StreamInv, Timer PROVE StreamInv'
<1>0. hist \in History /\ DescTypeOK'
  BY Groups, GroupsNext
<1>1. hist'.first = hist.first /\ hist'.asked = hist.asked
  BY <1>0 DEF Timer, RunCreateOffer, RunCreateAnswer, RunSetLocalDescription, RunSetRemoteDescription,
              RunAddIceCandidate, RunMaybeDispatch, RunDispatchNegotiationNeeded, Reject, History
<1>2. UNCHANGED <<hasTrack, sessions, sendPrepared>>
  BY DEF Timer, RunCreateOffer, RunCreateAnswer, RunSetLocalDescription, RunSetRemoteDescription,
         RunAddIceCandidate, RunMaybeDispatch, RunDispatchNegotiationNeeded, Reject, Throw, descVars,
         workerVars
<1>3. CASE ~hist.asked
  <2>1. queue = <<>>
    BY <1>3 DEF StreamInv
  <2>2. RunMaybeDispatch \/ RunDispatchNegotiationNeeded
    BY <2>1 DEF Timer, RunCreateOffer, RunCreateAnswer, RunSetLocalDescription, RunSetRemoteDescription,
                RunAddIceCandidate, Running
  <2>3. UNCHANGED <<queue, waiting, toWorker, remote>>
    BY <2>2 DEF RunMaybeDispatch, RunDispatchNegotiationNeeded, descVars
  <2>4. Sent' = Sent
    <3>1. Waiting' = Waiting
      BY <2>3 DEF Waiting
    <3> QED BY <2>3, <3>1, Sent_Same
  <2> QED BY <1>1, <1>2, <2>1, <2>3, <2>4, Stream_Same
<1>4. CASE ~hist.first
  BY <1>1, <1>3, <1>4 DEF StreamInv
<1>5. CASE hist.asked /\ hist.first
  <2>1. PICK x \in Seq(PeerCall) :
              /\ Calls' = Calls \o x
              /\ \A i \in DOMAIN x : \/ x[i].call \in {"prepareToReceive", "addRemoteCandidate"}
                                     \/ x[i].call = "prepareToSend" /\ x[i].lines = remote'
              /\ \/ /\ DOMAIN remote' = DOMAIN remote
                    /\ \A k \in DOMAIN remote : /\ remote'[k].source = remote[k].source
                                                /\ remote'[k].kind = remote[k].kind
                 \/ /\ \A k \in DOMAIN remote' : remote'[k].source <=> hasTrack /\ IsFirst(remote', k)
                    /\ \E i \in DOMAIN x : x[i].call = "prepareToSend"
    BY TimerCalls
  <2>2. Sent' = Sent \cup {e \in ToSet(x) : e.call = "prepareToSend"}
    <3>1. ToSet(Calls') = ToSet(Calls) \cup ToSet(x)
      BY <2>1, CallsType, ToSetFacts
    <3>2. ToSet(Calls)' = ToSet(Calls')
      BY DEF ToSet
    <3> QED BY <3>1, <3>2 DEF Sent
  <2>3. \A e \in ToSet(x) : e.call = "prepareToSend" => e.lines = remote'
    BY <2>1 DEF ToSet
  <2>4. /\ hasTrack /\ \A e \in Sent : SourceFirst(e.lines)
        /\ SourceFirst(remote)
        /\ \A k \in DOMAIN sessions : IsFirst(sessions, k) /\ k <= sendPrepared => sessions[k].sending
        /\ \A k \in DOMAIN remote : IsFirst(remote, k) =>
              \/ k \in DOMAIN sessions /\ sessions[k].sending
              \/ \E e \in Sent : k \in DOMAIN e.lines
    BY <1>5 DEF StreamInv
  <2> DEFINE Ready(lines, sent) ==
                \A k \in DOMAIN lines : IsFirst(lines, k) =>
                   \/ k \in DOMAIN sessions /\ sessions[k].sending
                   \/ \E e \in sent : k \in DOMAIN e.lines
  <2>5. SourceFirst(remote') /\ Ready(remote', Sent')
    <3>1. CASE /\ DOMAIN remote' = DOMAIN remote
               /\ \A k \in DOMAIN remote : /\ remote'[k].source = remote[k].source
                                           /\ remote'[k].kind = remote[k].kind
      <4>1. DOMAIN remote = 1..Len(remote) /\ Len(remote) \in Nat
        BY Groups, SequenceFacts DEF DescTypeOK
      <4>2. \A k \in DOMAIN remote : IsFirst(remote', k) <=> IsFirst(remote, k)
        BY <3>1, <4>1 DEF IsFirst
      <4> QED BY <2>2, <2>4, <3>1, <4>2 DEF SourceFirst
    <3>2. CASE /\ \A k \in DOMAIN remote' : remote'[k].source <=> hasTrack /\ IsFirst(remote', k)
               /\ \E i \in DOMAIN x : x[i].call = "prepareToSend"
      <4>1. PICK e \in ToSet(x) : e.call = "prepareToSend"
        BY <2>1, <3>2, ToSetFacts
      <4>2. e \in Sent' /\ e.lines = remote'
        BY <2>2, <2>3, <4>1
      <4> QED BY <2>4, <3>2, <4>2 DEF SourceFirst
    <3> QED BY <2>1, <3>1, <3>2
  <2>6. \A e \in Sent' : SourceFirst(e.lines)
    BY <2>2, <2>3, <2>4, <2>5
  <2> QED BY <1>1, <1>2, <1>5, <2>4, <2>5, <2>6 DEF StreamInv, SourceFirst
<1> QED BY <1>3, <1>4, <1>5

\* The first line of audio is the same in every sequence of lines that fits what is agreed.
LEMMA FirstInFitting ==
    ASSUME NEW a, NEW b, DOMAIN a = 1..Len(a), DOMAIN b = 1..Len(b), Len(a) \in Nat, Len(b) \in Nat,
           \A i \in DOMAIN a : a[i].kind = Agreed[i].kind,
           \A i \in DOMAIN b : b[i].kind = Agreed[i].kind, NEW k, k \in DOMAIN b, IsFirst(a, k)
    PROVE  IsFirst(b, k)
<1>1. k \in DOMAIN a /\ k \in 1..Len(a) /\ k \in 1..Len(b)
  BY DEF IsFirst
<1>2. \A j \in 1..(k - 1) : j \in DOMAIN a /\ j \in DOMAIN b
  BY <1>1
<1> QED BY <1>1, <1>2 DEF IsFirst

LEMMA Stream_PrepareToSend ==
    ASSUME TypeOK, TypeOK', LinesInv, CallsInv, SessionsInv, StreamInv, ReceivePrepareToSend
    PROVE  StreamInv'
<1> DEFINE c == Head(toWorker)
           l == c.lines
           n == Len(l)
           m == IF n > Len(sessions) THEN n ELSE Len(sessions)
<1>1. /\ toWorker # <<>> /\ toWorker' = Tail(toWorker) /\ c.call = "prepareToSend"
      /\ UNCHANGED <<hist, queue, waiting, remote, hasTrack>>
  BY DEF ReceivePrepareToSend, ToPeerHandler, WorkerOnly, queueVars, descVars
<1>2. Sent = Sent' \cup {c} /\ c \in PeerCall
  <2>1. toWorker \in Seq(PeerCall) /\ Waiting' = Waiting
    BY <1>1, CallsType DEF Waiting
  <2>2. ToSet(toWorker) = {c} \cup ToSet(toWorker') /\ c \in PeerCall
    BY <1>1, <2>1, ToSetFacts, TailFacts
  <2> HIDE DEF c
  <2> QED BY <1>1, <2>1, <2>2, SentFacts
<1>3. /\ l \in Seq(RemoteLine) /\ n \in Nat /\ DOMAIN l = 1..n /\ Len(sessions) \in Nat
      /\ n <= m /\ Len(sessions) <= m /\ DOMAIN sessions' = 1..m /\ Len(sessions') = m
      /\ \A i \in 1..m : sessions'[i].kind = Agreed[i].kind
      /\ \A i \in DOMAIN sessions : i \in 1..m /\ (sessions[i].sending => sessions'[i].sending)
      /\ \A i \in 1..n : i > sendPrepared /\ l[i].source => sessions'[i].sending /\ i <= sendPrepared'
      /\ sendPrepared' = sendPrepared \/ (sendPrepared' \in 1..n /\ sendPrepared < sendPrepared')
  BY SendFacts
<1>4. /\ sendPrepared \in Nat /\ sendPrepared <= Len(sessions) /\ DOMAIN sessions = 1..Len(sessions)
      /\ \A i \in DOMAIN sessions : sessions[i].kind = Agreed[i].kind
      /\ \A i \in DOMAIN remote : remote[i].kind = Agreed[i].kind
      /\ DOMAIN remote = 1..Len(remote) /\ Len(remote) \in Nat
  <2>1. sendPrepared \in Nat /\ DOMAIN sessions = 1..Len(sessions)
    BY CallsType
  <2>2. DOMAIN remote = 1..Len(remote) /\ Len(remote) \in Nat
    BY Groups, SequenceFacts DEF DescTypeOK
  <2> QED BY <2>1, <2>2 DEF SessionsInv, LinesInv, Fits
<1>5. \A i \in DOMAIN l : l[i].kind = Agreed[i].kind
  <2>1. CallFits(Calls, 1, Agreed, Len(local), Len(sessions)) /\ Calls[1] = c
    BY <1>1, HeadCall
  <2>2. Prepares(Calls[1])
    BY <1>1, <2>1 DEF Prepares
  <2> QED BY <2>1, <2>2 DEF CallFits, FitLines
<1> HIDE DEF c, n
<1>6. CASE ~hist.first
  <2>1. hist.asked
    BY <1>2 DEF StreamInv
  <2> QED BY <1>1, <1>6, <2>1 DEF StreamInv
<1>7. CASE hist.first
  <2>1. /\ hasTrack /\ \A e \in Sent : SourceFirst(e.lines)
        /\ SourceFirst(remote)
        /\ \A k \in DOMAIN sessions : IsFirst(sessions, k) /\ k <= sendPrepared => sessions[k].sending
        /\ \A k \in DOMAIN remote : IsFirst(remote, k) =>
              \/ k \in DOMAIN sessions /\ sessions[k].sending
              \/ \E e \in Sent : k \in DOMAIN e.lines
        /\ hist.asked
    BY <1>2, <1>7 DEF StreamInv
  <2>2. ASSUME NEW k \in 1..n, IsFirst(l, k)
        PROVE  k \in DOMAIN sessions' /\ sessions'[k].sending
    <3>0. k \in DOMAIN sessions'
      BY <1>3
    <3>1. CASE k > sendPrepared
      <4>1. l[k].source
        BY <1>2, <1>3, <2>1, <2>2 DEF SourceFirst
      <4> QED BY <1>3, <3>0, <3>1, <4>1
    <3>2. CASE ~(k > sendPrepared)
      <4>1. k \in DOMAIN sessions /\ k <= sendPrepared
        BY <1>3, <1>4, <3>2
      <4>2. IsFirst(sessions, k)
        BY <1>3, <1>4, <1>5, <2>2, <4>1, FirstInFitting DEF n
      <4> QED BY <1>3, <2>1, <4>1, <4>2
    <3> QED BY <3>1, <3>2
  <2>3. ASSUME NEW k \in DOMAIN sessions', IsFirst(sessions', k), k <= sendPrepared'
        PROVE  sessions'[k].sending
    <3>1. CASE k \in 1..n
      <4>1. IsFirst(l, k)
        <5>1. \A i \in DOMAIN sessions' : sessions'[i].kind = Agreed[i].kind
          BY <1>3
        <5>2. DOMAIN sessions' = 1..Len(sessions') /\ Len(sessions') \in Nat
          BY <1>3
        <5> HIDE DEF l
        <5> QED BY <1>3, <1>5, <2>3, <3>1, <5>1, <5>2, FirstInFitting DEF n
      <4> QED BY <2>2, <3>1, <4>1
    <3>2. CASE k \notin 1..n
      <4>1. k \in 1..m /\ k <= sendPrepared
        BY <1>3, <1>4, <2>3, <3>2
      <4>2. k \in DOMAIN sessions
        BY <1>3, <1>4, <4>1
      <4>3. IsFirst(sessions, k)
        <5>1. \A i \in DOMAIN sessions' : sessions'[i].kind = Agreed[i].kind
          BY <1>3
        <5>2. DOMAIN sessions' = 1..Len(sessions') /\ Len(sessions') \in Nat
          BY <1>3
        <5> QED BY <1>3, <1>4, <2>3, <4>2, <5>1, <5>2, FirstInFitting
      <4> QED BY <1>3, <2>1, <4>1, <4>2, <4>3
    <3> QED BY <3>1, <3>2
  <2>4. ASSUME NEW k \in DOMAIN remote, IsFirst(remote, k)
        PROVE  \/ k \in DOMAIN sessions' /\ sessions'[k].sending
               \/ \E e \in Sent' : k \in DOMAIN e.lines
    <3>1. CASE k \in DOMAIN sessions /\ sessions[k].sending
      BY <1>3, <3>1
    <3>2. CASE \E e \in Sent' : k \in DOMAIN e.lines
      BY <3>2
    <3>3. CASE k \in DOMAIN l
      <4> HIDE DEF l
      <4>1. IsFirst(l, k)
        BY <1>3, <1>4, <1>5, <2>4, <3>3, FirstInFitting DEF n
      <4> QED BY <1>3, <2>2, <3>3, <4>1
    <3> QED BY <1>2, <2>1, <2>4, <3>1, <3>2, <3>3
  <2> QED BY <1>1, <1>2, <2>1, <2>3, <2>4 DEF StreamInv, SourceFirst
<1> QED BY <1>6, <1>7

LEMMA Stream_Worker ==
    ASSUME TypeOK, TypeOK', LinesInv, CallsInv, SessionsInv, StreamInv, Worker PROVE StreamInv'
<1>1. /\ toWorker # <<>> /\ toWorker' = Tail(toWorker)
      /\ UNCHANGED <<hist, queue, waiting, remote, hasTrack>>
  <2>1. WorkerOnly
    BY WorkerUnchanged
  <2> QED BY <2>1 DEF Worker, CreatePeerHandler, ReceivePrepareToReceive, ReceivePrepareToSend,
                ReceiveAddRemoteCandidate, ReceiveCreateDataChannel, ToPeerHandler, WorkerOnly,
                queueVars, descVars
<1>2. ASSUME Head(toWorker).call # "prepareToSend" PROVE Sent' = Sent
  <2>1. toWorker \in Seq(PeerCall) /\ Waiting' = Waiting
    BY <1>1, CallsType DEF Waiting
  <2>2. ToSet(toWorker) = {Head(toWorker)} \cup ToSet(toWorker')
    BY <1>1, <2>1, ToSetFacts
  <2> QED BY <1>2, <2>1, <2>2, SentFacts
<1>3. hist'.first = hist.first /\ (~hist'.asked => ~hist.asked /\ queue' = <<>>) /\ (hasTrack => hasTrack')
  BY <1>1 DEF StreamInv
<1>4. CASE ReceivePrepareToSend
  BY <1>4, Stream_PrepareToSend
<1>5. CASE CreatePeerHandler \/ ReceiveCreateDataChannel
  <2>1. UNCHANGED <<sessions, sendPrepared>> /\ Head(toWorker).call # "prepareToSend"
    BY <1>5 DEF CreatePeerHandler, ReceiveCreateDataChannel, workerVars, ToPeerHandler
  <2> QED BY <1>1, <1>2, <1>3, <2>1, Stream_Same
<1>6. CASE ReceiveAddRemoteCandidate
  <2>1. Head(toWorker).call # "prepareToSend"
    BY <1>6 DEF ReceiveAddRemoteCandidate, ToPeerHandler
  <2> QED BY <1>1, <1>2, <1>3, <1>6, <2>1, CandidateFacts, Stream_Same
<1>7. CASE ReceivePrepareToReceive
  <2>1. Head(toWorker).call # "prepareToSend" /\ sendPrepared' = sendPrepared
    BY <1>7 DEF ReceivePrepareToReceive, ToPeerHandler
  <2>2. Sent' = Sent
    BY <1>2, <2>1
  <2>3. \A k \in DOMAIN sessions : /\ k \in DOMAIN sessions' /\ sessions'[k].kind = sessions[k].kind
                                   /\ sessions'[k].sending = sessions[k].sending
    BY <1>7, ReceiveFacts
  <2>4. \A k \in DOMAIN sessions' : k <= sendPrepared => k \in DOMAIN sessions
    <3>1. DOMAIN sessions' \subseteq Nat \ {0}
      BY <1>7, ReceiveFacts
    <3>2. /\ sendPrepared <= Len(sessions) /\ DOMAIN sessions = 1..Len(sessions) /\ Len(sessions) \in Nat
          /\ sendPrepared \in Nat
      BY CallsType DEF SessionsInv
    <3> QED BY <3>1, <3>2
  <2>5. \A k \in DOMAIN sessions : IsFirst(sessions', k) => IsFirst(sessions, k)
    <3>1. DOMAIN sessions = 1..Len(sessions) /\ Len(sessions) \in Nat
      BY CallsType
    <3>2. \A k \in DOMAIN sessions : \A j \in 1..(k - 1) : j \in DOMAIN sessions
      BY <3>1
    <3> QED BY <2>3, <3>2 DEF IsFirst
  <2> QED BY <1>1, <2>1, <2>2, <2>3, <2>4, <2>5 DEF StreamInv, SourceFirst
<1> QED BY <1>4, <1>5, <1>6, <1>7 DEF Worker

LEMMA Stream_Native ==
    ASSUME TypeOK, TypeOK', StreamInv, Native PROVE StreamInv'
<1>1. UNCHANGED <<hist, queue, waiting, Waiting, remote, hasTrack>>
  BY WorkerUnchanged DEF WorkerOnly, queueVars, descVars, Waiting
<1>2. hist'.first = hist.first /\ (~hist'.asked => ~hist.asked /\ queue' = <<>>) /\ (hasTrack => hasTrack')
  BY <1>1 DEF StreamInv
<1>3. CASE KeysGenerated
  <2> DEFINE e == [call |-> "createPeerHandler"]
  <2>1. UNCHANGED <<sessions, sendPrepared>> /\ (toWorker' = toWorker \/ toWorker' = Append(toWorker, e))
    BY <1>3 DEF KeysGenerated, workerVars
  <2>2. e \in PeerCall /\ e.call # "prepareToSend"
    BY DEF PeerCall
  <2> HIDE DEF e
  <2>3. <<e>> \in Seq(PeerCall) /\ \A i \in DOMAIN <<e>> : <<e>>[i].call # "prepareToSend"
    BY <2>2, SingleFacts
  <2>4. Append(toWorker, e) = toWorker \o <<e>>
    <3>1. toWorker \in Seq(PeerCall)
      BY CallsType
    <3> QED BY <2>2, <3>1, AppendProperties, ConcatProperties
  <2>5. Sent' = Sent
    BY <1>1, <2>1, <2>3, <2>4, Sent_Page
  <2> QED BY <1>1, <1>2, <2>1, <2>5, Stream_Same
<1>4. ASSUME NEW i \in DOMAIN sessions, Gather(i) \/ IncomingSource(i) \/ IncomingChannel(i)
      PROVE  StreamInv'
  <2>1. /\ DOMAIN sessions' = DOMAIN sessions
        /\ \A k \in DOMAIN sessions : /\ sessions'[k].kind = sessions[k].kind
                                      /\ sessions'[k].sending = sessions[k].sending
        /\ UNCHANGED <<toWorker, sendPrepared>>
    BY <1>4, NativeFacts
  <2>2. Sent' = Sent
    BY <1>1, <2>1, Sent_Same
  <2> QED BY <1>1, <1>2, <2>1, <2>2, Stream_Same
<1> QED BY <1>3, <1>4 DEF Native

-------------------------------------------------------------------------------
(* The invariant is inductive *)

IndInv ==
    /\ TypeOK /\ QueueInv /\ SignalInv /\ AnnounceInv /\ PlanInv /\ LinesInv
    /\ CallsInv /\ SessionsInv /\ ChannelsInv /\ GatheringInv /\ StreamInv

LEMMA Init_IndInv == Init => IndInv
<1> SUFFICES ASSUME Init PROVE IndInv
  OBVIOUS
<1>1. /\ queue = <<>> /\ waiting = <<>> /\ timers = <<>> /\ sig = "stable" /\ local = <<>>
      /\ remote = <<>> /\ status = <<>> /\ created = NoDescription /\ canCreate = FALSE /\ known = FALSE
      /\ toWorker = <<>> /\ toPage = <<>> /\ sessions = <<>> /\ receivePrepared = 0 /\ sendPrepared = 0
      /\ hasTrack = FALSE /\ hasDataChannels = FALSE
      /\ ~hist.aside /\ ~hist.asked /\ ~hist.first /\ ~hist.ended /\ hist.stale = {}
      /\ hist.announced = {}
  BY DEF Init
<1>2. Len(<<>>) = 0 /\ DOMAIN <<>> = {} /\ ToSet(<<>>) = {} /\ <<>> \o <<>> = <<>>
  BY DEF ToSet
<1>3. TypeOK
  BY TypeOK_Init
<1>4. QueueInv
  BY <1>1, <1>2 DEF QueueInv, Has
<1>5. SignalInv
  BY <1>1 DEF SignalInv, Lacks
<1>6. AnnounceInv
  BY <1>1, <1>2 DEF AnnounceInv
<1>7. Waiting = <<>> /\ Calls = <<>> /\ Agreed = <<>>
  BY <1>1, <1>2 DEF Waiting, Calls, Agreed
<1>8. PlanInv
  <2>1. CreatedPlan
    BY <1>1, <1>2 DEF CreatedPlan, NoDescription, Undone
  <2> QED BY <1>1, <1>2, <2>1 DEF PlanInv, Ordered, Free
<1>9. LinesInv
  BY <1>1, <1>2, <1>7 DEF LinesInv, Fits, NextSig
<1>10. CallsInv
  BY <1>1, <1>2, <1>7 DEF CallsInv, CallsFit, Covered
<1>11. SessionsInv
  BY <1>1, <1>2, <1>7 DEF SessionsInv, Fits
<1>12. ChannelsInv
  BY <1>1, <1>2, <1>7 DEF ChannelsInv, HasEvent, HasCall
<1>13. GatheringInv
  BY <1>1, <1>2 DEF GatheringInv, ToldOnce, Told
<1>14. StreamInv
  BY <1>1, <1>2, <1>7 DEF StreamInv, Sent
<1> QED BY <1>3, <1>4, <1>5, <1>6, <1>8, <1>9, <1>10, <1>11, <1>12, <1>13, <1>14 DEF IndInv

\* The types come first: what is said of the next state is said of sequences and records.
LEMMA Types_Next ==
    ASSUME TypeOK, QueueInv, SessionsInv, Next PROVE TypeOK'
<1>1. CASE Script
  BY <1>1, TypeOK_Script
<1>2. CASE Timer /\ UNCHANGED script
  BY <1>2, TypeOK_Timer
<1>3. CASE PageMessage /\ UNCHANGED script
  <2>1. waiting # <<>> => queue # <<>>
    BY DEF QueueInv
  <2> QED BY <1>3, <2>1, TypeOK_PageMessage
<1>4. CASE Worker /\ UNCHANGED script
  <2>1. \A i \in DOMAIN sessions : sessions[i].added = 0 \/ i <= receivePrepared
    BY DEF SessionsInv
  <2> QED BY <1>4, <2>1, TypeOK_Worker
<1>5. CASE Native /\ UNCHANGED script
  BY <1>5, TypeOK_Native
<1> QED BY <1>1, <1>2, <1>3, <1>4, <1>5 DEF Next

LEMMA Step_IndInv ==
    ASSUME IndInv, Next PROVE IndInv'
<1>1. /\ TypeOK /\ QueueInv /\ SignalInv /\ AnnounceInv /\ PlanInv /\ LinesInv
      /\ CallsInv /\ SessionsInv /\ ChannelsInv /\ GatheringInv /\ StreamInv
  BY DEF IndInv
<1>2. TypeOK'
  BY <1>1, Types_Next
<1>3. AnnounceInv'
  BY <1>1, Announce_Set, Announce_Source, Announce_Other
<1>4. ChannelsInv'
  BY <1>1, <1>2, Channels_Next
<1>5. CASE Script
  BY <1>1, <1>2, <1>3, <1>4, <1>5, Queue_Script, Plan_Script, Calls_Script, Gathering_Page,
     Stream_Script DEF IndInv
<1>6. CASE Timer
  <2>1. PlanInv' /\ LinesInv'
    BY <1>1, <1>2, <1>6, Plan_Timer
  <2> QED BY <1>1, <1>2, <1>3, <1>4, <1>6, <2>1, Queue_Timer, Calls_Timer, Gathering_Page,
             Stream_Timer DEF IndInv
<1>7. CASE PageMessage
  BY <1>1, <1>2, <1>3, <1>4, <1>7, Queue_PageMessage, Plan_PageMessage, Calls_PageMessage,
     Gathering_Page, Stream_PageMessage DEF IndInv
<1>8. CASE Worker
  BY <1>1, <1>2, <1>3, <1>4, <1>8, Queue_Worker, Plan_Worker, Calls_Worker, Gathering_Worker,
     Stream_Worker DEF IndInv
<1>9. CASE Native
  BY <1>1, <1>2, <1>3, <1>4, <1>9, Queue_Worker, Plan_Worker, Calls_Native, Gathering_Native,
     Stream_Native DEF IndInv
<1> QED BY <1>5, <1>6, <1>7, <1>8, <1>9 DEF Next

LEMMA Stutter_IndInv ==
    ASSUME IndInv, UNCHANGED vars PROVE IndInv'
<1>1. /\ TypeOK /\ QueueInv /\ SignalInv /\ AnnounceInv /\ PlanInv /\ LinesInv
      /\ CallsInv /\ SessionsInv /\ ChannelsInv /\ GatheringInv /\ StreamInv
  BY DEF IndInv
<1>2. UNCHANGED <<script, queueVars, descVars, channelVars, known, keys, toWorker, toPage, workerVars, hist>>
  BY DEF vars
<1>3. TypeOK'
  BY <1>1, <1>2, Groups, GroupsNext, GroupsSame
<1>4. QueueInv' /\ SignalInv'
  BY <1>1, <1>2, QueueSame, SignalSame DEF descVars
<1>5. AnnounceInv' /\ PlanInv' /\ LinesInv'
  <2>1. UNCHANGED <<sig, queue, waiting, local, remote, status, created, known, hist>>
    BY <1>2 DEF queueVars, descVars
  <2> QED BY <1>1, <2>1 DEF AnnounceInv, PlanInv, LinesInv, Ordered, Free, LocalPlan, RemotePlan, CreatedPlan,
                            Extends, Fits, Agreed, NextSig, Undone
<1>6. UNCHANGED <<waiting, toWorker, toPage, local, remote, queue, hasTrack, canCreate, sessions,
                  receivePrepared, sendPrepared, hist>>
  BY <1>2 DEF queueVars, descVars, channelVars, workerVars
<1>7. Waiting' = Waiting /\ Calls' = Calls /\ Sent' = Sent /\ Agreed' = Agreed
  BY <1>6 DEF Waiting, Calls, Sent, Agreed
<1>8. CallsInv' /\ SessionsInv' /\ ChannelsInv' /\ GatheringInv'
  BY <1>1, <1>6, <1>7 DEF CallsInv, SessionsInv, ChannelsInv, GatheringInv, Fits, HasEvent, HasCall,
                          Ended, Told, ToldOnce
<1>9. StreamInv'
  BY <1>1, <1>6, <1>7 DEF StreamInv
<1> QED BY <1>1, <1>3, <1>4, <1>5, <1>8, <1>9 DEF IndInv

-------------------------------------------------------------------------------
(* The properties *)

\* Every reachable state satisfies the invariant: the tasks of the page, the calls in the worker
\* and the events of the transport agent, in every order, preserve it (webrtc.js, peerhandler.js).
THEOREM Invariant == Spec => []IndInv
<1>1. Init => IndInv
  BY Init_IndInv
<1>2. IndInv /\ [Next]_vars => IndInv'
  BY Step_IndInv, Stutter_IndInv
<1> QED BY <1>1, <1>2, PTL DEF Spec

\* Every part of the state has its type, and no session is added to the transport agent twice
\* however many descriptions prepare it (prepareToReceive).
THEOREM TypeCorrect == Spec => []TypeOK
<1>1. IndInv => TypeOK
  BY DEF IndInv
<1> QED BY <1>1, Invariant, PTL

\* A page that only sets descriptions after it has added something is told to negotiate it
\* (completeQueuedOperation, maybeDispatchNegotiationNeeded).
THEOREM Signalled == Spec => []NegotiationSignalled
<1>1. IndInv => NegotiationSignalled
  BY DEF IndInv, SignalInv, NegotiationSignalled, Has
<1> QED BY <1>1, Invariant, PTL

\* Every source of the remote description is announced once all of them have come, unless a later
\* description takes back one that has not (gotRemoteSource).
THEOREM Announced == Spec => []RemoteStreamsAnnounced
<1>1. IndInv => RemoteStreamsAnnounced
  BY DEF IndInv, AnnounceInv, RemoteStreamsAnnounced
<1> QED BY <1>1, Invariant, PTL

\* The sessions that a call needs have been made by the calls in front of it
\* (ensureTransportAgentAndSessions, addRemoteCandidate, createDataChannel).
THEOREM SessionsFound == Spec => []CallsFindSessions
<1>1. ASSUME IndInv PROVE CallsFindSessions
  <2>1. TypeOK /\ CallsInv /\ SessionsInv /\ ChannelsInv
    BY <1>1 DEF IndInv
  <2>2. ASSUME ToPeerHandler("addRemoteCandidate") PROVE Head(toWorker).line \in DOMAIN sessions
    <3>1. /\ Calls[1] = Head(toWorker) /\ CallFits(Calls, 1, Agreed, Len(local), Len(sessions))
          /\ Head(toWorker).call = "addRemoteCandidate"
      BY <2>1, <2>2, HeadCall DEF ToPeerHandler
    <3>2. \A j \in 1..(1 - 1) : FALSE
      OBVIOUS
    <3>3. Head(toWorker).line \in 1..Len(sessions)
      BY <3>1, <3>2 DEF CallFits
    <3> QED BY <2>1, <3>3, CallsType
  <2>3. ASSUME ToPeerHandler("createDataChannel") PROVE HasKind(sessions, "application")
    <3>1. Calls # <<>> /\ Calls[1] = Head(toWorker) /\ Head(toWorker).call = "createDataChannel"
      BY <2>1, <2>3, HeadCall DEF ToPeerHandler
    <3>2. Calls[1] \in ToSet(Calls)
      <4>1. Calls \in Seq(PeerCall) /\ 1 \in DOMAIN Calls
        BY <2>1, <3>1, CallsType, SequenceFacts
      <4> QED BY <4>1, ToSetFacts
    <3>3. HasCall(Calls, "createDataChannel")
      BY <3>1, <3>2 DEF HasCall
    <3> QED BY <2>1, <3>3 DEF ChannelsInv
  <2> QED BY <2>1, <2>2, <2>3 DEF CallsFindSessions, SessionsInv
<1> QED BY <1>1, Invariant, PTL

\* For the local description in force the page gets the null candidate exactly when the gathering
\* of every line has ended and none of the ends was noted in a description it has replaced
\* (maybeDispatchGatheringDone, setLocalDescription).
THEOREM CandidatesEnd == Spec => []EndOfCandidates
<1>1. ASSUME IndInv, toPage = <<>>, local # <<>>
      PROVE  hist.ended <=> \A i \in DOMAIN local :
                 i \in DOMAIN sessions /\ sessions[i].gathering = "done" /\ i \notin hist.stale
  <2>1. \A i : ~Told(toPage, i)
    BY <1>1 DEF Told
  <2> QED BY <1>1, <2>1 DEF IndInv, GatheringInv, AllGatheringDone, Ended
<1>2. IndInv => EndOfCandidates
  BY <1>1 DEF EndOfCandidates
<1> QED BY <1>2, Invariant, PTL

\* The stream added before anything was asked for is sent on the first line of audio
\* (updateMediaDescriptionsWithTracks, prepareToSend).
THEOREM FirstStreamSent == Spec => []StreamSent
<1>1. ASSUME IndInv, toWorker = <<>>, queue = <<>>, hist.first, HasKind(remote, "audio")
      PROVE  sessions[FirstAudio(remote)].sending
  <2>1. TypeOK /\ QueueInv /\ StreamInv
    BY <1>1 DEF IndInv
  <2>2. Sent = {}
    <3>1. waiting = <<>>
      BY <1>1, <2>1 DEF QueueInv
    <3>2. ToSet(toWorker) = {} /\ ToSet(Waiting) = {}
      BY <1>1, <3>1 DEF Waiting, ToSet
    <3> QED BY <2>1, <3>2, SentFacts
  <2>3. IsFirst(remote, FirstAudio(remote))
    <3>1. DOMAIN remote = 1..Len(remote) /\ Len(remote) \in Nat
      BY <2>1, Groups, SequenceFacts DEF DescTypeOK
    <3> QED BY <1>1, <3>1, FirstAudioFacts
  <2>4. FirstAudio(remote) \in DOMAIN remote
    BY <2>3 DEF IsFirst
  <2> QED BY <1>1, <2>1, <2>2, <2>3, <2>4 DEF StreamInv
<1>2. IndInv => StreamSent
  BY <1>1 DEF StreamSent
<1> QED BY <1>2, Invariant, PTL
===============================================================================
