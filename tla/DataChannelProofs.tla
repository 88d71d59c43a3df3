------------------------- MODULE DataChannelProofs -------------------------
(* Proofs about DataChannel for any stream ids, policies and bounds.        *)
EXTENDS DataChannel, FiniteSetTheorems, TLAPS

PcType == [Peer -> [Thread -> [at : Label, ch : Channel \cup {NoChannel}]]]
WireType == [Peer -> [Channel -> Seq(Message)]]

----------------------------------------------------------------------------
(* Facts about the helpers *)

\* Removing a message from a stream leaves a stream.
LEMMA RemoveAtType ==
    ASSUME NEW S, NEW s \in Seq(S), NEW i \in DOMAIN s
    PROVE  RemoveAt(s, i) \in Seq(S)
  BY DEF RemoveAt

\* A peer has another end.
LEMMA OtherType == ASSUME NEW p \in Peer PROVE Other(p) \in Peer
<1>1. \E q \in Peer : q # p
  <2> SUFFICES ASSUME Peer = {p} PROVE FALSE
    OBVIOUS
  <2>1. Cardinality(Peer) = 1
    BY FS_Singleton
  <2> QED BY <2>1, PeerAssumption
<1> QED BY <1>1 DEF Other

\* Scheduling a task keeps the queue of every main loop well-formed.
LEMMA ScheduledType ==
    ASSUME ThreadTypeOK, NEW p \in Peer, NEW c \in Channel,
           NEW kind \in TaskKind, NEW n \in Nat
    PROVE  Scheduled(p, kind, c, n) \in [Peer -> Seq(Task)]
<1> DEFINE task == [kind |-> kind, ch |-> c, n |-> n]
<1>1. task \in Task
  BY DEF Task
<1>2. mainQ[p] \in Seq(Task)
  BY DEF ThreadTypeOK
<1>3. Append(mainQ[p], task) \in Seq(Task)
  BY <1>1, <1>2
<1> QED BY <1>3 DEF Scheduled, ThreadTypeOK

\* Taking the first task keeps it so.
LEMMA PopType ==
    ASSUME ThreadTypeOK, NEW p \in Peer, mainQ[p] # <<>>, PopTask(p)
    PROVE  mainQ' \in [Peer -> Seq(Task)]
<1>1. mainQ[p] \in Seq(Task)
  BY DEF ThreadTypeOK
<1>2. Tail(mainQ[p]) \in Seq(Task)
  BY <1>1
<1> QED BY <1>2 DEF PopTask, ThreadTypeOK

\* The first task of a queue is a task.
LEMMA HeadType ==
    ASSUME ThreadTypeOK, NEW p \in Peer, mainQ[p] # <<>>
    PROVE  Head(mainQ[p]).n \in Nat
<1>1. mainQ[p] \in Seq(Task)
  BY DEF ThreadTypeOK
<1>2. Head(mainQ[p]) \in Task
  BY <1>1
<1> QED BY <1>2 DEF Task

\* Pushing a message keeps the streams well-formed.
LEMMA PushedType ==
    ASSUME SctpTypeOK, NEW p \in Peer, NEW c \in Channel,
           NEW type \in {"OPEN", "ACK", "DATA", "RESET"}, NEW n \in Nat
    PROVE  Pushed(p, c, type, n) \in WireType
<1> DEFINE message == [type |-> type, n |-> n]
           q == Other(p)
<1>1. message \in Message
  BY DEF Message
<1>2. q \in Peer
  BY OtherType
<1>3. wire[q] \in [Channel -> Seq(Message)]
  BY <1>2 DEF SctpTypeOK
<1>4. Append(wire[q][c], message) \in Seq(Message)
  BY <1>1, <1>3
<1>5. [wire[q] EXCEPT ![c] = Append(@, message)] \in [Channel -> Seq(Message)]
  BY <1>3, <1>4
<1>6. Pushed(p, c, type, n) = [wire EXCEPT ![q] = [wire[q] EXCEPT ![c] = Append(@, message)]]
  BY <1>2, <1>3 DEF Pushed, SctpTypeOK
<1> QED BY <1>5, <1>6, <1>2 DEF SctpTypeOK, WireType

\* A thread that moves on stays at a label, with a channel or none.
LEMMA GotoType ==
    ASSUME ThreadTypeOK, NEW p \in Peer, NEW t \in Thread, NEW label \in Label,
           NEW c \in Channel \cup {NoChannel}, Goto(p, t, label, c)
    PROVE  pc' \in PcType
  BY DEF Goto, ThreadTypeOK, PcType

\* A thread that is done is idle.
LEMMA ReturnType ==
    ASSUME ThreadTypeOK, NEW p \in Peer, NEW t \in Thread, Return(p, t)
    PROVE  pc' \in PcType
  BY GotoType DEF Return, Label

\* A peer dies of something the model names.
LEMMA DieType ==
    ASSUME ThreadTypeOK, NEW p \in Peer, NEW why \in Fate, Die(p, why)
    PROVE  fate' \in [Peer -> Fate]
  BY DEF Die, ThreadTypeOK

\* Setting the state of one entry.
LEMMA EntryType ==
    ASSUME AgentTypeOK, NEW p \in Peer, NEW c \in Channel, NEW s \in EntryState,
           entry' = [entry EXCEPT ![p][c] = s]
    PROVE  entry' \in [Peer -> [Channel -> EntryState]]
  BY DEF AgentTypeOK

\* Variables left alone keep their types.
LEMMA SessionSame == SessionTypeOK /\ UNCHANGED sessionVars => SessionTypeOK'
  BY DEF SessionTypeOK, sessionVars
\* The agent.
LEMMA AgentSame == AgentTypeOK /\ UNCHANGED agentVars => AgentTypeOK'
  BY DEF AgentTypeOK, agentVars
\* The SCTP elements.
LEMMA SctpSame == SctpTypeOK /\ UNCHANGED sctpVars => SctpTypeOK'
  BY DEF SctpTypeOK, sctpVars
\* The application.
LEMMA AppSame == AppTypeOK /\ UNCHANGED appVars => AppTypeOK'
  BY DEF AppTypeOK, appVars

----------------------------------------------------------------------------
(* Every action keeps the types *)

\* The initial state has the types.
LEMMA TypeOK_Init == Init => TypeOK
<1> SUFFICES ASSUME Init PROVE TypeOK
  OBVIOUS
<1>1. SessionTypeOK
  BY DEF Init, SessionTypeOK, ReadyState
<1>2. AgentTypeOK
  BY DEF Init, AgentTypeOK, EntryState
<1>3. SctpTypeOK
  BY DEF Init, SctpTypeOK
<1>4. AppTypeOK
  BY DEF Init, AppTypeOK
<1>5. ThreadTypeOK
  BY DEF Init, ThreadTypeOK, Label, Fate
<1> QED BY <1>1, <1>2, <1>3, <1>4, <1>5 DEF TypeOK

\* The application only schedules tasks and counts what it did.
LEMMA TypeOK_Application ==
    ASSUME TypeOK, NEW p \in Peer, NEW c \in Channel, Application(p, c)
    PROVE  TypeOK'
<1> USE DEF TypeOK
<1>1. CASE AppAdd(p, c)
  <2>1. SessionTypeOK' /\ AgentTypeOK' /\ SctpTypeOK'
    BY <1>1, SessionSame, AgentSame, SctpSame DEF AppAdd
  <2>2. AppTypeOK'
    BY <1>1 DEF AppAdd, AppTypeOK
  <2>3. ThreadTypeOK'
    BY <1>1, ScheduledType DEF AppAdd, ThreadTypeOK, TaskKind
  <2> QED BY <2>1, <2>2, <2>3
<1>2. CASE AppSend(p, c)
  <2>1. SessionTypeOK' /\ AgentTypeOK' /\ SctpTypeOK'
    BY <1>2, SessionSame, AgentSame, SctpSame DEF AppSend
  <2>2. sent[p][c] + 1 \in Nat
    BY DEF AppTypeOK
  <2>3. AppTypeOK'
    BY <1>2, <2>2 DEF AppSend, AppTypeOK
  <2>4. ThreadTypeOK'
    BY <1>2, <2>2, ScheduledType DEF AppSend, ThreadTypeOK, TaskKind
  <2> QED BY <2>1, <2>3, <2>4
<1>3. CASE AppClose(p, c)
  <2>1. SessionTypeOK' /\ AgentTypeOK' /\ SctpTypeOK'
    BY <1>3, SessionSame, AgentSame, SctpSame DEF AppClose
  <2>2. AppTypeOK'
    BY <1>3 DEF AppClose, AppTypeOK
  <2>3. ThreadTypeOK'
    BY <1>3, ScheduledType DEF AppClose, ThreadTypeOK, TaskKind
  <2> QED BY <2>1, <2>2, <2>3
<1> QED BY <1>1, <1>2, <1>3 DEF Application

\* The tasks of the main loop that are one step long.
LEMMA TypeOK_Tasks ==
    ASSUME TypeOK, NEW p \in Peer, NEW c \in Channel,
           \/ RunAdd(p, c) \/ RunSendUnhooked(p, c) \/ RunSend(p, c)
           \/ RunCloseUnhooked(p, c) \/ RunClose(p, c) \/ RunReady(p, c)
           \/ RunRequested(p, c) \/ RunIncoming(p, c)
    PROVE  TypeOK'
<1> USE DEF TypeOK
<1>1. CASE RunAdd(p, c)
  <2>1. AgentTypeOK' /\ SctpTypeOK' /\ AppTypeOK'
    BY <1>1, AgentSame, SctpSame, AppSame DEF RunAdd
  <2>2. SessionTypeOK'
    BY <1>1 DEF RunAdd, SessionTypeOK
  <2>3. mainQ' \in [Peer -> Seq(Task)]
    BY <1>1, PopType DEF RunAdd, HeadTask
  <2>4. pc' \in PcType
    <3>1. CASE UNCHANGED pc
      BY <3>1 DEF ThreadTypeOK, PcType
    <3>2. CASE Goto(p, "main", "new", c)
      BY <3>2, GotoType DEF Thread, Label
    <3> QED BY <1>1, <3>1, <3>2 DEF RunAdd
  <2>5. ThreadTypeOK'
    BY <1>1, <2>3, <2>4 DEF RunAdd, ThreadTypeOK, PcType
  <2> QED BY <2>1, <2>2, <2>5
<1>2. CASE RunSendUnhooked(p, c)
  <2>1. SessionTypeOK' /\ AgentTypeOK' /\ SctpTypeOK' /\ AppTypeOK'
    BY <1>2, SessionSame, AgentSame, SctpSame, AppSame DEF RunSendUnhooked
  <2>2. ThreadTypeOK'
    BY <1>2, PopType DEF RunSendUnhooked, HeadTask, ThreadTypeOK
  <2> QED BY <2>1, <2>2
<1>3. CASE RunSend(p, c)
  <2>1. SessionTypeOK' /\ AppTypeOK'
    BY <1>3, SessionSame, AppSame DEF RunSend
  <2>2. AgentTypeOK'
    BY <1>3 DEF RunSend, AgentTypeOK, TableReleased
  <2>3. wire' \in WireType
    <3>1. CASE wire' = wire
      BY <3>1 DEF SctpTypeOK, WireType
    <3>2. CASE wire' = Pushed(p, c, "DATA", Head(mainQ[p]).n)
      BY <1>3, <3>2, HeadType, PushedType DEF RunSend, HeadTask
    <3> QED BY <1>3, <3>1, <3>2 DEF RunSend
  <2>4. SctpTypeOK'
    BY <1>3, <2>3 DEF RunSend, SctpTypeOK, WireType
  <2>5. mainQ' \in [Peer -> Seq(Task)]
    BY <1>3, PopType DEF RunSend, HeadTask, ThreadTypeOK
  <2>6. fate' \in [Peer -> Fate]
    BY <1>3, DieType DEF RunSend, ThreadTypeOK, Fate
  <2>7. ThreadTypeOK'
    BY <1>3, <2>5, <2>6 DEF RunSend, ThreadTypeOK
  <2> QED BY <2>1, <2>2, <2>4, <2>7
<1>4. CASE RunCloseUnhooked(p, c)
  <2>1. SessionTypeOK' /\ AgentTypeOK' /\ SctpTypeOK' /\ AppTypeOK'
    BY <1>4, SessionSame, AgentSame, SctpSame, AppSame DEF RunCloseUnhooked
  <2>2. ThreadTypeOK'
    BY <1>4, PopType DEF RunCloseUnhooked, HeadTask, ThreadTypeOK
  <2> QED BY <2>1, <2>2
<1>5. CASE RunClose(p, c)
  <2>1. SessionTypeOK' /\ SctpTypeOK' /\ AppTypeOK'
    BY <1>5, SessionSame, SctpSame, AppSame DEF RunClose
  <2>2. entry' \in [Peer -> [Channel -> EntryState]]
    <3>1. CASE UNCHANGED entry
      BY <3>1 DEF AgentTypeOK
    <3>2. CASE entry' = [entry EXCEPT ![p][c] = "CLOSING"]
      BY <3>2, EntryType DEF EntryState
    <3> QED BY <1>5, <3>1, <3>2 DEF RunClose
  <2>3. AgentTypeOK'
    BY <1>5, <2>2 DEF RunClose, AgentTypeOK, TableReleased
  <2>4. mainQ' \in [Peer -> Seq(Task)]
    <3>1. mainQ[p] \in Seq(Task) /\ mainQ[p] # <<>>
      BY <1>5 DEF RunClose, HeadTask, ThreadTypeOK
    <3>2. Append(Tail(mainQ[p]), [kind |-> "CLOSING", ch |-> c, n |-> 0]) \in Seq(Task)
      BY <3>1 DEF Task, TaskKind, ReadyState
    <3> QED BY <1>5, <3>2 DEF RunClose, ThreadTypeOK
  <2>5. pc' \in PcType
    <3>1. CASE UNCHANGED pc
      BY <3>1 DEF ThreadTypeOK, PcType
    <3>2. CASE Goto(p, "main", "closedec", c)
      BY <3>2, GotoType DEF Thread, Label
    <3> QED BY <1>5, <3>1, <3>2 DEF RunClose
  <2>6. fate' \in [Peer -> Fate]
    BY <1>5, DieType DEF RunClose, ThreadTypeOK, Fate
  <2>7. ThreadTypeOK'
    BY <2>4, <2>5, <2>6 DEF ThreadTypeOK, PcType
  <2> QED BY <2>1, <2>3, <2>7
<1>6. CASE RunReady(p, c)
  <2>1. AgentTypeOK' /\ SctpTypeOK' /\ AppTypeOK'
    BY <1>6, AgentSame, SctpSame, AppSame DEF RunReady
  <2>2. PICK state \in ReadyState : ready' = [ready EXCEPT ![p][c] = state]
    BY <1>6 DEF RunReady
  <2>3. added' = added /\ hooked' = hooked
    BY <1>6 DEF RunReady
  <2>4. SessionTypeOK'
    BY <2>2, <2>3 DEF SessionTypeOK
  <2>5. ThreadTypeOK'
    BY <1>6, PopType DEF RunReady, HeadTask, ThreadTypeOK
  <2> QED BY <2>1, <2>4, <2>5
<1>7. CASE RunRequested(p, c)
  <2>1. SessionTypeOK' /\ AgentTypeOK' /\ SctpTypeOK'
    BY <1>7, SessionSame, AgentSame, SctpSame DEF RunRequested
  <2>2. AppTypeOK'
    BY <1>7 DEF RunRequested, AppTypeOK
  <2>3. ThreadTypeOK'
    BY <1>7, PopType DEF RunRequested, HeadTask, ThreadTypeOK
  <2> QED BY <2>1, <2>2, <2>3
<1>8. CASE RunIncoming(p, c)
  <2>1. SessionTypeOK' /\ AgentTypeOK' /\ SctpTypeOK'
    BY <1>8, SessionSame, AgentSame, SctpSame DEF RunIncoming
  <2>2. got' \in [Peer -> [Channel -> Seq(Nat)]]
    <3>1. Head(mainQ[p]).n \in Nat
      BY <1>8, HeadType DEF RunIncoming, HeadTask
    <3>2. Append(got[p][c], Head(mainQ[p]).n) \in Seq(Nat)
      BY <3>1 DEF AppTypeOK
    <3> QED BY <1>8, <3>2 DEF RunIncoming, AppTypeOK
  <2>3. AppTypeOK'
    BY <1>8, <2>2 DEF RunIncoming, AppTypeOK
  <2>4. ThreadTypeOK'
    BY <1>8, PopType DEF RunIncoming, HeadTask, ThreadTypeOK
  <2> QED BY <2>1, <2>3, <2>4
<1> QED BY <1>1, <1>2, <1>3, <1>4, <1>5, <1>6, <1>7, <1>8

\* The sections of on_new_datachannel, on either thread.
LEMMA TypeOK_OnNewDataChannel ==
    ASSUME TypeOK, NEW p \in Peer, NEW t \in Thread, NEW c \in Channel,
           OnNewDataChannel(p, t, c)
    PROVE  TypeOK'
<1> USE DEF TypeOK
<1>1. CASE LookUpEntry(p, t, c)
  <2>1. SessionTypeOK' /\ SctpTypeOK' /\ AppTypeOK'
    BY <1>1, SessionSame, SctpSame, AppSame DEF LookUpEntry
  <2>2. AgentTypeOK'
    BY <1>1 DEF LookUpEntry, AgentTypeOK, TableReleased
  <2>3. pc' \in PcType
    BY <1>1, GotoType, ReturnType DEF LookUpEntry, Label
  <2>4. ThreadTypeOK'
    BY <1>1, <2>3 DEF LookUpEntry, ThreadTypeOK, PcType
  <2> QED BY <2>1, <2>2, <2>4
<1>2. CASE CreateEntry(p, t, c)
  <2>1. SessionTypeOK' /\ SctpTypeOK' /\ AppTypeOK'
    BY <1>2, SessionSame, SctpSame, AppSame DEF CreateEntry
  <2>2. entry' \in [Peer -> [Channel -> EntryState]]
    <3>1. CASE UNCHANGED entry
      BY <3>1 DEF AgentTypeOK
    <3>2. CASE entry' = [entry EXCEPT ![p][c] = "CONNECTING"]
      BY <3>2, EntryType DEF EntryState
    <3> QED BY <1>2, <3>1, <3>2 DEF CreateEntry
  <2>3. matched' \in [Peer -> SUBSET Channel]
    <3>1. CASE UNCHANGED matched
      BY <3>1 DEF AgentTypeOK
    <3>2. CASE matched' = [matched EXCEPT ![p] = @ \cup {c}]
      BY <3>2 DEF AgentTypeOK
    <3> QED BY <1>2, <3>1, <3>2 DEF CreateEntry, ParametersTaken
  <2>4. tableLock' \in [Peer -> {"free"} \cup Thread]
    BY <1>2 DEF CreateEntry, AgentTypeOK, TableReleased
  <2>5. AgentTypeOK'
    BY <1>2, <2>2, <2>3, <2>4 DEF CreateEntry, AgentTypeOK
  <2>6. pc' \in PcType
    BY <1>2, GotoType, ReturnType DEF CreateEntry, Label
  <2>7. ThreadTypeOK'
    BY <1>2, <2>6 DEF CreateEntry, ThreadTypeOK, PcType
  <2> QED BY <2>1, <2>5, <2>7
<1>3. CASE OpenRequest(p, t, c)
  <2>1. AppTypeOK'
    BY <1>3, AppSame DEF OpenRequest
  <2>2. SessionTypeOK'
    BY <1>3 DEF OpenRequest, SessionTypeOK
  <2>3. AgentTypeOK'
    <3>1. UNCHANGED <<established, worklist, entry, matched, sink, entryLock>>
      BY <1>3 DEF OpenRequest
    <3>2. tableLock' \in [Peer -> {"free"} \cup Thread]
      BY <1>3 DEF OpenRequest, AgentTypeOK, TableReleased
    <3>3. src' \in [Peer -> SUBSET Channel]
      <4>1. CASE UNCHANGED src
        BY <4>1 DEF AgentTypeOK
      <4>2. CASE src' = [src EXCEPT ![p] = @ \cup {c}]
        BY <4>2 DEF AgentTypeOK
      <4> QED BY <1>3, <4>1, <4>2 DEF OpenRequest
    <3> QED BY <3>1, <3>2, <3>3 DEF AgentTypeOK
  <2>4. wire' \in WireType
    <3>1. CASE UNCHANGED wire
      BY <3>1 DEF SctpTypeOK, WireType
    <3>2. CASE wire' = Pushed(p, c, "OPEN", 0)
      BY <3>2, PushedType
    <3> QED BY <1>3, <3>1, <3>2 DEF OpenRequest
  <2>5. SctpTypeOK'
    <3>1. CASE UNCHANGED encPad
      BY <1>3, <2>4, <3>1 DEF OpenRequest, SctpTypeOK, WireType
    <3>2. CASE encPad' = [encPad EXCEPT ![p] = @ \cup {c}]
      <4>1. encPad' \in [Peer -> SUBSET Channel]
        BY <3>2 DEF SctpTypeOK
      <4> QED BY <1>3, <2>4, <4>1 DEF OpenRequest, SctpTypeOK, WireType
    <3> QED BY <1>3, <3>1, <3>2 DEF OpenRequest
  <2>6. pc' \in PcType
    <3>1. CASE UNCHANGED pc
      BY <3>1 DEF ThreadTypeOK, PcType
    <3>2. CASE Goto(p, t, "setopen", c)
      BY <3>2, GotoType DEF Label
    <3>3. CASE Return(p, t)
      BY <3>3, ReturnType
    <3> QED BY <1>3, <3>1, <3>2, <3>3 DEF OpenRequest
  <2>7. fate' \in [Peer -> Fate]
    BY <1>3, DieType DEF OpenRequest, ThreadTypeOK, Fate
  <2>8. ThreadTypeOK'
    BY <1>3, <2>6, <2>7 DEF OpenRequest, ThreadTypeOK, PcType
  <2> QED BY <2>1, <2>2, <2>3, <2>5, <2>8
<1>4. CASE AdoptEntry(p, t, c)
  <2>1. SctpTypeOK' /\ AppTypeOK'
    BY <1>4, SctpSame, AppSame DEF AdoptEntry
  <2>2. SessionTypeOK'
    BY <1>4 DEF AdoptEntry, SessionTypeOK
  <2>3. AgentTypeOK'
    BY <1>4 DEF AdoptEntry, AgentTypeOK
  <2>4. pc' \in PcType
    BY <1>4, GotoType, ReturnType DEF AdoptEntry, Label, ThreadTypeOK, PcType
  <2>5. fate' \in [Peer -> Fate]
    BY <1>4, DieType DEF AdoptEntry, ThreadTypeOK, Fate
  <2>6. ThreadTypeOK'
    BY <1>4, <2>4, <2>5 DEF AdoptEntry, ThreadTypeOK, PcType
  <2> QED BY <2>1, <2>2, <2>3, <2>6
<1>5. CASE CompleteAndAck(p, t, c)
  <2>1. SessionTypeOK' /\ AppTypeOK'
    BY <1>5, SessionSame, AppSame DEF CompleteAndAck
  <2>2. AgentTypeOK'
    BY <1>5 DEF CompleteAndAck, AgentTypeOK, TableReleased
  <2>3. wire' \in WireType
    <3>1. CASE wire' = wire
      BY <3>1 DEF SctpTypeOK, WireType
    <3>2. CASE wire' = Pushed(p, c, "ACK", 0)
      BY <3>2, PushedType
    <3>3. CASE entry[p][c] = "none"
      BY <1>5, <3>1, <3>3 DEF CompleteAndAck
    <3>4. CASE entry[p][c] # "none"
      <4>1. wire' = IF c \in src'[p] THEN Pushed(p, c, "ACK", 0) ELSE wire
        BY <1>5, <3>4 DEF CompleteAndAck
      <4> QED BY <4>1, <3>1, <3>2
    <3> QED BY <3>3, <3>4
  <2>4. SctpTypeOK'
    <3>1. encPad' \in [Peer -> SUBSET Channel]
      <4>1. CASE UNCHANGED encPad
        BY <4>1 DEF SctpTypeOK
      <4>2. CASE encPad' = [encPad EXCEPT ![p] = @ \cup {c}]
        BY <4>2 DEF SctpTypeOK
      <4> QED BY <1>5, <4>1, <4>2 DEF CompleteAndAck
    <3> QED BY <1>5, <2>3, <3>1 DEF CompleteAndAck, SctpTypeOK, WireType
  <2>5. pc' \in PcType
    BY <1>5, GotoType DEF CompleteAndAck, Label, ThreadTypeOK, PcType
  <2>6. fate' \in [Peer -> Fate]
    BY <1>5, DieType DEF CompleteAndAck, ThreadTypeOK, Fate
  <2>7. ThreadTypeOK'
    BY <1>5, <2>5, <2>6 DEF CompleteAndAck, ThreadTypeOK, PcType
  <2> QED BY <2>1, <2>2, <2>4, <2>7
<1>6. CASE SetOpen(p, t, c)
  <2>1. SessionTypeOK' /\ SctpTypeOK' /\ AppTypeOK'
    BY <1>6, SessionSame, SctpSame, AppSame DEF SetOpen
  <2>2. entry' \in [Peer -> [Channel -> EntryState]]
    <3>1. CASE UNCHANGED entry
      BY <3>1 DEF AgentTypeOK
    <3>2. CASE entry' = [entry EXCEPT ![p][c] = "OPEN"]
      BY <3>2, EntryType DEF EntryState
    <3> QED BY <1>6, <3>1, <3>2 DEF SetOpen, Opened
  <2>3. AgentTypeOK'
    BY <1>6, <2>2 DEF SetOpen, AgentTypeOK, TableReleased
  <2>4. pc' \in PcType
    BY <1>6, ReturnType DEF SetOpen, ThreadTypeOK, PcType
  <2>5. fate' \in [Peer -> Fate]
    BY <1>6, DieType DEF SetOpen, ThreadTypeOK, Fate
  <2>6. mainQ' \in [Peer -> Seq(Task)]
    <3>1. CASE UNCHANGED mainQ
      BY <3>1 DEF ThreadTypeOK
    <3>2. CASE mainQ' = Scheduled(p, "OPEN", c, 0)
      BY <3>2, ScheduledType DEF TaskKind, ReadyState
    <3> QED BY <1>6, <3>1, <3>2 DEF SetOpen
  <2>7. ThreadTypeOK'
    BY <2>4, <2>5, <2>6 DEF ThreadTypeOK, PcType
  <2> QED BY <2>1, <2>3, <2>7
<1> QED BY <1>1, <1>2, <1>3, <1>4, <1>5, <1>6 DEF OnNewDataChannel

\* What the two ends of a teardown leave behind.
LEMMA ReleaseEncoderType ==
    ASSUME TypeOK, NEW p \in Peer, NEW c \in Channel,
           NEW sinks \in [Peer -> SUBSET Channel], ReleaseEncoder(p, c, sinks)
    PROVE  /\ entry' \in [Peer -> [Channel -> EntryState]]
           /\ matched' \in [Peer -> SUBSET Channel]
           /\ src' \in [Peer -> SUBSET Channel]
           /\ sink' \in [Peer -> SUBSET Channel]
           /\ encPad' \in [Peer -> SUBSET Channel]
           /\ wire' \in WireType
           /\ mainQ' \in [Peer -> Seq(Task)]
           /\ fate' \in [Peer -> Fate]
<1> USE DEF TypeOK
<1>1. src' \in [Peer -> SUBSET Channel] /\ sink' \in [Peer -> SUBSET Channel]
  BY DEF ReleaseEncoder, AgentTypeOK
<1>2. encPad' \in [Peer -> SUBSET Channel] /\ wire' \in WireType
  <2>1. CASE c \in src[p]
    <3>1. encPad' = [encPad EXCEPT ![p] = @ \ {c}] /\ wire' = Pushed(p, c, "RESET", 0)
      BY <2>1 DEF ReleaseEncoder
    <3> QED BY <3>1, PushedType DEF SctpTypeOK
  <2>2. CASE c \notin src[p]
    <3>1. UNCHANGED <<encPad, wire>>
      BY <2>2 DEF ReleaseEncoder
    <3> QED BY <3>1 DEF SctpTypeOK, WireType
  <2> QED BY <2>1, <2>2
<1>3. /\ entry' \in [Peer -> [Channel -> EntryState]]
      /\ matched' \in [Peer -> SUBSET Channel]
      /\ mainQ' \in [Peer -> Seq(Task)]
  <2>1. CASE c \in sinks[p]
    <3>1. UNCHANGED <<entry, matched, mainQ>>
      BY <2>1 DEF ReleaseEncoder
    <3> QED BY <3>1 DEF AgentTypeOK, ThreadTypeOK
  <2>2. CASE c \notin sinks[p]
    <3>1. /\ entry' = [entry EXCEPT ![p][c] = "none"]
          /\ matched' = [matched EXCEPT ![p] = @ \ {c}]
          /\ mainQ' = Scheduled(p, "CLOSED", c, 0)
      BY <2>2 DEF ReleaseEncoder
    <3>2. entry' \in [Peer -> [Channel -> EntryState]]
      BY <3>1 DEF AgentTypeOK, EntryState
    <3>3. matched' \in [Peer -> SUBSET Channel]
      BY <3>1 DEF AgentTypeOK
    <3>4. mainQ' \in [Peer -> Seq(Task)]
      BY <3>1, ScheduledType DEF ThreadTypeOK, TaskKind, ReadyState
    <3> QED BY <3>2, <3>3, <3>4
  <2> QED BY <2>1, <2>2
<1>4. fate' \in [Peer -> Fate]
  <2>1. fate \in [Peer -> Fate]
    BY DEF ThreadTypeOK
  <2>2. UNCHANGED fate \/ Die(p, "freed_lock")
    BY DEF ReleaseEncoder, UnlockFreed
  <2> QED BY <2>1, <2>2, DieType DEF Fate
<1> QED BY <1>1, <1>2, <1>3, <1>4

\* The two halves of on_datachannel_close.
LEMMA TypeOK_Close ==
    ASSUME TypeOK, NEW p \in Peer, NEW c \in Channel,
           CloseDecoder(p, c) \/ CloseEncoder(p, c)
    PROVE  TypeOK'
<1> USE DEF TypeOK
<1>1. CASE CloseDecoder(p, c)
  <2>1. SessionTypeOK' /\ AppTypeOK'
    BY <1>1, SessionSame, AppSame DEF CloseDecoder
  <2>2. AgentTypeOK'
    <3>1. UNCHANGED <<established, worklist, entry, matched, src, tableLock, entryLock>>
      BY <1>1 DEF CloseDecoder
    <3>2. CASE UNCHANGED sink
      BY <3>1, <3>2 DEF AgentTypeOK
    <3>3. CASE sink' = [sink EXCEPT ![p] = @ \ {c}]
      <4>1. sink' \in [Peer -> SUBSET Channel]
        BY <3>3 DEF AgentTypeOK
      <4> QED BY <3>1, <4>1 DEF AgentTypeOK
    <3> QED BY <1>1, <3>2, <3>3 DEF CloseDecoder
  <2>3. SctpTypeOK'
    <3>1. UNCHANGED <<encPad, assoc>>
      BY <1>1 DEF CloseDecoder
    <3>2. CASE UNCHANGED <<decPad, wire>>
      BY <3>1, <3>2 DEF SctpTypeOK
    <3>3. CASE decPad' = [decPad EXCEPT ![p] = @ \ {c}] /\ wire' = Pushed(p, c, "RESET", 0)
      <4>1. decPad' \in [Peer -> SUBSET Channel]
        BY <3>3 DEF SctpTypeOK
      <4>2. wire' \in WireType
        BY <3>3, PushedType
      <4> QED BY <3>1, <4>1, <4>2 DEF SctpTypeOK, WireType
    <3> QED BY <1>1, <3>2, <3>3 DEF CloseDecoder, ResetDecoder
  <2>4. pc' \in PcType
    <3>1. CASE UNCHANGED pc
      BY <3>1 DEF ThreadTypeOK, PcType
    <3>2. CASE Goto(p, "main", "closeenc", c)
      BY <3>2, GotoType DEF Thread, Label
    <3> QED BY <1>1, <3>1, <3>2 DEF CloseDecoder
  <2>5. fate' \in [Peer -> Fate]
    BY <1>1, DieType DEF CloseDecoder, ThreadTypeOK, Fate
  <2>6. ThreadTypeOK'
    BY <1>1, <2>4, <2>5 DEF CloseDecoder, ThreadTypeOK, PcType
  <2> QED BY <2>1, <2>2, <2>3, <2>6
<1>2. CASE CloseEncoder(p, c)
  <2>1. SessionTypeOK' /\ AppTypeOK'
    BY <1>2, SessionSame, AppSame DEF CloseEncoder
  <2>2. UNCHANGED <<established, worklist, tableLock, entryLock, decPad, assoc>>
    BY <1>2 DEF CloseEncoder
  <2>3. CASE entry[p][c] = "none"
    <3>1. UNCHANGED <<entry, matched, src, sink, encPad, wire, mainQ, pc>>
      BY <1>2, <2>3 DEF CloseEncoder
    <3>2. fate' \in [Peer -> Fate]
      BY <1>2, <2>3, DieType DEF CloseEncoder, ThreadTypeOK, Fate
    <3> QED BY <2>1, <2>2, <3>1, <3>2 DEF AgentTypeOK, SctpTypeOK, ThreadTypeOK
  <2>4. CASE entry[p][c] # "none"
    <3>1. ReleaseEncoder(p, c, sink) /\ Return(p, "main")
      BY <1>2, <2>4 DEF CloseEncoder
    <3>2. sink \in [Peer -> SUBSET Channel]
      BY DEF AgentTypeOK
    <3>3. pc' \in PcType
      BY <3>1, ReturnType DEF Thread
    <3>4. AgentTypeOK'
      BY <2>2, <3>1, <3>2, ReleaseEncoderType DEF AgentTypeOK
    <3>5. SctpTypeOK'
      BY <2>2, <3>1, <3>2, ReleaseEncoderType DEF SctpTypeOK, WireType
    <3>6. ThreadTypeOK'
      BY <3>1, <3>2, <3>3, ReleaseEncoderType DEF ThreadTypeOK, PcType
    <3> QED BY <2>1, <3>4, <3>5, <3>6
  <2> QED BY <2>3, <2>4
<1> QED BY <1>1, <1>2

\* The association coming up and going down.
LEMMA TypeOK_Association ==
    ASSUME TypeOK, NEW p \in Peer, AssociationUp(p) \/ AssociationDown(p)
    PROVE  TypeOK'
<1> USE DEF TypeOK
<1>1. SessionTypeOK' /\ AppTypeOK'
  BY SessionSame, AppSame DEF AssociationUp, AssociationDown
<1>2. ThreadTypeOK'
  BY DEF AssociationUp, AssociationDown, ThreadTypeOK
<1>3. CASE AssociationUp(p)
  <2>1. AgentTypeOK'
    BY <1>3 DEF AssociationUp, AgentTypeOK, SessionTypeOK
  <2>2. SctpTypeOK'
    BY <1>3 DEF AssociationUp, SctpTypeOK
  <2> QED BY <1>1, <1>2, <2>1, <2>2
<1>4. CASE AssociationDown(p)
  <2>1. AgentTypeOK'
    BY <1>4 DEF AssociationDown, AgentTypeOK
  <2>2. SctpTypeOK'
    BY <1>4 DEF AssociationDown, SctpTypeOK
  <2> QED BY <1>1, <1>2, <2>1, <2>2
<1> QED BY <1>3, <1>4

\* The other handlers of the SCTP thread.
LEMMA TypeOK_SctpThread ==
    ASSUME TypeOK, NEW p \in Peer, NEW c \in Channel,
           VisitNext(p, c) \/ PadAdded(p, c) \/ PadRemoved(p, c) \/ TearDown(p, c)
    PROVE  TypeOK'
<1> USE DEF TypeOK
<1>1. CASE VisitNext(p, c)
  <2>1. SessionTypeOK' /\ SctpTypeOK' /\ AppTypeOK'
    BY <1>1, SessionSame, SctpSame, AppSame DEF VisitNext
  <2>2. AgentTypeOK'
    BY <1>1 DEF VisitNext, AgentTypeOK
  <2>3. pc' \in PcType
    BY <1>1, GotoType DEF VisitNext, Thread, Label
  <2>4. ThreadTypeOK'
    BY <1>1, <2>3 DEF VisitNext, ThreadTypeOK, PcType
  <2> QED BY <2>1, <2>2, <2>4
<1>2. CASE PadAdded(p, c)
  <2>1. SessionTypeOK' /\ AppTypeOK'
    BY <1>2, SessionSame, AppSame DEF PadAdded
  <2>2. entry' \in [Peer -> [Channel -> EntryState]]
    <3>1. CASE UNCHANGED entry
      BY <3>1 DEF AgentTypeOK
    <3>2. CASE entry' = [entry EXCEPT ![p][c] = "CONNECTING"]
      BY <3>2, EntryType DEF EntryState
    <3> QED BY <1>2, <3>1, <3>2 DEF PadAdded
  <2>3. sink' \in [Peer -> SUBSET Channel]
    <3>1. CASE UNCHANGED sink
      BY <3>1 DEF AgentTypeOK
    <3>2. CASE sink' = [sink EXCEPT ![p] = @ \cup {c}]
      BY <3>2 DEF AgentTypeOK
    <3> QED BY <1>2, <3>1, <3>2 DEF PadAdded
  <2>4. tableLock' \in [Peer -> {"free"} \cup Thread]
    BY <1>2 DEF PadAdded, TableReleased, AgentTypeOK
  <2>5. AgentTypeOK'
    BY <1>2, <2>2, <2>3, <2>4 DEF PadAdded, AgentTypeOK
  <2>6. SctpTypeOK'
    BY <1>2 DEF PadAdded, SctpTypeOK
  <2>7. fate' \in [Peer -> Fate]
    BY <1>2, DieType DEF PadAdded, ThreadTypeOK, Fate
  <2>8. ThreadTypeOK'
    BY <1>2, <2>7 DEF PadAdded, ThreadTypeOK
  <2> QED BY <2>1, <2>5, <2>6, <2>8
<1>3. CASE PadRemoved(p, c)
  <2>1. SessionTypeOK' /\ AppTypeOK'
    BY <1>3, SessionSame, AppSame DEF PadRemoved
  <2>2. entry' \in [Peer -> [Channel -> EntryState]]
    <3>1. CASE UNCHANGED entry
      BY <3>1 DEF AgentTypeOK
    <3>2. CASE entry' = [entry EXCEPT ![p][c] = "CLOSING"]
      BY <3>2, EntryType DEF EntryState
    <3> QED BY <1>3, <3>1, <3>2 DEF PadRemoved
  <2>3. tableLock' \in [Peer -> {"free"} \cup Thread]
    <3>1. CASE UNCHANGED tableLock
      BY <3>1 DEF AgentTypeOK
    <3>2. CASE tableLock' = TableReleased(p)
      BY <3>2 DEF TableReleased, AgentTypeOK
    <3> QED BY <1>3, <3>1, <3>2 DEF PadRemoved
  <2>4. AgentTypeOK'
    BY <1>3, <2>2, <2>3 DEF PadRemoved, AgentTypeOK
  <2>5. wire' \in WireType
    <3>1. wire[p] \in [Channel -> Seq(Message)] /\ wire[p][c] # <<>>
      BY <1>3 DEF PadRemoved, SctpTypeOK
    <3>2. Tail(wire[p][c]) \in Seq(Message)
      BY <3>1
    <3>3. wire' = [wire EXCEPT ![p][c] = Tail(@)]
      BY <1>3 DEF PadRemoved
    <3> QED BY <3>1, <3>2, <3>3 DEF SctpTypeOK, WireType
  <2>6. SctpTypeOK'
    BY <1>3, <2>5 DEF PadRemoved, SctpTypeOK, WireType
  <2>7. mainQ' \in [Peer -> Seq(Task)]
    <3>1. CASE UNCHANGED mainQ
      BY <3>1 DEF ThreadTypeOK
    <3>2. CASE mainQ' = Scheduled(p, "CLOSING", c, 0)
      BY <3>2, ScheduledType DEF TaskKind, ReadyState
    <3> QED BY <1>3, <3>1, <3>2 DEF PadRemoved
  <2>8. pc' \in PcType
    <3>1. CASE UNCHANGED pc
      BY <3>1 DEF ThreadTypeOK, PcType
    <3>2. CASE Goto(p, "sctp", "teardown", c)
      BY <3>2, GotoType DEF Thread, Label
    <3> QED BY <1>3, <3>1, <3>2 DEF PadRemoved
  <2>9. fate' \in [Peer -> Fate]
    BY <1>3, DieType DEF PadRemoved, ThreadTypeOK, Fate
  <2>10. ThreadTypeOK'
    BY <2>7, <2>8, <2>9 DEF ThreadTypeOK, PcType
  <2> QED BY <2>1, <2>4, <2>6, <2>10
<1>4. CASE TearDown(p, c)
  <2>1. SessionTypeOK' /\ AppTypeOK'
    BY <1>4, SessionSame, AppSame DEF TearDown
  <2>2. UNCHANGED <<established, worklist, tableLock, entryLock, decPad, assoc>>
    BY <1>4 DEF TearDown
  <2>3. CASE entry[p][c] = "none"
    <3>1. UNCHANGED <<entry, matched, src, sink, encPad, wire, mainQ, pc>>
      BY <1>4, <2>3 DEF TearDown
    <3>2. fate' \in [Peer -> Fate]
      BY <1>4, <2>3, DieType DEF TearDown, ThreadTypeOK, Fate
    <3> QED BY <2>1, <2>2, <3>1, <3>2 DEF AgentTypeOK, SctpTypeOK, ThreadTypeOK
  <2>4. CASE entry[p][c] # "none"
    <3> DEFINE sinks == [sink EXCEPT ![p] = @ \ {c}]
    <3>1. ReleaseEncoder(p, c, sinks) /\ Return(p, "sctp")
      BY <1>4, <2>4 DEF TearDown
    <3>2. sinks \in [Peer -> SUBSET Channel]
      BY DEF AgentTypeOK
    <3>3. pc' \in PcType
      BY <3>1, ReturnType DEF Thread
    <3> HIDE DEF sinks
    <3>4. AgentTypeOK'
      BY <2>2, <3>1, <3>2, ReleaseEncoderType DEF AgentTypeOK
    <3>5. SctpTypeOK'
      BY <2>2, <3>1, <3>2, ReleaseEncoderType DEF SctpTypeOK, WireType
    <3>6. ThreadTypeOK'
      BY <3>1, <3>2, <3>3, ReleaseEncoderType DEF ThreadTypeOK, PcType
    <3> QED BY <2>1, <3>4, <3>5, <3>6
  <2> QED BY <2>3, <2>4
<1> QED BY <1>1, <1>2, <1>3, <1>4

\* What every message a stream hands over leaves behind.
LEMMA ReceiveType ==
    ASSUME TypeOK, NEW p \in Peer, NEW c \in Channel, NEW i, NEW type,
           Receive(p, c, i, type)
    PROVE  /\ wire[p][c][i].n \in Nat
           /\ SessionTypeOK' /\ SctpTypeOK'
           /\ UNCHANGED <<established, worklist, src, sink, tableLock, entryLock>>
           /\ UNCHANGED <<offered, asked, sent, got, closing, pc>>
<1> USE DEF TypeOK
<1>1. wire[p] \in [Channel -> Seq(Message)] /\ i \in DOMAIN wire[p][c]
  BY DEF Receive, Arriving, SctpTypeOK
<1>2. wire[p][c][i].n \in Nat
  <2>1. wire[p][c][i] \in Message
    BY <1>1
  <2> QED BY <2>1 DEF Message
<1>3. RemoveAt(wire[p][c], i) \in Seq(Message)
  BY <1>1, RemoveAtType
<1>4. wire' = [wire EXCEPT ![p][c] = RemoveAt(wire[p][c], i)]
  BY DEF Receive
<1>5. wire' \in WireType
  <2> DEFINE rest == RemoveAt(wire[p][c], i)
  <2>1. rest \in Seq(Message) /\ wire' = [wire EXCEPT ![p][c] = rest]
    BY <1>3, <1>4
  <2> HIDE DEF rest
  <2> QED BY <1>1, <2>1 DEF SctpTypeOK, WireType
<1>6. SctpTypeOK'
  BY <1>5 DEF Receive, SctpTypeOK, WireType
<1>7. SessionTypeOK'
  BY SessionSame DEF Receive
<1> QED BY <1>2, <1>6, <1>7 DEF Receive

\* The three kinds of message.
LEMMA TypeOK_Stream ==
    ASSUME TypeOK, NEW p \in Peer, NEW c \in Channel, Stream(p, c)
    PROVE  TypeOK'
<1> USE DEF TypeOK
<1>1. CASE ReceiveOpen(p, c)
  <2>1. PICK i \in Arriving(p, c) :
          /\ Receive(p, c, i, "OPEN")
          /\ \/ Die(p, "bad_access") /\ UNCHANGED <<matched, mainQ>>
             \/ /\ matched' = [matched EXCEPT ![p] = @ \cup {c}]
                /\ mainQ' = Scheduled(p, "requested", c, 0)
                /\ UNCHANGED fate
          /\ UNCHANGED <<entry, early>>
    BY <1>1 DEF ReceiveOpen, ParametersTaken
  <2>r. /\ SessionTypeOK' /\ SctpTypeOK'
        /\ UNCHANGED <<established, worklist, src, sink, tableLock, entryLock>>
        /\ UNCHANGED <<offered, asked, sent, got, closing, pc>>
    BY <2>1, ReceiveType
  <2>2. AgentTypeOK'
    <3>1. matched' \in [Peer -> SUBSET Channel]
      <4>1. CASE UNCHANGED matched
        BY <4>1 DEF AgentTypeOK
      <4>2. CASE matched' = [matched EXCEPT ![p] = @ \cup {c}]
        BY <4>2 DEF AgentTypeOK
      <4> QED BY <2>1, <4>1, <4>2
    <3> QED BY <2>1, <2>r, <3>1 DEF AgentTypeOK
  <2>3. AppTypeOK'
    BY <2>1, <2>r DEF AppTypeOK
  <2>4. mainQ' \in [Peer -> Seq(Task)]
    BY <2>1, ScheduledType DEF ThreadTypeOK, TaskKind
  <2>5. fate' \in [Peer -> Fate]
    BY <2>1, DieType DEF ThreadTypeOK, Fate
  <2>6. ThreadTypeOK'
    BY <2>1, <2>4, <2>5, <2>r DEF ThreadTypeOK
  <2> QED BY <2>1, <2>2, <2>3, <2>6, <2>r
<1>2. CASE ReceiveAck(p, c)
  <2>1. PICK i \in Arriving(p, c) :
          /\ Receive(p, c, i, "ACK")
          /\ \/ Die(p, "assert_ack") /\ UNCHANGED <<entry, mainQ>>
             \/ /\ entry' = [entry EXCEPT ![p][c] = "OPEN"]
                /\ mainQ' = Scheduled(p, "OPEN", c, 0)
                /\ UNCHANGED fate
          /\ UNCHANGED <<matched, early>>
    BY <1>2 DEF ReceiveAck, Opened
  <2>r. /\ SessionTypeOK' /\ SctpTypeOK'
        /\ UNCHANGED <<established, worklist, src, sink, tableLock, entryLock>>
        /\ UNCHANGED <<offered, asked, sent, got, closing, pc>>
    BY <2>1, ReceiveType
  <2>2. AgentTypeOK'
    <3>1. entry' \in [Peer -> [Channel -> EntryState]]
      BY <2>1, EntryType DEF AgentTypeOK, EntryState
    <3> QED BY <2>1, <3>1, <2>r DEF AgentTypeOK
  <2>3. AppTypeOK'
    BY <2>1, <2>r DEF AppTypeOK
  <2>4. mainQ' \in [Peer -> Seq(Task)]
    BY <2>1, ScheduledType DEF ThreadTypeOK, TaskKind, ReadyState
  <2>5. fate' \in [Peer -> Fate]
    BY <2>1, DieType DEF ThreadTypeOK, Fate
  <2>6. ThreadTypeOK'
    BY <2>1, <2>4, <2>5, <2>r DEF ThreadTypeOK
  <2> QED BY <2>1, <2>2, <2>3, <2>6, <2>r
<1>3. CASE ReceiveData(p, c)
  <2>1. PICK i \in Arriving(p, c) :
          /\ Receive(p, c, i, "DATA")
          /\ \/ Die(p, "assert_message") /\ UNCHANGED <<early, mainQ>>
             \/ /\ early' = [early EXCEPT ![p] = @ \cup {<<c, wire[p][c][i].n>>}]
                /\ UNCHANGED <<mainQ, fate>>
             \/ /\ mainQ' = Scheduled(p, "incoming", c, wire[p][c][i].n)
                /\ UNCHANGED <<early, fate>>
          /\ UNCHANGED <<entry, matched>>
    BY <1>3 DEF ReceiveData
  <2>r. /\ SessionTypeOK' /\ SctpTypeOK'
        /\ UNCHANGED <<established, worklist, src, sink, tableLock, entryLock>>
        /\ UNCHANGED <<offered, asked, sent, got, closing, pc>>
    BY <2>1, ReceiveType
  <2>2. wire[p][c][i].n \in Nat
    BY <2>1, ReceiveType
  <2>3. AgentTypeOK'
    BY <2>1, <2>r DEF AgentTypeOK
  <2>4. AppTypeOK'
    <3>1. early' \in [Peer -> SUBSET (Channel \X Nat)]
      <4>1. CASE UNCHANGED early
        BY <4>1 DEF AppTypeOK
      <4>2. CASE early' = [early EXCEPT ![p] = @ \cup {<<c, wire[p][c][i].n>>}]
        BY <4>2, <2>2 DEF AppTypeOK
      <4> QED BY <2>1, <4>1, <4>2
    <3> QED BY <2>1, <3>1, <2>r DEF AppTypeOK
  <2>5. mainQ' \in [Peer -> Seq(Task)]
    <3>1. CASE UNCHANGED mainQ
      BY <3>1 DEF ThreadTypeOK
    <3>2. CASE mainQ' = Scheduled(p, "incoming", c, wire[p][c][i].n)
      BY <3>2, <2>2, ScheduledType DEF TaskKind
    <3> QED BY <2>1, <3>1, <3>2
  <2>6. fate' \in [Peer -> Fate]
    BY <2>1, DieType DEF ThreadTypeOK, Fate
  <2>7. ThreadTypeOK'
    BY <2>1, <2>5, <2>6, <2>r DEF ThreadTypeOK
  <2> QED BY <2>1, <2>3, <2>4, <2>7, <2>r
<1> QED BY <1>1, <1>2, <1>3 DEF Stream

\* Every step of the specification, and every stutter, keeps the types.
LEMMA TypeOK_Next == TypeOK /\ [Next]_vars => TypeOK'
<1> SUFFICES ASSUME TypeOK, [Next]_vars PROVE TypeOK'
  OBVIOUS
<1>1. CASE UNCHANGED vars
  BY <1>1, SessionSame, AgentSame, SctpSame, AppSame DEF TypeOK, ThreadTypeOK, vars
<1>2. CASE Next
  <2>1. PICK p \in Peer :
          \/ AssociationUp(p)
          \/ AssociationDown(p)
          \/ \E c \in Channel :
                Application(p, c) \/ MainLoop(p, c) \/ SctpThread(p, c) \/ Stream(p, c)
    BY <1>2 DEF Next
  <2>2. CASE AssociationUp(p) \/ AssociationDown(p)
    BY <2>2, TypeOK_Association
  <2>3. CASE \E c \in Channel :
               Application(p, c) \/ MainLoop(p, c) \/ SctpThread(p, c) \/ Stream(p, c)
    <3>1. PICK c \in Channel :
            Application(p, c) \/ MainLoop(p, c) \/ SctpThread(p, c) \/ Stream(p, c)
      BY <2>3
    <3>2. CASE Application(p, c)
      BY <3>2, TypeOK_Application
    <3>3. CASE MainLoop(p, c)
      BY <3>3, TypeOK_Tasks, TypeOK_Close, TypeOK_OnNewDataChannel DEF MainLoop, Thread
    <3>4. CASE SctpThread(p, c)
      BY <3>4, TypeOK_SctpThread, TypeOK_OnNewDataChannel DEF SctpThread, Thread
    <3>5. CASE Stream(p, c)
      BY <3>5, TypeOK_Stream
    <3> QED BY <3>1, <3>2, <3>3, <3>4, <3>5
  <2> QED BY <2>1, <2>2, <2>3
<1> QED BY <1>1, <1>2

\* The state of the agents, sessions, applications and streams keeps to its
\* types, whatever the stream ids and the applications' policies.
THEOREM TypeCorrect == Spec => []TypeOK
<1>1. Init => TypeOK
  BY TypeOK_Init
<1>2. TypeOK /\ [Next]_vars => TypeOK'
  BY TypeOK_Next
<1> QED BY <1>1, <1>2, PTL DEF Spec

----------------------------------------------------------------------------
(* An open entry has a channel.  Nothing but a handler that was started for *)
(* a channel of the session, or an ACK for one, opens an entry or sets the  *)
(* closures, and the session's table never shrinks.                         *)

ChannelInv == TypeOK /\ OpenHasChannel /\ WorksOnAdded

\* What an action may do to the session, the table, the work list and the
\* threads without breaking the invariant.
LEMMA ChannelStep ==
    ASSUME ChannelInv, NEW p \in Peer, NEW c \in Channel, NEW t \in Thread,
           \/ UNCHANGED added
           \/ added' = [added EXCEPT ![p] = @ \cup {c}],
           \/ UNCHANGED hooked
           \/ c \in added[p] /\ hooked' = [hooked EXCEPT ![p] = @ \cup {c}],
           \/ UNCHANGED worklist
           \/ worklist' = [worklist EXCEPT ![p] = @ \ {c}]
           \/ worklist' = [worklist EXCEPT ![p] = added[p]],
           \/ UNCHANGED entry
           \/ \E s \in EntryState :
            entry' = [entry EXCEPT ![p][c] = s] /\ (s = "OPEN" => c \in added[p]),
           \/ UNCHANGED pc
           \/ Return(p, t)
           \/ \E label \in Label : Goto(p, t, label, c) /\ c \in added'[p]
    PROVE  OpenHasChannel' /\ WorksOnAdded'
<1>1. \A q \in Peer : added[q] \subseteq added'[q]
  BY DEF ChannelInv, TypeOK, SessionTypeOK
<1>2. \A q \in Peer : hooked'[q] \subseteq added'[q]
  BY <1>1 DEF ChannelInv, TypeOK, SessionTypeOK, OpenHasChannel
<1>3. ASSUME NEW q \in Peer, NEW d \in Channel, entry'[q][d] = "OPEN"
      PROVE  d \in added'[q]
  <2>1. CASE UNCHANGED entry
    BY <1>1, <1>3, <2>1 DEF ChannelInv, OpenHasChannel
  <2>2. CASE \E s \in EntryState :
            entry' = [entry EXCEPT ![p][c] = s] /\ (s = "OPEN" => c \in added[p])
    <3>1. PICK s \in EntryState :
            entry' = [entry EXCEPT ![p][c] = s] /\ (s = "OPEN" => c \in added[p])
      BY <2>2
    <3>2. CASE q = p /\ d = c
      <4>1. entry[p] \in [Channel -> EntryState] /\ p \in DOMAIN entry
        BY DEF ChannelInv, TypeOK, AgentTypeOK
      <4>2. entry' = [entry EXCEPT ![p][c] = s]
        BY <3>1
      <4>3. entry'[p][c] = s
        BY <4>1, <4>2
      <4>4. c \in added[p]
        BY <1>3, <3>1, <3>2, <4>3
      <4> QED BY <1>1, <3>2, <4>4
    <3>3. CASE ~(q = p /\ d = c)
      <4>1. entry'[q][d] = entry[q][d]
        BY <3>1, <3>3 DEF ChannelInv, TypeOK, AgentTypeOK
      <4> QED BY <1>1, <1>3, <4>1 DEF ChannelInv, OpenHasChannel
    <3> QED BY <3>2, <3>3
  <2> QED BY <2>1, <2>2
<1>4. ASSUME NEW q \in Peer
      PROVE  worklist'[q] \subseteq added'[q]
  <2>1. worklist[q] \subseteq added[q] /\ worklist \in [Peer -> SUBSET Channel]
    BY DEF ChannelInv, TypeOK, AgentTypeOK, WorksOnAdded
  <2>2. \/ worklist' = worklist
        \/ worklist' = [worklist EXCEPT ![p] = worklist[p] \ {c}]
        \/ worklist' = [worklist EXCEPT ![p] = added[p]]
    OBVIOUS
  <2>3. worklist'[q] \subseteq worklist[q] \cup added[q]
    BY <2>1, <2>2
  <2> QED BY <1>1, <2>1, <2>3
<1>5. ASSUME NEW q \in Peer, NEW u \in Thread, pc'[q][u].at # "idle"
      PROVE  pc'[q][u].ch \in added'[q]
  <2>1. CASE UNCHANGED pc
    BY <1>1, <1>5, <2>1 DEF ChannelInv, WorksOnAdded
  <2>2. CASE \E label \in Label, d \in Channel \cup {NoChannel} :
               Goto(p, t, label, d) /\ (label = "idle" \/ d \in added'[p])
    <3>1. PICK label \in Label, d \in Channel \cup {NoChannel} :
            Goto(p, t, label, d) /\ (label = "idle" \/ d \in added'[p])
      BY <2>2
    <3>2. CASE q = p /\ u = t
      <4>1. pc'[q][u] = [at |-> label, ch |-> d]
        BY <3>1, <3>2 DEF Goto, ChannelInv, TypeOK, ThreadTypeOK
      <4> QED BY <1>5, <3>1, <3>2, <4>1
    <3>3. CASE ~(q = p /\ u = t)
      <4>1. pc'[q][u] = pc[q][u]
        BY <3>1, <3>3 DEF Goto, ChannelInv, TypeOK, ThreadTypeOK
      <4> QED BY <1>1, <1>5, <4>1 DEF ChannelInv, WorksOnAdded
    <3> QED BY <3>2, <3>3
  <2> QED BY <2>1, <2>2 DEF Return, Label
<1> QED BY <1>2, <1>3, <1>4, <1>5 DEF OpenHasChannel, WorksOnAdded

\* Each action is such a step; those of the application touch none of it.
LEMMA ChannelInv_Main ==
    ASSUME ChannelInv, NEW p \in Peer, NEW c \in Channel, MainLoop(p, c),
           ~OnNewDataChannel(p, "main", c)
    PROVE  OpenHasChannel' /\ WorksOnAdded'
<1> USE DEF Thread
<1>1. CASE RunAdd(p, c)
  <2>1. UNCHANGED <<hooked, worklist, entry>>
    BY <1>1 DEF RunAdd, agentVars
  <2>2. CASE c \in added[p]
    BY <1>1, <2>1, <2>2, ChannelStep DEF RunAdd
  <2>3. CASE c \notin added[p]
    <3>1. added' = [added EXCEPT ![p] = @ \cup {c}] /\ Goto(p, "main", "new", c)
      BY <1>1, <2>3 DEF RunAdd
    <3>2. c \in added'[p]
      BY <3>1 DEF ChannelInv, TypeOK, SessionTypeOK
    <3> QED BY <2>1, <3>1, <3>2, ChannelStep DEF Label
  <2> QED BY <2>2, <2>3
<1>2. CASE RunClose(p, c)
  <2>1. UNCHANGED <<added, hooked, worklist>> /\ c \in added[p]
    BY <1>2 DEF RunClose, sessionVars, ChannelInv, OpenHasChannel
  <2>2. \/ UNCHANGED <<entry, pc>>
        \/ /\ entry' = [entry EXCEPT ![p][c] = "CLOSING"]
           /\ Goto(p, "main", "closedec", c)
    BY <1>2 DEF RunClose
  <2> QED BY <2>1, <2>2, ChannelStep DEF Label, EntryState
<1>3. CASE CloseDecoder(p, c)
  <2>1. UNCHANGED <<added, hooked, worklist, entry>>
    BY <1>3 DEF CloseDecoder, sessionVars
  <2>2. c \in added[p]
    BY <1>3 DEF CloseDecoder, At, ChannelInv, WorksOnAdded
  <2>3. UNCHANGED pc \/ Goto(p, "main", "closeenc", c)
    BY <1>3 DEF CloseDecoder
  <2> QED BY <2>1, <2>2, <2>3, ChannelStep DEF Label
<1>4. CASE CloseEncoder(p, c)
  <2>1. UNCHANGED <<added, hooked, worklist>>
    BY <1>4 DEF CloseEncoder, sessionVars
  <2>2. UNCHANGED entry \/ entry' = [entry EXCEPT ![p][c] = "none"]
    BY <1>4 DEF CloseEncoder, ReleaseEncoder
  <2>3. UNCHANGED pc \/ Return(p, "main")
    BY <1>4 DEF CloseEncoder
  <2> QED BY <2>1, <2>2, <2>3, ChannelStep DEF EntryState
<1>5. CASE \/ RunSendUnhooked(p, c) \/ RunSend(p, c) \/ RunCloseUnhooked(p, c)
           \/ RunReady(p, c) \/ RunRequested(p, c) \/ RunIncoming(p, c)
  <2>1. UNCHANGED <<added, hooked, worklist, entry, pc>>
    BY <1>5 DEF RunSendUnhooked, RunSend, RunCloseUnhooked, RunReady, RunRequested,
                RunIncoming, sessionVars, agentVars
  <2> QED BY <2>1, ChannelStep
<1> QED BY <1>1, <1>2, <1>3, <1>4, <1>5 DEF MainLoop

\* Every section of on_new_datachannel.
LEMMA ChannelInv_OnNewDataChannel ==
    ASSUME ChannelInv, NEW p \in Peer, NEW t \in Thread, NEW c \in Channel,
           OnNewDataChannel(p, t, c)
    PROVE  OpenHasChannel' /\ WorksOnAdded'
<1>1. c \in added[p]
  <2>1. \E label \in Label \ {"idle"} : At(p, t, label, c)
    BY DEF OnNewDataChannel, LookUpEntry, CreateEntry, OpenRequest, AdoptEntry,
           CompleteAndAck, SetOpen, Label
  <2>2. PICK label \in Label \ {"idle"} : At(p, t, label, c)
    BY <2>1
  <2>3. pc[p][t].at # "idle" /\ pc[p][t].ch = c
    BY <2>2 DEF At
  <2> QED BY <2>3 DEF ChannelInv, WorksOnAdded
<1>2. UNCHANGED <<added, worklist>>
  BY DEF OnNewDataChannel, LookUpEntry, CreateEntry, OpenRequest, AdoptEntry,
         CompleteAndAck, SetOpen, sessionVars
<1>3. UNCHANGED hooked \/ hooked' = [hooked EXCEPT ![p] = @ \cup {c}]
  BY DEF OnNewDataChannel, LookUpEntry, CreateEntry, OpenRequest, AdoptEntry,
         CompleteAndAck, SetOpen, sessionVars
<1>4. \/ UNCHANGED entry
      \/ \E s \in EntryState : entry' = [entry EXCEPT ![p][c] = s]
  <2>1. \/ UNCHANGED entry
        \/ entry' = [entry EXCEPT ![p][c] = "CONNECTING"]
        \/ entry' = [entry EXCEPT ![p][c] = "OPEN"]
    BY DEF OnNewDataChannel, LookUpEntry, CreateEntry, OpenRequest, AdoptEntry,
           CompleteAndAck, SetOpen, Opened
  <2> QED BY <2>1 DEF EntryState
<1>5. UNCHANGED pc \/ Return(p, t) \/ \E label \in Label : Goto(p, t, label, c)
  <2>1. CASE LookUpEntry(p, t, c)
    BY <2>1 DEF LookUpEntry, Label
  <2>2. CASE CreateEntry(p, t, c)
    BY <2>2 DEF CreateEntry, Label
  <2>3. CASE OpenRequest(p, t, c)
    BY <2>3 DEF OpenRequest, Label
  <2>4. CASE AdoptEntry(p, t, c)
    BY <2>4 DEF AdoptEntry, Label
  <2>5. CASE CompleteAndAck(p, t, c)
    BY <2>5 DEF CompleteAndAck, Label
  <2>6. CASE SetOpen(p, t, c)
    BY <2>6 DEF SetOpen
  <2> QED BY <2>1, <2>2, <2>3, <2>4, <2>5, <2>6 DEF OnNewDataChannel
<1> QED BY <1>1, <1>2, <1>3, <1>4, <1>5, ChannelStep

\* The SCTP thread, which visits what the session holds.
LEMMA ChannelInv_SctpThread ==
    ASSUME ChannelInv, NEW p \in Peer, NEW c \in Channel,
           \/ AssociationUp(p) \/ AssociationDown(p) \/ VisitNext(p, c)
           \/ PadAdded(p, c) \/ PadRemoved(p, c) \/ TearDown(p, c)
    PROVE  OpenHasChannel' /\ WorksOnAdded'
<1> USE DEF Thread
<1>1. CASE AssociationUp(p) \/ AssociationDown(p)
  <2>1. UNCHANGED <<added, hooked, entry, pc>>
    BY <1>1 DEF AssociationUp, AssociationDown, sessionVars
  <2>2. UNCHANGED worklist \/ worklist' = [worklist EXCEPT ![p] = added[p]]
    BY <1>1 DEF AssociationUp, AssociationDown
  <2> QED BY <2>1, <2>2, ChannelStep
<1>2. CASE VisitNext(p, c)
  <2>1. UNCHANGED <<added, hooked, entry>>
    BY <1>2 DEF VisitNext, sessionVars
  <2>2. worklist' = [worklist EXCEPT ![p] = @ \ {c}] /\ Goto(p, "sctp", "new", c)
    BY <1>2 DEF VisitNext
  <2>3. c \in added[p]
    BY <1>2 DEF VisitNext, ChannelInv, WorksOnAdded
  <2> QED BY <2>1, <2>2, <2>3, ChannelStep DEF Label
<1>3. CASE PadAdded(p, c)
  <2>1. UNCHANGED <<added, hooked, worklist, pc>>
    BY <1>3 DEF PadAdded, sessionVars
  <2>2. UNCHANGED entry \/ entry' = [entry EXCEPT ![p][c] = "CONNECTING"]
    BY <1>3 DEF PadAdded
  <2> QED BY <2>1, <2>2, ChannelStep DEF EntryState
<1>4. CASE PadRemoved(p, c)
  <2>1. UNCHANGED <<added, hooked, worklist>>
    BY <1>4 DEF PadRemoved, sessionVars
  <2>2. UNCHANGED entry \/ entry' = [entry EXCEPT ![p][c] = "CLOSING"]
    BY <1>4 DEF PadRemoved
  <2>3. UNCHANGED pc \/ (Goto(p, "sctp", "teardown", c) /\ c \in added[p])
    BY <1>4 DEF PadRemoved
  <2> QED BY <2>1, <2>2, <2>3, ChannelStep DEF EntryState, Label
<1>5. CASE TearDown(p, c)
  <2>1. UNCHANGED <<added, hooked, worklist>>
    BY <1>5 DEF TearDown, sessionVars
  <2>2. UNCHANGED entry \/ entry' = [entry EXCEPT ![p][c] = "none"]
    BY <1>5 DEF TearDown, ReleaseEncoder
  <2>3. UNCHANGED pc \/ Return(p, "sctp")
    BY <1>5 DEF TearDown
  <2> QED BY <2>1, <2>2, <2>3, ChannelStep DEF EntryState
<1> QED BY <1>1, <1>2, <1>3, <1>4, <1>5

\* An ACK opens an entry only after it found the channel.
LEMMA ChannelInv_Stream ==
    ASSUME ChannelInv, NEW p \in Peer, NEW c \in Channel, Stream(p, c)
    PROVE  OpenHasChannel' /\ WorksOnAdded'
<1>1. UNCHANGED <<added, hooked, worklist, pc>>
  BY DEF Stream, ReceiveOpen, ReceiveAck, ReceiveData, Receive, sessionVars
<1>2. \/ UNCHANGED entry
      \/ entry' = [entry EXCEPT ![p][c] = "OPEN"] /\ c \in added[p]
  BY DEF Stream, ReceiveOpen, ReceiveAck, ReceiveData, Opened
<1> QED BY <1>1, <1>2, ChannelStep DEF EntryState, Thread

\* The invariant is inductive.
LEMMA ChannelInv_Next == ChannelInv /\ [Next]_vars => ChannelInv'
<1> SUFFICES ASSUME ChannelInv, [Next]_vars PROVE ChannelInv'
  OBVIOUS
<1>1. TypeOK'
  BY TypeOK_Next DEF ChannelInv
<1>2. CASE UNCHANGED vars
  <2>1. UNCHANGED <<added, hooked, worklist, entry, pc>>
    BY <1>2 DEF vars, sessionVars, agentVars
  <2> QED BY <1>1, <2>1 DEF ChannelInv, OpenHasChannel, WorksOnAdded
<1>3. CASE Next
  <2>1. PICK p \in Peer :
          \/ AssociationUp(p)
          \/ AssociationDown(p)
          \/ \E c \in Channel :
                Application(p, c) \/ MainLoop(p, c) \/ SctpThread(p, c) \/ Stream(p, c)
    BY <1>3 DEF Next
  <2>2. CASE AssociationUp(p) \/ AssociationDown(p)
    <3>1. CASE Channel = {}
      <4>1. UNCHANGED <<added, hooked, entry, pc>>
        BY <2>2 DEF AssociationUp, AssociationDown, sessionVars
      <4>2. \A q \in Peer : worklist'[q] = {}
        BY <1>1, <3>1 DEF TypeOK, AgentTypeOK
      <4> QED BY <1>1, <4>1, <4>2 DEF ChannelInv, OpenHasChannel, WorksOnAdded
    <3>2. CASE Channel # {}
      BY <1>1, <2>2, <3>2, ChannelInv_SctpThread DEF ChannelInv
    <3> QED BY <3>1, <3>2
  <2>3. CASE \E c \in Channel :
               Application(p, c) \/ MainLoop(p, c) \/ SctpThread(p, c) \/ Stream(p, c)
    <3>1. PICK c \in Channel :
            Application(p, c) \/ MainLoop(p, c) \/ SctpThread(p, c) \/ Stream(p, c)
      BY <2>3
    <3>2. CASE Application(p, c)
      <4>1. UNCHANGED <<added, hooked, worklist, entry, pc>>
        BY <3>2 DEF Application, AppAdd, AppSend, AppClose, sessionVars, agentVars
      <4> QED BY <1>1, <4>1 DEF ChannelInv, OpenHasChannel, WorksOnAdded
    <3>3. CASE OnNewDataChannel(p, "main", c)
      BY <1>1, <3>3, ChannelInv_OnNewDataChannel DEF ChannelInv, Thread
    <3>4. CASE MainLoop(p, c) /\ ~OnNewDataChannel(p, "main", c)
      BY <1>1, <3>4, ChannelInv_Main DEF ChannelInv
    <3>5. CASE SctpThread(p, c)
      BY <1>1, <3>5, ChannelInv_SctpThread, ChannelInv_OnNewDataChannel
         DEF ChannelInv, SctpThread, Thread
    <3>6. CASE Stream(p, c)
      BY <1>1, <3>6, ChannelInv_Stream DEF ChannelInv
    <3> QED BY <3>1, <3>2, <3>3, <3>4, <3>5, <3>6
  <2> QED BY <2>1, <2>2, <2>3
<1> QED BY <1>2, <1>3

\* Whatever the applications do, and whichever thread comes first, an open entry
\* and a pair of closures always have the application's channel behind them.
THEOREM OpenHasChannelAlways == Spec => []OpenHasChannel
<1>1. Init => ChannelInv
  BY TypeOK_Init DEF Init, ChannelInv, OpenHasChannel, WorksOnAdded
<1>2. ChannelInv /\ [Next]_vars => ChannelInv'
  BY ChannelInv_Next
<1>3. ChannelInv => OpenHasChannel
  BY DEF ChannelInv
<1> QED BY <1>1, <1>2, <1>3, PTL DEF Spec

----------------------------------------------------------------------------
(* Messages keep their order; those of an unordered channel are at least     *)
(* never doubled.  The messages of a channel are spread over four places:    *)
(* what the receiver got, its tasks, the wire and the sender's tasks.  Each  *)
(* place is in order and each is ahead of the next one.                      *)

\* One message before another: as sent on an ordered channel, at least not twice
\* the same one on the others.
Before(c, m, k) == IF c \in Unordered THEN m # k ELSE m < k

\* The numbers of the elements of a queue that are in S, and that they keep apart.
Numbers(s, S) == {m \in Nat : \E i \in DOMAIN s : s[i] \in S /\ s[i].n = m}
Rises(c, s, S) ==
    \A i, j \in DOMAIN s :
        i < j /\ s[i] \in S /\ s[j] \in S => Before(c, s[i].n, s[j].n)

Incoming(c) == {e \in Task : e.kind = "incoming" /\ e.ch = c}
Sending(c) == {e \in Task : e.kind = "send" /\ e.ch = c}
UserData == {e \in Message : e.type = "DATA"}

Got(s) == {m \in Nat : \E i \in DOMAIN s : s[i] = m}
GotRises(c, s) == \A i, j \in DOMAIN s : i < j => Before(c, s[i], s[j])

\* A, B, D and E are in this order and bounded by n.
Ahead(c, A, B) == \A a \in A : \A b \in B : Before(c, a, b)
Bounded(A, n) == \A a \in A : 1 =< a /\ a =< n
Ordered(c, A, B, D, E, n) ==
    /\ Ahead(c, A, B) /\ Ahead(c, A, D) /\ Ahead(c, A, E)
    /\ Ahead(c, B, D) /\ Ahead(c, B, E) /\ Ahead(c, D, E)
    /\ Bounded(A, n) /\ Bounded(B, n) /\ Bounded(D, n) /\ Bounded(E, n)

\* One direction of a channel, from the end that receives.
OrderAt(p, c) ==
    /\ GotRises(c, got[p][c])
    /\ Rises(c, mainQ[p], Incoming(c))
    /\ Rises(c, wire[p][c], UserData)
    /\ Rises(c, mainQ[Other(p)], Sending(c))
    /\ Ordered(c, Got(got[p][c]), Numbers(mainQ[p], Incoming(c)),
               Numbers(wire[p][c], UserData), Numbers(mainQ[Other(p)], Sending(c)),
               sent[Other(p)][c])
OrderInv == \A p \in Peer, c \in Channel : OrderAt(p, c)

\* A queue that holds no more of the elements in S than before, in the same order.
Kept(s, z, S) ==
    /\ Numbers(z, S) \subseteq Numbers(s, S)
    /\ \A c \in Channel : Rises(c, s, S) => Rises(c, z, S)
QueueKept(s, z) ==
    \A c \in Channel : Kept(s, z, Incoming(c)) /\ Kept(s, z, Sending(c))

\* The other end of the other end.
LEMMA OtherOther ==
    ASSUME NEW p \in Peer
    PROVE  /\ Other(p) \in Peer /\ Other(p) # p /\ Other(Other(p)) = p
           /\ \A q \in Peer : q = p \/ q = Other(p)
<1>1. ASSUME NEW r \in Peer PROVE \E q \in Peer : q # r
  <2> SUFFICES ASSUME Peer = {r} PROVE FALSE
    OBVIOUS
  <2>1. Cardinality(Peer) = 1
    BY FS_Singleton
  <2> QED BY <2>1, PeerAssumption
<1>2. ASSUME NEW r \in Peer PROVE Other(r) \in Peer /\ Other(r) # r
  BY <1>1 DEF Other
<1>3. ASSUME NEW q \in Peer, NEW r \in Peer, q # p, r # p, q # r PROVE FALSE
  <2>1. IsFiniteSet(Peer) /\ Cardinality(Peer) = 2
    BY PeerAssumption
  <2>2. {p, q, r} \subseteq Peer
    BY <1>3
  <2>3. IsFiniteSet({p}) /\ Cardinality({p}) = 1
    BY FS_Singleton
  <2>4. IsFiniteSet({p} \cup {q}) /\ Cardinality({p} \cup {q}) = 2
    BY <2>3, <1>3, FS_AddElement
  <2>5. r \notin {p} \cup {q}
    BY <1>3
  <2>6. Cardinality(({p} \cup {q}) \cup {r}) = 3
    BY <2>4, <2>5, FS_AddElement
  <2>7. {p, q, r} = ({p} \cup {q}) \cup {r}
    OBVIOUS
  <2>8. Cardinality({p, q, r}) =< Cardinality(Peer)
    BY <2>1, <2>2, FS_Subset
  <2> QED BY <2>1, <2>6, <2>7, <2>8
<1>4. Other(p) \in Peer /\ Other(p) # p
  BY <1>2
<1>5. Other(Other(p)) \in Peer /\ Other(Other(p)) # Other(p)
  BY <1>2, <1>4
<1> QED BY <1>3, <1>4, <1>5

\* A queue left alone.
LEMMA KeptSame == ASSUME NEW s, NEW S PROVE Kept(s, s, S)
  BY DEF Kept

\* Losing the first element.
LEMMA KeptTail ==
    ASSUME NEW T, NEW s \in Seq(T), s # <<>>, NEW S
    PROVE  Kept(s, Tail(s), S)
<1>1. Tail(s) \in Seq(T) /\ Len(s) \in Nat \ {0} /\ Len(Tail(s)) = Len(s) - 1
  OBVIOUS
<1>2. DOMAIN s = 1 .. Len(s) /\ DOMAIN Tail(s) = 1 .. Len(Tail(s))
  BY <1>1
<1>3. \A i \in DOMAIN Tail(s) : i + 1 \in DOMAIN s /\ Tail(s)[i] = s[i + 1]
  BY <1>1, <1>2
<1>4. Numbers(Tail(s), S) \subseteq Numbers(s, S)
  BY <1>3 DEF Numbers
<1>5. ASSUME NEW c \in Channel, Rises(c, s, S) PROVE Rises(c, Tail(s), S)
  <2> SUFFICES ASSUME NEW i \in DOMAIN Tail(s), NEW j \in DOMAIN Tail(s), i < j,
                      Tail(s)[i] \in S, Tail(s)[j] \in S
               PROVE  Before(c, Tail(s)[i].n, Tail(s)[j].n)
    BY DEF Rises
  <2>1. i + 1 < j + 1
    BY <1>2
  <2> QED BY <1>3, <1>5, <2>1 DEF Rises
<1> QED BY <1>4, <1>5 DEF Kept

\* The first element comes before the rest.
LEMMA HeadFirst ==
    ASSUME NEW c \in Channel, NEW T, NEW s \in Seq(T), s # <<>>, NEW S,
           Head(s) \in S, Head(s).n \in Nat, Rises(c, s, S)
    PROVE  /\ Head(s).n \in Numbers(s, S)
           /\ Ahead(c, {Head(s).n}, Numbers(Tail(s), S))
<1>1. Tail(s) \in Seq(T) /\ Len(s) \in Nat \ {0} /\ Len(Tail(s)) = Len(s) - 1
  OBVIOUS
<1>2. DOMAIN s = 1 .. Len(s) /\ DOMAIN Tail(s) = 1 .. Len(Tail(s)) /\ Head(s) = s[1]
  BY <1>1
<1>3. \A i \in DOMAIN Tail(s) : i + 1 \in DOMAIN s /\ 1 < i + 1 /\ Tail(s)[i] = s[i + 1]
  BY <1>1, <1>2
<1>4. 1 \in DOMAIN s
  BY <1>1, <1>2
<1>5. Head(s).n \in Numbers(s, S)
  BY <1>2, <1>4 DEF Numbers
<1>6. ASSUME NEW m \in Numbers(Tail(s), S) PROVE Before(c, Head(s).n, m)
  <2>1. PICK i \in DOMAIN Tail(s) : Tail(s)[i] \in S /\ Tail(s)[i].n = m
    BY DEF Numbers
  <2> QED BY <2>1, <1>2, <1>3, <1>4 DEF Rises
<1> QED BY <1>5, <1>6 DEF Ahead

\* An element that is not in S, at the end.
LEMMA KeptAppend ==
    ASSUME NEW T, NEW s \in Seq(T), NEW e \in T, NEW S, e \notin S
    PROVE  Kept(s, Append(s, e), S)
<1>1. Append(s, e) \in Seq(T) /\ Len(s) \in Nat /\ Len(Append(s, e)) = Len(s) + 1
  OBVIOUS
<1>2. DOMAIN s = 1 .. Len(s) /\ DOMAIN Append(s, e) = 1 .. Len(s) + 1
  BY <1>1
<1>3. \A i \in DOMAIN Append(s, e) : Append(s, e)[i] \in S =>
          i \in DOMAIN s /\ Append(s, e)[i] = s[i]
  BY <1>1, <1>2
<1>4. Numbers(Append(s, e), S) \subseteq Numbers(s, S)
  BY <1>3 DEF Numbers
<1>5. \A c \in Channel : Rises(c, s, S) => Rises(c, Append(s, e), S)
  BY <1>3 DEF Rises
<1> QED BY <1>4, <1>5 DEF Kept

\* An element of S at the end of a queue whose other ones are before it.
LEMMA AddedLast ==
    ASSUME NEW c \in Channel, NEW T, NEW s \in Seq(T), NEW e \in T, NEW S, e.n \in Nat,
           Rises(c, s, S), Ahead(c, Numbers(s, S), {e.n}), \A i \in DOMAIN s : s[i].n \in Nat
    PROVE  /\ Rises(c, Append(s, e), S)
           /\ Numbers(Append(s, e), S) \subseteq Numbers(s, S) \cup {e.n}
<1>1. Append(s, e) \in Seq(T) /\ Len(s) \in Nat /\ Len(Append(s, e)) = Len(s) + 1
  OBVIOUS
<1>2. DOMAIN s = 1 .. Len(s) /\ DOMAIN Append(s, e) = 1 .. Len(s) + 1
  BY <1>1
<1>3. \A i \in DOMAIN Append(s, e) : \/ i \in DOMAIN s /\ Append(s, e)[i] = s[i]
                                     \/ i = Len(s) + 1 /\ Append(s, e)[i] = e
  BY <1>1, <1>2
<1>4. Numbers(Append(s, e), S) \subseteq Numbers(s, S) \cup {e.n}
  BY <1>3 DEF Numbers
<1>5. ASSUME NEW i \in DOMAIN Append(s, e), NEW j \in DOMAIN Append(s, e), i < j,
             Append(s, e)[i] \in S, Append(s, e)[j] \in S
      PROVE  Before(c, Append(s, e)[i].n, Append(s, e)[j].n)
  <2>1. i \in DOMAIN s /\ Append(s, e)[i] = s[i]
    BY <1>2, <1>3, <1>5
  <2>2. CASE j \in DOMAIN s /\ Append(s, e)[j] = s[j]
    BY <1>5, <2>1, <2>2 DEF Rises
  <2>3. CASE Append(s, e)[j] = e
    <3>1. s[i].n \in Numbers(s, S)
      BY <1>5, <2>1 DEF Numbers
    <3> QED BY <2>1, <2>3, <3>1 DEF Ahead
  <2> QED BY <1>3, <2>2, <2>3
<1> QED BY <1>4, <1>5 DEF Rises

\* What is left when an element is removed.
LEMMA RemovedElements ==
    ASSUME NEW T, NEW s \in Seq(T), NEW i \in DOMAIN s
    PROVE  /\ Len(s) \in Nat /\ DOMAIN s = 1 .. Len(s)
           /\ RemoveAt(s, i) \in Seq(T)
           /\ DOMAIN RemoveAt(s, i) = 1 .. Len(s) - 1
           /\ \A j \in DOMAIN RemoveAt(s, i) :
                 RemoveAt(s, i)[j] = IF j < i THEN s[j] ELSE s[j + 1]
<1> DEFINE a == SubSeq(s, 1, i - 1)
           b == SubSeq(s, i + 1, Len(s))
<1>1. Len(s) \in Nat /\ DOMAIN s = 1 .. Len(s) /\ i \in 1 .. Len(s)
  OBVIOUS
<1>2. /\ a \in Seq(T) /\ Len(a) = i - 1
      /\ \A j \in 1 .. i - 1 : a[j] = s[j]
  BY <1>1
<1>3. /\ b \in Seq(T) /\ Len(b) = Len(s) - i
      /\ \A j \in 1 .. Len(s) - i : b[j] = s[i + j]
  BY <1>1
<1>4. RemoveAt(s, i) = a \o b
  BY DEF RemoveAt
<1> HIDE DEF a, b
<1>5. /\ a \o b \in Seq(T) /\ DOMAIN (a \o b) = 1 .. Len(s) - 1
      /\ \A j \in 1 .. Len(a) + Len(b) :
            (a \o b)[j] = IF j =< Len(a) THEN a[j] ELSE b[j - Len(a)]
  <2>1. a \in Seq(T) /\ b \in Seq(T)
    BY <1>2, <1>3
  <2>2. a \o b \in Seq(T) /\ Len(a \o b) = Len(a) + Len(b)
    BY <2>1
  <2>3. Len(a) + Len(b) = Len(s) - 1
    BY <1>1, <1>2, <1>3
  <2>4. \A j \in 1 .. Len(a) + Len(b) :
            (a \o b)[j] = IF j =< Len(a) THEN a[j] ELSE b[j - Len(a)]
    BY <2>1
  <2> QED BY <2>2, <2>3, <2>4
<1>6. \A j \in 1 .. Len(s) - 1 : (a \o b)[j] = IF j < i THEN s[j] ELSE s[j + 1]
  <2> SUFFICES ASSUME NEW j \in 1 .. Len(s) - 1
               PROVE  (a \o b)[j] = IF j < i THEN s[j] ELSE s[j + 1]
    OBVIOUS
  <2>1. CASE j < i
    <3>1. j \in 1 .. i - 1 /\ j =< Len(a) /\ j \in 1 .. Len(a) + Len(b)
      BY <1>1, <1>2, <1>3, <2>1
    <3> QED BY <1>2, <1>5, <2>1, <3>1
  <2>2. CASE ~(j < i)
    <3>1. /\ j - Len(a) \in 1 .. Len(s) - i /\ i + (j - Len(a)) = j + 1
          /\ ~(j =< Len(a)) /\ j \in 1 .. Len(a) + Len(b)
      BY <1>1, <1>2, <1>3, <2>2
    <3> QED BY <1>3, <1>5, <2>2, <3>1
  <2> QED BY <2>1, <2>2
<1>7. \A j \in DOMAIN (a \o b) : (a \o b)[j] = IF j < i THEN s[j] ELSE s[j + 1]
  BY <1>5, <1>6
<1> QED BY <1>1, <1>4, <1>5, <1>7

\* Removing an element from anywhere keeps the order of the others.
LEMMA KeptRemoveAt ==
    ASSUME NEW T, NEW s \in Seq(T), NEW i \in DOMAIN s, NEW S
    PROVE  Kept(s, RemoveAt(s, i), S)
<1> DEFINE z == RemoveAt(s, i)
<1>1. /\ Len(s) \in Nat /\ DOMAIN s = 1 .. Len(s) /\ DOMAIN z = 1 .. Len(s) - 1
      /\ \A j \in DOMAIN z : z[j] = IF j < i THEN s[j] ELSE s[j + 1]
  BY RemovedElements
<1> HIDE DEF z
<1>2. \A j \in DOMAIN z : j \in DOMAIN s /\ j + 1 \in DOMAIN s
  BY <1>1
<1>3. Numbers(z, S) \subseteq Numbers(s, S)
  BY <1>1, <1>2 DEF Numbers
<1>4. ASSUME NEW c \in Channel, Rises(c, s, S), NEW j \in DOMAIN z, NEW k \in DOMAIN z,
             j < k, z[j] \in S, z[k] \in S
      PROVE  Before(c, z[j].n, z[k].n)
  <2> DEFINE x == IF j < i THEN j ELSE j + 1
             y == IF k < i THEN k ELSE k + 1
  <2>1. x \in DOMAIN s /\ y \in DOMAIN s /\ x < y
    BY <1>1, <1>2, <1>4
  <2>2. z[j] = s[x] /\ z[k] = s[y]
    BY <1>1
  <2> HIDE DEF x, y
  <2> QED BY <1>4, <2>1, <2>2 DEF Rises
<1> QED BY <1>3, <1>4 DEF Kept, Rises, z

\* It is itself before the others if it was the first, or if order does not matter.
LEMMA RemovedApart ==
    ASSUME NEW c \in Channel, NEW T, NEW s \in Seq(T), NEW i \in DOMAIN s, NEW S,
           s[i] \in S, s[i].n \in Nat, Rises(c, s, S), i = 1 \/ c \in Unordered
    PROVE  /\ s[i].n \in Numbers(s, S)
           /\ Ahead(c, {s[i].n}, Numbers(RemoveAt(s, i), S))
<1> DEFINE z == RemoveAt(s, i)
<1>1. /\ Len(s) \in Nat /\ DOMAIN s = 1 .. Len(s) /\ DOMAIN z = 1 .. Len(s) - 1
      /\ \A j \in DOMAIN z : z[j] = IF j < i THEN s[j] ELSE s[j + 1]
  BY RemovedElements
<1> HIDE DEF z
<1>2. ASSUME NEW m \in Numbers(z, S) PROVE Before(c, s[i].n, m)
  <2>1. PICK j \in DOMAIN z : z[j] \in S /\ z[j].n = m
    BY DEF Numbers
  <2>2. CASE j < i
    <3>1. Before(c, s[j].n, s[i].n) /\ s[j].n = m /\ c \in Unordered
      BY <1>1, <2>1, <2>2 DEF Rises
    <3> QED BY <3>1 DEF Before
  <2>3. CASE ~(j < i)
    <3>1. j + 1 \in DOMAIN s /\ i < j + 1 /\ z[j] = s[j + 1]
      BY <1>1, <2>3
    <3> QED BY <2>1, <3>1 DEF Rises
  <2> QED BY <2>2, <2>3
<1>3. s[i].n \in Numbers(s, S)
  BY DEF Numbers
<1> QED BY <1>2, <1>3 DEF Ahead, z

\* The numbers of sequences of tasks and messages.
LEMMA Numbered ==
    ASSUME TypeOK, NEW p \in Peer, NEW c \in Channel
    PROVE  /\ mainQ[p] \in Seq(Task) /\ \A i \in DOMAIN mainQ[p] : mainQ[p][i].n \in Nat
           /\ wire[p][c] \in Seq(Message)
           /\ \A i \in DOMAIN wire[p][c] : wire[p][c][i].n \in Nat
           /\ got[p][c] \in Seq(Nat) /\ sent[p][c] \in Nat
<1>1. mainQ[p] \in Seq(Task) /\ wire[p][c] \in Seq(Message)
  BY DEF TypeOK, ThreadTypeOK, SctpTypeOK
<1>2. \A i \in DOMAIN mainQ[p] : mainQ[p][i] \in Task
  BY <1>1
<1>3. \A i \in DOMAIN wire[p][c] : wire[p][c][i] \in Message
  BY <1>1
<1>4. got[p][c] \in Seq(Nat) /\ sent[p][c] \in Nat
  BY DEF TypeOK, AppTypeOK
<1> QED BY <1>1, <1>2, <1>3, <1>4 DEF Task, Message

\* What losing elements of the four places, or sending one, does to the order.
LEMMA OrderedFewer ==
    ASSUME NEW c \in Channel, NEW A, NEW B, NEW D, NEW E, NEW n, Ordered(c, A, B, D, E, n),
           NEW B1, NEW D1, NEW E1, B1 \subseteq B, D1 \subseteq D, E1 \subseteq E
    PROVE  Ordered(c, A, B1, D1, E1, n)
<1>1. Ahead(c, A, B1) /\ Ahead(c, A, D1) /\ Ahead(c, A, E1)
  BY DEF Ordered, Ahead
<1>2. Ahead(c, B1, D1) /\ Ahead(c, B1, E1) /\ Ahead(c, D1, E1)
  BY DEF Ordered, Ahead
<1>3. Bounded(A, n) /\ Bounded(B1, n) /\ Bounded(D1, n) /\ Bounded(E1, n)
  BY DEF Ordered, Bounded
<1> QED BY <1>1, <1>2, <1>3 DEF Ordered

\* A new message is behind all others.
LEMMA OrderedSent ==
    ASSUME NEW c \in Channel, NEW A \in SUBSET Nat, NEW B \in SUBSET Nat, NEW D \in SUBSET Nat,
           NEW E \in SUBSET Nat, NEW n \in Nat, Ordered(c, A, B, D, E, n),
           NEW E1, E1 \subseteq E \cup {n + 1}
    PROVE  Ordered(c, A, B, D, E1, n + 1)
<1>1. ASSUME NEW X \in SUBSET Nat, Bounded(X, n)
      PROVE  Ahead(c, X, {n + 1}) /\ Bounded(X, n + 1)
  BY <1>1 DEF Bounded, Ahead, Before
<1>2. Ahead(c, A, E1) /\ Ahead(c, B, E1) /\ Ahead(c, D, E1)
  BY <1>1 DEF Ordered, Ahead
<1>3. Bounded(A, n + 1) /\ Bounded(B, n + 1) /\ Bounded(D, n + 1)
  BY <1>1 DEF Ordered
<1>4. Bounded(E1, n + 1)
  BY <1>1 DEF Ordered, Bounded
<1> QED BY <1>2, <1>3, <1>4 DEF Ordered

\* The first element x of a place moves to the place ahead of it.
LEMMA OrderedPushed ==
    ASSUME NEW c \in Channel, NEW A, NEW B, NEW D, NEW E, NEW n, Ordered(c, A, B, D, E, n),
           NEW x \in E, NEW E1, E1 \subseteq E, Ahead(c, {x}, E1),
           NEW D1, D1 \subseteq D \cup {x}
    PROVE  Ordered(c, A, B, D1, E1, n)
<1>1. Ahead(c, A, D1) /\ Ahead(c, A, E1) /\ Ahead(c, B, D1) /\ Ahead(c, B, E1) /\ Ahead(c, D1, E1)
  BY DEF Ordered, Ahead
<1>2. Bounded(D1, n) /\ Bounded(E1, n)
  BY DEF Ordered, Bounded
<1> QED BY <1>1, <1>2 DEF Ordered

\* From the wire to the receiver's tasks.
LEMMA OrderedReceived ==
    ASSUME NEW c \in Channel, NEW A, NEW B, NEW D, NEW E, NEW n, Ordered(c, A, B, D, E, n),
           NEW x \in D, NEW D1, D1 \subseteq D, Ahead(c, {x}, D1),
           NEW B1, B1 \subseteq B \cup {x}
    PROVE  Ordered(c, A, B1, D1, E, n)
<1>1. Ahead(c, A, B1) /\ Ahead(c, A, D1) /\ Ahead(c, B1, D1) /\ Ahead(c, B1, E) /\ Ahead(c, D1, E)
  BY DEF Ordered, Ahead
<1>2. Bounded(B1, n) /\ Bounded(D1, n)
  BY DEF Ordered, Bounded
<1> QED BY <1>1, <1>2 DEF Ordered

\* From the receiver's tasks to its application.
LEMMA OrderedDelivered ==
    ASSUME NEW c \in Channel, NEW A, NEW B, NEW D, NEW E, NEW n, Ordered(c, A, B, D, E, n),
           NEW x \in B, NEW B1, B1 \subseteq B, Ahead(c, {x}, B1),
           NEW A1, A1 \subseteq A \cup {x}
    PROVE  Ordered(c, A1, B1, D, E, n)
<1>1. Ahead(c, A1, B1) /\ Ahead(c, A1, D) /\ Ahead(c, A1, E) /\ Ahead(c, B1, D) /\ Ahead(c, B1, E)
  BY DEF Ordered, Ahead
<1>2. Bounded(A1, n) /\ Bounded(B1, n)
  BY DEF Ordered, Bounded
<1> QED BY <1>1, <1>2 DEF Ordered

\* Steps that add no user message anywhere keep the order.
LEMMA OrderKept ==
    ASSUME OrderInv, NEW p \in Peer, NEW c \in Channel,
           UNCHANGED <<got, sent>>,
           Kept(mainQ[p], mainQ'[p], Incoming(c)),
           Kept(wire[p][c], wire'[p][c], UserData),
           Kept(mainQ[Other(p)], mainQ'[Other(p)], Sending(c))
    PROVE  OrderAt(p, c)'
<1>1. OrderAt(p, c)
  BY DEF OrderInv
<1> DEFINE A == Got(got[p][c])
           B == Numbers(mainQ[p], Incoming(c))
           D == Numbers(wire[p][c], UserData)
           E == Numbers(mainQ[Other(p)], Sending(c))
           n == sent[Other(p)][c]
<1>2. Ordered(c, A, B, D, E, n)
  BY <1>1 DEF OrderAt
<1>3. B' \subseteq B /\ D' \subseteq D /\ E' \subseteq E /\ A' = A /\ n' = n
  BY DEF Kept
<1> HIDE DEF A, B, D, E, n
<1>4. Ordered(c, A, B', D', E', n)
  BY <1>2, <1>3, OrderedFewer
<1>5. Ordered(c, A, B, D, E, n)'
  BY <1>3, <1>4
<1>6. /\ Rises(c, mainQ'[p], Incoming(c)) /\ Rises(c, wire'[p][c], UserData)
      /\ Rises(c, mainQ'[Other(p)], Sending(c)) /\ GotRises(c, got'[p][c])
  BY <1>1 DEF OrderAt, Kept
<1> QED BY <1>5, <1>6 DEF OrderAt, A, B, D, E, n

\* What is neither sent nor received does not count.
LEMMA QueueKeptAppend ==
    ASSUME NEW s \in Seq(Task), NEW e \in Task, e.kind \notin {"incoming", "send"}
    PROVE  QueueKept(s, Append(s, e))
<1> SUFFICES ASSUME NEW c \in Channel
             PROVE  Kept(s, Append(s, e), Incoming(c)) /\ Kept(s, Append(s, e), Sending(c))
  BY DEF QueueKept
<1>1. e \notin Incoming(c) /\ e \notin Sending(c)
  BY DEF Incoming, Sending
<1> QED BY <1>1, KeptAppend

\* A task that has run.
LEMMA QueueKeptTail ==
    ASSUME NEW s \in Seq(Task), s # <<>>
    PROVE  QueueKept(s, Tail(s))
  BY KeptTail DEF QueueKept

\* Queues kept one after the other.
LEMMA QueueKeptTwice ==
    ASSUME NEW s, NEW y, NEW z, QueueKept(s, y), QueueKept(y, z)
    PROVE  QueueKept(s, z)
  BY DEF QueueKept, Kept

\* Scheduling a task that carries no message.
LEMMA ScheduledKept ==
    ASSUME TypeOK, NEW p \in Peer, NEW c \in Channel, NEW n \in Nat,
           NEW kind \in TaskKind \ {"incoming", "send"},
           mainQ' = Scheduled(p, kind, c, n), NEW r \in Peer
    PROVE  QueueKept(mainQ[r], mainQ'[r])
<1> DEFINE task == [kind |-> kind, ch |-> c, n |-> n]
<1>1. task \in Task /\ task.kind \notin {"incoming", "send"}
  BY DEF Task
<1>2. mainQ \in [Peer -> Seq(Task)]
  BY DEF TypeOK, ThreadTypeOK
<1>3. mainQ'[r] = IF r = p THEN Append(mainQ[p], task) ELSE mainQ[r]
  BY <1>2 DEF Scheduled
<1>4. QueueKept(mainQ[p], Append(mainQ[p], task))
  BY <1>1, <1>2, QueueKeptAppend
<1>5. QueueKept(mainQ[r], mainQ[r])
  BY KeptSame DEF QueueKept
<1> QED BY <1>3, <1>4, <1>5

\* Running one.
LEMMA PoppedKept ==
    ASSUME TypeOK, NEW p \in Peer, mainQ[p] # <<>>, PopTask(p), NEW r \in Peer
    PROVE  QueueKept(mainQ[r], mainQ'[r])
<1>1. mainQ \in [Peer -> Seq(Task)]
  BY DEF TypeOK, ThreadTypeOK
<1>2. mainQ'[r] = IF r = p THEN Tail(mainQ[p]) ELSE mainQ[r]
  BY <1>1 DEF PopTask
<1>3. QueueKept(mainQ[p], Tail(mainQ[p]))
  BY <1>1, QueueKeptTail
<1>4. QueueKept(mainQ[r], mainQ[r])
  BY KeptSame DEF QueueKept
<1> QED BY <1>2, <1>3, <1>4

\* Leaving the queues alone.
LEMMA UnchangedKept ==
    ASSUME UNCHANGED mainQ, NEW r \in Peer
    PROVE  QueueKept(mainQ[r], mainQ'[r])
  BY KeptSame DEF QueueKept

\* A control message on the wire, and the wire left alone.
LEMMA PushedKept ==
    ASSUME TypeOK, NEW p \in Peer, NEW c \in Channel, NEW n \in Nat,
           NEW type \in {"OPEN", "ACK", "RESET"},
           UNCHANGED wire \/ wire' = Pushed(p, c, type, n),
           NEW r \in Peer, NEW d \in Channel
    PROVE  Kept(wire[r][d], wire'[r][d], UserData)
<1> DEFINE message == [type |-> type, n |-> n]
<1>1. message \in Message /\ message \notin UserData
  BY DEF Message, UserData
<1>2. wire \in [Peer -> [Channel -> Seq(Message)]] /\ Other(p) \in Peer
  BY OtherType DEF TypeOK, SctpTypeOK
<1>3. \/ wire'[r][d] = wire[r][d]
      \/ wire'[r][d] = Append(wire[r][d], message)
  BY <1>2 DEF Pushed
<1>4. Kept(wire[r][d], Append(wire[r][d], message), UserData)
  BY <1>1, <1>2, KeptAppend
<1> QED BY <1>3, <1>4, KeptSame

\* A message that the receiver takes off an ordered stream.
LEMMA TakenKept ==
    ASSUME TypeOK, NEW p \in Peer, NEW c \in Channel, wire[p][c] # <<>>,
           wire' = [wire EXCEPT ![p][c] = Tail(@)],
           NEW r \in Peer, NEW d \in Channel
    PROVE  Kept(wire[r][d], wire'[r][d], UserData)
<1>1. wire \in [Peer -> [Channel -> Seq(Message)]]
  BY DEF TypeOK, SctpTypeOK
<1>2. \/ wire'[r][d] = wire[r][d]
      \/ wire'[r][d] = Tail(wire[r][d]) /\ wire[r][d] # <<>>
  BY <1>1
<1>3. CASE wire'[r][d] = Tail(wire[r][d]) /\ wire[r][d] # <<>>
  <2>1. wire[r][d] \in Seq(Message)
    BY <1>1
  <2> QED BY <1>3, <2>1, KeptTail
<1> QED BY <1>2, <1>3, KeptSame

\* Such a step keeps the order of every channel.
LEMMA OrderQuiet ==
    ASSUME OrderInv, UNCHANGED <<got, sent>>,
           \A r \in Peer : QueueKept(mainQ[r], mainQ'[r]),
           \A r \in Peer : \A d \in Channel :
              Kept(wire[r][d], wire'[r][d], UserData)
    PROVE  OrderInv'
<1> SUFFICES ASSUME NEW p \in Peer, NEW c \in Channel PROVE OrderAt(p, c)'
  BY DEF OrderInv
<1>1. Other(p) \in Peer
  BY OtherType
<1>2. Kept(mainQ[p], mainQ'[p], Incoming(c))
  BY DEF QueueKept
<1>3. Kept(mainQ[Other(p)], mainQ'[Other(p)], Sending(c))
  BY <1>1 DEF QueueKept
<1> QED BY <1>2, <1>3, OrderKept

\* The application's calls.
LEMMA Order_Application ==
    ASSUME TypeOK, OrderInv, NEW p \in Peer, NEW c \in Channel, Application(p, c)
    PROVE  OrderInv'
<1>1. CASE AppAdd(p, c) \/ AppClose(p, c)
  <2>1. UNCHANGED <<got, sent, wire>>
    BY <1>1 DEF AppAdd, AppClose, sctpVars
  <2>2. mainQ' = Scheduled(p, "add", c, 0) \/ mainQ' = Scheduled(p, "close", c, 0)
    BY <1>1 DEF AppAdd, AppClose
  <2>3. \A r \in Peer : QueueKept(mainQ[r], mainQ'[r])
    BY <2>2, ScheduledKept DEF TaskKind
  <2> QED BY <2>1, <2>3, KeptSame, OrderQuiet
<1>2. CASE AppSend(p, c)
  <2>1. UNCHANGED <<got, wire>> /\ mainQ' = Scheduled(p, "send", c, sent[p][c] + 1)
        /\ sent' = [sent EXCEPT ![p][c] = @ + 1]
    BY <1>2 DEF AppSend, sctpVars
  <2> SUFFICES ASSUME NEW q \in Peer, NEW d \in Channel PROVE OrderAt(q, d)'
    BY DEF OrderInv
  <2> DEFINE n == sent[p][c]
             task == [kind |-> "send", ch |-> c, n |-> n + 1]
  <2>2. n \in Nat /\ task \in Task /\ task.n = n + 1 /\ \A e \in Channel : task \notin Incoming(e)
    BY Numbered DEF Task, TaskKind, Incoming
  <2>3. mainQ \in [Peer -> Seq(Task)] /\ sent \in [Peer -> [Channel -> Nat]]
    BY DEF TypeOK, ThreadTypeOK, AppTypeOK
  <2>4. /\ mainQ'[p] = Append(mainQ[p], task)
        /\ \A r \in Peer : r # p => mainQ'[r] = mainQ[r]
    BY <2>1, <2>3 DEF Scheduled
  <2>5. Kept(mainQ[q], mainQ'[q], Incoming(d))
    <3>1. Kept(mainQ[p], Append(mainQ[p], task), Incoming(d))
      BY <2>2, <2>3, KeptAppend
    <3> QED BY <2>4, <3>1, KeptSame
  <2>6. OrderAt(q, d)
    BY DEF OrderInv
  <2>7. CASE Other(q) = p /\ d = c
    <3>1. mainQ'[q] = mainQ[q] /\ mainQ[q] \in Seq(Task)
      BY <2>3, <2>4, <2>7, OtherOther
    <3>2. sent'[p][c] = n + 1
      BY <2>1, <2>3
    <3> DEFINE A == Got(got[q][c])
               B == Numbers(mainQ[q], Incoming(c))
               D == Numbers(wire[q][c], UserData)
               E == Numbers(mainQ[p], Sending(c))
               E1 == Numbers(Append(mainQ[p], task), Sending(c))
    <3>3. Ordered(c, A, B, D, E, n)
      BY <2>6, <2>7 DEF OrderAt
    <3>4. A \in SUBSET Nat /\ B \in SUBSET Nat /\ D \in SUBSET Nat /\ E \in SUBSET Nat
      BY DEF Got, Numbers
    <3>5. Ahead(c, E, {n + 1})
      BY <2>2, <3>3, <3>4 DEF Ordered, Bounded, Ahead, Before
    <3>6. Rises(c, mainQ[p], Sending(c))
      BY <2>6, <2>7 DEF OrderAt
    <3>7. mainQ[p] \in Seq(Task) /\ \A i \in DOMAIN mainQ[p] : mainQ[p][i].n \in Nat
      BY Numbered
    <3>8. Rises(c, Append(mainQ[p], task), Sending(c)) /\ E1 \subseteq E \cup {n + 1}
      <4>1. /\ Ahead(c, Numbers(mainQ[p], Sending(c)), {task.n})
            /\ task \in Task /\ task.n \in Nat /\ task.n = n + 1
        BY <2>2, <3>5
      <4> HIDE DEF task, n
      <4>2. /\ Rises(c, Append(mainQ[p], task), Sending(c))
            /\ Numbers(Append(mainQ[p], task), Sending(c))
                  \subseteq Numbers(mainQ[p], Sending(c)) \cup {task.n}
        BY <3>6, <3>7, <4>1, AddedLast
      <4> QED BY <4>1, <4>2
    <3> HIDE DEF A, B, D, E, E1
    <3>9. Ordered(c, A, B, D, E1, n + 1)
      BY <2>2, <3>3, <3>4, <3>8, OrderedSent
    <3>10. /\ Got(got'[q][c]) = A /\ Numbers(mainQ'[q], Incoming(c)) = B
           /\ Numbers(wire'[q][c], UserData) = D
           /\ Numbers(mainQ'[p], Sending(c)) = E1
      BY <2>1, <2>4, <3>1 DEF A, B, D, E1
    <3>11. Ordered(c, Got(got[q][c]), Numbers(mainQ[q], Incoming(c)), Numbers(wire[q][c], UserData),
                   Numbers(mainQ[Other(q)], Sending(c)), sent[Other(q)][c])'
      BY <2>7, <3>2, <3>9, <3>10
    <3>12. /\ GotRises(c, got'[q][c]) /\ Rises(c, mainQ'[q], Incoming(c))
           /\ Rises(c, wire'[q][c], UserData) /\ Rises(c, mainQ'[Other(q)], Sending(c))
      BY <2>1, <2>4, <2>6, <2>7, <3>1, <3>8 DEF OrderAt
    <3> QED BY <2>7, <3>11, <3>12 DEF OrderAt
  <2>8. CASE ~(Other(q) = p /\ d = c)
    <3>1. Other(q) \in Peer
      BY OtherType
    <3>2. sent'[Other(q)][d] = sent[Other(q)][d]
      BY <2>1, <2>3, <2>8, <3>1
    <3>3. Kept(mainQ[Other(q)], mainQ'[Other(q)], Sending(d))
      <4>1. CASE Other(q) # p
        BY <2>4, <3>1, <4>1, KeptSame
      <4>2. CASE Other(q) = p /\ d # c
        <5>1. task \notin Sending(d)
          BY <4>2 DEF Sending
        <5>2. Kept(mainQ[p], Append(mainQ[p], task), Sending(d))
          BY <2>2, <2>3, <5>1, KeptAppend
        <5> QED BY <2>4, <4>2, <5>2
      <4> QED BY <2>8, <4>1, <4>2
    <3> DEFINE A == Got(got[q][d])
               B == Numbers(mainQ[q], Incoming(d))
               D == Numbers(wire[q][d], UserData)
               E == Numbers(mainQ[Other(q)], Sending(d))
               n0 == sent[Other(q)][d]
    <3>4. Ordered(d, A, B, D, E, n0)
      BY <2>6 DEF OrderAt
    <3>5. B' \subseteq B /\ D' = D /\ E' \subseteq E /\ A' = A /\ n0' = n0
      BY <2>1, <2>5, <3>2, <3>3 DEF Kept
    <3> HIDE DEF A, B, D, E, n0
    <3>6. Ordered(d, A, B', D, E', n0)
      BY <3>4, <3>5, OrderedFewer
    <3>7. Ordered(d, A, B, D, E, n0)'
      BY <3>5, <3>6
    <3>8. /\ GotRises(d, got'[q][d]) /\ Rises(d, mainQ'[q], Incoming(d))
          /\ Rises(d, wire'[q][d], UserData) /\ Rises(d, mainQ'[Other(q)], Sending(d))
      BY <2>1, <2>5, <2>6, <3>3 DEF OrderAt, Kept
    <3> QED BY <3>7, <3>8 DEF OrderAt, A, B, D, E, n0
  <2> QED BY <2>7, <2>8
<1> QED BY <1>1, <1>2 DEF Application

\* Tasks of the main loop that carry no message.
LEMMA Order_Tasks ==
    ASSUME TypeOK, OrderInv, NEW p \in Peer, NEW c \in Channel,
           \/ RunAdd(p, c) \/ RunSendUnhooked(p, c) \/ RunCloseUnhooked(p, c)
           \/ RunClose(p, c) \/ RunReady(p, c) \/ RunRequested(p, c)
           \/ CloseDecoder(p, c) \/ CloseEncoder(p, c) \/ TearDown(p, c)
    PROVE  OrderInv'
<1>1. CASE \/ RunAdd(p, c) \/ RunSendUnhooked(p, c) \/ RunCloseUnhooked(p, c)
           \/ RunReady(p, c) \/ RunRequested(p, c)
  <2>1. UNCHANGED <<got, sent, wire>> /\ PopTask(p) /\ mainQ[p] # <<>>
    BY <1>1 DEF RunAdd, RunSendUnhooked, RunCloseUnhooked, RunReady, RunRequested,
                HeadTask, sctpVars, appVars
  <2>2. \A r \in Peer : QueueKept(mainQ[r], mainQ'[r])
    BY <2>1, PoppedKept
  <2> QED BY <2>1, <2>2, KeptSame, OrderQuiet
<1>2. CASE RunClose(p, c)
  <2> DEFINE task == [kind |-> "CLOSING", ch |-> c, n |-> 0]
  <2>1. UNCHANGED <<got, sent, wire>> /\ mainQ[p] # <<>>
        /\ mainQ' = [mainQ EXCEPT ![p] = Append(Tail(@), task)]
    BY <1>2 DEF RunClose, HeadTask, sctpVars, appVars
  <2>2. mainQ \in [Peer -> Seq(Task)]
    BY DEF TypeOK, ThreadTypeOK
  <2>3. task \in Task /\ task.kind \notin {"incoming", "send"}
    BY DEF Task, TaskKind, ReadyState
  <2>4. Tail(mainQ[p]) \in Seq(Task)
    BY <2>1, <2>2
  <2>5. QueueKept(mainQ[p], Tail(mainQ[p]))
    BY <2>1, <2>2, QueueKeptTail
  <2>6. QueueKept(Tail(mainQ[p]), Append(Tail(mainQ[p]), task))
    BY <2>3, <2>4, QueueKeptAppend
  <2>7. QueueKept(mainQ[p], Append(Tail(mainQ[p]), task))
    BY <2>5, <2>6, QueueKeptTwice
  <2>8. \A r \in Peer : QueueKept(mainQ[r], mainQ'[r])
    BY <2>1, <2>2, <2>7, KeptSame DEF QueueKept
  <2> QED BY <2>1, <2>8, KeptSame, OrderQuiet
<1>3. CASE CloseDecoder(p, c)
  <2>1. UNCHANGED <<got, sent, mainQ>>
    BY <1>3 DEF CloseDecoder, appVars
  <2>2. UNCHANGED wire \/ wire' = Pushed(p, c, "RESET", 0)
    BY <1>3 DEF CloseDecoder, ResetDecoder
  <2>3. \A r \in Peer : \A d \in Channel : Kept(wire[r][d], wire'[r][d], UserData)
    BY <2>2, PushedKept
  <2> QED BY <2>1, <2>3, UnchangedKept, OrderQuiet
<1>4. CASE CloseEncoder(p, c) \/ TearDown(p, c)
  <2>1. UNCHANGED <<got, sent>>
    BY <1>4 DEF CloseEncoder, TearDown, appVars
  <2>2. UNCHANGED wire \/ wire' = Pushed(p, c, "RESET", 0)
    BY <1>4 DEF CloseEncoder, TearDown, ReleaseEncoder
  <2>3. UNCHANGED mainQ \/ mainQ' = Scheduled(p, "CLOSED", c, 0)
    BY <1>4 DEF CloseEncoder, TearDown, ReleaseEncoder
  <2>4. \A r \in Peer : \A d \in Channel : Kept(wire[r][d], wire'[r][d], UserData)
    BY <2>2, PushedKept
  <2>5. \A r \in Peer : QueueKept(mainQ[r], mainQ'[r])
    BY <2>3, ScheduledKept, UnchangedKept DEF TaskKind, ReadyState
  <2> QED BY <2>1, <2>4, <2>5, OrderQuiet
<1> QED BY <1>1, <1>2, <1>3, <1>4

\* Every section of on_new_datachannel.
LEMMA Order_OnNewDataChannel ==
    ASSUME TypeOK, OrderInv, NEW p \in Peer, NEW t \in Thread, NEW c \in Channel,
           OnNewDataChannel(p, t, c)
    PROVE  OrderInv'
<1>1. UNCHANGED <<got, sent>>
  BY DEF OnNewDataChannel, LookUpEntry, CreateEntry, OpenRequest, AdoptEntry,
         CompleteAndAck, SetOpen, appVars
<1>2. \/ UNCHANGED wire \/ wire' = Pushed(p, c, "OPEN", 0) \/ wire' = Pushed(p, c, "ACK", 0)
  BY DEF OnNewDataChannel, LookUpEntry, CreateEntry, OpenRequest, AdoptEntry,
         CompleteAndAck, SetOpen, sctpVars
<1>3. UNCHANGED mainQ \/ mainQ' = Scheduled(p, "OPEN", c, 0)
  BY DEF OnNewDataChannel, LookUpEntry, CreateEntry, OpenRequest, AdoptEntry,
         CompleteAndAck, SetOpen
<1>4. \A r \in Peer : \A d \in Channel : Kept(wire[r][d], wire'[r][d], UserData)
  BY <1>2, PushedKept
<1>5. \A r \in Peer : QueueKept(mainQ[r], mainQ'[r])
  BY <1>3, ScheduledKept, UnchangedKept DEF TaskKind, ReadyState
<1> QED BY <1>1, <1>4, <1>5, OrderQuiet

\* The SCTP thread.
LEMMA Order_SctpThread ==
    ASSUME TypeOK, OrderInv, NEW p \in Peer, NEW c \in Channel,
           VisitNext(p, c) \/ PadAdded(p, c) \/ PadRemoved(p, c)
    PROVE  OrderInv'
<1>1. CASE VisitNext(p, c) \/ PadAdded(p, c)
  <2>1. UNCHANGED <<got, sent, wire, mainQ>>
    BY <1>1 DEF VisitNext, PadAdded, sctpVars, appVars
  <2> QED BY <2>1, UnchangedKept, KeptSame, OrderQuiet
<1>2. CASE PadRemoved(p, c)
  <2>1. UNCHANGED <<got, sent>> /\ wire[p][c] # <<>> /\ wire' = [wire EXCEPT ![p][c] = Tail(@)]
    BY <1>2 DEF PadRemoved, appVars
  <2>2. UNCHANGED mainQ \/ mainQ' = Scheduled(p, "CLOSING", c, 0)
    BY <1>2 DEF PadRemoved
  <2>3. \A r \in Peer : \A d \in Channel : Kept(wire[r][d], wire'[r][d], UserData)
    BY <2>1, TakenKept
  <2>4. \A r \in Peer : QueueKept(mainQ[r], mainQ'[r])
    BY <2>2, ScheduledKept, UnchangedKept DEF TaskKind, ReadyState
  <2> QED BY <2>1, <2>3, <2>4, OrderQuiet
<1> QED BY <1>1, <1>2

\* A message that is in a queue to be sent goes on the wire.
LEMMA Order_RunSend ==
    ASSUME TypeOK, OrderInv, NEW p \in Peer, NEW c \in Channel, RunSend(p, c)
    PROVE  OrderInv'
<1>1. UNCHANGED <<got, sent>>
  BY DEF RunSend, appVars
<1>2. mainQ[p] # <<>> /\ Head(mainQ[p]).kind = "send" /\ Head(mainQ[p]).ch = c
  BY DEF RunSend, HeadTask
<1>3. mainQ[p] \in Seq(Task) /\ mainQ \in [Peer -> Seq(Task)]
  BY DEF TypeOK, ThreadTypeOK
<1>4. Head(mainQ[p]) \in Sending(c) /\ Head(mainQ[p]).n \in Nat
  <2>1. Head(mainQ[p]) \in Task
    BY <1>2, <1>3
  <2> QED BY <1>2, <2>1 DEF Sending, Task
<1>5. CASE UNCHANGED <<mainQ, wire>>
  BY <1>1, <1>5, UnchangedKept, KeptSame, OrderQuiet
<1>6. CASE PopTask(p) /\ UNCHANGED wire
  <2>1. \A r \in Peer : QueueKept(mainQ[r], mainQ'[r])
    BY <1>2, <1>6, PoppedKept
  <2> QED BY <1>1, <1>6, <2>1, KeptSame, OrderQuiet
<1>7. CASE PopTask(p) /\ wire' = Pushed(p, c, "DATA", Head(mainQ[p]).n)
  <2> DEFINE m == Head(mainQ[p]).n
             message == [type |-> "DATA", n |-> m]
             w == Other(p)
  <2>1. message \in Message /\ message.n = m
    BY <1>4 DEF Message
  <2>2. w \in Peer /\ w # p /\ Other(w) = p
    BY OtherOther
  <2>3. wire \in [Peer -> [Channel -> Seq(Message)]]
    BY DEF TypeOK, SctpTypeOK
  <2>4. /\ wire'[w][c] = Append(wire[w][c], message)
        /\ \A r \in Peer, d \in Channel : ~(r = w /\ d = c) => wire'[r][d] = wire[r][d]
    BY <1>7, <2>2, <2>3 DEF Pushed
  <2>5. mainQ'[p] = Tail(mainQ[p]) /\ \A r \in Peer : r # p => mainQ'[r] = mainQ[r]
    BY <1>3, <1>7 DEF PopTask
  <2>6. \A r \in Peer : QueueKept(mainQ[r], mainQ'[r])
    BY <1>2, <1>7, PoppedKept
  <2> SUFFICES ASSUME NEW q \in Peer, NEW d \in Channel PROVE OrderAt(q, d)'
    BY DEF OrderInv
  <2>7. CASE ~(q = w /\ d = c)
    <3>1. Kept(wire[q][d], wire'[q][d], UserData)
      BY <2>4, <2>7, KeptSame
    <3>2. Kept(mainQ[q], mainQ'[q], Incoming(d))
      BY <2>6 DEF QueueKept
    <3>3. Kept(mainQ[Other(q)], mainQ'[Other(q)], Sending(d))
      BY <2>6, OtherType DEF QueueKept
    <3> QED BY <1>1, <3>1, <3>2, <3>3, OrderKept
  <2>8. CASE q = w /\ d = c
    <3> DEFINE A == Got(got[q][c])
               B == Numbers(mainQ[q], Incoming(c))
               D == Numbers(wire[q][c], UserData)
               E == Numbers(mainQ[p], Sending(c))
               D1 == Numbers(Append(wire[q][c], message), UserData)
               E1 == Numbers(Tail(mainQ[p]), Sending(c))
               n == sent[p][c]
    <3>1. OrderAt(q, c)
      BY <2>8 DEF OrderInv
    <3>2. Ordered(c, A, B, D, E, n)
      BY <2>2, <2>8, <3>1 DEF OrderAt
    <3>3. Rises(c, mainQ[p], Sending(c)) /\ Rises(c, wire[q][c], UserData)
      BY <2>2, <2>8, <3>1 DEF OrderAt
    <3>4. m \in E /\ Ahead(c, {m}, E1)
      BY <1>2, <1>3, <1>4, <3>3, HeadFirst
    <3>5. E1 \subseteq E /\ Rises(c, Tail(mainQ[p]), Sending(c))
      BY <1>2, <1>3, <3>3, KeptTail DEF Kept
    <3>6. Ahead(c, D, {m})
      BY <3>2, <3>4 DEF Ordered, Ahead
    <3>7. Rises(c, Append(wire[q][c], message), UserData) /\ D1 \subseteq D \cup {m}
      <4>1. wire[q][c] \in Seq(Message) /\ \A i \in DOMAIN wire[q][c] : wire[q][c][i].n \in Nat
        BY Numbered
      <4>2. Ahead(c, Numbers(wire[q][c], UserData), {message.n}) /\ message.n \in Nat /\ message.n = m
        BY <1>4, <2>1, <3>6
      <4>3. message \in Message
        BY <2>1
      <4> HIDE DEF message, m
      <4>4. /\ Rises(c, Append(wire[q][c], message), UserData)
            /\ Numbers(Append(wire[q][c], message), UserData)
                  \subseteq Numbers(wire[q][c], UserData) \cup {message.n}
        BY <3>3, <4>1, <4>2, <4>3, AddedLast
      <4> QED BY <4>2, <4>4
    <3>8. /\ Got(got'[q][c]) = A /\ Numbers(mainQ'[q], Incoming(c)) = B
          /\ Numbers(wire'[q][c], UserData) = D1 /\ Numbers(mainQ'[p], Sending(c)) = E1
          /\ sent'[p][c] = n
      BY <1>1, <2>2, <2>4, <2>5, <2>8
    <3>9. /\ GotRises(c, got'[q][c]) /\ Rises(c, mainQ'[q], Incoming(c))
          /\ Rises(c, wire'[q][c], UserData) /\ Rises(c, mainQ'[p], Sending(c))
      BY <1>1, <2>2, <2>4, <2>5, <2>8, <3>1, <3>5, <3>7 DEF OrderAt
    <3> HIDE DEF A, B, D, E, D1, E1, n, m
    <3>10. Ordered(c, A, B, D1, E1, n)
      BY <3>2, <3>4, <3>5, <3>7, OrderedPushed
    <3>11. Ordered(c, Got(got'[q][c]), Numbers(mainQ'[q], Incoming(c)), Numbers(wire'[q][c], UserData),
                   Numbers(mainQ'[p], Sending(c)), sent'[p][c])
      BY <3>8, <3>10
    <3>12. Other(q) = p
      BY <2>2, <2>8
    <3> QED BY <2>8, <3>9, <3>11, <3>12 DEF OrderAt
  <2> QED BY <2>7, <2>8
<1> QED BY <1>5, <1>6, <1>7 DEF RunSend

\* A message that waits for the main loop reaches the application.
LEMMA Order_RunIncoming ==
    ASSUME TypeOK, OrderInv, NEW p \in Peer, NEW c \in Channel, RunIncoming(p, c)
    PROVE  OrderInv'
<1> DEFINE m == Head(mainQ[p]).n
<1>1. UNCHANGED <<sent, wire>> /\ PopTask(p) /\ got' = [got EXCEPT ![p][c] = Append(@, m)]
  BY DEF RunIncoming, sctpVars
<1>2. mainQ[p] # <<>> /\ Head(mainQ[p]).kind = "incoming" /\ Head(mainQ[p]).ch = c
  BY DEF RunIncoming, HeadTask
<1>3. mainQ[p] \in Seq(Task) /\ mainQ \in [Peer -> Seq(Task)] /\ got \in [Peer -> [Channel -> Seq(Nat)]]
  BY DEF TypeOK, ThreadTypeOK, AppTypeOK
<1>4. Head(mainQ[p]) \in Incoming(c) /\ m \in Nat
  <2>1. Head(mainQ[p]) \in Task
    BY <1>2, <1>3
  <2> QED BY <1>2, <2>1 DEF Incoming, Task
<1>5. mainQ'[p] = Tail(mainQ[p]) /\ \A r \in Peer : r # p => mainQ'[r] = mainQ[r]
  BY <1>1, <1>3 DEF PopTask
<1>6. \A r \in Peer : QueueKept(mainQ[r], mainQ'[r])
  BY <1>1, <1>2, PoppedKept
<1> SUFFICES ASSUME NEW q \in Peer, NEW d \in Channel PROVE OrderAt(q, d)'
  BY DEF OrderInv
<1> DEFINE A == Got(got[q][d])
           B == Numbers(mainQ[q], Incoming(d))
           D == Numbers(wire[q][d], UserData)
           E == Numbers(mainQ[Other(q)], Sending(d))
           n == sent[Other(q)][d]
<1>7. OrderAt(q, d) /\ Ordered(d, A, B, D, E, n)
  BY DEF OrderInv, OrderAt
<1>8. B' \subseteq B /\ D' = D /\ E' \subseteq E /\ n' = n
  BY <1>1, <1>6, OtherType DEF QueueKept, Kept
<1>9. /\ Rises(d, mainQ'[q], Incoming(d)) /\ Rises(d, wire'[q][d], UserData)
      /\ Rises(d, mainQ'[Other(q)], Sending(d))
  BY <1>1, <1>6, <1>7, OtherType DEF OrderAt, QueueKept, Kept
<1>10. CASE ~(q = p /\ d = c)
  <2>1. got'[q][d] = got[q][d]
    BY <1>1, <1>3, <1>10
  <2>2. A' = A /\ GotRises(d, got'[q][d])
    BY <1>7, <2>1 DEF OrderAt
  <2> HIDE DEF A, B, D, E, n
  <2>3. Ordered(d, A, B', D', E', n)
    BY <1>7, <1>8, OrderedFewer
  <2>4. Ordered(d, A, B, D, E, n)'
    BY <1>8, <2>2, <2>3
  <2> QED BY <1>9, <2>2, <2>4 DEF OrderAt, A, B, D, E, n
<1>11. CASE q = p /\ d = c
  <2> DEFINE s == got[p][c]
  <2>1. got'[q][d] = Append(s, m) /\ s \in Seq(Nat) /\ mainQ'[q] = Tail(mainQ[p])
    BY <1>1, <1>3, <1>5, <1>11
  <2>2. m \in B /\ Ahead(d, {m}, B')
    <3>1. Rises(d, mainQ[p], Incoming(c))
      BY <1>7, <1>11 DEF OrderAt
    <3>2. m \in Numbers(mainQ[p], Incoming(c)) /\ Ahead(d, {m}, Numbers(Tail(mainQ[p]), Incoming(c)))
      BY <1>2, <1>3, <1>4, <3>1, HeadFirst
    <3> QED BY <1>11, <2>1, <3>2
  <2>3. Ahead(d, A, {m}) /\ m \in Nat
    BY <1>4, <1>7, <2>2 DEF Ordered, Ahead
  <2>4. GotRises(d, s) /\ A = Got(s)
    BY <1>7, <1>11 DEF OrderAt
  <2> HIDE DEF m, s
  <2>5. /\ DOMAIN s = 1 .. Len(s) /\ Len(s) \in Nat
        /\ DOMAIN Append(s, m) = 1 .. Len(s) + 1
        /\ \A i \in DOMAIN Append(s, m) : \/ i \in DOMAIN s /\ Append(s, m)[i] = s[i]
                                          \/ i = Len(s) + 1 /\ Append(s, m)[i] = m
    BY <2>1, <2>3
  <2>6. \A i \in DOMAIN s : s[i] \in Nat /\ s[i] \in A
    BY <2>1, <2>4 DEF Got
  <2>7. GotRises(d, Append(s, m))
    BY <2>3, <2>4, <2>5, <2>6 DEF GotRises, Ahead
  <2>8. A' \subseteq A \cup {m}
    <3>1. A' = Got(Append(s, m))
      BY <2>1
    <3> QED BY <2>4, <2>5, <3>1 DEF Got
  <2> HIDE DEF A, B, D, E, n
  <2>9. Ordered(d, A', B', D, E', n)
    <3>1. Ordered(d, A', B', D, E, n)
      BY <1>7, <1>8, <2>2, <2>8, OrderedDelivered
    <3> QED BY <1>8, <3>1, OrderedFewer
  <2>10. Ordered(d, A, B, D, E, n)'
    BY <1>8, <2>9
  <2> QED BY <1>9, <2>1, <2>7, <2>10 DEF OrderAt, A, B, D, E, n
<1> QED BY <1>10, <1>11

\* A stream hands over one of its messages, the first one if the channel is ordered.
LEMMA ReceiveTakes ==
    ASSUME TypeOK, NEW p \in Peer, NEW c \in Channel, NEW i \in Arriving(p, c),
           NEW type, Receive(p, c, i, type)
    PROVE  /\ wire \in [Peer -> [Channel -> Seq(Message)]]
           /\ i \in DOMAIN wire[p][c] /\ wire[p][c] # <<>>
           /\ i = 1 \/ c \in Unordered
           /\ \A r \in Peer, d \in Channel :
                 wire'[r][d] = IF r = p /\ d = c THEN RemoveAt(wire[p][c], i) ELSE wire[r][d]
<1>1. wire \in [Peer -> [Channel -> Seq(Message)]]
  BY DEF TypeOK, SctpTypeOK
<1>2. i \in DOMAIN wire[p][c] /\ (i = 1 \/ c \in Unordered)
  BY DEF Arriving
<1>3. wire[p][c] # <<>>
  BY <1>1, <1>2
<1> DEFINE rest == RemoveAt(wire[p][c], i)
<1>4. wire' = [wire EXCEPT ![p][c] = rest]
  BY DEF Receive
<1> HIDE DEF rest
<1>5. \A r \in Peer, d \in Channel :
          wire'[r][d] = IF r = p /\ d = c THEN rest ELSE wire[r][d]
  BY <1>1, <1>4
<1> QED BY <1>1, <1>2, <1>3, <1>5 DEF rest

\* So it keeps the order of what is left.
LEMMA ReceiveKept ==
    ASSUME TypeOK, NEW p \in Peer, NEW c \in Channel, NEW i \in Arriving(p, c),
           NEW type, Receive(p, c, i, type), NEW r \in Peer, NEW d \in Channel
    PROVE  Kept(wire[r][d], wire'[r][d], UserData)
<1>1. CASE ~(r = p /\ d = c)
  <2>1. wire'[r][d] = wire[r][d]
    BY <1>1, ReceiveTakes
  <2> QED BY <2>1, KeptSame
<1>2. CASE r = p /\ d = c
  <2>1. wire[p][c] \in Seq(Message) /\ i \in DOMAIN wire[p][c]
        /\ wire'[p][c] = RemoveAt(wire[p][c], i)
    BY <1>2, ReceiveTakes
  <2>2. Kept(wire[p][c], RemoveAt(wire[p][c], i), UserData)
    BY <2>1, KeptRemoveAt
  <2> QED BY <1>2, <2>1, <2>2
<1> QED BY <1>1, <1>2

\* A message that arrives goes to the receiver's tasks, or is lost.
LEMMA Order_Stream ==
    ASSUME TypeOK, OrderInv, NEW p \in Peer, NEW c \in Channel, Stream(p, c)
    PROVE  OrderInv'
<1>1. CASE ReceiveOpen(p, c) \/ ReceiveAck(p, c)
  <2>1. PICK i \in Arriving(p, c), type \in {"OPEN", "ACK"} : Receive(p, c, i, type)
    BY <1>1 DEF ReceiveOpen, ReceiveAck
  <2>2. \/ UNCHANGED mainQ
        \/ mainQ' = Scheduled(p, "requested", c, 0)
        \/ mainQ' = Scheduled(p, "OPEN", c, 0)
    BY <1>1 DEF ReceiveOpen, ReceiveAck
  <2>3. UNCHANGED <<got, sent>>
    BY <2>1 DEF Receive
  <2>4. \A r \in Peer : QueueKept(mainQ[r], mainQ'[r])
    BY <2>2, ScheduledKept, UnchangedKept DEF TaskKind, ReadyState
  <2>5. \A r \in Peer : \A d \in Channel : Kept(wire[r][d], wire'[r][d], UserData)
    BY <2>1, ReceiveKept
  <2> QED BY <2>3, <2>4, <2>5, OrderQuiet
<1>2. CASE ReceiveData(p, c)
  <2>1. PICK i \in Arriving(p, c) :
          /\ Receive(p, c, i, "DATA")
          /\ UNCHANGED mainQ \/ mainQ' = Scheduled(p, "incoming", c, wire[p][c][i].n)
    BY <1>2 DEF ReceiveData
  <2>2. UNCHANGED <<got, sent>>
    BY <2>1 DEF Receive
  <2>3. \A r \in Peer : \A d \in Channel : Kept(wire[r][d], wire'[r][d], UserData)
    BY <2>1, ReceiveKept
  <2>4. CASE UNCHANGED mainQ
    BY <2>2, <2>3, <2>4, UnchangedKept, OrderQuiet
  <2>5. CASE mainQ' = Scheduled(p, "incoming", c, wire[p][c][i].n)
    <3> DEFINE m == wire[p][c][i].n
               task == [kind |-> "incoming", ch |-> c, n |-> m]
    <3>1. m \in Nat
      BY <2>1, Numbered, ReceiveTakes
    <3>2. task \in Task /\ task.n = m /\ task.n \in Nat /\ \A e \in Channel : task \notin Sending(e)
      BY <3>1 DEF Task, TaskKind, Sending
    <3>3. mainQ \in [Peer -> Seq(Task)]
      BY DEF TypeOK, ThreadTypeOK
    <3>4. mainQ'[p] = Append(mainQ[p], task) /\ \A r \in Peer : r # p => mainQ'[r] = mainQ[r]
      BY <2>5, <3>3 DEF Scheduled
    <3> HIDE DEF task
    <3> SUFFICES ASSUME NEW q \in Peer, NEW d \in Channel PROVE OrderAt(q, d)'
      BY DEF OrderInv
    <3>5. Other(q) \in Peer /\ Other(q) # q
      BY OtherOther
    <3>6. Kept(mainQ[Other(q)], mainQ'[Other(q)], Sending(d))
      <4>1. Kept(mainQ[p], Append(mainQ[p], task), Sending(d))
        BY <3>2, <3>3, KeptAppend
      <4> QED BY <3>4, <3>5, <4>1, KeptSame
    <3>7. Kept(wire[q][d], wire'[q][d], UserData)
      BY <2>3
    <3>8. CASE ~(q = p /\ d = c)
      <4>1. Kept(mainQ[q], mainQ'[q], Incoming(d))
        <5>1. CASE q # p
          BY <3>4, <5>1, KeptSame
        <5>2. CASE q = p /\ d # c
          <6>1. task \notin Incoming(d)
            BY <5>2 DEF Incoming, task
          <6>2. Kept(mainQ[p], Append(mainQ[p], task), Incoming(d))
            BY <3>2, <3>3, <6>1, KeptAppend
          <6> QED BY <3>4, <5>2, <6>2
        <5> QED BY <3>8, <5>1, <5>2
      <4> QED BY <2>2, <3>6, <3>7, <4>1, OrderKept
    <3>9. CASE q = p /\ d = c
      <4> DEFINE A == Got(got[q][d])
                 B == Numbers(mainQ[q], Incoming(d))
                 D == Numbers(wire[q][d], UserData)
                 E == Numbers(mainQ[Other(q)], Sending(d))
                 n == sent[Other(q)][d]
      <4>1. OrderAt(q, d) /\ Ordered(d, A, B, D, E, n)
        BY DEF OrderInv, OrderAt
      <4>2. E' \subseteq E /\ D' \subseteq D /\ A' = A /\ n' = n
        BY <2>2, <3>6, <3>7 DEF Kept
      <4>3. m \in D /\ Ahead(d, {m}, D')
        <5>1. Rises(d, wire[p][c], UserData)
          BY <3>9, <4>1 DEF OrderAt
        <5>2. /\ wire[p][c] \in Seq(Message) /\ i \in DOMAIN wire[p][c]
              /\ (i = 1 \/ d \in Unordered) /\ wire'[p][c] = RemoveAt(wire[p][c], i)
          BY <2>1, <3>9, ReceiveTakes
        <5>3. wire[p][c][i] \in Message
          BY <5>2
        <5>4. wire[p][c][i] \in UserData /\ wire[p][c][i].n \in Nat
          BY <2>1, <3>1, <5>3 DEF Receive, UserData
        <5>5. /\ wire[p][c][i].n \in Numbers(wire[p][c], UserData)
              /\ Ahead(d, {wire[p][c][i].n}, Numbers(RemoveAt(wire[p][c], i), UserData))
          BY <5>1, <5>2, <5>4, RemovedApart
        <5>6. /\ Numbers(wire[p][c], UserData) = D
              /\ Numbers(RemoveAt(wire[p][c], i), UserData) = D'
          BY <3>9, <5>2
        <5> QED BY <5>5, <5>6
      <4>4. Ahead(d, B, {m})
        BY <4>1, <4>3 DEF Ordered, Ahead
      <4>5. Rises(d, mainQ'[q], Incoming(d)) /\ B' \subseteq B \cup {m}
        <5>1. mainQ[p] \in Seq(Task) /\ \A j \in DOMAIN mainQ[p] : mainQ[p][j].n \in Nat
          BY Numbered
        <5>2. Rises(d, mainQ[p], Incoming(d)) /\ Ahead(d, Numbers(mainQ[p], Incoming(d)), {task.n})
          BY <3>2, <3>9, <4>1, <4>4 DEF OrderAt
        <5> HIDE DEF m
        <5>3. /\ Rises(d, Append(mainQ[p], task), Incoming(d))
              /\ Numbers(Append(mainQ[p], task), Incoming(d))
                    \subseteq Numbers(mainQ[p], Incoming(d)) \cup {task.n}
          BY <3>2, <5>1, <5>2, AddedLast
        <5> QED BY <3>2, <3>4, <3>9, <5>3
      <4>6. /\ GotRises(d, got'[q][d]) /\ Rises(d, wire'[q][d], UserData)
            /\ Rises(d, mainQ'[Other(q)], Sending(d))
        BY <2>2, <3>6, <3>7, <4>1 DEF OrderAt, Kept
      <4> HIDE DEF A, B, D, E, n, m
      <4>7. Ordered(d, A, B', D', E, n)
        BY <4>1, <4>2, <4>3, <4>5, OrderedReceived
      <4>8. Ordered(d, A, B', D', E', n)
        BY <4>2, <4>7, OrderedFewer
      <4>9. Ordered(d, A, B, D, E, n)'
        BY <4>2, <4>8
      <4> QED BY <4>5, <4>6, <4>9 DEF OrderAt, A, B, D, E, n
    <3> QED BY <3>8, <3>9
  <2> QED BY <2>1, <2>4, <2>5
<1> QED BY <1>1, <1>2 DEF Stream

\* The order is inductive.
LEMMA OrderInv_Next == TypeOK /\ OrderInv /\ [Next]_vars => OrderInv'
<1> SUFFICES ASSUME TypeOK, OrderInv, [Next]_vars PROVE OrderInv'
  OBVIOUS
<1>1. ASSUME UNCHANGED <<got, sent, wire, mainQ>> PROVE OrderInv'
  BY <1>1, UnchangedKept, KeptSame, OrderQuiet
<1>2. CASE UNCHANGED vars
  BY <1>1, <1>2 DEF vars, sctpVars, appVars
<1>3. CASE Next
  <2>1. PICK p \in Peer :
          \/ AssociationUp(p)
          \/ AssociationDown(p)
          \/ \E c \in Channel :
                Application(p, c) \/ MainLoop(p, c) \/ SctpThread(p, c) \/ Stream(p, c)
    BY <1>3 DEF Next
  <2>2. CASE AssociationUp(p) \/ AssociationDown(p)
    BY <1>1, <2>2 DEF AssociationUp, AssociationDown, appVars
  <2>3. CASE \E c \in Channel :
               Application(p, c) \/ MainLoop(p, c) \/ SctpThread(p, c) \/ Stream(p, c)
    <3>1. PICK c \in Channel :
            Application(p, c) \/ MainLoop(p, c) \/ SctpThread(p, c) \/ Stream(p, c)
      BY <2>3
    <3>2. CASE Application(p, c)
      BY <3>2, Order_Application
    <3>3. CASE MainLoop(p, c)
      BY <3>3, Order_Tasks, Order_RunSend, Order_RunIncoming, Order_OnNewDataChannel
         DEF MainLoop, Thread
    <3>4. CASE SctpThread(p, c)
      BY <3>4, Order_Tasks, Order_SctpThread, Order_OnNewDataChannel DEF SctpThread, Thread
    <3>5. CASE Stream(p, c)
      BY <3>5, Order_Stream
    <3> QED BY <3>1, <3>2, <3>3, <3>4, <3>5
  <2> QED BY <2>1, <2>2, <2>3
<1> QED BY <1>2, <1>3

\* At first there is no message anywhere.
LEMMA OrderInv_Init == Init => OrderInv
<1> SUFFICES ASSUME Init, NEW p \in Peer, NEW c \in Channel PROVE OrderAt(p, c)
  BY DEF OrderInv
<1>1. /\ got[p][c] = <<>> /\ mainQ[p] = <<>> /\ wire[p][c] = <<>>
      /\ mainQ[Other(p)] = <<>>
  BY OtherType DEF Init
<1>2. GotRises(c, <<>>) /\ Got(<<>>) = {}
  BY DEF GotRises, Got
<1>3. ASSUME NEW S PROVE Rises(c, <<>>, S) /\ Numbers(<<>>, S) = {}
  BY DEF Rises, Numbers
<1>4. Ordered(c, {}, {}, {}, {}, sent[Other(p)][c])
  BY DEF Ordered, Ahead, Bounded
<1>5. Ordered(c, Got(got[p][c]), Numbers(mainQ[p], Incoming(c)), Numbers(wire[p][c], UserData),
              Numbers(mainQ[Other(p)], Sending(c)), sent[Other(p)][c])
  BY <1>1, <1>2, <1>3, <1>4
<1>6. GotRises(c, got[p][c]) /\ Rises(c, mainQ[p], Incoming(c)) /\ Rises(c, wire[p][c], UserData)
      /\ Rises(c, mainQ[Other(p)], Sending(c))
  BY <1>1, <1>2, <1>3
<1> QED BY <1>5, <1>6 DEF OrderAt

\* The messages of an ordered channel reach the application in the order in which
\* they were sent, each at most once, through three queues of two peers, whatever the
\* applications do and whatever is lost on the way.
THEOREM InOrderAlways == Spec => []InOrder
<1>1. Init => TypeOK /\ OrderInv
  BY TypeOK_Init, OrderInv_Init
<1>2. TypeOK /\ OrderInv /\ [Next]_vars => (TypeOK /\ OrderInv)'
  BY TypeOK_Next, OrderInv_Next
<1>3. TypeOK /\ OrderInv => InOrder
  BY DEF OrderInv, OrderAt, GotRises, Before, InOrder
<1> QED BY <1>1, <1>2, <1>3, PTL DEF Spec

\* Numbers of a sequence that come one before another differ.
LEMMA RisesApart ==
    ASSUME NEW c, NEW s \in Seq(Nat), GotRises(c, s)
    PROVE  \A i, j \in DOMAIN s : i # j => s[i] # s[j]
<1>1. Len(s) \in Nat /\ DOMAIN s = 1 .. Len(s) /\ \A i \in DOMAIN s : s[i] \in Nat
  OBVIOUS
<1>2. ASSUME NEW i \in DOMAIN s, NEW j \in DOMAIN s, i < j PROVE s[i] # s[j]
  <2>1. Before(c, s[i], s[j])
    BY <1>2 DEF GotRises
  <2>2. s[i] \in Nat /\ s[j] \in Nat
    BY <1>1
  <2> QED BY <2>1, <2>2 DEF Before
<1>3. \A i, j \in DOMAIN s : i # j => i < j \/ j < i
  BY <1>1
<1> QED BY <1>2, <1>3

\* What every channel promises, ordered or not.
AtMostOnce ==
    \A p \in Peer, c \in Channel :
        \A i, j \in DOMAIN got[p][c] : i # j => got[p][c][i] # got[p][c][j]

\* No message reaches the application twice, of an unordered channel either, although
\* it passes from one queue to the next on three threads.
THEOREM AtMostOnceAlways == Spec => []AtMostOnce
<1>1. Init => TypeOK /\ OrderInv
  BY TypeOK_Init, OrderInv_Init
<1>2. TypeOK /\ OrderInv /\ [Next]_vars => (TypeOK /\ OrderInv)'
  BY TypeOK_Next, OrderInv_Next
<1>3. TypeOK /\ OrderInv => AtMostOnce
  <2> SUFFICES ASSUME TypeOK, OrderInv, NEW p \in Peer, NEW c \in Channel
               PROVE  \A i, j \in DOMAIN got[p][c] : i # j => got[p][c][i] # got[p][c][j]
    BY DEF AtMostOnce
  <2>1. got[p][c] \in Seq(Nat) /\ GotRises(c, got[p][c])
    BY DEF TypeOK, AppTypeOK, OrderInv, OrderAt
  <2> QED BY <2>1, RisesApart
<1> QED BY <1>1, <1>2, <1>3, PTL DEF Spec

----------------------------------------------------------------------------
(* No peer dies while the applications wait.  A patient application adds no *)
(* channel before the association is up, sends on a channel both agreed on   *)
(* only when both ends are OPEN, and closes a channel, if one end of it may,  *)
(* once all messages of both ends are through.                              *)

\* What a thread of a peer does for a channel.
Main(f, c) == IF f["main"].ch = c THEN f["main"].at ELSE "idle"
Torn(f, c) == f["sctp"].at = "teardown" /\ f["sctp"].ch = c

\* What a queue of tasks holds for a channel: a task of a kind; nothing to send and
\* no second close behind a close; ready states that climb from low to top.
Holds(s, kind, c) == \E i \in DOMAIN s : s[i].kind = kind /\ s[i].ch = c
LastClose(s, c) ==
    \A i, j \in DOMAIN s :
        i < j /\ s[i].kind = "close" /\ s[i].ch = c /\ s[j].ch = c
            => s[j].kind \notin {"send", "close"}
Climbs(s, c, low, top) ==
    /\ low =< top
    /\ \A i \in DOMAIN s : s[i].ch = c /\ s[i].kind \in ReadyState =>
          low =< Rank(s[i].kind) /\ Rank(s[i].kind) =< top
    /\ \A i, j \in DOMAIN s :
          i < j /\ s[i].ch = c /\ s[i].kind \in ReadyState
                /\ s[j].ch = c /\ s[j].kind \in ReadyState
             => Rank(s[i].kind) =< Rank(s[j].kind)

\* What is on a stream: a message of a type; OPEN and ACK only in front; resets only,
\* and nothing else behind a reset.
Carries(s, type) == \E i \in DOMAIN s : s[i].type = type
Front1(s) == \A i \in DOMAIN s : s[i].type \in {"OPEN", "ACK"} => i = 1
OnlyResets(s) == \A i \in DOMAIN s : s[i].type = "RESET"
ResetsLast(s) ==
    \A i, j \in DOMAIN s : i < j /\ s[i].type = "RESET" => s[j].type = "RESET"

----------------------------------------------------------------------------
(* What scheduling, running, pushing and receiving do to a queue *)

\* The elements of a queue one was added to.
LEMMA Appended ==
    ASSUME NEW T, NEW s \in Seq(T), NEW e \in T
    PROVE  /\ Len(s) \in Nat /\ DOMAIN s = 1 .. Len(s)
           /\ DOMAIN Append(s, e) = 1 .. Len(s) + 1
           /\ Append(s, e)[Len(s) + 1] = e
           /\ \A i \in DOMAIN s : Append(s, e)[i] = s[i]
  OBVIOUS

\* The elements of a queue that lost its first.
LEMMA Shortened ==
    ASSUME NEW T, NEW s \in Seq(T), s # <<>>
    PROVE  /\ Len(s) \in Nat /\ DOMAIN s = 1 .. Len(s) /\ 1 \in DOMAIN s /\ Head(s) = s[1]
           /\ Tail(s) \in Seq(T) /\ DOMAIN Tail(s) = 1 .. Len(s) - 1
           /\ \A i \in DOMAIN Tail(s) : i + 1 \in DOMAIN s /\ Tail(s)[i] = s[i + 1]
  OBVIOUS

\* Ranks are numbers up to 3, and tell the states apart.
LEMMA Ranks ==
    /\ \A s \in ReadyState : Rank(s) \in 0 .. 3
    /\ Rank("CONNECTING") = 0 /\ Rank("OPEN") = 1 /\ Rank("CLOSING") = 2 /\ Rank("CLOSED") = 3
  BY DEF Rank, ReadyState

\* A task more.
LEMMA TaskAdded ==
    ASSUME NEW s \in Seq(Task), NEW e \in Task
    PROVE  /\ \A k, d : Holds(Append(s, e), k, d) <=> Holds(s, k, d) \/ (k = e.kind /\ d = e.ch)
           /\ \A d : LastClose(s, d)
                     /\ (d # e.ch \/ e.kind \notin {"send", "close"} \/ ~Holds(s, "close", d))
                  => LastClose(Append(s, e), d)
           /\ \A d, low, top :
                 Climbs(s, d, low, top) /\ (d # e.ch \/ e.kind \notin ReadyState)
                    => Climbs(Append(s, e), d, low, top)
           /\ \A low \in Nat, top \in Nat, more \in Nat :
                 (Climbs(s, e.ch, low, top) /\ e.kind \in ReadyState
                     /\ top =< Rank(e.kind) /\ Rank(e.kind) =< more)
                    => Climbs(Append(s, e), e.ch, low, more)
<1> DEFINE z == Append(s, e)
<1>1. /\ Len(s) \in Nat /\ DOMAIN s = 1 .. Len(s) /\ DOMAIN z = 1 .. Len(s) + 1
      /\ z[Len(s) + 1] = e /\ \A i \in DOMAIN s : z[i] = s[i]
  BY Appended
<1> HIDE DEF z
<1>2. \A i \in DOMAIN z : i \in DOMAIN s \/ i = Len(s) + 1
  BY <1>1
<1>3. \A i \in DOMAIN s : i \in DOMAIN z /\ i < Len(s) + 1
  BY <1>1
<1>4. Len(s) + 1 \in DOMAIN z
  BY <1>1
<1>5. \A i, j \in DOMAIN z : i < j => i \in DOMAIN s
  BY <1>1
<1>6. ASSUME NEW k, NEW d PROVE Holds(z, k, d) <=> Holds(s, k, d) \/ (k = e.kind /\ d = e.ch)
  BY <1>1, <1>2, <1>3, <1>4 DEF Holds
<1>7. ASSUME NEW d, LastClose(s, d),
             d # e.ch \/ e.kind \notin {"send", "close"} \/ ~Holds(s, "close", d)
      PROVE  LastClose(z, d)
  <2> SUFFICES ASSUME NEW i \in DOMAIN z, NEW j \in DOMAIN z, i < j, z[i].kind = "close",
                      z[i].ch = d, z[j].ch = d
               PROVE  z[j].kind \notin {"send", "close"}
    BY DEF LastClose
  <2>1. i \in DOMAIN s /\ z[i] = s[i] /\ Holds(s, "close", d)
    BY <1>1, <1>5 DEF Holds
  <2> QED BY <1>1, <1>2, <1>7, <2>1 DEF LastClose
<1>8. ASSUME NEW d, NEW low, NEW top, Climbs(s, d, low, top), d # e.ch \/ e.kind \notin ReadyState
      PROVE  Climbs(z, d, low, top)
  BY <1>1, <1>2, <1>8 DEF Climbs
<1>9. ASSUME NEW low \in Nat, NEW top \in Nat, NEW more \in Nat, Climbs(s, e.ch, low, top),
             e.kind \in ReadyState, top =< Rank(e.kind), Rank(e.kind) =< more
      PROVE  Climbs(z, e.ch, low, more)
  <2>1. Rank(e.kind) \in Nat /\ \A k \in ReadyState : Rank(k) \in Nat
    BY <1>9, Ranks
  <2>2. low =< Rank(e.kind) /\ low =< more
    BY <1>9, <2>1 DEF Climbs
  <2>3. ASSUME NEW i \in DOMAIN s, s[i].ch = e.ch, s[i].kind \in ReadyState
        PROVE  /\ low =< Rank(s[i].kind) /\ Rank(s[i].kind) =< more
               /\ Rank(s[i].kind) =< Rank(e.kind)
    <3>1. low =< Rank(s[i].kind) /\ Rank(s[i].kind) =< top /\ Rank(s[i].kind) \in Nat
      BY <1>9, <2>1, <2>3 DEF Climbs
    <3> QED BY <1>9, <2>1, <3>1
  <2>4. ASSUME NEW i \in DOMAIN z, z[i].ch = e.ch, z[i].kind \in ReadyState
        PROVE  low =< Rank(z[i].kind) /\ Rank(z[i].kind) =< more
    BY <1>1, <1>2, <1>9, <2>2, <2>3, <2>4
  <2>5. ASSUME NEW i \in DOMAIN z, NEW j \in DOMAIN z, i < j, z[i].ch = e.ch,
               z[i].kind \in ReadyState, z[j].ch = e.ch, z[j].kind \in ReadyState
        PROVE  Rank(z[i].kind) =< Rank(z[j].kind)
    <3>1. i \in DOMAIN s /\ z[i] = s[i]
      BY <1>1, <1>5, <2>5
    <3>2. CASE j \in DOMAIN s
      BY <1>1, <1>9, <2>5, <3>1, <3>2 DEF Climbs
    <3>3. CASE j = Len(s) + 1
      BY <1>1, <2>3, <2>5, <3>1, <3>3
    <3> QED BY <1>2, <3>2, <3>3
  <2> QED BY <2>2, <2>4, <2>5 DEF Climbs
<1>10. \A k, d : Holds(z, k, d) <=> Holds(s, k, d) \/ (k = e.kind /\ d = e.ch)
  BY <1>6
<1>11. \A d : LastClose(s, d)
               /\ (d # e.ch \/ e.kind \notin {"send", "close"} \/ ~Holds(s, "close", d))
            => LastClose(z, d)
  BY <1>7
<1>12. \A d, low, top : Climbs(s, d, low, top) /\ (d # e.ch \/ e.kind \notin ReadyState)
                           => Climbs(z, d, low, top)
  BY <1>8
<1>13. \A low \in Nat, top \in Nat, more \in Nat :
          (Climbs(s, e.ch, low, top) /\ e.kind \in ReadyState
              /\ top =< Rank(e.kind) /\ Rank(e.kind) =< more)
             => Climbs(z, e.ch, low, more)
  BY <1>9
<1> QED BY <1>10, <1>11, <1>12, <1>13 DEF z

\* A task that has run.
LEMMA TaskRun ==
    ASSUME NEW s \in Seq(Task), s # <<>>
    PROVE  /\ \A k, d : Holds(Tail(s), k, d) => Holds(s, k, d)
           /\ \A k, d : Holds(s, k, d) => Holds(Tail(s), k, d) \/ (k = Head(s).kind /\ d = Head(s).ch)
           /\ Holds(s, Head(s).kind, Head(s).ch)
           /\ \A d : LastClose(s, d) => LastClose(Tail(s), d)
           /\ LastClose(s, Head(s).ch) /\ Head(s).kind = "close" =>
                 ~Holds(Tail(s), "send", Head(s).ch) /\ ~Holds(Tail(s), "close", Head(s).ch)
           /\ \A d, low, top : Climbs(s, d, low, top) => Climbs(Tail(s), d, low, top)
           /\ \A low, top :
                 Climbs(s, Head(s).ch, low, top) /\ Head(s).kind \in ReadyState =>
                    low =< Rank(Head(s).kind) /\ Climbs(Tail(s), Head(s).ch, Rank(Head(s).kind), top)
<1> DEFINE z == Tail(s)
           e == Head(s)
<1>1. /\ DOMAIN s = 1 .. Len(s) /\ 1 \in DOMAIN s /\ e = s[1] /\ Len(s) \in Nat
      /\ z \in Seq(Task) /\ DOMAIN z = 1 .. Len(s) - 1
      /\ \A i \in DOMAIN z : i + 1 \in DOMAIN s /\ z[i] = s[i + 1]
  BY Shortened
<1> HIDE DEF z, e
<1>2. \A i \in DOMAIN s : i = 1 \/ \E j \in DOMAIN z : i = j + 1
  <2> SUFFICES ASSUME NEW i \in DOMAIN s, i # 1 PROVE \E j \in DOMAIN z : i = j + 1
    OBVIOUS
  <2>1. i - 1 \in DOMAIN z /\ i = (i - 1) + 1
    BY <1>1
  <2> QED BY <2>1
<1>3. \A i \in DOMAIN z : 1 < i + 1
  BY <1>1
<1>4. \A i, j \in DOMAIN z : i < j => i + 1 < j + 1
  BY <1>1
<1>5. ASSUME NEW k, NEW d PROVE Holds(z, k, d) => Holds(s, k, d)
  BY <1>1 DEF Holds
<1>6. ASSUME NEW k, NEW d, Holds(s, k, d) PROVE Holds(z, k, d) \/ (k = e.kind /\ d = e.ch)
  BY <1>1, <1>2, <1>6 DEF Holds
<1>7. Holds(s, e.kind, e.ch)
  BY <1>1 DEF Holds
<1>8. ASSUME NEW d, LastClose(s, d) PROVE LastClose(z, d)
  BY <1>1, <1>4, <1>8 DEF LastClose
<1>9. ASSUME LastClose(s, e.ch), e.kind = "close"
      PROVE  ~Holds(z, "send", e.ch) /\ ~Holds(z, "close", e.ch)
  <2> SUFFICES ASSUME NEW i \in DOMAIN z, z[i].ch = e.ch
               PROVE  z[i].kind \notin {"send", "close"}
    BY DEF Holds
  <2> QED BY <1>1, <1>3, <1>9 DEF LastClose
<1>10. ASSUME NEW d, NEW low, NEW top, Climbs(s, d, low, top) PROVE Climbs(z, d, low, top)
  BY <1>1, <1>4, <1>10 DEF Climbs
<1>11. ASSUME NEW low, NEW top, Climbs(s, e.ch, low, top), e.kind \in ReadyState
       PROVE  low =< Rank(e.kind) /\ Climbs(z, e.ch, Rank(e.kind), top)
  <2>1. low =< Rank(e.kind) /\ Rank(e.kind) =< top
    BY <1>1, <1>11 DEF Climbs
  <2>2. ASSUME NEW i \in DOMAIN z, z[i].ch = e.ch, z[i].kind \in ReadyState
        PROVE  Rank(e.kind) =< Rank(z[i].kind)
    BY <1>1, <1>3, <1>11, <2>2 DEF Climbs
  <2>3. Climbs(z, e.ch, low, top)
    BY <1>10, <1>11
  <2> QED BY <2>1, <2>2, <2>3 DEF Climbs
<1> QED BY <1>5, <1>6, <1>7, <1>8, <1>9, <1>10, <1>11 DEF z, e

\* More room above.
LEMMA ClimbsHigher ==
    ASSUME NEW s, NEW d, NEW low \in Nat, NEW top \in Nat, NEW more \in Nat,
           Climbs(s, d, low, top), top =< more
    PROVE  Climbs(s, d, low, more)
<1>1. \A k \in ReadyState : Rank(k) \in Nat
  BY Ranks
<1> QED BY <1>1 DEF Climbs

\* A message more on a stream.
LEMMA MessageAdded ==
    ASSUME NEW s \in Seq(Message), NEW m \in Message
    PROVE  /\ \A t : Carries(Append(s, m), t) <=> Carries(s, t) \/ t = m.type
           /\ Append(s, m) # <<>>
           /\ Front1(s) /\ (m.type \notin {"OPEN", "ACK"} \/ s = <<>>) => Front1(Append(s, m))
           /\ OnlyResets(s) /\ m.type = "RESET" => OnlyResets(Append(s, m))
           /\ ResetsLast(s) /\ (m.type = "RESET" \/ ~Carries(s, "RESET")) => ResetsLast(Append(s, m))
<1> DEFINE z == Append(s, m)
<1>1. /\ Len(s) \in Nat /\ DOMAIN s = 1 .. Len(s) /\ DOMAIN z = 1 .. Len(s) + 1
      /\ z[Len(s) + 1] = m /\ \A i \in DOMAIN s : z[i] = s[i]
  BY Appended
<1>2. z # <<>> /\ (s = <<>> => Len(s) = 0)
  <2>1. Len(z) = Len(s) + 1
    OBVIOUS
  <2>2. Len(<<>>) = 0
    OBVIOUS
  <2> QED BY <1>1, <2>1, <2>2
<1> HIDE DEF z
<1>3. \A i \in DOMAIN z : i \in DOMAIN s \/ i = Len(s) + 1
  BY <1>1
<1>4. \A i \in DOMAIN s : i \in DOMAIN z
  BY <1>1
<1>5. Len(s) + 1 \in DOMAIN z
  BY <1>1
<1>6. \A i, j \in DOMAIN z : i < j => i \in DOMAIN s
  BY <1>1
<1>7. ASSUME NEW t PROVE Carries(z, t) <=> Carries(s, t) \/ t = m.type
  BY <1>1, <1>3, <1>4, <1>5 DEF Carries
<1>8. ASSUME Front1(s), m.type \notin {"OPEN", "ACK"} \/ s = <<>> PROVE Front1(z)
  BY <1>1, <1>2, <1>3, <1>8 DEF Front1
<1>9. ASSUME OnlyResets(s), m.type = "RESET" PROVE OnlyResets(z)
  BY <1>1, <1>3, <1>9 DEF OnlyResets
<1>10. ASSUME ResetsLast(s), m.type = "RESET" \/ ~Carries(s, "RESET") PROVE ResetsLast(z)
  BY <1>1, <1>3, <1>6, <1>10 DEF ResetsLast, Carries
<1> QED BY <1>2, <1>7, <1>8, <1>9, <1>10 DEF z

\* A message that was handed over.
LEMMA MessageTaken ==
    ASSUME NEW s \in Seq(Message), NEW i \in DOMAIN s
    PROVE  /\ \A t : Carries(RemoveAt(s, i), t) => Carries(s, t)
           /\ Carries(s, s[i].type) /\ s # <<>>
           /\ OnlyResets(s) => s[i].type = "RESET"
           /\ Front1(s) => Front1(RemoveAt(s, i))
           /\ Front1(s) /\ s[i].type \in {"OPEN", "ACK"} =>
                 ~Carries(RemoveAt(s, i), "OPEN") /\ ~Carries(RemoveAt(s, i), "ACK")
           /\ OnlyResets(s) => OnlyResets(RemoveAt(s, i))
           /\ ResetsLast(s) => ResetsLast(RemoveAt(s, i))
<1> DEFINE z == RemoveAt(s, i)
<1>1. /\ Len(s) \in Nat /\ DOMAIN s = 1 .. Len(s) /\ DOMAIN z = 1 .. Len(s) - 1
      /\ \A j \in DOMAIN z : z[j] = IF j < i THEN s[j] ELSE s[j + 1]
  BY RemovedElements
<1>2. s # <<>>
  OBVIOUS
<1> HIDE DEF z
<1>3. \A j \in DOMAIN z : j \in DOMAIN s /\ j + 1 \in DOMAIN s /\ j + 1 # 1
  BY <1>1
<1>4. \A j \in DOMAIN z : \E k \in DOMAIN s : z[j] = s[k]
  BY <1>1, <1>3
<1>5. \A t : Carries(z, t) => Carries(s, t)
  BY <1>4 DEF Carries
<1>6. Carries(s, s[i].type) /\ (OnlyResets(s) => s[i].type = "RESET")
  BY DEF Carries, OnlyResets
<1>7. Front1(s) => Front1(z)
  BY <1>1, <1>3 DEF Front1
<1>8. ASSUME Front1(s), s[i].type \in {"OPEN", "ACK"}
      PROVE  ~Carries(z, "OPEN") /\ ~Carries(z, "ACK")
  <2>1. i = 1
    BY <1>8 DEF Front1
  <2>2. \A j \in DOMAIN z : z[j] = s[j + 1] /\ s[j + 1].type \notin {"OPEN", "ACK"}
    BY <1>1, <1>3, <1>8, <2>1 DEF Front1
  <2> QED BY <2>2 DEF Carries
<1>9. OnlyResets(s) => OnlyResets(z)
  BY <1>4 DEF OnlyResets
<1>10. ASSUME ResetsLast(s), NEW j \in DOMAIN z, NEW k \in DOMAIN z, j < k, z[j].type = "RESET"
       PROVE  z[k].type = "RESET"
  <2> DEFINE x == IF j < i THEN j ELSE j + 1
             y == IF k < i THEN k ELSE k + 1
  <2>1. x \in DOMAIN s /\ y \in DOMAIN s /\ x < y
    BY <1>1, <1>3, <1>10
  <2>2. z[j] = s[x] /\ z[k] = s[y]
    BY <1>1
  <2> HIDE DEF x, y
  <2> QED BY <1>10, <2>1, <2>2 DEF ResetsLast
<1>11. ResetsLast(s) => ResetsLast(z)
  BY <1>10 DEF ResetsLast
<1> QED BY <1>2, <1>5, <1>6, <1>7, <1>8, <1>9, <1>11 DEF z

\* A reset that the decoder has seen.
LEMMA ResetTaken ==
    ASSUME NEW s \in Seq(Message), s # <<>>
    PROVE  /\ \A t : Carries(Tail(s), t) => Carries(s, t)
           /\ Carries(s, Head(s).type)
           /\ OnlyResets(s) => Head(s).type = "RESET"
           /\ Front1(s) => Front1(Tail(s))
           /\ OnlyResets(s) => OnlyResets(Tail(s))
           /\ ResetsLast(s) => ResetsLast(Tail(s))
           /\ ResetsLast(s) /\ Head(s).type = "RESET" => OnlyResets(s) /\ OnlyResets(Tail(s))
<1> DEFINE z == Tail(s)
           h == Head(s)
<1>1. /\ DOMAIN s = 1 .. Len(s) /\ 1 \in DOMAIN s /\ h = s[1] /\ Len(s) \in Nat
      /\ DOMAIN z = 1 .. Len(s) - 1
      /\ \A i \in DOMAIN z : i + 1 \in DOMAIN s /\ z[i] = s[i + 1]
  BY Shortened
<1> HIDE DEF z, h
<1>2. \A i, j \in DOMAIN z : i < j => i + 1 < j + 1
  BY <1>1
<1>3. \A i \in DOMAIN z : i + 1 # 1
  BY <1>1
<1>4. \A i \in DOMAIN s : i = 1 \/ 1 < i
  BY <1>1
<1>5. \A t : Carries(z, t) => Carries(s, t)
  BY <1>1 DEF Carries
<1>6. Carries(s, h.type) /\ (OnlyResets(s) => h.type = "RESET")
  BY <1>1 DEF Carries, OnlyResets
<1>7. Front1(s) => Front1(z)
  BY <1>1, <1>3 DEF Front1
<1>8. OnlyResets(s) => OnlyResets(z)
  BY <1>1 DEF OnlyResets
<1>9. ResetsLast(s) => ResetsLast(z)
  BY <1>1, <1>2 DEF ResetsLast
<1>10. ResetsLast(s) /\ h.type = "RESET" => OnlyResets(s)
  BY <1>1, <1>4 DEF ResetsLast, OnlyResets
<1> QED BY <1>5, <1>6, <1>7, <1>8, <1>9, <1>10 DEF z, h

\* A stream of resets carries nothing else, and an empty one nothing at all.
LEMMA Streams ==
    /\ \A s : OnlyResets(s) => \A t : Carries(s, t) => t = "RESET"
    /\ \A t : ~Carries(<<>>, t)
    /\ \A s : ~Carries(s, "OPEN") /\ ~Carries(s, "ACK") /\ ~Carries(s, "DATA") /\ s \in Seq(Message)
                 => OnlyResets(s)
<1>1. \A s : OnlyResets(s) => \A t : Carries(s, t) => t = "RESET"
  BY DEF OnlyResets, Carries
<1>2. \A t : ~Carries(<<>>, t)
  BY DEF Carries
<1>3. ASSUME NEW s \in Seq(Message), ~Carries(s, "OPEN"), ~Carries(s, "ACK"), ~Carries(s, "DATA"),
             NEW i \in DOMAIN s
      PROVE  s[i].type = "RESET"
  <2>1. s[i] \in Message
    OBVIOUS
  <2> QED BY <1>3, <2>1 DEF Carries, Message
<1> QED BY <1>1, <1>2, <1>3 DEF OnlyResets

----------------------------------------------------------------------------
(* The invariant, by peer and channel; q is the other end.                  *)

Initiates(p, c) == c \in Negotiated \/ Opener[c] = p

\* The end has its closures, and a handler is not about to open the entry.
Up(p, c) == c \in hooked[p] /\ Main(pc[p], c) \notin {"ack", "setopen"}
Acked(p, c) == c \in hooked[p] /\ Main(pc[p], c) # "ack"

\* An application that waits has channels only once the association is up, and the
\* SCTP thread of its peer has none to visit.
ThreadsInv(p) ==
    /\ fate[p] \in {"alive", "freed_lock"}
    /\ worklist[p] = {}
    /\ pc[p]["sctp"].at \in {"idle", "teardown"}
    /\ pc[p]["main"].at # "teardown"
    /\ established[p] => assoc[p] # "new"
AskedInv(p, c) ==
    /\ asked[p][c] > 0 => assoc[p] # "new"
    /\ c \in added[p] \/ Holds(mainQ[p], "add", c) => asked[p][c] > 0
    /\ sent[p][c] =< MaxSend

\* What a section of a handler finds: the closures, and the entry of its channel.
LabelInv(p, c) ==
    /\ Main(pc[p], c) \in {"new", "create", "openreq", "adopt"} => c \notin hooked[p]
    /\ Main(pc[p], c) \in {"ack", "setopen", "closedec", "closeenc"} => c \in hooked[p]
    /\ Main(pc[p], c) = "openreq" => Initiates(p, c) /\ entry[p][c] = "CONNECTING"
    /\ Main(pc[p], c) \in {"adopt", "ack"} => ~Initiates(p, c)
    /\ Main(pc[p], c) = "setopen" /\ c \notin Negotiated => ~Initiates(p, c)
    /\ Main(pc[p], c) = "adopt" => entry[p][c] # "none"
    /\ Main(pc[p], c) \in {"ack", "setopen"} => entry[p][c] = "CONNECTING"
    /\ Main(pc[p], c) \in {"closedec", "closeenc"} =>
           entry[p][c] = "CLOSING" /\ c \in closing[p]
EntryInv(p, c) ==
    /\ c \in encPad[p] => c \in hooked[p]
    /\ c \in hooked[p] => c \in added[p]
    /\ c \notin hooked[p] => entry[p][c] \in {"none", "CONNECTING"}

\* Nothing reaches an end that initiates the channel and is not there yet.
FreshInv(p, c) ==
    Initiates(p, c) /\ c \notin hooked[p] =>
        wire[p][c] = <<>> /\ (entry[p][c] # "none" => Main(pc[p], c) = "openreq")

\* The accepting end hears of the channel after the opener has its closures and sent
\* the open request, and the opener waits for the ACK.
AcceptInv(p, c) ==
    ~Initiates(p, c) =>
        /\ asked[p][c] > 0 \/ c \in offered[p] \/ Holds(mainQ[p], "requested", c) =>
               c \in hooked[Other(p)] /\ ~Carries(wire[p][c], "OPEN")
        /\ c \notin hooked[Other(p)] => wire[p][c] = <<>>
        /\ ~Acked(p, c) =>
               /\ wire[Other(p)][c] = <<>>
               /\ c \in hooked[Other(p)] => entry[Other(p)][c] = "CONNECTING"

\* What is where on a stream.
WireInv(p, c) ==
    /\ Front1(wire[p][c]) /\ ResetsLast(wire[p][c])
    /\ Carries(wire[p][c], "OPEN") => ~Initiates(p, c)
    /\ Carries(wire[p][c], "ACK") =>
           c \notin Negotiated /\ Initiates(p, c) /\ entry[p][c] = "CONNECTING"

\* On a channel that both applications agreed on nothing is sent before both ends
\* have their closures, and every entry holds its parameters.
AgreedInv(p, c) ==
    c \in Negotiated =>
        /\ Holds(mainQ[p], "send", c) \/ wire[p][c] # <<>> =>
               c \in hooked[p] /\ c \in hooked[Other(p)]
        /\ entry[p][c] # "none" => c \in matched[p]

\* A message comes from an end that is up.
SourceInv(p, c) ==
    got[p][c] # <<>> \/ Holds(mainQ[p], "incoming", c) \/ Carries(wire[p][c], "DATA") =>
        Up(Other(p), c)

\* Before anybody closes, an end's entry, pad and appsink go together.
Undisturbed(p, c) == c \in closing[p] => Holds(mainQ[p], "close", c)
Calm(p, c) ==
    /\ ~Torn(pc[p], c)
    /\ entry[p][c] # "CLOSING"
    /\ c \in sink[p] <=> c \in decPad[p]
    /\ c \in hooked[p] => entry[p][c] # "none"
    /\ c \in decPad[p] => entry[p][c] # "none"
    /\ ~Initiates(p, c) /\ entry[p][c] # "none" => c \in decPad[p]
CalmInv(p, c) ==
    Undisturbed(p, c) /\ Undisturbed(Other(p), c) =>
        Calm(p, c) /\ ~Carries(wire[p][c], "RESET")

\* A channel is closed by one end, when nothing is left to come but resets.
SettledInv(p, c) ==
    c \in closing[p] =>
        /\ CloseWhen[RoleOf(p, c)] = "drained"
        /\ c \notin closing[Other(p)]
        /\ Up(p, c) /\ Up(Other(p), c)
        /\ sent[p][c] = MaxSend /\ sent[Other(p)][c] = MaxSend
        /\ ~Holds(mainQ[Other(p)], "send", c)
        /\ OnlyResets(wire[p][c])
CloseInv(p, c) ==
    /\ Holds(mainQ[p], "close", c) => c \in closing[p]
    /\ LastClose(mainQ[p], c)

\* The closing end takes its own side down; the other end follows when it sees the
\* reset: it is not there yet, or between the two sections of sctpdec_pad_removed,
\* or done.
Gone(p, c) == entry[p][c] = "none" /\ c \notin sink[p] /\ c \notin decPad[p]
Closes(p, c) ==
    /\ ~Torn(pc[p], c) /\ ~Holds(mainQ[p], "send", c)
    /\ \/ Main(pc[p], c) = "closedec" /\ (c \in decPad[p] => c \in sink[p])
       \/ Main(pc[p], c) = "closeenc" /\ c \notin sink[p] /\ c \notin decPad[p]
       \/ Gone(p, c)
Follows(p, c) ==
    \/ Calm(p, c) /\ entry[p][c] # "none"
    \/ /\ Torn(pc[p], c) /\ entry[p][c] = "CLOSING" /\ c \notin decPad[p]
       /\ OnlyResets(wire[p][c])
    \/ ~Torn(pc[p], c) /\ Gone(p, c) /\ OnlyResets(wire[p][c])
ShutInv(p, c) == ~Undisturbed(p, c) => Closes(p, c) /\ Follows(Other(p), c)

\* The ready state and those scheduled climb to what the entry has reached.
Top(p, c) == IF c \notin hooked[p] \/ entry[p][c] = "CONNECTING" THEN 0
             ELSE IF entry[p][c] = "OPEN" THEN 1
             ELSE IF entry[p][c] = "CLOSING" THEN 2 ELSE 3
ReadyInv(p, c) == Climbs(mainQ[p], c, Rank(ready[p][c]), Top(p, c))

EndInv(p, c) ==
    /\ AskedInv(p, c) /\ LabelInv(p, c) /\ EntryInv(p, c) /\ FreshInv(p, c)
    /\ AcceptInv(p, c) /\ WireInv(p, c) /\ AgreedInv(p, c) /\ SourceInv(p, c)
    /\ CalmInv(p, c) /\ SettledInv(p, c) /\ CloseInv(p, c) /\ ShutInv(p, c)
    /\ ReadyInv(p, c)
Waits ==
    /\ \A p \in Peer : ThreadsInv(p)
    /\ \A p \in Peer, c \in Channel : EndInv(p, c)
WaitInv == ChannelInv /\ OrderInv /\ Waits

----------------------------------------------------------------------------
(* What a step leaves alone of a channel, and what it does to one.          *)

Ends(p, o) ==
    /\ p \in Peer /\ o \in Peer /\ p # o /\ Other(p) = o /\ Other(o) = p
    /\ \A q \in Peer : q = p \/ q = o

QuietThreads(p, c) ==
    /\ Main(pc'[p], c) = Main(pc[p], c)
    /\ Torn(pc'[p], c) <=> Torn(pc[p], c)
QuietQueue(p, c) ==
    /\ \A k : Holds(mainQ'[p], k, c) <=> Holds(mainQ[p], k, c)
    /\ LastClose(mainQ[p], c) => LastClose(mainQ'[p], c)
    /\ \A low, top : Climbs(mainQ[p], c, low, top) => Climbs(mainQ'[p], c, low, top)
QuietEntry(p, c) == entry'[p][c] = entry[p][c]
QuietWire(p, c) == wire'[p][c] = wire[p][c]
QuietPads(p, c) ==
    /\ c \in matched'[p] <=> c \in matched[p]
    /\ c \in sink'[p] <=> c \in sink[p]
    /\ c \in encPad'[p] <=> c \in encPad[p]
    /\ c \in decPad'[p] <=> c \in decPad[p]
QuietSession(p, c) ==
    /\ c \in added'[p] <=> c \in added[p]
    /\ c \in hooked'[p] <=> c \in hooked[p]
    /\ ready'[p][c] = ready[p][c]
QuietApp(p, c) ==
    /\ c \in offered'[p] <=> c \in offered[p]
    /\ c \in closing'[p] <=> c \in closing[p]
    /\ asked'[p][c] = asked[p][c]
    /\ sent'[p][c] = sent[p][c]
    /\ got'[p][c] = got[p][c]
    /\ assoc[p] # "new" => assoc'[p] # "new"
Quiet(p, c) ==
    /\ QuietThreads(p, c) /\ QuietQueue(p, c) /\ QuietEntry(p, c) /\ QuietWire(p, c)
    /\ QuietPads(p, c) /\ QuietSession(p, c) /\ QuietApp(p, c)

\* The main loop goes to a label for the channel; a task of it joins or leaves the
\* queue, or gives way to a ready state; a message of it is pushed or taken.
MainAt(p, c, label) ==
    /\ Main(pc'[p], c) = label
    /\ Torn(pc'[p], c) <=> Torn(pc[p], c)
Joins(p, kind, c) ==
    /\ \A k : Holds(mainQ'[p], k, c) <=> Holds(mainQ[p], k, c) \/ k = kind
    /\ LastClose(mainQ[p], c) /\ (kind \in {"send", "close"} => ~Holds(mainQ[p], "close", c))
          => LastClose(mainQ'[p], c)
    /\ kind \notin ReadyState =>
          \A low, top : Climbs(mainQ[p], c, low, top) => Climbs(mainQ'[p], c, low, top)
    /\ kind \in ReadyState =>
          \A low \in Nat, top \in Nat, more \in Nat :
             Climbs(mainQ[p], c, low, top) /\ top =< Rank(kind) /\ Rank(kind) =< more
                => Climbs(mainQ'[p], c, low, more)
Leaves(p, kind, c) ==
    /\ \A k : Holds(mainQ'[p], k, c) => Holds(mainQ[p], k, c)
    /\ \A k : Holds(mainQ[p], k, c) => Holds(mainQ'[p], k, c) \/ k = kind
    /\ Holds(mainQ[p], kind, c)
    /\ LastClose(mainQ[p], c) => LastClose(mainQ'[p], c)
    /\ \A low, top : Climbs(mainQ[p], c, low, top) => Climbs(mainQ'[p], c, low, top)
    /\ kind \in ReadyState =>
          \A low, top : Climbs(mainQ[p], c, low, top) =>
             low =< Rank(kind) /\ Climbs(mainQ'[p], c, Rank(kind), top)
Closing(p, c) ==
    /\ \A k : Holds(mainQ'[p], k, c) => Holds(mainQ[p], k, c) \/ k = "CLOSING"
    /\ \A k : Holds(mainQ[p], k, c) => Holds(mainQ'[p], k, c) \/ k = "close"
    /\ Holds(mainQ[p], "close", c)
    /\ LastClose(mainQ[p], c) =>
          /\ LastClose(mainQ'[p], c)
          /\ ~Holds(mainQ'[p], "send", c) /\ ~Holds(mainQ'[p], "close", c)
    /\ \A low \in Nat, top \in Nat :
          Climbs(mainQ[p], c, low, top) /\ top =< 2 => Climbs(mainQ'[p], c, low, 2)
Pushes(o, type, c) ==
    /\ wire'[o][c] # <<>>
    /\ \A t : Carries(wire'[o][c], t) <=> Carries(wire[o][c], t) \/ t = type
    /\ Front1(wire[o][c]) /\ (type \in {"OPEN", "ACK"} => wire[o][c] = <<>>)
          => Front1(wire'[o][c])
    /\ OnlyResets(wire[o][c]) /\ type = "RESET" => OnlyResets(wire'[o][c])
    /\ ResetsLast(wire[o][c]) /\ (type # "RESET" => ~Carries(wire[o][c], "RESET"))
          => ResetsLast(wire'[o][c])
Takes(p, type, c) ==
    /\ wire[p][c] # <<>> /\ Carries(wire[p][c], type)
    /\ \A t : Carries(wire'[p][c], t) => Carries(wire[p][c], t)
    /\ Front1(wire[p][c]) =>
          /\ Front1(wire'[p][c])
          /\ type \in {"OPEN", "ACK"} => ~Carries(wire'[p][c], "OPEN") /\ ~Carries(wire'[p][c], "ACK")
    /\ OnlyResets(wire[p][c]) => type = "RESET" /\ OnlyResets(wire'[p][c])
    /\ ResetsLast(wire[p][c]) =>
          ResetsLast(wire'[p][c]) /\ (type = "RESET" => OnlyResets(wire'[p][c]))

\* Scheduling a task.
LEMMA ScheduledJoins ==
    ASSUME TypeOK, NEW p \in Peer, NEW c \in Channel, NEW kind \in TaskKind, NEW n \in Nat,
           mainQ' = Scheduled(p, kind, c, n)
    PROVE  /\ Joins(p, kind, c)
           /\ \A q \in Peer, d \in Channel : q # p \/ d # c => QuietQueue(q, d)
<1> DEFINE e == [kind |-> kind, ch |-> c, n |-> n]
           s == mainQ[p]
           z == Append(s, e)
<1>1. e \in Task /\ e.kind = kind /\ e.ch = c
  BY DEF Task
<1>2. s \in Seq(Task) /\ mainQ'[p] = z /\ \A q \in Peer : q # p => mainQ'[q] = mainQ[q]
  BY DEF Scheduled, TypeOK, ThreadTypeOK
<1> HIDE DEF e
<1>3. /\ \A k, d : Holds(z, k, d) <=> Holds(s, k, d) \/ (k = kind /\ d = c)
      /\ \A d : LastClose(s, d) /\ (d # c \/ kind \notin {"send", "close"} \/ ~Holds(s, "close", d))
                   => LastClose(z, d)
      /\ \A d, low, top : Climbs(s, d, low, top) /\ (d # c \/ kind \notin ReadyState)
                             => Climbs(z, d, low, top)
      /\ \A low \in Nat, top \in Nat, more \in Nat :
            (Climbs(s, c, low, top) /\ kind \in ReadyState
                /\ top =< Rank(kind) /\ Rank(kind) =< more)
               => Climbs(z, c, low, more)
  <2> HIDE DEF s
  <2> QED BY <1>1, <1>2, TaskAdded
<1> HIDE DEF z
<1>4. Joins(p, kind, c)
  BY <1>2, <1>3 DEF Joins
<1>5. ASSUME NEW q \in Peer, NEW d \in Channel, q # p \/ d # c PROVE QuietQueue(q, d)
  BY <1>2, <1>3, <1>5 DEF QuietQueue
<1> QED BY <1>4, <1>5

\* Running the first task.
LEMMA PoppedLeaves ==
    ASSUME TypeOK, NEW p \in Peer, NEW c \in Channel, NEW kind, HeadTask(p, kind, c), PopTask(p)
    PROVE  /\ Leaves(p, kind, c)
           /\ \A q \in Peer, d \in Channel : q # p \/ d # c => QuietQueue(q, d)
<1> DEFINE s == mainQ[p]
           z == Tail(s)
<1>1. /\ s \in Seq(Task) /\ s # <<>> /\ Head(s).kind = kind /\ Head(s).ch = c
      /\ mainQ'[p] = z /\ \A q \in Peer : q # p => mainQ'[q] = mainQ[q]
  BY DEF HeadTask, PopTask, TypeOK, ThreadTypeOK
<1>2. /\ \A k, d : Holds(z, k, d) => Holds(s, k, d)
      /\ \A k, d : Holds(s, k, d) => Holds(z, k, d) \/ (k = kind /\ d = c)
      /\ Holds(s, kind, c)
      /\ \A d : LastClose(s, d) => LastClose(z, d)
      /\ \A d, low, top : Climbs(s, d, low, top) => Climbs(z, d, low, top)
      /\ \A low, top : Climbs(s, c, low, top) /\ kind \in ReadyState =>
                          low =< Rank(kind) /\ Climbs(z, c, Rank(kind), top)
  <2> HIDE DEF s
  <2> QED BY <1>1, TaskRun
<1> HIDE DEF z
<1>3. Leaves(p, kind, c)
  BY <1>1, <1>2 DEF Leaves
<1>4. ASSUME NEW q \in Peer, NEW d \in Channel, q # p \/ d # c PROVE QuietQueue(q, d)
  BY <1>1, <1>2, <1>4 DEF QuietQueue
<1> QED BY <1>3, <1>4

\* Running a close: CLOSING is scheduled behind what is left.
LEMMA ClosingScheduled ==
    ASSUME TypeOK, NEW p \in Peer, NEW c \in Channel, HeadTask(p, "close", c),
           mainQ' = [mainQ EXCEPT ![p] = Append(Tail(@), [kind |-> "CLOSING", ch |-> c, n |-> 0])]
    PROVE  /\ Closing(p, c)
           /\ \A q \in Peer, d \in Channel : q # p \/ d # c => QuietQueue(q, d)
<1> DEFINE e == [kind |-> "CLOSING", ch |-> c, n |-> 0]
           s == mainQ[p]
           y == Tail(s)
           z == Append(y, e)
<1>1. e \in Task /\ e.kind = "CLOSING" /\ e.ch = c
  BY DEF Task, TaskKind, ReadyState
<1>2. /\ s \in Seq(Task) /\ s # <<>> /\ Head(s).kind = "close" /\ Head(s).ch = c
      /\ mainQ'[p] = z /\ \A q \in Peer : q # p => mainQ'[q] = mainQ[q]
  BY DEF HeadTask, TypeOK, ThreadTypeOK
<1> HIDE DEF e
<1>3. /\ y \in Seq(Task)
      /\ \A k, d : Holds(y, k, d) => Holds(s, k, d)
      /\ \A k, d : Holds(s, k, d) => Holds(y, k, d) \/ (k = "close" /\ d = c)
      /\ Holds(s, "close", c)
      /\ \A d : LastClose(s, d) => LastClose(y, d)
      /\ LastClose(s, c) => ~Holds(y, "send", c) /\ ~Holds(y, "close", c)
      /\ \A d, low, top : Climbs(s, d, low, top) => Climbs(y, d, low, top)
  <2> HIDE DEF s
  <2> QED BY <1>2, TaskRun
<1> HIDE DEF y
<1>4. "CLOSING" \in ReadyState /\ Rank("CLOSING") = 2
  BY Ranks DEF ReadyState
<1>5. /\ \A k, d : Holds(z, k, d) <=> Holds(y, k, d) \/ (k = "CLOSING" /\ d = c)
      /\ \A d : LastClose(y, d) => LastClose(z, d)
      /\ \A d, low, top : Climbs(y, d, low, top) /\ d # c => Climbs(z, d, low, top)
      /\ \A low \in Nat, top \in Nat : Climbs(y, c, low, top) /\ top =< 2 => Climbs(z, c, low, 2)
  BY <1>1, <1>3, <1>4, TaskAdded
<1> HIDE DEF z
<1>6. Closing(p, c)
  BY <1>2, <1>3, <1>5 DEF Closing
<1>7. ASSUME NEW q \in Peer, NEW d \in Channel, q # p \/ d # c PROVE QuietQueue(q, d)
  BY <1>2, <1>3, <1>5, <1>7 DEF QuietQueue
<1> QED BY <1>6, <1>7

\* Pushing a message to the other end.
LEMMA PushedMessage ==
    ASSUME TypeOK, NEW p, NEW o, Ends(p, o), NEW c \in Channel,
           NEW type \in {"OPEN", "ACK", "DATA", "RESET"}, NEW n \in Nat,
           wire' = Pushed(p, c, type, n)
    PROVE  /\ Pushes(o, type, c)
           /\ \A q \in Peer, d \in Channel : q # o \/ d # c => QuietWire(q, d)
<1> DEFINE m == [type |-> type, n |-> n]
           s == wire[o][c]
           z == Append(s, m)
<1>1. m \in Message /\ m.type = type
  BY DEF Message
<1>2. /\ s \in Seq(Message) /\ wire'[o][c] = z
      /\ \A q \in Peer, d \in Channel : q # o \/ d # c => wire'[q][d] = wire[q][d]
  BY DEF Pushed, Ends, TypeOK, SctpTypeOK
<1> HIDE DEF m
<1>3. /\ \A t : Carries(z, t) <=> Carries(s, t) \/ t = type
      /\ z # <<>>
      /\ Front1(s) /\ (type \notin {"OPEN", "ACK"} \/ s = <<>>) => Front1(z)
      /\ OnlyResets(s) /\ type = "RESET" => OnlyResets(z)
      /\ ResetsLast(s) /\ (type = "RESET" \/ ~Carries(s, "RESET")) => ResetsLast(z)
  <2> HIDE DEF s
  <2> QED BY <1>1, <1>2, MessageAdded
<1> HIDE DEF z
<1>4. Pushes(o, type, c)
  BY <1>2, <1>3 DEF Pushes
<1> QED BY <1>2, <1>4 DEF QuietWire

\* Handing a message over.
LEMMA TakenMessage ==
    ASSUME TypeOK, NEW p \in Peer, NEW c \in Channel, NEW i \in Arriving(p, c),
           NEW type, Receive(p, c, i, type)
    PROVE  /\ Takes(p, type, c) /\ type # "RESET"
           /\ \A q \in Peer, d \in Channel : q # p \/ d # c => QuietWire(q, d)
<1> DEFINE s == wire[p][c]
           z == RemoveAt(s, i)
<1>1. /\ s \in Seq(Message) /\ i \in DOMAIN s /\ wire'[p][c] = z
      /\ \A q \in Peer, d \in Channel : q # p \/ d # c => wire'[q][d] = wire[q][d]
  BY ReceiveTakes
<1>2. s[i].type = type /\ type # "RESET"
  BY DEF Receive, Arriving
<1>3. /\ \A t : Carries(z, t) => Carries(s, t)
      /\ Carries(s, type) /\ s # <<>>
      /\ OnlyResets(s) => type = "RESET"
      /\ Front1(s) => Front1(z)
      /\ Front1(s) /\ type \in {"OPEN", "ACK"} => ~Carries(z, "OPEN") /\ ~Carries(z, "ACK")
      /\ OnlyResets(s) => OnlyResets(z)
      /\ ResetsLast(s) => ResetsLast(z)
  <2> HIDE DEF s
  <2> QED BY <1>1, <1>2, MessageTaken
<1> HIDE DEF z
<1>4. Takes(p, type, c)
  BY <1>1, <1>2, <1>3 DEF Takes
<1> QED BY <1>1, <1>2, <1>4 DEF QuietWire

\* Seeing a reset.
LEMMA TakenReset ==
    ASSUME TypeOK, NEW p \in Peer, NEW c \in Channel, wire[p][c] # <<>>,
           Head(wire[p][c]).type = "RESET", wire' = [wire EXCEPT ![p][c] = Tail(@)]
    PROVE  /\ Takes(p, "RESET", c)
           /\ \A q \in Peer, d \in Channel : q # p \/ d # c => QuietWire(q, d)
<1> DEFINE s == wire[p][c]
           z == Tail(s)
<1>1. /\ s \in Seq(Message) /\ s # <<>> /\ wire'[p][c] = z /\ Head(s).type = "RESET"
      /\ \A q \in Peer, d \in Channel : q # p \/ d # c => wire'[q][d] = wire[q][d]
  BY DEF TypeOK, SctpTypeOK
<1>2. /\ \A t : Carries(z, t) => Carries(s, t)
      /\ Carries(s, "RESET")
      /\ Front1(s) => Front1(z)
      /\ OnlyResets(s) => OnlyResets(z)
      /\ ResetsLast(s) => ResetsLast(z)
      /\ ResetsLast(s) => OnlyResets(z)
  <2> HIDE DEF s
  <2> QED BY <1>1, ResetTaken
<1> HIDE DEF z
<1>3. Takes(p, "RESET", c)
  BY <1>1, <1>2 DEF Takes
<1> QED BY <1>1, <1>3 DEF QuietWire

\* A main loop that was idle, or in a section for the channel, goes to a label of it.
LEMMA GotoMoves ==
    ASSUME TypeOK, NEW p \in Peer, NEW c \in Channel, NEW label \in Label,
           pc[p]["main"].at = "idle" \/ pc[p]["main"].ch = c,
           Goto(p, "main", label, c) \/ (label = "idle" /\ Return(p, "main"))
    PROVE  /\ MainAt(p, c, label)
           /\ \A q \in Peer, d \in Channel : q # p \/ d # c => QuietThreads(q, d)
           /\ \A q \in Peer : /\ pc'[q]["sctp"].at = pc[q]["sctp"].at
                              /\ pc'[q]["main"].at \in {pc[q]["main"].at, label}
<1>1. pc \in [Peer -> [Thread -> [at : Label, ch : Channel \cup {NoChannel}]]]
  BY DEF TypeOK, ThreadTypeOK
<1>2. PICK d \in Channel \cup {NoChannel} :
         /\ pc' = [pc EXCEPT ![p]["main"] = [at |-> label, ch |-> d]]
         /\ d = c \/ (label = "idle" /\ d = NoChannel)
  BY DEF Goto, Return
<1>3. /\ \A q \in Peer : q # p => pc'[q] = pc[q]
      /\ pc'[p]["main"] = [at |-> label, ch |-> d]
      /\ pc'[p]["sctp"] = pc[p]["sctp"]
  BY <1>1, <1>2 DEF Thread
<1>4. ASSUME NEW e \in Channel
      PROVE  Main(pc'[p], e) = IF e = c THEN label ELSE Main(pc[p], e)
  BY <1>2, <1>3, ChannelAssumption DEF Main
<1>5. ASSUME NEW q \in Peer, NEW e \in Channel PROVE Torn(pc'[q], e) <=> Torn(pc[q], e)
  BY <1>3 DEF Torn
<1> QED BY <1>3, <1>4, <1>5 DEF MainAt, QuietThreads

\* The SCTP thread does, from idle or from a section for the channel.
LEMMA SctpMoves ==
    ASSUME TypeOK, NEW p \in Peer, NEW c \in Channel, NEW label \in {"idle", "teardown"},
           pc[p]["sctp"].at = "idle" \/ pc[p]["sctp"].ch = c,
           IF label = "idle" THEN Return(p, "sctp") ELSE Goto(p, "sctp", label, c)
    PROVE  /\ Main(pc'[p], c) = Main(pc[p], c) /\ (Torn(pc'[p], c) <=> label = "teardown")
           /\ \A q \in Peer, d \in Channel : q # p \/ d # c => QuietThreads(q, d)
           /\ \A q \in Peer : /\ pc'[q]["sctp"].at \in {pc[q]["sctp"].at, label}
                              /\ pc'[q]["main"].at = pc[q]["main"].at
<1>1. pc \in [Peer -> [Thread -> [at : Label, ch : Channel \cup {NoChannel}]]]
  BY DEF TypeOK, ThreadTypeOK
<1>2. PICK d \in Channel \cup {NoChannel} :
         /\ pc' = [pc EXCEPT ![p]["sctp"] = [at |-> label, ch |-> d]]
         /\ d = IF label = "idle" THEN NoChannel ELSE c
  BY DEF Goto, Return
<1>3. /\ \A q \in Peer : q # p => pc'[q] = pc[q]
      /\ pc'[p]["sctp"] = [at |-> label, ch |-> d]
      /\ pc'[p]["main"] = pc[p]["main"]
  BY <1>1, <1>2 DEF Thread
<1>4. ASSUME NEW q \in Peer, NEW e \in Channel PROVE Main(pc'[q], e) = Main(pc[q], e)
  BY <1>3 DEF Main
<1>5. ASSUME NEW e \in Channel
      PROVE  Torn(pc'[p], e) <=> IF e = c THEN label = "teardown" ELSE Torn(pc[p], e)
  BY <1>2, <1>3, ChannelAssumption DEF Torn
<1> QED BY <1>3, <1>4, <1>5 DEF QuietThreads, Torn

\* The other end.
LEMMA TwoEnds == ASSUME NEW p \in Peer PROVE Ends(p, Other(p))
  BY OtherOther DEF Ends

\* A channel left alone.
LEMMA QuietEnd ==
    ASSUME NEW p, NEW o, Ends(p, o), NEW c \in Channel, EndInv(p, c),
           Quiet(p, c), Quiet(o, c)
    PROVE  EndInv(p, c)'
<1>1. /\ Other(p) = o /\ Other(p)' = o
  BY DEF Ends
<1>2. (Initiates(p, c)' <=> Initiates(p, c)) /\ (RoleOf(p, c)' = RoleOf(p, c))
  BY DEF Initiates, RoleOf
<1>3. /\ AskedInv(p, c)' /\ LabelInv(p, c)' /\ EntryInv(p, c)' /\ FreshInv(p, c)'
  BY <1>1 DEF EndInv, AskedInv, LabelInv, EntryInv, FreshInv, Initiates,
              Quiet, QuietThreads, QuietQueue, QuietEntry, QuietWire, QuietPads,
              QuietSession, QuietApp
<1>4. AcceptInv(p, c)' /\ WireInv(p, c)' /\ AgreedInv(p, c)' /\ SourceInv(p, c)'
  BY <1>1 DEF EndInv, AcceptInv, WireInv, AgreedInv, SourceInv, Initiates, Up, Acked,
              Quiet, QuietThreads, QuietQueue, QuietEntry, QuietWire, QuietPads,
              QuietSession, QuietApp
<1>5. CalmInv(p, c)' /\ SettledInv(p, c)' /\ CloseInv(p, c)'
  BY <1>1, <1>2 DEF EndInv, CalmInv, SettledInv, CloseInv, Undisturbed, Calm, Up, Initiates,
              Quiet, QuietThreads, QuietQueue, QuietEntry, QuietWire, QuietPads,
              QuietSession, QuietApp
<1>6. ShutInv(p, c)'
  BY <1>1, <1>2 DEF EndInv, ShutInv, Undisturbed, Closes, Follows, Gone, Calm, Up, Initiates,
              Quiet, QuietThreads, QuietQueue, QuietEntry, QuietWire, QuietPads,
              QuietSession, QuietApp
<1>7. ReadyInv(p, c)'
  BY <1>1, <1>2 DEF EndInv, ReadyInv, Top,
              Quiet, QuietThreads, QuietQueue, QuietEntry, QuietWire, QuietPads,
              QuietSession, QuietApp
<1> QED BY <1>3, <1>4, <1>5, <1>6, <1>7 DEF EndInv

\* A step at one channel.
LEMMA OneChannel ==
    ASSUME NEW p, NEW o, Ends(p, o), NEW c \in Channel,
           \A q \in Peer, d \in Channel : EndInv(q, d),
           \A q \in Peer, d \in Channel : d # c => Quiet(q, d),
           EndInv(p, c)', EndInv(o, c)'
    PROVE  \A q \in Peer, d \in Channel : EndInv(q, d)'
<1> SUFFICES ASSUME NEW q \in Peer, NEW d \in Channel PROVE EndInv(q, d)'
  OBVIOUS
<1>1. CASE d = c
  BY <1>1 DEF Ends
<1>2. CASE d # c
  <2>1. Ends(q, Other(q)) /\ Other(q) \in Peer
    BY TwoEnds DEF Ends
  <2> QED BY <1>2, <2>1, QuietEnd
<1> QED BY <1>1, <1>2

----------------------------------------------------------------------------
(* Every action keeps the invariant.  o is the other end of the channel.    *)

\* What every step finds at the two ends of its channel.
Scene(p, o, c) ==
    /\ EndInv(p, c) /\ EndInv(o, c)
    /\ p # o /\ Other(p) = o /\ Other(o) = p /\ Other(p)' = o /\ Other(o)' = p
    /\ RoleOf(p, c)' = RoleOf(p, c) /\ RoleOf(o, c)' = RoleOf(o, c)
    /\ Opener[c] \in {p, o}
    /\ entry[p][c] \in EntryState /\ entry[o][c] \in EntryState
    /\ asked[p][c] \in Nat /\ sent[p][c] \in Nat /\ MaxSend \in Nat
    /\ Rank(ready[p][c]) \in Nat /\ Rank(ready[o][c]) \in Nat

\* It does.
LEMMA SceneSet ==
    ASSUME WaitInv, NEW p, NEW o, Ends(p, o), NEW c \in Channel
    PROVE  /\ TypeOK /\ p \in Peer /\ o \in Peer /\ Scene(p, o, c)
           /\ \A q \in Peer : ThreadsInv(q)
           /\ \A q \in Peer, d \in Channel : EndInv(q, d)
<1>1. TypeOK /\ p \in Peer /\ o \in Peer /\ \A q \in Peer : q = p \/ q = o
  BY DEF WaitInv, ChannelInv, Ends
<1>2. p # o /\ Other(p) = o /\ Other(o) = p /\ Other(p)' = o /\ Other(o)' = p
  BY DEF Ends
<1>3. RoleOf(p, c)' = RoleOf(p, c) /\ RoleOf(o, c)' = RoleOf(o, c)
  BY DEF RoleOf
<1>4. Opener[c] \in {p, o} /\ MaxSend \in Nat
  BY <1>1, ChannelAssumption, BoundAssumption
<1>5. /\ entry[p][c] \in EntryState /\ entry[o][c] \in EntryState
      /\ asked[p][c] \in Nat /\ sent[p][c] \in Nat
  BY <1>1 DEF TypeOK, AgentTypeOK, AppTypeOK
<1>6. Rank(ready[p][c]) \in Nat /\ Rank(ready[o][c]) \in Nat
  BY <1>1, Ranks DEF TypeOK, SessionTypeOK
<1>7. (\A q \in Peer : ThreadsInv(q)) /\ (\A q \in Peer, d \in Channel : EndInv(q, d))
  BY DEF WaitInv, Waits
<1> QED BY <1>1, <1>2, <1>3, <1>4, <1>5, <1>6, <1>7 DEF Scene

\* An end whose application sees OPEN is up.
LEMMA OpenIsUp ==
    ASSUME NEW p, NEW c, EndInv(p, c), ready[p][c] = "OPEN"
    PROVE  c \in hooked[p] /\ entry[p][c] # "CONNECTING" /\ Up(p, c)
<1>1. 1 =< Top(p, c)
  BY Ranks DEF EndInv, ReadyInv, Climbs
<1>2. c \in hooked[p] /\ entry[p][c] # "CONNECTING"
  BY <1>1 DEF Top
<1> QED BY <1>2 DEF EndInv, LabelInv, Up

\* More numbers than values: two are the same.
LEMMA MoreThan ==
    ASSUME NEW S, NEW T, NEW f \in [S -> T], IsFiniteSet(S), IsFiniteSet(T),
           Cardinality(T) < Cardinality(S), \A i, j \in S : i # j => f[i] # f[j]
    PROVE  FALSE
<1>1. \E i, j \in S : i # j /\ f[i] = f[j]
  BY FS_PigeonHole
<1> QED BY <1>1

\* n messages that differ and are numbered from 1 to n are all there are.
LEMMA AllThrough ==
    ASSUME NEW c, NEW s \in Seq(Nat), NEW n \in Nat, GotRises(c, s), Bounded(Got(s), n),
           NEW size \in Nat, Len(s) = size, n =< size
    PROVE  n = size /\ Got(s) = 1 .. n
<1>1. Got(s) \subseteq 1 .. n
  BY DEF Bounded, Got
<1>2. \A i, j \in 1 .. size : i # j => s[i] # s[j]
  <2>1. DOMAIN s = 1 .. size
    OBVIOUS
  <2> QED BY <2>1, RisesApart
<1>3. \A i \in 1 .. size : s[i] \in Got(s)
  BY DEF Got
<1>4. /\ IsFiniteSet(1 .. size) /\ Cardinality(1 .. size) = size
      /\ IsFiniteSet(1 .. n) /\ Cardinality(1 .. n) = n
  BY FS_Interval
<1> DEFINE S == 1 .. size
           f == [i \in S |-> s[i]]
<1>5. \A i, j \in S : i # j => f[i] # f[j]
  BY <1>2
<1>6. ASSUME NEW T, \A i \in S : s[i] \in T, IsFiniteSet(T), Cardinality(T) < size PROVE FALSE
  <2>1. f \in [S -> T]
    BY <1>6
  <2>2. IsFiniteSet(S) /\ Cardinality(T) < Cardinality(S)
    BY <1>4, <1>6
  <2> HIDE DEF S, f
  <2> QED BY <1>5, <1>6, <2>1, <2>2, MoreThan
<1> HIDE DEF f
<1>7. n = size
  <2> SUFFICES ASSUME n < size PROVE FALSE
    OBVIOUS
  <2>1. \A i \in S : s[i] \in 1 .. n
    BY <1>1, <1>3
  <2> QED BY <1>4, <1>6, <2>1
<1>8. ASSUME NEW m \in 1 .. n, m \notin Got(s) PROVE FALSE
  <2> DEFINE T == (1 .. n) \ {m}
  <2>1. IsFiniteSet(T) /\ Cardinality(T) = n - 1
    BY <1>4, FS_RemoveElement
  <2>2. \A i \in S : s[i] \in T
    BY <1>1, <1>3, <1>8
  <2>3. Cardinality(T) < size
    BY <1>7, <2>1
  <2> HIDE DEF T, S
  <2> QED BY <1>6, <2>1, <2>2, <2>3
<1>9. 1 .. n \subseteq Got(s)
  BY <1>8
<1> QED BY <1>1, <1>7, <1>9

----------------------------------------------------------------------------
(* One lemma for each action of a patient application and of its peer.     *)

\* What the peers of applications that wait never do: run a close without closures, or
\* handle a channel on the SCTP thread when the association comes up.
LEMMA NeverDone ==
    ASSUME WaitInv, NEW p \in Peer, NEW c \in Channel
    PROVE  ~RunCloseUnhooked(p, c) /\ ~VisitNext(p, c) /\ ~OnNewDataChannel(p, "sctp", c)
<1>1. TypeOK /\ ThreadsInv(p) /\ EndInv(p, c)
  BY DEF WaitInv, Waits, ChannelInv
<1>2. ~RunCloseUnhooked(p, c)
  <2> SUFFICES ASSUME RunCloseUnhooked(p, c) PROVE FALSE
    OBVIOUS
  <2>1. Holds(mainQ[p], "close", c)
    BY <1>1, TaskRun DEF RunCloseUnhooked, HeadTask, TypeOK, ThreadTypeOK
  <2> QED BY <1>1, <2>1 DEF RunCloseUnhooked, EndInv, CloseInv, SettledInv, Up
<1>3. ~VisitNext(p, c)
  BY <1>1 DEF ThreadsInv, VisitNext
<1>4. ~OnNewDataChannel(p, "sctp", c)
  <2>1. ASSUME NEW label, At(p, "sctp", label, c) PROVE label \in {"idle", "teardown"}
    <3>1. pc[p]["sctp"].at = label
      BY <2>1 DEF At
    <3> QED BY <1>1, <3>1 DEF ThreadsInv
  <2>2. /\ ~At(p, "sctp", "new", c) /\ ~At(p, "sctp", "create", c) /\ ~At(p, "sctp", "openreq", c)
        /\ ~At(p, "sctp", "adopt", c) /\ ~At(p, "sctp", "ack", c) /\ ~At(p, "sctp", "setopen", c)
    BY <2>1
  <2>3. ~LookUpEntry(p, "sctp", c)
    BY <2>2 DEF LookUpEntry
  <2>4. ~CreateEntry(p, "sctp", c)
    BY <2>2 DEF CreateEntry
  <2>5. ~OpenRequest(p, "sctp", c) /\ ~AdoptEntry(p, "sctp", c)
    BY <2>2 DEF OpenRequest, AdoptEntry
  <2>6. ~CompleteAndAck(p, "sctp", c) /\ ~SetOpen(p, "sctp", c)
    BY <2>2 DEF CompleteAndAck, SetOpen
  <2> QED BY <2>3, <2>4, <2>5, <2>6 DEF OnNewDataChannel
<1> QED BY <1>2, <1>3, <1>4

\* The association coming up or going down touches no channel, since none was added
\* before; nor does a step that leaves everything alone.
LEMMA Wait_Association ==
    ASSUME WaitInv,
           (\E p \in Peer : AssociationUp(p) \/ AssociationDown(p)) \/ UNCHANGED vars
    PROVE  Waits'
<1>1. /\ TypeOK /\ \A q \in Peer : ThreadsInv(q)
      /\ \A q \in Peer, d \in Channel : EndInv(q, d)
  BY DEF WaitInv, Waits, ChannelInv
<1>2. /\ UNCHANGED <<added, hooked, ready, entry, matched, sink, encPad, decPad, wire, offered,
                     asked, sent, got, closing, mainQ, pc, fate>>
      /\ \A q \in Peer : assoc[q] # "new" => assoc'[q] # "new"
  BY <1>1 DEF AssociationUp, AssociationDown, vars, sessionVars, agentVars, sctpVars, appVars,
              TypeOK, SctpTypeOK
<1>3. ASSUME NEW q \in Peer PROVE ThreadsInv(q)'
  <2>1. CASE \E p \in Peer : AssociationUp(p)
    <3>1. PICK p \in Peer : AssociationUp(p)
      BY <2>1
    <3>2. added[p] = {}
      <4>1. \A d \in Channel : d \notin added[p]
        BY <1>1, <3>1 DEF AssociationUp, EndInv, AskedInv
      <4>2. added[p] \subseteq Channel
        BY <1>1 DEF TypeOK, SessionTypeOK
      <4> QED BY <4>1, <4>2
    <3> QED BY <1>1, <1>2, <3>1, <3>2 DEF AssociationUp, ThreadsInv, TypeOK, AgentTypeOK, SctpTypeOK
  <2>2. CASE \E p \in Peer : AssociationDown(p)
    BY <1>1, <1>2, <2>2 DEF AssociationDown, ThreadsInv, TypeOK, AgentTypeOK, SctpTypeOK
  <2>3. CASE UNCHANGED vars
    BY <1>1, <2>3 DEF vars, agentVars, sctpVars, ThreadsInv
  <2> QED BY <2>1, <2>2, <2>3
<1>4. ASSUME NEW q \in Peer, NEW d \in Channel PROVE Quiet(q, d)
  BY <1>2 DEF Quiet, QuietThreads, QuietQueue, QuietEntry, QuietWire, QuietPads, QuietSession, QuietApp
<1>5. ASSUME NEW q \in Peer, NEW d \in Channel PROVE EndInv(q, d)'
  <2>1. Ends(q, Other(q)) /\ Other(q) \in Peer
    BY TwoEnds DEF Ends
  <2> QED BY <1>1, <1>4, <2>1, QuietEnd
<1> QED BY <1>3, <1>5 DEF Waits

\* A patient application adds a channel once the association is up: one it initiates,
\* or one it was offered, whose opener has sent the request.
LEMMA Wait_AppAdd ==
    ASSUME Patient, WaitInv, NEW p, NEW o, Ends(p, o), NEW c \in Channel,
           AppAdd(p, c)
    PROVE  Waits'
<1>1. /\ TypeOK /\ p \in Peer /\ o \in Peer /\ Scene(p, o, c)
      /\ \A q \in Peer : ThreadsInv(q)
      /\ \A q \in Peer, d \in Channel : EndInv(q, d)
  BY SceneSet
<1>2. assoc[p] # "new" /\ (Opener[c] = p \/ c \in Negotiated \/ c \in offered[p])
  BY <1>1 DEF AppAdd, Patient, ThreadsInv
<1>3. UNCHANGED <<added, hooked, ready, established, worklist, entry, matched, sink,
                 encPad, decPad, wire, assoc, offered, sent, got, closing, pc,
                 fate>>
  BY DEF AppAdd, sessionVars, agentVars, sctpVars
<1>4. /\ Joins(p, "add", c)
      /\ \A q \in Peer, d \in Channel : q # p \/ d # c => QuietQueue(q, d)
  BY <1>1, ScheduledJoins DEF AppAdd, TaskKind
<1>5. /\ asked'[p][c] = asked[p][c] + 1
      /\ \A q \in Peer, d \in Channel : q # p \/ d # c => asked'[q][d] = asked[q][d]
  BY <1>1 DEF AppAdd, TypeOK, AppTypeOK
<1>6. \A q \in Peer, d \in Channel : q # p \/ d # c => Quiet(q, d)
  BY <1>3, <1>4, <1>5 DEF Quiet, QuietThreads, QuietEntry, QuietWire, QuietPads,
                          QuietSession, QuietApp
<1>7. Quiet(o, c) /\ \A q \in Peer, d \in Channel : d # c => Quiet(q, d)
  BY <1>1, <1>6 DEF Scene
<1>8. \A q \in Peer : ThreadsInv(q)'
  BY <1>1, <1>3 DEF ThreadsInv
<1>9. EndInv(p, c)' /\ EndInv(o, c)'
  <2>1. /\ LabelInv(p, c)' /\ LabelInv(o, c)' /\ EntryInv(p, c)' /\ EntryInv(o, c)'
        /\ FreshInv(p, c)' /\ FreshInv(o, c)' /\ WireInv(p, c)' /\ WireInv(o, c)'
    BY <1>1, <1>3 DEF Scene, EndInv, LabelInv, EntryInv, FreshInv, WireInv, Initiates
  <2>2. AskedInv(p, c)' /\ AskedInv(o, c)'
    BY <1>1, <1>2, <1>3, <1>4, <1>5, <1>7 DEF Scene, EndInv, AskedInv, Quiet, QuietQueue,
                                              QuietApp, Joins
  <2>3. AcceptInv(p, c)' /\ AcceptInv(o, c)'
    BY <1>1, <1>2, <1>3, <1>4, <1>5, <1>7 DEF Scene, EndInv, AcceptInv, Initiates, Acked,
                                              Quiet, QuietQueue, QuietApp, Joins
  <2>4. AgreedInv(p, c)' /\ AgreedInv(o, c)'
    BY <1>1, <1>3, <1>4, <1>7 DEF Scene, EndInv, AgreedInv, Quiet, QuietQueue, Joins
  <2>5. SourceInv(p, c)' /\ SourceInv(o, c)'
    BY <1>1, <1>3, <1>4, <1>7 DEF Scene, EndInv, SourceInv, Up, Quiet, QuietQueue, Joins
  <2>6. CalmInv(p, c)' /\ CalmInv(o, c)'
    BY <1>1, <1>3, <1>4, <1>7 DEF Scene, EndInv, CalmInv, Undisturbed, Calm, Initiates,
                                  Quiet, QuietQueue, Joins
  <2>7. SettledInv(p, c)' /\ SettledInv(o, c)'
    BY <1>1, <1>3, <1>4, <1>7 DEF Scene, EndInv, SettledInv, Up, Quiet, QuietQueue, Joins
  <2>8. CloseInv(p, c)' /\ CloseInv(o, c)'
    BY <1>1, <1>3, <1>4, <1>7 DEF Scene, EndInv, CloseInv, Quiet, QuietQueue, Joins
  <2>9. ShutInv(p, c)' /\ ShutInv(o, c)'
    BY <1>1, <1>3, <1>4, <1>7 DEF Scene, EndInv, ShutInv, Undisturbed, CalmInv, Closes,
                                  Follows, Gone, Calm, Initiates, Quiet, QuietQueue, Joins
  <2>10. ReadyInv(p, c)' /\ ReadyInv(o, c)'
    BY <1>1, <1>3, <1>4, <1>7 DEF Scene, EndInv, ReadyInv, Top, Quiet, QuietQueue, Joins,
                                  ReadyState
  <2> QED BY <2>1, <2>2, <2>3, <2>4, <2>5, <2>6, <2>7, <2>8, <2>9, <2>10 DEF EndInv
<1>10. \A q \in Peer, d \in Channel : EndInv(q, d)'
  BY <1>1, <1>7, <1>9, OneChannel
<1> QED BY <1>8, <1>10 DEF Waits

\* The main loop takes a new channel to on_new_datachannel.
LEMMA Wait_RunAdd ==
    ASSUME WaitInv, NEW p, NEW o, Ends(p, o), NEW c \in Channel,
           RunAdd(p, c)
    PROVE  Waits'
<1>1. /\ TypeOK /\ p \in Peer /\ o \in Peer /\ Scene(p, o, c)
      /\ \A q \in Peer : ThreadsInv(q)
      /\ \A q \in Peer, d \in Channel : EndInv(q, d)
  BY SceneSet
<1>2. Main(pc[p], c) = "idle" /\ pc[p]["main"].at = "idle"
  BY DEF RunAdd, HeadTask, Idle, Main
<1>3. UNCHANGED <<hooked, ready, established, worklist, entry, matched, sink, encPad,
                 decPad, wire, assoc, offered, asked, sent, got, closing, fate>>
  BY DEF RunAdd, agentVars, sctpVars, appVars
<1>4. /\ Leaves(p, "add", c)
      /\ \A q \in Peer, d \in Channel : q # p \/ d # c => QuietQueue(q, d)
  BY <1>1, PoppedLeaves DEF RunAdd
<1>5. \/ UNCHANGED <<added, pc>>
      \/ /\ c \notin added[p] /\ c \in added'[p] /\ MainAt(p, c, "new")
         /\ \A q \in Peer, d \in Channel : q # p \/ d # c =>
               QuietThreads(q, d) /\ (d \in added'[q] <=> d \in added[q])
         /\ \A q \in Peer : /\ pc'[q]["sctp"].at = pc[q]["sctp"].at
                            /\ pc'[q]["main"].at \in {pc[q]["main"].at, "new"}
  BY <1>1, <1>2, GotoMoves DEF RunAdd, TypeOK, SessionTypeOK, Label
<1>6. \A q \in Peer, d \in Channel : q # p \/ d # c => Quiet(q, d)
  BY <1>3, <1>4, <1>5 DEF Quiet, QuietThreads, QuietEntry, QuietWire, QuietPads,
                          QuietSession, QuietApp
<1>7. Quiet(o, c) /\ \A q \in Peer, d \in Channel : d # c => Quiet(q, d)
  BY <1>1, <1>6 DEF Scene
<1>8. \A q \in Peer : ThreadsInv(q)'
  BY <1>1, <1>3, <1>5 DEF ThreadsInv
<1>9. EndInv(p, c)' /\ EndInv(o, c)'
  <2>1. WireInv(p, c)' /\ WireInv(o, c)'
    BY <1>1, <1>3 DEF Scene, EndInv, WireInv, Initiates
  <2>2. AskedInv(p, c)' /\ AskedInv(o, c)'
    BY <1>1, <1>3, <1>4, <1>5, <1>7 DEF Scene, EndInv, AskedInv, Quiet, QuietQueue,
                                        QuietSession, Leaves, MainAt
  <2>3. LabelInv(p, c)' /\ LabelInv(o, c)'
    BY <1>1, <1>3, <1>5, <1>7 DEF Scene, EndInv, LabelInv, Initiates, EntryInv, Quiet,
                                  QuietThreads, MainAt
  <2>4. EntryInv(p, c)' /\ EntryInv(o, c)'
    BY <1>1, <1>3, <1>5, <1>7 DEF Scene, EndInv, EntryInv, Quiet, QuietSession, MainAt
  <2>5. FreshInv(p, c)' /\ FreshInv(o, c)'
    BY <1>1, <1>2, <1>3, <1>5, <1>7 DEF Scene, EndInv, FreshInv, Initiates, Quiet,
                                        QuietThreads, MainAt
  <2>6. AcceptInv(p, c)' /\ AcceptInv(o, c)'
    BY <1>1, <1>3, <1>4, <1>5, <1>7 DEF Scene, EndInv, AcceptInv, Initiates, Acked, Quiet,
                                        QuietThreads, QuietQueue, Leaves, MainAt
  <2>7. AgreedInv(p, c)' /\ AgreedInv(o, c)'
    BY <1>1, <1>3, <1>4, <1>7 DEF Scene, EndInv, AgreedInv, Quiet, QuietQueue, Leaves
  <2>8. SourceInv(p, c)' /\ SourceInv(o, c)'
    BY <1>1, <1>3, <1>4, <1>5, <1>7 DEF Scene, EndInv, SourceInv, Up, Quiet, QuietThreads,
                                        QuietQueue, Leaves, MainAt
  <2>9. CalmInv(p, c)' /\ CalmInv(o, c)'
    BY <1>1, <1>3, <1>4, <1>5, <1>7 DEF Scene, EndInv, CalmInv, Undisturbed, Calm,
                                        Initiates, Quiet, QuietThreads, QuietQueue, Leaves,
                                        MainAt
  <2>10. SettledInv(p, c)' /\ SettledInv(o, c)'
    BY <1>1, <1>3, <1>4, <1>5, <1>7 DEF Scene, EndInv, SettledInv, Up, Quiet, QuietThreads,
                                        QuietQueue, Leaves, MainAt
  <2>11. CloseInv(p, c)' /\ CloseInv(o, c)'
    BY <1>1, <1>3, <1>4, <1>7 DEF Scene, EndInv, CloseInv, Quiet, QuietQueue, Leaves
  <2>12. ShutInv(p, c)' /\ ShutInv(o, c)'
    BY <1>1, <1>2, <1>3, <1>4, <1>5, <1>7 DEF Scene, EndInv, ShutInv, Undisturbed, CalmInv,
                                              Closes, Follows, Gone, Calm, Initiates, Quiet,
                                              QuietThreads, QuietQueue, Leaves, MainAt
  <2>13. ReadyInv(p, c)' /\ ReadyInv(o, c)'
    BY <1>1, <1>3, <1>4, <1>7 DEF Scene, EndInv, ReadyInv, Top, Quiet, QuietQueue, Leaves
  <2> QED BY <2>1, <2>2, <2>3, <2>4, <2>5, <2>6, <2>7, <2>8, <2>9, <2>10, <2>11, <2>12,
             <2>13 DEF EndInv
<1>10. \A q \in Peer, d \in Channel : EndInv(q, d)'
  BY <1>1, <1>7, <1>9, OneChannel
<1> QED BY <1>8, <1>10 DEF Waits

\* A message for a channel without closures is dropped.
LEMMA Wait_RunSendUnhooked ==
    ASSUME WaitInv, NEW p, NEW o, Ends(p, o), NEW c \in Channel,
           RunSendUnhooked(p, c)
    PROVE  Waits'
<1>1. /\ TypeOK /\ p \in Peer /\ o \in Peer /\ Scene(p, o, c)
      /\ \A q \in Peer : ThreadsInv(q)
      /\ \A q \in Peer, d \in Channel : EndInv(q, d)
  BY SceneSet
<1>2. UNCHANGED <<added, hooked, ready, established, worklist, entry, matched, sink,
                 encPad, decPad, wire, assoc, offered, asked, sent, got, closing,
                 pc, fate>>
  BY DEF RunSendUnhooked, sessionVars, agentVars, sctpVars, appVars
<1>3. /\ Leaves(p, "send", c)
      /\ \A q \in Peer, d \in Channel : q # p \/ d # c => QuietQueue(q, d)
  BY <1>1, PoppedLeaves DEF RunSendUnhooked
<1>4. \A q \in Peer, d \in Channel : q # p \/ d # c => Quiet(q, d)
  BY <1>2, <1>3 DEF Quiet, QuietThreads, QuietEntry, QuietWire, QuietPads, QuietSession,
                    QuietApp
<1>5. Quiet(o, c) /\ \A q \in Peer, d \in Channel : d # c => Quiet(q, d)
  BY <1>1, <1>4 DEF Scene
<1>6. \A q \in Peer : ThreadsInv(q)'
  BY <1>1, <1>2 DEF ThreadsInv
<1>7. EndInv(p, c)' /\ EndInv(o, c)'
  <2>1. /\ LabelInv(p, c)' /\ LabelInv(o, c)' /\ EntryInv(p, c)' /\ EntryInv(o, c)'
        /\ FreshInv(p, c)' /\ FreshInv(o, c)' /\ WireInv(p, c)' /\ WireInv(o, c)'
    BY <1>1, <1>2 DEF Scene, EndInv, LabelInv, EntryInv, FreshInv, WireInv, Initiates
  <2>2. AskedInv(p, c)' /\ AskedInv(o, c)'
    BY <1>1, <1>2, <1>3, <1>5 DEF Scene, EndInv, AskedInv, Quiet, QuietQueue, Leaves
  <2>3. AcceptInv(p, c)' /\ AcceptInv(o, c)'
    BY <1>1, <1>2, <1>3, <1>5 DEF Scene, EndInv, AcceptInv, Initiates, Acked, Quiet,
                                  QuietQueue, Leaves
  <2>4. AgreedInv(p, c)' /\ AgreedInv(o, c)'
    BY <1>1, <1>2, <1>3, <1>5 DEF Scene, EndInv, AgreedInv, Quiet, QuietQueue, Leaves
  <2>5. SourceInv(p, c)' /\ SourceInv(o, c)'
    BY <1>1, <1>2, <1>3, <1>5 DEF Scene, EndInv, SourceInv, Up, Quiet, QuietQueue, Leaves
  <2>6. CalmInv(p, c)' /\ CalmInv(o, c)'
    BY <1>1, <1>2, <1>3, <1>5 DEF Scene, EndInv, CalmInv, Undisturbed, Calm, Initiates,
                                  Quiet, QuietQueue, Leaves
  <2>7. SettledInv(p, c)' /\ SettledInv(o, c)'
    BY <1>1, <1>2, <1>3, <1>5 DEF Scene, EndInv, SettledInv, Up, Quiet, QuietQueue, Leaves
  <2>8. CloseInv(p, c)' /\ CloseInv(o, c)'
    BY <1>1, <1>2, <1>3, <1>5 DEF Scene, EndInv, CloseInv, Quiet, QuietQueue, Leaves
  <2>9. ShutInv(p, c)' /\ ShutInv(o, c)'
    BY <1>1, <1>2, <1>3, <1>5 DEF Scene, EndInv, ShutInv, Undisturbed, CalmInv, Closes,
                                  Follows, Gone, Calm, Initiates, Quiet, QuietQueue, Leaves
  <2>10. ReadyInv(p, c)' /\ ReadyInv(o, c)'
    BY <1>1, <1>2, <1>3, <1>5 DEF Scene, EndInv, ReadyInv, Top, Quiet, QuietQueue, Leaves
  <2> QED BY <2>1, <2>2, <2>3, <2>4, <2>5, <2>6, <2>7, <2>8, <2>9, <2>10 DEF EndInv
<1>8. \A q \in Peer, d \in Channel : EndInv(q, d)'
  BY <1>1, <1>5, <1>7, OneChannel
<1> QED BY <1>6, <1>8 DEF Waits

\* The application hears of a channel.
LEMMA Wait_RunRequested ==
    ASSUME WaitInv, NEW p, NEW o, Ends(p, o), NEW c \in Channel,
           RunRequested(p, c)
    PROVE  Waits'
<1>1. /\ TypeOK /\ p \in Peer /\ o \in Peer /\ Scene(p, o, c)
      /\ \A q \in Peer : ThreadsInv(q)
      /\ \A q \in Peer, d \in Channel : EndInv(q, d)
  BY SceneSet
<1>2. UNCHANGED <<added, hooked, ready, established, worklist, entry, matched, sink,
                 encPad, decPad, wire, assoc, asked, sent, got, closing, pc, fate>>
  BY DEF RunRequested, sessionVars, agentVars, sctpVars
<1>3. /\ Leaves(p, "requested", c)
      /\ \A q \in Peer, d \in Channel : q # p \/ d # c => QuietQueue(q, d)
  BY <1>1, PoppedLeaves DEF RunRequested
<1>4. /\ c \in offered'[p]
      /\ \A q \in Peer, d \in Channel : q # p \/ d # c => (d \in offered'[q] <=> d \in offered[q])
  BY <1>1 DEF RunRequested, TypeOK, AppTypeOK
<1>5. \A q \in Peer, d \in Channel : q # p \/ d # c => Quiet(q, d)
  BY <1>2, <1>3, <1>4 DEF Quiet, QuietThreads, QuietEntry, QuietWire, QuietPads,
                          QuietSession, QuietApp
<1>6. Quiet(o, c) /\ \A q \in Peer, d \in Channel : d # c => Quiet(q, d)
  BY <1>1, <1>5 DEF Scene
<1>7. \A q \in Peer : ThreadsInv(q)'
  BY <1>1, <1>2 DEF ThreadsInv
<1>8. EndInv(p, c)' /\ EndInv(o, c)'
  <2>1. /\ LabelInv(p, c)' /\ LabelInv(o, c)' /\ EntryInv(p, c)' /\ EntryInv(o, c)'
        /\ FreshInv(p, c)' /\ FreshInv(o, c)' /\ WireInv(p, c)' /\ WireInv(o, c)'
    BY <1>1, <1>2 DEF Scene, EndInv, LabelInv, EntryInv, FreshInv, WireInv, Initiates
  <2>2. AskedInv(p, c)' /\ AskedInv(o, c)'
    BY <1>1, <1>2, <1>3, <1>6 DEF Scene, EndInv, AskedInv, Quiet, QuietQueue, Leaves
  <2>3. AcceptInv(p, c)' /\ AcceptInv(o, c)'
    BY <1>1, <1>2, <1>3, <1>4, <1>6 DEF Scene, EndInv, AcceptInv, Initiates, Acked, Quiet,
                                        QuietQueue, QuietApp, Leaves
  <2>4. AgreedInv(p, c)' /\ AgreedInv(o, c)'
    BY <1>1, <1>2, <1>3, <1>6 DEF Scene, EndInv, AgreedInv, Quiet, QuietQueue, Leaves
  <2>5. SourceInv(p, c)' /\ SourceInv(o, c)'
    BY <1>1, <1>2, <1>3, <1>6 DEF Scene, EndInv, SourceInv, Up, Quiet, QuietQueue, Leaves
  <2>6. CalmInv(p, c)' /\ CalmInv(o, c)'
    BY <1>1, <1>2, <1>3, <1>6 DEF Scene, EndInv, CalmInv, Undisturbed, Calm, Initiates,
                                  Quiet, QuietQueue, Leaves
  <2>7. SettledInv(p, c)' /\ SettledInv(o, c)'
    BY <1>1, <1>2, <1>3, <1>6 DEF Scene, EndInv, SettledInv, Up, Quiet, QuietQueue, Leaves
  <2>8. CloseInv(p, c)' /\ CloseInv(o, c)'
    BY <1>1, <1>2, <1>3, <1>6 DEF Scene, EndInv, CloseInv, Quiet, QuietQueue, Leaves
  <2>9. ShutInv(p, c)' /\ ShutInv(o, c)'
    BY <1>1, <1>2, <1>3, <1>6 DEF Scene, EndInv, ShutInv, Undisturbed, CalmInv, Closes,
                                  Follows, Gone, Calm, Initiates, Quiet, QuietQueue, Leaves
  <2>10. ReadyInv(p, c)' /\ ReadyInv(o, c)'
    BY <1>1, <1>2, <1>3, <1>6 DEF Scene, EndInv, ReadyInv, Top, Quiet, QuietQueue, Leaves
  <2> QED BY <2>1, <2>2, <2>3, <2>4, <2>5, <2>6, <2>7, <2>8, <2>9, <2>10 DEF EndInv
<1>9. \A q \in Peer, d \in Channel : EndInv(q, d)'
  BY <1>1, <1>6, <1>8, OneChannel
<1> QED BY <1>7, <1>9 DEF Waits

\* The application receives a message.
LEMMA Wait_RunIncoming ==
    ASSUME WaitInv, NEW p, NEW o, Ends(p, o), NEW c \in Channel,
           RunIncoming(p, c)
    PROVE  Waits'
<1>1. /\ TypeOK /\ p \in Peer /\ o \in Peer /\ Scene(p, o, c)
      /\ \A q \in Peer : ThreadsInv(q)
      /\ \A q \in Peer, d \in Channel : EndInv(q, d)
  BY SceneSet
<1>2. UNCHANGED <<added, hooked, ready, established, worklist, entry, matched, sink,
                 encPad, decPad, wire, assoc, offered, asked, sent, closing, pc,
                 fate>>
  BY DEF RunIncoming, sessionVars, agentVars, sctpVars
<1>3. /\ Leaves(p, "incoming", c)
      /\ \A q \in Peer, d \in Channel : q # p \/ d # c => QuietQueue(q, d)
  BY <1>1, PoppedLeaves DEF RunIncoming
<1>4. \A q \in Peer, d \in Channel : q # p \/ d # c => got'[q][d] = got[q][d]
  BY DEF RunIncoming
<1>5. \A q \in Peer, d \in Channel : q # p \/ d # c => Quiet(q, d)
  BY <1>2, <1>3, <1>4 DEF Quiet, QuietThreads, QuietEntry, QuietWire, QuietPads,
                          QuietSession, QuietApp
<1>6. Quiet(o, c) /\ \A q \in Peer, d \in Channel : d # c => Quiet(q, d)
  BY <1>1, <1>5 DEF Scene
<1>7. \A q \in Peer : ThreadsInv(q)'
  BY <1>1, <1>2 DEF ThreadsInv
<1>8. EndInv(p, c)' /\ EndInv(o, c)'
  <2>1. /\ LabelInv(p, c)' /\ LabelInv(o, c)' /\ EntryInv(p, c)' /\ EntryInv(o, c)'
        /\ FreshInv(p, c)' /\ FreshInv(o, c)' /\ WireInv(p, c)' /\ WireInv(o, c)'
    BY <1>1, <1>2 DEF Scene, EndInv, LabelInv, EntryInv, FreshInv, WireInv, Initiates
  <2>2. AskedInv(p, c)' /\ AskedInv(o, c)'
    BY <1>1, <1>2, <1>3, <1>6 DEF Scene, EndInv, AskedInv, Quiet, QuietQueue, Leaves
  <2>3. AcceptInv(p, c)' /\ AcceptInv(o, c)'
    BY <1>1, <1>2, <1>3, <1>6 DEF Scene, EndInv, AcceptInv, Initiates, Acked, Quiet,
                                  QuietQueue, Leaves
  <2>4. AgreedInv(p, c)' /\ AgreedInv(o, c)'
    BY <1>1, <1>2, <1>3, <1>6 DEF Scene, EndInv, AgreedInv, Quiet, QuietQueue, Leaves
  <2>5. SourceInv(p, c)' /\ SourceInv(o, c)'
    BY <1>1, <1>2, <1>3, <1>4, <1>6 DEF Scene, EndInv, SourceInv, Up, Quiet, QuietQueue,
                                        QuietApp, Leaves
  <2>6. CalmInv(p, c)' /\ CalmInv(o, c)'
    BY <1>1, <1>2, <1>3, <1>6 DEF Scene, EndInv, CalmInv, Undisturbed, Calm, Initiates,
                                  Quiet, QuietQueue, Leaves
  <2>7. SettledInv(p, c)' /\ SettledInv(o, c)'
    BY <1>1, <1>2, <1>3, <1>6 DEF Scene, EndInv, SettledInv, Up, Quiet, QuietQueue, Leaves
  <2>8. CloseInv(p, c)' /\ CloseInv(o, c)'
    BY <1>1, <1>2, <1>3, <1>6 DEF Scene, EndInv, CloseInv, Quiet, QuietQueue, Leaves
  <2>9. ShutInv(p, c)' /\ ShutInv(o, c)'
    BY <1>1, <1>2, <1>3, <1>6 DEF Scene, EndInv, ShutInv, Undisturbed, CalmInv, Closes,
                                  Follows, Gone, Calm, Initiates, Quiet, QuietQueue, Leaves
  <2>10. ReadyInv(p, c)' /\ ReadyInv(o, c)'
    BY <1>1, <1>2, <1>3, <1>6 DEF Scene, EndInv, ReadyInv, Top, Quiet, QuietQueue, Leaves
  <2> QED BY <2>1, <2>2, <2>3, <2>4, <2>5, <2>6, <2>7, <2>8, <2>9, <2>10 DEF EndInv
<1>9. \A q \in Peer, d \in Channel : EndInv(q, d)'
  BY <1>1, <1>6, <1>8, OneChannel
<1> QED BY <1>7, <1>9 DEF Waits

\* The application sees a ready state: the first of those scheduled, which climb.
LEMMA Wait_RunReady ==
    ASSUME WaitInv, NEW p, NEW o, Ends(p, o), NEW c \in Channel,
           RunReady(p, c)
    PROVE  Waits'
<1>1. /\ TypeOK /\ p \in Peer /\ o \in Peer /\ Scene(p, o, c)
      /\ \A q \in Peer : ThreadsInv(q)
      /\ \A q \in Peer, d \in Channel : EndInv(q, d)
  BY SceneSet
<1>2. PICK state \in ReadyState :
         HeadTask(p, state, c) /\ PopTask(p) /\ ready' = [ready EXCEPT ![p][c] = state]
  BY DEF RunReady
<1>3. UNCHANGED <<added, hooked, established, worklist, entry, matched, sink, encPad,
                 decPad, wire, assoc, offered, asked, sent, got, closing, pc, fate>>
  BY DEF RunReady, agentVars, sctpVars, appVars
<1>4. /\ Leaves(p, state, c)
      /\ \A q \in Peer, d \in Channel : q # p \/ d # c => QuietQueue(q, d)
  BY <1>1, <1>2, PoppedLeaves
<1>5. /\ ready'[p][c] = state
      /\ \A q \in Peer, d \in Channel : q # p \/ d # c => ready'[q][d] = ready[q][d]
  BY <1>1, <1>2 DEF TypeOK, SessionTypeOK
<1>6. \A q \in Peer, d \in Channel : q # p \/ d # c => Quiet(q, d)
  BY <1>3, <1>4, <1>5 DEF Quiet, QuietThreads, QuietEntry, QuietWire, QuietPads,
                          QuietSession, QuietApp
<1>7. Quiet(o, c) /\ \A q \in Peer, d \in Channel : d # c => Quiet(q, d)
  BY <1>1, <1>6 DEF Scene
<1>8. \A q \in Peer : ThreadsInv(q)'
  BY <1>1, <1>3 DEF ThreadsInv
<1>9. EndInv(p, c)' /\ EndInv(o, c)'
  <2>1. /\ LabelInv(p, c)' /\ LabelInv(o, c)' /\ EntryInv(p, c)' /\ EntryInv(o, c)'
        /\ FreshInv(p, c)' /\ FreshInv(o, c)' /\ WireInv(p, c)' /\ WireInv(o, c)'
    BY <1>1, <1>3 DEF Scene, EndInv, LabelInv, EntryInv, FreshInv, WireInv, Initiates
  <2>2. AskedInv(p, c)' /\ AskedInv(o, c)'
    BY <1>1, <1>3, <1>4, <1>7 DEF Scene, EndInv, AskedInv, Quiet, QuietQueue, Leaves
  <2>3. AcceptInv(p, c)' /\ AcceptInv(o, c)'
    BY <1>1, <1>3, <1>4, <1>7 DEF Scene, EndInv, AcceptInv, Initiates, Acked, Quiet,
                                  QuietQueue, Leaves
  <2>4. AgreedInv(p, c)' /\ AgreedInv(o, c)'
    BY <1>1, <1>3, <1>4, <1>7 DEF Scene, EndInv, AgreedInv, Quiet, QuietQueue, Leaves
  <2>5. SourceInv(p, c)' /\ SourceInv(o, c)'
    BY <1>1, <1>3, <1>4, <1>7 DEF Scene, EndInv, SourceInv, Up, Quiet, QuietQueue, Leaves
  <2>6. CalmInv(p, c)' /\ CalmInv(o, c)'
    BY <1>1, <1>3, <1>4, <1>7 DEF Scene, EndInv, CalmInv, Undisturbed, Calm, Initiates,
                                  Quiet, QuietQueue, Leaves
  <2>7. SettledInv(p, c)' /\ SettledInv(o, c)'
    BY <1>1, <1>3, <1>4, <1>7 DEF Scene, EndInv, SettledInv, Up, Quiet, QuietQueue, Leaves
  <2>8. CloseInv(p, c)' /\ CloseInv(o, c)'
    BY <1>1, <1>3, <1>4, <1>7 DEF Scene, EndInv, CloseInv, Quiet, QuietQueue, Leaves
  <2>9. ShutInv(p, c)' /\ ShutInv(o, c)'
    BY <1>1, <1>3, <1>4, <1>7 DEF Scene, EndInv, ShutInv, Undisturbed, CalmInv, Closes,
                                  Follows, Gone, Calm, Initiates, Quiet, QuietQueue, Leaves,
                                  ReadyState
  <2>10. ReadyInv(p, c)' /\ ReadyInv(o, c)'
    BY <1>1, <1>2, <1>3, <1>4, <1>5, <1>7, Ranks
       DEF Scene, EndInv, ReadyInv, Top, Quiet, QuietQueue, QuietSession, Leaves
  <2> QED BY <2>1, <2>2, <2>3, <2>4, <2>5, <2>6, <2>7, <2>8, <2>9, <2>10 DEF EndInv
<1>10. \A q \in Peer, d \in Channel : EndInv(q, d)'
  BY <1>1, <1>7, <1>9, OneChannel
<1> QED BY <1>8, <1>10 DEF Waits

\* on_new_datachannel reads the table; an accepting end that was asked has an entry.
LEMMA Wait_LookUpEntry ==
    ASSUME WaitInv, NEW p, NEW o, Ends(p, o), NEW c \in Channel,
           LookUpEntry(p, "main", c)
    PROVE  Waits'
<1>1. /\ TypeOK /\ p \in Peer /\ o \in Peer /\ Scene(p, o, c)
      /\ \A q \in Peer : ThreadsInv(q)
      /\ \A q \in Peer, d \in Channel : EndInv(q, d)
  BY SceneSet
<1>2. Main(pc[p], c) = "new" /\ pc[p]["main"].ch = c
  BY DEF LookUpEntry, At, Main
<1>3. UNCHANGED <<added, hooked, ready, established, worklist, entry, matched, sink,
                 encPad, decPad, wire, assoc, offered, asked, sent, got, closing,
                 mainQ, fate>>
  BY DEF LookUpEntry, sessionVars, sctpVars, appVars
<1>4. /\ MainAt(p, c, "idle") \/ MainAt(p, c, "create") \/ MainAt(p, c, "adopt")
      /\ \A q \in Peer, d \in Channel : q # p \/ d # c => QuietThreads(q, d)
      /\ \A q \in Peer : /\ pc'[q]["sctp"].at = pc[q]["sctp"].at
                         /\ pc'[q]["main"].at \in {pc[q]["main"].at, "idle", "create", "adopt"}
  <2>1. Return(p, "main") \/ Goto(p, "main", "create", c) \/ Goto(p, "main", "adopt", c)
    BY DEF LookUpEntry
  <2> QED BY <1>1, <1>2, <2>1, GotoMoves DEF Label
<1>5. \/ MainAt(p, c, "idle")
      \/ MainAt(p, c, "create") /\ entry[p][c] = "none"
      \/ MainAt(p, c, "adopt") /\ entry[p][c] # "none"
  <2>1. \/ Return(p, "main")
        \/ Goto(p, "main", "create", c) /\ entry[p][c] = "none"
        \/ Goto(p, "main", "adopt", c) /\ entry[p][c] # "none"
    BY DEF LookUpEntry
  <2> QED BY <1>1, <1>2, <2>1, GotoMoves DEF Label
<1>6. \A q \in Peer, d \in Channel : q # p \/ d # c => Quiet(q, d)
  BY <1>3, <1>4 DEF Quiet, QuietQueue, QuietEntry, QuietWire, QuietPads, QuietSession,
                    QuietApp
<1>7. Quiet(o, c) /\ \A q \in Peer, d \in Channel : d # c => Quiet(q, d)
  BY <1>1, <1>6 DEF Scene
<1>8. \A q \in Peer : ThreadsInv(q)'
  BY <1>1, <1>3, <1>4 DEF ThreadsInv
<1>9. EndInv(p, c)' /\ EndInv(o, c)'
  <2>1. /\ AskedInv(p, c)' /\ AskedInv(o, c)' /\ EntryInv(p, c)' /\ EntryInv(o, c)'
        /\ WireInv(p, c)' /\ WireInv(o, c)' /\ AgreedInv(p, c)' /\ AgreedInv(o, c)'
        /\ CloseInv(p, c)' /\ CloseInv(o, c)' /\ ReadyInv(p, c)' /\ ReadyInv(o, c)'
    BY <1>1, <1>3 DEF Scene, EndInv, AskedInv, EntryInv, WireInv, AgreedInv, CloseInv,
                      ReadyInv, Initiates, Top
  <2>2. LabelInv(p, c)' /\ LabelInv(o, c)'
    BY <1>1, <1>2, <1>3, <1>4, <1>5, <1>7 DEF Scene, EndInv, LabelInv, Initiates, FreshInv,
                                              Quiet, QuietThreads, MainAt
  <2>3. FreshInv(p, c)' /\ FreshInv(o, c)'
    BY <1>1, <1>2, <1>3, <1>4, <1>5, <1>7 DEF Scene, EndInv, FreshInv, Initiates, Quiet,
                                              QuietThreads, MainAt
  <2>4. AcceptInv(p, c)' /\ AcceptInv(o, c)'
    BY <1>1, <1>3, <1>4, <1>5, <1>7 DEF Scene, EndInv, AcceptInv, Initiates, Acked, Quiet,
                                        QuietThreads, MainAt
  <2>5. SourceInv(p, c)' /\ SourceInv(o, c)'
    BY <1>1, <1>3, <1>4, <1>5, <1>7 DEF Scene, EndInv, SourceInv, Up, Quiet, QuietThreads,
                                        MainAt
  <2>6. CalmInv(p, c)' /\ CalmInv(o, c)'
    BY <1>1, <1>3, <1>4, <1>5, <1>7 DEF Scene, EndInv, CalmInv, Undisturbed, Calm,
                                        Initiates, Quiet, QuietThreads, MainAt
  <2>7. SettledInv(p, c)' /\ SettledInv(o, c)'
    BY <1>1, <1>3, <1>4, <1>5, <1>7 DEF Scene, EndInv, SettledInv, Up, Quiet, QuietThreads,
                                        MainAt
  <2>8. ShutInv(p, c)' /\ ShutInv(o, c)'
    BY <1>1, <1>2, <1>3, <1>4, <1>5, <1>7 DEF Scene, EndInv, ShutInv, Undisturbed, CalmInv,
                                              Closes, Follows, Gone, Calm, Initiates, Quiet,
                                              QuietThreads, MainAt
  <2> QED BY <2>1, <2>2, <2>3, <2>4, <2>5, <2>6, <2>7, <2>8 DEF EndInv
<1>10. \A q \in Peer, d \in Channel : EndInv(q, d)'
  BY <1>1, <1>7, <1>9, OneChannel
<1> QED BY <1>8, <1>10 DEF Waits

\* The initiating end makes an entry; nothing had made one before.
LEMMA Wait_CreateEntry ==
    ASSUME WaitInv, NEW p, NEW o, Ends(p, o), NEW c \in Channel,
           CreateEntry(p, "main", c)
    PROVE  Waits'
<1>1. /\ TypeOK /\ p \in Peer /\ o \in Peer /\ Scene(p, o, c)
      /\ \A q \in Peer : ThreadsInv(q)
      /\ \A q \in Peer, d \in Channel : EndInv(q, d)
  BY SceneSet
<1>2. Main(pc[p], c) = "create" /\ pc[p]["main"].ch = c
  BY DEF CreateEntry, At, Main
<1>3. UNCHANGED <<added, hooked, ready, established, worklist, sink, encPad, decPad,
                 wire, assoc, offered, asked, sent, got, closing, mainQ, fate>>
  BY DEF CreateEntry, sessionVars, sctpVars, appVars
<1>4. /\ MainAt(p, c, "idle") \/ MainAt(p, c, "openreq")
      /\ \A q \in Peer, d \in Channel : q # p \/ d # c => QuietThreads(q, d)
      /\ \A q \in Peer : /\ pc'[q]["sctp"].at = pc[q]["sctp"].at
                         /\ pc'[q]["main"].at \in {pc[q]["main"].at, "idle", "openreq"}
  <2>1. Return(p, "main") \/ Goto(p, "main", "openreq", c)
    BY DEF CreateEntry
  <2> QED BY <1>1, <1>2, <2>1, GotoMoves DEF Label
<1>5. \/ MainAt(p, c, "idle") /\ UNCHANGED <<entry, matched>>
      \/ /\ MainAt(p, c, "openreq") /\ Initiates(p, c) /\ entry[p][c] = "none"
         /\ entry'[p][c] = "CONNECTING" /\ c \in matched'[p]
  <2>1. \/ Return(p, "main") /\ UNCHANGED <<entry, matched>>
        \/ /\ Goto(p, "main", "openreq", c) /\ Initiates(p, c) /\ entry[p][c] = "none"
           /\ entry'[p][c] = "CONNECTING" /\ c \in matched'[p]
    BY <1>1 DEF CreateEntry, TypeOK, AgentTypeOK, ParametersTaken, Initiates, InBand,
                is_valid_sctp_stream_id
  <2> QED BY <1>1, <1>2, <2>1, GotoMoves DEF Label
<1>6. \A q \in Peer, d \in Channel : q # p \/ d # c =>
          QuietEntry(q, d) /\ (d \in matched'[q] <=> d \in matched[q])
  <2>1. \/ UNCHANGED <<entry, matched>>
        \/ /\ entry' = [entry EXCEPT ![p][c] = "CONNECTING"]
           /\ matched' = [matched EXCEPT ![p] = @ \cup {c}]
    BY DEF CreateEntry, ParametersTaken
  <2> QED BY <1>1, <2>1 DEF TypeOK, AgentTypeOK, QuietEntry
<1>7. \A q \in Peer, d \in Channel : q # p \/ d # c => Quiet(q, d)
  BY <1>3, <1>4, <1>6 DEF Quiet, QuietQueue, QuietWire, QuietPads, QuietSession, QuietApp
<1>8. Quiet(o, c) /\ \A q \in Peer, d \in Channel : d # c => Quiet(q, d)
  BY <1>1, <1>7 DEF Scene
<1>9. \A q \in Peer : ThreadsInv(q)'
  BY <1>1, <1>3, <1>4 DEF ThreadsInv
<1>10. EndInv(p, c)' /\ EndInv(o, c)'
  <2>1. /\ AskedInv(p, c)' /\ AskedInv(o, c)' /\ CloseInv(p, c)' /\ CloseInv(o, c)'
    BY <1>1, <1>3 DEF Scene, EndInv, AskedInv, CloseInv
  <2>2. LabelInv(p, c)' /\ LabelInv(o, c)'
    BY <1>1, <1>2, <1>3, <1>4, <1>5, <1>8 DEF Scene, EndInv, LabelInv, Initiates, Quiet,
                                              QuietThreads, QuietEntry, MainAt
  <2>3. EntryInv(p, c)' /\ EntryInv(o, c)'
    BY <1>1, <1>3, <1>5, <1>8 DEF Scene, EndInv, EntryInv, Quiet, QuietEntry, MainAt
  <2>4. FreshInv(p, c)' /\ FreshInv(o, c)'
    BY <1>1, <1>2, <1>3, <1>4, <1>5, <1>8 DEF Scene, EndInv, FreshInv, Initiates, Quiet,
                                              QuietThreads, QuietEntry, MainAt
  <2>5. AcceptInv(p, c)' /\ AcceptInv(o, c)'
    BY <1>1, <1>3, <1>4, <1>5, <1>8 DEF Scene, EndInv, AcceptInv, Initiates, Acked, Quiet,
                                        QuietThreads, QuietEntry, MainAt
  <2>6. WireInv(p, c)' /\ WireInv(o, c)'
    BY <1>1, <1>3, <1>5, <1>8 DEF Scene, EndInv, WireInv, Initiates, Quiet, QuietEntry,
                                  MainAt
  <2>7. AgreedInv(p, c)' /\ AgreedInv(o, c)'
    BY <1>1, <1>3, <1>5, <1>6, <1>8 DEF Scene, EndInv, AgreedInv, Quiet, QuietEntry,
                                        QuietPads, MainAt
  <2>8. SourceInv(p, c)' /\ SourceInv(o, c)'
    BY <1>1, <1>3, <1>4, <1>5, <1>8 DEF Scene, EndInv, SourceInv, Up, Quiet, QuietThreads,
                                        MainAt
  <2>9. CalmInv(p, c)' /\ CalmInv(o, c)'
    BY <1>1, <1>3, <1>4, <1>5, <1>8 DEF Scene, EndInv, CalmInv, Undisturbed, Calm,
                                        Initiates, Quiet, QuietThreads, QuietEntry, MainAt
  <2>10. SettledInv(p, c)' /\ SettledInv(o, c)'
    BY <1>1, <1>3, <1>4, <1>5, <1>8 DEF Scene, EndInv, SettledInv, Up, Quiet, QuietThreads,
                                        MainAt
  <2>11. ShutInv(p, c)' /\ ShutInv(o, c)'
    BY <1>1, <1>2, <1>3, <1>4, <1>5, <1>8 DEF Scene, EndInv, ShutInv, Undisturbed, CalmInv,
                                              Closes, Follows, Gone, Calm, Initiates,
                                              LabelInv, EntryInv, SettledInv, Up, Quiet,
                                              QuietThreads, QuietEntry, MainAt
  <2>12. ReadyInv(p, c)' /\ ReadyInv(o, c)'
    BY <1>1, <1>2, <1>3, <1>5, <1>8 DEF Scene, EndInv, ReadyInv, Top, LabelInv, Quiet,
                                        QuietEntry, MainAt
  <2> QED BY <2>1, <2>2, <2>3, <2>4, <2>5, <2>6, <2>7, <2>8, <2>9, <2>10, <2>11, <2>12
             DEF EndInv
<1>11. \A q \in Peer, d \in Channel : EndInv(q, d)'
  BY <1>1, <1>8, <1>10, OneChannel
<1> QED BY <1>9, <1>11 DEF Waits

\* It gets its pad and its closures, and requests the channel or opens it.
LEMMA Wait_OpenRequest ==
    ASSUME WaitInv, NEW p, NEW o, Ends(p, o), NEW c \in Channel,
           OpenRequest(p, "main", c)
    PROVE  Waits'
<1>1. /\ TypeOK /\ p \in Peer /\ o \in Peer /\ Scene(p, o, c)
      /\ \A q \in Peer : ThreadsInv(q)
      /\ \A q \in Peer, d \in Channel : EndInv(q, d)
  BY SceneSet
<1>2. Main(pc[p], c) = "openreq" /\ pc[p]["main"].ch = c
  BY DEF OpenRequest, At, Main
<1>3. c \in added[p] /\ c \notin encPad[p] /\ entry[p][c] # "none"
  BY <1>1, <1>2 DEF OpenRequest, At, WaitInv, ChannelInv, WorksOnAdded, Thread, EndInv,
                    LabelInv, EntryInv
<1>4. UNCHANGED <<added, ready, established, worklist, entry, matched, sink, decPad,
                 assoc, offered, asked, sent, got, closing, mainQ, fate>>
  BY <1>3 DEF OpenRequest, appVars
<1>5. /\ MainAt(p, c, "idle") \/ MainAt(p, c, "setopen")
      /\ \A q \in Peer, d \in Channel : q # p \/ d # c => QuietThreads(q, d)
      /\ \A q \in Peer : /\ pc'[q]["sctp"].at = pc[q]["sctp"].at
                         /\ pc'[q]["main"].at \in {pc[q]["main"].at, "idle", "setopen"}
  <2>1. Return(p, "main") \/ Goto(p, "main", "setopen", c)
    BY <1>3 DEF OpenRequest
  <2> QED BY <1>1, <1>2, <2>1, GotoMoves DEF Label
<1>6. /\ c \in hooked'[p] /\ c \in encPad'[p]
      /\ \A q \in Peer, d \in Channel : q # p \/ d # c =>
            (d \in hooked'[q] <=> d \in hooked[q]) /\ (d \in encPad'[q] <=> d \in encPad[q])
  BY <1>1, <1>3 DEF OpenRequest, TypeOK, SessionTypeOK, SctpTypeOK
<1>7. \/ /\ c \notin Negotiated /\ MainAt(p, c, "idle") /\ Pushes(o, "OPEN", c)
         /\ \A q \in Peer, d \in Channel : q # o \/ d # c => QuietWire(q, d)
      \/ c \in Negotiated /\ MainAt(p, c, "setopen") /\ UNCHANGED wire
  <2>1. \/ c \notin Negotiated /\ Return(p, "main") /\ wire' = Pushed(p, c, "OPEN", 0)
        \/ c \in Negotiated /\ Goto(p, "main", "setopen", c) /\ UNCHANGED wire
    BY <1>3 DEF OpenRequest, InBand
  <2> QED BY <1>1, <1>2, <2>1, GotoMoves, PushedMessage DEF Label
<1>8. \A q \in Peer, d \in Channel : d # c => Quiet(q, d)
  BY <1>4, <1>5, <1>6, <1>7 DEF Quiet, QuietQueue, QuietEntry, QuietWire, QuietPads,
                                QuietSession, QuietApp
<1>9. /\ QuietThreads(o, c) /\ QuietQueue(o, c) /\ QuietEntry(o, c)
      /\ QuietPads(o, c) /\ QuietSession(o, c) /\ QuietApp(o, c)
  BY <1>1, <1>4, <1>5, <1>6 DEF Scene, QuietQueue, QuietEntry, QuietPads, QuietSession,
                                QuietApp
<1>10. \A q \in Peer : ThreadsInv(q)'
  BY <1>1, <1>4, <1>5 DEF ThreadsInv
<1>11. EndInv(p, c)' /\ EndInv(o, c)'
  <2>1. /\ AskedInv(p, c)' /\ AskedInv(o, c)' /\ CloseInv(p, c)' /\ CloseInv(o, c)'
    BY <1>1, <1>4 DEF Scene, EndInv, AskedInv, CloseInv
  <2>2. LabelInv(p, c)' /\ LabelInv(o, c)'
    BY <1>1, <1>2, <1>4, <1>5, <1>6, <1>7, <1>9
       DEF Scene, EndInv, LabelInv, Initiates, QuietThreads, QuietSession, MainAt, Pushes
  <2>3. EntryInv(p, c)' /\ EntryInv(o, c)'
    BY <1>1, <1>3, <1>4, <1>6, <1>9 DEF Scene, EndInv, EntryInv, QuietPads, QuietSession
  <2>4. FreshInv(p, c)' /\ FreshInv(o, c)'
    BY <1>1, <1>2, <1>4, <1>5, <1>6, <1>7, <1>9
       DEF Scene, EndInv, FreshInv, Initiates, LabelInv, QuietThreads, QuietWire,
           QuietSession, MainAt, Pushes
  <2>5. AcceptInv(p, c)' /\ AcceptInv(o, c)'
    BY <1>1, <1>2, <1>4, <1>5, <1>6, <1>7, <1>9
       DEF Scene, EndInv, AcceptInv, Initiates, Acked, LabelInv, QuietThreads, QuietWire,
           QuietSession, MainAt, Pushes
  <2>6. WireInv(p, c)' /\ WireInv(o, c)'
    BY <1>1, <1>2, <1>4, <1>7, <1>9 DEF Scene, EndInv, WireInv, Initiates, LabelInv,
                                        AcceptInv, SettledInv, Up, Undisturbed, CalmInv,
                                        QuietWire, MainAt, Pushes
  <2>7. AgreedInv(p, c)' /\ AgreedInv(o, c)'
    BY <1>1, <1>4, <1>6, <1>7, <1>9 DEF Scene, EndInv, AgreedInv, QuietWire, QuietSession,
                                        MainAt, Pushes
  <2>8. SourceInv(p, c)' /\ SourceInv(o, c)'
    BY <1>1, <1>2, <1>4, <1>5, <1>6, <1>7, <1>9
       DEF Scene, EndInv, SourceInv, Up, LabelInv, QuietThreads, QuietWire, QuietSession,
           MainAt, Pushes
  <2>9. CalmInv(p, c)' /\ CalmInv(o, c)'
    BY <1>1, <1>3, <1>4, <1>5, <1>6, <1>7, <1>9
       DEF Scene, EndInv, CalmInv, Undisturbed, Calm, Initiates, QuietThreads, QuietWire,
           QuietSession, MainAt, Pushes
  <2>10. SettledInv(p, c)' /\ SettledInv(o, c)'
    BY <1>1, <1>2, <1>4, <1>5, <1>6, <1>7, <1>9
       DEF Scene, EndInv, SettledInv, Up, LabelInv, QuietThreads, QuietWire, QuietSession,
           MainAt, Pushes
  <2>11. ShutInv(p, c)' /\ ShutInv(o, c)'
    BY <1>1, <1>2, <1>3, <1>4, <1>5, <1>6, <1>7, <1>9
       DEF Scene, EndInv, ShutInv, Undisturbed, CalmInv, Closes, Follows, Gone, Calm,
           Initiates, QuietThreads, QuietWire, QuietSession, MainAt, Pushes
  <2>12. ReadyInv(p, c)' /\ ReadyInv(o, c)'
    BY <1>1, <1>3, <1>4, <1>6, <1>9 DEF Scene, EndInv, ReadyInv, Top, EntryInv, QuietSession
  <2> QED BY <2>1, <2>2, <2>3, <2>4, <2>5, <2>6, <2>7, <2>8, <2>9, <2>10, <2>11, <2>12
             DEF EndInv
<1>12. \A q \in Peer, d \in Channel : EndInv(q, d)'
  BY <1>1, <1>8, <1>11, OneChannel
<1> QED BY <1>10, <1>12 DEF Waits

\* The accepting end gets its closures.
LEMMA Wait_AdoptEntry ==
    ASSUME WaitInv, NEW p, NEW o, Ends(p, o), NEW c \in Channel,
           AdoptEntry(p, "main", c)
    PROVE  Waits'
<1>1. /\ TypeOK /\ p \in Peer /\ o \in Peer /\ Scene(p, o, c)
      /\ \A q \in Peer : ThreadsInv(q)
      /\ \A q \in Peer, d \in Channel : EndInv(q, d)
  BY SceneSet
<1>2. Main(pc[p], c) = "adopt" /\ pc[p]["main"].ch = c
  BY DEF AdoptEntry, At, Main
<1>3. c \in added[p] /\ entry[p][c] # "none"
  BY <1>1, <1>2 DEF AdoptEntry, At, WaitInv, ChannelInv, WorksOnAdded, Thread, EndInv,
                    LabelInv
<1>4. UNCHANGED <<added, ready, established, worklist, entry, matched, sink, encPad,
                 decPad, wire, assoc, offered, asked, sent, got, closing, mainQ,
                 fate>>
  BY <1>3 DEF AdoptEntry, sctpVars, appVars
<1>5. /\ MainAt(p, c, "idle") \/ MainAt(p, c, "ack")
      /\ \A q \in Peer, d \in Channel : q # p \/ d # c => QuietThreads(q, d)
      /\ \A q \in Peer : /\ pc'[q]["sctp"].at = pc[q]["sctp"].at
                         /\ pc'[q]["main"].at \in {pc[q]["main"].at, "idle", "ack"}
  <2>1. Return(p, "main") \/ Goto(p, "main", "ack", c)
    BY <1>3 DEF AdoptEntry
  <2> QED BY <1>1, <1>2, <2>1, GotoMoves DEF Label
<1>6. \/ MainAt(p, c, "idle") /\ UNCHANGED hooked
      \/ MainAt(p, c, "ack") /\ c \in matched[p] /\ c \in hooked'[p]
  BY <1>1, <1>2, <1>3, GotoMoves DEF AdoptEntry, Label, TypeOK, SessionTypeOK
<1>7. \A q \in Peer, d \in Channel : q # p \/ d # c => (d \in hooked'[q] <=> d \in hooked[q])
  BY <1>1 DEF AdoptEntry, TypeOK, SessionTypeOK
<1>8. \A q \in Peer, d \in Channel : q # p \/ d # c => Quiet(q, d)
  BY <1>4, <1>5, <1>7 DEF Quiet, QuietQueue, QuietEntry, QuietWire, QuietPads, QuietSession,
                          QuietApp
<1>9. Quiet(o, c) /\ \A q \in Peer, d \in Channel : d # c => Quiet(q, d)
  BY <1>1, <1>8 DEF Scene
<1>10. \A q \in Peer : ThreadsInv(q)'
  BY <1>1, <1>4, <1>5 DEF ThreadsInv
<1>11. EndInv(p, c)' /\ EndInv(o, c)'
  <2>1. /\ AskedInv(p, c)' /\ AskedInv(o, c)' /\ WireInv(p, c)' /\ WireInv(o, c)'
        /\ CloseInv(p, c)' /\ CloseInv(o, c)'
    BY <1>1, <1>4 DEF Scene, EndInv, AskedInv, WireInv, CloseInv, Initiates
  <2>2. LabelInv(p, c)' /\ LabelInv(o, c)'
    BY <1>1, <1>2, <1>4, <1>5, <1>6, <1>7, <1>9
       DEF Scene, EndInv, LabelInv, Initiates, EntryInv, Quiet, QuietThreads, QuietSession,
           MainAt
  <2>3. EntryInv(p, c)' /\ EntryInv(o, c)'
    BY <1>1, <1>3, <1>4, <1>6, <1>7, <1>9 DEF Scene, EndInv, EntryInv, Quiet, QuietSession,
                                              MainAt
  <2>4. FreshInv(p, c)' /\ FreshInv(o, c)'
    BY <1>1, <1>2, <1>4, <1>5, <1>6, <1>7, <1>9
       DEF Scene, EndInv, FreshInv, Initiates, Quiet, QuietThreads, QuietSession, MainAt
  <2>5. AcceptInv(p, c)' /\ AcceptInv(o, c)'
    BY <1>1, <1>2, <1>4, <1>5, <1>6, <1>7, <1>9
       DEF Scene, EndInv, AcceptInv, Initiates, Acked, LabelInv, Quiet, QuietThreads,
           QuietSession, MainAt
  <2>6. AgreedInv(p, c)' /\ AgreedInv(o, c)'
    BY <1>1, <1>4, <1>6, <1>7, <1>9 DEF Scene, EndInv, AgreedInv, Quiet, QuietSession,
                                        MainAt
  <2>7. SourceInv(p, c)' /\ SourceInv(o, c)'
    BY <1>1, <1>2, <1>4, <1>5, <1>6, <1>7, <1>9
       DEF Scene, EndInv, SourceInv, Up, LabelInv, Quiet, QuietThreads, QuietSession, MainAt
  <2>8. CalmInv(p, c)' /\ CalmInv(o, c)'
    BY <1>1, <1>3, <1>4, <1>5, <1>6, <1>7, <1>9
       DEF Scene, EndInv, CalmInv, Undisturbed, Calm, Initiates, Quiet, QuietThreads,
           QuietSession, MainAt
  <2>9. SettledInv(p, c)' /\ SettledInv(o, c)'
    BY <1>1, <1>2, <1>4, <1>5, <1>6, <1>7, <1>9
       DEF Scene, EndInv, SettledInv, Up, LabelInv, Quiet, QuietThreads, QuietSession,
           MainAt
  <2>10. ShutInv(p, c)' /\ ShutInv(o, c)'
    BY <1>1, <1>2, <1>4, <1>5, <1>6, <1>7, <1>9
       DEF Scene, EndInv, ShutInv, Undisturbed, CalmInv, Closes, Follows, Gone, Calm,
           Initiates, Quiet, QuietThreads, QuietSession, MainAt
  <2>11. ReadyInv(p, c)' /\ ReadyInv(o, c)'
    BY <1>1, <1>3, <1>4, <1>6, <1>7, <1>9 DEF Scene, EndInv, ReadyInv, Top, EntryInv, Quiet,
                                              QuietSession, MainAt
  <2> QED BY <2>1, <2>2, <2>3, <2>4, <2>5, <2>6, <2>7, <2>8, <2>9, <2>10, <2>11 DEF EndInv
<1>12. \A q \in Peer, d \in Channel : EndInv(q, d)'
  BY <1>1, <1>9, <1>11, OneChannel
<1> QED BY <1>10, <1>12 DEF Waits

\* It gets its pad and acknowledges: the first message the opener is to see.
LEMMA Wait_CompleteAndAck ==
    ASSUME WaitInv, NEW p, NEW o, Ends(p, o), NEW c \in Channel,
           CompleteAndAck(p, "main", c)
    PROVE  Waits'
<1>1. /\ TypeOK /\ p \in Peer /\ o \in Peer /\ Scene(p, o, c)
      /\ \A q \in Peer : ThreadsInv(q)
      /\ \A q \in Peer, d \in Channel : EndInv(q, d)
  BY SceneSet
<1>2. Main(pc[p], c) = "ack" /\ pc[p]["main"].ch = c
  BY DEF CompleteAndAck, At, Main
<1>3. c \in added[p] /\ entry[p][c] # "none"
  BY <1>1, <1>2 DEF CompleteAndAck, At, WaitInv, ChannelInv, WorksOnAdded, Thread, EndInv,
                    LabelInv
<1>4. UNCHANGED <<added, hooked, ready, established, worklist, entry, matched, sink,
                 decPad, assoc, offered, asked, sent, got, closing, mainQ, fate>>
  BY <1>3 DEF CompleteAndAck, sessionVars, appVars
<1>5. /\ MainAt(p, c, "setopen")
      /\ \A q \in Peer, d \in Channel : q # p \/ d # c => QuietThreads(q, d)
      /\ \A q \in Peer : /\ pc'[q]["sctp"].at = pc[q]["sctp"].at
                         /\ pc'[q]["main"].at \in {pc[q]["main"].at, "setopen"}
  <2>1. Goto(p, "main", "setopen", c)
    BY <1>3 DEF CompleteAndAck
  <2> QED BY <1>1, <1>2, <2>1, GotoMoves DEF Label
<1>6. /\ c \in encPad'[p]
      /\ \A q \in Peer, d \in Channel : q # p \/ d # c => (d \in encPad'[q] <=> d \in encPad[q])
  BY <1>1, <1>3 DEF CompleteAndAck, TypeOK, SctpTypeOK
<1>7. /\ Pushes(o, "ACK", c) \/ UNCHANGED wire
      /\ \A q \in Peer, d \in Channel : q # o \/ d # c => QuietWire(q, d)
  <2>1. wire' = Pushed(p, c, "ACK", 0) \/ UNCHANGED wire
    BY DEF CompleteAndAck
  <2> QED BY <1>1, <2>1, PushedMessage DEF QuietWire
<1>8. \A q \in Peer, d \in Channel : d # c => Quiet(q, d)
  BY <1>4, <1>5, <1>6, <1>7 DEF Quiet, QuietQueue, QuietEntry, QuietPads, QuietSession,
                                QuietApp
<1>9. /\ QuietThreads(o, c) /\ QuietQueue(o, c) /\ QuietEntry(o, c)
      /\ QuietPads(o, c) /\ QuietSession(o, c) /\ QuietApp(o, c)
  BY <1>1, <1>4, <1>5, <1>6 DEF Scene, QuietQueue, QuietEntry, QuietPads, QuietSession,
                                QuietApp
<1>10. \A q \in Peer : ThreadsInv(q)'
  BY <1>1, <1>4, <1>5 DEF ThreadsInv
<1>11. EndInv(p, c)' /\ EndInv(o, c)'
  <2>1. /\ AskedInv(p, c)' /\ AskedInv(o, c)' /\ CloseInv(p, c)' /\ CloseInv(o, c)'
        /\ ReadyInv(p, c)' /\ ReadyInv(o, c)'
    BY <1>1, <1>4 DEF Scene, EndInv, AskedInv, CloseInv, ReadyInv, Top
  <2>2. LabelInv(p, c)' /\ LabelInv(o, c)'
    BY <1>1, <1>2, <1>4, <1>5, <1>9 DEF Scene, EndInv, LabelInv, Initiates, QuietThreads,
                                        MainAt
  <2>3. EntryInv(p, c)' /\ EntryInv(o, c)'
    BY <1>1, <1>2, <1>4, <1>6, <1>9 DEF Scene, EndInv, EntryInv, LabelInv, QuietPads
  <2>4. FreshInv(p, c)' /\ FreshInv(o, c)'
    BY <1>1, <1>2, <1>3, <1>4, <1>5, <1>7, <1>9
       DEF Scene, EndInv, FreshInv, Initiates, LabelInv, AcceptInv, AskedInv, QuietThreads,
           QuietWire, MainAt, Pushes
  <2>5. AcceptInv(p, c)' /\ AcceptInv(o, c)'
    BY <1>1, <1>2, <1>4, <1>5, <1>7, <1>9 DEF Scene, EndInv, AcceptInv, Initiates, Acked,
                                              LabelInv, QuietThreads, QuietWire, MainAt,
                                              Pushes
  <2>6. WireInv(p, c)' /\ WireInv(o, c)'
    BY <1>1, <1>2, <1>3, <1>4, <1>7, <1>9 DEF Scene, EndInv, WireInv, Initiates, LabelInv,
                                              AcceptInv, SettledInv, Acked, Up, Undisturbed,
                                              CalmInv, AskedInv, QuietWire, Pushes
  <2>7. AgreedInv(p, c)' /\ AgreedInv(o, c)'
    BY <1>1, <1>2, <1>3, <1>4, <1>7, <1>9 DEF Scene, EndInv, AgreedInv, LabelInv, AcceptInv,
                                              AskedInv, QuietWire, Pushes
  <2>8. SourceInv(p, c)' /\ SourceInv(o, c)'
    BY <1>1, <1>2, <1>4, <1>5, <1>7, <1>9 DEF Scene, EndInv, SourceInv, Up, QuietThreads,
                                              QuietWire, MainAt, Pushes
  <2>9. CalmInv(p, c)' /\ CalmInv(o, c)'
    BY <1>1, <1>4, <1>5, <1>7, <1>9 DEF Scene, EndInv, CalmInv, Undisturbed, Calm,
                                        Initiates, QuietThreads, QuietWire, MainAt, Pushes
  <2>10. SettledInv(p, c)' /\ SettledInv(o, c)'
    BY <1>1, <1>2, <1>4, <1>5, <1>7, <1>9 DEF Scene, EndInv, SettledInv, Up, QuietThreads,
                                              QuietWire, MainAt, Pushes
  <2>11. ShutInv(p, c)' /\ ShutInv(o, c)'
    BY <1>1, <1>2, <1>3, <1>4, <1>5, <1>7, <1>9
       DEF Scene, EndInv, ShutInv, Undisturbed, CalmInv, Closes, Follows, Gone, Calm,
           Initiates, QuietThreads, QuietWire, MainAt, Pushes
  <2> QED BY <2>1, <2>2, <2>3, <2>4, <2>5, <2>6, <2>7, <2>8, <2>9, <2>10, <2>11 DEF EndInv
<1>12. \A q \in Peer, d \in Channel : EndInv(q, d)'
  BY <1>1, <1>8, <1>11, OneChannel
<1> QED BY <1>10, <1>12 DEF Waits

\* The entry is opened; no handler has closed it yet.
LEMMA Wait_SetOpen ==
    ASSUME WaitInv, NEW p, NEW o, Ends(p, o), NEW c \in Channel,
           SetOpen(p, "main", c)
    PROVE  Waits'
<1>1. /\ TypeOK /\ p \in Peer /\ o \in Peer /\ Scene(p, o, c)
      /\ \A q \in Peer : ThreadsInv(q)
      /\ \A q \in Peer, d \in Channel : EndInv(q, d)
  BY SceneSet
<1>2. Main(pc[p], c) = "setopen" /\ pc[p]["main"].ch = c
  BY DEF SetOpen, At, Main
<1>3. entry[p][c] # "none"
  BY <1>1, <1>2 DEF EndInv, LabelInv
<1>4. UNCHANGED <<added, hooked, ready, established, worklist, matched, sink, encPad,
                 decPad, wire, assoc, offered, asked, sent, got, closing, fate>>
  BY <1>3 DEF SetOpen, sessionVars, sctpVars, appVars
<1>5. /\ MainAt(p, c, "idle")
      /\ \A q \in Peer, d \in Channel : q # p \/ d # c => QuietThreads(q, d)
      /\ \A q \in Peer : /\ pc'[q]["sctp"].at = pc[q]["sctp"].at
                         /\ pc'[q]["main"].at \in {pc[q]["main"].at, "idle"}
  <2>1. Return(p, "main")
    BY <1>3 DEF SetOpen
  <2> QED BY <1>1, <1>2, <2>1, GotoMoves DEF Label
<1>6. /\ entry'[p][c] = "OPEN"
      /\ \A q \in Peer, d \in Channel : q # p \/ d # c => QuietEntry(q, d)
  BY <1>1, <1>3 DEF SetOpen, TypeOK, AgentTypeOK, QuietEntry, Opened
<1>7. /\ Joins(p, "OPEN", c)
      /\ \A q \in Peer, d \in Channel : q # p \/ d # c => QuietQueue(q, d)
  BY <1>1, <1>3, ScheduledJoins DEF SetOpen, TaskKind, ReadyState
<1>8. \A q \in Peer, d \in Channel : q # p \/ d # c => Quiet(q, d)
  BY <1>4, <1>5, <1>6, <1>7 DEF Quiet, QuietWire, QuietPads, QuietSession, QuietApp
<1>9. Quiet(o, c) /\ \A q \in Peer, d \in Channel : d # c => Quiet(q, d)
  BY <1>1, <1>8 DEF Scene
<1>10. \A q \in Peer : ThreadsInv(q)'
  BY <1>1, <1>4, <1>5 DEF ThreadsInv
<1>11. EndInv(p, c)' /\ EndInv(o, c)'
  <2>1. AskedInv(p, c)' /\ AskedInv(o, c)'
    BY <1>1, <1>4, <1>7, <1>9 DEF Scene, EndInv, AskedInv, Quiet, QuietQueue, Joins
  <2>2. LabelInv(p, c)' /\ LabelInv(o, c)'
    BY <1>1, <1>4, <1>5, <1>6, <1>9 DEF Scene, EndInv, LabelInv, Initiates, Quiet,
                                        QuietThreads, QuietEntry, MainAt
  <2>3. EntryInv(p, c)' /\ EntryInv(o, c)'
    BY <1>1, <1>2, <1>4, <1>6, <1>9 DEF Scene, EndInv, EntryInv, LabelInv, Quiet, QuietEntry
  <2>4. FreshInv(p, c)' /\ FreshInv(o, c)'
    BY <1>1, <1>2, <1>3, <1>4, <1>5, <1>6, <1>9
       DEF Scene, EndInv, FreshInv, Initiates, Quiet, QuietThreads, QuietEntry, MainAt
  <2>5. AcceptInv(p, c)' /\ AcceptInv(o, c)'
    BY <1>1, <1>2, <1>4, <1>5, <1>6, <1>7, <1>9
       DEF Scene, EndInv, AcceptInv, Initiates, Acked, LabelInv, Quiet, QuietThreads,
           QuietQueue, QuietEntry, MainAt, Joins
  <2>6. WireInv(p, c)' /\ WireInv(o, c)'
    BY <1>1, <1>2, <1>4, <1>6, <1>9 DEF Scene, EndInv, WireInv, Initiates, LabelInv, Quiet,
                                        QuietEntry
  <2>7. AgreedInv(p, c)' /\ AgreedInv(o, c)'
    BY <1>1, <1>3, <1>4, <1>6, <1>7, <1>9 DEF Scene, EndInv, AgreedInv, Quiet, QuietQueue,
                                              QuietEntry, Joins
  <2>8. SourceInv(p, c)' /\ SourceInv(o, c)'
    BY <1>1, <1>4, <1>5, <1>7, <1>9 DEF Scene, EndInv, SourceInv, Up, Quiet, QuietThreads,
                                        QuietQueue, MainAt, Joins
  <2>9. CalmInv(p, c)' /\ CalmInv(o, c)'
    BY <1>1, <1>3, <1>4, <1>5, <1>6, <1>7, <1>9
       DEF Scene, EndInv, CalmInv, Undisturbed, Calm, Initiates, Quiet, QuietThreads,
           QuietQueue, QuietEntry, MainAt, Joins
  <2>10. SettledInv(p, c)' /\ SettledInv(o, c)'
    BY <1>1, <1>4, <1>5, <1>7, <1>9 DEF Scene, EndInv, SettledInv, Up, Quiet, QuietThreads,
                                        QuietQueue, MainAt, Joins
  <2>11. CloseInv(p, c)' /\ CloseInv(o, c)'
    BY <1>1, <1>4, <1>7, <1>9 DEF Scene, EndInv, CloseInv, Quiet, QuietQueue, Joins
  <2>12. ShutInv(p, c)' /\ ShutInv(o, c)'
    BY <1>1, <1>2, <1>3, <1>4, <1>5, <1>6, <1>7, <1>9
       DEF Scene, EndInv, ShutInv, Undisturbed, CalmInv, Closes, Follows, Gone, Calm,
           Initiates, LabelInv, Quiet, QuietThreads, QuietQueue, QuietEntry, MainAt, Joins
  <2>13. ReadyInv(p, c)' /\ ReadyInv(o, c)'
    BY <1>1, <1>2, <1>4, <1>6, <1>7, <1>9, Ranks
       DEF Scene, EndInv, ReadyInv, Top, LabelInv, Quiet, QuietQueue, QuietEntry, Joins,
           ReadyState
  <2> QED BY <2>1, <2>2, <2>3, <2>4, <2>5, <2>6, <2>7, <2>8, <2>9, <2>10, <2>11, <2>12,
             <2>13 DEF EndInv
<1>12. \A q \in Peer, d \in Channel : EndInv(q, d)'
  BY <1>1, <1>9, <1>11, OneChannel
<1> QED BY <1>10, <1>12 DEF Waits

\* A close finds the entry: it was opened, and only this end closes.
LEMMA Wait_RunClose ==
    ASSUME WaitInv, NEW p, NEW o, Ends(p, o), NEW c \in Channel,
           RunClose(p, c)
    PROVE  Waits'
<1>1. /\ TypeOK /\ p \in Peer /\ o \in Peer /\ Scene(p, o, c)
      /\ \A q \in Peer : ThreadsInv(q)
      /\ \A q \in Peer, d \in Channel : EndInv(q, d)
  BY SceneSet
<1>2. Main(pc[p], c) = "idle" /\ pc[p]["main"].at = "idle" /\ c \in hooked[p]
  BY DEF RunClose, HeadTask, Idle, Main
<1>3. /\ Closing(p, c)
      /\ \A q \in Peer, d \in Channel : q # p \/ d # c => QuietQueue(q, d)
  BY <1>1, ClosingScheduled DEF RunClose
<1>4. entry[p][c] # "none" /\ OnlyResets(wire[p][c])
  BY <1>1, <1>3 DEF Closing, EndInv, CalmInv, Calm, Undisturbed, SettledInv, CloseInv, Up
<1>5. UNCHANGED <<added, hooked, ready, established, worklist, matched, sink, encPad,
                 decPad, wire, assoc, offered, asked, sent, got, closing, fate>>
  BY <1>4 DEF RunClose, sessionVars, sctpVars, appVars
<1>6. /\ MainAt(p, c, "closedec")
      /\ \A q \in Peer, d \in Channel : q # p \/ d # c => QuietThreads(q, d)
      /\ \A q \in Peer : /\ pc'[q]["sctp"].at = pc[q]["sctp"].at
                         /\ pc'[q]["main"].at \in {pc[q]["main"].at, "closedec"}
  <2>1. Goto(p, "main", "closedec", c)
    BY <1>4 DEF RunClose
  <2> QED BY <1>1, <1>2, <2>1, GotoMoves DEF Label
<1>7. /\ entry'[p][c] = "CLOSING"
      /\ \A q \in Peer, d \in Channel : q # p \/ d # c => QuietEntry(q, d)
  BY <1>1, <1>4 DEF RunClose, TypeOK, AgentTypeOK, QuietEntry
<1>8. \A q \in Peer, d \in Channel : q # p \/ d # c => Quiet(q, d)
  BY <1>5, <1>3, <1>6, <1>7 DEF Quiet, QuietWire, QuietPads, QuietSession, QuietApp
<1>9. Quiet(o, c) /\ \A q \in Peer, d \in Channel : d # c => Quiet(q, d)
  BY <1>1, <1>8 DEF Scene
<1>10. \A q \in Peer : ThreadsInv(q)'
  BY <1>1, <1>5, <1>6 DEF ThreadsInv
<1>11. EndInv(p, c)' /\ EndInv(o, c)'
  <2>1. AskedInv(p, c)' /\ AskedInv(o, c)'
    BY <1>1, <1>3, <1>5, <1>9 DEF Scene, EndInv, AskedInv, Quiet, QuietQueue, Closing
  <2>2. LabelInv(p, c)' /\ LabelInv(o, c)'
    BY <1>1, <1>2, <1>3, <1>5, <1>6, <1>7, <1>9
       DEF Scene, EndInv, LabelInv, Initiates, CloseInv, Quiet, QuietThreads, QuietEntry,
           Closing, MainAt
  <2>3. EntryInv(p, c)' /\ EntryInv(o, c)'
    BY <1>1, <1>2, <1>5, <1>7, <1>9 DEF Scene, EndInv, EntryInv, Quiet, QuietEntry
  <2>4. FreshInv(p, c)' /\ FreshInv(o, c)'
    BY <1>1, <1>2, <1>5, <1>6, <1>7, <1>9 DEF Scene, EndInv, FreshInv, Initiates, Quiet,
                                              QuietThreads, QuietEntry, MainAt
  <2>5. AcceptInv(p, c)' /\ AcceptInv(o, c)'
    BY <1>1, <1>3, <1>5, <1>6, <1>7, <1>9 DEF Scene, EndInv, AcceptInv, Initiates, Acked,
                                              SettledInv, Up, CloseInv, Quiet, QuietThreads,
                                              QuietQueue, QuietEntry, Closing, MainAt
  <2>6. WireInv(p, c)' /\ WireInv(o, c)'
    BY <1>1, <1>4, <1>5, <1>7, <1>9, Streams DEF Scene, EndInv, WireInv, Initiates, Quiet,
                                                 QuietEntry
  <2>7. AgreedInv(p, c)' /\ AgreedInv(o, c)'
    BY <1>1, <1>3, <1>4, <1>5, <1>7, <1>9 DEF Scene, EndInv, AgreedInv, Quiet, QuietQueue,
                                              QuietEntry, Closing
  <2>8. SourceInv(p, c)' /\ SourceInv(o, c)'
    BY <1>1, <1>3, <1>5, <1>6, <1>9 DEF Scene, EndInv, SourceInv, Up, Quiet, QuietThreads,
                                        QuietQueue, Closing, MainAt
  <2>9. CalmInv(p, c)' /\ CalmInv(o, c)'
    BY <1>1, <1>3, <1>5, <1>6, <1>7, <1>9 DEF Scene, EndInv, CalmInv, Undisturbed, Calm,
                                              Initiates, CloseInv, Quiet, QuietThreads,
                                              QuietQueue, QuietEntry, Closing, MainAt
  <2>10. SettledInv(p, c)' /\ SettledInv(o, c)'
    BY <1>1, <1>3, <1>5, <1>6, <1>9 DEF Scene, EndInv, SettledInv, Up, Quiet, QuietThreads,
                                        QuietQueue, Closing, MainAt
  <2>11. CloseInv(p, c)' /\ CloseInv(o, c)'
    BY <1>1, <1>3, <1>5, <1>9 DEF Scene, EndInv, CloseInv, Quiet, QuietQueue, Closing
  <2>12. ShutInv(p, c)' /\ ShutInv(o, c)'
    BY <1>1, <1>3, <1>5, <1>6, <1>7, <1>9 DEF Scene, EndInv, ShutInv, Undisturbed, CalmInv,
                                              Closes, Follows, Gone, Calm, Initiates,
                                              SettledInv, CloseInv, Up, Quiet, QuietThreads,
                                              QuietQueue, QuietEntry, Closing, MainAt
  <2>13. ReadyInv(p, c)' /\ ReadyInv(o, c)'
    BY <1>1, <1>2, <1>3, <1>4, <1>5, <1>7, <1>9, Ranks
       DEF Scene, EndInv, ReadyInv, Top, Quiet, QuietQueue, QuietEntry, Closing, EntryState
  <2> QED BY <2>1, <2>2, <2>3, <2>4, <2>5, <2>6, <2>7, <2>8, <2>9, <2>10, <2>11, <2>12,
             <2>13 DEF EndInv
<1>12. \A q \in Peer, d \in Channel : EndInv(q, d)'
  BY <1>1, <1>9, <1>11, OneChannel
<1> QED BY <1>10, <1>12 DEF Waits

\* The closing end takes its appsink down and resets the stream.
LEMMA Wait_CloseDecoder ==
    ASSUME WaitInv, NEW p, NEW o, Ends(p, o), NEW c \in Channel,
           CloseDecoder(p, c)
    PROVE  Waits'
<1>1. /\ TypeOK /\ p \in Peer /\ o \in Peer /\ Scene(p, o, c)
      /\ \A q \in Peer : ThreadsInv(q)
      /\ \A q \in Peer, d \in Channel : EndInv(q, d)
  BY SceneSet
<1>2. Main(pc[p], c) = "closedec" /\ pc[p]["main"].ch = c
  BY DEF CloseDecoder, At, Main
<1>3. entry[p][c] # "none"
  BY <1>1, <1>2 DEF EndInv, LabelInv
<1>4. UNCHANGED <<added, hooked, ready, established, worklist, entry, matched, encPad,
                 assoc, offered, asked, sent, got, closing, mainQ, fate>>
  BY <1>3 DEF CloseDecoder, sessionVars, appVars
<1>5. /\ MainAt(p, c, "closeenc")
      /\ \A q \in Peer, d \in Channel : q # p \/ d # c => QuietThreads(q, d)
      /\ \A q \in Peer : /\ pc'[q]["sctp"].at = pc[q]["sctp"].at
                         /\ pc'[q]["main"].at \in {pc[q]["main"].at, "closeenc"}
  <2>1. Goto(p, "main", "closeenc", c)
    BY <1>3 DEF CloseDecoder
  <2> QED BY <1>1, <1>2, <2>1, GotoMoves DEF Label
<1>6. /\ c \notin sink'[p]
      /\ \A q \in Peer, d \in Channel : q # p \/ d # c =>
            (d \in sink'[q] <=> d \in sink[q]) /\ (d \in decPad'[q] <=> d \in decPad[q])
  BY <1>1, <1>3 DEF CloseDecoder, ResetDecoder, TypeOK, AgentTypeOK, SctpTypeOK
<1>7. \/ /\ c \in sink[p] /\ c \notin decPad'[p] /\ Pushes(o, "RESET", c)
         /\ \A q \in Peer, d \in Channel : q # o \/ d # c => QuietWire(q, d)
      \/ (c \notin sink[p] \/ c \notin decPad[p]) /\ UNCHANGED <<decPad, wire>>
  <2>1. \/ c \in sink[p] /\ c \notin decPad'[p] /\ wire' = Pushed(p, c, "RESET", 0)
        \/ (c \notin sink[p] \/ c \notin decPad[p]) /\ UNCHANGED <<decPad, wire>>
    BY <1>1, <1>3 DEF CloseDecoder, ResetDecoder, TypeOK, SctpTypeOK
  <2> QED BY <1>1, <2>1, PushedMessage
<1>8. \A q \in Peer, d \in Channel : d # c => Quiet(q, d)
  BY <1>4, <1>5, <1>6, <1>7 DEF Quiet, QuietQueue, QuietEntry, QuietWire, QuietPads,
                                QuietSession, QuietApp
<1>9. /\ QuietThreads(o, c) /\ QuietQueue(o, c) /\ QuietEntry(o, c)
      /\ QuietPads(o, c) /\ QuietSession(o, c) /\ QuietApp(o, c)
  BY <1>1, <1>4, <1>5, <1>6 DEF Scene, QuietQueue, QuietEntry, QuietPads, QuietSession,
                                QuietApp
<1>10. \A q \in Peer : ThreadsInv(q)'
  BY <1>1, <1>4, <1>5 DEF ThreadsInv
<1>11. EndInv(p, c)' /\ EndInv(o, c)'
  <2>1. /\ AskedInv(p, c)' /\ AskedInv(o, c)' /\ EntryInv(p, c)' /\ EntryInv(o, c)'
        /\ CloseInv(p, c)' /\ CloseInv(o, c)' /\ ReadyInv(p, c)' /\ ReadyInv(o, c)'
    BY <1>1, <1>4 DEF Scene, EndInv, AskedInv, EntryInv, CloseInv, ReadyInv, Top
  <2>2. LabelInv(p, c)' /\ LabelInv(o, c)'
    BY <1>1, <1>2, <1>4, <1>5, <1>9 DEF Scene, EndInv, LabelInv, Initiates, QuietThreads,
                                        MainAt
  <2>3. FreshInv(p, c)' /\ FreshInv(o, c)'
    BY <1>1, <1>2, <1>3, <1>4, <1>5, <1>7, <1>9
       DEF Scene, EndInv, FreshInv, Initiates, LabelInv, SettledInv, Up, QuietThreads,
           QuietWire, MainAt, Pushes
  <2>4. AcceptInv(p, c)' /\ AcceptInv(o, c)'
    BY <1>1, <1>2, <1>3, <1>4, <1>5, <1>7, <1>9
       DEF Scene, EndInv, AcceptInv, Initiates, Acked, LabelInv, QuietThreads, QuietWire,
           MainAt, Pushes
  <2>5. WireInv(p, c)' /\ WireInv(o, c)'
    BY <1>1, <1>4, <1>7, <1>9 DEF Scene, EndInv, WireInv, Initiates, QuietWire, Pushes
  <2>6. AgreedInv(p, c)' /\ AgreedInv(o, c)'
    BY <1>1, <1>2, <1>4, <1>7, <1>9 DEF Scene, EndInv, AgreedInv, LabelInv, SettledInv, Up,
                                        QuietWire, Pushes
  <2>7. SourceInv(p, c)' /\ SourceInv(o, c)'
    BY <1>1, <1>4, <1>5, <1>7, <1>9 DEF Scene, EndInv, SourceInv, Up, QuietThreads,
                                        QuietWire, MainAt, Pushes
  <2>8. CalmInv(p, c)' /\ CalmInv(o, c)'
    BY <1>1, <1>2, <1>4, <1>5, <1>6, <1>7, <1>9
       DEF Scene, EndInv, CalmInv, Undisturbed, Calm, Initiates, LabelInv, QuietThreads,
           QuietWire, QuietPads, MainAt, Pushes
  <2>9. SettledInv(p, c)' /\ SettledInv(o, c)'
    BY <1>1, <1>4, <1>5, <1>7, <1>9 DEF Scene, EndInv, SettledInv, Up, QuietThreads,
                                        QuietWire, MainAt, Pushes
  <2>10. ShutInv(p, c)' /\ ShutInv(o, c)'
    BY <1>1, <1>2, <1>3, <1>4, <1>5, <1>6, <1>7, <1>9
       DEF Scene, EndInv, ShutInv, Undisturbed, CalmInv, Closes, Follows, Gone, Calm,
           Initiates, LabelInv, SettledInv, QuietThreads, QuietWire, QuietPads, MainAt,
           Pushes
  <2> QED BY <2>1, <2>2, <2>3, <2>4, <2>5, <2>6, <2>7, <2>8, <2>9, <2>10 DEF EndInv
<1>12. \A q \in Peer, d \in Channel : EndInv(q, d)'
  BY <1>1, <1>8, <1>11, OneChannel
<1> QED BY <1>10, <1>12 DEF Waits

\* The end of a teardown leaves a peer as it was, or dead of the freed lock.
LEMMA ReleaseEncoderFate ==
    ASSUME TypeOK, NEW p \in Peer, NEW c \in Channel, NEW sinks, ReleaseEncoder(p, c, sinks)
    PROVE  /\ fate'[p] \in {fate[p], "freed_lock"}
           /\ \A q \in Peer : q # p => fate'[q] = fate[q]
<1>1. fate \in [Peer -> Fate]
  BY DEF TypeOK, ThreadTypeOK
<1>2. UNCHANGED fate \/ Die(p, "freed_lock")
  BY DEF ReleaseEncoder, UnlockFreed
<1> QED BY <1>1, <1>2 DEF Die

\* It takes its pad down; the entry goes, which nothing more is to come for.
LEMMA Wait_CloseEncoder ==
    ASSUME WaitInv, NEW p, NEW o, Ends(p, o), NEW c \in Channel,
           CloseEncoder(p, c)
    PROVE  Waits'
<1>1. /\ TypeOK /\ p \in Peer /\ o \in Peer /\ Scene(p, o, c)
      /\ \A q \in Peer : ThreadsInv(q)
      /\ \A q \in Peer, d \in Channel : EndInv(q, d)
  BY SceneSet
<1>2. Main(pc[p], c) = "closeenc" /\ pc[p]["main"].ch = c
  BY DEF CloseEncoder, At, Main
<1>3. entry[p][c] # "none" /\ c \notin sink[p]
  BY <1>1, <1>2 DEF EndInv, CalmInv, Calm, Undisturbed, ShutInv, Closes, Gone, SettledInv,
                    LabelInv
<1>4. UNCHANGED <<added, hooked, ready, established, worklist, decPad, assoc, offered,
                 asked, sent, got, closing>>
  BY <1>3 DEF CloseEncoder, sessionVars, appVars
<1>5. UNCHANGED sink
  BY DEF CloseEncoder, ReleaseEncoder
<1>6. /\ MainAt(p, c, "idle")
      /\ \A q \in Peer, d \in Channel : q # p \/ d # c => QuietThreads(q, d)
      /\ \A q \in Peer : /\ pc'[q]["sctp"].at = pc[q]["sctp"].at
                         /\ pc'[q]["main"].at \in {pc[q]["main"].at, "idle"}
  <2>1. Return(p, "main")
    BY <1>3 DEF CloseEncoder
  <2> QED BY <1>1, <1>2, <2>1, GotoMoves DEF Label
<1>7. /\ c \notin matched'[p] /\ (c \in encPad'[p] => c \in encPad[p])
      /\ \A q \in Peer, d \in Channel : q # p \/ d # c =>
            (d \in matched'[q] <=> d \in matched[q]) /\ (d \in encPad'[q] <=> d \in encPad[q])
  BY <1>1, <1>3 DEF CloseEncoder, ReleaseEncoder, TypeOK, AgentTypeOK, SctpTypeOK
<1>8. /\ entry'[p][c] = "none"
      /\ \A q \in Peer, d \in Channel : q # p \/ d # c => QuietEntry(q, d)
  BY <1>1, <1>3 DEF CloseEncoder, TypeOK, AgentTypeOK, QuietEntry, ReleaseEncoder
<1>9. /\ Joins(p, "CLOSED", c)
      /\ \A q \in Peer, d \in Channel : q # p \/ d # c => QuietQueue(q, d)
  BY <1>1, <1>3, ScheduledJoins DEF CloseEncoder, ReleaseEncoder, TaskKind, ReadyState
<1>10. /\ Pushes(o, "RESET", c) \/ UNCHANGED wire
      /\ \A q \in Peer, d \in Channel : q # o \/ d # c => QuietWire(q, d)
  <2>1. wire' = Pushed(p, c, "RESET", 0) \/ UNCHANGED wire
    BY DEF CloseEncoder, ReleaseEncoder
  <2> QED BY <1>1, <2>1, PushedMessage DEF QuietWire
<1>11. \A q \in Peer, d \in Channel : d # c => Quiet(q, d)
  BY <1>4, <1>5, <1>6, <1>7, <1>8, <1>9, <1>10 DEF Quiet, QuietPads, QuietSession, QuietApp
<1>12. /\ QuietThreads(o, c) /\ QuietQueue(o, c) /\ QuietEntry(o, c)
      /\ QuietPads(o, c) /\ QuietSession(o, c) /\ QuietApp(o, c)
  BY <1>1, <1>4, <1>5, <1>6, <1>7, <1>8, <1>9 DEF Scene, QuietPads, QuietSession, QuietApp
<1>13. \A q \in Peer : ThreadsInv(q)'
  <2>1. fate'[p] \in {fate[p], "freed_lock"} /\ \A q \in Peer : q # p => fate'[q] = fate[q]
    BY <1>1, <1>3, ReleaseEncoderFate DEF CloseEncoder
  <2>2. \A q \in Peer : fate'[q] \in {"alive", "freed_lock"}
    BY <1>1, <2>1 DEF ThreadsInv
  <2> QED BY <1>1, <1>4, <1>6, <2>2 DEF ThreadsInv
<1>14. EndInv(p, c)' /\ EndInv(o, c)'
  <2>1. AskedInv(p, c)' /\ AskedInv(o, c)'
    BY <1>1, <1>4, <1>9, <1>12 DEF Scene, EndInv, AskedInv, QuietQueue, Joins
  <2>2. LabelInv(p, c)' /\ LabelInv(o, c)'
    BY <1>1, <1>4, <1>6, <1>8, <1>12 DEF Scene, EndInv, LabelInv, Initiates, QuietThreads,
                                         QuietEntry, MainAt
  <2>3. EntryInv(p, c)' /\ EntryInv(o, c)'
    BY <1>1, <1>4, <1>7, <1>8, <1>12 DEF Scene, EndInv, EntryInv, QuietEntry, QuietPads
  <2>4. FreshInv(p, c)' /\ FreshInv(o, c)'
    BY <1>1, <1>2, <1>4, <1>6, <1>8, <1>10, <1>12
       DEF Scene, EndInv, FreshInv, Initiates, LabelInv, SettledInv, Up, QuietThreads,
           QuietEntry, QuietWire, MainAt, Pushes
  <2>5. AcceptInv(p, c)' /\ AcceptInv(o, c)'
    BY <1>1, <1>2, <1>4, <1>6, <1>8, <1>9, <1>10, <1>12
       DEF Scene, EndInv, AcceptInv, Initiates, Acked, LabelInv, QuietThreads, QuietQueue,
           QuietEntry, QuietWire, MainAt, Joins, Pushes
  <2>6. WireInv(p, c)' /\ WireInv(o, c)'
    BY <1>1, <1>2, <1>4, <1>8, <1>10, <1>12 DEF Scene, EndInv, WireInv, Initiates, LabelInv,
                                                QuietEntry, QuietWire, Pushes
  <2>7. AgreedInv(p, c)' /\ AgreedInv(o, c)'
    BY <1>1, <1>2, <1>4, <1>7, <1>8, <1>9, <1>10, <1>12
       DEF Scene, EndInv, AgreedInv, LabelInv, SettledInv, Up, QuietQueue, QuietEntry,
           QuietWire, QuietPads, Joins, Pushes
  <2>8. SourceInv(p, c)' /\ SourceInv(o, c)'
    BY <1>1, <1>4, <1>6, <1>9, <1>10, <1>12 DEF Scene, EndInv, SourceInv, Up, QuietThreads,
                                                QuietQueue, QuietWire, MainAt, Joins, Pushes
  <2>9. CalmInv(p, c)' /\ CalmInv(o, c)'
    BY <1>1, <1>2, <1>4, <1>6, <1>8, <1>9, <1>10, <1>12
       DEF Scene, EndInv, CalmInv, Undisturbed, Calm, Initiates, LabelInv, QuietThreads,
           QuietQueue, QuietEntry, QuietWire, QuietPads, MainAt, Joins, Pushes
  <2>10. SettledInv(p, c)' /\ SettledInv(o, c)'
    BY <1>1, <1>4, <1>6, <1>9, <1>10, <1>12 DEF Scene, EndInv, SettledInv, Up, QuietThreads,
                                                QuietQueue, QuietWire, MainAt, Joins, Pushes
  <2>11. CloseInv(p, c)' /\ CloseInv(o, c)'
    BY <1>1, <1>4, <1>9, <1>12 DEF Scene, EndInv, CloseInv, QuietQueue, Joins
  <2>12. ShutInv(p, c)' /\ ShutInv(o, c)'
    BY <1>1, <1>2, <1>4, <1>5, <1>6, <1>8, <1>9, <1>10, <1>12
       DEF Scene, EndInv, ShutInv, Undisturbed, CalmInv, Closes, Follows, Gone, Calm,
           Initiates, LabelInv, WireInv, AgreedInv, SettledInv, QuietThreads, QuietQueue,
           QuietEntry, QuietWire, QuietPads, MainAt, Joins, Pushes
  <2>13. ReadyInv(p, c)' /\ ReadyInv(o, c)'
    BY <1>1, <1>2, <1>4, <1>8, <1>9, <1>12, Ranks
       DEF Scene, EndInv, ReadyInv, Top, LabelInv, QuietQueue, QuietEntry, Joins, ReadyState
  <2> QED BY <2>1, <2>2, <2>3, <2>4, <2>5, <2>6, <2>7, <2>8, <2>9, <2>10, <2>11, <2>12,
             <2>13 DEF EndInv
<1>15. \A q \in Peer, d \in Channel : EndInv(q, d)'
  BY <1>1, <1>11, <1>14, OneChannel
<1> QED BY <1>13, <1>15 DEF Waits

\* The other end, told by the reset, does the same on its SCTP thread.
LEMMA Wait_TearDown ==
    ASSUME WaitInv, NEW p, NEW o, Ends(p, o), NEW c \in Channel,
           TearDown(p, c)
    PROVE  Waits'
<1>1. /\ TypeOK /\ p \in Peer /\ o \in Peer /\ Scene(p, o, c)
      /\ \A q \in Peer : ThreadsInv(q)
      /\ \A q \in Peer, d \in Channel : EndInv(q, d)
  BY SceneSet
<1>2. Torn(pc[p], c) /\ pc[p]["sctp"].ch = c
  BY DEF TearDown, At, Torn
<1>3. entry[p][c] = "CLOSING" /\ c \in hooked[p]
  BY <1>1, <1>2 DEF Scene, EndInv, CalmInv, Calm, Undisturbed, ShutInv, Closes, Follows,
                    SettledInv, Up
<1>4. UNCHANGED <<added, hooked, ready, established, worklist, decPad, assoc, offered,
                 asked, sent, got, closing>>
  BY <1>3 DEF TearDown, sessionVars, appVars
<1>5. /\ c \notin sink'[p]
      /\ \A q \in Peer, d \in Channel : q # p \/ d # c => (d \in sink'[q] <=> d \in sink[q])
  BY <1>1, <1>3 DEF TearDown, ReleaseEncoder, TypeOK, AgentTypeOK
<1>6. /\ Main(pc'[p], c) = Main(pc[p], c) /\ ~Torn(pc'[p], c)
      /\ \A q \in Peer, d \in Channel : q # p \/ d # c => QuietThreads(q, d)
      /\ \A q \in Peer : /\ pc'[q]["sctp"].at \in {pc[q]["sctp"].at, "idle"}
                         /\ pc'[q]["main"].at = pc[q]["main"].at
  BY <1>1, <1>2, <1>3, SctpMoves DEF TearDown
<1>7. /\ c \notin matched'[p] /\ (c \in encPad'[p] => c \in encPad[p])
      /\ \A q \in Peer, d \in Channel : q # p \/ d # c =>
            (d \in matched'[q] <=> d \in matched[q]) /\ (d \in encPad'[q] <=> d \in encPad[q])
  BY <1>1, <1>3 DEF TearDown, ReleaseEncoder, TypeOK, AgentTypeOK, SctpTypeOK
<1>8. /\ entry'[p][c] = "none"
      /\ \A q \in Peer, d \in Channel : q # p \/ d # c => QuietEntry(q, d)
  BY <1>1 DEF TearDown, TypeOK, AgentTypeOK, QuietEntry, ReleaseEncoder
<1>9. /\ Joins(p, "CLOSED", c)
      /\ \A q \in Peer, d \in Channel : q # p \/ d # c => QuietQueue(q, d)
  BY <1>1, <1>3, ScheduledJoins DEF TearDown, ReleaseEncoder, TaskKind, ReadyState, TypeOK,
                                    AgentTypeOK
<1>10. /\ Pushes(o, "RESET", c) \/ UNCHANGED wire
      /\ \A q \in Peer, d \in Channel : q # o \/ d # c => QuietWire(q, d)
  <2>1. wire' = Pushed(p, c, "RESET", 0) \/ UNCHANGED wire
    BY DEF TearDown, ReleaseEncoder
  <2> QED BY <1>1, <2>1, PushedMessage DEF QuietWire
<1>11. \A q \in Peer, d \in Channel : d # c => Quiet(q, d)
  BY <1>4, <1>5, <1>6, <1>7, <1>8, <1>9, <1>10 DEF Quiet, QuietPads, QuietSession, QuietApp
<1>12. /\ QuietThreads(o, c) /\ QuietQueue(o, c) /\ QuietEntry(o, c)
      /\ QuietPads(o, c) /\ QuietSession(o, c) /\ QuietApp(o, c)
  BY <1>1, <1>4, <1>5, <1>6, <1>7, <1>8, <1>9 DEF Scene, QuietPads, QuietSession, QuietApp
<1>13. \A q \in Peer : ThreadsInv(q)'
  <2>1. fate'[p] \in {fate[p], "freed_lock"} /\ \A q \in Peer : q # p => fate'[q] = fate[q]
    BY <1>1, <1>3, ReleaseEncoderFate DEF TearDown
  <2>2. \A q \in Peer : fate'[q] \in {"alive", "freed_lock"}
    BY <1>1, <2>1 DEF ThreadsInv
  <2> QED BY <1>1, <1>4, <1>6, <2>2 DEF ThreadsInv
<1>14. EndInv(p, c)' /\ EndInv(o, c)'
  <2>1. AskedInv(p, c)' /\ AskedInv(o, c)'
    BY <1>1, <1>4, <1>9, <1>12 DEF Scene, EndInv, AskedInv, QuietQueue, Joins
  <2>2. LabelInv(p, c)' /\ LabelInv(o, c)'
    BY <1>1, <1>2, <1>4, <1>6, <1>8, <1>12 DEF Scene, EndInv, LabelInv, Initiates,
                                               SettledInv, Up, Undisturbed, CalmInv, Calm,
                                               ShutInv, Closes, QuietThreads, QuietEntry
  <2>3. EntryInv(p, c)' /\ EntryInv(o, c)'
    BY <1>1, <1>4, <1>7, <1>8, <1>12 DEF Scene, EndInv, EntryInv, QuietEntry, QuietPads
  <2>4. FreshInv(p, c)' /\ FreshInv(o, c)'
    BY <1>1, <1>2, <1>4, <1>6, <1>8, <1>10, <1>12
       DEF Scene, EndInv, FreshInv, Initiates, SettledInv, Up, Undisturbed, CalmInv, Calm,
           QuietThreads, QuietEntry, QuietWire, Pushes
  <2>5. AcceptInv(p, c)' /\ AcceptInv(o, c)'
    BY <1>1, <1>2, <1>4, <1>6, <1>8, <1>9, <1>10, <1>12
       DEF Scene, EndInv, AcceptInv, Initiates, Acked, SettledInv, Up, Undisturbed, CalmInv,
           Calm, QuietThreads, QuietQueue, QuietEntry, QuietWire, Joins, Pushes
  <2>6. WireInv(p, c)' /\ WireInv(o, c)'
    BY <1>1, <1>2, <1>4, <1>8, <1>10, <1>12 DEF Scene, EndInv, WireInv, Initiates, CalmInv,
                                                Calm, ShutInv, Closes, Follows, QuietEntry,
                                                QuietWire, Pushes
  <2>7. AgreedInv(p, c)' /\ AgreedInv(o, c)'
    BY <1>1, <1>2, <1>4, <1>7, <1>8, <1>9, <1>10, <1>12
       DEF Scene, EndInv, AgreedInv, SettledInv, Up, Undisturbed, CalmInv, Calm, QuietQueue,
           QuietEntry, QuietWire, QuietPads, Joins, Pushes
  <2>8. SourceInv(p, c)' /\ SourceInv(o, c)'
    BY <1>1, <1>4, <1>6, <1>9, <1>10, <1>12 DEF Scene, EndInv, SourceInv, Up, QuietThreads,
                                                QuietQueue, QuietWire, Joins, Pushes
  <2>9. CalmInv(p, c)' /\ CalmInv(o, c)'
    BY <1>1, <1>2, <1>4, <1>5, <1>6, <1>8, <1>9, <1>10, <1>12
       DEF Scene, EndInv, CalmInv, Undisturbed, Calm, Initiates, QuietThreads, QuietQueue,
           QuietEntry, QuietWire, QuietPads, Joins, Pushes
  <2>10. SettledInv(p, c)' /\ SettledInv(o, c)'
    BY <1>1, <1>4, <1>6, <1>9, <1>10, <1>12 DEF Scene, EndInv, SettledInv, Up, QuietThreads,
                                                QuietQueue, QuietWire, Joins, Pushes
  <2>11. CloseInv(p, c)' /\ CloseInv(o, c)'
    BY <1>1, <1>4, <1>9, <1>12 DEF Scene, EndInv, CloseInv, QuietQueue, Joins
  <2>12. ShutInv(p, c)' /\ ShutInv(o, c)'
    BY <1>1, <1>2, <1>4, <1>5, <1>6, <1>8, <1>9, <1>10, <1>12
       DEF Scene, EndInv, ShutInv, Undisturbed, CalmInv, Closes, Follows, Gone, Calm,
           Initiates, QuietThreads, QuietQueue, QuietEntry, QuietWire, QuietPads, Joins,
           Pushes
  <2>13. ReadyInv(p, c)' /\ ReadyInv(o, c)'
    BY <1>1, <1>3, <1>4, <1>8, <1>9, <1>12, Ranks
       DEF Scene, EndInv, ReadyInv, Top, QuietQueue, QuietEntry, Joins, ReadyState
  <2> QED BY <2>1, <2>2, <2>3, <2>4, <2>5, <2>6, <2>7, <2>8, <2>9, <2>10, <2>11, <2>12,
             <2>13 DEF EndInv
<1>15. \A q \in Peer, d \in Channel : EndInv(q, d)'
  BY <1>1, <1>11, <1>14, OneChannel
<1> QED BY <1>13, <1>15 DEF Waits

\* A pad is added for a message: of the opener at an end that has no entry yet, or at
\* one that has.
LEMMA Wait_PadAdded ==
    ASSUME WaitInv, NEW p, NEW o, Ends(p, o), NEW c \in Channel,
           PadAdded(p, c)
    PROVE  Waits'
<1>1. /\ TypeOK /\ p \in Peer /\ o \in Peer /\ Scene(p, o, c)
      /\ \A q \in Peer : ThreadsInv(q)
      /\ \A q \in Peer, d \in Channel : EndInv(q, d)
  BY SceneSet
<1>2. /\ wire[p][c] # <<>> /\ ~OnlyResets(wire[p][c])
      /\ c \notin decPad[p]
  BY <1>1 DEF PadAdded, OnlyResets, TypeOK, SctpTypeOK
<1>3. /\ c \notin sink[p]
      /\ \/ entry[p][c] # "none" /\ ((c \in Negotiated /\ c \in matched[p]) \/ Opener[c] = p)
         \/ entry[p][c] = "none" /\ ~Initiates(p, c) /\ c \notin hooked[p]
  BY <1>1, <1>2 DEF FreshInv, AgreedInv, Initiates, Scene, EndInv, CalmInv, Calm,
                    Undisturbed, ShutInv, Follows, SettledInv
<1>4. /\ UNCHANGED fate
      /\ decPad' = [decPad EXCEPT ![p] = @ \cup {c}] /\ sink' = [sink EXCEPT ![p] = @ \cup {c}]
      /\ IF entry[p][c] = "none" THEN entry' = [entry EXCEPT ![p][c] = "CONNECTING"]
                                ELSE UNCHANGED entry
  BY <1>3 DEF PadAdded, Initiates, is_valid_sctp_stream_id, InBand
<1>5. UNCHANGED <<added, hooked, ready, established, worklist, matched, encPad, wire,
                 assoc, offered, asked, sent, got, closing, mainQ, pc, fate>>
  BY <1>4 DEF PadAdded, sessionVars, appVars
<1>6. /\ c \in decPad'[p] /\ c \in sink'[p]
      /\ \A q \in Peer, d \in Channel : q # p \/ d # c =>
            (d \in decPad'[q] <=> d \in decPad[q]) /\ (d \in sink'[q] <=> d \in sink[q])
  BY <1>1, <1>4 DEF TypeOK, AgentTypeOK, SctpTypeOK
<1>7. \/ entry[p][c] # "none" /\ UNCHANGED entry
      \/ entry[p][c] = "none" /\ entry'[p][c] = "CONNECTING"
  BY <1>1, <1>4 DEF TypeOK, AgentTypeOK
<1>8. \A q \in Peer, d \in Channel : q # p \/ d # c => QuietEntry(q, d)
  BY <1>1, <1>4 DEF TypeOK, AgentTypeOK, QuietEntry
<1>9. \A q \in Peer, d \in Channel : q # p \/ d # c => Quiet(q, d)
  BY <1>5, <1>6, <1>8 DEF Quiet, QuietThreads, QuietQueue, QuietWire, QuietPads,
                          QuietSession, QuietApp
<1>10. Quiet(o, c) /\ \A q \in Peer, d \in Channel : d # c => Quiet(q, d)
  BY <1>1, <1>9 DEF Scene
<1>11. \A q \in Peer : ThreadsInv(q)'
  BY <1>1, <1>5 DEF ThreadsInv
<1>12. EndInv(p, c)' /\ EndInv(o, c)'
  <2>1. /\ AskedInv(p, c)' /\ AskedInv(o, c)' /\ SourceInv(p, c)' /\ SourceInv(o, c)'
        /\ SettledInv(p, c)' /\ SettledInv(o, c)' /\ CloseInv(p, c)' /\ CloseInv(o, c)'
    BY <1>1, <1>5 DEF Scene, EndInv, AskedInv, SourceInv, SettledInv, CloseInv, Up
  <2>2. LabelInv(p, c)' /\ LabelInv(o, c)'
    BY <1>1, <1>4, <1>5, <1>7, <1>10 DEF Scene, EndInv, LabelInv, Initiates, Quiet,
                                         QuietEntry
  <2>3. EntryInv(p, c)' /\ EntryInv(o, c)'
    BY <1>1, <1>4, <1>5, <1>7, <1>10 DEF Scene, EndInv, EntryInv, Quiet, QuietEntry
  <2>4. FreshInv(p, c)' /\ FreshInv(o, c)'
    BY <1>1, <1>3, <1>4, <1>5, <1>7, <1>10 DEF Scene, EndInv, FreshInv, Initiates, Quiet,
                                               QuietEntry
  <2>5. AcceptInv(p, c)' /\ AcceptInv(o, c)'
    BY <1>1, <1>4, <1>5, <1>7, <1>10 DEF Scene, EndInv, AcceptInv, Initiates, Acked, Quiet,
                                         QuietEntry
  <2>6. WireInv(p, c)' /\ WireInv(o, c)'
    BY <1>1, <1>4, <1>5, <1>7, <1>10 DEF Scene, EndInv, WireInv, Initiates, Quiet,
                                         QuietEntry
  <2>7. AgreedInv(p, c)' /\ AgreedInv(o, c)'
    BY <1>1, <1>3, <1>4, <1>5, <1>7, <1>10 DEF Scene, EndInv, AgreedInv, Initiates, Quiet,
                                               QuietEntry
  <2>8. CalmInv(p, c)' /\ CalmInv(o, c)'
    BY <1>1, <1>4, <1>5, <1>6, <1>7, <1>10 DEF Scene, EndInv, CalmInv, Undisturbed, Calm,
                                               Initiates, Quiet, QuietEntry, QuietPads
  <2>9. ShutInv(p, c)' /\ ShutInv(o, c)'
    BY <1>1, <1>2, <1>4, <1>5, <1>6, <1>7, <1>10
       DEF Scene, EndInv, ShutInv, Undisturbed, CalmInv, Closes, Follows, Gone, Calm,
           Initiates, SettledInv, Quiet, QuietEntry, QuietPads
  <2>10. ReadyInv(p, c)' /\ ReadyInv(o, c)'
    BY <1>1, <1>2, <1>3, <1>4, <1>5, <1>7, <1>10
       DEF Scene, EndInv, ReadyInv, Top, Quiet, QuietEntry
  <2> QED BY <2>1, <2>2, <2>3, <2>4, <2>5, <2>6, <2>7, <2>8, <2>9, <2>10 DEF EndInv
<1>13. \A q \in Peer, d \in Channel : EndInv(q, d)'
  BY <1>1, <1>10, <1>12, OneChannel
<1> QED BY <1>11, <1>13 DEF Waits

\* A reset finds the entry, or a decoder whose pad the closing end has removed.
LEMMA Wait_PadRemoved ==
    ASSUME WaitInv, NEW p, NEW o, Ends(p, o), NEW c \in Channel,
           PadRemoved(p, c)
    PROVE  Waits'
<1>1. /\ TypeOK /\ p \in Peer /\ o \in Peer /\ Scene(p, o, c)
      /\ \A q \in Peer : ThreadsInv(q)
      /\ \A q \in Peer, d \in Channel : EndInv(q, d)
  BY SceneSet
<1>2. Idle(p, "sctp") /\ pc[p]["sctp"].at = "idle"
  BY DEF PadRemoved, SctpIdle, Idle
<1>3. /\ Takes(p, "RESET", c)
      /\ \A q \in Peer, d \in Channel : q # p \/ d # c => QuietWire(q, d)
  BY <1>1, TakenReset DEF PadRemoved
<1>4. c \in decPad[p] =>
         /\ entry[p][c] # "none"
         /\ entry[p][c] # "CLOSING" =>
               /\ c \in hooked[p] /\ c \in added[p] /\ ~Undisturbed(o, c)
               /\ Main(pc[p], c) \notin {"closedec", "closeenc"}
  BY <1>1, <1>3 DEF Takes, EntryInv, Scene, EndInv, CalmInv, Undisturbed, ShutInv, Closes,
                    Follows, Gone, SettledInv, LabelInv, Up
<1>5. /\ UNCHANGED fate
      /\ \/ (c \notin decPad[p] \/ entry[p][c] = "CLOSING") /\ UNCHANGED <<entry, mainQ, pc>>
         \/ /\ c \in decPad[p] /\ entry[p][c] \in {"CONNECTING", "OPEN"}
            /\ entry' = [entry EXCEPT ![p][c] = "CLOSING"]
            /\ mainQ' = Scheduled(p, "CLOSING", c, 0) /\ Goto(p, "sctp", "teardown", c)
  BY <1>4 DEF PadRemoved
<1>6. UNCHANGED <<added, hooked, ready, established, worklist, matched, sink, encPad,
                 assoc, offered, asked, sent, got, closing, fate>>
  BY <1>5 DEF PadRemoved, sessionVars, appVars
<1>7. /\ c \notin decPad'[p]
      /\ \A q \in Peer, d \in Channel : q # p \/ d # c => (d \in decPad'[q] <=> d \in decPad[q])
  BY <1>1 DEF PadRemoved, TypeOK, SctpTypeOK
<1>8. /\ \/ (c \notin decPad[p] \/ entry[p][c] = "CLOSING") /\ UNCHANGED <<entry, mainQ, pc>>
         \/ /\ c \in decPad[p] /\ entry[p][c] \in {"CONNECTING", "OPEN"} /\ entry'[p][c] = "CLOSING"
            /\ Joins(p, "CLOSING", c) /\ Main(pc'[p], c) = Main(pc[p], c) /\ Torn(pc'[p], c)
      /\ \A q \in Peer, d \in Channel : q # p \/ d # c =>
            QuietEntry(q, d) /\ QuietQueue(q, d) /\ QuietThreads(q, d)
      /\ \A q \in Peer : /\ pc'[q]["sctp"].at \in {pc[q]["sctp"].at, "teardown"}
                         /\ pc'[q]["main"].at = pc[q]["main"].at
  <2>1. CASE UNCHANGED <<entry, mainQ, pc>> /\ (c \notin decPad[p] \/ entry[p][c] = "CLOSING")
    BY <2>1 DEF QuietEntry, QuietQueue, QuietThreads
  <2>2. CASE /\ c \in decPad[p] /\ entry[p][c] \in {"CONNECTING", "OPEN"}
             /\ entry' = [entry EXCEPT ![p][c] = "CLOSING"]
             /\ mainQ' = Scheduled(p, "CLOSING", c, 0) /\ Goto(p, "sctp", "teardown", c)
    <3>1. entry'[p][c] = "CLOSING" /\ \A q \in Peer, d \in Channel : q # p \/ d # c => QuietEntry(q, d)
      BY <1>1, <2>2 DEF TypeOK, AgentTypeOK, QuietEntry
    <3>2. Joins(p, "CLOSING", c) /\ \A q \in Peer, d \in Channel : q # p \/ d # c => QuietQueue(q, d)
      BY <1>1, <2>2, ScheduledJoins DEF TaskKind, ReadyState
    <3>3. /\ Main(pc'[p], c) = Main(pc[p], c) /\ Torn(pc'[p], c)
          /\ \A q \in Peer, d \in Channel : q # p \/ d # c => QuietThreads(q, d)
          /\ \A q \in Peer : /\ pc'[q]["sctp"].at \in {pc[q]["sctp"].at, "teardown"}
                             /\ pc'[q]["main"].at = pc[q]["main"].at
      BY <1>1, <1>2, <2>2, SctpMoves
    <3> QED BY <2>2, <3>1, <3>2, <3>3
  <2> QED BY <1>5, <2>1, <2>2
<1>9. \A q \in Peer, d \in Channel : q # p \/ d # c => Quiet(q, d)
  BY <1>6, <1>3, <1>7, <1>8 DEF Quiet, QuietPads, QuietSession, QuietApp
<1>10. Quiet(o, c) /\ \A q \in Peer, d \in Channel : d # c => Quiet(q, d)
  BY <1>1, <1>9 DEF Scene
<1>11. \A q \in Peer : ThreadsInv(q)'
  BY <1>1, <1>6, <1>8 DEF ThreadsInv
<1>12. EndInv(p, c)' /\ EndInv(o, c)'
  <2>1. AskedInv(p, c)' /\ AskedInv(o, c)'
    BY <1>1, <1>5, <1>6, <1>8, <1>10 DEF Scene, EndInv, AskedInv, Quiet, QuietQueue, Joins
  <2>2. LabelInv(p, c)' /\ LabelInv(o, c)'
    BY <1>1, <1>4, <1>5, <1>6, <1>8, <1>10 DEF Scene, EndInv, LabelInv, Initiates,
                                               SettledInv, Up, Undisturbed, Quiet,
                                               QuietThreads, QuietEntry, Joins
  <2>3. EntryInv(p, c)' /\ EntryInv(o, c)'
    BY <1>1, <1>4, <1>5, <1>6, <1>8, <1>10 DEF Scene, EndInv, EntryInv, Quiet, QuietEntry,
                                               Joins
  <2>4. FreshInv(p, c)' /\ FreshInv(o, c)'
    BY <1>1, <1>3, <1>5, <1>6, <1>8, <1>10 DEF Scene, EndInv, FreshInv, Initiates, Quiet,
                                               QuietThreads, QuietEntry, QuietWire, Takes,
                                               Joins
  <2>5. AcceptInv(p, c)' /\ AcceptInv(o, c)'
    BY <1>1, <1>3, <1>5, <1>6, <1>8, <1>10 DEF Scene, EndInv, AcceptInv, Initiates, Acked,
                                               Quiet, QuietThreads, QuietQueue, QuietEntry,
                                               QuietWire, Takes, Joins
  <2>6. WireInv(p, c)' /\ WireInv(o, c)'
    BY <1>1, <1>3, <1>5, <1>6, <1>8, <1>10, Streams
       DEF Scene, EndInv, WireInv, Initiates, Quiet, QuietEntry, QuietWire, Takes, Joins
  <2>7. AgreedInv(p, c)' /\ AgreedInv(o, c)'
    BY <1>1, <1>3, <1>5, <1>6, <1>8, <1>10 DEF Scene, EndInv, AgreedInv, Quiet, QuietQueue,
                                               QuietEntry, QuietWire, Takes, Joins
  <2>8. SourceInv(p, c)' /\ SourceInv(o, c)'
    BY <1>1, <1>3, <1>5, <1>6, <1>8, <1>10 DEF Scene, EndInv, SourceInv, Up, Quiet,
                                               QuietThreads, QuietQueue, QuietWire, Takes,
                                               Joins
  <2>9. CalmInv(p, c)' /\ CalmInv(o, c)'
    BY <1>1, <1>3, <1>5, <1>6, <1>7, <1>8, <1>10
       DEF Scene, EndInv, CalmInv, Undisturbed, Calm, Initiates, Quiet, QuietThreads,
           QuietQueue, QuietEntry, QuietWire, QuietPads, Takes, Joins
  <2>10. SettledInv(p, c)' /\ SettledInv(o, c)'
    BY <1>1, <1>3, <1>5, <1>6, <1>8, <1>10 DEF Scene, EndInv, SettledInv, Up, Quiet,
                                               QuietThreads, QuietQueue, QuietWire, Takes,
                                               Joins
  <2>11. CloseInv(p, c)' /\ CloseInv(o, c)'
    BY <1>1, <1>5, <1>6, <1>8, <1>10 DEF Scene, EndInv, CloseInv, Quiet, QuietQueue, Joins
  <2>12. ShutInv(p, c)' /\ ShutInv(o, c)'
    BY <1>1, <1>2, <1>3, <1>4, <1>5, <1>6, <1>7, <1>8, <1>10
       DEF Scene, EndInv, ShutInv, Undisturbed, CalmInv, Closes, Follows, Gone, Calm,
           Initiates, SettledInv, WireInv, Quiet, QuietThreads, QuietQueue, QuietEntry,
           QuietWire, QuietPads, Takes, Joins
  <2>13. ReadyInv(p, c)' /\ ReadyInv(o, c)'
    BY <1>1, <1>4, <1>5, <1>6, <1>8, <1>10, Ranks
       DEF Scene, EndInv, ReadyInv, Top, Quiet, QuietQueue, QuietEntry, Joins, ReadyState
  <2> QED BY <2>1, <2>2, <2>3, <2>4, <2>5, <2>6, <2>7, <2>8, <2>9, <2>10, <2>11, <2>12,
             <2>13 DEF EndInv
<1>13. \A q \in Peer, d \in Channel : EndInv(q, d)'
  BY <1>1, <1>10, <1>12, OneChannel
<1> QED BY <1>11, <1>13 DEF Waits

\* The open request finds the entry its pad made.
LEMMA Wait_ReceiveOpen ==
    ASSUME WaitInv, NEW p, NEW o, Ends(p, o), NEW c \in Channel,
           ReceiveOpen(p, c)
    PROVE  Waits'
<1>1. /\ TypeOK /\ p \in Peer /\ o \in Peer /\ Scene(p, o, c)
      /\ \A q \in Peer : ThreadsInv(q)
      /\ \A q \in Peer, d \in Channel : EndInv(q, d)
  BY SceneSet
<1>2. PICK i \in Arriving(p, c) : Receive(p, c, i, "OPEN")
  BY DEF ReceiveOpen
<1>3. c \in decPad[p] /\ c \in sink[p]
  BY DEF Arriving
<1>4. /\ Takes(p, "OPEN", c)
      /\ \A q \in Peer, d \in Channel : q # p \/ d # c => QuietWire(q, d)
  BY <1>1, <1>2, TakenMessage
<1>5. entry[p][c] # "none"
  BY <1>1, <1>3 DEF Scene, EndInv, CalmInv, Calm, ShutInv, Closes, Follows, Gone, LabelInv
<1>6. UNCHANGED <<added, hooked, ready, established, worklist, entry, sink, encPad,
                 decPad, assoc, offered, asked, sent, got, closing, pc, fate>>
  BY <1>5 DEF ReceiveOpen, Receive, sessionVars
<1>7. /\ c \in matched'[p]
      /\ \A q \in Peer, d \in Channel : q # p \/ d # c => (d \in matched'[q] <=> d \in matched[q])
  BY <1>1, <1>5 DEF ReceiveOpen, ParametersTaken, TypeOK, AgentTypeOK
<1>8. /\ Joins(p, "requested", c)
      /\ \A q \in Peer, d \in Channel : q # p \/ d # c => QuietQueue(q, d)
  BY <1>1, <1>5, ScheduledJoins DEF ReceiveOpen, TaskKind
<1>9. \A q \in Peer, d \in Channel : q # p \/ d # c => Quiet(q, d)
  BY <1>6, <1>4, <1>7, <1>8 DEF Quiet, QuietThreads, QuietEntry, QuietPads, QuietSession,
                                QuietApp
<1>10. Quiet(o, c) /\ \A q \in Peer, d \in Channel : d # c => Quiet(q, d)
  BY <1>1, <1>9 DEF Scene
<1>11. \A q \in Peer : ThreadsInv(q)'
  BY <1>1, <1>6 DEF ThreadsInv
<1>12. EndInv(p, c)' /\ EndInv(o, c)'
  <2>1. /\ LabelInv(p, c)' /\ LabelInv(o, c)' /\ EntryInv(p, c)' /\ EntryInv(o, c)'
    BY <1>1, <1>6 DEF Scene, EndInv, LabelInv, EntryInv, Initiates
  <2>2. AskedInv(p, c)' /\ AskedInv(o, c)'
    BY <1>1, <1>6, <1>8, <1>10 DEF Scene, EndInv, AskedInv, Quiet, QuietQueue, Joins
  <2>3. FreshInv(p, c)' /\ FreshInv(o, c)'
    BY <1>1, <1>4, <1>6, <1>10 DEF Scene, EndInv, FreshInv, Initiates, Quiet, QuietWire,
                                   Takes
  <2>4. AcceptInv(p, c)' /\ AcceptInv(o, c)'
    BY <1>1, <1>4, <1>6, <1>8, <1>10 DEF Scene, EndInv, AcceptInv, Initiates, Acked,
                                         WireInv, Quiet, QuietQueue, QuietWire, Takes, Joins
  <2>5. WireInv(p, c)' /\ WireInv(o, c)'
    BY <1>1, <1>4, <1>6, <1>10 DEF Scene, EndInv, WireInv, Initiates, Quiet, QuietWire,
                                   Takes
  <2>6. AgreedInv(p, c)' /\ AgreedInv(o, c)'
    BY <1>1, <1>4, <1>6, <1>7, <1>8, <1>10 DEF Scene, EndInv, AgreedInv, Quiet, QuietQueue,
                                               QuietWire, QuietPads, Takes, Joins
  <2>7. SourceInv(p, c)' /\ SourceInv(o, c)'
    BY <1>1, <1>4, <1>6, <1>8, <1>10 DEF Scene, EndInv, SourceInv, Up, Quiet, QuietQueue,
                                         QuietWire, Takes, Joins
  <2>8. CalmInv(p, c)' /\ CalmInv(o, c)'
    BY <1>1, <1>4, <1>6, <1>8, <1>10 DEF Scene, EndInv, CalmInv, Undisturbed, Calm,
                                         Initiates, Quiet, QuietQueue, QuietWire, Takes,
                                         Joins
  <2>9. SettledInv(p, c)' /\ SettledInv(o, c)'
    BY <1>1, <1>4, <1>6, <1>8, <1>10 DEF Scene, EndInv, SettledInv, Up, Quiet, QuietQueue,
                                         QuietWire, Takes, Joins
  <2>10. CloseInv(p, c)' /\ CloseInv(o, c)'
    BY <1>1, <1>6, <1>8, <1>10 DEF Scene, EndInv, CloseInv, Quiet, QuietQueue, Joins
  <2>11. ShutInv(p, c)' /\ ShutInv(o, c)'
    BY <1>1, <1>4, <1>6, <1>8, <1>10 DEF Scene, EndInv, ShutInv, Undisturbed, CalmInv,
                                         Closes, Follows, Gone, Calm, Initiates, Quiet,
                                         QuietQueue, QuietWire, Takes, Joins
  <2>12. ReadyInv(p, c)' /\ ReadyInv(o, c)'
    BY <1>1, <1>6, <1>8, <1>10 DEF Scene, EndInv, ReadyInv, Top, Quiet, QuietQueue, Joins,
                                   ReadyState
  <2> QED BY <2>1, <2>2, <2>3, <2>4, <2>5, <2>6, <2>7, <2>8, <2>9, <2>10, <2>11, <2>12
             DEF EndInv
<1>13. \A q \in Peer, d \in Channel : EndInv(q, d)'
  BY <1>1, <1>10, <1>12, OneChannel
<1> QED BY <1>11, <1>13 DEF Waits

\* The ACK finds the opener's entry, which waits for it.
LEMMA Wait_ReceiveAck ==
    ASSUME WaitInv, NEW p, NEW o, Ends(p, o), NEW c \in Channel,
           ReceiveAck(p, c)
    PROVE  Waits'
<1>1. /\ TypeOK /\ p \in Peer /\ o \in Peer /\ Scene(p, o, c)
      /\ \A q \in Peer : ThreadsInv(q)
      /\ \A q \in Peer, d \in Channel : EndInv(q, d)
  BY SceneSet
<1>2. PICK i \in Arriving(p, c) : Receive(p, c, i, "ACK")
  BY DEF ReceiveAck
<1>3. c \in decPad[p] /\ c \in sink[p]
  BY DEF Arriving
<1>4. /\ Takes(p, "ACK", c)
      /\ \A q \in Peer, d \in Channel : q # p \/ d # c => QuietWire(q, d)
  BY <1>1, <1>2, TakenMessage
<1>5. entry[p][c] = "CONNECTING" /\ c \in hooked[p] /\ c \in added[p]
  BY <1>1, <1>4 DEF Takes, WireInv, FreshInv, EntryInv, EndInv
<1>6. UNCHANGED <<added, hooked, ready, established, worklist, matched, sink, encPad,
                 decPad, assoc, offered, asked, sent, got, closing, pc, fate>>
  BY <1>5 DEF ReceiveAck, Receive, sessionVars
<1>7. /\ entry'[p][c] = "OPEN"
      /\ \A q \in Peer, d \in Channel : q # p \/ d # c => QuietEntry(q, d)
  BY <1>1, <1>5 DEF ReceiveAck, TypeOK, AgentTypeOK, QuietEntry, Opened
<1>8. /\ Joins(p, "OPEN", c)
      /\ \A q \in Peer, d \in Channel : q # p \/ d # c => QuietQueue(q, d)
  BY <1>1, <1>5, ScheduledJoins DEF ReceiveAck, TaskKind, ReadyState
<1>9. \A q \in Peer, d \in Channel : q # p \/ d # c => Quiet(q, d)
  BY <1>6, <1>4, <1>7, <1>8 DEF Quiet, QuietThreads, QuietPads, QuietSession, QuietApp
<1>10. Quiet(o, c) /\ \A q \in Peer, d \in Channel : d # c => Quiet(q, d)
  BY <1>1, <1>9 DEF Scene
<1>11. \A q \in Peer : ThreadsInv(q)'
  BY <1>1, <1>6 DEF ThreadsInv
<1>12. EndInv(p, c)' /\ EndInv(o, c)'
  <2>1. AskedInv(p, c)' /\ AskedInv(o, c)'
    BY <1>1, <1>6, <1>8, <1>10 DEF Scene, EndInv, AskedInv, Quiet, QuietQueue, Joins
  <2>2. LabelInv(p, c)' /\ LabelInv(o, c)'
    BY <1>1, <1>4, <1>5, <1>6, <1>7, <1>10 DEF Scene, EndInv, LabelInv, Initiates, WireInv,
                                               Quiet, QuietEntry, Takes
  <2>3. EntryInv(p, c)' /\ EntryInv(o, c)'
    BY <1>1, <1>5, <1>6, <1>7, <1>10 DEF Scene, EndInv, EntryInv, Quiet, QuietEntry
  <2>4. FreshInv(p, c)' /\ FreshInv(o, c)'
    BY <1>1, <1>4, <1>6, <1>7, <1>10 DEF Scene, EndInv, FreshInv, Initiates, Quiet,
                                         QuietEntry, QuietWire, Takes
  <2>5. AcceptInv(p, c)' /\ AcceptInv(o, c)'
    BY <1>1, <1>4, <1>6, <1>7, <1>8, <1>10 DEF Scene, EndInv, AcceptInv, Initiates, Acked,
                                               Quiet, QuietQueue, QuietEntry, QuietWire,
                                               Takes, Joins
  <2>6. WireInv(p, c)' /\ WireInv(o, c)'
    BY <1>1, <1>4, <1>6, <1>7, <1>10 DEF Scene, EndInv, WireInv, Initiates, Quiet,
                                         QuietEntry, QuietWire, Takes
  <2>7. AgreedInv(p, c)' /\ AgreedInv(o, c)'
    BY <1>1, <1>4, <1>5, <1>6, <1>7, <1>8, <1>10
       DEF Scene, EndInv, AgreedInv, Quiet, QuietQueue, QuietEntry, QuietWire, Takes, Joins
  <2>8. SourceInv(p, c)' /\ SourceInv(o, c)'
    BY <1>1, <1>4, <1>6, <1>8, <1>10 DEF Scene, EndInv, SourceInv, Up, Quiet, QuietQueue,
                                         QuietWire, Takes, Joins
  <2>9. CalmInv(p, c)' /\ CalmInv(o, c)'
    BY <1>1, <1>4, <1>5, <1>6, <1>7, <1>8, <1>10
       DEF Scene, EndInv, CalmInv, Undisturbed, Calm, Initiates, Quiet, QuietQueue,
           QuietEntry, QuietWire, Takes, Joins
  <2>10. SettledInv(p, c)' /\ SettledInv(o, c)'
    BY <1>1, <1>4, <1>6, <1>8, <1>10 DEF Scene, EndInv, SettledInv, Up, Quiet, QuietQueue,
                                         QuietWire, Takes, Joins
  <2>11. CloseInv(p, c)' /\ CloseInv(o, c)'
    BY <1>1, <1>6, <1>8, <1>10 DEF Scene, EndInv, CloseInv, Quiet, QuietQueue, Joins
  <2>12. ShutInv(p, c)' /\ ShutInv(o, c)'
    BY <1>1, <1>4, <1>5, <1>6, <1>7, <1>8, <1>10
       DEF Scene, EndInv, ShutInv, Undisturbed, CalmInv, Closes, Follows, Gone, Calm,
           Initiates, Quiet, QuietQueue, QuietEntry, QuietWire, Takes, Joins
  <2>13. ReadyInv(p, c)' /\ ReadyInv(o, c)'
    BY <1>1, <1>5, <1>6, <1>7, <1>8, <1>10, Ranks
       DEF Scene, EndInv, ReadyInv, Top, Quiet, QuietQueue, QuietEntry, Joins, ReadyState
  <2> QED BY <2>1, <2>2, <2>3, <2>4, <2>5, <2>6, <2>7, <2>8, <2>9, <2>10, <2>11, <2>12,
             <2>13 DEF EndInv
<1>13. \A q \in Peer, d \in Channel : EndInv(q, d)'
  BY <1>1, <1>10, <1>12, OneChannel
<1> QED BY <1>11, <1>13 DEF Waits

\* A message finds the entry: at the closing end nothing but resets arrives.
LEMMA Wait_ReceiveData ==
    ASSUME WaitInv, NEW p, NEW o, Ends(p, o), NEW c \in Channel,
           ReceiveData(p, c)
    PROVE  Waits'
<1>1. /\ TypeOK /\ p \in Peer /\ o \in Peer /\ Scene(p, o, c)
      /\ \A q \in Peer : ThreadsInv(q)
      /\ \A q \in Peer, d \in Channel : EndInv(q, d)
  BY SceneSet
<1>2. PICK i \in Arriving(p, c) : Receive(p, c, i, "DATA")
  BY DEF ReceiveData
<1>3. c \in decPad[p] /\ c \in sink[p]
  BY DEF Arriving
<1>4. /\ Takes(p, "DATA", c)
      /\ \A q \in Peer, d \in Channel : q # p \/ d # c => QuietWire(q, d)
  BY <1>1, <1>2, TakenMessage
<1>5. entry[p][c] # "none" /\ (entry[p][c] = "OPEN" => c \in added[p])
  BY <1>1, <1>3 DEF EntryInv, Scene, EndInv, CalmInv, Calm, ShutInv, Closes, Follows, Gone,
                    LabelInv
<1>6. UNCHANGED <<added, hooked, ready, established, worklist, entry, matched, sink,
                 encPad, decPad, assoc, offered, asked, sent, got, closing, pc,
                 fate>>
  BY <1>5 DEF ReceiveData, Receive, sessionVars
<1>7. \/ UNCHANGED mainQ
      \/ /\ entry[p][c] = "OPEN" /\ Joins(p, "incoming", c)
         /\ \A q \in Peer, d \in Channel : q # p \/ d # c => QuietQueue(q, d)
  <2>1. \/ UNCHANGED mainQ
        \/ \E j \in DOMAIN wire[p][c] :
              entry[p][c] = "OPEN" /\ mainQ' = Scheduled(p, "incoming", c, wire[p][c][j].n)
    BY DEF ReceiveData, Arriving
  <2>2. \A j \in DOMAIN wire[p][c] : wire[p][c][j].n \in Nat
    BY <1>1, Numbered
  <2> QED BY <1>1, <2>1, <2>2, ScheduledJoins DEF TaskKind
<1>8. \A q \in Peer, d \in Channel : q # p \/ d # c => Quiet(q, d)
  BY <1>6, <1>4, <1>7 DEF Quiet, QuietThreads, QuietQueue, QuietEntry, QuietPads,
                          QuietSession, QuietApp
<1>9. Quiet(o, c) /\ \A q \in Peer, d \in Channel : d # c => Quiet(q, d)
  BY <1>1, <1>8 DEF Scene
<1>10. \A q \in Peer : ThreadsInv(q)'
  BY <1>1, <1>6 DEF ThreadsInv
<1>11. EndInv(p, c)' /\ EndInv(o, c)'
  <2>1. /\ LabelInv(p, c)' /\ LabelInv(o, c)' /\ EntryInv(p, c)' /\ EntryInv(o, c)'
    BY <1>1, <1>6 DEF Scene, EndInv, LabelInv, EntryInv, Initiates
  <2>2. AskedInv(p, c)' /\ AskedInv(o, c)'
    BY <1>1, <1>6, <1>7, <1>9 DEF Scene, EndInv, AskedInv, Quiet, QuietQueue, Joins
  <2>3. FreshInv(p, c)' /\ FreshInv(o, c)'
    BY <1>1, <1>4, <1>6, <1>9 DEF Scene, EndInv, FreshInv, Initiates, Quiet, QuietWire,
                                  Takes
  <2>4. AcceptInv(p, c)' /\ AcceptInv(o, c)'
    BY <1>1, <1>4, <1>6, <1>7, <1>9 DEF Scene, EndInv, AcceptInv, Initiates, Acked, Quiet,
                                        QuietQueue, QuietWire, Takes, Joins
  <2>5. WireInv(p, c)' /\ WireInv(o, c)'
    BY <1>1, <1>4, <1>6, <1>9 DEF Scene, EndInv, WireInv, Initiates, Quiet, QuietWire, Takes
  <2>6. AgreedInv(p, c)' /\ AgreedInv(o, c)'
    BY <1>1, <1>4, <1>6, <1>7, <1>9 DEF Scene, EndInv, AgreedInv, Quiet, QuietQueue,
                                        QuietWire, Takes, Joins
  <2>7. SourceInv(p, c)' /\ SourceInv(o, c)'
    BY <1>1, <1>4, <1>6, <1>7, <1>9 DEF Scene, EndInv, SourceInv, Up, Quiet, QuietQueue,
                                        QuietWire, Takes, Joins
  <2>8. CalmInv(p, c)' /\ CalmInv(o, c)'
    BY <1>1, <1>4, <1>6, <1>7, <1>9 DEF Scene, EndInv, CalmInv, Undisturbed, Calm,
                                        Initiates, Quiet, QuietQueue, QuietWire, Takes,
                                        Joins
  <2>9. SettledInv(p, c)' /\ SettledInv(o, c)'
    BY <1>1, <1>4, <1>6, <1>7, <1>9 DEF Scene, EndInv, SettledInv, Up, Quiet, QuietQueue,
                                        QuietWire, Takes, Joins
  <2>10. CloseInv(p, c)' /\ CloseInv(o, c)'
    BY <1>1, <1>6, <1>7, <1>9 DEF Scene, EndInv, CloseInv, Quiet, QuietQueue, Joins
  <2>11. ShutInv(p, c)' /\ ShutInv(o, c)'
    BY <1>1, <1>4, <1>6, <1>7, <1>9 DEF Scene, EndInv, ShutInv, Undisturbed, CalmInv,
                                        Closes, Follows, Gone, Calm, Initiates, Quiet,
                                        QuietQueue, QuietWire, Takes, Joins
  <2>12. ReadyInv(p, c)' /\ ReadyInv(o, c)'
    BY <1>1, <1>6, <1>7, <1>9 DEF Scene, EndInv, ReadyInv, Top, Quiet, QuietQueue, Joins,
                                  ReadyState
  <2> QED BY <2>1, <2>2, <2>3, <2>4, <2>5, <2>6, <2>7, <2>8, <2>9, <2>10, <2>11, <2>12
             DEF EndInv
<1>12. \A q \in Peer, d \in Channel : EndInv(q, d)'
  BY <1>1, <1>9, <1>11, OneChannel
<1> QED BY <1>10, <1>12 DEF Waits

\* A message is sent while the entry exists: nothing is sent behind a close.
LEMMA Wait_RunSend ==
    ASSUME WaitInv, NEW p, NEW o, Ends(p, o), NEW c \in Channel,
           RunSend(p, c)
    PROVE  Waits'
<1>1. /\ TypeOK /\ p \in Peer /\ o \in Peer /\ Scene(p, o, c)
      /\ \A q \in Peer : ThreadsInv(q)
      /\ \A q \in Peer, d \in Channel : EndInv(q, d)
  BY SceneSet
<1>2. Main(pc[p], c) = "idle" /\ c \in hooked[p]
  BY DEF RunSend, HeadTask, Idle, Main
<1>3. /\ Leaves(p, "send", c)
      /\ \A q \in Peer, d \in Channel : q # p \/ d # c => QuietQueue(q, d)
      /\ entry[p][c] # "none"
  <2>1. Holds(mainQ[p], "send", c)
    BY <1>1, TaskRun DEF RunSend, HeadTask, TypeOK, ThreadTypeOK
  <2>2. entry[p][c] # "none"
    BY <1>1, <1>2, <2>1 DEF Scene, EndInv, CalmInv, Calm, Undisturbed, ShutInv, Closes,
                            SettledInv
  <2> QED BY <1>1, <2>2, PoppedLeaves DEF RunSend
<1>4. ~Carries(wire[o][c], "RESET")
  <2>1. Holds(mainQ[p], "send", c) /\ ~Closes(p, c) /\ c \notin closing[o]
    BY <1>1, <1>3 DEF Leaves, Closes, Scene, EndInv, SettledInv
  <2> QED BY <1>1, <2>1 DEF Scene, EndInv, CalmInv, ShutInv, Undisturbed
<1>5. UNCHANGED <<added, hooked, ready, established, worklist, entry, matched, sink,
                 encPad, decPad, assoc, offered, asked, sent, got, closing, pc,
                 fate>>
  BY <1>3 DEF RunSend, sessionVars, appVars
<1>6. /\ Pushes(o, "DATA", c) \/ UNCHANGED wire
      /\ \A q \in Peer, d \in Channel : q # o \/ d # c => QuietWire(q, d)
  <2>1. wire' = Pushed(p, c, "DATA", Head(mainQ[p]).n) \/ UNCHANGED wire
    BY DEF RunSend
  <2>2. Head(mainQ[p]).n \in Nat
    BY <1>1, HeadType DEF RunSend, HeadTask, TypeOK
  <2> QED BY <1>1, <2>1, <2>2, PushedMessage DEF QuietWire
<1>7. \A q \in Peer, d \in Channel : d # c => Quiet(q, d)
  BY <1>5, <1>3, <1>6 DEF Quiet, QuietThreads, QuietEntry, QuietPads, QuietSession, QuietApp
<1>8. /\ QuietThreads(o, c) /\ QuietQueue(o, c) /\ QuietEntry(o, c)
      /\ QuietPads(o, c) /\ QuietSession(o, c) /\ QuietApp(o, c)
  BY <1>1, <1>5, <1>3 DEF Scene, QuietThreads, QuietEntry, QuietPads, QuietSession, QuietApp
<1>9. \A q \in Peer : ThreadsInv(q)'
  BY <1>1, <1>5 DEF ThreadsInv
<1>10. EndInv(p, c)' /\ EndInv(o, c)'
  <2>1. /\ LabelInv(p, c)' /\ LabelInv(o, c)' /\ EntryInv(p, c)' /\ EntryInv(o, c)'
    BY <1>1, <1>5 DEF Scene, EndInv, LabelInv, EntryInv, Initiates
  <2>2. AskedInv(p, c)' /\ AskedInv(o, c)'
    BY <1>1, <1>3, <1>5, <1>8 DEF Scene, EndInv, AskedInv, QuietQueue, Leaves
  <2>3. FreshInv(p, c)' /\ FreshInv(o, c)'
    BY <1>1, <1>2, <1>3, <1>5, <1>6, <1>8 DEF Scene, EndInv, FreshInv, Initiates, EntryInv,
                                              AcceptInv, AgreedInv, AskedInv, QuietWire,
                                              Leaves, Pushes
  <2>4. AcceptInv(p, c)' /\ AcceptInv(o, c)'
    BY <1>1, <1>2, <1>3, <1>5, <1>6, <1>8 DEF Scene, EndInv, AcceptInv, Initiates, Acked,
                                              QuietQueue, QuietWire, Leaves, Pushes
  <2>5. WireInv(p, c)' /\ WireInv(o, c)'
    BY <1>1, <1>4, <1>5, <1>6, <1>8 DEF Scene, EndInv, WireInv, Initiates, QuietWire, Pushes
  <2>6. AgreedInv(p, c)' /\ AgreedInv(o, c)'
    BY <1>1, <1>3, <1>5, <1>6, <1>8 DEF Scene, EndInv, AgreedInv, QuietQueue, QuietWire,
                                        Leaves, Pushes
  <2>7. SourceInv(p, c)' /\ SourceInv(o, c)'
    BY <1>1, <1>2, <1>3, <1>5, <1>6, <1>8 DEF Scene, EndInv, SourceInv, Up, QuietQueue,
                                              QuietWire, Leaves, Pushes
  <2>8. CalmInv(p, c)' /\ CalmInv(o, c)'
    BY <1>1, <1>3, <1>5, <1>6, <1>8 DEF Scene, EndInv, CalmInv, Undisturbed, Calm,
                                        Initiates, QuietQueue, QuietWire, Leaves, Pushes
  <2>9. SettledInv(p, c)' /\ SettledInv(o, c)'
    BY <1>1, <1>3, <1>5, <1>6, <1>8 DEF Scene, EndInv, SettledInv, Up, QuietQueue,
                                        QuietWire, Leaves, Pushes
  <2>10. CloseInv(p, c)' /\ CloseInv(o, c)'
    BY <1>1, <1>3, <1>5, <1>8 DEF Scene, EndInv, CloseInv, QuietQueue, Leaves
  <2>11. ShutInv(p, c)' /\ ShutInv(o, c)'
    BY <1>1, <1>3, <1>5, <1>6, <1>8 DEF Scene, EndInv, ShutInv, Undisturbed, CalmInv,
                                        Closes, Follows, Gone, Calm, Initiates, QuietQueue,
                                        QuietWire, Leaves, Pushes
  <2>12. ReadyInv(p, c)' /\ ReadyInv(o, c)'
    BY <1>1, <1>3, <1>5, <1>8 DEF Scene, EndInv, ReadyInv, Top, QuietQueue, Leaves
  <2> QED BY <2>1, <2>2, <2>3, <2>4, <2>5, <2>6, <2>7, <2>8, <2>9, <2>10, <2>11, <2>12
             DEF EndInv
<1>11. \A q \in Peer, d \in Channel : EndInv(q, d)'
  BY <1>1, <1>7, <1>10, OneChannel
<1> QED BY <1>9, <1>11 DEF Waits

\* A patient application sends before it closes, and on a channel both agreed on only
\* when both ends are up.
LEMMA Wait_AppSend ==
    ASSUME Patient, WaitInv, NEW p, NEW o, Ends(p, o), NEW c \in Channel,
           AppSend(p, c)
    PROVE  Waits'
<1>1. /\ TypeOK /\ p \in Peer /\ o \in Peer /\ Scene(p, o, c)
      /\ \A q \in Peer : ThreadsInv(q)
      /\ \A q \in Peer, d \in Channel : EndInv(q, d)
  BY SceneSet
<1>2. /\ asked[p][c] > 0 /\ sent[p][c] + 1 =< MaxSend
      /\ c \in Negotiated => c \in hooked[p] /\ c \in hooked[o]
  <2>1. asked[p][c] > 0 /\ sent[p][c] < MaxSend /\ May(SendWhen[RoleOf(p, c)], p, c)
    BY DEF AppSend
  <2>2. ASSUME c \in Negotiated PROVE ready[p][c] = "OPEN" /\ ready[o][c] = "OPEN"
    BY <1>1, <2>1, <2>2 DEF Patient, RoleOf, May
  <2> QED BY <1>1, <2>1, <2>2, OpenIsUp DEF Scene
<1>3. UNCHANGED <<added, hooked, ready, established, worklist, entry, matched, sink,
                 encPad, decPad, wire, assoc, offered, asked, got, closing, pc,
                 fate>>
  BY DEF AppSend, sessionVars, agentVars, sctpVars
<1>4. /\ Joins(p, "send", c)
      /\ \A q \in Peer, d \in Channel : q # p \/ d # c => QuietQueue(q, d)
  <2>1. sent[p][c] + 1 \in Nat
    BY <1>1 DEF Scene
  <2> QED BY <1>1, <2>1, ScheduledJoins DEF AppSend, TaskKind
<1>5. /\ sent'[p][c] = sent[p][c] + 1
      /\ \A q \in Peer, d \in Channel : q # p \/ d # c => sent'[q][d] = sent[q][d]
  BY <1>1 DEF AppSend, TypeOK, AppTypeOK
<1>6. \A q \in Peer, d \in Channel : q # p \/ d # c => Quiet(q, d)
  BY <1>3, <1>4, <1>5 DEF Quiet, QuietThreads, QuietEntry, QuietWire, QuietPads,
                          QuietSession, QuietApp
<1>7. Quiet(o, c) /\ \A q \in Peer, d \in Channel : d # c => Quiet(q, d)
  BY <1>1, <1>6 DEF Scene
<1>8. \A q \in Peer : ThreadsInv(q)'
  BY <1>1, <1>3 DEF ThreadsInv
<1>9. EndInv(p, c)' /\ EndInv(o, c)'
  <2>1. /\ LabelInv(p, c)' /\ LabelInv(o, c)' /\ EntryInv(p, c)' /\ EntryInv(o, c)'
        /\ FreshInv(p, c)' /\ FreshInv(o, c)' /\ WireInv(p, c)' /\ WireInv(o, c)'
    BY <1>1, <1>3 DEF Scene, EndInv, LabelInv, EntryInv, FreshInv, WireInv, Initiates
  <2>2. AskedInv(p, c)' /\ AskedInv(o, c)'
    BY <1>1, <1>2, <1>3, <1>4, <1>5, <1>7 DEF Scene, EndInv, AskedInv, Quiet, QuietQueue,
                                              QuietApp, Joins
  <2>3. AcceptInv(p, c)' /\ AcceptInv(o, c)'
    BY <1>1, <1>3, <1>4, <1>7 DEF Scene, EndInv, AcceptInv, Initiates, Acked, Quiet,
                                  QuietQueue, Joins
  <2>4. AgreedInv(p, c)' /\ AgreedInv(o, c)'
    BY <1>1, <1>2, <1>3, <1>4, <1>7 DEF Scene, EndInv, AgreedInv, Quiet, QuietQueue, Joins
  <2>5. SourceInv(p, c)' /\ SourceInv(o, c)'
    BY <1>1, <1>3, <1>4, <1>7 DEF Scene, EndInv, SourceInv, Up, Quiet, QuietQueue, Joins
  <2>6. CalmInv(p, c)' /\ CalmInv(o, c)'
    BY <1>1, <1>3, <1>4, <1>7 DEF Scene, EndInv, CalmInv, Undisturbed, Calm, Initiates,
                                  Quiet, QuietQueue, Joins
  <2>7. SettledInv(p, c)' /\ SettledInv(o, c)'
    BY <1>1, <1>2, <1>3, <1>4, <1>5, <1>7 DEF Scene, EndInv, SettledInv, Up, Quiet,
                                              QuietQueue, QuietApp, Joins
  <2>8. CloseInv(p, c)' /\ CloseInv(o, c)'
    BY <1>1, <1>2, <1>3, <1>4, <1>7 DEF Scene, EndInv, CloseInv, SettledInv, Quiet,
                                        QuietQueue, Joins
  <2>9. ShutInv(p, c)' /\ ShutInv(o, c)'
    BY <1>1, <1>2, <1>3, <1>4, <1>7 DEF Scene, EndInv, ShutInv, Undisturbed, CalmInv,
                                        Closes, Follows, Gone, Calm, Initiates, SettledInv,
                                        Quiet, QuietQueue, Joins
  <2>10. ReadyInv(p, c)' /\ ReadyInv(o, c)'
    BY <1>1, <1>3, <1>4, <1>7 DEF Scene, EndInv, ReadyInv, Top, Quiet, QuietQueue, Joins,
                                  ReadyState
  <2> QED BY <2>1, <2>2, <2>3, <2>4, <2>5, <2>6, <2>7, <2>8, <2>9, <2>10 DEF EndInv
<1>10. \A q \in Peer, d \in Channel : EndInv(q, d)'
  BY <1>1, <1>7, <1>9, OneChannel
<1> QED BY <1>8, <1>10 DEF Waits

\* A patient application that closes has received all that the other end ever sends
\* and has sent all of its own: what is numbered up to MaxSend and differs is everything.
\* The other application does not close, and only resets are left to come.
LEMMA Wait_AppClose ==
    ASSUME Patient, WaitInv, NEW p, NEW o, Ends(p, o), NEW c \in Channel,
           AppClose(p, c)
    PROVE  Waits'
<1>1. /\ TypeOK /\ p \in Peer /\ o \in Peer /\ Scene(p, o, c)
      /\ \A q \in Peer : ThreadsInv(q)
      /\ \A q \in Peer, d \in Channel : EndInv(q, d)
  BY SceneSet
<1>2. /\ asked[p][c] > 0 /\ c \notin closing[p] /\ c \notin Negotiated
      /\ CloseWhen[RoleOf(p, c)] = "drained" /\ ready[p][c] = "OPEN"
      /\ Len(got[p][c]) = MaxSend /\ sent[p][c] = MaxSend
  <2>1. asked[p][c] > 0 /\ c \notin closing[p] /\ May(CloseWhen[RoleOf(p, c)], p, c)
    BY DEF AppClose
  <2> QED BY <2>1 DEF Patient, RoleOf, May
<1>3. c \in hooked[p] /\ entry[p][c] # "CONNECTING" /\ Up(p, c)
  BY <1>1, <1>2, OpenIsUp
<1>4. c \notin closing[o]
  BY <1>1, <1>2 DEF Patient, RoleOf, Scene, EndInv, SettledInv
<1>5. Up(o, c)
  <2>1. CASE MaxSend > 0
    <3>1. got[p][c] # <<>>
      BY <1>2, <2>1
    <3> QED BY <1>1, <3>1 DEF Scene, EndInv, SourceInv
  <2>2. CASE MaxSend = 0
    <3>1. ~Initiates(p, c)
      BY <1>2, <2>2 DEF Patient, RoleOf, Initiates
    <3>2. c \in hooked[o] /\ Initiates(o, c)
      BY <1>1, <1>2, <3>1 DEF Scene, EndInv, AcceptInv, Initiates
    <3> QED BY <1>1, <1>2, <3>2 DEF EndInv, LabelInv, Up
  <2> QED BY <1>1, <2>1, <2>2 DEF Scene
<1>6. /\ sent[o][c] = MaxSend /\ ~Holds(mainQ[o], "send", c)
      /\ ~Carries(wire[p][c], "DATA")
  <2> DEFINE n == sent[o][c]
             A == Got(got[p][c])
             D == Numbers(wire[p][c], UserData)
             E == Numbers(mainQ[o], Sending(c))
  <2>1. n \in Nat /\ n =< MaxSend /\ MaxSend \in Nat /\ got[p][c] \in Seq(Nat)
    BY <1>1 DEF Scene, EndInv, AskedInv, TypeOK, AppTypeOK
  <2>2. /\ GotRises(c, got[p][c]) /\ Bounded(A, n) /\ Bounded(D, n) /\ Bounded(E, n)
        /\ Ahead(c, A, D) /\ Ahead(c, A, E)
    BY <1>1 DEF WaitInv, OrderInv, OrderAt, Ordered, Scene
  <2>3. n = MaxSend /\ A = 1 .. n
    BY <1>2, <2>1, <2>2, AllThrough
  <2>4. \A m \in Nat : ~Before(c, m, m)
    BY DEF Before
  <2>5. D = {} /\ E = {}
    <3> HIDE DEF A, D, E
    <3>1. ASSUME NEW m \in Nat, m \in D \/ m \in E PROVE FALSE
      <4>1. m \in A
        BY <2>2, <2>3, <3>1 DEF Bounded
      <4> QED BY <2>2, <2>4, <3>1, <4>1 DEF Ahead
    <3> QED BY <3>1 DEF D, E, Numbers
  <2>6. ~Holds(mainQ[o], "send", c)
    <3> SUFFICES ASSUME NEW i \in DOMAIN mainQ[o], mainQ[o][i].kind = "send", mainQ[o][i].ch = c
                 PROVE  FALSE
      BY DEF Holds
    <3>1. mainQ[o] \in Seq(Task)
      BY <1>1 DEF TypeOK, ThreadTypeOK
    <3>2. mainQ[o][i] \in Task
      BY <3>1
    <3>3. mainQ[o][i].n \in E
      BY <3>2 DEF Numbers, Sending, Task
    <3> QED BY <2>5, <3>3
  <2>7. ~Carries(wire[p][c], "DATA")
    <3> SUFFICES ASSUME NEW i \in DOMAIN wire[p][c], wire[p][c][i].type = "DATA" PROVE FALSE
      BY DEF Carries
    <3>1. wire[p][c] \in Seq(Message)
      BY <1>1 DEF TypeOK, SctpTypeOK
    <3>2. wire[p][c][i] \in Message
      BY <3>1
    <3>3. wire[p][c][i].n \in D
      BY <3>2 DEF Numbers, UserData, Message
    <3> QED BY <2>5, <3>3
  <2> QED BY <2>3, <2>6, <2>7
<1>7. OnlyResets(wire[p][c])
  <2>1. wire[p][c] \in Seq(Message)
    BY <1>1 DEF TypeOK, SctpTypeOK
  <2>2. ~Carries(wire[p][c], "OPEN") /\ ~Carries(wire[p][c], "ACK")
    BY <1>1, <1>2, <1>3 DEF EndInv, WireInv, AcceptInv
  <2> QED BY <1>6, <2>1, <2>2, Streams
<1>8. UNCHANGED <<added, hooked, ready, established, worklist, entry, matched, sink,
                 encPad, decPad, wire, assoc, offered, asked, sent, got, pc, fate>>
  BY DEF AppClose, sessionVars, agentVars, sctpVars
<1>9. /\ Joins(p, "close", c)
      /\ \A q \in Peer, d \in Channel : q # p \/ d # c => QuietQueue(q, d)
  BY <1>1, ScheduledJoins DEF AppClose, TaskKind
<1>10. /\ c \in closing'[p]
      /\ \A q \in Peer, d \in Channel : q # p \/ d # c => (d \in closing'[q] <=> d \in closing[q])
  BY <1>1 DEF AppClose, TypeOK, AppTypeOK
<1>11. \A q \in Peer, d \in Channel : q # p \/ d # c => Quiet(q, d)
  BY <1>8, <1>9, <1>10 DEF Quiet, QuietThreads, QuietEntry, QuietWire, QuietPads,
                           QuietSession, QuietApp
<1>12. Quiet(o, c) /\ \A q \in Peer, d \in Channel : d # c => Quiet(q, d)
  BY <1>1, <1>11 DEF Scene
<1>13. \A q \in Peer : ThreadsInv(q)'
  BY <1>1, <1>8 DEF ThreadsInv
<1>14. EndInv(p, c)' /\ EndInv(o, c)'
  <2>1. /\ EntryInv(p, c)' /\ EntryInv(o, c)' /\ FreshInv(p, c)' /\ FreshInv(o, c)'
        /\ WireInv(p, c)' /\ WireInv(o, c)'
    BY <1>1, <1>8 DEF Scene, EndInv, EntryInv, FreshInv, WireInv, Initiates
  <2>2. AskedInv(p, c)' /\ AskedInv(o, c)'
    BY <1>1, <1>8, <1>9, <1>12 DEF Scene, EndInv, AskedInv, Quiet, QuietQueue, Joins
  <2>3. LabelInv(p, c)' /\ LabelInv(o, c)'
    BY <1>1, <1>8, <1>10, <1>12 DEF Scene, EndInv, LabelInv, Initiates, Quiet, QuietApp
  <2>4. AcceptInv(p, c)' /\ AcceptInv(o, c)'
    BY <1>1, <1>8, <1>9, <1>12 DEF Scene, EndInv, AcceptInv, Initiates, Acked, Quiet,
                                   QuietQueue, Joins
  <2>5. AgreedInv(p, c)' /\ AgreedInv(o, c)'
    BY <1>1, <1>8, <1>9, <1>12 DEF Scene, EndInv, AgreedInv, Quiet, QuietQueue, Joins
  <2>6. SourceInv(p, c)' /\ SourceInv(o, c)'
    BY <1>1, <1>8, <1>9, <1>12 DEF Scene, EndInv, SourceInv, Up, Quiet, QuietQueue, Joins
  <2>7. CalmInv(p, c)' /\ CalmInv(o, c)'
    BY <1>1, <1>2, <1>8, <1>9, <1>10, <1>12 DEF Scene, EndInv, CalmInv, Undisturbed, Calm,
                                                Initiates, Quiet, QuietQueue, QuietApp,
                                                Joins
  <2>8. SettledInv(p, c)' /\ SettledInv(o, c)'
    BY <1>1, <1>2, <1>3, <1>4, <1>5, <1>6, <1>7, <1>8, <1>9, <1>10, <1>12
       DEF Scene, EndInv, SettledInv, Up, Quiet, QuietQueue, QuietApp, Joins
  <2>9. CloseInv(p, c)' /\ CloseInv(o, c)'
    BY <1>1, <1>2, <1>8, <1>9, <1>10, <1>12 DEF Scene, EndInv, CloseInv, Quiet, QuietQueue,
                                                QuietApp, Joins
  <2>10. ShutInv(p, c)' /\ ShutInv(o, c)'
    BY <1>1, <1>8, <1>9, <1>10, <1>12 DEF Scene, EndInv, ShutInv, Undisturbed, CalmInv,
                                          Closes, Follows, Gone, Calm, Initiates, Quiet,
                                          QuietQueue, QuietApp, Joins
  <2>11. ReadyInv(p, c)' /\ ReadyInv(o, c)'
    BY <1>1, <1>8, <1>9, <1>12 DEF Scene, EndInv, ReadyInv, Top, Quiet, QuietQueue, Joins,
                                   ReadyState
  <2> QED BY <2>1, <2>2, <2>3, <2>4, <2>5, <2>6, <2>7, <2>8, <2>9, <2>10, <2>11 DEF EndInv
<1>15. \A q \in Peer, d \in Channel : EndInv(q, d)'
  BY <1>1, <1>12, <1>14, OneChannel
<1> QED BY <1>13, <1>15 DEF Waits

----------------------------------------------------------------------------
(* The invariant, for any number of steps                                   *)

\* At first no application has asked for a channel.
LEMMA WaitInv_Init == Init => WaitInv
<1> SUFFICES ASSUME Init PROVE WaitInv
  OBVIOUS
<1>1. ChannelInv /\ OrderInv
  BY TypeOK_Init, OrderInv_Init DEF Init, ChannelInv, OpenHasChannel, WorksOnAdded
<1>2. ASSUME NEW p \in Peer PROVE ThreadsInv(p)
  BY DEF Init, ThreadsInv, Thread
<1>3. ASSUME NEW p \in Peer, NEW c \in Channel PROVE EndInv(p, c)
  <2>1. Other(p) \in Peer /\ MaxSend \in Nat
    BY OtherType, BoundAssumption
  <2>2. ASSUME NEW q \in Peer
        PROVE  /\ Main(pc[q], c) = "idle" /\ ~Torn(pc[q], c)
               /\ \A k : ~Holds(mainQ[q], k, c)
               /\ LastClose(mainQ[q], c) /\ Climbs(mainQ[q], c, 0, 0)
               /\ wire[q][c] = <<>> /\ \A t : ~Carries(wire[q][c], t)
    BY DEF Init, Main, Torn, Thread, Holds, LastClose, Climbs, Carries
  <2>3. ASSUME NEW q \in Peer
        PROVE  /\ entry[q][c] = "none" /\ ready[q][c] = "CONNECTING"
               /\ c \notin added[q] /\ c \notin hooked[q] /\ c \notin closing[q]
               /\ c \notin offered[q] /\ c \notin sink[q] /\ c \notin encPad[q]
               /\ c \notin decPad[q]
               /\ asked[q][c] = 0 /\ sent[q][c] = 0 /\ got[q][c] = <<>>
    BY DEF Init
  <2>4. AskedInv(p, c) /\ LabelInv(p, c) /\ EntryInv(p, c) /\ FreshInv(p, c)
    BY <2>1, <2>2, <2>3 DEF AskedInv, LabelInv, EntryInv, FreshInv
  <2>5. AcceptInv(p, c) /\ AgreedInv(p, c) /\ SourceInv(p, c)
    <3>1. wire[Other(p)][c] = <<>> /\ wire[p][c] = <<>> /\ \A k : ~Holds(mainQ[p], k, c)
      BY <2>1, <2>2
    <3>2. entry[p][c] = "none" /\ asked[p][c] = 0 /\ c \notin offered[p] /\ got[p][c] = <<>>
      BY <2>3
    <3>3. c \notin hooked[Other(p)] /\ \A t : ~Carries(wire[p][c], t)
      BY <2>1, <2>2, <2>3
    <3> QED BY <3>1, <3>2, <3>3 DEF AcceptInv, AgreedInv, SourceInv
  <2>6. WireInv(p, c)
    BY <2>2 DEF WireInv, Front1, ResetsLast
  <2>7. CalmInv(p, c) /\ SettledInv(p, c) /\ CloseInv(p, c) /\ ShutInv(p, c)
    BY <2>1, <2>2, <2>3 DEF CalmInv, Calm, SettledInv, CloseInv, ShutInv, Undisturbed
  <2>8. ReadyInv(p, c)
    BY <2>2, <2>3, Ranks DEF ReadyInv, Top
  <2> QED BY <2>4, <2>5, <2>6, <2>7, <2>8 DEF EndInv
<1> QED BY <1>1, <1>2, <1>3 DEF WaitInv, Waits

\* Every step keeps it, of applications that wait.
LEMMA WaitInv_Next == ASSUME Patient, WaitInv, [Next]_vars PROVE WaitInv'
<1>1. ChannelInv' /\ OrderInv'
  BY ChannelInv_Next, OrderInv_Next DEF WaitInv, ChannelInv
<1> SUFFICES Waits'
  BY <1>1 DEF WaitInv
<1>2. CASE UNCHANGED vars
  BY <1>2, Wait_Association
<1>3. CASE Next
  <2>1. PICK p \in Peer :
          \/ AssociationUp(p)
          \/ AssociationDown(p)
          \/ \E c \in Channel :
                Application(p, c) \/ MainLoop(p, c) \/ SctpThread(p, c) \/ Stream(p, c)
    BY <1>3 DEF Next
  <2>2. CASE AssociationUp(p) \/ AssociationDown(p)
    BY <2>2, Wait_Association
  <2>3. CASE \E c \in Channel :
               Application(p, c) \/ MainLoop(p, c) \/ SctpThread(p, c) \/ Stream(p, c)
    <3>1. PICK c \in Channel :
            Application(p, c) \/ MainLoop(p, c) \/ SctpThread(p, c) \/ Stream(p, c)
      BY <2>3
    <3>2. PICK o : Ends(p, o)
      BY TwoEnds
    <3>3. ~RunCloseUnhooked(p, c) /\ ~VisitNext(p, c) /\ ~OnNewDataChannel(p, "sctp", c)
      BY NeverDone
    <3>4. CASE Application(p, c)
      <4>1. CASE AppAdd(p, c)
        BY <3>2, <4>1, Wait_AppAdd
      <4>2. CASE AppSend(p, c)
        BY <3>2, <4>2, Wait_AppSend
      <4>3. CASE AppClose(p, c)
        BY <3>2, <4>3, Wait_AppClose
      <4> QED BY <3>4, <4>1, <4>2, <4>3 DEF Application
    <3>5. CASE OnNewDataChannel(p, "main", c)
      <4>1. CASE LookUpEntry(p, "main", c)
        BY <3>2, <4>1, Wait_LookUpEntry
      <4>2. CASE CreateEntry(p, "main", c)
        BY <3>2, <4>2, Wait_CreateEntry
      <4>3. CASE OpenRequest(p, "main", c)
        BY <3>2, <4>3, Wait_OpenRequest
      <4>4. CASE AdoptEntry(p, "main", c)
        BY <3>2, <4>4, Wait_AdoptEntry
      <4>5. CASE CompleteAndAck(p, "main", c)
        BY <3>2, <4>5, Wait_CompleteAndAck
      <4>6. CASE SetOpen(p, "main", c)
        BY <3>2, <4>6, Wait_SetOpen
      <4> QED BY <3>5, <4>1, <4>2, <4>3, <4>4, <4>5, <4>6 DEF OnNewDataChannel
    <3>6. CASE MainLoop(p, c) /\ ~OnNewDataChannel(p, "main", c)
      <4>1. CASE RunAdd(p, c)
        BY <3>2, <4>1, Wait_RunAdd
      <4>2. CASE RunSendUnhooked(p, c)
        BY <3>2, <4>2, Wait_RunSendUnhooked
      <4>3. CASE RunSend(p, c)
        BY <3>2, <4>3, Wait_RunSend
      <4>4. CASE RunClose(p, c)
        BY <3>2, <4>4, Wait_RunClose
      <4>5. CASE CloseDecoder(p, c)
        BY <3>2, <4>5, Wait_CloseDecoder
      <4>6. CASE CloseEncoder(p, c)
        BY <3>2, <4>6, Wait_CloseEncoder
      <4>7. CASE RunReady(p, c)
        BY <3>2, <4>7, Wait_RunReady
      <4>8. CASE RunRequested(p, c)
        BY <3>2, <4>8, Wait_RunRequested
      <4>9. CASE RunIncoming(p, c)
        BY <3>2, <4>9, Wait_RunIncoming
      <4> QED BY <3>3, <3>6, <4>1, <4>2, <4>3, <4>4, <4>5, <4>6, <4>7, <4>8, <4>9 DEF MainLoop
    <3>7. CASE SctpThread(p, c)
      <4>1. CASE PadAdded(p, c)
        BY <3>2, <4>1, Wait_PadAdded
      <4>2. CASE PadRemoved(p, c)
        BY <3>2, <4>2, Wait_PadRemoved
      <4>3. CASE TearDown(p, c)
        BY <3>2, <4>3, Wait_TearDown
      <4> QED BY <3>3, <3>7, <4>1, <4>2, <4>3 DEF SctpThread
    <3>8. CASE Stream(p, c)
      <4>1. CASE ReceiveOpen(p, c)
        BY <3>2, <4>1, Wait_ReceiveOpen
      <4>2. CASE ReceiveAck(p, c)
        BY <3>2, <4>2, Wait_ReceiveAck
      <4>3. CASE ReceiveData(p, c)
        BY <3>2, <4>3, Wait_ReceiveData
      <4> QED BY <3>8, <4>1, <4>2, <4>3 DEF Stream
    <3> QED BY <3>1, <3>4, <3>5, <3>6, <3>7, <3>8
  <2> QED BY <2>1, <2>2, <2>3
<1> QED BY <1>2, <1>3

\* Where the applications wait, every lookup of an entry finds it and every pointer a
\* handler kept to one still has it, for any channels, whichever of them close, and
\* however the threads and the messages of the two peers come between each other.
THEOREM EntriesFoundPatient == ASSUME Patient PROVE Spec => []EntriesFound
<1>1. Init => WaitInv
  BY WaitInv_Init
<1>2. WaitInv /\ [Next]_vars => WaitInv'
  BY WaitInv_Next
<1>3. WaitInv => EntriesFound
  BY DEF WaitInv, Waits, ThreadsInv, EntriesFound
<1> QED BY <1>1, <1>2, <1>3, PTL DEF Spec

\* The ready state the applications see only moves towards CLOSED, although it is
\* scheduled from two threads and by the handlers of the other end's messages.
THEOREM ReadyForwardPatient == ASSUME Patient PROVE Spec => ReadyForward
<1>1. Init => WaitInv
  BY WaitInv_Init
<1>2. WaitInv /\ [Next]_vars => WaitInv'
  BY WaitInv_Next
<1>3. ASSUME WaitInv, [Next]_vars
      PROVE  \A p \in Peer, c \in Channel : Rank(ready'[p][c]) >= Rank(ready[p][c])
  <2>1. TypeOK /\ ready \in [Peer -> [Channel -> ReadyState]]
    BY <1>3 DEF WaitInv, ChannelInv, TypeOK, SessionTypeOK
  <2>2. CASE UNCHANGED ready
    <3>1. \A p \in Peer, c \in Channel : Rank(ready[p][c]) \in Nat
      BY <2>1, Ranks
    <3> QED BY <2>2, <3>1
  <2>3. CASE \E q \in Peer, d \in Channel : RunReady(q, d)
    <3>1. PICK q \in Peer, d \in Channel : RunReady(q, d)
      BY <2>3
    <3>2. PICK state \in ReadyState :
            HeadTask(q, state, d) /\ PopTask(q) /\ ready' = [ready EXCEPT ![q][d] = state]
      BY <3>1 DEF RunReady
    <3>3. Climbs(mainQ[q], d, Rank(ready[q][d]), Top(q, d))
      BY <1>3 DEF WaitInv, Waits, EndInv, ReadyInv
    <3>4. Rank(ready[q][d]) =< Rank(state)
      <4>1. Leaves(q, state, d)
        BY <2>1, <3>2, PoppedLeaves
      <4> QED BY <3>3, <4>1 DEF Leaves
    <3>5. \A p \in Peer, c \in Channel :
             Rank(ready[p][c]) \in Nat
             /\ (ready'[p][c] = ready[p][c] \/ (p = q /\ c = d /\ ready'[p][c] = state))
      BY <2>1, <3>2, Ranks
    <3>6. Rank(state) \in Nat
      BY Ranks
    <3> QED BY <3>4, <3>5, <3>6
  <2>4. UNCHANGED ready \/ \E q \in Peer, d \in Channel : RunReady(q, d)
    <3>1. ASSUME NEW p \in Peer, NEW c \in Channel,
                 Application(p, c) \/ MainLoop(p, c) \/ SctpThread(p, c) \/ Stream(p, c)
          PROVE  UNCHANGED ready \/ RunReady(p, c)
      <4>1. ASSUME NEW t \in Thread, OnNewDataChannel(p, t, c) PROVE UNCHANGED ready
        BY <4>1 DEF OnNewDataChannel, LookUpEntry, CreateEntry, OpenRequest, AdoptEntry,
                    CompleteAndAck, SetOpen, sessionVars
      <4>2. CASE Application(p, c)
        BY <4>2 DEF Application, AppAdd, AppSend, AppClose, sessionVars
      <4>3. CASE MainLoop(p, c)
        BY <4>1, <4>3 DEF MainLoop, RunAdd, RunSendUnhooked, RunSend, RunCloseUnhooked, RunClose,
                          CloseDecoder, CloseEncoder, RunRequested, RunIncoming, sessionVars,
                          Thread
      <4>4. CASE SctpThread(p, c)
        BY <4>1, <4>4 DEF SctpThread, VisitNext, PadAdded, PadRemoved, TearDown, sessionVars,
                          Thread
      <4>5. CASE Stream(p, c)
        BY <4>5 DEF Stream, ReceiveOpen, ReceiveAck, ReceiveData, Receive, sessionVars
      <4> QED BY <3>1, <4>2, <4>3, <4>4, <4>5
    <3>2. CASE Next
      BY <3>1, <3>2 DEF Next, AssociationUp, AssociationDown, sessionVars
    <3> QED BY <1>3, <3>2 DEF vars, sessionVars
  <2> QED BY <2>2, <2>3, <2>4
<1> QED BY <1>1, <1>2, <1>3, PTL DEF Spec, ReadyForward

============================================================================
