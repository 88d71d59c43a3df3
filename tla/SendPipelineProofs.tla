------------------------- MODULE SendPipelineProofs -------------------------
(* Proofs about SendPipeline for any sources, payloads and number of calls.  *)
EXTENDS SendPipeline, TLAPS

\* The tasks on_dtls_enc_key_set scheduled, and those the application scheduled.
Waiting == {i \in DOMAIN tasks : tasks[i].op = "maybe_handle"}
Own == {i \in DOMAIN tasks : tasks[i].op # "maybe_handle"}
Single(places) == \A i, j \in places : i = j

----------------------------------------------------------------------------
(* The inductive invariant *)

\* The keys schedule one task at most; a task of the application that goes on to
\* look at pending has found, or left, no source linked.
QueueInv ==
    /\ Single(Waiting)
    /\ at # "start" => tasks # <<>> /\ ~aborted
    /\ at # "start" /\ Head(tasks).op # "maybe_handle" => linked = None
    /\ aborted => tasks # <<>>

\* Before add_session nothing is there, and before the keys nothing is built.
NothingBuilt == Waiting = {} /\ inputBin = None /\ linked = None /\ strays = 0
StageInv ==
    /\ ~added => ~pending /\ ~keyed /\ keySignals = 0 /\ at = "start" /\ NothingBuilt
    /\ pending => at # "build" /\ NothingBuilt
    /\ strays # 0 => strays = 1 /\ Waiting = {}

\* Bins carry what is set, and only a source that fits its payload is linked.
BuiltInv ==
    /\ inputBin # None /\ ~aborted => inputBin = sendPayload
    /\ linked # None => /\ linked = sendSource /\ inputBin = sendPayload
                       /\ inputBin # None /\ SameKind(sendSource, sendPayload)

\* A start that is due is on its way: in the running task or in one to come.
StartInv ==
    added /\ ~pending /\ ~aborted /\ Sendable /\ linked = None =>
        at # "start" \/ Waiting # {}

\* RTCP is never blocked alone, and keys mean that RTP is open.
BlockInv ==
    /\ "rtp" \in blocked \/ blocked = {}
    /\ keyed \/ keySignals # 0 \/ (added /\ ~pending) => blocked = {}

\* A careful application has at most one task, which replaces nothing that is
\* not being sent.
Harmless(task) ==
    /\ task.op = "set_send_payload" =>
          ~added \/ sendPayload \in {None, task.value} \/ linked # None
    /\ task.op = "set_send_source" =>
          ~added \/ sendSource \in {None, task.value} \/ linked # None
CarefulInv ==
    careful =>
        /\ ~aborted
        /\ Single(Own)
        /\ \A i \in Own : at = "start" \/ i # 1 => Harmless(tasks[i])

PipelineInv ==
    TypeOK /\ QueueInv /\ StageInv /\ BuiltInv /\ StartInv /\ BlockInv /\ CarefulInv

----------------------------------------------------------------------------
(* Facts about the main loop's tasks *)

\* Scheduling puts a task behind the others.
LEMMA Scheduled ==
    ASSUME tasks \in Seq(Task), NEW op, NEW value, [op |-> op, value |-> value] \in Task,
           Schedule(op, value)
    PROVE  /\ tasks' \in Seq(Task) /\ tasks' # <<>>
           /\ tasks # <<>> => Head(tasks') = Head(tasks)
           /\ op = "maybe_handle" => Own' = Own /\ Waiting' = Waiting \cup {Len(tasks) + 1}
           /\ op # "maybe_handle" => Waiting' = Waiting /\ Own' = Own \cup {Len(tasks) + 1}
           /\ Len(tasks) + 1 \notin Own \cup Waiting
           /\ Len(tasks) + 1 # 1 \/ tasks = <<>>
           /\ \A i \in Own : tasks'[i] = tasks[i]
           /\ tasks'[Len(tasks) + 1] = [op |-> op, value |-> value]
<1> DEFINE task == [op |-> op, value |-> value]
<1>1. tasks' = Append(tasks, task) /\ tasks' \in Seq(Task) /\ Len(tasks') = Len(tasks) + 1
  BY DEF Schedule
<1>2. Len(tasks) \in Nat /\ DOMAIN tasks = 1..Len(tasks) /\ DOMAIN tasks' = 1..Len(tasks) + 1
  BY <1>1
<1>3. \A i \in DOMAIN tasks : tasks'[i] = tasks[i]
  BY <1>1, <1>2
<1>4. tasks'[Len(tasks) + 1] = task
  BY <1>1, <1>2
<1>5. DOMAIN tasks' = DOMAIN tasks \cup {Len(tasks) + 1} /\ Len(tasks) + 1 \notin DOMAIN tasks
  BY <1>2
<1>6. task.op = op
  OBVIOUS
<1>7. Waiting' = Waiting \cup (IF op = "maybe_handle" THEN {Len(tasks) + 1} ELSE {})
  BY <1>3, <1>4, <1>5, <1>6 DEF Waiting
<1>8. Own' = Own \cup (IF op # "maybe_handle" THEN {Len(tasks) + 1} ELSE {})
  BY <1>3, <1>4, <1>5, <1>6 DEF Own
<1>9. tasks' # <<>> /\ (tasks # <<>> => Head(tasks') = Head(tasks))
  BY <1>1, <1>2
<1>10. Len(tasks) + 1 # 1 \/ tasks = <<>>
  BY <1>2
<1>11. Own \cup Waiting \subseteq DOMAIN tasks
  BY DEF Own, Waiting
<1> HIDE DEF task
<1> QED BY <1>1, <1>3, <1>4, <1>5, <1>7, <1>8, <1>9, <1>10, <1>11 DEF task, Own

\* The task that runs is the first one, and the application's or scheduled.
LEMMA Running ==
    ASSUME tasks \in Seq(Task), tasks # <<>>
    PROVE  /\ Head(tasks) \in Task /\ Head(tasks) = tasks[1]
           /\ IF Head(tasks).op = "maybe_handle" THEN 1 \in Waiting ELSE 1 \in Own
  BY DEF Own, Waiting

\* Finishing it moves the others up.
LEMMA Finished ==
    ASSUME tasks \in Seq(Task), tasks # <<>>, Finish
    PROVE  /\ at' = "start" /\ tasks' \in Seq(Task)
           /\ Waiting' = {i \in Nat \ {0} : i + 1 \in Waiting}
           /\ Own' = {i \in Nat \ {0} : i + 1 \in Own}
           /\ \A i \in Own' : tasks'[i] = tasks[i + 1]
<1>1. at' = "start" /\ tasks' = Tail(tasks)
  BY DEF Finish
<1>2. /\ tasks' \in Seq(Task) /\ Len(tasks) \in Nat \ {0}
      /\ DOMAIN tasks = 1..Len(tasks) /\ DOMAIN tasks' = 1..Len(tasks) - 1
  BY <1>1
<1>3. \A i \in DOMAIN tasks' : tasks'[i] = tasks[i + 1]
  BY <1>1, <1>2
<1>4. DOMAIN tasks' = {i \in Nat \ {0} : i + 1 \in DOMAIN tasks}
  BY <1>2
<1>5. Waiting' = {i \in Nat \ {0} : i + 1 \in Waiting}
  BY <1>3, <1>4 DEF Waiting
<1>6. Own' = {i \in Nat \ {0} : i + 1 \in Own}
  BY <1>3, <1>4 DEF Own
<1> QED BY <1>1, <1>2, <1>3, <1>4, <1>5, <1>6 DEF Own

\* What is in the queue, by whose it is, are positive numbers.
LEMMA Places ==
    ASSUME tasks \in Seq(Task)
    PROVE  Own \subseteq Nat \ {0} /\ Waiting \subseteq Nat \ {0}
  BY DEF Own, Waiting

----------------------------------------------------------------------------
(* Every step preserves the invariant: one lemma per part *)

\* Types.  The values of a task are those its set operation takes.
LEMMA TypeStep ==
    ASSUME TypeOK, QueueInv, [Next]_vars
    PROVE  TypeOK'
<1>1. ASSUME ~aborted, NEW payload \in Payload \cup {None}, SetSendPayload(payload)
      PROVE  TypeOK'
  <2>1. [op |-> "set_send_payload", value |-> payload] \in Task
    BY <1>1 DEF Task
  <2>2. Schedule("set_send_payload", payload) => tasks' \in Seq(Task)
    BY <2>1 DEF Schedule, TypeOK
  <2> QED BY <1>1, <2>2, BoundAssumption DEF SetSendPayload, propertyVars, sessionVars,
             iceVars, pipelineVars, Call, TypeOK
<1>2. ASSUME ~aborted, NEW source \in Source \cup {None}, SetSendSource(source)
      PROVE  TypeOK'
  <2>1. [op |-> "set_send_source", value |-> source] \in Task
    BY <1>2 DEF Task
  <2>2. Schedule("set_send_source", source) => tasks' \in Seq(Task)
    BY <2>1 DEF Schedule, TypeOK
  <2> QED BY <1>2, <2>2, BoundAssumption DEF SetSendSource, propertyVars, sessionVars,
             iceVars, pipelineVars, Call, TypeOK
<1>3. ASSUME ~aborted, AddSession
      PROVE  TypeOK'
  <2>1. [op |-> "add_session", value |-> None] \in Task
    BY <1>3 DEF Task
  <2>2. Schedule("add_session", None) => tasks' \in Seq(Task)
    BY <2>1 DEF Schedule, TypeOK
  <2> QED BY <1>3, <2>2, BoundAssumption DEF AddSession, propertyVars, sessionVars,
             iceVars, pipelineVars, Call, TypeOK
<1>4. ASSUME ~aborted, NEW value \in BOOLEAN, SetRtcpMux(value)
      PROVE  TypeOK'
  BY <1>4, BoundAssumption DEF SetRtcpMux, loopVars, propertyVars, sessionVars, iceVars,
     pipelineVars, Call, TypeOK
<1>5. ASSUME ~aborted, OnRtcpMuxChanged
      PROVE  TypeOK'
  <2>1. rtcpVia' \in Component \cup {"none"}
    <3>1. CASE rtcpBin /\ rtcpVia # "none" /\ mux
      BY <1>5, <3>1 DEF OnRtcpMuxChanged, Component
    <3>2. CASE rtcpBin /\ rtcpVia # "none" /\ ~mux
      BY <1>5, <3>2 DEF OnRtcpMuxChanged, Component
    <3>3. CASE ~(rtcpBin /\ rtcpVia # "none")
      BY <1>5, <3>3 DEF OnRtcpMuxChanged, TypeOK
    <3> QED BY <3>1, <3>2, <3>3
  <2>2. notifying' \in BOOLEAN
    BY <1>5 DEF OnRtcpMuxChanged
  <2>3. UNCHANGED <<calls, mux, careful, loopVars, propertyVars, sessionVars, pending, iceVars,
                    inputBin, linked, strays>>
    BY <1>5 DEF OnRtcpMuxChanged
  <2> QED BY <2>1, <2>2, <2>3 DEF loopVars, propertyVars, sessionVars, iceVars, TypeOK
<1>6. ASSUME ~aborted, RunSetSendPayload
      PROVE  TypeOK'
  <2>1. tasks # <<>> /\ Head(tasks) \in Task /\ Head(tasks).op # "maybe_handle"
    BY <1>6, Running DEF RunSetSendPayload, Runs, TypeOK
  <2>2. sendPayload' \in Payload \cup {None}
    BY <1>6, <2>1 DEF RunSetSendPayload, Runs, Task
  <2>3. tasks' \in Seq(Task) /\ at' \in {"start", "check", "build"}
    BY <1>6, <2>1, Finished DEF RunSetSendPayload, OnNew, GoTo, TypeOK
  <2>4. /\ aborted' \in BOOLEAN /\ inputBin' \in Payload \cup {None}
        /\ linked' \in Source \cup {None} /\ strays' = strays /\ rtcpVia' = rtcpVia
    BY <1>6 DEF RunSetSendPayload, OnNew, RemoveExisting, pipelineVars, TypeOK
  <2>5. UNCHANGED <<appVars, sendSource, sessionVars, pending, iceVars>>
    BY <1>6 DEF RunSetSendPayload
  <2> QED BY <2>2, <2>3, <2>4, <2>5 DEF appVars, sessionVars, iceVars, TypeOK
<1>7. ASSUME ~aborted, RunSetSendSource
      PROVE  TypeOK'
  <2>1. tasks # <<>> /\ Head(tasks) \in Task /\ Head(tasks).op # "maybe_handle"
    BY <1>7, Running DEF RunSetSendSource, Runs, TypeOK
  <2>2. sendSource' \in Source \cup {None}
    BY <1>7, <2>1 DEF RunSetSendSource, Runs, Task
  <2>3. tasks' \in Seq(Task) /\ at' \in {"start", "check", "build"}
    BY <1>7, <2>1, Finished DEF RunSetSendSource, OnNew, GoTo, TypeOK
  <2>4. /\ aborted' \in BOOLEAN /\ inputBin' \in Payload \cup {None}
        /\ linked' \in Source \cup {None} /\ strays' = strays /\ rtcpVia' = rtcpVia
    BY <1>7 DEF RunSetSendSource, OnNew, RemoveExisting, pipelineVars, TypeOK
  <2>5. UNCHANGED <<appVars, sendPayload, sessionVars, pending, iceVars>>
    BY <1>7 DEF RunSetSendSource
  <2> QED BY <2>2, <2>3, <2>4, <2>5 DEF appVars, sessionVars, iceVars, TypeOK
<1>8. ASSUME ~aborted, RunAddSession
      PROVE  TypeOK'
  <2>1. tasks # <<>>
    BY <1>8 DEF RunAddSession, Runs
  <2>2. tasks' \in Seq(Task) /\ at' \in {"start", "check", "build"}
    BY <1>8, <2>1, Finished DEF RunAddSession, GoTo, TypeOK
  <2>3. /\ added' \in BOOLEAN /\ rtcpBin' \in BOOLEAN /\ pending' \in BOOLEAN
        /\ blocked' \in SUBSET Component
    <3>1. CASE added
      BY <1>8, <3>1 DEF RunAddSession, sessionVars, TypeOK
    <3>2. CASE ~added
      BY <1>8, <3>2 DEF RunAddSession, PreparedBins, Component
    <3> QED BY <3>1, <3>2
  <2>4. UNCHANGED <<appVars, aborted, propertyVars, keyed, keySignals, pipelineVars>>
    BY <1>8 DEF RunAddSession
  <2> QED BY <2>2, <2>3, <2>4 DEF appVars, propertyVars, pipelineVars, TypeOK
<1>9. ASSUME ~aborted, RunMaybeHandle
      PROVE  TypeOK'
  BY <1>9 DEF RunMaybeHandle, appVars, propertyVars, sessionVars, iceVars, pipelineVars,
     GoTo, TypeOK
<1>10. ASSUME ~aborted, CheckPending
      PROVE  TypeOK'
  <2>1. Finish => at' = "start" /\ tasks' \in Seq(Task)
    BY <1>10, Finished DEF TypeOK, QueueInv, CheckPending
  <2> QED BY <1>10, <2>1 DEF CheckPending, appVars, propertyVars, sessionVars, iceVars,
             pipelineVars, GoTo, TypeOK
<1>11. ASSUME ~aborted, Build
      PROVE  TypeOK'
  <2>1. Finish => at' = "start" /\ tasks' \in Seq(Task)
    BY <1>11, Finished DEF TypeOK, QueueInv, Build
  <2> QED BY <1>11, <2>1 DEF Build, appVars, propertyVars, sessionVars, iceVars,
             pipelineVars, HandleNewSendPayload, HandleNewSendSource,
             LinkRtcp, TypeOK, Component
<1>12. ASSUME ~aborted, NEW component \in Component, OnNewSelectedPair(component)
      PROVE  TypeOK'
  BY <1>12 DEF OnNewSelectedPair, appVars, loopVars, propertyVars, sessionVars,
     pipelineVars, TypeOK
<1>13. ASSUME ~aborted, KeySet
      PROVE  TypeOK'
  BY <1>13 DEF KeySet, KeyHandlers, appVars, loopVars, propertyVars, sessionVars, pipelineVars, TypeOK
<1>14. ASSUME ~aborted, OnDtlsEncKeySet
      PROVE  TypeOK'
  <2>1. [op |-> "maybe_handle", value |-> None] \in Task
    BY DEF Task
  <2>2. Schedule("maybe_handle", None) => tasks' \in Seq(Task)
    BY <2>1 DEF Schedule, TypeOK
  <2>3. pending' \in BOOLEAN /\ tasks' \in Seq(Task)
    <3>1. CASE pending
      BY <1>14, <2>2, <3>1 DEF OnDtlsEncKeySet
    <3>2. CASE ~pending
      BY <1>14, <3>2 DEF OnDtlsEncKeySet, TypeOK
    <3> QED BY <3>1, <3>2
  <2>4. keySignals' \in 0..2
    BY <1>14 DEF OnDtlsEncKeySet, TypeOK
  <2>5. UNCHANGED <<appVars, at, aborted, propertyVars, sessionVars, blocked, keyed, pipelineVars>>
    BY <1>14 DEF OnDtlsEncKeySet
  <2> QED BY <2>3, <2>4, <2>5 DEF appVars, propertyVars, sessionVars, pipelineVars, TypeOK
<1>15. CASE UNCHANGED vars
  BY <1>15 DEF vars, appVars, loopVars, propertyVars, sessionVars, iceVars, pipelineVars,
     TypeOK
<1> QED BY <1>1, <1>2, <1>3, <1>4, <1>5, <1>6, <1>7, <1>8, <1>9, <1>10, <1>11, <1>12,
           <1>13, <1>14, <1>15 DEF Next, Application, MainLoop

\* The application schedules a task; everything but the queue stays.
Scheduling ==
    \/ \E payload \in Payload \cup {None} : SetSendPayload(payload)
    \/ \E source \in Source \cup {None} : SetSendSource(source)
    \/ AddSession
LEMMA SchedulingStep ==
    ASSUME TypeOK, Scheduling
    PROVE  /\ UNCHANGED <<at, aborted, sendPayload, sendSource, added, pending, blocked, keyed,
                          keySignals, inputBin, linked, strays>>
           /\ Waiting' = Waiting /\ Own' = Own \cup {Len(tasks) + 1}
           /\ tasks' # <<>> /\ (tasks # <<>> => Head(tasks') = Head(tasks))
           /\ careful' => careful /\ Own = {} /\ Harmless(tasks'[Len(tasks) + 1])
<1>1. Waited => Own = {}
  BY DEF Waited, Own
<1> DEFINE Goal ==
      /\ UNCHANGED <<at, aborted, sendPayload, sendSource, added, pending, blocked, keyed,
                     keySignals, inputBin, linked, strays>>
      /\ Waiting' = Waiting /\ Own' = Own \cup {Len(tasks) + 1}
      /\ tasks' # <<>> /\ (tasks # <<>> => Head(tasks') = Head(tasks))
      /\ careful' => careful /\ Own = {} /\ Harmless(tasks'[Len(tasks) + 1])
<1>2. ASSUME NEW payload \in Payload \cup {None}, SetSendPayload(payload)
      PROVE  Goal
  <2>1. [op |-> "set_send_payload", value |-> payload] \in Task
    BY DEF Task
  <2>2. /\ tasks'[Len(tasks) + 1] = [op |-> "set_send_payload", value |-> payload]
        /\ Waiting' = Waiting /\ Own' = Own \cup {Len(tasks) + 1}
        /\ tasks' # <<>> /\ (tasks # <<>> => Head(tasks') = Head(tasks))
    BY <1>2, <2>1, Scheduled DEF SetSendPayload, TypeOK
  <2>3. Careful(sendPayload, payload) => Own = {} /\ Harmless(tasks'[Len(tasks) + 1])
    BY <1>1, <2>2 DEF Careful, Harmless
  <2> QED BY <1>2, <2>2, <2>3 DEF SetSendPayload, propertyVars, sessionVars, iceVars,
             pipelineVars
<1>3. ASSUME NEW source \in Source \cup {None}, SetSendSource(source)
      PROVE  Goal
  <2>1. [op |-> "set_send_source", value |-> source] \in Task
    BY DEF Task
  <2>2. /\ tasks'[Len(tasks) + 1] = [op |-> "set_send_source", value |-> source]
        /\ Waiting' = Waiting /\ Own' = Own \cup {Len(tasks) + 1}
        /\ tasks' # <<>> /\ (tasks # <<>> => Head(tasks') = Head(tasks))
    BY <1>3, <2>1, Scheduled DEF SetSendSource, TypeOK
  <2>3. Careful(sendSource, source) => Own = {} /\ Harmless(tasks'[Len(tasks) + 1])
    BY <1>1, <2>2 DEF Careful, Harmless
  <2> QED BY <1>3, <2>2, <2>3 DEF SetSendSource, propertyVars, sessionVars, iceVars,
             pipelineVars
<1>4. ASSUME AddSession
      PROVE  Goal
  <2>1. [op |-> "add_session", value |-> None] \in Task
    BY DEF Task
  <2>2. /\ tasks'[Len(tasks) + 1] = [op |-> "add_session", value |-> None]
        /\ Waiting' = Waiting /\ Own' = Own \cup {Len(tasks) + 1}
        /\ tasks' # <<>> /\ (tasks # <<>> => Head(tasks') = Head(tasks))
    BY <1>4, <2>1, Scheduled DEF AddSession, TypeOK
  <2>3. Harmless(tasks'[Len(tasks) + 1])
    BY <2>2 DEF Harmless
  <2> QED BY <1>1, <1>4, <2>2, <2>3 DEF AddSession, propertyVars, sessionVars, iceVars,
             pipelineVars
<1> QED BY <1>2, <1>3, <1>4 DEF Scheduling

\* Steps that leave alone what the rest of the invariant is about.
Quiet == UNCHANGED <<careful, tasks, at, aborted, sendPayload, sendSource, added, pending,
                     blocked, keyed, keySignals, inputBin, linked, strays>>
LEMMA QuietStep ==
    /\ UNCHANGED vars => Quiet
    /\ \A value \in BOOLEAN : SetRtcpMux(value) => Quiet
    /\ OnRtcpMuxChanged => Quiet
<1>1. UNCHANGED vars => Quiet
  BY DEF Quiet, vars, appVars, loopVars, propertyVars, sessionVars, iceVars, pipelineVars
<1>2. ASSUME NEW value \in BOOLEAN, SetRtcpMux(value)
      PROVE  Quiet
  BY <1>2 DEF Quiet, SetRtcpMux, loopVars, propertyVars, sessionVars, iceVars,
     pipelineVars
<1>3. OnRtcpMuxChanged => Quiet
  BY DEF Quiet, OnRtcpMuxChanged, loopVars, propertyVars, sessionVars, iceVars
<1> QED BY <1>1, <1>2, <1>3

\* The kinds of steps there are.
LEMMA Steps ==
    ASSUME [Next]_vars
    PROVE  \/ Quiet
           \/ /\ ~aborted
              /\ \/ Scheduling
                 \/ RunSetSendPayload \/ RunSetSendSource \/ RunAddSession \/ RunMaybeHandle
                 \/ CheckPending \/ Build
                 \/ \E component \in Component : OnNewSelectedPair(component)
                 \/ KeySet \/ OnDtlsEncKeySet
  BY QuietStep DEF Next, Application, MainLoop, Scheduling

\* What replacing or setting a value comes to: an assertion fails, which leaves
\* the task where it is; or bins are taken down, and the task ends or goes on.
Setting(old, new, source) ==
    /\ at = "start" /\ tasks # <<>> /\ 1 \in Own /\ 1 \notin Waiting
    /\ UNCHANGED <<careful, added, pending, blocked, keyed, keySignals, strays>>
    /\ \/ /\ added /\ old \notin {None, new} /\ linked = None /\ aborted'
          /\ UNCHANGED <<tasks, at, inputBin, linked>>
       \/ /\ aborted' = aborted
          /\ \/ /\ added /\ old \notin {None, new} /\ inputBin' = None /\ linked' = None
             \/ /\ ~added \/ old \in {None, new}
                /\ inputBin' = inputBin /\ linked' = linked
          /\ \/ Finish /\ (~added \/ new \in {None, old})
             \/ /\ added /\ new \notin {None, old}
                /\ at' = "check" /\ tasks' = tasks
LEMMA SettingStep ==
    ASSUME TypeOK, BuiltInv, ~aborted
    PROVE  /\ RunSetSendPayload => /\ Head(tasks).op = "set_send_payload"
                                   /\ sendPayload' = Head(tasks).value
                                   /\ sendSource' = sendSource
                                   /\ Setting(sendPayload, Head(tasks).value, sendSource)
           /\ RunSetSendSource => /\ Head(tasks).op = "set_send_source"
                                  /\ sendSource' = Head(tasks).value
                                  /\ sendPayload' = sendPayload
                                  /\ Setting(sendSource, Head(tasks).value, sendSource)
<1>1. sendSource # None /\ linked # None => CanRemove(sendSource)
  BY DEF CanRemove, BuiltInv, SameKind
<1>2. linked # None => sendSource # None
  BY DEF BuiltInv
<1>3. ASSUME RunSetSendPayload
      PROVE  Setting(sendPayload, Head(tasks).value, sendSource)
  <2>1. tasks # <<>> /\ 1 \in Own /\ 1 \notin Waiting
    BY <1>3, Running DEF RunSetSendPayload, Runs, Own, Waiting
  <2> QED BY <1>1, <1>2, <1>3, <2>1 DEF RunSetSendPayload, Setting, OnNew, RemoveExisting,
             GoTo, Runs, appVars, sessionVars, iceVars, pipelineVars
<1>4. ASSUME RunSetSendSource
      PROVE  Setting(sendSource, Head(tasks).value, sendSource)
  <2>1. tasks # <<>> /\ 1 \in Own /\ 1 \notin Waiting
    BY <1>4, Running DEF RunSetSendSource, Runs, Own, Waiting
  <2> QED BY <1>1, <1>4, <2>1 DEF RunSetSendSource, Setting, OnNew, RemoveExisting, GoTo,
             Runs, appVars, sessionVars, iceVars, pipelineVars
<1> QED BY <1>3, <1>4 DEF RunSetSendPayload, RunSetSendSource, Runs

\* Finishing a task removes it from the places of its kind and no other.
Removed ==
    /\ at' = "start"
    /\ Single(Waiting) => Single(Waiting') /\ (1 \in Waiting => Waiting' = {})
    /\ Waiting = {} => Waiting' = {}
    /\ Waiting # {} /\ 1 \notin Waiting => Waiting' # {}
    /\ Single(Own) => Single(Own') /\ (1 \in Own => Own' = {})
    /\ \A i \in Own' : i + 1 \in Own /\ i + 1 # 1 /\ tasks'[i] = tasks[i + 1]
LEMMA FinishedPlaces ==
    ASSUME TypeOK, tasks # <<>>, Finish
    PROVE  Removed
<1>1. /\ at' = "start"
      /\ Waiting' = {i \in Nat \ {0} : i + 1 \in Waiting}
      /\ Own' = {i \in Nat \ {0} : i + 1 \in Own}
      /\ \A i \in Own' : tasks'[i] = tasks[i + 1]
  BY Finished DEF TypeOK
<1>2. Own \subseteq Nat \ {0} /\ Waiting \subseteq Nat \ {0}
  BY Places DEF TypeOK
<1>3. ASSUME Single(Waiting)
      PROVE  Single(Waiting') /\ (1 \in Waiting => Waiting' = {})
  BY <1>1, <1>3 DEF Single
<1>4. Waiting = {} => Waiting' = {}
  BY <1>1
<1>5. ASSUME Waiting # {}, 1 \notin Waiting
      PROVE  Waiting' # {}
  <2>1. PICK i \in Waiting : i \in Nat \ {0, 1}
    BY <1>2, <1>5
  <2>2. i - 1 \in Waiting'
    BY <1>1, <2>1
  <2> QED BY <2>2
<1>6. ASSUME Single(Own)
      PROVE  Single(Own') /\ (1 \in Own => Own' = {})
  BY <1>1, <1>6 DEF Single
<1>7. \A i \in Own' : i + 1 \in Own /\ i + 1 # 1
  BY <1>1
<1> QED BY <1>1, <1>3, <1>4, <1>5, <1>6, <1>7 DEF Removed

\* A queue that stays keeps its places.
LEMMA SameQueue ==
    ASSUME UNCHANGED tasks
    PROVE  Waiting' = Waiting /\ Own' = Own /\ Head(tasks') = Head(tasks)
  BY DEF Waiting, Own

\* What the other tasks and the keys do to the queue.
LEMMA TaskStep ==
    ASSUME TypeOK
    PROVE  /\ RunAddSession => /\ at = "start" /\ tasks # <<>>
                               /\ 1 \in Own /\ 1 \notin Waiting
                               /\ Head(tasks).op = "add_session"
           /\ RunMaybeHandle => at = "start" /\ tasks # <<>> /\ 1 \in Waiting
           /\ OnDtlsEncKeySet /\ pending =>
                  /\ Waiting' = Waiting \cup {Len(tasks) + 1} /\ Own' = Own /\ tasks' # <<>>
                  /\ tasks # <<>> => Head(tasks') = Head(tasks)
                  /\ \A i \in Own : tasks'[i] = tasks[i]
<1>1. RunAddSession \/ RunMaybeHandle => at = "start" /\ tasks # <<>>
  BY DEF RunAddSession, RunMaybeHandle, Runs
<1>2. RunAddSession => 1 \in Own /\ 1 \notin Waiting /\ Head(tasks).op = "add_session"
  BY <1>1 DEF RunAddSession, Runs, Own, Waiting
<1>3. RunMaybeHandle => 1 \in Waiting
  BY <1>1, Running DEF RunMaybeHandle, Runs, TypeOK
<1>4. [op |-> "maybe_handle", value |-> None] \in Task
  BY DEF Task
<1>5. OnDtlsEncKeySet /\ pending => Schedule("maybe_handle", None)
  BY DEF OnDtlsEncKeySet
<1> QED BY <1>1, <1>2, <1>3, <1>4, <1>5, Scheduled DEF TypeOK

\* The queue: keys come while the session is pending, when no task of theirs waits.
LEMMA QueueStep ==
    ASSUME TypeOK, QueueInv, StageInv, BuiltInv, [Next]_vars
    PROVE  QueueInv'
<1>1. ASSUME Quiet
      PROVE  QueueInv'
  BY <1>1, SameQueue DEF Quiet, QueueInv
<1>2. ASSUME ~aborted, Scheduling
      PROVE  QueueInv'
  BY <1>2, SchedulingStep DEF QueueInv
<1>3. ASSUME ~aborted, RunSetSendPayload
      PROVE  QueueInv'
  <2>1. /\ sendPayload' = Head(tasks).value /\ sendSource' = sendSource
        /\ Setting(sendPayload, Head(tasks).value, sendSource)
    BY <1>3, SettingStep
  <2>2. CASE Finish
    <3>1. Removed
      BY <2>1, <2>2, FinishedPlaces DEF Setting
    <3> QED BY <1>3, <2>1, <3>1 DEF Setting, Removed, QueueInv
  <2>3. CASE UNCHANGED tasks
    <3>1. at' # "start" => at' = "check" /\ linked' = None /\ ~aborted'
      BY <1>3, <2>1 DEF Setting, Finish, BuiltInv
    <3>2. Waiting' = Waiting /\ tasks' # <<>>
      BY <2>1, <2>3, SameQueue DEF Setting
    <3> QED BY <3>1, <3>2 DEF QueueInv
  <2> QED BY <2>1, <2>2, <2>3 DEF Setting
<1>4. ASSUME ~aborted, RunSetSendSource
      PROVE  QueueInv'
  <2>1. /\ sendSource' = Head(tasks).value /\ sendPayload' = sendPayload
        /\ Setting(sendSource, Head(tasks).value, sendSource)
    BY <1>4, SettingStep
  <2>2. CASE Finish
    <3>1. Removed
      BY <2>1, <2>2, FinishedPlaces DEF Setting
    <3> QED BY <1>4, <2>1, <3>1 DEF Setting, Removed, QueueInv
  <2>3. CASE UNCHANGED tasks
    <3>1. at' # "start" => at' = "check" /\ linked' = None /\ ~aborted'
      BY <1>4, <2>1 DEF Setting, Finish, BuiltInv
    <3>2. Waiting' = Waiting /\ tasks' # <<>>
      BY <2>1, <2>3, SameQueue DEF Setting
    <3> QED BY <3>1, <3>2 DEF QueueInv
  <2> QED BY <2>1, <2>2, <2>3 DEF Setting
<1>5. ASSUME ~aborted, RunAddSession
      PROVE  QueueInv'
  <2>1. /\ at = "start" /\ tasks # <<>> /\ 1 \in Own /\ 1 \notin Waiting
        /\ Head(tasks).op = "add_session"
    BY <1>5, TaskStep
  <2>2. CASE added
    <3>1. Removed
      BY <1>5, <2>1, <2>2, FinishedPlaces DEF RunAddSession
    <3> QED BY <1>5, <3>1 DEF RunAddSession, Removed, QueueInv
  <2>3. CASE ~added
    <3>1. UNCHANGED tasks
      BY <1>5, <2>3 DEF RunAddSession, GoTo
    <3> QED BY <1>5, <2>1, <2>3, <3>1, SameQueue DEF RunAddSession, pipelineVars,
               QueueInv, StageInv, NothingBuilt
  <2> QED BY <2>2, <2>3
<1>6. ASSUME ~aborted, RunMaybeHandle
      PROVE  QueueInv'
  BY <1>6, SameQueue DEF RunMaybeHandle, Runs, GoTo, QueueInv
<1>7. ASSUME ~aborted, CheckPending
      PROVE  QueueInv'
  BY <1>7, SameQueue, FinishedPlaces DEF Removed, CheckPending, GoTo, pipelineVars,
     QueueInv
<1>8. ASSUME ~aborted, Build
      PROVE  QueueInv'
  <2>1. tasks # <<>> /\ Finish
    BY <1>8 DEF Build, QueueInv
  <2>2. aborted' = FALSE /\ at' = "start"
    BY <1>8, <2>1 DEF Build, Finish, TypeOK
  <2>3. Removed
    BY <2>1, FinishedPlaces
  <2> QED BY <2>2, <2>3 DEF QueueInv, Removed
<1>9. ASSUME ~aborted, NEW component \in Component, OnNewSelectedPair(component)
      PROVE  QueueInv'
  BY <1>9, SameQueue DEF OnNewSelectedPair, loopVars, pipelineVars, QueueInv
<1>10. ASSUME ~aborted, KeySet
      PROVE  QueueInv'
  BY <1>10, SameQueue DEF KeySet, loopVars, pipelineVars, QueueInv
<1>11. ASSUME ~aborted, OnDtlsEncKeySet
      PROVE  QueueInv'
  <2>1. CASE pending
    BY <1>11, <2>1, TaskStep DEF OnDtlsEncKeySet, pipelineVars, StageInv, NothingBuilt,
       QueueInv, Single
  <2>2. CASE ~pending
    BY <1>11, <2>2, SameQueue DEF OnDtlsEncKeySet, pipelineVars, QueueInv
  <2> QED BY <2>1, <2>2
<1> QED BY Steps, <1>1, <1>2, <1>3, <1>4, <1>5, <1>6, <1>7, <1>8, <1>9, <1>10, <1>11

\* The stages of a session: a pipeline is built only once pending has ended.
LEMMA StageStep ==
    ASSUME TypeOK, QueueInv, StageInv, BuiltInv, [Next]_vars
    PROVE  StageInv'
<1>1. ASSUME Quiet
      PROVE  StageInv'
  BY <1>1, SameQueue DEF Quiet, StageInv, NothingBuilt
<1>2. ASSUME ~aborted, Scheduling
      PROVE  StageInv'
  BY <1>2, SchedulingStep DEF StageInv, NothingBuilt
<1>3. ASSUME ~aborted, RunSetSendPayload
      PROVE  StageInv'
  BY <1>3, SettingStep, SameQueue, FinishedPlaces DEF Removed, Setting, StageInv,
     NothingBuilt
<1>4. ASSUME ~aborted, RunSetSendSource
      PROVE  StageInv'
  BY <1>4, SettingStep, SameQueue, FinishedPlaces DEF Removed, Setting, StageInv,
     NothingBuilt
<1>5. ASSUME ~aborted, RunAddSession
      PROVE  StageInv'
  BY <1>5, TaskStep, SameQueue, FinishedPlaces DEF Removed, RunAddSession, GoTo,
     pipelineVars, sessionVars, StageInv, NothingBuilt
<1>6. ASSUME ~aborted, RunMaybeHandle
      PROVE  StageInv'
  BY <1>6, TaskStep DEF RunMaybeHandle, pipelineVars, sessionVars, StageInv, NothingBuilt
<1>7. ASSUME ~aborted, CheckPending
      PROVE  StageInv'
  BY <1>7, SameQueue, FinishedPlaces DEF Removed, CheckPending, GoTo, pipelineVars,
     sessionVars, StageInv, QueueInv, NothingBuilt
<1>8. ASSUME ~aborted, Build
      PROVE  StageInv'
  <2>1. tasks # <<>> /\ at = "build" /\ Finish
    BY <1>8 DEF Build, QueueInv
  <2>2. Removed
    BY <2>1, FinishedPlaces
  <2>3. added' /\ ~pending'
    BY <1>8 DEF Build, StageInv, sessionVars
  <2>4. linked # None => 1 \in Waiting
    BY <2>1, Running DEF QueueInv, TypeOK
  <2>5. strays' = strays \/ (strays' = strays + 1 /\ linked # None)
    BY <1>8 DEF Build, HandleNewSendSource, pipelineVars
  <2>6. ASSUME strays' # 0
        PROVE  strays' = 1 /\ Waiting' = {}
    BY <2>2, <2>4, <2>5, <2>6 DEF StageInv, QueueInv, Removed
  <2> QED BY <2>3, <2>6 DEF StageInv
<1>9. ASSUME ~aborted, NEW component \in Component, OnNewSelectedPair(component)
      PROVE  StageInv'
  BY <1>9, SameQueue DEF OnNewSelectedPair, loopVars, sessionVars, pipelineVars, StageInv,
     NothingBuilt
<1>10. ASSUME ~aborted, KeySet
      PROVE  StageInv'
  BY <1>10, SameQueue DEF KeySet, loopVars, sessionVars, pipelineVars, StageInv,
     NothingBuilt
<1>11. ASSUME ~aborted, OnDtlsEncKeySet
      PROVE  StageInv'
  BY <1>11, SameQueue DEF OnDtlsEncKeySet, sessionVars, pipelineVars, StageInv,
     NothingBuilt
<1> QED BY Steps, <1>1, <1>2, <1>3, <1>4, <1>5, <1>6, <1>7, <1>8, <1>9, <1>10, <1>11

\* The bins: what is replaced is taken down first, or an assertion fails.
LEMMA BuiltStep ==
    ASSUME TypeOK, QueueInv, StageInv, BuiltInv, [Next]_vars
    PROVE  BuiltInv'
<1>1. ASSUME Quiet
      PROVE  BuiltInv'
  BY <1>1 DEF Quiet, BuiltInv
<1>2. ASSUME ~aborted, Scheduling
      PROVE  BuiltInv'
  BY <1>2, SchedulingStep DEF BuiltInv
<1>3. ASSUME ~aborted, RunSetSendPayload
      PROVE  BuiltInv'
  BY <1>3, SettingStep DEF Setting, BuiltInv, StageInv, NothingBuilt
<1>4. ASSUME ~aborted, RunSetSendSource
      PROVE  BuiltInv'
  BY <1>4, SettingStep DEF Setting, BuiltInv, StageInv, NothingBuilt
<1>5. ASSUME ~aborted, RunAddSession
      PROVE  BuiltInv'
  BY <1>5 DEF RunAddSession, pipelineVars, propertyVars, BuiltInv
<1>6. ASSUME ~aborted, RunMaybeHandle
      PROVE  BuiltInv'
  BY <1>6 DEF RunMaybeHandle, pipelineVars, propertyVars, BuiltInv
<1>7. ASSUME ~aborted, CheckPending
      PROVE  BuiltInv'
  BY <1>7 DEF CheckPending, pipelineVars, propertyVars, BuiltInv
<1>8. ASSUME ~aborted, Build
      PROVE  BuiltInv'
  BY <1>8 DEF Build, HandleNewSendPayload, HandleNewSendSource, pipelineVars,
     propertyVars, BuiltInv
<1>9. ASSUME ~aborted, NEW component \in Component, OnNewSelectedPair(component)
      PROVE  BuiltInv'
  BY <1>9 DEF OnNewSelectedPair, pipelineVars, BuiltInv, StageInv, NothingBuilt
<1>10. ASSUME ~aborted, KeySet
      PROVE  BuiltInv'
  BY <1>10 DEF KeySet, propertyVars, pipelineVars, BuiltInv
<1>11. ASSUME ~aborted, OnDtlsEncKeySet
      PROVE  BuiltInv'
  BY <1>11 DEF OnDtlsEncKeySet, propertyVars, pipelineVars, BuiltInv
<1> QED BY Steps, <1>1, <1>2, <1>3, <1>4, <1>5, <1>6, <1>7, <1>8, <1>9, <1>10, <1>11

\* The start: whoever makes it due also sees to it.
LEMMA StartStep ==
    ASSUME TypeOK, QueueInv, StageInv, BuiltInv, StartInv, [Next]_vars
    PROVE  StartInv'
<1>1. ASSUME Quiet
      PROVE  StartInv'
  BY <1>1, SameQueue DEF Quiet, StartInv, Sendable
<1>2. ASSUME ~aborted, Scheduling
      PROVE  StartInv'
  BY <1>2, SchedulingStep DEF StartInv, Sendable
<1>3. ASSUME ~aborted, RunSetSendPayload
      PROVE  StartInv'
  <2>1. /\ sendPayload' = Head(tasks).value /\ sendSource' = sendSource
        /\ Setting(sendPayload, Head(tasks).value, sendSource)
    BY <1>3, SettingStep
  <2>2. CASE Finish
    <3>1. Removed
      BY <2>1, <2>2, FinishedPlaces DEF Setting
    <3> QED BY <2>1, <3>1 DEF Setting, Removed, StartInv, Sendable
  <2>3. CASE UNCHANGED tasks
    BY <2>1, <2>3, SameQueue DEF Setting, StartInv, Sendable
  <2> QED BY <2>1, <2>2, <2>3 DEF Setting
<1>4. ASSUME ~aborted, RunSetSendSource
      PROVE  StartInv'
  <2>1. /\ sendSource' = Head(tasks).value /\ sendPayload' = sendPayload
        /\ Setting(sendSource, Head(tasks).value, sendSource)
    BY <1>4, SettingStep
  <2>2. CASE Finish
    <3>1. Removed
      BY <2>1, <2>2, FinishedPlaces DEF Setting
    <3> QED BY <2>1, <3>1 DEF Setting, Removed, StartInv, Sendable
  <2>3. CASE UNCHANGED tasks
    BY <2>1, <2>3, SameQueue DEF Setting, StartInv, Sendable
  <2> QED BY <2>1, <2>2, <2>3 DEF Setting
<1>5. ASSUME ~aborted, RunAddSession
      PROVE  StartInv'
  <2>1. /\ at = "start" /\ tasks # <<>> /\ 1 \in Own /\ 1 \notin Waiting
        /\ Head(tasks).op = "add_session"
    BY <1>5, TaskStep
  <2>2. CASE added
    <3>1. Removed
      BY <1>5, <2>1, <2>2, FinishedPlaces DEF RunAddSession
    <3> QED BY <1>5, <2>1, <3>1 DEF RunAddSession, propertyVars, pipelineVars, Removed,
               StartInv, Sendable
  <2>3. CASE ~added
    BY <1>5, <2>3 DEF RunAddSession, StartInv
  <2> QED BY <2>2, <2>3
<1>6. ASSUME ~aborted, RunMaybeHandle
      PROVE  StartInv'
  BY <1>6 DEF RunMaybeHandle, GoTo, StartInv
<1>7. ASSUME ~aborted, CheckPending
      PROVE  StartInv'
  BY <1>7 DEF CheckPending, GoTo, StartInv
<1>8. ASSUME ~aborted, Build
      PROVE  StartInv'
  BY <1>8 DEF Build, HandleNewSendSource, propertyVars, StartInv, Sendable
<1>9. ASSUME ~aborted, NEW component \in Component, OnNewSelectedPair(component)
      PROVE  StartInv'
  BY <1>9 DEF OnNewSelectedPair, StartInv
<1>10. ASSUME ~aborted, KeySet
      PROVE  StartInv'
  BY <1>10, SameQueue DEF KeySet, loopVars, propertyVars, pipelineVars, StartInv, Sendable
<1>11. ASSUME ~aborted, OnDtlsEncKeySet
      PROVE  StartInv'
  BY <1>11, TaskStep, SameQueue DEF OnDtlsEncKeySet, propertyVars, sessionVars,
     pipelineVars, StartInv, Sendable
<1> QED BY Steps, <1>1, <1>2, <1>3, <1>4, <1>5, <1>6, <1>7, <1>8, <1>9, <1>10, <1>11

\* Blocking: keys need an open RTP component, and RTP opens RTCP.
LEMMA BlockStep ==
    ASSUME TypeOK, QueueInv, StageInv, BuiltInv, BlockInv, [Next]_vars
    PROVE  BlockInv'
<1>1. ASSUME Quiet
      PROVE  BlockInv'
  BY <1>1 DEF Quiet, BlockInv
<1>2. ASSUME ~aborted, Scheduling
      PROVE  BlockInv'
  BY <1>2, SchedulingStep DEF BlockInv
<1>3. ASSUME ~aborted, RunSetSendPayload
      PROVE  BlockInv'
  BY <1>3, SettingStep DEF Setting, BlockInv
<1>4. ASSUME ~aborted, RunSetSendSource
      PROVE  BlockInv'
  BY <1>4, SettingStep DEF Setting, BlockInv
<1>5. ASSUME ~aborted, RunAddSession
      PROVE  BlockInv'
  BY <1>5 DEF RunAddSession, PreparedBins, BlockInv, StageInv, Component
<1>6. ASSUME ~aborted, RunMaybeHandle
      PROVE  BlockInv'
  BY <1>6 DEF RunMaybeHandle, sessionVars, iceVars, BlockInv
<1>7. ASSUME ~aborted, CheckPending
      PROVE  BlockInv'
  BY <1>7 DEF CheckPending, iceVars, BlockInv, StageInv
<1>8. ASSUME ~aborted, Build
      PROVE  BlockInv'
  BY <1>8 DEF Build, iceVars, BlockInv, StageInv
<1>9. ASSUME ~aborted, NEW component \in Component, OnNewSelectedPair(component)
      PROVE  BlockInv'
  <2>1. blocked' = blocked \ {component, "rtcp"} /\ blocked \subseteq {"rtp", "rtcp"}
    BY <1>9 DEF OnNewSelectedPair, TypeOK, Component
  <2>2. "rtp" \in blocked' \/ blocked' = {}
    BY <1>9, <2>1 DEF BlockInv, Component
  <2> QED BY <1>9, <2>2 DEF OnNewSelectedPair, BlockInv
<1>10. ASSUME ~aborted, KeySet
      PROVE  BlockInv'
  BY <1>10 DEF KeySet, BlockInv
<1>11. ASSUME ~aborted, OnDtlsEncKeySet
      PROVE  BlockInv'
  BY <1>11 DEF OnDtlsEncKeySet, BlockInv
<1> QED BY Steps, <1>1, <1>2, <1>3, <1>4, <1>5, <1>6, <1>7, <1>8, <1>9, <1>10, <1>11

\* Careful applications: their one task finds what it found when it was scheduled.
LEMMA CarefulStep ==
    ASSUME TypeOK, QueueInv, StageInv, BuiltInv, CarefulInv, [Next]_vars
    PROVE  CarefulInv'
<1>1. ASSUME Quiet
      PROVE  CarefulInv'
  BY <1>1, SameQueue DEF Quiet, CarefulInv, Harmless
<1>2. ASSUME ~aborted, Scheduling
      PROVE  CarefulInv'
  BY <1>2, SchedulingStep DEF CarefulInv, Harmless, Single
<1>3. ASSUME ~aborted, RunSetSendPayload
      PROVE  CarefulInv'
  <2>1. Head(tasks).op = "set_send_payload" /\ Setting(sendPayload, Head(tasks).value, sendSource)
    BY <1>3, SettingStep
  <2>2. careful' = careful /\ 1 \in Own
    BY <2>1 DEF Setting
  <2>3. ASSUME careful
        PROVE  Single(Own) /\ ~aborted'
    <3>1. Single(Own) /\ Harmless(Head(tasks))
      BY <2>1, <2>3 DEF Setting, CarefulInv
    <3> QED BY <1>3, <2>1, <3>1 DEF Setting, Harmless
  <2>4. CASE Finish
    <3>1. Removed
      BY <2>1, <2>4, FinishedPlaces DEF Setting
    <3> QED BY <2>2, <2>3, <3>1 DEF Removed, CarefulInv
  <2>5. CASE ~Finish
    <3>1. careful => UNCHANGED tasks /\ at' = "check"
      BY <2>1, <2>3, <2>5 DEF Setting
    <3> QED BY <2>2, <2>3, <3>1, SameQueue DEF CarefulInv, Single
  <2> QED BY <2>4, <2>5
<1>4. ASSUME ~aborted, RunSetSendSource
      PROVE  CarefulInv'
  <2>1. Head(tasks).op = "set_send_source" /\ Setting(sendSource, Head(tasks).value, sendSource)
    BY <1>4, SettingStep
  <2>2. careful' = careful /\ 1 \in Own
    BY <2>1 DEF Setting
  <2>3. ASSUME careful
        PROVE  Single(Own) /\ ~aborted'
    <3>1. Single(Own) /\ Harmless(Head(tasks))
      BY <2>1, <2>3 DEF Setting, CarefulInv
    <3> QED BY <1>4, <2>1, <3>1 DEF Setting, Harmless
  <2>4. CASE Finish
    <3>1. Removed
      BY <2>1, <2>4, FinishedPlaces DEF Setting
    <3> QED BY <2>2, <2>3, <3>1 DEF Removed, CarefulInv
  <2>5. CASE ~Finish
    <3>1. careful => UNCHANGED tasks /\ at' = "check"
      BY <2>1, <2>3, <2>5 DEF Setting
    <3> QED BY <2>2, <2>3, <3>1, SameQueue DEF CarefulInv, Single
  <2> QED BY <2>4, <2>5
<1>5. ASSUME ~aborted, RunAddSession
      PROVE  CarefulInv'
  BY <1>5, TaskStep, SameQueue, FinishedPlaces DEF Removed, RunAddSession, GoTo, appVars,
     CarefulInv, Single
<1>6. ASSUME ~aborted, RunMaybeHandle
      PROVE  CarefulInv'
  BY <1>6, TaskStep, SameQueue DEF RunMaybeHandle, GoTo, pipelineVars, appVars,
     propertyVars, CarefulInv, StageInv, NothingBuilt, Harmless
<1>7. ASSUME ~aborted, CheckPending
      PROVE  CarefulInv'
  BY <1>7, SameQueue, FinishedPlaces DEF Removed, CheckPending, GoTo, pipelineVars,
     appVars, propertyVars, CarefulInv, StageInv, QueueInv, Harmless
<1>8. ASSUME ~aborted, Build
      PROVE  CarefulInv'
  BY <1>8, FinishedPlaces DEF Removed, Build, HandleNewSendSource, appVars, propertyVars,
     CarefulInv, BuiltInv, StageInv, QueueInv, Harmless
<1>9. ASSUME ~aborted, NEW component \in Component, OnNewSelectedPair(component)
      PROVE  CarefulInv'
  BY <1>9, SameQueue DEF OnNewSelectedPair, appVars, loopVars, propertyVars, CarefulInv,
     StageInv, NothingBuilt, Harmless
<1>10. ASSUME ~aborted, KeySet
      PROVE  CarefulInv'
  BY <1>10, SameQueue DEF KeySet, appVars, loopVars, propertyVars, pipelineVars,
     CarefulInv, Harmless
<1>11. ASSUME ~aborted, OnDtlsEncKeySet
      PROVE  CarefulInv'
  <2>1. UNCHANGED <<careful, at, aborted, added, sendPayload, sendSource, linked>>
    BY <1>11 DEF OnDtlsEncKeySet, appVars, propertyVars, sessionVars, pipelineVars
  <2>2. Own' = Own /\ \A i \in Own : tasks'[i] = tasks[i]
    BY <1>11, TaskStep, SameQueue DEF OnDtlsEncKeySet, TypeOK
  <2> QED BY <2>1, <2>2 DEF CarefulInv, Harmless, Single
<1> QED BY Steps, <1>1, <1>2, <1>3, <1>4, <1>5, <1>6, <1>7, <1>8, <1>9, <1>10, <1>11

----------------------------------------------------------------------------
(* Theorems *)

LEMMA Inductive == Spec => []PipelineInv
<1>1. Init => PipelineInv
  <2> SUFFICES ASSUME Init PROVE PipelineInv
    OBVIOUS
  <2>1. TypeOK
    <3>1. calls \in 0..MaxCall /\ tasks \in Seq(Task) /\ strays \in Nat /\ keySignals \in 0..2
      BY BoundAssumption DEF Init
    <3>2. mux \in BOOLEAN /\ notifying \in BOOLEAN /\ careful \in BOOLEAN /\ aborted \in BOOLEAN
      BY DEF Init
    <3>3. added \in BOOLEAN /\ rtcpBin \in BOOLEAN /\ pending \in BOOLEAN /\ keyed \in BOOLEAN
      BY DEF Init
    <3> QED BY <3>1, <3>2, <3>3 DEF Init, TypeOK
  <2>2. Waiting = {} /\ Own = {}
    BY DEF Init, Waiting, Own
  <2> QED BY <2>1, <2>2 DEF Init, PipelineInv, QueueInv, StageInv, NothingBuilt, BuiltInv,
             StartInv, BlockInv, CarefulInv, Single
<1>2. PipelineInv /\ [Next]_vars => PipelineInv'
  BY TypeStep, QueueStep, StageStep, BuiltStep, StartStep, BlockStep, CarefulStep DEF
     PipelineInv
<1> QED BY <1>1, <1>2, PTL DEF Spec

\* The state of a media session's sending half keeps its types.
THEOREM TypeCorrect == Spec => []TypeOK
<1>1. PipelineInv => TypeOK
  BY DEF PipelineInv
<1> QED BY <1>1, Inductive, PTL

\* remove_existing_send_source_and_payload and the two handle_new functions
\* together never leave a replaced source or payload in the pipeline.
THEOREM SendsWhatIsSetAlways == Spec => []SendsWhatIsSet
<1>1. PipelineInv => SendsWhatIsSet
  BY DEF PipelineInv, BuiltInv, SendsWhatIsSet
<1> QED BY <1>1, Inductive, PTL

\* Between on_dtls_enc_key_set and the main loop no start of sending is lost.
THEOREM StartNeverLost == Spec => []StartNotLost
<1>1. PipelineInv => StartNotLost
  <2> SUFFICES ASSUME PipelineInv, added, ~pending, tasks = <<>>, Sendable
               PROVE  linked # None
    BY DEF StartNotLost
  <2>1. Waiting = {}
    BY DEF Waiting
  <2> QED BY <2>1 DEF PipelineInv, QueueInv, StartInv
<1> QED BY <1>1, Inductive, PTL

\* When on_dtls_enc_key_set takes the session out of pending_sessions,
\* on_new_selected_pair has opened all of its components.
THEOREM NothingLeftBlockedEver == Spec => []NothingLeftBlocked
<1>1. PipelineInv => NothingLeftBlocked
  BY DEF PipelineInv, BlockInv, NothingLeftBlocked
<1> QED BY <1>1, Inductive, PTL

\* The assertions of remove_existing_send_source_and_payload hold for every
\* application that waits for its tasks and replaces only what is being sent.
THEOREM CarefulNeverAbort == Spec => []CarefulNeverAborts
<1>1. PipelineInv => CarefulNeverAborts
  BY DEF PipelineInv, CarefulInv, CarefulNeverAborts
<1> QED BY <1>1, Inductive, PTL

\* handle_new_send_source leaks at most one source bin in a session's life.
THEOREM OneStrayAtMost == Spec => []OneStray
<1>1. PipelineInv => OneStray
  BY DEF PipelineInv, StageInv, OneStray
<1> QED BY <1>1, Inductive, PTL
=============================================================================
