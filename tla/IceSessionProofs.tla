-------------------------- MODULE IceSessionProofs --------------------------
(***************************************************************************)
(* Proofs about IceSession for any sessions, servers, candidates and bounds. *)
(*                                                                         *)
(* Each property concerns few variables.  A lemma ..._Frame names the steps *)
(* that change them, a lemma ..._Next shows that these preserve the         *)
(* property.  The ICE state needs two facts: what a session knows of a      *)
(* component, and the reports that wait, end in libnice's state (ReportsInv)*)
(* and the aggregate is that of what it knows (AggregateInv).  Gathering    *)
(* needs that the count is that of the lookups under way (CountInv).        *)
(***************************************************************************)
EXTENDS IceSession, FiniteSetTheorems, WellFoundedInduction, TLAPS

----------------------------------------------------------------------------
(* What tasks, lists and selections are made of *)

\* A task has the fields of its kind.
LEMMA TaskFields ==
    ASSUME NEW x \in Task
    PROVE  /\ x.session \in Session
           /\ x.op = "add_remote" => x.remote \in Remote /\ x.forced \in BOOLEAN
           /\ x.op = "add_pair" => x.pair \in Pair
           /\ x.op = "state" => x.component \in Component /\ x.state \in IceState
  BY DEF Task

LEMMA RemoteComponent == ASSUME NEW remote \in Remote PROVE remote.component \in Component
<1>1. remote \in Candidate
  BY RemoteAssumption
<1> QED BY <1>1 DEF Candidate

LEMMA NewTasks ==
    ASSUME NEW s \in Session
    PROVE  /\ [op |-> "add_session", session |-> s] \in Task
           /\ [op |-> "new_candidate", session |-> s] \in Task
           /\ [op |-> "gathering_done", session |-> s] \in Task
           /\ \A remote \in Remote, force \in BOOLEAN :
                 [op |-> "add_remote", session |-> s, remote |-> remote, forced |-> force] \in Task
           /\ \A new \in Pair : [op |-> "add_pair", session |-> s, pair |-> new] \in Task
           /\ \A c \in Component, state \in IceState :
                 [op |-> "state", session |-> s, component |-> c, state |-> state] \in Task
  BY DEF Task

Less == {p \in Nat \X Nat : p[1] < p[2]}
LEMMA LessWellFounded == IsWellFoundedOn(Less, Nat)
  BY NatLessThanWellFounded, Zenon DEF Less, OpToRel

\* A set of positions has a last one.
LEMMA LastExists ==
    ASSUME NEW n \in Nat, NEW fit \in SUBSET (1..n), fit # {}
    PROVE  \E i \in fit : \A j \in fit : j <= i
<1> DEFINE rest == {n - i : i \in fit}
<1>0. \A i \in fit : i \in Int /\ n - i \in Nat
  OBVIOUS
<1>1. rest \subseteq Nat /\ rest # {}
  BY <1>0
<1>2. PICK m \in rest : \A k \in rest : <<k, m>> \notin Less
  <2> HIDE DEF rest
  <2> QED BY <1>1, LessWellFounded, WFMin
<1>3. ASSUME NEW k \in rest PROVE m <= k
  <2>1. k \in Nat /\ m \in Nat
    BY <1>1
  <2>2. <<k, m>> \in Nat \X Nat /\ <<k, m>>[1] = k /\ <<k, m>>[2] = m
    BY <2>1
  <2>3. ~ (k < m)
    BY <1>2, <2>2 DEF Less
  <2> QED BY <2>1, <2>3
<1>4. PICK i \in fit : m = n - i
  BY <1>2
<1>5. ASSUME NEW j \in fit PROVE j <= i
  <2>1. n - j \in rest
    OBVIOUS
  <2>2. n - i <= n - j
    BY <1>3, <1>4, <2>1
  <2> QED BY <1>0, <1>4, <2>2
<1> QED BY <1>5

\* LastOf returns a candidate of the list, or what was there before.
LEMMA LastOfList ==
    ASSUME NEW list \in Seq(Remote), NEW components, NEW c, NEW old
    PROVE  \/ LastOf(list, c, components, old) \in Remote
           \/ /\ LastOf(list, c, components, old) = old
              /\ \A r \in Accepted(list, components) : r.component # c
<1> DEFINE fit == {i \in DOMAIN list : /\ list[i] \in Accepted(list, components)
                                       /\ list[i].component = c}
           last == CHOOSE i \in fit : \A j \in fit : j <= i
<1>1. CASE fit = {}
  <2>1. LastOf(list, c, components, old) = old
    BY <1>1 DEF LastOf
  <2>2. ASSUME NEW r \in Accepted(list, components) PROVE r.component # c
    <3>1. PICK i \in DOMAIN list : r = list[i]
      BY DEF Accepted, Elements
    <3> QED BY <1>1, <3>1
  <2> QED BY <2>1, <2>2
<1>2. CASE fit # {}
  <2>1. Len(list) \in Nat /\ fit \in SUBSET (1..Len(list))
    OBVIOUS
  <2>2. last \in fit
    BY <1>2, <2>1, LastExists
  <2>3. list[last] \in Remote
    BY <2>1, <2>2
  <2>4. LastOf(list, c, components, old) = list[last]
    BY <1>2 DEF LastOf
  <2> QED BY <2>3, <2>4
<1> QED BY <1>1, <1>2

\* The aggregate of two states is one.
LEMMA StateOfType ==
    ASSUME NEW s, NEW states \in [Component -> IceState]
    PROVE  StateOf(s, states) \in IceState
  BY DEF StateOf, Aggregate, Component, IceState, Failed, Disconnected

\* What Select makes of the selections is of their type.
LEMMA SelectType ==
    ASSUME TypeOK, NEW s \in Session, NEW list \in Seq(Remote), NEW components,
           Select(s, list, components)
    PROVE  selected' \in [Session -> [Component -> Pair \cup Remote \cup {None}]]
<1> DEFINE new == [c \in Component |-> LastOf(list, c, components, selected[s][c])]
<1>1. ASSUME NEW c \in Component PROVE new[c] \in Pair \cup Remote \cup {None}
  <2>1. selected[s][c] \in Pair \cup Remote \cup {None}
    BY DEF TypeOK
  <2> QED BY <2>1, LastOfList
<1>2. new \in [Component -> Pair \cup Remote \cup {None}]
  BY <1>1
<1>3. selected' = [selected EXCEPT ![s] = new]
  BY DEF Select
<1> HIDE DEF new
<1> QED BY <1>2, <1>3 DEF TypeOK

----------------------------------------------------------------------------
(* Types *)

\* The variables of a group keep their types when they keep their values.
AppTypeOK == calls \in 0..MaxCall /\ mux \in [Session -> BOOLEAN] /\ lateMux \in SUBSET Session
ServerTypeOK ==
    /\ server \in [Server -> {"new", "resolving", "known", "failed"}]
    /\ deferred \in Int
    /\ adding \in [server : Server, read : Int] \cup {None}
    /\ removing \in [server : Server, read : Int] \cup {None}
    /\ miscounted \in BOOLEAN
NiceTypeOK ==
    /\ streams \in [Session -> 0..2]
    /\ configured \in [Session -> SUBSET Server]
    /\ gathering \in [Session -> {"no", "running", "done"}]
    /\ announced \in [Session -> 0..MaxLocal]
    /\ nice \in [Session -> [Component -> IceState]]
HandedTypeOK ==
    /\ handed \in [Session -> SUBSET Remote]
    /\ selected \in [Session -> [Component -> Pair \cup Remote \cup {None}]]
LocalTypeOK ==
    /\ agentCredential \in [Session -> Credential]
    /\ local \in [Session -> Seq(Credential)]
    /\ gatheringDone \in [Session -> BOOLEAN]
RemoteTypeOK ==
    /\ remotes \in [Session -> Seq(Remote)] /\ forced \in [Session -> Seq(Remote)]
    /\ pair \in [Session -> [Component -> Pair \cup {None}]]
StateTypeOK ==
    /\ componentState \in [Session -> [Component -> IceState]]
    /\ iceState \in [Session -> IceState]

LEMMA Groups ==
    TypeOK <=> /\ AppTypeOK /\ ServerTypeOK /\ tasks \in Seq(Task) /\ NiceTypeOK
               /\ HandedTypeOK /\ LocalTypeOK /\ RemoteTypeOK /\ StateTypeOK
  BY DEF TypeOK, AppTypeOK, ServerTypeOK, NiceTypeOK, HandedTypeOK, LocalTypeOK,
     RemoteTypeOK, StateTypeOK

LEMMA GroupsNext ==
    TypeOK' <=> /\ AppTypeOK' /\ ServerTypeOK' /\ tasks' \in Seq(Task) /\ NiceTypeOK'
                /\ HandedTypeOK' /\ LocalTypeOK' /\ RemoteTypeOK' /\ StateTypeOK'
  BY DEF TypeOK, AppTypeOK, ServerTypeOK, NiceTypeOK, HandedTypeOK, LocalTypeOK,
     RemoteTypeOK, StateTypeOK

LEMMA GroupsSame ==
    /\ AppTypeOK /\ UNCHANGED appVars => AppTypeOK'
    /\ ServerTypeOK /\ UNCHANGED serverVars => ServerTypeOK'
    /\ NiceTypeOK /\ UNCHANGED niceVars => NiceTypeOK'
    /\ HandedTypeOK /\ UNCHANGED handedVars => HandedTypeOK'
    /\ LocalTypeOK /\ UNCHANGED localVars => LocalTypeOK'
    /\ RemoteTypeOK /\ UNCHANGED remoteVars => RemoteTypeOK'
    /\ StateTypeOK /\ UNCHANGED stateVars => StateTypeOK'
  BY DEF AppTypeOK, ServerTypeOK, NiceTypeOK, HandedTypeOK, LocalTypeOK, RemoteTypeOK,
     StateTypeOK, appVars, serverVars, niceVars, handedVars, localVars, remoteVars, stateVars

\* A task is taken from the queue.
LEMMA HeadTask ==
    ASSUME TypeOK, NEW op, Runs(op)
    PROVE  Head(tasks) \in Task /\ Tail(tasks) \in Seq(Task)
  BY DEF TypeOK, Runs

LEMMA Scheduled ==
    ASSUME tasks \in Seq(Task), NEW x \in Task, Schedule(x)
    PROVE  tasks' \in Seq(Task)
  BY DEF Schedule

LEMMA AcceptedType ==
    ASSUME NEW list \in Seq(Remote), NEW components
    PROVE  Accepted(list, components) \subseteq Remote
  BY DEF Accepted, Elements

LEMMA Type_Call == TypeOK /\ Call => calls' \in 0..MaxCall
  BY BoundAssumption DEF TypeOK, Call

\* The lists of local candidates that a new one leaves.
LEMMA CandidateLists ==
    ASSUME NEW s, NEW x \in Credential, local[s] \in Seq(Credential),
           agentCredential[s] \in Credential
    PROVE  LET list == SessionOnNewCandidate(s)
               given == Append(UpdateLocalCredentials(SubSeq(list, 1, Len(list) - 1), x), x)
           IN  list \in Seq(Credential) /\ given \in Seq(Credential)
<1> DEFINE list == SessionOnNewCandidate(s)
           others == SubSeq(list, 1, Len(list) - 1)
<1>1. list \in Seq(Credential) /\ Len(list) \in Nat \ {0}
  BY DEF SessionOnNewCandidate, NewFromNiceCandidate
<1>2. others \in Seq(Credential)
  BY <1>1
<1>3. UpdateLocalCredentials(others, x) \in Seq(Credential)
  BY <1>2 DEF UpdateLocalCredentials
<1> QED BY <1>1, <1>3

LEMMA TypeOK_Init == Init => TypeOK
<1> SUFFICES ASSUME Init PROVE TypeOK
  OBVIOUS
<1> USE DEF Init, PerSession, PerComponent
<1>1. AppTypeOK
  BY BoundAssumption DEF AppTypeOK
<1>2. ServerTypeOK
  <2>1. server \in [Server -> {"new", "resolving", "known", "failed"}]
    OBVIOUS
  <2>2. deferred \in Int
    OBVIOUS
  <2>3. miscounted \in BOOLEAN /\ adding = None /\ removing = None
    OBVIOUS
  <2> QED BY <2>1, <2>2, <2>3 DEF ServerTypeOK
<1>3. NiceTypeOK
  BY BoundAssumption DEF NiceTypeOK, IceState, Disconnected, Failed
<1>4. HandedTypeOK
  BY DEF HandedTypeOK
<1>5. LocalTypeOK
  BY DEF LocalTypeOK, Credential
<1>6. RemoteTypeOK
  BY DEF RemoteTypeOK
<1>7. StateTypeOK
  BY DEF StateTypeOK, IceState, Disconnected, Failed
<1> QED BY <1>1, <1>2, <1>3, <1>4, <1>5, <1>6, <1>7, Groups

\* A list replaced in a table of lists of remote candidates leaves such a table.
LEMMA ListUpdated ==
    ASSUME NEW table \in [Session -> Seq(Remote)], NEW t \in Session,
           NEW list \in Seq(Remote)
    PROVE  [table EXCEPT ![t] = list] \in [Session -> Seq(Remote)]
OBVIOUS

LEMMA TypeOK_Next == TypeOK /\ [Next]_vars => TypeOK'
<1> SUFFICES ASSUME TypeOK, [Next]_vars PROVE TypeOK'
  OBVIOUS
<1>a. Call /\ UNCHANGED <<mux, lateMux>> => AppTypeOK'
  BY Type_Call DEF TypeOK, AppTypeOK
<1>b. tasks \in Seq(Task)
  BY DEF TypeOK
<1>1. ASSUME NEW h \in Server, AddHelperServer(h) PROVE TypeOK'
  <2>1. AppTypeOK'
    BY <1>1, <1>a DEF AddHelperServer
  <2>2. ServerTypeOK'
    BY <1>1 DEF AddHelperServer, Call, TypeOK, ServerTypeOK
  <2> QED BY <1>1, <2>1, <2>2, Groups, GroupsSame, GroupsNext DEF AddHelperServer, serverVars
<1>2. ASSUME AddHelperServerCounted PROVE TypeOK'
  <2>1. ServerTypeOK'
    BY <1>2 DEF AddHelperServerCounted, TypeOK, ServerTypeOK
  <2> QED BY <1>2, <2>1, Groups, GroupsSame, GroupsNext DEF AddHelperServerCounted
<1>3. ASSUME NEW h \in Server, HelperServerResolved(h) PROVE TypeOK'
  <2>1. ServerTypeOK'
    BY <1>3 DEF HelperServerResolved, TypeOK, ServerTypeOK
  <2> QED BY <1>3, <2>1, Groups, GroupsSame, GroupsNext DEF HelperServerResolved
<1>4. ASSUME NEW found \in BOOLEAN, AddHelperServerInfo(found) PROVE TypeOK'
  <2>1. ServerTypeOK'
    BY <1>4 DEF AddHelperServerInfo, TypeOK, ServerTypeOK
  <2>2. NiceTypeOK'
    BY <1>4 DEF AddHelperServerInfo, UpdateHelperServers, GatherCandidates, Known, TypeOK,
       NiceTypeOK
  <2> QED BY <1>4, <2>1, <2>2, Groups, GroupsSame, GroupsNext DEF AddHelperServerInfo
<1>5. ASSUME NEW s \in Session, AddSession(s) PROVE TypeOK'
  <2>1. AppTypeOK'
    BY <1>5, <1>a DEF AddSession
  <2>2. tasks' \in Seq(Task)
    <3>1. [op |-> "add_session", session |-> s] \in Task
      BY NewTasks
    <3> QED BY <1>5, <1>b, <3>1, Scheduled DEF AddSession
  <2> QED BY <1>5, <2>1, <2>2, Groups, GroupsSame, GroupsNext DEF AddSession
<1>6. ASSUME NEW s \in Session, NEW value \in BOOLEAN, SetRtcpMux(s, value) PROVE TypeOK'
  <2>1. AppTypeOK'
    BY <1>6, Type_Call DEF SetRtcpMux, TypeOK, AppTypeOK
  <2> QED BY <1>6, <2>1, Groups, GroupsSame, GroupsNext DEF SetRtcpMux
<1>7. ASSUME NEW s \in Session, NEW remote \in Remote, NEW force \in BOOLEAN,
            AddRemoteCandidate(s, remote, force) PROVE TypeOK'
  <2>1. AppTypeOK'
    BY <1>7, <1>a DEF AddRemoteCandidate
  <2>2. tasks' \in Seq(Task)
    <3>1. [op |-> "add_remote", session |-> s, remote |-> remote, forced |-> force] \in Task
      BY NewTasks
    <3> QED BY <1>7, <1>b, <3>1, Scheduled DEF AddRemoteCandidate
  <2> QED BY <1>7, <2>1, <2>2, Groups, GroupsSame, GroupsNext DEF AddRemoteCandidate
<1>8. ASSUME NEW s \in Session, NEW new \in Pair, ForceCandidatePair(s, new) PROVE TypeOK'
  <2>1. AppTypeOK'
    BY <1>8, <1>a DEF ForceCandidatePair
  <2>2. tasks' \in Seq(Task)
    <3>1. [op |-> "add_pair", session |-> s, pair |-> new] \in Task
      BY NewTasks
    <3> QED BY <1>8, <1>b, <3>1, Scheduled DEF ForceCandidatePair
  <2> QED BY <1>8, <2>1, <2>2, Groups, GroupsSame, GroupsNext DEF ForceCandidatePair
<1>9. ASSUME RunAddSession PROVE TypeOK'
  <2> DEFINE s == Head(tasks).session
             components == IF IsMultiplexingRtcp(s) THEN 1 ELSE 2
  <2>1. s \in Session /\ tasks' \in Seq(Task)
    BY <1>9, HeadTask, TaskFields DEF RunAddSession, Finish
  <2>2. CASE streams[s] # 0
    BY <1>9, <2>1, <2>2, Groups, GroupsSame, GroupsNext DEF RunAddSession
  <2>3. CASE streams[s] = 0
    <3>0. components \in 0..2 /\ streams' = [streams EXCEPT ![s] = components]
      BY <1>9, <2>3 DEF RunAddSession
    <3>1. NiceTypeOK'
      <4>1. UpdateHelperServers({s}, server) /\ GatherCandidates(IF deferred = 0 THEN {s} ELSE {})
            /\ UNCHANGED <<announced, nice>>
        BY <1>9, <2>3 DEF RunAddSession
      <4> HIDE DEF components
      <4>2. streams' \in [Session -> 0..2]
        BY <2>1, <3>0 DEF TypeOK
      <4>3. configured' \in [Session -> SUBSET Server]
        BY <4>1 DEF UpdateHelperServers, Known, TypeOK
      <4>4. gathering' \in [Session -> {"no", "running", "done"}]
        BY <4>1 DEF GatherCandidates, TypeOK
      <4> QED BY <4>1, <4>2, <4>3, <4>4 DEF NiceTypeOK, TypeOK
    <3>2. handed' \in [Session -> SUBSET Remote]
      <4>1. HandOver(s, remotes[s], components) /\ remotes[s] \in Seq(Remote)
        BY <1>9, <2>1, <2>3 DEF RunAddSession, TypeOK
      <4> QED BY <2>1, <4>1, AcceptedType DEF HandOver, TypeOK
    <3>3. Select(s, forced[s], components) /\ forced[s] \in Seq(Remote)
      BY <1>9, <2>1, <2>3 DEF RunAddSession, TypeOK
    <3>4. HandedTypeOK'
      BY <2>1, <3>2, <3>3, SelectType DEF HandedTypeOK
    <3> QED BY <1>9, <2>1, <3>1, <3>4, Groups, GroupsSame, GroupsNext DEF RunAddSession
  <2> QED BY <2>2, <2>3
<1>10. ASSUME RunAddRemoteCandidate PROVE TypeOK'
  <2> DEFINE s == Head(tasks).session
             remote == Head(tasks).remote
             list == IF Head(tasks).forced THEN forced[s] ELSE remotes[s]
             longer == Append(list, remote)
  <2>1. s \in Session /\ remote \in Remote /\ tasks' \in Seq(Task)
    BY <1>10, HeadTask, TaskFields DEF RunAddRemoteCandidate, Runs, Finish
  <2>2. longer \in Seq(Remote)
    BY <2>1 DEF TypeOK
  <2>3. RemoteTypeOK'
    <3>1. PICK t \in Session, list2 \in Seq(Remote) :
              /\ forced' = forced \/ forced' = [forced EXCEPT ![t] = list2]
              /\ remotes' = remotes \/ remotes' = [remotes EXCEPT ![t] = list2]
              /\ UNCHANGED pair
      <4>1. /\ forced' = forced \/ forced' = [forced EXCEPT ![s] = longer]
            /\ remotes' = remotes \/ remotes' = [remotes EXCEPT ![s] = longer]
            /\ UNCHANGED pair
        BY <1>10 DEF RunAddRemoteCandidate
      <4> HIDE DEF longer, s
      <4> QED BY <4>1, <2>1, <2>2
    <3>2. forced \in [Session -> Seq(Remote)] /\ remotes \in [Session -> Seq(Remote)]
      BY DEF TypeOK
    <3>3. forced' \in [Session -> Seq(Remote)]
      BY <3>1, <3>2, ListUpdated
    <3>4. remotes' \in [Session -> Seq(Remote)]
      BY <3>1, <3>2, ListUpdated
    <3> QED BY <3>1, <3>3, <3>4 DEF TypeOK, RemoteTypeOK
  <2>4. CASE Select(s, longer, streams[s]) /\ UNCHANGED handed
    <3>1. HandedTypeOK'
      BY <2>1, <2>2, <2>4, SelectType DEF HandedTypeOK, TypeOK
    <3> QED BY <1>10, <2>1, <2>3, <3>1, Groups, GroupsSame, GroupsNext DEF RunAddRemoteCandidate
  <2>5. CASE HandOver(s, longer, streams[s]) /\ UNCHANGED selected
    <3>1. HandedTypeOK'
      BY <2>1, <2>2, <2>5, AcceptedType DEF HandedTypeOK, HandOver, TypeOK
    <3> QED BY <1>10, <2>1, <2>3, <3>1, Groups, GroupsSame, GroupsNext DEF RunAddRemoteCandidate
  <2>6. CASE UNCHANGED handedVars
    BY <1>10, <2>1, <2>3, <2>6, Groups, GroupsSame, GroupsNext DEF RunAddRemoteCandidate
  <2> QED BY <1>10, <2>4, <2>5, <2>6 DEF RunAddRemoteCandidate, handedVars
<1>11. ASSUME RunAddCandidatePair PROVE TypeOK'
  <2>0. /\ Head(tasks).session \in Session /\ Head(tasks).pair \in Pair
        /\ tasks' \in Seq(Task)
    BY <1>11, HeadTask, TaskFields DEF RunAddCandidatePair, Runs, Finish
  <2>1. Head(tasks).pair.remote.component \in Component
    <3>1. Head(tasks).pair.remote \in Remote
      BY <2>0 DEF Pair
    <3> QED BY <3>1, RemoteComponent
  <2>2. RemoteTypeOK'
    BY <1>11, <2>0, <2>1 DEF RunAddCandidatePair, TypeOK, RemoteTypeOK
  <2> QED BY <1>11, <2>0, <2>2, Groups, GroupsSame, GroupsNext DEF RunAddCandidatePair
<1>12. ASSUME NEW set \in BOOLEAN, EmitNewCandidate(set) PROVE TypeOK'
  <2> DEFINE s == Head(tasks).session
  <2>1. s \in Session /\ tasks' \in Seq(Task)
    BY <1>12, HeadTask, TaskFields DEF EmitNewCandidate, Finish
  <2>2. /\ local[s] \in Seq(Credential) /\ agentCredential[s] \in Credential
        /\ "application" \in Credential
    BY <2>1 DEF TypeOK, Credential
  <2> DEFINE list == SessionOnNewCandidate(s)
             given == Append(UpdateLocalCredentials(SubSeq(list, 1, Len(list) - 1), "application"),
                             "application")
  <2>3. list \in Seq(Credential) /\ given \in Seq(Credential)
    BY <2>2, CandidateLists
  <2>4. /\ local' = [local EXCEPT ![s] = IF set THEN given ELSE list]
        /\ agentCredential' = [agentCredential EXCEPT ![s] = IF set THEN "application" ELSE @]
        /\ UNCHANGED gatheringDone
    BY <1>12, <2>1 DEF EmitNewCandidate, TypeOK
  <2> HIDE DEF list, given
  <2>5. LocalTypeOK'
    BY <2>1, <2>2, <2>3, <2>4 DEF TypeOK, LocalTypeOK
  <2> QED BY <1>12, <2>1, <2>5, Groups, GroupsSame, GroupsNext DEF EmitNewCandidate
<1>13. ASSUME EmitCandidateGatheringDone PROVE TypeOK'
  <2>1. Head(tasks).session \in Session /\ tasks' \in Seq(Task)
    BY <1>13, HeadTask, TaskFields DEF EmitCandidateGatheringDone, Finish
  <2>2. LocalTypeOK'
    BY <1>13, <2>1 DEF EmitCandidateGatheringDone, TypeOK, LocalTypeOK
  <2>3. HandedTypeOK'
    BY <1>13, <2>1 DEF EmitCandidateGatheringDone, TypeOK, HandedTypeOK
  <2> QED BY <1>13, <2>1, <2>2, <2>3, Groups, GroupsSame, GroupsNext
      DEF EmitCandidateGatheringDone
<1>14. ASSUME EmitIceStateChanged PROVE TypeOK'
  <2> DEFINE s == Head(tasks).session
             new == [componentState[s] EXCEPT ![Head(tasks).component] = Head(tasks).state]
  <2>1. s \in Session /\ tasks' \in Seq(Task)
    BY <1>14, HeadTask, TaskFields DEF EmitIceStateChanged, Finish
  <2>2. new \in [Component -> IceState]
    BY <1>14, <2>1, HeadTask, TaskFields DEF EmitIceStateChanged, Runs, TypeOK
  <2>3. StateOf(s, new) \in IceState
    BY <2>2, StateOfType
  <2> HIDE DEF new
  <2>4. StateTypeOK'
    BY <1>14, <2>1, <2>2, <2>3 DEF EmitIceStateChanged, TypeOK, StateTypeOK, new
  <2> QED BY <1>14, <2>1, <2>4, Groups, GroupsSame, GroupsNext DEF EmitIceStateChanged
<1>15. ASSUME NEW s \in Session, OnNewCandidate(s) PROVE TypeOK'
  <2>1. tasks' \in Seq(Task)
    <3>1. [op |-> "new_candidate", session |-> s] \in Task
      BY NewTasks
    <3> QED BY <1>15, <1>b, <3>1, Scheduled DEF OnNewCandidate
  <2>2. NiceTypeOK'
    BY <1>15, BoundAssumption DEF OnNewCandidate, TypeOK, NiceTypeOK
  <2> QED BY <1>15, <2>1, <2>2, Groups, GroupsSame, GroupsNext DEF OnNewCandidate
<1>16. ASSUME NEW s \in Session, OnCandidateGatheringDone(s) PROVE TypeOK'
  <2>1. tasks' \in Seq(Task)
    <3>1. [op |-> "gathering_done", session |-> s] \in Task
      BY NewTasks
    <3> QED BY <1>16, <1>b, <3>1, Scheduled DEF OnCandidateGatheringDone
  <2>2. NiceTypeOK'
    BY <1>16 DEF OnCandidateGatheringDone, TypeOK, NiceTypeOK
  <2> QED BY <1>16, <2>1, <2>2, Groups, GroupsSame, GroupsNext DEF OnCandidateGatheringDone
<1>17. ASSUME NEW s \in Session, NEW component \in Component,
              OnComponentStateChanged(s, component)
       PROVE  TypeOK'
  <2>1. Reported \subseteq IceState
    BY ReportedAssumption DEF IceState, Disconnected, Failed
  <2>2. tasks' \in Seq(Task)
    <3>1. PICK state \in IceState :
             Schedule([op |-> "state", session |-> s, component |-> component, state |-> state])
      BY <1>17, <2>1 DEF OnComponentStateChanged
    <3>2. [op |-> "state", session |-> s, component |-> component, state |-> state] \in Task
      BY NewTasks
    <3> QED BY <1>b, <3>1, <3>2, Scheduled
  <2>3. NiceTypeOK'
    BY <1>17, <2>1 DEF OnComponentStateChanged, TypeOK, NiceTypeOK
  <2> QED BY <1>17, <2>2, <2>3, Groups, GroupsSame, GroupsNext DEF OnComponentStateChanged
<1>18. ASSUME UNCHANGED vars PROVE TypeOK'
  BY <1>18, Groups, GroupsSame, GroupsNext DEF vars
<1> QED BY <1>1, <1>2, <1>3, <1>4, <1>5, <1>6, <1>7, <1>8, <1>9, <1>10, <1>11, <1>12, <1>13,
           <1>14, <1>15, <1>16, <1>17, <1>18 DEF Next, Application, MainLoop

\* The types of the model hold in every reachable state.
THEOREM TypeCorrect == Spec => []TypeOK
  BY TypeOK_Init, TypeOK_Next, PTL DEF Spec

----------------------------------------------------------------------------
(* Credentials *)

\* Nothing but a new candidate touches the list and the credentials of libnice.
LEMMA LocalFrame ==
    ASSUME [Next]_vars
    PROVE  \/ \E set \in BOOLEAN : EmitNewCandidate(set)
           \/ UNCHANGED <<local, agentCredential>>
  BY DEF vars, localVars, Next, Application, MainLoop, AddHelperServer, AddHelperServerCounted,
         HelperServerResolved, AddHelperServerInfo, AddSession, SetRtcpMux, AddRemoteCandidate,
         ForceCandidatePair, RunAddSession, RunAddRemoteCandidate, RunAddCandidatePair,
         EmitCandidateGatheringDone, EmitIceStateChanged, OnNewCandidate,
         OnCandidateGatheringDone, OnComponentStateChanged

\* A candidate gets the credentials of libnice, and new ones go to all candidates.
LEMMA Credentials_New ==
    ASSUME TypeOK, CredentialsAgree, NEW set \in BOOLEAN, EmitNewCandidate(set)
    PROVE  CredentialsAgree'
<1> DEFINE s == Head(tasks).session
           list == SessionOnNewCandidate(s)
           others == UpdateLocalCredentials(SubSeq(list, 1, Len(list) - 1), "application")
           given == Append(others, "application")
<1>1. s \in Session
  BY HeadTask, TaskFields DEF EmitNewCandidate
<1>2. local[s] \in Seq(Credential) /\ agentCredential[s] \in Credential
  BY <1>1 DEF TypeOK
<1>3. \A i \in DOMAIN list : list[i] = agentCredential[s]
  BY <1>1, <1>2 DEF SessionOnNewCandidate, NewFromNiceCandidate, CredentialsAgree
<1>4. list \in Seq(Credential) /\ Len(list) \in Nat \ {0}
  BY <1>2 DEF SessionOnNewCandidate, NewFromNiceCandidate
<1>5. SubSeq(list, 1, Len(list) - 1) \in Seq(Credential)
  BY <1>4
<1>6. others \in Seq({"application"})
  BY <1>5 DEF UpdateLocalCredentials
<1>7. \A i \in DOMAIN given : given[i] = "application"
  BY <1>6
<1>8. /\ local' = [local EXCEPT ![s] = IF set THEN given ELSE list]
      /\ agentCredential' = [agentCredential EXCEPT ![s] = IF set THEN "application" ELSE @]
  BY <1>1 DEF EmitNewCandidate, TypeOK
<1> HIDE DEF s, list, others, given
<1> QED BY <1>1, <1>3, <1>7, <1>8 DEF CredentialsAgree, TypeOK

LEMMA Credentials_Next == TypeOK /\ CredentialsAgree /\ [Next]_vars => CredentialsAgree'
<1> SUFFICES ASSUME TypeOK, CredentialsAgree, [Next]_vars PROVE CredentialsAgree'
  OBVIOUS
<1>1. CASE UNCHANGED <<local, agentCredential>>
  BY <1>1 DEF CredentialsAgree
<1> QED BY <1>1, LocalFrame, Credentials_New

\* All candidates of a session have the credentials that libnice answers to.
THEOREM CredentialsAgreeAlways == Spec => []CredentialsAgree
<1>1. Init => CredentialsAgree
  BY DEF Init, PerSession, CredentialsAgree
<1> QED BY <1>1, Credentials_Next, TypeCorrect, PTL DEF Spec

----------------------------------------------------------------------------
(* Remote candidates *)

LEMMA HandedFrame ==
    ASSUME [Next]_vars
    PROVE  \/ RunAddSession \/ RunAddRemoteCandidate \/ EmitCandidateGatheringDone
           \/ UNCHANGED <<streams, remotes, forced, handedVars>>
  BY DEF vars, handedVars, niceVars, remoteVars, Next, Application, MainLoop, AddHelperServer,
         AddHelperServerCounted, HelperServerResolved, AddHelperServerInfo, AddSession,
         SetRtcpMux, AddRemoteCandidate, ForceCandidatePair, RunAddCandidatePair,
         EmitNewCandidate, EmitIceStateChanged, OnNewCandidate, OnCandidateGatheringDone,
         OnComponentStateChanged

\* A list with a candidate libnice accepts leaves a component with a candidate.
LEMMA SelectGives ==
    ASSUME TypeOK, NEW s \in Session, NEW list \in Seq(Remote), NEW components,
           Select(s, list, components)
    PROVE  /\ Accepted(list, components) # {} => \E c \in Component : selected'[s][c] # None
           /\ \A q \in Session \ {s} : selected'[q] = selected[q]
<1>1. \A c \in Component : selected'[s][c] = LastOf(list, c, components, selected[s][c])
  BY DEF Select, TypeOK
<1>2. \A q \in Session \ {s} : selected'[q] = selected[q]
  BY DEF Select, TypeOK
<1>3. ASSUME NEW r \in Accepted(list, components) PROVE selected'[s][r.component] # None
  <2>1. r.component \in Component
    BY AcceptedType, RemoteComponent
  <2>2. LastOf(list, r.component, components, selected[s][r.component]) \in Remote
    BY LastOfList
  <2> QED BY <1>1, <2>1, <2>2, NoneAssumption
<1>4. \A r \in Accepted(list, components) : r.component \in Component
  BY AcceptedType, RemoteComponent
<1> QED BY <1>2, <1>3, <1>4

\* What a session in the agent has, for one session.
Handed(s) ==
    streams[s] # 0 =>
        /\ Accepted(remotes[s], streams[s]) \subseteq handed[s]
        /\ Accepted(forced[s], streams[s]) # {} => \E c \in Component : selected[s][c] # None

LEMMA Handed_AddSession ==
    ASSUME TypeOK, RemoteCandidatesHanded, RunAddSession PROVE RemoteCandidatesHanded'
<1>0. PICK s \in Session : s = Head(tasks).session
  BY HeadTask, TaskFields DEF RunAddSession
<1> DEFINE components == IF IsMultiplexingRtcp(s) THEN 1 ELSE 2
<1>1. s \in Session /\ UNCHANGED <<remotes, forced>>
  BY DEF RunAddSession, remoteVars
<1>2. CASE streams[s] # 0
  BY <1>0, <1>2 DEF RunAddSession, niceVars, handedVars, remoteVars, RemoteCandidatesHanded
<1>3. CASE streams[s] = 0
  <2>1. /\ streams' = [streams EXCEPT ![s] = components]
        /\ HandOver(s, remotes[s], components) /\ Select(s, forced[s], components)
    BY <1>0, <1>3 DEF RunAddSession
  <2> HIDE DEF components
  <2>2. forced[s] \in Seq(Remote)
    BY <1>1 DEF TypeOK
  <2>3. Handed(s)'
    <3>1. streams'[s] = components
      BY <1>1, <2>1 DEF TypeOK
    <3>2. Accepted(remotes[s], components) \subseteq handed'[s]
      BY <1>1, <2>1 DEF HandOver, TypeOK
    <3>3. Accepted(forced[s], components) # {} => \E c \in Component : selected'[s][c] # None
      BY <1>1, <2>1, <2>2, SelectGives
    <3> QED BY <1>1, <3>1, <3>2, <3>3 DEF Handed
  <2>4. ASSUME NEW q \in Session \ {s} PROVE Handed(q)'
    <3>1. streams'[q] = streams[q] /\ handed'[q] = handed[q] /\ selected'[q] = selected[q]
      BY <1>1, <2>1, <2>2, SelectGives DEF HandOver, TypeOK
    <3> QED BY <1>1, <3>1 DEF Handed, RemoteCandidatesHanded
  <2> QED BY <2>3, <2>4 DEF Handed, RemoteCandidatesHanded
<1> QED BY <1>2, <1>3

LEMMA Handed_AddRemote ==
    ASSUME TypeOK, RemoteCandidatesHanded, RunAddRemoteCandidate PROVE RemoteCandidatesHanded'
<1>0. PICK s \in Session, remote \in Remote : s = Head(tasks).session /\ remote = Head(tasks).remote
  BY HeadTask, TaskFields DEF RunAddRemoteCandidate, Runs
<1> DEFINE list == IF Head(tasks).forced THEN forced[s] ELSE remotes[s]
           longer == Append(list, remote)
<1>1. s \in Session /\ remote \in Remote /\ UNCHANGED streams
  BY DEF RunAddRemoteCandidate, niceVars
<1>2. longer \in Seq(Remote)
  BY <1>1 DEF TypeOK
<1>3. CASE remote \in Elements(list)
  BY <1>0, <1>1, <1>3 DEF RunAddRemoteCandidate, handedVars, RemoteCandidatesHanded
<1>4. CASE remote \notin Elements(list) /\ Head(tasks).forced
  <2>1. /\ forced' = [forced EXCEPT ![s] = longer] /\ UNCHANGED <<remotes, handed>>
        /\ streams[s] # 0 => Select(s, longer, streams[s])
        /\ streams[s] = 0 => UNCHANGED selected
    BY <1>0, <1>4 DEF RunAddRemoteCandidate
  <2> HIDE DEF longer
  <2>2. forced'[s] = longer /\ \A q \in Session \ {s} : forced'[q] = forced[q]
    BY <1>1, <2>1 DEF TypeOK
  <2>3. Handed(s)'
    BY <1>1, <1>2, <2>1, <2>2, SelectGives DEF Handed, RemoteCandidatesHanded
  <2>4. ASSUME NEW q \in Session \ {s} PROVE Handed(q)'
    BY <1>1, <1>2, <2>1, <2>2, SelectGives DEF Handed, RemoteCandidatesHanded
  <2> QED BY <2>3, <2>4 DEF Handed, RemoteCandidatesHanded
<1>5. CASE remote \notin Elements(list) /\ ~Head(tasks).forced
  <2>1. /\ remotes' = [remotes EXCEPT ![s] = longer] /\ UNCHANGED <<forced, selected>>
        /\ streams[s] # 0 => HandOver(s, longer, streams[s])
        /\ streams[s] = 0 => UNCHANGED handed
    BY <1>0, <1>5 DEF RunAddRemoteCandidate
  <2> HIDE DEF longer
  <2>2. remotes'[s] = longer /\ \A q \in Session \ {s} : remotes'[q] = remotes[q]
    BY <1>1, <2>1 DEF TypeOK
  <2>3. /\ streams[s] # 0 => Accepted(longer, streams[s]) \subseteq handed'[s]
        /\ \A q \in Session \ {s} : handed'[q] = handed[q]
    BY <1>1, <2>1 DEF HandOver, TypeOK
  <2> QED BY <1>1, <2>1, <2>2, <2>3 DEF RemoteCandidatesHanded
<1> QED BY <1>3, <1>4, <1>5

LEMMA Handed_GatheringDone ==
    ASSUME TypeOK, RemoteCandidatesHanded, EmitCandidateGatheringDone
    PROVE  RemoteCandidatesHanded'
<1> DEFINE s == Head(tasks).session
<1>1. /\ s \in Session /\ UNCHANGED <<streams, remotes, forced, handed>>
  BY HeadTask, TaskFields DEF EmitCandidateGatheringDone, niceVars, remoteVars
<1>2. \A q \in Session, c \in Component : selected[q][c] # None => selected'[q][c] # None
  BY <1>1 DEF EmitCandidateGatheringDone, TypeOK
<1> HIDE DEF s
<1> QED BY <1>1, <1>2 DEF RemoteCandidatesHanded

LEMMA Handed_Next ==
    TypeOK /\ RemoteCandidatesHanded /\ [Next]_vars => RemoteCandidatesHanded'
<1> SUFFICES ASSUME TypeOK, RemoteCandidatesHanded, [Next]_vars PROVE RemoteCandidatesHanded'
  OBVIOUS
<1>1. CASE UNCHANGED <<streams, remotes, forced, handedVars>>
  BY <1>1 DEF handedVars, RemoteCandidatesHanded
<1> QED BY <1>1, HandedFrame, Handed_AddSession, Handed_AddRemote, Handed_GatheringDone

\* Every remote candidate a session took has reached libnice once the session is in the
\* agent, and a forced one is in force, in whatever order they were added.
THEOREM RemoteCandidatesAlwaysHanded == Spec => []RemoteCandidatesHanded
<1>1. Init => RemoteCandidatesHanded
  BY DEF Init, PerSession, RemoteCandidatesHanded
<1> QED BY <1>1, Handed_Next, TypeCorrect, PTL DEF Spec

----------------------------------------------------------------------------
(* The state of a session *)

\* The reports of a component's state that wait on the main loop.
IsReport(task, s, c) == task.op = "state" /\ task.session = s /\ task.component = c
Reports(s, c) == {i \in DOMAIN tasks : IsReport(tasks[i], s, c)}

\* The last report says what libnice's component is in; without one the session knows.
ReportsInv ==
    \A s \in Session, c \in Component :
        /\ Reports(s, c) = {} => componentState[s][c] = nice[s][c]
        /\ \A i \in Reports(s, c) :
              (\A j \in Reports(s, c) : j <= i) => tasks[i].state = nice[s][c]

\* A session is in the state of its components, by what it knows of them.
AggregateInv ==
    \A s \in Session \ lateMux : iceState[s] = StateOf(s, componentState[s])

\* What a step does to tasks and reports, if it is none of the three that change states.
LEMMA StateFrame ==
    ASSUME TypeOK, [Next]_vars
    PROVE  \/ \E s \in Session, value \in BOOLEAN : SetRtcpMux(s, value)
           \/ EmitIceStateChanged
           \/ \E s \in Session, c \in Component : OnComponentStateChanged(s, c)
           \/ /\ UNCHANGED <<mux, lateMux, nice, componentState, iceState>>
              /\ \/ UNCHANGED tasks
                 \/ \E x \in Task : x.op # "state" /\ tasks' = Append(tasks, x)
                 \/ tasks # <<>> /\ tasks' = Tail(tasks) /\ Head(tasks).op # "state"
<1> USE DEF appVars, niceVars, stateVars
<1>1. ASSUME NEW s \in Session, AddSession(s)
      PROVE  /\ UNCHANGED <<mux, lateMux, nice, componentState, iceState>>
             /\ \E x \in Task : x.op # "state" /\ tasks' = Append(tasks, x)
  <2> DEFINE x == [op |-> "add_session", session |-> s]
  <2>1. x \in Task /\ x.op # "state"
    BY NewTasks
  <2> QED BY <1>1, <2>1 DEF AddSession, Schedule
<1>2. ASSUME NEW s \in Session, NEW remote \in Remote, NEW force \in BOOLEAN,
             AddRemoteCandidate(s, remote, force)
      PROVE  /\ UNCHANGED <<mux, lateMux, nice, componentState, iceState>>
             /\ \E x \in Task : x.op # "state" /\ tasks' = Append(tasks, x)
  <2> DEFINE x == [op |-> "add_remote", session |-> s, remote |-> remote, forced |-> force]
  <2>1. x \in Task /\ x.op # "state"
    BY NewTasks
  <2> QED BY <1>2, <2>1 DEF AddRemoteCandidate, Schedule
<1>3. ASSUME NEW s \in Session, NEW new \in Pair, ForceCandidatePair(s, new)
      PROVE  /\ UNCHANGED <<mux, lateMux, nice, componentState, iceState>>
             /\ \E x \in Task : x.op # "state" /\ tasks' = Append(tasks, x)
  <2> DEFINE x == [op |-> "add_pair", session |-> s, pair |-> new]
  <2>1. x \in Task /\ x.op # "state"
    BY NewTasks
  <2> QED BY <1>3, <2>1 DEF ForceCandidatePair, Schedule
<1>4. ASSUME NEW s \in Session, OnNewCandidate(s)
      PROVE  /\ UNCHANGED <<mux, lateMux, nice, componentState, iceState>>
             /\ \E x \in Task : x.op # "state" /\ tasks' = Append(tasks, x)
  <2> DEFINE x == [op |-> "new_candidate", session |-> s]
  <2>1. x \in Task /\ x.op # "state"
    BY NewTasks
  <2> QED BY <1>4, <2>1 DEF OnNewCandidate, Schedule
<1>5. ASSUME NEW s \in Session, OnCandidateGatheringDone(s)
      PROVE  /\ UNCHANGED <<mux, lateMux, nice, componentState, iceState>>
             /\ \E x \in Task : x.op # "state" /\ tasks' = Append(tasks, x)
  <2> DEFINE x == [op |-> "gathering_done", session |-> s]
  <2>1. x \in Task /\ x.op # "state"
    BY NewTasks
  <2> QED BY <1>5, <2>1 DEF OnCandidateGatheringDone, Schedule
<1>6. ASSUME \/ RunAddSession \/ RunAddRemoteCandidate \/ RunAddCandidatePair
             \/ \E set \in BOOLEAN : EmitNewCandidate(set)
             \/ EmitCandidateGatheringDone
      PROVE  /\ UNCHANGED <<mux, lateMux, nice, componentState, iceState>>
             /\ tasks # <<>> /\ tasks' = Tail(tasks) /\ Head(tasks).op # "state"
  BY <1>6 DEF RunAddSession, RunAddRemoteCandidate, RunAddCandidatePair, EmitNewCandidate,
     EmitCandidateGatheringDone, Runs, Finish
<1>7. ASSUME \/ \E h \in Server : AddHelperServer(h) \/ HelperServerResolved(h)
             \/ AddHelperServerCounted
             \/ \E found \in BOOLEAN : AddHelperServerInfo(found)
             \/ UNCHANGED vars
      PROVE  UNCHANGED <<mux, lateMux, nice, componentState, iceState, tasks>>
  BY <1>7 DEF AddHelperServer, HelperServerResolved, AddHelperServerCounted,
     AddHelperServerInfo, vars
<1> QED BY <1>1, <1>2, <1>3, <1>4, <1>5, <1>6, <1>7 DEF Next, Application, MainLoop

\* A task at the end of the queue that reports nothing about a component.
LEMMA ReportsAppend ==
    ASSUME TypeOK, NEW x \in Task, tasks' = Append(tasks, x), NEW s, NEW c, ~IsReport(x, s, c)
    PROVE  /\ Reports(s, c)' = Reports(s, c)
           /\ \A i \in Reports(s, c) : tasks'[i] = tasks[i]
<1>1. /\ DOMAIN tasks = 1..Len(tasks) /\ DOMAIN tasks' = 1..(Len(tasks) + 1)
      /\ Len(tasks) \in Nat /\ tasks'[Len(tasks) + 1] = x
      /\ \A i \in DOMAIN tasks : tasks'[i] = tasks[i]
  BY DEF TypeOK
<1> QED BY <1>1 DEF Reports

\* What is left of the queue, place by place.
LEMMA TailPlaces ==
    ASSUME TypeOK, tasks # <<>>, tasks' = Tail(tasks)
    PROVE  /\ 1 \in DOMAIN tasks /\ tasks[1] = Head(tasks)
           /\ DOMAIN tasks \subseteq Nat \ {0}
           /\ \A i : i \in DOMAIN tasks' <=> i \in Nat \ {0} /\ i + 1 \in DOMAIN tasks
           /\ \A i \in DOMAIN tasks' : tasks'[i] = tasks[i + 1]
<1>1. Len(tasks) \in Nat \ {0} /\ DOMAIN tasks = 1..Len(tasks)
  BY DEF TypeOK
<1>2. DOMAIN tasks' = 1..(Len(tasks) - 1)
  BY <1>1 DEF TypeOK
<1>3. \A i \in DOMAIN tasks' : tasks'[i] = tasks[i + 1]
  BY <1>1, <1>2 DEF TypeOK
<1> QED BY <1>1, <1>2, <1>3 DEF TypeOK

\* Reports keep their order when the queue moves on.
LEMMA ReportsTail ==
    ASSUME TypeOK, tasks # <<>>, tasks' = Tail(tasks), NEW s, NEW c
    PROVE  /\ \A i \in Reports(s, c)' : i + 1 \in Reports(s, c) /\ tasks'[i] = tasks[i + 1]
           /\ \A i \in Reports(s, c) : i = 1 \/ i - 1 \in Reports(s, c)'
           /\ Reports(s, c) \subseteq Nat \ {0} /\ Reports(s, c)' \subseteq Nat \ {0}
           /\ 1 \in Reports(s, c) <=> IsReport(Head(tasks), s, c)
<1>1. ASSUME NEW i \in Reports(s, c)' PROVE i + 1 \in Reports(s, c) /\ tasks'[i] = tasks[i + 1]
  BY TailPlaces DEF Reports
<1>2. ASSUME NEW i \in Reports(s, c), i # 1 PROVE i - 1 \in Reports(s, c)'
  <2>1. i \in Nat \ {0} /\ i - 1 \in Nat \ {0} /\ (i - 1) + 1 = i
    BY <1>2, TailPlaces DEF Reports
  <2>2. i - 1 \in DOMAIN tasks' /\ tasks'[i - 1] = tasks[i]
    BY <2>1, TailPlaces DEF Reports
  <2> QED BY <2>2 DEF Reports
<1> QED BY <1>1, <1>2, TailPlaces DEF Reports

\* ReportsInv of one component.
Reported1(s, c) ==
    /\ Reports(s, c) = {} => componentState[s][c] = nice[s][c]
    /\ \A i \in Reports(s, c) :
          (\A j \in Reports(s, c) : j <= i) => tasks[i].state = nice[s][c]

\* A queue that moves on without a report of the component.
LEMMA Reports_Skip ==
    ASSUME TypeOK, NEW s, NEW c, Reported1(s, c), tasks # <<>>, tasks' = Tail(tasks),
           ~IsReport(Head(tasks), s, c),
           componentState'[s][c] = componentState[s][c], nice'[s][c] = nice[s][c]
    PROVE  Reported1(s, c)'
<1>1. Reports(s, c)' = {} => Reports(s, c) = {}
  BY ReportsTail
<1>2. ASSUME NEW i \in Reports(s, c)', \A j \in Reports(s, c)' : j <= i
      PROVE  tasks'[i].state = nice'[s][c]
  <2>1. i \in Nat /\ i + 1 \in Reports(s, c) /\ tasks'[i] = tasks[i + 1]
    BY ReportsTail
  <2>2. ASSUME NEW j \in Reports(s, c) PROVE j <= i + 1
    <3>1. j \in Nat /\ j - 1 \in Reports(s, c)'
      BY ReportsTail
    <3>2. j - 1 <= i
      BY <1>2, <3>1
    <3> QED BY <2>1, <3>1, <3>2
  <2> QED BY <2>1, <2>2 DEF Reported1
<1> QED BY <1>1, <1>2 DEF Reported1

\* A queue that grows by a task that is no report of the component.
LEMMA Reports_Other ==
    ASSUME TypeOK, NEW s, NEW c, Reported1(s, c), NEW x \in Task, tasks' = Append(tasks, x),
           ~IsReport(x, s, c),
           componentState'[s][c] = componentState[s][c], nice'[s][c] = nice[s][c]
    PROVE  Reported1(s, c)'
  BY ReportsAppend DEF Reported1

\* The session learns of a report.
LEMMA Reports_Emit ==
    ASSUME TypeOK, ReportsInv, EmitIceStateChanged
    PROVE  ReportsInv'
<1>0. PICK s \in Session, c \in Component, state \in IceState :
         /\ s = Head(tasks).session /\ c = Head(tasks).component /\ state = Head(tasks).state
  BY HeadTask, TaskFields DEF EmitIceStateChanged, Runs
<1>1. /\ tasks # <<>> /\ tasks' = Tail(tasks) /\ Head(tasks).op = "state" /\ UNCHANGED nice
      /\ componentState' = [componentState EXCEPT ![s] = [componentState[s] EXCEPT ![c] = state]]
  BY <1>0 DEF EmitIceStateChanged, Runs, Finish, niceVars
<1>2. componentState'[s][c] = state
  BY <1>1 DEF TypeOK
<1>3. ASSUME NEW q \in Session, NEW d \in Component PROVE Reported1(q, d)'
  <2>0. Reported1(q, d)
    BY DEF ReportsInv, Reported1
  <2>1. CASE q = s /\ d = c
    <3>1. 1 \in Reports(q, d) /\ tasks[1].state = state
      BY <1>0, <1>1, <2>1, ReportsTail, TailPlaces DEF IsReport
    <3>2. ASSUME Reports(q, d)' = {} PROVE componentState'[q][d] = nice'[q][d]
      <4>1. \A j \in Reports(q, d) : j <= 1
        BY <1>1, <3>2, ReportsTail
      <4> QED BY <1>1, <1>2, <2>0, <2>1, <3>1, <4>1 DEF Reported1
    <3>3. ASSUME NEW i \in Reports(q, d)', \A j \in Reports(q, d)' : j <= i
          PROVE  tasks'[i].state = nice'[q][d]
      <4>1. i \in Nat \ {0} /\ i + 1 \in Reports(q, d) /\ tasks'[i] = tasks[i + 1]
        BY <1>1, ReportsTail
      <4>2. ASSUME NEW j \in Reports(q, d) PROVE j <= i + 1
        <5>1. j \in Nat /\ (j = 1 \/ j - 1 \in Reports(q, d)')
          BY <1>1, ReportsTail
        <5>2. j = 1 \/ j - 1 <= i
          BY <3>3, <5>1
        <5> QED BY <4>1, <5>1, <5>2
      <4> QED BY <1>1, <2>0, <4>1, <4>2 DEF Reported1
    <3> QED BY <3>2, <3>3 DEF Reported1
  <2>2. CASE ~(q = s /\ d = c)
    <3>1. ~IsReport(Head(tasks), q, d)
      BY <1>0, <2>2 DEF IsReport
    <3>2. componentState'[q][d] = componentState[q][d] /\ nice'[q][d] = nice[q][d]
      BY <1>1, <2>2 DEF TypeOK
    <3> QED BY <1>1, <2>0, <3>1, <3>2, Reports_Skip
  <2> QED BY <2>1, <2>2
<1> QED BY <1>3 DEF ReportsInv, Reported1

\* libnice reports a state.
LEMMA Reports_New ==
    ASSUME TypeOK, ReportsInv, NEW s \in Session, NEW c \in Component,
           OnComponentStateChanged(s, c)
    PROVE  ReportsInv'
<1>1. PICK state \in IceState :
         /\ nice' = [nice EXCEPT ![s][c] = state] /\ UNCHANGED componentState
         /\ tasks' = Append(tasks, [op |-> "state", session |-> s, component |-> c,
                                    state |-> state])
  BY ReportedAssumption
     DEF OnComponentStateChanged, Schedule, stateVars, IceState, Disconnected, Failed
<1> DEFINE x == [op |-> "state", session |-> s, component |-> c, state |-> state]
<1>2. x \in Task
  BY NewTasks
<1>3. /\ nice'[s][c] = state
      /\ \A q \in Session, d \in Component : ~(q = s /\ d = c) => nice'[q][d] = nice[q][d]
  BY <1>1 DEF TypeOK
<1>4. ASSUME NEW q \in Session, NEW d \in Component PROVE Reported1(q, d)'
  <2>0. Reported1(q, d)
    BY DEF ReportsInv, Reported1
  <2>1. CASE q = s /\ d = c
    <3>1. /\ Len(tasks) \in Nat /\ DOMAIN tasks' = 1..(Len(tasks) + 1)
          /\ tasks'[Len(tasks) + 1] = x
      BY <1>1, <1>2 DEF TypeOK
    <3>2. Len(tasks) + 1 \in Reports(q, d)'
      BY <2>1, <3>1 DEF Reports, IsReport
    <3>3. ASSUME NEW i \in Reports(q, d)', \A j \in Reports(q, d)' : j <= i
          PROVE  tasks'[i].state = nice'[q][d]
      <4>1. i \in 1..(Len(tasks) + 1) /\ Len(tasks) + 1 <= i
        BY <3>1, <3>2, <3>3 DEF Reports
      <4>2. i = Len(tasks) + 1
        BY <3>1, <4>1
      <4> QED BY <1>3, <2>1, <3>1, <4>2
    <3> QED BY <3>2, <3>3 DEF Reported1
  <2>2. CASE ~(q = s /\ d = c)
    <3>1. ~IsReport(x, q, d)
      BY <2>2 DEF IsReport
    <3>2. componentState'[q][d] = componentState[q][d] /\ nice'[q][d] = nice[q][d]
      BY <1>1, <1>3, <2>2
    <3> HIDE DEF x
    <3>3. tasks' = Append(tasks, x)
      BY <1>1 DEF x
    <3> QED BY <1>2, <2>0, <3>1, <3>2, <3>3, Reports_Other
  <2> QED BY <2>1, <2>2
<1> QED BY <1>4 DEF ReportsInv, Reported1

LEMMA Reports_Next == TypeOK /\ ReportsInv /\ [Next]_vars => ReportsInv'
<1> SUFFICES ASSUME TypeOK, ReportsInv, [Next]_vars PROVE ReportsInv'
  OBVIOUS
<1>1. CASE UNCHANGED <<tasks, nice, componentState>>
  BY <1>1 DEF ReportsInv, Reports
<1>2. ASSUME UNCHANGED <<nice, componentState>>,
             NEW x \in Task, x.op # "state", tasks' = Append(tasks, x)
      PROVE  ReportsInv'
  <2>1. ASSUME NEW s \in Session, NEW c \in Component PROVE Reported1(s, c)'
    <3>1. Reported1(s, c) /\ ~IsReport(x, s, c)
      BY <1>2 DEF ReportsInv, Reported1, IsReport
    <3> QED BY <1>2, <3>1, Reports_Other
  <2> QED BY <2>1 DEF ReportsInv, Reported1
<1>3. ASSUME UNCHANGED <<nice, componentState>>,
             tasks # <<>>, tasks' = Tail(tasks), Head(tasks).op # "state"
      PROVE  ReportsInv'
  <2>1. ASSUME NEW s \in Session, NEW c \in Component PROVE Reported1(s, c)'
    <3>1. Reported1(s, c) /\ ~IsReport(Head(tasks), s, c)
      BY <1>3 DEF ReportsInv, Reported1, IsReport
    <3> QED BY <1>3, <3>1, Reports_Skip
  <2> QED BY <2>1 DEF ReportsInv, Reported1
<1>4. ASSUME NEW s \in Session, NEW value \in BOOLEAN, SetRtcpMux(s, value)
      PROVE  UNCHANGED <<tasks, nice, componentState>>
  BY <1>4 DEF SetRtcpMux, niceVars, stateVars
<1> QED BY <1>1, <1>2, <1>3, <1>4, StateFrame, Reports_Emit, Reports_New

\* Sessions whose rtcp-mux is the same aggregate alike.
LEMMA StateOfSame ==
    ASSUME NEW s, mux'[s] = mux[s], NEW states PROVE StateOf(s, states)' = StateOf(s, states')
  BY DEF StateOf, IsMultiplexingRtcp, Aggregate, Failed

\* Nothing reported, nothing to aggregate: rtcp-mux makes no difference.
LEMMA Aggregate_Mux ==
    ASSUME TypeOK, AggregateInv, NEW s \in Session, NEW value \in BOOLEAN, SetRtcpMux(s, value)
    PROVE  AggregateInv'
<1>1. /\ mux' = [mux EXCEPT ![s] = value] /\ UNCHANGED <<componentState, iceState>>
      /\ lateMux' = IF \E c \in Component : componentState[s][c] # Disconnected
                    THEN lateMux \cup {s} ELSE lateMux
  BY DEF SetRtcpMux, stateVars
<1>2. ASSUME NEW q \in Session \ lateMux', q # s
      PROVE  iceState[q] = (IF q \in Data \/ mux'[q] THEN componentState[q]["rtp"]
                            ELSE Aggregate(componentState[q]["rtp"], componentState[q]["rtcp"]))
  <2>1. mux'[q] = mux[q] /\ q \in Session \ lateMux
    BY <1>1, <1>2 DEF TypeOK
  <2> QED BY <2>1 DEF AggregateInv, StateOf, IsMultiplexingRtcp
<1>3. ASSUME s \notin lateMux'
      PROVE  iceState[s] = (IF s \in Data \/ mux'[s] THEN componentState[s]["rtp"]
                            ELSE Aggregate(componentState[s]["rtp"], componentState[s]["rtcp"]))
  <2>1. /\ componentState[s]["rtp"] = Disconnected /\ componentState[s]["rtcp"] = Disconnected
        /\ s \notin lateMux
    BY <1>1, <1>3 DEF Component
  <2>2. Aggregate(Disconnected, Disconnected) = Disconnected
    BY DEF Aggregate, Disconnected, Failed
  <2>3. iceState[s] = Disconnected
    BY <2>1, <2>2 DEF AggregateInv, StateOf
  <2> QED BY <2>1, <2>2, <2>3
<1> QED BY <1>1, <1>2, <1>3 DEF AggregateInv, StateOf, IsMultiplexingRtcp

LEMMA Aggregate_Emit ==
    ASSUME TypeOK, AggregateInv, EmitIceStateChanged PROVE AggregateInv'
<1>a. PICK s \in Session : s = Head(tasks).session
  BY HeadTask, TaskFields DEF EmitIceStateChanged
<1>b. PICK new : new = [componentState[s] EXCEPT ![Head(tasks).component] = Head(tasks).state]
  OBVIOUS
<1>1. /\ componentState' = [componentState EXCEPT ![s] = new] /\ UNCHANGED <<mux, lateMux>>
      /\ iceState' = IF StateOf(s, componentState[s]) # StateOf(s, new)
                     THEN [iceState EXCEPT ![s] = StateOf(s, new)] ELSE iceState
  BY <1>a, <1>b DEF EmitIceStateChanged, appVars
<1>2. \A q \in Session : StateOf(q, componentState[q])' = StateOf(q, componentState'[q])
  BY <1>1 DEF StateOf, IsMultiplexingRtcp, Aggregate, Failed
<1>3. /\ componentState'[s] = new
      /\ \A q \in Session \ {s} :
            componentState'[q] = componentState[q] /\ iceState'[q] = iceState[q]
      /\ iceState'[s] = IF StateOf(s, componentState[s]) # StateOf(s, new)
                        THEN StateOf(s, new) ELSE iceState[s]
  BY <1>1 DEF TypeOK
<1>4. \A q \in Session \ lateMux : iceState'[q] = StateOf(q, componentState'[q])
  BY <1>3 DEF AggregateInv
<1> QED BY <1>1, <1>2, <1>4 DEF AggregateInv

LEMMA Aggregate_Next == TypeOK /\ AggregateInv /\ [Next]_vars => AggregateInv'
<1> SUFFICES ASSUME TypeOK, AggregateInv, [Next]_vars PROVE AggregateInv'
  OBVIOUS
<1>1. CASE UNCHANGED <<mux, lateMux, componentState, iceState>>
  BY <1>1 DEF AggregateInv, StateOf, IsMultiplexingRtcp, Aggregate
<1>2. ASSUME NEW s \in Session, NEW c \in Component, OnComponentStateChanged(s, c)
      PROVE  UNCHANGED <<mux, lateMux, componentState, iceState>>
  BY <1>2 DEF OnComponentStateChanged, appVars, stateVars
<1> QED BY <1>1, <1>2, StateFrame, Aggregate_Mux, Aggregate_Emit

\* Once the reports of a session have been handled, its state is that of libnice's
\* components, if rtcp-mux did not change after the first of them.
THEOREM IceStateAgreesAlways == Spec => []IceStateAgrees
<1>1. Init => ReportsInv /\ AggregateInv
  <2>1. Init => ReportsInv
    BY DEF Init, PerSession, PerComponent, ReportsInv, Reports
  <2>2. Init => AggregateInv
    BY DEF Init, PerSession, PerComponent, AggregateInv, StateOf, IsMultiplexingRtcp, Aggregate,
       Component, Disconnected, Failed
  <2> QED BY <2>1, <2>2
<1>2. ReportsInv /\ AggregateInv => IceStateAgrees
  <2> SUFFICES ASSUME ReportsInv, AggregateInv, NEW s \in Session \ lateMux, ~Pending("state", s)
               PROVE  iceState[s] = StateOf(s, nice[s])
    BY DEF IceStateAgrees
  <2>1. \A c \in Component : Reports(s, c) = {}
    BY DEF Pending, Reports, IsReport
  <2>2. \A c \in Component : componentState[s][c] = nice[s][c]
    BY <2>1 DEF ReportsInv
  <2>3. /\ componentState[s]["rtp"] = nice[s]["rtp"] /\ componentState[s]["rtcp"] = nice[s]["rtcp"]
    BY <2>2 DEF Component
  <2> QED BY <2>3 DEF AggregateInv, StateOf
<1> QED BY <1>1, <1>2, Reports_Next, Aggregate_Next, TypeCorrect, PTL DEF Spec

----------------------------------------------------------------------------
(* Gathering *)

Resolving == {h \in Server : server[h] = "resolving"}

\* The count is that of the lookups under way, unless it was overwritten.
CountInv ==
    /\ adding # None => server[adding.server] = "new"
    /\ removing # None => server[removing.server] = "resolving"
    /\ ~miscounted => deferred = Cardinality(Resolving)

\* A session in the agent that does not gather waits for a lookup.
GatheringWaits ==
    ~miscounted =>
        \A s \in Session : streams[s] # 0 /\ gathering[s] = "no" => Resolving # {}

LEMMA ResolvingFinite == IsFiniteSet(Resolving) /\ Cardinality(Resolving) \in Nat
<1>1. Resolving \subseteq Server
  BY DEF Resolving
<1> QED BY <1>1, ServerAssumption, FS_Subset, FS_CardinalityType

LEMMA CountFrame ==
    ASSUME [Next]_vars
    PROVE  \/ \E h \in Server : AddHelperServer(h) \/ HelperServerResolved(h)
           \/ AddHelperServerCounted \/ \E found \in BOOLEAN : AddHelperServerInfo(found)
           \/ RunAddSession \/ \E s \in Session : OnCandidateGatheringDone(s)
           \/ UNCHANGED <<serverVars, streams, gathering>>
  BY DEF vars, niceVars, Next, Application, MainLoop, AddSession, SetRtcpMux,
         AddRemoteCandidate, ForceCandidatePair, RunAddRemoteCandidate, RunAddCandidatePair,
         EmitNewCandidate, EmitCandidateGatheringDone, EmitIceStateChanged, OnNewCandidate,
         OnComponentStateChanged

\* A lookup begins: the server that is counted was new.
LEMMA Count_Added ==
    ASSUME TypeOK, CountInv, AddHelperServerCounted
    PROVE  CountInv' /\ Resolving' # {} /\ UNCHANGED <<streams, gathering>>
<1>1. PICK h \in Server : h = adding.server /\ adding # None
  BY DEF AddHelperServerCounted, TypeOK
<1>2. /\ server[h] = "new" /\ server' = [server EXCEPT ![h] = "resolving"]
      /\ adding' = None /\ UNCHANGED <<removing, streams, gathering>>
      /\ deferred' = adding.read + 1 /\ miscounted' = (miscounted \/ deferred # adding.read)
  BY <1>1 DEF AddHelperServerCounted, CountInv, niceVars
<1>3. Resolving' = Resolving \cup {h} /\ h \notin Resolving
  BY <1>2 DEF Resolving, TypeOK
<1>4. Cardinality(Resolving') = Cardinality(Resolving) + 1
  BY <1>3, ResolvingFinite, FS_AddElement
<1>5. removing' # None => server'[removing'.server] = "resolving"
  BY <1>2 DEF CountInv, TypeOK
<1>6. ~miscounted' => deferred' = Cardinality(Resolving')
  BY <1>2, <1>4 DEF CountInv
<1>7. Cardinality(Resolving)' = Cardinality(Resolving')
  OBVIOUS
<1> QED BY <1>2, <1>3, <1>5, <1>6, <1>7 DEF CountInv

\* A lookup ends: the count goes down, and at zero every session gathers.
LEMMA Count_Removed ==
    ASSUME TypeOK, CountInv, NEW found \in BOOLEAN, AddHelperServerInfo(found)
    PROVE  CountInv' /\ GatheringWaits'
<1>1. PICK h \in Server : h = removing.server /\ removing # None
  BY DEF AddHelperServerInfo, TypeOK
<1>2. /\ server[h] = "resolving"
      /\ server' = [server EXCEPT ![h] = IF found THEN "known" ELSE "failed"]
      /\ removing' = None /\ UNCHANGED <<adding, streams>>
      /\ deferred' = removing.read - 1 /\ miscounted' = (miscounted \/ deferred # removing.read)
      /\ GatherCandidates(IF deferred' = 0 THEN {s \in Session : streams[s] # 0} ELSE {})
  BY <1>1 DEF AddHelperServerInfo, CountInv
<1>3. Resolving' = Resolving \ {h} /\ h \in Resolving
  BY <1>2 DEF Resolving, TypeOK
<1>4. Cardinality(Resolving') = Cardinality(Resolving) - 1
  BY <1>3, ResolvingFinite, FS_RemoveElement
<1>5. adding' # None => server'[adding'.server] = "new"
  BY <1>2 DEF CountInv, TypeOK
<1>6. ~miscounted' => deferred' = Cardinality(Resolving')
  BY <1>2, <1>4 DEF CountInv
<1>7. CountInv'
  BY <1>2, <1>5, <1>6 DEF CountInv
<1>8. ASSUME ~miscounted', NEW s \in Session, streams'[s] # 0, gathering'[s] = "no"
      PROVE  Resolving' # {}
  <2>1. deferred' # 0
    BY <1>2, <1>8 DEF GatherCandidates, TypeOK
  <2> QED BY <1>6, <1>8, <2>1, FS_EmptySet
<1> QED BY <1>7, <1>8 DEF GatheringWaits

LEMMA Count_Next ==
    TypeOK /\ CountInv /\ GatheringWaits /\ [Next]_vars => CountInv' /\ GatheringWaits'
<1> SUFFICES ASSUME TypeOK, CountInv, GatheringWaits, [Next]_vars
             PROVE  CountInv' /\ GatheringWaits'
  OBVIOUS
<1>1. ASSUME NEW h \in Server, AddHelperServer(h) PROVE CountInv' /\ GatheringWaits'
  <2>1. /\ server[h] = "new" /\ adding' = [server |-> h, read |-> deferred]
        /\ UNCHANGED <<server, deferred, removing, miscounted, streams, gathering>>
    BY <1>1 DEF AddHelperServer, niceVars
  <2> QED BY <2>1 DEF CountInv, GatheringWaits, Resolving
<1>2. ASSUME AddHelperServerCounted PROVE CountInv' /\ GatheringWaits'
  BY <1>2, Count_Added DEF GatheringWaits
<1>3. ASSUME NEW h \in Server, HelperServerResolved(h) PROVE CountInv' /\ GatheringWaits'
  <2>1. /\ server[h] = "resolving" /\ removing' = [server |-> h, read |-> deferred]
        /\ UNCHANGED <<server, deferred, adding, miscounted, streams, gathering>>
    BY <1>3 DEF HelperServerResolved, niceVars
  <2> QED BY <2>1 DEF CountInv, GatheringWaits, Resolving
<1>4. ASSUME RunAddSession PROVE CountInv' /\ GatheringWaits'
  <2>0. PICK s \in Session : s = Head(tasks).session
    BY <1>4, HeadTask, TaskFields DEF RunAddSession
  <2>1. UNCHANGED serverVars
    BY <1>4 DEF RunAddSession
  <2>2. CountInv' /\ Resolving' = Resolving
    BY <2>1 DEF serverVars, CountInv, Resolving
  <2>3. CASE UNCHANGED niceVars
    BY <2>1, <2>2, <2>3 DEF serverVars, niceVars, GatheringWaits
  <2>4. CASE ~UNCHANGED niceVars
    <3>1. /\ \E n : streams' = [streams EXCEPT ![s] = n]
          /\ GatherCandidates(IF deferred = 0 THEN {s} ELSE {})
      BY <1>4, <2>0, <2>4 DEF RunAddSession
    <3>2. ASSUME ~miscounted, deferred # 0 PROVE Resolving # {}
      BY <3>2, FS_EmptySet DEF CountInv
    <3>3. ASSUME ~miscounted, NEW q \in Session, streams'[q] # 0, gathering'[q] = "no"
          PROVE  Resolving # {}
      <4>1. CASE q = s
        <5>1. deferred # 0
          BY <3>1, <3>3, <4>1 DEF GatherCandidates, TypeOK
        <5> QED BY <3>2, <3>3, <5>1
      <4>2. CASE q # s
        <5>1. streams'[q] = streams[q] /\ gathering[q] = "no"
          BY <3>1, <3>3, <4>2 DEF GatherCandidates, TypeOK
        <5> QED BY <3>3, <5>1 DEF GatheringWaits
      <4> QED BY <4>1, <4>2
    <3> QED BY <2>1, <2>2, <3>3 DEF serverVars, GatheringWaits
  <2> QED BY <2>3, <2>4
<1>5. ASSUME NEW s \in Session, OnCandidateGatheringDone(s) PROVE CountInv' /\ GatheringWaits'
  <2>1. UNCHANGED <<serverVars, streams>> /\ gathering' = [gathering EXCEPT ![s] = "done"]
    BY <1>5 DEF OnCandidateGatheringDone
  <2>2. CountInv' /\ Resolving' = Resolving
    BY <2>1 DEF serverVars, CountInv, Resolving
  <2>3. \A q \in Session : gathering'[q] = "no" => gathering[q] = "no"
    BY <2>1 DEF TypeOK
  <2> QED BY <2>1, <2>2, <2>3 DEF serverVars, GatheringWaits
<1>6. CASE UNCHANGED <<serverVars, streams, gathering>>
  BY <1>6 DEF serverVars, CountInv, GatheringWaits, Resolving
<1> QED BY <1>1, <1>2, <1>3, <1>4, <1>5, <1>6, CountFrame, Count_Removed

\* A session in the agent that does not gather waits for a lookup, whatever lookups fail,
\* unless one thread overwrote the other's count: GatheringStarts rests on it.
THEOREM GatheringWaitsForLookups == Spec => []GatheringWaits
<1>1. Init => CountInv /\ GatheringWaits
  <2> SUFFICES ASSUME Init PROVE CountInv /\ GatheringWaits
    OBVIOUS
  <2>1. Resolving = {}
    BY DEF Init, Resolving
  <2>2. CountInv
    BY <2>1, FS_EmptySet DEF Init, CountInv
  <2>3. GatheringWaits
    BY DEF Init, PerSession, GatheringWaits
  <2> QED BY <2>2, <2>3
<1> QED BY <1>1, Count_Next, TypeCorrect, PTL DEF Spec
=============================================================================
