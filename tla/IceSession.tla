----------------------------- MODULE IceSession -----------------------------
(***************************************************************************)
(* ICE as the sessions of one OwrTransportAgent see it: helper servers are  *)
(* looked up, sessions added, candidates gathered, remote candidates and    *)
(* forced pairs handed over, and the states of the components reported.     *)
(*                                                                         *)
(* The application calls from a thread of its own; its calls schedule tasks *)
(* on the main loop, which runs them in order, and so do the callbacks of   *)
(* libnice.  add_helper_server counts on the caller's thread and            *)
(* add_helper_server_info on the main loop, without a lock: each counts in  *)
(* two steps here.  The application's handler of on-new-candidate may set   *)
(* the credentials of the candidate, as the bridge and test_send_receive do.*)
(*                                                                         *)
(* libnice and the resolver are outside: a stream gathers once, announces   *)
(* its candidates and then that it is done, and reports any sequence of     *)
(* component states.  Addresses, ports and remote credentials are left out. *)
(* An operator that nothing uses, right before one with the same            *)
(* parameters, is a faulty variant of it; the README tells what for.        *)
(***************************************************************************)
EXTENDS Integers, Sequences, FiniteSets

CONSTANTS
    Session,         \* sessions of the application
    Data,            \* the data sessions; they have no property rtcp-mux
    Server,          \* helper servers of the application
    Remote,          \* its remote candidates
    None,            \* NULL
    Reported,        \* the component states that libnice reports
    MaxCall,         \* bound: calls of the application
    MaxLocal,        \* bound: local candidates of a session
    MaxTask          \* bound: tasks that wait when libnice reports a state

ASSUME NoneAssumption == None \notin Server \cup Remote
ASSUME DataAssumption == Data \subseteq Session
ASSUME ServerAssumption == IsFiniteSet(Server)
ASSUME ReportedAssumption == Reported \subseteq 0..5
ASSUME BoundAssumption == MaxCall \in Nat /\ MaxLocal \in Nat /\ MaxTask \in Nat

Component == {"rtp", "rtcp"}
Transport == {"udp", "tcp_active", "tcp_passive", "tcp_so"}

Port == 0..65535

\* What an OwrCandidate of the application says of itself.
Candidate == [component : Component, transport : Transport, addressed : BOOLEAN,
              port : Port]

ASSUME RemoteAssumption == Remote \subseteq Candidate

\* libnice gets no candidate without an address, nor one without a port unless the
\* other end connects.
Convertible(candidate) ==
    /\ candidate.addressed
    /\ candidate.port # 0 \/ candidate.transport = "tcp_active"

\* OwrIceState, in the order of the enumeration.
Disconnected == 0
Gathering == 1
Connecting == 2
Connected == 3
Ready == 4
Failed == 5
IceState == Disconnected..Failed

Pair == [local : 1..MaxLocal, remote : Remote]
Credential == {"libnice", "application"}

Task == [op : {"add_session", "new_candidate", "gathering_done"}, session : Session]
    \cup [op : {"add_remote"}, session : Session, remote : Remote, forced : BOOLEAN]
    \cup [op : {"add_pair"}, session : Session, pair : Pair]
    \cup [op : {"state"}, session : Session, component : Component, state : IceState]

VARIABLES
    calls,           \* calls the application has made
    mux,             \* the media sessions' rtcp-mux
    lateMux,         \* history: rtcp-mux changed after a state was reported
    server,          \* per helper server: "new", "resolving", "known" or "failed"
    deferred,        \* deferred_helper_server_adds; negative for a guint that wrapped
    adding,          \* in the application's thread: the server it counts, and what it read
    removing,        \* on the main loop: the lookup that ended, and what it read
    miscounted,      \* history: one thread overwrote what the other had counted
    tasks,           \* the main context's sources
    streams,         \* priv->sessions: components of the session's stream, 0 without one
    configured,      \* external: the helper servers libnice was given for the stream
    gathering,       \* external: "no", "running" or "done"
    announced,       \* external: candidates libnice has announced
    nice,            \* external: states of the components
    agentCredential, \* external: the stream's local credentials
    handed,          \* external: remote candidates libnice accepted for the stream
    selected,        \* external: forced pair or remote candidate per component
    local,           \* local_candidates, each by its credentials
    gatheringDone,   \* gathering_done
    remotes,         \* remote_candidates
    forced,          \* forced_remote_candidates
    pair,            \* local_candidate and remote_candidate, per component
    componentState,  \* rtp_ice_state and rtcp_ice_state
    iceState         \* ice_state

appVars == <<calls, mux, lateMux>>
serverVars == <<server, deferred, adding, removing, miscounted>>
niceVars == <<streams, configured, gathering, announced, nice>>
handedVars == <<handed, selected>>
localVars == <<local, gatheringDone, agentCredential>>
remoteVars == <<remotes, forced, pair>>
stateVars == <<componentState, iceState>>
vars == <<appVars, serverVars, tasks, niceVars, handedVars, localVars, remoteVars,
          stateVars>>

PerSession(value) == [s \in Session |-> value]
PerComponent(value) == PerSession([c \in Component |-> value])

Init ==
    /\ calls = 0 /\ mux = PerSession(FALSE) /\ lateMux = {}
    /\ server = [h \in Server |-> "new"] /\ deferred = 0
    /\ adding = None /\ removing = None /\ miscounted = FALSE
    /\ tasks = <<>>
    /\ streams = PerSession(0) /\ configured = PerSession({})
    /\ gathering = PerSession("no") /\ announced = PerSession(0)
    /\ nice = PerComponent(Disconnected)
    /\ agentCredential = PerSession("libnice")
    /\ handed = PerSession({}) /\ selected = PerComponent(None)
    /\ local = PerSession(<<>>) /\ gatheringDone = PerSession(FALSE)
    /\ remotes = PerSession(<<>>) /\ forced = PerSession(<<>>)
    /\ pair = PerComponent(None)
    /\ componentState = PerComponent(Disconnected)
    /\ iceState = PerSession(Disconnected)

Schedule(task) == tasks' = Append(tasks, task)

Elements(seq) == {seq[i] : i \in DOMAIN seq}

----------------------------------------------------------------------------
(* Helper servers *)

Call ==
    /\ calls < MaxCall /\ adding = None
    /\ calls' = calls + 1

\* deferred_helper_server_adds++ reads, and then writes.
AddHelperServer(h) ==
    /\ server[h] = "new"
    /\ Call
    /\ adding' = [server |-> h, read |-> deferred]
    /\ UNCHANGED <<mux, lateMux, server, deferred, removing, miscounted, tasks, niceVars,
                   handedVars, localVars, remoteVars, stateVars>>

AddHelperServerCounted ==
    /\ adding # None
    /\ deferred' = adding.read + 1
    /\ miscounted' = (miscounted \/ deferred # adding.read)
    /\ server' = [server EXCEPT ![adding.server] = "resolving"]
    /\ adding' = None
    /\ UNCHANGED <<appVars, removing, tasks, niceVars, handedVars, localVars, remoteVars,
                   stateVars>>

\* The lookup ends, with an address or without: the main loop counts down.
HelperServerResolved(h) ==
    /\ removing = None
    /\ server[h] = "resolving"
    /\ removing' = [server |-> h, read |-> deferred]
    /\ UNCHANGED <<appVars, server, deferred, adding, miscounted, tasks, niceVars,
                   handedVars, localVars, remoteVars, stateVars>>

Known(servers) == {h \in Server : servers[h] = "known"}

\* update_helper_servers forgets the stream's relays and sets all anew.
UpdateHelperServers(which, servers) ==
    configured' = [s \in Session |-> IF s \in which THEN Known(servers) ELSE configured[s]]

\* nice_agent_gather_candidates, which does nothing for a stream that gathers.
GatherCandidates(which) ==
    gathering' = [s \in Session |->
                     IF s \in which /\ gathering[s] = "no" THEN "running" ELSE gathering[s]]

\* It gives up when the lookup fails, although it may have been the last one.
AddHelperServerInfoGivesUp(found) ==
    LET added == {s \in Session : streams[s] # 0} IN
    /\ removing # None
    /\ deferred' = removing.read - 1
    /\ miscounted' = (miscounted \/ deferred # removing.read)
    /\ server' = [server EXCEPT ![removing.server] = IF found THEN "known" ELSE "failed"]
    /\ UpdateHelperServers(IF found THEN added ELSE {}, server')
    /\ GatherCandidates(IF found /\ deferred' = 0 THEN added ELSE {})
    /\ removing' = None
    /\ UNCHANGED <<appVars, adding, tasks, streams, announced, nice, handedVars, localVars,
                   remoteVars, stateVars>>

AddHelperServerInfo(found) ==
    LET added == {s \in Session : streams[s] # 0} IN
    /\ removing # None
    /\ deferred' = removing.read - 1
    /\ miscounted' = (miscounted \/ deferred # removing.read)
    /\ server' = [server EXCEPT ![removing.server] = IF found THEN "known" ELSE "failed"]
    /\ UpdateHelperServers(IF found THEN added ELSE {}, server')
    /\ GatherCandidates(IF deferred' = 0 THEN added ELSE {})
    /\ removing' = None
    /\ UNCHANGED <<appVars, adding, tasks, streams, announced, nice, handedVars, localVars,
                   remoteVars, stateVars>>

----------------------------------------------------------------------------
(* Calls on a session *)

\* A session without the property uses one component.
IsMultiplexingRtcp(s) == s \in Data \/ mux[s]

AddSession(s) ==
    /\ Call
    /\ Schedule([op |-> "add_session", session |-> s])
    /\ UNCHANGED <<mux, lateMux, serverVars, niceVars, handedVars, localVars, remoteVars,
                   stateVars>>

SetRtcpMux(s, value) ==
    /\ s \notin Data /\ mux[s] # value
    /\ Call
    /\ mux' = [mux EXCEPT ![s] = value]
    /\ lateMux' = IF \E c \in Component : componentState[s][c] # Disconnected
                  THEN lateMux \cup {s} ELSE lateMux
    /\ UNCHANGED <<serverVars, tasks, niceVars, handedVars, localVars, remoteVars,
                   stateVars>>

\* owr_session_add_remote_candidate and owr_session_force_remote_candidate.
AddRemoteCandidate(s, remote, force) ==
    /\ ~(remote.component = "rtcp" /\ IsMultiplexingRtcp(s))
    /\ Call
    /\ Schedule([op |-> "add_remote", session |-> s, remote |-> remote, forced |-> force])
    /\ UNCHANGED <<mux, lateMux, serverVars, niceVars, handedVars, localVars, remoteVars,
                   stateVars>>

\* The application names the component of the candidates.
ForceCandidatePair(s, new) ==
    /\ new.local \in DOMAIN local[s]
    /\ Call
    /\ Schedule([op |-> "add_pair", session |-> s, pair |-> new])
    /\ UNCHANGED <<mux, lateMux, serverVars, niceVars, handedVars, localVars, remoteVars,
                   stateVars>>

----------------------------------------------------------------------------
(* Tasks of the main loop *)

Runs(op) == removing = None /\ tasks # <<>> /\ Head(tasks).op = op
Finish == tasks' = Tail(tasks)

\* on_new_remote_candidate hands over the whole list each time; libnice refuses
\* a candidate for a component the stream does not have.
Accepted(list, components) ==
    {remote \in Elements(list) :
        Convertible(remote) /\ (remote.component = "rtp" \/ components = 2)}

HandOver(s, list, components) ==
    handed' = [handed EXCEPT ![s] = @ \cup Accepted(list, components)]

\* Of the forced candidates of a component the last one is the selected one.
LastOf(list, component, components, old) ==
    LET fit == {i \in DOMAIN list :
                   /\ list[i] \in Accepted(list, components)
                   /\ list[i].component = component}
    IN IF fit = {} THEN old ELSE list[CHOOSE i \in fit : \A j \in fit : j <= i]

Select(s, list, components) ==
    selected' = [selected EXCEPT ![s] =
        [c \in Component |-> LastOf(list, c, components, selected[s][c])]]

\* A candidate added before the session waits in vain.
RunAddSessionForgets ==
    /\ Runs("add_session")
    /\ Finish
    /\ LET s == Head(tasks).session
           components == IF IsMultiplexingRtcp(s) THEN 1 ELSE 2
       IN IF streams[s] # 0
          THEN UNCHANGED <<niceVars, handedVars>>
          ELSE /\ streams' = [streams EXCEPT ![s] = components]
               /\ UpdateHelperServers({s}, server)
               /\ GatherCandidates(IF deferred = 0 THEN {s} ELSE {})
               /\ UNCHANGED <<announced, nice, handedVars>>
    /\ UNCHANGED <<appVars, serverVars, localVars, remoteVars, stateVars>>

RunAddSession ==
    /\ Runs("add_session")
    /\ Finish
    /\ LET s == Head(tasks).session
           components == IF IsMultiplexingRtcp(s) THEN 1 ELSE 2
       IN IF streams[s] # 0
          THEN UNCHANGED <<niceVars, handedVars>>
          ELSE /\ streams' = [streams EXCEPT ![s] = components]
               /\ UpdateHelperServers({s}, server)
               /\ GatherCandidates(IF deferred = 0 THEN {s} ELSE {})
               /\ HandOver(s, remotes[s], components)
               /\ Select(s, forced[s], components)
               /\ UNCHANGED <<announced, nice>>
    /\ UNCHANGED <<appVars, serverVars, localVars, remoteVars, stateVars>>

\* A candidate is taken once per list, and handed over when the agent listens.
RunAddRemoteCandidate ==
    /\ Runs("add_remote")
    /\ Finish
    /\ LET s == Head(tasks).session
           remote == Head(tasks).remote
           list == IF Head(tasks).forced THEN forced[s] ELSE remotes[s]
           longer == Append(list, remote)
       IN IF remote \in Elements(list)
          THEN UNCHANGED <<remotes, forced, handedVars>>
          ELSE IF Head(tasks).forced
          THEN /\ forced' = [forced EXCEPT ![s] = longer]
               /\ IF streams[s] # 0 THEN Select(s, longer, streams[s])
                                    ELSE UNCHANGED selected
               /\ UNCHANGED <<remotes, handed>>
          ELSE /\ remotes' = [remotes EXCEPT ![s] = longer]
               /\ IF streams[s] # 0 THEN HandOver(s, longer, streams[s])
                                    ELSE UNCHANGED handed
               /\ UNCHANGED <<forced, selected>>
    /\ UNCHANGED <<appVars, serverVars, niceVars, localVars, pair, stateVars>>

\* A pair is stored when the session knows both candidates and none is forced.
RunAddCandidatePair ==
    /\ Runs("add_pair")
    /\ Finish
    /\ LET s == Head(tasks).session
           new == Head(tasks).pair
       IN pair' = IF /\ forced[s] = <<>>
                     /\ new.remote \in Elements(remotes[s])
                     /\ new.local \in DOMAIN local[s]
                  THEN [pair EXCEPT ![s][new.remote.component] = new]
                  ELSE pair
    /\ UNCHANGED <<appVars, serverVars, niceVars, handedVars, localVars, remotes, forced,
                   stateVars>>

\* The credentials do not go to the other candidates.
UpdateLocalCredentialsOfOne(list, credential) == list

\* What one candidate is given all others get.
UpdateLocalCredentials(list, credential) == [i \in DOMAIN list |-> credential]

\* A candidate of libnice without credentials gets those of its stream.
NewFromNiceCandidate(s) == agentCredential[s]

\* The class handler of on-new-candidate comes first.
SessionOnNewCandidate(s) == Append(local[s], NewFromNiceCandidate(s))

\* The application's handler leaves the credentials, or sets them: then the other
\* candidates and libnice get them too.
EmitNewCandidate(set) ==
    /\ Runs("new_candidate")
    /\ Finish
    /\ LET s == Head(tasks).session
           list == SessionOnNewCandidate(s)
           last == Len(list)
       IN IF set
          THEN /\ local' = [local EXCEPT ![s] =
                      Append(UpdateLocalCredentials(SubSeq(list, 1, last - 1), "application"),
                             "application")]
               /\ agentCredential' = [agentCredential EXCEPT ![s] = "application"]
          ELSE /\ local' = [local EXCEPT ![s] = list]
               /\ UNCHANGED agentCredential
    /\ UNCHANGED <<appVars, serverVars, niceVars, handedVars, gatheringDone, remoteVars,
                   stateVars>>

\* The pairs the session has by now are the ones that libnice is told.
EmitCandidateGatheringDone ==
    /\ Runs("gathering_done")
    /\ Finish
    /\ LET s == Head(tasks).session
       IN /\ gatheringDone' = [gatheringDone EXCEPT ![s] = TRUE]
          /\ selected' = [selected EXCEPT ![s] =
                [c \in Component |-> IF pair[s][c] # None THEN pair[s][c] ELSE selected[s][c]]]
    /\ UNCHANGED <<appVars, serverVars, niceVars, handed, local, agentCredential,
                   remoteVars, stateVars>>

\* owr_session_aggregate_ice_state: the worse of the two, and FAILED is the worst.
Aggregate(rtp, rtcp) ==
    IF Failed \in {rtp, rtcp} THEN Failed ELSE IF rtp < rtcp THEN rtp ELSE rtcp

StateOf(s, states) ==
    IF IsMultiplexingRtcp(s) THEN states["rtp"] ELSE Aggregate(states["rtp"], states["rtcp"])

\* The old state is what was reported last, under the rtcp-mux of now.
EmitIceStateChangedOfComponent ==
    /\ Runs("state")
    /\ Finish
    /\ LET s == Head(tasks).session
           new == [componentState[s] EXCEPT ![Head(tasks).component] = Head(tasks).state]
       IN /\ componentState' = [componentState EXCEPT ![s] = new]
          /\ iceState' = [iceState EXCEPT ![s] = Head(tasks).state]
    /\ UNCHANGED <<appVars, serverVars, niceVars, handedVars, localVars, remoteVars>>

EmitIceStateChanged ==
    /\ Runs("state")
    /\ Finish
    /\ LET s == Head(tasks).session
           new == [componentState[s] EXCEPT ![Head(tasks).component] = Head(tasks).state]
       IN /\ componentState' = [componentState EXCEPT ![s] = new]
          /\ iceState' = IF StateOf(s, componentState[s]) # StateOf(s, new)
                         THEN [iceState EXCEPT ![s] = StateOf(s, new)]
                         ELSE iceState
    /\ UNCHANGED <<appVars, serverVars, niceVars, handedVars, localVars, remoteVars>>

----------------------------------------------------------------------------
(* libnice *)

Has(s, component) ==
    /\ gathering[s] # "no"
    /\ component = "rtp" \/ streams[s] = 2

OnNewCandidate(s) ==
    /\ gathering[s] = "running"
    /\ announced[s] < MaxLocal
    /\ announced' = [announced EXCEPT ![s] = @ + 1]
    /\ Schedule([op |-> "new_candidate", session |-> s])
    /\ UNCHANGED <<appVars, serverVars, streams, configured, gathering, nice, handedVars,
                   localVars, remoteVars, stateVars>>

OnCandidateGatheringDone(s) ==
    /\ gathering[s] = "running"
    /\ gathering' = [gathering EXCEPT ![s] = "done"]
    /\ Schedule([op |-> "gathering_done", session |-> s])
    /\ UNCHANGED <<appVars, serverVars, streams, configured, announced, nice, handedVars,
                   localVars, remoteVars, stateVars>>

OnComponentStateChanged(s, component) ==
    /\ Has(s, component)
    /\ Len(tasks) < MaxTask
    /\ \E state \in Reported \ {nice[s][component]} :
          /\ nice' = [nice EXCEPT ![s][component] = state]
          /\ Schedule([op |-> "state", session |-> s, component |-> component,
                       state |-> state])
    /\ UNCHANGED <<appVars, serverVars, streams, configured, gathering, announced,
                   handedVars, localVars, remoteVars, stateVars>>

----------------------------------------------------------------------------
Application ==
    \/ \E h \in Server : AddHelperServer(h)
    \/ AddHelperServerCounted
    \/ \E s \in Session :
          \/ AddSession(s)
          \/ \E value \in BOOLEAN : SetRtcpMux(s, value)
          \/ \E remote \in Remote, force \in BOOLEAN : AddRemoteCandidate(s, remote, force)
          \/ \E new \in Pair : ForceCandidatePair(s, new)

MainLoop ==
    \/ \E found \in BOOLEAN : AddHelperServerInfo(found)
    \/ RunAddSession \/ RunAddRemoteCandidate \/ RunAddCandidatePair
    \/ \E set \in BOOLEAN : EmitNewCandidate(set)
    \/ EmitCandidateGatheringDone \/ EmitIceStateChanged

Next ==
    \/ Application
    \/ \E h \in Server : HelperServerResolved(h)
    \/ MainLoop
    \/ \E s \in Session :
          \/ OnNewCandidate(s)
          \/ OnCandidateGatheringDone(s)
          \/ \E component \in Component : OnComponentStateChanged(s, component)

Spec == Init /\ [][Next]_vars

\* The main loop runs what is scheduled, lookups end, and a call that has begun
\* returns.  Nobody has to call, and libnice has to report nothing.
Fairness ==
    /\ WF_vars(MainLoop)
    /\ WF_vars(AddHelperServerCounted)
    /\ \A h \in Server : WF_vars(HelperServerResolved(h))

FairSpec == Spec /\ Fairness

----------------------------------------------------------------------------
(* Properties *)

TypeOK ==
    /\ calls \in 0..MaxCall
    /\ mux \in [Session -> BOOLEAN] /\ lateMux \in SUBSET Session
    /\ server \in [Server -> {"new", "resolving", "known", "failed"}]
    /\ deferred \in Int
    /\ adding \in [server : Server, read : Int] \cup {None}
    /\ removing \in [server : Server, read : Int] \cup {None}
    /\ miscounted \in BOOLEAN
    /\ tasks \in Seq(Task)
    /\ streams \in [Session -> 0..2]
    /\ configured \in [Session -> SUBSET Server]
    /\ gathering \in [Session -> {"no", "running", "done"}]
    /\ announced \in [Session -> 0..MaxLocal]
    /\ nice \in [Session -> [Component -> IceState]]
    /\ agentCredential \in [Session -> Credential]
    /\ handed \in [Session -> SUBSET Remote]
    /\ selected \in [Session -> [Component -> Pair \cup Remote \cup {None}]]
    /\ local \in [Session -> Seq(Credential)]
    /\ gatheringDone \in [Session -> BOOLEAN]
    /\ remotes \in [Session -> Seq(Remote)] /\ forced \in [Session -> Seq(Remote)]
    /\ pair \in [Session -> [Component -> Pair \cup {None}]]
    /\ componentState \in [Session -> [Component -> IceState]]
    /\ iceState \in [Session -> IceState]

\* Every session in the agent gathers sooner or later, whatever lookups fail,
\* unless the count was overwritten.
GatheringStarts ==
    \A s \in Session : streams[s] # 0 ~> gathering[s] # "no" \/ miscounted

\* A remote candidate the session took reaches libnice, and a forced one is in
\* force, whether the session or the candidate was added first.
RemoteCandidatesHanded ==
    \A s \in Session : streams[s] # 0 =>
        /\ Accepted(remotes[s], streams[s]) \subseteq handed[s]
        /\ Accepted(forced[s], streams[s]) # {} =>
               \E c \in Component : selected[s][c] # None

\* All candidates of a session have the credentials that libnice answers to: a
\* candidate with others would fail every check of the other end.
CredentialsAgree ==
    \A s \in Session : \A i \in DOMAIN local[s] :
        local[s][i] = agentCredential[s]

Pending(op, s) == \E i \in DOMAIN tasks : tasks[i].op = op /\ tasks[i].session = s

\* What ice-connection-state says is what libnice's components are in, once their
\* reports have been handled, if rtcp-mux did not change after the first of them.
IceStateAgrees ==
    \A s \in Session \ lateMux :
        ~Pending("state", s) => iceState[s] = StateOf(s, nice[s])
=============================================================================
