---------------------------- MODULE DataChannel ----------------------------
(***************************************************************************)
(* The data channels of two OpenWebRTC peers joined by one SCTP            *)
(* association: OwrDataSession / OwrDataChannel (the application's view)    *)
(* and the data-channel half of OwrTransportAgent (the agent's table of     *)
(* DataChannel entries, the in-band OPEN / ACK handshake, user messages     *)
(* and closing).                                                           *)
(*                                                                         *)
(* Two threads of each peer run the agent's code.  "main" is the main loop  *)
(* of owr.c: it pops the tasks that API calls and other threads scheduled,  *)
(* in order.  "sctp" is the thread on which the SCTP elements signal an     *)
(* association, a new pad and a removed pad.  User and control messages are *)
(* handled by the streaming thread of their stream (one step each).  A      *)
(* handler that gives up a lock on the way is a chain of steps, one per     *)
(* section the other threads can come between; pc says where it is.         *)
(*                                                                         *)
(* sctpenc, sctpdec and the association are not part of the repository:     *)
(* encPad, decPad and wire say what the code relies on of them.             *)
(*                                                                         *)
(* An operator that nothing uses, right before one with the same            *)
(* parameters, is a faulty variant of it; the README tells what for.        *)
(***************************************************************************)
EXTENDS Naturals, Sequences, FiniteSets, SequencesExt

CONSTANTS
    Peer,            \* the two ends of the association
    Channel,         \* the SCTP stream ids used
    NoChannel,       \* what an idle thread works on
    Opener,          \* the peer whose parity a stream id has
    Negotiated,      \* channels created with negotiated = TRUE by both ends
    Unordered,       \* channels created with ordered = FALSE
    MaxSend,         \* bound: user messages per peer and channel
    MaxAdd,          \* bound: times an application adds a channel
    EarlyAdd,        \* may a channel be added while the association comes up?
    MayTerminate,    \* may the association go down?
    SendWhen,        \* role -> policy: when the application sends
    CloseWhen        \* role -> policy: when the application closes

Role == {"opener", "acceptor", "party"}    \* of an application in a channel
Policy == {"never", "eager", "open", "prudent", "drained"}
Thread == {"main", "sctp"}

ASSUME PeerAssumption == IsFiniteSet(Peer) /\ Cardinality(Peer) = 2
ASSUME ChannelAssumption ==
    /\ NoChannel \notin Channel
    /\ Opener \in [Channel -> Peer]
    /\ Negotiated \subseteq Channel
    /\ Unordered \subseteq Channel
ASSUME BoundAssumption ==
    /\ MaxSend \in Nat
    /\ MaxAdd \in Nat
    /\ EarlyAdd \in BOOLEAN
    /\ MayTerminate \in BOOLEAN
ASSUME PolicyAssumption ==
    /\ SendWhen \in [Role -> Policy]
    /\ CloseWhen \in [Role -> Policy]

Other(p) == CHOOSE q \in Peer : q # p

\* OwrDataChannelState of a table entry; "none" when the table has no entry.
EntryState == {"none", "CONNECTING", "OPEN", "CLOSING"}
\* OwrDataChannelReadyState of the application's OwrDataChannel.
ReadyState == {"CONNECTING", "OPEN", "CLOSING", "CLOSED"}
\* What the main loop runs; a ready state as a kind is a scheduled set_ready_state.
TaskKind == {"add", "send", "close", "requested", "incoming"} \cup ReadyState
Task == [kind : TaskKind, ch : Channel, n : Nat]
Message == [type : {"OPEN", "ACK", "DATA", "RESET"}, n : Nat]
Label == {"idle", "new", "create", "openreq", "adopt", "ack", "setopen",
          "closedec", "closeenc", "teardown"}
\* The assertion or the bad access a peer died of.
Fate == {"alive", "assert_pad_removed_entry", "assert_pad_removed_channel",
         "assert_pad_added_sink", "assert_appsrc_entry", "assert_ack",
         "assert_message", "assert_close_entry", "bad_access", "freed_lock"}

VARIABLES
    established,     \* data_session_established of each agent
    worklist,        \* channels on_sctp_association_established still has to visit
    added,           \* data_channels of each OwrDataSession (never shrinks)
    entry,           \* state of each entry of the agent's data_channels table
    matched,         \* entries holding the parameters of the negotiated channel
    src,             \* entries whose data_src is set
    sink,            \* entries whose data_sink is set
    tableLock,       \* holder of a writer lock on the table that is never released
    entryLock,       \* entries whose reader lock is never released
    hooked,          \* channels with on_send and on_close closures
    ready,           \* ready_state of the application's OwrDataChannel
    mainQ,           \* tasks scheduled on the main loop
    pc,              \* where each thread is, and with which channel
    encPad, decPad,  \* external: sctpenc sink pads and sctpdec source pads
    wire,            \* external: messages in flight to a peer on a stream
    assoc,           \* external: the association, "new", "up" or "down"
    offered,         \* channels the application was told of
    asked,           \* times the application added a channel
    sent,            \* messages the application sent
    got,             \* messages the application received
    early,           \* messages dropped because the channel was not open
    closing,         \* channels the application has closed
    fate             \* "alive", or what killed the peer

sessionVars == <<added, hooked, ready>>
agentVars == <<established, worklist, entry, matched, src, sink, tableLock, entryLock>>
sctpVars == <<encPad, decPad, wire, assoc>>
appVars == <<offered, asked, sent, got, early, closing>>
vars == <<sessionVars, agentVars, sctpVars, appVars, mainQ, pc, fate>>

----------------------------------------------------------------------------
Init ==
    /\ established = [p \in Peer |-> FALSE]
    /\ worklist = [p \in Peer |-> {}]
    /\ added = [p \in Peer |-> {}]
    /\ entry = [p \in Peer |-> [c \in Channel |-> "none"]]
    /\ matched = [p \in Peer |-> {}]
    /\ src = [p \in Peer |-> {}]
    /\ sink = [p \in Peer |-> {}]
    /\ tableLock = [p \in Peer |-> "free"]
    /\ entryLock = [p \in Peer |-> {}]
    /\ hooked = [p \in Peer |-> {}]
    /\ ready = [p \in Peer |-> [c \in Channel |-> "CONNECTING"]]
    /\ mainQ = [p \in Peer |-> <<>>]
    /\ pc = [p \in Peer |-> [t \in Thread |-> [at |-> "idle", ch |-> NoChannel]]]
    /\ encPad = [p \in Peer |-> {}]
    /\ decPad = [p \in Peer |-> {}]
    /\ wire = [p \in Peer |-> [c \in Channel |-> <<>>]]
    /\ assoc = [p \in Peer |-> "new"]
    /\ offered = [p \in Peer |-> {}]
    /\ asked = [p \in Peer |-> [c \in Channel |-> 0]]
    /\ sent = [p \in Peer |-> [c \in Channel |-> 0]]
    /\ got = [p \in Peer |-> [c \in Channel |-> <<>>]]
    /\ early = [p \in Peer |-> {}]
    /\ closing = [p \in Peer |-> {}]
    /\ fate = [p \in Peer |-> "alive"]

----------------------------------------------------------------------------
(* Helpers *)

RoleOf(p, c) == IF c \in Negotiated THEN "party"
                ELSE IF Opener[c] = p THEN "opener" ELSE "acceptor"

\* A stream id is valid for the peer that initiates the channel when it has
\* that peer's parity (even for the DTLS client, odd for the server).
any_parity(p, c, remotely) == Opener[c] = p
is_valid_sctp_stream_id(p, c, remotely) ==
    IF remotely THEN Opener[c] # p ELSE Opener[c] = p

Goto(p, t, label, c) == pc' = [pc EXCEPT ![p][t] = [at |-> label, ch |-> c]]
Return(p, t) == Goto(p, t, "idle", NoChannel)
At(p, t, label, c) == fate[p] = "alive" /\ pc[p][t] = [at |-> label, ch |-> c]
Idle(p, t) == fate[p] = "alive" /\ pc[p][t].at = "idle"
SctpIdle(p) == Idle(p, "sctp") /\ worklist[p] = {}

Die(p, why) == fate' = [fate EXCEPT ![p] = why]

ScheduledFirst(p, kind, c, n) ==
    [mainQ EXCEPT ![p] = <<[kind |-> kind, ch |-> c, n |-> n]>> \o @]
Scheduled(p, kind, c, n) ==
    [mainQ EXCEPT ![p] = Append(@, [kind |-> kind, ch |-> c, n |-> n])]

PushedNoAck(p, c, type, n) ==
    [wire EXCEPT ![Other(p)][c] = IF type = "ACK" THEN @ ELSE Append(@, [type |-> type, n |-> n])]
PushedNoReset(p, c, type, n) ==
    [wire EXCEPT ![Other(p)][c] = IF type = "RESET" THEN @ ELSE Append(@, [type |-> type, n |-> n])]
Pushed(p, c, type, n) ==
    [wire EXCEPT ![Other(p)][c] = Append(@, [type |-> type, n |-> n])]

\* The entry is opened.
OpenedNot(p, c) == entry
Opened(p, c) == [entry EXCEPT ![p][c] = "OPEN"]

\* The entry takes the parameters of the channel, or of the request for it.
ParametersTaken(p, c) == [matched EXCEPT ![p] = @ \cup {c}]

\* A channel that is not negotiated by the applications is requested in-band.
InBand(c) == c \notin Negotiated

\* A thread waits while another one sits on the table's writer lock; the one
\* that kept it is let through by the platform's lock.
TableFree(p, t) == tableLock[p] \in {"free", t}

\* Taking and releasing the table's lock also ends a lock the thread had kept.
TableReleased(p) == [tableLock EXCEPT ![p] = "free"]

\* An entry's reader lock kept forever stops only its writers.
EntryWritable(p, c) == c \notin entryLock[p]

----------------------------------------------------------------------------
(* The application *)

\* The applications are the environment; a policy is the discipline of one:
\* act at any time, once the channel is OPEN, once the other end is known to be
\* OPEN too (the opener has heard of it, or two applications that negotiated the
\* channel agree by other means, as those of test_data_channel.c), or once all
\* messages of both ends are through.
May(policy, p, c) ==
    \/ policy = "eager"
    \/ policy = "open" /\ ready[p][c] = "OPEN"
    \/ /\ policy = "prudent" /\ ready[p][c] = "OPEN"
       /\ c \in Negotiated => \A q \in Peer : ready[q][c] = "OPEN"
       /\ c \notin Negotiated /\ Opener[c] = p => got[p][c] # <<>>
    \/ policy = "drained" /\ ready[p][c] = "OPEN" /\ Len(got[p][c]) = MaxSend
                          /\ sent[p][c] = MaxSend

\* owr_data_session_add_data_channel.  An application adds the channels it
\* initiates, those both ends agreed on, and those it was offered.
AppAdd(p, c) ==
    /\ fate[p] = "alive"
    /\ asked[p][c] < MaxAdd
    /\ Opener[c] = p \/ c \in Negotiated \/ c \in offered[p]
    /\ EarlyAdd \/ (established[p] /\ SctpIdle(p))
    /\ asked' = [asked EXCEPT ![p][c] = @ + 1]
    /\ mainQ' = Scheduled(p, "add", c, 0)
    /\ UNCHANGED <<sessionVars, agentVars, sctpVars, offered, sent, got, early,
                   closing, pc, fate>>

\* owr_data_channel_send and owr_data_channel_send_binary.
AppSend(p, c) ==
    /\ fate[p] = "alive"
    /\ asked[p][c] > 0
    /\ sent[p][c] < MaxSend
    /\ May(SendWhen[RoleOf(p, c)], p, c)
    /\ sent' = [sent EXCEPT ![p][c] = @ + 1]
    /\ mainQ' = Scheduled(p, "send", c, sent[p][c] + 1)
    /\ UNCHANGED <<sessionVars, agentVars, sctpVars, offered, asked, got, early,
                   closing, pc, fate>>

\* owr_data_channel_close, called once.
AppClose(p, c) ==
    /\ fate[p] = "alive"
    /\ asked[p][c] > 0
    /\ c \notin closing[p]
    /\ May(CloseWhen[RoleOf(p, c)], p, c)
    /\ closing' = [closing EXCEPT ![p] = @ \cup {c}]
    /\ mainQ' = Scheduled(p, "close", c, 0)
    /\ UNCHANGED <<sessionVars, agentVars, sctpVars, offered, asked, sent, got,
                   early, pc, fate>>

----------------------------------------------------------------------------
(* Main loop tasks *)

HeadTask(p, kind, c) ==
    /\ Idle(p, "main")
    /\ mainQ[p] # <<>>
    /\ Head(mainQ[p]).kind = kind
    /\ Head(mainQ[p]).ch = c

PopTask(p) == mainQ' = [mainQ EXCEPT ![p] = Tail(@)]

\* add_data_channel: a second channel with the id is dropped with a warning,
\* a new one is kept and handed to the agent (on_datachannel_added).
RunAddForgets(p, c) ==
    /\ HeadTask(p, "add", c)
    /\ PopTask(p)
    /\ IF c \in added[p] THEN UNCHANGED pc ELSE Goto(p, "main", "new", c)
    /\ UNCHANGED <<sessionVars, agentVars, sctpVars, appVars, fate>>
RunAdd(p, c) ==
    /\ HeadTask(p, "add", c)
    /\ PopTask(p)
    /\ IF c \in added[p]
       THEN UNCHANGED <<added, pc>>
       ELSE /\ added' = [added EXCEPT ![p] = @ \cup {c}]
            /\ Goto(p, "main", "new", c)
    /\ UNCHANGED <<hooked, ready, agentVars, sctpVars, appVars, fate>>

\* data_channel_send without the agent's closure: the message is freed.
RunSendUnhooked(p, c) ==
    /\ HeadTask(p, "send", c)
    /\ c \notin hooked[p]
    /\ PopTask(p)
    /\ UNCHANGED <<sessionVars, agentVars, sctpVars, appVars, pc, fate>>

\* data_channel_send with it: on_datachannel_send looks the entry up, reads its
\* fields without a check for NULL and pushes to its appsrc.
RunSend(p, c) ==
    /\ HeadTask(p, "send", c)
    /\ c \in hooked[p]
    /\ TableFree(p, "main")
    /\ tableLock' = TableReleased(p)
    /\ IF entry[p][c] = "none"
       THEN Die(p, "bad_access") /\ UNCHANGED <<mainQ, wire>>
       ELSE /\ PopTask(p)
            /\ wire' = IF c \in src[p] THEN Pushed(p, c, "DATA", Head(mainQ[p]).n) ELSE wire
            /\ UNCHANGED fate
    /\ UNCHANGED <<sessionVars, established, worklist, entry, matched, src, sink,
                   entryLock, encPad, decPad, assoc, appVars, pc>>

\* data_channel_close before the agent set its closure: a warning only.
RunCloseUnhooked(p, c) ==
    /\ HeadTask(p, "close", c)
    /\ c \notin hooked[p]
    /\ PopTask(p)
    /\ UNCHANGED <<sessionVars, agentVars, sctpVars, appVars, pc, fate>>

\* on_datachannel_close up to the first release of the table's lock.
RunClose(p, c) ==
    /\ HeadTask(p, "close", c)
    /\ c \in hooked[p]
    /\ TableFree(p, "main")
    /\ tableLock' = TableReleased(p)
    /\ mainQ' = [mainQ EXCEPT ![p] =
                    Append(Tail(@), [kind |-> "CLOSING", ch |-> c, n |-> 0])]
    /\ IF entry[p][c] = "none"
       THEN Die(p, "assert_close_entry") /\ UNCHANGED <<entry, pc>>
       ELSE /\ entry' = [entry EXCEPT ![p][c] = "CLOSING"]
            /\ Goto(p, "main", "closedec", c)
            /\ UNCHANGED fate
    /\ UNCHANGED <<sessionVars, established, worklist, matched, src, sink,
                   entryLock, sctpVars, appVars>>

\* set_ready_state
RunReady(p, c) ==
    \E state \in ReadyState :
        /\ HeadTask(p, state, c)
        /\ PopTask(p)
        /\ ready' = [ready EXCEPT ![p][c] = state]
        /\ UNCHANGED <<added, hooked, agentVars, sctpVars, appVars, pc, fate>>

\* emit_data_channel_requested
RunRequested(p, c) ==
    /\ HeadTask(p, "requested", c)
    /\ PopTask(p)
    /\ offered' = [offered EXCEPT ![p] = @ \cup {c}]
    /\ UNCHANGED <<sessionVars, agentVars, sctpVars, asked, sent, got, early,
                   closing, pc, fate>>

\* emit_incoming_data
RunIncoming(p, c) ==
    /\ HeadTask(p, "incoming", c)
    /\ PopTask(p)
    /\ got' = [got EXCEPT ![p][c] = Append(@, Head(mainQ[p]).n)]
    /\ UNCHANGED <<sessionVars, agentVars, sctpVars, offered, asked, sent, early,
                   closing, pc, fate>>

----------------------------------------------------------------------------
(* on_new_datachannel, on the main loop for a channel just added and on the *)
(* SCTP thread for every channel of the session when the association comes  *)
(* up: nothing keeps the two from visiting the same channel.                *)

\* The association's flag and the table are read; the entry decides the path.
LookUpEntry(p, t, c) ==
    /\ At(p, t, "new", c)
    /\ IF ~established[p]
       THEN Return(p, t) /\ UNCHANGED tableLock
       ELSE /\ TableFree(p, t)
            /\ tableLock' = TableReleased(p)
            /\ Goto(p, t, IF entry[p][c] = "none" THEN "create" ELSE "adopt", c)
    /\ UNCHANGED <<sessionVars, established, worklist, entry, matched, src, sink,
                   entryLock, sctpVars, appVars, mainQ, fate>>

\* create_datachannel up to the new entry.  An entry that appeared meanwhile
\* makes it leave without releasing the writer lock.
CreateEntry(p, t, c) ==
    /\ At(p, t, "create", c)
    /\ IF InBand(c) /\ ~is_valid_sctp_stream_id(p, c, FALSE)
       THEN Return(p, t) /\ UNCHANGED <<tableLock, entry, matched>>
       ELSE /\ TableFree(p, t)
            /\ IF entry[p][c] # "none"
               THEN /\ tableLock' = [tableLock EXCEPT ![p] = t]
                    /\ Return(p, t)
                    /\ UNCHANGED <<entry, matched>>
               ELSE /\ entry' = [entry EXCEPT ![p][c] = "CONNECTING"]
                    /\ matched' = ParametersTaken(p, c)
                    /\ tableLock' = TableReleased(p)
                    /\ Goto(p, t, "openreq", c)
    /\ UNCHANGED <<sessionVars, established, worklist, src, sink, entryLock,
                   sctpVars, appVars, mainQ, fate>>

\* The rest of create_datachannel: create_datachannel_appsrc, which fails when
\* the encoder already has the pad, the open request, then the closures.
OpenRequest(p, t, c) ==
    /\ At(p, t, "openreq", c)
    /\ TableFree(p, t)
    /\ tableLock' = TableReleased(p)
    /\ \/ /\ entry[p][c] = "none"
          /\ Die(p, "assert_appsrc_entry")
          /\ UNCHANGED <<src, encPad, wire, hooked, pc>>
       \/ /\ entry[p][c] # "none"
          /\ c \in encPad[p]
          /\ Return(p, t)
          /\ UNCHANGED <<src, encPad, wire, hooked, fate>>
       \/ /\ entry[p][c] # "none"
          /\ c \notin encPad[p]
          /\ encPad' = [encPad EXCEPT ![p] = @ \cup {c}]
          /\ src' = [src EXCEPT ![p] = @ \cup {c}]
          /\ hooked' = [hooked EXCEPT ![p] = @ \cup {c}]
          /\ IF InBand(c)
             THEN Return(p, t) /\ wire' = Pushed(p, c, "OPEN", 0)
             ELSE Goto(p, t, "setopen", c) /\ UNCHANGED wire
          /\ UNCHANGED fate
    /\ UNCHANGED <<added, ready, established, worklist, entry, matched, sink,
                   entryLock, decPad, assoc, appVars, mainQ>>

\* The channel is compared with the entry under its reader lock; a mismatch
\* leaves without releasing it.  A match gets the closures.
AdoptEntry(p, t, c) ==
    /\ At(p, t, "adopt", c)
    /\ \/ /\ entry[p][c] = "none"
          /\ Die(p, "bad_access")
          /\ UNCHANGED <<hooked, entryLock, pc>>
       \/ /\ entry[p][c] # "none"
          /\ c \notin matched[p]
          /\ entryLock' = [entryLock EXCEPT ![p] = @ \cup {c}]
          /\ Return(p, t)
          /\ UNCHANGED <<hooked, fate>>
       \/ /\ entry[p][c] # "none"
          /\ c \in matched[p]
          /\ hooked' = [hooked EXCEPT ![p] = @ \cup {c}]
          /\ Goto(p, t, "ack", c)
          /\ UNCHANGED <<entryLock, fate>>
    /\ UNCHANGED <<added, ready, established, worklist, entry, matched, src, sink,
                   tableLock, sctpVars, appVars, mainQ>>

\* complete_data_channel_and_ack: a refused encoder pad is only warned about.
CompleteAndAck(p, t, c) ==
    /\ At(p, t, "ack", c)
    /\ TableFree(p, t)
    /\ tableLock' = TableReleased(p)
    /\ IF entry[p][c] = "none"
       THEN Die(p, "assert_appsrc_entry") /\ UNCHANGED <<src, encPad, wire, pc>>
       ELSE /\ encPad' = [encPad EXCEPT ![p] = @ \cup {c}]
            /\ src' = IF c \in encPad[p] THEN src ELSE [src EXCEPT ![p] = @ \cup {c}]
            /\ wire' = IF c \in src'[p] THEN Pushed(p, c, "ACK", 0) ELSE wire
            /\ Goto(p, t, "setopen", c)
            /\ UNCHANGED fate
    /\ UNCHANGED <<sessionVars, established, worklist, entry, matched, sink,
                   entryLock, decPad, assoc, appVars, mainQ>>

\* The end of on_new_datachannel for an adopted or a negotiated channel: the
\* entry is looked up again, opened, and the application told.
SetOpen(p, t, c) ==
    /\ At(p, t, "setopen", c)
    /\ TableFree(p, t)
    /\ tableLock' = TableReleased(p)
    /\ IF entry[p][c] = "none"
       THEN Die(p, "bad_access") /\ UNCHANGED <<entry, mainQ, pc>>
       ELSE /\ EntryWritable(p, c)
            /\ entry' = Opened(p, c)
            /\ mainQ' = Scheduled(p, "OPEN", c, 0)
            /\ Return(p, t)
            /\ UNCHANGED fate
    /\ UNCHANGED <<sessionVars, established, worklist, matched, src, sink,
                   entryLock, sctpVars, appVars>>

----------------------------------------------------------------------------
(* on_datachannel_close after the entry is marked, on the main loop *)

\* The decoder resets a linked stream, which removes its pad;
\* sctpdec_pad_removed returns at once for an entry that is already closing.
ResetDecoder(p, c) ==
    IF c \in sink[p] /\ c \in decPad[p]
    THEN /\ decPad' = [decPad EXCEPT ![p] = @ \ {c}]
         /\ wire' = Pushed(p, c, "RESET", 0)
    ELSE UNCHANGED <<decPad, wire>>

\* The appsink goes, then the decoder's end of the stream.
CloseDecoder(p, c) ==
    /\ At(p, "main", "closedec", c)
    /\ IF entry[p][c] = "none"
       THEN Die(p, "bad_access") /\ UNCHANGED <<sink, decPad, wire, pc>>
       ELSE /\ EntryWritable(p, c)
            /\ sink' = [sink EXCEPT ![p] = @ \ {c}]
            /\ ResetDecoder(p, c)
            /\ Goto(p, "main", "closeenc", c)
            /\ UNCHANGED fate
    /\ UNCHANGED <<sessionVars, established, worklist, entry, matched, src,
                   tableLock, entryLock, encPad, assoc, appVars, mainQ>>

\* The appsrc goes and the encoder's pad is released, which resets the stream;
\* then maybe_close_data_channel, which frees the entry once both ends are gone.
\* sinks are the appsinks still there.  The entry is freed with its writer lock
\* held, and the unlock that follows is of the freed lock: it shows nothing, or
\* the peer dies of it.
UnlockFreed(p) == UNCHANGED fate \/ Die(p, "freed_lock")

ReleaseEncoder(p, c, sinks) ==
    /\ src' = [src EXCEPT ![p] = @ \ {c}]
    /\ sink' = sinks
    /\ IF c \in src[p]
       THEN /\ encPad' = [encPad EXCEPT ![p] = @ \ {c}]
            /\ wire' = Pushed(p, c, "RESET", 0)
       ELSE UNCHANGED <<encPad, wire>>
    /\ IF c \in sinks[p]
       THEN UNCHANGED <<entry, matched, mainQ, fate>>
       ELSE /\ entry' = [entry EXCEPT ![p][c] = "none"]
            /\ matched' = [matched EXCEPT ![p] = @ \ {c}]
            /\ mainQ' = Scheduled(p, "CLOSED", c, 0)
            /\ UnlockFreed(p)

CloseEncoder(p, c) ==
    /\ At(p, "main", "closeenc", c)
    /\ IF entry[p][c] = "none"
       THEN /\ Die(p, "bad_access")
            /\ UNCHANGED <<entry, matched, src, sink, encPad, wire, mainQ, pc>>
       ELSE /\ EntryWritable(p, c)
            /\ ReleaseEncoder(p, c, sink)
            /\ Return(p, "main")
    /\ UNCHANGED <<sessionVars, established, worklist, tableLock, entryLock,
                   decPad, assoc, appVars>>

----------------------------------------------------------------------------
(* The SCTP thread *)

\* on_sctp_association_established(TRUE): the flag, then a snapshot of the
\* session's channels to visit.
AssociationUp(p) ==
    /\ SctpIdle(p)
    /\ assoc[p] = "new"
    /\ assoc' = [assoc EXCEPT ![p] = "up"]
    /\ established' = [established EXCEPT ![p] = TRUE]
    /\ worklist' = [worklist EXCEPT ![p] = added[p]]
    /\ UNCHANGED <<sessionVars, entry, matched, src, sink, tableLock, entryLock,
                   encPad, decPad, wire, appVars, mainQ, pc, fate>>

\* Its loop, in the order of the hash table.
VisitNext(p, c) ==
    /\ Idle(p, "sctp")
    /\ c \in worklist[p]
    /\ worklist' = [worklist EXCEPT ![p] = @ \ {c}]
    /\ Goto(p, "sctp", "new", c)
    /\ UNCHANGED <<sessionVars, established, entry, matched, src, sink, tableLock,
                   entryLock, sctpVars, appVars, mainQ, fate>>

\* on_sctp_association_established(FALSE)
AssociationDown(p) ==
    /\ MayTerminate
    /\ SctpIdle(p)
    /\ assoc[p] = "up"
    /\ assoc' = [assoc EXCEPT ![p] = "down"]
    /\ established' = [established EXCEPT ![p] = FALSE]
    /\ UNCHANGED <<sessionVars, worklist, entry, matched, src, sink, tableLock,
                   entryLock, encPad, decPad, wire, appVars, mainQ, pc, fate>>

\* sctpdec_pad_added: the first message on a stream without a pad makes the
\* decoder add one.  An unknown stream gets an entry; one whose id has the
\* wrong parity loses it and resets the stream, and the removal of the pad
\* that follows at once finds no entry.
PadAdded(p, c) ==
    LET remotely == entry[p][c] = "none"
        valid == (~remotely /\ ~InBand(c) /\ c \in matched[p])
                     \/ is_valid_sctp_stream_id(p, c, remotely)
    IN  /\ SctpIdle(p)
        /\ assoc[p] = "up"
        /\ wire[p][c] # <<>>
        /\ Head(wire[p][c]).type # "RESET"
        /\ c \notin decPad[p]
        /\ TableFree(p, "sctp")
        /\ tableLock' = TableReleased(p)
        /\ decPad' = [decPad EXCEPT ![p] = @ \cup {c}]
        /\ IF remotely /\ valid
           THEN entry' = [entry EXCEPT ![p][c] = "CONNECTING"]
           ELSE UNCHANGED entry
        /\ IF valid /\ c \notin sink[p]
           THEN sink' = [sink EXCEPT ![p] = @ \cup {c}] /\ UNCHANGED fate
           ELSE /\ Die(p, IF valid THEN "assert_pad_added_sink"
                                   ELSE "assert_pad_removed_entry")
                /\ UNCHANGED sink
        /\ UNCHANGED <<sessionVars, established, worklist, matched, src, entryLock,
                       encPad, wire, assoc, appVars, mainQ, pc>>

\* The other end reset the stream: the decoder removes its pad, if it has one.
\* sctpdec_pad_removed up to the release of the table's lock.
PadRemoved(p, c) ==
    /\ SctpIdle(p)
    /\ wire[p][c] # <<>>
    /\ Head(wire[p][c]).type = "RESET"
    /\ wire' = [wire EXCEPT ![p][c] = Tail(@)]
    /\ \/ /\ c \notin decPad[p]
          /\ UNCHANGED <<entry, tableLock, mainQ, pc, fate>>
       \/ /\ c \in decPad[p]
          /\ TableFree(p, "sctp")
          /\ tableLock' = TableReleased(p)
          /\ \/ /\ entry[p][c] = "none"
                /\ Die(p, "assert_pad_removed_entry")
                /\ UNCHANGED <<entry, mainQ, pc>>
             \/ /\ entry[p][c] = "CLOSING"
                /\ UNCHANGED <<entry, mainQ, pc, fate>>
             \/ /\ entry[p][c] \in {"CONNECTING", "OPEN"}
                /\ entry' = [entry EXCEPT ![p][c] = "CLOSING"]
                /\ IF c \notin added[p]
                   THEN Die(p, "assert_pad_removed_channel") /\ UNCHANGED <<mainQ, pc>>
                   ELSE /\ mainQ' = Scheduled(p, "CLOSING", c, 0)
                        /\ Goto(p, "sctp", "teardown", c)
                        /\ UNCHANGED fate
    /\ decPad' = [decPad EXCEPT ![p] = @ \ {c}]
    /\ UNCHANGED <<sessionVars, established, worklist, matched, src, sink,
                   entryLock, encPad, assoc, appVars>>

\* The rest of sctpdec_pad_removed.
TearDown(p, c) ==
    /\ At(p, "sctp", "teardown", c)
    /\ IF entry[p][c] = "none"
       THEN /\ Die(p, "bad_access")
            /\ UNCHANGED <<entry, matched, src, sink, encPad, wire, mainQ, pc>>
       ELSE /\ EntryWritable(p, c)
            /\ ReleaseEncoder(p, c, [sink EXCEPT ![p] = @ \ {c}])
            /\ Return(p, "sctp")
    /\ UNCHANGED <<sessionVars, established, worklist, tableLock, entryLock,
                   decPad, assoc, appVars>>

----------------------------------------------------------------------------
(* new_data_callback, on the streaming thread of the stream *)

\* The message a stream hands over: the first one, or, on an unordered channel,
\* any user message that no reset precedes.  It reaches the callback while the
\* pad is linked to an appsink.
ArrivingAnyOrder(p, c) ==
    {i \in DOMAIN wire[p][c] :
        /\ c \in decPad[p] \cap sink[p]
        /\ wire[p][c][i].type # "RESET"
        /\ i = 1 \/ wire[p][c][i].type = "DATA"}
Arriving(p, c) ==
    {i \in DOMAIN wire[p][c] :
        /\ c \in decPad[p] \cap sink[p]
        /\ wire[p][c][i].type # "RESET"
        /\ \/ i = 1
           \/ /\ c \in Unordered
              /\ wire[p][c][i].type = "DATA"
              /\ \A j \in 1..i : wire[p][c][j].type # "RESET"}

Receive(p, c, i, type) ==
    /\ fate[p] = "alive"
    /\ i \in Arriving(p, c)
    /\ wire[p][c][i].type = type
    /\ tableLock[p] = "free"
    /\ wire' = [wire EXCEPT ![p][c] = RemoveAt(@, i)]
    /\ UNCHANGED <<sessionVars, established, worklist, src, sink, tableLock,
                   entryLock, encPad, decPad, assoc, offered, asked, sent, got,
                   closing, pc>>

\* handle_data_channel_open_request: the entry takes the parameters of the
\* request, and the application is told on the main loop.
ReceiveOpen(p, c) ==
    \E i \in Arriving(p, c) :
        /\ Receive(p, c, i, "OPEN")
        /\ IF entry[p][c] = "none"
           THEN Die(p, "bad_access") /\ UNCHANGED <<matched, mainQ>>
           ELSE /\ matched' = ParametersTaken(p, c)
                /\ mainQ' = Scheduled(p, "requested", c, 0)
                /\ UNCHANGED fate
        /\ UNCHANGED <<entry, early>>

\* handle_data_channel_ack
ReceiveAck(p, c) ==
    \E i \in Arriving(p, c) :
        /\ Receive(p, c, i, "ACK")
        /\ IF entry[p][c] = "none" \/ c \notin added[p]
           THEN Die(p, "assert_ack") /\ UNCHANGED <<entry, mainQ>>
           ELSE /\ EntryWritable(p, c)
                /\ entry' = Opened(p, c)
                /\ mainQ' = Scheduled(p, "OPEN", c, 0)
                /\ UNCHANGED fate
        /\ UNCHANGED <<matched, early>>

\* handle_data_channel_message: a message for a channel that is not open is
\* dropped; otherwise it is scheduled for the application.
ReceiveData(p, c) ==
    \E i \in Arriving(p, c) :
        /\ Receive(p, c, i, "DATA")
        /\ \/ /\ entry[p][c] = "none" \/ (entry[p][c] = "OPEN" /\ c \notin added[p])
              /\ Die(p, "assert_message")
              /\ UNCHANGED <<early, mainQ>>
           \/ /\ entry[p][c] \in {"CONNECTING", "CLOSING"}
              /\ early' = [early EXCEPT ![p] = @ \cup {<<c, wire[p][c][i].n>>}]
              /\ UNCHANGED <<mainQ, fate>>
           \/ /\ entry[p][c] = "OPEN" /\ c \in added[p]
              /\ mainQ' = Scheduled(p, "incoming", c, wire[p][c][i].n)
              /\ UNCHANGED <<early, fate>>
        /\ UNCHANGED <<entry, matched>>

----------------------------------------------------------------------------
Application(p, c) == AppAdd(p, c) \/ AppSend(p, c) \/ AppClose(p, c)

OnNewDataChannel(p, t, c) ==
    \/ LookUpEntry(p, t, c) \/ CreateEntry(p, t, c) \/ OpenRequest(p, t, c)
    \/ AdoptEntry(p, t, c) \/ CompleteAndAck(p, t, c) \/ SetOpen(p, t, c)

MainLoop(p, c) ==
    \/ RunAdd(p, c) \/ RunSendUnhooked(p, c) \/ RunSend(p, c)
    \/ RunCloseUnhooked(p, c) \/ RunClose(p, c) \/ CloseDecoder(p, c)
    \/ CloseEncoder(p, c) \/ RunReady(p, c) \/ RunRequested(p, c)
    \/ RunIncoming(p, c) \/ OnNewDataChannel(p, "main", c)

SctpThread(p, c) ==
    \/ VisitNext(p, c) \/ PadAdded(p, c) \/ PadRemoved(p, c) \/ TearDown(p, c)
    \/ OnNewDataChannel(p, "sctp", c)

Stream(p, c) == ReceiveOpen(p, c) \/ ReceiveAck(p, c) \/ ReceiveData(p, c)

Next ==
    \E p \in Peer :
        \/ AssociationUp(p)
        \/ AssociationDown(p)
        \/ \E c \in Channel :
              Application(p, c) \/ MainLoop(p, c) \/ SctpThread(p, c) \/ Stream(p, c)

Spec == Init /\ [][Next]_vars

\* Each thread keeps running, the network delivers, and the accepting
\* application answers a request by adding the channel; nothing else is fair.
Fairness ==
    \A p \in Peer :
        /\ WF_vars(AssociationUp(p))
        /\ WF_vars(\E c \in Channel : MainLoop(p, c))
        /\ WF_vars(\E c \in Channel : SctpThread(p, c))
        /\ \A c \in Channel :
              /\ WF_vars(Stream(p, c))
              /\ WF_vars(c \in offered[p] /\ asked[p][c] = 0 /\ AppAdd(p, c))

FairSpec == Spec /\ Fairness

----------------------------------------------------------------------------
(* Properties *)

\* The values every variable keeps to, by owner.
SessionTypeOK ==
    /\ added \in [Peer -> SUBSET Channel]
    /\ hooked \in [Peer -> SUBSET Channel]
    /\ ready \in [Peer -> [Channel -> ReadyState]]

AgentTypeOK ==
    /\ established \in [Peer -> BOOLEAN]
    /\ worklist \in [Peer -> SUBSET Channel]
    /\ entry \in [Peer -> [Channel -> EntryState]]
    /\ matched \in [Peer -> SUBSET Channel]
    /\ src \in [Peer -> SUBSET Channel]
    /\ sink \in [Peer -> SUBSET Channel]
    /\ tableLock \in [Peer -> {"free"} \cup Thread]
    /\ entryLock \in [Peer -> SUBSET Channel]

SctpTypeOK ==
    /\ encPad \in [Peer -> SUBSET Channel]
    /\ decPad \in [Peer -> SUBSET Channel]
    /\ wire \in [Peer -> [Channel -> Seq(Message)]]
    /\ assoc \in [Peer -> {"new", "up", "down"}]

AppTypeOK ==
    /\ offered \in [Peer -> SUBSET Channel]
    /\ asked \in [Peer -> [Channel -> Nat]]
    /\ sent \in [Peer -> [Channel -> Nat]]
    /\ got \in [Peer -> [Channel -> Seq(Nat)]]
    /\ early \in [Peer -> SUBSET (Channel \X Nat)]
    /\ closing \in [Peer -> SUBSET Channel]

ThreadTypeOK ==
    /\ mainQ \in [Peer -> Seq(Task)]
    /\ pc \in [Peer -> [Thread -> [at : Label, ch : Channel \cup {NoChannel}]]]
    /\ fate \in [Peer -> Fate]

TypeOK == SessionTypeOK /\ AgentTypeOK /\ SctpTypeOK /\ AppTypeOK /\ ThreadTypeOK

\* An entry is OPEN, and a channel has the agent's closures, only when the
\* session holds the application's OwrDataChannel: that object is what
\* handle_data_channel_message hands messages to and what maybe_close_data_channel
\* tells of the end, without a check for NULL.
OpenHasChannel ==
    \A p \in Peer :
        /\ hooked[p] \subseteq added[p]
        /\ \A c \in Channel : entry[p][c] = "OPEN" => c \in added[p]

\* A handler works on a channel the session holds, and the SCTP thread has only
\* such channels left to visit: on_new_datachannel and the teardowns look their
\* channel up without a check for NULL.
WorksOnAdded ==
    \A p \in Peer :
        /\ worklist[p] \subseteq added[p]
        /\ \A t \in Thread : pc[p][t].at # "idle" => pc[p][t].ch \in added[p]

\* No message is dropped by handle_data_channel_message for a channel that is
\* not open: "This should never happen".
NothingEarly == \A p \in Peer : early[p] = {}

\* The messages of an ordered channel reach the application in the order they
\* were sent and at most once, whatever is lost on the way.
InOrder ==
    \A p \in Peer, c \in Channel \ Unordered :
        \A i, j \in DOMAIN got[p][c] : i < j => got[p][c][i] < got[p][c][j]

\* Whenever a handler looks an entry, its channel or its pads up, or comes back to
\* the entry it kept a pointer to while the lock was given up, they are there: no
\* assertion fails and no pointer to an entry that another thread freed is followed.
\* Not covered is the unlock maybe_close_data_channel itself makes of the entry it
\* has just freed, which happens at every completed close.
EntriesFound == \A p \in Peer : fate[p] \in {"alive", "freed_lock"}

\* Applications that wait: they add no channel before the association is up; on a
\* channel both agreed on they send when both ends are OPEN, and do not close it; of
\* a channel requested in-band at most one end closes, once the messages of both are
\* through, and an opener that does so has received one.  Then EntriesFound
\* holds.
Patient ==
    /\ ~EarlyAdd
    /\ SendWhen["party"] \in {"never", "prudent", "drained"}
    /\ CloseWhen["party"] = "never"
    /\ CloseWhen["opener"] \in {"never", "drained"}
    /\ CloseWhen["acceptor"] \in {"never", "drained"}
    /\ CloseWhen["opener"] = "never" \/ CloseWhen["acceptor"] = "never"
    /\ CloseWhen["opener"] = "drained" => MaxSend > 0

\* The ready state the application sees only moves towards CLOSED
\* (_owr_data_channel_set_ready_state is called from two threads).
Rank(state) == CASE state = "CONNECTING" -> 0 [] state = "OPEN" -> 1
                 [] state = "CLOSING" -> 2 [] state = "CLOSED" -> 3
ReadyForward ==
    [][\A p \in Peer, c \in Channel : Rank(ready'[p][c]) >= Rank(ready[p][c])]_vars

\* A channel becomes open at both ends when its opener has added it - the open
\* request, the other application's answer and the ACK all get through - or, if
\* the applications agreed on it, when both have.  (It may be past OPEN when they
\* close it.)  Here and below, an end that died of the freed lock is excused.
Struck == \E p \in Peer : fate[p] = "freed_lock"
Connected(c) == \A p \in Peer : ready[p][c] # "CONNECTING"
Wanted(c) ==
    \A p \in Peer : (c \in Negotiated \/ Opener[c] = p) => asked[p][c] > 0
OpenCompletes == \A c \in Channel : Wanted(c) ~> Connected(c) \/ Struck

\* Every message sent is eventually handed to the other application.
MessagesArrive ==
    \A p \in Peer, c \in Channel : \A k \in 1..MaxSend :
        sent[p][c] >= k
            ~> \/ \E i \in DOMAIN got[Other(p)][c] : got[Other(p)][c][i] = k
               \/ Struck

\* A channel closed at one end ends CLOSED at both, with no entry left behind.  An
\* end that dies of the freed lock has removed its entry, and the other end still
\* gets there: the resets are on their way by then.  (Where one channel is closed.)
CloseCompletes ==
    \A p, q \in Peer, c \in Channel :
        c \in closing[p]
            ~> /\ ready[q][c] = "CLOSED" \/ fate[q] = "freed_lock"
               /\ entry[q][c] = "none"
=============================================================================
