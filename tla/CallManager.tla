----------------------------- MODULE CallManager -----------------------------
(***************************************************************************)
(* One TorCall endpoint: the call state machine of CallManager             *)
(* (torcall/core/call_manager.py), the threads it starts, the signals that *)
(* reach it and the widgets its signals show and hide.                     *)
(*                                                                         *)
(* Everything that runs on the GUI thread is one atomic action: a click, a *)
(* delivered signal, an expired timer.  The receive and the send thread    *)
(* share the manager's fields with it and take a step at every point where *)
(* they read or write one.  The network, the Tor dialler and the peer are  *)
(* nondeterministic.                                                       *)
(*                                                                         *)
(* A connection (a TCP socket) and the two threads of the session it       *)
(* carries share one identifier of Conns; an identifier of Dials stands    *)
(* for one CallClient, its worker and the ephemeral key sent with it.      *)
(* Both are recycled once nothing refers to them.                          *)
(***************************************************************************)
EXTENDS Naturals, FiniteSets

CONSTANTS
    Conns,        \* identifiers of sockets
    Dials,        \* identifiers of CallClients
    None,         \* Python's None
    MaxAttempts,  \* RECONNECT_MAX_ATTEMPTS
    RequireSas,   \* REQUIRE_SAS_CONFIRMATION
    UserMay,      \* what the user of this instance does: a subset of Clicks
    MaxDrops,     \* bound: unhandled notices when a session starts
    MaxTimers     \* bound: pending re-dials when a call or a session starts

Clicks == {"call", "cancel", "accept", "reject", "hangup", "confirm"}

ASSUME NoneAssumption == None \notin Conns \cup Dials
ASSUME AttemptsAssumption == MaxAttempts \in Nat
ASSUME FlagsAssumption == RequireSas \in BOOLEAN
ASSUME EnvironmentAssumption == UserMay \subseteq Clicks
ASSUME BoundsAssumption == MaxDrops \in Nat /\ MaxTimers \in Nat

VARIABLES
    callState,     \* _state
    peerAddress,   \* _peer_address: nobody, a dialled onion, a loopback peer
    isCaller,      \* _is_caller
    userEnded,     \* _user_ended, also written by the receive thread
    attempts,      \* _reconnect_attempts
    reconnecting,  \* _reconnecting
    sock,          \* _call_socket (and the _send_thread that goes with it)
    keys,          \* _send_key, _recv_key: do they match the peer's?
    eph,           \* _my_private: the dial whose handshake carried it
    client,        \* _client
    running,       \* _recv_running, _send_running, the ping timer
    sasConfirmed,  \* _sas_confirmed
    pending,       \* the socket in _pending_incoming
    busy,          \* _ServerWorker._busy
    dial,          \* progress of each _ClientWorker, up to its signal
    link,          \* what each socket is attached to
    recv,          \* the receive threads
    send,          \* the send threads
    drops,         \* posted _peer_disconnect_main_thread calls
    timers,        \* armed _reconnect_now timers
    widget,        \* the in-call view is up, the Call button disabled
    overlay,       \* the incoming-call overlay is up
    confirmPrompt, \* the "Words match" button can be pressed
    refused        \* history: derive_session_keys raised in the handler that
                   \* was to take the call out of RINGING or DIALING

callVars == <<peerAddress, isCaller, userEnded, attempts, reconnecting,
              refused>>
connVars == <<sock, keys, eph, client, running, sasConfirmed>>
uiVars   == <<widget, overlay, confirmPrompt>>
threadVars == <<recv, send>>
loopVars == <<drops, timers>>
vars == <<callState, callVars, connVars, pending, busy, dial, link,
          threadVars, loopVars, uiVars>>

CallStates == {"IDLE", "DIALING", "CONNECTING", "RINGING", "IN_CALL"}
Outcomes   == {"connected", "rejected", "failed"}
Thread(pcs) == [pc : pcs, on : Conns \cup {None}]
Stopped     == [pc |-> "off", on |-> None]

FlagsOK ==
    /\ isCaller \in BOOLEAN /\ userEnded \in BOOLEAN
    /\ reconnecting \in BOOLEAN /\ refused \in BOOLEAN /\ running \in BOOLEAN
    /\ sasConfirmed \in BOOLEAN /\ busy \in BOOLEAN
    /\ widget \in BOOLEAN /\ overlay \in BOOLEAN /\ confirmPrompt \in BOOLEAN

DataOK ==
    /\ callState \in CallStates
    /\ peerAddress \in {"nobody", "onion", "loopback"}
    /\ attempts \in 0..MaxAttempts /\ drops \in Nat /\ timers \in Nat
    /\ keys \in {"none", "agreed", "mismatched"}
    /\ sock \in Conns \cup {None} /\ pending \in Conns \cup {None}
    /\ eph \in Dials \cup {None, "accept"} /\ client \in Dials \cup {None}
    /\ dial \in [Dials -> {"free", "running"} \cup Outcomes]
    /\ link \in [Conns -> {"closed", "queued", "open", "dead"}]
    /\ recv \in [Conns -> Thread({"off", "top", "reading", "end",
                                  "ended", "lost"})]
    /\ send \in [Conns -> Thread({"off", "top", "sending", "failed"})]

TypeOK == FlagsOK /\ DataOK

Init ==
    /\ callState = "IDLE" /\ peerAddress = "nobody"
    /\ isCaller = FALSE /\ userEnded = FALSE
    /\ attempts = 0 /\ reconnecting = FALSE /\ refused = FALSE
    /\ sock = None /\ keys = "none" /\ eph = None /\ client = None
    /\ running = FALSE /\ sasConfirmed = ~RequireSas
    /\ pending = None /\ busy = FALSE
    /\ dial = [d \in Dials |-> "free"]
    /\ link = [c \in Conns |-> "closed"]
    /\ recv = [c \in Conns |-> Stopped] /\ send = [c \in Conns |-> Stopped]
    /\ drops = 0 /\ timers = 0
    /\ widget = FALSE /\ overlay = FALSE /\ confirmPrompt = FALSE

-----------------------------------------------------------------------------
(* Identifiers nothing refers to any more.                                 *)

FreeDials == {d \in Dials : dial[d] = "free" /\ d \notin {eph, client}}

FreeConns ==
    {c \in Conns : /\ link[c] # "queued" /\ c \notin {sock, pending}
                   /\ recv[c] = Stopped /\ send[c] = Stopped
                   /\ \A t \in Conns : c \notin {recv[t].on, send[t].on}}

-----------------------------------------------------------------------------
(* Pieces shared by the handlers.                                          *)

(* _send_thread.join(timeout=2.0): a thread that can finish does, and may  *)
(* post a notice doing so; one blocked in sendall outlives the join.  n is *)
(* the number of notices pending before.                                   *)
JoinSender(n) ==
    \/ /\ sock = None
       /\ drops' = n /\ UNCHANGED send
    \/ /\ sock # None /\ send[sock].pc \in {"off", "top"}
       /\ drops' = n /\ send' = [send EXCEPT ![sock] = Stopped]
    \/ /\ sock # None /\ send[sock].pc = "failed"
       /\ drops' = n + 1 /\ send' = [send EXCEPT ![sock] = Stopped]
    \/ /\ sock # None /\ send[sock].pc = "sending"
       /\ \/ drops' = n /\ UNCHANGED send
          \/ /\ link[sock] = "open"
             /\ drops' = n /\ send' = [send EXCEPT ![sock] = Stopped]
          \/ /\ link[sock] # "open"
             /\ drops' = n + 1 /\ send' = [send EXCEPT ![sock] = Stopped]

(* _teardown_connection *)
TeardownKeepsKey(n) ==
    /\ running' = FALSE
    /\ JoinSender(n)
    /\ link' = [c \in Conns |-> IF c = sock THEN "closed" ELSE link[c]]
    /\ sock' = None /\ keys' = "none" /\ client' = None
    /\ sasConfirmed' = ~RequireSas
    /\ UNCHANGED <<recv, eph>>

TeardownConnection(n) ==
    /\ running' = FALSE
    /\ JoinSender(n)
    /\ link' = [c \in Conns |-> IF c = sock THEN "closed" ELSE link[c]]
    /\ sock' = None /\ keys' = "none" /\ eph' = None /\ client' = None
    /\ sasConfirmed' = ~RequireSas
    /\ UNCHANGED recv

(* _cleanup_call, which adds the call-level state to a teardown. *)
ForgetCallStaysBusy ==
    /\ peerAddress' = "nobody" /\ pending' = None
    /\ isCaller' = FALSE /\ userEnded' = FALSE
    /\ attempts' = 0 /\ reconnecting' = FALSE /\ refused' = FALSE
    /\ UNCHANGED busy

ForgetCall ==
    /\ peerAddress' = "nobody" /\ busy' = FALSE /\ pending' = None
    /\ isCaller' = FALSE /\ userEnded' = FALSE
    /\ attempts' = 0 /\ reconnecting' = FALSE /\ refused' = FALSE

CleanupCall(n) == TeardownConnection(n) /\ ForgetCall

(* TorCallApp._on_call_ended, run by the call_ended signal. *)
CallEnded == widget' = FALSE /\ overlay' = FALSE /\ confirmPrompt' = FALSE

(* _dial *)
DialOut(d) ==
    /\ eph' = d /\ client' = d
    /\ dial' = [dial EXCEPT ![d] = "running"]

(* The test that _on_outgoing_failed, _on_outgoing_timeout and             *)
(* _peer_disconnect_main_thread make before another attempt.               *)
MayRetryForever == ~userEnded /\ isCaller /\ peerAddress # "nobody"

MayRetry ==
    /\ ~userEnded /\ isCaller /\ peerAddress # "nobody"
    /\ attempts < MaxAttempts

(* _attempt_reconnect *)
AttemptReconnect(n) ==
    /\ attempts' = attempts + 1 /\ reconnecting' = TRUE /\ refused' = FALSE
    /\ TeardownConnection(n)
    /\ callState' = "DIALING"
    /\ timers' = timers + 1
    /\ UNCHANGED <<peerAddress, isCaller, userEnded, pending, busy, uiVars>>

(* _start_call_session on socket c; the call_started signal shows the      *)
(* in-call view, and sas_confirmation_required its confirm button.         *)
StartCallSession(c) ==
    /\ callState' = "IN_CALL" /\ refused' = FALSE
    /\ sock' = c /\ running' = TRUE
    /\ send' = [send EXCEPT ![c] = [pc |-> "top", on |-> None]]
    /\ recv' = [recv EXCEPT ![c] = [pc |-> "top", on |-> None]]
    /\ widget' = TRUE /\ overlay' = FALSE
    /\ confirmPrompt' = ~sasConfirmed

-----------------------------------------------------------------------------
(* The user.                                                               *)

(* place_call; while the in-call view is up the Call button is disabled.   *)
PlaceCall ==
    /\ "call" \in UserMay /\ timers <= MaxTimers
    /\ ~widget /\ callState = "IDLE"
    /\ isCaller' = TRUE /\ userEnded' = FALSE
    /\ attempts' = 0 /\ reconnecting' = FALSE /\ refused' = FALSE
    /\ callState' = "DIALING" /\ peerAddress' = "onion"
    /\ \E d \in FreeDials : DialOut(d)
    /\ UNCHANGED <<sock, keys, running, sasConfirmed, pending, busy, link,
                   threadVars, loopVars, uiVars>>

(* cancel_call: no button is wired to it; an embedder would use it as its   *)
(* docstring says, on an outgoing call in progress.                        *)
CancelCall ==
    /\ "cancel" \in UserMay /\ callState = "DIALING"
    /\ CleanupCall(drops)
    /\ callState' = "IDLE"
    /\ dial' = [d \in Dials |-> IF d = client /\ dial[d] = "running"
                               THEN "free" ELSE dial[d]]
    /\ UNCHANGED <<timers, uiVars>>

(* Accept pressed on an overlay whose call is gone: accept_call returns.   *)
AcceptNothing ==
    /\ "accept" \in UserMay /\ overlay
    /\ callState # "RINGING" \/ pending = None
    /\ overlay' = FALSE
    /\ UNCHANGED <<callState, callVars, connVars, pending, busy, dial, link,
                   threadVars, loopVars, widget, confirmPrompt>>

(* accept_call; the click dismisses the overlay first. *)
AcceptCall ==
    /\ "accept" \in UserMay /\ overlay
    /\ callState = "RINGING" /\ pending # None
    /\ drops <= MaxDrops /\ timers <= MaxTimers
    /\ sock' = pending /\ pending' = None
    /\ keys' = "agreed" /\ eph' = "accept"
    /\ isCaller' = FALSE /\ userEnded' = FALSE
    /\ attempts' = 0 /\ reconnecting' = FALSE
    /\ busy' = TRUE
    /\ StartCallSession(pending)
    /\ UNCHANGED <<peerAddress, client, sasConfirmed, dial, link, loopVars>>

(* accept_call when the X25519 exchange refuses the caller's key:          *)
(* derive_session_keys raises after CALL_ACCEPT was sent and the pending   *)
(* call forgotten, and the slot ends there; its socket is held by nobody.  *)
AcceptRaises ==
    /\ "accept" \in UserMay /\ overlay
    /\ callState = "RINGING" /\ pending # None
    /\ pending' = None /\ overlay' = FALSE /\ eph' = "accept"
    /\ isCaller' = FALSE /\ userEnded' = FALSE
    /\ attempts' = 0 /\ reconnecting' = FALSE /\ refused' = TRUE
    /\ UNCHANGED <<callState, peerAddress, sock, keys, client, running,
                   sasConfirmed, busy, dial, link, threadVars, loopVars,
                   widget, confirmPrompt>>

(* accept_call when the handshake is malformed or CALL_ACCEPT cannot be    *)
(* sent: back to idle, the view untouched but for the overlay.             *)
AcceptFailsStillRinging ==
    /\ "accept" \in UserMay /\ overlay
    /\ callState = "RINGING" /\ pending # None
    /\ CleanupCall(drops)
    /\ overlay' = FALSE
    /\ UNCHANGED <<callState, dial, timers, widget, confirmPrompt>>

AcceptFails ==
    /\ "accept" \in UserMay /\ overlay
    /\ callState = "RINGING" /\ pending # None
    /\ CleanupCall(drops)
    /\ callState' = "IDLE" /\ overlay' = FALSE
    /\ UNCHANGED <<dial, timers, widget, confirmPrompt>>

(* reject_call: the state becomes IDLE whatever it was, and _peer_address  *)
(* keeps its value.                                                        *)
RejectCall ==
    /\ "reject" \in UserMay /\ overlay
    /\ callState' = "IDLE" /\ pending' = None /\ overlay' = FALSE
    /\ refused' = FALSE
    /\ link' = [c \in Conns |-> IF c = pending THEN "closed" ELSE link[c]]
    /\ UNCHANGED <<peerAddress, isCaller, userEnded, attempts, reconnecting,
                   connVars, busy, dial, threadVars, loopVars,
                   widget, confirmPrompt>>

(* end_call in a call; in any other state the click changes nothing. *)
Endable == {"IN_CALL", "CONNECTING"}

HangUp ==
    /\ "hangup" \in UserMay /\ widget
    /\ callState \in Endable
    /\ CleanupCall(drops)
    /\ callState' = "IDLE" /\ CallEnded
    /\ UNCHANGED <<dial, timers>>

(* confirm_sas: no state is looked at. *)
ConfirmSas ==
    /\ "confirm" \in UserMay /\ widget /\ confirmPrompt
    /\ sasConfirmed' = TRUE /\ confirmPrompt' = FALSE
    /\ UNCHANGED <<callState, callVars, sock, keys, eph, client, running,
                   pending, busy, dial, link, threadVars, loopVars,
                   widget, overlay>>

-----------------------------------------------------------------------------
(* Outgoing calls.                                                         *)

(* _ClientWorker.run ends and emits its one signal. *)
DialEnds(d) ==
    /\ dial[d] = "running"
    /\ \E o \in Outcomes : dial' = [dial EXCEPT ![d] = o]
    /\ UNCHANGED <<callState, callVars, connVars, pending, busy, link,
                   threadVars, loopVars, uiVars>>

(* The signal of a CallClient that has been replaced may be lost with it.  *)
StaleSignalLost(d) ==
    /\ dial[d] \in Outcomes /\ client # d
    /\ dial' = [dial EXCEPT ![d] = "free"]
    /\ UNCHANGED <<callState, callVars, connVars, pending, busy, link,
                   threadVars, loopVars, uiVars>>

(* _on_outgoing_connected, whatever the state.  Keys are derived from the  *)
(* current ephemeral key, which the peer knows only if this dial sent it.  *)
OnOutgoingConnected(d) ==
    /\ dial[d] = "connected" /\ eph # None
    /\ drops <= MaxDrops /\ timers <= MaxTimers
    /\ dial' = [dial EXCEPT ![d] = "free"]
    /\ keys' = IF eph = d THEN "agreed" ELSE "mismatched"
    /\ reconnecting' = FALSE /\ attempts' = 0
    /\ busy' = TRUE
    /\ \E c \in FreeConns : /\ link' = [link EXCEPT ![c] = "open"]
                            /\ StartCallSession(c)
    /\ UNCHANGED <<peerAddress, isCaller, userEnded, eph, client,
                   sasConfirmed, pending, loopVars>>

(* The same handler when derive_session_keys raises, because the exchange  *)
(* refuses the peer's key or the own one was wiped: the slot ends before   *)
(* it has changed anything.  The signal is used up; if it was that of the  *)
(* call being dialled, nothing takes its place.                            *)
OnConnectedRaises(d) ==
    /\ dial[d] = "connected"
    /\ dial' = [dial EXCEPT ![d] = "free"]
    /\ refused' = (refused \/ (callState = "DIALING" /\ client = d))
    /\ UNCHANGED <<callState, peerAddress, isCaller, userEnded, attempts,
                   reconnecting, connVars, pending, busy, link,
                   threadVars, loopVars, uiVars>>

(* _on_outgoing_connected with a malformed handshake, and                  *)
(* _on_outgoing_rejected: both go idle without call_ended.                 *)
OnOutgoingRefused(d) ==
    /\ dial[d] \in {"connected", "rejected"}
    /\ dial' = [dial EXCEPT ![d] = "free"]
    /\ CleanupCall(drops)
    /\ callState' = "IDLE"
    /\ UNCHANGED <<timers, uiVars>>

(* _on_outgoing_failed and _on_outgoing_timeout *)
OnOutgoingFailed(d) ==
    /\ dial[d] = "failed"
    /\ dial' = [dial EXCEPT ![d] = "free"]
    /\ IF reconnecting /\ MayRetry
       THEN AttemptReconnect(drops)
       ELSE /\ CleanupCall(drops)
            /\ callState' = "IDLE"
            /\ IF reconnecting THEN CallEnded ELSE UNCHANGED uiVars
            /\ UNCHANGED timers

-----------------------------------------------------------------------------
(* Incoming calls.                                                         *)

(* _ServerWorker._handle_connection: a CALL_REQUEST that finds the server  *)
(* not busy is passed on; the busy flag is read long before the main       *)
(* thread acts on the signal.                                              *)
ServerAdmits(c) ==
    /\ c \in FreeConns /\ ~busy
    /\ link' = [link EXCEPT ![c] = "queued"]
    /\ UNCHANGED <<callState, callVars, connVars, pending, busy, dial,
                   threadVars, loopVars, uiVars>>

(* _on_incoming_call *)
MayRingWhenAdmitted == TRUE

MayRing == callState = "IDLE"

OnIncomingCall(c) ==
    /\ link[c] = "queued"
    /\ IF ~MayRing
       THEN /\ link' = [link EXCEPT ![c] = "closed"]
            /\ UNCHANGED <<callState, peerAddress, pending, overlay>>
       ELSE /\ link' = [link EXCEPT ![c] = "open"]
            /\ pending' = c /\ peerAddress' = "loopback"
            /\ callState' = "RINGING" /\ overlay' = TRUE
    /\ UNCHANGED <<isCaller, userEnded, attempts, reconnecting, refused,
                   connVars, busy, dial, threadVars, loopVars, widget,
                   confirmPrompt>>

-----------------------------------------------------------------------------
(* Lost connections.                                                       *)

(* The peer closes, the connection is reset or the circuit dies. *)
LinkDies(c) ==
    /\ link[c] = "open" /\ c \notin FreeConns
    /\ link' = [link EXCEPT ![c] = "dead"]
    /\ UNCHANGED <<callState, callVars, connVars, pending, busy, dial,
                   threadVars, loopVars, uiVars>>

(* _send_ping finds the peer silent or the socket broken.  The event loop  *)
(* runs posted calls well within a ping interval, hence drops = 0.         *)
PingFailsOnlyWhileRead ==
    /\ running /\ sock # None /\ callState = "IN_CALL" /\ drops = 0
    /\ link[sock] # "open" /\ \E t \in Conns : recv[t].pc = "reading"
    /\ drops' = drops + 1
    /\ UNCHANGED <<callState, callVars, connVars, pending, busy, dial, link,
                   threadVars, timers, uiVars>>

PingFails ==
    /\ running /\ sock # None /\ callState = "IN_CALL" /\ drops = 0
    /\ \/ link[sock] # "open"
       \/ \A t \in Conns : recv[t].pc = "off"
    /\ drops' = drops + 1
    /\ UNCHANGED <<callState, callVars, connVars, pending, busy, dial, link,
                   threadVars, timers, uiVars>>

(* _peer_disconnect_main_thread *)
OnPeerDisconnect ==
    /\ drops > 0
    /\ CASE callState = "IDLE" ->
              /\ drops' = drops - 1
              /\ UNCHANGED <<callState, callVars, connVars, pending, busy,
                             link, threadVars, timers, uiVars>>
         [] callState # "IDLE" /\ MayRetry -> AttemptReconnect(drops - 1)
         [] OTHER -> /\ CleanupCall(drops - 1)
                     /\ callState' = "IDLE" /\ CallEnded
                     /\ UNCHANGED timers
    /\ UNCHANGED dial

(* _reconnect_now *)
RedialWantedBeforeLast ==
    ~userEnded /\ peerAddress # "nobody" /\ attempts < MaxAttempts

RedialWanted == ~userEnded /\ peerAddress # "nobody"

ReconnectNow ==
    /\ timers > 0
    /\ timers' = timers - 1
    /\ IF RedialWanted
       THEN /\ \E d \in FreeDials : DialOut(d)
            /\ refused' = (refused /\ callState # "DIALING")
       ELSE UNCHANGED <<eph, client, dial, refused>>
    /\ UNCHANGED <<callState, peerAddress, isCaller, userEnded, attempts,
                   reconnecting, sock, keys, running, sasConfirmed, pending,
                   busy, link, threadVars, drops, uiVars>>

-----------------------------------------------------------------------------
(* The receive thread, _recv_loop.                                         *)

recvFrame == <<callState, peerAddress, isCaller, attempts, reconnecting,
               refused, connVars, pending, busy, dial, send, timers, uiVars>>

RecvGoes(c, pc) == recv' = [recv EXCEPT ![c].pc = pc]
RecvStops(c)    == recv' = [recv EXCEPT ![c] = Stopped]

(* The loop condition, and the socket the next read will use. *)
RecvTop(c) ==
    /\ recv[c].pc = "top"
    /\ recv' = [recv EXCEPT ![c] = IF running /\ sock # None
                                   THEN [pc |-> "reading", on |-> sock]
                                   ELSE Stopped]
    /\ UNCHANGED <<recvFrame, userEnded, drops, link>>

(* A packet that only needs an answer, or audio. *)
RecvPacket(c) ==
    /\ recv[c].pc = "reading" /\ link[recv[c].on] = "open"
    /\ recv' = [recv EXCEPT ![c] = [pc |-> "top", on |-> None]]
    /\ UNCHANGED <<recvFrame, userEnded, drops, link>>

(* A packet that cannot be decoded: the loop ends without a notice. *)
RecvGarbage(c) ==
    /\ recv[c].pc = "reading" /\ link[recv[c].on] = "open"
    /\ RecvStops(c)
    /\ UNCHANGED <<recvFrame, userEnded, drops, link>>

(* CALL_END arrives and is acknowledged; the peer closes after it. *)
RecvCallEnd(c) ==
    /\ recv[c].pc = "reading" /\ link[recv[c].on] = "open"
    /\ RecvGoes(c, "end")
    /\ link' = [link EXCEPT ![recv[c].on] = "dead"]
    /\ UNCHANGED <<recvFrame, userEnded, drops>>

RecvMarksEnded(c) ==
    /\ recv[c].pc = "end"
    /\ userEnded' = TRUE
    /\ RecvGoes(c, "ended")
    /\ UNCHANGED <<recvFrame, drops, link>>

RecvReportsEnd(c) ==
    /\ recv[c].pc = "ended"
    /\ drops' = drops + 1
    /\ recv' = [recv EXCEPT ![c] = [pc |-> "top", on |-> None]]
    /\ UNCHANGED <<recvFrame, userEnded, link>>

(* The read returns None: reported even after _recv_running was cleared.   *)
RecvEof(c) ==
    /\ recv[c].pc = "reading" /\ link[recv[c].on] = "dead"
    /\ RecvGoes(c, "lost")
    /\ UNCHANGED <<recvFrame, userEnded, drops, link>>

(* The read raises OSError: reported only while _recv_running is set.      *)
RecvError(c) ==
    /\ recv[c].pc = "reading" /\ link[recv[c].on] \in {"dead", "closed"}
    /\ IF running THEN RecvGoes(c, "lost") ELSE RecvStops(c)
    /\ UNCHANGED <<recvFrame, userEnded, drops, link>>

RecvReportsLoss(c) ==
    /\ recv[c].pc = "lost"
    /\ drops' = drops + 1
    /\ RecvStops(c)
    /\ UNCHANGED <<recvFrame, userEnded, link>>

-----------------------------------------------------------------------------
(* The send thread, _send_loop.                                            *)

sendFrame == <<callState, callVars, connVars, pending, busy, dial, link,
               recv, timers, uiVars>>

(* The loop condition; then a frame (in constant-rate mode there always is *)
(* one) goes out on the socket of the moment.                              *)
SendTop(c) ==
    /\ send[c].pc = "top"
    /\ send' = [send EXCEPT ![c] = IF running /\ sock # None
                                   THEN [pc |-> "sending", on |-> sock]
                                   ELSE Stopped]
    /\ UNCHANGED <<sendFrame, drops>>

(* sendall on a socket closed meanwhile cannot succeed. *)
SendSucceeds(c) ==
    /\ send[c].pc = "sending" /\ link[send[c].on] # "closed"
    /\ send' = [send EXCEPT ![c] = [pc |-> "top", on |-> None]]
    /\ UNCHANGED <<sendFrame, drops>>

SendFails(c) ==
    /\ send[c].pc = "sending" /\ link[send[c].on] # "open"
    /\ send' = [send EXCEPT ![c].pc = "failed"]
    /\ UNCHANGED <<sendFrame, drops>>

SendReports(c) ==
    /\ send[c].pc = "failed"
    /\ drops' = drops + 1
    /\ send' = [send EXCEPT ![c] = Stopped]
    /\ UNCHANGED sendFrame

-----------------------------------------------------------------------------
User == PlaceCall \/ CancelCall \/ AcceptNothing \/ AcceptCall
        \/ AcceptRaises \/ AcceptFails \/ RejectCall \/ HangUp \/ ConfirmSas

OnDialSignal(d) == OnOutgoingConnected(d) \/ OnConnectedRaises(d)
                   \/ OnOutgoingRefused(d) \/ OnOutgoingFailed(d)

Receiver(c) == \/ RecvTop(c) \/ RecvPacket(c) \/ RecvGarbage(c)
               \/ RecvCallEnd(c) \/ RecvMarksEnded(c) \/ RecvReportsEnd(c)
               \/ RecvEof(c) \/ RecvError(c) \/ RecvReportsLoss(c)

Sender(c) == SendTop(c) \/ SendSucceeds(c) \/ SendFails(c) \/ SendReports(c)

Next ==
    \/ User
    \/ \E d \in Dials : DialEnds(d) \/ StaleSignalLost(d) \/ OnDialSignal(d)
    \/ \E c \in Conns : \/ ServerAdmits(c) \/ OnIncomingCall(c)
                        \/ LinkDies(c) \/ Receiver(c) \/ Sender(c)
    \/ PingFails \/ OnPeerDisconnect \/ ReconnectNow

Spec == Init /\ [][Next]_vars

(* The event loop, the threads and Tor do not stop; the user, the peer and  *)
(* the network owe nothing.                                                *)
Fairness ==
    /\ WF_vars(OnPeerDisconnect) /\ WF_vars(ReconnectNow) /\ WF_vars(PingFails)
    /\ \A d \in Dials : WF_vars(DialEnds(d)) /\ WF_vars(OnDialSignal(d))
    /\ \A c \in Conns : /\ WF_vars(OnIncomingCall(c))
                        /\ WF_vars(Receiver(c)) /\ WF_vars(Sender(c))

FairSpec == Spec /\ Fairness

-----------------------------------------------------------------------------
(* What holds of every interleaving.                                       *)

(* _state = IN_CALL, which three handlers set and six leave, is exactly    *)
(* the time a socket, its session keys and its threads exist; meanwhile    *)
(* the server turns callers away, the view with the Hang Up button is up   *)
(* and no ringing overlay hides it.                                        *)
SessionIffInCall ==
    /\ callState = "IN_CALL" => /\ sock # None /\ keys # "none" /\ running
                                /\ busy /\ widget /\ ~overlay
    /\ callState # "IN_CALL" => sock = None /\ keys = "none" /\ ~running

(* An endpoint without a call of its own never leaves the server's busy    *)
(* flag set, which would reject every later caller: no path to IDLE, not   *)
(* even reject_call's bare state change, skips set_busy(False).            *)
FreeEndpointNotBusy == callState \in {"IDLE", "RINGING"} => ~busy

(* While the phone rings the overlay's buttons are there and the caller's  *)
(* socket is still held, whatever stale notice or signal came between;     *)
(* save where accepting raised, which leaves a call nobody can answer.     *)
RingingIsAnswerable ==
    callState = "RINGING" /\ ~refused => overlay /\ pending # None

(* What makes the three inductive: reject_call goes idle from whatever     *)
(* state the overlay was left up in, so that state must not be busy.       *)
OverlayNotBusy == overlay => ~busy

Inv == /\ TypeOK /\ SessionIffInCall /\ FreeEndpointNotBusy
       /\ RingingIsAnswerable /\ OverlayNotBusy

(* An endpoint that has forgotten its peer has forgotten the whole call:   *)
(* there is no key left with which a late answer to one of its dials could *)
(* open the microphone, no dialler and no caller's socket.  Only a call    *)
(* that is placed, or one that comes in, leads back to a session.          *)
ForgottenIsQuiet ==
    peerAddress = "nobody" => /\ callState = "IDLE" /\ sock = None
                              /\ eph = None /\ client = None /\ pending = None

(* While a call is being dialled - and there is no button to leave that    *)
(* state - a re-dial timer, a posted notice, a thread about to post one,   *)
(* or the worker of the current CallClient or its signal is still to come, *)
(* although one lost link is reported by up to three detectors, the        *)
(* attempts run out and every dial replaces the one before; save where the *)
(* exchange refused the key that came with the answer.                     *)
EndReported == \E c \in Conns : recv[c].pc = "ended"

DialingIsDriven ==
    callState = "DIALING" /\ ~refused =>
        \/ timers > 0 \/ drops > 0 \/ EndReported
        \/ client \in Dials /\ dial[client] # "free"

-----------------------------------------------------------------------------
(* Progress, under Fairness.                                               *)

(* A dial or a re-dial comes to an end, in a session or in IDLE, unless    *)
(* the exchange refuses the key the peer answered with.                    *)
DialingEnds == callState = "DIALING" ~> callState # "DIALING" \/ refused

(* A session whose link is dead or that nothing reads from any more is     *)
(* torn down, by its threads or at the latest by the keep-alive watchdog.  *)
Broken(c) == /\ sock = c
             /\ link[c] = "dead" \/ \A t \in Conns : recv[t].pc = "off"

BrokenSessionEnds == \A c \in Conns : Broken(c) ~> sock # c

-----------------------------------------------------------------------------
(* What the documentation says and the code does not do.                   *)

(* "call_ended: Emitted when the call ends (any reason)": the view is not  *)
(* left up, its Call button disabled, once the call is over.               *)
ViewClosesWithCall == widget => callState \in {"IN_CALL", "DIALING"}
=============================================================================
