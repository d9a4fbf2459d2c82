------------------------------- MODULE CallLink -------------------------------
(***************************************************************************)
(* One call over one connection, with both ends: the dialling worker       *)
(* (_ClientWorker.run), the callee's connection thread (_ServerWorker.     *)
(* _handle_connection), the two GUI threads (CallManager), and during the  *)
(* call the send and the receive thread of each end, all on the socket of  *)
(* SharedSocket.                                                           *)
(*                                                                         *)
(* The callee's user may be dialling, or in another call, when the call    *)
(* comes.  A call that is over stays over here: a re-dial is another       *)
(* connection (CallManager).                                               *)
(***************************************************************************)
EXTENDS SharedSocket

CONSTANTS
    Ephemeral,  \* the ephemeral key of each end
    Hangers     \* the ends whose user may hang up

ASSUME EphemeralAssumption ==
    Ephemeral \in [Sides -> Nat] /\ Ephemeral["caller"] # Ephemeral["callee"]
ASSUME NoneAssumption ==
    /\ None \notin Nat \cup Sides \cup Packets \cup Threads
    /\ \A s \in Sides : SignHandshake(s, Ephemeral[s], 0, None) # None

VARIABLES
    call,      \* how far the call is at each end
    other,     \* what else the callee's manager is doing
    notice,    \* _peer_disconnect_main_thread is posted
    peerKey    \* the peer's ephemeral key, from its handshake

linkVars == <<call, other, notice, peerKey>>
vars     == <<sockVars, linkVars>>

(* What each thread may be doing. *)
Pcs(t) ==
    CASE t = "setup" -> {"off", "connect", "request", "await", "connected", "gave up",
                         "refused", "stranded", "first", "posted", "reject", "close",
                         "done"}
      [] t = "gui"   -> {"running", "accept", "accepted", "stranded", "reject", "ping",
                         "end", "close"}
      [] t = "send"  -> {"off", "running", "audio", "done"}
      [] t = "recv"  -> {"off", "read", "pong", "ack", "done"}

TypeOK ==
    /\ open \in [Sides -> BOOLEAN] /\ cut \in BOOLEAN
    /\ pipe \in [Sides -> Seq(Pieces)] /\ \A s \in Sides : Len(pipe[s]) <= Capacity
    /\ part \in [Sides -> Packets \cup {None}] /\ garbled \in [Sides -> BOOLEAN]
    /\ torn \in [Sides -> BOOLEAN]
    /\ lock \in [Sides -> Threads \cup {None}]
    /\ \A s \in Sides : lock[s] # None => left[s][lock[s]] > 0
    /\ pc \in [Sides -> [Threads -> UNION {Pcs(t) : t \in Threads}]]
    /\ \A s \in Sides, t \in Threads : pc[s][t] \in Pcs(t)
    /\ left \in [Sides -> [Threads -> 0..2]]
    /\ call \in [Sides -> {"idle", "dialing", "ringing", "in_call", "over"}]
    /\ other \in {"nothing", "dialing", "busy"}
    /\ notice \in [Sides -> BOOLEAN]
    /\ peerKey \in [Sides -> {Ephemeral[s] : s \in Sides} \cup {None}]

Init ==
    /\ SocketInit
    /\ pc = [s \in Sides |-> [t \in Threads |->
                IF t = "gui" THEN "running"
                ELSE IF t = "setup" /\ s = "caller" THEN "connect" ELSE "off"]]
    /\ call = [s \in Sides |-> IF s = "caller" THEN "dialing" ELSE "idle"]
    /\ other = "nothing"
    /\ notice = [s \in Sides |-> FALSE] /\ peerKey = [s \in Sides |-> None]

-----------------------------------------------------------------------------
(* The handshake each end sends, and the peer's key out of it. *)
HandshakeOf(s) ==
    EncodeHandshake(Ephemeral[s], s, SignHandshake(s, Ephemeral[s], 0, None), 0, None)

KeyOfPeer(s) == DecodeHandshake(HandshakeOf(Peer(s))).eph

(* derive_session_keys and compute_sas as end s calls them. *)
SessionKeys(s) == DeriveSessionKeys(Ephemeral[s], peerKey[s], s = "caller")
Sas(s)         == ComputeSas(Ephemeral[s], peerKey[s])

Posts(s) == notice' = [notice EXCEPT ![s] = TRUE]

-----------------------------------------------------------------------------
(* The caller's worker. *)
Connect ==
    /\ pc["caller"]["setup"] = "connect"
    /\ \/ /\ open' = [s \in Sides |-> TRUE]
          /\ pc' = [pc EXCEPT !["caller"]["setup"] = "request",
                              !["callee"]["setup"] = "first"]
          /\ left' = [left EXCEPT !["caller"]["setup"] = 2]
       \/ Goes("caller", "setup", "gave up") /\ UNCHANGED open
    /\ UNCHANGED <<cut, pipe, part, garbled, torn, lock, linkVars>>

AwaitAnswer ==
    /\ pc["caller"]["setup"] = "await"
    /\ \/ ReadFirst("caller")
       \/ \E p \in Packets :
             /\ ReadPacket("caller", p)
             /\ Goes("caller", "setup", CASE p = "accept" -> "connected"
                                          [] p = "reject" -> "refused"
                                          [] OTHER -> "gave up")
       \/ /\ Silent("caller") /\ Goes("caller", "setup", "gave up")
          /\ UNCHANGED <<open, cut, pipe, part, garbled, torn, lock>>
    /\ UNCHANGED linkVars

(* The session of end s begins: its keys, its threads. *)
SessionBegins(s, t) ==
    /\ call' = [call EXCEPT ![s] = "in_call"]
    /\ peerKey' = [peerKey EXCEPT ![s] = KeyOfPeer(s)]
    /\ pc' = [pc EXCEPT ![s][t] = IF t = "gui" THEN "running" ELSE "done",
                        ![s]["send"] = "running", ![s]["recv"] = "read"]
    /\ UNCHANGED <<open, cut, pipe, part, garbled, torn, lock, left, other, notice>>

(* The session or the attempt is over for end s: thread t closes the       *)
(* socket and goes on at at; a thread between two packets ends.            *)
Over(s, t, at) ==
    /\ Closes(s) /\ UNCHANGED left
    /\ pc' = [pc EXCEPT ![s][t] = at,
                        ![s]["send"] = IF @ = "running" THEN "done" ELSE @,
                        ![s]["recv"] = IF @ = "read" THEN "done" ELSE @]
    /\ call' = [call EXCEPT ![s] = "over"]
    /\ notice' = [notice EXCEPT ![s] = FALSE]
    /\ UNCHANGED <<other, peerKey>>

(* derive_session_keys raises, for a key the exchange refuses, and the     *)
(* handler of end s ends there: the state stays DIALING or RINGING, the    *)
(* socket open, and no thread reads or writes it.  (When the interpreter   *)
(* lets go of the socket the other end sees what it does when the circuit  *)
(* breaks.)                                                                *)
Strands(s, t) ==
    /\ Goes(s, t, "stranded")
    /\ UNCHANGED <<open, cut, pipe, part, garbled, torn, lock, linkVars>>

(* The GUI thread of the caller on the worker's signal; a handshake may    *)
(* turn out malformed, or with a key that the exchange refuses.            *)
OnOutgoing ==
    \/ /\ pc["caller"]["setup"] = "connected"
       /\ \/ SessionBegins("caller", "setup") \/ Over("caller", "setup", "done")
          \/ Strands("caller", "setup")
    \/ /\ pc["caller"]["setup"] \in {"gave up", "refused"}
       /\ Over("caller", "setup", "done")

-----------------------------------------------------------------------------
(* The callee's connection thread: the first packet, the busy flag. *)
HandleConnection ==
    /\ pc["callee"]["setup"] = "first"
    /\ \/ ReadFirst("callee")
       \/ \E p \in Packets :
             /\ ReadPacket("callee", p)
             /\ CASE p # "request" -> Goes("callee", "setup", "close")
                  [] p = "request" /\ other = "busy" -> Writes("callee", "setup", "reject")
                  [] OTHER -> Goes("callee", "setup", "posted")
       \/ /\ Silent("callee") /\ Goes("callee", "setup", "close")
          /\ UNCHANGED <<open, cut, pipe, part, garbled, torn, lock>>
    /\ UNCHANGED linkVars

ConnectionCloses ==
    pc["callee"]["setup"] = "close" /\ Over("callee", "setup", "done")

(* _on_incoming_call: only an idle manager rings. *)
OnIncoming ==
    /\ pc["callee"]["setup"] = "posted"
    /\ \/ /\ other = "nothing" /\ Goes("callee", "setup", "done")
          /\ call' = [call EXCEPT !["callee"] = "ringing"]
       \/ /\ other # "nothing"
          /\ pc' = [pc EXCEPT !["callee"]["setup"] = "done", !["callee"]["gui"] = "reject"]
          /\ left' = [left EXCEPT !["callee"]["gui"] = 2]
          /\ UNCHANGED call
    /\ UNCHANGED <<open, cut, pipe, part, garbled, torn, lock, other, notice, peerKey>>

(* The callee's user: place_call to somebody else and what becomes of it,  *)
(* while this call has not rung.                                           *)
OtherCall ==
    /\ call["callee"] = "idle"
    /\ other' \in IF other = "dialing" THEN {"nothing", "busy"}
                  ELSE IF other = "busy" THEN {"nothing"} ELSE {"dialing"}
    /\ UNCHANGED <<sockVars, call, notice, peerKey>>

Ringing == call["callee"] = "ringing" /\ pc["callee"]["gui"] = "running"

(* accept_call: the caller's handshake is verified, CALL_ACCEPT is sent,   *)
(* and then, without another look at the caller, the session begins, if    *)
(* its keys can be derived.                                                *)
AcceptCall ==
    /\ Ringing
    /\ Writes("callee", "gui", "accept") \/ Goes("callee", "gui", "close")
    /\ UNCHANGED <<open, cut, pipe, part, garbled, torn, lock, linkVars>>

RejectCall ==
    /\ Ringing /\ Writes("callee", "gui", "reject")
    /\ UNCHANGED <<open, cut, pipe, part, garbled, torn, lock, linkVars>>

AcceptSent ==
    /\ pc["callee"]["gui"] = "accepted"
    /\ SessionBegins("callee", "gui") \/ Strands("callee", "gui")

-----------------------------------------------------------------------------
(* The send thread of end s; a closed socket ends it (Over, WriteFails). *)
SendFrame(s) ==
    /\ pc[s]["send"] = "running" /\ call[s] = "in_call" /\ Untorn
    /\ Writes(s, "send", "audio")
    /\ UNCHANGED <<open, cut, pipe, part, garbled, torn, lock, call, other, notice, peerKey>>

(* The receive thread of end s: _recv_loop with _dispatch_packet.  Out of a *)
(* garbled header it gets an unknown type, which raises ValueError, or a   *)
(* length it waits for in vain: either way it reports nothing any more.    *)
RecvReads(s) ==
    /\ pc[s]["recv"] = "read" /\ call[s] = "in_call"
    /\ \/ ReadFirst(s)
       \/ \E p \in Packets :
             /\ ReadPacket(s, p)
             /\ CASE p = "ping" -> Writes(s, "recv", "pong")
                  [] p = "end"  -> Writes(s, "recv", "ack")
                  [] OTHER      -> UNCHANGED <<pc, left>>
       \/ ReadGarbage(s) /\ Goes(s, "recv", "done")
    /\ UNCHANGED linkVars

RecvEnds(s) ==
    /\ pc[s]["recv"] = "read"
    /\ Silent(s) \/ call[s] = "over"
    /\ Goes(s, "recv", "done")
    /\ IF call[s] = "in_call" THEN Posts(s) ELSE UNCHANGED notice
    /\ UNCHANGED <<open, cut, pipe, part, garbled, torn, lock, call, other, peerKey>>

-----------------------------------------------------------------------------
(* The GUI thread of end s in a call: _send_ping with its watchdog,        *)
(* end_call, _peer_disconnect_main_thread.                                 *)
InCall(s) == call[s] = "in_call" /\ pc[s]["gui"] = "running"

NothingRead(s) == pc[s]["recv"] # "done" /\ Silent(s)

NothingHeard(s) ==
    CASE pc[s]["recv"] = "read" -> Silent(s)
      [] pc[s]["recv"] = "done" -> TRUE
      [] OTHER -> Stuck(s)

SendPing(s) ==
    /\ InCall(s) /\ ~notice[s] /\ ~NothingHeard(s) /\ Untorn
    /\ Writes(s, "gui", "ping")
    /\ UNCHANGED <<open, cut, pipe, part, garbled, torn, lock, call, other, notice, peerKey>>

Watchdog(s) ==
    /\ InCall(s) /\ NothingHeard(s) /\ ~notice[s] /\ Posts(s)
    /\ UNCHANGED <<sockVars, call, other, peerKey>>

HangUp(s) ==
    /\ s \in Hangers /\ InCall(s) /\ Untorn /\ Writes(s, "gui", "end")
    /\ UNCHANGED <<open, cut, pipe, part, garbled, torn, lock, linkVars>>

OnNotice(s) == InCall(s) /\ notice[s] /\ Over(s, "gui", "running")

Teardown(s) == pc[s]["gui"] = "close" /\ Over(s, "gui", "running")

-----------------------------------------------------------------------------
(* A frame or a ping that cannot be sent, and a CALL_END that is answered, *)
(* or could not be, is reported to the GUI thread.                         *)
Written(s, t) ==
    /\ IF pc[s][t] = "ack" /\ left'[s][t] = 0 THEN Posts(s) ELSE UNCHANGED notice
    /\ UNCHANGED <<call, other, peerKey>>

Failed(s, t) ==
    /\ IF pc[s][t] \in {"audio", "ping", "ack"} THEN Posts(s) ELSE UNCHANGED notice
    /\ UNCHANGED <<call, other, peerKey>>

Writing(s, t) ==
    \/ Acquire(s, t) /\ UNCHANGED linkVars
    \/ (WritePiece(s, t) \/ WriteVanishes(s, t)) /\ Written(s, t)
    \/ WriteFails(s, t) /\ Failed(s, t)

(* The threads of end s. *)
Setup(s) ==
    \/ s = "caller" /\ (Connect \/ AwaitAnswer)
    \/ s = "callee" /\ (HandleConnection \/ ConnectionCloses)
    \/ Writing(s, "setup")

Gui(s) ==
    \/ s = "caller" /\ OnOutgoing
    \/ s = "callee" /\ (OnIncoming \/ AcceptSent)
    \/ Watchdog(s) \/ OnNotice(s) \/ Teardown(s) \/ Writing(s, "gui")

Send(s) == SendFrame(s) \/ Writing(s, "send")
Recv(s) == RecvReads(s) \/ RecvEnds(s) \/ Writing(s, "recv")

User == OtherCall \/ AcceptCall \/ RejectCall \/ \E s \in Sides : HangUp(s)

Next ==
    \/ \E s \in Sides : Setup(s) \/ Gui(s) \/ Send(s) \/ Recv(s) \/ SendPing(s)
    \/ User
    \/ CircuitBreaks /\ UNCHANGED linkVars

(* Threads run, timeouts expire, and a thread that waits for the lock gets *)
(* it sooner or later, since the send thread sleeps between two frames.    *)
(* What the users and Tor do is up to them.                                *)
Fairness ==
    \A s \in Sides :
        WF_vars(Setup(s)) /\ WF_vars(Send(s)) /\ SF_vars(Gui(s)) /\ SF_vars(Recv(s))

Spec == Init /\ [][Next]_vars /\ Fairness

-----------------------------------------------------------------------------
(* Who is in a call is so with the other's consent, and the two ends agree *)
(* on everything they derived from each other's handshake: what one seals  *)
(* the other opens, the directions differ, the words to compare are equal. *)
SessionAgreed ==
    /\ call["caller"] = "in_call" =>
          peerKey["callee"] # None \/ pc["callee"]["gui"] \in {"accepted", "stranded"}
    /\ (\A s \in Sides : call[s] = "in_call") =>
          \A s \in Sides :
              /\ SessionKeys(s).send = SessionKeys(Peer(s)).recv
              /\ SessionKeys(s).send # SessionKeys(s).recv
              /\ Sas(s) = Sas(Peer(s))

(* Neither end stays in a call the other has left, or could not enter:     *)
(* also a callee that accepts after the caller gave up, also one whose     *)
(* receive thread died of garbage, also one whose peer refused the key.    *)
NobodyLeftBehind ==
    (\E s \in Sides : call[s] = "over" \/ Stranded(s)) ~>
        (\A s \in Sides : call[s] # "in_call")

(* A dial ends whatever else the callee does, also if he never answers, is *)
(* in another call or is dialling at the same moment; one answered with a  *)
(* key that the exchange refuses does not end, and is the only one.        *)
DialEnds ==
    call["caller"] = "dialing" ~> call["caller"] # "dialing" \/ Stranded("caller")

(* No thread waits for ever for _socket_lock: not even if both send        *)
(* threads hold theirs before full buffers while both receive threads wait *)
(* to answer a ping.                                                       *)
LockIsReleased == \A s \in Sides : []<>(lock[s] = None)
=============================================================================
