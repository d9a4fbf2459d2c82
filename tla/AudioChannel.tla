----------------------------- MODULE AudioChannel -----------------------------
(***************************************************************************)
(* One direction of a conversation, from the microphone of one endpoint to *)
(* the loudspeaker of the other: the capture handler, the bounded send     *)
(* queue with its shutdown sentinel, the send thread with the counter that *)
(* is also the AES-GCM nonce, the network, and the anti-replay test of the *)
(* receiving thread (torcall/core/call_manager.py).                        *)
(*                                                                         *)
(* Sessions follow one another as they do when a call is re-dialled: each  *)
(* has a fresh key, so a key also names its session, its socket and its    *)
(* send thread.  A session may begin on top of another, when a dial left   *)
(* over from an earlier attempt is answered in a call (CallManager.tla):   *)
(* then its send thread works beside that of the session begun over, with  *)
(* one key, one counter and one queue.                                     *)
(* The network may lose, repeat, reorder and damage whole packets.         *)
(***************************************************************************)
EXTENDS Integers, Sequences

CONSTANTS
    Keys,          \* the session keys
    None,          \* Python's None
    QueueSize,     \* maxsize of _send_queue
    MaxSequence,   \* MAX_SEQUENCE
    ConstantRate,  \* CONSTANT_RATE_SEND
    RequireSas,    \* REQUIRE_SAS_CONFIRMATION
    MaxSpoken      \* bound: microphone frames per session

ASSUME KeysAssumption == None \notin Keys
ASSUME SizesAssumption ==
    QueueSize \in Nat \ {0} /\ MaxSequence \in Nat \ {0} /\ MaxSpoken \in Nat
ASSUME SwitchesAssumption == ConstantRate \in BOOLEAN /\ RequireSas \in BOOLEAN

VARIABLES
    sendKey,   \* _send_key (None: no session)
    sendSeq,   \* _send_seq
    running,   \* _send_running
    joining,   \* the GUI thread is inside _teardown_connection's join
    queue,     \* _send_queue
    gate,      \* _sas_confirmed
    thread,    \* the send thread of each session
    left,      \* the sessions begun over, whose sockets nobody closed
    wire,      \* every packet encrypted so far, whether it arrived or not
    recvKey,   \* the peer's _recv_key
    lastRecv,  \* the peer's _last_recv_seq
    recvGate,  \* the peer's _sas_confirmed
    spoken,    \* history: frames the microphone delivered in each session
    heard,     \* history: those handed to the peer's jitter buffer, in order
    started,   \* history: the sessions begun here
    joined,    \* history: the sessions begun at the peer
    vouched,   \* history: the sessions whose words this user confirmed
    early,     \* history: those that may have found the gate open (None: the next)
    shared,    \* history: those that two send or receive threads worked on
    reported   \* history: this session's send thread has posted a disconnect

senderVars   == <<sendKey, sendSeq, running, joining, queue, gate, thread,
                  left, started, vouched, early, reported>>
receiverVars == <<recvKey, lastRecv, recvGate, heard, joined>>
vars == <<senderVars, wire, receiverVars, shared, spoken>>

Mic     == [key : Keys, n : Nat \ {0}]   \* the n-th frame of a session
Silence == [key |-> None, n |-> 0]       \* the frame that covers a gap
Stop    == [key |-> None, n |-> 1]       \* the sentinel None

(* A send thread: the frame in its hand; the key it has taken for it, or   *)
(* the session whose socket it is sending on.                              *)
At(pc, f, on) == [pc |-> pc, frame |-> f, on |-> on]
Off           == At("off", Silence, None)

TypeOK ==
    /\ sendKey \in Keys \cup {None} /\ recvKey \in Keys \cup {None}
    /\ sendSeq \in Nat /\ lastRecv \in -1..(MaxSequence - 1)
    /\ sendKey \notin shared \cup {None} => sendSeq <= MaxSequence
    /\ running \in BOOLEAN /\ joining \in BOOLEAN /\ reported \in BOOLEAN
    /\ gate \in BOOLEAN /\ recvGate \in BOOLEAN
    /\ queue \in Seq(Mic \cup {Stop}) /\ Len(queue) <= QueueSize
    /\ thread \in [Keys -> [pc : {"off", "top", "wait", "frame", "keyed",
                                  "sending", "sent"},
                            frame : Mic \cup {Silence}, on : Keys \cup {None}]]
    /\ wire \subseteq [key : Keys, seq : 0..(MaxSequence - 1),
                       frame : Mic \cup {Silence}]
    /\ spoken \in [Keys -> Nat] /\ heard \in [Keys -> Seq(Nat)]
    /\ started \subseteq Keys /\ joined \subseteq Keys /\ vouched \subseteq Keys
    /\ left \subseteq Keys /\ shared \subseteq Keys /\ early \subseteq Keys \cup {None}

Init ==
    /\ sendKey = None /\ sendSeq = 0 /\ running = FALSE /\ joining = FALSE
    /\ queue = <<>> /\ gate = ~RequireSas
    /\ thread = [k \in Keys |-> Off]
    /\ wire = {}
    /\ recvKey = None /\ lastRecv = -1 /\ recvGate = ~RequireSas
    /\ spoken = [k \in Keys |-> 0] /\ heard = [k \in Keys |-> <<>>]
    /\ started = {} /\ joined = {} /\ vouched = {} /\ reported = FALSE
    /\ left = {} /\ early = {} /\ shared = {}

-----------------------------------------------------------------------------
(* The GUI thread of the sender; while it waits in join it does nothing    *)
(* else.                                                                   *)

(* A socket that the teardown closed lets no sendall return, and a key     *)
(* that it wiped is no key any more.                                       *)
Open(k)  == k \in left \/ (k = sendKey /\ k # None)
Wiped(k) == ~Open(k)

(* Threads that will still do something else than end. *)
Strays == {j \in Keys : /\ thread[j].pc # "off"
                        /\ thread[j].pc = "sending" => Open(thread[j].on)}

(* The handshake is done: _on_outgoing_connected or accept_call, then      *)
(* _start_call_session, which drains the queue first.  Neither asks        *)
(* whether a session is under way: its key and socket are overwritten, its *)
(* thread goes on, and the gate is as that session left it.                *)
Begins(k) ==
    /\ ~joining /\ k \notin started
    /\ sendKey' = k /\ sendSeq' = 0
    /\ running' = TRUE
    /\ thread' = [thread EXCEPT ![k] = At("top", Silence, None)]
    /\ started' = started \cup {k} /\ reported' = FALSE
    /\ left' = left \cup ({sendKey} \ {None})
    /\ shared' = IF Strays = {} THEN shared
                 ELSE shared \cup ({sendKey, k} \ {None})
    /\ early' = IF sendKey # None \/ None \in early
                THEN (early \ {None}) \cup {k} ELSE early
    /\ UNCHANGED <<joining, gate, vouched, wire, receiverVars, spoken>>

StartSessionUndrained(k) == Begins(k) /\ UNCHANGED queue

StartSession(k) == Begins(k) /\ queue' = <<>>

(* The queue after f: a full one makes room by dropping its oldest frame.  *)
Enqueued(f) == Append(IF Len(queue) < QueueSize THEN queue ELSE Tail(queue), f)

(* _on_audio_captured *)
SpeakUngated ==
    /\ sendKey # None /\ ~joining /\ spoken[sendKey] < MaxSpoken
    /\ spoken' = [spoken EXCEPT ![sendKey] = @ + 1]
    /\ queue' = Enqueued([key |-> sendKey, n |-> spoken'[sendKey]])
    /\ UNCHANGED <<sendKey, sendSeq, running, joining, gate, thread, left, started,
                   vouched, early, shared, reported, wire, receiverVars>>

Speak ==
    /\ sendKey # None /\ ~joining /\ spoken[sendKey] < MaxSpoken
    /\ spoken' = [spoken EXCEPT ![sendKey] = @ + 1]
    /\ queue' = IF gate THEN Enqueued([key |-> sendKey, n |-> spoken'[sendKey]])
                        ELSE queue
    /\ UNCHANGED <<sendKey, sendSeq, running, joining, gate, thread, left, started,
                   vouched, early, shared, reported, wire, receiverVars>>

(* confirm_sas: the prompt of a session that is over may still be shown,   *)
(* if it was not answered then.                                            *)
Confirm ==
    /\ ~joining /\ ~gate /\ (sendKey = None => started \ vouched # {})
    /\ gate' = TRUE
    /\ IF sendKey # None THEN vouched' = vouched \cup {sendKey} /\ UNCHANGED early
       ELSE early' = early \cup {None} /\ UNCHANGED vouched
    /\ UNCHANGED <<sendKey, sendSeq, running, joining, queue, thread, left, started,
                   shared, reported, wire, receiverVars, spoken>>

(* _teardown_connection up to the join: the sentinel is put unless the     *)
(* queue is full.                                                          *)
TeardownBegins ==
    /\ sendKey # None /\ ~joining
    /\ running' = FALSE /\ joining' = TRUE
    /\ queue' = IF Len(queue) < QueueSize THEN Append(queue, Stop) ELSE queue
    /\ UNCHANGED <<sendKey, sendSeq, gate, thread, left, started, vouched, early,
                   shared, reported, wire, receiverVars, spoken>>

(* The rest of it: the thread of this session has ended, or is blocked in  *)
(* sendall and the join has expired.  Any other is not waited for.         *)
TeardownEnds ==
    /\ joining /\ thread[sendKey].pc \in {"off", "sending"}
    /\ joining' = FALSE /\ sendKey' = None /\ sendSeq' = 0
    /\ gate' = ~RequireSas
    /\ UNCHANGED <<running, queue, thread, left, started, vouched, early, shared,
                   reported, wire, receiverVars, spoken>>

-----------------------------------------------------------------------------
(* _send_loop and _transmit_frame, the thread of session k.                *)

threadFrame == <<sendKey, running, joining, gate, left, started, vouched, early,
                 shared, receiverVars, spoken>>

Ends(k)     == thread' = [thread EXCEPT ![k] = Off]
Goes(k, pc) == thread' = [thread EXCEPT ![k] = At(pc, Silence, None)]
Holds(k, f) == thread' = [thread EXCEPT ![k] = At("frame", f, None)]

(* _handle_peer_disconnect. *)
Reports(k) == reported' = (reported \/ sendKey = k)

(* The loop condition, and the test after it. *)
SenderLoops(k) ==
    /\ thread[k].pc = "top"
    /\ IF running /\ sendKey # None THEN Goes(k, "wait") ELSE Ends(k)
    /\ UNCHANGED <<threadFrame, sendSeq, queue, reported, wire>>

(* get returns the sentinel. *)
SenderStops(k) ==
    /\ thread[k].pc = "wait" /\ queue # <<>> /\ Head(queue) = Stop
    /\ queue' = Tail(queue)
    /\ Ends(k)
    /\ UNCHANGED <<threadFrame, sendSeq, reported, wire>>

(* get returns a frame. *)
SenderTakes(k) ==
    /\ thread[k].pc = "wait" /\ queue # <<>> /\ Head(queue) # Stop
    /\ Holds(k, Head(queue)) /\ queue' = Tail(queue)
    /\ UNCHANGED <<threadFrame, sendSeq, reported, wire>>

(* get times out: silence covers the gap, or the loop just goes round.     *)
SenderIdles(k) ==
    /\ thread[k].pc = "wait" /\ queue = <<>>
    /\ IF ConstantRate THEN Holds(k, Silence) ELSE Goes(k, "top")
    /\ UNCHANGED <<threadFrame, sendSeq, queue, reported, wire>>

(* encode raises: logged, the loop goes on with the next frame. *)
EncodeRaises(k) ==
    /\ thread[k].pc = "frame"
    /\ Goes(k, "top")
    /\ UNCHANGED <<threadFrame, sendSeq, queue, reported, wire>>

(* _transmit_frame takes the key; without one it fails. *)
TakesKey(k) ==
    /\ thread[k].pc = "frame"
    /\ IF sendKey # None
       THEN /\ thread' = [thread EXCEPT ![k] = At("keyed", @.frame, sendKey)]
            /\ UNCHANGED reported
       ELSE Ends(k) /\ Reports(k)
    /\ UNCHANGED <<threadFrame, sendSeq, queue, wire>>

(* The counter becomes the nonce, and the packet goes to the socket of the *)
(* moment.  What is encrypted with a key that was wiped meanwhile is not   *)
(* followed: nobody has that key.                                          *)
Encrypts(k) ==
    /\ thread[k].pc = "keyed"
    /\ wire' = IF Wiped(thread[k].on) THEN wire
               ELSE wire \cup {[key |-> thread[k].on, seq |-> sendSeq,
                                frame |-> thread[k].frame]}
    /\ thread' = [thread EXCEPT ![k] = At("sending", @.frame, sendKey)]
    /\ UNCHANGED <<threadFrame, sendSeq, queue, reported>>

EncryptPastLimit(k) == Encrypts(k)

Encrypt(k) == sendSeq < MaxSequence /\ Encrypts(k)

(* When the counter is used up. *)
Exhausted(k) ==
    /\ thread[k].pc = "keyed" /\ sendSeq >= MaxSequence
    /\ Ends(k) /\ Reports(k)
    /\ UNCHANGED <<threadFrame, sendSeq, queue, wire>>

(* sendall returns; on a socket closed by the teardown it cannot. *)
SendReturns(k) ==
    /\ thread[k].pc = "sending" /\ Open(thread[k].on)
    /\ Goes(k, "sent")
    /\ UNCHANGED <<threadFrame, sendSeq, queue, reported, wire>>

(* sendall fails: the nonce is spent, the counter not advanced, and the    *)
(* loop must not go on with this key.                                      *)
SendFailsGoesOn(k) ==
    /\ thread[k].pc = "sending"
    /\ Goes(k, "top") /\ Reports(k)
    /\ UNCHANGED <<threadFrame, sendSeq, queue, wire>>

SendFails(k) ==
    /\ thread[k].pc = "sending"
    /\ Ends(k) /\ Reports(k)
    /\ UNCHANGED <<threadFrame, sendSeq, queue, wire>>

Advance(k) ==
    /\ thread[k].pc = "sent"
    /\ sendSeq' = sendSeq + 1
    /\ Goes(k, "top")
    /\ UNCHANGED <<threadFrame, queue, reported, wire>>

-----------------------------------------------------------------------------
(* The peer.                                                               *)

(* Its session with the same keys begins once its packets can be expected, *)
(* perhaps on top of another, and ends whenever it tears down.  A receive  *)
(* thread of an earlier one may be left and read beside the new one, since *)
(* nothing waits for it.                                                   *)
PeerStarts(k) ==
    /\ k \in started \ joined
    /\ recvKey' = k /\ lastRecv' = -1 /\ joined' = joined \cup {k}
    /\ \/ UNCHANGED shared
       \/ joined # {} /\ shared' = shared \cup ({recvKey, k} \ {None})
    /\ UNCHANGED <<senderVars, wire, recvGate, heard, spoken>>

PeerStops ==
    /\ recvKey # None
    /\ recvKey' = None /\ lastRecv' = -1 /\ recvGate' = ~RequireSas
    /\ UNCHANGED <<senderVars, wire, heard, joined, shared, spoken>>

PeerConfirms ==
    /\ recvKey # None /\ ~recvGate
    /\ recvGate' = TRUE
    /\ UNCHANGED <<senderVars, wire, recvKey, lastRecv, heard, joined, shared, spoken>>

(* _handle_audio_packet with a packet that passes: newer than the last     *)
(* one, authentic under _recv_key, decodable.  Any other is dropped and    *)
(* changes nothing.  What two threads make of a session is not followed.   *)
AcceptsRepeated(p) == p.seq >= lastRecv /\ p.key = recvKey

Accepts(p) == p.seq > lastRecv /\ p.key = recvKey

HandleAudioPacket(p) ==
    /\ recvKey # None /\ recvKey \notin shared /\ Accepts(p)
    /\ lastRecv' = p.seq
    /\ heard' = IF recvGate /\ p.frame # Silence
                THEN [heard EXCEPT ![p.frame.key] = Append(@, p.frame.n)]
                ELSE heard
    /\ UNCHANGED <<senderVars, wire, recvKey, recvGate, joined, shared, spoken>>

-----------------------------------------------------------------------------
SendThread(k) ==
    SenderLoops(k) \/ SenderStops(k) \/ SenderTakes(k) \/ SenderIdles(k)
    \/ EncodeRaises(k) \/ TakesKey(k) \/ Encrypt(k) \/ Exhausted(k)
    \/ SendReturns(k) \/ SendFails(k) \/ Advance(k)

Next ==
    \/ Speak \/ Confirm \/ TeardownBegins \/ TeardownEnds
    \/ \E k \in Keys : StartSession(k) \/ PeerStarts(k) \/ SendThread(k)
    \/ PeerStops \/ PeerConfirms
    \/ \E p \in wire : HandleAudioPacket(p)

Spec == Init /\ [][Next]_vars

-----------------------------------------------------------------------------
(* "nonce: 12-byte nonce (must be unique per key)": no two frames are      *)
(* encrypted under one key with one counter value.                         *)
NonceNeverReused ==
    \A p, q \in wire : p.key = q.key /\ p.seq = q.seq => p = q

(* That is so in every session that no other session's thread works on,    *)
(* although a failed sendall leaves the counter where it was, a teardown   *)
(* resets it, and a thread may hang in sendall far into the next session.  *)
NonceUnique ==
    \A p, q \in wire : p.key = q.key /\ p.seq = q.seq /\ p.key \notin shared => p = q

(* What is encrypted for such a session was captured during it: nothing    *)
(* queued for the previous one, perhaps with another peer, is left over.   *)
NoStaleAudio ==
    \A p \in wire : p.frame # Silence /\ p.key \notin shared => p.frame.key = p.key

(* "Hold the microphone until the SAS has been confirmed": what leaves is  *)
(* silence until the user has confirmed the words of this very session,    *)
(* unless it began over another one or after a confirmation too many.      *)
HeldUntilConfirmed ==
    RequireSas => \A p \in wire :
        p.frame # Silence /\ p.key \notin shared \cup early => p.key \in vouched

(* A send thread that stops while its session goes on has said so; the     *)
(* sentinel of an earlier teardown never ends it.                          *)
NoSilentStop ==
    sendKey # None /\ running /\ thread[sendKey].pc = "off" => reported

(* What makes these inductive.  In a session that is not shared only its   *)
(* own thread can come to encrypt; the others hang in sendall or are gone. *)
Alone == sendKey # None /\ sendKey \notin shared

SessionOK ==
    /\ sendKey = None => ~running /\ ~joining
    /\ joining => ~running
    /\ sendKey # None => sendKey \in started
    /\ gate /\ RequireSas =>
          IF sendKey = None THEN None \in early ELSE sendKey \in vouched \cup early
    /\ \A k \in Keys : /\ thread[k].pc # "off" => k \in started
                      /\ thread[k].on \in started \cup {None}
    /\ Alone => Strays \subseteq {sendKey}
    /\ \A k \in Keys : thread[k].pc \in {"keyed", "sending"} =>
           \/ thread[k].pc = "keyed" /\ thread[k].on \in shared
           \/ thread[k].pc = "sending" /\ (Alone => k # sendKey)
           \/ k = sendKey /\ thread[k].on = k

(* The counter is ahead of the wire, except between sendall and _send_seq  *)
(* += 1, and after a failure that ended the thread.                        *)
CounterOK ==
    /\ \A p \in wire :
          /\ p.key \in started
          /\ Alone /\ p.key = sendKey =>
                /\ p.seq <= sendSeq
                /\ p.seq = sendSeq =>
                      thread[sendKey].pc \in {"sending", "sent", "off"}
    /\ Alone /\ thread[sendKey].pc \in {"sending", "sent"}
         => sendSeq < MaxSequence

(* The frame f may leave under the key of the session under way. *)
Fresh(f) == f.key = sendKey /\ (RequireSas => sendKey \in vouched \cup early)

InHand ==
    thread[sendKey].pc \in {"frame", "keyed"} /\ thread[sendKey].frame # Silence

(* What waits to be encrypted belongs to this session. *)
FramesOK ==
    sendKey # None =>
      /\ \A i \in 1..Len(queue) : queue[i] # Stop => Fresh(queue[i])
      /\ running => \A i \in 1..Len(queue) : queue[i] # Stop
      /\ Alone /\ InHand => Fresh(thread[sendKey].frame)

Inv == /\ TypeOK /\ SessionOK /\ CounterOK /\ FramesOK
       /\ NonceUnique /\ NoStaleAudio /\ HeldUntilConfirmed /\ NoSilentStop

(* The frames of a session are numbered in the order wire, thread, queue,  *)
(* and none beyond what was spoken.                                        *)
OnWireBefore(n) ==
    \A p \in wire : p.key = sendKey /\ p.frame # Silence => p.frame.n < n

WireOrder ==
    \A p \in wire : p.frame # Silence /\ p.key \notin shared =>
        /\ p.frame.n <= spoken[p.key]
        /\ \A q \in wire : q.key = p.key /\ q.seq > p.seq /\ q.frame # Silence
                            => q.frame.n > p.frame.n

HandOrder ==
    Alone /\ InHand =>
        /\ thread[sendKey].frame.n <= spoken[sendKey]
        /\ OnWireBefore(thread[sendKey].frame.n)

QueueOrder ==
    Alone => \A i \in 1..Len(queue) : queue[i] # Stop =>
        /\ queue[i].n <= spoken[sendKey]
        /\ \A j \in 1..(i - 1) : queue[j] # Stop => queue[j].n < queue[i].n
        /\ InHand => thread[sendKey].frame.n < queue[i].n
        /\ OnWireBefore(queue[i].n)

OrderOK == WireOrder /\ HandOrder /\ QueueOrder

(* What was heard came over the wire, and the receiver has moved past it.  *)
HeardOK ==
    /\ recvKey # None => recvKey \in joined
    /\ \A k \in Keys :
          /\ k \notin joined => heard[k] = <<>>
          /\ k \notin shared => \A i \in 1..Len(heard[k]) : \E p \in wire :
                /\ p.key = k /\ p.frame # Silence /\ p.frame.n = heard[k][i]
                /\ k = recvKey => p.seq <= lastRecv

(* Anti-replay: in order, at most once, never from another session, unless *)
(* the session was shared.                                                 *)
Stream == INSTANCE AudioStream WITH
    Keys <- Keys, spoken <- spoken, heard <- heard, shared <- shared
AudioStreamSpec == Stream!Spec
=============================================================================
