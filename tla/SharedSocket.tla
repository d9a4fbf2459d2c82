----------------------------- MODULE SharedSocket -----------------------------
(***************************************************************************)
(* The socket of a call: a byte stream in each direction, the threads that *)
(* write packets to it under _socket_lock (CallManager._send_packet), and  *)
(* the one that reads them back piece by piece (read_packet_sync).  Time   *)
(* is abstract: a socket operation may time out whenever it cannot go on.  *)
(*                                                                         *)
(* A packet travels in two pieces.  What each thread does between packets  *)
(* is in CallLink; here a thread is idle with respect to the socket, reads *)
(* it, or is writing the packet its program counter names.                 *)
(***************************************************************************)
EXTENDS Handshake

CONSTANT Capacity   \* pieces the buffers between the two ends hold

ASSUME CapacityAssumption == Capacity \in Nat \ {0}

Sides   == {"caller", "callee"}
Peer(s) == CHOOSE p \in Sides : p # s

Threads == {"setup", "gui", "send", "recv"}
Packets == {"request", "accept", "reject", "audio", "ping", "pong", "end", "ack"}

VARIABLES
    open,     \* the end has its socket
    cut,      \* the circuit in between is gone
    pipe,     \* pieces written by each end and not read
    part,     \* read_packet_sync has read the first piece of this packet
    garbled,  \* history: something was read that this end never sent
    torn,     \* history: an end gave up a packet halfway
    lock,     \* _socket_lock: the thread that holds it
    pc,       \* what each thread does
    left      \* pieces of its packet a thread has yet to write

sockVars == <<open, cut, pipe, part, garbled, torn, lock, pc, left>>

Piece(p, n) == [packet |-> p, piece |-> n]
Pieces      == [packet : Packets, piece : 1..2]

SocketInit ==
    /\ open = [s \in Sides |-> FALSE] /\ cut = FALSE
    /\ pipe = [s \in Sides |-> <<>>] /\ part = [s \in Sides |-> None]
    /\ garbled = [s \in Sides |-> FALSE] /\ torn = [s \in Sides |-> FALSE]
    /\ lock = [s \in Sides |-> None]
    /\ left = [s \in Sides |-> [t \in Threads |-> 0]]

-----------------------------------------------------------------------------
(* Bound: after a packet was given up halfway nobody begins a new one, but *)
(* those that wait for the lock, and the answers to what is read, are      *)
(* still sent; and the circuit holds.                                      *)
Untorn == \A s \in Sides : ~torn[s]

(* Thread t of end s goes on at pc at; Writes makes it write packet p.     *)
Goes(s, t, at) ==
    pc' = [pc EXCEPT ![s][t] = at] /\ UNCHANGED left

Writes(s, t, p) ==
    pc' = [pc EXCEPT ![s][t] = p] /\ left' = [left EXCEPT ![s][t] = 2]

(* The lock is taken before, and let go after, all the pieces of a packet. *)
MayEnterAnyTime(s, t) == lock[s] # t

MayEnter(s, t) == lock[s] = None

Acquire(s, t) ==
    /\ left[s][t] > 0 /\ MayEnter(s, t)
    /\ lock' = [lock EXCEPT ![s] = t]
    /\ UNCHANGED <<open, cut, pipe, part, garbled, torn, pc, left>>

(* Where a thread goes on after it wrote a packet, and after it failed to. *)
After == [request |-> "await", reject |-> "close", accept |-> "accepted",
          audio |-> "running", ping |-> "running", end |-> "close",
          pong |-> "read", ack |-> "read"]

IfFailed == [request |-> "gave up", reject |-> "close", accept |-> "close",
             audio |-> "done", ping |-> "running", end |-> "close",
             pong |-> "read", ack |-> "read"]

(* The writer is through with its packet, and lets go of the lock. *)
FinishesHolding(s, t, next) ==
    /\ pc' = [pc EXCEPT ![s][t] = next[@]]
    /\ left' = [left EXCEPT ![s][t] = 0]
    /\ UNCHANGED lock

Finishes(s, t, next) ==
    /\ pc' = [pc EXCEPT ![s][t] = next[@]]
    /\ left' = [left EXCEPT ![s][t] = 0]
    /\ lock' = [lock EXCEPT ![s] = None]

(* sendall passes on the next piece. *)
Connected == ~cut /\ \A s \in Sides : open[s]
Full(s)   == Len(pipe[s]) = Capacity

WritePiece(s, t) ==
    /\ lock[s] = t /\ left[s][t] > 0 /\ Connected
    /\ ~Full(s)
    /\ pipe' = [pipe EXCEPT ![s] = Append(@, Piece(pc[s][t], 3 - left[s][t]))]
    /\ IF left[s][t] = 1
       THEN Finishes(s, t, After)
       ELSE left' = [left EXCEPT ![s][t] = 1] /\ UNCHANGED <<pc, lock>>
    /\ UNCHANGED <<open, cut, part, garbled, torn>>

(* What is written to a socket nobody reads any more vanishes. *)
WriteVanishes(s, t) ==
    /\ lock[s] = t /\ left[s][t] > 0 /\ open[s] /\ ~Connected
    /\ Finishes(s, t, After)
    /\ UNCHANGED <<open, cut, pipe, part, garbled, torn>>

(* sendall raises OSError: the socket or the circuit is gone, or nobody at *)
(* the other end empties the full buffers until the socket's timeout: its  *)
(* receive thread is gone, or will never begin, or is itself waiting to    *)
(* write against buffers that this end does not empty.                     *)
Stranded(s) == "stranded" \in {pc[s]["setup"], pc[s]["gui"]}

Reads(s) == pc[s]["recv"] \in {"off", "read"} /\ ~Stranded(s)

Stuck(s) ==
    /\ Full(s) /\ ~Reads(Peer(s))
    /\ \/ pc[Peer(s)]["recv"] = "done" \/ Stranded(Peer(s))
       \/ Full(Peer(s)) /\ ~Reads(s)

BlockedForGood(s) == ~Connected

Blocked(s) == ~Connected \/ Stuck(s)

WriteFails(s, t) ==
    /\ lock[s] = t /\ left[s][t] > 0 /\ Blocked(s)
    /\ torn' = [torn EXCEPT ![s] = @ \/ (Connected /\ left[s][t] = 1)]
    /\ Finishes(s, t, IfFailed)
    /\ UNCHANGED <<open, cut, pipe, part, garbled>>

-----------------------------------------------------------------------------
(* One recv of the reader at end s.  The second piece completes a packet;  *)
(* a piece out of place is read as something that was never sent.          *)
Arrives(s) == open[s] /\ pipe[Peer(s)] # <<>>
Front(s)   == Head(pipe[Peer(s)])
Completes(s) == part[s] # None /\ Front(s) = Piece(part[s], 2)
Misplaced(s) == ~Completes(s) /\ ~(part[s] = None /\ Front(s).piece = 1)

Takes(s) ==
    /\ pipe' = [pipe EXCEPT ![Peer(s)] = Tail(@)]
    /\ UNCHANGED <<open, cut, torn, lock>>

ReadFirst(s) ==
    /\ Arrives(s) /\ part[s] = None /\ Front(s).piece = 1
    /\ part' = [part EXCEPT ![s] = Front(s).packet]
    /\ Takes(s) /\ UNCHANGED <<garbled, pc, left>>

ReadPacket(s, p) ==
    /\ Arrives(s) /\ Completes(s) /\ p = part[s]
    /\ part' = [part EXCEPT ![s] = None]
    /\ Takes(s) /\ UNCHANGED garbled

ReadGarbage(s) ==
    /\ Arrives(s) /\ Misplaced(s)
    /\ part' = [part EXCEPT ![s] = None]
    /\ garbled' = [garbled EXCEPT ![Peer(s)] = TRUE]
    /\ Takes(s)

(* recv returns nothing or raises: the stream is at its end, the socket is *)
(* gone, or the other end has nobody who sends until the timeout.          *)
SilentForGood(s) == ~open[s] \/ cut \/ (pipe[Peer(s)] = <<>> /\ ~open[Peer(s)])

Silent(s) ==
    \/ ~open[s] \/ cut
    \/ /\ pipe[Peer(s)] = <<>>
       /\ ~open[Peer(s)] \/ pc[Peer(s)]["send"] \notin {"running", "audio"}

(* close: the peer may still read what was written, or may not.            *)
Closes(s) ==
    /\ open' = [open EXCEPT ![s] = FALSE]
    /\ \E kept \in {pipe[s], <<>>} :
          pipe' = [e \in Sides |-> IF e = s THEN kept ELSE <<>>]
    /\ part' = [part EXCEPT ![s] = None]
    /\ UNCHANGED <<cut, garbled, torn, lock>>

CircuitBreaks ==
    /\ Connected /\ Untorn
    /\ cut' = TRUE /\ pipe' = [s \in Sides |-> <<>>]
    /\ part' = [s \in Sides |-> None]
    /\ UNCHANGED <<open, garbled, torn, lock, pc, left>>

-----------------------------------------------------------------------------
(* The packets whose last piece is among the pieces q, in order. *)
Whole(q) ==
    LET upTo[n \in 0..Len(q)] ==
          IF n = 0 THEN <<>>
          ELSE IF q[n].piece = 2 THEN Append(upTo[n - 1], q[n].packet)
          ELSE upTo[n - 1]
    IN upTo[Len(q)]

(* The connection is a PacketChannel: the packets in a direction are those *)
(* whose last piece is still to be read.                                   *)
Channel == INSTANCE PacketChannel WITH
    Ends <- Sides, chan <- [s \in Sides |-> Whole(pipe[s])], broken <- torn

(* _send_packet, "without a lock their byte streams could interleave and   *)
(* corrupt the framing": whichever of three threads writes, the packets    *)
(* read are those written, whole and in order, until a write is given up   *)
(* halfway.                                                                *)
ChannelSpec == Channel!Spec
=============================================================================
