---------------------------- MODULE CallLinkProofs ----------------------------
(***************************************************************************)
(* CallLink for buffers of any size, any two ephemeral keys and any user   *)
(* who hangs up: the frames of the shared socket stay whole, the socket    *)
(* implements a channel of whole packets, the two ends of a call agree on  *)
(* their keys and words, and nobody waits for a lock in a circle.          *)
(***************************************************************************)
EXTENDS CallLink, SequenceTheorems, WellFoundedInduction, TLAPS

(* A thread has pieces to write exactly while its program counter names a  *)
(* packet; one that has written half a packet holds the lock.              *)
WriterInv ==
    \A s \in Sides, t \in Threads :
        /\ left[s][t] > 0 <=> pc[s][t] \in Packets
        /\ left[s][t] = 1 => lock[s] = t

Early == {"idle", "dialing", "ringing"}

(* How far the threads may be at each stage of the call. *)
PhaseInv ==
    /\ \A s \in Sides : call[s] \in Early => pc[s]["send"] = "off" /\ pc[s]["recv"] = "off"
    /\ pc["caller"]["gui"] # "running" => call["caller"] = "in_call"
    /\ pc["caller"]["setup"] # "done" => call["caller"] = "dialing"
    /\ pc["callee"]["gui"] \in {"accept", "accepted"} => call["callee"] = "ringing"
    /\ pc["callee"]["setup"] # "done" =>
          pc["callee"]["gui"] = "running" /\ call["callee"] = "idle"

(* Before the connection there is nothing. *)
FreshInv ==
    pc["caller"]["setup"] = "connect" =>
        /\ pc["callee"]["setup"] = "off"
        /\ \A s \in Sides : /\ ~open[s] /\ pipe[s] = <<>> /\ part[s] = None
                            /\ pc[s]["gui"] = "running"
                            /\ \A t \in Threads : left[s][t] = 0

(* The keys in use are those of the handshakes. *)
KeyInv ==
    \A s \in Sides : /\ peerKey[s] \in {None, Ephemeral[Peer(s)]}
                     /\ call[s] = "in_call" => peerKey[s] # None

(* The callee has agreed to the call, and the caller has heard or may yet  *)
(* hear of it only then.                                                   *)
Accepted == peerKey["callee"] # None \/ pc["callee"]["gui"] \in {"accepted", "stranded"}

(* Thread t of end s goes on at at, and does not undo that. *)
Stands(s, t, at) ==
    /\ pc[s][t] # "stranded"
    /\ s = "callee" /\ t = "gui" => pc[s][t] # "accepted" \/ at = "stranded"

ConsentInv ==
    /\ \A i \in 1..Len(pipe["callee"]) :
          pipe["callee"][i] = Piece("accept", 2) => Accepted
    /\ pc["caller"]["setup"] = "connected" \/ call["caller"] = "in_call" => Accepted

(* The pieces of a direction, the one the reader has in hand included, are *)
(* first and second pieces of the same packet in turn; and while the       *)
(* connection is up, they end in a first piece exactly if its writer is    *)
(* halfway.                                                                *)
Half(e) == \E t \in Threads : left[e][t] = 1

InTurn(e) ==
    /\ pipe[e] # <<>> =>
          IF part[Peer(e)] = None THEN pipe[e][1].piece = 1
          ELSE pipe[e][1] = Piece(part[Peer(e)], 2)
    /\ \A i \in 1..(Len(pipe[e]) - 1) :
          IF pipe[e][i].piece = 1
          THEN pipe[e][i + 1] = Piece(pipe[e][i].packet, 2)
          ELSE pipe[e][i + 1].piece = 1

EndsAsWritten(e) ==
    IF pipe[e] = <<>>
    THEN /\ part[Peer(e)] # None <=> Half(e)
         /\ Half(e) => part[Peer(e)] = pc[e][lock[e]]
    ELSE /\ pipe[e][Len(pipe[e])].piece = 1 <=> Half(e)
         /\ Half(e) => pipe[e][Len(pipe[e])].packet = pc[e][lock[e]]

FramesInv ==
    \A e \in Sides :
        /\ torn[e] \/ (InTurn(e) /\ (Connected => EndsAsWritten(e)))
        /\ garbled[e] => torn[e]

-----------------------------------------------------------------------------
LEMMA PeerFacts ==
    /\ Peer("caller") = "callee" /\ Peer("callee") = "caller"
    /\ \A s \in Sides : Peer(s) \in Sides /\ Peer(s) # s /\ Peer(Peer(s)) = s
    /\ \A s \in Sides, e \in Sides : e # s => e = Peer(s)
  <1>1. \A s \in Sides : \E p \in Sides : p # s
    BY DEF Sides
  <1>2. \A s \in Sides : Peer(s) \in Sides /\ Peer(s) # s
    BY <1>1 DEF Peer
  <1>3. QED
    BY <1>2 DEF Sides

LEMMA PieceFacts ==
    /\ \A p, n : Piece(p, n).packet = p /\ Piece(p, n).piece = n
    /\ \A p \in Packets, n \in 1..2 : Piece(p, n) \in Pieces
    /\ \A u \in Pieces : /\ u.packet \in Packets /\ u.piece \in {1, 2}
                         /\ u = Piece(u.packet, u.piece)
  BY DEF Piece, Pieces

PcValue == UNION {Pcs(t) : t \in Threads}

LEMMA PcsFacts ==
    /\ \A t \in Threads : Pcs(t) \subseteq PcValue
    /\ \A t \in Threads : t \in {"setup", "gui", "send", "recv"}
    /\ "setup" \in Threads /\ "gui" \in Threads
    /\ "send" \in Threads /\ "recv" \in Threads
  BY DEF PcValue, Threads

LEMMA NoneFacts ==
    /\ None \notin Threads /\ None \notin Packets
    /\ \A s \in Sides : Ephemeral[s] \in Nat /\ Ephemeral[s] # None
  BY NoneAssumption, EphemeralAssumption DEF NoneAssumption, EphemeralAssumption

(* A table of tables, with one or two entries changed. *)
LEMMA Except ==
    ASSUME NEW X, NEW f \in [Sides -> [Threads -> X]],
           NEW s \in Sides, NEW t \in Threads, NEW x \in X
    PROVE  /\ [f EXCEPT ![s][t] = x] \in [Sides -> [Threads -> X]]
           /\ \A e \in Sides, u \in Threads :
                 [f EXCEPT ![s][t] = x][e][u] = IF e = s /\ u = t THEN x ELSE f[e][u]
  OBVIOUS

(* The tables of the sides. *)
LEMMA ExceptSide ==
    ASSUME NEW X, NEW f \in [Sides -> X], NEW s \in Sides, NEW x \in X
    PROVE  /\ [f EXCEPT ![s] = x] \in [Sides -> X]
           /\ \A e \in Sides : [f EXCEPT ![s] = x][e] = IF e = s THEN x ELSE f[e]
  OBVIOUS

-----------------------------------------------------------------------------
(* Who is writing: program counters, pieces left, and locks. *)
WriterType ==
    /\ lock \in [Sides -> Threads \cup {None}]
    /\ \A s \in Sides : lock[s] # None => left[s][lock[s]] > 0
    /\ pc \in [Sides -> [Threads -> PcValue]]
    /\ \A s \in Sides, t \in Threads : pc[s][t] \in Pcs(t)
    /\ left \in [Sides -> [Threads -> 0..2]]

Changed(s, t, at, n) ==
    /\ pc' \in [Sides -> [Threads -> PcValue]]
    /\ left' \in [Sides -> [Threads -> 0..2]]
    /\ \A e \in Sides, u \in Threads :
          /\ pc'[e][u] = IF e = s /\ u = t THEN at ELSE pc[e][u]
          /\ left'[e][u] = IF e = s /\ u = t THEN n ELSE left[e][u]

(* A thread between two packets goes on, or begins to write one. *)
Turn(s, t, at) ==
    /\ pc[s][t] \notin Packets
    /\ UNCHANGED lock
    /\ IF at \in Packets THEN Changed(s, t, at, 2) ELSE Changed(s, t, at, 0)

(* What that leaves alone: the writer that is halfway. *)
HalfKept ==
    \A e \in Sides :
        /\ Half(e)' <=> Half(e)
        /\ Half(e) => lock'[e] = lock[e] /\ pc'[e][lock'[e]] = pc[e][lock[e]]

LEMMA GoesTurns ==
    ASSUME WriterType, WriterInv, NEW s \in Sides, NEW t \in Threads,
           NEW at \in Pcs(t), pc[s][t] \notin Packets, at \notin Packets,
           Goes(s, t, at), UNCHANGED lock
    PROVE  Turn(s, t, at)
  <1>1. left[s][t] = 0
    BY DEF WriterType, WriterInv
  <1>2. at \in PcValue
    BY PcsFacts
  <1>3. pc' = [pc EXCEPT ![s][t] = at] /\ left' = left
    BY DEF Goes
  <1>4. /\ pc' \in [Sides -> [Threads -> PcValue]]
        /\ \A e \in Sides, u \in Threads :
              pc'[e][u] = IF e = s /\ u = t THEN at ELSE pc[e][u]
    BY <1>2, <1>3, Except DEF WriterType
  <1>5. Changed(s, t, at, 0)
    BY <1>1, <1>3, <1>4 DEF Changed, WriterType
  <1>6. QED
    BY <1>5 DEF Turn

LEMMA WritesTurns ==
    ASSUME WriterType, NEW s \in Sides, NEW t \in Threads,
           NEW p \in Pcs(t), pc[s][t] \notin Packets, p \in Packets,
           Writes(s, t, p), UNCHANGED lock
    PROVE  Turn(s, t, p)
  <1>1. p \in PcValue
    BY PcsFacts
  <1>2. pc' = [pc EXCEPT ![s][t] = p] /\ left' = [left EXCEPT ![s][t] = 2]
    BY DEF Writes
  <1>3. /\ pc' \in [Sides -> [Threads -> PcValue]]
        /\ \A e \in Sides, u \in Threads :
              pc'[e][u] = IF e = s /\ u = t THEN p ELSE pc[e][u]
    BY <1>1, <1>2, Except DEF WriterType
  <1>4. /\ left' \in [Sides -> [Threads -> 0..2]]
        /\ \A e \in Sides, u \in Threads :
              left'[e][u] = IF e = s /\ u = t THEN 2 ELSE left[e][u]
    BY <1>2, Except DEF WriterType
  <1>5. QED
    BY <1>3, <1>4 DEF Turn, Changed

LEMMA TurnKeeps ==
    ASSUME WriterType, WriterInv, NEW s \in Sides, NEW t \in Threads,
           NEW at \in Pcs(t), Turn(s, t, at)
    PROVE  WriterType' /\ WriterInv' /\ HalfKept
  <1> DEFINE n == IF at \in Packets THEN 2 ELSE 0
  <1>1. Changed(s, t, at, n)
    BY DEF Turn
  <1>2. left[s][t] = 0
    BY DEF Turn, WriterType, WriterInv
  <1>3. \A e \in Sides : lock[e] # None => ~(e = s /\ lock[e] = t)
    BY <1>2 DEF WriterType
  <1>4. WriterType'
    <2>1. \A e \in Sides : lock'[e] # None => left'[e][lock'[e]] > 0
      BY <1>1, <1>3 DEF Changed, Turn, WriterType
    <2>2. \A e \in Sides, u \in Threads : pc'[e][u] \in Pcs(u)
      BY <1>1 DEF Changed, WriterType
    <2>3. QED
      BY <1>1, <2>1, <2>2 DEF Changed, Turn, WriterType
  <1>5. WriterInv'
    BY <1>1, <1>2 DEF Changed, Turn, WriterInv, n
  <1>6. HalfKept
    <2>1. \A e \in Sides, u \in Threads : left'[e][u] = 1 <=> left[e][u] = 1
      BY <1>1, <1>2 DEF Changed, n
    <2>2. \A e \in Sides, u \in Threads : left[e][u] = 1 =>
              /\ lock[e] = u /\ lock'[e] = u
              /\ pc'[e][u] = pc[e][u]
      BY <1>1, <1>2 DEF Changed, WriterInv, Turn
    <2>3. QED
      BY <2>1, <2>2 DEF HalfKept, Half
  <1>7. QED
    BY <1>4, <1>5, <1>6

LEMMA RestKeeps ==
    ASSUME WriterType, WriterInv, UNCHANGED <<pc, left, lock>>
    PROVE  WriterType' /\ WriterInv' /\ HalfKept
  BY DEF WriterType, WriterInv, HalfKept, Half

(* Where a thread may be after it wrote a packet, or failed to. *)
LEMMA TableFacts ==
    /\ \A t \in Threads, p \in Packets : p \in Pcs(t) =>
          /\ After[p] \in Pcs(t) /\ After[p] \notin Packets
          /\ IfFailed[p] \in Pcs(t) /\ IfFailed[p] \notin Packets
    /\ \A p \in Packets :
          /\ After[p] \notin {"off", "done", "connect", "connected", "posted", "accept"}
          /\ IfFailed[p] \notin {"off", "connect", "connected", "posted", "accept", "accepted"}
          /\ p # "accept" => After[p] # "accepted"
          /\ p # "audio" => IfFailed[p] # "done"
    /\ After["accept"] = "accepted"
    /\ \A t \in Threads : "accept" \in Pcs(t) => t = "gui"
    /\ "audio" \notin Pcs("setup")
  <1>0. /\ After["request"] = "await" /\ After["reject"] = "close"
        /\ After["accept"] = "accepted" /\ After["audio"] = "running"
        /\ After["ping"] = "running" /\ After["end"] = "close"
        /\ After["pong"] = "read" /\ After["ack"] = "read"
        /\ IfFailed["request"] = "gave up" /\ IfFailed["reject"] = "close"
        /\ IfFailed["accept"] = "close" /\ IfFailed["audio"] = "done"
        /\ IfFailed["ping"] = "running" /\ IfFailed["end"] = "close"
        /\ IfFailed["pong"] = "read" /\ IfFailed["ack"] = "read"
    BY DEF After, IfFailed
  <1>1. \A p \in Packets :
          /\ After[p] \notin Packets /\ IfFailed[p] \notin Packets
          /\ After[p] \notin {"off", "done", "connect", "connected", "posted", "accept"}
          /\ IfFailed[p] \notin {"off", "connect", "connected", "posted", "accept", "accepted"}
          /\ p # "accept" => After[p] # "accepted"
          /\ p # "audio" => IfFailed[p] # "done"
    BY <1>0 DEF Packets
  <1>2. After["accept"] = "accepted"
    BY DEF After
  <1>3. \A t \in Threads, p \in Packets : p \in Pcs(t) =>
          After[p] \in Pcs(t) /\ IfFailed[p] \in Pcs(t)
    <2>1. \A p \in Packets : p \in Pcs("setup") => p \in {"request", "reject"}
      BY DEF Pcs, Packets
    <2>2. \A p \in Packets : p \in Pcs("gui") => p \in {"accept", "reject", "ping", "end"}
      BY DEF Pcs, Packets
    <2>3. \A p \in Packets : p \in Pcs("send") => p = "audio"
      BY DEF Pcs, Packets
    <2>4. \A p \in Packets : p \in Pcs("recv") => p \in {"pong", "ack"}
      BY DEF Pcs, Packets
    <2>5. {"await", "close", "gave up"} \subseteq Pcs("setup")
      BY DEF Pcs
    <2>6. {"accepted", "close", "running"} \subseteq Pcs("gui")
      BY DEF Pcs
    <2>7. {"running", "done"} \subseteq Pcs("send") /\ "read" \in Pcs("recv")
      BY DEF Pcs
    <2>8. QED
      BY <1>0, <2>1, <2>2, <2>3, <2>4, <2>5, <2>6, <2>7, PcsFacts
  <1>4. \A t \in Threads : "accept" \in Pcs(t) => t = "gui"
    BY PcsFacts DEF Pcs
  <1>5. "audio" \notin Pcs("setup")
    BY DEF Pcs
  <1>6. QED
    BY <1>1, <1>2, <1>3, <1>4, <1>5

(* The writer is through, and lets go of the lock. *)
Ended(s, t, at) ==
    /\ pc[s][t] \in Packets /\ at \notin Packets
    /\ lock[s] = t
    /\ Changed(s, t, at, 0)
    /\ lock' = [lock EXCEPT ![s] = None]

LEMMA FinishesEnds ==
    ASSUME WriterType, WriterInv, NEW s \in Sides, NEW t \in Threads, NEW next,
           next \in {After, IfFailed}, lock[s] = t, left[s][t] > 0,
           Finishes(s, t, next)
    PROVE  next[pc[s][t]] \in Pcs(t) /\ Ended(s, t, next[pc[s][t]])
  <1> DEFINE at == next[pc[s][t]]
  <1>1. pc[s][t] \in Packets /\ pc[s][t] \in Pcs(t)
    BY DEF WriterType, WriterInv
  <1>2. at \in Pcs(t) /\ at \notin Packets
    BY <1>1, TableFacts
  <1>3. at \in PcValue
    BY <1>2, PcsFacts
  <1>4. /\ pc' = [pc EXCEPT ![s][t] = at] /\ left' = [left EXCEPT ![s][t] = 0]
        /\ lock' = [lock EXCEPT ![s] = None]
    BY DEF Finishes
  <1> HIDE DEF at
  <1>5. /\ pc' \in [Sides -> [Threads -> PcValue]]
        /\ \A e \in Sides, u \in Threads :
              pc'[e][u] = IF e = s /\ u = t THEN at ELSE pc[e][u]
    BY <1>3, <1>4, Except DEF WriterType
  <1>6. /\ left' \in [Sides -> [Threads -> 0..2]]
        /\ \A e \in Sides, u \in Threads :
              left'[e][u] = IF e = s /\ u = t THEN 0 ELSE left[e][u]
    BY <1>4, Except DEF WriterType
  <1>7. Ended(s, t, at)
    BY <1>1, <1>2, <1>4, <1>5, <1>6 DEF Ended, Changed
  <1>8. QED
    BY <1>2, <1>7 DEF at

LEMMA EndedKeeps ==
    ASSUME WriterType, WriterInv, NEW s \in Sides, NEW t \in Threads,
           NEW at \in Pcs(t), Ended(s, t, at)
    PROVE  /\ WriterType' /\ WriterInv'
           /\ ~Half(s)'
           /\ Half(Peer(s))' <=> Half(Peer(s))
           /\ Half(Peer(s)) => /\ lock'[Peer(s)] = lock[Peer(s)]
                               /\ pc'[Peer(s)][lock'[Peer(s)]] = pc[Peer(s)][lock[Peer(s)]]
  <1>1. Changed(s, t, at, 0)
    BY DEF Ended
  <1>2. /\ lock' \in [Sides -> Threads \cup {None}]
        /\ \A e \in Sides : lock'[e] = IF e = s THEN None ELSE lock[e]
    BY ExceptSide DEF Ended, WriterType
  <1>3. WriterType'
    <2>1. \A e \in Sides : lock'[e] # None => left'[e][lock'[e]] > 0
      BY <1>1, <1>2 DEF Changed, WriterType
    <2>2. \A e \in Sides, u \in Threads : pc'[e][u] \in Pcs(u)
      BY <1>1 DEF Changed, WriterType
    <2>3. QED
      BY <1>1, <1>2, <2>1, <2>2 DEF Changed, WriterType
  <1>4. \A u \in Threads : left'[s][u] # 1
    BY <1>1, NoneFacts DEF Changed, WriterInv, Ended
  <1>5. WriterInv'
    <2>1. \A e \in Sides, u \in Threads : left'[e][u] > 0 <=> pc'[e][u] \in Packets
      BY <1>1 DEF Changed, WriterInv, Ended
    <2>2. \A e \in Sides, u \in Threads : left'[e][u] = 1 => lock'[e] = u
      <3>1. SUFFICES ASSUME NEW e \in Sides, NEW u \in Threads, left'[e][u] = 1
                     PROVE  lock'[e] = u
        OBVIOUS
      <3>2. e # s
        BY <1>4, <3>1
      <3>3. lock'[e] = lock[e] /\ left'[e][u] = left[e][u]
        BY <1>1, <1>2, <3>2 DEF Changed
      <3>4. QED
        BY <3>1, <3>3 DEF WriterInv
    <2>3. QED
      BY <2>1, <2>2 DEF WriterInv
  <1>6. \A u \in Threads : /\ left'[Peer(s)][u] = left[Peer(s)][u]
                           /\ pc'[Peer(s)][u] = pc[Peer(s)][u]
    BY <1>1, PeerFacts DEF Changed
  <1>7. lock'[Peer(s)] = lock[Peer(s)]
    BY <1>2, PeerFacts
  <1>8. Half(Peer(s)) => lock[Peer(s)] \in Threads
    BY PeerFacts DEF Half, WriterInv
  <1>9. QED
    BY <1>3, <1>4, <1>5, <1>6, <1>7, <1>8, PeerFacts DEF Half

LEMMA AcquireKeeps ==
    ASSUME WriterType, WriterInv, NEW s \in Sides, NEW t \in Threads, Acquire(s, t)
    PROVE  WriterType' /\ WriterInv' /\ HalfKept
  <1>1. /\ left[s][t] > 0 /\ lock[s] = None
        /\ lock' = [lock EXCEPT ![s] = t] /\ UNCHANGED <<pc, left>>
    BY DEF Acquire, MayEnter
  <1>2. /\ lock' \in [Sides -> Threads \cup {None}]
        /\ \A e \in Sides : lock'[e] = IF e = s THEN t ELSE lock[e]
    BY <1>1, ExceptSide DEF WriterType
  <1>3. WriterType'
    <2>1. \A e \in Sides : lock'[e] # None => left'[e][lock'[e]] > 0
      BY <1>1, <1>2 DEF WriterType
    <2>2. QED
      BY <1>1, <1>2, <2>1 DEF WriterType
  <1>4. \A u \in Threads : left[s][u] # 1
    BY <1>1, NoneFacts DEF WriterInv
  <1>5. WriterInv' /\ HalfKept
    BY <1>1, <1>2, <1>4 DEF WriterInv, HalfKept, Half
  <1>6. QED
    BY <1>3, <1>5

(* The session of end s begins, or is over.                                *)
LEMMA BeginsKeeps ==
    ASSUME WriterType, WriterInv, NEW s \in Sides, NEW t \in {"setup", "gui"},
           SessionBegins(s, t), pc[s][t] \notin Packets,
           pc[s]["send"] = "off", pc[s]["recv"] = "off"
    PROVE  /\ WriterType' /\ WriterInv' /\ HalfKept
           /\ \A u \in Threads : pc'[Peer(s)][u] = pc[Peer(s)][u]
           /\ pc'[s]["send"] = "running" /\ pc'[s]["recv"] = "read"
           /\ pc'[s][t] = IF t = "gui" THEN "running" ELSE "done"
           /\ \A u \in {"setup", "gui"} : u # t => pc'[s][u] = pc[s][u]
  <1> DEFINE at == IF t = "gui" THEN "running" ELSE "done"
  <1>1. /\ pc' = [pc EXCEPT ![s][t] = at, ![s]["send"] = "running", ![s]["recv"] = "read"]
        /\ UNCHANGED <<left, lock>>
    BY DEF SessionBegins
  <1>2. /\ at \in Pcs(t) /\ "running" \in Pcs("send") /\ "read" \in Pcs("recv")
        /\ {at, "running", "read", "off"} \cap Packets = {}
        /\ t \in Threads /\ t # "send" /\ t # "recv"
    BY DEF Pcs, Packets, Threads
  <1> HIDE DEF at
  <1>3. at \in PcValue /\ "running" \in PcValue /\ "read" \in PcValue
    BY <1>2, PcsFacts
  <1>4. /\ pc' \in [Sides -> [Threads -> PcValue]]
        /\ \A e \in Sides, u \in Threads :
              pc'[e][u] = IF e # s THEN pc[e][u]
                          ELSE IF u = t THEN at
                          ELSE IF u = "send" THEN "running"
                          ELSE IF u = "recv" THEN "read" ELSE pc[e][u]
    BY <1>1, <1>2, <1>3, PcsFacts DEF WriterType
  <1>5. \A e \in Sides, u \in Threads : left[e][u] > 0 => pc'[e][u] = pc[e][u]
    BY <1>2, <1>4 DEF WriterInv
  <1>6. WriterType'
    <2>1. \A e \in Sides, u \in Threads : pc'[e][u] \in Pcs(u)
      BY <1>2, <1>4 DEF WriterType
    <2>2. QED
      BY <1>1, <1>4, <2>1 DEF WriterType
  <1>7. WriterInv'
    BY <1>1, <1>2, <1>4 DEF WriterInv
  <1>8. HalfKept
    <2>1. \A e \in Sides, u \in Threads :
              left[e][u] = 1 => lock[e] = u /\ pc'[e][u] = pc[e][u]
      BY <1>5 DEF WriterInv
    <2>2. \A e \in Sides : Half(e) =>
              lock'[e] = lock[e] /\ pc'[e][lock'[e]] = pc[e][lock[e]]
      <3>1. SUFFICES ASSUME NEW e \in Sides, NEW u \in Threads, left[e][u] = 1
                     PROVE  lock'[e] = lock[e] /\ pc'[e][lock'[e]] = pc[e][lock[e]]
        BY DEF Half
      <3>2. lock' = lock
        BY <1>1
      <3>3. lock[e] = u /\ pc'[e][u] = pc[e][u]
        BY <2>1, <3>1
      <3>4. QED
        BY <3>2, <3>3
    <2>3. \A e \in Sides : Half(e)' <=> Half(e)
      BY <1>1 DEF Half
    <2>4. QED
      BY <2>2, <2>3 DEF HalfKept
  <1>9. QED
    BY <1>2, <1>4, <1>6, <1>7, <1>8, PeerFacts, PcsFacts DEF at

LEMMA OverKeeps ==
    ASSUME WriterType, WriterInv, NEW s \in Sides, NEW t \in {"setup", "gui"},
           NEW at \in Pcs(t), at \notin Packets,
           Over(s, t, at), pc[s][t] \notin Packets
    PROVE  /\ WriterType' /\ WriterInv'
           /\ \A u \in Threads : pc'[Peer(s)][u] = pc[Peer(s)][u]
           /\ pc'[s][t] = at
           /\ \A u \in {"setup", "gui"} : u # t => pc'[s][u] = pc[s][u]
  <1> DEFINE send == IF pc[s]["send"] = "running" THEN "done" ELSE pc[s]["send"]
             recv == IF pc[s]["recv"] = "read" THEN "done" ELSE pc[s]["recv"]
  <1>1. /\ t \in Threads /\ t # "send" /\ t # "recv"
        /\ {"done", "running", "read"} \cap Packets = {}
        /\ "done" \in Pcs("send") /\ "done" \in Pcs("recv")
    BY DEF Threads, Packets, Pcs
  <1>2. send \in Pcs("send") /\ recv \in Pcs("recv")
    BY <1>1, PcsFacts DEF WriterType
  <1>3. /\ pc' = [pc EXCEPT ![s][t] = at, ![s]["send"] = send, ![s]["recv"] = recv]
        /\ UNCHANGED <<left, lock>>
    BY <1>1 DEF Over, Closes, WriterType
  <1>4. /\ send \in Packets <=> pc[s]["send"] \in Packets
        /\ recv \in Packets <=> pc[s]["recv"] \in Packets
    BY <1>1
  <1> HIDE DEF send, recv
  <1>5. at \in PcValue /\ send \in PcValue /\ recv \in PcValue
    BY <1>1, <1>2, PcsFacts
  <1>6. /\ pc' \in [Sides -> [Threads -> PcValue]]
        /\ \A e \in Sides, u \in Threads :
              pc'[e][u] = IF e # s THEN pc[e][u]
                          ELSE IF u = t THEN at
                          ELSE IF u = "send" THEN send
                          ELSE IF u = "recv" THEN recv ELSE pc[e][u]
    BY <1>1, <1>3, <1>5, PcsFacts DEF WriterType
  <1>7. WriterType'
    <2>1. \A e \in Sides, u \in Threads : pc'[e][u] \in Pcs(u)
      BY <1>2, <1>6 DEF WriterType
    <2>2. QED
      BY <1>3, <1>6, <2>1 DEF WriterType
  <1>8. WriterInv'
    BY <1>1, <1>3, <1>4, <1>6 DEF WriterInv
  <1>9. QED
    BY <1>1, <1>6, <1>7, <1>8, PeerFacts, PcsFacts

-----------------------------------------------------------------------------
(* A turn that keeps the phases: which thread may go on, and where. *)
MayMove(s, t, at) ==
    /\ at # "connect"
    /\ t \in {"send", "recv"} => call[s] \notin Early
    /\ s = "caller" /\ t = "gui" => call[s] = "in_call"
    /\ s = "caller" /\ t = "setup" => pc[s][t] # "done"
    /\ s = "callee" /\ t = "gui" =>
          pc[s]["setup"] = "done" /\ (at \in {"accept", "accepted"} => call[s] = "ringing")
    /\ s = "callee" /\ t = "setup" => pc[s][t] \notin {"off", "done"}

LEMMA MoveKeepsPhase ==
    ASSUME PhaseInv, FreshInv, NEW s \in Sides, NEW t \in Threads, NEW at, NEW n,
           Changed(s, t, at, n), MayMove(s, t, at), UNCHANGED call
    PROVE  PhaseInv' /\ FreshInv'
  <1>1. \A e \in Sides, u \in Threads : pc'[e][u] = IF e = s /\ u = t THEN at ELSE pc[e][u]
    BY DEF Changed
  <1>2. "caller" \in Sides /\ "callee" \in Sides
    BY DEF Sides
  <1>3. PhaseInv'
    <2>1. \A e \in Sides : call[e] \in Early =>
              pc'[e]["send"] = "off" /\ pc'[e]["recv"] = "off"
      BY <1>1, PcsFacts DEF PhaseInv, MayMove
    <2>2. pc'["caller"]["gui"] # "running" => call["caller"] = "in_call"
      BY <1>1, <1>2, PcsFacts DEF PhaseInv, MayMove
    <2>3. pc'["caller"]["setup"] # "done" => call["caller"] = "dialing"
      BY <1>1, <1>2, PcsFacts DEF PhaseInv, MayMove
    <2>4. pc'["callee"]["gui"] \in {"accept", "accepted"} => call["callee"] = "ringing"
      BY <1>1, <1>2, PcsFacts DEF PhaseInv, MayMove
    <2>5. pc'["callee"]["setup"] # "done" =>
              pc'["callee"]["gui"] = "running" /\ call["callee"] = "idle"
      BY <1>1, <1>2, PcsFacts DEF PhaseInv, MayMove
    <2>6. QED
      BY <2>1, <2>2, <2>3, <2>4, <2>5 DEF PhaseInv
  <1>4. pc'["caller"]["setup"] # "connect"
    <2>1. SUFFICES ASSUME pc'["caller"]["setup"] = "connect" PROVE FALSE
      OBVIOUS
    <2>2. pc["caller"]["setup"] = "connect" /\ ~(s = "caller" /\ t = "setup")
      BY <1>1, <1>2, <2>1, PcsFacts DEF MayMove
    <2>3. /\ call["caller"] = "dialing" /\ call["callee"] = "idle"
          /\ pc["callee"]["setup"] = "off"
      BY <2>2 DEF PhaseInv, FreshInv
    <2>4. s = "caller" \/ s = "callee"
      BY DEF Sides
    <2>5. t \in {"setup", "gui", "send", "recv"}
      BY PcsFacts
    <2>6. QED
      BY <2>2, <2>3, <2>4, <2>5 DEF MayMove, Early
  <1>5. QED
    BY <1>3, <1>4 DEF FreshInv

LEMMA TurnMoves ==
    ASSUME NEW s \in Sides, NEW t \in Threads, NEW at, Turn(s, t, at)
    PROVE  \E n \in 0..2 : Changed(s, t, at, n)
  BY DEF Turn

(* What an action must keep: who writes, and the phases. *)
Kept == WriterType' /\ WriterInv' /\ PhaseInv' /\ FreshInv'

LEMMA TurnKept ==
    ASSUME WriterType, WriterInv, PhaseInv, FreshInv, NEW s \in Sides, NEW t \in Threads,
           NEW at \in Pcs(t), Turn(s, t, at), MayMove(s, t, at), UNCHANGED call
    PROVE  Kept /\ HalfKept
  <1>1. WriterType' /\ WriterInv' /\ HalfKept
    BY TurnKeeps
  <1>2. PhaseInv' /\ FreshInv'
    BY TurnMoves, MoveKeepsPhase
  <1>3. QED
    BY <1>1, <1>2 DEF Kept

LEMMA GoesKept ==
    ASSUME WriterType, WriterInv, PhaseInv, FreshInv, NEW s \in Sides, NEW t \in Threads,
           NEW at \in Pcs(t), pc[s][t] \notin Packets, at \notin Packets,
           Goes(s, t, at), MayMove(s, t, at), UNCHANGED <<lock, call>>
    PROVE  Kept /\ HalfKept /\ Changed(s, t, at, 0)
  <1>1. Turn(s, t, at)
    BY GoesTurns
  <1>2. Changed(s, t, at, 0)
    BY <1>1 DEF Turn
  <1>3. QED
    BY <1>1, <1>2, TurnKept

LEMMA WritesKept ==
    ASSUME WriterType, WriterInv, PhaseInv, FreshInv, NEW s \in Sides, NEW t \in Threads,
           NEW p \in Pcs(t), pc[s][t] \notin Packets, p \in Packets,
           Writes(s, t, p), MayMove(s, t, p), UNCHANGED <<lock, call>>
    PROVE  Kept /\ HalfKept /\ Changed(s, t, p, 2)
  <1>1. Turn(s, t, p)
    BY WritesTurns
  <1>2. Changed(s, t, p, 2)
    BY <1>1 DEF Turn
  <1>3. QED
    BY <1>1, <1>2, TurnKept

LEMMA FinishesKept ==
    ASSUME WriterType, WriterInv, PhaseInv, FreshInv, NEW s \in Sides, NEW t \in Threads,
           NEW next, next \in {After, IfFailed}, lock[s] = t, left[s][t] > 0,
           Finishes(s, t, next), UNCHANGED call
    PROVE  Kept /\ Ended(s, t, next[pc[s][t]]) /\ next[pc[s][t]] \in Pcs(t)
  <1> DEFINE at == next[pc[s][t]]
  <1>1. at \in Pcs(t) /\ Ended(s, t, at)
    BY FinishesEnds
  <1>2. WriterType' /\ WriterInv'
    BY <1>1, EndedKeeps
  <1>3. pc[s][t] \in Packets /\ pc[s][t] \in Pcs(t)
    BY DEF WriterType, WriterInv
  <1>4. /\ at \notin {"connect", "accept"}
        /\ at = "accepted" => pc[s][t] = "accept"
    BY <1>3, TableFacts
  <1>5. {"off", "done", "running", "accepted"} \cap Packets = {}
    BY DEF Packets
  <1>6. MayMove(s, t, at)
    <2>1. t \in {"send", "recv"} => call[s] \notin Early
      BY <1>3, <1>5 DEF PhaseInv
    <2>2. s = "caller" /\ t = "gui" => call[s] = "in_call"
      BY <1>3, <1>5 DEF PhaseInv
    <2>3. s = "caller" /\ t = "setup" => pc[s][t] # "done"
      BY <1>3, <1>5
    <2>4. s = "callee" /\ t = "gui" => pc[s]["setup"] = "done"
      BY <1>3, <1>5 DEF PhaseInv
    <2>5. s = "callee" /\ t = "gui" /\ at \in {"accept", "accepted"} => call[s] = "ringing"
      BY <1>4 DEF PhaseInv
    <2>6. s = "callee" /\ t = "setup" => pc[s][t] \notin {"off", "done"}
      BY <1>3, <1>5
    <2>7. QED
      BY <1>4, <2>1, <2>2, <2>3, <2>4, <2>5, <2>6 DEF MayMove
  <1>7. Changed(s, t, at, 0)
    BY <1>1 DEF Ended
  <1>8. PhaseInv' /\ FreshInv'
    BY <1>6, <1>7, MoveKeepsPhase
  <1>9. QED
    BY <1>1, <1>2, <1>8 DEF Kept

Stages == {"idle", "dialing", "ringing", "in_call", "over"}

LinkType ==
    /\ call \in [Sides -> Stages]
    /\ other \in {"nothing", "dialing", "busy"}
    /\ notice \in [Sides -> BOOLEAN]
    /\ peerKey \in [Sides -> {Ephemeral[s] : s \in Sides} \cup {None}]

(* The beginning and the end of a session. *)
LEMMA BeginsKept ==
    ASSUME WriterType, WriterInv, PhaseInv, FreshInv, LinkType,
           NEW s \in Sides, NEW t \in {"setup", "gui"}, SessionBegins(s, t),
           \/ s = "caller" /\ t = "setup" /\ pc[s][t] = "connected"
           \/ s = "callee" /\ t = "gui" /\ pc[s][t] = "accepted"
    PROVE  Kept /\ HalfKept
  <1>1. pc[s][t] \notin Packets
    BY DEF Packets
  <1>2. call[s] \in Early /\ pc[s]["send"] = "off" /\ pc[s]["recv"] = "off"
    BY DEF PhaseInv, Early
  <1>3. /\ WriterType' /\ WriterInv' /\ HalfKept
        /\ \A u \in Threads : pc'[Peer(s)][u] = pc[Peer(s)][u]
        /\ pc'[s][t] = IF t = "gui" THEN "running" ELSE "done"
        /\ \A u \in {"setup", "gui"} : u # t => pc'[s][u] = pc[s][u]
    BY <1>1, <1>2, BeginsKeeps
  <1>4. /\ call' \in [Sides -> Stages]
        /\ \A e \in Sides : call'[e] = IF e = s THEN "in_call" ELSE call[e]
    BY ExceptSide DEF SessionBegins, LinkType, Stages
  <1>5. CASE s = "caller" /\ t = "setup"
    <2>1. /\ pc'["caller"]["setup"] = "done"
          /\ call'["caller"] = "in_call" /\ call'["callee"] = call["callee"]
          /\ \A u \in Threads : pc'["callee"][u] = pc["callee"][u]
      BY <1>3, <1>4, <1>5, PeerFacts DEF Sides
    <2>2. \A e \in Sides : call'[e] \in Early =>
              pc'[e]["send"] = "off" /\ pc'[e]["recv"] = "off"
      BY <2>1, PcsFacts DEF PhaseInv, Early, Sides
    <2>3. PhaseInv'
      BY <2>1, <2>2, PcsFacts DEF PhaseInv
    <2>4. QED
      BY <1>3, <2>1, <2>3 DEF Kept, FreshInv
  <1>6. CASE s = "callee" /\ t = "gui"
    <2>1. /\ pc'["callee"]["gui"] = "running"
          /\ pc'["callee"]["setup"] = pc["callee"]["setup"]
          /\ pc["callee"]["setup"] = "done"
          /\ call'["callee"] = "in_call" /\ call'["caller"] = call["caller"]
          /\ \A u \in Threads : pc'["caller"][u] = pc["caller"][u]
      BY <1>3, <1>4, <1>6, PeerFacts DEF Sides, PhaseInv
    <2>2. \A e \in Sides : call'[e] \in Early =>
              pc'[e]["send"] = "off" /\ pc'[e]["recv"] = "off"
      BY <2>1, PcsFacts DEF PhaseInv, Early, Sides
    <2>3. PhaseInv'
      BY <2>1, <2>2, PcsFacts DEF PhaseInv
    <2>4. pc'["caller"]["setup"] # "connect"
      BY <2>1, PcsFacts DEF FreshInv
    <2>5. QED
      BY <1>3, <2>3, <2>4 DEF Kept, FreshInv
  <1>7. QED
    BY <1>5, <1>6

MayEnd(s, t, at) ==
    \/ s = "caller" /\ t = "setup" /\ at = "done" /\ pc[s][t] \in {"connected", "gave up", "refused"}
    \/ s = "callee" /\ t = "setup" /\ at = "done" /\ pc[s][t] = "close"
    \/ /\ t = "gui" /\ at = "running"
       /\ \/ pc[s][t] = "close"
          \/ pc[s][t] = "running" /\ call[s] = "in_call"

LEMMA OverKept ==
    ASSUME WriterType, WriterInv, PhaseInv, FreshInv, LinkType,
           NEW s \in Sides, NEW t \in {"setup", "gui"}, NEW at, Over(s, t, at),
           MayEnd(s, t, at)
    PROVE  Kept
  <1>1. pc[s][t] \notin Packets /\ at \in Pcs(t) /\ at \notin Packets
    BY DEF MayEnd, Packets, Pcs
  <1>2. /\ WriterType' /\ WriterInv'
        /\ \A u \in Threads : pc'[Peer(s)][u] = pc[Peer(s)][u]
        /\ pc'[s][t] = at
        /\ \A u \in {"setup", "gui"} : u # t => pc'[s][u] = pc[s][u]
    BY <1>1, OverKeeps
  <1>3. /\ call' \in [Sides -> Stages]
        /\ \A e \in Sides : call'[e] = IF e = s THEN "over" ELSE call[e]
    BY ExceptSide DEF Over, LinkType, Stages
  <1>4. CASE s = "caller"
    <2>1. /\ call'["caller"] = "over" /\ call'["callee"] = call["callee"]
          /\ \A u \in Threads : pc'["callee"][u] = pc["callee"][u]
      BY <1>2, <1>3, <1>4, PeerFacts DEF Sides
    <2>2. pc'["caller"]["setup"] = "done" /\ pc'["caller"]["gui"] = "running"
      <3>1. CASE t = "setup"
        <4>1. pc["caller"]["gui"] = "running" /\ at = "done"
          BY <3>1, <1>4 DEF MayEnd, PhaseInv
        <4>2. QED
          BY <4>1, <3>1, <1>2, <1>4
      <3>2. CASE t = "gui"
        <4>1. pc["caller"]["setup"] = "done" /\ at = "running"
          BY <3>2, <1>4 DEF MayEnd, PhaseInv
        <4>2. QED
          BY <4>1, <3>2, <1>2, <1>4
      <3>3. QED
        BY <3>1, <3>2
    <2>3. \A e \in Sides : call'[e] \in Early =>
              pc'[e]["send"] = "off" /\ pc'[e]["recv"] = "off"
      BY <2>1, PcsFacts DEF PhaseInv, Early, Sides
    <2>4. PhaseInv'
      BY <2>1, <2>2, <2>3, PcsFacts DEF PhaseInv
    <2>5. QED
      BY <1>2, <2>2, <2>4 DEF Kept, FreshInv
  <1>5. CASE s = "callee"
    <2>1. /\ call'["callee"] = "over" /\ call'["caller"] = call["caller"]
          /\ \A u \in Threads : pc'["caller"][u] = pc["caller"][u]
      BY <1>2, <1>3, <1>5, PeerFacts DEF Sides
    <2>2. pc'["callee"]["setup"] = "done" /\ pc'["callee"]["gui"] = "running"
      <3>1. CASE t = "setup"
        <4>1. pc["callee"]["gui"] = "running" /\ at = "done"
          BY <3>1, <1>5 DEF MayEnd, PhaseInv
        <4>2. QED
          BY <4>1, <3>1, <1>2, <1>5
      <3>2. CASE t = "gui"
        <4>1. pc["callee"]["setup"] = "done" /\ at = "running"
          BY <3>2, <1>5 DEF MayEnd, PhaseInv
        <4>2. QED
          BY <4>1, <3>2, <1>2, <1>5
      <3>3. QED
        BY <3>1, <3>2
    <2>3. \A e \in Sides : call'[e] \in Early =>
              pc'[e]["send"] = "off" /\ pc'[e]["recv"] = "off"
      BY <2>1, PcsFacts DEF PhaseInv, Early, Sides
    <2>4. PhaseInv'
      BY <2>1, <2>2, <2>3, PcsFacts DEF PhaseInv
    <2>5. pc["caller"]["setup"] # "connect"
      <3>1. SUFFICES ASSUME pc["caller"]["setup"] = "connect" PROVE FALSE
        OBVIOUS
      <3>2. pc["callee"]["setup"] = "off" /\ pc["callee"]["gui"] = "running"
        BY <3>1 DEF FreshInv, Sides
      <3>3. call["callee"] = "idle"
        BY <3>2 DEF PhaseInv
      <3>4. QED
        BY <1>5, <3>2, <3>3 DEF MayEnd
    <2>6. QED
      BY <1>2, <2>1, <2>4, <2>5, PcsFacts DEF Kept, FreshInv
  <1>6. QED
    BY <1>4, <1>5 DEF Sides

(* Nothing of the threads or of the call moves. *)
LEMMA RestKept ==
    ASSUME WriterType, WriterInv, PhaseInv, FreshInv, UNCHANGED <<pc, left, lock, call>>,
           pc["caller"]["setup"] = "connect" => UNCHANGED <<open, pipe, part>>
    PROVE  Kept /\ HalfKept
  <1>1. WriterType' /\ WriterInv' /\ HalfKept
    BY RestKeeps
  <1>2. PhaseInv' /\ FreshInv'
    BY DEF PhaseInv, FreshInv
  <1>3. QED
    BY <1>1, <1>2 DEF Kept

-----------------------------------------------------------------------------
(* The streams. *)
StreamType ==
    /\ open \in [Sides -> BOOLEAN] /\ cut \in BOOLEAN
    /\ pipe \in [Sides -> Seq(Pieces)] /\ \A s \in Sides : Len(pipe[s]) <= Capacity
    /\ part \in [Sides -> Packets \cup {None}] /\ garbled \in [Sides -> BOOLEAN]
    /\ torn \in [Sides -> BOOLEAN]

(* What is in a direction was in it before. *)
NothingNew ==
    \A e \in Sides : \A i \in 1..Len(pipe'[e]) :
        \E j \in 1..Len(pipe[e]) : pipe'[e][i] = pipe[e][j]

LEMMA StillStreams ==
    ASSUME StreamType, FramesInv, HalfKept,
           UNCHANGED <<open, cut, pipe, part, garbled, torn>>
    PROVE  StreamType' /\ FramesInv' /\ NothingNew
  <1>1. StreamType' /\ NothingNew
    BY DEF StreamType, NothingNew
  <1>2. \A e \in Sides : (InTurn(e)' <=> InTurn(e)) /\ (Connected' <=> Connected)
    BY DEF InTurn, Connected
  <1>3. \A e \in Sides : EndsAsWritten(e) => EndsAsWritten(e)'
    BY DEF EndsAsWritten, HalfKept
  <1>4. FramesInv'
    BY <1>2, <1>3 DEF FramesInv
  <1>5. QED
    BY <1>1, <1>4

LEMMA ConnectedFacts ==
    /\ Connected <=> ~cut /\ open["caller"] /\ open["callee"]
    /\ Connected => \A e \in Sides : open[e]
  BY DEF Connected, Sides

(* A direction that nothing happens to. *)
LEMMA OtherDirection ==
    ASSUME FramesInv, NEW e \in Sides, pipe'[e] = pipe[e],
           part'[Peer(e)] = part[Peer(e)], torn'[e] = torn[e], garbled'[e] = garbled[e],
           Connected' => Connected,
           Connected' => /\ Half(e)' <=> Half(e)
                         /\ Half(e) => pc'[e][lock'[e]] = pc[e][lock[e]]
    PROVE  /\ torn'[e] \/ (InTurn(e)' /\ (Connected' => EndsAsWritten(e)'))
           /\ garbled'[e] => torn'[e]
  <1>1. InTurn(e) => InTurn(e)'
    BY DEF InTurn
  <1>2. Connected' /\ EndsAsWritten(e) => EndsAsWritten(e)'
    BY DEF EndsAsWritten
  <1>3. QED
    BY <1>1, <1>2 DEF FramesInv

(* Taking the first piece out of direction d. *)
LEMMA TailFacts ==
    ASSUME NEW q \in Seq(Pieces), q # <<>>
    PROVE  /\ Tail(q) \in Seq(Pieces) /\ Len(Tail(q)) = Len(q) - 1
           /\ Len(q) \in Nat \ {0} /\ Head(q) = q[1] /\ q[1] \in Pieces
           /\ \A i \in 1..(Len(q) - 1) : Tail(q)[i] = q[i + 1]
           /\ Tail(q) = <<>> <=> Len(q) = 1
  <1>1. Len(q) \in Nat \ {0} /\ Head(q) = q[1] /\ q[1] \in Pieces
    BY EmptySeq, LenProperties, HeadTailProperties, ElementOfSeq
  <1>2. /\ Tail(q) \in Seq(Pieces) /\ Len(Tail(q)) = Len(q) - 1
        /\ \A i \in 1..(Len(q) - 1) : Tail(q)[i] = q[i + 1]
    BY HeadTailProperties
  <1>3. Tail(q) = <<>> <=> Len(q) = 1
    <2>1. Tail(q) = <<>> <=> Len(Tail(q)) = 0
      BY <1>2, EmptySeq
    <2>2. QED
      BY <1>1, <1>2, <2>1
  <1>4. QED
    BY <1>1, <1>2, <1>3

(* Reading a piece at end s. *)
Reading(s) ==
    /\ pipe[Peer(s)] # <<>>
    /\ pipe' = [pipe EXCEPT ![Peer(s)] = Tail(@)]
    /\ UNCHANGED <<open, cut, torn>>
    /\ \/ /\ part[s] = None /\ Front(s).piece = 1 /\ UNCHANGED garbled
          /\ part' = [part EXCEPT ![s] = Front(s).packet]
       \/ /\ part[s] # None /\ Front(s) = Piece(part[s], 2) /\ UNCHANGED garbled
          /\ part' = [part EXCEPT ![s] = None]
       \/ /\ Misplaced(s) /\ garbled' = [garbled EXCEPT ![Peer(s)] = TRUE]
          /\ part' = [part EXCEPT ![s] = None]

LEMMA ReadsRead ==
    ASSUME NEW s \in Sides,
           ReadFirst(s) \/ (\E p \in Packets : ReadPacket(s, p)) \/ ReadGarbage(s)
    PROVE  Reading(s) /\ UNCHANGED lock
  BY DEF ReadFirst, ReadPacket, ReadGarbage, Reading, Takes, Arrives, Completes

LEMMA ReadStreams ==
    ASSUME StreamType, FramesInv, HalfKept, NEW s \in Sides, Reading(s)
    PROVE  StreamType' /\ FramesInv' /\ NothingNew
  <1> DEFINE d == Peer(s)
             q == pipe[d]
  <1>1. d \in Sides /\ d # s /\ Peer(d) = s
    BY PeerFacts
  <1>2. q \in Seq(Pieces) /\ q # <<>> /\ Front(s) = q[1]
    BY <1>1, TailFacts DEF Reading, StreamType, Front
  <1>3. /\ Tail(q) \in Seq(Pieces) /\ Len(Tail(q)) = Len(q) - 1
        /\ Len(q) \in Nat \ {0} /\ q[1] \in Pieces
        /\ \A i \in 1..(Len(q) - 1) : Tail(q)[i] = q[i + 1]
        /\ Tail(q) = <<>> <=> Len(q) = 1
    BY <1>2, TailFacts
  <1>4. /\ pipe' \in [Sides -> Seq(Pieces)]
        /\ \A e \in Sides : pipe'[e] = IF e = d THEN Tail(q) ELSE pipe[e]
    BY <1>1, <1>3, ExceptSide DEF Reading, StreamType
  <1>5. q[1].packet \in Packets /\ q[1].piece \in {1, 2}
    BY <1>3, PieceFacts
  <1>6. /\ part' \in [Sides -> Packets \cup {None}]
        /\ \A e \in Sides : e # s => part'[e] = part[e]
    <2>1. part \in [Sides -> Packets \cup {None}]
      BY DEF StreamType
    <2>2. \E x \in Packets \cup {None} : part' = [part EXCEPT ![s] = x]
      BY <1>2, <1>5 DEF Reading
    <2>3. PICK x \in Packets \cup {None} : part' = [part EXCEPT ![s] = x]
      BY <2>2
    <2>4. /\ [part EXCEPT ![s] = x] \in [Sides -> Packets \cup {None}]
          /\ \A e \in Sides : [part EXCEPT ![s] = x][e] = IF e = s THEN x ELSE part[e]
      BY <2>1, ExceptSide
    <2>5. QED
      BY ONLY <2>3, <2>4
  <1>7. /\ garbled' \in [Sides -> BOOLEAN]
        /\ \A e \in Sides : e # d => garbled'[e] = garbled[e]
    <2>1. garbled' = garbled \/ garbled' = [garbled EXCEPT ![d] = TRUE]
      BY DEF Reading
    <2>2. garbled \in [Sides -> BOOLEAN]
      BY DEF StreamType
    <2>3. /\ [garbled EXCEPT ![d] = TRUE] \in [Sides -> BOOLEAN]
          /\ \A e \in Sides : e # d => [garbled EXCEPT ![d] = TRUE][e] = garbled[e]
      BY <1>1, <2>2, Zenon
    <2>4. QED
      BY ONLY <2>1, <2>2, <2>3
  <1> HIDE DEF d, q
  <1>8. StreamType'
    <2>1. \A e \in Sides : Len(pipe'[e]) <= Capacity
      BY <1>1, <1>3, <1>4, CapacityAssumption DEF StreamType, CapacityAssumption, q
    <2>2. QED
      BY <1>4, <1>6, <1>7, <2>1 DEF StreamType, Reading
  <1>9. NothingNew
    <2>1. SUFFICES ASSUME NEW e \in Sides, NEW i \in 1..Len(pipe'[e])
                   PROVE  \E j \in 1..Len(pipe[e]) : pipe'[e][i] = pipe[e][j]
      BY DEF NothingNew
    <2>2. CASE e = d
      <3>1. pipe'[e] = Tail(q) /\ pipe[e] = q
        BY <2>2, <1>4 DEF q
      <3>2. i \in 1..(Len(q) - 1) /\ i + 1 \in 1..Len(q)
        BY <3>1, <1>3
      <3>3. QED
        BY <3>1, <3>2, <1>3
    <2>3. CASE e # d
      BY <2>3, <1>4
    <2>4. QED
      BY <2>2, <2>3
  <1>10. Connected' <=> Connected
    BY DEF Reading, Connected
  <1>11. torn' = torn
    BY DEF Reading
  <1>12. SUFFICES /\ torn[d] \/ (InTurn(d)' /\ (Connected' => EndsAsWritten(d)'))
                  /\ garbled'[d] => torn[d]
    <2>1. \A e \in Sides : e # d => e = s
      BY <1>1, PeerFacts DEF d
    <2>2. /\ torn'[s] \/ (InTurn(s)' /\ (Connected' => EndsAsWritten(s)'))
          /\ garbled'[s] => torn'[s]
      BY <1>1, <1>4, <1>6, <1>7, <1>10, <1>11, PeerFacts, OtherDirection DEF HalfKept, d
    <2>3. ASSUME NEW e \in Sides
          PROVE  /\ torn'[e] \/ (InTurn(e)' /\ (Connected' => EndsAsWritten(e)'))
                 /\ garbled'[e] => torn'[e]
      BY <1>11, <1>12, <2>1, <2>2
    <2>4. QED
      BY <1>8, <1>9, <2>3 DEF FramesInv
  <1>13. CASE torn[d]
    BY <1>13
  <1>14. CASE ~torn[d]
    <2>1. InTurn(d) /\ (Connected => EndsAsWritten(d)) /\ ~garbled[d]
      BY <1>1, <1>14 DEF FramesInv
    <2>2. /\ IF part[s] = None THEN q[1].piece = 1 ELSE q[1] = Piece(part[s], 2)
          /\ \A i \in 1..(Len(q) - 1) :
                IF q[i].piece = 1 THEN q[i + 1] = Piece(q[i].packet, 2)
                ELSE q[i + 1].piece = 1
      BY <1>1, <1>2, <2>1 DEF InTurn, q
    <2>3. ~Misplaced(s)
      BY <1>2, <2>2 DEF Misplaced, Completes
    <2>4. garbled' = garbled
      BY <2>3 DEF Reading
    <2>5. part'[s] = IF q[1].piece = 1 THEN q[1].packet ELSE None
      BY <1>2, <2>2, <2>3, PieceFacts DEF Reading, StreamType
    <2>6. pipe'[d] = Tail(q)
      BY <1>1, <1>4
    <2>7. InTurn(d)'
      <3>1. Tail(q) # <<>> =>
                IF part'[s] = None THEN Tail(q)[1].piece = 1
                ELSE Tail(q)[1] = Piece(part'[s], 2)
        <4>1. SUFFICES ASSUME Tail(q) # <<>>
                       PROVE  IF part'[s] = None THEN Tail(q)[1].piece = 1
                              ELSE Tail(q)[1] = Piece(part'[s], 2)
          OBVIOUS
        <4>2. 1 \in 1..(Len(q) - 1) /\ Tail(q)[1] = q[2]
          BY <4>1, <1>3
        <4>3. QED
          BY <4>2, <1>5, <2>2, <2>5, NoneFacts
      <3>2. \A i \in 1..(Len(Tail(q)) - 1) :
                IF Tail(q)[i].piece = 1
                THEN Tail(q)[i + 1] = Piece(Tail(q)[i].packet, 2)
                ELSE Tail(q)[i + 1].piece = 1
        <4>1. SUFFICES ASSUME NEW i \in 1..(Len(Tail(q)) - 1)
                       PROVE  IF Tail(q)[i].piece = 1
                              THEN Tail(q)[i + 1] = Piece(Tail(q)[i].packet, 2)
                              ELSE Tail(q)[i + 1].piece = 1
          OBVIOUS
        <4>2. /\ i \in 1..(Len(q) - 1) /\ i + 1 \in 1..(Len(q) - 1)
              /\ Tail(q)[i] = q[i + 1] /\ Tail(q)[i + 1] = q[(i + 1) + 1]
          BY <1>3
        <4>3. QED
          BY <4>2, <2>2
      <3>3. QED
        BY <1>1, <2>6, <3>1, <3>2 DEF InTurn
    <2>8. ASSUME Connected' PROVE EndsAsWritten(d)'
      <3>1. EndsAsWritten(d)
        BY <1>10, <2>1, <2>8
      <3>2. /\ q[Len(q)].piece = 1 <=> Half(d)
            /\ Half(d) => q[Len(q)].packet = pc[d][lock[d]]
        BY <1>2, <3>1 DEF EndsAsWritten, q
      <3>3. /\ Half(d)' <=> Half(d)
            /\ Half(d) => pc'[d][lock'[d]] = pc[d][lock[d]]
        BY <1>1 DEF HalfKept
      <3>4. CASE Tail(q) = <<>>
        <4>1. Len(q) = 1
          BY <3>4, <1>3
        <4>2. /\ part'[s] # None <=> Half(d)
              /\ Half(d) => part'[s] = pc[d][lock[d]]
          BY <4>1, <3>2, <2>5, <1>5, NoneFacts
        <4>3. QED
          BY <4>2, <3>3, <3>4, <2>6, <1>1 DEF EndsAsWritten
      <3>5. CASE Tail(q) # <<>>
        <4>1. /\ Len(Tail(q)) \in 1..(Len(q) - 1) /\ Len(Tail(q)) + 1 = Len(q)
              /\ Tail(q)[Len(Tail(q))] = q[Len(q)]
          BY <3>5, <1>3
        <4>2. QED
          BY <4>1, <3>2, <3>3, <3>5, <2>6 DEF EndsAsWritten
      <3>6. QED
        BY <3>4, <3>5
    <2>9. QED
      BY <2>1, <2>4, <2>7, <2>8
  <1>15. QED
    BY <1>13, <1>14

-----------------------------------------------------------------------------
(* Writing a piece of the packet in hand, the first or the second. *)
AppendsPiece(s, p, n) ==
    /\ Connected /\ ~Full(s) /\ p \in Packets /\ n \in 1..2
    /\ pipe' = [pipe EXCEPT ![s] = Append(@, Piece(p, n))]
    /\ UNCHANGED <<open, cut, part, garbled, torn>>

LEMMA AppendStreams ==
    ASSUME StreamType, FramesInv, NEW s \in Sides, NEW p, NEW n,
           AppendsPiece(s, p, n),
           Half(s) <=> n = 2, Half(s) => p = pc[s][lock[s]],
           Half(s)' <=> n = 1, Half(s)' => p = pc'[s][lock'[s]],
           Half(Peer(s))' <=> Half(Peer(s)),
           Half(Peer(s)) => pc'[Peer(s)][lock'[Peer(s)]] = pc[Peer(s)][lock[Peer(s)]]
    PROVE  /\ StreamType' /\ FramesInv'
           /\ pipe'[Peer(s)] = pipe[Peer(s)]
           /\ Len(pipe[s]) \in Nat
           /\ Len(pipe'[s]) = Len(pipe[s]) + 1
           /\ \A i \in 1..Len(pipe[s]) : pipe'[s][i] = pipe[s][i]
           /\ pipe'[s][Len(pipe[s]) + 1] = Piece(p, n)
  <1> DEFINE q == pipe[s]
             r == Append(q, Piece(p, n))
  <1>1. Peer(s) \in Sides /\ Peer(s) # s /\ Peer(Peer(s)) = s
    BY PeerFacts
  <1>2. q \in Seq(Pieces) /\ Piece(p, n) \in Pieces
    BY PieceFacts DEF StreamType, AppendsPiece
  <1>3. /\ r \in Seq(Pieces) /\ Len(q) \in Nat /\ Len(r) = Len(q) + 1
        /\ \A i \in 1..Len(q) : r[i] = q[i]
        /\ r[Len(q) + 1] = Piece(p, n) /\ r # <<>>
        /\ q = <<>> <=> Len(q) = 0
    BY <1>2, AppendProperties, LenProperties, EmptySeq
  <1>4. /\ pipe' \in [Sides -> Seq(Pieces)]
        /\ \A e \in Sides : pipe'[e] = IF e = s THEN r ELSE pipe[e]
    BY <1>3, ExceptSide DEF AppendsPiece, StreamType
  <1>5. Piece(p, n).packet = p /\ Piece(p, n).piece = n /\ n \in {1, 2}
    BY PieceFacts DEF AppendsPiece
  <1>6. /\ UNCHANGED <<open, cut, part, garbled, torn>> /\ Connected
        /\ Len(q) # Capacity
    BY DEF AppendsPiece, Full
  <1> HIDE DEF q, r
  <1>7. StreamType'
    <2>1. Len(q) <= Capacity
      BY DEF StreamType, q
    <2>2. Len(r) <= Capacity
      BY <1>3, <1>6, <2>1, CapacityAssumption DEF CapacityAssumption
    <2>3. \A e \in Sides : Len(pipe'[e]) <= Capacity
      BY <1>4, <2>2 DEF StreamType
    <2>4. QED
      BY <1>4, <1>6, <2>3 DEF StreamType
  <1>8. Connected'
    BY <1>6 DEF Connected
  <1>9. /\ torn'[Peer(s)] \/ (InTurn(Peer(s))' /\ (Connected' => EndsAsWritten(Peer(s))'))
        /\ garbled'[Peer(s)] => torn'[Peer(s)]
    BY <1>1, <1>4, <1>6, OtherDirection
  <1>10. garbled'[s] => torn'[s]
    BY <1>6 DEF FramesInv
  <1>11. ASSUME ~torn[s] PROVE InTurn(s)' /\ EndsAsWritten(s)'
    <2>1. InTurn(s) /\ EndsAsWritten(s)
      BY <1>6, <1>11 DEF FramesInv
    <2>2. pipe'[s] = r /\ part'[Peer(s)] = part[Peer(s)]
      BY <1>4, <1>6
    <2>3. EndsAsWritten(s)'
      <3>1. r[Len(r)] = Piece(p, n)
        BY <1>3
      <3>2. QED
        BY <1>3, <1>5, <2>2, <3>1 DEF EndsAsWritten
    <2>4. r # <<>> => IF part[Peer(s)] = None THEN r[1].piece = 1
                      ELSE r[1] = Piece(part[Peer(s)], 2)
      <3>1. CASE q = <<>>
        <4>1. r[1] = Piece(p, n)
          BY <3>1, <1>3
        <4>2. /\ part[Peer(s)] # None <=> n = 2
              /\ n = 2 => part[Peer(s)] = p
          BY <2>1, <3>1 DEF EndsAsWritten, q
        <4>3. QED
          BY <4>1, <4>2, <1>5
      <3>2. CASE q # <<>>
        <4>1. r[1] = q[1]
          BY <3>2, <1>3
        <4>2. QED
          BY <2>1, <3>2, <4>1 DEF InTurn, q
      <3>3. QED
        BY <3>1, <3>2
    <2>5. \A i \in 1..(Len(r) - 1) :
              IF r[i].piece = 1 THEN r[i + 1] = Piece(r[i].packet, 2)
              ELSE r[i + 1].piece = 1
      <3>1. SUFFICES ASSUME NEW i \in 1..Len(q)
                     PROVE  IF r[i].piece = 1 THEN r[i + 1] = Piece(r[i].packet, 2)
                            ELSE r[i + 1].piece = 1
        BY <1>3
      <3>2. r[i] = q[i]
        BY <1>3
      <3>3. CASE i = Len(q)
        <4>1. r[i + 1] = Piece(p, n)
          BY <3>3, <1>3
        <4>2. q # <<>>
          BY <3>3, <1>3
        <4>3. /\ q[i].piece = 1 <=> n = 2
              /\ n = 2 => q[i].packet = p
          BY <2>1, <3>3, <4>2 DEF EndsAsWritten, q
        <4>4. QED
          BY <3>2, <4>1, <4>3, <1>5
      <3>4. CASE i # Len(q)
        <4>1. i \in 1..(Len(q) - 1) /\ i + 1 \in 1..Len(q)
          BY <3>4, <1>3
        <4>2. r[i + 1] = q[i + 1]
          BY <4>1, <1>3
        <4>3. IF q[i].piece = 1 THEN q[i + 1] = Piece(q[i].packet, 2)
              ELSE q[i + 1].piece = 1
          BY <2>1, <4>1 DEF InTurn, q
        <4>4. QED
          BY <3>2, <4>2, <4>3
      <3>5. QED
        BY <3>3, <3>4
    <2>6. InTurn(s)'
      BY <2>2, <2>4, <2>5 DEF InTurn
    <2>7. QED
      BY <2>3, <2>6
  <1>12. FramesInv'
    <2>1. ASSUME NEW e \in Sides
          PROVE  /\ torn'[e] \/ (InTurn(e)' /\ (Connected' => EndsAsWritten(e)'))
                 /\ garbled'[e] => torn'[e]
      <3>1. CASE e = s
        BY <3>1, <1>6, <1>10, <1>11
      <3>2. CASE e # s
        BY <3>2, <1>9, PeerFacts
      <3>3. QED
        BY <3>1, <3>2
    <2>2. QED
      BY <2>1 DEF FramesInv
  <1>13. QED
    BY <1>1, <1>3, <1>4, <1>7, <1>12 DEF q

(* The end of the connection: whatever is lost of it, nothing new appears. *)
LEMMA EndStreams ==
    ASSUME StreamType, FramesInv,
           open' \in [Sides -> BOOLEAN], cut' \in BOOLEAN, ~Connected',
           pipe' \in [Sides -> Seq(Pieces)],
           \A e \in Sides : pipe'[e] \in {pipe[e], <<>>},
           part' \in [Sides -> Packets \cup {None}],
           \A e \in Sides : pipe'[e] = <<>> \/ part'[Peer(e)] = part[Peer(e)],
           UNCHANGED <<garbled, torn>>
    PROVE  StreamType' /\ FramesInv' /\ NothingNew
  <1>1. Len(<<>>) = 0
    BY EmptySeq
  <1>2. StreamType'
    BY <1>1, CapacityAssumption DEF StreamType, CapacityAssumption
  <1>3. NothingNew
    <2>1. SUFFICES ASSUME NEW e \in Sides, NEW i \in 1..Len(pipe'[e])
                   PROVE  \E j \in 1..Len(pipe[e]) : pipe'[e][i] = pipe[e][j]
      BY DEF NothingNew
    <2>2. pipe'[e] # <<>>
      BY <1>1, <2>1
    <2>3. pipe'[e] = pipe[e]
      BY <2>2
    <2>4. QED
      BY <2>1, <2>3
  <1>4. \A e \in Sides : InTurn(e) => InTurn(e)'
    <2>1. SUFFICES ASSUME NEW e \in Sides, InTurn(e) PROVE InTurn(e)'
      OBVIOUS
    <2>2. CASE pipe'[e] = <<>>
      BY <1>1, <2>2 DEF InTurn
    <2>3. CASE pipe'[e] = pipe[e] /\ part'[Peer(e)] = part[Peer(e)]
      BY <2>1, <2>3 DEF InTurn
    <2>4. QED
      BY <2>2, <2>3
  <1>5. FramesInv'
    BY <1>4 DEF FramesInv
  <1>6. QED
    BY <1>2, <1>3, <1>5

LEMMA ClosesStreams ==
    ASSUME StreamType, FramesInv, NEW s \in Sides, Closes(s)
    PROVE  StreamType' /\ FramesInv' /\ NothingNew /\ UNCHANGED lock
  <1>1. /\ open' = [open EXCEPT ![s] = FALSE]
        /\ part' = [part EXCEPT ![s] = None]
        /\ UNCHANGED <<cut, garbled, torn, lock>>
    BY DEF Closes
  <1>2. PICK kept \in {pipe[s], <<>>} :
            pipe' = [e \in Sides |-> IF e = s THEN kept ELSE <<>>]
    BY DEF Closes
  <1>3. open' \in [Sides -> BOOLEAN] /\ ~open'[s]
    BY <1>1, ExceptSide DEF StreamType
  <1>4. ~Connected'
    BY <1>3 DEF Connected
  <1>5. <<>> \in Seq(Pieces) /\ pipe[s] \in Seq(Pieces)
    BY DEF StreamType
  <1>6. /\ pipe' \in [Sides -> Seq(Pieces)]
        /\ \A e \in Sides : pipe'[e] = IF e = s THEN kept ELSE <<>>
    BY <1>2, <1>5
  <1>7. /\ part' \in [Sides -> Packets \cup {None}]
        /\ \A e \in Sides : part'[e] = IF e = s THEN None ELSE part[e]
    BY <1>1, ExceptSide DEF StreamType
  <1>8. cut' \in BOOLEAN
    BY <1>1 DEF StreamType
  <1>9. \A e \in Sides : pipe'[e] \in {pipe[e], <<>>}
    BY <1>2, <1>6
  <1>10. \A e \in Sides : pipe'[e] = <<>> \/ part'[Peer(e)] = part[Peer(e)]
    BY <1>6, <1>7, PeerFacts
  <1>11. QED
    BY <1>1, <1>3, <1>4, <1>6, <1>7, <1>8, <1>9, <1>10, EndStreams

LEMMA BreakStreams ==
    ASSUME StreamType, FramesInv, CircuitBreaks
    PROVE  StreamType' /\ FramesInv' /\ NothingNew
  <1>1. /\ cut' = TRUE /\ pipe' = [s \in Sides |-> <<>>]
        /\ part' = [s \in Sides |-> None]
        /\ UNCHANGED <<open, garbled, torn>>
    BY DEF CircuitBreaks
  <1>2. cut' \in BOOLEAN /\ ~Connected' /\ open' \in [Sides -> BOOLEAN]
    BY <1>1 DEF Connected, StreamType
  <1>3. <<>> \in Seq(Pieces)
    OBVIOUS
  <1>4. pipe' \in [Sides -> Seq(Pieces)] /\ \A e \in Sides : pipe'[e] = <<>>
    BY <1>1, <1>3
  <1>5. part' \in [Sides -> Packets \cup {None}]
    BY <1>1
  <1>6. QED
    BY <1>1, <1>2, <1>4, <1>5, EndStreams

(* A packet that cannot be written: given up before its first piece it     *)
(* leaves the direction as it is, given up halfway it tears it.            *)
LEMMA FailStreams ==
    ASSUME StreamType, FramesInv, WriterInv, NEW s \in Sides, NEW t \in Threads,
           UNCHANGED <<open, cut, pipe, part, garbled>>, lock[s] = t,
           \/ ~Connected /\ UNCHANGED torn
           \/ torn' = [torn EXCEPT ![s] = @ \/ (Connected /\ left[s][t] = 1)],
           ~Half(s)',
           Half(Peer(s))' <=> Half(Peer(s)),
           Half(Peer(s)) => pc'[Peer(s)][lock'[Peer(s)]] = pc[Peer(s)][lock[Peer(s)]]
    PROVE  StreamType' /\ FramesInv' /\ NothingNew
  <1>1. Peer(s) \in Sides /\ Peer(s) # s
    BY PeerFacts
  <1>2. NothingNew
    BY DEF NothingNew
  <1>3. /\ torn' \in [Sides -> BOOLEAN]
        /\ \A e \in Sides : e # s => torn'[e] = torn[e]
        /\ torn[s] => torn'[s]
        /\ Connected /\ left[s][t] = 1 => torn'[s]
    <2>1. CASE ~Connected /\ UNCHANGED torn
      BY <2>1 DEF StreamType
    <2>2. CASE torn' = [torn EXCEPT ![s] = @ \/ (Connected /\ left[s][t] = 1)]
      <3>1. torn \in [Sides -> BOOLEAN]
        BY DEF StreamType
      <3>2. \A x \in BOOLEAN : [torn EXCEPT ![s] = x] \in [Sides -> BOOLEAN]
        BY <3>1
      <3>3. torn'[s] = (torn[s] \/ (Connected /\ left[s][t] = 1))
        BY <2>2, <3>1
      <3>4. QED
        BY <2>2, <3>1, <3>2, <3>3
    <2>3. QED
      BY <2>1, <2>2
  <1>4. StreamType'
    BY <1>3 DEF StreamType
  <1>5. Connected' <=> Connected
    BY DEF Connected
  <1>6. \A e \in Sides : (InTurn(e)' <=> InTurn(e))
    BY DEF InTurn
  <1>7. /\ torn'[Peer(s)] \/ (InTurn(Peer(s))' /\ (Connected' => EndsAsWritten(Peer(s))'))
        /\ garbled'[Peer(s)] => torn'[Peer(s)]
    BY <1>1, <1>3, <1>5, OtherDirection
  <1>8. garbled'[s] => torn'[s]
    BY <1>3 DEF FramesInv
  <1>9. ASSUME ~torn'[s] PROVE InTurn(s)' /\ (Connected' => EndsAsWritten(s)')
    <2>1. InTurn(s) /\ (Connected => EndsAsWritten(s))
      BY <1>3, <1>9 DEF FramesInv
    <2>2. Connected => ~Half(s)
      <3>1. Connected => left[s][t] # 1
        BY <1>3, <1>9
      <3>2. \A u \in Threads : left[s][u] = 1 => u = t
        BY DEF WriterInv
      <3>3. QED
        BY <3>1, <3>2 DEF Half
    <2>3. Connected => EndsAsWritten(s)'
      BY <2>1, <2>2 DEF EndsAsWritten
    <2>4. QED
      BY <1>5, <1>6, <2>1, <2>3
  <1>10. FramesInv'
    <2>1. ASSUME NEW e \in Sides
          PROVE  /\ torn'[e] \/ (InTurn(e)' /\ (Connected' => EndsAsWritten(e)'))
                 /\ garbled'[e] => torn'[e]
      BY <1>7, <1>8, <1>9, PeerFacts
    <2>2. QED
      BY <2>1 DEF FramesInv
  <1>11. QED
    BY <1>2, <1>4, <1>10

(* The connection opens. *)
LEMMA OpenStreams ==
    ASSUME StreamType, FramesInv, open' \in [Sides -> BOOLEAN],
           UNCHANGED <<cut, pipe, part, garbled, torn>>,
           \A e \in Sides : pipe[e] = <<>> /\ part[e] = None,
           \A e \in Sides : ~Half(e)'
    PROVE  StreamType' /\ FramesInv' /\ NothingNew
  <1>1. StreamType' /\ NothingNew
    BY DEF StreamType, NothingNew
  <1>2. \A e \in Sides : InTurn(e) => InTurn(e)'
    BY DEF InTurn
  <1>3. \A e \in Sides : EndsAsWritten(e)'
    BY PeerFacts DEF EndsAsWritten
  <1>4. Len(<<>>) = 0
    BY EmptySeq
  <1>5. \A e \in Sides : InTurn(e)'
    BY <1>4 DEF InTurn
  <1>6. FramesInv'
    BY <1>3, <1>5 DEF FramesInv
  <1>7. QED
    BY <1>1, <1>6

-----------------------------------------------------------------------------
(* What the ends know of each other. *)
LEMMA HandshakeGivesKey == \A s \in Sides : KeyOfPeer(s) = Ephemeral[Peer(s)]
  <1>1. SUFFICES ASSUME NEW s \in Sides PROVE KeyOfPeer(s) = Ephemeral[Peer(s)]
    OBVIOUS
  <1> DEFINE p == Peer(s)
             sig == SignHandshake(p, Ephemeral[p], 0, None)
  <1>2. p \in Sides /\ None # p /\ sig # None /\ None # 0
    BY PeerFacts, NoneAssumption DEF NoneAssumption
  <1> HIDE DEF p, sig
  <1>3. EncodeHandshake(Ephemeral[p], p, sig, 0, None)
            = Payload(V2Len, Fields(Ephemeral[p], p, sig, 0, None))
    BY <1>2 DEF EncodeHandshake
  <1>4. DecodeHandshake(Payload(V2Len, Fields(Ephemeral[p], p, sig, 0, None)))
            = Fields(Ephemeral[p], p, sig, 0, None)
    BY DEF DecodeHandshake, Payload, Fields, V2Len, LegacyLen, FullLen
  <1>5. Fields(Ephemeral[p], p, sig, 0, None).eph = Ephemeral[p]
    BY DEF Fields
  <1>6. QED
    BY <1>3, <1>4, <1>5 DEF KeyOfPeer, HandshakeOf, p, sig

Agrees == LinkType /\ KeyInv /\ ConsentInv

(* No session begins, and the callee's consent stands. *)
LEMMA AgreesKept ==
    ASSUME Agrees, call' \in [Sides -> Stages], UNCHANGED peerKey,
           \A s \in Sides : call'[s] = "in_call" => call[s] = "in_call",
           other' \in {"nothing", "dialing", "busy"}, notice' \in [Sides -> BOOLEAN],
           Accepted => Accepted',
           \A i \in 1..Len(pipe'["callee"]) :
                pipe'["callee"][i] = Piece("accept", 2) => Accepted',
           pc'["caller"]["setup"] = "connected" => Accepted
    PROVE  Agrees'
  <1>1. LinkType' /\ KeyInv'
    BY DEF Agrees, LinkType, KeyInv
  <1>2. call'["caller"] = "in_call" => Accepted
    BY DEF Agrees, ConsentInv, Sides
  <1>3. ConsentInv'
    BY <1>2 DEF ConsentInv
  <1>4. QED
    BY <1>1, <1>3 DEF Agrees

LEMMA OldAccepts ==
    ASSUME Agrees, NothingNew, Accepted => Accepted',
           NEW i \in 1..Len(pipe'["callee"]), pipe'["callee"][i] = Piece("accept", 2)
    PROVE  Accepted'
  <1>1. PICK j \in 1..Len(pipe["callee"]) : pipe'["callee"][i] = pipe["callee"][j]
    BY DEF NothingNew, Sides
  <1>2. QED
    BY <1>1 DEF Agrees, ConsentInv

(* What the GUI thread and the setup thread of the two ends do to it. *)
LEMMA MoveAgrees ==
    ASSUME Agrees, NothingNew, NEW s \in Sides, NEW t \in Threads, NEW at, NEW n,
           Changed(s, t, at, n),
           Stands(s, t, at),
           s = "caller" /\ t = "setup" /\ at = "connected" => Accepted,
           call' \in [Sides -> Stages], UNCHANGED peerKey,
           \A e \in Sides : call'[e] = "in_call" => call[e] = "in_call",
           other' \in {"nothing", "dialing", "busy"}, notice' \in [Sides -> BOOLEAN]
    PROVE  Agrees'
  <1>1. \A e \in Sides, u \in Threads : pc'[e][u] = IF e = s /\ u = t THEN at ELSE pc[e][u]
    BY DEF Changed
  <1>2. Accepted => Accepted'
    BY <1>1, PcsFacts DEF Accepted, Stands, Sides
  <1>3. pc'["caller"]["setup"] = "connected" => Accepted
    BY <1>1, PcsFacts DEF Agrees, ConsentInv, Sides
  <1>4. \A i \in 1..Len(pipe'["callee"]) :
            pipe'["callee"][i] = Piece("accept", 2) => Accepted'
    BY <1>2, OldAccepts
  <1>5. QED
    BY <1>2, <1>3, <1>4, AgreesKept

LEMMA RestAgrees ==
    ASSUME Agrees, NothingNew, UNCHANGED pc,
           call' \in [Sides -> Stages], UNCHANGED peerKey,
           \A e \in Sides : call'[e] = "in_call" => call[e] = "in_call",
           other' \in {"nothing", "dialing", "busy"}, notice' \in [Sides -> BOOLEAN]
    PROVE  Agrees'
  <1>1. Accepted => Accepted'
    BY DEF Accepted
  <1>2. pc'["caller"]["setup"] = "connected" => Accepted
    BY DEF Agrees, ConsentInv
  <1>3. \A i \in 1..Len(pipe'["callee"]) :
            pipe'["callee"][i] = Piece("accept", 2) => Accepted'
    BY <1>1, OldAccepts
  <1>4. QED
    BY <1>1, <1>2, <1>3, AgreesKept

LEMMA BeginsAgrees ==
    ASSUME WriterType, WriterInv, PhaseInv, Agrees, NothingNew,
           NEW s \in Sides, NEW t \in {"setup", "gui"}, SessionBegins(s, t),
           \/ s = "caller" /\ t = "setup" /\ pc[s][t] = "connected"
           \/ s = "callee" /\ t = "gui" /\ pc[s][t] = "accepted"
    PROVE  Agrees'
  <1>1. Peer(s) \in Sides /\ Ephemeral[Peer(s)] # None
    BY PeerFacts, NoneFacts
  <1>2. /\ call' \in [Sides -> Stages]
        /\ \A e \in Sides : call'[e] = IF e = s THEN "in_call" ELSE call[e]
    BY ExceptSide DEF SessionBegins, Agrees, LinkType, Stages
  <1>3. peerKey' = [peerKey EXCEPT ![s] = Ephemeral[Peer(s)]]
    BY HandshakeGivesKey DEF SessionBegins
  <1>4. /\ peerKey' \in [Sides -> {Ephemeral[e] : e \in Sides} \cup {None}]
        /\ \A e \in Sides : peerKey'[e] = IF e = s THEN Ephemeral[Peer(s)] ELSE peerKey[e]
    BY <1>1, <1>3, ExceptSide DEF Agrees, LinkType
  <1>5. LinkType'
    BY <1>2, <1>4 DEF SessionBegins, Agrees, LinkType
  <1>6. KeyInv'
    BY <1>1, <1>2, <1>4 DEF Agrees, KeyInv
  <1>7. pc[s]["send"] = "off" /\ pc[s]["recv"] = "off" /\ pc[s][t] \notin Packets
    BY DEF PhaseInv, Early, Packets
  <1>8. /\ \A u \in Threads : pc'[Peer(s)][u] = pc[Peer(s)][u]
        /\ pc'[s][t] = IF t = "gui" THEN "running" ELSE "done"
        /\ \A u \in {"setup", "gui"} : u # t => pc'[s][u] = pc[s][u]
    BY <1>7, BeginsKeeps
  <1>9. CASE s = "caller" /\ t = "setup"
    <2>1. Accepted
      BY <1>9 DEF Agrees, ConsentInv
    <2>2. Accepted'
      BY <1>4, <1>8, <1>9, <2>1, PeerFacts, PcsFacts DEF Accepted, Sides
    <2>3. QED
      BY <1>5, <1>6, <2>2 DEF Agrees, ConsentInv
  <1>10. CASE s = "callee" /\ t = "gui"
    <2>1. Accepted'
      BY <1>1, <1>4, <1>10 DEF Accepted
    <2>2. QED
      BY <1>5, <1>6, <2>1 DEF Agrees, ConsentInv
  <1>11. QED
    BY <1>9, <1>10

LEMMA OverAgrees ==
    ASSUME WriterType, WriterInv, PhaseInv, Agrees, NothingNew,
           NEW s \in Sides, NEW t \in {"setup", "gui"}, NEW at, Over(s, t, at),
           MayEnd(s, t, at)
    PROVE  Agrees'
  <1>1. /\ pc[s][t] \notin Packets /\ at \in Pcs(t) /\ at \notin Packets
        /\ at # "connected" /\ pc[s][t] \notin {"accepted", "stranded"}
    BY DEF MayEnd, Packets, Pcs
  <1>2. /\ \A u \in Threads : pc'[Peer(s)][u] = pc[Peer(s)][u]
        /\ pc'[s][t] = at
        /\ \A u \in {"setup", "gui"} : u # t => pc'[s][u] = pc[s][u]
    BY <1>1, OverKeeps
  <1>3. /\ call' \in [Sides -> Stages]
        /\ \A e \in Sides : call'[e] = IF e = s THEN "over" ELSE call[e]
    BY ExceptSide DEF Over, Agrees, LinkType, Stages
  <1>4. notice' \in [Sides -> BOOLEAN]
    BY ExceptSide DEF Over, Agrees, LinkType
  <1>5. \A e \in Sides, u \in {"setup", "gui"} :
            pc'[e][u] = IF e = s /\ u = t THEN at ELSE pc[e][u]
    BY <1>2, PeerFacts, PcsFacts
  <1>6. Accepted => Accepted'
    BY <1>1, <1>5 DEF Accepted, Over, Sides
  <1>7. pc'["caller"]["setup"] = "connected" => Accepted
    BY <1>1, <1>5 DEF Agrees, ConsentInv, Sides
  <1>8. \A i \in 1..Len(pipe'["callee"]) :
            pipe'["callee"][i] = Piece("accept", 2) => Accepted'
    BY <1>6, OldAccepts
  <1>9. UNCHANGED <<other, peerKey>> /\ other \in {"nothing", "dialing", "busy"}
    BY DEF Over, Agrees, LinkType
  <1>10. QED
    BY <1>3, <1>4, <1>6, <1>7, <1>8, <1>9, AgreesKept

-----------------------------------------------------------------------------
(* The invariant, and each kind of step. *)
Inv ==
    /\ WriterType /\ WriterInv /\ PhaseInv /\ FreshInv
    /\ StreamType /\ FramesInv /\ Agrees

LEMMA InvFrom ==
    ASSUME Kept, StreamType' /\ FramesInv', Agrees'
    PROVE  Inv'
  BY DEF Inv, Kept

OthersType == other' \in {"nothing", "dialing", "busy"} /\ notice' \in [Sides -> BOOLEAN]

LEMMA SameOthers ==
    ASSUME Agrees, UNCHANGED other, UNCHANGED notice \/ \E s \in Sides : Posts(s)
    PROVE  OthersType
  <1>1. notice \in [Sides -> BOOLEAN]
    BY DEF Agrees, LinkType
  <1>2. notice' \in [Sides -> BOOLEAN]
    BY <1>1, ExceptSide DEF Posts
  <1>3. QED
    BY <1>2 DEF OthersType, Agrees, LinkType

LEMMA SameCall ==
    ASSUME Agrees, UNCHANGED call
    PROVE  /\ call' \in [Sides -> Stages]
           /\ \A e \in Sides : call'[e] = "in_call" => call[e] = "in_call"
  BY DEF Agrees, LinkType

(* Thread t of end s goes on at at, or begins to write packet at. *)
MovesTo(s, t, at) ==
    /\ at \in Pcs(t) /\ pc[s][t] \notin Packets
    /\ MayMove(s, t, at)
    /\ Stands(s, t, at)
    /\ s = "caller" /\ t = "setup" /\ at = "connected" => Accepted
    /\ \/ at \notin Packets /\ Goes(s, t, at)
       \/ at \in Packets /\ Writes(s, t, at)

LEMMA MovesKept ==
    ASSUME Inv, NEW s \in Sides, NEW t \in Threads, NEW at, MovesTo(s, t, at),
           UNCHANGED <<lock, call>>
    PROVE  Kept /\ HalfKept /\ \E n \in 0..2 : Changed(s, t, at, n)
  <1>1. CASE at \notin Packets /\ Goes(s, t, at)
    <2>1. Kept /\ HalfKept /\ Changed(s, t, at, 0)
      BY <1>1, GoesKept DEF MovesTo, Inv
    <2>2. QED
      BY <2>1
  <1>2. CASE at \in Packets /\ Writes(s, t, at)
    <2>1. Kept /\ HalfKept /\ Changed(s, t, at, 2)
      BY <1>2, WritesKept DEF MovesTo, Inv
    <2>2. QED
      BY <2>1
  <1>3. QED
    BY <1>1, <1>2 DEF MovesTo

LEMMA ThreadMoves ==
    ASSUME Inv, NEW s \in Sides, NEW t \in Threads, NEW at, MovesTo(s, t, at),
           UNCHANGED <<open, cut, pipe, part, garbled, torn, lock, call, peerKey>>,
           OthersType
    PROVE  Inv'
  <1>1. Kept /\ HalfKept
    BY MovesKept
  <1>2. PICK n \in 0..2 : Changed(s, t, at, n)
    BY MovesKept
  <1>3. StreamType' /\ FramesInv' /\ NothingNew
    BY <1>1, StillStreams DEF Inv
  <1>4. Agrees'
    BY <1>2, <1>3, SameCall, MoveAgrees DEF Inv, OthersType, MovesTo
  <1>5. QED
    BY <1>1, <1>3, <1>4, InvFrom

LEMMA ReaderMoves ==
    ASSUME Inv, NEW s \in Sides, NEW t \in Threads, NEW at, MovesTo(s, t, at),
           Reading(s), UNCHANGED lock, UNCHANGED linkVars
    PROVE  Inv'
  <1>1. UNCHANGED call /\ UNCHANGED peerKey /\ OthersType
    BY SameOthers DEF linkVars, Inv
  <1>2. Kept /\ HalfKept
    BY <1>1, MovesKept
  <1>3. PICK n \in 0..2 : Changed(s, t, at, n)
    BY <1>1, MovesKept
  <1>4. StreamType' /\ FramesInv' /\ NothingNew
    BY <1>2, ReadStreams DEF Inv
  <1>5. Agrees'
    BY <1>1, <1>3, <1>4, SameCall, MoveAgrees DEF Inv, OthersType, MovesTo
  <1>6. QED
    BY <1>2, <1>4, <1>5, InvFrom

LEMMA ReaderStays ==
    ASSUME Inv, NEW s \in Sides, Reading(s), UNCHANGED <<lock, pc, left>>,
           UNCHANGED linkVars
    PROVE  Inv'
  <1>1. UNCHANGED call /\ UNCHANGED peerKey /\ OthersType
    BY SameOthers DEF linkVars, Inv
  <1>2. pc["caller"]["setup"] # "connect"
    BY PeerFacts DEF Inv, FreshInv, Reading
  <1>3. Kept /\ HalfKept
    BY <1>1, <1>2, RestKept DEF Inv
  <1>4. StreamType' /\ FramesInv' /\ NothingNew
    BY <1>3, ReadStreams DEF Inv
  <1>5. Agrees'
    BY <1>1, <1>4, SameCall, RestAgrees DEF Inv, OthersType
  <1>6. QED
    BY <1>3, <1>4, <1>5, InvFrom

LEMMA Rests ==
    ASSUME Inv, UNCHANGED <<sockVars, call, peerKey>>, OthersType
    PROVE  Inv'
  <1>1. /\ UNCHANGED <<open, cut, pipe, part, garbled, torn>>
        /\ UNCHANGED <<pc, left, lock, call>> /\ UNCHANGED peerKey
    BY DEF sockVars
  <1>2. Kept /\ HalfKept
    BY <1>1, RestKept DEF Inv
  <1>3. StreamType' /\ FramesInv' /\ NothingNew
    BY <1>1, <1>2, StillStreams DEF Inv
  <1>4. Agrees'
    BY <1>1, <1>3, SameCall, RestAgrees DEF Inv, OthersType
  <1>5. QED
    BY <1>2, <1>3, <1>4, InvFrom

LEMMA Begins ==
    ASSUME Inv, NEW s \in Sides, NEW t \in {"setup", "gui"}, SessionBegins(s, t),
           \/ s = "caller" /\ t = "setup" /\ pc[s][t] = "connected"
           \/ s = "callee" /\ t = "gui" /\ pc[s][t] = "accepted"
    PROVE  Inv'
  <1>1. Kept /\ HalfKept
    BY BeginsKept DEF Inv, Agrees
  <1>2. UNCHANGED <<open, cut, pipe, part, garbled, torn>>
    BY DEF SessionBegins
  <1>3. StreamType' /\ FramesInv' /\ NothingNew
    BY <1>1, <1>2, StillStreams DEF Inv
  <1>4. Agrees'
    BY <1>3, BeginsAgrees DEF Inv
  <1>5. QED
    BY <1>1, <1>3, <1>4, InvFrom

LEMMA Ends ==
    ASSUME Inv, NEW s \in Sides, NEW t \in {"setup", "gui"}, NEW at,
           Over(s, t, at), MayEnd(s, t, at)
    PROVE  Inv'
  <1>1. Kept
    BY OverKept DEF Inv, Agrees
  <1>2. Closes(s)
    BY DEF Over
  <1>3. StreamType' /\ FramesInv' /\ NothingNew
    BY <1>2, ClosesStreams DEF Inv
  <1>4. Agrees'
    BY <1>3, OverAgrees DEF Inv
  <1>5. QED
    BY <1>1, <1>3, <1>4, InvFrom

-----------------------------------------------------------------------------
(* The writers. *)
LEMMA AcquireInv ==
    ASSUME Inv, NEW s \in Sides, NEW t \in Threads, Acquire(s, t), UNCHANGED linkVars
    PROVE  Inv'
  <1>1. UNCHANGED call /\ UNCHANGED peerKey /\ OthersType
    BY SameOthers DEF linkVars, Inv
  <1>2. WriterType' /\ WriterInv' /\ HalfKept
    BY AcquireKeeps DEF Inv
  <1>3. UNCHANGED <<open, cut, pipe, part, garbled, torn>> /\ UNCHANGED <<pc, left>>
    BY DEF Acquire
  <1>4. PhaseInv' /\ FreshInv'
    BY <1>1, <1>3 DEF Inv, PhaseInv, FreshInv
  <1>5. StreamType' /\ FramesInv' /\ NothingNew
    BY <1>2, <1>3, StillStreams DEF Inv
  <1>6. Agrees'
    BY <1>1, <1>3, <1>5, SameCall, RestAgrees DEF Inv, OthersType
  <1>7. QED
    BY <1>2, <1>4, <1>5, <1>6, InvFrom DEF Kept

(* Who holds the lock writes; another thread is not halfway. *)
LEMMA HolderFacts ==
    ASSUME Inv, NEW s \in Sides, NEW t \in Threads, lock[s] = t, left[s][t] > 0
    PROVE  /\ pc[s][t] \in Packets /\ pc[s][t] \in Pcs(t)
           /\ left[s][t] \in 1..2
           /\ Half(s) <=> left[s][t] = 1
           /\ pc["caller"]["setup"] # "connect"
           /\ \A at : Stands(s, t, at)
  <1>1. pc[s][t] \in Packets /\ pc[s][t] \in Pcs(t) /\ left[s][t] \in 1..2
    BY DEF Inv, WriterType, WriterInv
  <1>2. Half(s) <=> left[s][t] = 1
    BY DEF Half, Inv, WriterInv
  <1>3. pc["caller"]["setup"] # "connect"
    BY DEF Inv, FreshInv
  <1>4. QED
    BY <1>1, <1>2, <1>3 DEF Packets, Stands

LEMMA WrittenOthers ==
    ASSUME Inv, NEW s \in Sides, NEW t \in Threads,
           UNCHANGED <<call, other, peerKey>>,
           UNCHANGED notice \/ Posts(s)
    PROVE  UNCHANGED call /\ UNCHANGED peerKey /\ OthersType
  BY SameOthers DEF Inv

(* The first of the two pieces. *)
LEMMA HalfwayInv ==
    ASSUME Inv, NEW s \in Sides, NEW t \in Threads, lock[s] = t, left[s][t] = 2,
           AppendsPiece(s, pc[s][t], 1), UNCHANGED <<pc, lock>>,
           left' = [left EXCEPT ![s][t] = 1],
           UNCHANGED call, UNCHANGED peerKey, OthersType
    PROVE  Inv'
  <1>1. /\ pc[s][t] \in Packets /\ ~Half(s)
        /\ pc["caller"]["setup"] # "connect"
    BY HolderFacts
  <1>2. /\ left' \in [Sides -> [Threads -> 0..2]]
        /\ \A e \in Sides, u \in Threads :
              left'[e][u] = IF e = s /\ u = t THEN 1 ELSE left[e][u]
    BY Except DEF Inv, WriterType
  <1>3. WriterType' /\ WriterInv'
    <2>1. \A e \in Sides : lock'[e] # None => left'[e][lock'[e]] > 0
      BY <1>2 DEF Inv, WriterType
    <2>2. \A e \in Sides, u \in Threads :
              /\ left'[e][u] > 0 <=> pc'[e][u] \in Packets
              /\ left'[e][u] = 1 => lock'[e] = u
      BY <1>1, <1>2 DEF Inv, WriterInv
    <2>3. QED
      BY <1>2, <2>1, <2>2 DEF Inv, WriterType, WriterInv
  <1>4. PhaseInv' /\ FreshInv'
    BY <1>1 DEF Inv, PhaseInv, FreshInv
  <1>5. Half(s)'
    BY <1>2 DEF Half
  <1>6. Peer(s) \in Sides /\ Peer(s) # s
    BY PeerFacts
  <1>7. \A u \in Threads : left'[Peer(s)][u] = left[Peer(s)][u]
    BY <1>2, <1>6
  <1>8. Half(Peer(s))' <=> Half(Peer(s))
    BY <1>7 DEF Half
  <1>9. /\ StreamType' /\ FramesInv'
        /\ pipe'[Peer(s)] = pipe[Peer(s)]
        /\ Len(pipe[s]) \in Nat
        /\ Len(pipe'[s]) = Len(pipe[s]) + 1
        /\ \A i \in 1..Len(pipe[s]) : pipe'[s][i] = pipe[s][i]
        /\ pipe'[s][Len(pipe[s]) + 1] = Piece(pc[s][t], 1)
    BY <1>1, <1>5, <1>8, AppendStreams DEF Inv
  <1>10. Accepted => Accepted'
    BY DEF Accepted
  <1>11. \A i \in 1..Len(pipe'["callee"]) :
            pipe'["callee"][i] = Piece("accept", 2) => Accepted'
    <2>1. SUFFICES ASSUME NEW i \in 1..Len(pipe'["callee"]),
                          pipe'["callee"][i] = Piece("accept", 2)
                   PROVE  Accepted
      BY <1>10
    <2>2. i \in 1..Len(pipe["callee"]) /\ pipe'["callee"][i] = pipe["callee"][i]
      <3>1. CASE s = "callee"
        <4>1. Piece(pc[s][t], 1) # Piece("accept", 2)
          BY DEF Piece
        <4>2. i # Len(pipe["callee"]) + 1
          BY <1>9, <2>1, <3>1, <4>1
        <4>3. i \in 1..Len(pipe["callee"])
          BY <1>9, <3>1, <4>2
        <4>4. QED
          BY <1>9, <3>1, <4>3
      <3>2. CASE s = "caller"
        BY <1>9, <3>2, PeerFacts
      <3>3. QED
        BY <3>1, <3>2 DEF Sides
    <2>3. QED
      BY <2>1, <2>2 DEF Inv, Agrees, ConsentInv
  <1>12. pc'["caller"]["setup"] = "connected" => Accepted
    BY DEF Inv, Agrees, ConsentInv
  <1>13. Agrees'
    BY <1>10, <1>11, <1>12, SameCall, AgreesKept DEF Inv, OthersType
  <1>14. QED
    BY <1>3, <1>4, <1>9, <1>13, InvFrom DEF Kept

(* The second one, after which the lock is free. *)
LEMMA LastPieceInv ==
    ASSUME Inv, NEW s \in Sides, NEW t \in Threads, lock[s] = t, left[s][t] = 1,
           AppendsPiece(s, pc[s][t], 2), Finishes(s, t, After),
           UNCHANGED call, UNCHANGED peerKey, OthersType
    PROVE  Inv'
  <1> DEFINE p == pc[s][t]
  <1>1. /\ p \in Packets /\ p \in Pcs(t) /\ Half(s)
        /\ p \notin {"accepted", "stranded"}
    BY HolderFacts DEF Packets
  <1>2. Kept /\ Ended(s, t, After[p]) /\ After[p] \in Pcs(t)
    BY FinishesKept DEF Inv
  <1>3. /\ ~Half(s)'
        /\ Half(Peer(s))' <=> Half(Peer(s))
        /\ Half(Peer(s)) => pc'[Peer(s)][lock'[Peer(s)]] = pc[Peer(s)][lock[Peer(s)]]
    BY <1>2, EndedKeeps DEF Inv
  <1>4. /\ StreamType' /\ FramesInv'
        /\ pipe'[Peer(s)] = pipe[Peer(s)]
        /\ Len(pipe[s]) \in Nat
        /\ Len(pipe'[s]) = Len(pipe[s]) + 1
        /\ \A i \in 1..Len(pipe[s]) : pipe'[s][i] = pipe[s][i]
        /\ pipe'[s][Len(pipe[s]) + 1] = Piece(p, 2)
    BY <1>1, <1>3, AppendStreams DEF Inv
  <1>5. \A e \in Sides, u \in Threads :
            pc'[e][u] = IF e = s /\ u = t THEN After[p] ELSE pc[e][u]
    BY <1>2 DEF Ended, Changed
  <1>6. Accepted => Accepted'
    BY <1>1, <1>5, PcsFacts DEF Accepted, Sides
  <1>7. s = "callee" /\ p = "accept" => Accepted'
    <2>1. SUFFICES ASSUME s = "callee", p = "accept" PROVE Accepted'
      OBVIOUS
    <2>2. t = "gui" /\ After[p] = "accepted"
      BY <1>1, <2>1, TableFacts
    <2>3. QED
      BY <1>5, <2>1, <2>2 DEF Accepted
  <1>8. \A i \in 1..Len(pipe'["callee"]) :
            pipe'["callee"][i] = Piece("accept", 2) => Accepted'
    <2>1. SUFFICES ASSUME NEW i \in 1..Len(pipe'["callee"]),
                          pipe'["callee"][i] = Piece("accept", 2)
                   PROVE  Accepted'
      OBVIOUS
    <2>2. CASE i \in 1..Len(pipe["callee"]) /\ pipe'["callee"][i] = pipe["callee"][i]
      BY <1>6, <2>1, <2>2 DEF Inv, Agrees, ConsentInv
    <2>3. CASE s = "callee"
      <3>1. CASE i = Len(pipe[s]) + 1
        <4>1. Piece(p, 2) = Piece("accept", 2)
          BY <1>4, <2>1, <2>3, <3>1
        <4>2. p = "accept"
          BY <4>1, PieceFacts
        <4>3. QED
          BY <1>7, <2>3, <4>2
      <3>2. CASE i # Len(pipe[s]) + 1
        <4>1. i \in 1..Len(pipe[s])
          BY <1>4, <2>3, <3>2
        <4>2. QED
          BY <1>4, <2>2, <2>3, <4>1
      <3>3. QED
        BY <3>1, <3>2
    <2>4. CASE s = "caller"
      BY <1>4, <2>2, <2>4, PeerFacts
    <2>5. QED
      BY <2>3, <2>4 DEF Sides
  <1>9. pc'["caller"]["setup"] = "connected" => Accepted
    BY <1>1, <1>5, TableFacts, PcsFacts DEF Inv, Agrees, ConsentInv, Sides
  <1>10. Agrees'
    BY <1>6, <1>8, <1>9, SameCall, AgreesKept DEF Inv, OthersType
  <1>11. QED
    BY <1>2, <1>4, <1>10, InvFrom

(* A packet that vanishes or cannot be written. *)
LEMMA LostInv ==
    ASSUME Inv, NEW s \in Sides, NEW t \in Threads, NEW next, next \in {After, IfFailed},
           lock[s] = t, left[s][t] > 0, Finishes(s, t, next),
           UNCHANGED <<open, cut, pipe, part, garbled>>,
           \/ ~Connected /\ UNCHANGED torn
           \/ torn' = [torn EXCEPT ![s] = @ \/ (Connected /\ left[s][t] = 1)],
           UNCHANGED call, UNCHANGED peerKey, OthersType
    PROVE  Inv'
  <1> DEFINE p == pc[s][t]
  <1>1. p \in Packets /\ p \in Pcs(t) /\ Stands(s, t, next[p])
    BY HolderFacts
  <1>2. Kept /\ Ended(s, t, next[p]) /\ next[p] \in Pcs(t)
    BY FinishesKept DEF Inv
  <1>3. /\ ~Half(s)'
        /\ Half(Peer(s))' <=> Half(Peer(s))
        /\ Half(Peer(s)) => pc'[Peer(s)][lock'[Peer(s)]] = pc[Peer(s)][lock[Peer(s)]]
    BY <1>2, EndedKeeps DEF Inv
  <1>4. StreamType' /\ FramesInv' /\ NothingNew
    BY <1>3, FailStreams DEF Inv
  <1>5. Changed(s, t, next[p], 0) /\ next[p] # "connected"
    BY <1>1, <1>2, TableFacts DEF Ended
  <1>6. Agrees'
    BY <1>1, <1>4, <1>5, SameCall, MoveAgrees DEF Inv, OthersType
  <1>7. QED
    BY <1>2, <1>4, <1>6, InvFrom

LEMMA WritingInv ==
    ASSUME Inv, NEW s \in Sides, NEW t \in Threads, Writing(s, t)
    PROVE  Inv'
  <1>1. CASE Acquire(s, t) /\ UNCHANGED linkVars
    BY <1>1, AcquireInv
  <1>2. CASE WritePiece(s, t) /\ Written(s, t)
    <2>1. UNCHANGED call /\ UNCHANGED peerKey /\ OthersType
      BY <1>2, WrittenOthers DEF Written
    <2>2. /\ lock[s] = t /\ left[s][t] > 0
          /\ pc[s][t] \in Packets /\ left[s][t] \in 1..2
      BY <1>2, HolderFacts DEF WritePiece
    <2>3. AppendsPiece(s, pc[s][t], 3 - left[s][t])
      BY <1>2, <2>2 DEF WritePiece, AppendsPiece
    <2>4. CASE left[s][t] = 1
      <3>1. AppendsPiece(s, pc[s][t], 2) /\ Finishes(s, t, After)
        BY <1>2, <2>3, <2>4 DEF WritePiece
      <3>2. QED
        BY <2>1, <2>2, <2>4, <3>1, LastPieceInv
    <2>5. CASE left[s][t] = 2
      <3>1. /\ AppendsPiece(s, pc[s][t], 1)
            /\ left' = [left EXCEPT ![s][t] = 1] /\ UNCHANGED <<pc, lock>>
        BY <1>2, <2>3, <2>5 DEF WritePiece
      <3>2. QED
        BY <2>1, <2>2, <2>5, <3>1, HalfwayInv
    <2>6. QED
      BY <2>2, <2>4, <2>5
  <1>3. CASE WriteVanishes(s, t) /\ Written(s, t)
    <2>1. UNCHANGED call /\ UNCHANGED peerKey /\ OthersType
      BY <1>3, WrittenOthers DEF Written
    <2>2. /\ lock[s] = t /\ left[s][t] > 0 /\ ~Connected
          /\ Finishes(s, t, After)
          /\ UNCHANGED <<open, cut, pipe, part, garbled>> /\ UNCHANGED torn
      BY <1>3 DEF WriteVanishes
    <2>3. QED
      BY <2>1, <2>2, LostInv
  <1>4. CASE WriteFails(s, t) /\ Failed(s, t)
    <2>1. UNCHANGED call /\ UNCHANGED peerKey /\ OthersType
      BY <1>4, WrittenOthers DEF Failed
    <2>2. /\ lock[s] = t /\ left[s][t] > 0
          /\ Finishes(s, t, IfFailed)
          /\ UNCHANGED <<open, cut, pipe, part, garbled>>
          /\ torn' = [torn EXCEPT ![s] = @ \/ (Connected /\ left[s][t] = 1)]
      BY <1>4 DEF WriteFails
    <2>3. QED
      BY <2>1, <2>2, LostInv
  <1>5. QED
    BY <1>1, <1>2, <1>3, <1>4 DEF Writing

-----------------------------------------------------------------------------
(* The actions one by one. *)
LEMMA SideFacts == "caller" \in Sides /\ "callee" \in Sides
  BY DEF Sides

LEMMA ConnectInv ==
    ASSUME Inv, Connect
    PROVE  Inv'
  <1>1. /\ pc["caller"]["setup"] = "connect"
        /\ UNCHANGED <<cut, pipe, part, garbled, torn, lock>> /\ UNCHANGED linkVars
    BY DEF Connect
  <1>2. UNCHANGED call /\ UNCHANGED peerKey /\ OthersType
    BY <1>1, SameOthers DEF linkVars, Inv
  <1>3. CASE Goes("caller", "setup", "gave up") /\ UNCHANGED open
    <2>1. MovesTo("caller", "setup", "gave up")
      BY <1>1, <1>3 DEF MovesTo, MayMove, Stands, Pcs, Packets
    <2>2. QED
      BY <1>1, <1>2, <1>3, <2>1, ThreadMoves, SideFacts, PcsFacts
  <1>4. CASE /\ open' = [s \in Sides |-> TRUE]
             /\ pc' = [pc EXCEPT !["caller"]["setup"] = "request",
                                 !["callee"]["setup"] = "first"]
             /\ left' = [left EXCEPT !["caller"]["setup"] = 2]
    <2>1. /\ pc["callee"]["setup"] = "off"
          /\ \A s \in Sides : /\ ~open[s] /\ pipe[s] = <<>> /\ part[s] = None
                              /\ pc[s]["gui"] = "running"
                              /\ \A t \in Threads : left[s][t] = 0
      BY <1>1 DEF Inv, FreshInv
    <2>2. /\ "request" \in PcValue /\ "first" \in PcValue
          /\ "request" \in Pcs("setup") /\ "first" \in Pcs("setup")
          /\ "request" \in Packets /\ "first" \notin Packets
          /\ "request" \notin {"connect", "connected"}
      BY PcsFacts DEF Pcs, Packets
    <2>3. /\ pc' \in [Sides -> [Threads -> PcValue]]
          /\ \A e \in Sides, u \in Threads :
                pc'[e][u] = IF u # "setup" THEN pc[e][u]
                            ELSE IF e = "caller" THEN "request" ELSE "first"
      <3>1. pc \in [Sides -> [Threads -> PcValue]]
        BY DEF Inv, WriterType
      <3>2. QED
        BY <1>4, <2>2, <3>1, PcsFacts DEF Sides
    <2>4. /\ left' \in [Sides -> [Threads -> 0..2]]
          /\ \A e \in Sides, u \in Threads :
                left'[e][u] = IF e = "caller" /\ u = "setup" THEN 2 ELSE 0
      <3>1. left \in [Sides -> [Threads -> 0..2]] /\ 2 \in 0..2
        BY DEF Inv, WriterType
      <3>2. /\ left' \in [Sides -> [Threads -> 0..2]]
            /\ \A e \in Sides, u \in Threads :
                  left'[e][u] = IF e = "caller" /\ u = "setup" THEN 2 ELSE left[e][u]
        BY <1>4, <3>1, Except, SideFacts, PcsFacts
      <3>3. QED
        BY <2>1, <3>2
    <2>5. \A e \in Sides : lock[e] = None
      BY <2>1 DEF Inv, WriterType
    <2>6. \A e \in Sides, u \in Threads : pc[e][u] \notin Packets
      BY <2>1 DEF Inv, WriterInv
    <2>7. WriterType'
      <3>1. \A e \in Sides, u \in Threads : pc'[e][u] \in Pcs(u)
        BY <2>2, <2>3 DEF Inv, WriterType
      <3>2. lock' = lock
        BY <1>1
      <3>3. QED
        BY <2>3, <2>4, <2>5, <3>1, <3>2 DEF Inv, WriterType
    <2>8. WriterInv'
      BY <2>2, <2>3, <2>4, <2>6, SideFacts DEF WriterInv, Sides
    <2>9. PhaseInv'
      <3>1. \A e \in Sides : call'[e] \in Early =>
                pc'[e]["send"] = "off" /\ pc'[e]["recv"] = "off"
        BY <1>2, <2>3, PcsFacts DEF Inv, PhaseInv
      <3>2. pc'["caller"]["gui"] = "running" /\ pc'["callee"]["gui"] = "running"
        BY <2>1, <2>3, PcsFacts, SideFacts
      <3>3. call'["caller"] = "dialing" /\ call'["callee"] = "idle"
        BY <1>1, <1>2, <2>1 DEF Inv, PhaseInv
      <3>4. QED
        BY <3>1, <3>2, <3>3 DEF PhaseInv
    <2>10. pc'["caller"]["setup"] = "request"
      BY <2>3, SideFacts, PcsFacts
    <2>11. FreshInv'
      BY <2>2, <2>10 DEF FreshInv
    <2>12. \A e \in Sides : ~Half(e)'
      BY <2>4 DEF Half
    <2>13. open' \in [Sides -> BOOLEAN]
      BY <1>4
    <2>14. StreamType' /\ FramesInv' /\ NothingNew
      BY <1>1, <2>1, <2>12, <2>13, OpenStreams DEF Inv
    <2>15. pc'["callee"]["gui"] = pc["callee"]["gui"]
      BY <2>3, SideFacts, PcsFacts
    <2>16. Accepted => Accepted'
      BY <1>2, <2>15 DEF Accepted
    <2>17. \A i \in 1..Len(pipe'["callee"]) :
              pipe'["callee"][i] = Piece("accept", 2) => Accepted'
      BY <2>14, <2>16, OldAccepts DEF Inv
    <2>18. Agrees'
      BY <1>2, <2>2, <2>10, <2>16, <2>17, SameCall, AgreesKept DEF Inv, OthersType
    <2>19. QED
      BY <2>7, <2>8, <2>9, <2>11, <2>14, <2>18, InvFrom DEF Kept
  <1>5. QED
    BY <1>3, <1>4 DEF Connect

(* The answer the caller waits for. *)
LEMMA AnswerAccepted ==
    ASSUME Inv, ReadPacket("caller", "accept")
    PROVE  Accepted
  <1> DEFINE q == pipe["callee"]
  <1>1. q # <<>> /\ Front("caller") = Piece("accept", 2) /\ Front("caller") = Head(q)
    BY PeerFacts DEF ReadPacket, Arrives, Completes, Front
  <1>2. q \in Seq(Pieces)
    BY SideFacts DEF Inv, StreamType
  <1>3. 1 \in 1..Len(q) /\ q[1] = Piece("accept", 2)
    BY <1>1, <1>2, TailFacts
  <1>4. QED
    BY <1>3 DEF Inv, Agrees, ConsentInv

LEMMA AwaitAnswerInv ==
    ASSUME Inv, AwaitAnswer
    PROVE  Inv'
  <1>1. pc["caller"]["setup"] = "await" /\ UNCHANGED linkVars
    BY DEF AwaitAnswer
  <1>2. /\ "await" \notin Packets /\ "setup" \in Threads
        /\ {"connected", "refused", "gave up"} \subseteq Pcs("setup")
        /\ {"connected", "refused", "gave up"} \cap Packets = {}
    BY PcsFacts DEF Packets, Pcs
  <1>3. \A at \in {"connected", "refused", "gave up"} :
            Goes("caller", "setup", at) /\ (at = "connected" => Accepted) =>
                MovesTo("caller", "setup", at)
    BY <1>1, <1>2 DEF MovesTo, MayMove, Stands
  <1>4. CASE ReadFirst("caller")
    <2>1. Reading("caller") /\ UNCHANGED lock
      BY <1>4, ReadsRead, SideFacts
    <2>2. UNCHANGED <<pc, left>>
      BY <1>4 DEF ReadFirst
    <2>3. QED
      BY <1>1, <2>1, <2>2, ReaderStays, SideFacts
  <1>5. ASSUME NEW p \in Packets, ReadPacket("caller", p),
               Goes("caller", "setup", CASE p = "accept" -> "connected"
                                         [] p = "reject" -> "refused"
                                         [] OTHER -> "gave up")
        PROVE  Inv'
    <2>1. Reading("caller") /\ UNCHANGED lock
      BY <1>5, ReadsRead, SideFacts
    <2>2. \E at \in {"connected", "refused", "gave up"} :
              Goes("caller", "setup", at) /\ (at = "connected" => p = "accept")
      BY <1>5
    <2>3. p = "accept" => Accepted
      BY <1>5, AnswerAccepted
    <2>4. \E at : MovesTo("caller", "setup", at)
      BY <1>3, <2>2, <2>3
    <2>5. QED
      BY <1>1, <1>2, <2>1, <2>4, ReaderMoves, SideFacts
  <1>6. CASE /\ Silent("caller") /\ Goes("caller", "setup", "gave up")
             /\ UNCHANGED <<open, cut, pipe, part, garbled, torn, lock>>
    <2>1. MovesTo("caller", "setup", "gave up")
      BY <1>3, <1>6
    <2>2. UNCHANGED call /\ UNCHANGED peerKey /\ OthersType
      BY <1>1, SameOthers DEF linkVars, Inv
    <2>3. QED
      BY <1>2, <1>6, <2>1, <2>2, ThreadMoves, SideFacts
  <1>7. QED
    BY <1>4, <1>5, <1>6 DEF AwaitAnswer

LEMMA HandleConnectionInv ==
    ASSUME Inv, HandleConnection
    PROVE  Inv'
  <1>1. pc["callee"]["setup"] = "first" /\ UNCHANGED linkVars
    BY DEF HandleConnection
  <1>2. /\ "first" \notin Packets /\ "setup" \in Threads
        /\ {"close", "posted", "reject"} \subseteq Pcs("setup")
        /\ "close" \notin Packets /\ "posted" \notin Packets /\ "reject" \in Packets
    BY PcsFacts DEF Packets, Pcs
  <1>3. /\ Goes("callee", "setup", "close") => MovesTo("callee", "setup", "close")
        /\ Goes("callee", "setup", "posted") => MovesTo("callee", "setup", "posted")
        /\ Writes("callee", "setup", "reject") => MovesTo("callee", "setup", "reject")
    BY <1>1, <1>2 DEF MovesTo, MayMove, Stands
  <1>4. CASE ReadFirst("callee")
    <2>1. Reading("callee") /\ UNCHANGED lock
      BY <1>4, ReadsRead, SideFacts
    <2>2. UNCHANGED <<pc, left>>
      BY <1>4 DEF ReadFirst
    <2>3. QED
      BY <1>1, <2>1, <2>2, ReaderStays, SideFacts
  <1>5. ASSUME NEW p \in Packets, ReadPacket("callee", p),
               CASE p # "request" -> Goes("callee", "setup", "close")
                 [] p = "request" /\ other = "busy" -> Writes("callee", "setup", "reject")
                 [] OTHER -> Goes("callee", "setup", "posted")
        PROVE  Inv'
    <2>1. Reading("callee") /\ UNCHANGED lock
      BY <1>5, ReadsRead, SideFacts
    <2>2. \/ Goes("callee", "setup", "close") \/ Goes("callee", "setup", "posted")
          \/ Writes("callee", "setup", "reject")
      BY <1>5
    <2>3. \E at : MovesTo("callee", "setup", at)
      BY <1>3, <2>2
    <2>4. QED
      BY <1>1, <1>2, <2>1, <2>3, ReaderMoves, SideFacts
  <1>6. CASE /\ Silent("callee") /\ Goes("callee", "setup", "close")
             /\ UNCHANGED <<open, cut, pipe, part, garbled, torn, lock>>
    <2>1. MovesTo("callee", "setup", "close")
      BY <1>3, <1>6
    <2>2. UNCHANGED call /\ UNCHANGED peerKey /\ OthersType
      BY <1>1, SameOthers DEF linkVars, Inv
    <2>3. QED
      BY <1>2, <1>6, <2>1, <2>2, ThreadMoves, SideFacts
  <1>7. QED
    BY <1>4, <1>5, <1>6 DEF HandleConnection

(* The call rings, or a manager that is not idle rejects it. *)
LEMMA OnIncomingInv ==
    ASSUME Inv, OnIncoming
    PROVE  Inv'
  <1>1. /\ pc["callee"]["setup"] = "posted"
        /\ UNCHANGED <<open, cut, pipe, part, garbled, torn>> /\ UNCHANGED lock
        /\ UNCHANGED <<other, notice>> /\ UNCHANGED peerKey
    BY DEF OnIncoming
  <1>2. OthersType
    BY <1>1, SameOthers DEF Inv
  <1>3. /\ pc["callee"]["gui"] = "running" /\ call["callee"] = "idle"
        /\ pc["caller"]["setup"] # "connect"
    BY <1>1 DEF Inv, PhaseInv, FreshInv
  <1>4. /\ "posted" \notin Packets /\ "done" \notin Packets /\ "running" \notin Packets
        /\ "done" \in Pcs("setup") /\ "reject" \in Pcs("gui") /\ "reject" \in Packets
        /\ "callee" # "caller"
    BY DEF Packets, Pcs
  <1>5. CASE /\ Goes("callee", "setup", "done")
             /\ call' = [call EXCEPT !["callee"] = "ringing"]
    <2>1. Turn("callee", "setup", "done")
      BY <1>1, <1>4, <1>5, GoesTurns, SideFacts, PcsFacts DEF Inv
    <2>2. WriterType' /\ WriterInv' /\ HalfKept
      BY <1>4, <2>1, TurnKeeps, SideFacts, PcsFacts DEF Inv
    <2>3. Changed("callee", "setup", "done", 0)
      BY <1>4, <2>1 DEF Turn
    <2>4. \A e \in Sides, u \in Threads :
              pc'[e][u] = IF e = "callee" /\ u = "setup" THEN "done" ELSE pc[e][u]
      BY <2>3 DEF Changed
    <2>5. /\ call' \in [Sides -> Stages]
          /\ \A e \in Sides : call'[e] = IF e = "callee" THEN "ringing" ELSE call[e]
      BY <1>5, ExceptSide, SideFacts DEF Inv, Agrees, LinkType, Stages
    <2>6. PhaseInv'
      <3>1. \A e \in Sides : call'[e] \in Early =>
                pc'[e]["send"] = "off" /\ pc'[e]["recv"] = "off"
        BY <1>3, <2>4, <2>5, PcsFacts DEF Inv, PhaseInv, Early
      <3>2. /\ pc'["caller"]["gui"] = pc["caller"]["gui"]
            /\ pc'["caller"]["setup"] = pc["caller"]["setup"]
            /\ call'["caller"] = call["caller"] /\ call'["callee"] = "ringing"
            /\ pc'["callee"]["setup"] = "done"
        BY <1>4, <2>4, <2>5, SideFacts, PcsFacts
      <3>3. QED
        BY <3>1, <3>2 DEF Inv, PhaseInv
    <2>7. pc'["caller"]["setup"] # "connect"
      BY <1>3, <1>4, <2>4, SideFacts, PcsFacts
    <2>8. FreshInv'
      BY <2>7 DEF FreshInv
    <2>9. StreamType' /\ FramesInv' /\ NothingNew
      BY <1>1, <2>2, StillStreams DEF Inv
    <2>10. \A e \in Sides : call'[e] = "in_call" => call[e] = "in_call"
      BY <2>5
    <2>11. Agrees'
      <3>1. Stands("callee", "setup", "done")
        BY <1>4, <1>1 DEF Stands
      <3>2. QED
        BY <1>1, <1>2, <1>4, <2>3, <2>5, <2>9, <2>10, <3>1, MoveAgrees, SideFacts, PcsFacts
           DEF Inv, OthersType
    <2>12. QED
      BY <2>2, <2>6, <2>8, <2>9, <2>11, InvFrom DEF Kept
  <1>6. CASE /\ pc' = [pc EXCEPT !["callee"]["setup"] = "done", !["callee"]["gui"] = "reject"]
             /\ left' = [left EXCEPT !["callee"]["gui"] = 2]
             /\ UNCHANGED call
    <2>1. left["callee"]["gui"] = 0 /\ left["callee"]["setup"] = 0
      BY <1>1, <1>3, <1>4, SideFacts, PcsFacts DEF Inv, WriterType, WriterInv
    <2>2. "done" \in PcValue /\ "reject" \in PcValue
      BY <1>4, PcsFacts
    <2>3. /\ pc' \in [Sides -> [Threads -> PcValue]]
          /\ \A e \in Sides, u \in Threads :
                pc'[e][u] = IF e = "callee" /\ u = "setup" THEN "done"
                            ELSE IF e = "callee" /\ u = "gui" THEN "reject" ELSE pc[e][u]
      <3>1. pc \in [Sides -> [Threads -> PcValue]]
        BY DEF Inv, WriterType
      <3>2. QED
        BY <1>6, <2>2, <3>1, PcsFacts, SideFacts
    <2>4. /\ left' \in [Sides -> [Threads -> 0..2]]
          /\ \A e \in Sides, u \in Threads :
                left'[e][u] = IF e = "callee" /\ u = "gui" THEN 2 ELSE left[e][u]
      <3>1. left \in [Sides -> [Threads -> 0..2]] /\ 2 \in 0..2
        BY DEF Inv, WriterType
      <3>2. QED
        BY <1>6, <3>1, Except, SideFacts, PcsFacts
    <2>5. WriterType'
      <3>1. \A e \in Sides, u \in Threads : pc'[e][u] \in Pcs(u)
        BY <1>4, <2>3 DEF Inv, WriterType
      <3>2. \A e \in Sides : lock'[e] # None => left'[e][lock'[e]] > 0
        BY <1>1, <2>4 DEF Inv, WriterType
      <3>3. QED
        BY <1>1, <2>3, <2>4, <3>1, <3>2 DEF Inv, WriterType
    <2>6. \A e \in Sides, u \in Threads : left'[e][u] = 1 <=> left[e][u] = 1
      BY <2>1, <2>4
    <2>7. WriterInv'
      <3>1. \A e \in Sides, u \in Threads : left'[e][u] > 0 <=> pc'[e][u] \in Packets
        BY <1>4, <2>1, <2>3, <2>4 DEF Inv, WriterInv
      <3>2. QED
        BY <1>1, <2>6, <3>1 DEF Inv, WriterInv
    <2>8. HalfKept
      <3>1. \A e \in Sides, u \in Threads : left[e][u] = 1 =>
                lock[e] = u /\ lock'[e] = u /\ pc'[e][u] = pc[e][u]
        BY <1>1, <2>1, <2>3 DEF Inv, WriterInv
      <3>2. QED
        BY <2>6, <3>1 DEF HalfKept, Half
    <2>9. PhaseInv'
      <3>1. \A e \in Sides : call'[e] \in Early =>
                pc'[e]["send"] = "off" /\ pc'[e]["recv"] = "off"
        BY <1>6, <2>3, PcsFacts DEF Inv, PhaseInv
      <3>2. /\ pc'["caller"]["gui"] = pc["caller"]["gui"]
            /\ pc'["caller"]["setup"] = pc["caller"]["setup"]
            /\ pc'["callee"]["setup"] = "done" /\ pc'["callee"]["gui"] = "reject"
        BY <1>4, <2>3, SideFacts, PcsFacts
      <3>3. QED
        BY <1>6, <3>1, <3>2 DEF Inv, PhaseInv
    <2>10. pc'["caller"]["setup"] = pc["caller"]["setup"]
      BY <1>4, <2>3, SideFacts, PcsFacts
    <2>11. FreshInv'
      BY <1>3, <2>10 DEF FreshInv
    <2>12. StreamType' /\ FramesInv' /\ NothingNew
      BY <1>1, <2>8, StillStreams DEF Inv
    <2>13. Accepted => Accepted'
      BY <1>1, <1>3 DEF Accepted
    <2>14. \A i \in 1..Len(pipe'["callee"]) :
              pipe'["callee"][i] = Piece("accept", 2) => Accepted'
      BY <2>12, <2>13, OldAccepts DEF Inv
    <2>15. pc'["caller"]["setup"] = "connected" => Accepted
      BY <2>10 DEF Inv, Agrees, ConsentInv
    <2>16. Agrees'
      BY <1>1, <1>2, <1>6, <2>13, <2>14, <2>15, SameCall, AgreesKept DEF Inv, OthersType
    <2>17. QED
      BY <2>5, <2>7, <2>9, <2>11, <2>12, <2>16, InvFrom DEF Kept
  <1>7. QED
    BY <1>5, <1>6 DEF OnIncoming

LEMMA SetupInv ==
    ASSUME Inv, NEW s \in Sides, Setup(s)
    PROVE  Inv'
  <1>1. CASE s = "callee" /\ ConnectionCloses
    <2>1. pc["callee"]["setup"] = "close" /\ Over("callee", "setup", "done")
      BY <1>1 DEF ConnectionCloses
    <2>2. MayEnd("callee", "setup", "done")
      BY <2>1 DEF MayEnd
    <2>3. QED
      BY <2>1, <2>2, Ends, SideFacts
  <1>2. QED
    BY <1>1, ConnectInv, AwaitAnswerInv, HandleConnectionInv, WritingInv, PcsFacts DEF Setup

LEMMA OnOutgoingInv ==
    ASSUME Inv, OnOutgoing
    PROVE  Inv'
  <1>1. CASE pc["caller"]["setup"] = "connected" /\ SessionBegins("caller", "setup")
    BY <1>1, Begins, SideFacts
  <1>2. CASE /\ pc["caller"]["setup"] \in {"connected", "gave up", "refused"}
             /\ Over("caller", "setup", "done")
    <2>1. MayEnd("caller", "setup", "done")
      BY <1>2 DEF MayEnd
    <2>2. QED
      BY <1>2, <2>1, Ends, SideFacts
  <1>3. CASE pc["caller"]["setup"] = "connected" /\ Strands("caller", "setup")
    <2>1. /\ pc["caller"]["gui"] = "running" /\ call["caller"] = "dialing"
          /\ UNCHANGED <<call, peerKey>> /\ OthersType
      BY <1>3, SameOthers DEF Strands, linkVars, Inv, PhaseInv
    <2>2. "stranded" \in Pcs("setup") /\ {"stranded", "connected"} \cap Packets = {}
      BY DEF Pcs, Packets
    <2>3. MovesTo("caller", "setup", "stranded")
      BY <1>3, <2>1, <2>2 DEF MovesTo, MayMove, Stands, Strands
    <2>4. QED
      BY <1>3, <2>1, <2>3, ThreadMoves, SideFacts, PcsFacts DEF Strands
  <1>4. QED
    BY <1>1, <1>2, <1>3 DEF OnOutgoing

LEMMA GuiInv ==
    ASSUME Inv, NEW s \in Sides, Gui(s)
    PROVE  Inv'
  <1>1. CASE s = "callee" /\ AcceptSent
    <2>1. CASE SessionBegins("callee", "gui")
      BY <1>1, <2>1, Begins, SideFacts DEF AcceptSent
    <2>2. CASE Strands("callee", "gui")
      <3>1. /\ pc["callee"]["gui"] = "accepted" /\ pc["callee"]["setup"] = "done"
            /\ UNCHANGED <<call, peerKey>> /\ OthersType
        BY <1>1, <2>2, SameOthers DEF AcceptSent, Strands, linkVars, Inv, PhaseInv
      <3>2. "stranded" \in Pcs("gui") /\ {"stranded", "accepted"} \cap Packets = {}
        BY DEF Pcs, Packets
      <3>3. MovesTo("callee", "gui", "stranded")
        BY <2>2, <3>1, <3>2 DEF MovesTo, MayMove, Stands, Strands
      <3>4. QED
        BY <2>2, <3>1, <3>3, ThreadMoves, SideFacts, PcsFacts DEF Strands
    <2>3. QED
      BY <1>1, <2>1, <2>2 DEF AcceptSent
  <1>2. CASE Watchdog(s)
    <2>1. OthersType
      BY <1>2, SameOthers DEF Inv, Watchdog
    <2>2. UNCHANGED <<sockVars, call, peerKey>>
      BY <1>2 DEF Watchdog
    <2>3. QED
      BY <2>1, <2>2, Rests
  <1>3. CASE OnNotice(s)
    <2>1. MayEnd(s, "gui", "running") /\ Over(s, "gui", "running")
      BY <1>3 DEF OnNotice, InCall, MayEnd
    <2>2. QED
      BY <2>1, Ends
  <1>4. CASE Teardown(s)
    <2>1. MayEnd(s, "gui", "running") /\ Over(s, "gui", "running")
      BY <1>4 DEF Teardown, MayEnd
    <2>2. QED
      BY <2>1, Ends
  <1>5. QED
    BY <1>1, <1>2, <1>3, <1>4, OnOutgoingInv, OnIncomingInv, WritingInv, PcsFacts DEF Gui

(* A thread of a call begins a packet. *)
LEMMA BeginsPacket ==
    ASSUME Inv, NEW s \in Sides, NEW t \in Threads, NEW p,
           p \in Pcs(t), p \in Packets, pc[s][t] \in {"running", "read"},
           call[s] = "in_call", t # "setup", p # "accept",
           s = "callee" /\ t = "gui" => pc[s]["setup"] = "done",
           Writes(s, t, p)
    PROVE  MovesTo(s, t, p)
  BY DEF MovesTo, MayMove, Stands, Packets, Early

LEMMA InCallFacts ==
    ASSUME Inv, NEW s \in Sides, call[s] = "in_call"
    PROVE  s = "callee" => pc[s]["setup"] = "done"
  BY DEF Inv, PhaseInv

LEMMA SendInv ==
    ASSUME Inv, NEW s \in Sides, Send(s)
    PROVE  Inv'
  <1>1. CASE SendFrame(s)
    <2>1. /\ pc[s]["send"] = "running" /\ call[s] = "in_call"
          /\ Writes(s, "send", "audio")
          /\ UNCHANGED <<open, cut, pipe, part, garbled, torn, lock, call, peerKey>>
          /\ UNCHANGED other /\ UNCHANGED notice
      BY <1>1 DEF SendFrame
    <2>2. "audio" \in Pcs("send") /\ "audio" \in Packets
      BY DEF Pcs, Packets
    <2>3. MovesTo(s, "send", "audio")
      BY <2>1, <2>2, BeginsPacket, PcsFacts
    <2>4. OthersType
      BY <2>1, SameOthers DEF Inv
    <2>5. QED
      BY <2>1, <2>3, <2>4, ThreadMoves, PcsFacts
  <1>2. QED
    BY <1>1, WritingInv, PcsFacts DEF Send

LEMMA GuiBeginsInv ==
    ASSUME Inv, NEW s \in Sides, NEW p \in {"ping", "end"}, InCall(s),
           Writes(s, "gui", p), UNCHANGED <<open, cut, pipe, part, garbled, torn, lock>>,
           UNCHANGED linkVars
    PROVE  Inv'
  <1>1. UNCHANGED call /\ UNCHANGED peerKey /\ OthersType
    BY SameOthers DEF linkVars, Inv
  <1>2. p \in Pcs("gui") /\ p \in Packets /\ p # "accept"
    BY DEF Pcs, Packets
  <1>3. pc[s]["gui"] = "running" /\ call[s] = "in_call"
    BY DEF InCall
  <1>4. MovesTo(s, "gui", p)
    BY <1>2, <1>3, BeginsPacket, InCallFacts, PcsFacts
  <1>5. QED
    BY <1>1, <1>4, ThreadMoves, PcsFacts

LEMMA RecvInv ==
    ASSUME Inv, NEW s \in Sides, Recv(s)
    PROVE  Inv'
  <1>1. "recv" \in Threads /\ "read" \notin Packets /\ "done" \notin Packets
    BY DEF Threads, Packets
  <1>2. /\ "done" \in Pcs("recv") /\ "pong" \in Pcs("recv") /\ "ack" \in Pcs("recv")
        /\ "pong" \in Packets /\ "ack" \in Packets
    BY DEF Pcs, Packets
  <1>3. pc[s]["recv"] = "read" /\ Goes(s, "recv", "done") => MovesTo(s, "recv", "done")
    <2>1. pc[s]["recv"] = "read" => call[s] \notin Early
      BY DEF Inv, PhaseInv
    <2>2. QED
      BY <1>1, <1>2, <2>1 DEF MovesTo, MayMove, Stands
  <1>4. CASE RecvReads(s)
    <2>1. pc[s]["recv"] = "read" /\ call[s] = "in_call" /\ UNCHANGED linkVars
      BY <1>4 DEF RecvReads
    <2>2. CASE ReadFirst(s)
      <3>1. Reading(s) /\ UNCHANGED lock
        BY <2>2, ReadsRead
      <3>2. UNCHANGED <<pc, left>>
        BY <2>2 DEF ReadFirst
      <3>3. QED
        BY <2>1, <3>1, <3>2, ReaderStays
    <2>3. ASSUME NEW p \in Packets, ReadPacket(s, p),
                 CASE p = "ping" -> Writes(s, "recv", "pong")
                   [] p = "end"  -> Writes(s, "recv", "ack")
                   [] OTHER      -> UNCHANGED <<pc, left>>
          PROVE  Inv'
      <3>1. Reading(s) /\ UNCHANGED lock
        BY <2>3, ReadsRead
      <3>2. \/ Writes(s, "recv", "pong") \/ Writes(s, "recv", "ack")
            \/ UNCHANGED <<pc, left>>
        BY <2>3
      <3>3. CASE UNCHANGED <<pc, left>>
        BY <2>1, <3>1, <3>3, ReaderStays
      <3>4. CASE Writes(s, "recv", "pong") \/ Writes(s, "recv", "ack")
        <4>1. \E q \in {"pong", "ack"} : MovesTo(s, "recv", q)
          BY <1>1, <1>2, <2>1, <3>4, BeginsPacket
        <4>2. QED
          BY <1>1, <2>1, <3>1, <4>1, ReaderMoves
      <3>5. QED
        BY <3>2, <3>3, <3>4
    <2>4. CASE ReadGarbage(s) /\ Goes(s, "recv", "done")
      <3>1. Reading(s) /\ UNCHANGED lock
        BY <2>4, ReadsRead
      <3>2. QED
        BY <1>1, <1>3, <2>1, <2>4, <3>1, ReaderMoves
    <2>5. QED
      BY <1>4, <2>2, <2>3, <2>4 DEF RecvReads
  <1>5. CASE RecvEnds(s)
    <2>1. /\ pc[s]["recv"] = "read" /\ Goes(s, "recv", "done")
          /\ UNCHANGED notice \/ Posts(s)
          /\ UNCHANGED <<open, cut, pipe, part, garbled, torn, lock, call, peerKey>>
          /\ UNCHANGED other
      BY <1>5 DEF RecvEnds
    <2>2. OthersType
      BY <2>1, SameOthers DEF Inv
    <2>3. QED
      BY <1>1, <1>3, <2>1, <2>2, ThreadMoves
  <1>6. QED
    BY <1>1, <1>4, <1>5, WritingInv DEF Recv

LEMMA UserInv ==
    ASSUME Inv, User
    PROVE  Inv'
  <1>1. CASE OtherCall
    <2>1. UNCHANGED <<sockVars, call, peerKey>> /\ UNCHANGED notice
      BY <1>1 DEF OtherCall
    <2>2. other' \in {"nothing", "dialing", "busy"}
      BY <1>1 DEF OtherCall
    <2>3. OthersType
      BY <2>1, <2>2 DEF OthersType, Inv, Agrees, LinkType
    <2>4. QED
      BY <2>1, <2>3, Rests
  <1>2. ASSUME Ringing, UNCHANGED <<open, cut, pipe, part, garbled, torn, lock>>,
               UNCHANGED linkVars, NEW at,
               \/ at \in {"accept", "reject"} /\ Writes("callee", "gui", at)
               \/ at = "close" /\ Goes("callee", "gui", at)
        PROVE  Inv'
    <2>1. UNCHANGED call /\ UNCHANGED peerKey /\ OthersType
      BY <1>2, SameOthers DEF linkVars, Inv
    <2>2. /\ pc["callee"]["gui"] = "running" /\ call["callee"] = "ringing"
          /\ pc["callee"]["setup"] = "done"
      BY <1>2 DEF Ringing, Inv, PhaseInv
    <2>3. /\ {"accept", "reject", "close"} \subseteq Pcs("gui")
          /\ {"accept", "reject"} \subseteq Packets
          /\ "close" \notin Packets /\ "running" \notin Packets
      BY DEF Pcs, Packets
    <2>4. MovesTo("callee", "gui", at)
      BY <1>2, <2>2, <2>3 DEF MovesTo, MayMove, Stands
    <2>5. QED
      BY <1>2, <2>1, <2>4, ThreadMoves, SideFacts, PcsFacts
  <1>3. CASE AcceptCall \/ RejectCall
    BY <1>2, <1>3 DEF AcceptCall, RejectCall
  <1>4. ASSUME NEW s \in Sides, HangUp(s) PROVE Inv'
    BY <1>4, GuiBeginsInv DEF HangUp
  <1>5. QED
    BY <1>1, <1>3, <1>4 DEF User

LEMMA NextInv ==
    ASSUME Inv, [Next]_vars
    PROVE  Inv'
  <1>1. ASSUME NEW s \in Sides, SendPing(s) PROVE Inv'
    <2>1. UNCHANGED linkVars
      BY <1>1 DEF SendPing, linkVars
    <2>2. QED
      BY <1>1, <2>1, GuiBeginsInv DEF SendPing
  <1>2. CASE CircuitBreaks /\ UNCHANGED linkVars
    <2>1. UNCHANGED call /\ UNCHANGED peerKey /\ OthersType
      BY <1>2, SameOthers DEF linkVars, Inv
    <2>2. UNCHANGED <<pc, left, lock, call>>
      BY <1>2, <2>1 DEF CircuitBreaks
    <2>3. pc["caller"]["setup"] # "connect"
      BY <1>2, ConnectedFacts, SideFacts DEF CircuitBreaks, Inv, FreshInv
    <2>4. Kept
      BY <2>2, <2>3, RestKept DEF Inv
    <2>5. StreamType' /\ FramesInv' /\ NothingNew
      BY <1>2, BreakStreams DEF Inv
    <2>6. Agrees'
      BY <2>1, <2>2, <2>5, SameCall, RestAgrees DEF Inv, OthersType
    <2>7. QED
      BY <2>4, <2>5, <2>6, InvFrom
  <1>3. CASE UNCHANGED vars
    <2>1. UNCHANGED <<sockVars, call, peerKey>> /\ OthersType
      BY <1>3, SameOthers DEF vars, linkVars, Inv
    <2>2. QED
      BY <2>1, Rests
  <1>4. QED
    BY <1>1, <1>2, <1>3, SetupInv, GuiInv, SendInv, RecvInv, UserInv DEF Next

LEMMA InitInv == Init => Inv
  <1> SUFFICES ASSUME Init PROVE Inv
    OBVIOUS
  <1>1. /\ open = [s \in Sides |-> FALSE] /\ cut = FALSE
        /\ pipe = [s \in Sides |-> <<>>] /\ part = [s \in Sides |-> None]
        /\ garbled = [s \in Sides |-> FALSE] /\ torn = [s \in Sides |-> FALSE]
        /\ lock = [s \in Sides |-> None]
        /\ left = [s \in Sides |-> [t \in Threads |-> 0]]
    BY DEF Init, SocketInit
  <1>2. /\ pc = [s \in Sides |-> [t \in Threads |->
                   IF t = "gui" THEN "running"
                   ELSE IF t = "setup" /\ s = "caller" THEN "connect" ELSE "off"]]
        /\ call = [s \in Sides |-> IF s = "caller" THEN "dialing" ELSE "idle"]
        /\ other = "nothing"
        /\ notice = [s \in Sides |-> FALSE] /\ peerKey = [s \in Sides |-> None]
    BY DEF Init
  <1>3. /\ \A s \in Sides : /\ pc[s]["gui"] = "running"
                            /\ pc[s]["send"] = "off" /\ pc[s]["recv"] = "off"
        /\ pc["caller"]["setup"] = "connect" /\ pc["callee"]["setup"] = "off"
    BY <1>2, SideFacts, PcsFacts
  <1>4. /\ "running" \in Pcs("gui") /\ "connect" \in Pcs("setup")
        /\ \A t \in {"setup", "send", "recv"} : "off" \in Pcs(t)
        /\ {"running", "connect", "off"} \cap Packets = {}
    BY DEF Pcs, Packets
  <1>5. WriterType
    <2>1. pc \in [Sides -> [Threads -> PcValue]]
      BY <1>2, <1>4, PcsFacts
    <2>2. \A s \in Sides, t \in Threads : pc[s][t] \in Pcs(t)
      BY <1>3, <1>4, PcsFacts DEF Sides
    <2>3. QED
      BY <1>1, <2>1, <2>2 DEF WriterType
  <1>6. WriterInv
    BY <1>1, <1>3, <1>4, PcsFacts DEF WriterInv, Sides
  <1>7. call["caller"] = "dialing" /\ call["callee"] = "idle"
    BY <1>2, SideFacts
  <1>8. PhaseInv
    BY <1>3, <1>7, SideFacts DEF PhaseInv
  <1>9. FreshInv
    BY <1>1, <1>3 DEF FreshInv
  <1>10. \A e \in Sides : pipe[e] = <<>> /\ Len(pipe[e]) = 0
    BY <1>1, EmptySeq
  <1>11. StreamType
    <2>1. <<>> \in Seq(Pieces)
      OBVIOUS
    <2>2. pipe \in [Sides -> Seq(Pieces)]
      BY <1>1, <2>1
    <2>3. \A s \in Sides : Len(pipe[s]) <= Capacity
      BY <1>10, CapacityAssumption DEF CapacityAssumption
    <2>4. /\ open \in [Sides -> BOOLEAN] /\ cut \in BOOLEAN
          /\ garbled \in [Sides -> BOOLEAN] /\ torn \in [Sides -> BOOLEAN]
          /\ part \in [Sides -> Packets \cup {None}]
      BY <1>1
    <2>5. QED
      BY <2>2, <2>3, <2>4 DEF StreamType
  <1>12. ~Connected
    BY <1>1, SideFacts DEF Connected
  <1>13. FramesInv
    BY <1>1, <1>10, <1>12 DEF FramesInv, InTurn
  <1>14. Agrees
    <2>1. LinkType
      BY <1>2 DEF LinkType, Stages
    <2>2. KeyInv
      BY <1>2 DEF KeyInv
    <2>3. ConsentInv
      BY <1>3, <1>7, <1>10, SideFacts DEF ConsentInv
    <2>4. QED
      BY <2>1, <2>2, <2>3 DEF Agrees
  <1>15. QED
    BY <1>5, <1>6, <1>8, <1>9, <1>11, <1>13, <1>14 DEF Inv

-----------------------------------------------------------------------------
LEMMA LinkInvariant == Spec => []Inv
  BY InitInv, NextInv, PTL DEF Spec

(* Program counters, pieces, locks and sockets keep their types: the       *)
(* holder of a lock has pieces left to write, and no direction holds more  *)
(* pieces than its buffers take.                                           *)
THEOREM LinkTypeCorrect == Spec => []TypeOK
  <1>1. Inv => TypeOK
    BY DEF Inv, TypeOK, StreamType, WriterType, Agrees, LinkType, Stages, PcValue
  <1>2. QED
    BY <1>1, LinkInvariant, PTL

(* Both ends derive one secret, use its halves crosswise, and put the two  *)
(* public keys in the same order.                                          *)
LEMMA CryptoFacts ==
    ASSUME NEW a \in Nat, NEW b \in Nat
    PROVE  /\ DeriveSessionKeys(a, b, TRUE).send = DeriveSessionKeys(b, a, FALSE).recv
           /\ DeriveSessionKeys(b, a, FALSE).send = DeriveSessionKeys(a, b, TRUE).recv
           /\ DeriveSessionKeys(a, b, TRUE).send # DeriveSessionKeys(a, b, TRUE).recv
           /\ DeriveSessionKeys(b, a, FALSE).send # DeriveSessionKeys(b, a, FALSE).recv
           /\ ComputeSas(a, b) = ComputeSas(b, a)
  <1>1. {a, b} = {b, a}
    OBVIOUS
  <1>2. /\ DeriveSessionKeys(a, b, TRUE).send = <<{a, b}, "to callee">>
        /\ DeriveSessionKeys(a, b, TRUE).recv = <<{a, b}, "to caller">>
        /\ DeriveSessionKeys(b, a, FALSE).send = <<{a, b}, "to caller">>
        /\ DeriveSessionKeys(b, a, FALSE).recv = <<{a, b}, "to callee">>
    BY <1>1 DEF DeriveSessionKeys, Ecdh
  <1>3. \A x : <<x, "to callee">> # <<x, "to caller">>
    OBVIOUS
  <1>4. a <= b /\ b <= a => a = b
    OBVIOUS
  <1>5. a <= b \/ b <= a
    OBVIOUS
  <1>6. ComputeSas(a, b) = ComputeSas(b, a)
    BY <1>4, <1>5 DEF ComputeSas
  <1>7. QED
    BY <1>2, <1>3, <1>6

(* Any two ends with different ephemeral keys that are both in the call    *)
(* agree on it: what one seals the other opens, the directions differ, the *)
(* words to compare are equal; and the caller is in the call only after    *)
(* the callee accepted it.                                                 *)
THEOREM EndsAgree == Spec => []SessionAgreed
  <1>1. Inv => SessionAgreed
    <2>1. SUFFICES ASSUME Inv PROVE SessionAgreed
      OBVIOUS
    <2>2. call["caller"] = "in_call" =>
              peerKey["callee"] # None \/ pc["callee"]["gui"] \in {"accepted", "stranded"}
      BY <2>1 DEF Inv, Agrees, ConsentInv, Accepted
    <2>3. ASSUME \A s \in Sides : call[s] = "in_call"
          PROVE  \A s \in Sides : peerKey[s] = Ephemeral[Peer(s)]
      BY <2>1, <2>3 DEF Inv, Agrees, KeyInv
    <2>4. ASSUME \A s \in Sides : peerKey[s] = Ephemeral[Peer(s)], NEW s \in Sides
          PROVE  /\ SessionKeys(s).send = SessionKeys(Peer(s)).recv
                 /\ SessionKeys(s).send # SessionKeys(s).recv
                 /\ Sas(s) = Sas(Peer(s))
      <3>1. /\ Peer(s) \in Sides /\ Peer(Peer(s)) = s
            /\ (s = "caller") # (Peer(s) = "caller")
        BY PeerFacts DEF Sides
      <3>2. peerKey[s] = Ephemeral[Peer(s)] /\ peerKey[Peer(s)] = Ephemeral[s]
        BY <2>4, <3>1
      <3>3. Ephemeral[s] \in Nat /\ Ephemeral[Peer(s)] \in Nat
        BY <3>1, NoneFacts
      <3>4. /\ Sas(s) = ComputeSas(Ephemeral[s], Ephemeral[Peer(s)])
            /\ Sas(Peer(s)) = ComputeSas(Ephemeral[Peer(s)], Ephemeral[s])
        BY <3>2 DEF Sas
      <3>5. CASE s = "caller"
        <4>1. (s = "caller") = TRUE /\ (Peer(s) = "caller") = FALSE
          BY <3>1, <3>5
        <4>2. /\ SessionKeys(s)
                   = DeriveSessionKeys(Ephemeral[s], Ephemeral[Peer(s)], TRUE)
              /\ SessionKeys(Peer(s))
                   = DeriveSessionKeys(Ephemeral[Peer(s)], Ephemeral[s], FALSE)
          BY <3>2, <4>1 DEF SessionKeys
        <4>3. QED
          BY <3>3, <3>4, <4>2, CryptoFacts, ZenonT(60)
      <3>6. CASE s # "caller"
        <4>1. (s = "caller") = FALSE /\ (Peer(s) = "caller") = TRUE
          BY <3>1, <3>6
        <4>2. /\ SessionKeys(s)
                   = DeriveSessionKeys(Ephemeral[s], Ephemeral[Peer(s)], FALSE)
              /\ SessionKeys(Peer(s))
                   = DeriveSessionKeys(Ephemeral[Peer(s)], Ephemeral[s], TRUE)
          BY <3>2, <4>1 DEF SessionKeys
        <4>3. QED
          BY <3>3, <3>4, <4>2, CryptoFacts
      <3>7. QED
        BY <3>5, <3>6
    <2>5. QED
      BY <2>2, <2>3, <2>4 DEF SessionAgreed
  <1>2. QED
    BY <1>1, LinkInvariant, PTL

(* Whatever the size of the buffers, and whichever of its three threads    *)
(* write: nothing is read out of a direction that was not written to it as *)
(* a packet, unless a write was given up halfway.                          *)
THEOREM NothingMisread == Spec => [](\A s \in Sides : garbled[s] => torn[s])
  <1>1. Inv => \A s \in Sides : garbled[s] => torn[s]
    BY DEF Inv, FramesInv
  <1>2. QED
    BY <1>1, LinkInvariant, PTL

-----------------------------------------------------------------------------
(* The packets in a stream of pieces: Whole is defined by recursion, and   *)
(* what it gives for every stream follows by induction over its length.    *)

(* Induction over the naturals, for a set of them. *)
LEMMA SetInduction ==
    ASSUME NEW S, 0 \in S, \A n \in Nat : n \in S => n + 1 \in S
    PROVE  Nat \subseteq S
  <1> DEFINE Out == Nat \ S
             Less == OpToRel(<, Nat)
  <1>1. SUFFICES ASSUME Out # {} PROVE FALSE
    OBVIOUS
  <1>2. IsWellFoundedOn(Less, Nat)
    BY NatLessThanWellFounded
  <1>3. PICK m \in Out : \A n \in Out : <<n, m>> \notin Less
    <2> HIDE DEF Less
    <2>1. Out \subseteq Nat
      OBVIOUS
    <2>2. QED
      BY ONLY <1>1, <1>2, <2>1, WFMin
  <1>4. \A n \in Out : ~ (n < m)
    BY <1>3 DEF OpToRel
  <1>5. m # 0 /\ m - 1 \in Out
    OBVIOUS
  <1>6. QED
    BY <1>4, <1>5

(* f[n] is Whole of the first n pieces of q, for n up to m. *)
UpTo(f, q, m) ==
    f = [n \in 0..m |->
           IF n = 0 THEN <<>>
           ELSE IF q[n].piece = 2 THEN Append(f[n - 1], q[n].packet)
           ELSE f[n - 1]]

Steps(f, q, m) ==
    /\ f[0] = <<>>
    /\ \A n \in 1..m : f[n] = IF q[n].piece = 2 THEN Append(f[n - 1], q[n].packet)
                              ELSE f[n - 1]

LEMMA UpToSteps ==
    ASSUME NEW q, NEW m \in Nat, NEW f, UpTo(f, q, m)
    PROVE  Steps(f, q, m)
  <1> DEFINE val(n) == IF n = 0 THEN <<>>
                       ELSE IF q[n].piece = 2 THEN Append(f[n - 1], q[n].packet)
                       ELSE f[n - 1]
  <1>1. f = [n \in 0..m |-> val(n)]
    BY DEF UpTo
  <1>2. ASSUME NEW n \in 0..m PROVE f[n] = val(n)
    <2> HIDE DEF val
    <2>1. QED
      BY <1>1
  <1>3. 0 \in 0..m /\ \A n \in 1..m : n \in 0..m /\ n # 0
    OBVIOUS
  <1>4. QED
    BY <1>2, <1>3 DEF Steps

LEMMA UpToExtends ==
    ASSUME NEW q \in Seq(Pieces), NEW m \in Nat, m + 1 <= Len(q),
           NEW f \in [0..m -> Seq(Packets)], UpTo(f, q, m)
    PROVE  \E g \in [0..(m + 1) -> Seq(Packets)] : UpTo(g, q, m + 1)
  <1> DEFINE x == IF q[m + 1].piece = 2 THEN Append(f[m], q[m + 1].packet) ELSE f[m]
             g == [n \in 0..(m + 1) |-> IF n = m + 1 THEN x ELSE f[n]]
  <1>1. x \in Seq(Packets)
    <2>1. q[m + 1] \in Pieces /\ f[m] \in Seq(Packets)
      OBVIOUS
    <2>2. QED
      BY <2>1, PieceFacts
  <1>2. g \in [0..(m + 1) -> Seq(Packets)]
    <2> HIDE DEF x
    <2>1. QED
      BY <1>1
  <1>3. ASSUME NEW n \in 0..(m + 1)
        PROVE  g[n] = IF n = 0 THEN <<>>
                      ELSE IF q[n].piece = 2 THEN Append(g[n - 1], q[n].packet)
                      ELSE g[n - 1]
    <2>1. CASE n = m + 1
      <3>1. g[n] = x /\ g[n - 1] = f[m] /\ n # 0
        BY <2>1
      <3>2. QED
        BY <2>1, <3>1
    <2>2. CASE n # m + 1
      <3>1. n \in 0..m /\ g[n] = f[n] /\ (n # 0 => n \in 1..m /\ g[n - 1] = f[n - 1])
        BY <2>2
      <3>2. Steps(f, q, m)
        BY UpToSteps
      <3>3. QED
        <4> HIDE DEF g
        <4>1. QED
          BY <3>1, <3>2 DEF Steps
    <2>3. QED
      BY <2>1, <2>2
  <1>4. UpTo(g, q, m + 1)
    <2> HIDE DEF x
    <2>1. QED
      BY <1>3 DEF UpTo
  <1>5. QED
    BY <1>2, <1>4

LEMMA UpToExists ==
    ASSUME NEW q \in Seq(Pieces)
    PROVE  \E f \in [0..Len(q) -> Seq(Packets)] : UpTo(f, q, Len(q))
  <1> DEFINE Good == {m \in Nat : m <= Len(q) =>
                         \E f \in [0..m -> Seq(Packets)] : UpTo(f, q, m)}
  <1>1. 0 \in Good
    <2> DEFINE f == [n \in 0..0 |-> <<>>]
    <2>1. f \in [0..0 -> Seq(Packets)]
      OBVIOUS
    <2>2. UpTo(f, q, 0)
      BY DEF UpTo
    <2>3. QED
      BY <2>1, <2>2
  <1>2. ASSUME NEW m \in Nat, m \in Good PROVE m + 1 \in Good
    <2>1. m + 1 <= Len(q) => m <= Len(q)
      OBVIOUS
    <2>2. QED
      BY <1>2, <2>1, UpToExtends
  <1>3. Len(q) \in Good
    <2> HIDE DEF Good
    <2>1. Nat \subseteq Good
      BY <1>1, <1>2, SetInduction
    <2>2. QED
      BY <2>1
  <1>4. QED
    BY <1>3

Agree(q, r, k) == \A n \in 1..k : q[n] = r[n]

LEMMA UpToAgree ==
    ASSUME NEW q \in Seq(Pieces), NEW r \in Seq(Pieces), NEW f, NEW g,
           UpTo(f, q, Len(q)), UpTo(g, r, Len(r)),
           NEW k \in Nat, k <= Len(q), k <= Len(r),
           Agree(q, r, k)
    PROVE  f[k] = g[k]
  <1> DEFINE Good == {m \in Nat : m <= k => f[m] = g[m]}
  <1> Steps(f, q, Len(q)) /\ Steps(g, r, Len(r))
    BY UpToSteps
  <1>1. 0 \in Good
    BY DEF Steps
  <1>2. ASSUME NEW m \in Nat, m \in Good PROVE m + 1 \in Good
    <2> SUFFICES ASSUME m + 1 <= k PROVE f[m + 1] = g[m + 1]
      OBVIOUS
    <2>1. m + 1 \in 1..Len(q) /\ m + 1 \in 1..Len(r) /\ q[m + 1] = r[m + 1]
      BY DEF Agree
    <2>2. f[m] = g[m] /\ (m + 1) - 1 = m
      BY <1>2
    <2>3. QED
      BY <2>1, <2>2 DEF Steps
  <1>3. Nat \subseteq Good
    <2> HIDE DEF Good
    <2>1. QED
      BY <1>1, <1>2, SetInduction
  <1>4. QED
    BY <1>3

LEMMA WholeUpTo ==
    ASSUME NEW q \in Seq(Pieces)
    PROVE  \E f \in [0..Len(q) -> Seq(Packets)] :
              UpTo(f, q, Len(q)) /\ Whole(q) = f[Len(q)]
  <1> DEFINE h == CHOOSE f : UpTo(f, q, Len(q))
  <1>1. PICK f \in [0..Len(q) -> Seq(Packets)] : UpTo(f, q, Len(q))
    BY UpToExists
  <1>2. UpTo(h, q, Len(q))
    BY <1>1
  <1>3. Whole(q) = h[Len(q)]
    BY DEF Whole, UpTo
  <1>4. h[Len(q)] = f[Len(q)]
    <2> HIDE DEF h
    <2>1. Agree(q, q, Len(q))
      BY DEF Agree
    <2>2. QED
      BY <1>1, <1>2, <2>1, UpToAgree
  <1>5. QED
    BY <1>1, <1>3, <1>4

LEMMA WholeEmpty == Whole(<<>>) = <<>>
  <1>1. <<>> \in Seq(Pieces) /\ Len(<<>>) = 0
    OBVIOUS
  <1>2. PICK f : UpTo(f, <<>>, 0) /\ Whole(<<>>) = f[0]
    BY <1>1, WholeUpTo
  <1>3. QED
    BY <1>2, UpToSteps DEF Steps

LEMMA WholeAppend ==
    ASSUME NEW q \in Seq(Pieces), NEW u \in Pieces
    PROVE  /\ Whole(q) \in Seq(Packets)
           /\ Whole(Append(q, u)) = IF u.piece = 2 THEN Append(Whole(q), u.packet)
                                    ELSE Whole(q)
  <1> DEFINE r == Append(q, u)
             n == Len(q)
  <1>1. /\ n \in Nat /\ r \in Seq(Pieces) /\ Len(r) = n + 1 /\ r[n + 1] = u
        /\ \A i \in 1..n : q[i] = r[i]
    OBVIOUS
  <1>2. PICK f \in [0..n -> Seq(Packets)] : UpTo(f, q, n) /\ Whole(q) = f[n]
    BY WholeUpTo
  <1> HIDE DEF r
  <1>3. PICK g \in [0..(n + 1) -> Seq(Packets)] : UpTo(g, r, n + 1) /\ Whole(r) = g[n + 1]
    BY <1>1, WholeUpTo
  <1>4. f[n] = g[n]
    <2>1. UpTo(f, q, Len(q)) /\ UpTo(g, r, Len(r)) /\ n <= Len(q) /\ n <= Len(r)
      BY <1>1, <1>2, <1>3
    <2>2. Agree(q, r, n)
      BY <1>1 DEF Agree
    <2>3. QED
      BY <1>1, <2>1, <2>2, UpToAgree
  <1>5. g[n + 1] = IF r[n + 1].piece = 2 THEN Append(g[n], r[n + 1].packet) ELSE g[n]
    <2>1. n + 1 \in Nat /\ n + 1 \in 1..(n + 1) /\ (n + 1) - 1 = n
      BY <1>1
    <2>2. Steps(g, r, n + 1)
      BY <1>3, <2>1, UpToSteps
    <2>3. QED
      BY <2>1, <2>2 DEF Steps
  <1>6. Whole(q) \in Seq(Packets)
    BY <1>1, <1>2
  <1>7. QED
    BY <1>1, <1>2, <1>3, <1>4, <1>5, <1>6 DEF r

(* Taking the first piece takes a packet exactly if it was the last of one. *)
Fits(q) ==
    IF Head(q).piece = 2 THEN Whole(q) # <<>> /\ Whole(Tail(q)) = Tail(Whole(q))
    ELSE Whole(Tail(q)) = Whole(q)

LEMMA FitsAppend ==
    ASSUME NEW o \in Seq(Pieces), o # <<>>, NEW u \in Pieces, Fits(o)
    PROVE  Fits(Append(o, u))
  <1> DEFINE r == Append(o, u)
  <1>1. Head(r) = Head(o) /\ Tail(r) = Append(Tail(o), u) /\ Tail(o) \in Seq(Pieces)
    BY HeadTailAppend, HeadTailProperties
  <1>2. /\ Whole(r) = IF u.piece = 2 THEN Append(Whole(o), u.packet) ELSE Whole(o)
        /\ Whole(Append(Tail(o), u)) = IF u.piece = 2 THEN Append(Whole(Tail(o)), u.packet)
                                       ELSE Whole(Tail(o))
        /\ Whole(o) \in Seq(Packets) /\ u.packet \in Packets
    BY <1>1, WholeAppend, PieceFacts
  <1>3. \A w \in Seq(Packets), p \in Packets :
           w # <<>> => Append(w, p) # <<>> /\ Tail(Append(w, p)) = Append(Tail(w), p)
    OBVIOUS
  <1> HIDE DEF r
  <1>4. QED
    BY <1>1, <1>2, <1>3 DEF Fits, r

LEMMA WholeTail ==
    ASSUME NEW q \in Seq(Pieces), q # <<>>
    PROVE  Fits(q)
  <1> DEFINE Good == {n \in Nat : \A r \in Seq(Pieces) : Len(r) = n /\ r # <<>> => Fits(r)}
  <1>1. 0 \in Good
    BY EmptySeq
  <1>2. ASSUME NEW n \in Nat, n \in Good PROVE n + 1 \in Good
    <2> SUFFICES ASSUME NEW r \in Seq(Pieces), Len(r) = n + 1, r # <<>> PROVE Fits(r)
      OBVIOUS
    <2>1. PICK o \in Seq(Pieces), u \in Pieces : r = Append(o, u)
      BY SequenceEmptyOrAppend
    <2>2. Len(o) = n
      BY <2>1, AppendProperties
    <2>3. CASE o = <<>>
      <3>1. /\ Head(r) = u /\ Tail(r) = <<>>
            /\ Whole(r) = IF u.piece = 2 THEN Append(<<>>, u.packet) ELSE <<>>
        BY <2>1, <2>3, HeadTailAppend, WholeAppend, WholeEmpty, ZenonT(60)
      <3>2. ASSUME NEW p \in Packets
            PROVE  Append(<<>>, p) # <<>> /\ Tail(Append(<<>>, p)) = <<>>
        OBVIOUS
      <3>3. QED
        BY <3>1, <3>2, WholeEmpty, PieceFacts DEF Fits
    <2>4. CASE o # <<>>
      BY <1>2, <2>1, <2>2, <2>4, FitsAppend
    <2>5. QED
      BY <2>3, <2>4
  <1>3. Nat \subseteq Good
    <2> HIDE DEF Good
    <2>1. QED
      BY <1>1, <1>2, SetInduction
  <1>4. Len(q) \in Nat
    OBVIOUS
  <1>5. QED
    BY <1>3, <1>4

-----------------------------------------------------------------------------
(* What a step may do to the two byte streams. *)
Tears(s) ==
    /\ \E half \in BOOLEAN : torn' = [torn EXCEPT ![s] = @ \/ half]
    /\ UNCHANGED <<pipe, garbled>>

StreamStep ==
    \/ UNCHANGED <<pipe, torn, garbled>>
    \/ \E s \in Sides : \/ Reading(s) \/ Tears(s)
                        \/ Closes(s)
                        \/ \E p, n : AppendsPiece(s, p, n)
    \/ CircuitBreaks

LEMMA ReaderSteps ==
    ASSUME NEW s \in Sides,
           ReadFirst(s) \/ (\E p \in Packets : ReadPacket(s, p)) \/ ReadGarbage(s)
    PROVE  StreamStep
  BY ReadsRead DEF StreamStep

LEMMA WriterSteps ==
    ASSUME Inv, NEW s \in Sides, NEW t \in Threads, Writing(s, t)
    PROVE  StreamStep
  <1>1. CASE WritePiece(s, t)
    <2>1. left[s][t] \in 0..2 /\ left[s][t] > 0 /\ pc[s][t] \in Packets
      BY <1>1 DEF WritePiece, Inv, WriterType, WriterInv
    <2>2. 3 - left[s][t] \in 1..2
      BY <2>1
    <2>3. AppendsPiece(s, pc[s][t], 3 - left[s][t])
      BY <1>1, <2>1, <2>2 DEF WritePiece, AppendsPiece
    <2>4. QED
      BY <2>3 DEF StreamStep
  <1>2. CASE WriteFails(s, t)
    BY <1>2 DEF WriteFails, StreamStep, Tears
  <1>3. CASE Acquire(s, t) \/ WriteVanishes(s, t)
    BY <1>3 DEF Acquire, WriteVanishes, StreamStep
  <1>4. QED
    BY <1>1, <1>2, <1>3 DEF Writing

LEMMA EveryStep ==
    ASSUME Inv, [Next]_vars
    PROVE  StreamStep
  <1>1. ASSUME NEW s \in Sides, Setup(s) PROVE StreamStep
    <2>1. CASE Connect
      BY <2>1 DEF Connect, StreamStep
    <2>2. CASE AwaitAnswer
      BY <2>2, ReaderSteps, SideFacts DEF AwaitAnswer, StreamStep
    <2>3. CASE HandleConnection
      BY <2>3, ReaderSteps, SideFacts DEF HandleConnection, StreamStep
    <2>4. CASE ConnectionCloses
      BY <2>4, SideFacts DEF ConnectionCloses, Over, StreamStep
    <2>5. CASE Writing(s, "setup")
      BY <2>5, WriterSteps, PcsFacts
    <2>6. QED
      BY <1>1, <2>1, <2>2, <2>3, <2>4, <2>5 DEF Setup
  <1>2. ASSUME NEW s \in Sides, Gui(s) PROVE StreamStep
    <2>1. CASE OnOutgoing
      BY <2>1, SideFacts DEF OnOutgoing, Over, SessionBegins, Strands, StreamStep
    <2>2. CASE OnIncoming \/ AcceptSent
      BY <2>2 DEF OnIncoming, AcceptSent, SessionBegins, Strands, StreamStep
    <2>3. CASE Watchdog(s)
      BY <2>3 DEF Watchdog, sockVars, StreamStep
    <2>4. CASE OnNotice(s) \/ Teardown(s)
      BY <2>4 DEF OnNotice, Teardown, Over, StreamStep
    <2>5. CASE Writing(s, "gui")
      BY <2>5, WriterSteps, PcsFacts
    <2>6. QED
      BY <1>2, <2>1, <2>2, <2>3, <2>4, <2>5 DEF Gui
  <1>3. ASSUME NEW s \in Sides, Send(s) PROVE StreamStep
    <2>1. CASE SendFrame(s)
      BY <2>1 DEF SendFrame, StreamStep
    <2>2. CASE Writing(s, "send")
      BY <2>2, WriterSteps, PcsFacts
    <2>3. QED
      BY <1>3, <2>1, <2>2 DEF Send
  <1>4. ASSUME NEW s \in Sides, Recv(s) PROVE StreamStep
    <2>1. CASE RecvReads(s)
      BY <2>1, ReaderSteps DEF RecvReads
    <2>2. CASE RecvEnds(s)
      BY <2>2 DEF RecvEnds, StreamStep
    <2>3. CASE Writing(s, "recv")
      BY <2>3, WriterSteps, PcsFacts
    <2>4. QED
      BY <1>4, <2>1, <2>2, <2>3 DEF Recv
  <1>5. CASE User \/ \E s \in Sides : SendPing(s)
    BY <1>5 DEF User, OtherCall, AcceptCall, RejectCall, HangUp, SendPing, sockVars, StreamStep
  <1>6. CASE CircuitBreaks \/ UNCHANGED vars
    BY <1>6 DEF vars, sockVars, StreamStep
  <1>7. QED
    BY <1>1, <1>2, <1>3, <1>4, <1>5, <1>6 DEF Next

-----------------------------------------------------------------------------
(* Each of them, as a step of the channel. *)
InChannel == [Channel!Next]_<<[s \in Sides |-> Whole(pipe[s])], torn, garbled>>

LEMMA SameChannel ==
    ASSUME \A e \in Sides : Whole(pipe'[e]) = Whole(pipe[e]), UNCHANGED <<torn, garbled>>
    PROVE  InChannel
  BY DEF InChannel

LEMMA ReadsInChannel ==
    ASSUME Inv, Inv', NEW s \in Sides, Reading(s)
    PROVE  InChannel
  <1> DEFINE d == Peer(s)
             q == pipe[d]
             chan == [e \in Sides |-> Whole(pipe[e])]
             x == Tail(Whole(q))
  <1>1. d \in Sides /\ d # s
    BY PeerFacts
  <1>2. q \in Seq(Pieces) /\ q # <<>> /\ pipe \in [Sides -> Seq(Pieces)]
    BY <1>1 DEF Reading, Inv, StreamType
  <1>3. \A e \in Sides : pipe'[e] = IF e = d THEN Tail(q) ELSE pipe[e]
    BY <1>1, <1>2 DEF Reading
  <1>4. Fits(q) /\ Front(s) = Head(q)
    BY <1>2, WholeTail DEF Front
  <1>5. CASE Front(s).piece = 1 /\ UNCHANGED garbled
    <2>1. \A e \in Sides : Whole(pipe'[e]) = Whole(pipe[e])
      BY <1>3, <1>4, <1>5 DEF Fits
    <2>2. QED
      BY <1>5, <2>1, SameChannel DEF Reading
  <1>6. CASE Front(s).piece = 2 /\ UNCHANGED garbled
    <2>1. Whole(q) # <<>> /\ Whole(Tail(q)) = Tail(Whole(q))
      BY <1>4, <1>6 DEF Fits
    <2>2. Channel!Receive(d)
      <3>1. chan' = [chan EXCEPT ![d] = x]
        <4>1. \A e \in Sides : Whole(pipe'[e]) = IF e = d THEN x ELSE Whole(pipe[e])
          BY <1>3, <2>1
        <4>2. QED
          <5> HIDE DEF x, q, d
          <5>1. QED
            BY <4>1
      <3>2. x = Tail(chan[d]) /\ chan[d] # <<>>
        BY <1>1, <2>1
      <3>3. QED
        BY <1>6, <3>1, <3>2 DEF Channel!Receive, Reading
    <2>3. QED
      BY <1>1, <2>2 DEF InChannel, Channel!Next
  <1>7. CASE garbled' = [garbled EXCEPT ![d] = TRUE]
    <2>1. garbled'[d]
      BY <1>1, <1>7 DEF Inv, StreamType
    <2>2. torn[d]
      BY <1>1, <2>1 DEF Inv, FramesInv, Reading
    <2>3. Channel!Garble(d)
      BY <1>1, <1>3, <1>7, <2>2 DEF Channel!Garble, Reading
    <2>4. QED
      BY <1>1, <2>3 DEF InChannel, Channel!Next
  <1>8. QED
    BY <1>5, <1>6, <1>7, PieceFacts DEF Reading

LEMMA WritesInChannel ==
    ASSUME Inv, NEW s \in Sides, NEW p, NEW n, AppendsPiece(s, p, n)
    PROVE  InChannel
  <1>1. /\ pipe[s] \in Seq(Pieces) /\ Piece(p, n) \in Pieces /\ p \in Packets
        /\ Piece(p, n).packet = p /\ Piece(p, n).piece = n /\ n \in 1..2
    BY PieceFacts DEF AppendsPiece, Inv, StreamType
  <1>2. \A e \in Sides : pipe'[e] = IF e = s THEN Append(pipe[s], Piece(p, n)) ELSE pipe[e]
    BY DEF AppendsPiece, Inv, StreamType
  <1>3. Whole(pipe'[s]) = IF n = 2 THEN Append(Whole(pipe[s]), p) ELSE Whole(pipe[s])
    BY <1>1, <1>2, WholeAppend
  <1>4. CASE n = 1
    BY <1>2, <1>3, <1>4, SameChannel DEF AppendsPiece
  <1>5. CASE n = 2
    <2> DEFINE chan == [e \in Sides |-> Whole(pipe[e])]
               x == Append(Whole(pipe[s]), p)
    <2>1. Channel!Send(s, p)
      <3>1. chan' = [chan EXCEPT ![s] = x]
        <4>1. \A e \in Sides : Whole(pipe'[e]) = IF e = s THEN x ELSE Whole(pipe[e])
          BY <1>2, <1>3, <1>5
        <4>2. QED
          <5> HIDE DEF x
          <5>1. QED
            BY <4>1
      <3>2. x = Append(chan[s], p)
        OBVIOUS
      <3>3. QED
        BY <3>1, <3>2 DEF Channel!Send, AppendsPiece
    <2>2. QED
      BY <1>1, <2>1 DEF InChannel, Channel!Next
  <1>6. QED
    BY <1>1, <1>4, <1>5

LEMMA EndsInChannel ==
    ASSUME \A e \in Sides : pipe'[e] \in {pipe[e], <<>>}, UNCHANGED <<torn, garbled>>
    PROVE  InChannel
  <1> DEFINE gone == {e \in Sides : pipe'[e] = <<>>}
  <1>1. Channel!Lose(gone)
    BY WholeEmpty DEF Channel!Lose
  <1>2. gone \in SUBSET Sides
    OBVIOUS
  <1>3. QED
    BY <1>1, <1>2 DEF InChannel, Channel!Next

LEMMA TearsInChannel ==
    ASSUME Inv, NEW s \in Sides, Tears(s)
    PROVE  InChannel
  <1>1. PICK half \in BOOLEAN : torn' = [torn EXCEPT ![s] = @ \/ half]
    BY DEF Tears
  <1>2. CASE half
    <2>1. Channel!Break(s)
      BY <1>1, <1>2 DEF Channel!Break, Tears
    <2>2. QED
      BY <2>1 DEF InChannel, Channel!Next
  <1>3. CASE ~half
    <2>1. torn' = torn
      BY <1>1, <1>3 DEF Inv, StreamType
    <2>2. QED
      BY <2>1, SameChannel DEF Tears
  <1>4. QED
    BY <1>2, <1>3

(* For buffers of any size, and whichever threads write: the connection is *)
(* the abstract channel.  Packets are read whole, once and in the order    *)
(* they were written, until the connection ends or one was given up        *)
(* halfway.                                                                *)
THEOREM ImplementsPacketChannel == Spec => ChannelSpec
  <1>1. Init => Channel!Init
    BY WholeEmpty DEF Init, SocketInit, Channel!Init
  <1>2. ASSUME Inv, Inv', [Next]_vars
        PROVE  InChannel
    <2>1. ASSUME NEW s \in Sides, Closes(s) PROVE InChannel
      <3>1. \A e \in Sides : pipe'[e] \in {pipe[e], <<>>}
        BY <2>1 DEF Closes
      <3>2. QED
        BY <2>1, <3>1, EndsInChannel DEF Closes
    <2>2. CASE CircuitBreaks
      BY <2>2, EndsInChannel DEF CircuitBreaks
    <2>3. CASE UNCHANGED <<pipe, torn, garbled>>
      BY <2>3, SameChannel
    <2>4. QED
      BY <1>2, <2>1, <2>2, <2>3, EveryStep, ReadsInChannel, WritesInChannel, TearsInChannel
         DEF StreamStep
  <1>3. Inv /\ Inv' /\ [Next]_vars =>
            [Channel!Next]_<<[s \in Sides |-> Whole(pipe[s])], torn, garbled>>
    BY <1>2 DEF InChannel
  <1>4. QED
    BY <1>1, <1>3, LinkInvariant, PTL DEF Spec, ChannelSpec, Channel!Spec

-----------------------------------------------------------------------------
(* No circular wait.  The threads of the two ends wait for each other over *)
(* full buffers and two locks; what follows names whom the holder of a     *)
(* lock waits for.                                                         *)

(* The holder of the lock of end s can take its next step: pass on a piece *)
(* or fail.                                                                *)
WritesOn(s) == lock[s] # None /\ (Blocked(s) \/ ~Full(s))

(* End s takes a piece off what its peer writes; or one of its threads is  *)
(* about to begin the session or to end it.                                *)
ReadsOn(s) ==
    /\ Arrives(s)
    /\ \/ pc[s]["recv"] = "read" /\ call[s] = "in_call"
       \/ pc[s]["setup"] \in {"await", "first"} /\ ~Misplaced(s)

SessionDue(s) ==
    \/ s = "caller" /\ pc[s]["setup"] \in {"connected", "gave up", "refused"}
    \/ s = "callee" /\ (pc[s]["gui"] = "accepted" \/ pc[s]["setup"] = "close")

(* The holder of a lock goes on, or the reader at the other end does; or   *)
(* that reader has an answer to send, and its lock is free, or whoever     *)
(* holds it goes on, or does when the reader here does.                    *)
NoCircularWait ==
    \A s \in Sides : lock[s] # None =>
        LET e == Peer(s) IN
        \/ WritesOn(s)
        \/ ReadsOn(e) \/ SessionDue(e)
        \/ /\ pc[e]["recv"] \in {"pong", "ack"}
           /\ lock[e] = None \/ WritesOn(e) \/ ReadsOn(s) \/ SessionDue(s)

(* What it rests on: how the two ends get from the connection to the call. *)
(* Until the request is written the callee does nothing but read it; an    *)
(* end whose receive thread has not begun, but may begin yet, finds every  *)
(* packet whole.                                                           *)
RouteInv ==
    /\ \A s \in Sides :
          /\ call[s] = "over" => ~open[s]
          /\ call[s] = "in_call" => pc[s]["recv"] # "off"
          /\ pc[s]["recv"] = "off" => ~torn[Peer(s)] \/ Stranded(s)
    /\ call["caller"] \in {"dialing", "in_call", "over"}
    /\ call["caller"] = "dialing" => pc["caller"]["setup"] # "done"
    /\ pc["caller"]["setup"] \in {"connect", "request", "await", "connected",
                                  "gave up", "refused", "stranded", "done"}
    /\ pc["callee"]["setup"] \in {"off", "first", "posted", "reject", "close", "done"}
    /\ pc["callee"]["setup"] = "off" => ~open["callee"]
    /\ peerKey["callee"] # None => call["callee"] \in {"in_call", "over"}
    /\ pc["caller"]["setup"] = "request" /\ open["callee"] =>
          /\ pc["callee"]["setup"] \in {"first", "close"}
          /\ \A i \in 1..Len(pipe["caller"]) : pipe["caller"][i].piece = 1

(* Who can be writing before the session. *)
LEMMA EarlyWriters ==
    ASSUME Inv, RouteInv
    PROVE  /\ \A t \in Threads : call["caller"] = "dialing" /\ left["caller"][t] > 0 =>
                 t = "setup" /\ pc["caller"]["setup"] = "request"
           /\ pc["callee"]["setup"] \in {"first", "close"} =>
                 \A t \in Threads : left["callee"][t] = 0
  <1>1. \A s \in Sides, t \in Threads : left[s][t] > 0 => pc[s][t] \in Packets
    BY DEF Inv, WriterInv
  <1>2. \A s \in Sides, t \in Threads : left[s][t] \in 0..2
    BY DEF Inv, WriterType
  <1>3. ASSUME call["caller"] = "dialing", NEW t \in Threads, left["caller"][t] > 0
        PROVE  t = "setup" /\ pc["caller"]["setup"] = "request"
    <2>1. /\ pc["caller"]["send"] = "off" /\ pc["caller"]["recv"] = "off"
          /\ pc["caller"]["gui"] = "running"
      BY <1>3, SideFacts DEF Inv, PhaseInv, Early
    <2>2. pc["caller"][t] \in Packets
      BY <1>1, <1>3, SideFacts
    <2>3. t = "setup"
      BY <2>1, <2>2, PcsFacts DEF Packets
    <2>4. QED
      BY <2>2, <2>3 DEF RouteInv, Packets
  <1>4. ASSUME pc["callee"]["setup"] \in {"first", "close"}, NEW t \in Threads
        PROVE  left["callee"][t] = 0
    <2>1. call["callee"] = "idle" /\ pc["callee"]["gui"] = "running"
      BY <1>4 DEF Inv, PhaseInv
    <2>2. pc["callee"]["send"] = "off" /\ pc["callee"]["recv"] = "off"
      BY <2>1, SideFacts DEF Inv, PhaseInv, Early
    <2>3. pc["callee"][t] \notin Packets
      BY <1>4, <2>1, <2>2, PcsFacts DEF Packets
    <2>4. QED
      BY <1>1, <1>2, <2>3, SideFacts
  <1>5. QED
    BY <1>3, <1>4

(* A reader that is not itself writing does what the writer waits for. *)
LEMMA ReaderReady ==
    ASSUME Inv, RouteInv, NEW e \in Sides, Connected, Reads(e),
           lock[Peer(e)] # None, Full(Peer(e))
    PROVE  ReadsOn(e) \/ SessionDue(e)
  <1> DEFINE s == Peer(e)
  <1>1. s \in Sides /\ Peer(s) = e
    BY PeerFacts
  <1>2. open[e] /\ open[s]
    BY <1>1, ConnectedFacts
  <1>3. call[e] # "over" /\ call[s] # "over"
    BY <1>1, <1>2 DEF RouteInv
  <1>4. pipe[s] \in Seq(Pieces) /\ Len(pipe[s]) > 0
    BY <1>1, CapacityAssumption DEF Full, CapacityAssumption, Inv, StreamType
  <1>5. pipe[s] # <<>> /\ Arrives(e)
    BY <1>2, <1>4, EmptySeq DEF Arrives
  <1>6. lock[s] \in Threads /\ left[s][lock[s]] > 0
    BY <1>1 DEF Inv, WriterType
  <1>7. CASE pc[e]["recv"] = "read"
    <2>1. call[e] \notin Early
      BY <1>7 DEF Inv, PhaseInv
    <2>2. call[e] = "in_call"
      BY <1>3, <2>1 DEF Early, Inv, Agrees, LinkType, Stages
    <2>3. QED
      BY <1>5, <1>7, <2>2 DEF ReadsOn
  <1>8. CASE pc[e]["recv"] = "off"
    <2>1. call[e] \in Early
      BY <1>3, <1>8 DEF RouteInv, Early, Inv, Agrees, LinkType, Stages
    <2>2. ~torn[s] /\ ~Stranded(e)
      BY <1>8 DEF RouteInv, Reads
    <2>3. ~Misplaced(e)
      <3>1. IF part[e] = None THEN pipe[s][1].piece = 1 ELSE pipe[s][1] = Piece(part[e], 2)
        BY <1>1, <1>5, <2>2 DEF Inv, FramesInv, InTurn
      <3>2. Front(e) = pipe[s][1]
        BY <1>4, <1>5, TailFacts DEF Front
      <3>3. QED
        BY <3>1, <3>2 DEF Misplaced, Completes
    <2>4. CASE e = "callee"
      <3>1. s = "caller"
        BY <2>4, PeerFacts
      <3>2. CASE call["caller"] = "dialing"
        <4>1. pc["caller"]["setup"] = "request"
          BY <1>6, <3>1, <3>2, EarlyWriters
        <4>2. pc["callee"]["setup"] \in {"first", "close"}
          BY <1>2, <2>4, <4>1 DEF RouteInv
        <4>3. QED
          BY <1>5, <2>3, <2>4, <4>2 DEF ReadsOn, SessionDue
      <3>3. CASE call["caller"] = "in_call"
        <4>1. Accepted
          BY <3>3 DEF Inv, Agrees, ConsentInv
        <4>2. peerKey["callee"] = None
          BY <2>1, <2>4 DEF RouteInv, Early
        <4>3. QED
          BY <2>2, <2>4, <4>1, <4>2 DEF Accepted, SessionDue, Stranded
      <3>4. QED
        BY <1>3, <3>1, <3>2, <3>3 DEF RouteInv
    <2>5. CASE e = "caller"
      <3>1. s = "callee" /\ call["caller"] = "dialing"
        BY <2>1, <2>5, PeerFacts DEF RouteInv, Early
      <3>2. pc["caller"]["setup"] # "connect"
        BY <1>2, <2>5 DEF Inv, FreshInv
      <3>3. pc["caller"]["setup"] # "request"
        <4>1. SUFFICES ASSUME pc["caller"]["setup"] = "request" PROVE FALSE
          OBVIOUS
        <4>2. pc["callee"]["setup"] \in {"first", "close"}
          BY <1>2, <3>1, <4>1 DEF RouteInv
        <4>3. QED
          BY <1>6, <3>1, <4>2, EarlyWriters
      <3>4. pc["caller"]["setup"] \in {"await", "connected", "gave up", "refused"}
        BY <2>2, <2>5, <3>1, <3>2, <3>3 DEF RouteInv, Stranded
      <3>5. QED
        BY <1>5, <2>3, <2>5, <3>4 DEF ReadsOn, SessionDue
    <2>6. QED
      BY <2>4, <2>5 DEF Sides
  <1>9. QED
    BY <1>7, <1>8 DEF Reads

LEMMA NobodyWaitsInACircle == ASSUME Inv, RouteInv PROVE NoCircularWait
  <1>1. SUFFICES ASSUME NEW s \in Sides, lock[s] # None, ~WritesOn(s)
                 PROVE  LET e == Peer(s) IN
                        \/ ReadsOn(e) \/ SessionDue(e)
                        \/ /\ pc[e]["recv"] \in {"pong", "ack"}
                           /\ lock[e] = None \/ WritesOn(e) \/ ReadsOn(s) \/ SessionDue(s)
    BY DEF NoCircularWait
  <1> DEFINE e == Peer(s)
  <1>2. e \in Sides /\ Peer(e) = s
    BY PeerFacts
  <1>3. Connected /\ Full(s) /\ ~Stuck(s)
    BY <1>1 DEF WritesOn, Blocked
  <1>4. CASE Reads(e)
    BY <1>1, <1>2, <1>3, <1>4, ReaderReady
  <1>5. CASE ~Reads(e)
    <2>1. pc[e]["recv"] # "done" /\ ~Stranded(e) /\ (~Full(e) \/ Reads(s))
      BY <1>3, <1>5 DEF Stuck
    <2>2. pc[e]["recv"] \in {"pong", "ack"}
      <3>1. pc[e]["recv"] \in Pcs("recv")
        BY <1>2, PcsFacts DEF Inv, WriterType
      <3>2. QED
        BY <1>5, <2>1, <3>1 DEF Pcs, Reads
    <2>3. CASE ~Full(e)
      BY <2>2, <2>3 DEF WritesOn
    <2>4. CASE Full(e) /\ Reads(s) /\ lock[e] # None
      BY <1>2, <1>3, <2>2, <2>4, ReaderReady
    <2>5. QED
      BY <2>1, <2>2, <2>3, <2>4
  <1>6. QED
    BY <1>4, <1>5

(* Steps that leave the stages of the call where they are, but for the     *)
(* first ring.                                                             *)
FirstPieces == \A i \in 1..Len(pipe["caller"]) : pipe["caller"][i].piece = 1

TearsLate ==
    \A e \in Sides : torn'[e] =>
        torn[e] \/ pc[Peer(e)]["recv"] # "off" \/ Stranded(Peer(e))

StaysStranded == \A e \in Sides : Stranded(e) => Stranded(e)'

LEMMA RouteKept ==
    ASSUME RouteInv, UNCHANGED <<open, peerKey>>, TearsLate, StaysStranded,
           call'["caller"] = call["caller"],
           \/ call'["callee"] = call["callee"]
           \/ {call["callee"], call'["callee"]} \subseteq {"idle", "ringing"},
           \A e \in Sides : pc'[e]["recv"] = "off" <=> pc[e]["recv"] = "off",
           pc'["caller"]["setup"] \in {pc["caller"]["setup"], "await", "connected",
                                       "gave up", "refused", "stranded"},
           \/ pc'["callee"]["setup"] = pc["callee"]["setup"]
           \/ /\ pc["callee"]["setup"] # "off"
              /\ pc'["callee"]["setup"] \in {"posted", "reject", "close", "done"},
           pc'["caller"]["setup"] = "request" /\ open["callee"] =>
              /\ pc'["callee"]["setup"] \in {pc["callee"]["setup"], "close"}
              /\ FirstPieces => FirstPieces'
    PROVE  RouteInv'
  <1>1. \A s \in Sides :
            /\ call'[s] \in {"in_call", "over"} => call'[s] = call[s]
            /\ call[s] \in {"in_call", "over"} => call'[s] = call[s]
    BY DEF Sides
  <1>2. \A s \in Sides :
            /\ call'[s] = "over" => ~open'[s]
            /\ call'[s] = "in_call" => pc'[s]["recv"] # "off"
            /\ pc'[s]["recv"] = "off" => ~torn'[Peer(s)] \/ Stranded(s)'
    <2>1. SUFFICES ASSUME NEW s \in Sides
                   PROVE  /\ call'[s] = "over" => ~open'[s]
                          /\ call'[s] = "in_call" => pc'[s]["recv"] # "off"
                          /\ pc'[s]["recv"] = "off" => ~torn'[Peer(s)] \/ Stranded(s)'
      OBVIOUS
    <2>2. /\ call[s] = "over" => ~open[s]
          /\ call[s] = "in_call" => pc[s]["recv"] # "off"
          /\ pc[s]["recv"] = "off" => ~torn[Peer(s)] \/ Stranded(s)
      BY DEF RouteInv
    <2>3. /\ torn'[Peer(s)] => torn[Peer(s)] \/ pc[s]["recv"] # "off" \/ Stranded(s)
          /\ Stranded(s) => Stranded(s)'
      BY PeerFacts DEF TearsLate, StaysStranded
    <2>4. pc'[s]["recv"] = "off" <=> pc[s]["recv"] = "off"
      OBVIOUS
    <2>5. QED
      BY <1>1, <2>2, <2>3, <2>4
  <1>3. /\ call'["caller"] \in {"dialing", "in_call", "over"}
        /\ call'["caller"] = "dialing" => pc'["caller"]["setup"] # "done"
        /\ pc'["caller"]["setup"] \in {"connect", "request", "await", "connected",
                                       "gave up", "refused", "stranded", "done"}
        /\ pc'["callee"]["setup"] \in {"off", "first", "posted", "reject", "close", "done"}
        /\ pc'["callee"]["setup"] = "off" => ~open'["callee"]
        /\ peerKey'["callee"] # None => call'["callee"] \in {"in_call", "over"}
    BY <1>1, SideFacts DEF RouteInv
  <1>4. pc'["caller"]["setup"] = "request" /\ open'["callee"] =>
            pc'["callee"]["setup"] \in {"first", "close"} /\ FirstPieces'
    <2>1. SUFFICES ASSUME pc'["caller"]["setup"] = "request", open["callee"]
                   PROVE  pc'["callee"]["setup"] \in {"first", "close"} /\ FirstPieces'
      OBVIOUS
    <2>2. pc["caller"]["setup"] = "request"
      BY <2>1
    <2>3. pc["callee"]["setup"] \in {"first", "close"} /\ FirstPieces
      BY <2>1, <2>2 DEF RouteInv, FirstPieces
    <2>4. QED
      BY <2>1, <2>3
  <1>5. QED
    BY <1>2, <1>3, <1>4 DEF RouteInv, FirstPieces

(* A step that moves no thread, and one that moves a single one. *)
LEMMA RestRoute ==
    ASSUME RouteInv, UNCHANGED <<open, peerKey, pc, call>>, TearsLate,
           pc["caller"]["setup"] = "request" /\ FirstPieces => FirstPieces'
    PROVE  RouteInv'
  <1>1. StaysStranded
    BY DEF StaysStranded, Stranded
  <1>2. QED
    BY <1>1, RouteKept

MayRoute(s, t, at) ==
    /\ at # "off" /\ pc[s][t] \notin {"off", "stranded"}
    /\ s = "caller" /\ t = "setup" =>
          at \in {"await", "connected", "gave up", "refused", "stranded"}
    /\ s = "callee" /\ t = "setup" =>
          /\ at \in {"posted", "reject", "close", "done"}
          /\ pc["caller"]["setup"] = "request" /\ open["callee"] => at = "close"

LEMMA MoveRoute ==
    ASSUME RouteInv, NEW s \in Sides, NEW t \in Threads, NEW at, NEW n,
           Changed(s, t, at, n), MayRoute(s, t, at),
           UNCHANGED <<open, peerKey, call>>, TearsLate,
           pc'["caller"]["setup"] = "request" /\ FirstPieces => FirstPieces'
    PROVE  RouteInv'
  <1>1. \A e \in Sides, u \in Threads : pc'[e][u] = IF e = s /\ u = t THEN at ELSE pc[e][u]
    BY DEF Changed
  <1>2. \A e \in Sides : pc'[e]["recv"] = "off" <=> pc[e]["recv"] = "off"
    BY <1>1, PcsFacts DEF MayRoute
  <1>3. /\ pc'["caller"]["setup"] = IF s = "caller" /\ t = "setup" THEN at
                                    ELSE pc["caller"]["setup"]
        /\ pc'["callee"]["setup"] = IF s = "callee" /\ t = "setup" THEN at
                                    ELSE pc["callee"]["setup"]
    BY <1>1, SideFacts, PcsFacts
  <1>4. pc'["caller"]["setup"] \in {pc["caller"]["setup"], "await", "connected",
                                    "gave up", "refused", "stranded"}
    BY <1>3 DEF MayRoute
  <1>5. \/ pc'["callee"]["setup"] = pc["callee"]["setup"]
        \/ /\ pc["callee"]["setup"] # "off"
           /\ pc'["callee"]["setup"] \in {"posted", "reject", "close", "done"}
    BY <1>3 DEF MayRoute
  <1>6. pc'["caller"]["setup"] = "request" /\ open["callee"] =>
            pc'["callee"]["setup"] \in {pc["callee"]["setup"], "close"}
    BY <1>3 DEF MayRoute
  <1>7. StaysStranded
    BY <1>1, PcsFacts DEF StaysStranded, Stranded, MayRoute
  <1>8. QED
    BY <1>2, <1>4, <1>5, <1>6, <1>7, RouteKept

(* A thread that goes on or begins to write. *)
LEMMA GoesOn ==
    ASSUME Inv, RouteInv, NEW s \in Sides, NEW t \in Threads, NEW at,
           at \in Pcs(t), pc[s][t] \notin Packets, MayRoute(s, t, at),
           \/ at \notin Packets /\ Goes(s, t, at)
           \/ at \in Packets /\ Writes(s, t, at),
           UNCHANGED <<open, lock, torn, peerKey, call>>,
           pc'["caller"]["setup"] = "request" /\ FirstPieces => FirstPieces'
    PROVE  RouteInv'
  <1>1. Turn(s, t, at)
    BY GoesTurns, WritesTurns DEF Inv
  <1>2. \E n \in 0..2 : Changed(s, t, at, n)
    BY <1>1, TurnMoves
  <1>3. TearsLate
    BY DEF TearsLate
  <1>4. QED
    BY <1>2, <1>3, MoveRoute

LEMMA FirstStays ==
    ASSUME NEW s \in Sides, Reading(s), StreamType, FirstPieces
    PROVE  FirstPieces'
  <1>1. Peer(s) \in Sides
    BY PeerFacts
  <1>2. /\ pipe[Peer(s)] \in Seq(Pieces) /\ pipe[Peer(s)] # <<>>
        /\ pipe' = [pipe EXCEPT ![Peer(s)] = Tail(@)]
        /\ pipe \in [Sides -> Seq(Pieces)]
    BY <1>1 DEF Reading, StreamType
  <1>3. CASE Peer(s) = "caller"
    <2>1. pipe'["caller"] = Tail(pipe["caller"])
      BY <1>2, <1>3, SideFacts
    <2>2. /\ Len(pipe["caller"]) \in Nat
          /\ Len(Tail(pipe["caller"])) = Len(pipe["caller"]) - 1
          /\ \A i \in 1..(Len(pipe["caller"]) - 1) :
                Tail(pipe["caller"])[i] = pipe["caller"][i + 1]
      BY <1>2, <1>3, TailFacts
    <2>3. QED
      BY <2>1, <2>2 DEF FirstPieces
  <1>4. CASE Peer(s) # "caller"
    <2>1. pipe'["caller"] = pipe["caller"]
      BY <1>2, <1>4, SideFacts
    <2>2. QED
      BY <2>1 DEF FirstPieces
  <1>5. QED
    BY <1>3, <1>4

LEMMA FirstAppends ==
    ASSUME NEW s \in Sides, NEW p \in Packets, NEW n \in 1..2,
           StreamType, AppendsPiece(s, p, n),
           s = "caller" => n = 1, FirstPieces
    PROVE  FirstPieces'
  <1>1. /\ pipe \in [Sides -> Seq(Pieces)]
        /\ pipe' = [pipe EXCEPT ![s] = Append(@, Piece(p, n))]
        /\ Piece(p, n) \in Pieces /\ Piece(p, n).piece = n
    BY PieceFacts DEF StreamType, AppendsPiece
  <1>2. CASE s = "caller"
    <2>1. /\ pipe["caller"] \in Seq(Pieces)
          /\ pipe'["caller"] = Append(pipe["caller"], Piece(p, n))
      BY <1>1, <1>2, SideFacts
    <2>2. /\ Len(pipe["caller"]) \in Nat
          /\ Len(pipe'["caller"]) = Len(pipe["caller"]) + 1
          /\ \A i \in 1..Len(pipe["caller"]) : pipe'["caller"][i] = pipe["caller"][i]
          /\ pipe'["caller"][Len(pipe["caller"]) + 1] = Piece(p, n)
      BY <1>1, <2>1
    <2>3. QED
      BY <1>1, <1>2, <2>2 DEF FirstPieces
  <1>3. CASE s # "caller"
    <2>1. pipe'["caller"] = pipe["caller"]
      BY <1>1, <1>3, SideFacts
    <2>2. QED
      BY <2>1 DEF FirstPieces
  <1>4. QED
    BY <1>2, <1>3

(* The steps one by one. *)
LEMMA WritingRoute ==
    ASSUME Inv, RouteInv, NEW s \in Sides, NEW t \in Threads, Writing(s, t)
    PROVE  RouteInv'
  <1>1. CASE Acquire(s, t) /\ UNCHANGED linkVars
    BY <1>1, RestRoute DEF Acquire, linkVars, TearsLate, FirstPieces
  <1>2. ASSUME lock[s] = t, left[s][t] > 0,
               UNCHANGED <<open, peerKey, call>>, TearsLate
        PROVE  /\ pc[s][t] \in Packets /\ pc[s][t] \in Pcs(t) /\ left[s][t] \in 1..2
               /\ pc["caller"]["setup"] = "request" /\ s = "caller" => t = "setup"
               /\ \A next \in {After, IfFailed} :
                     Finishes(s, t, next) =>
                        /\ s = "caller" => pc'["caller"]["setup"] # "request"
                        /\ (pc'["caller"]["setup"] = "request" /\ FirstPieces => FirstPieces')
                              => RouteInv'
    <2>1. pc[s][t] \in Packets /\ pc[s][t] \in Pcs(t) /\ left[s][t] \in 1..2
      BY <1>2, HolderFacts
    <2>2. pc["caller"]["setup"] = "request" /\ s = "caller" => t = "setup"
      BY <1>2, EarlyWriters DEF Inv, PhaseInv
    <2>3. ASSUME NEW next \in {After, IfFailed}, Finishes(s, t, next)
          PROVE  /\ s = "caller" => pc'["caller"]["setup"] # "request"
                 /\ (pc'["caller"]["setup"] = "request" /\ FirstPieces => FirstPieces')
                       => RouteInv'
      <3> DEFINE at == next[pc[s][t]]
      <3>1. at \in Pcs(t) /\ at \notin Packets /\ Changed(s, t, at, 0)
        BY <1>2, <2>3, FinishesEnds DEF Inv, Ended
      <3>2. /\ at # "off" /\ pc[s][t] \notin {"off", "stranded"}
            /\ pc[s][t] = "request" => at \in {"await", "gave up"}
            /\ pc[s][t] = "reject" => at = "close"
        <4>1. /\ After["request"] = "await" /\ IfFailed["request"] = "gave up"
              /\ After["reject"] = "close" /\ IfFailed["reject"] = "close"
          BY DEF After, IfFailed
        <4>2. at # "off" /\ pc[s][t] \notin {"off", "stranded"}
          BY <2>1, TableFacts DEF Packets
        <4>3. QED
          BY <4>1, <4>2
      <3>3. s = "caller" /\ t = "setup" => pc[s][t] = "request"
        BY <2>1 DEF RouteInv, Packets
      <3>4. s = "callee" /\ t = "setup" => pc[s][t] = "reject"
        BY <2>1 DEF RouteInv, Packets
      <3> HIDE DEF at
      <3>5. MayRoute(s, t, at)
        BY <3>2, <3>3, <3>4 DEF MayRoute
      <3>6. s = "caller" => pc'["caller"]["setup"] # "request"
        <4>1. SUFFICES ASSUME s = "caller", pc'["caller"]["setup"] = "request"
                       PROVE  FALSE
          OBVIOUS
        <4>2. CASE t = "setup"
          <5>1. pc'["caller"]["setup"] = at
            BY <3>1, <4>1, <4>2, SideFacts, PcsFacts DEF Changed
          <5>2. QED
            BY <3>2, <3>3, <4>1, <4>2, <5>1
        <4>3. CASE t # "setup"
          <5>1. pc'["caller"]["setup"] = pc["caller"]["setup"]
            BY <3>1, <4>1, <4>3, SideFacts, PcsFacts DEF Changed
          <5>2. QED
            BY <2>2, <4>1, <4>3, <5>1
        <4>4. QED
          BY <4>2, <4>3
      <3>7. QED
        BY <1>2, <3>1, <3>5, <3>6, MoveRoute
    <2>4. QED
      BY <2>1, <2>2, <2>3
  <1>3. CASE WritePiece(s, t) /\ Written(s, t)
    <2>1. /\ lock[s] = t /\ left[s][t] > 0 /\ UNCHANGED <<open, peerKey, call>>
          /\ TearsLate
      BY <1>3 DEF WritePiece, Written, TearsLate
    <2>2. pc[s][t] \in Packets /\ left[s][t] \in 1..2
      BY <1>2, <2>1
    <2>3. AppendsPiece(s, pc[s][t], 3 - left[s][t]) /\ 3 - left[s][t] \in 1..2
      BY <1>3, <2>2 DEF WritePiece, AppendsPiece
    <2>4. CASE left[s][t] = 2
      <3>1. UNCHANGED pc
        BY <1>3, <2>4 DEF WritePiece
      <3>2. FirstPieces => FirstPieces'
        BY <2>2, <2>3, <2>4, FirstAppends DEF Inv
      <3>3. QED
        BY <2>1, <3>1, <3>2, RestRoute
    <2>5. CASE left[s][t] = 1
      <3>1. Finishes(s, t, After)
        BY <1>3, <2>5 DEF WritePiece
      <3>2. s # "caller" /\ FirstPieces => FirstPieces'
        BY <2>2, <2>3, FirstAppends DEF Inv
      <3>3. QED
        BY <1>2, <2>1, <3>1, <3>2
    <2>6. QED
      BY <2>2, <2>4, <2>5
  <1>4. CASE WriteVanishes(s, t) /\ Written(s, t)
    <2>1. /\ lock[s] = t /\ left[s][t] > 0 /\ UNCHANGED <<open, peerKey, call>>
          /\ TearsLate /\ Finishes(s, t, After) /\ (FirstPieces => FirstPieces')
      BY <1>4 DEF WriteVanishes, Written, TearsLate, FirstPieces
    <2>2. QED
      BY <1>2, <2>1
  <1>5. CASE WriteFails(s, t) /\ Failed(s, t)
    <2>1. /\ lock[s] = t /\ left[s][t] > 0 /\ UNCHANGED <<open, peerKey, call>>
          /\ Finishes(s, t, IfFailed) /\ (FirstPieces => FirstPieces')
      BY <1>5 DEF WriteFails, Failed, FirstPieces
    <2>2. \A e \in Sides : torn'[e] = torn[e] \/ (e = s /\ Connected)
      BY <1>5, ExceptSide DEF WriteFails, Inv, StreamType
    <2>3. Connected => pc[Peer(s)]["recv"] # "off" \/ Stranded(Peer(s))
      BY <1>5 DEF WriteFails, Blocked, Stuck, Reads
    <2>4. TearsLate
      BY <2>2, <2>3 DEF TearsLate
    <2>5. QED
      BY <1>2, <2>1, <2>4
  <1>6. QED
    BY <1>1, <1>3, <1>4, <1>5 DEF Writing

LEMMA ConnectRoute ==
    ASSUME Inv, RouteInv, Connect
    PROVE  RouteInv'
  <1>1. /\ pc["caller"]["setup"] = "connect"
        /\ UNCHANGED <<cut, pipe, part, garbled, torn, lock>>
        /\ UNCHANGED <<call, peerKey>>
    BY DEF Connect, linkVars
  <1>2. CASE Goes("caller", "setup", "gave up") /\ UNCHANGED open
    <2>1. MayRoute("caller", "setup", "gave up") /\ (FirstPieces => FirstPieces')
      BY <1>1 DEF MayRoute, FirstPieces
    <2>2. "gave up" \in Pcs("setup") /\ "gave up" \notin Packets /\ "connect" \notin Packets
      BY DEF Pcs, Packets
    <2>3. QED
      BY <1>1, <1>2, <2>1, <2>2, GoesOn, SideFacts, PcsFacts
  <1>3. CASE /\ open' = [s \in Sides |-> TRUE]
             /\ pc' = [pc EXCEPT !["caller"]["setup"] = "request",
                                 !["callee"]["setup"] = "first"]
    <2>1. /\ pc["callee"]["setup"] = "off" /\ \A s \in Sides : pipe[s] = <<>>
      BY <1>1 DEF Inv, FreshInv
    <2>2. call["caller"] = "dialing" /\ call["callee"] = "idle"
      BY <1>1, <2>1 DEF Inv, PhaseInv
    <2>3. \A e \in Sides, u \in Threads :
              pc'[e][u] = IF u # "setup" THEN pc[e][u]
                          ELSE IF e = "caller" THEN "request" ELSE "first"
      <3>1. pc \in [Sides -> [Threads -> PcValue]]
        BY DEF Inv, WriterType
      <3>2. QED
        BY <1>3, <3>1, PcsFacts DEF Sides
    <2>4. /\ pc'["caller"]["setup"] = "request" /\ pc'["callee"]["setup"] = "first"
          /\ \A s \in Sides : pc'[s]["recv"] = pc[s]["recv"]
      BY <2>3, SideFacts, PcsFacts
    <2>5. \A s \in Sides : /\ call'[s] # "over" /\ call'[s] # "in_call"
                           /\ pc'[s]["recv"] = "off" => ~torn'[Peer(s)]
      <3>1. \A s \in Sides : ~Stranded(s)
        BY <1>1, <2>1 DEF Stranded, Inv, FreshInv, Sides
      <3>2. QED
        BY <1>1, <2>2, <2>4, <3>1 DEF RouteInv, Sides
    <2>6. FirstPieces'
      BY <1>1, <2>1, EmptySeq, SideFacts DEF FirstPieces
    <2>7. QED
      BY <1>1, <2>2, <2>4, <2>5, <2>6 DEF RouteInv, FirstPieces
  <1>4. QED
    BY <1>2, <1>3 DEF Connect

LEMMA AnswerRoute ==
    ASSUME Inv, RouteInv, AwaitAnswer
    PROVE  RouteInv'
  <1>1. pc["caller"]["setup"] = "await" /\ UNCHANGED <<call, peerKey>>
    BY DEF AwaitAnswer, linkVars
  <1>2. CASE ReadFirst("caller")
    <2>1. UNCHANGED <<open, torn, pc>> /\ TearsLate
      BY <1>2 DEF ReadFirst, Takes, TearsLate
    <2>2. QED
      BY <1>1, <2>1, RestRoute
  <1>3. ASSUME NEW at \in {"connected", "refused", "gave up"},
               Goes("caller", "setup", at), UNCHANGED <<open, torn, lock>>
        PROVE  RouteInv'
    <2>1. MayRoute("caller", "setup", at)
      BY <1>1 DEF MayRoute
    <2>2. at \in Pcs("setup") /\ at \notin Packets /\ "await" \notin Packets
      BY DEF Pcs, Packets
    <2>3. pc'["caller"]["setup"] = at
      <3>1. pc \in [Sides -> [Threads -> PcValue]] /\ at \in PcValue
        BY <2>2, PcsFacts DEF Inv, WriterType
      <3>2. /\ pc' = [pc EXCEPT !["caller"]["setup"] = at]
            /\ "caller" \in Sides /\ "setup" \in Threads
        BY <1>3, SideFacts, PcsFacts DEF Goes
      <3>3. QED
        BY <3>1, <3>2
    <2>4. QED
      BY <1>1, <1>3, <2>1, <2>2, <2>3, GoesOn, SideFacts, PcsFacts
  <1>4. ASSUME NEW p \in Packets, ReadPacket("caller", p),
               Goes("caller", "setup", CASE p = "accept" -> "connected"
                                         [] p = "reject" -> "refused"
                                         [] OTHER -> "gave up")
        PROVE  RouteInv'
    <2>1. UNCHANGED <<open, torn, lock>>
      BY <1>4 DEF ReadPacket, Takes
    <2>2. \E at \in {"connected", "refused", "gave up"} : Goes("caller", "setup", at)
      BY <1>4
    <2>3. QED
      BY <1>3, <2>1, <2>2
  <1>5. CASE /\ Goes("caller", "setup", "gave up")
             /\ UNCHANGED <<open, cut, pipe, part, garbled, torn, lock>>
    BY <1>3, <1>5
  <1>6. QED
    BY <1>2, <1>4, <1>5 DEF AwaitAnswer

(* The request is read after it was written. *)
LEMMA HandleRoute ==
    ASSUME Inv, RouteInv, HandleConnection
    PROVE  RouteInv'
  <1>1. pc["callee"]["setup"] = "first" /\ UNCHANGED <<call, peerKey>>
    BY DEF HandleConnection, linkVars
  <1>2. CASE ReadFirst("callee")
    <2>1. UNCHANGED <<open, torn, pc>> /\ TearsLate
      BY <1>2 DEF ReadFirst, Takes, TearsLate
    <2>2. FirstPieces => FirstPieces'
      BY <1>2, ReadsRead, FirstStays, SideFacts DEF Inv
    <2>3. QED
      BY <1>1, <2>1, <2>2, RestRoute
  <1>3. ASSUME NEW at \in {"close", "posted", "reject"},
               \/ at # "reject" /\ Goes("callee", "setup", at)
               \/ at = "reject" /\ Writes("callee", "setup", at),
               UNCHANGED <<open, torn, lock>>,
               pc["caller"]["setup"] = "request" /\ open["callee"] => at = "close",
               FirstPieces => FirstPieces'
        PROVE  RouteInv'
    <2>1. MayRoute("callee", "setup", at)
      BY <1>1, <1>3 DEF MayRoute
    <2>2. /\ at \in Pcs("setup") /\ "first" \notin Packets
          /\ at \in Packets <=> at = "reject"
      BY DEF Pcs, Packets
    <2>3. QED
      BY <1>1, <1>3, <2>1, <2>2, GoesOn, SideFacts, PcsFacts
  <1>4. ASSUME NEW p \in Packets, ReadPacket("callee", p),
               CASE p # "request" -> Goes("callee", "setup", "close")
                 [] p = "request" /\ other = "busy" -> Writes("callee", "setup", "reject")
                 [] OTHER -> Goes("callee", "setup", "posted")
        PROVE  RouteInv'
    <2>1. UNCHANGED <<open, torn, lock>>
      BY <1>4 DEF ReadPacket, Takes
    <2>2. FirstPieces => FirstPieces'
      BY <1>4, ReadsRead, FirstStays, SideFacts DEF Inv
    <2>3. ~(pc["caller"]["setup"] = "request" /\ open["callee"])
      <3>1. SUFFICES ASSUME pc["caller"]["setup"] = "request", open["callee"] PROVE FALSE
        OBVIOUS
      <3>2. FirstPieces
        BY <3>1 DEF RouteInv, FirstPieces
      <3>3. pipe["caller"] \in Seq(Pieces) /\ pipe["caller"] # <<>>
        BY <1>4, SideFacts, PeerFacts DEF Inv, StreamType, ReadPacket, Arrives
      <3>4. Head(pipe["caller"]).piece = 2
        BY <1>4, PeerFacts, PieceFacts DEF ReadPacket, Completes, Front
      <3>5. Head(pipe["caller"]).piece = 1
        BY <3>2, <3>3, TailFacts DEF FirstPieces
      <3>6. QED
        BY <3>4, <3>5
    <2>4. \E at \in {"close", "posted", "reject"} :
              \/ at # "reject" /\ Goes("callee", "setup", at)
              \/ at = "reject" /\ Writes("callee", "setup", at)
      BY <1>4
    <2>5. QED
      BY <1>3, <2>1, <2>2, <2>3, <2>4
  <1>5. CASE /\ Goes("callee", "setup", "close")
             /\ UNCHANGED <<open, cut, pipe, part, garbled, torn, lock>>
    <2>1. FirstPieces => FirstPieces'
      BY <1>5 DEF FirstPieces
    <2>2. QED
      BY <1>3, <1>5, <2>1
  <1>6. QED
    BY <1>2, <1>4, <1>5 DEF HandleConnection

LEMMA IncomingRoute ==
    ASSUME Inv, RouteInv, OnIncoming
    PROVE  RouteInv'
  <1>1. /\ pc["callee"]["setup"] = "posted"
        /\ UNCHANGED <<open, cut, pipe, part, garbled, torn, peerKey>> /\ UNCHANGED lock
        /\ TearsLate /\ (FirstPieces => FirstPieces')
    BY DEF OnIncoming, TearsLate, FirstPieces
  <1>2. call["callee"] = "idle"
    BY <1>1 DEF Inv, PhaseInv
  <1>3. /\ call'["caller"] = call["caller"]
        /\ call'["callee"] \in {"idle", "ringing"}
    BY <1>2, ExceptSide, SideFacts DEF OnIncoming, Inv, Agrees, LinkType, Stages
  <1>4. \E at \in Pcs("gui") :
            \A e \in Sides, u \in Threads :
               pc'[e][u] = IF e = "callee" /\ u = "setup" THEN "done"
                           ELSE IF e = "callee" /\ u = "gui" THEN at ELSE pc[e][u]
    <2>1. /\ pc \in [Sides -> [Threads -> PcValue]]
          /\ pc["callee"]["gui"] \in Pcs("gui")
      BY SideFacts, PcsFacts DEF Inv, WriterType
    <2>2. "reject" \in Pcs("gui")
      BY DEF Pcs
    <2>3. CASE Goes("callee", "setup", "done")
      <3>1. pc' = [pc EXCEPT !["callee"]["setup"] = "done"]
        BY <2>3 DEF Goes
      <3>2. \A e \in Sides, u \in Threads :
               pc'[e][u] = IF e = "callee" /\ u = "setup" THEN "done" ELSE pc[e][u]
        BY <2>1, <3>1, SideFacts, PcsFacts
      <3>3. QED
        BY <2>1, <3>2
    <2>4. CASE pc' = [pc EXCEPT !["callee"]["setup"] = "done", !["callee"]["gui"] = "reject"]
      <3>1. \A e \in Sides, u \in Threads :
               pc'[e][u] = IF e = "callee" /\ u = "setup" THEN "done"
                           ELSE IF e = "callee" /\ u = "gui" THEN "reject" ELSE pc[e][u]
        BY <2>1, <2>4, SideFacts, PcsFacts
      <3>2. QED
        BY <2>2, <3>1
    <2>5. QED
      BY <2>3, <2>4 DEF OnIncoming
  <1>5. /\ pc'["callee"]["setup"] = "done"
        /\ pc'["caller"]["setup"] = pc["caller"]["setup"]
        /\ \A e \in Sides : pc'[e]["recv"] = pc[e]["recv"]
    BY <1>4, SideFacts, PcsFacts
  <1>6. ~(pc["caller"]["setup"] = "request" /\ open["callee"])
    BY <1>1 DEF RouteInv
  <1>7. StaysStranded
    <2>1. ~Stranded("callee")
      BY <1>1 DEF Stranded, Inv, PhaseInv
    <2>2. Stranded("caller") => Stranded("caller")'
      BY <1>4, SideFacts, PcsFacts DEF Stranded
    <2>3. QED
      BY <2>1, <2>2 DEF StaysStranded, Sides
  <1>8. QED
    BY <1>1, <1>2, <1>3, <1>5, <1>6, <1>7, RouteKept

LEMMA BeginsRoute ==
    ASSUME Inv, RouteInv, NEW s \in Sides, NEW t \in {"setup", "gui"}, SessionBegins(s, t),
           \/ s = "caller" /\ t = "setup" /\ pc[s][t] = "connected"
           \/ s = "callee" /\ t = "gui" /\ pc[s][t] = "accepted"
    PROVE  RouteInv'
  <1>1. pc[s][t] \notin Packets
    BY DEF Packets
  <1>2. call[s] \in Early /\ pc[s]["send"] = "off" /\ pc[s]["recv"] = "off"
    BY DEF Inv, PhaseInv, Early
  <1>3. /\ \A u \in Threads : pc'[Peer(s)][u] = pc[Peer(s)][u]
        /\ pc'[s]["recv"] = "read"
        /\ pc'[s][t] = IF t = "gui" THEN "running" ELSE "done"
        /\ \A u \in {"setup", "gui"} : u # t => pc'[s][u] = pc[s][u]
    BY <1>1, <1>2, BeginsKeeps DEF Inv
  <1>4. /\ \A e \in Sides : call'[e] = IF e = s THEN "in_call" ELSE call[e]
        /\ \A e \in Sides : e # s => peerKey'[e] = peerKey[e]
    BY DEF SessionBegins, Inv, Agrees, LinkType
  <1>5. /\ UNCHANGED <<open, pipe, torn>>
        /\ \A e \in Sides : pc'[e]["recv"] = IF e = s THEN "read" ELSE pc[e]["recv"]
    BY <1>3, PeerFacts, PcsFacts, ZenonT(60) DEF SessionBegins
  <1>6. \A e \in Sides :
            /\ call'[e] = "over" => ~open'[e]
            /\ call'[e] = "in_call" => pc'[e]["recv"] # "off"
            /\ pc'[e]["recv"] = "off" => ~torn'[Peer(e)] \/ Stranded(e)'
    <2>1. \A e \in Sides : e # s => (Stranded(e) => Stranded(e)')
      BY <1>3, PeerFacts, PcsFacts DEF Stranded
    <2>2. QED
      BY <1>4, <1>5, <2>1 DEF RouteInv
  <1>7. CASE s = "caller" /\ t = "setup"
    <2>1. /\ call'["caller"] = "in_call" /\ call'["callee"] = call["callee"]
          /\ pc'["caller"]["setup"] = "done"
          /\ pc'["callee"]["setup"] = pc["callee"]["setup"]
          /\ peerKey'["callee"] = peerKey["callee"]
      BY <1>3, <1>4, <1>7, SideFacts, PeerFacts, PcsFacts
    <2>2. QED
      BY <1>5, <1>6, <2>1 DEF RouteInv
  <1>8. CASE s = "callee" /\ t = "gui"
    <2>1. /\ call'["callee"] = "in_call" /\ call'["caller"] = call["caller"]
          /\ pc'["caller"]["setup"] = pc["caller"]["setup"]
          /\ pc'["callee"]["setup"] = pc["callee"]["setup"]
      BY <1>3, <1>4, <1>8, SideFacts, PeerFacts, PcsFacts
    <2>2. QED
      BY <1>5, <1>6, <2>1 DEF RouteInv
  <1>9. QED
    BY <1>7, <1>8

LEMMA OverRoute ==
    ASSUME Inv, RouteInv, NEW s \in Sides, NEW t \in {"setup", "gui"}, NEW at,
           Over(s, t, at), MayEnd(s, t, at)
    PROVE  RouteInv'
  <1>1. pc[s][t] \notin Packets /\ at \in Pcs(t) /\ at \notin Packets
    BY DEF MayEnd, Packets, Pcs
  <1>2. /\ \A u \in Threads : pc'[Peer(s)][u] = pc[Peer(s)][u]
        /\ pc'[s][t] = at
        /\ \A u \in {"setup", "gui"} : u # t => pc'[s][u] = pc[s][u]
    BY <1>1, OverKeeps DEF Inv
  <1>3. /\ \A e \in Sides : call'[e] = IF e = s THEN "over" ELSE call[e]
        /\ \A e \in Sides : open'[e] = IF e = s THEN FALSE ELSE open[e]
        /\ UNCHANGED <<torn, peerKey>>
    BY DEF Over, Closes, Inv, Agrees, LinkType, StreamType
  <1>4. pc'[s]["recv"] = "off" => pc[s]["recv"] = "off"
    <2>1. pc' = [pc EXCEPT ![s][t] = at,
                           ![s]["send"] = IF @ = "running" THEN "done" ELSE @,
                           ![s]["recv"] = IF @ = "read" THEN "done" ELSE @]
      BY DEF Over
    <2>2. pc \in [Sides -> [Threads -> PcValue]] /\ t \in Threads /\ t # "recv"
      BY PcsFacts DEF Inv, WriterType
    <2>3. pc'[s]["recv"] = IF pc[s]["recv"] = "read" THEN "done" ELSE pc[s]["recv"]
      BY <2>1, <2>2, PcsFacts
    <2>4. QED
      BY <2>3
  <1>5. \A e \in Sides :
            /\ call'[e] = "over" => ~open'[e]
            /\ call'[e] = "in_call" => pc'[e]["recv"] # "off"
            /\ pc'[e]["recv"] = "off" => ~torn'[Peer(e)] \/ Stranded(e)'
    <2>1. \A e \in Sides : /\ pc'[e]["recv"] = "off" => pc[e]["recv"] = "off"
                           /\ e # s => pc'[e]["recv"] = pc[e]["recv"]
      BY <1>2, <1>4, PeerFacts, PcsFacts
    <2>2. pc[s][t] # "stranded"
      BY DEF MayEnd
    <2>3. \A e \in Sides : Stranded(e) => Stranded(e)'
      BY <1>2, <2>2, PeerFacts, PcsFacts DEF Stranded
    <2>4. QED
      BY <1>3, <2>1, <2>3 DEF RouteInv
  <1>6. CASE s = "caller"
    <2>1. /\ call'["caller"] = "over" /\ call'["callee"] = call["callee"]
          /\ open'["callee"] = open["callee"]
          /\ pc'["callee"]["setup"] = pc["callee"]["setup"]
      BY <1>2, <1>3, <1>6, SideFacts, PeerFacts, PcsFacts
    <2>2. pc'["caller"]["setup"] = "done"
      <3>1. CASE t = "setup"
        BY <1>2, <1>6, <3>1 DEF MayEnd
      <3>2. CASE t = "gui"
        <4>1. pc["caller"]["setup"] = "done"
          BY <1>6, <3>2 DEF MayEnd, Inv, PhaseInv
        <4>2. QED
          BY <1>2, <1>6, <3>2, <4>1
      <3>3. QED
        BY <3>1, <3>2
    <2>3. QED
      BY <1>3, <1>5, <2>1, <2>2 DEF RouteInv
  <1>7. CASE s = "callee"
    <2>1. /\ call'["callee"] = "over" /\ call'["caller"] = call["caller"]
          /\ ~open'["callee"]
          /\ pc'["caller"]["setup"] = pc["caller"]["setup"]
      BY <1>2, <1>3, <1>7, SideFacts, PeerFacts, PcsFacts
    <2>2. pc'["callee"]["setup"] \in {pc["callee"]["setup"], "done"}
      BY <1>2, <1>7 DEF MayEnd
    <2>3. QED
      BY <1>3, <1>5, <2>1, <2>2 DEF RouteInv
  <1>8. QED
    BY <1>6, <1>7 DEF Sides

(* Threads of a call, and the users. *)
LEMMA ThreadRoute ==
    ASSUME Inv, RouteInv, NEW s \in Sides, NEW t \in {"gui", "send", "recv"}, NEW at,
           at \in Pcs(t), at # "off", pc[s][t] \notin Packets, pc[s][t] \notin {"off", "stranded"},
           \/ at \notin Packets /\ Goes(s, t, at)
           \/ at \in Packets /\ Writes(s, t, at),
           UNCHANGED <<open, lock, torn, peerKey, call>>,
           FirstPieces => FirstPieces'
    PROVE  RouteInv'
  <1>1. MayRoute(s, t, at) /\ t \in Threads
    BY PcsFacts DEF MayRoute
  <1>2. QED
    BY <1>1, GoesOn

LEMMA RecvRoute ==
    ASSUME Inv, RouteInv, NEW s \in Sides, Recv(s)
    PROVE  RouteInv'
  <1>1. /\ {"done", "pong", "ack"} \subseteq Pcs("recv")
        /\ {"pong", "ack"} \subseteq Packets
        /\ "done" \notin Packets /\ "read" \notin Packets
    BY DEF Pcs, Packets
  <1>2. CASE RecvReads(s)
    <2>1. pc[s]["recv"] = "read" /\ UNCHANGED <<peerKey, call>>
      BY <1>2 DEF RecvReads, linkVars
    <2>2. ReadFirst(s) \/ (\E p \in Packets : ReadPacket(s, p)) \/ ReadGarbage(s)
      BY <1>2 DEF RecvReads
    <2>3. /\ UNCHANGED <<open, torn, lock>> /\ TearsLate
          /\ FirstPieces => FirstPieces'
      BY <2>2, ReadsRead, FirstStays DEF Reading, TearsLate, Inv
    <2>4. \/ UNCHANGED pc
          \/ Writes(s, "recv", "pong") \/ Writes(s, "recv", "ack")
          \/ Goes(s, "recv", "done")
      BY <1>2 DEF RecvReads, ReadFirst
    <2>5. QED
      BY <1>1, <2>1, <2>3, <2>4, RestRoute, ThreadRoute
  <1>3. CASE RecvEnds(s)
    <2>1. /\ pc[s]["recv"] = "read" /\ Goes(s, "recv", "done")
          /\ UNCHANGED <<open, lock, torn, peerKey, call>>
          /\ FirstPieces => FirstPieces'
      BY <1>3 DEF RecvEnds, FirstPieces
    <2>2. QED
      BY <1>1, <2>1, ThreadRoute
  <1>4. QED
    BY <1>2, <1>3, WritingRoute, PcsFacts DEF Recv

LEMMA OthersRoute ==
    ASSUME Inv, RouteInv,
           \/ User \/ \E s \in Sides : SendFrame(s) \/ SendPing(s) \/ Watchdog(s)
           \/ CircuitBreaks /\ UNCHANGED linkVars
           \/ UNCHANGED vars
    PROVE  RouteInv'
  <1>1. ASSUME NEW s \in Sides, NEW t \in {"gui", "send"}, NEW at,
               \/ at \in {"accept", "reject", "ping", "end"} /\ t = "gui" /\ Writes(s, t, at)
               \/ at = "close" /\ t = "gui" /\ Goes(s, t, at)
               \/ at = "audio" /\ t = "send" /\ Writes(s, t, at),
               pc[s][t] = "running",
               UNCHANGED <<open, pipe, lock, torn, peerKey, call>>
        PROVE  RouteInv'
    <2>1. /\ at \in Pcs(t) /\ at # "off" /\ "running" \notin Packets
          /\ at \in Packets <=> at # "close"
      BY <1>1 DEF Pcs, Packets
    <2>2. FirstPieces => FirstPieces'
      BY <1>1 DEF FirstPieces
    <2>3. QED
      BY <1>1, <2>1, <2>2, ThreadRoute
  <1>2. CASE AcceptCall \/ RejectCall
    BY <1>1, <1>2, SideFacts DEF AcceptCall, RejectCall, Ringing, linkVars
  <1>3. ASSUME NEW s \in Sides, HangUp(s) \/ SendPing(s) PROVE RouteInv'
    BY <1>1, <1>3 DEF HangUp, SendPing, InCall, linkVars
  <1>4. ASSUME NEW s \in Sides, SendFrame(s) PROVE RouteInv'
    BY <1>1, <1>4 DEF SendFrame
  <1>5. CASE \/ OtherCall \/ (\E s \in Sides : Watchdog(s)) \/ UNCHANGED vars
    <2>1. UNCHANGED <<open, pipe, torn, peerKey, pc, call>>
      BY <1>5 DEF OtherCall, Watchdog, vars, sockVars, linkVars
    <2>2. TearsLate /\ (FirstPieces => FirstPieces')
      BY <2>1 DEF TearsLate, FirstPieces
    <2>3. QED
      BY <2>1, <2>2, RestRoute
  <1>6. CASE CircuitBreaks /\ UNCHANGED linkVars
    <2>1. UNCHANGED <<open, torn, peerKey, pc, call>> /\ pipe' = [s \in Sides |-> <<>>]
      BY <1>6 DEF CircuitBreaks, linkVars
    <2>2. TearsLate /\ FirstPieces'
      BY <2>1, EmptySeq, SideFacts DEF TearsLate, FirstPieces
    <2>3. QED
      BY <2>1, <2>2, RestRoute
  <1>7. QED
    BY <1>2, <1>3, <1>4, <1>5, <1>6 DEF User

LEMMA NextRoute ==
    ASSUME Inv, RouteInv, [Next]_vars
    PROVE  RouteInv'
  <1>1. ASSUME NEW s \in Sides, Setup(s) PROVE RouteInv'
    <2>1. CASE ConnectionCloses
      BY <2>1, OverRoute, SideFacts DEF ConnectionCloses, MayEnd
    <2>2. QED
      BY <1>1, <2>1, ConnectRoute, AnswerRoute, HandleRoute, WritingRoute, PcsFacts
         DEF Setup
  <1>2. ASSUME NEW s \in Sides, Gui(s) PROVE RouteInv'
    <2>1. CASE OnOutgoing
      <3>1. CASE pc["caller"]["setup"] = "connected" /\ Strands("caller", "setup")
        <4>1. /\ UNCHANGED <<open, lock, torn, peerKey, call>> /\ Goes("caller", "setup", "stranded")
              /\ FirstPieces => FirstPieces'
          BY <3>1 DEF Strands, linkVars, FirstPieces
        <4>2. "stranded" \in Pcs("setup") /\ {"stranded", "connected"} \cap Packets = {}
          BY DEF Pcs, Packets
        <4>3. MayRoute("caller", "setup", "stranded")
          BY <3>1 DEF MayRoute
        <4>4. QED
          BY <3>1, <4>1, <4>2, <4>3, GoesOn, SideFacts, PcsFacts
      <3>2. QED
        BY <2>1, <3>1, BeginsRoute, OverRoute, SideFacts DEF OnOutgoing, MayEnd
    <2>2. CASE AcceptSent
      <3>1. CASE Strands("callee", "gui")
        <4>1. /\ UNCHANGED <<open, lock, torn, peerKey, call>> /\ Goes("callee", "gui", "stranded")
              /\ FirstPieces => FirstPieces'
          BY <3>1 DEF Strands, linkVars, FirstPieces
        <4>2. "stranded" \in Pcs("gui") /\ {"stranded", "accepted"} \cap Packets = {}
          BY DEF Pcs, Packets
        <4>3. QED
          BY <2>2, <4>1, <4>2, ThreadRoute, SideFacts DEF AcceptSent
      <3>2. QED
        BY <2>2, <3>1, BeginsRoute, SideFacts DEF AcceptSent
    <2>3. CASE OnNotice(s) \/ Teardown(s)
      BY <2>3, OverRoute DEF OnNotice, InCall, Teardown, MayEnd
    <2>4. QED
      BY <1>2, <2>1, <2>2, <2>3, IncomingRoute, OthersRoute, WritingRoute, PcsFacts DEF Gui
  <1>3. ASSUME NEW s \in Sides, Send(s) PROVE RouteInv'
    BY <1>3, OthersRoute, WritingRoute, PcsFacts DEF Send
  <1>4. QED
    BY <1>1, <1>2, <1>3, RecvRoute, OthersRoute DEF Next

LEMMA InitRoute == Init => RouteInv
  <1> SUFFICES ASSUME Init PROVE RouteInv
    OBVIOUS
  <1>1. /\ \A s \in Sides : ~open[s] /\ ~torn[s] /\ peerKey[s] = None
        /\ call["caller"] = "dialing" /\ call["callee"] = "idle"
    BY SideFacts DEF Init, SocketInit
  <1>2. /\ pc["caller"]["setup"] = "connect" /\ pc["callee"]["setup"] = "off"
    BY SideFacts, PcsFacts DEF Init
  <1>3. \A s \in Sides : ~torn[Peer(s)] /\ call[s] # "over" /\ call[s] # "in_call"
    BY <1>1, PeerFacts DEF Sides
  <1>4. QED
    BY <1>1, <1>2, <1>3, SideFacts DEF RouteInv

(* Nobody waits in a circle: whenever a thread holds a _socket_lock, it or *)
(* one of those it waits for can go on, or the socket's timeout ends the   *)
(* wait, with buffers of any size.  LockIsReleased rests on this.          *)
THEOREM NoCircularWaits == Spec => []NoCircularWait
  <1>1. Init => RouteInv
    BY InitRoute
  <1>2. Inv /\ RouteInv /\ [Next]_vars => RouteInv'
    BY NextRoute
  <1>3. Inv /\ RouteInv => NoCircularWait
    BY NobodyWaitsInACircle
  <1>4. QED
    BY <1>1, <1>2, <1>3, LinkInvariant, PTL DEF Spec

-----------------------------------------------------------------------------
(* What a frame is put into before it is sealed. *)

(* Two bytes hold every length up to MaxFrame. *)
LEMMA TwoBytes ==
    \A n \in Nat : n <= MaxFrame =>
        /\ n \div 256 \in Byte /\ n % 256 \in Byte
        /\ 256 * (n \div 256) + (n % 256) = n
      BY SMT DEF Byte, MaxFrame

(* What is missing of a block is there after padding. *)
LEMMA RestIsFilled ==
    \A n \in Nat, b \in Nat \ {0} :
        /\ n % b \in 0..(b - 1)
        /\ (n % b) # 0 => (n + (b - (n % b))) % b = 0
<1> SUFFICES ASSUME NEW n \in Nat, NEW b \in Nat \ {0}
             PROVE  /\ n % b \in 0..(b - 1)
                    /\ (n % b) # 0 => (n + (b - (n % b))) % b = 0
      OBVIOUS
<1>1. n % b \in 0..(b - 1) /\ n \div b \in Int /\ n = b * (n \div b) + (n % b)
      BY SMT
<1>2. n + (b - (n % b)) = b * (n \div b) + b
      BY <1>1, SMT
<1>3. b * (n \div b) + b = b * ((n \div b) + 1)
      BY <1>1, SMT
<1>4. \A q \in Int : (b * q) % b = 0
      BY SMT
<1> QED BY <1>1, <1>2, <1>3, <1>4, SMTT(30)

(* Two elements before a sequence. *)
LEMMA AfterTwo ==
    ASSUME NEW S, NEW h \in Seq(S), Len(h) = 2, NEW s \in Seq(S)
    PROVE  /\ h \o s \in Seq(S) /\ Len(h \o s) = 2 + Len(s)
           /\ (h \o s)[1] = h[1] /\ (h \o s)[2] = h[2]
           /\ \A i \in 1..Len(s) : (h \o s)[i + 2] = s[i]
<1>1. Len(s) \in Nat
      OBVIOUS
<1>2. h \o s \in Seq(S) /\ Len(h \o s) = Len(h) + Len(s)
      BY ConcatProperties
<1>3. \A i \in 1..(Len(h) + Len(s)) :
          (h \o s)[i] = IF i <= Len(h) THEN h[i] ELSE s[i - Len(h)]
      BY ConcatProperties
<1>4. ASSUME NEW i \in 1..Len(s) PROVE (h \o s)[i + 2] = s[i]
  <2>1. i + 2 \in 1..(Len(h) + Len(s)) /\ ~(i + 2 <= Len(h)) /\ (i + 2) - Len(h) = i
      BY <1>1
  <2> QED BY <1>3, <2>1
<1>5. 1 \in 1..(Len(h) + Len(s)) /\ 2 \in 1..(Len(h) + Len(s)) /\ 1 <= Len(h) /\ 2 <= Len(h)
      BY <1>1
<1> QED BY <1>2, <1>3, <1>4, <1>5

(* The frame with its length before it. *)
LEMMA PrefixedForm ==
    ASSUME NEW data \in Seq(Byte), Len(data) <= MaxFrame
    PROVE  /\ Prefixed(data) \in Seq(Byte) /\ Len(Prefixed(data)) = 2 + Len(data)
           /\ Prefixed(data)[1] = Len(data) \div 256
           /\ Prefixed(data)[2] = Len(data) % 256
           /\ \A i \in 1..Len(data) : Prefixed(data)[i + 2] = data[i]
<1> DEFINE head == <<Len(data) \div 256, Len(data) % 256>>
<1>1. Len(data) \div 256 \in Byte /\ Len(data) % 256 \in Byte
      BY TwoBytes
<1>2. /\ head \in Seq(Byte) /\ Len(head) = 2
      /\ head[1] = Len(data) \div 256 /\ head[2] = Len(data) % 256
      BY <1>1
<1>3. Prefixed(data) = head \o data
      BY DEF Prefixed
<1> HIDE DEF head
<1>4. /\ Prefixed(data) \in Seq(Byte) /\ Len(Prefixed(data)) = 2 + Len(data)
      /\ Prefixed(data)[1] = head[1] /\ Prefixed(data)[2] = head[2]
      /\ \A i \in 1..Len(data) : Prefixed(data)[i + 2] = data[i]
      BY <1>2, <1>3, AfterTwo
<1> QED BY <1>2, <1>4

(* A padded frame is the prefixed one and the zeros that fill the block.   *)
LEMMA PaddedForm ==
    ASSUME NEW data \in Seq(Byte), Len(data) <= MaxFrame, NEW block \in Nat \ {0}
    PROVE  \E z \in Seq(Byte) :
              /\ PadFrame(data, block) = Prefixed(data) \o z
              /\ Len(z) < block
              /\ (2 + Len(data) + Len(z)) % block = 0
<1> DEFINE n == 2 + Len(data)
           rest == n % block
<1>1. n \in Nat /\ Len(data) \in Nat /\ ~(Len(data) > MaxFrame)
      BY DEF MaxFrame
<1>2. Prefixed(data) \in Seq(Byte) /\ Len(Prefixed(data)) = n
      BY PrefixedForm
<1>3. rest \in 0..(block - 1) /\ (rest # 0 => (n + (block - rest)) % block = 0)
  <2> HIDE DEF n
  <2> QED BY <1>1, RestIsFilled
<1>4. 0 \in Byte
      BY DEF Byte
<1> HIDE DEF n
<1>5. CASE rest = 0
  <2>1. PadFrame(data, block) = Prefixed(data)
      BY <1>1, <1>2, <1>5 DEF PadFrame
  <2>2. <<>> \in Seq(Byte) /\ Len(<<>>) = 0 /\ Prefixed(data) \o <<>> = Prefixed(data)
      BY <1>2
  <2>3. Len(<<>>) < block /\ (2 + Len(data) + Len(<<>>)) % block = 0
      BY <1>1, <1>5, <2>2 DEF n
  <2>4. PadFrame(data, block) = Prefixed(data) \o <<>>
      BY <2>1, <2>2
  <2> WITNESS <<>> \in Seq(Byte)
  <2> QED BY <2>3, <2>4
<1>6. CASE rest # 0
  <2> DEFINE z == Zeros(block - rest)
  <2>1. block - rest \in Nat /\ block - rest < block
      BY <1>3, <1>6
  <2>2. z \in Seq(Byte) /\ Len(z) = block - rest
      BY <1>4, <2>1 DEF Zeros
  <2>3. PadFrame(data, block) = Prefixed(data) \o z
      BY <1>1, <1>2, <1>6 DEF PadFrame
  <2>4. (n + Len(z)) % block = 0
      BY <1>3, <1>6, <2>2
  <2> HIDE DEF z
  <2> QED BY <2>1, <2>2, <2>3, <2>4 DEF n
<1> QED BY <1>5, <1>6

(* What is padded for the wire is what unpad_frame gives back, whatever    *)
(* the frame contains, and nothing but the number of blocks is seen of it: *)
(* the smallest number that holds its length and the two bytes before it.  *)
THEOREM PaddingIsReversed ==
    ASSUME NEW data \in Seq(Byte), Len(data) <= MaxFrame, NEW block \in Nat \ {0}
    PROVE  LET padded == PadFrame(data, block)
           IN /\ UnpadFrame(padded) = data
              /\ Len(padded) % block = 0
              /\ Len(padded) \in (2 + Len(data))..(1 + Len(data) + block)
<1> DEFINE n == Len(data)
           padded == PadFrame(data, block)
<1>1. PICK z \in Seq(Byte) : /\ padded = Prefixed(data) \o z
                             /\ Len(z) < block
                             /\ (2 + n + Len(z)) % block = 0
      BY PaddedForm
<1>2. n \in Nat /\ Len(z) \in Nat
      OBVIOUS
<1>3. n \div 256 \in Byte /\ n % 256 \in Byte /\ 256 * (n \div 256) + (n % 256) = n
      BY <1>2, TwoBytes
<1>5. /\ Prefixed(data) \in Seq(Byte) /\ Len(Prefixed(data)) = 2 + n
      /\ Prefixed(data)[1] = n \div 256 /\ Prefixed(data)[2] = n % 256
      /\ \A i \in 1..n : Prefixed(data)[i + 2] = data[i]
      BY PrefixedForm
<1>6. /\ padded \in Seq(Byte) /\ Len(padded) = 2 + n + Len(z)
      /\ padded[1] = n \div 256 /\ padded[2] = n % 256
      /\ \A i \in 1..n : padded[i + 2] = data[i]
  <2> HIDE DEF padded, n
  <2>1. /\ padded \in Seq(Byte) /\ Len(padded) = 2 + n + Len(z)
        /\ \A i \in 1..(2 + n) : padded[i] = Prefixed(data)[i]
    <3> HIDE DEF Byte
    <3>1. \A u \in Seq(Byte) : /\ u \o z \in Seq(Byte) /\ Len(u \o z) = Len(u) + Len(z)
                               /\ \A i \in 1..Len(u) : (u \o z)[i] = u[i]
      <4>1. SUFFICES ASSUME NEW u \in Seq(Byte)
                     PROVE  /\ u \o z \in Seq(Byte) /\ Len(u \o z) = Len(u) + Len(z)
                            /\ \A i \in 1..Len(u) : (u \o z)[i] = u[i]
        OBVIOUS
      <4>2. Len(u) \in Nat /\ \A i \in 1..Len(u) : i \in 1..(Len(u) + Len(z)) /\ i <= Len(u)
        BY <1>2, LenProperties
      <4>3. QED
        BY <1>1, <4>2, ConcatProperties
    <3>2. QED
      BY <1>1, <1>5, <3>1
  <2>2. \A i \in 1..n : i + 2 \in 1..(2 + n)
      BY <1>2
  <2>3. 1 \in 1..(2 + n) /\ 2 \in 1..(2 + n)
      BY <1>2
  <2> QED BY <1>5, <2>1, <2>2, <2>3
<1>7. (padded[1] * 256) + padded[2] = n
      BY <1>3, <1>6 DEF Byte
<1>8. UnpadFrame(padded) = SubSeq(padded, 3, 2 + n)
      BY <1>2, <1>6, <1>7 DEF UnpadFrame
<1>9. SubSeq(padded, 3, 2 + n) = data
  <2>1. /\ SubSeq(padded, 3, 2 + n) \in Seq(Byte)
        /\ Len(SubSeq(padded, 3, 2 + n)) = n
      BY <1>2, <1>6
  <2>2. \A i \in 1..n : SubSeq(padded, 3, 2 + n)[i] = padded[i + 2]
      BY <1>2, <1>6
  <2> QED BY <1>6, <2>1, <2>2
<1>10. Len(padded) % block = 0
      BY <1>1, <1>6
<1>11. Len(padded) \in (2 + n)..(1 + n + block)
      BY <1>1, <1>2, <1>6
<1> QED BY <1>8, <1>9, <1>10, <1>11
=============================================================================
