--------------------------- MODULE AudioChannelProofs ---------------------------
(***************************************************************************)
(* AudioChannel for every set of session keys, queue size, counter limit   *)
(* and setting of the two switches.                                        *)
(***************************************************************************)
EXTENDS AudioChannel, TLAPS

Frames  == Mic \cup {Silence}
Packets == [key : Keys, seq : 0..(MaxSequence - 1), frame : Frames]

(* The sentinel and silence are no microphone frames. *)
LEMMA FrameKinds ==
    /\ Silence \notin Mic /\ Stop \notin Mic /\ Stop # Silence
    /\ \A f \in Mic : f.key \in Keys /\ f.n \in Nat /\ f.n >= 1
  BY KeysAssumption DEF Mic, Silence, Stop

(* What an enqueued frame does to the queue, full or not. *)
LEMMA QueueFacts ==
    ASSUME NEW f \in Mic \cup {Stop}, queue \in Seq(Mic \cup {Stop}),
           Len(queue) <= QueueSize
    PROVE  /\ Enqueued(f) \in Seq(Mic \cup {Stop})
           /\ Len(Enqueued(f)) <= QueueSize
           /\ \A i \in 1..Len(Enqueued(f)) :
                 \/ Enqueued(f)[i] = f
                 \/ \E j \in 1..Len(queue) : Enqueued(f)[i] = queue[j]
           /\ Len(Enqueued(f)) \in Nat \ {0}
           /\ Enqueued(f)[Len(Enqueued(f))] = f
           /\ \E d \in {0, 1} : \A i \in 1..(Len(Enqueued(f)) - 1) :
                 /\ i + d \in 1..Len(queue)
                 /\ Enqueued(f)[i] = queue[i + d]
  <1>1. CASE Len(queue) < QueueSize
    <2>1. /\ Enqueued(f) \in Seq(Mic \cup {Stop})
          /\ Len(Enqueued(f)) = Len(queue) + 1
          /\ Enqueued(f)[Len(queue) + 1] = f
          /\ \A i \in 1..Len(queue) : Enqueued(f)[i] = queue[i]
      BY <1>1 DEF Enqueued
    <2>2. \A i \in 1..(Len(Enqueued(f)) - 1) :
             i + 0 \in 1..Len(queue) /\ Enqueued(f)[i] = queue[i + 0]
      BY <2>1
    <2>3. QED
      BY <1>1, <2>1, <2>2, SizesAssumption
  <1>2. CASE Len(queue) >= QueueSize
    <2>1. queue # <<>> /\ Len(queue) \in Nat /\ Len(queue) >= 1
      BY <1>2, SizesAssumption
    <2>2. /\ Tail(queue) \in Seq(Mic \cup {Stop})
          /\ Len(Tail(queue)) = Len(queue) - 1
          /\ \A i \in 1..Len(Tail(queue)) : Tail(queue)[i] = queue[i + 1]
      BY <2>1
    <2>3. Enqueued(f) = Append(Tail(queue), f)
      BY <1>2, SizesAssumption DEF Enqueued
    <2>4. /\ Enqueued(f) \in Seq(Mic \cup {Stop})
          /\ Len(Enqueued(f)) = Len(queue)
          /\ Enqueued(f)[Len(queue)] = f
          /\ \A i \in 1..(Len(queue) - 1) : Enqueued(f)[i] = queue[i + 1]
      BY <2>1, <2>2, <2>3
    <2>5. ASSUME NEW i \in 1..Len(queue), i # Len(queue)
          PROVE  i + 1 \in 1..Len(queue) /\ Enqueued(f)[i] = queue[i + 1]
      BY <2>1, <2>4, <2>5
    <2>6. \A i \in 1..(Len(Enqueued(f)) - 1) :
             i + 1 \in 1..Len(queue) /\ Enqueued(f)[i] = queue[i + 1]
      BY <2>1, <2>4
    <2>7. QED
      BY <2>1, <2>4, <2>5, <2>6
  <1>3. QED
    BY <1>1, <1>2, SizesAssumption

(* What taking the head does to it. *)
LEMMA HeadFacts ==
    ASSUME queue \in Seq(Mic \cup {Stop}), queue # <<>>
    PROVE  /\ Head(queue) = queue[1] /\ 1 \in 1..Len(queue)
           /\ Head(queue) \in Mic \cup {Stop}
           /\ Tail(queue) \in Seq(Mic \cup {Stop})
           /\ Len(Tail(queue)) = Len(queue) - 1
           /\ \A i \in 1..Len(Tail(queue)) :
                 i + 1 \in 1..Len(queue) /\ Tail(queue)[i] = queue[i + 1]
  OBVIOUS

-----------------------------------------------------------------------------
(* Type correctness. *)

LEMMA InitType == Init => TypeOK
  <1> SUFFICES ASSUME Init PROVE TypeOK
    OBVIOUS
  <1> USE SizesAssumption, SwitchesAssumption
  <1>1. queue \in Seq(Mic \cup {Stop}) /\ Len(queue) <= QueueSize
    BY DEF Init
  <1>2. /\ running \in BOOLEAN /\ joining \in BOOLEAN /\ reported \in BOOLEAN
        /\ gate \in BOOLEAN /\ recvGate \in BOOLEAN
    BY DEF Init
  <1>3. /\ sendSeq \in Nat /\ sendSeq <= MaxSequence
        /\ lastRecv \in -1..(MaxSequence - 1)
        /\ spoken \in [Keys -> Nat]
    BY DEF Init
  <1>4. heard \in [Keys -> Seq(Nat)]
    BY DEF Init
  <1>5. QED
    BY <1>1, <1>2, <1>3, <1>4 DEF Init, TypeOK, Off, At, Silence

(* The thread's record after each kind of step of its own. *)
Threads == [Keys -> [pc : {"off", "top", "wait", "frame", "keyed", "sending",
                           "sent"},
                     frame : Frames, on : Keys \cup {None}]]

LEMMA ThreadType ==
    ASSUME TypeOK, NEW k \in Keys
    PROVE  /\ thread \in Threads
           /\ Ends(k) => thread' \in Threads
           /\ \A pc \in {"top", "wait", "sent"} :
                 Goes(k, pc) => thread' \in Threads
           /\ \A f \in Frames : Holds(k, f) => thread' \in Threads
           /\ \A pc \in {"keyed", "sending"}, on \in Keys \cup {None} :
                 thread' = [thread EXCEPT ![k] = At(pc, @.frame, on)]
                    => thread' \in Threads
  <1>1. thread \in Threads
    BY DEF TypeOK, Threads, Frames
  <1>2. Ends(k) => thread' \in Threads
    BY <1>1 DEF Ends, Off, At, Threads, Frames
  <1>3. ASSUME NEW pc \in {"top", "wait", "sent"}, Goes(k, pc)
        PROVE  thread' \in Threads
    BY <1>1, <1>3 DEF Goes, At, Threads, Frames
  <1>4. ASSUME NEW f \in Frames, Holds(k, f)
        PROVE  thread' \in Threads
    BY <1>1, <1>4 DEF Holds, At, Threads
  <1>5. ASSUME NEW pc \in {"keyed", "sending"}, NEW on \in Keys \cup {None},
               thread' = [thread EXCEPT ![k] = At(pc, @.frame, on)]
        PROVE  thread' \in Threads
    BY <1>1, <1>5 DEF At, Threads
  <1>6. QED
    BY <1>1, <1>2, <1>3, <1>4, <1>5

LEMMA GuiType ==
    ASSUME TypeOK,
           \/ \E k \in Keys : StartSession(k)
           \/ Speak \/ Confirm \/ TeardownBegins \/ TeardownEnds
    PROVE  TypeOK'
  <1> USE SizesAssumption, SwitchesAssumption
  <1>1. ASSUME NEW k \in Keys, StartSession(k) PROVE TypeOK'
    <2>1. queue' \in Seq(Mic \cup {Stop}) /\ Len(queue') <= QueueSize
      BY <1>1 DEF StartSession
    <2>2. thread' \in Threads
      BY <1>1 DEF StartSession, Begins, TypeOK, Threads, Frames, At
    <2>3. sendSeq' = 0 /\ sendSeq' \in Nat /\ sendSeq' <= MaxSequence
      BY <1>1 DEF StartSession, Begins
    <2>4. /\ left' \subseteq Keys /\ shared' \subseteq Keys
          /\ early' \subseteq Keys \cup {None}
      BY <1>1 DEF StartSession, Begins, TypeOK
    <2>5. /\ sendKey' \in Keys /\ running' \in BOOLEAN /\ reported' \in BOOLEAN
          /\ started' \subseteq Keys
          /\ UNCHANGED <<joining, gate, vouched, wire, recvKey, lastRecv,
                        recvGate, heard, joined, spoken>>
      BY <1>1 DEF StartSession, Begins, receiverVars, TypeOK
    <2>6. QED
      BY <2>1, <2>2, <2>3, <2>4, <2>5 DEF TypeOK, Threads, Frames
  <1>2. CASE Speak
    <2>1. /\ spoken' \in [Keys -> Nat] /\ sendKey \in Keys
          /\ spoken'[sendKey] \in Nat \ {0}
      BY <1>2 DEF Speak, TypeOK
    <2>2. [key |-> sendKey, n |-> spoken'[sendKey]] \in Mic
      BY <2>1 DEF Mic
    <2>3. queue' \in Seq(Mic \cup {Stop}) /\ Len(queue') <= QueueSize
      BY <1>2, <2>2, QueueFacts DEF Speak, TypeOK
    <2>4. QED
      BY <1>2, <2>1, <2>3 DEF Speak, TypeOK, receiverVars
  <1>3. CASE Confirm
    <2>1. early' \subseteq Keys \cup {None} /\ vouched' \subseteq Keys
      BY <1>3 DEF Confirm, TypeOK
    <2>2. gate' \in BOOLEAN
      BY <1>3 DEF Confirm
    <2>3. QED
      BY <1>3, <2>1, <2>2 DEF Confirm, TypeOK, receiverVars
  <1>4. CASE TeardownBegins
    <2>1. queue' \in Seq(Mic \cup {Stop}) /\ Len(queue') <= QueueSize
      BY <1>4 DEF TeardownBegins, TypeOK
    <2>2. QED
      BY <1>4, <2>1 DEF TeardownBegins, TypeOK, receiverVars
  <1>5. CASE TeardownEnds
    <2>1. sendSeq' = 0 /\ sendSeq' \in Nat /\ sendSeq' <= MaxSequence
      BY <1>5 DEF TeardownEnds
    <2>2. QED
      BY <1>5, <2>1 DEF TeardownEnds, TypeOK, receiverVars
  <1>6. QED
    BY <1>1, <1>2, <1>3, <1>4, <1>5

LEMMA ThreadStepType ==
    ASSUME TypeOK, SessionOK, CounterOK, NEW k \in Keys, SendThread(k)
    PROVE  TypeOK'
  <1> USE SizesAssumption, ThreadType
  <1>1. CASE SenderLoops(k)
    <2>1. thread' \in Threads
      BY <1>1 DEF SenderLoops
    <2>2. QED
      BY <1>1, <2>1 DEF SenderLoops, TypeOK, threadFrame, receiverVars, Frames,
            Threads
  <1>2. CASE SenderStops(k)
    <2>1. thread' \in Threads
      BY <1>2 DEF SenderStops
    <2>2. queue' \in Seq(Mic \cup {Stop}) /\ Len(queue') <= QueueSize
      BY <1>2, HeadFacts DEF SenderStops, TypeOK
    <2>3. QED
      BY <1>2, <2>1, <2>2
         DEF SenderStops, TypeOK, threadFrame, receiverVars, Frames,
            Threads
  <1>3. CASE SenderTakes(k)
    <2>1. /\ queue' \in Seq(Mic \cup {Stop}) /\ Len(queue') <= QueueSize
          /\ Head(queue) \in Frames
      BY <1>3, HeadFacts DEF SenderTakes, TypeOK, Frames
    <2>2. thread' \in Threads
      BY <1>3, <2>1 DEF SenderTakes
    <2>3. QED
      BY <1>3, <2>1, <2>2
         DEF SenderTakes, TypeOK, threadFrame, receiverVars, Frames,
            Threads
  <1>4. CASE SenderIdles(k)
    <2>1. thread' \in Threads
      BY <1>4 DEF SenderIdles, Frames
    <2>2. QED
      BY <1>4, <2>1 DEF SenderIdles, TypeOK, threadFrame, receiverVars, Frames,
            Threads
  <1>5. CASE EncodeRaises(k)
    <2>1. thread' \in Threads
      BY <1>5 DEF EncodeRaises
    <2>2. QED
      BY <1>5, <2>1 DEF EncodeRaises, TypeOK, threadFrame, receiverVars, Frames,
            Threads
  <1>6. CASE TakesKey(k)
    <2>1. thread' \in Threads
      BY <1>6 DEF TakesKey, TypeOK
    <2>2. reported' \in BOOLEAN
      BY <1>6 DEF TakesKey, Reports, TypeOK
    <2>3. QED
      BY <1>6, <2>1, <2>2
         DEF TakesKey, TypeOK, threadFrame, receiverVars, Frames, Threads
  <1>7. CASE Encrypt(k)
    <2>1. thread' \in Threads
      BY <1>7 DEF Encrypt, Encrypts, TypeOK
    <2>2. thread[k].on \in Keys
      BY <1>7 DEF Encrypt, Encrypts, SessionOK, TypeOK
    <2>3. sendSeq \in 0..(MaxSequence - 1) /\ thread[k].frame \in Frames
      BY <1>7 DEF Encrypt, TypeOK, Frames
    <2>4. wire' \subseteq Packets
      BY <1>7, <2>2, <2>3 DEF Encrypt, Encrypts, TypeOK, Packets, Frames
    <2>5. QED
      BY <1>7, <2>1, <2>4
         DEF Encrypt, Encrypts, TypeOK, threadFrame, receiverVars, Frames,
            Threads, Packets
  <1>8. CASE Exhausted(k) \/ SendFails(k)
    <2>1. thread' \in Threads
      BY <1>8 DEF Exhausted, SendFails
    <2>2. reported' \in BOOLEAN
      BY <1>8 DEF Exhausted, SendFails, Reports, TypeOK
    <2>3. QED
      BY <1>8, <2>1, <2>2
         DEF Exhausted, SendFails, TypeOK, threadFrame, receiverVars, Frames,
            Threads
  <1>9. CASE SendReturns(k)
    <2>1. thread' \in Threads
      BY <1>9 DEF SendReturns
    <2>2. QED
      BY <1>9, <2>1 DEF SendReturns, TypeOK, threadFrame, receiverVars, Frames,
            Threads
  <1>10. CASE Advance(k)
    <2>1. thread' \in Threads
      BY <1>10 DEF Advance
    <2>2. Alone => sendSeq < MaxSequence
      BY <1>10 DEF Advance, SessionOK, CounterOK, Strays, Alone
    <2>3. sendSeq' \in Nat /\ (Alone => sendSeq' <= MaxSequence)
      BY <1>10, <2>2 DEF Advance, TypeOK
    <2>4. QED
      BY <1>10, <2>1, <2>3
         DEF Advance, TypeOK, threadFrame, receiverVars, Frames, Threads, Alone
  <1>11. QED
    BY <1>1, <1>2, <1>3, <1>4, <1>5, <1>6, <1>7, <1>8, <1>9, <1>10
       DEF SendThread

LEMMA PeerType ==
    ASSUME TypeOK, NoStaleAudio,
           \/ \E k \in Keys : PeerStarts(k)
           \/ PeerStops \/ PeerConfirms
           \/ \E p \in wire : HandleAudioPacket(p)
    PROVE  TypeOK'
  <1> USE SizesAssumption, SwitchesAssumption
  <1>1. CASE \E k \in Keys : PeerStarts(k)
    <2>1. -1 \in -1..(MaxSequence - 1)
      OBVIOUS
    <2>2. /\ shared' \subseteq Keys /\ shared \subseteq shared'
          /\ joined' \subseteq Keys
      BY <1>1 DEF PeerStarts, TypeOK
    <2>3. QED
      BY <1>1, <2>1, <2>2 DEF PeerStarts, TypeOK, senderVars
  <1>2. CASE PeerStops
    <2>1. -1 \in -1..(MaxSequence - 1)
      OBVIOUS
    <2>2. QED
      BY <1>2, <2>1 DEF PeerStops, TypeOK, senderVars
  <1>3. CASE PeerConfirms
    BY <1>3 DEF PeerConfirms, TypeOK, senderVars
  <1>4. CASE \E p \in wire : HandleAudioPacket(p)
    <2>1. PICK p \in wire : HandleAudioPacket(p)
      BY <1>4
    <2>2. p \in Packets
      BY <2>1 DEF TypeOK, Packets, Frames
    <2>3. lastRecv' \in -1..(MaxSequence - 1)
      BY <2>1, <2>2 DEF HandleAudioPacket, Packets
    <2>4. p.frame # Silence => p.frame.key \in Keys /\ p.frame.n \in Nat
      BY <2>2, FrameKinds DEF Packets, Frames
    <2>5. heard' \in [Keys -> Seq(Nat)]
      BY <2>1, <2>4 DEF HandleAudioPacket, TypeOK
    <2>6. QED
      BY <2>1, <2>3, <2>5 DEF HandleAudioPacket, TypeOK, senderVars
  <1>5. QED
    BY <1>1, <1>2, <1>3, <1>4

-----------------------------------------------------------------------------
(* Sessions and threads. *)

(* A step of the thread of k leaves the GUI thread's variables, the peer   *)
(* and the other threads alone.                                            *)
LEMMA ThreadStepFrame ==
    ASSUME TypeOK, SessionOK, NEW k \in Keys, SendThread(k)
    PROVE  /\ UNCHANGED threadFrame
           /\ \A j \in Keys \ {k} : thread'[j] = thread[j]
           /\ thread[k].pc # "off" /\ k \in started
           /\ reported => reported'
           /\ thread'[k].on \in {thread[k].on, sendKey, None}
  <1> USE DEF SendThread, SenderLoops, SenderStops, SenderTakes, SenderIdles,
         EncodeRaises, TakesKey, Encrypt, Encrypts, Exhausted, SendReturns,
         SendFails, Advance, Ends, Goes, Holds, Off, At, Reports
  <1>0. thread \in Threads
    BY ThreadType
  <1>1. UNCHANGED threadFrame
    OBVIOUS
  <1>2. thread[k].pc # "off" /\ k \in started
    BY DEF SessionOK
  <1>3. reported => reported'
    OBVIOUS
  <1>4. \A j \in Keys \ {k} : thread'[j] = thread[j]
    BY <1>0 DEF Threads
  <1>5. thread'[k].on \in {thread[k].on, sendKey, None}
    BY <1>0 DEF Threads
  <1>6. QED
    BY <1>1, <1>2, <1>3, <1>4, <1>5

(* In a session that no other thread works on, a thread other than its own *)
(* can only find that its sendall has failed.                              *)
LEMMA ForeignStep ==
    ASSUME TypeOK, SessionOK, Alone, NEW k \in Keys, k # sendKey, SendThread(k)
    PROVE  SendFails(k) /\ reported' = reported
  <1>1. thread[k].pc # "off"
    BY ThreadStepFrame
  <1>2. thread[k].pc = "sending" /\ ~Open(thread[k].on)
    BY <1>1 DEF SessionOK, Strays
  <1>3. SendFails(k)
    BY <1>2 DEF SendThread, SenderLoops, SenderStops, SenderTakes, SenderIdles,
         EncodeRaises, TakesKey, Encrypt, Encrypts, Exhausted, SendReturns,
         Advance
  <1>4. QED
    BY <1>3 DEF SendFails, Reports, TypeOK

(* A key that was taken is the thread's own or that of a mixed session.    *)
LEMMA KeyInHand ==
    ASSUME TypeOK, SessionOK, NEW k \in Keys, thread[k].pc = "keyed"
    PROVE  /\ thread[k].on \in Keys
           /\ thread[k].on \notin shared =>
                 Alone /\ k = sendKey /\ thread[k].on = sendKey
  BY KeysAssumption DEF TypeOK, SessionOK, Alone

(* The peer's steps, and a stutter, leave the sender and the wire alone. *)
LEMMA PeerStepFrame ==
    ASSUME \/ \E k \in Keys : PeerStarts(k)
           \/ PeerStops \/ PeerConfirms
           \/ \E p \in wire : HandleAudioPacket(p)
           \/ UNCHANGED vars
    PROVE  UNCHANGED <<senderVars, wire, spoken>> /\ shared \subseteq shared'
  BY DEF PeerStarts, PeerStops, PeerConfirms, HandleAudioPacket, vars

LEMMA SessionPreserved ==
    ASSUME TypeOK, SessionOK, [Next]_vars
    PROVE  SessionOK'
  <1>0. thread \in Threads
    BY DEF TypeOK, Threads, Frames
  <1>1. ASSUME NEW k \in Keys, StartSession(k) PROVE SessionOK'
    <2>1. /\ ~joining /\ k \notin started /\ sendKey' = k /\ k # None
          /\ running' = TRUE /\ joining' = joining /\ gate' = gate
          /\ vouched' = vouched
          /\ started' = started \cup {k}
          /\ thread' = [thread EXCEPT ![k] = At("top", Silence, None)]
          /\ left' = left \cup ({sendKey} \ {None})
          /\ shared' = IF Strays = {} THEN shared
                       ELSE shared \cup ({sendKey, k} \ {None})
          /\ early' = IF sendKey # None \/ None \in early
                      THEN (early \ {None}) \cup {k} ELSE early
      BY <1>1, KeysAssumption DEF StartSession, Begins
    <2>2. /\ thread'[k] = At("top", Silence, None)
          /\ \A j \in Keys \ {k} : thread'[j] = thread[j]
      BY <1>0, <2>1 DEF Threads
    <2>3. gate' /\ RequireSas => sendKey' \in vouched' \cup early'
      BY <2>1 DEF SessionOK
    <2>4. \A j \in Keys : /\ thread'[j].pc # "off" => j \in started'
                          /\ thread'[j].on \in started' \cup {None}
      BY <2>1, <2>2 DEF SessionOK, At
    <2>5. ASSUME Alone', NEW j \in Strays', j # k
          PROVE  FALSE
      <3>1. Strays = {}
        BY <2>1, <2>5 DEF Alone
      <3>2. /\ j \in Keys /\ thread'[j] = thread[j] /\ thread[j].pc # "off"
            /\ thread[j].pc = "sending" => Open(thread[j].on)'
        BY <2>2, <2>5 DEF Strays
      <3>3. thread[j].on # k
        BY <1>1, <2>1, <3>2 DEF SessionOK
      <3>4. Open(thread[j].on)' => Open(thread[j].on)
        BY <2>1, <3>2, <3>3 DEF Open
      <3>5. QED
        BY <3>1, <3>2, <3>4 DEF Strays
    <2>6. \A j \in Keys : thread'[j].pc \in {"keyed", "sending"} =>
             \/ thread'[j].pc = "keyed" /\ thread'[j].on \in shared'
             \/ thread'[j].pc = "sending" /\ (Alone' => j # sendKey')
             \/ j = sendKey' /\ thread'[j].on = j
      <3>1. ASSUME NEW j \in Keys, thread'[j].pc \in {"keyed", "sending"}
            PROVE  j # k /\ thread'[j] = thread[j]
        BY <2>2, <3>1 DEF At
      <3>2. ASSUME NEW j \in Keys, thread[j].pc = "keyed"
            PROVE  thread[j].on \in shared'
        <4>1. Strays # {}
          BY <3>2 DEF Strays
        <4>2. CASE thread[j].on \in shared
          BY <2>1, <4>2
        <4>3. CASE thread[j].on \notin shared
          BY <2>1, <3>2, <4>1, <4>3, KeyInHand, KeysAssumption
        <4>4. QED
          BY <4>2, <4>3
      <3>3. QED
        BY <2>1, <3>1, <3>2
    <2>7. sendKey' # None /\ sendKey' \in started' /\ ~joining'
      BY <2>1
    <2>8. Alone' => Strays' \subseteq {sendKey'}
      BY <2>1, <2>5
    <2>9. QED
      BY <2>3, <2>4, <2>6, <2>7, <2>8 DEF SessionOK
  <1>2. CASE Speak
    BY <1>2 DEF Speak, SessionOK, Alone, Strays, Open
  <1>3. CASE Confirm
    BY <1>3 DEF Confirm, SessionOK, Alone, Strays, Open
  <1>4. CASE TeardownBegins
    BY <1>4 DEF TeardownBegins, SessionOK, Alone, Strays, Open
  <1>5. CASE TeardownEnds
    <2>1. /\ joining' = FALSE /\ sendKey' = None /\ gate' = ~RequireSas
          /\ ~running /\ sendKey \in Keys
          /\ thread[sendKey].pc # "keyed"
          /\ UNCHANGED <<running, thread, started, shared>>
      BY <1>5 DEF TeardownEnds, SessionOK, TypeOK
    <2>2. \A k \in Keys : thread[k].pc = "keyed" => thread[k].on \in shared
      BY <2>1, KeyInHand
    <2>3. ~Alone'
      BY <2>1 DEF Alone
    <2>4. QED
      BY <2>1, <2>2, <2>3, SwitchesAssumption DEF SessionOK
  <1>6. ASSUME NEW k \in Keys, SendThread(k) PROVE SessionOK'
    <2>1. /\ UNCHANGED <<sendKey, running, joining, gate, left, started, vouched,
                        early, shared>>
          /\ \A j \in Keys \ {k} : thread'[j] = thread[j]
          /\ thread[k].pc # "off" /\ k \in started
          /\ thread'[k].on \in {thread[k].on, sendKey, None}
      BY <1>6, ThreadStepFrame DEF threadFrame
    <2>2. \A j \in Keys : /\ thread'[j].pc # "off" => j \in started'
                          /\ thread'[j].on \in started' \cup {None}
      BY <2>1 DEF SessionOK
    <2>3. CASE Alone /\ k # sendKey
      <3>1. thread' = [thread EXCEPT ![k] = Off]
        BY <1>6, <2>3, ForeignStep DEF SendFails, Ends
      <3>2. thread'[k].pc = "off"
        BY <1>0, <3>1 DEF Off, At, Threads
      <3>3. Strays' \subseteq Strays
        BY <2>1, <3>2 DEF Strays, Open
      <3>4. QED
        BY <2>1, <2>2, <3>2, <3>3 DEF SessionOK, Alone
    <2>4. CASE ~(Alone /\ k # sendKey)
      <3>1. Alone' <=> Alone
        BY <2>1 DEF Alone
      <3>2. Alone => Strays' \subseteq {sendKey}
        BY <2>1, <2>4 DEF SessionOK, Strays, Open
      <3>3. thread'[k].pc \in {"keyed", "sending"} =>
             \/ thread'[k].pc = "keyed" /\ thread'[k].on \in shared
             \/ thread'[k].pc = "sending" /\ (Alone => k # sendKey)
             \/ k = sendKey /\ thread'[k].on = k
        <4>1. CASE TakesKey(k)
          <5>1. \/ thread'[k].pc = "off"
                \/ sendKey # None /\ thread'[k].on = sendKey
                   /\ thread'[k].pc = "keyed"
            BY <1>0, <4>1 DEF TakesKey, Ends, Off, At, Threads
          <5>2. QED
            BY <2>4, <5>1 DEF Alone
        <4>2. CASE Encrypt(k)
          <5>1. thread'[k].on = sendKey /\ thread'[k].pc = "sending"
            BY <1>0, <4>2 DEF Encrypt, Encrypts, At, Threads
          <5>2. QED
            BY <2>4, <5>1
        <4>3. CASE ~TakesKey(k) /\ ~Encrypt(k)
          <5>1. thread'[k].pc \notin {"keyed", "sending"}
            BY <1>0, <1>6, <4>3
               DEF SendThread, SenderLoops, SenderStops, SenderTakes,
                   SenderIdles, EncodeRaises, Exhausted, SendReturns,
                   SendFails, Advance, Ends, Goes, Holds, Off, At, Threads
          <5>2. QED
            BY <5>1
        <4>4. QED
          BY <4>1, <4>2, <4>3
      <3>4. \A j \in Keys \ {k} : thread[j].pc \in {"keyed", "sending"} =>
             \/ thread[j].pc = "keyed" /\ thread[j].on \in shared
             \/ thread[j].pc = "sending" /\ (Alone => j # sendKey)
             \/ j = sendKey /\ thread[j].on = j
        BY DEF SessionOK
      <3>5. \A j \in Keys : thread'[j].pc \in {"keyed", "sending"} =>
             \/ thread'[j].pc = "keyed" /\ thread'[j].on \in shared'
             \/ thread'[j].pc = "sending" /\ (Alone' => j # sendKey')
             \/ j = sendKey' /\ thread'[j].on = j
        BY <2>1, <3>1, <3>3, <3>4
      <3>6. QED
        BY <2>1, <2>2, <3>1, <3>2, <3>5 DEF SessionOK
    <2>5. QED
      BY <2>3, <2>4
  <1>7. CASE UNCHANGED <<senderVars, wire, spoken>> /\ shared \subseteq shared'
    <2>1. UNCHANGED <<sendKey, running, joining, gate, thread, left, started,
                      vouched, early>> /\ (Alone' => Alone)
      BY <1>7 DEF senderVars, Alone
    <2>2. Alone => Strays' = Strays
      BY <2>1 DEF Strays, Open
    <2>3. QED
      BY <1>7, <2>1, <2>2 DEF SessionOK
  <1>8. QED
    BY <1>1, <1>2, <1>3, <1>4, <1>5, <1>6, <1>7, PeerStepFrame DEF Next

-----------------------------------------------------------------------------
(* The counter and the nonces. *)

(* The histories that the properties read only grow.                       *)
LEMMA HistoriesGrow ==
    ASSUME [Next]_vars
    PROVE  /\ shared \subseteq shared' /\ vouched \subseteq vouched'
           /\ early \ {None} \subseteq early'
  BY DEF Next, StartSession, Begins, Speak, Confirm, TeardownBegins,
         TeardownEnds, SendThread, SenderLoops, SenderStops, SenderTakes,
         SenderIdles, EncodeRaises, TakesKey, Encrypt, Encrypts, Exhausted,
         SendReturns, SendFails, Advance, PeerStarts, PeerStops, PeerConfirms,
         HandleAudioPacket, vars, threadFrame, senderVars

(* Only Encrypt puts anything on the wire: under the key of a mixed        *)
(* session, or from the thread of the session under its own key.           *)
LEMMA WireGrows ==
    ASSUME TypeOK, SessionOK, [Next]_vars
    PROVE  /\ wire \subseteq wire'
           /\ wire' # wire => \E k \in Keys : Encrypt(k)
  <1>1. wire' # wire => \E k \in Keys : Encrypt(k)
    BY DEF Next, StartSession, Begins, Speak, Confirm, TeardownBegins,
         TeardownEnds, SendThread, SenderLoops, SenderStops, SenderTakes,
         SenderIdles, EncodeRaises, TakesKey, Exhausted, SendReturns, SendFails,
         Advance, PeerStarts, PeerStops, PeerConfirms, HandleAudioPacket, vars,
         senderVars
  <1>2. \A k \in Keys : Encrypt(k) => wire \subseteq wire'
    BY DEF Encrypt, Encrypts
  <1>3. QED
    BY <1>1, <1>2

LEMMA Encrypted ==
    ASSUME TypeOK, SessionOK, NEW k \in Keys, Encrypt(k),
           NEW p \in wire' \ wire
    PROVE  /\ p = [key |-> thread[k].on, seq |-> sendSeq,
                   frame |-> thread[k].frame]
           /\ p.key \in Keys /\ p.seq = sendSeq /\ p.frame = thread[k].frame
           /\ p.key \notin shared =>
                 Alone /\ k = sendKey /\ p.key = sendKey
  <1>1. thread[k].pc = "keyed"
    BY DEF Encrypt, Encrypts
  <1>2. p = [key |-> thread[k].on, seq |-> sendSeq, frame |-> thread[k].frame]
    BY DEF Encrypt, Encrypts
  <1>3. QED
    BY <1>1, <1>2, KeyInHand

LEMMA CounterFrame ==
    ASSUME CounterOK, wire' = wire, started' = started,
           Alone' => /\ Alone /\ sendKey' = sendKey /\ sendSeq' = sendSeq
                     /\ thread'[sendKey] = thread[sendKey]
    PROVE  CounterOK'
  <1>1. CASE ~Alone'
    BY <1>1 DEF CounterOK
  <1>2. CASE Alone'
    <2>1. /\ Alone /\ sendKey' = sendKey /\ sendSeq' = sendSeq
          /\ thread'[sendKey'].pc = thread[sendKey].pc
      BY <1>2
    <2>2. QED
      BY <1>2, <2>1 DEF CounterOK
  <1>3. QED
    BY <1>1, <1>2

LEMMA NoncesPreserved ==
    ASSUME TypeOK, SessionOK, CounterOK, NonceUnique, [Next]_vars
    PROVE  CounterOK' /\ NonceUnique'
  <1>0. thread \in Threads
    BY DEF TypeOK, Threads, Frames
  <1>1. CASE UNCHANGED wire
    <2>1. shared \subseteq shared'
      BY HistoriesGrow
    <2>2. NonceUnique'
      BY <1>1, <2>1 DEF NonceUnique
    <2>3. ASSUME NEW k \in Keys, StartSession(k) PROVE CounterOK'
      <3>1. /\ k \notin started /\ sendKey' = k /\ started' = started \cup {k}
            /\ thread'[k].pc = "top"
        BY <1>0, <2>3 DEF StartSession, Begins, At, Threads
      <3>2. QED
        BY <1>1, <3>1 DEF CounterOK
    <2>4. CASE Speak \/ Confirm \/ TeardownBegins
      <3>1. UNCHANGED <<sendKey, sendSeq, thread, started, shared>>
        BY <2>4 DEF Speak, Confirm, TeardownBegins
      <3>2. QED
        BY <1>1, <2>2, <3>1, CounterFrame DEF Alone
    <2>5. CASE TeardownEnds
      <3>1. ~Alone' /\ started' = started
        BY <2>5 DEF TeardownEnds, Alone
      <3>2. QED
        BY <1>1, <2>2, <3>1, CounterFrame
    <2>6. ASSUME NEW k \in Keys, SendThread(k) PROVE CounterOK'
      <3>1. /\ sendKey' = sendKey /\ started' = started /\ (Alone' <=> Alone)
            /\ \A j \in Keys \ {k} : thread'[j] = thread[j]
            /\ thread[k].pc # "off"
        BY <2>6, ThreadStepFrame DEF threadFrame, Alone
      <3>2. CASE ~Alone
        BY <1>1, <3>1, <3>2 DEF CounterOK
      <3>3. CASE Alone /\ k # sendKey
        <4>1. sendSeq' = sendSeq
          BY <2>6, <3>3, ForeignStep DEF SendFails
        <4>2. thread'[sendKey] = thread[sendKey]
          BY <3>1, <3>3 DEF Alone, TypeOK
        <4>3. QED
          BY <1>1, <3>1, <3>3, <4>1, <4>2 DEF CounterOK
      <3>4. CASE Alone /\ k = sendKey /\ Advance(k)
        <4>1. /\ sendSeq \in Nat /\ sendSeq' = sendSeq + 1
              /\ thread'[k].pc = "top"
          BY <1>0, <3>4 DEF Advance, Goes, At, TypeOK, Threads
        <4>2. \A p \in wire : p.seq \in Nat
          BY DEF TypeOK
        <4>3. ASSUME NEW p \in wire, p.key = sendKey
              PROVE  p.seq <= sendSeq' /\ p.seq # sendSeq'
          <5>1. p.seq \in Nat /\ p.seq <= sendSeq
            BY <3>4, <4>2, <4>3 DEF CounterOK
          <5>2. QED
            BY <4>1, <5>1
        <4>4. QED
          BY <1>1, <3>1, <3>4, <4>1, <4>3 DEF CounterOK
      <3>5. CASE Alone /\ k = sendKey /\ ~Advance(k)
        <4>1. sendSeq' = sendSeq
          BY <2>6, <3>5 DEF SendThread, SenderLoops, SenderStops, SenderTakes,
                SenderIdles, EncodeRaises, TakesKey, Encrypt, Encrypts,
                Exhausted, SendReturns, SendFails
        <4>2. CASE Encrypt(k)
          <5>1. thread'[k].pc = "sending" /\ sendSeq < MaxSequence
            BY <1>0, <4>2 DEF Encrypt, Encrypts, At, Threads
          <5>2. QED
            BY <1>1, <3>1, <3>5, <4>1, <5>1 DEF CounterOK
        <4>3. CASE SendReturns(k)
          <5>1. thread'[k].pc = "sent" /\ thread[k].pc = "sending"
            BY <1>0, <4>3 DEF SendReturns, Goes, At, Threads
          <5>2. QED
            BY <1>1, <3>1, <3>5, <4>1, <5>1 DEF CounterOK
        <4>4. CASE ~Encrypt(k) /\ ~SendReturns(k)
          <5>1. /\ thread'[k].pc \notin {"sending", "sent"}
                /\ thread[k].pc \in {"sending", "sent", "off"}
                   => thread'[k].pc = "off"
            BY <1>0, <2>6, <3>5, <4>4
               DEF SendThread, SenderLoops, SenderStops, SenderTakes,
                   SenderIdles, EncodeRaises, TakesKey, Exhausted, SendFails,
                   Ends, Goes, Holds, Off, At, Threads
          <5>2. QED
            BY <1>1, <3>1, <3>5, <4>1, <5>1 DEF CounterOK
        <4>5. QED
          BY <4>2, <4>3, <4>4
      <3>6. QED
        BY <3>2, <3>3, <3>4, <3>5
    <2>7. CASE UNCHANGED <<senderVars, wire, spoken>>
      BY <1>1, <2>1, <2>2, <2>7, CounterFrame DEF senderVars, Alone
    <2>8. QED
      BY <2>2, <2>3, <2>4, <2>5, <2>6, <2>7, PeerStepFrame DEF Next
  <1>2. ASSUME NEW k \in Keys, Encrypt(k), wire' # wire
        PROVE  CounterOK' /\ NonceUnique'
    <2>1. /\ UNCHANGED <<sendKey, sendSeq, started, shared>>
          /\ sendSeq < MaxSequence /\ sendSeq \in Nat
          /\ thread'[k].pc = "sending"
          /\ \A j \in Keys \ {k} : thread'[j] = thread[j]
          /\ thread[k].pc = "keyed" /\ wire \subseteq wire'
      BY <1>0, <1>2 DEF Encrypt, Encrypts, threadFrame, At, TypeOK, Threads
    <2>2. Alone => k = sendKey
      BY <1>2, ForeignStep, <2>1 DEF SendThread, SendFails
    <2>3. ASSUME NEW p \in wire' \ wire
          PROVE  p.key \in started /\ p.seq = sendSeq
      <3>1. p.seq = sendSeq /\ p.key = thread[k].on
        BY <1>2, <2>3, Encrypted
      <3>2. thread[k].on \in started \cup {None} /\ thread[k].on \in Keys
        BY <2>1, KeyInHand DEF SessionOK
      <3>3. QED
        BY <3>1, <3>2, KeysAssumption
    <2>4. CounterOK'
      <3>1. \A p \in wire' : p.key \in started
        BY <2>3 DEF CounterOK
      <3>2. ASSUME Alone, NEW p \in wire', p.key = sendKey
            PROVE  p.seq <= sendSeq
        BY <2>1, <2>3, <3>2 DEF CounterOK
      <3>3. QED
        BY <2>1, <2>2, <3>1, <3>2 DEF CounterOK, Alone
    <2>5. NonceUnique'
      <3>1. ASSUME NEW p \in wire' \ wire, p.key \notin shared, NEW q \in wire,
                   q.key = p.key, q.seq = p.seq
            PROVE  FALSE
        <4>1. Alone /\ k = sendKey /\ p.key = sendKey /\ p.seq = sendSeq
          BY <1>2, <3>1, Encrypted
        <4>2. QED
          BY <2>1, <3>1, <4>1 DEF CounterOK
      <3>2. ASSUME NEW p \in wire' \ wire, NEW q \in wire' \ wire PROVE p = q
        BY <1>2, <3>2, Encrypted
      <3>3. QED
        BY <2>1, <3>1, <3>2 DEF NonceUnique
    <2>6. QED
      BY <2>4, <2>5
  <1>3. QED
    BY <1>1, <1>2, WireGrows

-----------------------------------------------------------------------------
(* What the frames carry. *)

LEMMA FramesPreserved ==
    ASSUME TypeOK, SessionOK, FramesOK, [Next]_vars
    PROVE  FramesOK'
  <1>0. thread \in Threads
    BY DEF TypeOK, Threads, Frames
  <1>1. ASSUME NEW k \in Keys, StartSession(k) PROVE FramesOK'
    <2>1. /\ queue' = <<>> /\ sendKey' = k /\ thread'[k].pc = "top"
      BY <1>0, <1>1 DEF StartSession, Begins, At, Threads
    <2>2. QED
      BY <2>1 DEF FramesOK, InHand
  <1>2. CASE Speak
    <2> DEFINE f == [key |-> sendKey, n |-> spoken'[sendKey]]
    <2>1. /\ sendKey \in Keys /\ sendKey # None /\ f \in Mic /\ f # Stop
          /\ UNCHANGED <<sendKey, running, thread, vouched, early, shared>>
          /\ queue' = IF gate THEN Enqueued(f) ELSE queue
      <3>1. sendKey \in Keys /\ spoken'[sendKey] \in Nat \ {0}
        BY <1>2 DEF Speak, TypeOK
      <3>2. f \in Mic
        BY <3>1 DEF Mic
      <3>3. QED
        BY <1>2, <3>1, <3>2, FrameKinds DEF Speak
    <2>2. CASE ~gate
      BY <2>1, <2>2 DEF FramesOK, Fresh, InHand, Alone
    <2>3. CASE gate
      <3>1. \A i \in 1..Len(queue') :
               queue'[i] = f \/ \E j \in 1..Len(queue) : queue'[i] = queue[j]
        <4>1. f \in Mic \cup {Stop} /\ queue' = Enqueued(f)
          BY <2>1, <2>3
        <4>2. queue \in Seq(Mic \cup {Stop}) /\ Len(queue) <= QueueSize
          BY DEF TypeOK
        <4>3. QED
          BY <4>1, <4>2, QueueFacts
      <3>2. f.key = sendKey /\ (RequireSas => sendKey \in vouched \cup early)
        BY <2>1, <2>3 DEF SessionOK
      <3>3. \A i \in 1..Len(queue') : queue'[i] # Stop =>
               /\ queue'[i].key = sendKey
               /\ RequireSas => sendKey \in vouched \cup early
        BY <2>1, <3>1, <3>2 DEF FramesOK, Fresh
      <3>4. running => \A i \in 1..Len(queue') : queue'[i] # Stop
        BY <2>1, <3>1 DEF FramesOK
      <3>5. QED
        BY <2>1, <3>3, <3>4 DEF FramesOK, Fresh, InHand, Alone
    <2>4. QED
      BY <2>2, <2>3
  <1>3. CASE Confirm
    BY <1>3 DEF Confirm, FramesOK, Fresh, InHand, Alone
  <1>4. CASE TeardownBegins
    <2>1. /\ running' = FALSE
          /\ UNCHANGED <<sendKey, thread, vouched, early, shared>>
      BY <1>4 DEF TeardownBegins
    <2>2. \A i \in 1..Len(queue') : queue'[i] # Stop =>
               \E j \in 1..Len(queue) : queue'[i] = queue[j]
      BY <1>4 DEF TeardownBegins, TypeOK
    <2>3. QED
      BY <2>1, <2>2 DEF FramesOK, Fresh, InHand, Alone
  <1>5. CASE TeardownEnds
    BY <1>5 DEF TeardownEnds, FramesOK
  <1>6. ASSUME NEW k \in Keys, SendThread(k) PROVE FramesOK'
    <2>1. UNCHANGED <<sendKey, running, vouched, early, shared>>
      BY <1>6, ThreadStepFrame DEF threadFrame
    <2>2. /\ Len(queue') \in Nat
          /\ \A i \in 1..Len(queue') :
                 \E j \in 1..Len(queue) : queue'[i] = queue[j]
      <3>1. queue' = queue \/ (queue # <<>> /\ queue' = Tail(queue))
        BY <1>6 DEF SendThread, SenderLoops, SenderStops, SenderTakes,
               SenderIdles, EncodeRaises, TakesKey, Encrypt, Encrypts,
               Exhausted, SendReturns, SendFails, Advance
      <3>2. CASE queue' = queue
        BY <3>2 DEF TypeOK
      <3>3. CASE queue # <<>> /\ queue' = Tail(queue)
        <4>1. queue \in Seq(Mic \cup {Stop})
          BY DEF TypeOK
        <4>2. QED
          BY <3>3, <4>1, HeadFacts
      <3>4. QED
        BY <3>1, <3>2, <3>3
    <2>3. ASSUME Alone, InHand'
          PROVE  Fresh(thread'[sendKey].frame)
      <3>1. CASE k # sendKey
        <4>1. thread'[sendKey] = thread[sendKey]
          BY <1>6, <2>3, <3>1, ThreadStepFrame DEF Alone, TypeOK
        <4>2. QED
          BY <2>1, <2>3, <4>1 DEF FramesOK, InHand, Alone
      <3>2. CASE k = sendKey /\ SenderTakes(k)
        <4>1. /\ thread'[sendKey].frame = Head(queue)
              /\ queue # <<>> /\ Head(queue) # Stop
          BY <1>0, <3>2 DEF SenderTakes, Holds, At, Threads
        <4>2. QED
          BY <2>3, <4>1, HeadFacts DEF FramesOK, TypeOK, Alone
      <3>3. CASE k = sendKey /\ TakesKey(k)
        <4>1. /\ thread'[sendKey].frame = thread[sendKey].frame
              /\ thread[sendKey].pc = "frame"
          BY <1>0, <2>3, <3>3 DEF TakesKey, At, Threads, Alone
        <4>2. InHand
          BY <2>1, <2>3, <4>1 DEF InHand
        <4>3. QED
          BY <2>3, <4>1, <4>2 DEF FramesOK, Alone
      <3>4. CASE k = sendKey /\ ~SenderTakes(k) /\ ~TakesKey(k)
        <4>1. thread'[k].pc \notin {"frame", "keyed"} \/ thread'[k].frame = Silence
          BY <1>0, <1>6, <3>4
             DEF SendThread, SenderLoops, SenderStops, SenderIdles,
                 EncodeRaises, Encrypt, Encrypts, Exhausted, SendReturns,
                 SendFails, Advance, Ends, Goes, Holds, Off, At, Threads
        <4>2. QED
          BY <2>1, <2>3, <3>4, <4>1 DEF InHand
      <3>5. QED
        BY <3>1, <3>2, <3>3, <3>4
    <2>4. QED
      BY <2>1, <2>2, <2>3 DEF FramesOK, Fresh, Alone
  <1>7. CASE UNCHANGED <<senderVars, wire, spoken>>
    BY <1>7, HistoriesGrow DEF senderVars, FramesOK, Fresh, InHand, Alone
  <1>8. QED
    BY <1>1, <1>2, <1>3, <1>4, <1>5, <1>6, <1>7, PeerStepFrame DEF Next

(* What leaves under the key of an unmixed session was fit to leave.       *)
LEMMA WireFresh ==
    ASSUME TypeOK, SessionOK, FramesOK, [Next]_vars
    PROVE  \A p \in wire' \ wire : p.frame # Silence /\ p.key \notin shared =>
              /\ p.frame.key = p.key
              /\ RequireSas => p.key \in vouched \cup early
  <1>1. SUFFICES ASSUME NEW p \in wire' \ wire, p.frame # Silence,
                        p.key \notin shared
                 PROVE  /\ p.frame.key = p.key
                        /\ RequireSas => p.key \in vouched \cup early
    OBVIOUS
  <1>2. PICK k \in Keys : Encrypt(k)
    BY WireGrows
  <1>3. /\ Alone /\ k = sendKey /\ p.key = sendKey /\ p.frame = thread[k].frame
        /\ thread[k].pc = "keyed"
    BY <1>1, <1>2, Encrypted DEF Encrypt, Encrypts
  <1>4. QED
    BY <1>1, <1>3 DEF FramesOK, Fresh, InHand, Alone

LEMMA StopsPreserved ==
    ASSUME TypeOK, SessionOK, FramesOK, NoSilentStop, [Next]_vars
    PROVE  NoSilentStop'
  <1>0. thread \in Threads
    BY DEF TypeOK, Threads, Frames
  <1>1. ASSUME NEW k \in Keys, StartSession(k) PROVE NoSilentStop'
    BY <1>0, <1>1 DEF StartSession, Begins, NoSilentStop, At, Threads
  <1>2. CASE Speak \/ Confirm
    BY <1>2 DEF Speak, Confirm, NoSilentStop
  <1>3. CASE TeardownBegins \/ TeardownEnds
    BY <1>3 DEF TeardownBegins, TeardownEnds, NoSilentStop
  <1>4. ASSUME NEW k \in Keys, SendThread(k) PROVE NoSilentStop'
    <2> SUFFICES ASSUME sendKey' # None, running', thread'[sendKey'].pc = "off"
                 PROVE  reported'
      BY DEF NoSilentStop
    <2>1. sendKey' = sendKey /\ running' = running
      BY <1>4, ThreadStepFrame DEF threadFrame
    <2>2. CASE k # sendKey
      <3>1. thread[sendKey].pc = "off" /\ (reported => reported')
        BY <1>4, <2>1, <2>2, ThreadStepFrame DEF TypeOK
      <3>2. QED
        BY <2>1, <3>1 DEF NoSilentStop
    <2>3. CASE k = sendKey
      <3>1. ~SenderStops(k)
        <4>1. \A i \in 1..Len(queue) : queue[i] # Stop
          BY <2>1 DEF FramesOK
        <4>2. QED
          BY <4>1, HeadFacts DEF SenderStops, TypeOK
      <3>2. \/ Exhausted(k) \/ SendFails(k)
            \/ SenderLoops(k) \/ SenderTakes(k) \/ SenderIdles(k)
            \/ EncodeRaises(k) \/ TakesKey(k) \/ Encrypt(k) \/ SendReturns(k)
            \/ Advance(k)
        BY <1>4, <3>1 DEF SendThread
      <3>3. Exhausted(k) \/ SendFails(k)
        BY <1>0, <2>1, <2>3, <3>2
           DEF SenderLoops, SenderTakes, SenderIdles, EncodeRaises, TakesKey,
               Encrypt, Encrypts, SendReturns, Advance, Goes, Holds, At, Threads
      <3>4. QED
        BY <2>3, <3>3 DEF Exhausted, SendFails, Reports
    <2>4. QED
      BY <2>2, <2>3
  <1>5. CASE UNCHANGED <<senderVars, wire, spoken>>
    BY <1>5 DEF senderVars, NoSilentStop
  <1>6. QED
    BY <1>1, <1>2, <1>3, <1>4, <1>5, PeerStepFrame DEF Next

-----------------------------------------------------------------------------
LEMMA InitInv == Init => Inv
  <1> SUFFICES ASSUME Init PROVE Inv
    OBVIOUS
  <1>1. TypeOK
    BY InitType
  <1>2. SessionOK
    BY SwitchesAssumption DEF Init, SessionOK, Off, At, Alone
  <1>3. CounterOK /\ FramesOK
    BY DEF Init, CounterOK, FramesOK, Alone
  <1>4. NonceUnique /\ NoStaleAudio /\ HeldUntilConfirmed /\ NoSilentStop
    BY DEF Init, NonceUnique, NoStaleAudio, HeldUntilConfirmed, NoSilentStop
  <1>5. QED
    BY <1>1, <1>2, <1>3, <1>4 DEF Inv

LEMMA NextInv == Inv /\ [Next]_vars => Inv'
  <1> SUFFICES ASSUME Inv, [Next]_vars PROVE Inv'
    OBVIOUS
  <1> USE DEF Inv
  <1>1. TypeOK'
    <2>1. CASE UNCHANGED vars
      BY <2>1 DEF vars, senderVars, receiverVars, TypeOK
    <2>2. CASE \/ \E k \in Keys : StartSession(k)
               \/ Speak \/ Confirm \/ TeardownBegins \/ TeardownEnds
      BY <2>2, GuiType
    <2>3. ASSUME NEW k \in Keys, SendThread(k) PROVE TypeOK'
      BY <2>3, ThreadStepType
    <2>4. CASE \/ \E k \in Keys : PeerStarts(k)
               \/ PeerStops \/ PeerConfirms
               \/ \E p \in wire : HandleAudioPacket(p)
      BY <2>4, PeerType
    <2>5. QED
      BY <2>1, <2>2, <2>3, <2>4 DEF Next
  <1>2. SessionOK' /\ FramesOK'
    BY SessionPreserved, FramesPreserved
  <1>3. CounterOK' /\ NonceUnique'
    BY NoncesPreserved
  <1>4. NoStaleAudio' /\ HeldUntilConfirmed'
    <2>1. \A p \in wire' : p.key # None
      BY <1>1, KeysAssumption DEF TypeOK
    <2>2. QED
      BY <2>1, WireFresh, HistoriesGrow DEF NoStaleAudio, HeldUntilConfirmed
  <1>5. NoSilentStop'
    BY StopsPreserved
  <1>6. QED
    BY <1>1, <1>2, <1>3, <1>4, <1>5

(* The inductive invariant of the audio path. *)
THEOREM Invariance == Spec => []Inv
  BY InitInv, NextInv, PTL DEF Spec

(* Every field keeps its type: the queue its bound, the counter of an      *)
(* unmixed session the 32-bit header field it is packed into.              *)
THEOREM TypeCorrect == Spec => []TypeOK
  BY Invariance, PTL DEF Inv

(* No AES-GCM nonce is used twice with a key that only one send thread     *)
(* works with, for any number of sessions, failed sends and expired joins: *)
(* a nonce is reused, if at all, in a session that began over another.     *)
THEOREM NoncesUnique == Spec => []NonceUnique
  BY Invariance, PTL DEF Inv

(* Such a session never carries audio captured in another.                 *)
THEOREM NothingStale == Spec => []NoStaleAudio
  BY Invariance, PTL DEF Inv

(* With REQUIRE_SAS_CONFIRMATION the microphone is silent until the words  *)
(* of the session were confirmed, unless the session began over another or *)
(* the prompt of an earlier one was answered too late.                     *)
THEOREM GateHolds == Spec => []HeldUntilConfirmed
  BY Invariance, PTL DEF Inv

(* No send thread ends unnoticed while its session goes on. *)
THEOREM StopsAreReported == Spec => []NoSilentStop
  BY Invariance, PTL DEF Inv

-----------------------------------------------------------------------------
(* The order of the frames. *)

LEMMA FrameNumbers ==
    ASSUME TypeOK
    PROVE  /\ \A p \in wire : /\ p.key \in Keys /\ p.seq \in Nat
                              /\ p.frame # Silence => p.frame.n \in Nat
           /\ \A k \in Keys : /\ spoken[k] \in Nat
                              /\ thread[k].frame # Silence
                                   => thread[k].frame.n \in Nat
           /\ \A i \in 1..Len(queue) : queue[i] # Stop => queue[i].n \in Nat
  <1>1. \A f \in Mic \cup {Silence, Stop} : f.n \in Nat
    BY DEF Mic, Silence, Stop
  <1>2. \A p \in wire : p.key \in Keys /\ p.seq \in Nat /\ p.frame.n \in Nat
    BY <1>1 DEF TypeOK
  <1>3. \A k \in Keys : spoken[k] \in Nat /\ thread[k].frame.n \in Nat
    BY <1>1 DEF TypeOK
  <1>4. \A i \in 1..Len(queue) : queue[i].n \in Nat
    BY <1>1 DEF TypeOK
  <1>5. QED
    BY <1>2, <1>3, <1>4

LEMMA SpeakOrdered ==
    ASSUME Inv, OrderOK, Speak
    PROVE  OrderOK'
  <1> DEFINE f == [key |-> sendKey, n |-> spoken'[sendKey]]
  <1> USE DEF Inv
  <1>1. /\ sendKey \in Keys /\ f \in Mic /\ f # Stop
        /\ spoken[sendKey] \in Nat /\ f.n = spoken[sendKey] + 1
        /\ spoken'[sendKey] = spoken[sendKey] + 1
        /\ \A k \in Keys \ {sendKey} : spoken'[k] = spoken[k]
        /\ UNCHANGED <<sendKey, thread, wire, shared>>
        /\ queue' = IF gate THEN Enqueued(f) ELSE queue
    <2>1. /\ sendKey \in Keys /\ spoken[sendKey] \in Nat
          /\ spoken'[sendKey] = spoken[sendKey] + 1
          /\ \A k \in Keys \ {sendKey} : spoken'[k] = spoken[k]
      BY DEF Speak, TypeOK
    <2>2. f \in Mic
      BY <2>1 DEF Mic
    <2>3. QED
      BY <2>1, <2>2, FrameKinds DEF Speak
  <1>0. TypeOK /\ WireOrder
    BY DEF OrderOK
  <1> HIDE DEF Inv
  <1>n. \A p \in wire : p.frame # Silence =>
           p.key \in Keys /\ p.frame.n \in Nat /\ spoken[p.key] \in Nat
    BY <1>0, FrameNumbers
  <1>w. \A p \in wire : p.frame # Silence /\ p.key \notin shared
                         => p.frame.n <= spoken[p.key]
    BY <1>0 DEF WireOrder
  <1>2. WireOrder'
    <2>1. \A p \in wire : p.frame # Silence /\ p.key \notin shared =>
             /\ p.key \in Keys /\ p.frame.n \in Nat /\ spoken[p.key] \in Nat
             /\ p.frame.n <= spoken[p.key]
      BY <1>n, <1>w
    <2>2. \A k \in Keys : spoken[k] \in Nat =>
             spoken'[k] \in Nat /\ spoken[k] <= spoken'[k]
      BY <1>1
    <2>3. \A p \in wire : p.frame # Silence /\ p.key \notin shared
                           => p.frame.n <= spoken'[p.key]
      BY <2>1, <2>2
    <2>4. QED
      BY <1>1, <2>3 DEF OrderOK, WireOrder
  <1>3. HandOrder'
    <2>1. SUFFICES ASSUME Alone, InHand
                   PROVE  /\ thread[sendKey].frame.n <= spoken[sendKey] + 1
                          /\ OnWireBefore(thread[sendKey].frame.n)
      BY <1>1 DEF HandOrder, InHand, OnWireBefore, Alone
    <2>2. /\ thread[sendKey].frame.n <= spoken[sendKey]
          /\ OnWireBefore(thread[sendKey].frame.n)
      BY <1>1, <2>1, KeysAssumption DEF OrderOK, HandOrder
    <2>3. thread[sendKey].frame.n \in Nat
      BY <1>0, <1>1, <2>1, FrameNumbers DEF InHand
    <2>4. QED
      BY <1>1, <2>2, <2>3
  <1>4. Alone => OnWireBefore(f.n)
    <2>1. SUFFICES ASSUME Alone, NEW p \in wire, p.key = sendKey, p.frame # Silence
                   PROVE  p.frame.n < f.n
      BY DEF OnWireBefore
    <2>2. p.frame.n \in Nat /\ p.frame.n <= spoken[sendKey]
      BY <1>n, <1>w, <2>1 DEF Alone
    <2>3. QED
      BY <1>1, <2>2
  <1>5. Alone /\ InHand => thread[sendKey].frame.n < f.n
    <2>1. SUFFICES ASSUME Alone, InHand PROVE thread[sendKey].frame.n < f.n
      OBVIOUS
    <2>2. thread[sendKey].frame.n <= spoken[sendKey]
      BY <1>1, <2>1, KeysAssumption DEF OrderOK, HandOrder
    <2>3. thread[sendKey].frame.n \in Nat
      BY <1>0, <1>1, <2>1, FrameNumbers DEF InHand
    <2>4. QED
      BY <1>1, <2>2, <2>3
  <1>6. CASE ~gate
    BY <1>0, <1>1, <1>2, <1>3, <1>6, FrameNumbers
       DEF OrderOK, QueueOrder, InHand, OnWireBefore, Alone
  <1>7. CASE gate
    <2> DEFINE L == Len(queue')
    <2>1. /\ L \in Nat \ {0} /\ queue'[L] = f
          /\ \E d \in {0, 1} : \A i \in 1..(L - 1) :
                i + d \in 1..Len(queue) /\ queue'[i] = queue[i + d]
      <3>1. queue \in Seq(Mic \cup {Stop}) /\ Len(queue) <= QueueSize
        BY <1>0 DEF TypeOK
      <3>2. queue' = Enqueued(f)
        BY <1>1, <1>7
      <3>3. f \in Mic \cup {Stop}
        BY <1>1
      <3> HIDE DEF f
      <3>4. QED
        BY <3>1, <3>2, <3>3, QueueFacts
    <2>2. PICK d \in {0, 1} : \A i \in 1..(L - 1) :
                i + d \in 1..Len(queue) /\ queue'[i] = queue[i + d]
      BY <2>1
    <2>3. Alone => \A i \in 1..Len(queue) : queue[i] # Stop =>
             /\ queue[i].n \in Nat /\ queue[i].n <= spoken[sendKey]
             /\ \A j \in 1..(i - 1) : queue[j] # Stop
                                      => queue[j].n < queue[i].n
             /\ InHand => thread[sendKey].frame.n < queue[i].n
             /\ OnWireBefore(queue[i].n)
      BY <1>0, <1>1, FrameNumbers, KeysAssumption DEF OrderOK, QueueOrder
    <2>4. ASSUME Alone, NEW i \in 1..L, queue'[i] # Stop
          PROVE  /\ queue'[i].n <= spoken'[sendKey]
                 /\ InHand => thread[sendKey].frame.n < queue'[i].n
                 /\ OnWireBefore(queue'[i].n)
                 /\ \A j \in 1..(i - 1) : queue'[j] # Stop
                                          => queue'[j].n < queue'[i].n
      <3>1. CASE i = L
        <4>1. /\ queue'[i].n <= spoken'[sendKey]
              /\ InHand => thread[sendKey].frame.n < queue'[i].n
              /\ OnWireBefore(queue'[i].n)
          BY <1>1, <1>4, <1>5, <2>1, <2>4, <3>1
        <4>2. ASSUME NEW j \in 1..(i - 1), queue'[j] # Stop
              PROVE  queue'[j].n < queue'[i].n
          <5>1. j + d \in 1..Len(queue) /\ queue'[j] = queue[j + d]
            BY <2>1, <2>2, <3>1
          <5>2. queue'[j].n \in Nat /\ queue'[j].n <= spoken[sendKey]
            BY <2>3, <2>4, <4>2, <5>1
          <5>3. QED
            BY <1>1, <2>1, <3>1, <5>2
        <4>3. QED
          BY <4>1, <4>2
      <3>2. CASE i # L
        <4>1. /\ i \in 1..(L - 1) /\ i + d \in 1..Len(queue)
              /\ queue'[i] = queue[i + d]
          BY <2>1, <2>2, <3>2
        <4>2. /\ queue'[i].n \in Nat /\ queue'[i].n <= spoken[sendKey]
              /\ InHand => thread[sendKey].frame.n < queue'[i].n
              /\ OnWireBefore(queue'[i].n)
          BY <2>3, <2>4, <4>1
        <4>3. ASSUME NEW j \in 1..(i - 1), queue'[j] # Stop
              PROVE  queue'[j].n < queue'[i].n
          <5>1. j \in 1..(L - 1) /\ queue'[j] = queue[j + d]
            BY <2>1, <2>2, <4>1
          <5>2. j + d \in 1..((i + d) - 1)
            BY <4>1
          <5>3. QED
            BY <2>3, <2>4, <4>1, <4>3, <5>1, <5>2
        <4>4. QED
          BY <1>1, <4>2, <4>3
      <3>3. QED
        BY <3>1, <3>2
    <2>5. QueueOrder'
      BY <1>1, <2>4 DEF QueueOrder, InHand, OnWireBefore, Alone
    <2>6. QED
      BY <1>2, <1>3, <2>5 DEF OrderOK
  <1>8. QED
    BY <1>6, <1>7

(* A step that encrypts nothing and at most takes frames away keeps order. *)
LEMMA TakingAway ==
    ASSUME OrderOK, UNCHANGED <<sendKey, wire, spoken, shared>>, NEW d \in {0, 1},
           Len(queue) \in Nat, Len(queue') \in Nat,
           \A i \in 1..Len(queue') : queue'[i] # Stop =>
              i + d \in 1..Len(queue) /\ queue'[i] = queue[i + d],
           InHand' /\ Alone
              => InHand /\ thread'[sendKey].frame = thread[sendKey].frame
    PROVE  OrderOK'
  <1>1. WireOrder'
    BY DEF OrderOK, WireOrder
  <1>2. HandOrder'
    BY DEF OrderOK, HandOrder, OnWireBefore, Alone
  <1>3. QueueOrder'
    <2>1. SUFFICES ASSUME Alone, NEW i \in 1..Len(queue'),
                          queue'[i] # Stop
                   PROVE  /\ queue'[i].n <= spoken[sendKey]
                          /\ \A j \in 1..(i - 1) : queue'[j] # Stop
                                                   => queue'[j].n < queue'[i].n
                          /\ InHand' => thread'[sendKey].frame.n < queue'[i].n
                          /\ OnWireBefore(queue'[i].n)
      BY DEF QueueOrder, OnWireBefore, Alone
    <2>2. i + d \in 1..Len(queue) /\ queue'[i] = queue[i + d]
      BY <2>1
    <2>3. /\ queue[i + d].n <= spoken[sendKey]
          /\ \A j \in 1..((i + d) - 1) : queue[j] # Stop
                                         => queue[j].n < queue[i + d].n
          /\ InHand => thread[sendKey].frame.n < queue[i + d].n
          /\ OnWireBefore(queue[i + d].n)
      BY <2>1, <2>2 DEF OrderOK, QueueOrder
    <2>4. ASSUME NEW j \in 1..(i - 1), queue'[j] # Stop
          PROVE  queue'[j].n < queue'[i].n
      <3>1. j \in 1..Len(queue') /\ j + d \in 1..((i + d) - 1)
        OBVIOUS
      <3>2. queue'[j] = queue[j + d]
        BY <2>4, <3>1
      <3>3. QED
        BY <2>2, <2>3, <2>4, <3>1, <3>2
    <2>5. QED
      BY <2>1, <2>2, <2>3, <2>4
  <1>4. QED
    BY <1>1, <1>2, <1>3 DEF OrderOK

LEMMA SessionOrdered ==
    ASSUME TypeOK, OrderOK,
           \/ TeardownBegins \/ TeardownEnds
           \/ \E k \in Keys : StartSession(k)
    PROVE  OrderOK'
  <1>0. queue \in Seq(Mic \cup {Stop}) /\ Len(queue) \in Nat
    BY DEF TypeOK
  <1>1. CASE TeardownBegins
    <2>1. /\ UNCHANGED <<sendKey, wire, spoken, thread, shared>>
          /\ queue' = Append(queue, Stop) \/ queue' = queue
      BY <1>1 DEF TeardownBegins, receiverVars
    <2>2. /\ Len(queue') \in Nat
          /\ \A i \in 1..Len(queue') : queue'[i] # Stop =>
                i + 0 \in 1..Len(queue) /\ queue'[i] = queue[i + 0]
      BY <1>0, <2>1
    <2>3. InHand' <=> InHand
      BY <2>1 DEF InHand
    <2>4. QED
      BY <1>0, <2>1, <2>2, <2>3, TakingAway
  <1>2. CASE TeardownEnds
    BY <1>2 DEF TeardownEnds, receiverVars, OrderOK, WireOrder, HandOrder,
                QueueOrder, Alone
  <1>3. ASSUME NEW k \in Keys, StartSession(k)
        PROVE  OrderOK'
    <2>0. thread \in Threads
      BY ThreadType
    <2>1. /\ UNCHANGED <<wire, spoken>> /\ queue' = <<>> /\ sendKey' = k
          /\ thread'[k].pc = "top" /\ shared \subseteq shared'
      BY <1>3, <2>0 DEF StartSession, Begins, receiverVars, At, Threads
    <2>2. ~InHand' /\ Len(queue') = 0
      BY <2>1 DEF InHand
    <2>3. QED
      BY <2>1, <2>2 DEF OrderOK, WireOrder, HandOrder, QueueOrder
  <1>4. QED
    BY <1>1, <1>2, <1>3

(* What is encrypted next comes after everything on the wire. *)
LEMMA EncryptOrdered ==
    ASSUME Inv, OrderOK, NEW k \in Keys, Encrypt(k)
    PROVE  OrderOK'
  <1>1. TypeOK /\ SessionOK /\ CounterOK /\ thread \in Threads
    BY DEF Inv, TypeOK, Threads, Frames
  <1>2. /\ thread[k].pc = "keyed" /\ thread'[k].pc = "sending"
        /\ wire \subseteq wire' /\ sendSeq \in Nat
        /\ \A j \in Keys \ {k} : thread'[j] = thread[j]
        /\ UNCHANGED <<sendKey, queue, spoken, shared>>
    BY <1>1 DEF Encrypt, Encrypts, threadFrame, receiverVars, At, TypeOK, Threads
  <1>3. Alone => k = sendKey
    BY <1>1, <1>2, ForeignStep DEF SendThread, SendFails
  <1>4. ASSUME NEW new \in wire' \ wire, new.key \notin shared
        PROVE  /\ Alone /\ new.key = sendKey /\ new.seq = sendSeq
               /\ new.frame = thread[sendKey].frame
               /\ \A p \in wire : p.key = sendKey => p.seq < sendSeq
               /\ new.frame # Silence =>
                     /\ new.frame.n <= spoken[sendKey]
                     /\ \A p \in wire : p.key = sendKey /\ p.frame # Silence
                                        => p.frame.n < new.frame.n
    <2>1. /\ Alone /\ k = sendKey /\ new.key = sendKey /\ new.seq = sendSeq
          /\ new.frame = thread[sendKey].frame
      BY <1>1, <1>4, Encrypted
    <2>2. ASSUME NEW p \in wire, p.key = sendKey PROVE p.seq < sendSeq
      <3>1. p.seq \in Nat /\ p.seq <= sendSeq /\ p.seq # sendSeq
        BY <1>1, <1>2, <2>1, <2>2, FrameNumbers DEF CounterOK
      <3>2. QED
        BY <1>2, <3>1
    <2>3. new.frame # Silence =>
             /\ new.frame.n <= spoken[sendKey]
             /\ OnWireBefore(new.frame.n)
      BY <1>2, <2>1 DEF OrderOK, HandOrder, InHand
    <2>4. QED
      BY <2>1, <2>2, <2>3 DEF OnWireBefore
  <1>5. WireOrder'
    <2>1. SUFFICES ASSUME NEW p \in wire', p.frame # Silence, p.key \notin shared
                   PROVE  /\ p.frame.n <= spoken[p.key]
                          /\ \A q \in wire' : q.key = p.key /\ q.seq > p.seq
                                /\ q.frame # Silence => q.frame.n > p.frame.n
      BY <1>2 DEF WireOrder
    <2>2. CASE p \in wire
      <3>1. /\ p.frame.n <= spoken[p.key] /\ p.frame.n \in Nat
            /\ \A q \in wire : q.key = p.key /\ q.seq > p.seq
                  /\ q.frame # Silence => q.frame.n > p.frame.n
        BY <1>1, <2>1, <2>2, FrameNumbers DEF OrderOK, WireOrder
      <3>2. ASSUME NEW q \in wire' \ wire, q.key = p.key, q.frame # Silence
            PROVE  q.frame.n > p.frame.n
        <4>1. p.frame.n < q.frame.n /\ q.frame = thread[sendKey].frame /\ Alone
          BY <1>4, <2>1, <2>2, <3>2
        <4>2. q.frame.n \in Nat
          BY <1>1, <3>2, <4>1, FrameNumbers DEF Alone, TypeOK
        <4>3. QED
          BY <3>1, <4>1, <4>2
      <3>3. QED
        BY <3>1, <3>2
    <2>3. CASE p \notin wire
      <3>1. /\ p.key = sendKey /\ p.seq = sendSeq
            /\ p.frame.n <= spoken[p.key]
            /\ \A q \in wire : q.key = sendKey => q.seq < sendSeq
        BY <1>4, <2>1, <2>3
      <3>2. ASSUME NEW q \in wire', q.key = p.key, q.seq > p.seq PROVE FALSE
        <4>1. CASE q \in wire
          <5>1. q.seq \in Nat /\ q.seq < sendSeq
            BY <1>1, <3>1, <3>2, <4>1, FrameNumbers
          <5>2. QED
            BY <1>2, <3>1, <3>2, <5>1
        <4>2. CASE q \notin wire
          <5>1. q.seq = sendSeq
            BY <1>4, <2>1, <3>2, <4>2
          <5>2. QED
            BY <1>2, <3>1, <3>2, <5>1
        <4>3. QED
          BY <4>1, <4>2
      <3>3. QED
        BY <3>1, <3>2
    <2>4. QED
      BY <2>2, <2>3
  <1>6. Alone' => ~InHand'
    BY <1>2, <1>3 DEF InHand, Alone
  <1>7. QueueOrder'
    <2>1. SUFFICES ASSUME Alone, NEW i \in 1..Len(queue), queue[i] # Stop
                   PROVE  /\ queue[i].n <= spoken[sendKey]
                          /\ \A j \in 1..(i - 1) : queue[j] # Stop
                                                   => queue[j].n < queue[i].n
                          /\ \A p \in wire' : p.key = sendKey
                                /\ p.frame # Silence => p.frame.n < queue[i].n
      BY <1>2, <1>6 DEF QueueOrder, OnWireBefore, Alone
    <2>2. /\ queue[i].n <= spoken[sendKey]
          /\ \A j \in 1..(i - 1) : queue[j] # Stop
                                   => queue[j].n < queue[i].n
          /\ InHand => thread[sendKey].frame.n < queue[i].n
          /\ OnWireBefore(queue[i].n)
      BY <2>1 DEF OrderOK, QueueOrder
    <2>3. ASSUME NEW p \in wire' \ wire, p.key = sendKey, p.frame # Silence
          PROVE  p.frame.n < queue[i].n
      <3>1. p.frame = thread[sendKey].frame /\ InHand
        BY <1>2, <1>3, <1>4, <2>1, <2>3 DEF InHand, Alone
      <3>2. QED
        BY <2>2, <3>1
    <2>4. QED
      BY <2>2, <2>3 DEF OnWireBefore
  <1>8. QED
    BY <1>5, <1>6, <1>7 DEF OrderOK, HandOrder

LEMMA TakesOrdered ==
    ASSUME Inv, OrderOK, Alone, SenderTakes(sendKey)
    PROVE  OrderOK'
  <1>1. TypeOK /\ SessionOK /\ sendKey \in Keys
    BY DEF Inv, TypeOK, Alone
  <1>2. /\ UNCHANGED <<sendKey, wire, spoken, shared>>
        /\ queue' = Tail(queue) /\ thread'[sendKey].frame = Head(queue)
    <2>1. thread \in Threads
      BY <1>1 DEF TypeOK, Threads, Frames
    <2>2. QED
      BY <1>1, <2>1 DEF SenderTakes, Holds, threadFrame, receiverVars, At, Threads
  <1>3. /\ queue # <<>> /\ Head(queue) = queue[1] /\ Head(queue) # Stop
        /\ 1 \in 1..Len(queue) /\ Len(queue) \in Nat
        /\ Len(queue') = Len(queue) - 1
        /\ \A i \in 1..Len(queue') :
              i + 1 \in 1..Len(queue) /\ queue'[i] = queue[i + 1]
    <2>1. queue \in Seq(Mic \cup {Stop}) /\ queue # <<>> /\ Head(queue) # Stop
      BY <1>1 DEF SenderTakes, TypeOK
    <2>2. QED
      BY <1>2, <2>1, HeadFacts
  <1>4. \A i \in 1..Len(queue) : queue[i] # Stop =>
           /\ queue[i].n <= spoken[sendKey]
           /\ \A j \in 1..(i - 1) : queue[j] # Stop
                                    => queue[j].n < queue[i].n
           /\ OnWireBefore(queue[i].n)
    BY DEF OrderOK, QueueOrder
  <1>5. WireOrder'
    BY <1>2 DEF OrderOK, WireOrder
  <1>6. HandOrder'
    BY <1>2, <1>3, <1>4 DEF HandOrder, OnWireBefore
  <1>7. QueueOrder'
    <2>1. SUFFICES ASSUME NEW i \in 1..Len(queue'), queue'[i] # Stop
                   PROVE  /\ queue'[i].n <= spoken[sendKey]
                          /\ \A j \in 1..(i - 1) : queue'[j] # Stop
                                                   => queue'[j].n < queue'[i].n
                          /\ queue[1].n < queue'[i].n
                          /\ OnWireBefore(queue'[i].n)
      BY <1>2, <1>3 DEF QueueOrder, OnWireBefore
    <2>2. /\ i + 1 \in 1..Len(queue) /\ queue'[i] = queue[i + 1]
          /\ 1 \in 1..((i + 1) - 1) /\ queue[1] # Stop
      BY <1>3
    <2>3. /\ queue[i + 1].n <= spoken[sendKey]
          /\ \A j \in 1..((i + 1) - 1) : queue[j] # Stop
                                         => queue[j].n < queue[i + 1].n
          /\ OnWireBefore(queue[i + 1].n)
      BY <1>4, <2>1, <2>2
    <2>4. ASSUME NEW j \in 1..(i - 1), queue'[j] # Stop
          PROVE  queue'[j].n < queue'[i].n
      <3>1. j \in 1..Len(queue') /\ j + 1 \in 1..((i + 1) - 1)
        BY <1>3
      <3>2. QED
        BY <1>3, <2>2, <2>3, <2>4, <3>1
    <2>5. QED
      BY <2>2, <2>3, <2>4
  <1>8. QED
    BY <1>5, <1>6, <1>7 DEF OrderOK

LEMMA ThreadOrdered ==
    ASSUME Inv, OrderOK, NEW k \in Keys, SendThread(k)
    PROVE  OrderOK'
  <1>1. /\ TypeOK /\ SessionOK /\ thread \in Threads
        /\ queue \in Seq(Mic \cup {Stop}) /\ Len(queue) \in Nat
    BY DEF Inv, TypeOK, Threads, Frames
  <1>2. CASE SenderTakes(k) /\ Alone /\ k = sendKey
    BY <1>2, TakesOrdered
  <1>3. CASE Encrypt(k)
    BY <1>3, EncryptOrdered
  <1>4. CASE (SenderTakes(k) /\ ~(Alone /\ k = sendKey)) \/ SenderStops(k)
    <2>1. /\ UNCHANGED <<sendKey, wire, spoken, shared>> /\ queue' = Tail(queue)
          /\ queue # <<>> /\ (Alone => thread'[k].pc = "off")
      <3>1. ASSUME SenderTakes(k), Alone PROVE FALSE
        <4>1. SendThread(k) /\ thread[k].pc = "wait" /\ k # sendKey
          BY <1>4, <3>1 DEF SendThread, SenderTakes, SenderStops
        <4>2. SendFails(k)
          BY <1>1, <3>1, <4>1, ForeignStep
        <4>3. QED
          BY <4>1, <4>2 DEF SendFails
      <3>2. QED
        BY <1>1, <1>4, <3>1
           DEF SenderTakes, SenderStops, Ends, Off, At, threadFrame,
               receiverVars, Threads
    <2>2. /\ Len(queue') \in Nat
          /\ \A i \in 1..Len(queue') :
                i + 1 \in 1..Len(queue) /\ queue'[i] = queue[i + 1]
      BY <1>1, <2>1, HeadFacts
    <2>3. \A j \in Keys \ {k} : thread'[j] = thread[j]
      BY <1>1, ThreadStepFrame
    <2>4. InHand' /\ Alone
             => InHand /\ thread'[sendKey].frame = thread[sendKey].frame
      BY <1>1, <2>1, <2>3 DEF InHand, Alone, TypeOK
    <2>5. QED
      BY <1>1, <2>1, <2>2, <2>4, TakingAway
  <1>5. CASE \/ SenderLoops(k) \/ SenderIdles(k) \/ EncodeRaises(k)
             \/ TakesKey(k) \/ Exhausted(k) \/ SendReturns(k) \/ SendFails(k)
             \/ Advance(k)
    <2>1. UNCHANGED <<sendKey, wire, spoken, shared, queue>>
      BY <1>5 DEF SenderLoops, SenderIdles, EncodeRaises, TakesKey, Exhausted,
                  SendReturns, SendFails, Advance, threadFrame, receiverVars
    <2>2. \/ thread'[k].pc \notin {"frame", "keyed"}
          \/ thread'[k].frame = Silence
          \/ thread[k].pc = "frame" /\ thread'[k].frame = thread[k].frame
      BY <1>1, <1>5
         DEF SenderLoops, SenderIdles, EncodeRaises, TakesKey, Exhausted,
             SendReturns, SendFails, Advance, Ends, Goes, Holds, Off, At, Threads
    <2>3. \A j \in Keys \ {k} : thread'[j] = thread[j]
      BY <1>1, ThreadStepFrame
    <2>4. InHand' /\ Alone
             => InHand /\ thread'[sendKey].frame = thread[sendKey].frame
      BY <1>1, <2>1, <2>2, <2>3 DEF InHand, Alone, TypeOK
    <2>5. \A i \in 1..Len(queue') :
             i + 0 \in 1..Len(queue) /\ queue'[i] = queue[i + 0]
      BY <1>1, <2>1
    <2>6. QED
      BY <1>1, <2>1, <2>4, <2>5, TakingAway
  <1>6. QED
    BY <1>2, <1>3, <1>4, <1>5 DEF SendThread

LEMMA NextOrdered ==
    ASSUME Inv, OrderOK, [Next]_vars
    PROVE  OrderOK'
  <1>1. CASE Speak
    BY <1>1, SpeakOrdered
  <1>2. CASE TeardownBegins \/ TeardownEnds \/ \E k \in Keys : StartSession(k)
    BY <1>2, SessionOrdered DEF Inv
  <1>3. CASE \E k \in Keys : SendThread(k)
    BY <1>3, ThreadOrdered
  <1>4. CASE \/ Confirm \/ PeerStops \/ PeerConfirms
             \/ (\E k \in Keys : PeerStarts(k))
             \/ (\E p \in wire : HandleAudioPacket(p)) \/ UNCHANGED vars
    <2>1. UNCHANGED <<sendKey, thread, queue, wire, spoken>>
      BY <1>4 DEF Confirm, PeerStops, PeerConfirms, PeerStarts,
                  HandleAudioPacket, vars, senderVars, receiverVars
    <2>2. shared \subseteq shared'
      BY HistoriesGrow
    <2>3. WireOrder'
      BY <2>1, <2>2 DEF OrderOK, WireOrder
    <2>4. (Alone' => Alone) /\ (InHand' <=> InHand)
      BY <2>1, <2>2 DEF Alone, InHand
    <2>5. HandOrder' /\ QueueOrder'
      BY <2>1, <2>4 DEF OrderOK, HandOrder, QueueOrder, OnWireBefore
    <2>6. QED
      BY <2>3, <2>5 DEF OrderOK
  <1>5. QED
    BY <1>1, <1>2, <1>3, <1>4 DEF Next

LEMMA InitOrdered == Init => OrderOK /\ HeardOK
  <1> SUFFICES ASSUME Init PROVE OrderOK /\ HeardOK
    OBVIOUS
  <1>1. wire = {} /\ sendKey = None /\ recvKey = None
        /\ \A k \in Keys : heard[k] = <<>>
    BY DEF Init
  <1>2. OrderOK
    BY <1>1 DEF OrderOK, WireOrder, HandOrder, QueueOrder, Alone
  <1>3. HeardOK
    BY <1>1 DEF HeardOK
  <1>4. QED
    BY <1>2, <1>3

LEMMA NextHeard ==
    ASSUME Inv, HeardOK, [Next]_vars
    PROVE  HeardOK'
  <1>1. /\ TypeOK /\ NoStaleAudio /\ wire \subseteq wire'
        /\ shared \subseteq shared'
    BY WireGrows, HistoriesGrow DEF Inv
  <1>2. CASE UNCHANGED receiverVars
    <2>1. UNCHANGED <<recvKey, lastRecv, heard, joined>>
      BY <1>2 DEF receiverVars
    <2>2. QED
      BY <1>1, <2>1 DEF HeardOK
  <1>3. ASSUME NEW k \in Keys, PeerStarts(k)
        PROVE  HeardOK'
    BY <1>1, <1>3 DEF PeerStarts, HeardOK, senderVars
  <1>4. CASE PeerStops \/ PeerConfirms
    BY <1>1, <1>4, KeysAssumption
       DEF PeerStops, PeerConfirms, HeardOK, senderVars
  <1>5. ASSUME NEW p \in wire, HandleAudioPacket(p)
        PROVE  HeardOK'
    <2>1. /\ p.key = recvKey /\ recvKey \in Keys /\ recvKey \in joined
          /\ p.seq \in Nat /\ lastRecv \in Int /\ p.seq > lastRecv
          /\ lastRecv' = p.seq
          /\ recvKey \notin shared
          /\ UNCHANGED <<recvKey, joined, wire, shared>>
      BY <1>1, <1>5, FrameNumbers
         DEF HandleAudioPacket, Accepts, HeardOK, TypeOK
    <2>2. \A q \in wire : q.seq \in Nat
      BY <1>1, FrameNumbers
    <2>3. ASSUME NEW k \in Keys
          PROVE  /\ k \notin joined => heard[k] = <<>>
                 /\ k \notin shared => \A i \in 1..Len(heard[k]) : \E q \in wire :
                       /\ q.key = k /\ q.frame # Silence
                       /\ q.frame.n = heard[k][i]
                       /\ k = recvKey => q.seq <= p.seq
      <3>1. /\ k \notin joined => heard[k] = <<>>
            /\ k \notin shared => \A i \in 1..Len(heard[k]) : \E q \in wire :
                  /\ q.key = k /\ q.frame # Silence
                  /\ q.frame.n = heard[k][i]
                  /\ k = recvKey => q.seq <= lastRecv
        BY DEF HeardOK
      <3>2. \A q \in wire : q.seq <= lastRecv => q.seq <= p.seq
        BY <2>1, <2>2
      <3>3. QED
        BY <3>1, <3>2
    <2>4. CASE heard' = heard
      BY <2>1, <2>3, <2>4 DEF HeardOK
    <2>5. CASE p.frame # Silence
               /\ heard' = [heard EXCEPT ![p.frame.key] =
                                           Append(@, p.frame.n)]
      <3>1. p.frame.key = recvKey /\ heard \in [Keys -> Seq(Nat)]
        BY <1>1, <2>1, <2>5 DEF NoStaleAudio, TypeOK
      <3>2. p.frame.n \in Nat
        BY <1>1, <2>5, FrameNumbers
      <3>3. /\ heard'[recvKey] = Append(heard[recvKey], p.frame.n)
            /\ \A k \in Keys \ {recvKey} : heard'[k] = heard[k]
        BY <2>1, <2>5, <3>1
      <3>4. /\ Len(heard'[recvKey]) = Len(heard[recvKey]) + 1
            /\ Len(heard[recvKey]) \in Nat
            /\ heard'[recvKey][Len(heard[recvKey]) + 1] = p.frame.n
            /\ \A i \in 1..Len(heard[recvKey]) :
                  heard'[recvKey][i] = heard[recvKey][i]
        BY <2>1, <3>1, <3>2, <3>3
      <3>5. ASSUME NEW i \in 1..Len(heard'[recvKey])
            PROVE  \E q \in wire :
                      /\ q.key = recvKey /\ q.frame # Silence
                      /\ q.frame.n = heard'[recvKey][i] /\ q.seq <= p.seq
        <4>1. CASE i = Len(heard[recvKey]) + 1
          BY <2>1, <2>5, <3>4, <4>1
        <4>2. CASE i # Len(heard[recvKey]) + 1
          BY <2>1, <2>3, <3>4, <4>2
        <4>3. QED
          BY <4>1, <4>2
      <3>6. QED
        BY <2>1, <2>3, <3>3, <3>5, SMTT(30) DEF HeardOK
    <2>6. QED
      BY <1>5, <2>4, <2>5 DEF HandleAudioPacket
  <1>6. QED
    <2>1. ASSUME NEW k \in Keys, SendThread(k)
          PROVE  UNCHANGED receiverVars
      BY <2>1 DEF SendThread, SenderLoops, SenderStops, SenderTakes,
                  SenderIdles, EncodeRaises, TakesKey, Encrypt, Encrypts,
                  Exhausted, SendReturns, SendFails, Advance, threadFrame
    <2>2. CASE \/ Speak \/ Confirm \/ TeardownBegins \/ TeardownEnds
               \/ (\E k \in Keys : StartSession(k)) \/ UNCHANGED vars
      BY <1>2, <2>2 DEF Speak, Confirm, TeardownBegins, TeardownEnds,
                        StartSession, Begins, vars
    <2>3. QED
      BY <1>2, <1>3, <1>4, <1>5, <2>1, <2>2 DEF Next

(* What the peer hears next is later than all it has heard. *)
LEMMA HeardNext ==
    ASSUME Inv, OrderOK, HeardOK, NEW p \in wire, HandleAudioPacket(p)
    PROVE  heard' = heard \/ \E k \in Keys : Stream!Hear(k)
  <1>1. TypeOK /\ NoStaleAudio
    BY DEF Inv
  <1>2. /\ p.key = recvKey /\ recvKey \in Keys /\ spoken' = spoken
        /\ p.seq \in Nat /\ lastRecv \in Int /\ p.seq > lastRecv
        /\ recvKey \notin shared /\ shared' = shared
    BY <1>1, FrameNumbers DEF HandleAudioPacket, Accepts, TypeOK
  <1>3. SUFFICES ASSUME heard' # heard
                 PROVE  Stream!Hear(recvKey)
    BY <1>2
  <1>4. /\ p.frame # Silence
        /\ heard' = [heard EXCEPT ![p.frame.key] = Append(@, p.frame.n)]
    BY <1>3 DEF HandleAudioPacket
  <1>5. p.frame.key = recvKey /\ p.frame.n \in 1..spoken[recvKey]
    <2>1. p.frame \in Mic
      BY <1>1, <1>4 DEF TypeOK
    <2>2. p.frame.n <= spoken[recvKey]
      BY <1>2, <1>4 DEF OrderOK, WireOrder
    <2>3. spoken[recvKey] \in Nat
      BY <1>1, <1>2 DEF TypeOK
    <2>4. QED
      BY <1>1, <1>2, <1>4, <2>1, <2>2, <2>3, FrameKinds DEF NoStaleAudio
  <1>6. ASSUME NEW i \in 1..Len(heard[recvKey])
        PROVE  heard[recvKey][i] < p.frame.n
    <2>1. PICK q \in wire : /\ q.key = recvKey /\ q.frame # Silence
                            /\ q.frame.n = heard[recvKey][i]
                            /\ q.seq <= lastRecv
      BY <1>2, <1>6 DEF HeardOK
    <2>2. q.seq \in Nat /\ q.frame.n \in Nat
      BY <1>1, <2>1, FrameNumbers
    <2>3. p.key = q.key /\ p.seq > q.seq
      BY <1>2, <2>1, <2>2
    <2>4. p.frame.n > q.frame.n
      BY <1>2, <1>4, <2>1, <2>3 DEF OrderOK, WireOrder
    <2>5. QED
      BY <1>5, <2>1, <2>2, <2>4
  <1>7. heard' = [heard EXCEPT ![recvKey] = Append(heard[recvKey], p.frame.n)]
    BY <1>4, <1>5
  <1>8. QED
    BY <1>2, <1>5, <1>6, <1>7 DEF Stream!Hear

(* Anti-replay works: whatever the network loses, repeats, reorders or     *)
(* damages, and however often the call is re-dialled, the peer hears the   *)
(* frames of an unmixed session at most once, in the order they were       *)
(* spoken, whatever became of the sessions before and after it.            *)
THEOREM ImplementsAudioStream == Spec => AudioStreamSpec
  <1>1. Init => Stream!Init
    BY DEF Init, Stream!Init
  <1>2. ASSUME Inv, OrderOK, HeardOK, [Next]_vars
        PROVE  [Stream!Next]_<<spoken, heard, shared>>
    <2>1. CASE Speak
      <3>1. sendKey \in Keys /\ heard' = heard /\ shared' = shared
            /\ spoken' = [spoken EXCEPT ![sendKey] = spoken[sendKey] + 1]
        BY <1>2, <2>1 DEF Inv, TypeOK, Speak, receiverVars
      <3>2. Stream!Speak(sendKey)
        BY <3>1 DEF Stream!Speak
      <3>3. QED
        BY <3>1, <3>2 DEF Stream!Next
    <2>2. ASSUME NEW p \in wire, HandleAudioPacket(p)
          PROVE  [Stream!Next]_<<spoken, heard, shared>>
      <3>1. spoken' = spoken /\ shared' = shared
        BY <2>2 DEF HandleAudioPacket
      <3>2. heard' = heard \/ \E k \in Keys : Stream!Hear(k)
        BY <1>2, <2>2, HeardNext
      <3>3. QED
        BY <3>1, <3>2 DEF Stream!Next
    <2>3. ASSUME NEW k \in Keys, SendThread(k)
          PROVE  UNCHANGED <<spoken, heard, shared>>
      BY <2>3 DEF SendThread, SenderLoops, SenderStops, SenderTakes,
                  SenderIdles, EncodeRaises, TakesKey, Encrypt, Encrypts,
                  Exhausted, SendReturns, SendFails, Advance, threadFrame, receiverVars
    <2>4. CASE \/ Confirm \/ TeardownBegins \/ TeardownEnds
               \/ (\E k \in Keys : StartSession(k) \/ PeerStarts(k))
               \/ PeerStops \/ PeerConfirms \/ UNCHANGED vars
      <3>1. UNCHANGED <<spoken, heard>>
        BY <2>4 DEF Confirm, TeardownBegins, TeardownEnds, StartSession, Begins,
                    PeerStarts, PeerStops, PeerConfirms, vars, receiverVars
      <3>2. shared \subseteq shared' /\ shared' \subseteq Keys
        BY <1>2, HistoriesGrow, NextInv DEF Inv, TypeOK
      <3>3. Stream!MixUp
        BY <3>1, <3>2 DEF Stream!MixUp
      <3>4. QED
        BY <3>3 DEF Stream!Next
    <2>5. QED
      BY <1>2, <2>1, <2>2, <2>3, <2>4 DEF Next
  <1>3. Inv /\ OrderOK /\ HeardOK /\ [Next]_vars => (OrderOK /\ HeardOK)'
    BY NextOrdered, NextHeard
  <1>4. QED
    BY <1>1, <1>2, <1>3, InitOrdered, Invariance, PTL
       DEF Spec, AudioStreamSpec, Stream!Spec
=============================================================================
