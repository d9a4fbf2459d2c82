-------------------------- MODULE CallManagerProofs --------------------------
(***************************************************************************)
(* Proofs about CallManager, for every number of sockets and dials, every  *)
(* reconnect budget, with and without SAS gating: the invariants that      *)
(* MCCallManager_races checks, and on which steps alone the code breaks    *)
(* what its comments say (MCCallManager_view, the MCCallHistory runs).     *)
(***************************************************************************)
EXTENDS CallHistory, FiniteSetTheorems, TLAPS

USE NoneAssumption, AttemptsAssumption, FlagsAssumption

RecvOK == recv \in [Conns -> Thread({"off", "top", "reading", "end",
                                    "ended", "lost"})]
SendOK == send \in [Conns -> Thread({"off", "top", "sending", "failed"})]
LinkOK == link \in [Conns -> {"closed", "queued", "open", "dead"}]
DialOK == dial \in [Dials -> {"free", "running"} \cup Outcomes]

TornDown ==
    /\ running' = FALSE /\ sasConfirmed' \in BOOLEAN
    /\ sock' = None /\ keys' = "none" /\ eph' = None /\ client' = None
    /\ drops' \in Nat /\ SendOK' /\ LinkOK' /\ RecvOK'

(* _teardown_connection keeps every field it touches well-typed and leaves *)
(* no socket, key or flag of the old session behind.                       *)
LEMMA TeardownFacts ==
    ASSUME TypeOK, NEW n \in Nat, TeardownConnection(n)
    PROVE  TornDown
<1>1. drops' \in Nat
      BY DEF TeardownConnection, JoinSender
<1>2. Stopped \in Thread({"off", "top", "sending", "failed"})
      BY DEF Stopped, Thread
<1>3. SendOK'
      BY <1>2 DEF TeardownConnection, JoinSender, TypeOK, DataOK, SendOK
<1>4. LinkOK'
      BY DEF TeardownConnection, TypeOK, DataOK, LinkOK
<1>5. RecvOK'
      BY DEF TeardownConnection, TypeOK, DataOK, RecvOK
<1>6. running' = FALSE /\ sasConfirmed' \in BOOLEAN
      BY DEF TeardownConnection
<1>7. sock' = None /\ keys' = "none" /\ eph' = None /\ client' = None
      BY DEF TeardownConnection
<1> QED BY <1>1, <1>3, <1>4, <1>5, <1>6, <1>7 DEF TornDown

(* _cleanup_call followed by IDLE re-establishes the invariant whatever    *)
(* the state was.                                                          *)
LEMMA CleanupPreservesInv ==
    ASSUME Inv, NEW n \in Nat, CleanupCall(n), callState' = "IDLE",
           DialOK', timers' \in Nat, widget' \in BOOLEAN,
           overlay' \in BOOLEAN, confirmPrompt' \in BOOLEAN
    PROVE  Inv'
<1>1. TornDown /\ ForgetCall
      BY TeardownFacts DEF CleanupCall, Inv
<1>2. FlagsOK'
      BY <1>1 DEF FlagsOK, ForgetCall, TornDown
<1>3. DataOK'
      BY <1>1 DEF DataOK, ForgetCall, CallStates, TornDown, DialOK, LinkOK,
                  RecvOK, SendOK
<1>4. ~busy' /\ sock' = None /\ keys' = "none" /\ ~running'
      BY <1>1 DEF ForgetCall, TornDown
<1> QED BY <1>2, <1>3, <1>4 DEF Inv, TypeOK, SessionIffInCall,
           FreeEndpointNotBusy, RingingIsAnswerable, OverlayNotBusy

(* Another attempt stays within the budget and leaves no session behind.   *)
LEMMA ReconnectPreservesInv ==
    ASSUME Inv, NEW n \in Nat, MayRetry, AttemptReconnect(n), DialOK'
    PROVE  Inv'
<1>1. TornDown
      BY TeardownFacts DEF AttemptReconnect, Inv
<1>2. attempts' \in 0..MaxAttempts /\ timers' \in Nat
      BY DEF AttemptReconnect, MayRetry, Inv, TypeOK, DataOK
<1>3. FlagsOK'
      BY <1>1 DEF FlagsOK, AttemptReconnect, TornDown, uiVars, Inv, TypeOK
<1>4. DataOK'
      BY <1>1, <1>2 DEF DataOK, AttemptReconnect, CallStates, TornDown, DialOK,
                        LinkOK, RecvOK, SendOK, Inv, TypeOK
<1>5. /\ callState' = "DIALING" /\ sock' = None /\ keys' = "none" /\ ~running'
      /\ overlay' = overlay /\ busy' = busy
      BY <1>1 DEF AttemptReconnect, uiVars, TornDown
<1> QED BY <1>3, <1>4, <1>5 DEF Inv, TypeOK, SessionIffInCall,
           FreeEndpointNotBusy, RingingIsAnswerable, OverlayNotBusy

(* _start_call_session: everything IN_CALL needs is put in place at once.  *)
LEMMA SessionPreservesInv ==
    ASSUME Inv, NEW c \in Conns, StartCallSession(c),
           isCaller' \in BOOLEAN, userEnded' \in BOOLEAN,
           reconnecting' \in BOOLEAN, busy' = TRUE,
           sasConfirmed' = sasConfirmed, peerAddress' = peerAddress,
           keys' \in {"agreed", "mismatched"}, attempts' \in 0..MaxAttempts,
           eph' \in Dials \cup {None, "accept"}, client' = client,
           pending' \in Conns \cup {None},
           DialOK', LinkOK', drops' = drops, timers' = timers
    PROVE  Inv'
<1>1. /\ [pc |-> "top", on |-> None] \in
             Thread({"off", "top", "reading", "end", "ended", "lost"})
      /\ [pc |-> "top", on |-> None] \in
             Thread({"off", "top", "sending", "failed"})
      BY DEF Thread
<1>2. FlagsOK'
      BY DEF FlagsOK, StartCallSession, Inv, TypeOK
<1>3. DataOK'
      BY <1>1 DEF DataOK, StartCallSession, CallStates, Inv, TypeOK,
                  DialOK, LinkOK
<1> QED BY <1>2, <1>3 DEF Inv, TypeOK, SessionIffInCall,
           FreeEndpointNotBusy, RingingIsAnswerable, OverlayNotBusy,
           StartCallSession

(* A step that only moves a dial, a socket's link, a thread, the count of  *)
(* notices or of timers cannot disturb the invariant.                      *)
LEMMA BackgroundPreservesInv ==
    ASSUME Inv,
           UNCHANGED <<callState, peerAddress, isCaller, attempts,
                       reconnecting, sock, keys, running, sasConfirmed,
                       pending, busy, uiVars>>,
           eph' \in Dials \cup {None, "accept"}, client' \in Dials \cup {None},
           userEnded' \in BOOLEAN, refused' \in BOOLEAN,
           callState = "RINGING" => refused' = refused,
           DialOK', LinkOK', RecvOK', SendOK', drops' \in Nat, timers' \in Nat
    PROVE  Inv'
<1>1. FlagsOK'
      BY DEF FlagsOK, Inv, TypeOK, uiVars
<1>2. DataOK'
      BY DEF DataOK, Inv, TypeOK, DialOK, LinkOK, RecvOK, SendOK
<1> QED BY <1>1, <1>2 DEF Inv, TypeOK, SessionIffInCall,
           FreeEndpointNotBusy, RingingIsAnswerable, OverlayNotBusy, uiVars

-----------------------------------------------------------------------------
(* Every click preserves the invariant. *)
LEMMA UserPreservesInv == Inv /\ User => Inv'
<1> SUFFICES ASSUME Inv, User PROVE Inv'
      OBVIOUS
<1> USE DEF Inv, TypeOK
<1>1. CASE PlaceCall
  <2>1. FlagsOK'
      BY <1>1 DEF PlaceCall, FlagsOK, uiVars
  <2>2. DataOK'
      BY <1>1 DEF PlaceCall, DialOut, DataOK, CallStates, FreeDials,
                  threadVars, loopVars
  <2> QED BY <1>1, <2>1, <2>2 DEF PlaceCall, SessionIffInCall,
             FreeEndpointNotBusy, RingingIsAnswerable, OverlayNotBusy, uiVars
<1>2. CASE CancelCall
  <2>1. DialOK' /\ drops \in Nat /\ timers' \in Nat
      BY <1>2 DEF CancelCall, DataOK, DialOK
  <2>2. widget' \in BOOLEAN /\ overlay' \in BOOLEAN /\ confirmPrompt' \in BOOLEAN
      BY <1>2 DEF CancelCall, FlagsOK, uiVars
  <2> QED BY <1>2, <2>1, <2>2, CleanupPreservesInv DEF CancelCall
<1>3. CASE AcceptNothing
  <2>1. FlagsOK'
      BY <1>3 DEF AcceptNothing, FlagsOK, callVars, connVars
  <2>2. DataOK'
      BY <1>3 DEF AcceptNothing, DataOK, callVars, connVars, threadVars,
                  loopVars
  <2> QED BY <1>3, <2>1, <2>2 DEF AcceptNothing, SessionIffInCall,
             FreeEndpointNotBusy, RingingIsAnswerable, OverlayNotBusy,
             callVars, connVars
<1>4. CASE AcceptCall
  <2>1. pending \in Conns
      BY <1>4 DEF AcceptCall, DataOK
  <2>2. isCaller' \in BOOLEAN /\ userEnded' \in BOOLEAN /\ reconnecting' \in BOOLEAN
      BY <1>4 DEF AcceptCall
  <2>3. attempts' \in 0..MaxAttempts
      BY <1>4 DEF AcceptCall
  <2>4. drops' = drops /\ timers' = timers /\ DialOK' /\ LinkOK'
      BY <1>4 DEF AcceptCall, DataOK, DialOK, LinkOK, loopVars
  <2> QED BY <1>4, <2>1, <2>2, <2>3, <2>4, SessionPreservesInv DEF AcceptCall
<1>5. CASE AcceptFails
  <2>1. DialOK' /\ drops \in Nat /\ timers' \in Nat
      BY <1>5 DEF AcceptFails, DataOK, DialOK
  <2>2. widget' \in BOOLEAN /\ overlay' \in BOOLEAN /\ confirmPrompt' \in BOOLEAN
      BY <1>5 DEF AcceptFails, FlagsOK
  <2> QED BY <1>5, <2>1, <2>2, CleanupPreservesInv DEF AcceptFails
<1>6. CASE RejectCall
  <2>1. LinkOK'
      BY <1>6 DEF RejectCall, DataOK, LinkOK
  <2>2. FlagsOK'
      BY <1>6 DEF RejectCall, FlagsOK, callVars, connVars
  <2>3. DataOK'
      BY <1>6, <2>1 DEF RejectCall, DataOK, CallStates, callVars, connVars,
                        threadVars, loopVars, LinkOK
  <2>4. callState # "IN_CALL" /\ ~busy
      BY <1>6 DEF RejectCall, SessionIffInCall, OverlayNotBusy
  <2> QED BY <1>6, <2>2, <2>3, <2>4 DEF RejectCall, SessionIffInCall,
             FreeEndpointNotBusy, RingingIsAnswerable, OverlayNotBusy,
             connVars
<1>7. CASE HangUp
  <2>1. DialOK' /\ drops \in Nat /\ timers' \in Nat
      BY <1>7 DEF HangUp, DataOK, DialOK
  <2>2. widget' \in BOOLEAN /\ overlay' \in BOOLEAN /\ confirmPrompt' \in BOOLEAN
      BY <1>7 DEF HangUp, CallEnded
  <2> QED BY <1>7, <2>1, <2>2, CleanupPreservesInv DEF HangUp
<1>8. CASE ConfirmSas
  <2>1. FlagsOK'
      BY <1>8 DEF ConfirmSas, FlagsOK, callVars
  <2>2. DataOK'
      BY <1>8 DEF ConfirmSas, DataOK, callVars, threadVars, loopVars
  <2> QED BY <1>8, <2>1, <2>2 DEF ConfirmSas, SessionIffInCall,
             FreeEndpointNotBusy, RingingIsAnswerable, OverlayNotBusy, callVars
<1>9. CASE AcceptRaises
  <2>1. FlagsOK'
      BY <1>9 DEF AcceptRaises, FlagsOK
  <2>2. DataOK'
      BY <1>9 DEF AcceptRaises, DataOK, threadVars, loopVars
  <2> QED BY <1>9, <2>1, <2>2 DEF AcceptRaises, SessionIffInCall,
             FreeEndpointNotBusy, RingingIsAnswerable, OverlayNotBusy
<1> QED BY <1>1, <1>2, <1>3, <1>4, <1>5, <1>6, <1>7, <1>8, <1>9 DEF User

(* Every step of a dialler, and every signal it delivers. *)
LEMMA DialPreservesInv ==
    ASSUME Inv, NEW d \in Dials,
           DialEnds(d) \/ StaleSignalLost(d) \/ OnDialSignal(d)
    PROVE  Inv'
<1> USE DEF Inv, TypeOK
<1>1. CASE DialEnds(d) \/ StaleSignalLost(d) \/ OnConnectedRaises(d)
  <2>1. /\ UNCHANGED <<callState, peerAddress, isCaller, userEnded, attempts,
                       reconnecting, connVars, pending, busy, link,
                       threadVars, loopVars, uiVars>>
        /\ DialOK'
      BY <1>1 DEF DialEnds, StaleSignalLost, OnConnectedRaises, DataOK,
                  DialOK, callVars
  <2>2. /\ userEnded' \in BOOLEAN /\ refused' \in BOOLEAN
        /\ callState = "RINGING" => refused' = refused
      BY <1>1 DEF DialEnds, StaleSignalLost, OnConnectedRaises, callVars, FlagsOK
  <2>3. /\ LinkOK' /\ RecvOK' /\ SendOK' /\ drops' \in Nat /\ timers' \in Nat
        /\ eph' \in Dials \cup {None, "accept"} /\ client' \in Dials \cup {None}
      BY <2>1 DEF DataOK, LinkOK, RecvOK, SendOK, connVars, threadVars,
                  loopVars
  <2> QED BY <2>1, <2>2, <2>3, BackgroundPreservesInv DEF connVars
<1>2. CASE OnOutgoingConnected(d)
  <2>1. PICK c \in FreeConns : /\ link' = [link EXCEPT ![c] = "open"]
                               /\ StartCallSession(c)
      BY <1>2 DEF OnOutgoingConnected
  <2>2. c \in Conns
      BY DEF FreeConns
  <2>3. DialOK' /\ LinkOK'
      BY <1>2, <2>1, <2>2 DEF OnOutgoingConnected, DataOK, DialOK, LinkOK
  <2>4. isCaller' \in BOOLEAN /\ userEnded' \in BOOLEAN /\ reconnecting' \in BOOLEAN
      BY <1>2 DEF OnOutgoingConnected, FlagsOK
  <2>5. /\ attempts' \in 0..MaxAttempts /\ eph' \in Dials \cup {None, "accept"}
        /\ pending' \in Conns \cup {None}
      BY <1>2 DEF OnOutgoingConnected, DataOK
  <2>6. /\ busy' = TRUE /\ sasConfirmed' = sasConfirmed
        /\ peerAddress' = peerAddress /\ client' = client
        /\ keys' \in {"agreed", "mismatched"}
        /\ drops' = drops /\ timers' = timers
      BY <1>2 DEF OnOutgoingConnected, loopVars
  <2> QED BY <2>1, <2>2, <2>3, <2>4, <2>5, <2>6, SessionPreservesInv
<1>3. CASE OnOutgoingRefused(d)
  <2>1. DialOK' /\ drops \in Nat /\ timers' \in Nat
      BY <1>3 DEF OnOutgoingRefused, DataOK, DialOK
  <2>2. widget' \in BOOLEAN /\ overlay' \in BOOLEAN /\ confirmPrompt' \in BOOLEAN
      BY <1>3 DEF OnOutgoingRefused, FlagsOK, uiVars
  <2> QED BY <1>3, <2>1, <2>2, CleanupPreservesInv DEF OnOutgoingRefused
<1>4. CASE OnOutgoingFailed(d)
  <2>1. DialOK' /\ drops \in Nat
      BY <1>4 DEF OnOutgoingFailed, DataOK, DialOK
  <2>2. CASE reconnecting /\ MayRetry
      BY <1>4, <2>1, <2>2, ReconnectPreservesInv DEF OnOutgoingFailed
  <2>3. CASE ~(reconnecting /\ MayRetry)
    <3>1. CleanupCall(drops) /\ callState' = "IDLE" /\ timers' = timers
      BY <1>4, <2>3 DEF OnOutgoingFailed
    <3>2. widget' \in BOOLEAN /\ overlay' \in BOOLEAN /\ confirmPrompt' \in BOOLEAN
      BY <1>4, <2>3 DEF OnOutgoingFailed, FlagsOK, CallEnded, uiVars
    <3>3. timers' \in Nat
      BY <3>1 DEF DataOK
    <3> QED BY <2>1, <3>1, <3>2, <3>3, CleanupPreservesInv
  <2> QED BY <2>2, <2>3
<1> QED BY <1>1, <1>2, <1>3, <1>4 DEF OnDialSignal

(* Incoming calls, lost links, the keep-alive and the two posted calls. *)
LEMMA LoopPreservesInv ==
    ASSUME Inv,
           \/ \E c \in Conns : ServerAdmits(c) \/ OnIncomingCall(c) \/ LinkDies(c)
           \/ PingFails \/ OnPeerDisconnect \/ ReconnectNow
    PROVE  Inv'
<1> USE DEF Inv, TypeOK
<1>1. ASSUME NEW c \in Conns, ServerAdmits(c) \/ LinkDies(c)
      PROVE  Inv'
  <2>1. /\ UNCHANGED <<callState, callVars, connVars, pending, busy, dial,
                       threadVars, loopVars, uiVars>>
        /\ LinkOK'
      BY <1>1 DEF ServerAdmits, LinkDies, DataOK, LinkOK
  <2>2. userEnded' \in BOOLEAN /\ refused' \in BOOLEAN /\ refused' = refused
      BY <2>1 DEF callVars, FlagsOK
  <2>3. /\ DialOK' /\ RecvOK' /\ SendOK' /\ drops' \in Nat /\ timers' \in Nat
        /\ eph' \in Dials \cup {None, "accept"} /\ client' \in Dials \cup {None}
      BY <2>1 DEF DataOK, DialOK, RecvOK, SendOK, connVars, threadVars,
                  loopVars
  <2> QED BY <2>1, <2>2, <2>3, BackgroundPreservesInv DEF callVars, connVars
<1>2. ASSUME NEW c \in Conns, OnIncomingCall(c)
      PROVE  Inv'
  <2>1. FlagsOK'
      BY <1>2 DEF OnIncomingCall, FlagsOK, connVars
  <2>2. DataOK'
      BY <1>2 DEF OnIncomingCall, DataOK, CallStates, connVars, threadVars,
                  loopVars
  <2>3. MayRing => ~busy /\ callState # "IN_CALL"
      BY DEF MayRing, FreeEndpointNotBusy
  <2> QED BY <1>2, <2>1, <2>2, <2>3 DEF OnIncomingCall, SessionIffInCall,
             FreeEndpointNotBusy, RingingIsAnswerable, OverlayNotBusy,
             connVars
<1>3. CASE PingFails
  <2>1. /\ UNCHANGED <<callState, callVars, connVars, pending, busy, dial, link,
                       threadVars, timers, uiVars>>
        /\ drops' \in Nat
      BY <1>3 DEF PingFails, DataOK
  <2>2. userEnded' \in BOOLEAN /\ refused' \in BOOLEAN /\ refused' = refused
      BY <2>1 DEF callVars, FlagsOK
  <2>3. /\ DialOK' /\ LinkOK' /\ RecvOK' /\ SendOK' /\ timers' \in Nat
        /\ eph' \in Dials \cup {None, "accept"} /\ client' \in Dials \cup {None}
      BY <2>1 DEF DataOK, DialOK, LinkOK, RecvOK, SendOK, connVars, threadVars
  <2> QED BY <2>1, <2>2, <2>3, BackgroundPreservesInv DEF callVars, connVars
<1>4. CASE OnPeerDisconnect
  <2>1. drops \in Nat /\ drops - 1 \in Nat /\ DialOK'
      BY <1>4 DEF OnPeerDisconnect, DataOK, DialOK
  <2>2. CASE callState = "IDLE"
    <3>1. /\ UNCHANGED <<callState, callVars, connVars, pending, busy, dial,
                         link, threadVars, timers, uiVars>>
          /\ drops' = drops - 1
      BY <1>4, <2>2 DEF OnPeerDisconnect
    <3>2. userEnded' \in BOOLEAN /\ refused' \in BOOLEAN /\ refused' = refused
      BY <3>1 DEF callVars, FlagsOK
    <3>3. /\ LinkOK' /\ RecvOK' /\ SendOK' /\ timers' \in Nat /\ drops' \in Nat
          /\ eph' \in Dials \cup {None, "accept"}
          /\ client' \in Dials \cup {None}
      BY <2>1, <3>1 DEF DataOK, LinkOK, RecvOK, SendOK, connVars, threadVars
    <3> QED BY <2>1, <3>1, <3>2, <3>3, BackgroundPreservesInv
            DEF callVars, connVars
  <2>3. CASE callState # "IDLE" /\ MayRetry
    <3>1. AttemptReconnect(drops - 1)
      BY <1>4, <2>3 DEF OnPeerDisconnect
    <3> QED BY <2>1, <2>3, <3>1, ReconnectPreservesInv
  <2>4. CASE callState # "IDLE" /\ ~MayRetry
    <3>1. /\ CleanupCall(drops - 1) /\ callState' = "IDLE" /\ CallEnded
          /\ timers' = timers
      BY <1>4, <2>4 DEF OnPeerDisconnect
    <3>2. widget' \in BOOLEAN /\ overlay' \in BOOLEAN /\ confirmPrompt' \in BOOLEAN
      BY <3>1 DEF CallEnded
    <3>3. timers' \in Nat
      BY <3>1 DEF DataOK
    <3> QED BY <2>1, <3>1, <3>2, <3>3, CleanupPreservesInv
  <2> QED BY <2>2, <2>3, <2>4
<1>5. CASE ReconnectNow
  <2>1. /\ eph' \in Dials \cup {None, "accept"} /\ client' \in Dials \cup {None}
        /\ DialOK' /\ timers' \in Nat
      BY <1>5 DEF ReconnectNow, DialOut, FreeDials, DataOK, DialOK
  <2>2. UNCHANGED <<callState, peerAddress, isCaller, userEnded, attempts,
                    reconnecting, sock, keys, running, sasConfirmed, pending,
                    busy, link, threadVars, drops, uiVars>>
      BY <1>5 DEF ReconnectNow
  <2>3. /\ userEnded' \in BOOLEAN /\ refused' \in BOOLEAN
        /\ callState = "RINGING" => refused' = refused
      BY <1>5 DEF ReconnectNow, FlagsOK
  <2>4. LinkOK' /\ RecvOK' /\ SendOK' /\ drops' \in Nat
      BY <2>2 DEF DataOK, LinkOK, RecvOK, SendOK, threadVars
  <2> QED BY <2>1, <2>2, <2>3, <2>4, BackgroundPreservesInv
<1> QED BY <1>1, <1>2, <1>3, <1>4, <1>5

(* Every step of a receive or a send thread. *)
LEMMA ThreadPreservesInv ==
    ASSUME Inv, NEW c \in Conns, Receiver(c) \/ Sender(c)
    PROVE  Inv'
<1> USE DEF Inv, TypeOK
<1>1. CASE Receiver(c)
  <2>1. UNCHANGED recvFrame
      BY <1>1 DEF Receiver, RecvTop, RecvPacket, RecvGarbage, RecvCallEnd,
                  RecvMarksEnded, RecvReportsEnd, RecvEof, RecvError,
                  RecvReportsLoss
  <2>2. userEnded' = userEnded \/ userEnded' = TRUE
      BY <1>1 DEF Receiver, RecvTop, RecvPacket, RecvGarbage, RecvCallEnd,
                  RecvMarksEnded, RecvReportsEnd, RecvEof, RecvError,
                  RecvReportsLoss
  <2>3. userEnded' \in BOOLEAN /\ refused' \in BOOLEAN /\ refused' = refused
      BY <2>1, <2>2 DEF recvFrame, FlagsOK
  <2>4. drops' \in Nat /\ LinkOK'
      BY <1>1 DEF Receiver, RecvTop, RecvPacket, RecvGarbage, RecvCallEnd,
                  RecvMarksEnded, RecvReportsEnd, RecvEof, RecvError,
                  RecvReportsLoss, DataOK, LinkOK
  <2>5. RecvOK'
      BY <1>1 DEF Receiver, RecvTop, RecvPacket, RecvGarbage, RecvCallEnd,
                  RecvMarksEnded, RecvReportsEnd, RecvEof, RecvError,
                  RecvReportsLoss, RecvGoes, RecvStops, Stopped, Thread,
                  DataOK, RecvOK
  <2>6. /\ DialOK' /\ SendOK' /\ timers' \in Nat
        /\ eph' \in Dials \cup {None, "accept"} /\ client' \in Dials \cup {None}
      BY <2>1 DEF recvFrame, connVars, DataOK, DialOK, SendOK
  <2> QED BY <2>1, <2>3, <2>4, <2>5, <2>6, BackgroundPreservesInv
          DEF recvFrame, connVars
<1>2. CASE Sender(c)
  <2>1. UNCHANGED sendFrame
      BY <1>2 DEF Sender, SendTop, SendSucceeds, SendFails, SendReports
  <2>2. drops' \in Nat
      BY <1>2 DEF Sender, SendTop, SendSucceeds, SendFails, SendReports, DataOK
  <2>3. SendOK'
      BY <1>2 DEF Sender, SendTop, SendSucceeds, SendFails, SendReports,
                  Stopped, Thread, DataOK, SendOK
  <2>4. userEnded' \in BOOLEAN /\ refused' \in BOOLEAN /\ refused' = refused
      BY <2>1 DEF sendFrame, callVars, FlagsOK
  <2>5. /\ DialOK' /\ LinkOK' /\ RecvOK' /\ timers' \in Nat
        /\ eph' \in Dials \cup {None, "accept"} /\ client' \in Dials \cup {None}
      BY <2>1 DEF sendFrame, connVars, DataOK, DialOK, LinkOK, RecvOK
  <2> QED BY <2>1, <2>2, <2>3, <2>4, <2>5, BackgroundPreservesInv
          DEF sendFrame, callVars, connVars
<1> QED BY <1>1, <1>2

-----------------------------------------------------------------------------
LEMMA InitInv == Init => Inv
<1> SUFFICES ASSUME Init PROVE Inv
      OBVIOUS
<1>1. FlagsOK
      BY DEF Init, FlagsOK
<1>2. Stopped \in Thread({"off", "top", "reading", "end", "ended", "lost"})
                 \cap Thread({"off", "top", "sending", "failed"})
      BY DEF Stopped, Thread
<1>3. DataOK
      BY <1>2 DEF Init, DataOK, CallStates
<1> QED BY <1>1, <1>3 DEF Init, Inv, TypeOK, SessionIffInCall,
           FreeEndpointNotBusy, RingingIsAnswerable, OverlayNotBusy

LEMMA NextInv == Inv /\ [Next]_vars => Inv'
<1> SUFFICES ASSUME Inv, [Next]_vars PROVE Inv'
      OBVIOUS
<1>1. CASE User
      BY <1>1, UserPreservesInv
<1>2. CASE \E d \in Dials : DialEnds(d) \/ StaleSignalLost(d) \/ OnDialSignal(d)
      BY <1>2, DialPreservesInv
<1>3. CASE \/ \E c \in Conns : ServerAdmits(c) \/ OnIncomingCall(c) \/ LinkDies(c)
           \/ PingFails \/ OnPeerDisconnect \/ ReconnectNow
      BY <1>3, LoopPreservesInv
<1>4. CASE \E c \in Conns : Receiver(c) \/ Sender(c)
      BY <1>4, ThreadPreservesInv
<1>5. CASE UNCHANGED vars
  <2>1. FlagsOK'
      BY <1>5 DEF Inv, TypeOK, FlagsOK, vars, callVars, connVars, uiVars
  <2>2. DataOK'
      BY <1>5 DEF Inv, TypeOK, DataOK, vars, callVars, connVars, threadVars,
                  loopVars
  <2> QED BY <1>5, <2>1, <2>2 DEF Inv, TypeOK, SessionIffInCall,
             FreeEndpointNotBusy, RingingIsAnswerable, OverlayNotBusy,
             vars, callVars, connVars, uiVars
<1> QED BY <1>1, <1>2, <1>3, <1>4, <1>5 DEF Next

(* The inductive invariant: what the three properties below rest on. *)
THEOREM Invariance == Spec => []Inv
      BY InitInv, NextInv, PTL DEF Spec

(* Every field keeps its type; in particular _reconnect_attempts never     *)
(* exceeds RECONNECT_MAX_ATTEMPTS, whatever stale notices arrive.          *)
THEOREM TypeCorrect == Spec => []TypeOK
<1>1. Inv => TypeOK
      BY DEF Inv
<1> QED BY <1>1, Invariance, PTL

(* IN_CALL is exactly the lifetime of a socket, its keys and its threads,  *)
(* and it is visible to the user and to the server.                        *)
THEOREM SessionsMatchTheState == Spec => []SessionIffInCall
<1>1. Inv => SessionIffInCall
      BY DEF Inv
<1> QED BY <1>1, Invariance, PTL

(* An idle or ringing endpoint never leaves its server rejecting callers.  *)
THEOREM FreeEndpointAccepts == Spec => []FreeEndpointNotBusy
<1>1. Inv => FreeEndpointNotBusy
      BY DEF Inv
<1> QED BY <1>1, Invariance, PTL

(* A ringing phone can be answered: overlay and pending socket are there,  *)
(* until an Accept raises.                                                 *)
THEOREM RingingCanBeAnswered == Spec => []RingingIsAnswerable
<1>1. Inv => RingingIsAnswerable
      BY DEF Inv
<1> QED BY <1>1, Invariance, PTL

-----------------------------------------------------------------------------
(* A call being dialled never waits for nothing, and a forgotten one is    *)
(* quiet.                                                                  *)

(* What makes it inductive.  A timer that expires re-dials unless the peer *)
(* is forgotten or _user_ended is set, and then the notice that goes with  *)
(* the flag is still to come.                                              *)
DialWanted ==
    callState = "DIALING" =>
        /\ peerAddress # "nobody"
        /\ userEnded => drops > 0 \/ EndReported

DrivenInv == DialingIsDriven /\ DialWanted

LEMMA NotDialing == ASSUME callState' # "DIALING" PROVE DrivenInv'
  BY DEF DrivenInv, DialingIsDriven, DialWanted

(* A step that leaves the dial alone and takes back no notice. *)
LEMMA NoticesStay ==
    ASSUME DrivenInv,
           UNCHANGED <<callState, peerAddress, refused, eph, client, dial, timers>>,
           \/ drops' > 0 \/ EndReported'
           \/ drops' = drops /\ userEnded' = userEnded /\ (EndReported => EndReported')
    PROVE  DrivenInv'
  BY DEF DrivenInv, DialingIsDriven, DialWanted

(* Another attempt has its timer. *)
LEMMA ReconnectDriven ==
    ASSUME TypeOK, NEW n, MayRetry, AttemptReconnect(n)
    PROVE  DrivenInv'
  <1>1. timers' > 0 /\ ~userEnded' /\ peerAddress' # "nobody" /\ client' = None
    BY DEF TypeOK, DataOK, MayRetry, AttemptReconnect, TeardownConnection
  <1> QED BY <1>1 DEF DrivenInv, DialingIsDriven, DialWanted

LEMMA UserDriven == ASSUME Inv, DrivenInv, User PROVE DrivenInv'
  <1>1. CASE PlaceCall
    <2>1. PICK d \in FreeDials : DialOut(d)
      BY <1>1 DEF PlaceCall
    <2>2. /\ d \in Dials /\ d # None /\ eph' = d /\ client' = d
          /\ dial'[d] = "running"
      BY <2>1, NoneAssumption DEF FreeDials, DialOut, Inv, TypeOK, DataOK
    <2>3. peerAddress' # "nobody" /\ ~userEnded'
      BY <1>1 DEF PlaceCall
    <2> QED BY <2>2, <2>3 DEF DrivenInv, DialingIsDriven, DialWanted
  <1>2. CASE \/ CancelCall \/ AcceptCall \/ AcceptRaises \/ AcceptFails
             \/ RejectCall \/ HangUp
    BY <1>2, NotDialing DEF CancelCall, AcceptCall, StartCallSession, AcceptRaises,
                            AcceptFails, RejectCall, HangUp
  <1>3. CASE AcceptNothing \/ ConfirmSas
    <2>1. UNCHANGED <<callState, callVars, eph, client, dial, recv, drops, timers>>
      BY <1>3 DEF AcceptNothing, ConfirmSas, connVars, threadVars, loopVars
    <2> QED BY <2>1, NoticesStay DEF callVars, EndReported
  <1> QED BY <1>1, <1>2, <1>3 DEF User

LEMMA DialDriven ==
    ASSUME Inv, DrivenInv, NEW d \in Dials,
           DialEnds(d) \/ StaleSignalLost(d) \/ OnDialSignal(d)
    PROVE  DrivenInv'
  <1> USE DEF Inv, TypeOK
  <1>1. CASE DialEnds(d) \/ StaleSignalLost(d) \/ OnConnectedRaises(d)
    <2>1. UNCHANGED <<callState, peerAddress, userEnded, eph, client, recv, drops, timers>>
      BY <1>1 DEF DialEnds, StaleSignalLost, OnConnectedRaises, callVars,
                  connVars, threadVars, loopVars
    <2>2. ASSUME callState = "DIALING", ~refused', client \in Dials,
                 dial[client] # "free"
          PROVE  dial'[client] # "free"
      <3>1. CASE DialEnds(d)
        BY <2>2, <3>1 DEF DialEnds, Outcomes, DataOK
      <3>2. CASE StaleSignalLost(d)
        BY <2>2, <3>2 DEF StaleSignalLost, DataOK
      <3>3. CASE OnConnectedRaises(d)
        BY <2>2, <3>3 DEF OnConnectedRaises, DataOK
      <3> QED BY <1>1, <3>1, <3>2, <3>3
    <2>3. refused => refused'
      BY <1>1 DEF DialEnds, StaleSignalLost, OnConnectedRaises, callVars
    <2> QED BY <2>1, <2>2, <2>3 DEF DrivenInv, DialingIsDriven, DialWanted, EndReported
  <1>2. CASE OnOutgoingConnected(d) \/ OnOutgoingRefused(d)
    BY <1>2, NotDialing DEF OnOutgoingConnected, StartCallSession, OnOutgoingRefused
  <1>3. CASE OnOutgoingFailed(d)
    <2>1. CASE reconnecting /\ MayRetry
      BY <1>3, <2>1, ReconnectDriven DEF OnOutgoingFailed
    <2>2. CASE ~(reconnecting /\ MayRetry)
      BY <1>3, <2>2, NotDialing DEF OnOutgoingFailed
    <2> QED BY <2>1, <2>2
  <1> QED BY <1>1, <1>2, <1>3 DEF OnDialSignal

LEMMA LoopDriven ==
    ASSUME Inv, DrivenInv,
           \/ \E c \in Conns : ServerAdmits(c) \/ OnIncomingCall(c) \/ LinkDies(c)
           \/ PingFails \/ OnPeerDisconnect \/ ReconnectNow
    PROVE  DrivenInv'
  <1> USE DEF Inv, TypeOK
  <1>1. ASSUME NEW c \in Conns, ServerAdmits(c) \/ LinkDies(c) PROVE DrivenInv'
    <2>1. UNCHANGED <<callState, callVars, eph, client, dial, recv, drops, timers>>
      BY <1>1 DEF ServerAdmits, LinkDies, connVars, threadVars, loopVars
    <2> QED BY <2>1, NoticesStay DEF callVars, EndReported
  <1>2. ASSUME NEW c \in Conns, OnIncomingCall(c) PROVE DrivenInv'
    <2>1. CASE callState = "DIALING"
      <3>1. UNCHANGED <<callState, peerAddress, userEnded, refused, eph, client, dial,
                        recv, drops, timers>>
        BY <1>2, <2>1 DEF OnIncomingCall, MayRing, connVars, threadVars, loopVars
      <3> QED BY <3>1, NoticesStay DEF EndReported
    <2>2. CASE callState # "DIALING"
      BY <1>2, <2>2, NotDialing DEF OnIncomingCall
    <2> QED BY <2>1, <2>2
  <1>3. CASE PingFails
    BY <1>3, NotDialing DEF PingFails
  <1>4. CASE OnPeerDisconnect
    <2>1. CASE callState # "IDLE" /\ MayRetry
      BY <1>4, <2>1, ReconnectDriven DEF OnPeerDisconnect
    <2>2. CASE ~(callState # "IDLE" /\ MayRetry)
      BY <1>4, <2>2, NotDialing DEF OnPeerDisconnect
    <2> QED BY <2>1, <2>2
  <1>5. CASE ReconnectNow
    <2>1. UNCHANGED <<callState, peerAddress, userEnded, recv, drops>>
      BY <1>5 DEF ReconnectNow, callVars, threadVars
    <2>2. CASE RedialWanted
      <3>1. PICK d \in FreeDials : DialOut(d)
        BY <1>5, <2>2 DEF ReconnectNow
      <3>2. /\ d \in Dials /\ d # None /\ eph' = d /\ client' = d
            /\ dial'[d] = "running"
        BY <3>1, NoneAssumption DEF FreeDials, DialOut, DataOK
      <3> QED BY <2>1, <3>2 DEF DrivenInv, DialingIsDriven, DialWanted, EndReported
    <2>3. CASE ~RedialWanted
      <3>1. UNCHANGED <<eph, client, dial, refused>>
        BY <1>5, <2>3 DEF ReconnectNow
      <3>2. callState = "DIALING" => drops > 0 \/ EndReported
        BY <2>3 DEF RedialWanted, DrivenInv, DialWanted
      <3> QED BY <2>1, <3>1, <3>2 DEF DrivenInv, DialingIsDriven, DialWanted, EndReported
    <2> QED BY <2>2, <2>3
  <1> QED BY <1>1, <1>2, <1>3, <1>4, <1>5

LEMMA ThreadDriven ==
    ASSUME Inv, DrivenInv, NEW c \in Conns, Receiver(c) \/ Sender(c)
    PROVE  DrivenInv'
  <1> USE DEF Inv, TypeOK
  <1>1. CASE Receiver(c)
    <2>1. UNCHANGED <<callState, peerAddress, refused, eph, client, dial, timers>>
      BY <1>1 DEF Receiver, RecvTop, RecvPacket, RecvGarbage, RecvCallEnd,
                  RecvMarksEnded, RecvReportsEnd, RecvEof, RecvError,
                  RecvReportsLoss, recvFrame, connVars
    <2>2. \A t \in Conns : t # c => recv'[t] = recv[t]
      BY <1>1 DEF Receiver, RecvTop, RecvPacket, RecvGarbage, RecvCallEnd, RecvGoes,
                  RecvStops, RecvMarksEnded, RecvReportsEnd, RecvEof, RecvError,
                  RecvReportsLoss, DataOK
    <2>3. CASE RecvMarksEnded(c)
      <3>1. recv'[c].pc = "ended"
        BY <2>3 DEF RecvMarksEnded, RecvGoes, DataOK, Thread
      <3> QED BY <2>1, <3>1, NoticesStay DEF EndReported
    <2>4. CASE RecvReportsEnd(c) \/ RecvReportsLoss(c)
      <3>1. drops' > 0
        BY <2>4 DEF RecvReportsEnd, RecvReportsLoss, DataOK
      <3> QED BY <2>1, <3>1, NoticesStay
    <2>5. CASE ~RecvMarksEnded(c) /\ ~RecvReportsEnd(c) /\ ~RecvReportsLoss(c)
      <3>1. drops' = drops /\ userEnded' = userEnded /\ recv[c].pc # "ended"
        BY <1>1, <2>5 DEF Receiver, RecvTop, RecvPacket, RecvGarbage, RecvCallEnd,
                          RecvEof, RecvError
      <3>2. EndReported => EndReported'
        BY <2>2, <3>1 DEF EndReported
      <3> QED BY <2>1, <3>1, <3>2, NoticesStay
    <2> QED BY <2>3, <2>4, <2>5
  <1>2. CASE Sender(c)
    <2>1. UNCHANGED <<callState, peerAddress, userEnded, refused, eph, client, dial,
                      recv, timers>>
      BY <1>2 DEF Sender, SendTop, SendSucceeds, SendFails, SendReports, sendFrame,
                  callVars, connVars
    <2>2. drops' = drops \/ drops' > 0
      BY <1>2 DEF Sender, SendTop, SendSucceeds, SendFails, SendReports, DataOK
    <2> QED BY <2>1, <2>2, NoticesStay DEF EndReported
  <1> QED BY <1>1, <1>2

(* While a call is being dialled something is always about to happen to it *)
(* - a timer, a notice, a dialler or its signal - whatever old threads,    *)
(* timers and signals come between: the safety half of DialingEnds, and    *)
(* the reason DIALING needs no button to leave it.                         *)
THEOREM DialsAreDriven == Spec => []DialingIsDriven
  <1>1. Init => DrivenInv
    BY DEF Init, DrivenInv, DialingIsDriven, DialWanted
  <1>2. ASSUME Inv, DrivenInv, [Next]_vars PROVE DrivenInv'
    <2>1. CASE UNCHANGED vars
      BY <1>2, <2>1 DEF vars, callVars, connVars, threadVars, loopVars, DrivenInv,
                        DialingIsDriven, DialWanted, EndReported
    <2> QED BY <1>2, <2>1, UserDriven, DialDriven, LoopDriven, ThreadDriven DEF Next
  <1>3. Inv /\ DrivenInv /\ [Next]_vars => DrivenInv'
    BY <1>2
  <1>4. DrivenInv => DialingIsDriven
    BY DEF DrivenInv
  <1> QED BY <1>1, <1>3, <1>4, Invariance, PTL DEF Spec

LEMMA ForgottenStaysQuiet ==
    ASSUME Inv, ForgottenIsQuiet, [Next]_vars
    PROVE  ForgottenIsQuiet'
  <1> USE DEF ForgottenIsQuiet
  <1>1. CASE User
    <2>1. CASE PlaceCall
      BY <2>1 DEF PlaceCall
    <2>2. CASE CancelCall \/ AcceptFails \/ HangUp
      BY <2>2 DEF CancelCall, AcceptFails, HangUp, CleanupCall, TeardownConnection,
                  ForgetCall
    <2>3. CASE AcceptNothing \/ ConfirmSas
      BY <2>3 DEF AcceptNothing, ConfirmSas, callVars, connVars
    <2>4. CASE AcceptCall \/ AcceptRaises
      BY <2>4 DEF AcceptCall, AcceptRaises
    <2>5. CASE RejectCall
      BY <2>5 DEF RejectCall, connVars
    <2> QED BY <1>1, <2>1, <2>2, <2>3, <2>4, <2>5 DEF User
  <1>2. ASSUME NEW d \in Dials, DialEnds(d) \/ StaleSignalLost(d) \/ OnDialSignal(d)
        PROVE  ForgottenIsQuiet'
    <2>1. CASE DialEnds(d) \/ StaleSignalLost(d) \/ OnConnectedRaises(d)
      BY <2>1 DEF DialEnds, StaleSignalLost, OnConnectedRaises, callVars, connVars
    <2>2. CASE OnOutgoingConnected(d)
      BY <2>2 DEF OnOutgoingConnected
    <2>3. CASE OnOutgoingRefused(d)
      BY <2>3 DEF OnOutgoingRefused, CleanupCall, TeardownConnection, ForgetCall
    <2>4. CASE OnOutgoingFailed(d)
      BY <2>4 DEF OnOutgoingFailed, AttemptReconnect, MayRetry, CleanupCall,
                  TeardownConnection, ForgetCall
    <2> QED BY <1>2, <2>1, <2>2, <2>3, <2>4 DEF OnDialSignal
  <1>3. ASSUME NEW c \in Conns, ServerAdmits(c) \/ OnIncomingCall(c) \/ LinkDies(c)
        PROVE  ForgottenIsQuiet'
    BY <1>3 DEF ServerAdmits, OnIncomingCall, LinkDies, callVars, connVars
  <1>4. CASE PingFails
    BY <1>4 DEF PingFails, callVars, connVars
  <1>5. CASE OnPeerDisconnect
    BY <1>5 DEF OnPeerDisconnect, AttemptReconnect, MayRetry, CleanupCall,
                TeardownConnection, ForgetCall, callVars, connVars
  <1>6. CASE ReconnectNow
    BY <1>6 DEF ReconnectNow, RedialWanted
  <1>7. ASSUME NEW c \in Conns, Receiver(c) PROVE ForgottenIsQuiet'
    BY <1>7 DEF Receiver, RecvTop, RecvPacket, RecvGarbage, RecvCallEnd, RecvMarksEnded,
                RecvReportsEnd, RecvEof, RecvError, RecvReportsLoss, recvFrame, connVars
  <1>8. ASSUME NEW c \in Conns, Sender(c) PROVE ForgottenIsQuiet'
    BY <1>8 DEF Sender, SendTop, SendSucceeds, SendFails, SendReports, sendFrame,
                callVars, connVars
  <1>9. CASE UNCHANGED vars
    BY <1>9 DEF vars, callVars, connVars
  <1> QED BY <1>1, <1>2, <1>3, <1>4, <1>5, <1>6, <1>7, <1>8, <1>9 DEF Next

(* No key, dialler, socket or pending caller outlives the address of its   *)
(* call, so that a late answer to a forgotten dial finds nothing to open a *)
(* session with, however many dials and threads are still about.           *)
THEOREM ForgottenCallsAreOver == Spec => []ForgottenIsQuiet
  <1>1. Init => ForgottenIsQuiet
    BY DEF Init, ForgottenIsQuiet
  <1>2. Inv /\ ForgottenIsQuiet /\ [Next]_vars => ForgottenIsQuiet'
    BY ForgottenStaysQuiet
  <1> QED BY <1>1, <1>2, Invariance, PTL DEF Spec

-----------------------------------------------------------------------------
(* The three runs that expect a violation show that the code does not do   *)
(* what its comments say.  Here: it fails to only in the ways named.       *)

(* Who placed a call sees its view only while the call is on; and the view *)
(* is up in DIALING only for a re-dial.                                    *)
ViewInv ==
    /\ callState # "CONNECTING"
    /\ callState \in {"IDLE", "RINGING"} /\ isCaller => ~widget
    /\ callState = "DIALING" /\ overlay => ~widget
    /\ callState = "DIALING" /\ widget => reconnecting

LEMMA ReconnectKeepsView ==
    ASSUME Inv, ViewInv, NEW n, MayRetry, AttemptReconnect(n)
    PROVE  ViewInv'
  <1>1. /\ callState' = "DIALING" /\ reconnecting'
        /\ widget' = widget /\ overlay' = overlay
    BY DEF AttemptReconnect, uiVars
  <1>2. overlay => ~widget
    BY DEF ViewInv, MayRetry, Inv, TypeOK, DataOK, CallStates, SessionIffInCall
  <1> QED BY <1>1, <1>2 DEF ViewInv

(* A step that moves neither the call nor what the user sees of it. *)
LEMMA ViewStays ==
    ASSUME ViewInv, UNCHANGED <<callState, isCaller, reconnecting, widget, overlay>>
    PROVE  ViewInv'
  BY DEF ViewInv

LEMMA UserKeepsView == ASSUME Inv, ViewInv, User PROVE ViewInv'
  <1>1. CASE PlaceCall
    BY <1>1 DEF PlaceCall, uiVars, ViewInv
  <1>7. CASE AcceptRaises
    BY <1>7 DEF AcceptRaises, ViewInv
  <1>2. CASE CancelCall \/ AcceptFails \/ HangUp
    <2>1. callState' = "IDLE" /\ ~isCaller'
      BY <1>2 DEF CancelCall, AcceptFails, HangUp, CleanupCall, ForgetCall
    <2> QED BY <2>1 DEF ViewInv
  <1>3. CASE AcceptNothing
    BY <1>3 DEF AcceptNothing, callVars, ViewInv
  <1>4. CASE AcceptCall
    BY <1>4 DEF AcceptCall, StartCallSession, ViewInv
  <1>5. CASE RejectCall
    <2>1. /\ overlay /\ callState' = "IDLE"
          /\ isCaller' = isCaller /\ widget' = widget
      BY <1>5 DEF RejectCall, callVars
    <2>2. isCaller => ~widget
      BY <2>1 DEF ViewInv, Inv, TypeOK, DataOK, CallStates, SessionIffInCall
    <2> QED BY <2>1, <2>2 DEF ViewInv
  <1>6. CASE ConfirmSas
    BY <1>6, ViewStays DEF ConfirmSas, callVars
  <1> QED BY <1>1, <1>2, <1>3, <1>4, <1>5, <1>6, <1>7 DEF User

LEMMA DialKeepsView ==
    ASSUME Inv, ViewInv, NEW d \in Dials,
           DialEnds(d) \/ StaleSignalLost(d) \/ OnDialSignal(d)
    PROVE  ViewInv'
  <1>1. CASE DialEnds(d) \/ StaleSignalLost(d) \/ OnConnectedRaises(d)
    BY <1>1, ViewStays DEF DialEnds, StaleSignalLost, OnConnectedRaises,
                           callVars, uiVars
  <1>2. CASE OnOutgoingConnected(d)
    BY <1>2 DEF OnOutgoingConnected, StartCallSession, ViewInv
  <1>3. CASE OnOutgoingRefused(d) \/ (OnOutgoingFailed(d) /\ ~(reconnecting /\ MayRetry))
    <2>1. callState' = "IDLE" /\ ~isCaller'
      BY <1>3 DEF OnOutgoingRefused, OnOutgoingFailed, CleanupCall, ForgetCall
    <2> QED BY <2>1 DEF ViewInv
  <1>4. CASE OnOutgoingFailed(d) /\ reconnecting /\ MayRetry
    BY <1>4, ReconnectKeepsView DEF OnOutgoingFailed
  <1> QED BY <1>1, <1>2, <1>3, <1>4 DEF OnDialSignal

LEMMA LoopKeepsView ==
    ASSUME Inv, ViewInv,
           \/ \E c \in Conns : ServerAdmits(c) \/ OnIncomingCall(c) \/ LinkDies(c)
           \/ PingFails \/ OnPeerDisconnect \/ ReconnectNow
    PROVE  ViewInv'
  <1>1. ASSUME NEW c \in Conns, ServerAdmits(c) \/ LinkDies(c) PROVE ViewInv'
    BY <1>1, ViewStays DEF ServerAdmits, LinkDies, callVars, uiVars
  <1>2. ASSUME NEW c \in Conns, OnIncomingCall(c) PROVE ViewInv'
    BY <1>2 DEF OnIncomingCall, MayRing, ViewInv
  <1>3. CASE PingFails \/ ReconnectNow
    BY <1>3, ViewStays DEF PingFails, ReconnectNow, callVars, uiVars
  <1>4. CASE OnPeerDisconnect
    <2>1. CASE callState = "IDLE"
      BY <1>4, <2>1, ViewStays DEF OnPeerDisconnect, callVars, uiVars
    <2>2. CASE callState # "IDLE" /\ MayRetry
      BY <1>4, <2>2, ReconnectKeepsView DEF OnPeerDisconnect
    <2>3. CASE callState # "IDLE" /\ ~MayRetry
      BY <1>4, <2>3 DEF OnPeerDisconnect, CallEnded, ViewInv
    <2> QED BY <2>1, <2>2, <2>3
  <1> QED BY <1>1, <1>2, <1>3, <1>4

LEMMA ThreadFrame ==
    ASSUME NEW c \in Conns, Receiver(c) \/ Sender(c)
    PROVE  UNCHANGED <<callState, isCaller, reconnecting, sock, sasConfirmed, uiVars>>
  BY DEF Receiver, RecvTop, RecvPacket, RecvGarbage, RecvCallEnd, RecvMarksEnded,
         RecvReportsEnd, RecvEof, RecvError, RecvReportsLoss, recvFrame, connVars,
         Sender, SendTop, SendSucceeds, SendFails, SendReports, sendFrame, callVars

LEMMA NextKeepsView == ASSUME Inv, ViewInv, [Next]_vars PROVE ViewInv'
  <1>1. CASE \E c \in Conns : Receiver(c) \/ Sender(c)
    BY <1>1, ThreadFrame, ViewStays DEF uiVars
  <1>2. CASE UNCHANGED vars
    BY <1>2, ViewStays DEF vars, callVars, uiVars
  <1> QED BY <1>1, <1>2, UserKeepsView, DialKeepsView, LoopKeepsView DEF Next

LEMMA InitView == Init => ViewInv
  BY DEF Init, ViewInv

(* Where call_ended is not emitted and the view may be left up: _on_        *)
(* outgoing_rejected, a failed dial that is not the call's own, and         *)
(* cancel_call.                                                            *)
EndsUnseen ==
    \/ CancelCall
    \/ \E d \in Dials : \/ OnOutgoingRefused(d)
                        \/ OnOutgoingFailed(d) /\ callState # "DIALING"

(* As long as none of them happens under an open view the view closes with *)
(* the call, "any reason" included.                                        *)
THEOREM ViewClosesUnlessUnseen ==
    Spec /\ [][EndsUnseen => ~widget]_vars => []ViewClosesWithCall
  <1>1. Init => ViewClosesWithCall
    BY DEF Init, ViewClosesWithCall
  <1>2. ASSUME Inv, ViewInv, ViewClosesWithCall, [Next]_vars, [EndsUnseen => ~widget]_vars
        PROVE  ViewClosesWithCall'
    <2>1. CASE UNCHANGED vars
      BY <1>2, <2>1 DEF vars, uiVars, ViewClosesWithCall
    <2>2. CASE EndsUnseen => ~widget
      <3>1. CASE User
        <4>1. CASE CancelCall
          BY <2>2, <4>1 DEF EndsUnseen, CancelCall, uiVars, ViewClosesWithCall
        <4>2. CASE PlaceCall \/ AcceptCall \/ HangUp
          BY <4>2 DEF PlaceCall, AcceptCall, StartCallSession, HangUp, CallEnded,
                      uiVars, ViewClosesWithCall
        <4>3. CASE AcceptNothing \/ AcceptRaises \/ AcceptFails \/ ConfirmSas
          BY <1>2, <4>3 DEF AcceptNothing, AcceptRaises, AcceptFails, ConfirmSas,
                            ViewClosesWithCall
        <4>4. CASE RejectCall
          <5>1. overlay /\ widget' = widget
            BY <4>4 DEF RejectCall
          <5>2. ~widget
            BY <1>2, <5>1 DEF ViewInv, ViewClosesWithCall, Inv, SessionIffInCall
          <5> QED BY <5>1, <5>2 DEF ViewClosesWithCall
        <4> QED BY <3>1, <4>1, <4>2, <4>3, <4>4 DEF User
      <3>2. ASSUME NEW d \in Dials, DialEnds(d) \/ StaleSignalLost(d) \/ OnDialSignal(d)
            PROVE  ViewClosesWithCall'
        <4>1. CASE DialEnds(d) \/ StaleSignalLost(d) \/ OnConnectedRaises(d)
          BY <1>2, <4>1 DEF DialEnds, StaleSignalLost, OnConnectedRaises, uiVars,
                            ViewClosesWithCall
        <4>2. CASE OnOutgoingConnected(d)
          BY <4>2 DEF OnOutgoingConnected, StartCallSession, ViewClosesWithCall
        <4>3. CASE OnOutgoingRefused(d)
          BY <2>2, <4>3 DEF EndsUnseen, OnOutgoingRefused, uiVars, ViewClosesWithCall
        <4>4. CASE OnOutgoingFailed(d)
          <5>1. CASE reconnecting /\ MayRetry
            BY <4>4, <5>1 DEF OnOutgoingFailed, AttemptReconnect, ViewClosesWithCall
          <5>2. CASE ~(reconnecting /\ MayRetry) /\ reconnecting
            BY <4>4, <5>2 DEF OnOutgoingFailed, CallEnded, ViewClosesWithCall
          <5>3. CASE ~reconnecting
            <6>1. ~widget
              BY <1>2, <2>2, <4>4, <5>3 DEF EndsUnseen, ViewInv
            <6> QED BY <4>4, <5>3, <6>1 DEF OnOutgoingFailed, uiVars, ViewClosesWithCall
          <5> QED BY <5>1, <5>2, <5>3
        <4> QED BY <3>2, <4>1, <4>2, <4>3, <4>4 DEF OnDialSignal
      <3>3. ASSUME NEW c \in Conns, ServerAdmits(c) \/ OnIncomingCall(c) \/ LinkDies(c)
            PROVE  ViewClosesWithCall'
        BY <1>2, <3>3 DEF ServerAdmits, OnIncomingCall, MayRing, LinkDies, uiVars,
                          ViewClosesWithCall
      <3>4. CASE PingFails \/ OnPeerDisconnect \/ ReconnectNow
        BY <1>2, <3>4 DEF PingFails, OnPeerDisconnect, AttemptReconnect, CallEnded,
                          ReconnectNow, uiVars, ViewClosesWithCall
      <3>5. ASSUME NEW c \in Conns, Receiver(c) \/ Sender(c) PROVE ViewClosesWithCall'
        BY <1>2, <3>5, ThreadFrame DEF uiVars, ViewClosesWithCall
      <3> QED BY <1>2, <2>1, <3>1, <3>2, <3>3, <3>4, <3>5 DEF Next
    <2> QED BY <1>2, <2>1, <2>2
  <1>3. Inv /\ ViewInv /\ ViewClosesWithCall /\ [Next]_vars /\ [EndsUnseen => ~widget]_vars
           => ViewClosesWithCall'
    BY <1>2
  <1>4. Inv /\ ViewInv /\ [Next]_vars => ViewInv'
    BY NextKeepsView
  <1> QED BY <1>1, <1>3, <1>4, InitView, Invariance, PTL DEF Spec

-----------------------------------------------------------------------------
(* The histories only watch CallManager. *)
LEMMA HistoryIsSpec == HistorySpec => Spec
  <1>1. HistoryInit => Init
    BY DEF HistoryInit
  <1>2. [HistoryNext]_historyVars => [Next]_vars
    <2>1. HangUpClicked => [Next]_vars
      BY DEF HangUpClicked, Next, User
    <2> QED BY <2>1 DEF HistoryNext, historyVars
  <1> QED BY <1>1, <1>2, PTL DEF HistorySpec, Spec

(* A connected dial is taken for the call's own whatever the state: what   *)
(* _on_outgoing_connected does not check.                                  *)
AnsweredWhileDialing ==
    \A d \in Dials : OnOutgoingConnected(d) => callState = "DIALING"

(* An endpoint that is not a caller stays out of a call unless its user    *)
(* places or accepts one.                                                  *)
LEMMA OnlyCallersDial ==
    ASSUME Next, ~PlaceCall, ~AcceptCall, AnsweredWhileDialing,
           callState \in {"IDLE", "RINGING"}, ~isCaller
    PROVE  callState' \in {"IDLE", "RINGING"} /\ ~isCaller'
  <1>1. ~MayRetry
    BY DEF MayRetry
  <1>2. CASE User
    BY <1>2 DEF User, CancelCall, AcceptNothing, AcceptRaises, AcceptFails, RejectCall,
                HangUp, Endable, ConfirmSas, CleanupCall, ForgetCall, callVars
  <1>3. ASSUME NEW d \in Dials, DialEnds(d) \/ StaleSignalLost(d) \/ OnDialSignal(d)
        PROVE  callState' \in {"IDLE", "RINGING"} /\ ~isCaller'
    BY <1>1, <1>3 DEF DialEnds, StaleSignalLost, OnDialSignal, AnsweredWhileDialing,
           OnConnectedRaises, OnOutgoingRefused, OnOutgoingFailed, CleanupCall,
           ForgetCall, callVars
  <1>4. ASSUME NEW c \in Conns, ServerAdmits(c) \/ OnIncomingCall(c) \/ LinkDies(c)
        PROVE  callState' \in {"IDLE", "RINGING"} /\ ~isCaller'
    BY <1>4 DEF ServerAdmits, OnIncomingCall, MayRing, LinkDies, callVars
  <1>5. CASE PingFails \/ OnPeerDisconnect \/ ReconnectNow
    BY <1>1, <1>5 DEF PingFails, OnPeerDisconnect, ReconnectNow, CleanupCall, ForgetCall,
                      callVars
  <1>6. ASSUME NEW c \in Conns, Receiver(c) \/ Sender(c)
        PROVE  callState' \in {"IDLE", "RINGING"} /\ ~isCaller'
    BY <1>6, ThreadFrame
  <1> QED BY <1>2, <1>3, <1>4, <1>5, <1>6 DEF Next

(* end_call ignores a click while the call is being re-dialled, and a      *)
(* stale dial may be answered after any click.  Nothing else brings a call *)
(* back that the user has ended, whatever notices and timers are pending.  *)
THEOREM HangUpSticksOtherwise ==
    /\ HistorySpec
    /\ [][HangUpClicked => callState # "DIALING"]_historyVars
    /\ [][AnsweredWhileDialing]_historyVars
    => []HangUpSticks
  <1> DEFINE Ended  == hungUp => callState \in {"IDLE", "RINGING"} /\ ~isCaller
             ClickInTime == HangUpClicked => callState # "DIALING"
  <1>1. HistoryInit => Ended
    BY DEF HistoryInit
  <1>2. ASSUME Inv, ViewInv, Ended, [HistoryNext]_historyVars, [ClickInTime]_historyVars,
               [AnsweredWhileDialing]_historyVars
        PROVE  Ended'
    <2>1. CASE UNCHANGED historyVars
      BY <1>2, <2>1 DEF historyVars, vars, callVars
    <2>2. CASE HangUpClicked /\ ClickInTime
      <3>1. CASE HangUp
        BY <3>1 DEF HangUp, CleanupCall, ForgetCall
      <3>2. CASE callState \notin Endable /\ UNCHANGED vars
        <4>1. callState \in {"IDLE", "RINGING"} /\ widget
          BY <1>2, <2>2, <3>2 DEF HangUpClicked, Endable, Inv, TypeOK, DataOK, CallStates
        <4> QED BY <1>2, <3>2, <4>1 DEF ViewInv, vars, callVars
      <3> QED BY <2>2, <3>1, <3>2 DEF HangUpClicked
    <2>3. CASE AnsweredWhileDialing /\ HistoryNext /\ ~HangUpClicked
      <3>1. SUFFICES ASSUME hungUp' PROVE callState' \in {"IDLE", "RINGING"} /\ ~isCaller'
        OBVIOUS
      <3>2. Next /\ hungUp /\ ~PlaceCall /\ ~AcceptCall
        BY <2>3, <3>1 DEF HistoryNext
      <3> QED BY <1>2, <2>3, <3>2, OnlyCallersDial
    <2> QED BY <1>2, <2>1, <2>2, <2>3
  <1>3. Ended => HangUpSticks
    BY DEF HangUpSticks
  <1>4. /\ Inv /\ ViewInv /\ Ended /\ [HistoryNext]_historyVars /\ [ClickInTime]_historyVars
        /\ [AnsweredWhileDialing]_historyVars
        => Ended'
    BY <1>2
  <1>5. Inv /\ ViewInv /\ [Next]_vars => ViewInv'
    BY NextKeepsView
  <1> HIDE DEF Ended
  <1> QED BY <1>1, <1>3, <1>4, <1>5, InitView, HistoryIsSpec, Invariance, PTL
          DEF HistorySpec, Spec

(* What a step of the endpoint does to the confirmation of the words.      *)
LEMMA SasSteps ==
    ASSUME Inv, Next, AnsweredWhileDialing
    PROVE  \/ sasConfirmed' = ~RequireSas
           \/ sasConfirmed' = sasConfirmed /\ sock' = sock
           \/ sasConfirmed' = sasConfirmed /\ sock = None
           \/ ConfirmSas /\ sock' = sock
  <1>1. CASE User
    BY <1>1 DEF User, PlaceCall, CancelCall, AcceptNothing, AcceptCall, AcceptRaises,
                AcceptFails, RejectCall, HangUp, ConfirmSas, CleanupCall, TeardownConnection,
                connVars, Inv, SessionIffInCall
  <1>2. ASSUME NEW d \in Dials, DialEnds(d) \/ StaleSignalLost(d) \/ OnDialSignal(d)
        PROVE  \/ sasConfirmed' = ~RequireSas
               \/ sasConfirmed' = sasConfirmed /\ (sock' = sock \/ sock = None)
    BY <1>2 DEF DialEnds, StaleSignalLost, OnDialSignal, OnOutgoingConnected,
           AnsweredWhileDialing, OnConnectedRaises, OnOutgoingRefused,
           OnOutgoingFailed, AttemptReconnect, CleanupCall, TeardownConnection,
           connVars, Inv, SessionIffInCall
  <1>3. ASSUME NEW c \in Conns, ServerAdmits(c) \/ OnIncomingCall(c) \/ LinkDies(c)
        PROVE  sasConfirmed' = sasConfirmed /\ sock' = sock
    BY <1>3 DEF ServerAdmits, OnIncomingCall, LinkDies, connVars
  <1>4. CASE PingFails \/ OnPeerDisconnect \/ ReconnectNow
    BY <1>4 DEF PingFails, OnPeerDisconnect, AttemptReconnect, ReconnectNow, CleanupCall,
                TeardownConnection, connVars
  <1>5. ASSUME NEW c \in Conns, Receiver(c) \/ Sender(c)
        PROVE  sasConfirmed' = sasConfirmed /\ sock' = sock
    BY <1>5, ThreadFrame
  <1> QED BY <1>1, <1>2, <1>3, <1>4, <1>5 DEF Next

(* confirm_sas looks at no state, and a stale dial may replace a session   *)
(* whose words were confirmed.  Nothing else opens the gate of a session   *)
(* by words the user did not confirm in it.                                *)
THEOREM SasGateOtherwise ==
    /\ HistorySpec
    /\ [][ConfirmSas => callState = "IN_CALL"]_historyVars
    /\ [][AnsweredWhileDialing]_historyVars
    => []SasGate
  <1> DEFINE Gate == RequireSas /\ sasConfirmed => vouched /\ sock # None
             InCall == ConfirmSas => callState = "IN_CALL"
  <1>1. HistoryInit => Gate
    BY DEF HistoryInit, Init
  <1>2. ASSUME Inv, Gate, [HistoryNext]_historyVars, [InCall]_historyVars,
               [AnsweredWhileDialing]_historyVars
        PROVE  Gate'
    <2>1. CASE UNCHANGED historyVars
      BY <1>2, <2>1 DEF historyVars, vars, connVars
    <2>2. CASE HangUpClicked
      <3>1. CASE HangUp
        BY <3>1 DEF HangUp, CleanupCall, TeardownConnection
      <3>2. CASE callState \notin Endable /\ UNCHANGED vars
        <4>1. sock = None
          BY <3>2 , <1>2 DEF Endable, Inv, SessionIffInCall
        <4> QED BY <1>2, <3>2, <4>1 DEF vars, connVars
      <3> QED BY <2>2, <3>1, <3>2 DEF HangUpClicked
    <2>3. CASE AnsweredWhileDialing /\ InCall /\ HistoryNext /\ ~HangUpClicked
      <3>1. Next /\ vouched' = (sock' # None /\ sock' = sock /\ (vouched \/ ConfirmSas))
        BY <2>3 DEF HistoryNext
      <3>2. ConfirmSas => sock # None
        BY <1>2, <2>3 DEF Inv, SessionIffInCall
      <3>3. sock = None => ~(RequireSas /\ sasConfirmed)
        BY <1>2
      <3> QED BY <1>2, <2>3, <3>1, <3>2, <3>3, SasSteps
    <2> QED BY <1>2, <2>1, <2>2, <2>3
  <1>3. Gate => SasGate
    BY DEF SasGate
  <1>4. /\ Inv /\ Gate /\ [HistoryNext]_historyVars /\ [InCall]_historyVars
        /\ [AnsweredWhileDialing]_historyVars
        => Gate'
    BY <1>2
  <1> HIDE DEF Gate
  <1> QED BY <1>1, <1>3, <1>4, HistoryIsSpec, Invariance, PTL DEF HistorySpec, Spec

=============================================================================
