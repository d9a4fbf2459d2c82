---------------------------- MODULE PacketChannel ----------------------------
(***************************************************************************)
(* What a TorCall connection promises to the code above it: whole packets, *)
(* each read once, in the order they were sent.  The end of the connection *)
(* may swallow the last ones.  Once a packet was sent in part only, the    *)
(* direction is broken and nothing is promised of it any more.             *)
(***************************************************************************)
EXTENDS Sequences

CONSTANTS
    Ends,      \* the two ends; a direction is known by the end that sends
    Packets

VARIABLES
    chan,      \* packets sent and not read
    broken,    \* a packet was sent in part only
    garbled    \* something else was read than packets as they were sent

Init ==
    /\ chan = [e \in Ends |-> <<>>]
    /\ broken = [e \in Ends |-> FALSE] /\ garbled = [e \in Ends |-> FALSE]

Send(e, p) ==
    /\ chan' = [chan EXCEPT ![e] = Append(@, p)]
    /\ UNCHANGED <<broken, garbled>>

Receive(e) ==
    /\ chan[e] # <<>>
    /\ chan' = [chan EXCEPT ![e] = Tail(@)]
    /\ UNCHANGED <<broken, garbled>>

(* The connection ends, and what is on its way may be lost. *)
Lose(gone) ==
    /\ chan' = [e \in Ends |-> IF e \in gone THEN <<>> ELSE chan[e]]
    /\ UNCHANGED <<broken, garbled>>

Break(e) ==
    broken' = [broken EXCEPT ![e] = TRUE] /\ UNCHANGED <<chan, garbled>>

(* Only a broken direction may be misread, and then anything may follow.   *)
Garble(e) ==
    /\ broken[e] /\ UNCHANGED broken
    /\ garbled' = [garbled EXCEPT ![e] = TRUE]
    /\ \A o \in Ends \ {e} : chan'[o] = chan[o]

Next ==
    \/ \E e \in Ends : \/ \E p \in Packets : Send(e, p)
                       \/ Receive(e) \/ Break(e) \/ Garble(e)
    \/ \E gone \in SUBSET Ends : Lose(gone)

Spec == Init /\ [][Next]_<<chan, broken, garbled>>
=============================================================================
