----------------------------- MODULE AudioStream -----------------------------
(***************************************************************************)
(* What one direction of a TorCall conversation promises, without saying   *)
(* how: the frames spoken into a session are heard, if at all, once, in    *)
(* the order they were spoken, and in that session only.  Any of them may  *)
(* be lost on the way.  Of a session that is mixed up with another one     *)
(* nothing is promised any more, nor told.                                 *)
(***************************************************************************)
EXTENDS Naturals, Sequences

CONSTANT Keys   \* the sessions, each known by the key it is encrypted with

VARIABLES
    spoken,     \* how many frames were spoken in each session
    heard,      \* the frames of each session that were played, in that order
    shared      \* the sessions that were mixed up with others

Init == /\ spoken = [k \in Keys |-> 0] /\ heard = [k \in Keys |-> <<>>]
        /\ shared = {}

Speak(k) ==
    /\ spoken' = [spoken EXCEPT ![k] = spoken[k] + 1]
    /\ UNCHANGED <<heard, shared>>

Hear(k) ==
    /\ k \notin shared
    /\ \E n \in 1..spoken[k] :
          /\ \A i \in 1..Len(heard[k]) : heard[k][i] < n
          /\ heard' = [heard EXCEPT ![k] = Append(heard[k], n)]
    /\ UNCHANGED <<spoken, shared>>

MixUp ==
    /\ shared' \in SUBSET Keys /\ shared \subseteq shared'
    /\ UNCHANGED <<spoken, heard>>

Next == MixUp \/ \E k \in Keys : Speak(k) \/ Hear(k)

Spec == Init /\ [][Next]_<<spoken, heard, shared>>
=============================================================================
