----------------------------- MODULE JitterBuffer -----------------------------
(***************************************************************************)
(* The adaptive jitter buffer between the receive thread, which pushes     *)
(* decoded frames, and the sound card's callback, which pops one every     *)
(* 20 ms (torcall/core/audio_engine.py).  Every method holds the lock from *)
(* its first statement to its last, so each is one atomic action.          *)
(*                                                                         *)
(* Frames are numbered modulo Wrap, in the order the buffer took them; a   *)
(* push that finds it full is refused and takes no number.  The counters   *)
(* _underruns and _stable_pops stop at the limit they are compared with,   *)
(* beyond which the code no longer tells their values apart.               *)
(***************************************************************************)
EXTENDS Integers, Sequences

CONSTANTS
    MinTarget,      \* JITTER_BUFFER_MIN_MS in frames
    InitialTarget,  \* JITTER_BUFFER_INITIAL_MS in frames
    MaxTarget,      \* JITTER_BUFFER_MAX_MS in frames
    GrowAfter,      \* underruns before the target grows (3)
    ShrinkAfter,    \* undisturbed pops before it shrinks (250)
    Wrap            \* bound: frame numbers are taken modulo Wrap

ASSUME TargetsAssumption ==
    /\ MinTarget \in Nat /\ InitialTarget \in Nat /\ MaxTarget \in Nat
    /\ 1 <= MinTarget /\ MinTarget <= InitialTarget
    /\ InitialTarget <= MaxTarget
ASSUME LimitsAssumption ==
    GrowAfter \in Nat \ {0} /\ ShrinkAfter \in Nat \ {0}
ASSUME WrapAssumption == Wrap \in Nat /\ Wrap > 2 * MaxTarget + 1

VARIABLES
    target,        \* _target
    buffer,        \* _buffer
    prebuffering,  \* _prebuffering
    underruns,     \* _underruns
    stablePops,    \* _stable_pops
    playing,       \* history: the last pop returned a frame, not silence
    lastOut        \* history: the last frame that left the buffer

vars == <<target, buffer, prebuffering, underruns, stablePops, playing, lastOut>>

Capacity == 2 * MaxTarget
Frame    == 0..(Wrap - 1)
After(f) == (f + 1) % Wrap
Newest   == IF buffer = <<>> THEN lastOut ELSE buffer[Len(buffer)]

TypeOK ==
    /\ target \in MinTarget..MaxTarget
    /\ buffer \in Seq(Frame) /\ Len(buffer) <= Capacity
    /\ prebuffering \in BOOLEAN /\ playing \in BOOLEAN
    /\ underruns \in 0..GrowAfter /\ stablePops \in 0..ShrinkAfter
    /\ lastOut \in Frame

Init ==
    /\ target = InitialTarget
    /\ buffer = <<>> /\ prebuffering = TRUE
    /\ underruns = 0 /\ stablePops = 0
    /\ playing = FALSE /\ lastOut = 0

-----------------------------------------------------------------------------
(* push on a buffer with room.  The deque itself would make room by        *)
(* dropping its oldest frame, which the length test keeps from happening.  *)
PushOverOldest ==
    /\ buffer' = Append(IF Len(buffer) < Capacity THEN buffer ELSE Tail(buffer),
                        After(Newest))
    /\ UNCHANGED <<target, prebuffering, underruns, stablePops, playing, lastOut>>

Push ==
    /\ Len(buffer) < Capacity
    /\ buffer' = Append(buffer, After(Newest))
    /\ UNCHANGED <<target, prebuffering, underruns, stablePops, playing, lastOut>>

(* _note_underrun *)
NoteUnderrunPastCapacity ==
    /\ stablePops' = 0
    /\ IF underruns + 1 >= GrowAfter
       THEN IF target <= Capacity THEN target' = target + 1 /\ underruns' = 0
                                  ELSE target' = target /\ underruns' = GrowAfter
       ELSE target' = target /\ underruns' = underruns + 1

NoteUnderrun ==
    /\ stablePops' = 0
    /\ IF underruns + 1 >= GrowAfter
       THEN IF target < MaxTarget THEN target' = target + 1 /\ underruns' = 0
                                  ELSE target' = target /\ underruns' = GrowAfter
       ELSE target' = target /\ underruns' = underruns + 1

(* pop while the cushion is not there yet: silence. *)
PopWaiting ==
    /\ prebuffering /\ Len(buffer) < target
    /\ IF buffer = <<>> THEN NoteUnderrun
                        ELSE UNCHANGED <<target, underruns, stablePops>>
    /\ playing' = FALSE
    /\ UNCHANGED <<buffer, prebuffering, lastOut>>

(* The adaptation a successful pop makes.  *)
NoteStablePopDownToZero ==
    IF stablePops + 1 >= ShrinkAfter
    THEN target' = target - 1 /\ stablePops' = 0
    ELSE target' = target /\ stablePops' = stablePops + 1

NoteStablePop ==
    IF stablePops + 1 >= ShrinkAfter
    THEN IF target > MinTarget THEN target' = target - 1 /\ stablePops' = 0
                               ELSE target' = target /\ stablePops' = ShrinkAfter
    ELSE target' = target /\ stablePops' = stablePops + 1

(* pop with a frame to play. *)
PopFrame ==
    /\ buffer # <<>> /\ (prebuffering => Len(buffer) >= target)
    /\ prebuffering' = FALSE
    /\ NoteStablePop
    /\ buffer' = Tail(buffer) /\ lastOut' = Head(buffer)
    /\ playing' = TRUE
    /\ UNCHANGED underruns

(* pop on a buffer that has run dry: silence, and a new cushion first. *)
PopUnderrunGoesOn ==
    /\ ~prebuffering /\ buffer = <<>>
    /\ NoteUnderrun
    /\ playing' = FALSE
    /\ UNCHANGED <<buffer, prebuffering, lastOut>>

PopUnderrun ==
    /\ ~prebuffering /\ buffer = <<>>
    /\ NoteUnderrun
    /\ prebuffering' = TRUE
    /\ playing' = FALSE
    /\ UNCHANGED <<buffer, lastOut>>

Pop == PopWaiting \/ PopFrame \/ PopUnderrun

(* clear, which AudioEngine.stop calls: the target keeps its value.        *)
Clear ==
    /\ buffer' = <<>> /\ prebuffering' = TRUE
    /\ underruns' = 0 /\ stablePops' = 0
    /\ playing' = FALSE /\ lastOut' = Newest
    /\ UNCHANGED target

Next == Push \/ Pop \/ Clear

Spec == Init /\ [][Next]_vars

-----------------------------------------------------------------------------
(* No frame is lost, repeated or reordered between push and pop: the       *)
(* buffer always continues where playback stands, however often it was     *)
(* full, empty or cleared.                                                 *)
NothingLostInside ==
    /\ buffer # <<>> => buffer[1] = After(lastOut)
    /\ \A i \in 1..(Len(buffer) - 1) : buffer[i + 1] = After(buffer[i])

(* After silence, sound resumes only from a full cushion of target frames, *)
(* "which prevents choppy output": no underrun path forgets to prebuffer.  *)
ResumesFromCushion ==
    [][~playing /\ playing' => Len(buffer) >= target]_vars
=============================================================================
