--------------------------- MODULE JitterBufferProofs ---------------------------
(***************************************************************************)
(* JitterBuffer for every target range, adaptation limit and numbering:    *)
(* its bounds, the continuity of what it plays, and the cushion.           *)
(***************************************************************************)
EXTENDS JitterBuffer, TLAPS

(* The length, the first and the next elements of a buffer after a pop. *)
LEMMA TailFacts ==
    ASSUME NEW S, NEW s \in Seq(S), s # <<>>
    PROVE  /\ Head(s) \in S /\ Tail(s) \in Seq(S)
           /\ Head(s) = s[1] /\ Len(s) >= 1
           /\ Len(Tail(s)) = Len(s) - 1
           /\ \A i \in 1..Len(Tail(s)) : Tail(s)[i] = s[i + 1]
  OBVIOUS

(* The length and the elements of a buffer after a push. *)
LEMMA AppendFacts ==
    ASSUME NEW S, NEW s \in Seq(S), NEW e \in S
    PROVE  /\ Append(s, e) \in Seq(S) /\ Append(s, e) # <<>>
           /\ Len(Append(s, e)) = Len(s) + 1
           /\ Append(s, e)[Len(s) + 1] = e
           /\ \A i \in 1..Len(s) : Append(s, e)[i] = s[i]
  OBVIOUS

(* Frame numbers stay frame numbers. *)
LEMMA NumberFacts ==
    ASSUME TypeOK, WrapAssumption, TargetsAssumption
    PROVE  /\ Newest \in Frame /\ After(Newest) \in Frame
           /\ Capacity \in Nat /\ 0 \in Frame
  <1>1. buffer # <<>> => buffer[Len(buffer)] \in Frame
    BY DEF TypeOK
  <1>2. Newest \in Frame
    BY <1>1 DEF Newest, TypeOK
  <1>3. After(Newest) \in Frame /\ 0 \in Frame
    BY <1>2 DEF After, Frame, WrapAssumption, TargetsAssumption
  <1>4. QED
    BY <1>2, <1>3 DEF Capacity, TargetsAssumption

LEMMA InitType == Init => TypeOK
  <1> SUFFICES ASSUME Init PROVE TypeOK
    OBVIOUS
  <1> USE TargetsAssumption, LimitsAssumption, WrapAssumption
  <1>1. buffer \in Seq(Frame) /\ Len(buffer) <= Capacity
    BY DEF Init, Capacity, TargetsAssumption
  <1>2. prebuffering \in BOOLEAN /\ playing \in BOOLEAN
    BY DEF Init
  <1>3. target \in MinTarget..MaxTarget
    BY DEF Init, TargetsAssumption
  <1>4. underruns \in 0..GrowAfter /\ stablePops \in 0..ShrinkAfter
    BY DEF Init, LimitsAssumption
  <1>5. lastOut \in Frame
    BY DEF Init, Frame, WrapAssumption, TargetsAssumption
  <1>6. QED
    BY <1>1, <1>2, <1>3, <1>4, <1>5 DEF TypeOK

(* Both adaptations keep the target between its bounds. *)
LEMMA AdaptationBounded ==
    ASSUME TypeOK
    PROVE  /\ NoteUnderrun => /\ target' \in MinTarget..MaxTarget
                              /\ underruns' \in 0..GrowAfter
                              /\ stablePops' \in 0..ShrinkAfter
           /\ NoteStablePop => /\ target' \in MinTarget..MaxTarget
                               /\ stablePops' \in 0..ShrinkAfter
  BY TargetsAssumption, LimitsAssumption
     DEF TypeOK, NoteUnderrun, NoteStablePop, TargetsAssumption,
         LimitsAssumption

LEMMA NextType == TypeOK /\ [Next]_vars => TypeOK'
  <1> SUFFICES ASSUME TypeOK, [Next]_vars PROVE TypeOK'
    OBVIOUS
  <1> USE NumberFacts, WrapAssumption, TargetsAssumption, LimitsAssumption
  <1>1. CASE Push
    <2>1. buffer' \in Seq(Frame) /\ Len(buffer') <= Capacity
      BY <1>1, AppendFacts DEF Push, TypeOK
    <2>2. QED
      BY <1>1, <2>1 DEF Push, TypeOK
  <1>2. CASE PopWaiting
    BY <1>2, AdaptationBounded DEF PopWaiting, TypeOK
  <1>3. CASE PopFrame
    <2>1. /\ buffer' \in Seq(Frame) /\ Len(buffer') <= Capacity
          /\ lastOut' \in Frame
      BY <1>3, TailFacts DEF PopFrame, TypeOK
    <2>2. QED
      BY <1>3, <2>1, AdaptationBounded DEF PopFrame, TypeOK
  <1>4. CASE PopUnderrun
    BY <1>4, AdaptationBounded DEF PopUnderrun, TypeOK
  <1>5. CASE Clear
    <2>1. /\ target' \in MinTarget..MaxTarget
          /\ prebuffering' \in BOOLEAN /\ playing' \in BOOLEAN
          /\ lastOut' \in Frame
      BY <1>5 DEF Clear, TypeOK
    <2>2. underruns' \in 0..GrowAfter /\ stablePops' \in 0..ShrinkAfter
      BY <1>5 DEF Clear, LimitsAssumption
    <2>3. buffer' \in Seq(Frame) /\ Len(buffer') <= Capacity
      BY <1>5 DEF Clear
    <2>4. QED
      BY <2>1, <2>2, <2>3 DEF TypeOK
  <1>6. CASE UNCHANGED vars
    BY <1>6 DEF vars, TypeOK, Capacity, Frame
  <1>7. QED
    BY <1>1, <1>2, <1>3, <1>4, <1>5, <1>6 DEF Next, Pop

(* The target never leaves its configured range, however the underruns and *)
(* stable streaks of JitterBuffer.pop alternate, and the deque never       *)
(* reaches the length at which it would drop its oldest frame by itself.   *)
THEOREM TypeCorrect == Spec => []TypeOK
  BY InitType, NextType, PTL DEF Spec

-----------------------------------------------------------------------------
LEMMA NextContinuous ==
    TypeOK /\ NothingLostInside /\ [Next]_vars => NothingLostInside'
  <1> SUFFICES ASSUME TypeOK, NothingLostInside, [Next]_vars
               PROVE  NothingLostInside'
    OBVIOUS
  <1> USE DEF NothingLostInside
  <1>1. CASE Push
    <2>1. /\ Len(buffer') = Len(buffer) + 1
          /\ buffer'[Len(buffer) + 1] = After(Newest)
          /\ \A i \in 1..Len(buffer) : buffer'[i] = buffer[i]
      BY <1>1, AppendFacts, NumberFacts, WrapAssumption, TargetsAssumption
         DEF Push, TypeOK
    <2>2. lastOut' = lastOut /\ Len(buffer) \in Nat
      BY <1>1 DEF Push, TypeOK
    <2>3. CASE buffer = <<>>
      <3>1. Newest = lastOut /\ Len(buffer) = 0
        BY <2>3 DEF Newest
      <3>2. QED
        BY <2>1, <2>2, <3>1 DEF After
    <2>4. CASE buffer # <<>>
      <3>1. Newest = buffer[Len(buffer)] /\ Len(buffer) >= 1
        BY <2>4, <2>2 DEF Newest, TypeOK
      <3>2. buffer'[1] = After(lastOut)
        BY <2>1, <2>2, <2>4, <3>1
      <3>3. ASSUME NEW i \in 1..(Len(buffer') - 1)
            PROVE  buffer'[i + 1] = After(buffer'[i])
        <4>1. CASE i = Len(buffer)
          BY <4>1, <2>1, <2>2, <3>1
        <4>2. CASE i # Len(buffer)
          <5>1. i \in 1..(Len(buffer) - 1) /\ i + 1 \in 1..Len(buffer)
            BY <4>2, <2>1, <2>2
          <5>2. QED
            BY <5>1, <2>1, <2>2
        <4>3. QED
          BY <4>1, <4>2
      <3>4. QED
        BY <3>2, <3>3, <2>2 DEF After
    <2>5. QED
      BY <2>3, <2>4
  <1>2. CASE PopFrame
    <2>1. /\ lastOut' = buffer[1] /\ Len(buffer) \in Nat /\ Len(buffer) >= 1
          /\ Len(buffer') = Len(buffer) - 1
          /\ \A i \in 1..Len(buffer') : buffer'[i] = buffer[i + 1]
      BY <1>2, TailFacts DEF PopFrame, TypeOK
    <2>2. ASSUME buffer' # <<>> PROVE Len(buffer') >= 1
      BY <1>2, <2>2, TailFacts DEF PopFrame, TypeOK
    <2>3. buffer' # <<>> => buffer'[1] = After(lastOut')
      BY <2>1, <2>2 DEF After
    <2>4. ASSUME NEW i \in 1..(Len(buffer') - 1)
          PROVE  buffer'[i + 1] = After(buffer'[i])
      <3>1. /\ i + 1 \in 1..(Len(buffer) - 1)
            /\ i \in 1..Len(buffer') /\ i + 1 \in 1..Len(buffer')
        BY <2>1
      <3>2. QED
        BY <3>1, <2>1
    <2>5. QED
      BY <2>3, <2>4 DEF After
  <1>3. CASE Clear
    BY <1>3 DEF Clear
  <1>4. CASE PopWaiting \/ PopUnderrun \/ UNCHANGED vars
    <2>1. buffer' = buffer /\ lastOut' = lastOut
      BY <1>4 DEF PopWaiting, PopUnderrun, vars
    <2>2. QED
      BY <2>1 DEF After
  <1>5. QED
    BY <1>1, <1>2, <1>3, <1>4 DEF Next, Pop

(* Frames leave the buffer in the order they were pushed, none twice and   *)
(* none skipped, across refusals at capacity, underruns and clears.        *)
THEOREM FramesContinuous == Spec => []NothingLostInside
  <1>1. Init => NothingLostInside
    BY DEF Init, NothingLostInside
  <1>2. QED
    BY <1>1, NextContinuous, TypeCorrect, PTL DEF Spec

-----------------------------------------------------------------------------
(* Playback that stopped waits: prebuffering holds whenever silence was    *)
(* the last thing played.                                                  *)
SilentIsWaiting == ~playing => prebuffering

LEMMA NextWaiting ==
    SilentIsWaiting /\ [Next]_vars => SilentIsWaiting'
  BY DEF SilentIsWaiting, Next, Pop, Push, PopWaiting, PopFrame, PopUnderrun,
         Clear, vars

LEMMA NextCushion ==
    SilentIsWaiting /\ [Next]_vars => [~playing /\ playing' => Len(buffer) >= target]_vars
  BY DEF SilentIsWaiting, Next, Pop, Push, PopWaiting, PopFrame, PopUnderrun,
         Clear, vars

(* Whatever order of pushes, pops and clears went before, the first frame  *)
(* after silence leaves a buffer that held the whole target.               *)
THEOREM CushionBeforeSound == Spec => ResumesFromCushion
  <1>1. Init => SilentIsWaiting
    BY DEF Init, SilentIsWaiting
  <1>2. QED
    BY <1>1, NextWaiting, NextCushion, PTL DEF Spec, ResumesFromCushion
=============================================================================
