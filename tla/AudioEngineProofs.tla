--------------------------- MODULE AudioEngineProofs ---------------------------
(***************************************************************************)
(* AudioEngine for every target range: it uses the buffer as the buffer    *)
(* expects, a button that shows muted is true, and the audio of an ended   *)
(* session is bounded.                                                     *)
(***************************************************************************)
EXTENDS AudioEngine, JitterBufferProofs, FiniteSetTheorems

LEMMA UsesTheBuffer == [EngineNext]_engineVars => [Next]_vars
  BY DEF EngineNext, engineVars, vars, StartSession, EndSession, Stop, GiveUp,
         PressMute, Capture, Play, Decode, PlayReceived, PlayLate, PushOrRefuse,
         Next

(* Whatever sessions, callbacks and late receive threads do, the buffer    *)
(* sees pushes, pops and clears only: AudioEngine implements JitterBuffer, *)
(* so what was proved of the buffer holds of the engine.                   *)
THEOREM EngineImplementsBuffer == EngineSpec => Spec
  <1>1. EngineInit => Init
    BY DEF EngineInit
  <1>2. QED
    BY <1>1, UsesTheBuffer, PTL DEF EngineSpec, Spec

LEMMA EngineBounds == EngineSpec => []TypeOK
  BY EngineImplementsBuffer, TypeCorrect, PTL

LEMMA NextEngineType ==
    TypeOK /\ TypeOK' /\ EngineTypeOK /\ [EngineNext]_engineVars => EngineTypeOK'
  <1> SUFFICES ASSUME TypeOK, TypeOK', EngineTypeOK, [EngineNext]_engineVars
               PROVE  EngineTypeOK'
    OBVIOUS
  <1>1. ToSet(buffer') \subseteq Frame
    <2>1. Frame' = Frame /\ buffer' \in Seq(Frame)
      BY DEF Frame, TypeOK
    <2>2. QED
      BY <2>1 DEF ToSet
  <1>0. ToSet(buffer) \subseteq Frame
    BY DEF TypeOK, ToSet
  <1>2. old' \subseteq Frame
    BY <1>1, <1>0 DEF EngineTypeOK, EngineNext, engineVars, oldVars, Buffered,
         StartSession, EndSession, GiveUp, PressMute, Capture, Play, Decode, PlayReceived, PlayLate
  <1>3. /\ device' \in {"none", "created", "started"} /\ started' \in BOOLEAN
        /\ muted' \in BOOLEAN /\ viewUp' \in BOOLEAN /\ shown' \in BOOLEAN
        /\ callback' \in {"idle", "voice", "silence"} /\ early' \in BOOLEAN
        /\ overrun' \in BOOLEAN
    <2>1. overrun' \in BOOLEAN
      <3>1. InSession \in BOOLEAN
        BY DEF InSession
      <3>2. overrun' \in {InSession, FALSE, overrun}
        BY DEF EngineNext, engineVars, oldVars, StartSession, EndSession,
           GiveUp, PressMute, Capture, Play, Decode, PlayReceived, PlayLate
      <3>3. overrun \in BOOLEAN
        BY DEF EngineTypeOK
      <3>4. QED
        BY <3>1, <3>2, <3>3, Zenon
    <2>2. device' \in {"none", "created", "started"} /\ started' \in BOOLEAN
      BY DEF EngineTypeOK, EngineNext, engineVars, streamVars, Start, Stop,
         StartSession, EndSession, GiveUp, PressMute, Capture, Play, Decode,
         PlayReceived, PlayLate
    <2>3. muted' \in BOOLEAN /\ viewUp' \in BOOLEAN /\ shown' \in BOOLEAN
      BY ZenonT(60) DEF EngineTypeOK, EngineNext, engineVars, viewVars,
         StartSession, EndSession, GiveUp, PressMute, Capture, Play, Decode,
         PlayReceived, PlayLate
    <2>4. callback' \in {"idle", "voice", "silence"} /\ early' \in BOOLEAN
      BY ZenonT(60) DEF EngineTypeOK, EngineNext, engineVars,
         StartSession, EndSession, GiveUp, PressMute, Capture, Play, Decode,
         PlayReceived, PlayLate
    <2>5. QED
      BY <2>1, <2>2, <2>3, <2>4
  <1>4. /\ reading' \in Nat /\ holding' \in Nat /\ late' \in Nat
        /\ reading' + holding' + late' <= MaxThreads /\ behind' \in Nat
    <2>1. /\ reading \in Nat /\ holding \in Nat /\ late \in Nat /\ behind \in Nat
          /\ reading + holding + late <= MaxThreads /\ MaxThreads \in Nat
      BY ThreadsAssumption DEF EngineTypeOK
    <2>2. CASE StartSession
      BY <2>1, <2>2 DEF StartSession
    <2>3. CASE EndSession
      BY <2>1, <2>3 DEF EndSession
    <2>4. CASE Decode \/ PlayReceived
      BY <2>1, <2>4 DEF Decode, PlayReceived, oldVars
    <2>5. CASE PlayLate
      BY <2>1, <2>5 DEF PlayLate
    <2>6. CASE GiveUp \/ PressMute \/ Capture \/ Play \/ UNCHANGED engineVars
      BY <2>1, <2>6 DEF GiveUp, PressMute, Capture, Play, engineVars, threadVars,
           oldVars
    <2>7. QED
      BY <2>2, <2>3, <2>4, <2>5, <2>6 DEF EngineNext
  <1>5. QED
    BY <1>2, <1>3, <1>4 DEF EngineTypeOK, Frame

(* Inside the engine the buffer and its target keep their bounds, and the  *)
(* stream, the view and the threads their types.                           *)
THEOREM EngineTypeCorrect == EngineSpec => []EngineTypeOK
  <1>1. EngineInit => EngineTypeOK
    <2> SUFFICES ASSUME EngineInit PROVE EngineTypeOK
      OBVIOUS
    <2>1. /\ reading \in Nat /\ holding \in Nat /\ late \in Nat /\ behind \in Nat
          /\ reading + holding + late <= MaxThreads
      BY ThreadsAssumption DEF EngineInit
    <2>2. /\ device \in {"none", "created", "started"} /\ started \in BOOLEAN
          /\ muted \in BOOLEAN /\ viewUp \in BOOLEAN /\ shown \in BOOLEAN
          /\ callback \in {"idle", "voice", "silence"} /\ early \in BOOLEAN
          /\ old \subseteq Frame /\ overrun \in BOOLEAN
      BY Zenon DEF EngineInit
    <2>3. TypeOK
      BY InitType DEF EngineInit
    <2>4. QED
      BY <2>1, <2>2, <2>3, Zenon DEF EngineTypeOK
  <1>2. QED
    BY <1>1, EngineBounds, NextEngineType, PTL DEF EngineSpec

(* Inside the engine no frame is lost, repeated or reordered in the        *)
(* buffer, also where a late thread pushes into the next session's.        *)
THEOREM EngineContinuous == EngineSpec => []NothingLostInside
  BY EngineImplementsBuffer, FramesContinuous, PTL

(* Inside the engine sound resumes from a full cushion, also in a session  *)
(* that follows another.                                                   *)
THEOREM EngineCushion == EngineSpec => ResumesFromCushion
  BY EngineImplementsBuffer, CushionBeforeSound, PTL

-----------------------------------------------------------------------------
LEMMA NextSilent ==
    ShownMutedIsSilent /\ [EngineNext]_engineVars => ShownMutedIsSilent'
  BY DEF ShownMutedIsSilent, EngineNext, engineVars, viewVars, threadVars,
         streamVars, oldVars, StartSession, EndSession, GiveUp, PressMute, Capture, Play,
         Decode, PlayReceived, PlayLate

(* The mute button of CallWidget and AudioEngine._muted: what shows as     *)
(* muted is muted, and a callback that posts voice captured it before the  *)
(* press, whatever sessions began and ended in between.                    *)
THEOREM MutedIsSilent == EngineSpec => []ShownMutedIsSilent
  <1>1. EngineInit => ShownMutedIsSilent
    BY DEF EngineInit, ShownMutedIsSilent
  <1>2. QED
    BY <1>1, NextSilent, PTL DEF EngineSpec

-----------------------------------------------------------------------------
(* What makes OldAudioBounded inductive: only a session under way is one   *)
(* that began over another.                                                *)
OldCounted == OldAudioBounded /\ (overrun => InSession)

(* A set of frames is finite, so its members can be counted.               *)
LEMMA FramesAreFinite == \A S \in SUBSET Frame : IsFiniteSet(S)
  <1>1. IsFiniteSet(Frame)
    BY FS_Interval, WrapAssumption, TargetsAssumption DEF Frame
  <1>2. QED
    BY <1>1, FS_Subset

(* A push adds at most one frame to those in the buffer. *)
LEMMA PushAddsOne ==
    ASSUME TypeOK, PushOrRefuse \/ UNCHANGED vars
    PROVE  \E f : ToSet(buffer') \ Buffered \subseteq {f}
  <1>1. CASE UNCHANGED vars
    BY <1>1 DEF vars, Buffered, ToSet
  <1>2. CASE Push
    <2>1. /\ Len(buffer) \in Nat
          /\ DOMAIN buffer = 1..Len(buffer)
          /\ DOMAIN buffer' = 1..(Len(buffer) + 1)
          /\ buffer'[Len(buffer) + 1] = After(Newest)
          /\ \A i \in 1..Len(buffer) : buffer'[i] = buffer[i]
      BY <1>2, AppendFacts, NumberFacts, WrapAssumption, TargetsAssumption
         DEF Push, TypeOK
    <2>2. ToSet(buffer') \ Buffered \subseteq {After(Newest)}
      <3>1. SUFFICES ASSUME NEW i \in 1..(Len(buffer) + 1),
                            buffer'[i] # After(Newest)
                     PROVE  buffer'[i] \in Buffered
        BY <2>1 DEF ToSet
      <3>2. i \in 1..Len(buffer)
        BY <2>1, <3>1
      <3>3. QED
        BY <2>1, <3>2 DEF Buffered, ToSet
    <2>3. QED
      BY <2>2
  <1>3. QED
    BY <1>1, <1>2 DEF PushOrRefuse

LEMMA NextOverrun ==
    EngineTypeOK /\ (overrun => InSession) /\ [EngineNext]_engineVars
        => (overrun => InSession)'
  <1> SUFFICES ASSUME EngineTypeOK, overrun => InSession, [EngineNext]_engineVars,
                      overrun'
               PROVE  reading' + holding' > 0
    BY DEF InSession
  <1>0. reading \in Nat /\ holding \in Nat
    BY DEF EngineTypeOK
  <1>1. CASE StartSession
    BY <1>0, <1>1 DEF StartSession
  <1>2. CASE EndSession
    BY <1>2 DEF EndSession
  <1>3. CASE Decode \/ PlayReceived
    BY <1>0, <1>3 DEF Decode, PlayReceived
  <1>4. CASE PlayLate
    BY <1>0, <1>4 DEF PlayLate, InSession
  <1>5. CASE UNCHANGED <<reading, holding, overrun>>
    BY <1>5 DEF InSession
  <1>6. QED
    BY <1>1, <1>2, <1>3, <1>4, <1>5
       DEF EngineNext, engineVars, threadVars, oldVars, GiveUp, PressMute,
           Capture, Play

LEMMA NextOld ==
    EngineTypeOK /\ OldCounted /\ [EngineNext]_engineVars
        => OldAudioBounded'
  <1> SUFFICES ASSUME EngineTypeOK, OldCounted, [EngineNext]_engineVars,
                      ~overrun'
               PROVE  Cardinality(old') + late' <= behind'
    BY DEF OldAudioBounded
  <1>0. /\ TypeOK /\ late \in Nat /\ holding \in Nat /\ reading \in Nat
        /\ behind \in Nat
        /\ IsFiniteSet(old) /\ Cardinality(old) \in Nat
        /\ ~overrun => Cardinality(old) + late <= behind
    <2>1. IsFiniteSet(old)
      BY FramesAreFinite DEF EngineTypeOK
    <2>2. QED
      BY <2>1, FS_CardinalityType DEF EngineTypeOK, OldCounted, OldAudioBounded
  <1>1. CASE EndSession
    <2>1. buffer' = <<>>
      BY <1>1 DEF EndSession, Stop, Clear
    <2>2. old' = {} /\ behind' = late' /\ late' \in Nat
      BY <1>0, <1>1, <2>1 DEF EndSession, ToSet
    <2>3. QED
      BY <2>2, FS_EmptySet
  <1>2. CASE StartSession
    <2>1. ~InSession
      BY <1>2 DEF StartSession
    <2>2. holding = 0 /\ ~overrun
      BY <1>0, <2>1 DEF InSession, OldCounted
    <2>3. old' = old /\ late' = late /\ behind' = behind
      BY <1>0, <1>2, <2>1, <2>2 DEF StartSession
    <2>4. QED
      BY <1>0, <2>2, <2>3
  <1>3. CASE Play
    <2>1. old' \subseteq old /\ late' = late /\ behind' = behind
          /\ overrun' = overrun
      BY <1>3 DEF Play, threadVars
    <2>2. Cardinality(old') <= Cardinality(old) /\ Cardinality(old') \in Nat
      BY <1>0, <2>1, FS_Subset, FS_CardinalityType
    <2>3. QED
      BY <1>0, <2>1, <2>2
  <1>4. CASE PlayLate
    <2>1. /\ late > 0 /\ late' = late - 1 /\ behind' = behind
          /\ overrun' = overrun
          /\ PushOrRefuse \/ UNCHANGED vars
          /\ old' = old \cup (ToSet(buffer') \ Buffered)
      BY <1>4 DEF PlayLate
    <2>2. PICK f : ToSet(buffer') \ Buffered \subseteq {f}
      BY <1>0, <2>1, PushAddsOne
    <2>3. old' = old \/ old' = old \cup {f}
      BY <2>1, <2>2
    <2>4. Cardinality(old') \in Nat /\ Cardinality(old') <= Cardinality(old) + 1
      <3>1. /\ IsFiniteSet(old \cup {f})
            /\ Cardinality(old \cup {f}) = Cardinality(old)
               \/ Cardinality(old \cup {f}) = Cardinality(old) + 1
        BY <1>0, FS_AddElement
      <3>2. QED
        BY <1>0, <2>3, <3>1
    <2>5. QED
      BY <1>0, <2>1, <2>4
  <1>5. CASE UNCHANGED <<late, old, behind, overrun>>
    BY <1>0, <1>5
  <1>6. QED
    BY <1>1, <1>2, <1>3, <1>4, <1>5
       DEF EngineNext, engineVars, threadVars, oldVars, GiveUp, PressMute,
           Capture, Decode, PlayReceived

(* AudioEngine.stop clears the buffer and _teardown_connection waits for   *)
(* no receive thread: every thread that outlived its session puts at most  *)
(* one old frame into a session begun on a free engine, for any number of  *)
(* threads and sessions.                                                   *)
THEOREM OldAudioIsCounted == EngineSpec => []OldAudioBounded
  <1>1. EngineInit => OldCounted
    BY FS_EmptySet DEF EngineInit, OldAudioBounded, OldCounted
  <1>2. EngineTypeOK /\ OldCounted /\ [EngineNext]_engineVars => OldCounted'
    BY NextOld, NextOverrun DEF OldCounted
  <1>3. OldCounted => OldAudioBounded
    BY DEF OldCounted
  <1>4. QED
    BY <1>1, <1>2, <1>3, EngineTypeCorrect, PTL DEF EngineSpec
=============================================================================
