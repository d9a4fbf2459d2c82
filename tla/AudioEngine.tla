----------------------------- MODULE AudioEngine -----------------------------
(***************************************************************************)
(* The audio engine around the jitter buffer (AudioEngine in               *)
(* torcall/core/audio_engine.py), the receive thread that plays into it,   *)
(* and the mute switch on its way from the in-call view to the sound       *)
(* card's callback (torcall/ui/call_widget.py).                            *)
(*                                                                         *)
(* A session starts the stream and shows the view; its end stops the       *)
(* stream, and hides the view unless the call is to be re-dialled.  The    *)
(* callback reads the switch, later posts what it captured and pops a      *)
(* frame; stream.stop() waits for a callback in progress.                  *)
(*                                                                         *)
(* Nobody waits for a receive thread: it may play the frame in its hand    *)
(* after the end of its session, and goes on reading for the next one if   *)
(* that has begun by then.  A session may also begin on top of another,    *)
(* when a dial left over is answered in a call (CallManager.tla): then the *)
(* engine runs on, and the threads of both read the new session's packets. *)
(***************************************************************************)
EXTENDS JitterBuffer, FiniteSets, SequencesExt

CONSTANT MaxThreads   \* bound: receive threads at a time

ASSUME ThreadsAssumption == MaxThreads \in Nat \ {0}

VARIABLES
    device,    \* the sound stream: none, created, or started
    started,   \* _running
    muted,     \* _muted, what the callback looks at
    viewUp,    \* the in-call view is shown
    shown,     \* the mute button is checked
    callback,  \* the sound card's callback: idle, or what it captured
    early,     \* history: that was captured before Mute was pressed
    reading,   \* receive threads of the session that wait for a packet
    holding,   \* those that hold a frame of it
    late,      \* those that hold a frame of an earlier session
    old,       \* history: buffered frames of an earlier session
    behind,    \* history: late threads when the last session ended
    overrun    \* history: the session began on top of another

engineVars == <<vars, device, started, muted, viewUp, shown, callback, early,
                reading, holding, late, old, behind, overrun>>
streamVars == <<device, started>>
viewVars   == <<muted, viewUp, shown>>
threadVars == <<reading, holding, late>>
oldVars    == <<old, behind, overrun>>

EngineTypeOK ==
    /\ TypeOK
    /\ device \in {"none", "created", "started"} /\ started \in BOOLEAN
    /\ muted \in BOOLEAN /\ viewUp \in BOOLEAN /\ shown \in BOOLEAN
    /\ callback \in {"idle", "voice", "silence"} /\ early \in BOOLEAN
    /\ reading \in Nat /\ holding \in Nat /\ late \in Nat
    /\ reading + holding + late <= MaxThreads
    /\ old \subseteq Frame /\ behind \in Nat /\ overrun \in BOOLEAN

EngineInit ==
    /\ Init
    /\ device = "none" /\ started = FALSE
    /\ muted = FALSE /\ viewUp = FALSE /\ shown = FALSE
    /\ callback = "idle" /\ early = FALSE
    /\ reading = 0 /\ holding = 0 /\ late = 0
    /\ old = {} /\ behind = 0 /\ overrun = FALSE

Buffered  == ToSet(buffer)
InSession == reading + holding > 0

-----------------------------------------------------------------------------
(* start.  A stream that cannot be created or started is logged, and the   *)
(* session goes on without sound.                                          *)
Start ==
    \/ started /\ UNCHANGED streamVars
    \/ ~started /\ device' = "started" /\ started' = TRUE
    \/ ~started /\ device' \in {device, "created"} /\ UNCHANGED started

(* stop.  An exception of stream.stop() skips close(); the stream that is  *)
(* dropped then is taken to call back no more.                             *)
StopUncleared ==
    /\ callback = "idle"
    /\ device' = "none" /\ started' = FALSE
    /\ UNCHANGED vars

Stop ==
    /\ callback = "idle"
    /\ device' = "none" /\ started' = FALSE
    /\ Clear

(* _start_call_session, on a free engine or, when an old dial is answered  *)
(* too, on a running one, whose buffer is not cleared.                     *)
(* CallWidget.start_call shows an unmuted button without telling the       *)
(* engine.                                                                 *)
StartSession ==
    /\ reading + holding + late < MaxThreads
    /\ Start
    /\ reading' = reading + 1 /\ holding' = 0 /\ late' = late + holding
    /\ old' = IF InSession THEN Buffered ELSE old
    /\ overrun' = InSession
    /\ viewUp' = TRUE /\ shown' = FALSE
    /\ UNCHANGED <<vars, muted, callback, early, behind>>

(* _teardown_connection, and CallWidget.end_call if the call is over.  The *)
(* threads that wait for a packet end with the socket.                     *)
EndSession ==
    /\ InSession
    /\ Stop
    /\ reading' = 0 /\ holding' = 0 /\ late' = late + holding
    /\ old' = ToSet(buffer') /\ behind' = late' /\ overrun' = FALSE
    /\ \/ viewUp' = FALSE /\ shown' = FALSE
       \/ UNCHANGED <<viewUp, shown>>
    /\ UNCHANGED <<muted, callback, early>>

(* The call that was to be re-dialled is given up. *)
GiveUp ==
    /\ viewUp /\ ~InSession
    /\ viewUp' = FALSE /\ shown' = FALSE
    /\ UNCHANGED <<vars, streamVars, muted, callback, early, threadVars, oldVars>>

(* The mute button, through mute_toggled to AudioEngine.set_muted. *)
PressMuteTogglesBoth ==
    /\ viewUp
    /\ shown' = ~shown /\ muted' = ~muted
    /\ early' = (callback = "voice")
    /\ UNCHANGED <<vars, streamVars, viewUp, callback, threadVars, oldVars>>

PressMute ==
    /\ viewUp
    /\ shown' = ~shown /\ muted' = shown'
    /\ early' = (callback = "voice")
    /\ UNCHANGED <<vars, streamVars, viewUp, callback, threadVars, oldVars>>

-----------------------------------------------------------------------------
(* _audio_callback up to the switch, *)
Capture ==
    /\ device = "started" /\ callback = "idle"
    /\ callback' = IF muted THEN "silence" ELSE "voice"
    /\ early' = FALSE
    /\ UNCHANGED <<vars, streamVars, viewVars, threadVars, oldVars>>

(* and its end: the captured frame is posted and one is popped to play. *)
Play ==
    /\ callback # "idle"
    /\ callback' = "idle" /\ early' = FALSE
    /\ Pop
    /\ old' = old \cap ToSet(buffer')
    /\ UNCHANGED <<streamVars, viewVars, threadVars, behind, overrun>>

(* _handle_audio_packet: a frame is decoded, then pushed; a full buffer    *)
(* refuses it.                                                             *)
Decode ==
    /\ reading > 0 /\ reading' = reading - 1 /\ holding' = holding + 1
    /\ UNCHANGED <<vars, streamVars, viewVars, callback, early, late, oldVars>>

PushOrRefuse == Push \/ (Len(buffer) = Capacity /\ UNCHANGED vars)

PlayReceived ==
    /\ holding > 0 /\ holding' = holding - 1 /\ reading' = reading + 1
    /\ PushOrRefuse
    /\ UNCHANGED <<streamVars, viewVars, callback, early, late, oldVars>>

(* The same by a thread of an earlier session: the frame lands in an empty *)
(* buffer, or among the frames of the session under way, unless its key    *)
(* was wiped before it was decrypted; then the loop goes on, or ends.      *)
PlayLate ==
    /\ late > 0 /\ late' = late - 1
    /\ reading' = IF InSession THEN reading + 1 ELSE reading
    /\ PushOrRefuse \/ UNCHANGED vars
    /\ old' = old \cup (ToSet(buffer') \ Buffered)
    /\ UNCHANGED <<streamVars, viewVars, callback, early, holding, behind, overrun>>

EngineNext ==
    \/ StartSession \/ EndSession \/ GiveUp \/ PressMute
    \/ Capture \/ Play \/ Decode \/ PlayReceived \/ PlayLate

EngineSpec == EngineInit /\ [][EngineNext]_engineVars

(* The sound card keeps calling back, and the peer keeps sending. *)
EngineFairSpec ==
    /\ EngineSpec
    /\ WF_engineVars(Capture) /\ WF_engineVars(Play)
    /\ WF_engineVars(Decode) /\ WF_engineVars(PlayReceived)

-----------------------------------------------------------------------------
(* A button that shows muted is never a lie: the engine is muted, and but  *)
(* for a frame captured before the press only silence leaves.  (The other  *)
(* way round the button may lie: see the README.)                          *)
ShownMutedIsSilent ==
    shown => muted /\ (callback = "voice" => early)

(* A session that begins on a free engine plays at most one frame of an    *)
(* earlier one for each receive thread that was still holding one when     *)
(* that ended, however these threads run on: the end leaves no frame in    *)
(* the buffer.  (One that begins over another plays all that is there.)    *)
OldAudioBounded == ~overrun => Cardinality(old) + late <= behind

(* Sound comes back: if the stream stays open, every wait for a cushion    *)
(* ends, however far the target grew in this session or an earlier one.    *)
EngineResumes ==
    <>[](device = "started") => [](prebuffering => <>playing)
=============================================================================
