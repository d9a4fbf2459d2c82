\* Targets from 1 to 3 frames: every value the adaptation distinguishes;
\* a receive thread that outlives its session beside that of the next.
SPECIFICATION EngineFairSpec
CONSTANTS
    MinTarget = 1
    InitialTarget = 2
    MaxTarget = 3
    GrowAfter = 2
    ShrinkAfter = 2
    Wrap = 8
    MaxThreads = 2
INVARIANTS
    EngineTypeOK
    NothingLostInside
    ShownMutedIsSilent
    OldAudioBounded
PROPERTIES
    ResumesFromCushion
    EngineResumes
