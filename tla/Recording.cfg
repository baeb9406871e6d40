\* One utterance of up to six frames on each engine and each state of the gate.
SPECIFICATION Spec
CONSTANTS
    MaxFrames = 6
    MinSpeech = 2
    PreBuffer = 1
    Tentative = 1
    FinalCuts = {2, 3}
    ChunkTarget = 3
    HardMax = 4
    Window = 1
    MinRun = 1
    MinEmbed = 1
    Early = 2
    TailChecks = 1
    RejectStreak = 2
    Backends = {"apple", "groq"}
    Gates = {"off", "on", "down"}
    Verdicts = {"own", "weak", "none", "foreign"}
INVARIANTS  UnverifiedIsNeverTranscribed
CHECK_DEADLOCK FALSE
