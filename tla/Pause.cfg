\* Every control in every order, none overlapping; and the user's controls against the
\* microphone watcher with their steps interleaved in every way (SmallOverlaps).
CONSTANTS
    Apps = {a1}
    Own = own
    NoApp = noApp
    PausedWithoutApp = FALSE
    Workers = {w1}
    Watchers = {"mic", "idle", "orphan", "loop"}
    Commands = {"resume", "toggle", "chord", "setPaused", "focus", "setApp", "audio", "setup", "connect"}
    MaxInFlight = 2
    ResumeFreePolls = 2
SPECIFICATION FairSpec
ACTION_CONSTRAINT SmallOverlaps
INVARIANTS EffectiveIsDerived 
PROPERTIES  MicPauseEnds
