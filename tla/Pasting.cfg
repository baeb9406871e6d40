\* Three pastes, so that a paste can meet two countdowns; the keyboard listener
\* (as the GUI cancel button) and the voice detector may cancel.  Two utterances and
\* one more thread, so that two deliveries meet; a queue and a ring of one entry, so
\* that both overflow.
CONSTANTS
    MaxPastes = 3
    Delay = 2
    Keys = {k1}
    Voices = {v1}
    MaxUtterances = 2
    HeldMax = 1
    RingMax = 1
    Pasters = {p1}
SPECIFICATION PastingSpec
INVARIANTS CancelsHitTheirMark EveryTextAccounted
PROPERTIES CountdownEnds TypedAsMeant DeliveryEnds
CHECK_DEADLOCK FALSE
