\* Three starts: one of the daemons comes back next to the other.
CONSTANTS
    MaxStarts = 3
    MaxLeases = 2
    MaxOnWire = 2
    MaxPresses = 2
SPECIFICATION FairSpec
INVARIANTS OneMicrophone
PROPERTIES ReleaseSparesManual 
CHECK_DEADLOCK FALSE
