\* A ring of one frame beside one in the pipe; two failures in a row are reported, three
\* end the daemon.
CONSTANTS
    Hosts <- MCHosts
    RingCapacity = 1
    StuckAfter = 2
    ExitAfter = 3
SPECIFICATION FairSpec
INVARIANTS OneRecorder
PROPERTIES  MicComesBack
