\* Two unforeseen events let a start race a start, a kill or a command; a third
\* daemon is the one that has to come back.
CONSTANTS
    MaxStarts = 3
    MaxFaults = 2
SPECIFICATION Spec
INVARIANTS OneDaemon
PROPERTIES  AppComesBack
CHECK_DEADLOCK FALSE
