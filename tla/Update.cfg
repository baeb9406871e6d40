\* Two requests meet in one directory, one installer outlives the daemon that started
\* it, and an event of the app's stream is in doubt while two more wait.
CONSTANTS
    MaxRequests = 2
    MaxFaults = 2
    MaxInstallers = 2
    MaxLink = 3
SPECIFICATION Spec
 
PROPERTIES AppKeepsDaemon 
CHECK_DEADLOCK FALSE
