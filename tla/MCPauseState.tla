---------------------------- MODULE MCPauseState ----------------------------
(* PauseState with small sets of apps and threads, and what the repository   *)
(* says of the pause state that overlapping controls do not keep.            *)
EXTENDS PauseState

\* The instance: every control runs in every order while none overlaps another.
\* Overlaps are explored where only a user's control and the microphone watcher
\* run: no app, no GUI and no other watchdog's pause is in play.
SmallOverlaps ==
    IF calm'
    THEN \A t \in Threads : cmd'[t] # "setup"
    ELSE /\ app' = NoApp /\ ~connected'
         /\ flags' \cap {"noGui", "idle"} = {}
         /\ \A t \in Threads : cmd'[t] \notin {"connect", "focus", "idlePause", "orphan"}

\* pause.rs: "MASTER_PAUSED ... When true, EFFECTIVE is forced to true
\* regardless of per-app overrides", once the control that set it has ended.
\* The code does not keep this when two controls overlap.
MasterForcesEffective == Quiescent /\ "master" \in flags => effective

=============================================================================
