----------------------------- MODULE MicPromise -----------------------------
(* What the recorder and its ring promise the dictation they feed, whatever   *)
(* becomes of the device, the recorder's process and the daemon: what         *)
(* MicCapture keeps.                                                          *)
EXTENDS Naturals, Sequences

None == "none"

VARIABLES
    pc,      \* where the event loop is
    goal,    \* what it wants the recorder for
    slot,    \* GLOBAL_RECORDER: the kind of its process, or None
    trial,   \* a recorder process still under its start-up check
    orphans, \* recorder processes of a daemon that was killed
    ring     \* FrameRing.frames: each `deaf' when the loop knew that capture was gated
             \* for a call or by the user, and `cut' when a drain has passed it

\* FrameRing::pop skips what was captured before the last drain: frame k is next.
Pops(k) == k \in DOMAIN ring /\ ~ring[k].cut /\ \A i \in 1..(k - 1) : ring[i].cut

\* The loop takes the frame it waited for.
Hears == pc = "wait" /\ pc' = "heard"

\* Two recorders never hold the microphone at once (invariant I4 of audio.rs):
\* not across a device switch that meets a respawn of the loop, not while a
\* helper is being tried, not with what a killed daemon left behind.
OneRecorder ==
    slot # None \/ trial # None =>
        (IF slot # None THEN 1 ELSE 0) + (IF trial # None THEN 1 ELSE 0) + orphans = 1

\* An utterance never contains what the recorder heard while the loop knew that
\* a call or the user gated capture (I6): the first read after the gate lifts
\* returns no backlog, not even the frames still inside the recorder.
DeafWhileGated ==
    [][Hears /\ goal = "read" => \A k \in DOMAIN ring : Pops(k) => ~ring[k].deaf]_<<pc, goal, ring>>

=============================================================================
