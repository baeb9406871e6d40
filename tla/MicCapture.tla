----------------------------- MODULE MicCapture -----------------------------
(* The macOS recorder of a daemon (audio.rs) and the loop that reads it      *)
(* (event_loop.rs, the read loop of vad.rs, enrollment.rs).                  *)
(*                                                                           *)
(* One recorder process feeds a pipe; a reader thread moves what arrives into *)
(* a ring; the event loop takes frames out of the ring, holding the recorder *)
(* lock while it waits.  The recorder is never stopped while capture is      *)
(* gated: what it heard meanwhile is thrown away instead.  A second thread   *)
(* replaces the recorder when the app reports another input device, and a    *)
(* supervisor spaces out the respawns of one that keeps failing.             *)
EXTENDS MicPromise

CONSTANTS
    Hosts,         \* the Macs and daemons: [aec, sox, gui], see HostTypes
    RingCapacity,  \* RING_CAPACITY_FRAMES
    StuckAfter,    \* MIC_STUCK_AFTER
    ExitAfter      \* MIC_EXIT_AFTER

\* aec: echo cancelling is asked for; sox: SoX is not installed, works, or
\* starts and stays silent; gui: the app started the daemon.
HostTypes == [aec : BOOLEAN, sox : {"absent", "works", "silent"}, gui : BOOLEAN]

ASSUME CaptureAssumption ==
    /\ Hosts \subseteq HostTypes
    /\ RingCapacity \in Nat \ {0}
    /\ StuckAfter \in Nat \ {0} /\ ExitAfter \in Nat \ {0} /\ StuckAfter <= ExitAfter

Kinds == {"vp", "plain", "rec"}   \* the helper with and without echo cancelling, SoX
Gates == {"open", "call", "muted", "media", "idle"}

VARIABLES  \* and those of MicPromise
    host,      \* what this Mac and this daemon are
    faulty,    \* may the input device and the recorder misbehave?
    up,        \* is the daemon running?
    gate,      \* should_gate_capture, and the source that decides it
    wasGated,  \* was_gated of the event loop
    holder,    \* who holds the recorder lock
    switch,    \* the RespawnRecorder command: "none", "asked" or "spawning"
    stage,     \* the recorder the lock holder tries next
    run,       \* that process is "flowing", "wedged" or at "eof"
    pipe,      \* frames captured and not yet read by the reader thread
    reaped,    \* has this daemon reaped them?
    failed,    \* CAPTURE_HELPER_FAILED ("vp") and CAPTURE_PLAIN_FAILED ("plain")
    failures,  \* MicSupervisor.failures, up to ExitAfter
    backoff,   \* is retry_at in the future?
    stuck      \* MicSupervisor.stuck

loopVars == <<wasGated, pc, goal>>
procVars == <<slot, run, pipe, ring>>
supVars  == <<failures, backoff, stuck>>
vars == <<host, faulty, up, gate, wasGated, pc, goal, holder, switch, stage, slot, run,
          pipe, ring, trial, orphans, reaped, failed, failures, backoff, stuck>>

-----------------------------------------------------------------------------
(* The recorder process and the reader thread.                               *)

\* A frame, captured now: `deaf' when the loop knows that capture is gated for
\* a call or by the user; `cut' once a drain has passed it in the pipe.
Frame == [deaf |-> wasGated /\ gate \in {"call", "muted"}, cut |-> FALSE]

Capture ==
    /\ slot # None /\ run = "flowing" /\ pipe = <<>>
    /\ pipe' = <<Frame>>
    /\ UNCHANGED <<host, faulty, up, gate, loopVars, holder, switch, stage, slot, run, ring,
                   trial, orphans, reaped, failed, supVars>>

\* pump_frames and FrameRing::push: past the capacity the oldest frame goes.
Pump ==
    /\ slot # None /\ pipe # <<>>
    /\ ring' = (IF Len(ring) >= RingCapacity THEN Tail(ring) ELSE ring) \o pipe
    /\ pipe' = <<>>
    /\ UNCHANGED <<host, faulty, up, gate, loopVars, holder, switch, stage, slot, run,
                   trial, orphans, reaped, failed, supVars>>

\* The reader closed the ring: nothing will arrive any more.
Closed == run = "eof" /\ pipe = <<>>

\* Nothing is queued that FrameRing::pop would not skip.
NothingQueued == \A k \in DOMAIN ring : ring[k].cut

\* Mutant: only what is queued is discarded, not what is still in the pipe.
DrainedRingOnly(p) == p

\* What a drain makes of the frames still inside the recorder.
Drained(p) == [i \in DOMAIN p |-> [p[i] EXCEPT !.cut = TRUE]]

-----------------------------------------------------------------------------
(* The supervisor.                                                           *)

NoteFailure ==
    /\ failures' = IF failures < ExitAfter THEN failures + 1 ELSE failures
    /\ backoff' = TRUE
    /\ stuck' = (stuck \/ failures + 1 >= StuckAfter)

NoteAudio ==
    IF failures = 0 THEN UNCHANGED supVars
    ELSE failures' = 0 /\ backoff' = FALSE /\ stuck' = FALSE

ShouldExit == failures >= ExitAfter /\ host.gui

\* Dropping a RecChild kills and reaps its process; its ring goes with it.
Dropped == slot' = None /\ run' = "flowing" /\ pipe' = <<>> /\ ring' = <<>>

\* The daemon's process ends and its memory with it.
Dies ==
    /\ up' = FALSE /\ pc' = "dead"
    /\ wasGated' = FALSE /\ goal' = "read"
    /\ holder' = None /\ switch' = None /\ stage' = None
    /\ trial' = None /\ reaped' = FALSE /\ failed' = {}
    /\ failures' = 0 /\ backoff' = FALSE /\ stuck' = FALSE

-----------------------------------------------------------------------------
Init ==
    /\ host \in Hosts
    /\ faulty = TRUE /\ up = TRUE /\ gate = "open"
    /\ wasGated = FALSE /\ pc = "top" /\ goal = "read"
    /\ holder = None /\ switch = None /\ stage = None
    /\ slot = None /\ run = "flowing" /\ pipe = <<>> /\ ring = <<>>
    /\ trial = None /\ orphans = 0 /\ reaped = FALSE /\ failed = {}
    /\ failures = 0 /\ backoff = FALSE /\ stuck = FALSE

-----------------------------------------------------------------------------
(* The event loop, between utterances.                                       *)

\* A recording for "My Voice" is pending: it runs whatever gates dictation.
TopEnroll ==
    /\ pc = "top" /\ up
    /\ pc' = "get" /\ goal' = "enroll"
    /\ UNCHANGED <<host, faulty, up, gate, wasGated, holder, switch, stage, procVars, trial,
                   orphans, reaped, failed, supVars>>

\* Capture is gated: probe for a voice if idle or media gates it, else drain.
TopGated ==
    /\ pc = "top" /\ up /\ gate # "open"
    /\ wasGated' = TRUE
    /\ pc' = "get"
    /\ goal' = IF gate = "idle" THEN "pollIdle" ELSE IF gate = "media" THEN "pollMedia" ELSE "drain"
    /\ UNCHANGED <<host, faulty, up, gate, holder, switch, stage, procVars, trial,
                   orphans, reaped, failed, supVars>>

\* Capture is open: drop what was heard while it was not, then listen.
TopOpen ==
    /\ pc = "top" /\ up /\ gate = "open"
    /\ wasGated' = FALSE
    /\ pc' = "get"
    /\ goal' = IF wasGated THEN "resume" ELSE "read"
    /\ UNCHANGED <<host, faulty, up, gate, holder, switch, stage, procVars, trial,
                   orphans, reaped, failed, supVars>>

\* Where the loop goes with the recorder it wanted, and where without one.
AfterGet(g) == IF g \in {"read", "wake"} THEN "read" ELSE "have"
AfterErr(g) == CASE g \in {"pollIdle", "pollMedia"} -> <<"get", "drain">>
                 [] g = "resume" -> <<"get", "read">>
                 [] OTHER -> <<"top", "read">>

\* The recorder is there: throw away what it has heard.
Drain ==
    /\ pc = "have" /\ goal \in {"drain", "resume", "enroll"} /\ holder = None
    /\ ring' = <<>>
    /\ pipe' = Drained(pipe)
    /\ \/ goal = "drain"  /\ pc' = "top"  /\ goal' = "read"
       \/ goal = "resume" /\ pc' = "get"  /\ goal' = "read"
       \/ goal = "enroll" /\ pc' = "read" /\ goal' = "enroll"
    /\ UNCHANGED <<host, faulty, up, gate, wasGated, holder, switch, stage, slot, run, trial,
                   orphans, reaped, failed, supVars>>

\* poll_speech_energy peeks at the newest queued frame.
Probe ==
    /\ pc = "have" /\ goal \in {"pollIdle", "pollMedia"} /\ holder = None
    /\ \/ pc' = "get" /\ goal' = "drain" /\ UNCHANGED gate
       \/ /\ ring # <<>> /\ goal = "pollIdle"
          /\ gate' = IF gate = "idle" THEN "open" ELSE gate
          /\ pc' = "top" /\ goal' = "read"
       \/ /\ ring # <<>> /\ goal = "pollMedia"
          /\ pc' = "get" /\ goal' = "wake" /\ UNCHANGED gate
    /\ UNCHANGED <<host, faulty, up, wasGated, holder, switch, stage, procVars, trial,
                   orphans, reaped, failed, supVars>>

-----------------------------------------------------------------------------
(* get_or_spawn and force_respawn.                                           *)

\* The recorder the lock holder's RecChild::spawn tries first.
FirstStage(f) == IF host.aec /\ "vp" \notin f THEN "vp" ELSE "plain"

\* RecChild::is_healthy, and not older than the daily recycle.
Healthy == slot # None /\ ~Closed

\* The loop finds a recorder it can use.
GetHealthy ==
    /\ pc = "get" /\ holder = None /\ Healthy
    /\ pc' = AfterGet(goal)
    /\ UNCHANGED <<host, faulty, up, gate, wasGated, goal, holder, switch, stage, procVars,
                   trial, orphans, reaped, failed, supVars>>

\* No recorder, a dead one, or one that is recycled (overruns, its age): drop
\* it before anything else; then give up the daemon, wait, or spawn.
GetReplace ==
    /\ pc = "get" /\ holder = None
    /\ ~Healthy \/ faulty
    /\ Dropped
    /\ \/ ShouldExit /\ Dies /\ UNCHANGED orphans
       \/ /\ ~ShouldExit
          /\ IF backoff THEN UNCHANGED <<pc, holder, stage>>
             ELSE pc' = "spawn" /\ holder' = "loop" /\ stage' = "reap"
          /\ UNCHANGED <<up, wasGated, goal, switch, trial, orphans, reaped, failed, supVars>>
    /\ UNCHANGED <<host, faulty, gate>>

\* Mutant: the recorder is replaced without dropping the old one first.
SwitchStartKeepsOld ==
    /\ switch = "asked" /\ holder = None /\ up
    /\ switch' = "spawning" /\ holder' = "uds" /\ stage' = "reap"
    /\ failed' = {} /\ backoff' = FALSE
    /\ UNCHANGED <<host, faulty, up, gate, loopVars, procVars, trial, orphans, reaped,
                   failures, stuck>>

\* RespawnRecorder takes the lock and forgets the failures ...
SwitchStart ==
    /\ switch = "asked" /\ holder = None /\ up
    /\ switch' = "spawning" /\ holder' = "uds" /\ stage' = "reap"
    /\ failed' = {} /\ backoff' = FALSE
    /\ Dropped
    /\ UNCHANGED <<host, faulty, up, gate, loopVars, trial, orphans, reaped, failures, stuck>>

\* The first spawn of a daemon kills what a killed one left behind.
SpawnReap ==
    /\ stage = "reap"
    /\ reaped' = TRUE
    /\ orphans' = IF reaped THEN orphans ELSE 0
    /\ stage' = FirstStage(failed)
    /\ UNCHANGED <<host, faulty, up, gate, loopVars, holder, switch, procVars, trial, failed,
                   supVars>>

\* The capture helper is started and has a few seconds to deliver ...
SpawnHelper ==
    /\ stage \in {"vp", "plain"} /\ trial = None
    /\ IF stage \in failed
       THEN stage' = "rec" /\ UNCHANGED trial
       ELSE trial' = stage /\ UNCHANGED stage
    /\ UNCHANGED <<host, faulty, up, gate, loopVars, holder, switch, procVars, orphans, reaped,
                   failed, supVars>>

\* ... and is killed, and remembered for a while, when it does not.
HelperFails ==
    /\ trial # None /\ faulty
    /\ trial' = None
    /\ failed' = failed \cup {trial}
    /\ stage' = IF trial = "vp" THEN "plain" ELSE "rec"
    /\ UNCHANGED <<host, faulty, up, gate, loopVars, holder, switch, procVars, orphans, reaped,
                   supVars>>

\* The new recorder is installed and the lock released.
Install(kind, state) ==
    /\ slot' = kind /\ run' = state /\ pipe' = <<>> /\ ring' = <<>>
    /\ stage' = None /\ holder' = None
    /\ IF holder = "loop" THEN pc' = AfterGet(goal) /\ UNCHANGED switch
                          ELSE switch' = None /\ UNCHANGED pc
    /\ UNCHANGED <<host, faulty, up, gate, wasGated, goal, orphans, reaped, failed, supVars>>

HelperStarts == trial # None /\ Install(trial, "flowing") /\ trial' = None

\* SoX has no start-up check: it may never deliver anything.
SpawnRec ==
    /\ stage = "rec" /\ host.sox # "absent"
    /\ \E state \in {"flowing", "wedged", "eof"} :
         /\ state = "flowing" => host.sox = "works"
         /\ state # "flowing" => faulty \/ host.sox = "silent"
         /\ Install("rec", state)
    /\ UNCHANGED trial

\* What a spawn that found no recorder at all forgets: plain mode is re-armed.
Rearmed(f) == f \ {"plain"}

\* No recorder could be started.  The supervisor counts the loop's failure;
\* the device switch only logs its own.
SpawnFails ==
    /\ stage = "rec" /\ host.sox = "absent"
    /\ failed' = Rearmed(failed)
    /\ stage' = None /\ holder' = None
    /\ \/ /\ holder = "loop" /\ NoteFailure
          /\ pc' = AfterErr(goal)[1] /\ goal' = AfterErr(goal)[2]
          /\ UNCHANGED switch
       \/ /\ holder = "uds" /\ switch' = None
          /\ UNCHANGED <<pc, goal, supVars>>
    /\ UNCHANGED <<host, faulty, up, gate, wasGated, procVars, trial, orphans, reaped>>

Spawning == SpawnReap \/ SpawnHelper \/ HelperFails \/ HelperStarts \/ SpawnRec \/ SpawnFails

-----------------------------------------------------------------------------
(* Reading frames: an utterance, a wake-on-voice one, or an enrolment.       *)

\* The reading ends: silence, a time limit, enough voice for an enrolment, or
\* another application that took the microphone.
ReadEnds ==
    /\ pc = "heard" \/ (pc = "read" /\ gate = "call" /\ goal # "enroll")
    /\ pc' = "top" /\ goal' = "read"
    /\ UNCHANGED <<host, faulty, up, gate, wasGated, holder, switch, stage, procVars, trial,
                   orphans, reaped, failed, supVars>>

\* The next frame is waited for with the recorder lock held; a device switch
\* that found no recorder has left the slot empty.
ReadStart ==
    /\ pc \in {"read", "heard"} /\ holder = None
    /\ ~(goal # "enroll" /\ gate = "call")
    /\ IF slot = None THEN pc' = "top" /\ goal' = "read" /\ UNCHANGED holder
                      ELSE pc' = "wait" /\ holder' = "loop" /\ UNCHANGED goal
    /\ UNCHANGED <<host, faulty, up, gate, wasGated, switch, stage, procVars, trial,
                   orphans, reaped, failed, supVars>>

\* A frame arrives.
ReadFrame ==
    /\ pc = "wait"
    /\ \E k \in DOMAIN ring : Pops(k) /\ ring' = SubSeq(ring, k + 1, Len(ring))
    /\ NoteAudio
    /\ pc' = "heard" /\ holder' = None
    /\ UNCHANGED <<host, faulty, up, gate, wasGated, goal, switch, stage, slot, run, pipe,
                   trial, orphans, reaped, failed>>

\* The recorder died; the lock is released, and taken again to evict it.
ReadEof ==
    /\ pc = "wait" /\ NothingQueued /\ Closed
    /\ NoteFailure
    /\ pc' = "evict" /\ holder' = None
    /\ UNCHANGED <<host, faulty, up, gate, wasGated, goal, switch, stage, procVars, trial,
                   orphans, reaped, failed>>

Evict ==
    /\ pc = "evict" /\ holder = None
    /\ Dropped
    /\ pc' = "top" /\ goal' = "read"
    /\ UNCHANGED <<host, faulty, up, gate, wasGated, holder, switch, stage, trial, orphans,
                   reaped, failed, supVars>>

\* Mutant: a wedged recorder is left in the slot.
TimeoutKeepsRecorder == UNCHANGED procVars

\* What happens to a recorder that is alive and delivers nothing.
TimeoutEvicts == Dropped

\* READ_FRAME_TIMEOUT_MS without a frame.
ReadTimeout ==
    /\ pc = "wait" /\ NothingQueued /\ pipe = <<>> /\ run = "wedged"
    /\ NoteFailure
    /\ TimeoutEvicts
    /\ pc' = "top" /\ goal' = "read" /\ holder' = None
    /\ UNCHANGED <<host, faulty, up, gate, wasGated, switch, stage, trial, orphans, reaped,
                   failed>>

-----------------------------------------------------------------------------
(* Time, the user, the device and the daemon's death.                        *)

BackoffElapses ==
    /\ backoff /\ backoff' = FALSE
    /\ UNCHANGED <<host, faulty, up, gate, loopVars, holder, switch, stage, procVars, trial,
                   orphans, reaped, failed, failures, stuck>>

\* CAPTURE_FAILURE_TTL.
FailureForgotten(kind) ==
    /\ kind \in failed /\ failed' = failed \ {kind}
    /\ UNCHANGED <<host, faulty, up, gate, loopVars, holder, switch, stage, procVars, trial,
                   orphans, reaped, supVars>>

GateChanges ==
    /\ gate' \in Gates \ {gate}
    /\ UNCHANGED <<host, faulty, up, loopVars, holder, switch, stage, procVars, trial,
                   orphans, reaped, failed, supVars>>

\* The running recorder stops delivering, or dies.
RecorderFails ==
    /\ faulty /\ slot # None /\ run = "flowing"
    /\ run' \in {"wedged", "eof"}
    /\ UNCHANGED <<host, faulty, up, gate, loopVars, holder, switch, stage, slot, pipe, ring,
                   trial, orphans, reaped, failed, supVars>>

\* The app reports another default input device.
DeviceSwitched ==
    /\ faulty /\ up /\ switch = None
    /\ switch' = "asked"
    /\ UNCHANGED <<host, faulty, up, gate, loopVars, holder, stage, procVars, trial,
                   orphans, reaped, failed, supVars>>

Heal ==
    /\ faulty' = ~faulty
    /\ UNCHANGED <<host, up, gate, loopVars, holder, switch, stage, procVars, trial,
                   orphans, reaped, failed, supVars>>

\* SIGKILL: no Drop runs and the recorder is orphaned.
Killed ==
    /\ faulty /\ up /\ host.gui
    /\ orphans' = IF slot # None \/ trial # None THEN 1 ELSE orphans
    /\ Dropped /\ Dies
    /\ UNCHANGED <<host, faulty, gate>>

\* The app starts a fresh daemon.
Respawned ==
    /\ ~up /\ up' = TRUE /\ pc' = "top"
    /\ UNCHANGED <<host, faulty, gate, wasGated, goal, holder, switch, stage, procVars, trial,
                   orphans, reaped, failed, supVars>>

\* A recorder whose daemon is gone writes into a closed pipe and dies of it.
OrphanDies ==
    /\ orphans > 0 /\ orphans' = 0
    /\ UNCHANGED <<host, faulty, up, gate, loopVars, holder, switch, stage, procVars, trial,
                   reaped, failed, supVars>>

Top     == TopEnroll \/ TopGated \/ TopOpen
Having  == Drain \/ Probe
Getting == GetHealthy \/ GetReplace
Reading == ReadEnds \/ ReadStart \/ ReadFrame \/ ReadEof \/ Evict \/ ReadTimeout
LoopStep == Top \/ Having \/ Getting \/ Reading

Next ==
    \/ Top \/ Having \/ Getting \/ Reading
    \/ Spawning \/ SwitchStart
    \/ Capture \/ Pump
    \/ BackoffElapses \/ \E kind \in Kinds : FailureForgotten(kind)
    \/ GateChanges \/ RecorderFails \/ DeviceSwitched \/ Heal
    \/ Killed \/ Respawned \/ OrphanDies

Spec == Init /\ [][Next]_vars

\* The event loop and the spawns go on, a working recorder delivers, timers
\* elapse, and the app restarts its daemon.
Fairness ==
    /\ WF_vars(LoopStep) /\ WF_vars(Spawning)
    /\ WF_vars(Capture) /\ WF_vars(Pump)
    /\ WF_vars(BackoffElapses) /\ \A kind \in Kinds : WF_vars(FailureForgotten(kind))
    /\ WF_vars(Respawned)

FairSpec == Spec /\ Fairness

-----------------------------------------------------------------------------
Frames == [deaf : BOOLEAN, cut : BOOLEAN]

TypeOK ==
    /\ host \in HostTypes
    /\ faulty \in BOOLEAN /\ up \in BOOLEAN /\ gate \in Gates /\ wasGated \in BOOLEAN
    /\ pc \in {"top", "get", "spawn", "have", "read", "heard", "wait", "evict", "dead"}
    /\ goal \in {"read", "wake", "enroll", "drain", "resume", "pollIdle", "pollMedia"}
    /\ holder \in {None, "loop", "uds"} /\ switch \in {None, "asked", "spawning"}
    /\ stage \in {None, "reap"} \cup Kinds
    /\ slot \in {None} \cup Kinds /\ run \in {"flowing", "wedged", "eof"}
    /\ pipe \in Seq(Frames) /\ Len(pipe) <= 1 /\ ring \in Seq(Frames) /\ Len(ring) <= RingCapacity
    /\ trial \in {None} \cup Kinds /\ orphans \in 0..1 /\ reaped \in BOOLEAN
    /\ failed \subseteq Kinds /\ failures \in 0..ExitAfter
    /\ backoff \in BOOLEAN /\ stuck \in BOOLEAN

\* Once the device works and nothing gates capture, dictation gets a recorder
\* that delivers and the "microphone unavailable" report is taken back for
\* good, whatever failed before: helpers given up on, a silent SoX, a wedged
\* recorder, a daemon that gave up.
MicComesBack ==
    <>[](~faulty /\ gate = "open") => []<>(slot # None /\ run = "flowing") /\ <>[]~stuck
=============================================================================
