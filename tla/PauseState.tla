----------------------------- MODULE PauseState -----------------------------
(* The daemon's pause state (pause.rs) and everything that changes it: the   *)
(* user's controls (pause_commands.rs, the UDS commands, the two chords) and *)
(* the watchdogs (mic_watcher.rs, idle_watcher.rs, the orphan watchdog of    *)
(* uds_server.rs, the capture loop's wake-on-voice).                         *)
(*                                                                           *)
(* Every flag is a static atomic.  A control decides what to do from what it *)
(* reads (its `Begin'), performs its stores one by one, recomputes EFFECTIVE *)
(* by loading the flags one after the other and swapping the result in, and  *)
(* then broadcasts.  No lock spans these steps: two controls interleave.     *)
EXTENDS Naturals, FiniteSets, Sequences

CONSTANTS
    Apps,              \* bundle ids that may be put on the allowlist
    Own,               \* Always's own bundle id
    NoApp,             \* no focused app reported yet
    PausedWithoutApp,  \* TRUE on macOS, FALSE where no focus events exist
    Workers,           \* threads that run user controls (UDS tasks, hotkeys)
    Watchers,          \* the watchdogs that are running
    Commands,          \* the user controls this instance exercises
    MaxInFlight,       \* how many controls may overlap (1: one at a time)
    ResumeFreePolls    \* RESUME_FREE_POLLS of mic_watcher.rs

Sources == {"master", "audio", "mic", "noGui", "idle"}
Flags   == Sources \cup {"setup"}
Threads == Workers \cup Watchers

ASSUME PauseAssumption ==
    /\ Own \notin Apps /\ NoApp \notin Apps /\ Own # NoApp
    /\ PausedWithoutApp \in BOOLEAN
    /\ Watchers \subseteq {"mic", "idle", "orphan", "loop"}
    /\ Workers \cap {"mic", "idle", "orphan", "loop"} = {}
    /\ MaxInFlight \in Nat \ {0}
    /\ ResumeFreePolls \in Nat \ {0}

VARIABLES
    flags,      \* the flags that are set (MASTER_PAUSED, ..., SETUP_MODE)
    app,        \* CURRENT_APP
    allowed,    \* the apps whose stored override is `paused: false'
    effective,  \* EFFECTIVE_PAUSED
    connected,  \* CONNECTED_CLIENTS > 0 (one GUI)
    shown,      \* the pause state the GUI was last told, "none" before any
    micPaused, freePolls,   \* MicConflictState
    micTaken,   \* does another application hold the microphone?
    pc,         \* where each thread is in its control
    cmd,        \* which control it runs
    todo,       \* the stores and recomputes it has left
    at,         \* the next flag its recompute loads
    val,        \* EFFECTIVE as it read or computed it
    flip,       \* did its last recompute change EFFECTIVE?
    solo,       \* history: the running control overlapped no other
    fresh,      \* history: EFFECTIVE comes from such a control
    calm        \* history: no two controls have overlapped yet

threadVars == <<pc, cmd, todo, at, val, flip>>
micVars    == <<micPaused, freePolls>>
vars == <<flags, app, allowed, effective, connected, shown, micPaused,
          freePolls, micTaken, pc, cmd, todo, at, val, flip, solo, fresh, calm>>

-----------------------------------------------------------------------------
(* What a control does, step by step.                                        *)

On(f)    == [do |-> "on",    arg |-> f]
Off(f)   == [do |-> "off",   arg |-> f]
Focus(a) == [do |-> "focus", arg |-> a]
List(a)  == [do |-> "list",  arg |-> a]
Delist(a) == [do |-> "delist", arg |-> a]
Recompute == [do |-> "recompute", arg |-> "effective"]

Steps == {On(f) : f \in Flags} \cup {Off(f) : f \in Flags}
           \cup {Focus(a) : a \in Apps \cup {Own, NoApp}}
           \cup {List(a) : a \in Apps} \cup {Delist(a) : a \in Apps}
           \cup {Recompute}

\* Mutant: setup mode is looked at before the watchdogs' sources.
SetupBeforeWatchdogs == <<"master", "audio", "setup", "mic", "noGui", "idle">>

\* The order in which compute_effective loads the flags.
LoadOrder == <<"master", "audio", "mic", "noGui", "idle", "setup">>

\* per_app::effective_paused_for_current_app.
PausedHere(a, list) == IF a = NoApp THEN PausedWithoutApp ELSE a \notin list

\* compute_effective, evaluated on one consistent state.
Derived == \/ flags \cap Sources # {}
           \/ "setup" \notin flags /\ PausedHere(app, allowed)

AnyGlobalPause == flags \cap {"master", "audio", "mic"} # {}
\* Mutant: the toggle does not count an idle pause as one it may lift.
ResumableWithoutIdle == AnyGlobalPause
UserResumable  == AnyGlobalPause \/ "idle" \in flags
StartupDefault == effective /\ ~Derived

\* clear_overridable_sources: the toggle and Resume clear everything at once,
\* the per-app chord keeps master and recomputes after each watchdog source.
ClearAll        == <<Off("idle"), Off("master"), Off("audio"), Off("mic"), Recompute>>
ClearKeepMaster == <<Off("idle"), Off("audio"), Recompute, Off("mic"), Recompute>>

Controls == {"resume", "toggle", "chord", "setPaused", "focus", "setApp", "audioPlay",
             "audioStop", "audioStopIdle", "audioGated", "setup", "connect",
             "micPause", "micResume", "idlePause", "idleWake", "orphan"}

\* Mutant: a focus change recomputes without telling the GUI.
HeardNoFocus(c, v, ch) ==
    CASE c \in {"resume", "toggle", "chord"}           -> IF v THEN "paused" ELSE "resumed"
      [] c \in {"setPaused", "setApp", "audioStop", "micResume"}
                                    -> IF ~ch THEN "silent" ELSE IF v THEN "paused" ELSE "resumed"
      [] c \in {"audioPlay", "micPause", "idlePause"} -> IF ch THEN "paused" ELSE "silent"
      [] c \in {"audioGated", "idleWake"}             -> IF ch /\ ~v THEN "resumed" ELSE "silent"
      [] OTHER                                        -> "silent"

\* What the GUI hears when control c ends with EFFECTIVE = v, changed = ch.
Heard(c, v, ch) ==
    CASE c \in {"resume", "toggle", "chord"}         -> IF v THEN "paused" ELSE "resumed"
      [] c \in {"setPaused", "focus", "setApp", "audioStop", "micResume"}
                                    -> IF ~ch THEN "silent" ELSE IF v THEN "paused" ELSE "resumed"
      [] c \in {"audioPlay", "micPause", "idlePause"} -> IF ch THEN "paused" ELSE "silent"
      [] c \in {"audioGated", "idleWake"}             -> IF ch /\ ~v THEN "resumed" ELSE "silent"
      [] OTHER                                        -> "silent"

-----------------------------------------------------------------------------
Init ==
    /\ flags = {} /\ app = NoApp /\ allowed \in SUBSET Apps
    /\ effective = TRUE
    /\ connected = FALSE /\ shown = "none"
    /\ micPaused = FALSE /\ freePolls = 0 /\ micTaken = FALSE
    /\ pc = [t \in Threads |-> "ready"] /\ cmd = [t \in Threads |-> "none"]
    /\ todo = [t \in Threads |-> <<>>] /\ at = [t \in Threads |-> 1]
    /\ val = [t \in Threads |-> FALSE] /\ flip = [t \in Threads |-> FALSE]
    /\ solo = FALSE /\ fresh = FALSE /\ calm = TRUE

InFlight == {t \in Threads : pc[t] # "ready"}

\* Thread t starts control c, having decided to perform `plan'.
Begin(t, c, plan) ==
    /\ pc[t] = "ready"
    /\ Cardinality(InFlight) < MaxInFlight
    /\ pc' = [pc EXCEPT ![t] = IF plan = <<>> THEN "say" ELSE "run"]
    /\ cmd' = [cmd EXCEPT ![t] = c]
    /\ todo' = [todo EXCEPT ![t] = plan]
    /\ val' = [val EXCEPT ![t] = effective]
    /\ solo' = (InFlight = {})
    /\ calm' = (calm /\ InFlight = {})
    /\ UNCHANGED <<flags, app, allowed, effective, micTaken, at, flip, fresh>>

-----------------------------------------------------------------------------
(* The user's controls.                                                      *)

\* `Resume'; a Dev daemon that cannot pause its live peer leaves all as it is.
Resume(t) ==
    /\ \/ Begin(t, "resume", ClearAll)
       \/ Begin(t, "resume", <<>>)
    /\ UNCHANGED <<connected, shown, micVars>>

\* The master chord and `TogglePause': resume while anything the user may
\* override is pausing, set master otherwise.
Toggle(t) ==
    /\ \/ /\ UserResumable \/ StartupDefault
          /\ Begin(t, "toggle", ClearAll) \/ Begin(t, "toggle", <<>>)
       \/ ~(UserResumable \/ StartupDefault) /\ Begin(t, "toggle", <<On("master"), Recompute>>)
    /\ UNCHANGED <<connected, shown, micVars>>

\* The per-app chord, on the focused app (never Always itself).
PerAppChord(t) ==
    /\ app \in Apps
    /\ \/ /\ "master" \in flags
          /\ Begin(t, "chord", <<IF app \in allowed THEN Delist(app) ELSE List(app), Recompute>>)
       \/ /\ "master" \notin flags /\ effective
          /\ Begin(t, "chord", (IF app \in allowed THEN <<>> ELSE <<List(app)>>) \o ClearKeepMaster)
       \/ /\ "master" \notin flags /\ ~effective
          /\ Begin(t, "chord", <<Delist(app), Recompute>>)
    /\ UNCHANGED <<connected, shown, micVars>>

\* `SetPaused' and the peer's lease, both under PAUSE_HANDOFF_LOCK.
SetPaused(t, paused) ==
    /\ \A u \in Threads : cmd[u] # "setPaused"
    /\ Begin(t, "setPaused", IF paused THEN <<On("master"), Recompute>>
                             ELSE <<Off("idle"), Off("master"), Recompute>>)
    /\ UNCHANGED <<connected, shown, micVars>>

\* `NotifyFocusedAppChanged': coming back to an allowed app ends an idle pause.
FocusChanged(t, a) ==
    /\ Begin(t, "focus", (IF "idle" \in flags /\ a \in allowed THEN <<Off("idle")>> ELSE <<>>)
                           \o <<Focus(a), Recompute>>)
    /\ UNCHANGED <<connected, shown, micVars>>

\* `SetAppPaused': plain allowlist editing.
SetAppPaused(t, a, listed) ==
    /\ Begin(t, "setApp", <<IF listed THEN List(a) ELSE Delist(a), Recompute>>)
    /\ UNCHANGED <<connected, shown, micVars>>

\* `NotifySystemAudioState'; gated: the "My Voice" gate makes media harmless.
SystemAudio(t, playing, gated) ==
    /\ \/ gated /\ Begin(t, "audioGated", <<Off("audio"), Recompute>>)
       \/ ~gated /\ playing /\ Begin(t, "audioPlay", <<On("audio"), Recompute>>)
       \/ /\ ~gated /\ ~playing /\ "idle" \notin flags
          /\ Begin(t, "audioStop", <<Off("audio"), Recompute>>)
       \/ /\ ~gated /\ ~playing /\ "idle" \in flags
          /\ Begin(t, "audioStopIdle", <<Off("audio"), Recompute>>)
    /\ UNCHANGED <<connected, shown, micVars>>

\* `SetupMode' recomputes and broadcasts nothing.
SetupMode(t, enabled) ==
    /\ Begin(t, "setup", <<IF enabled THEN On("setup") ELSE Off("setup"), Recompute>>)
    /\ UNCHANGED <<connected, shown, micVars>>

\* handle_client: count the client, lift the no-GUI pause, send a snapshot.
Connect(t) ==
    /\ ~connected
    /\ connected' = TRUE
    /\ Begin(t, "connect", IF "noGui" \in flags THEN <<Off("noGui"), Recompute>> ELSE <<>>)
    /\ UNCHANGED <<shown, micVars>>

\* ClientGuard: the connection ends, whatever the client was doing.
Disconnect ==
    /\ connected /\ shown # "none"
    /\ connected' = FALSE /\ shown' = "none"
    /\ UNCHANGED <<flags, app, allowed, effective, micTaken, micVars, threadVars, solo, fresh, calm>>

UserControl(t) ==
    \/ "resume" \in Commands /\ Resume(t)
    \/ "toggle" \in Commands /\ Toggle(t)
    \/ "chord" \in Commands /\ PerAppChord(t)
    \/ "setPaused" \in Commands /\ \E p \in BOOLEAN : SetPaused(t, p)
    \/ "focus" \in Commands /\ \E a \in Apps \cup {Own, NoApp} : FocusChanged(t, a)
    \/ "setApp" \in Commands /\ \E a \in Apps, listed \in BOOLEAN : SetAppPaused(t, a, listed)
    \/ "audio" \in Commands /\ \E playing, gated \in BOOLEAN : SystemAudio(t, playing, gated)
    \/ "setup" \in Commands /\ \E enabled \in BOOLEAN : SetupMode(t, enabled)
    \/ "connect" \in Commands /\ Connect(t)

-----------------------------------------------------------------------------
(* The watchdogs.                                                            *)

\* Another application opens or releases the microphone.
MicTakenChanges ==
    /\ "mic" \in Watchers
    /\ micTaken' = ~micTaken
    /\ UNCHANGED <<flags, app, allowed, effective, connected, shown, micVars,
                   threadVars, solo, fresh, calm>>

\* MicConflictState::on_poll: a poll that finds the microphone taken ...
MicPollTaken ==
    /\ micTaken
    /\ \/ /\ ~micPaused
          /\ micPaused' = TRUE /\ freePolls' = 0
          /\ Begin("mic", "micPause", <<On("mic"), Recompute>>)
          /\ UNCHANGED <<connected, shown>>
       \/ /\ micPaused /\ pc["mic"] = "ready"
          /\ freePolls' = 0
          /\ UNCHANGED <<flags, app, allowed, effective, connected, shown, micPaused,
                         micTaken, threadVars, solo, fresh, calm>>

\* The watcher's free polls, with what a resume performs; free polls count up.
FreePollWith(polls, plan) ==
    /\ micPaused
    /\ \/ /\ polls < ResumeFreePolls /\ pc["mic"] = "ready"
          /\ freePolls' = polls
          /\ UNCHANGED <<flags, app, allowed, effective, connected, shown, micPaused,
                         micTaken, threadVars, solo, fresh, calm>>
       \/ /\ polls >= ResumeFreePolls
          /\ micPaused' = FALSE /\ freePolls' = 0
          /\ Begin("mic", "micResume", plan)
          /\ UNCHANGED <<connected, shown>>

FreePolls(selfOnly, n) == IF selfOnly THEN ResumeFreePolls ELSE n

\* Mutants: the resume leaves the source, or takes every other one with it.
MicPollKeepsSource(selfOnly) ==
    FreePollWith(FreePolls(selfOnly, freePolls + 1), <<Off("idle"), Recompute>>)
MicPollClearsAll(selfOnly) == FreePollWith(FreePolls(selfOnly, freePolls + 1), ClearAll)

\* ... and one that counts as free: the microphone is free, or the probe
\* failed.  When Always itself is the only user, one poll is enough.
MicPollFree(selfOnly) ==
    FreePollWith(FreePolls(selfOnly, freePolls + 1), <<Off("idle"), Off("mic"), Recompute>>)

MicPoll ==
    /\ "mic" \in Watchers
    /\ \/ MicPollTaken
       \/ MicPollFree(FALSE)                \* free, or the probe failed
       \/ ~micTaken /\ MicPollFree(TRUE)    \* only Always itself is recording

\* idle_tick: AutoPause, once the voice has been silent for long enough (the
\* clock is not modelled: any moment may be late enough).
IdleTick ==
    /\ "idle" \in Watchers
    /\ "idle" \notin flags /\ ~effective
    /\ Begin("idle", "idlePause", <<On("idle"), Recompute>>)
    /\ UNCHANGED <<connected, shown, micVars>>

\* The capture loop hears a voice while only idle pauses it.
WakeOnVoice ==
    /\ "loop" \in Watchers
    /\ effective /\ "idle" \in flags /\ ~AnyGlobalPause
    /\ Begin("loop", "idleWake", <<Off("idle"), Recompute>>)
    /\ UNCHANGED <<connected, shown, micVars>>

\* The orphan watchdog finds no client after the grace period.
OrphanTick ==
    /\ "orphan" \in Watchers
    /\ ~connected /\ "noGui" \notin flags
    /\ Begin("orphan", "orphan", <<On("noGui"), Recompute>>)
    /\ UNCHANGED <<connected, shown, micVars>>

-----------------------------------------------------------------------------
(* The steps every control is made of.                                       *)

\* One atomic store (or one preference write) of the plan.
Store(t) ==
    /\ pc[t] = "run"
    /\ LET s == Head(todo[t]) IN
         /\ s # Recompute
         /\ flags' = CASE s.do = "on"  -> flags \cup {s.arg}
                       [] s.do = "off" -> flags \ {s.arg}
                       [] OTHER        -> flags
         /\ app' = IF s.do = "focus" THEN s.arg ELSE app
         /\ allowed' = CASE s.do = "list"   -> allowed \cup {s.arg}
                         [] s.do = "delist" -> allowed \ {s.arg}
                         [] OTHER           -> allowed
    /\ todo' = [todo EXCEPT ![t] = Tail(@)]
    /\ UNCHANGED <<effective, connected, shown, micVars, micTaken, pc, cmd, at, val,
                   flip, solo, fresh, calm>>

\* recompute_effective begins with compute_effective.
StartRecompute(t) ==
    /\ pc[t] = "run" /\ Head(todo[t]) = Recompute
    /\ pc' = [pc EXCEPT ![t] = "read"]
    /\ at' = [at EXCEPT ![t] = 1]
    /\ UNCHANGED <<flags, app, allowed, effective, connected, shown, micVars, micTaken,
                   cmd, todo, val, flip, solo, fresh, calm>>

\* One load of compute_effective; the first flag found set decides.
LoadFlag(t) ==
    /\ pc[t] = "read" /\ at[t] <= Len(LoadOrder)
    /\ IF LoadOrder[at[t]] \in flags
       THEN /\ val' = [val EXCEPT ![t] = (LoadOrder[at[t]] # "setup")]
            /\ pc' = [pc EXCEPT ![t] = "swap"]
            /\ UNCHANGED at
       ELSE /\ at' = [at EXCEPT ![t] = @ + 1]
            /\ UNCHANGED <<val, pc>>
    /\ UNCHANGED <<flags, app, allowed, effective, connected, shown, micVars, micTaken,
                   cmd, todo, flip, solo, fresh, calm>>

\* No flag decided: the focused app and its stored override do.
LoadApp(t) ==
    /\ pc[t] = "read" /\ at[t] > Len(LoadOrder)
    /\ val' = [val EXCEPT ![t] = PausedHere(app, allowed)]
    /\ pc' = [pc EXCEPT ![t] = "swap"]
    /\ UNCHANGED <<flags, app, allowed, effective, connected, shown, micVars, micTaken,
                   cmd, todo, at, flip, solo, fresh, calm>>

\* EFFECTIVE_PAUSED.swap.
Swap(t) ==
    /\ pc[t] = "swap"
    /\ effective' = val[t]
    /\ flip' = [flip EXCEPT ![t] = (effective # val[t])]
    /\ todo' = [todo EXCEPT ![t] = Tail(@)]
    /\ pc' = [pc EXCEPT ![t] = IF Tail(todo[t]) = <<>> THEN "say" ELSE "run"]
    /\ fresh' = solo
    /\ UNCHANGED <<flags, app, allowed, connected, shown, micVars, micTaken, cmd, at,
                   val, solo, calm>>

\* The broadcast (and, for a new client, the snapshot) that ends a control.
Say(t) ==
    /\ pc[t] = "say"
    /\ LET heard == Heard(cmd[t], val[t], flip[t]) IN
         shown' = CASE cmd[t] = "connect" -> IF effective THEN "paused" ELSE "resumed"
                    [] cmd[t] # "connect" /\ shown # "none" /\ heard # "silent" -> heard
                    [] OTHER -> shown
    /\ pc' = [pc EXCEPT ![t] = "ready"] /\ cmd' = [cmd EXCEPT ![t] = "none"]
    /\ at' = [at EXCEPT ![t] = 1]
    /\ val' = [val EXCEPT ![t] = FALSE] /\ flip' = [flip EXCEPT ![t] = FALSE]
    /\ UNCHANGED <<flags, app, allowed, effective, connected, micVars, micTaken, todo,
                   solo, fresh, calm>>

ThreadStep(t) ==
    Store(t) \/ StartRecompute(t) \/ LoadFlag(t) \/ LoadApp(t) \/ Swap(t) \/ Say(t)

WatcherStep == MicPoll \/ IdleTick \/ WakeOnVoice \/ OrphanTick

Next ==
    \/ \E t \in Workers : UserControl(t)
    \/ WatcherStep
    \/ \E t \in Threads : ThreadStep(t)
    \/ MicTakenChanges
    \/ Disconnect

Spec == Init /\ [][Next]_vars

\* A started control runs to its end, and the microphone watcher keeps polling
\* (a tokio interval for the daemon's lifetime).
Fairness == /\ \A t \in Threads : WF_vars(ThreadStep(t))
            /\ WF_vars(MicPoll)

FairSpec == Spec /\ Fairness

-----------------------------------------------------------------------------
TypeOK ==
    /\ flags \in SUBSET Flags
    /\ app \in Apps \cup {Own, NoApp}
    /\ allowed \in SUBSET Apps
    /\ effective \in BOOLEAN /\ connected \in BOOLEAN
    /\ shown \in {"none", "paused", "resumed"}
    /\ micPaused \in BOOLEAN /\ freePolls \in Nat /\ micTaken \in BOOLEAN
    /\ pc \in [Threads -> {"ready", "run", "read", "swap", "say"}]
    /\ cmd \in [Threads -> Controls \cup {"none"}]
    /\ todo \in [Threads -> Seq(Steps)]
    /\ at \in [Threads -> 1..7]
    /\ val \in [Threads -> BOOLEAN] /\ flip \in [Threads -> BOOLEAN]
    /\ solo \in BOOLEAN /\ fresh \in BOOLEAN /\ calm \in BOOLEAN

Quiescent == InFlight = {}

\* Once no control is running, EFFECTIVE_PAUSED is what the sources, setup mode
\* and the allowlist derive, provided the control that computed it overlapped no
\* other (recompute_effective is a load of every source and then a swap).
EffectiveIsDerived == Quiescent /\ fresh => effective = Derived

\* With one control at a time, an attached GUI shows what capture obeys
\* whenever nothing is running: every path that flips EFFECTIVE tells it.
GuiShowsEffective ==
    Quiescent /\ calm /\ shown # "none" => shown = (IF effective THEN "paused" ELSE "resumed")

\* A watchdog never lifts a pause the user set: master is cleared only by a
\* user's control (mic_watcher.rs and the audio monitor once overloaded it).
OnlyUserLiftsMaster ==
    [][\A t \in Watchers : "master" \in flags /\ Store(t) => "master" \in flags']_vars

\* One press of the global toggle is felt: EFFECTIVE flips, unless the no-GUI
\* pause or the focused app's own pause, which it does not override, holds.
TogglePressIsFelt ==
    [][\A t \in Workers : cmd[t] = "toggle" /\ calm /\ Swap(t) =>
          \/ effective' # effective
          \/ "noGui" \in flags
          \/ "setup" \notin flags /\ PausedHere(app, allowed)]_vars

\* The controls do what the user means by them: both of the above.
ControlsDoAsMeant == OnlyUserLiftsMaster /\ TogglePressIsFelt

\* Every microphone pause ends: when the other application has released the
\* microphone for good, the source is eventually cleared for good, even if the
\* probe keeps failing (mic_watcher.rs: every auto-pause auto-resumes).
MicPauseEnds == (<>[]~micTaken) => <>[]("mic" \notin flags)
=============================================================================
