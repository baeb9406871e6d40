-------------------------- MODULE TranscriberSwitch --------------------------
(* Which engine transcribes (stt_dispatch.rs, uds_server.rs, event_loop.rs):  *)
(* the start-up thread builds the configured one behind a placeholder, while *)
(* clients switch the backend, change the language and delete models of      *)
(* ModelRegistry, each rebuild under one lock; an utterance takes whatever    *)
(* engine is installed and, on the placeholder, waits for the real one.       *)
EXTENDS ModelRegistry

CONSTANTS
    Clients,      \* connections that send commands
    Langs,        \* languages
    Platforms,    \* "macos", "linux"
    Keys,         \* is there a Groq key? a subset of BOOLEAN
    Nobody        \* the rebuild lock is free

ASSUME SwitchAssumption ==
    /\ {"groq", "apple", "none"} \cap Models = {}
    /\ Keys \subseteq BOOLEAN /\ Nobody \notin Clients

VARIABLES
    host,    \* the platform and whether it has a key
    cfg,     \* the shared config: backend, lang
    stored,  \* the backend kept in the prefs DB
    active,  \* the installed engine
    ready,   \* what ReadySignal was given, or Unbuilt
    boot,    \* the transcriber-init thread
    lock,    \* who holds TRANSCRIBER_REBUILD
    cmd,     \* what each client's reader is executing
    sent,    \* history: has a client's command touched the engine?
    nones,   \* ActiveChanged { None } of delete, on their way to the clients
    badge,   \* the active backend the app was last told
    utt,     \* an utterance: "no", "waiting", "served", "timed out"
    late     \* history: the init thread touched the engine after a client's command did

switchVars == <<host, cfg, stored, active, ready, boot, lock, cmd, sent, nones, badge, utt, late>>
vars == <<registryVars, switchVars>>

Choices == {"groq", "apple"} \cup Models

\* An engine: the choice it was built for, what runs, of what content.
Engine(b, runs)  == [for |-> b, runs |-> runs, content |-> "whole"]
Unbuilt          == Engine("none", "nothing")
Placeholder      == Engine("none", "pending")
IdleEngine       == Engine("none", "unconfigured")
Local(m) == [for |-> m, runs |-> "local", content |-> disk[m].final]
Rest == [op |-> "none", to |-> "none", at |-> "idle", engine |-> Unbuilt, now |-> "none"]

\* build_transcriber: the engines it may return; the Apple engine and a load may also
\* fail.  A Groq choice without a key degrades to Apple where there is one.
Built(b) ==
    CASE b = "groq"   -> IF host.key THEN {Engine(b, "groq")}
                         ELSE IF host.platform = "macos" THEN {Engine(b, "apple")} ELSE {}
      [] b = "apple"  -> IF host.platform = "macos" THEN {Engine(b, "apple")} ELSE {}
      [] b = "none"   -> {IdleEngine}
      [] b \in Models -> IF info[b].downloaded /\ disk[b].final # "none" THEN {Local(b)} ELSE {}
MayFail(b) == b # "none" /\ ~(b = "groq" /\ host.key)

\* linux_startup_backend
StartupBackends(want) ==
    IF host.platform = "macos" \/ want \notin {"groq", "none"} THEN {want}
    ELSE IF host.key THEN {"groq"}
    ELSE LET local == {m \in Models : info'[m].downloaded /\ ~info'[m].downloading}
         IN  IF local = {} THEN {"none"} ELSE local

\* The daemon starts: the config names the start-up choice, the placeholder is
\* installed, the init thread begins.
Boot(want) ==
    \E b \in StartupBackends(want), l \in Langs :
        /\ cfg' = [backend |-> b, lang |-> l] /\ badge' = b
        /\ active' = Placeholder /\ ready' = Unbuilt
        /\ boot' = [at |-> "build", want |-> b, engine |-> Unbuilt]
        /\ lock' = Nobody /\ cmd' = [c \in Clients |-> Rest] /\ sent' = FALSE
        /\ nones' = 0 /\ utt' = "no" /\ late' = FALSE

Init ==
    /\ RegistryInit
    /\ host \in [platform : Platforms, key : Keys]
    /\ stored \in {"groq"} \cup {m \in Models : disk[m].final # "none"}
    /\ \E l \in Langs : cfg = [backend |-> stored, lang |-> l]
    /\ stored = "groq" => host.platform = "macos" \/ host.key
    /\ active = Placeholder /\ ready = Unbuilt
    /\ boot = [at |-> "build", want |-> stored, engine |-> Unbuilt]
    /\ lock = Nobody /\ cmd = [c \in Clients |-> Rest]
    /\ sent = FALSE /\ nones = 0 /\ badge = stored /\ utt = "no" /\ late = FALSE

Reboot == Restart /\ Boot(stored) /\ UNCHANGED <<host, stored>>

-----------------------------------------------------------------------------
(* The transcriber-init thread: it works from the config it was started with, *)
(* and does not take the rebuild lock.                                        *)

BootBuilds ==
    /\ boot.at = "build"
    /\ \E e \in Built(boot.want) : boot' = [boot EXCEPT !.at = "store", !.engine = e]
    /\ UNCHANGED <<registryVars, host, cfg, stored, active, ready, lock, cmd, sent, nones, badge, utt, late>>

\* On macOS a failure is logged; on Linux the config and the engine become idle.
BootFails ==
    /\ boot.at = "build" /\ (MayFail(boot.want) \/ Built(boot.want) = {})
    /\ IF host.platform = "macos"
       THEN boot' = [boot EXCEPT !.at = "failed"] /\ UNCHANGED <<cfg, late>>
       ELSE /\ boot' = [boot EXCEPT !.at = "store", !.engine = IdleEngine]
            /\ cfg' = [cfg EXCEPT !.backend = "none"]
            /\ late' = (late \/ sent)
    /\ UNCHANGED <<registryVars, host, stored, active, ready, lock, cmd, sent, nones, badge, utt>>

BootStores ==
    /\ boot.at = "store" /\ boot' = [boot EXCEPT !.at = "signal"]
    /\ active' = boot.engine
    /\ late' = (late \/ sent)
    /\ UNCHANGED <<registryVars, host, cfg, stored, ready, lock, cmd, sent, nones, badge, utt>>

BootSignals ==
    /\ boot.at = "signal" /\ boot' = [boot EXCEPT !.at = "done"]
    /\ ready' = boot.engine
    /\ badge' = IF boot.engine = IdleEngine /\ boot.want # "none" THEN "none" ELSE badge
    /\ UNCHANGED <<registryVars, host, cfg, stored, active, lock, cmd, sent, nones, utt, late>>

-----------------------------------------------------------------------------
(* Commands, executed one at a time by each connection's reader.              *)

Send(c, op, to, at) ==
    /\ cmd[c].at = "idle"
    /\ cmd' = [cmd EXCEPT ![c] = [Rest EXCEPT !.op = op, !.to = to, !.at = at]]
    /\ UNCHANGED <<host, cfg, stored, active, ready, boot, lock, sent, nones, badge, utt, late>>

Command(c, op, to) ==
    /\ budget > 0 /\ budget' = budget - 1
    /\ Send(c, op, to, "wait")
    /\ UNCHANGED <<disk, info, dl, cancel, extracting, del, verifying, torn>>
SetActiveTranscriber(c) == \E b \in Choices : Command(c, "switch", b)
SetLanguage(c) == \E l \in Langs : Command(c, "lang", l)
DeleteModel(c) == \E m \in Models : Delete(m) /\ Send(c, "delete", m, "deleting")

TakeLockAnyway(c) ==  \* mutant
    /\ cmd[c].at = "wait" /\ lock' = c
    /\ cmd' = [cmd EXCEPT ![c].at = "build", ![c].now = cfg.backend]
    /\ UNCHANGED <<registryVars, host, stored, active, ready, boot, sent, nones, badge, utt, late, cfg>>

\* switch_backend_with begins, or set_language stores the language.
TakeLock(c) ==
    /\ cmd[c].at = "wait" /\ lock = Nobody /\ lock' = c
    /\ IF cmd[c].op = "switch"
       THEN /\ cmd' = [cmd EXCEPT ![c].at = IF cfg.backend = cmd[c].to THEN "announce" ELSE "build",
                                  ![c].now = cfg.backend]
            /\ UNCHANGED cfg
       ELSE /\ cfg' = [cfg EXCEPT !.lang = cmd[c].to]
            /\ cmd' = [cmd EXCEPT ![c].at = "build"]
    /\ UNCHANGED <<registryVars, host, stored, active, ready, boot, sent, nones, badge, utt, late>>

Target(c) == IF cmd[c].op = "switch" THEN cmd[c].to ELSE cfg.backend

\* The config names the choice once the engine exists.
Builds(c) ==
    /\ cmd[c].at = "build"
    /\ \E e \in Built(Target(c)) :
        cmd' = [cmd EXCEPT ![c].at = "swap", ![c].engine = e, ![c].now = Target(c)]
    /\ cfg' = [cfg EXCEPT !.backend = Target(c)] /\ sent' = TRUE
    /\ UNCHANGED <<registryVars, host, stored, active, ready, boot, lock, nones, badge, utt, late>>

Unlock(c) == lock' = IF lock = c THEN Nobody ELSE lock

BuildFailsSilently(c) ==  \* mutant
    /\ cmd[c].at = "build" /\ (MayFail(Target(c)) \/ Built(Target(c)) = {})
    /\ cmd' = [cmd EXCEPT ![c] = Rest] /\ Unlock(c)
    /\ UNCHANGED <<registryVars, host, cfg, stored, active, ready, boot, sent, nones, badge, utt, late>>

\* A switch that failed says so; the language change just ends.
BuildFails(c) ==
    /\ cmd[c].at = "build" /\ (MayFail(Target(c)) \/ Built(Target(c)) = {})
    /\ IF cmd[c].op = "switch"
       THEN cmd' = [cmd EXCEPT ![c].at = "announce"] /\ UNCHANGED lock
       ELSE cmd' = [cmd EXCEPT ![c] = Rest] /\ Unlock(c)
    /\ UNCHANGED <<registryVars, host, cfg, stored, active, ready, boot, sent, nones, badge, utt, late>>

\* The engine is installed and the choice persisted.
Swaps(c) ==
    /\ cmd[c].at = "swap"
    /\ active' = cmd[c].engine
    /\ IF cmd[c].op = "switch"
       THEN /\ cmd' = [cmd EXCEPT ![c].at = "announce", ![c].engine = Unbuilt]
            /\ stored' = cmd[c].to /\ UNCHANGED lock
       ELSE /\ cmd' = [cmd EXCEPT ![c] = Rest]
            /\ UNCHANGED stored /\ Unlock(c)
    /\ UNCHANGED <<registryVars, host, cfg, ready, boot, sent, nones, badge, utt, late>>

\* switch_events: whatever came of it, the app is told the backend that is active.
Announces(c) ==
    /\ cmd[c].at = "announce"
    /\ badge' = cmd[c].now
    /\ cmd' = [cmd EXCEPT ![c] = Rest] /\ Unlock(c)
    /\ UNCHANGED <<registryVars, host, cfg, stored, active, ready, boot, sent, nones, utt, late>>

\* delete returns; a model that was active is left for Groq.
DeleteReturns(c) ==
    /\ cmd[c].at = "deleting" /\ DeleteDone(cmd[c].to)
    /\ nones' = nones + 1
    /\ cmd' = [cmd EXCEPT ![c].at = "deleted"]
    /\ UNCHANGED <<host, cfg, stored, active, ready, boot, lock, sent, badge, utt, late>>
FallBack(c) ==
    /\ cmd[c].at = "deleted"
    /\ cmd' = [cmd EXCEPT ![c] = IF cfg.backend = @.to
                                 THEN [Rest EXCEPT !.op = "switch", !.to = "groq", !.at = "wait"]
                                 ELSE Rest]
    /\ UNCHANGED <<registryVars, host, cfg, stored, active, ready, boot, lock, sent, nones, badge, utt, late>>

\* The bridge turns ActiveChanged { None } into "groq" for the clients.
BridgeNone ==
    /\ nones > 0 /\ nones' = nones - 1 /\ badge' = "groq"
    /\ UNCHANGED <<registryVars, host, cfg, stored, active, ready, boot, lock, cmd, sent, utt, late>>

-----------------------------------------------------------------------------
(* One utterance.                                                             *)

Speak ==
    /\ utt = "no" /\ active = Placeholder
    /\ utt' = IF ready = Unbuilt THEN "waiting" ELSE "served"
    /\ UNCHANGED <<registryVars, host, cfg, stored, active, ready, boot, lock, cmd, sent, nones, badge, late>>

Wake ==
    /\ utt = "waiting" /\ ready # Unbuilt /\ utt' = "served"
    /\ UNCHANGED <<registryVars, host, cfg, stored, active, ready, boot, lock, cmd, sent, nones, badge, late>>

\* Thirty seconds: the slot is looked at once more.
TimesOut ==
    /\ utt = "waiting"
    /\ utt' = IF ready = Unbuilt THEN "timed out" ELSE "served"
    /\ UNCHANGED <<registryVars, host, cfg, stored, active, ready, boot, lock, cmd, sent, nones, badge, late>>

DiskStep ==
    /\ \/ \E m \in Models : DownloadStep(m)
       \/ \E m \in Models, ok \in BOOLEAN : DeleteTorn(m, ok)
       \/ \E m \in Models : DeleteRest(m)
       \/ BackgroundVerify
    /\ UNCHANGED switchVars

BootStep == BootBuilds \/ BootFails \/ BootStores \/ BootSignals
Executes(c) ==
    \/ TakeLock(c) \/ Builds(c) \/ BuildFails(c) \/ Swaps(c) \/ Announces(c)
    \/ DeleteReturns(c) \/ FallBack(c)

Next ==
    \/ DiskStep \/ BootStep \/ BridgeNone \/ Reboot
    \/ \E c \in Clients : SetActiveTranscriber(c) \/ SetLanguage(c) \/ DeleteModel(c) \/ Executes(c)
    \/ Speak \/ Wake \/ TimesOut

\* Every reader goes on with its command.
Fairness == \A c \in Clients : WF_vars(Executes(c))

Spec == Init /\ [][Next]_vars /\ Fairness

-----------------------------------------------------------------------------
\* uds_server.rs:1470: with the rebuild lock free, the config names the backend the
\* installed engine was built for -- unless the init thread finished after a command.
ConfigNamesEngine ==
    lock = Nobody /\ boot.at \in {"done", "failed"} /\ ~late =>
        active.for = cfg.backend \/ active = Placeholder

\* "EVERY outcome ends with the backend that is active now": a switch request is
\* executed up to the announcement, unless the daemon is killed and starts anew.
SwitchIsAnswered ==
    \A c \in Clients :
        cmd[c].op = "switch" /\ boot.at # "build" ~> cmd[c].at = "announce" \/ boot.at = "build"

\* model_registry.rs:262: "nothing unverified can ever be loaded".  The code does not
\* keep this: a provisional flag or a deletion in progress lets a bad file through.
NothingUnverifiedIsLoaded == active.content = "whole"

=============================================================================
