------------------------------- MODULE Updater -------------------------------
(* The updater (SPEC.md 12a): the daemon's checks and its install thread,     *)
(* always update in a terminal beside it, the installer they hand a verified  *)
(* release to, and what the app shows and suppresses meanwhile (updater/*.rs, *)
(* cli/update.rs, install.sh, UpdateState.swift, UpdateService.swift).        *)
EXTENDS Naturals, Sequences, UpdatePromise

CONSTANTS
    MaxRequests,   \* bound: checks and installs asked for
    MaxFaults,     \* bound: kills of the daemon, publications, background checks
    MaxInstallers, \* bound: installers ever started
    MaxLink        \* bound: events on their way to the app

Updaters   == {"gui", "cli"}            \* the daemon's install thread, always update
Contents   == {"good", "other", "cut"}  \* as published; another release's; partial
Installers == 1..MaxInstallers

VARIABLES
    published, \* a release newer than the first build is out
    daemon,    \* up, and what it runs, knows, has announced and is busy with
    stored,    \* update-state.json names the newer release
    checks,    \* checks asked for and not yet answered
    upd,       \* the step of each updater
    dir,       \* the release's directory under update_root(), shared by all
    inst,      \* the installers
    link,      \* events from the daemon to the app
    gui,       \* the app
    requests, faults, \* what is left of MaxRequests and MaxFaults
    dismissed  \* history: an install was answered with "nothing to install"

daemonSide == <<daemon, stored, checks>>
staging    == <<upd, dir, inst>>
bounds     == <<requests, faults>>
vars == <<published, installed, daemonSide, staging, link, gui, bounds, dismissed>>

NoDir  == [is |-> FALSE, part |-> "none", mine |-> "none", archive |-> "none", ready |-> FALSE]
NoInst == [step |-> "off", by |-> "none", got |-> "none"]
Down   == [up |-> FALSE, new |-> FALSE, known |-> FALSE, announced |-> FALSE, busy |-> FALSE,
           client |-> FALSE]
\* background_loop replays the stored result before the first client asks.
Fresh  == [Down EXCEPT !.up = TRUE, !.new = installed # "old",
                       !.known = stored /\ installed = "old"]
Closed == [up |-> FALSE, conn |-> FALSE, state |-> "unknown", offer |-> FALSE,
           quiet |-> FALSE, asked |-> FALSE]

Init ==
    /\ published \in BOOLEAN /\ installed = "old" /\ stored \in BOOLEAN
    /\ daemon = [Down EXCEPT !.up = TRUE, !.known = stored]
    /\ checks = 0
    /\ upd = [u \in Updaters |-> "idle"] /\ dir = NoDir
    /\ inst = [i \in Installers |-> NoInst]
    /\ link = <<>> /\ gui = [Closed EXCEPT !.up = TRUE]
    /\ requests = MaxRequests /\ faults = MaxFaults /\ dismissed = FALSE

Room       == Len(link) < MaxLink
Send(q, e) == IF daemon.client THEN Append(q, e) ELSE q

-----------------------------------------------------------------------------
(* release.rs, verify.rs: one question to GitHub, one signature.              *)

\* interpret: nothing is offered but a release newer than the build that asks.
Answers(new) == {"offline"} \cup
    IF ~published THEN {"no_release"} ELSE IF new THEN {"up_to_date"} ELSE {"update_available"}
Definitive(a) == a # "offline"

\* The signature binds the bytes to their name and to the release's tag.
SignedByKey(c) == c # "cut"                \* mutant: the binding is not checked
Verifies(c)    == c = "good"

-----------------------------------------------------------------------------
(* updater/mod.rs: run_check, for the user or in the background.              *)

\* The user is always answered; the background check speaks of a release once.
Checked(user, a) ==
    LET said == IF user THEN Send(link, a) ELSE link
        new  == a = "update_available" /\ (user \/ ~daemon.announced) IN
    /\ stored' = IF Definitive(a) THEN a # "no_release" ELSE stored
    /\ daemon' = IF ~Definitive(a) THEN daemon
                 ELSE [daemon EXCEPT !.known = a = "update_available",
                                     !.announced = @ \/ new]
    /\ link' = IF new THEN Send(said, "available") ELSE said
BackgroundCheck ==
    /\ daemon.up /\ faults > 0 /\ faults' = faults - 1 /\ Room
    /\ \E a \in Answers(daemon.new) : Checked(FALSE, a)
    /\ UNCHANGED <<published, installed, checks, staging, gui, requests, dismissed>>
UserCheck ==
    /\ daemon.up /\ checks > 0 /\ checks' = checks - 1 /\ Len(link) + 1 < MaxLink
    /\ \E a \in Answers(daemon.new) : Checked(TRUE, a)
    /\ UNCHANGED <<published, installed, staging, gui, bounds, dismissed>>

-----------------------------------------------------------------------------
(* gui_install and always update: fetch, stage, verify, hand over.            *)

Runs(u, step) == upd[u] = step /\ (u = "gui" => daemon.up) /\ Room
Goes(u, step) == upd' = [upd EXCEPT ![u] = step]
Says(u, e)    == link' = IF u = "gui" THEN Send(link, e) ELSE link
Release(u)    == daemon' = IF u = "gui" THEN [daemon EXCEPT !.busy = FALSE] ELSE daemon
Proceeds(u, step) == Goes(u, step) /\ UNCHANGED <<daemon, link>>
StagingOnly   == UNCHANGED <<published, installed, stored, checks, gui, bounds, dismissed>>

\* Any failure empties the directory and is told.
Fails(u) == Goes(u, "idle") /\ Release(u) /\ Says(u, "failed") /\ dir' = NoDir

\* The release is asked for again; having none to install is an answer of its own.
Fetch(u) ==
    /\ Runs(u, "fetch")
    /\ \E a \in Answers(IF u = "gui" THEN daemon.new ELSE installed # "old") :
        IF a = "update_available"
        THEN Proceeds(u, "clear") /\ UNCHANGED dismissed
        ELSE /\ Goes(u, "idle") /\ Release(u)
             /\ Says(u, IF Definitive(a) THEN a ELSE "failed")
             /\ dismissed' = (dismissed \/ (u = "gui" /\ Definitive(a)))
    /\ UNCHANGED <<published, installed, stored, checks, dir, inst, gui, bounds>>

\* stage_in empties the release's directory, whoever else uses it.
Clear(u) ==
    /\ Runs(u, "clear") /\ Proceeds(u, "open") /\ dir' = [NoDir EXCEPT !.is = TRUE]
    /\ UNCHANGED inst /\ StagingOnly

\* The signatures and the verified installer are in memory; the archive goes to a
\* file of its own that must not be there yet.
OpenPart(u) ==
    /\ Runs(u, "open")
    /\ \/ Fails(u)
       \/ /\ dir.is /\ dir.part = "none" /\ Goes(u, "download")
          /\ dir' = [dir EXCEPT !.part = "cut", !.mine = u]
          /\ Says(u, "downloading") /\ UNCHANGED daemon
    /\ UNCHANGED inst /\ StagingOnly

\* What arrives goes to the open file, which the path may not name any more, and is
\* verified as it goes by.
Download(u) ==
    /\ Runs(u, "download")
    /\ \E c \in Contents :
        IF Verifies(c)
        THEN /\ Goes(u, "rename") /\ Says(u, "verifying") /\ UNCHANGED daemon
             /\ dir' = IF dir.mine # u THEN dir
                       ELSE IF dir.part # "none" THEN [dir EXCEPT !.part = c]
                       ELSE [dir EXCEPT !.archive = c]
        ELSE Fails(u)
    /\ UNCHANGED inst /\ StagingOnly

\* Only then does it get its name: the file the path names by now.
Rename(u) ==
    /\ Runs(u, "rename")
    /\ IF dir.part = "none" THEN Fails(u)
       ELSE Proceeds(u, "write") /\ dir' = [dir EXCEPT !.archive = dir.part, !.part = "none"]
    /\ UNCHANGED inst /\ StagingOnly
\* The digest and the installer, the latter to a new file.
WriteFiles(u) ==
    /\ Runs(u, "write")
    /\ IF ~dir.is \/ dir.ready THEN Fails(u)
       ELSE Proceeds(u, "spawn") /\ dir' = [dir EXCEPT !.ready = TRUE]
    /\ UNCHANGED inst /\ StagingOnly

\* The installer starts, detached from the daemon; the app is told once it started.
Spawn(u) ==
    /\ Runs(u, "spawn")
    /\ \/ Fails(u) /\ UNCHANGED inst
       \/ /\ Proceeds(u, IF u = "gui" THEN "tell" ELSE "wait") /\ UNCHANGED dir
          /\ \E i \in Installers :
              /\ inst[i] = NoInst /\ \A j \in 1..(i - 1) : inst[j] # NoInst
              /\ inst' = [inst EXCEPT ![i].step = "check", ![i].by = u]
    /\ StagingOnly
Tell ==
    /\ Runs("gui", "tell") \/ Runs("gui", "told")
    /\ Goes("gui", IF upd.gui = "tell" THEN "wait" ELSE "idle") /\ Says("gui", "installing")
    /\ UNCHANGED <<daemon, dir, inst>> /\ StagingOnly

\* on_exit may overtake the installing event; only a failure is told.
Exited(u) ==
    /\ Runs(u, "tell") \/ Runs(u, "wait")
    /\ \E i \in Installers :
        /\ inst[i].by = u /\ inst[i].step \in {"done", "failed"}
        /\ inst' = [inst EXCEPT ![i].by = "none"]
        /\ IF inst[i].step = "failed" THEN Says(u, "failed") ELSE UNCHANGED link
    /\ Goes(u, IF upd[u] = "tell" THEN "told" ELSE "idle")
    /\ Release(u) /\ dir' = NoDir /\ StagingOnly

Updating(u) ==
    \/ Fetch(u) \/ Clear(u) \/ OpenPart(u) \/ Download(u) \/ Rename(u) \/ WriteFiles(u)
    \/ Spawn(u) \/ Exited(u) \/ (u = "gui" /\ Tell)

-----------------------------------------------------------------------------
(* install.sh with ALWAYS_ARCHIVE.                                            *)

At(i, step) == inst[i].step = step
To(i, step) == inst' = [inst EXCEPT ![i].step = step]

\* The archive against the digest beside it; both may be gone by now.
CheckArchive(i) ==
    /\ At(i, "check") /\ To(i, IF dir.ready /\ dir.archive = "good" THEN "unpack" ELSE "failed")
    /\ UNCHANGED <<installed, daemon, checks, upd, link, gui>>
\* The archive is read again; half of one does not unpack.
Unpack(i) ==
    /\ At(i, "unpack")
    /\ \/ To(i, "failed")
       \/ /\ dir.archive \in Contents \ {"cut"}
          /\ inst' = [inst EXCEPT ![i].step = "quit", ![i].got = dir.archive]
    /\ UNCHANGED <<installed, daemon, checks, upd, link, gui>>
\* The app quits and takes the daemon with it, and what is left is killed.
QuitApp(i) ==
    /\ At(i, "quit") /\ To(i, IF gui.up THEN "swap" ELSE "swap only")
    /\ IF gui.up THEN /\ gui' = Closed /\ daemon' = Down /\ checks' = 0
                      /\ upd' = [upd EXCEPT !.gui = "idle"] /\ link' = <<>>
       ELSE UNCHANGED <<gui, daemon, checks, upd, link>>
    /\ UNCHANGED installed
\* The bundle is moved, and moved back when that fails.
Swap(i) ==
    /\ At(i, "swap") \/ At(i, "swap only")
    /\ \/ To(i, "failed") /\ UNCHANGED installed
       \/ /\ To(i, IF At(i, "swap") THEN "open" ELSE "done") /\ installed' = inst[i].got
    /\ UNCHANGED <<daemon, checks, upd, link, gui>>
\* Only what was quit is opened again, and starts its daemon.
OpenApp(i) ==
    /\ At(i, "open") /\ To(i, "done")
    /\ gui' = IF gui.up THEN gui ELSE [Closed EXCEPT !.up = TRUE]
    /\ daemon' = IF daemon.up THEN daemon ELSE Fresh
    /\ UNCHANGED <<installed, checks, upd, link>>
Installing(i) ==
    /\ CheckArchive(i) \/ Unpack(i) \/ QuitApp(i) \/ Swap(i) \/ OpenApp(i)
    /\ UNCHANGED <<published, stored, dir, bounds, dismissed>>

-----------------------------------------------------------------------------
(* The app: UpdateModel, and UpdateService around it.                         *)

InstallStates == {"download", "handoff"}

\* UpdateModel.apply
Shown(e) ==
    IF e = "available"
    THEN [gui EXCEPT !.offer = TRUE, !.state = IF @ = "download" THEN @ ELSE "available"]
    ELSE IF e \in {"downloading", "verifying"} THEN [gui EXCEPT !.state = "download"]
    ELSE IF e = "installing" THEN [gui EXCEPT !.state = "handoff"]
    ELSE IF e = "failed" THEN [gui EXCEPT !.state = "failed"]
    ELSE IF gui.state \in InstallStates THEN gui       \* the rest answers a check
    ELSE IF e \in {"up_to_date", "no_release"} THEN [gui EXCEPT !.offer = FALSE, !.state = e]
    ELSE IF gui.offer THEN [gui EXCEPT !.state = "available"]
    ELSE IF e = "offline" THEN [gui EXCEPT !.state = "check failed"]
    ELSE gui

KeepsQuiet(to) ==     \* mutant: nobody asks for the daemon again
    /\ gui' = [to EXCEPT !.quiet = to.state = "handoff"]
    /\ UNCHANGED <<daemon, checks, upd>>
\* stateChanged: a handoff keeps the app from respawning the daemon; its end makes up
\* for the request of the outage, which was consumed meanwhile.
Becomes(to) ==
    /\ gui' = [to EXCEPT !.quiet = to.state = "handoff"]
    /\ daemon' = IF gui.quiet /\ to.state # "handoff" /\ ~to.conn /\ ~daemon.up THEN Fresh
                 ELSE daemon
    /\ UNCHANGED <<checks, upd>>
AppOnly == UNCHANGED <<published, installed, stored, dir, inst, dismissed>>

Receive ==
    /\ gui.up /\ link # <<>> /\ link' = Tail(link)
    /\ Becomes(Shown(Head(link))) /\ AppOnly /\ UNCHANGED bounds
\* The connection's end comes after its last event.
IgnoredLoss == [gui EXCEPT !.conn = FALSE, !.state = IF @ = "checking" THEN "unknown" ELSE @]
Lost == [gui EXCEPT !.conn = FALSE,          \* daemonDisconnected
                    !.state = IF @ = "checking" THEN "unknown"
                              ELSE IF @ = "download" THEN "failed" ELSE @]
Disconnect ==
    /\ gui.conn /\ ~daemon.client /\ link = <<>>
    /\ Becomes(Lost) /\ AppOnly /\ UNCHANGED <<link, bounds>>
\* A known release is part of what a new client is told.
Connect ==
    /\ gui.up /\ ~gui.conn /\ daemon.up
    /\ gui' = [gui EXCEPT !.conn = TRUE, !.asked = FALSE]
    /\ daemon' = [daemon EXCEPT !.client = TRUE]
    /\ link' = IF daemon.known THEN <<"available">> ELSE <<>>
    /\ UNCHANGED <<checks, upd, bounds>> /\ AppOnly
\* One request per outage, and none is answered during a handoff.
AskRespawn ==
    /\ gui.up /\ ~gui.conn /\ ~daemon.up /\ ~gui.asked
    /\ gui' = [gui EXCEPT !.asked = TRUE]
    /\ daemon' = IF gui.quiet THEN daemon ELSE Fresh
    /\ UNCHANGED <<checks, upd, link, bounds>> /\ AppOnly
CheckTimesOut ==
    /\ gui.state = "checking" /\ Becomes([gui EXCEPT !.state = "check failed"])
    /\ UNCHANGED <<link, bounds>> /\ AppOnly
HandoffTimesOut ==
    /\ gui.state = "handoff" /\ Becomes([gui EXCEPT !.state = "failed"])
    /\ UNCHANGED <<link, bounds>> /\ AppOnly
App == Receive \/ Disconnect \/ Connect \/ AskRespawn \/ HandoffTimesOut

-----------------------------------------------------------------------------
(* Requests, and what nobody foresees.                                        *)

CheckNow ==
    /\ gui.conn /\ gui.state \notin InstallStates \cup {"checking"}
    /\ gui' = [gui EXCEPT !.state = IF @ = "available" THEN @ ELSE "checking"]
    /\ checks' = IF daemon.client THEN checks + 1 ELSE checks
    /\ UNCHANGED <<daemon, upd, link>>
\* One install at a time: the daemon refuses another.
InstallNow ==
    /\ gui.conn /\ gui.offer /\ gui.state \in {"available", "failed"} /\ Room
    /\ gui' = [gui EXCEPT !.state = "download"]
    /\ IF ~daemon.client THEN UNCHANGED <<daemon, upd, link>>
       ELSE IF daemon.busy THEN link' = Send(link, "failed") /\ UNCHANGED <<daemon, upd>>
       ELSE /\ daemon' = [daemon EXCEPT !.busy = TRUE]
            /\ Goes("gui", "fetch") /\ UNCHANGED link
    /\ UNCHANGED checks
UpdateCommand ==
    /\ upd.cli = "idle" /\ Goes("cli", "fetch") /\ UNCHANGED <<gui, daemon, checks, link>>
Request ==
    /\ requests > 0 /\ requests' = requests - 1
    /\ CheckNow \/ InstallNow \/ UpdateCommand
    /\ AppOnly /\ UNCHANGED faults

\* Its threads go with the daemon, its installer does not.  (One that dies before the
\* app has reached it is a case of DaemonLifecycle.)
DaemonDies ==
    /\ daemon.client /\ daemon' = Down /\ checks' = 0
    /\ upd' = [upd EXCEPT !.gui = "idle"]
    /\ inst' = [i \in Installers |-> [inst[i] EXCEPT !.by = IF @ = "gui" THEN "none" ELSE @]]
    /\ UNCHANGED published
\* An app that is gone is opened by hand.
Reopen ==
    /\ ~gui.up /\ gui' = [Closed EXCEPT !.up = TRUE]
    /\ daemon' = IF daemon.up THEN daemon ELSE Fresh
Publish == published' = ~published /\ UNCHANGED <<daemon, checks, upd, inst>>
Fault ==
    /\ \/ faults > 0 /\ faults' = faults - 1 /\ (DaemonDies \/ Publish) /\ UNCHANGED gui
       \/ Reopen /\ UNCHANGED <<published, checks, upd, inst, faults>>
    /\ UNCHANGED <<installed, stored, dir, link, requests, dismissed>>

Next ==
    \/ BackgroundCheck \/ UserCheck
    \/ \E u \in Updaters : Updating(u)
    \/ \E i \in Installers : Installing(i)
    \/ App \/ CheckTimesOut \/ Request \/ Fault

\* Downloads end or time out, installers end, the app's client and timers go on.
Fairness ==
    /\ \A u \in Updaters : WF_vars(Updating(u))
    /\ \A i \in Installers : WF_vars(Installing(i))
    /\ WF_vars(Receive) /\ WF_vars(Disconnect) /\ WF_vars(Connect)
    /\ WF_vars(AskRespawn) /\ WF_vars(HandoffTimesOut)
Spec == Init /\ [][Next]_vars /\ Fairness

-----------------------------------------------------------------------------
(* Correctness, with UpdatePromise.                                           *)

TypeOK ==
    /\ installed \in {"old"} \cup Contents /\ checks \in 0..MaxRequests
    /\ dir.archive \in Contents \cup {"none"} /\ dir.part \in Contents \cup {"none"}
    /\ upd \in [Updaters -> {"idle", "fetch", "clear", "open", "download", "rename",
                             "write", "spawn", "tell", "told", "wait"}]
    /\ Len(link) <= MaxLink

\* A failed installer never leaves the app without its daemon (StateMonitor.swift:182).
AppKeepsDaemon == (gui.up /\ ~gui.conn) ~> (gui.conn \/ ~gui.up)

\* An install the app shows ends, but for the answer that there is none to install,
\* which UpdateModel ignores meanwhile.
InstallEnds == (gui.state \in InstallStates) ~> (gui.state \notin InstallStates \/ dismissed)

=============================================================================
