--------------------------- MODULE DaemonLifecycle ---------------------------
(* The processes of one instance: daemons that start, find each other by the *)
(* pid file, its lock, the socket and the process list, and leave (daemon.rs,*)
(* uds_server.rs, event_loop.rs); the command line's start, stop and status; *)
(* the macOS app that connects, kills and respawns (Always.swift,            *)
(* CLIService.swift, StateMonitor.swift, UDSClient.swift).                   *)
EXTENDS Naturals, FiniteSets, Sequences

CONSTANTS
    MaxStarts,   \* bound: daemon processes ever started
    MaxFaults    \* bound: kills, self-exits and uses of the command line or the app

Daemons == 1..MaxStarts
None == 0        \* no process, no file

VARIABLES
    at,       \* what each daemon process is doing
    ours,     \* the daemons the app spawned: they exit without a client
    fd,       \* the pid file each daemon opened; a file is named by who created it
    pidFile,  \* the file that pid_path() names
    wrote,    \* the pid in each pid file
    lock,     \* who holds each pid file's lock
    sock,     \* the process whose socket the path names
    prey,     \* whom each daemon is about to kill
    app,      \* the app: its phase, its connection, starting up, respawn asked for
    job,      \* what the command line and each task of the app are working through
    pc,       \* and the step they are at
    marked,   \* whom they are about to kill
    faults,   \* what is left of MaxFaults
    unlinked  \* history: a pid file was removed while another daemon had it open

files == <<fd, pidFile, wrote, lock, sock>>
work  == <<job, pc, marked>>
vars  == <<at, ours, files, prey, app, work, faults, unlinked>>

Workers  == {"cli", "boot", "respawn", "quit"}
Starting == {"probe", "open", "lock", "recheck", "sweep", "kill", "stale", "unlink",
             "write", "record"}
Running  == {"check", "bind", "serving", "deaf"}
Canonical == (Starting \ {"probe", "open", "lock"}) \cup {"run", "unlock"} \cup Running
Leaving  == {"unlock", "leave", "leave socket"}

Alive    == {p \in Daemons : at[p] \notin {"none", "dead"}}   \* list_daemon_pids
Live     == sock \in Alive                                     \* socket_is_live
NamedPid == IF pidFile = None THEN None ELSE wrote[pidFile]    \* read_pid
HeldByWriter(f) == wrote[f] \in Alive   \* mutant
Held(f)  == lock[f] \in Alive

Init ==
    /\ at = [p \in Daemons |-> "none"] /\ ours = {}
    /\ fd = [p \in Daemons |-> None] /\ pidFile = None
    /\ wrote = [f \in Daemons |-> None] /\ lock = [f \in Daemons |-> None]
    /\ sock = None
    /\ prey = [p \in Daemons |-> {}]
    /\ app = [phase |-> "down", conn |-> None, boot |-> FALSE, asked |-> FALSE]
    /\ job = [k \in Workers |-> "none"] /\ pc = [k \in Workers |-> 0]
    /\ marked = [k \in Workers |-> {}]
    /\ faults = MaxFaults /\ unlinked = FALSE

Next1(p) == \A q \in 1..(p - 1) : at[q] # "none"   \* numbered as they start

\* The process list but for oneself.
Others(p) == Alive \ {p}

\* Removes what pid_path() names, though another daemon may hold it open.
UnlinkPid(by) ==
    /\ pidFile' = None
    /\ unlinked' = (unlinked \/ \E p \in Alive \ {by} : fd[p] # None /\ fd[p] = pidFile)

\* SIGTERM ends a daemon at once until its handlers are installed; then it cleans up.
Termed(S) == [p \in Daemons |->
    IF p \in S THEN CASE at[p] \in Starting \cup {"run"} -> "dead"
                      [] at[p] \in Running -> "leave"
                      [] OTHER -> at[p]
    ELSE at[p]]
Killed(S) == [p \in Daemons |-> IF p \in S /\ p \in Alive THEN "dead" ELSE at[p]]

-----------------------------------------------------------------------------
(* PidGuard::install and run.  A refused start exits without cleaning up.     *)

Spawned(p, mine) ==
    /\ at[p] = "none" /\ Next1(p)
    /\ at' = [at EXCEPT ![p] = "probe"]
    /\ ours' = IF mine THEN ours \cup {p} ELSE ours

Goes(p, from, to) == at[p] = from /\ at' = [at EXCEPT ![p] = to]
Keeps == UNCHANGED <<ours, app, work, faults>>

Probe(p) ==
    /\ Goes(p, "probe", IF Live THEN "dead" ELSE "open")
    /\ Keeps /\ UNCHANGED <<files, prey, unlinked>>

\* Opened without truncation, created when there is none.
OpenPid(p) ==
    /\ Goes(p, "open", "lock")
    /\ LET f == IF pidFile = None THEN p ELSE pidFile IN
        pidFile' = f /\ fd' = [fd EXCEPT ![p] = f]
    /\ Keeps /\ UNCHANGED <<wrote, lock, sock, prey, unlinked>>

LockIgnored(p) ==   \* mutant
    /\ Goes(p, "lock", "recheck")
    /\ lock' = [lock EXCEPT ![fd[p]] = IF Held(fd[p]) THEN @ ELSE p]
    /\ Keeps /\ UNCHANGED <<fd, pidFile, wrote, sock, prey, unlinked>>
TakePidLock(p) ==
    /\ Goes(p, "lock", IF Held(fd[p]) THEN "dead" ELSE "recheck")
    /\ lock' = [lock EXCEPT ![fd[p]] = IF Held(fd[p]) THEN @ ELSE p]
    /\ Keeps /\ UNCHANGED <<fd, pidFile, wrote, sock, prey, unlinked>>

\* A live socket after all: the pid file it may have created goes.
Recheck(p) ==
    /\ Goes(p, "recheck", IF Live THEN "dead" ELSE IF p \in ours THEN "stale" ELSE "sweep")
    /\ IF Live THEN UnlinkPid(p) ELSE UNCHANGED <<pidFile, unlinked>>
    /\ Keeps /\ UNCHANGED <<fd, wrote, lock, sock, prey>>

\* Everybody else on the list gets SIGTERM, and 200 ms later SIGKILL; a daemon
\* of the app skips this.
Sweep(p) ==
    /\ at[p] = "sweep"
    /\ at' = [Termed(Others(p)) EXCEPT ![p] = "kill"]
    /\ prey' = [prey EXCEPT ![p] = Others(p)]
    /\ Keeps /\ UNCHANGED <<files, unlinked>>
SweepKills(p) ==
    /\ at[p] = "kill"
    /\ at' = [Killed(prey[p]) EXCEPT ![p] = "stale"]
    /\ prey' = [prey EXCEPT ![p] = {}]
    /\ Keeps /\ UNCHANGED <<files, unlinked>>

\* remove_stale_socket: looks first, removes later.
IsStaleSocket == NamedPid \notin Alive /\ ~Live
StaleSocket(p) ==
    /\ Goes(p, "stale", IF IsStaleSocket THEN "unlink" ELSE "write")
    /\ Keeps /\ UNCHANGED <<files, prey, unlinked>>
UnlinkSocket(p) ==
    /\ Goes(p, "unlink", "write") /\ sock' = None
    /\ Keeps /\ UNCHANGED <<fd, pidFile, wrote, lock, prey, unlinked>>

WritePid(p) ==
    /\ Goes(p, "write", "record")
    /\ wrote' = [wrote EXCEPT ![fd[p]] = p]
    /\ Keeps /\ UNCHANGED <<fd, pidFile, lock, sock, prey, unlinked>>

\* The build record is stamped with the time of the file the path names; with no
\* file there the start fails, and letting go of the file gives up its lock.
WriteRecord(p) ==
    /\ Goes(p, "record", IF pidFile = None THEN "dead" ELSE "run")
    /\ Keeps /\ UNCHANGED <<files, prey, unlinked>>

\* The signal handlers, then the socket server; or an error and PidGuard::drop.
Run(p) ==
    /\ at[p] = "run"
    /\ \/ at' = [at EXCEPT ![p] = "check"] /\ UNCHANGED faults
       \/ at' = [at EXCEPT ![p] = "unlock"] /\ faults > 0 /\ faults' = faults - 1
    /\ UNCHANGED <<ours, app, work, files, prey, unlinked>>

\* start_server: a live socket is left alone, the daemon runs on without one; a dead
\* one is removed.
CheckSocket(p) ==
    /\ Goes(p, "check", IF Live THEN "deaf" ELSE "bind")
    /\ sock' = IF Live THEN sock ELSE None
    /\ Keeps /\ UNCHANGED <<fd, pidFile, wrote, lock, prey, unlinked>>
Bind(p) ==
    /\ Goes(p, "bind", IF sock = None THEN "serving" ELSE "deaf")
    /\ sock' = IF sock = None THEN p ELSE sock
    /\ Keeps /\ UNCHANGED <<fd, pidFile, wrote, lock, prey, unlinked>>

StartStep(p) ==
    \/ Probe(p) \/ OpenPid(p) \/ TakePidLock(p) \/ Recheck(p) \/ Sweep(p) \/ SweepKills(p)
    \/ StaleSocket(p) \/ UnlinkSocket(p) \/ WritePid(p) \/ WriteRecord(p) \/ Run(p)
    \/ CheckSocket(p) \/ Bind(p)

-----------------------------------------------------------------------------
(* reconcile_duplicate_processes, every 30 s of the main loop.                *)

Reconcile(p) ==
    /\ at[p] \in {"serving", "deaf"} /\ prey[p] = {} /\ Others(p) # {}
    /\ at' = Termed(Others(p)) /\ prey' = [prey EXCEPT ![p] = Others(p)]
    /\ Keeps /\ UNCHANGED <<files, unlinked>>
ReconcileKills(p) ==
    /\ at[p] \in Running \cup Leaving /\ prey[p] # {}
    /\ at' = Killed(prey[p]) /\ prey' = [prey EXCEPT ![p] = {}]
    /\ Keeps /\ UNCHANGED <<files, unlinked>>

\* PidGuard::drop unlocks first; the signal handler starts with the files, whatever
\* they name by then; the exits of the watchdogs leave the build record.
Unlock(p) ==
    /\ Goes(p, "unlock", "leave") /\ lock' = [lock EXCEPT ![fd[p]] = None]
    /\ Keeps /\ UNCHANGED <<fd, pidFile, wrote, sock, prey, unlinked>>
LeavePid(p) ==
    /\ Goes(p, "leave", "leave socket")
    /\ UnlinkPid(p)
    /\ Keeps /\ UNCHANGED <<fd, wrote, lock, sock, prey>>
LeaveSocket(p) ==
    /\ Goes(p, "leave socket", "dead") /\ sock' = None
    /\ prey' = [prey EXCEPT ![p] = {}]
    /\ Keeps /\ UNCHANGED <<fd, pidFile, wrote, lock, unlinked>>

Quits(p) ==
    /\ at' = [at EXCEPT ![p] = "leave socket"]
    /\ UnlinkPid(p)
    /\ UNCHANGED <<ours, app, work, fd, wrote, lock, sock, prey>>
\* No client for two minutes; a running app that can reach the socket is faster.
OrphanExit(p) ==
    /\ at[p] = "serving" /\ p \in ours /\ app.conn # p /\ (app.phase # "up" \/ sock # p)
    /\ Quits(p) /\ UNCHANGED faults
\* The memory ceiling, or a recorder that cannot be revived.
SelfExit(p) ==
    /\ at[p] = "serving" /\ faults > 0 /\ faults' = faults - 1 /\ Quits(p)
Crash(p) ==
    /\ p \in Alive /\ faults > 0 /\ faults' = faults - 1
    /\ at' = [at EXCEPT ![p] = "dead"]
    /\ prey' = [prey EXCEPT ![p] = {}]
    /\ UNCHANGED <<ours, files, app, work, unlinked>>

DaemonStep(p) ==
    \/ StartStep(p) \/ Reconcile(p) \/ ReconcileKills(p)
    \/ Unlock(p) \/ LeavePid(p) \/ LeaveSocket(p) \/ OrphanExit(p)

-----------------------------------------------------------------------------
(* The command line and the app's tasks, each a list of steps: always start,  *)
(* stop and status; the app's launch, its restart of a daemon, its quitting.  *)

KillNamed == <<"named", "rm named", "rm socket">>   \* mutant
KillStale == <<"named", "rm named", "term", "kill all", "rm socket">>
StartOne  == <<"start", "wait">>
Tidy      == <<"stale pid", "rm pid", "stale socket", "rm stale socket">>
Plan == [
    start   |-> <<"look", "term", "kill">> \o Tidy \o <<"look", "spawn">>,
    stop    |-> <<"term", "kill">> \o Tidy \o <<"named">>,
    status  |-> <<"report", "stale pid", "rm pid">>,
    launch  |-> <<"healthy">> \o KillStale \o StartOne \o <<"count">> \o KillStale \o StartOne,
    restart |-> KillStale \o StartOne,
    quit    |-> KillStale]

Doing(k, step) == job[k] # "none" /\ Plan[job[k]][pc[k]] = step
Ends(k)        == job' = [job EXCEPT ![k] = "none"] /\ pc' = [pc EXCEPT ![k] = 0]
Skips(k, n)    == IF pc[k] + n > Len(Plan[job[k]]) THEN Ends(k)
                  ELSE pc' = [pc EXCEPT ![k] = @ + n] /\ UNCHANGED job
Begins(k, plan) == job' = [job EXCEPT ![k] = plan] /\ pc' = [pc EXCEPT ![k] = 1]
Marks(k, S)    == marked' = [marked EXCEPT ![k] = S]

\* The app's process ends, and its tasks with it.
Gone ==
    /\ app' = [phase |-> "down", conn |-> None, boot |-> FALSE, asked |-> FALSE]
    /\ job' = [k \in Workers |-> IF k = "cli" THEN job[k] ELSE "none"]
    /\ pc' = [k \in Workers |-> IF k = "cli" THEN pc[k] ELSE 0]
    /\ marked' = [k \in Workers |-> IF k = "cli" THEN marked[k] ELSE {}]

\* is_running, or a socket that answers
SeenRunning == NamedPid \in Alive \/ Live

\* start refuses when it finds a daemon, before and after its sweep.
Look(k) ==
    /\ Doing(k, "look")
    /\ IF SeenRunning \/ Alive # {} THEN Ends(k) ELSE Skips(k, 1)
    /\ UNCHANGED <<at, ours, files, prey, marked, app, faults, unlinked>>
Report(k) ==
    /\ Doing(k, "report") /\ IF SeenRunning THEN Ends(k) ELSE Skips(k, 1)
    /\ UNCHANGED <<at, ours, files, prey, marked, app, faults, unlinked>>

\* Everyone on the list gets SIGTERM; the command kills those it found, the app
\* whoever is on the list by then.
Term(k) ==
    /\ Doing(k, "term")
    /\ at' = Termed(Alive) /\ Marks(k, Alive) /\ Skips(k, 1)
    /\ UNCHANGED <<ours, files, prey, app, faults, unlinked>>
Kill(k) ==
    /\ Doing(k, "kill") \/ Doing(k, "kill all")
    /\ at' = Killed(IF Doing(k, "kill") THEN marked[k] ELSE Alive)
    /\ Marks(k, {}) /\ Skips(k, 1)
    /\ UNCHANGED <<ours, files, prey, app, faults, unlinked>>

\* The daemon the pid file names gets its SIGTERM alone; the app waits two seconds,
\* kills it and removes the pid file, whatever it names by then.
Named(k) ==
    /\ Doing(k, "named") /\ Skips(k, 1)
    /\ at' = Termed({NamedPid} \cap Alive)
    /\ Marks(k, IF k = "cli" THEN {} ELSE {NamedPid} \cap Alive)
    /\ UNCHANGED <<ours, files, prey, app, faults, unlinked>>
RemoveNamed(k) ==
    /\ Doing(k, "rm named") /\ Skips(k, 1)
    /\ at' = Killed(marked[k]) /\ Marks(k, {}) /\ UnlinkPid(None)
    /\ UNCHANGED <<ours, fd, wrote, lock, sock, prey, app, faults>>

\* remove_stale_pid and remove_stale_socket: each looks, then removes.
StalePid(k) ==
    /\ Doing(k, "stale pid")
    /\ Skips(k, IF NamedPid \notin Alive \cup {None} THEN 1 ELSE 2)
    /\ UNCHANGED <<at, ours, files, prey, marked, app, faults, unlinked>>
RemovePid(k) ==
    /\ Doing(k, "rm pid") /\ Skips(k, 1) /\ UnlinkPid(None)
    /\ UNCHANGED <<at, ours, fd, wrote, lock, sock, prey, marked, app, faults>>
StaleSocketSeen(k) ==
    /\ Doing(k, "stale socket") /\ Skips(k, IF IsStaleSocket THEN 1 ELSE 2)
    /\ UNCHANGED <<at, ours, files, prey, marked, app, faults, unlinked>>
RemoveSocket(k) ==
    /\ Doing(k, "rm stale socket") \/ Doing(k, "rm socket")
    /\ sock' = None
    /\ IF job[k] = "quit" THEN Gone ELSE Skips(k, 1) /\ UNCHANGED <<app, marked>>
    /\ UNCHANGED <<at, ours, fd, pidFile, wrote, lock, prey, faults, unlinked>>

SpawnFromCli(k) ==
    /\ Doing(k, "spawn") /\ Ends(k)
    /\ \E p \in Daemons : Spawned(p, FALSE)
    /\ UNCHANGED <<files, prey, marked, app, faults, unlinked>>

\* A healthy daemon is kept; more than one, and all of them go.
Healthy(k) ==
    /\ Doing(k, "healthy")
    /\ Skips(k, IF Live /\ Cardinality(Alive) <= 1 THEN 1 + Len(KillStale \o StartOne) ELSE 1)
    /\ UNCHANGED <<at, ours, files, prey, marked, app, faults, unlinked>>
Count(k) ==
    /\ Doing(k, "count") /\ IF Cardinality(Alive) > 1 THEN Skips(k, 1) ELSE Ends(k)
    /\ UNCHANGED <<at, ours, files, prey, marked, app, faults, unlinked>>

\* startDaemon: a daemon without a socket is waited for, for 15 seconds.  The launch
\* that is being quit stops here; its failure ends the bootstrap.
StartDaemon(k) ==
    /\ Doing(k, "start") /\ ~(k = "boot" /\ app.phase = "quitting")
    /\ IF Live THEN Skips(k, 2) ELSE Skips(k, 1)
    /\ IF Live \/ Alive # {} THEN UNCHANGED <<at, ours>> ELSE \E p \in Daemons : Spawned(p, TRUE)
    /\ UNCHANGED <<files, prey, marked, app, faults, unlinked>>
Wait(k) ==
    /\ Doing(k, "wait")
    /\ \/ Live /\ Skips(k, 1) /\ UNCHANGED app
       \/ /\ ~Live /\ Ends(k)
          /\ app' = [app EXCEPT !.boot = @ /\ ~(k = "boot" /\ pc[k] < Len(Plan.launch))]
    /\ UNCHANGED <<at, ours, files, prey, marked, faults, unlinked>>

Work(k) ==
    \/ Look(k) \/ Report(k) \/ Term(k) \/ Kill(k) \/ Named(k) \/ RemoveNamed(k)
    \/ StalePid(k) \/ RemovePid(k) \/ StaleSocketSeen(k) \/ RemoveSocket(k)
    \/ SpawnFromCli(k) \/ Healthy(k) \/ Count(k) \/ StartDaemon(k) \/ Wait(k)

\* Somebody types a command; always run is a daemon at once.
Command ==
    /\ faults > 0 /\ faults' = faults - 1 /\ job["cli"] = "none"
    /\ \/ /\ \E c \in {"start", "stop", "status"} : Begins("cli", c)
          /\ UNCHANGED <<at, ours, marked>>
       \/ (\E p \in Daemons : Spawned(p, FALSE)) /\ UNCHANGED work
    /\ UNCHANGED <<files, prey, app, unlinked>>

-----------------------------------------------------------------------------
(* The app.                                                                   *)

Launch ==
    /\ app.phase = "down" /\ faults > 0 /\ faults' = faults - 1
    /\ app' = [phase |-> "up", conn |-> None, boot |-> TRUE, asked |-> FALSE]
    /\ Begins("boot", "launch")
    /\ UNCHANGED <<at, ours, files, prey, marked, unlinked>>

\* A connection ends the bootstrap and allows the next outage its respawn.
Connect ==
    /\ app.phase = "up" /\ app.conn = None /\ Live
    /\ app' = [app EXCEPT !.conn = sock, !.boot = FALSE, !.asked = FALSE]
    /\ UNCHANGED <<at, ours, files, prey, work, faults, unlinked>>
Disconnect ==
    /\ app.conn \notin Alive \cup {None} /\ app' = [app EXCEPT !.conn = None]
    /\ UNCHANGED <<at, ours, files, prey, work, faults, unlinked>>

\* Three connects have failed: one request per outage, lost when a restart is
\* already running.
AskRespawn ==
    /\ app.phase = "up" /\ app.conn = None /\ ~Live /\ ~app.boot /\ ~app.asked
    /\ app' = [app EXCEPT !.asked = TRUE]
    /\ IF job["respawn"] = "none" THEN Begins("respawn", "restart") /\ UNCHANGED marked
       ELSE UNCHANGED work
    /\ UNCHANGED <<at, ours, files, prey, faults, unlinked>>
FixStuckMic ==
    /\ app.phase = "up" /\ faults > 0 /\ faults' = faults - 1
    /\ job["respawn"] = "none" /\ Begins("respawn", "restart")
    /\ UNCHANGED <<at, ours, files, prey, marked, app, unlinked>>

Quit ==
    /\ app.phase = "up" /\ faults > 0 /\ faults' = faults - 1
    /\ app' = [app EXCEPT !.phase = "quitting", !.conn = None]
    /\ Begins("quit", "quit")
    /\ UNCHANGED <<at, ours, files, prey, marked, unlinked>>
AppCrash ==
    /\ app.phase = "up" /\ faults > 0 /\ faults' = faults - 1
    /\ Gone /\ UNCHANGED <<at, ours, files, prey, unlinked>>

Faults == \/ \E p \in Daemons : SelfExit(p) \/ Crash(p)
          \/ Command \/ Launch \/ FixStuckMic \/ Quit \/ AppCrash

Next ==
    \/ \E p \in Daemons : DaemonStep(p)
    \/ \E k \in Workers : Work(k)
    \/ Connect \/ Disconnect \/ AskRespawn \/ Faults

\* Processes run, the main loop looks for duplicates every 30 s, the orphan watchdog
\* ticks, and the app's client retries and counts for ever.
Fairness ==
    /\ \A p \in Daemons : WF_vars(DaemonStep(p))
    /\ \A k \in Workers : WF_vars(Work(k))
    /\ WF_vars(Connect) /\ WF_vars(Disconnect) /\ WF_vars(AskRespawn)
Spec == Init /\ [][Next]_vars /\ Fairness

-----------------------------------------------------------------------------
(* Correctness.                                                               *)

TypeOK ==
    /\ at \in [Daemons -> {"none", "dead", "run"} \cup Starting \cup Running \cup Leaving]
    /\ ours \subseteq Daemons
    /\ pidFile \in Daemons \cup {None} /\ sock \in Daemons \cup {None}
    /\ {fd, wrote, lock} \subseteq [Daemons -> Daemons \cup {None}]
    /\ prey \in [Daemons -> SUBSET Daemons] /\ marked \in [Workers -> SUBSET Daemons]
    /\ app.phase \in {"down", "up", "quitting"} /\ app.conn \in Daemons \cup {None}
    /\ \A k \in Workers : job[k] # "none" => pc[k] \in 1..Len(Plan[job[k]])

\* Only one daemon (SPEC.md:62, I5): past the lock there is one, while no pid file is
\* removed under a daemon that has it open (daemon.rs PidGuard::install).
OneDaemon ==
    unlinked \/ \A p, q \in Daemons : {at[p], at[q]} \subseteq Canonical => p = q

\* A starting daemon's sweep never hits the daemon of the pid file: "any process
\* listed here CANNOT be the canonical daemon" (daemon.rs:1272).
SweepSparesTheDaemon ==
    [][\A p \in Daemons : Sweep(p) \/ SweepKills(p) =>
          \A q \in Daemons \ {p} : at[q] \in Canonical => unlinked \/ at'[q] = at[q]]_vars

Exhausted == at[MaxStarts] # "none"          \* of the bound MaxStarts
\* Once nothing more fails and nobody else is killing and removing, the one respawn
\* request of an outage is enough (UDSClient.swift scheduleReconnect).
AppComesBack ==
    (/\ app.phase = "up" /\ ~app.boot /\ ~app.asked
     /\ faults = 0 /\ \A k \in Workers : job[k] = "none")
        ~> (app.conn # None \/ Exhausted)

=============================================================================
