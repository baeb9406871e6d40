----------------------- MODULE DaemonLifecycleProofs -----------------------
(* Theorems about DaemonLifecycle, for any number of daemons ever started and *)
(* of kills, exits and commands; and about the Updater that replaces what the *)
(* daemons run, for any number of updates, installers and interruptions.      *)
EXTENDS DaemonLifecycle, UpdatePromise, SequenceTheorems, TLAPS

CONSTANTS MaxRequests, MaxInterruptions, MaxInstallers, MaxLink
VARIABLES published, daemon, stored, checks, upd, dir, inst, link, gui,
          requests, interruptions, dismissed

\* Its constants and variables have their own names, but for what both call faults.
Update == INSTANCE Updater WITH MaxFaults <- MaxInterruptions, faults <- interruptions

-----------------------------------------------------------------------------
(* The inductive invariant.                                                   *)

States == {"none", "dead", "run"} \cup Starting \cup Running \cup Leaving

\* A daemon that has the pid file open and has not removed it.
Opened == (Starting \ {"probe", "open"}) \cup {"run", "unlock", "leave"} \cup Running

Typed ==
    /\ at \in [Daemons -> States] /\ ours \subseteq Daemons
    /\ pidFile \in Daemons \cup {None} /\ sock \in Daemons \cup {None}
    /\ fd \in [Daemons -> Daemons \cup {None}]
    /\ wrote \in [Daemons -> Daemons \cup {None}] /\ lock \in [Daemons -> Daemons \cup {None}]
    /\ prey \in [Daemons -> SUBSET Daemons] /\ marked \in [Workers -> SUBSET Daemons]
    /\ app \in [phase : {"down", "up", "quitting"}, conn : Daemons \cup {None},
                boot : BOOLEAN, asked : BOOLEAN]

\* Each worker is within the plan it follows.
Plans == {"start", "stop", "status", "launch", "restart", "quit"}
Planned ==
    /\ job \in [Workers -> Plans \cup {"none"}] /\ pc \in [Workers -> Nat]
    /\ \A k \in Workers : job[k] # "none" => pc[k] \in 1..Len(Plan[job[k]])

\* Whoever is past the open has a file, and, while none was removed under a daemon,
\* it is the one the path names.
OpenNamed ==
    \A p \in Daemons : at[p] \in Opened =>
        fd[p] \in Daemons /\ (unlinked \/ fd[p] = pidFile)

\* Past the lock, each holds the lock of its file.
Holds == \A p \in Daemons : at[p] \in Canonical => lock[fd[p]] = p

IInv == Typed /\ Planned /\ OpenNamed /\ Holds

-----------------------------------------------------------------------------
(* Facts about the operators.                                                 *)

\* Every plan has at least one step.
LEMMA PlanLengths == \A j \in Plans : Len(Plan[j]) \in Nat \ {0}
<1> USE DEF KillStale, StartOne, Tidy
<1>1. Len(Plan["start"]) = 9
  BY DEF Plan
<1>2. Len(Plan["stop"]) = 7
  BY DEF Plan
<1>3. Len(Plan["status"]) = 3
  BY DEF Plan
<1>4. Len(Plan["launch"]) = 16
  BY DEF Plan
<1>5. Len(Plan["restart"]) = 7
  BY DEF Plan
<1>6. Len(Plan["quit"]) = 5
  BY DEF Plan
<1>7. ASSUME NEW j \in Plans PROVE Len(Plan[j]) \in {9, 7, 3, 16, 5}
  BY <1>1, <1>2, <1>3, <1>4, <1>5, <1>6, <1>7, Zenon DEF Plans
<1>8. \A n \in {9, 7, 3, 16, 5} : n \in Nat \ {0}
  OBVIOUS
<1> QED
  BY <1>7, <1>8

\* Those of the two lists the app skips over as a whole.
LEMMA SkipLength == Len(KillStale \o StartOne) = 7
BY DEF KillStale, StartOne

\* A signal moves a daemon to its end or to its cleaning up, or not at all.
Faded(a, b) == a = b \/ a = "dead" \/ (a = "leave" /\ b \in Running)

LEMMA TermedFades ==
    ASSUME Typed, NEW S
    PROVE  Termed(S) \in [Daemons -> States] /\ \A p \in Daemons : Faded(Termed(S)[p], at[p])
<1>1. ASSUME NEW p \in Daemons
      PROVE  Termed(S)[p] \in States /\ Faded(Termed(S)[p], at[p])
  <2>1. at[p] \in States
    BY DEF Typed
  <2>2. Termed(S)[p] \in {"dead", at[p]} \/ (Termed(S)[p] = "leave" /\ at[p] \in Running)
    BY DEF Termed
  <2> QED
    BY <2>1, <2>2 DEF Faded, States, Leaving
<1>2. DOMAIN Termed(S) = Daemons /\ Termed(S) = [p \in Daemons |-> Termed(S)[p]]
  BY DEF Termed
<1> QED
  BY <1>1, <1>2

LEMMA KilledFades ==
    ASSUME Typed, NEW S
    PROVE  Killed(S) \in [Daemons -> States] /\ \A p \in Daemons : Faded(Killed(S)[p], at[p])
BY DEF Typed, Killed, Faded, States

\* No process and no file is none of the daemons.
LEMMA NoneIsNobody == None \notin Daemons
BY DEF None, Daemons

-----------------------------------------------------------------------------
(* The workers stay within their plans.                                       *)

\* A worker starts a plan at its first step, ends it, or goes on within it.
LEMMA BeginsPlanned ==
    ASSUME Planned, NEW k \in Workers, NEW plan \in Plans, Begins(k, plan) PROVE Planned'
BY PlanLengths DEF Planned, Begins, Plans

LEMMA EndsPlanned ==
    ASSUME Planned, NEW k \in Workers, Ends(k) PROVE Planned'
BY DEF Planned, Ends, Plans

LEMMA SkipsPlanned ==
    ASSUME Planned, NEW k \in Workers, NEW n \in Nat \ {0}, job[k] # "none", Skips(k, n)
    PROVE  Planned'
<1>1. CASE pc[k] + n > Len(Plan[job[k]])
  BY <1>1, EndsPlanned DEF Skips
<1>2. CASE ~(pc[k] + n > Len(Plan[job[k]]))
  <2>1. /\ job[k] \in Plans /\ pc[k] \in Nat /\ Len(Plan[job[k]]) \in Nat
        /\ job \in [Workers -> Plans \cup {"none"}] /\ pc \in [Workers -> Nat]
    BY PlanLengths DEF Planned
  <2>2. pc[k] + n \in 1..Len(Plan[job[k]]) /\ job' = job /\ pc' = [pc EXCEPT ![k] = pc[k] + n]
    BY <1>2, <2>1 DEF Skips
  <2> QED
    BY <2>1, <2>2 DEF Planned
<1> QED
  BY <1>1, <1>2

\* The tasks of the app end with it.
LEMMA GonePlanned == ASSUME Planned, Gone PROVE Planned'
BY DEF Planned, Gone

LEMMA SamePlanned == ASSUME Planned, UNCHANGED <<job, pc>> PROVE Planned'
BY DEF Planned

\* Every step keeps it.
LEMMA StepPlanned == ASSUME Planned, [Next]_vars PROVE Planned'
<1> USE SamePlanned DEF work, Keeps
<1>1. CASE UNCHANGED vars
  BY <1>1 DEF vars
<1>2. ASSUME NEW p \in Daemons, DaemonStep(p) \/ SelfExit(p) \/ Crash(p) PROVE Planned'
  BY <1>2 DEF DaemonStep, StartStep, Probe, OpenPid, TakePidLock, Recheck, Sweep, SweepKills,
     StaleSocket, UnlinkSocket, WritePid, WriteRecord, Run, CheckSocket, Bind, Reconcile,
     ReconcileKills, Unlock, LeavePid, LeaveSocket, OrphanExit, Quits, SelfExit, Crash
<1>3. ASSUME NEW k \in Workers, Work(k) PROVE Planned'
  <2> USE EndsPlanned, SkipsPlanned DEF Doing
  <2>1. CASE Look(k)            BY <2>1 DEF Look
  <2>2. CASE Report(k)          BY <2>2 DEF Report
  <2>3. CASE Term(k)            BY <2>3 DEF Term
  <2>4. CASE Kill(k)
    <3>1. job[k] # "none" /\ Skips(k, 1)   BY <2>4 DEF Kill
    <3> QED                                BY <3>1
  <2>5. CASE Named(k)           BY <2>5 DEF Named
  <2>6. CASE RemoveNamed(k) \/ RemovePid(k)
    <3>1. job[k] # "none" /\ Skips(k, 1)   BY <2>6 DEF RemoveNamed, RemovePid
    <3> QED                                BY <3>1
  <2>7. CASE StalePid(k) \/ StaleSocketSeen(k)
    <3>1. job[k] # "none" /\ (Skips(k, 1) \/ Skips(k, 2))
      BY <2>7 DEF StalePid, StaleSocketSeen
    <3> QED
      BY <3>1
  <2>10. CASE RemoveSocket(k)
    <3>1. job[k] # "none" /\ (Gone \/ Skips(k, 1))   BY <2>10 DEF RemoveSocket
    <3> QED                                          BY <3>1, GonePlanned
  <2>11. CASE SpawnFromCli(k)   BY <2>11 DEF SpawnFromCli
  <2>12. CASE Healthy(k)        BY <2>12, SkipLength DEF Healthy
  <2>13. CASE Count(k)          BY <2>13 DEF Count
  <2>14. CASE StartDaemon(k)    BY <2>14 DEF StartDaemon
  <2>15. CASE Wait(k)           BY <2>15 DEF Wait
  <2> QED
    BY <1>3, <2>1, <2>2, <2>3, <2>4, <2>5, <2>6, <2>7, <2>10, <2>11, <2>12, <2>13, <2>14, <2>15
    DEF Work
<1>4. Command => Planned'
  <2>1. "cli" \in Workers /\ {"start", "stop", "status"} \subseteq Plans
    BY DEF Workers, Plans
  <2> QED
    BY <2>1, BeginsPlanned DEF Command
<1>5. Launch \/ FixStuckMic \/ Quit \/ AskRespawn => Planned'
  <2>1. /\ {"boot", "respawn", "quit"} \subseteq Workers
        /\ {"launch", "restart", "quit"} \subseteq Plans
    BY DEF Workers, Plans
  <2> QED
    BY <2>1, BeginsPlanned DEF Launch, FixStuckMic, Quit, AskRespawn
<1>6. Connect \/ Disconnect \/ AppCrash => Planned'
  BY GonePlanned DEF Connect, Disconnect, AppCrash
<1> QED
  BY <1>1, <1>2, <1>3, <1>4, <1>5, <1>6 DEF Next, Faults

-----------------------------------------------------------------------------
(* Types.                                                                     *)

\* The pid file is removed, or one of the daemons' files is.
LEMMA UnlinksTyped == ASSUME Typed, NEW by, UnlinkPid(by) PROVE pidFile' \in Daemons \cup {None}
BY DEF UnlinkPid

\* A daemon's own step: its state, and the files it has the name of.
LEMMA StartTyped == ASSUME Typed, NEW p \in Daemons, StartStep(p) PROVE Typed'
<1> USE DEF Typed, files, Keeps, work, Goes, States, Starting, Running, Leaving
<1>1. CASE Probe(p)         BY <1>1 DEF Probe
<1>2. CASE OpenPid(p)       BY <1>2 DEF OpenPid
<1>3. CASE TakePidLock(p)   BY <1>3 DEF TakePidLock
<1>4. CASE Recheck(p)       BY <1>4, UnlinksTyped DEF Recheck
<1>5. CASE Sweep(p)
  <2>1. at' \in [Daemons -> States] /\ Others(p) \subseteq Daemons
    BY <1>5, TermedFades DEF Sweep, Others, Alive
  <2> QED
    BY <1>5, <2>1 DEF Sweep
<1>6. CASE SweepKills(p)
  <2>1. at' \in [Daemons -> States]
    BY <1>6, KilledFades DEF SweepKills
  <2> QED
    BY <1>6, <2>1 DEF SweepKills
<1>7. CASE StaleSocket(p)   BY <1>7 DEF StaleSocket
<1>8. CASE UnlinkSocket(p)  BY <1>8 DEF UnlinkSocket
<1>9. CASE WritePid(p)      BY <1>9 DEF WritePid
<1>10. CASE WriteRecord(p)  BY <1>10 DEF WriteRecord
<1>11. CASE Run(p)          BY ZenonT(30), <1>11 DEF Run
<1>12. CASE CheckSocket(p)  BY <1>12 DEF CheckSocket
<1>13. CASE Bind(p)         BY <1>13 DEF Bind
<1> QED
  BY <1>1, <1>2, <1>3, <1>4, <1>5, <1>6, <1>7, <1>8, <1>9, <1>10, <1>11, <1>12, <1>13
  DEF StartStep

\* What a running daemon does to others, and how it leaves.
LEMMA LeaveTyped ==
    ASSUME Typed, NEW p \in Daemons,
           \/ Reconcile(p) \/ ReconcileKills(p) \/ Unlock(p) \/ LeavePid(p) \/ LeaveSocket(p)
           \/ OrphanExit(p) \/ SelfExit(p) \/ Crash(p)
    PROVE  Typed'
<1>1. CASE Reconcile(p)
  <2>1. at' \in [Daemons -> States] /\ Others(p) \subseteq Daemons
    BY <1>1, TermedFades DEF Reconcile, Others, Alive
  <2> QED
    BY <1>1, <2>1 DEF Reconcile, Typed, Keeps, files, work
<1>2. CASE ReconcileKills(p)
  <2>1. at' \in [Daemons -> States]
    BY <1>2, KilledFades DEF ReconcileKills
  <2> QED
    BY <1>2, <2>1 DEF ReconcileKills, Typed, Keeps, files, work
<1> USE DEF Typed, files, Keeps, work, Goes, States, Leaving
<1>3. CASE Unlock(p)        BY <1>3 DEF Unlock
<1>4. CASE LeavePid(p)      BY <1>4, UnlinksTyped DEF LeavePid
<1>5. CASE LeaveSocket(p)   BY <1>5 DEF LeaveSocket
<1>6. CASE OrphanExit(p)    BY <1>6, UnlinksTyped DEF OrphanExit, Quits
<1>7. CASE SelfExit(p)      BY <1>7, UnlinksTyped DEF SelfExit, Quits
<1>8. CASE Crash(p)         BY <1>8 DEF Crash
<1> QED
  BY <1>1, <1>2, <1>3, <1>4, <1>5, <1>6, <1>7, <1>8

\* A daemon is started.
LEMMA SpawnTyped ==
    ASSUME Typed, NEW p \in Daemons, NEW mine \in BOOLEAN, Spawned(p, mine)
    PROVE  at' \in [Daemons -> States] /\ ours' \subseteq Daemons
BY DEF Typed, Spawned, States, Starting

\* The app ends, and its tasks with it.
AppStates == [phase : {"down", "up", "quitting"}, conn : Daemons \cup {None},
              boot : BOOLEAN, asked : BOOLEAN]
LEMMA GoneTyped ==
    ASSUME Typed, Gone PROVE app' \in AppStates /\ marked' \in [Workers -> SUBSET Daemons]
<1>1. app' \in AppStates
  BY DEF Gone, AppStates
<1>2. \A k \in Workers : marked[k] \in SUBSET Daemons
  BY DEF Typed
<1>3. marked' \in [Workers -> SUBSET Daemons]
  BY <1>2 DEF Gone
<1> QED
  BY <1>1, <1>3

\* The steps of the command line and of the app's tasks.
LEMMA WorkTyped == ASSUME Typed, NEW k \in Workers, Work(k) PROVE Typed'
<1> USE DEF Typed, files, Marks
<1>1. CASE Look(k) \/ Report(k) \/ StalePid(k) \/ StaleSocketSeen(k) \/ Healthy(k) \/ Count(k)
  BY <1>1 DEF Look, Report, StalePid, StaleSocketSeen, Healthy, Count
<1>2. CASE Term(k)
  <2>1. at' \in [Daemons -> States]   BY <1>2, TermedFades DEF Term
  <2> QED                             BY <1>2, <2>1 DEF Term, Alive
<1>3. CASE Kill(k)
  <2>1. at' \in [Daemons -> States]   BY <1>3, KilledFades DEF Kill
  <2> QED                             BY <1>3, <2>1 DEF Kill
<1>4. CASE Named(k)
  <2>1. at' \in [Daemons -> States]   BY <1>4, TermedFades DEF Named
  <2> QED                             BY <1>4, <2>1 DEF Named, Alive
<1>5. CASE RemoveNamed(k)
  <2>1. at' \in [Daemons -> States]   BY <1>5, KilledFades DEF RemoveNamed
  <2> QED                             BY <1>5, <2>1, UnlinksTyped DEF RemoveNamed
<1>6. CASE RemovePid(k)
  BY <1>6, UnlinksTyped DEF RemovePid
<1>7. CASE RemoveSocket(k)
  <2>1. app' \in AppStates /\ marked' \in [Workers -> SUBSET Daemons]
    BY <1>7, GoneTyped DEF RemoveSocket, AppStates
  <2> QED
    BY <1>7, <2>1 DEF RemoveSocket, AppStates
<1>8. CASE SpawnFromCli(k)
  <2>1. at' \in [Daemons -> States] /\ ours' \subseteq Daemons
    BY <1>8, SpawnTyped DEF SpawnFromCli
  <2> QED
    BY <1>8, <2>1 DEF SpawnFromCli
<1>9. CASE StartDaemon(k)
  <2>1. at' \in [Daemons -> States] /\ ours' \subseteq Daemons
    BY <1>9, SpawnTyped DEF StartDaemon
  <2> QED
    BY <1>9, <2>1 DEF StartDaemon
<1>10. CASE Wait(k)
  BY <1>10 DEF Wait
<1> QED
  BY <1>1, <1>2, <1>3, <1>4, <1>5, <1>6, <1>7, <1>8, <1>9, <1>10 DEF Work

\* Every step keeps the types.
LEMMA StepTyped == ASSUME Typed, [Next]_vars PROVE Typed'
<1>1. ASSUME NEW p \in Daemons, DaemonStep(p) \/ SelfExit(p) \/ Crash(p) PROVE Typed'
  BY <1>1, StartTyped, LeaveTyped DEF DaemonStep
<1>2. ASSUME Command PROVE Typed'
  <2>1. at' \in [Daemons -> States] /\ ours' \subseteq Daemons
    BY <1>2, SpawnTyped DEF Command, Typed
  <2> QED
    BY <1>2, <2>1 DEF Command, Typed, files, work
<1> USE DEF Typed, files, work
<1>3. CASE UNCHANGED vars
  BY <1>3 DEF vars
<1>4. CASE Connect \/ Disconnect \/ AskRespawn
  <2>1. Alive \subseteq Daemons
    BY DEF Alive
  <2> QED
    BY <1>4, <2>1 DEF Connect, Disconnect, AskRespawn, Live
<1>5. CASE Launch
  <2>1. app' \in AppStates
    BY <1>5 DEF Launch, AppStates
  <2> QED
    BY <1>5, <2>1 DEF Launch, AppStates
<1>8. CASE FixStuckMic
  BY <1>8 DEF FixStuckMic
<1>7. CASE Quit
  BY <1>7 DEF Quit
<1>6. CASE AppCrash
  <2>1. app' \in AppStates /\ marked' \in [Workers -> SUBSET Daemons]
    BY <1>6, GoneTyped DEF AppCrash
  <2> QED
    BY <1>6, <2>1 DEF AppCrash, AppStates
<1> QED
  BY <1>1, <1>2, <1>3, <1>4, <1>5, <1>6, <1>7, <1>8, WorkTyped DEF Next, Faults

-----------------------------------------------------------------------------
(* The pid file and its lock.                                                 *)

\* A step that opens and locks nothing.  A pid file that it removes is marked as
\* removed under those who have it open, but for the one who removes it and leaves.
Quiet ==
    /\ UNCHANGED <<fd, lock>>
    /\ \A p \in Daemons : /\ at'[p] \in Opened => at[p] \in Opened
                          /\ at'[p] \in Canonical => at[p] \in Canonical
    /\ \/ UNCHANGED <<pidFile, unlinked>>
       \/ UnlinkPid(None)
       \/ \E p \in Daemons : UnlinkPid(p) /\ at'[p] \notin Opened

\* The states of the names.
LEMMA CanonicalIsOpened == Canonical \subseteq Opened
BY DEF Canonical, Opened, Starting, Running

LEMMA OpenedIsAlive == \A p \in Daemons : at[p] \in Opened => p \in Alive
BY DEF Alive, Opened, Starting, Running

LEMMA QuietKeeps ==
    ASSUME Typed, OpenNamed, Holds, Quiet
    PROVE  OpenNamed' /\ Holds'
<1>1. Holds'
  BY DEF Holds, Quiet
<1>2. ASSUME NEW p \in Daemons, at'[p] \in Opened
      PROVE  fd[p] \in Daemons /\ (unlinked' \/ fd[p] = pidFile')
  <2>1. at[p] \in Opened /\ fd[p] \in Daemons /\ (unlinked \/ fd[p] = pidFile) /\ p \in Alive
    BY <1>2, OpenedIsAlive DEF Quiet, OpenNamed
  <2>2. CASE UNCHANGED <<pidFile, unlinked>>
    BY <2>1, <2>2
  <2>3. ASSUME NEW by, UnlinkPid(by), p # by PROVE unlinked'
    BY <2>1, <2>3, NoneIsNobody DEF UnlinkPid
  <2>4. CASE UnlinkPid(None)
    BY <2>1, <2>3, <2>4, NoneIsNobody
  <2>5. CASE \E q \in Daemons : UnlinkPid(q) /\ at'[q] \notin Opened
    BY <1>2, <2>1, <2>3, <2>5
  <2> QED
    BY <2>2, <2>4, <2>5 DEF Quiet
<1>3. OpenNamed'
  BY <1>2 DEF OpenNamed, Quiet
<1> QED
  BY <1>1, <1>3

\* A signal is quiet.
LEMMA FadedIsQuiet ==
    ASSUME NEW a, NEW b, Faded(a, b)
    PROVE  (a \in Opened => b \in Opened) /\ (a \in Canonical => b \in Canonical)
BY DEF Faded, Opened, Canonical, Starting, Running

\* So is every step of a daemon but the opening, the locking and the unlocking.
LEMMA DaemonQuiet ==
    ASSUME Typed, NEW p \in Daemons, DaemonStep(p) \/ SelfExit(p) \/ Crash(p),
           ~OpenPid(p), ~TakePidLock(p), ~Unlock(p)
    PROVE  Quiet
<1>1. CASE Sweep(p) \/ SweepKills(p) \/ Reconcile(p) \/ ReconcileKills(p)
  <2>1. ASSUME NEW q \in Daemons, q # p PROVE Faded(at'[q], at[q])
    BY <1>1, <2>1, TermedFades, KilledFades
    DEF Sweep, SweepKills, Reconcile, ReconcileKills, Typed
  <2>2. \/ Faded(at'[p], at[p])
        \/ at[p] \in {"sweep", "kill"} /\ at'[p] \in {"kill", "stale"}
    BY <1>1, TermedFades, KilledFades DEF Sweep, SweepKills, Reconcile, ReconcileKills, Typed
  <2>3. \A q \in Daemons : /\ at'[q] \in Opened => at[q] \in Opened
                           /\ at'[q] \in Canonical => at[q] \in Canonical
    BY <2>1, <2>2, FadedIsQuiet DEF Opened, Canonical, Starting
  <2> QED
    BY <1>1, <2>3 DEF Sweep, SweepKills, Reconcile, ReconcileKills, Quiet, Keeps, files
<1> USE DEF Typed, Goes, Keeps, files
<1>2. CASE Probe(p)
  BY <1>2 DEF Probe, Quiet, Opened, Canonical, Starting, Running
<1>8. CASE StaleSocket(p)
  BY <1>8 DEF StaleSocket, Quiet, Opened, Canonical, Starting
<1>9. CASE UnlinkSocket(p)
  BY <1>9 DEF UnlinkSocket, Quiet, Opened, Canonical, Starting
<1>7. CASE WritePid(p) \/ WriteRecord(p)
  BY <1>7 DEF WritePid, WriteRecord, Quiet, Opened, Canonical, Starting
<1>3. CASE Run(p) \/ CheckSocket(p) \/ Bind(p)
  BY <1>3 DEF Run, CheckSocket, Bind, Quiet, Opened, Canonical, Running
<1>4. CASE Recheck(p)
  BY <1>4 DEF Recheck, Quiet, Opened, Canonical, Starting, Running
<1>5. CASE LeavePid(p) \/ LeaveSocket(p) \/ Crash(p)
  BY ZenonT(30), <1>5 DEF LeavePid, LeaveSocket, Crash, Quiet, Opened, Canonical, Starting, Running
<1>6. CASE OrphanExit(p) \/ SelfExit(p)
  BY <1>6 DEF OrphanExit, SelfExit, Quits, Quiet, Opened, Canonical, Starting, Running
<1> QED
  BY <1>1, <1>2, <1>3, <1>4, <1>5, <1>6, <1>7, <1>8, <1>9 DEF DaemonStep, StartStep

\* A started daemon has nothing open.
LEMMA SpawnQuiet ==
    ASSUME Typed, NEW p \in Daemons, NEW mine \in BOOLEAN, Spawned(p, mine)
    PROVE  \A q \in Daemons : /\ at'[q] \in Opened => at[q] \in Opened
                              /\ at'[q] \in Canonical => at[q] \in Canonical
BY DEF Typed, Spawned, Opened, Canonical, Starting, Running

\* The steps of the command line and of the app are quiet.
LEMMA WorkQuiet == ASSUME Typed, NEW k \in Workers, Work(k) PROVE Quiet
<1> USE DEF files
<1>1. CASE Term(k) \/ Kill(k) \/ Named(k) \/ RemoveNamed(k)
  <2>1. \A q \in Daemons : Faded(at'[q], at[q])
    BY <1>1, TermedFades, KilledFades DEF Term, Kill, Named, RemoveNamed
  <2>2. \A q \in Daemons : /\ at'[q] \in Opened => at[q] \in Opened
                           /\ at'[q] \in Canonical => at[q] \in Canonical
    BY <2>1, FadedIsQuiet
  <2> QED
    BY <1>1, <2>2 DEF Term, Kill, Named, RemoveNamed, Quiet
<1>2. CASE SpawnFromCli(k) \/ StartDaemon(k)
  BY <1>2, SpawnQuiet DEF SpawnFromCli, StartDaemon, Quiet
<1>3. CASE Look(k) \/ Report(k) \/ StalePid(k) \/ StaleSocketSeen(k) \/ Healthy(k) \/ Count(k)
  BY <1>3 DEF Look, Report, StalePid, StaleSocketSeen, Healthy, Count, Quiet
<1>4. CASE RemovePid(k) \/ RemoveSocket(k) \/ Wait(k)
  BY <1>4 DEF RemovePid, RemoveSocket, Wait, Quiet
<1> QED
  BY <1>1, <1>2, <1>3, <1>4 DEF Work

LEMMA AppQuiet ==
    ASSUME Typed,
           Connect \/ Disconnect \/ AskRespawn \/ Command \/ Launch \/ FixStuckMic \/ Quit \/ AppCrash
    PROVE  Quiet
<1>1. CASE Command
  BY <1>1, SpawnQuiet DEF Command, Quiet, files
<1> QED
  BY <1>1 DEF Connect, Disconnect, AskRespawn, Launch, FixStuckMic, Quit, AppCrash, Quiet, files

-----------------------------------------------------------------------------
(* Opening, locking and letting go.                                           *)

\* With no file there is nobody who has one open, or it was removed under somebody:
\* the daemon that creates the next file takes it from nobody.
LEMMA OpenKeeps ==
    ASSUME Typed, OpenNamed, Holds, NEW p \in Daemons, OpenPid(p)
    PROVE  OpenNamed' /\ Holds'
<1>1. /\ at' = [at EXCEPT ![p] = "lock"] /\ at[p] = "open"
      /\ lock' = lock /\ unlinked' = unlinked
      /\ pidFile' = (IF pidFile = None THEN p ELSE pidFile)
      /\ fd' = [fd EXCEPT ![p] = pidFile'] /\ pidFile' \in Daemons
  BY DEF OpenPid, Goes, Typed
<1>2. ASSUME NEW q \in Daemons, at'[q] \in Opened
      PROVE  fd'[q] \in Daemons /\ (unlinked' \/ fd'[q] = pidFile')
  <2>1. CASE q = p
    BY <1>1, <2>1 DEF Typed
  <2>2. CASE q # p
    BY <1>1, <1>2, <2>2, NoneIsNobody DEF Typed, OpenNamed
  <2> QED
    BY <2>1, <2>2
<1>3. ASSUME NEW q \in Daemons, at'[q] \in Canonical PROVE lock'[fd'[q]] = q
  BY <1>1, <1>3 DEF Typed, Holds, Canonical, Starting, Running
<1> QED
  BY <1>2, <1>3 DEF OpenNamed, Holds

\* A lock that is held is not taken: its holder is alive.
LEMMA LockKeeps ==
    ASSUME Typed, OpenNamed, Holds, NEW p \in Daemons, TakePidLock(p)
    PROVE  OpenNamed' /\ Holds'
<1>1. /\ at' = [at EXCEPT ![p] = IF Held(fd[p]) THEN "dead" ELSE "recheck"] /\ at[p] = "lock"
      /\ lock' = [lock EXCEPT ![fd[p]] = IF Held(fd[p]) THEN lock[fd[p]] ELSE p]
      /\ UNCHANGED <<fd, pidFile, unlinked>>
  BY DEF TakePidLock, Goes
<1>2. at[p] \in Opened /\ fd[p] \in Daemons
  BY <1>1 DEF Opened, Starting, OpenNamed
<1>3. OpenNamed'
  BY <1>1, <1>2 DEF OpenNamed, Typed, Opened, Starting, Running
<1>4. ASSUME NEW q \in Daemons, at'[q] \in Canonical PROVE lock'[fd[q]] = q
  <2>1. CASE q = p
    BY <1>1, <1>2, <1>4, <2>1 DEF Typed, Canonical, Starting, Running
  <2>2. CASE q # p
    <3>1. at[q] \in Canonical /\ lock[fd[q]] = q /\ q \in Alive
      BY <1>1, <1>4, <2>2, CanonicalIsOpened, OpenedIsAlive DEF Typed, Holds
    <3>2. fd[q] = fd[p] => Held(fd[p])
      BY <3>1 DEF Held
    <3> QED
      BY <1>1, <1>2, <3>1, <3>2 DEF Typed
  <2> QED
    BY <2>1, <2>2
<1> QED
  BY <1>1, <1>3, <1>4 DEF Holds

\* Whoever unlocks held the lock: nobody else's goes.
LEMMA UnlockKeeps ==
    ASSUME Typed, OpenNamed, Holds, NEW p \in Daemons, Unlock(p)
    PROVE  OpenNamed' /\ Holds'
<1>1. /\ at' = [at EXCEPT ![p] = "leave"] /\ at[p] = "unlock"
      /\ lock' = [lock EXCEPT ![fd[p]] = None]
      /\ UNCHANGED <<fd, pidFile, unlinked>>
  BY DEF Unlock, Goes
<1>2. at[p] \in Opened /\ fd[p] \in Daemons /\ lock[fd[p]] = p
  BY <1>1 DEF Opened, Canonical, OpenNamed, Holds
<1>3. OpenNamed'
  BY <1>1, <1>2 DEF OpenNamed, Typed
<1>4. ASSUME NEW q \in Daemons, at'[q] \in Canonical PROVE lock'[fd[q]] = q
  BY <1>1, <1>2, <1>4 DEF Typed, Holds, Canonical, Starting, Running
<1> QED
  BY <1>1, <1>3, <1>4 DEF Holds

-----------------------------------------------------------------------------
(* The theorems.                                                              *)

LEMMA InitInvariant == Init => IInv
<1> SUFFICES ASSUME Init PROVE IInv
  OBVIOUS
<1>1. Typed
  BY DEF Init, Typed, States
<1>2. Planned
  BY DEF Init, Planned
<1>3. \A p \in Daemons : at[p] \notin Opened /\ at[p] \notin Canonical
  BY DEF Init, Opened, Canonical, Starting, Running
<1> QED
  BY <1>1, <1>2, <1>3 DEF IInv, OpenNamed, Holds

LEMMA NextInvariant == ASSUME IInv, [Next]_vars PROVE IInv'
<1> USE DEF IInv
<1>1. Typed' /\ Planned'
  BY StepTyped, StepPlanned
<1>2. CASE UNCHANGED vars
  BY <1>1, <1>2, QuietKeeps DEF vars, files, Quiet
<1>3. ASSUME NEW p \in Daemons, DaemonStep(p) \/ SelfExit(p) \/ Crash(p) PROVE IInv'
  BY <1>1, <1>3, DaemonQuiet, QuietKeeps, OpenKeeps, LockKeeps, UnlockKeeps
<1>4. ASSUME NEW k \in Workers, Work(k) PROVE IInv'
  BY <1>1, <1>4, WorkQuiet, QuietKeeps
<1>5. CASE Connect \/ Disconnect \/ AskRespawn \/ Command \/ Launch \/ FixStuckMic \/ Quit \/ AppCrash
  BY <1>1, <1>5, AppQuiet, QuietKeeps
<1> QED
  BY <1>2, <1>3, <1>4, <1>5 DEF Next, Faults

\* Every behaviour keeps the inductive invariant.
LEMMA Invariance == Spec => []IInv
BY InitInvariant, NextInvariant, PTL DEF Spec

\* Types hold for any number of daemons, and the command line and each task of the app
\* stay within the plan they follow (daemon.rs, CLIService.swift, Always.swift).
THEOREM LifecycleTypeCorrect == Spec => []TypeOK
<1>1. IInv => TypeOK
  BY DEF IInv, Typed, Planned, TypeOK, States
<1> QED
  BY <1>1, Invariance, PTL

\* While no pid file is removed under a daemon that has it open, one daemon is past
\* the lock, of any number that start, race, crash and kill each other (SPEC.md:62).
THEOREM OneDaemonEver == Spec => []OneDaemon
<1>1. IInv => OneDaemon
  BY CanonicalIsOpened DEF IInv, OpenNamed, Holds, OneDaemon
<1> QED
  BY <1>1, Invariance, PTL

\* A starting daemon's sweep, and the kill that follows 200 ms later, never hit the
\* daemon of the pid file (daemon.rs:1272).
THEOREM SweepSpares == Spec => SweepSparesTheDaemon
<1>1. ASSUME IInv, [Next]_vars
      PROVE  [\A p \in Daemons : Sweep(p) \/ SweepKills(p) =>
                \A q \in Daemons \ {p} : at[q] \in Canonical => unlinked \/ at'[q] = at[q]]_vars
  <2>1. ASSUME NEW p \in Daemons, Sweep(p) \/ SweepKills(p), NEW q \in Daemons \ {p},
               at[q] \in Canonical
        PROVE  unlinked
    <3>1. at[p] \in Canonical
      BY <2>1 DEF Sweep, SweepKills, Canonical, Starting
    <3> QED
      BY <1>1, <2>1, <3>1, CanonicalIsOpened DEF IInv, OpenNamed, Holds
  <2> QED
    BY <2>1
<1> QED
  BY <1>1, Invariance, PTL DEF Spec, SweepSparesTheDaemon

-----------------------------------------------------------------------------
(* The updater: what any of the shared directory's writers can leave there.   *)

InstallSteps == {"off", "check", "failed", "unpack", "quit", "swap", "swap only", "open", "done"}

\* Past the unpacking, and not yet with the bundle in place.
Unpacked == {"quit", "swap", "swap only"}

\* Whatever the two updaters do to each other's files, what the paths name is what the
\* key signed for this release, or a part of it.
StagingTyped ==
    dir \in [is : BOOLEAN, part : {"none", "cut", "good"}, mine : Update!Updaters \cup {"none"},
             archive : {"none", "cut", "good"}, ready : BOOLEAN]
InstallersTyped ==
    inst \in [Update!Installers -> [step : InstallSteps, by : Update!Updaters \cup {"none"},
                                   got : {"none", "good"}]]
SwapsVerified == \A i \in Update!Installers : inst[i].step \in Unpacked => inst[i].got = "good"

UpdateInv ==
    StagingTyped /\ InstallersTyped /\ SwapsVerified /\ InstalledIsVerified

LEMMA NoDirTyped ==
    Update!NoDir \in [is : BOOLEAN, part : {"none", "cut", "good"},
                     mine : Update!Updaters \cup {"none"},
                     archive : {"none", "cut", "good"}, ready : BOOLEAN]
BY DEF Update!NoDir

LEMMA UpdateInit == ASSUME Update!Init PROVE UpdateInv
<1>1. StagingTyped
  BY NoDirTyped DEF Update!Init, StagingTyped
<1>2. InstallersTyped /\ SwapsVerified
  BY DEF Update!Init, InstallersTyped, SwapsVerified, Update!NoInst, InstallSteps, Unpacked
<1>3. InstalledIsVerified
  BY DEF Update!Init, InstalledIsVerified
<1> QED
  BY <1>1, <1>2, <1>3 DEF UpdateInv

\* An installer that moves on keeps what the installers hold, unless it moves past the
\* unpacking without an archive.
LEMMA InstallerMoves ==
    ASSUME InstallersTyped, SwapsVerified, NEW i \in Update!Installers,
           NEW step \in InstallSteps, Update!To(i, step),
           step \in Unpacked => inst[i].got = "good"
    PROVE  InstallersTyped' /\ SwapsVerified'
BY DEF InstallersTyped, SwapsVerified, Update!To

\* An updater's step leaves nothing at the paths but a part or the verified archive.
LEMMA UpdatingStages ==
    ASSUME StagingTyped, NEW u \in Update!Updaters, Update!Updating(u)
    PROVE  StagingTyped'
<1> USE NoDirTyped DEF StagingTyped
<1>1. CASE Update!Fetch(u)
  BY <1>1 DEF Update!Fetch
<1>2. CASE Update!Clear(u)
  <2>1. dir' = [is |-> TRUE, part |-> "none", mine |-> "none", archive |-> "none",
                ready |-> FALSE]
    BY <1>2 DEF Update!Clear, Update!NoDir
  <2> QED
    BY <2>1
<1>3. CASE Update!OpenPart(u)
  BY <1>3 DEF Update!OpenPart, Update!Fails
<1>4. CASE Update!Download(u)
  <2>1. PICK c \in Update!Contents : IF Update!Verifies(c)
                THEN dir' = IF dir.mine # u THEN dir
                       ELSE IF dir.part # "none" THEN [dir EXCEPT !.part = c]
                       ELSE [dir EXCEPT !.archive = c]
                ELSE Update!Fails(u)
    BY <1>4 DEF Update!Download
  <2> QED
    BY <2>1 DEF Update!Verifies, Update!Fails
<1>5. CASE Update!Rename(u)
  BY <1>5 DEF Update!Rename, Update!Fails
<1>6. CASE Update!WriteFiles(u)
  BY <1>6 DEF Update!WriteFiles, Update!Fails
<1>7. CASE Update!Spawn(u)
  BY <1>7 DEF Update!Spawn, Update!Fails
<1>8. CASE Update!Exited(u)
  BY <1>8 DEF Update!Exited
<1>9. CASE Update!Tell
  BY <1>9 DEF Update!Tell
<1> QED
  BY <1>1, <1>2, <1>3, <1>4, <1>5, <1>6, <1>7, <1>8, <1>9 DEF Update!Updating

\* It starts an installer, which has no archive yet, or disowns one.
LEMMA UpdatingInstallers ==
    ASSUME InstallersTyped, SwapsVerified, NEW u \in Update!Updaters, Update!Updating(u)
    PROVE  InstallersTyped' /\ SwapsVerified'
<1>1. CASE UNCHANGED inst
  BY <1>1 DEF InstallersTyped, SwapsVerified
<1>2. CASE Update!Spawn(u) /\ inst' # inst
  <2>1. PICK i \in Update!Installers :
            inst' = [inst EXCEPT ![i].step = "check", ![i].by = u]
    BY <1>2 DEF Update!Spawn, Update!Fails
  <2> QED
    BY <2>1 DEF InstallersTyped, SwapsVerified, InstallSteps, Unpacked
<1>3. CASE Update!Exited(u)
  <2>1. PICK i \in Update!Installers : inst' = [inst EXCEPT ![i].by = "none"]
    BY <1>3 DEF Update!Exited
  <2> QED
    BY <2>1 DEF InstallersTyped, SwapsVerified
<1> QED
  BY <1>1, <1>2, <1>3
     DEF Update!Updating, Update!Fetch, Update!Clear, Update!OpenPart, Update!Download,
         Update!Rename, Update!WriteFiles, Update!Spawn, Update!Tell

LEMMA UpdatingKeeps ==
    ASSUME UpdateInv, NEW u \in Update!Updaters, Update!Updating(u)
    PROVE  UpdateInv'
<1>1. installed' = installed
  BY DEF Update!Updating, Update!Fetch, Update!Clear, Update!OpenPart, Update!Download,
         Update!Rename, Update!WriteFiles, Update!Spawn, Update!Exited, Update!Tell,
         Update!StagingOnly
<1> QED
  BY <1>1, UpdatingStages, UpdatingInstallers DEF UpdateInv, InstalledIsVerified

\* An installer unpacks what the digest was checked against, or the same archive staged
\* again meanwhile: the directory holds no other whole one.
LEMMA InstallingKeeps ==
    ASSUME UpdateInv, NEW i \in Update!Installers, Update!Installing(i)
    PROVE  UpdateInv'
<1> USE DEF UpdateInv
<1>1. StagingTyped'
  BY DEF Update!Installing, StagingTyped
<1>2. CASE Update!CheckArchive(i)
  <2>1. \E step \in {"unpack", "failed"} : Update!To(i, step)
    BY <1>2 DEF Update!CheckArchive
  <2>2. InstallersTyped' /\ SwapsVerified'
    BY <2>1, InstallerMoves DEF InstallSteps, Unpacked
  <2> QED
    BY <1>1, <1>2, <2>2 DEF Update!CheckArchive, InstalledIsVerified
<1>3. CASE Update!Unpack(i)
  <2>1. ASSUME Update!To(i, "failed") PROVE InstallersTyped' /\ SwapsVerified'
    BY <2>1, InstallerMoves DEF InstallSteps, Unpacked
  <2>2. ASSUME dir.archive \in Update!Contents \ {"cut"},
               inst' = [inst EXCEPT ![i].step = "quit", ![i].got = dir.archive]
        PROVE  InstallersTyped' /\ SwapsVerified'
    <3>1. dir.archive = "good"
      BY <2>2 DEF StagingTyped, Update!Contents
    <3> QED
      BY <2>2, <3>1 DEF InstallersTyped, SwapsVerified, InstallSteps, Unpacked
  <2> QED
    BY <1>1, <1>3, <2>1, <2>2 DEF Update!Unpack, InstalledIsVerified
<1>4. CASE Update!QuitApp(i)
  <2>1. \E step \in {"swap", "swap only"} : Update!To(i, step)
    BY <1>4 DEF Update!QuitApp
  <2>2. inst[i].got = "good"
    BY <1>4 DEF Update!QuitApp, Update!At, SwapsVerified, Unpacked
  <2>3. InstallersTyped' /\ SwapsVerified'
    BY <2>1, <2>2, InstallerMoves DEF InstallSteps
  <2> QED
    BY <1>1, <1>4, <2>3 DEF Update!QuitApp, InstalledIsVerified
<1>5. CASE Update!Swap(i)
  <2>1. \E step \in {"failed", "open", "done"} : Update!To(i, step)
    BY <1>5 DEF Update!Swap
  <2>2. inst[i].got = "good"
    BY <1>5 DEF Update!Swap, Update!At, SwapsVerified, Unpacked
  <2>3. InstallersTyped' /\ SwapsVerified'
    BY <2>1, <2>2, InstallerMoves DEF InstallSteps
  <2> QED
    BY <1>1, <1>5, <2>2, <2>3 DEF Update!Swap, InstalledIsVerified
<1>6. CASE Update!OpenApp(i)
  <2>1. InstallersTyped' /\ SwapsVerified'
    BY <1>6, InstallerMoves DEF Update!OpenApp, InstallSteps, Unpacked
  <2> QED
    BY <1>1, <1>6, <2>1 DEF Update!OpenApp, InstalledIsVerified
<1> QED
  BY <1>2, <1>3, <1>4, <1>5, <1>6 DEF Update!Installing

\* Nobody else touches the directory, the installers' archives or the bundle.
LEMMA OthersKeep ==
    ASSUME UpdateInv,
           \/ Update!BackgroundCheck \/ Update!UserCheck \/ Update!App
           \/ Update!CheckTimesOut \/ Update!Request \/ Update!Fault
           \/ UNCHANGED Update!vars
    PROVE  UpdateInv'
<1> USE DEF UpdateInv, InstalledIsVerified
<1>1. CASE UNCHANGED <<dir, inst, installed>>
  BY <1>1 DEF StagingTyped, InstallersTyped, SwapsVerified
<1>2. CASE Update!Fault /\ Update!DaemonDies
  <2>1. UNCHANGED <<dir, installed>>
    BY <1>2 DEF Update!Fault
  <2>2. \A i \in Update!Installers :
            inst'[i] = [inst[i] EXCEPT !.by = IF @ = "gui" THEN "none" ELSE @]
    BY <1>2 DEF Update!DaemonDies
  <2>3. inst' = [i \in Update!Installers |->
                    [inst[i] EXCEPT !.by = IF @ = "gui" THEN "none" ELSE @]]
    BY <1>2 DEF Update!DaemonDies
  <2> QED
    BY <2>1, <2>2, <2>3 DEF StagingTyped, InstallersTyped, SwapsVerified
<1> QED
  BY <1>1, <1>2
     DEF Update!BackgroundCheck, Update!UserCheck, Update!App, Update!Receive,
         Update!Disconnect, Update!Connect, Update!AskRespawn, Update!HandoffTimesOut,
         Update!CheckTimesOut, Update!Request, Update!Fault, Update!Publish, Update!Reopen,
         Update!AppOnly, Update!vars, Update!staging

\* Whatever a terminal and the daemon do to the one directory they both stage in, and
\* whenever the daemon, the app or an installer dies, the bundle on disk is the first
\* one or what the release key signed (SPEC.md 12a U1, updater/install.rs, install.sh).
THEOREM InstalledIsSigned == Update!Spec => []InstalledIsVerified
<1>1. ASSUME UpdateInv, [Update!Next]_Update!vars PROVE UpdateInv'
  BY <1>1, UpdatingKeeps, InstallingKeeps, OthersKeep DEF Update!Next
<1>2. UpdateInv => InstalledIsVerified
  BY DEF UpdateInv
<1> QED
  BY UpdateInit, <1>1, <1>2, PTL DEF Update!Spec


=============================================================================
