----------------------------- MODULE PeerHandoff -----------------------------
(* One microphone, two daemons: production and development (daemon.rs, and   *)
(* PeerPauseLease of uds_server.rs).  A daemon that starts next to a live    *)
(* peer stays passive or pauses the peer with a lease; a passive one watches *)
(* the peer's socket; an exit gives the lease back.  Either may be killed at *)
(* any point, and a request may be answered late, or carried out after its   *)
(* sender gave up.  Only the master pause of pause.rs matters here.          *)
EXTENDS Naturals, FiniteSets

CONSTANTS
    MaxStarts,  \* bound: how often daemons are started
    MaxLeases,  \* bound: lease ids drawn
    MaxOnWire,  \* bound: requests written and not yet handled
    MaxPresses  \* bound: uses of a daemon's pause controls

Daemons == {"prod", "dev"}
Peer(d) == IF d = "prod" THEN "dev" ELSE "prod"
Askers  == {"boot", "hand", "exit"}  \* startup thread, Resume, graceful exit

ASSUME PeerAssumption ==
    /\ MaxStarts \in Nat \ {0} /\ MaxLeases \in Nat \ {0} /\ MaxOnWire \in Nat \ {0}
    /\ MaxPresses \in Nat

VARIABLES
    life,      \* the process: "down", "boot", "live" (its socket answers), "leaving"
    starts,    \* how often daemons were started
    master,    \* MASTER_PAUSED
    byPeer,    \* PAUSED_BY_PEER
    lease,     \* PAUSED_BY_PEER_LEASE, 0 for none
    mine,      \* WE_PAUSED_PEER_LEASE, 0 for none
    watchdog,  \* the peer-resume watchdog: "off", "watch", "dead", "took"
    boot,      \* the startup thread: "no", "wait", "found", "ask", "done"
    wire,      \* requests written and not yet handled
    asking,    \* per daemon and asker, the id of the request it waits for, 0 for none
    answer,    \* what it was answered: "none", "owned", "manual", "released", "refused"
    serving,   \* the request each daemon handles, under PAUSE_HANDOFF_LOCK
    drawn,     \* lease ids drawn
    presses,   \* uses of the pause controls
    manual,    \* history: the master pause is the user's SetPaused
    free       \* history: in this life its user, its watchdog or a slow start let it listen

pauseVars == <<master, byPeer, lease, manual, free>>
askVars   == <<wire, asking, answer, drawn>>
vars == <<life, starts, pauseVars, mine, watchdog, boot, askVars, serving, presses>>

NoRequest == [id |-> 0, act |-> "none"]
All(v) == [d \in Daemons |-> v]

Init ==
    /\ life = All("down") /\ starts = 0
    /\ master = All(FALSE) /\ byPeer = All(FALSE) /\ lease = All(0) /\ mine = All(0)
    /\ watchdog = All("off") /\ boot = All("no")
    /\ wire = {} /\ drawn = 0 /\ presses = 0
    /\ asking = [d \in Daemons |-> [a \in Askers |-> 0]]
    /\ answer = [d \in Daemons |-> [a \in Askers |-> "none"]]
    /\ serving = All(NoRequest)
    /\ manual = All(FALSE) /\ free = All(FALSE)

Live(d) == life[d] = "live"
Up(d)   == life[d] # "down"

\* The pause variables of d, all at once: m is MASTER_PAUSED, p PAUSED_BY_PEER.
SetPause(d, m, p, l, hand, leave) ==
    /\ master' = [master EXCEPT ![d] = m]
    /\ byPeer' = [byPeer EXCEPT ![d] = p]
    /\ lease'  = [lease EXCEPT ![d] = l]
    /\ manual' = [manual EXCEPT ![d] = hand]
    /\ free'   = [free EXCEPT ![d] = @ \/ leave]

\* A standby: set_paused_by_peer(true), which keeps a lease, and set_paused(true).
StandBy(d) == SetPause(d, TRUE, TRUE, lease[d], FALSE, FALSE)

\* spawn_peer_resume_watchdog, single-flight.
Watch(d) == watchdog' = [watchdog EXCEPT ![d] = IF @ = "off" THEN "watch" ELSE @]

-----------------------------------------------------------------------------
(* Requests.                                                                 *)

\* set_peer_paused: a pause reuses the id on record or draws a new one, a
\* release takes the id on record.
Ask(d, a, pause) ==
    LET id == IF mine[d] # 0 THEN mine[d] ELSE drawn + 1
    IN  /\ id <= MaxLeases /\ Cardinality(wire) < MaxOnWire
        /\ drawn' = IF id > drawn THEN id ELSE drawn
        /\ wire' = wire \cup {[to |-> Peer(d), id |-> id, pause |-> pause]}
        /\ asking' = [asking EXCEPT ![d][a] = id]
        /\ answer' = [answer EXCEPT ![d][a] = "none"]

Answered(d, a) == asking[d][a] # 0 /\ answer[d][a] # "none"

\* The wait ends, with the answer or, after PEER_PAUSE_REQUEST_TIMEOUT, without.
StopAsking(d, a) ==
    /\ asking[d][a] # 0
    /\ asking' = [asking EXCEPT ![d][a] = 0]
    /\ answer' = [answer EXCEPT ![d][a] = "none"]
    /\ UNCHANGED <<wire, drawn>>

\* Mutant: no answer counts as consent.
ConfirmedUnlessRefused(ans) == ans # "refused"

\* record_peer_pause_attempt
Confirmed(ans) == ans \in {"owned", "manual"}
RecordAttempt(d, a, ans) ==
    mine' = [mine EXCEPT ![d] = IF ans \in {"none", "owned"} THEN asking[d][a] ELSE 0]

\* Mutant: a release is carried out whoever owns the pause.
LeaseActionAnyRelease(d, r) ==
    CASE r.pause  /\ byPeer[d] /\ lease[d] = r.id -> "owned"
      [] r.pause  /\ byPeer[d] /\ lease[d] # r.id -> "refused"
      [] r.pause  /\ ~byPeer[d] /\ master[d]      -> "manual"
      [] r.pause  /\ ~byPeer[d] /\ ~master[d]     -> "acquire"
      [] ~r.pause                                -> "released"

\* peer_pause_lease_action, with its (accepted, lease_owned) as one word.
LeaseAction(d, r) ==
    LET matching == byPeer[d] /\ lease[d] = r.id
    IN  CASE r.pause  /\ byPeer[d] /\ matching      -> "owned"
          [] r.pause  /\ byPeer[d] /\ ~matching     -> "refused"
          [] r.pause  /\ ~byPeer[d] /\ master[d]    -> "manual"
          [] r.pause  /\ ~byPeer[d] /\ ~master[d]   -> "acquire"
          [] ~r.pause /\ matching                   -> "released"
          [] ~r.pause /\ ~matching                  -> "refused"

\* A request is taken off the wire and judged, with the lock held.
Handle(d, r) ==
    /\ life[d] \in {"live", "leaving"} /\ serving[d] = NoRequest
    /\ r \in wire /\ r.to = d
    /\ wire' = wire \ {r}
    /\ serving' = [serving EXCEPT ![d] = [id |-> r.id, act |-> LeaseAction(d, r)]]
    /\ UNCHANGED <<life, starts, presses, pauseVars, mine, watchdog, boot, asking, answer,
                   drawn>>

\* Its stores, and the broadcast result: whoever waits for this id takes it.
Apply(d) ==
    LET r   == serving[d]
        ans == IF r.act = "acquire" THEN "owned" ELSE r.act
    IN  /\ Up(d) /\ r # NoRequest
        /\ CASE r.act = "acquire"  -> SetPause(d, TRUE, TRUE, r.id, FALSE, FALSE)
             [] r.act = "released" -> SetPause(d, FALSE, FALSE, 0, FALSE, FALSE)
             [] OTHER              -> UNCHANGED pauseVars
        /\ answer' = [answer EXCEPT ![Peer(d)] = [a \in Askers |->
                        IF asking[Peer(d)][a] = r.id /\ @[a] = "none" THEN ans ELSE @[a]]]
        /\ serving' = [serving EXCEPT ![d] = NoRequest]
        /\ UNCHANGED <<life, starts, presses, mine, watchdog, boot, wire, asking, drawn>>

-----------------------------------------------------------------------------
(* Startup: pause_peer_when_ready.                                           *)

\* Dev is passive from the outset when it finds production live.
Start(d) ==
    /\ life[d] = "down" /\ starts < MaxStarts
    /\ life' = [life EXCEPT ![d] = "boot"]
    /\ starts' = starts + 1
    /\ boot' = [boot EXCEPT ![d] = "wait"]
    /\ IF d = "dev" /\ Live("prod") THEN StandBy(d) ELSE UNCHANGED pauseVars
    /\ UNCHANGED <<mine, watchdog, askVars, serving, presses>>

Bind(d) ==
    /\ life[d] = "boot"
    /\ life' = [life EXCEPT ![d] = "live"]
    /\ UNCHANGED <<starts, presses, pauseVars, mine, watchdog, boot, askVars, serving>>

\* The thread goes on when the socket is live, or gives up waiting (5 s).
BootReady(d) ==
    /\ boot[d] = "wait" /\ Up(d)
    /\ \/ /\ byPeer[d]
          /\ Watch(d) /\ boot' = [boot EXCEPT ![d] = "done"]
          /\ UNCHANGED pauseVars
       \/ /\ ~byPeer[d] /\ ~Live(Peer(d))
          /\ boot' = [boot EXCEPT ![d] = "done"]
          /\ free' = [free EXCEPT ![d] = @ \/ ~Live(d)]
          /\ UNCHANGED <<master, byPeer, lease, manual, watchdog>>
       \/ /\ ~byPeer[d] /\ Live(Peer(d)) /\ d = "dev"
          /\ StandBy(d) /\ Watch(d)
          /\ boot' = [boot EXCEPT ![d] = "done"]
       \/ /\ ~byPeer[d] /\ Live(Peer(d)) /\ d = "prod"
          /\ boot' = [boot EXCEPT ![d] = "found"]
          /\ free' = [free EXCEPT ![d] = @ \/ ~Live(d)]
          /\ UNCHANGED <<master, byPeer, lease, manual, watchdog>>
    /\ UNCHANGED <<life, starts, presses, mine, askVars, serving>>

BootAsk(d) ==
    /\ boot[d] = "found"
    /\ \/ /\ Live(Peer(d)) /\ Ask(d, "boot", TRUE)
          /\ boot' = [boot EXCEPT ![d] = "ask"]
          /\ UNCHANGED <<pauseVars, watchdog>>
       \/ /\ ~Live(Peer(d))
          /\ StandBy(d) /\ Watch(d) /\ boot' = [boot EXCEPT ![d] = "done"]
          /\ UNCHANGED askVars
    /\ UNCHANGED <<life, starts, presses, mine, serving>>

\* Without a confirmation production goes into standby.
BootEnd(d, ans) ==
    /\ boot[d] = "ask"
    /\ StopAsking(d, "boot") /\ RecordAttempt(d, "boot", ans)
    /\ IF Confirmed(ans) THEN UNCHANGED <<pauseVars, watchdog>> ELSE StandBy(d) /\ Watch(d)
    /\ boot' = [boot EXCEPT ![d] = "done"]
    /\ UNCHANGED <<life, starts, presses, serving>>

BootStep(d) == \/ BootReady(d) \/ BootAsk(d)
               \/ BootEnd(d, answer[d]["boot"])

-----------------------------------------------------------------------------
(* The user.                                                                 *)

Press(d) == Live(d) /\ presses < MaxPresses /\ presses' = presses + 1

\* resume: what it clears once dev may take over.
Resumes(d, leave) == SetPause(d, FALSE, FALSE, 0, FALSE, leave)

\* `Resume', and a toggle while master is set; dev asks a live peer first.
Resume(d) ==
    /\ Press(d) /\ asking[d]["hand"] = 0
    /\ IF d = "dev" /\ Live(Peer(d))
       THEN Ask(d, "hand", TRUE) /\ UNCHANGED pauseVars
       ELSE Resumes(d, TRUE) /\ UNCHANGED askVars
    /\ UNCHANGED <<life, starts, mine, watchdog, boot, serving>>

ResumeEnd(d, ans) ==
    /\ Up(d)
    /\ StopAsking(d, "hand") /\ RecordAttempt(d, "hand", ans)
    /\ IF Confirmed(ans) THEN Resumes(d, FALSE) ELSE UNCHANGED pauseVars
    /\ UNCHANGED <<life, starts, presses, watchdog, boot, serving>>

\* toggle_global while nothing is pausing; it takes no lock.
TogglePauses(d) ==
    /\ Press(d) /\ ~master[d]
    /\ SetPause(d, TRUE, FALSE, 0, FALSE, FALSE)
    /\ UNCHANGED <<life, starts, mine, watchdog, boot, askVars, serving>>

\* `SetPaused' without a peer's reason, with the lock held.
SetPaused(d, paused) ==
    /\ Press(d) /\ serving[d] = NoRequest
    /\ SetPause(d, paused, FALSE, 0, paused, ~paused)
    /\ UNCHANGED <<life, starts, mine, watchdog, boot, askVars, serving>>

-----------------------------------------------------------------------------
(* The peer-resume watchdog, once a second.                                  *)

\* Mutant: one look at the peer.
WatchPollOnce(d) ==
    /\ watchdog[d] = "watch"
    /\ watchdog' = [watchdog EXCEPT ![d] = IF byPeer[d] /\ ~Live(Peer(d)) THEN "dead" ELSE "off"]
    /\ UNCHANGED <<life, starts, presses, pauseVars, mine, boot, askVars, serving>>

\* It ends when the pause is no longer the peer's, and acts when the peer is gone.
WatchPoll(d) ==
    /\ watchdog[d] = "watch"
    /\ ~byPeer[d] \/ ~Live(Peer(d))
    /\ watchdog' = [watchdog EXCEPT ![d] = IF byPeer[d] THEN "dead" ELSE "off"]
    /\ UNCHANGED <<life, starts, presses, pauseVars, mine, boot, askVars, serving>>

\* take_paused_by_peer
WatchTake(d) ==
    /\ watchdog[d] = "dead"
    /\ watchdog' = [watchdog EXCEPT ![d] = IF byPeer[d] THEN "took" ELSE "off"]
    /\ byPeer' = [byPeer EXCEPT ![d] = FALSE] /\ lease' = [lease EXCEPT ![d] = 0]
    /\ UNCHANGED <<life, starts, presses, master, manual, free, mine, boot, askVars, serving>>

WatchResume(d) ==
    /\ watchdog[d] = "took"
    /\ watchdog' = [watchdog EXCEPT ![d] = "off"]
    /\ master' = [master EXCEPT ![d] = FALSE]
    /\ manual' = [manual EXCEPT ![d] = FALSE] /\ free' = [free EXCEPT ![d] = TRUE]
    /\ UNCHANGED <<life, starts, presses, byPeer, lease, mine, boot, askVars, serving>>

WatchStep(d) == WatchPoll(d) \/ WatchTake(d) \/ WatchResume(d)

-----------------------------------------------------------------------------
(* The end of a process.                                                     *)

\* Its memory is gone, and so are the requests its peer wrote to it; the ones it
\* wrote itself are still read.  Timing assumption: an answer it gave is read
\* before it can be started again (the asker is blocked on that read), so an
\* answer still unread counts as lost.
Ends(d) ==
    /\ life' = [life EXCEPT ![d] = "down"]
    /\ master' = [master EXCEPT ![d] = FALSE] /\ byPeer' = [byPeer EXCEPT ![d] = FALSE]
    /\ lease' = [lease EXCEPT ![d] = 0]
    /\ manual' = [manual EXCEPT ![d] = FALSE] /\ free' = [free EXCEPT ![d] = FALSE]
    /\ mine' = [mine EXCEPT ![d] = 0]
    /\ watchdog' = [watchdog EXCEPT ![d] = "off"]
    /\ boot' = [boot EXCEPT ![d] = "no"]
    /\ wire' = {r \in wire : r.to # d}
    /\ asking' = [asking EXCEPT ![d] = [a \in Askers |-> 0]]
    /\ answer' = All([a \in Askers |-> "none"])
    /\ serving' = [serving EXCEPT ![d] = NoRequest]
    /\ UNCHANGED <<starts, presses, drawn>>

Kill(d) == Up(d) /\ Ends(d)

\* The socket is removed first, then resume_peer_on_exit.
Leave(d) ==
    /\ Live(d)
    /\ \/ mine[d] # 0 /\ Live(Peer(d))
          /\ life' = [life EXCEPT ![d] = "leaving"]
          /\ Ask(d, "exit", FALSE)
          /\ UNCHANGED <<starts, presses, pauseVars, mine, watchdog, boot, serving>>
       \/ (mine[d] = 0 \/ ~Live(Peer(d))) /\ Ends(d)

LeaveEnd(d) == life[d] = "leaving" /\ Ends(d)

-----------------------------------------------------------------------------
Next == \E d \in Daemons :
    \/ Start(d) \/ Bind(d)
    \/ BootStep(d)
    \/ Resume(d) \/ ResumeEnd(d, answer[d]["hand"])
    \/ TogglePauses(d) \/ \E paused \in BOOLEAN : SetPaused(d, paused)
    \/ \E r \in wire : Handle(d, r)
    \/ Apply(d)
    \/ WatchStep(d)
    \/ Leave(d) \/ LeaveEnd(d) \/ Kill(d)

Spec == Init /\ [][Next]_vars

\* The threads of a process that stays up run; whether it stays up, and when a
\* request is read, is open.
Fairness == \A d \in Daemons : WF_vars(BootStep(d)) /\ WF_vars(WatchStep(d))

FairSpec == Spec /\ Fairness

-----------------------------------------------------------------------------
TypeOK ==
    /\ life \in [Daemons -> {"down", "boot", "live", "leaving"}]
    /\ starts \in 0..MaxStarts
    /\ master \in [Daemons -> BOOLEAN] /\ byPeer \in [Daemons -> BOOLEAN]
    /\ lease \in [Daemons -> 0..MaxLeases] /\ mine \in [Daemons -> 0..MaxLeases]
    /\ watchdog \in [Daemons -> {"off", "watch", "dead", "took"}]
    /\ boot \in [Daemons -> {"no", "wait", "found", "ask", "done"}]
    /\ wire \subseteq [to : Daemons, id : 1..MaxLeases, pause : BOOLEAN]
    /\ asking \in [Daemons -> [Askers -> 0..MaxLeases]]
    /\ answer \in [Daemons -> [Askers -> {"none", "owned", "manual", "released", "refused"}]]
    /\ serving \in [Daemons -> [id : 0..MaxLeases,
                       act : {"none", "acquire", "owned", "manual", "released", "refused"}]]
    /\ drawn \in 0..MaxLeases /\ presses \in 0..MaxPresses
    /\ manual \in [Daemons -> BOOLEAN] /\ free \in [Daemons -> BOOLEAN]
    /\ \A d \in Daemons : lease[d] # 0 => byPeer[d]

Settled ==
    /\ \A d \in Daemons : Live(d) /\ boot[d] = "done" /\ watchdog[d] \in {"off", "watch"}
                          /\ serving[d] = NoRequest /\ \A a \in Askers : asking[d][a] = 0
    /\ wire = {}

\* Two daemons never listen side by side, whatever the order in which they
\* start, are killed and restarted, and answer, unless one of them was let go by
\* its user, by its watchdog or by a start that took more than five seconds.
OneMicrophone ==
    Settled /\ (\A d \in Daemons : ~master[d]) => \E d \in Daemons : free[d]

\* "Any later manual pause/resume revokes that lease and wins over a delayed
\* release": a release never lifts a pause the user set with SetPaused.
ReleaseSparesManual ==
    [][\A d \in Daemons : Apply(d) /\ serving[d].act = "released" => ~manual[d]]_vars

\* A daemon that put itself into standby listens again when the peer it watches
\* is gone for good, even if the peer was killed.
StandbyEnds ==
    \A d \in Daemons :
        (<>[](life[Peer(d)] = "down")) => <>[]~(byPeer[d] /\ lease[d] = 0)

\* The same of every pause on the peer's account, a lease's included: "a
\* paused-by-peer daemon resumes when its peer endpoint dies, covering SIGKILL".
PausedByPeerResumes ==
    \A d \in Daemons : (<>[](life[Peer(d)] = "down")) => <>[]~byPeer[d]

\* "Whichever daemon starts last pauses its peer" (event_loop.rs): it is not
\* paused by that peer itself.
NeverBothStandby == Settled => \E d \in Daemons : ~byPeer[d]
=============================================================================
