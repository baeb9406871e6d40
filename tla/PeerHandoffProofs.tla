--------------------------- MODULE PeerHandoffProofs ---------------------------
(* Theorems about PeerHandoff, for any number of starts, leases, requests and *)
(* presses: which of the two daemons may be listening, and why the other one  *)
(* is not.                                                                    *)
EXTENDS PeerHandoff, TLAPS

\* Releases on their way to d.
Releases(d) == {r \in wire : r.to = d /\ ~r.pause}

\* An id that p drew in this life: it is on record or being asked for.
Draws(p, id) == mine[p] = id \/ \E a \in Askers : asking[p][a] = id

\* What d did may still let it listen, or let a release of its peer do so: it is not
\* paused once its startup is over, or a release finds the lease it names.
MayListen(d) ==
    \/ ~master[d] /\ (boot[d] = "done" \/ Releases(d) # {})
    \/ serving[d].act = "released"
    \/ serving[d].act = "acquire" /\ Releases(d) # {}
    \/ \E r \in Releases(d) : r.id = lease[d]

\* d is paused, and only its user, its watchdog or a later exit of its peer can
\* change that.
Yields(d) == master[d] /\ ~MayListen(d)

\* Both listen to requests, and nobody let them go.
Both == \A d \in Daemons : Live(d) /\ ~free[d]

-----------------------------------------------------------------------------
(* The inductive invariant.                                                   *)

\* Lease ids are drawn one after the other, and a request has one.
Numbered ==
    /\ \A d \in Daemons :
         /\ lease[d] <= drawn /\ mine[d] <= drawn /\ serving[d].id <= drawn
         /\ \A a \in Askers : asking[d][a] <= drawn
         /\ serving[d].act # "none" => serving[d].id # 0
    /\ \A r \in wire : r.id <= drawn

\* An answer is to a request somebody waits for.
Asked == \A d \in Daemons : \A a \in Askers : asking[d][a] = 0 => answer[d][a] = "none"

\* A process without a socket was asked nothing and has answered nothing.
Fresh ==
    \A d \in Daemons : life[d] \in {"down", "boot"} =>
        /\ \A r \in wire : r.to # d
        /\ serving[d] = NoRequest /\ lease[d] = 0
        /\ asking[d]["hand"] = 0 /\ answer[d]["hand"] = "none"
        /\ \A a \in Askers : answer[Peer(d)][a] = "none"

\* Only production asks when it starts, only dev before it resumes.
OwnAsks ==
    /\ boot["dev"] \notin {"found", "ask"}
    /\ asking["prod"]["hand"] = 0 /\ asking["dev"]["boot"] = 0

\* A pause on the peer's account is a pause.
Standing == \A d \in Daemons : byPeer[d] => master[d] \/ free[d]

\* A daemon that asked nothing: it is not running.
Silent(d) == mine[d] = 0 /\ \A a \in Askers : asking[d][a] = 0

\* Nor has a daemon that is still starting and was not let go; its startup thread
\* has not begun, or ended with a pause.
Passive ==
    \A d \in Daemons :
        /\ life[d] = "down" => Silent(d) /\ boot[d] = "no"
        /\ life[d] = "boot" /\ ~free[d] =>
               Silent(d) /\ (boot[d] = "wait" \/ (boot[d] = "done" /\ master[d]))

\* A release is not of an id that its sender still uses, unless it is leaving.
Returned ==
    \A d \in Daemons : \A r \in Releases(d) : life[Peer(d)] # "leaving" => ~Draws(Peer(d), r.id)

\* A consent about to be given is still good: d is paused, under the lease asked for
\* or under none; dev may have resumed meanwhile, by production's own consent.
Holds(d) == master[d] /\ lease[d] \in {0, serving[d].id}
Consents ==
    Both => \A d \in Daemons :
        serving[d].act \in {"owned", "manual"} /\ Draws(Peer(d), serving[d].id) =>
            Holds(d) \/ (d = "dev" /\ Yields("prod"))

\* So is one that was given and not yet acted upon.
Consented ==
    Both => /\ answer["dev"]["hand"] \in {"owned", "manual"} => Yields("prod")
            /\ answer["prod"]["boot"] \in {"owned", "manual"} => Yields("prod") \/ Yields("dev")

\* Of two daemons nobody let go, one at most may come to listen.
OneListens == Both => ~(MayListen("prod") /\ MayListen("dev"))

\* A lease is not a pause the user set.
Spared ==
    \A d \in Daemons : lease[d] # 0 \/ serving[d].act = "released" => ~manual[d]

IInv == /\ TypeOK /\ Numbered /\ Asked /\ Fresh /\ OwnAsks /\ Standing /\ Passive /\ Returned
        /\ Consents /\ Consented /\ OneListens /\ Spared

-----------------------------------------------------------------------------
(* What the operators the actions are built from do, pointwise.               *)

\* There are two daemons, each other's peer.
LEMMA Peers ==
    ASSUME NEW d \in Daemons
    PROVE  /\ Peer(d) \in Daemons /\ Peer(d) # d /\ Peer(Peer(d)) = d
           /\ \A e \in Daemons : e = d \/ e = Peer(d)
           /\ "prod" \in Daemons /\ "dev" \in Daemons
           /\ Peer("prod") = "dev" /\ Peer("dev") = "prod"
BY DEF Daemons, Peer

\* The pause variables of e, as a daemon's action finds and leaves them.
PauseKept(e) ==
    /\ master'[e] <=> master[e]
    /\ byPeer'[e] <=> byPeer[e]
    /\ lease'[e] = lease[e]
    /\ manual'[e] <=> manual[e]
    /\ free'[e] <=> free[e]
PausesTyped ==
    /\ master \in [Daemons -> BOOLEAN] /\ byPeer \in [Daemons -> BOOLEAN]
    /\ lease \in [Daemons -> 0..MaxLeases]
    /\ manual \in [Daemons -> BOOLEAN] /\ free \in [Daemons -> BOOLEAN]

LEMMA UnchangedPauses ==
    ASSUME PausesTyped, UNCHANGED pauseVars
    PROVE  PausesTyped' /\ \A e \in Daemons : PauseKept(e)
BY DEF PausesTyped, pauseVars, PauseKept

\* SetPause sets what it says, at d only; it may let d go and never takes that back.
LEMMA SetPauseMoves ==
    ASSUME PausesTyped, NEW d \in Daemons, NEW m \in BOOLEAN, NEW p \in BOOLEAN,
           NEW l \in 0..MaxLeases, NEW hand \in BOOLEAN, NEW leave \in BOOLEAN,
           SetPause(d, m, p, l, hand, leave)
    PROVE  /\ PausesTyped'
           /\ master'[d] <=> m
           /\ byPeer'[d] <=> p
           /\ lease'[d] = l
           /\ manual'[d] <=> hand
           /\ free'[d] <=> free[d] \/ leave
           /\ \A e \in Daemons : e # d => PauseKept(e)
<1>1. PausesTyped'
  BY DEF PausesTyped, SetPause
<1>2. /\ master'[d] <=> m
      /\ byPeer'[d] <=> p
      /\ lease'[d] = l
      /\ manual'[d] <=> hand
      /\ free'[d] <=> free[d] \/ leave
  BY DEF PausesTyped, SetPause
<1>3. ASSUME NEW e \in Daemons, e # d PROVE PauseKept(e)
  BY <1>3 DEF PausesTyped, SetPause, PauseKept
<1> QED BY <1>1, <1>2, <1>3

\* The requests, questions and answers, typed.
Answers == {"none", "owned", "manual", "released", "refused"}
AsksTyped ==
    /\ wire \subseteq [to : Daemons, id : 1..MaxLeases, pause : BOOLEAN]
    /\ asking \in [Daemons -> [Askers -> 0..MaxLeases]]
    /\ answer \in [Daemons -> [Askers -> Answers]]
    /\ drawn \in 0..MaxLeases

\* Ask writes one request to the peer, under the id on record or the next one, and
\* d waits for its answer.
LEMMA AskMoves ==
    ASSUME AsksTyped, mine \in [Daemons -> 0..MaxLeases], NEW d \in Daemons, NEW a \in Askers,
           NEW pause \in BOOLEAN, Ask(d, a, pause)
    PROVE  /\ AsksTyped'
           /\ \E id \in 1..MaxLeases :
                 /\ id = mine[d] \/ id = drawn + 1
                 /\ id <= drawn' /\ drawn <= drawn'
                 /\ wire' = wire \cup {[to |-> Peer(d), id |-> id, pause |-> pause]}
                 /\ asking'[d][a] = id /\ answer'[d][a] = "none"
           /\ \A e \in Daemons, b \in Askers :
                 e # d \/ b # a => asking'[e][b] = asking[e][b] /\ answer'[e][b] = answer[e][b]
<1> DEFINE id == IF mine[d] # 0 THEN mine[d] ELSE drawn + 1
<1>n. MaxLeases \in Nat
  BY PeerAssumption
<1>p. Peer(d) \in Daemons
  BY Peers
<1>1. /\ id <= MaxLeases
      /\ drawn' = IF id > drawn THEN id ELSE drawn
      /\ wire' = wire \cup {[to |-> Peer(d), id |-> id, pause |-> pause]}
      /\ asking' = [asking EXCEPT ![d][a] = id]
      /\ answer' = [answer EXCEPT ![d][a] = "none"]
  BY DEF Ask
<1>2. id \in 1..MaxLeases /\ (id = mine[d] \/ id = drawn + 1)
  <2>1. mine[d] \in 0..MaxLeases /\ drawn \in Nat
    BY <1>n DEF AsksTyped
  <2> QED BY <1>1, <1>n, <2>1
<1> HIDE DEF id
<1>3. drawn' \in 0..MaxLeases /\ id <= drawn' /\ drawn <= drawn'
  BY <1>1, <1>2, <1>n DEF AsksTyped
<1>4. wire' \subseteq [to : Daemons, id : 1..MaxLeases, pause : BOOLEAN]
  BY <1>1, <1>2, <1>p DEF AsksTyped
<1>5. /\ asking' \in [Daemons -> [Askers -> 0..MaxLeases]]
      /\ asking'[d][a] = id
      /\ \A e \in Daemons, b \in Askers : e # d \/ b # a => asking'[e][b] = asking[e][b]
  BY <1>1, <1>2, <1>n DEF AsksTyped
<1>6. /\ answer' \in [Daemons -> [Askers -> Answers]]
      /\ answer'[d][a] = "none"
      /\ \A e \in Daemons, b \in Askers : e # d \/ b # a => answer'[e][b] = answer[e][b]
  BY <1>1 DEF AsksTyped, Answers
<1> QED BY <1>1, <1>2, <1>3, <1>4, <1>5, <1>6 DEF AsksTyped

\* StopAsking ends one wait and forgets its answer.
LEMMA StopAskingMoves ==
    ASSUME AsksTyped, NEW d \in Daemons, NEW a \in Askers, StopAsking(d, a)
    PROVE  /\ AsksTyped' /\ wire' = wire /\ drawn' = drawn
           /\ asking'[d][a] = 0 /\ answer'[d][a] = "none"
           /\ \A e \in Daemons, b \in Askers :
                 e # d \/ b # a => asking'[e][b] = asking[e][b] /\ answer'[e][b] = answer[e][b]
<1>n. MaxLeases \in Nat
  BY PeerAssumption
<1>1. /\ asking' \in [Daemons -> [Askers -> 0..MaxLeases]] /\ asking'[d][a] = 0
      /\ \A e \in Daemons, b \in Askers : e # d \/ b # a => asking'[e][b] = asking[e][b]
  BY <1>n DEF AsksTyped, StopAsking
<1>2. /\ answer' \in [Daemons -> [Askers -> Answers]] /\ answer'[d][a] = "none"
      /\ \A e \in Daemons, b \in Askers : e # d \/ b # a => answer'[e][b] = answer[e][b]
  BY DEF AsksTyped, StopAsking, Answers
<1> QED BY <1>1, <1>2 DEF AsksTyped, StopAsking

\* The id on record after an attempt is the one it used, or none.
LEMMA RecordMoves ==
    ASSUME AsksTyped, mine \in [Daemons -> 0..MaxLeases], NEW d \in Daemons, NEW a \in Askers,
           NEW ans, RecordAttempt(d, a, ans)
    PROVE  /\ mine' \in [Daemons -> 0..MaxLeases]
           /\ mine'[d] \in {asking[d][a], 0}
           /\ \A e \in Daemons : e # d => mine'[e] = mine[e]
<1>n. MaxLeases \in Nat
  BY PeerAssumption
<1> QED BY <1>n DEF AsksTyped, RecordAttempt

\* The watchdog is single-flight.
LEMMA WatchMoves ==
    ASSUME watchdog \in [Daemons -> {"off", "watch", "dead", "took"}], NEW d \in Daemons, Watch(d)
    PROVE  watchdog' \in [Daemons -> {"off", "watch", "dead", "took"}]
BY DEF Watch

-----------------------------------------------------------------------------
(* What keeps one of two daemons from listening.                              *)

LEMMA Typed ==
    ASSUME TypeOK
    PROVE  /\ PausesTyped /\ AsksTyped /\ mine \in [Daemons -> 0..MaxLeases]
           /\ MaxLeases \in Nat /\ drawn \in Nat
BY PeerAssumption DEF TypeOK, PausesTyped, AsksTyped, Answers

\* A release on its way has an id of its own.
LEMMA ReleaseIds ==
    ASSUME AsksTyped, NEW d \in Daemons, NEW r \in Releases(d)
    PROVE  r \in wire /\ r.to = d /\ ~r.pause /\ r.id \in 1..MaxLeases /\ r.id # 0
<1>1. r \in wire /\ r.to = d /\ ~r.pause
  BY DEF Releases
<1>2. r \in [to : Daemons, id : 1..MaxLeases, pause : BOOLEAN]
  BY <1>1 DEF AsksTyped
<1> QED BY <1>1, <1>2, PeerAssumption

\* d comes no nearer to listening, and yields if it did.
Sinks(d) == (MayListen(d)' => MayListen(d)) /\ (Yields(d) => Yields(d)')

\* A daemon that is not let go, not asked for anything new and not in the middle of
\* a request it carries out comes no nearer to listening: at the end of its startup
\* it is paused, or was not before.
LEMMA LessHeard ==
    ASSUME AsksTyped, NEW d \in Daemons,
           Releases(d)' \subseteq Releases(d),
           serving'[d] = serving[d], lease'[d] \in {lease[d], 0},
           master[d] => master'[d],
           boot'[d] = "done" => boot[d] = "done" \/ master'[d]
    PROVE  Sinks(d)
<1>1. \A r \in Releases(d) : r.id # 0
  BY ReleaseIds
<1>2. ASSUME MayListen(d)' PROVE MayListen(d)
  <2>1. CASE ~master'[d] /\ (boot'[d] = "done" \/ Releases(d)' # {})
    BY <2>1 DEF MayListen
  <2>2. CASE serving'[d].act = "released"
    BY <2>2 DEF MayListen
  <2>3. CASE serving'[d].act = "acquire" /\ Releases(d)' # {}
    BY <2>3 DEF MayListen
  <2>4. CASE \E r \in Releases(d)' : r.id = lease'[d]
    <3>1. PICK r \in Releases(d)' : r.id = lease'[d]
      BY <2>4
    <3>2. r \in Releases(d) /\ r.id = lease[d]
      BY <3>1, <1>1
    <3> QED BY <3>2 DEF MayListen
  <2> QED BY <1>2, <2>1, <2>2, <2>3, <2>4 DEF MayListen
<1>3. Yields(d) => Yields(d)'
  BY <1>2 DEF Yields
<1> QED BY <1>2, <1>3 DEF Sinks

\* A step answers nothing: an answer stays or is forgotten.
Unanswered == \A d \in Daemons, a \in Askers : answer'[d][a] \in {answer[d][a], "none"}

\* The consents d is about to give stay good, or are not asked for.
ConsentsKept(d) ==
    serving'[d].act \in {"owned", "manual"} /\ Draws(Peer(d), serving[d].id)' =>
        /\ serving'[d] = serving[d]
        /\ Draws(Peer(d), serving[d].id)
        /\ Holds(d) => Holds(d)'

\* Where nobody comes nearer to listening and nothing is answered, consents stay
\* good and one daemon at most may listen.
LEMMA StaysApart ==
    ASSUME Consents, Consented, OneListens, Both' => Both, Unanswered,
           Both' => \A d \in Daemons : ConsentsKept(d),
           Both' => \A d \in Daemons : Sinks(d)
    PROVE  Consents' /\ Consented' /\ OneListens'
<1> SUFFICES ASSUME Both' PROVE Consents' /\ Consented' /\ OneListens'
  BY DEF Consents, Consented, OneListens
<1>1. Both /\ \A d \in Daemons : Sinks(d)
  OBVIOUS
<1>2. "prod" \in Daemons /\ "dev" \in Daemons /\ "hand" \in Askers /\ "boot" \in Askers
  BY DEF Daemons, Askers
<1>3. /\ Yields("prod") => Yields("prod")'
      /\ Yields("dev") => Yields("dev")'
      /\ MayListen("prod")' => MayListen("prod")
      /\ MayListen("dev")' => MayListen("dev")
  BY <1>1, <1>2 DEF Sinks
<1>4. Consents'
  <2>1. SUFFICES ASSUME NEW d \in Daemons, serving'[d].act \in {"owned", "manual"},
                        Draws(Peer(d), serving[d].id)'
                 PROVE  Holds(d)' \/ (d = "dev" /\ Yields("prod")')
    BY DEF Consents
  <2>2. /\ serving'[d] = serving[d] /\ Draws(Peer(d), serving[d].id)
        /\ Holds(d) => Holds(d)'
    BY <2>1 DEF ConsentsKept
  <2>3. Holds(d) \/ (d = "dev" /\ Yields("prod"))
    BY <1>1, <2>1, <2>2 DEF Consents
  <2> QED BY <1>3, <2>2, <2>3
<1>5. Consented'
  <2>1. /\ answer'["dev"]["hand"] \in {answer["dev"]["hand"], "none"}
        /\ answer'["prod"]["boot"] \in {answer["prod"]["boot"], "none"}
    BY <1>2 DEF Unanswered
  <2>2. answer'["dev"]["hand"] \in {"owned", "manual"} => Yields("prod")'
    BY <1>1, <1>3, <2>1 DEF Consented
  <2>3. answer'["prod"]["boot"] \in {"owned", "manual"} => Yields("prod")' \/ Yields("dev")'
    BY <1>1, <1>3, <2>1 DEF Consented
  <2> QED BY <2>2, <2>3 DEF Consented
<1>6. OneListens'
  BY <1>1, <1>3 DEF OneListens
<1> QED BY <1>4, <1>5, <1>6

-----------------------------------------------------------------------------
(* The actions that change nothing but one daemon's pause state and startup.  *)

\* TypeOK but for the pause variables and the requests.
RestTyped ==
    /\ life \in [Daemons -> {"down", "boot", "live", "leaving"}]
    /\ starts \in 0..MaxStarts /\ presses \in 0..MaxPresses
    /\ watchdog \in [Daemons -> {"off", "watch", "dead", "took"}]
    /\ boot \in [Daemons -> {"no", "wait", "found", "ask", "done"}]
    /\ mine \in [Daemons -> 0..MaxLeases]
    /\ serving \in [Daemons -> [id : 0..MaxLeases,
                       act : {"none", "acquire", "owned", "manual", "released", "refused"}]]
    /\ \A d \in Daemons : lease[d] # 0 => byPeer[d]

LEMMA TypeParts == TypeOK <=> PausesTyped /\ AsksTyped /\ RestTyped
BY DEF TypeOK, PausesTyped, AsksTyped, RestTyped, Answers

\* d changes its own pause state and the state of its startup thread, and:
LocalStep(d) ==
    /\ UNCHANGED <<life, mine, askVars, serving>>
    /\ \A e \in Daemons : e # d => PauseKept(e) /\ boot'[e] = boot[e]
    /\ lease'[d] \in {lease[d], 0}
    /\ byPeer'[d] => master'[d] \/ free'[d]
    /\ master[d] => master'[d] \/ free'[d]
    /\ free[d] => free'[d]
    /\ manual'[d] => lease'[d] = 0 /\ serving[d].act # "released"
    /\ d = "dev" => boot'[d] \notin {"found", "ask"}
    /\ boot'[d] = "done" => boot[d] = "done" \/ master'[d] \/ free'[d] \/ ~Live(Peer(d))
    /\ life[d] = "down" => boot'[d] = boot[d]
    /\ life[d] = "boot" /\ ~free'[d] =>
           boot'[d] = boot[d] \/ (boot'[d] = "done" /\ master'[d])

LEMMA LocalStepKeeps ==
    ASSUME IInv, TypeOK', NEW d \in Daemons, LocalStep(d)
    PROVE  IInv'
<1>t. TypeOK /\ AsksTyped /\ MaxLeases \in Nat /\ drawn \in Nat
  BY Typed DEF IInv
<1>p. /\ Peer(d) \in Daemons /\ Peer(d) # d /\ Peer(Peer(d)) = d
      /\ \A e \in Daemons : e = d \/ e = Peer(d)
  BY Peers
<1>u. /\ life' = life /\ mine' = mine /\ serving' = serving
      /\ wire' = wire /\ asking' = asking /\ answer' = answer /\ drawn' = drawn
  BY DEF LocalStep, askVars
<1>1. Numbered'
  <2>1. \A e \in Daemons : lease'[e] \in {lease[e], 0}
    BY DEF LocalStep, PauseKept
  <2> QED BY <1>t, <1>u, <2>1 DEF IInv, Numbered
<1>2. Asked'
  BY <1>u DEF IInv, Asked
<1>3. Fresh'
  <2>1. \A e \in Daemons : lease'[e] \in {lease[e], 0}
    BY DEF LocalStep, PauseKept
  <2> QED BY <1>u, <2>1 DEF IInv, Fresh
<1>4. OwnAsks'
  BY <1>u DEF IInv, OwnAsks, LocalStep, Daemons
<1>5. Standing'
  BY DEF IInv, Standing, LocalStep, PauseKept
<1>6. Passive'
  <2>1. \A e \in Daemons : life'[e] = "down" => Silent(e)' /\ boot'[e] = "no"
    BY <1>u DEF IInv, Passive, Silent, LocalStep
  <2>2. ASSUME NEW e \in Daemons, life'[e] = "boot", ~free'[e]
        PROVE  Silent(e)' /\ (boot'[e] = "wait" \/ (boot'[e] = "done" /\ master'[e]))
    <3>1. ~free[e]
      BY <2>2 DEF LocalStep, PauseKept
    <3>2. Silent(e)' /\ (boot[e] = "wait" \/ (boot[e] = "done" /\ master[e]))
      BY <1>u, <2>2, <3>1 DEF IInv, Passive, Silent
    <3>3. CASE e = d
      BY <1>u, <2>2, <3>2, <3>3 DEF LocalStep
    <3>4. CASE e # d
      BY <3>2, <3>4 DEF LocalStep, PauseKept
    <3> QED BY <3>3, <3>4
  <2> QED BY <2>1, <2>2 DEF Passive
<1>7. Returned'
  BY <1>u DEF IInv, Returned, Releases, Draws
<1>8. Spared'
  BY <1>u DEF IInv, Spared, LocalStep, PauseKept
<1>9. Both' => Both
  BY <1>u DEF Both, Live, LocalStep, PauseKept
<1>10. Unanswered
  BY <1>u DEF Unanswered
<1>11. Both' => \A e \in Daemons : Sinks(e)
  <2>1. SUFFICES ASSUME Both', NEW e \in Daemons PROVE Sinks(e)
    OBVIOUS
  <2>2. ~free'[d] /\ Live(Peer(d))
    BY <1>p, <1>u, <2>1 DEF Both, Live
  <2>3. /\ Releases(e)' \subseteq Releases(e)
        /\ serving'[e] = serving[e]
    BY <1>u DEF Releases
  <2>4. /\ lease'[e] \in {lease[e], 0}
        /\ master[e] => master'[e]
        /\ boot'[e] = "done" => boot[e] = "done" \/ master'[e]
    BY <2>2 DEF LocalStep, PauseKept
  <2> QED BY <1>t, <2>3, <2>4, LessHeard
<1>12. ASSUME Both', NEW e \in Daemons PROVE ConsentsKept(e)
  <2>1. ~free'[d]
    BY <1>12 DEF Both
  <2>2. Holds(e) => Holds(e)'
    BY <1>u, <2>1 DEF Holds, LocalStep, PauseKept
  <2>3. Draws(Peer(e), serving[e].id)' => Draws(Peer(e), serving[e].id)
    BY <1>u DEF Draws
  <2> QED BY <1>u, <2>2, <2>3 DEF ConsentsKept
<1>13. Consents' /\ Consented' /\ OneListens'
  BY <1>9, <1>10, <1>11, <1>12, StaysApart DEF IInv
<1> QED BY <1>1, <1>2, <1>3, <1>4, <1>5, <1>6, <1>7, <1>8, <1>13 DEF IInv

LEMMA StandByMoves ==
    ASSUME TypeOK, NEW d \in Daemons, StandBy(d)
    PROVE  /\ PausesTyped'
           /\ master'[d] /\ byPeer'[d] /\ lease'[d] = lease[d] /\ ~manual'[d]
           /\ free'[d] <=> free[d]
           /\ \A e \in Daemons : e # d => PauseKept(e)
<1>1. PausesTyped /\ lease[d] \in 0..MaxLeases
  BY Typed DEF PausesTyped
<1> HIDE DEF PausesTyped
<1>2. SetPause(d, TRUE, TRUE, lease[d], FALSE, FALSE)
  BY DEF StandBy
<1> QED BY <1>1, <1>2, SetPauseMoves

\* A startup thread that goes on before the socket is live lets its daemon go.
LEMMA FreedMoves ==
    ASSUME TypeOK, NEW d \in Daemons,
           free' = [free EXCEPT ![d] = @ \/ ~Live(d)],
           UNCHANGED <<master, byPeer, lease, manual>>
    PROVE  /\ PausesTyped'
           /\ master'[d] <=> master[d]
           /\ byPeer'[d] <=> byPeer[d]
           /\ lease'[d] = lease[d]
           /\ manual'[d] <=> manual[d]
           /\ free'[d] <=> free[d] \/ ~Live(d)
           /\ \A e \in Daemons : e # d => PauseKept(e)
<1>1. PausesTyped
  BY Typed
<1>2. PausesTyped'
  BY <1>1 DEF PausesTyped, Live
<1>3. free'[d] <=> free[d] \/ ~Live(d)
  BY <1>1 DEF PausesTyped, Live
<1>4. \A e \in Daemons : e # d => PauseKept(e)
  BY <1>1 DEF PausesTyped, PauseKept, Live
<1> QED BY <1>2, <1>3, <1>4

LEMMA RestKept ==
    ASSUME TypeOK, PausesTyped', UNCHANGED <<life, starts, mine, askVars, serving>>,
           presses' \in 0..MaxPresses,
           watchdog' \in [Daemons -> {"off", "watch", "dead", "took"}],
           boot' \in [Daemons -> {"no", "wait", "found", "ask", "done"}],
           \A d \in Daemons : lease'[d] # 0 => byPeer'[d]
    PROVE  TypeOK'
<1>1. AsksTyped' /\ RestTyped'
  BY TypeParts DEF AsksTyped, RestTyped, askVars
<1> QED BY <1>1 DEF TypeOK, PausesTyped, AsksTyped, RestTyped, Answers

LEMMA BootReadyKeeps ==
    ASSUME IInv, NEW d \in Daemons, BootReady(d)
    PROVE  IInv'
<1>t. TypeOK /\ AsksTyped /\ PausesTyped /\ MaxLeases \in Nat /\ drawn \in Nat
  BY Typed DEF IInv
<1>p. /\ Peer(d) \in Daemons /\ Peer(d) # d /\ Peer(Peer(d)) = d
      /\ \A e \in Daemons : e = d \/ e = Peer(d)
  BY Peers
<1>u. UNCHANGED <<life, starts, presses, mine, askVars, serving>>
  BY DEF BootReady
<1>l. life[d] # "down"
  BY DEF BootReady, Up
<1>b. /\ boot \in [Daemons -> {"no", "wait", "found", "ask", "done"}]
      /\ watchdog \in [Daemons -> {"off", "watch", "dead", "took"}]
      /\ presses \in 0..MaxPresses
      /\ \A e \in Daemons : lease[e] # 0 => byPeer[e]
  BY <1>t DEF TypeOK
<1>m. lease[d] # 0 \/ serving[d].act = "released" => ~manual[d]
  BY DEF IInv, Spared
<1>1. CASE byPeer[d] /\ Watch(d) /\ boot' = [boot EXCEPT ![d] = "done"] /\ UNCHANGED pauseVars
  <2>1. PausesTyped' /\ \A e \in Daemons : PauseKept(e)
    BY <1>1, <1>t, UnchangedPauses
  <2>2. /\ watchdog' \in [Daemons -> {"off", "watch", "dead", "took"}]
        /\ boot' \in [Daemons -> {"no", "wait", "found", "ask", "done"}]
        /\ boot'[d] = "done" /\ \A e \in Daemons : e # d => boot'[e] = boot[e]
    BY <1>1, <1>b, WatchMoves
  <2>3. TypeOK'
    BY <1>t, <1>u, <1>b, <2>1, <2>2, RestKept DEF PauseKept
  <2>4. LocalStep(d)
    BY <1>l, <1>1, <1>u, <1>m, <2>1, <2>2 DEF LocalStep, PauseKept, IInv, Standing
  <2> QED BY <2>3, <2>4, LocalStepKeeps
<1>2. CASE /\ ~byPeer[d] /\ ~Live(Peer(d))
           /\ boot' = [boot EXCEPT ![d] = "done"]
           /\ free' = [free EXCEPT ![d] = @ \/ ~Live(d)]
           /\ UNCHANGED <<master, byPeer, lease, manual, watchdog>>
  <2>1. /\ PausesTyped' /\ lease'[d] = lease[d]
        /\ (master'[d] <=> master[d]) /\ (byPeer'[d] <=> byPeer[d])
        /\ (manual'[d] <=> manual[d]) /\ (free'[d] <=> free[d] \/ ~Live(d))
        /\ \A e \in Daemons : e # d => PauseKept(e)
    BY <1>2, <1>t, FreedMoves
  <2>2. /\ boot' \in [Daemons -> {"no", "wait", "found", "ask", "done"}]
        /\ boot'[d] = "done" /\ \A e \in Daemons : e # d => boot'[e] = boot[e]
    BY <1>2, <1>b
  <2>3. \A e \in Daemons : lease'[e] # 0 => byPeer'[e]
    BY <1>b, <1>2
  <2>4. TypeOK'
    BY <1>t, <1>u, <1>b, <1>2, <2>1, <2>2, <2>3, RestKept
  <2>5. lease[d] = 0
    BY <1>2, <1>b
  <2>6. life[d] = "boot" => free'[d]
    BY <2>1 DEF Live
  <2>7. manual'[d] => serving[d].act # "released"
    BY <1>m, <2>1
  <2>8. LocalStep(d)
    BY <1>l, <1>u, <1>2, <2>1, <2>2, <2>5, <2>6, <2>7 DEF LocalStep
  <2> QED BY <2>4, <2>8, LocalStepKeeps
<1>3. CASE /\ StandBy(d) /\ Watch(d) /\ boot' = [boot EXCEPT ![d] = "done"]
  <2>1. /\ PausesTyped'
        /\ master'[d] /\ byPeer'[d] /\ lease'[d] = lease[d] /\ ~manual'[d]
        /\ free'[d] <=> free[d]
        /\ \A e \in Daemons : e # d => PauseKept(e)
    BY <1>t, <1>3, StandByMoves
  <2>2. /\ watchdog' \in [Daemons -> {"off", "watch", "dead", "took"}]
        /\ boot' \in [Daemons -> {"no", "wait", "found", "ask", "done"}]
        /\ boot'[d] = "done" /\ \A e \in Daemons : e # d => boot'[e] = boot[e]
    BY <1>3, <1>b, WatchMoves
  <2>3. \A e \in Daemons : lease'[e] # 0 => byPeer'[e]
    BY <1>b, <2>1 DEF PauseKept
  <2>4. TypeOK'
    BY <1>t, <1>u, <1>b, <2>1, <2>2, <2>3, RestKept
  <2>5. LocalStep(d)
    BY <1>l, <1>u, <2>1, <2>2 DEF LocalStep
  <2> QED BY <2>4, <2>5, LocalStepKeeps
<1>4. CASE /\ ~byPeer[d] /\ Live(Peer(d)) /\ d = "prod"
           /\ boot' = [boot EXCEPT ![d] = "found"]
           /\ free' = [free EXCEPT ![d] = @ \/ ~Live(d)]
           /\ UNCHANGED <<master, byPeer, lease, manual, watchdog>>
  <2>1. /\ PausesTyped' /\ lease'[d] = lease[d]
        /\ (master'[d] <=> master[d]) /\ (byPeer'[d] <=> byPeer[d])
        /\ (manual'[d] <=> manual[d]) /\ (free'[d] <=> free[d] \/ ~Live(d))
        /\ \A e \in Daemons : e # d => PauseKept(e)
    BY <1>4, <1>t, FreedMoves
  <2>2. /\ boot' \in [Daemons -> {"no", "wait", "found", "ask", "done"}]
        /\ boot'[d] = "found" /\ \A e \in Daemons : e # d => boot'[e] = boot[e]
    BY <1>4, <1>b
  <2>3. \A e \in Daemons : lease'[e] # 0 => byPeer'[e]
    BY <1>b, <1>4
  <2>4. TypeOK'
    BY <1>t, <1>u, <1>b, <1>4, <2>1, <2>2, <2>3, RestKept
  <2>5. lease[d] = 0
    BY <1>4, <1>b
  <2>6. life[d] = "boot" => free'[d]
    BY <2>1 DEF Live
  <2>7. manual'[d] => serving[d].act # "released"
    BY <1>m, <2>1
  <2>8. LocalStep(d)
    BY <1>l, <1>u, <1>4, <2>1, <2>2, <2>5, <2>6, <2>7 DEF LocalStep
  <2> QED BY <2>4, <2>8, LocalStepKeeps
<1> QED BY <1>1, <1>2, <1>3, <1>4 DEF BootReady

LEMMA ResumesKeeps ==
    ASSUME IInv, NEW d \in Daemons, Press(d), Resumes(d, TRUE),
           UNCHANGED <<life, starts, mine, watchdog, boot, askVars, serving>>
    PROVE  IInv'
<1>t. TypeOK /\ PausesTyped /\ 0 \in 0..MaxLeases
  BY Typed DEF IInv
<1>1. /\ PausesTyped'
      /\ ~master'[d] /\ ~byPeer'[d] /\ lease'[d] = 0 /\ ~manual'[d] /\ free'[d]
      /\ \A e \in Daemons : e # d => PauseKept(e)
  <2>1. SetPause(d, FALSE, FALSE, 0, FALSE, TRUE)
    BY DEF Resumes
  <2> QED BY <1>t, <2>1, SetPauseMoves
<1>2. /\ presses' \in 0..MaxPresses
      /\ \A e \in Daemons : lease'[e] # 0 => byPeer'[e]
  BY <1>t, <1>1, PeerAssumption DEF TypeOK, Press, PauseKept
<1>3. TypeOK'
  BY <1>t, <1>1, <1>2, RestKept DEF TypeOK
<1>4. LocalStep(d)
  BY <1>1 DEF LocalStep, IInv, OwnAsks
<1> QED BY <1>3, <1>4, LocalStepKeeps

LEMMA TogglePausesKeeps ==
    ASSUME IInv, NEW d \in Daemons, TogglePauses(d)
    PROVE  IInv'
<1>t. TypeOK /\ PausesTyped /\ 0 \in 0..MaxLeases
  BY Typed DEF IInv
<1>u. UNCHANGED <<life, starts, mine, watchdog, boot, askVars, serving>>
  BY DEF TogglePauses
<1>1. /\ PausesTyped'
      /\ master'[d] /\ ~byPeer'[d] /\ lease'[d] = 0 /\ ~manual'[d] /\ (free'[d] <=> free[d])
      /\ \A e \in Daemons : e # d => PauseKept(e)
  <2>1. SetPause(d, TRUE, FALSE, 0, FALSE, FALSE)
    BY DEF TogglePauses
  <2> QED BY <1>t, <2>1, SetPauseMoves
<1>2. /\ presses' \in 0..MaxPresses
      /\ \A e \in Daemons : lease'[e] # 0 => byPeer'[e]
  BY <1>t, <1>1, PeerAssumption DEF TypeOK, TogglePauses, Press, PauseKept
<1>3. TypeOK'
  BY <1>t, <1>u, <1>1, <1>2, RestKept DEF TypeOK
<1>4. LocalStep(d)
  BY <1>u, <1>1 DEF LocalStep, IInv, OwnAsks
<1> QED BY <1>3, <1>4, LocalStepKeeps

LEMMA SetPausedKeeps ==
    ASSUME IInv, NEW d \in Daemons, NEW paused \in BOOLEAN, SetPaused(d, paused)
    PROVE  IInv'
<1>t. TypeOK /\ PausesTyped /\ 0 \in 0..MaxLeases
  BY Typed DEF IInv
<1>u. /\ UNCHANGED <<life, starts, mine, watchdog, boot, askVars, serving>>
      /\ serving[d].act # "released"
  BY DEF SetPaused, NoRequest
<1>1. /\ PausesTyped'
      /\ (master'[d] <=> paused) /\ ~byPeer'[d] /\ lease'[d] = 0
      /\ (free'[d] <=> free[d] \/ ~paused)
      /\ \A e \in Daemons : e # d => PauseKept(e)
  <2>1. CASE paused = TRUE
    <3>1. SetPause(d, TRUE, FALSE, 0, TRUE, FALSE)
      BY <2>1 DEF SetPaused
    <3> QED BY <1>t, <2>1, <3>1, SetPauseMoves
  <2>2. CASE paused = FALSE
    <3>1. SetPause(d, FALSE, FALSE, 0, FALSE, TRUE)
      BY <2>2 DEF SetPaused
    <3> QED BY <1>t, <2>2, <3>1, SetPauseMoves
  <2> QED BY <2>1, <2>2
<1>2. /\ presses' \in 0..MaxPresses
      /\ \A e \in Daemons : lease'[e] # 0 => byPeer'[e]
  <2>1. presses' \in 0..MaxPresses
    BY <1>t, PeerAssumption DEF TypeOK, SetPaused, Press
  <2>2. \A e \in Daemons : lease'[e] # 0 => byPeer'[e]
    BY <1>t, <1>1 DEF TypeOK, PauseKept
  <2> QED BY <2>1, <2>2
<1>3. TypeOK'
  BY <1>t, <1>u, <1>1, <1>2, RestKept DEF TypeOK
<1>4. LocalStep(d)
  BY <1>u, <1>1 DEF LocalStep, IInv, OwnAsks
<1> QED BY <1>3, <1>4, LocalStepKeeps

LEMMA WatchStepKeeps ==
    ASSUME IInv, NEW d \in Daemons, WatchStep(d)
    PROVE  IInv'
<1>t. TypeOK /\ PausesTyped /\ 0 \in 0..MaxLeases
  BY Typed DEF IInv
<1>m. lease[d] # 0 \/ serving[d].act = "released" => ~manual[d]
  BY DEF IInv, Spared
<1>1. CASE WatchPoll(d)
  <2>1. PausesTyped' /\ \A e \in Daemons : PauseKept(e)
    BY <1>1, <1>t, UnchangedPauses DEF WatchPoll
  <2>2. watchdog' \in [Daemons -> {"off", "watch", "dead", "took"}]
    BY <1>1, <1>t DEF WatchPoll, TypeOK
  <2>3. TypeOK'
    BY <1>1, <1>t, <2>1, <2>2, RestKept DEF WatchPoll, TypeOK, PauseKept
  <2>4. LocalStep(d)
    BY <1>1, <1>m, <2>1 DEF WatchPoll, LocalStep, PauseKept, IInv, Standing, OwnAsks
  <2> QED BY <2>3, <2>4, LocalStepKeeps
<1>2. CASE WatchTake(d)
  <2>1. /\ PausesTyped'
        /\ (master'[d] <=> master[d]) /\ ~byPeer'[d] /\ lease'[d] = 0
        /\ (manual'[d] <=> manual[d]) /\ (free'[d] <=> free[d])
        /\ \A e \in Daemons : e # d => PauseKept(e)
    BY <1>2, <1>t DEF WatchTake, PausesTyped, PauseKept
  <2>2. watchdog' \in [Daemons -> {"off", "watch", "dead", "took"}]
    BY <1>2, <1>t DEF WatchTake, TypeOK
  <2>3. TypeOK'
    BY <1>2, <1>t, <2>1, <2>2, RestKept DEF WatchTake, TypeOK, PauseKept
  <2>4. LocalStep(d)
    BY <1>2, <1>m, <2>1 DEF WatchTake, LocalStep, PauseKept, IInv, OwnAsks
  <2> QED BY <2>3, <2>4, LocalStepKeeps
<1>3. CASE WatchResume(d)
  <2>1. /\ PausesTyped'
        /\ ~master'[d] /\ (byPeer'[d] <=> byPeer[d]) /\ lease'[d] = lease[d]
        /\ ~manual'[d] /\ free'[d]
        /\ \A e \in Daemons : e # d => PauseKept(e)
    BY <1>3, <1>t DEF WatchResume, PausesTyped, PauseKept
  <2>2. watchdog' \in [Daemons -> {"off", "watch", "dead", "took"}]
    BY <1>3, <1>t DEF WatchResume, TypeOK
  <2>3. TypeOK'
    BY <1>3, <1>t, <2>1, <2>2, RestKept DEF WatchResume, TypeOK, PauseKept
  <2>4. LocalStep(d)
    BY <1>3, <2>1 DEF WatchResume, LocalStep, PauseKept, IInv, OwnAsks
  <2> QED BY <2>3, <2>4, LocalStepKeeps
<1> QED BY <1>1, <1>2, <1>3 DEF WatchStep

-----------------------------------------------------------------------------
(* Asking the peer for a pause.                                               *)

\* An ask of the peer's pause: production's startup thread, or dev's Resume.
AskStep(d, a) ==
    /\ Ask(d, a, TRUE) /\ Live(Peer(d))
    /\ UNCHANGED <<life, starts, pauseVars, mine, watchdog, serving>>
    /\ presses' \in 0..MaxPresses
    /\ \A e \in Daemons : e # d => boot'[e] = boot[e]
    /\ boot' \in [Daemons -> {"no", "wait", "found", "ask", "done"}]
    /\ \/ a = "boot" /\ boot[d] = "found" /\ boot'[d] = "ask"
       \/ a = "hand" /\ d = "dev" /\ Live(d) /\ boot'[d] = boot[d]

LEMMA AskStepKeeps ==
    ASSUME IInv, NEW d \in Daemons, NEW a \in Askers, AskStep(d, a)
    PROVE  IInv'
<1>t. TypeOK /\ AsksTyped /\ PausesTyped /\ MaxLeases \in Nat /\ drawn \in Nat
      /\ mine \in [Daemons -> 0..MaxLeases]
  BY Typed DEF IInv
<1>p. /\ Peer(d) \in Daemons /\ Peer(d) # d /\ Peer(Peer(d)) = d
      /\ \A e \in Daemons : e = d \/ e = Peer(d)
  BY Peers
<1>q. \A e \in Daemons : Peer(e) \in Daemons
  BY Peers
<1>u. /\ life' = life /\ mine' = mine /\ serving' = serving
      /\ master' = master /\ byPeer' = byPeer /\ lease' = lease /\ manual' = manual
      /\ free' = free
  BY DEF AskStep, pauseVars
<1>k. PausesTyped' /\ \A e \in Daemons : PauseKept(e)
  BY <1>t, UnchangedPauses DEF AskStep
<1>x. Ask(d, a, TRUE) /\ TRUE \in BOOLEAN
  BY DEF AskStep
<1>a. AsksTyped' /\ \E id \in 1..MaxLeases :
         /\ id = mine[d] \/ id = drawn + 1
         /\ id <= drawn' /\ drawn <= drawn'
         /\ wire' = wire \cup {[to |-> Peer(d), id |-> id, pause |-> TRUE]}
         /\ asking'[d][a] = id /\ answer'[d][a] = "none"
  BY <1>t, <1>x, AskMoves
<1>b. \A e \in Daemons, b \in Askers :
         e # d \/ b # a => asking'[e][b] = asking[e][b] /\ answer'[e][b] = answer[e][b]
  BY <1>t, <1>x, AskMoves
<1>i. PICK id \in 1..MaxLeases :
         /\ id = mine[d] \/ id = drawn + 1
         /\ id <= drawn' /\ drawn <= drawn'
         /\ wire' = wire \cup {[to |-> Peer(d), id |-> id, pause |-> TRUE]}
         /\ asking'[d][a] = id /\ answer'[d][a] = "none"
  BY <1>a
<1>n. id \in Nat /\ id # 0 /\ drawn' \in Nat
  BY <1>a, <1>t DEF AsksTyped
\* Releases stay as they are, and an id d did not use before is a new one.
<1>r. \A e \in Daemons : Releases(e)' = Releases(e)
  BY <1>i DEF Releases
<1>d. \A e \in Daemons : \A n : Draws(e, n)' => Draws(e, n) \/ n = drawn + 1
  <2>1. SUFFICES ASSUME NEW e \in Daemons, NEW n, Draws(e, n)', ~Draws(e, n)
                 PROVE  n = drawn + 1
    OBVIOUS
  <2>2. PICK b \in Askers : asking'[e][b] = n
    BY <2>1, <1>u DEF Draws
  <2>3. e = d /\ b = a
    BY <2>1, <2>2, <1>b DEF Draws
  <2> QED BY <2>1, <2>2, <2>3, <1>i DEF Draws
<1>0. TypeOK'
  <2>1. RestTyped'
    BY <1>t, <1>u DEF AskStep, RestTyped, TypeOK
  <2> QED BY <1>a, <1>k, <2>1 DEF TypeOK, PausesTyped, AsksTyped, RestTyped, Answers
<1>1. Numbered'
  <2>1. \A e \in Daemons :
          /\ lease[e] <= drawn' /\ mine[e] <= drawn' /\ serving[e].id <= drawn'
          /\ serving[e].act # "none" => serving[e].id # 0
    BY <1>t, <1>i, <1>n DEF IInv, Numbered, TypeOK
  <2>2. \A e \in Daemons : \A b \in Askers : asking'[e][b] <= drawn'
    BY <1>t, <1>i, <1>b, <1>n DEF IInv, Numbered, AsksTyped
  <2>3. \A r \in wire' : r.id <= drawn'
    BY <1>t, <1>i, <1>n DEF IInv, Numbered, AsksTyped
  <2> QED BY <1>u, <2>1, <2>2, <2>3 DEF Numbered
<1>2. Asked'
  BY <1>i, <1>b, <1>n DEF IInv, Asked
<1>3. Fresh'
  <2>1. SUFFICES ASSUME NEW e \in Daemons, life[e] \in {"down", "boot"}
                 PROVE  /\ \A r \in wire' : r.to # e
                        /\ serving'[e] = NoRequest /\ lease'[e] = 0
                        /\ asking'[e]["hand"] = 0 /\ answer'[e]["hand"] = "none"
                        /\ \A b \in Askers : answer'[Peer(e)][b] = "none"
    BY <1>u DEF Fresh
  <2>2. /\ \A r \in wire : r.to # e
        /\ serving[e] = NoRequest /\ lease[e] = 0
        /\ asking[e]["hand"] = 0 /\ answer[e]["hand"] = "none"
        /\ \A b \in Askers : answer[Peer(e)][b] = "none"
    BY <2>1 DEF IInv, Fresh
  <2>3. Peer(d) # e
    BY <2>1 DEF AskStep, Live
  <2>4. \A r \in wire' : r.to # e
    BY <1>i, <2>2, <2>3
  <2>5. e = d => a = "boot"
    BY <2>1 DEF AskStep, Live
  <2>6. asking'[e]["hand"] = 0 /\ answer'[e]["hand"] = "none"
    BY <1>b, <2>2, <2>5 DEF Askers
  <2>7. \A b \in Askers : answer'[Peer(e)][b] = "none"
    BY <1>b, <1>i, <1>q, <2>2
  <2> QED BY <1>u, <2>2, <2>4, <2>6, <2>7
<1>4. OwnAsks'
  <2>1. "prod" \in Daemons /\ "dev" \in Daemons /\ "hand" \in Askers /\ "boot" \in Askers
    BY DEF Daemons, Askers
  <2>2. a = "boot" => d # "dev"
    BY DEF IInv, OwnAsks, AskStep
  <2>3. boot'["dev"] \notin {"found", "ask"}
    BY <2>1, <2>2 DEF IInv, OwnAsks, AskStep
  <2>4. a = "hand" => d = "dev"
    BY DEF AskStep
  <2> QED BY <1>b, <2>1, <2>2, <2>3, <2>4 DEF IInv, OwnAsks
<1>5. Standing'
  BY <1>u DEF IInv, Standing
<1>6. Passive'
  <2>1. \A e \in Daemons : e # d => (Silent(e) => Silent(e)') /\ boot'[e] = boot[e]
    BY <1>u, <1>b DEF Silent, AskStep
  <2>2. life[d] # "down" /\ ~(life[d] = "boot" /\ ~free[d])
    BY DEF IInv, Passive, AskStep, Live
  <2>3. SUFFICES ASSUME NEW e \in Daemons
                 PROVE  /\ life[e] = "down" => Silent(e)' /\ boot'[e] = "no"
                        /\ life[e] = "boot" /\ ~free[e] =>
                              Silent(e)' /\ (boot'[e] = "wait" \/ (boot'[e] = "done" /\ master[e]))
    BY <1>u DEF Passive
  <2>4. CASE e = d
    BY <2>2, <2>4
  <2>5. CASE e # d
    BY <2>1, <2>5 DEF IInv, Passive
  <2> QED BY <2>4, <2>5
<1>7. Returned'
  <2>1. SUFFICES ASSUME NEW e \in Daemons, NEW r \in Releases(e), life[Peer(e)] # "leaving",
                        Draws(Peer(e), r.id)'
                 PROVE  FALSE
    BY <1>u, <1>r DEF Returned
  <2>2. ~Draws(Peer(e), r.id)
    BY <2>1 DEF IInv, Returned
  <2>3. r.id = drawn + 1
    BY <1>d, <1>q, <2>1, <2>2
  <2>4. r \in wire /\ r.id <= drawn
    BY ReleaseIds, <1>t DEF IInv, Numbered
  <2> QED BY <1>t, <2>3, <2>4
<1>8. Spared'
  BY <1>u DEF IInv, Spared
<1>9. Both' => Both
  BY <1>u DEF Both, Live
<1>10. Unanswered
  BY <1>i, <1>b DEF Unanswered
<1>11. \A e \in Daemons : Sinks(e)
  <2>1. SUFFICES ASSUME NEW e \in Daemons PROVE Sinks(e)
    OBVIOUS
  <2>2. Releases(e)' \subseteq Releases(e)
    BY <1>r
  <2>3. boot'[e] = "done" => boot[e] = "done"
    BY DEF AskStep
  <2> QED BY <1>t, <1>u, <2>2, <2>3, LessHeard
<1>12. ASSUME NEW e \in Daemons PROVE ConsentsKept(e)
  <2>1. Draws(Peer(e), serving[e].id)' => Draws(Peer(e), serving[e].id)
    <3>1. serving[e].id <= drawn /\ serving[e].id \in Nat
      BY <1>t DEF IInv, Numbered, TypeOK
    <3>2. serving[e].id # drawn + 1
      BY <1>t, <3>1
    <3> QED BY <1>d, <1>q, <1>u, <3>2
  <2> QED BY <1>u, <2>1 DEF ConsentsKept, Holds
<1>13. Consents' /\ Consented' /\ OneListens'
  BY <1>9, <1>10, <1>11, <1>12, StaysApart DEF IInv
<1> QED BY <1>0, <1>1, <1>2, <1>3, <1>4, <1>5, <1>6, <1>7, <1>8, <1>13 DEF IInv

LEMMA BootAskKeeps ==
    ASSUME IInv, NEW d \in Daemons, BootAsk(d)
    PROVE  IInv'
<1>t. TypeOK
  BY DEF IInv
<1>1. CASE /\ Live(Peer(d)) /\ Ask(d, "boot", TRUE)
           /\ boot' = [boot EXCEPT ![d] = "ask"]
           /\ UNCHANGED <<pauseVars, watchdog>>
  <2>1. /\ presses' \in 0..MaxPresses
        /\ boot' \in [Daemons -> {"no", "wait", "found", "ask", "done"}]
        /\ boot'[d] = "ask" /\ \A e \in Daemons : e # d => boot'[e] = boot[e]
    BY <1>1, <1>t DEF BootAsk, TypeOK
  <2>2. AskStep(d, "boot")
    BY <1>1, <2>1 DEF BootAsk, AskStep
  <2> QED BY <2>2, AskStepKeeps DEF Askers
<1>2. CASE /\ ~Live(Peer(d))
           /\ StandBy(d) /\ Watch(d) /\ boot' = [boot EXCEPT ![d] = "done"]
           /\ UNCHANGED askVars
  <2>1. /\ PausesTyped'
        /\ master'[d] /\ byPeer'[d] /\ lease'[d] = lease[d] /\ ~manual'[d]
        /\ free'[d] <=> free[d]
        /\ \A e \in Daemons : e # d => PauseKept(e)
    BY <1>t, <1>2, StandByMoves
  <2>2. /\ watchdog' \in [Daemons -> {"off", "watch", "dead", "took"}]
        /\ boot' \in [Daemons -> {"no", "wait", "found", "ask", "done"}]
        /\ boot'[d] = "done" /\ \A e \in Daemons : e # d => boot'[e] = boot[e]
    BY <1>2, <1>t, WatchMoves DEF TypeOK
  <2>3. \A e \in Daemons : lease'[e] # 0 => byPeer'[e]
    BY <1>t, <2>1 DEF PauseKept, TypeOK
  <2>4. TypeOK'
    BY <1>2, <1>t, <2>1, <2>2, <2>3, RestKept DEF BootAsk, TypeOK
  <2>5. life[d] # "down"
    BY DEF BootAsk, IInv, Passive
  <2>6. LocalStep(d)
    BY <1>2, <2>1, <2>2, <2>5 DEF BootAsk, LocalStep
  <2> QED BY <2>4, <2>6, LocalStepKeeps
<1> QED BY <1>1, <1>2 DEF BootAsk

LEMMA ResumeKeeps ==
    ASSUME IInv, NEW d \in Daemons, Resume(d)
    PROVE  IInv'
<1>t. TypeOK
  BY DEF IInv
<1>1. CASE d = "dev" /\ Live(Peer(d))
  <2>1. presses' \in 0..MaxPresses
    BY <1>t, PeerAssumption DEF Resume, Press, TypeOK
  <2>2. AskStep(d, "hand")
    BY <1>1, <1>t, <2>1 DEF Resume, Press, AskStep, TypeOK
  <2> QED BY <2>2, AskStepKeeps DEF Askers
<1>2. CASE ~(d = "dev" /\ Live(Peer(d)))
  BY <1>2, ResumesKeeps DEF Resume
<1> QED BY <1>1, <1>2

-----------------------------------------------------------------------------
(* The end of a wait: with an answer, or without.                             *)

\* d stops waiting and draws its conclusions; its pause state changes as told.
EndStep(d, a) ==
    /\ StopAsking(d, a) /\ RecordAttempt(d, a, answer[d][a])
    /\ UNCHANGED <<life, starts, presses, serving>>
    /\ PausesTyped' /\ watchdog' \in [Daemons -> {"off", "watch", "dead", "took"}]
    /\ boot' \in [Daemons -> {"no", "wait", "found", "ask", "done"}]
    /\ \A e \in Daemons : e # d => PauseKept(e) /\ boot'[e] = boot[e]
    /\ boot'[d] \in {boot[d], "done"} /\ life[d] # "down"
    /\ lease'[d] \in {lease[d], 0} /\ (lease'[d] # 0 => byPeer'[d])
    /\ byPeer'[d] => master'[d] \/ free'[d]
    /\ free[d] <=> free'[d]
    /\ lease'[d] # 0 \/ serving[d].act = "released" => ~manual'[d]

\* The books stay in order, nothing is answered or asked for anew.
LEMMA EndStepBooks ==
    ASSUME IInv, NEW d \in Daemons, NEW a \in Askers, EndStep(d, a)
    PROVE  /\ TypeOK' /\ Numbered' /\ Asked' /\ Fresh' /\ OwnAsks' /\ Standing' /\ Passive'
           /\ Returned' /\ Spared'
           /\ Both' => Both
           /\ Unanswered
           /\ answer'[d][a] = "none"
           /\ \A e \in Daemons : Releases(e)' = Releases(e) /\ serving'[e] = serving[e]
           /\ \A e \in Daemons :
                 serving[e].act # "none" /\ Draws(Peer(e), serving[e].id)' => Draws(Peer(e), serving[e].id)
<1>t. TypeOK /\ AsksTyped /\ PausesTyped /\ MaxLeases \in Nat /\ drawn \in Nat
      /\ mine \in [Daemons -> 0..MaxLeases]
  BY Typed DEF IInv
<1>q. \A e \in Daemons : Peer(e) \in Daemons
  BY Peers
<1>u. life' = life /\ serving' = serving
  BY DEF EndStep
<1>s. /\ AsksTyped' /\ wire' = wire /\ drawn' = drawn
      /\ asking'[d][a] = 0 /\ answer'[d][a] = "none"
  BY <1>t, StopAskingMoves DEF EndStep
<1>b. \A e \in Daemons, b \in Askers :
         e # d \/ b # a => asking'[e][b] = asking[e][b] /\ answer'[e][b] = answer[e][b]
  BY <1>t, StopAskingMoves DEF EndStep
<1>m. /\ mine' \in [Daemons -> 0..MaxLeases] /\ mine'[d] \in {asking[d][a], 0}
      /\ \A e \in Daemons : e # d => mine'[e] = mine[e]
  BY <1>t, RecordMoves DEF EndStep
<1>l. \A e \in Daemons : lease'[e] \in {lease[e], 0}
  BY DEF EndStep, PauseKept
<1>r. \A e \in Daemons : Releases(e)' = Releases(e)
  BY <1>s DEF Releases
<1>d. \A e \in Daemons : \A n : Draws(e, n)' => Draws(e, n) \/ n = 0
  <2>1. SUFFICES ASSUME NEW e \in Daemons, NEW n, Draws(e, n)', n # 0
                 PROVE  Draws(e, n)
    OBVIOUS
  <2>2. CASE mine'[e] = n
    BY <1>m, <2>1, <2>2 DEF Draws
  <2>3. CASE \E b \in Askers : asking'[e][b] = n
    BY <1>s, <1>b, <2>1, <2>3 DEF Draws
  <2> QED BY <2>1, <2>2, <2>3 DEF Draws
<1>0. TypeOK'
  <2>1. \A e \in Daemons : lease'[e] # 0 => byPeer'[e]
    BY <1>t DEF EndStep, PauseKept, TypeOK
  <2>2. RestTyped'
    BY <1>t, <1>u, <1>m, <2>1 DEF EndStep, RestTyped, TypeOK
  <2>3. PausesTyped'
    BY DEF EndStep
  <2> QED BY <1>s, <2>2, <2>3 DEF TypeOK, PausesTyped, AsksTyped, RestTyped, Answers
<1>1. Numbered'
  <2>1. \A e \in Daemons : /\ mine'[e] <= drawn /\ lease'[e] <= drawn
                           /\ serving[e].id <= drawn
                           /\ serving[e].act # "none" => serving[e].id # 0
    BY <1>t, <1>m, <1>l DEF IInv, Numbered
  <2>2. \A e \in Daemons : \A b \in Askers : asking'[e][b] <= drawn
    BY <1>t, <1>s, <1>b DEF IInv, Numbered
  <2> QED BY <1>u, <1>s, <2>1, <2>2 DEF IInv, Numbered
<1>2. Asked'
  BY <1>s, <1>b DEF IInv, Asked
<1>3. Fresh'
  <2>1. SUFFICES ASSUME NEW e \in Daemons, life[e] \in {"down", "boot"}
                 PROVE  /\ \A r \in wire' : r.to # e
                        /\ serving'[e] = NoRequest /\ lease'[e] = 0
                        /\ asking'[e]["hand"] = 0 /\ answer'[e]["hand"] = "none"
                        /\ \A b \in Askers : answer'[Peer(e)][b] = "none"
    BY <1>u DEF Fresh
  <2>2. /\ \A r \in wire : r.to # e
        /\ serving[e] = NoRequest /\ lease[e] = 0
        /\ asking[e]["hand"] = 0 /\ answer[e]["hand"] = "none"
        /\ \A b \in Askers : answer[Peer(e)][b] = "none"
    BY <2>1 DEF IInv, Fresh
  <2>3. asking'[e]["hand"] = 0 /\ answer'[e]["hand"] = "none"
    BY <1>b, <1>s, <2>2 DEF Askers
  <2>4. \A b \in Askers : answer'[Peer(e)][b] = "none"
    BY <1>b, <1>s, <1>q, <2>2
  <2> QED BY <1>u, <1>s, <1>l, <2>2, <2>3, <2>4
<1>4. OwnAsks'
  <2>1. "prod" \in Daemons /\ "dev" \in Daemons /\ "hand" \in Askers /\ "boot" \in Askers
    BY DEF Daemons, Askers
  <2>2. boot'["dev"] \notin {"found", "ask"}
    BY <2>1 DEF IInv, OwnAsks, EndStep
  <2>3. asking'["prod"]["hand"] = 0 /\ asking'["dev"]["boot"] = 0
    BY <1>b, <1>s, <2>1 DEF IInv, OwnAsks
  <2> QED BY <2>2, <2>3 DEF OwnAsks
<1>5. Standing'
  BY DEF IInv, Standing, EndStep, PauseKept
<1>6. Passive'
  <2>1. \A e \in Daemons : e # d =>
           (Silent(e) => Silent(e)') /\ boot'[e] = boot[e] /\ PauseKept(e)
    BY <1>m, <1>b DEF Silent, EndStep
  <2>2. ~Silent(d) /\ life[d] # "down"
    BY DEF Silent, EndStep, StopAsking
  <2>3. ~(life[d] = "boot" /\ ~free'[d])
    BY <2>2 DEF IInv, Passive, EndStep
  <2>4. SUFFICES ASSUME NEW e \in Daemons
                 PROVE  /\ life[e] = "down" => Silent(e)' /\ boot'[e] = "no"
                        /\ life[e] = "boot" /\ ~free'[e] =>
                              Silent(e)' /\ (boot'[e] = "wait" \/ (boot'[e] = "done" /\ master'[e]))
    BY <1>u DEF Passive
  <2>5. CASE e = d
    BY <2>2, <2>3, <2>5
  <2>6. CASE e # d
    BY <2>1, <2>6 DEF IInv, Passive, PauseKept
  <2> QED BY <2>5, <2>6
<1>7. Returned'
  <2>1. SUFFICES ASSUME NEW e \in Daemons, NEW r \in Releases(e), life[Peer(e)] # "leaving",
                        Draws(Peer(e), r.id)'
                 PROVE  FALSE
    BY <1>u, <1>r DEF Returned
  <2>2. ~Draws(Peer(e), r.id)
    BY <2>1 DEF IInv, Returned
  <2>3. r.id # 0
    BY <1>t, ReleaseIds
  <2> QED BY <1>d, <1>q, <2>1, <2>2, <2>3
<1>8. Spared'
  BY <1>u DEF IInv, Spared, EndStep, PauseKept
<1>9. Both' => Both
  BY <1>u DEF Both, Live, EndStep, PauseKept
<1>10. Unanswered
  BY <1>s, <1>b DEF Unanswered
<1>11. \A e \in Daemons :
          serving[e].act # "none" /\ Draws(Peer(e), serving[e].id)' => Draws(Peer(e), serving[e].id)
  <2>1. SUFFICES ASSUME NEW e \in Daemons, serving[e].act # "none",
                        Draws(Peer(e), serving[e].id)'
                 PROVE  Draws(Peer(e), serving[e].id)
    OBVIOUS
  <2>2. serving[e].id # 0
    BY <2>1 DEF IInv, Numbered
  <2> QED BY <1>d, <1>q, <1>u, <2>1, <2>2
<1> QED BY <1>0, <1>1, <1>2, <1>3, <1>4, <1>5, <1>6, <1>7, <1>8, <1>9, <1>10, <1>11, <1>s, <1>r, <1>u

\* A wait ends with d no nearer to listening: paused at the end of its startup, or
\* as it was before.
LEMMA EndStepApart ==
    ASSUME IInv, NEW d \in Daemons, NEW a \in Askers, EndStep(d, a),
           Both' => (master[d] => master'[d]),
           Both' => (boot'[d] = "done" => boot[d] = "done" \/ master'[d])
    PROVE  IInv'
<1>t. AsksTyped
  BY Typed DEF IInv
<1>b. /\ TypeOK' /\ Numbered' /\ Asked' /\ Fresh' /\ OwnAsks' /\ Standing' /\ Passive'
      /\ Returned' /\ Spared'
      /\ Both' => Both
      /\ Unanswered
  BY EndStepBooks
<1>c. /\ \A e \in Daemons : Releases(e)' = Releases(e) /\ serving'[e] = serving[e]
      /\ \A e \in Daemons :
            serving[e].act # "none" /\ Draws(Peer(e), serving[e].id)' => Draws(Peer(e), serving[e].id)
  BY EndStepBooks
<1>1. ASSUME Both', NEW e \in Daemons PROVE Sinks(e)
  <2>1. Releases(e)' \subseteq Releases(e) /\ serving'[e] = serving[e]
    BY <1>c
  <2>2. /\ lease'[e] \in {lease[e], 0}
        /\ master[e] => master'[e]
        /\ boot'[e] = "done" => boot[e] = "done" \/ master'[e]
    BY <1>1 DEF EndStep, PauseKept
  <2> QED BY <1>t, <2>1, <2>2, LessHeard
<1>2. ASSUME Both', NEW e \in Daemons PROVE ConsentsKept(e)
  <2>1. Holds(e) => Holds(e)'
    BY <1>c, <1>2 DEF Holds, EndStep, PauseKept
  <2> QED BY <1>c, <2>1 DEF ConsentsKept
<1>3. Consents' /\ Consented' /\ OneListens'
  BY <1>b, <1>1, <1>2, StaysApart DEF IInv
<1> QED BY <1>b, <1>3 DEF IInv

LEMMA BootEndKeeps ==
    ASSUME IInv, NEW d \in Daemons, BootEnd(d, answer[d]["boot"])
    PROVE  IInv'
<1>t. TypeOK /\ AsksTyped /\ PausesTyped
  BY Typed DEF IInv
<1>h. "boot" \in Askers
  BY DEF Askers
<1>m. lease[d] # 0 \/ serving[d].act = "released" => ~manual[d]
  BY DEF IInv, Spared
<1>b. /\ boot' \in [Daemons -> {"no", "wait", "found", "ask", "done"}]
      /\ boot'[d] = "done" /\ \A e \in Daemons : e # d => boot'[e] = boot[e]
  BY <1>t DEF BootEnd, TypeOK
<1>l. life[d] # "down"
  BY DEF BootEnd, IInv, Passive
<1>1. CASE ~Confirmed(answer[d]["boot"])
  <2>1. StandBy(d) /\ Watch(d)
    BY <1>1 DEF BootEnd
  <2>2. /\ PausesTyped'
        /\ master'[d] /\ byPeer'[d] /\ lease'[d] = lease[d] /\ ~manual'[d]
        /\ free'[d] <=> free[d]
        /\ \A e \in Daemons : e # d => PauseKept(e)
    BY <1>t, <2>1, StandByMoves
  <2>3. watchdog' \in [Daemons -> {"off", "watch", "dead", "took"}]
    BY <2>1, <1>t, WatchMoves DEF TypeOK
  <2>4. EndStep(d, "boot")
    BY <1>b, <1>l, <2>2, <2>3 DEF BootEnd, EndStep
  <2> QED BY <1>h, <2>2, <2>4, EndStepApart
<1>2. CASE Confirmed(answer[d]["boot"])
  <2>1. UNCHANGED pauseVars /\ watchdog' = watchdog
    BY <1>2 DEF BootEnd
  <2>2. PausesTyped' /\ \A e \in Daemons : PauseKept(e)
    BY <1>t, <2>1, UnchangedPauses
  <2>3. EndStep(d, "boot")
    <3>1. lease[d] # 0 => byPeer[d]
      BY <1>t DEF TypeOK
    <3>2. watchdog' \in [Daemons -> {"off", "watch", "dead", "took"}]
      BY <1>t, <2>1 DEF TypeOK
    <3>3. PauseKept(d)
      BY <2>2
    <3> QED BY <1>b, <1>l, <1>m, <2>2, <3>1, <3>2, <3>3
            DEF BootEnd, EndStep, PauseKept, IInv, Standing
  <2>4. CASE Both' => master[d]
    <3>1. Both' => (boot'[d] = "done" => boot[d] = "done" \/ master'[d])
      BY <2>2, <2>4 DEF PauseKept
    <3>2. Both' => (master[d] => master'[d])
      BY <2>2 DEF PauseKept
    <3> QED BY <1>h, <2>3, <3>1, <3>2, EndStepApart
  \* The other one yields: production was told so, and is not paused itself.
  <2>5. CASE Both' /\ ~master[d]
    <3>b. /\ TypeOK' /\ Numbered' /\ Asked' /\ Fresh' /\ OwnAsks' /\ Standing' /\ Passive'
          /\ Returned' /\ Spared'
          /\ Both /\ Unanswered /\ answer'[d]["boot"] = "none"
      BY <1>h, <2>3, <2>5, EndStepBooks
    <3>c. /\ \A e \in Daemons : Releases(e)' = Releases(e) /\ serving'[e] = serving[e]
          /\ \A e \in Daemons :
                serving[e].act # "none" /\ Draws(Peer(e), serving[e].id)' => Draws(Peer(e), serving[e].id)
      BY <1>h, <2>3, EndStepBooks
    <3>p. "prod" \in Daemons /\ "dev" \in Daemons /\ "hand" \in Askers
      BY DEF Daemons, Askers
    <3>1. d = "prod"
      BY DEF BootEnd, IInv, OwnAsks, Daemons
    <3>2. ~Yields("prod") /\ Yields("dev")
      BY <1>2, <2>5, <3>b, <3>1 DEF Confirmed, IInv, Consented, Yields
    <3>3. Sinks("dev")
      <4>1. Releases("dev")' \subseteq Releases("dev") /\ serving'["dev"] = serving["dev"]
        BY <3>c, <3>p
      <4>2. /\ lease'["dev"] \in {lease["dev"], 0}
            /\ master["dev"] => master'["dev"]
            /\ boot'["dev"] = boot["dev"]
        BY <2>2, <3>1, <3>p, <1>b DEF PauseKept
      <4> QED BY <1>t, <3>p, <4>1, <4>2, LessHeard
    <3>4. Yields("dev")' /\ ~MayListen("dev")'
      BY <3>2, <3>3 DEF Sinks, Yields
    <3>5. OneListens'
      BY <3>4 DEF OneListens
    <3>6. Consented'
      <4>1. answer'["dev"]["hand"] \notin {"owned", "manual"}
        BY <3>b, <3>p, <3>2 DEF IInv, Consented, Unanswered
      <4> QED BY <3>b, <3>1, <4>1 DEF Consented
    <3>7. Consents'
      <4>1. SUFFICES ASSUME NEW e \in Daemons, serving'[e].act \in {"owned", "manual"},
                            Draws(Peer(e), serving[e].id)'
                     PROVE  Holds(e)'
        BY DEF Consents
      <4>2. serving'[e] = serving[e] /\ Draws(Peer(e), serving[e].id)
        BY <3>c, <4>1
      <4>3. Holds(e)
        BY <3>b, <3>2, <4>1, <4>2 DEF IInv, Consents
      <4> QED BY <2>2, <4>2, <4>3 DEF Holds, PauseKept
    <3> QED BY <3>b, <3>5, <3>6, <3>7 DEF IInv
  <2> QED BY <2>4, <2>5
<1> QED BY <1>1, <1>2

LEMMA ResumeEndKeeps ==
    ASSUME IInv, NEW d \in Daemons, ResumeEnd(d, answer[d]["hand"])
    PROVE  IInv'
<1>t. TypeOK /\ AsksTyped /\ PausesTyped /\ 0 \in 0..MaxLeases
  BY Typed DEF IInv
<1>h. "hand" \in Askers /\ "boot" \in Askers /\ "prod" \in Daemons /\ "dev" \in Daemons
  BY DEF Askers, Daemons
<1>d. d = "dev"
  BY DEF ResumeEnd, StopAsking, IInv, OwnAsks, Daemons
<1>m. lease[d] # 0 \/ serving[d].act = "released" => ~manual[d]
  BY DEF IInv, Spared
<1>b. /\ boot' = boot /\ watchdog' = watchdog /\ life[d] # "down"
      /\ boot' \in [Daemons -> {"no", "wait", "found", "ask", "done"}]
      /\ watchdog' \in [Daemons -> {"off", "watch", "dead", "took"}]
  BY <1>t DEF ResumeEnd, Up, TypeOK
<1>1. CASE ~Confirmed(answer[d]["hand"])
  <2>1. PausesTyped' /\ \A e \in Daemons : PauseKept(e)
    BY <1>1, <1>t, UnchangedPauses DEF ResumeEnd
  <2>2. EndStep(d, "hand")
    <3>1. lease[d] # 0 => byPeer[d]
      BY <1>t DEF TypeOK
    <3>2. PauseKept(d)
      BY <2>1
    <3> QED BY <1>b, <1>m, <2>1, <3>1, <3>2 DEF ResumeEnd, EndStep, PauseKept, IInv, Standing
  <2>3. /\ master[d] => master'[d]
        /\ boot'[d] = "done" => boot[d] = "done" \/ master'[d]
    BY <1>b, <2>1 DEF PauseKept
  <2> QED BY <1>h, <2>2, <2>3, EndStepApart
\* Production yields: dev was told so.
<1>2. CASE Confirmed(answer[d]["hand"])
  <2>1. /\ PausesTyped'
        /\ ~master'[d] /\ ~byPeer'[d] /\ lease'[d] = 0 /\ ~manual'[d]
        /\ (free'[d] <=> free[d])
        /\ \A e \in Daemons : e # d => PauseKept(e)
    <3>1. SetPause(d, FALSE, FALSE, 0, FALSE, FALSE)
      BY <1>2 DEF ResumeEnd, Resumes
    <3> QED BY <1>t, <3>1, SetPauseMoves
  <2>2. EndStep(d, "hand")
    BY <1>b, <2>1 DEF ResumeEnd, EndStep
  <2>b. /\ TypeOK' /\ Numbered' /\ Asked' /\ Fresh' /\ OwnAsks' /\ Standing' /\ Passive'
        /\ Returned' /\ Spared'
        /\ Both' => Both
    BY <1>h, <2>2, EndStepBooks
  <2>c. /\ \A e \in Daemons : Releases(e)' = Releases(e) /\ serving'[e] = serving[e]
        /\ \A e \in Daemons :
              serving[e].act # "none" /\ Draws(Peer(e), serving[e].id)' => Draws(Peer(e), serving[e].id)
    BY <1>h, <2>2, EndStepBooks
  <2>3. ASSUME Both' PROVE Yields("prod")'
    <3>1. Yields("prod")
      BY <1>2, <1>d, <2>3, <2>b DEF Confirmed, IInv, Consented
    <3>2. Releases("prod")' \subseteq Releases("prod") /\ serving'["prod"] = serving["prod"]
      BY <1>h, <2>c
    <3>3. /\ lease'["prod"] \in {lease["prod"], 0}
          /\ master["prod"] => master'["prod"]
          /\ boot'["prod"] = boot["prod"]
      BY <1>h, <1>b, <1>d, <2>1 DEF PauseKept
    <3>4. Sinks("prod")
      BY <1>t, <1>h, <3>2, <3>3, LessHeard
    <3> QED BY <3>1, <3>4 DEF Sinks
  <2>4. OneListens'
    BY <2>3 DEF OneListens, Yields
  <2>5. Consented'
    BY <2>3 DEF Consented
  <2>6. Consents'
    <3>1. SUFFICES ASSUME Both', NEW e \in Daemons, serving'[e].act \in {"owned", "manual"},
                          Draws(Peer(e), serving[e].id)'
                   PROVE  Holds(e)' \/ (e = "dev" /\ Yields("prod")')
      BY DEF Consents
    <3>2. CASE e = "dev"
      BY <2>3, <3>1, <3>2
    <3>3. CASE e # "dev"
      <4>1. serving'[e] = serving[e] /\ Draws(Peer(e), serving[e].id)
        BY <2>c, <3>1
      <4>2. Holds(e)
        BY <2>b, <3>1, <3>3, <4>1 DEF IInv, Consents
      <4>3. PauseKept(e)
        BY <1>d, <2>1, <3>3
      <4> QED BY <4>1, <4>2, <4>3 DEF Holds, PauseKept
    <3> QED BY <3>2, <3>3
  <2> QED BY <2>b, <2>4, <2>5, <2>6 DEF IInv
<1> QED BY <1>1, <1>2

-----------------------------------------------------------------------------
(* The start and the end of a process.                                        *)

LEMMA StartKeeps ==
    ASSUME IInv, NEW d \in Daemons, Start(d)
    PROVE  IInv'
<1>t. TypeOK /\ AsksTyped /\ PausesTyped
  BY Typed DEF IInv
<1>u. /\ mine' = mine /\ serving' = serving
      /\ wire' = wire /\ asking' = asking /\ answer' = answer /\ drawn' = drawn
      /\ life[d] = "down"
  BY DEF Start, askVars
<1>b. /\ boot' \in [Daemons -> {"no", "wait", "found", "ask", "done"}]
      /\ boot'[d] = "wait" /\ \A e \in Daemons : e # d => boot'[e] = boot[e]
      /\ life' \in [Daemons -> {"down", "boot", "live", "leaving"}]
      /\ life'[d] = "boot" /\ \A e \in Daemons : e # d => life'[e] = life[e]
  BY <1>t DEF Start, TypeOK
<1>k. /\ PausesTyped'
      /\ lease'[d] = lease[d] /\ (free'[d] <=> free[d])
      /\ PauseKept(d) \/ (master'[d] /\ byPeer'[d] /\ ~manual'[d])
      /\ \A e \in Daemons : e # d => PauseKept(e)
  <2>1. CASE d = "dev" /\ Live("prod")
    <3>1. StandBy(d)
      BY <2>1 DEF Start
    <3> QED BY <1>t, <3>1, StandByMoves
  <2>2. CASE ~(d = "dev" /\ Live("prod"))
    <3>1. UNCHANGED pauseVars
      BY <2>2 DEF Start
    <3>2. PausesTyped' /\ \A e \in Daemons : PauseKept(e)
      BY <1>t, <3>1, UnchangedPauses
    <3> QED BY <3>2 DEF PauseKept
  <2> QED BY <2>1, <2>2
<1>l. \A e \in Daemons : lease'[e] = lease[e]
  BY <1>k DEF PauseKept
<1>0. TypeOK'
  <2>1. \A e \in Daemons : lease'[e] # 0 => byPeer'[e]
    BY <1>t, <1>k, <1>l DEF PauseKept, TypeOK
  <2>2. starts' \in 0..MaxStarts
    BY <1>t, PeerAssumption DEF Start, TypeOK
  <2>3. RestTyped'
    BY <1>t, <1>u, <1>b, <2>1, <2>2 DEF Start, RestTyped, TypeOK
  <2>4. AsksTyped'
    BY <1>t, <1>u DEF AsksTyped
  <2> QED BY <1>k, <2>3, <2>4 DEF TypeOK, PausesTyped, AsksTyped, RestTyped, Answers
<1>1. Numbered'
  BY <1>u, <1>l DEF IInv, Numbered
<1>2. Asked'
  BY <1>u DEF IInv, Asked
<1>3. Fresh'
  BY <1>u, <1>b, <1>l DEF IInv, Fresh
<1>4. OwnAsks'
  BY <1>u, <1>b DEF IInv, OwnAsks, Daemons
<1>5. Standing'
  BY <1>k DEF IInv, Standing, PauseKept
<1>6. Passive'
  <2>1. Silent(d)'
    BY <1>u DEF IInv, Passive, Silent
  <2>2. \A e \in Daemons : Silent(e) => Silent(e)'
    BY <1>u DEF Silent
  <2>3. SUFFICES ASSUME NEW e \in Daemons
                 PROVE  /\ life'[e] = "down" => Silent(e)' /\ boot'[e] = "no"
                        /\ life'[e] = "boot" /\ ~free'[e] =>
                              Silent(e)' /\ (boot'[e] = "wait" \/ (boot'[e] = "done" /\ master'[e]))
    BY DEF Passive
  <2>4. CASE e = d
    BY <1>b, <2>1, <2>4
  <2>5. CASE e # d
    BY <1>b, <1>k, <2>2, <2>5 DEF IInv, Passive, PauseKept
  <2> QED BY <2>4, <2>5
<1>7. Returned'
  <2>1. \A e \in Daemons : Peer(e) \in Daemons
    BY Peers
  <2>2. \A e \in Daemons : life[e] = "leaving" => life'[e] = "leaving"
    BY <1>u, <1>b
  <2> QED BY <1>u, <2>1, <2>2 DEF IInv, Returned, Releases, Draws
<1>8. Spared'
  BY <1>u, <1>k DEF IInv, Spared, PauseKept
<1>9. ~Both'
  BY <1>b DEF Both, Live
<1> QED BY <1>0, <1>1, <1>2, <1>3, <1>4, <1>5, <1>6, <1>7, <1>8, <1>9
        DEF IInv, Consents, Consented, OneListens

\* The socket appears: a daemon that nobody let go is passive, so its peer may go on
\* listening, and nothing it is about to consent to has been asked for.
LEMMA BindKeeps ==
    ASSUME IInv, NEW d \in Daemons, Bind(d)
    PROVE  IInv'
<1>t. TypeOK /\ AsksTyped /\ PausesTyped
  BY Typed DEF IInv
<1>p. /\ Peer(d) \in Daemons /\ Peer(d) # d /\ Peer(Peer(d)) = d
      /\ \A e \in Daemons : e = d \/ e = Peer(d)
      /\ "prod" \in Daemons /\ "dev" \in Daemons
  BY Peers
<1>u. /\ mine' = mine /\ serving' = serving /\ boot' = boot
      /\ wire' = wire /\ asking' = asking /\ answer' = answer /\ drawn' = drawn
      /\ master' = master /\ byPeer' = byPeer /\ lease' = lease /\ manual' = manual
      /\ free' = free
      /\ life[d] = "boot"
  BY DEF Bind, askVars, pauseVars
<1>b. /\ life' \in [Daemons -> {"down", "boot", "live", "leaving"}]
      /\ life'[d] = "live" /\ \A e \in Daemons : e # d => life'[e] = life[e]
  BY <1>t DEF Bind, TypeOK
<1>0. TypeOK'
  BY <1>t, <1>u, <1>b DEF Bind, TypeOK
<1>1. Numbered' /\ Asked' /\ OwnAsks' /\ Standing' /\ Spared'
  BY <1>u DEF IInv, Numbered, Asked, OwnAsks, Standing, Spared
<1>3. Fresh'
  BY <1>u, <1>b DEF IInv, Fresh
<1>6. Passive'
  BY <1>u, <1>b DEF IInv, Passive, Silent
<1>7. Returned'
  <2>1. \A e \in Daemons : Peer(e) \in Daemons
    BY Peers
  <2>2. \A e \in Daemons : life[e] = "leaving" => life'[e] = "leaving"
    BY <1>u, <1>b
  <2> QED BY <1>u, <2>1, <2>2 DEF IInv, Returned, Releases, Draws
<1>8. ASSUME Both' PROVE Consents' /\ Consented' /\ OneListens'
  <2>1. Silent(d) /\ (boot[d] = "done" => master[d])
    BY <1>8, <1>u DEF Both, IInv, Passive
  <2>2. /\ \A r \in wire : r.to # d
        /\ serving[d] = NoRequest /\ lease[d] = 0
        /\ \A a \in Askers : answer[Peer(d)][a] = "none"
    BY <1>u DEF IInv, Fresh
  <2>3. \A a \in Askers : answer[d][a] = "none"
    BY <2>1 DEF Silent, IInv, Asked
  <2>4. Releases(d) = {}
    BY <2>2 DEF Releases
  <2>5. ~MayListen(d)
    BY <2>1, <2>2, <2>4 DEF MayListen, NoRequest
  <2>6. ~MayListen(d)'
    BY <1>u, <2>5 DEF MayListen, Releases
  <2>7. OneListens'
    BY <1>p, <2>6 DEF OneListens, Daemons
  <2>8. Consented'
    BY <1>p, <1>u, <2>2, <2>3 DEF Consented, Askers, Daemons
  <2>9. Consents'
    <3>1. SUFFICES ASSUME NEW e \in Daemons, serving[e].act \in {"owned", "manual"},
                          Draws(Peer(e), serving[e].id)
                   PROVE  FALSE
      BY <1>u DEF Consents, Draws
    <3>2. Peer(e) = d
      BY <1>p, <2>2, <3>1 DEF NoRequest
    <3>3. serving[e].id # 0
      BY <3>1 DEF IInv, Numbered
    <3> QED BY <2>1, <3>1, <3>2, <3>3 DEF Draws, Silent
  <2> QED BY <2>7, <2>8, <2>9
<1> QED BY <1>0, <1>1, <1>3, <1>6, <1>7, <1>8 DEF IInv, Consents, Consented, OneListens

\* Its memory is gone, and what it asked for is nobody's any more.
LEMMA EndsKeeps ==
    ASSUME IInv, NEW d \in Daemons, Ends(d)
    PROVE  IInv'
<1>t. TypeOK /\ AsksTyped /\ PausesTyped /\ MaxLeases \in Nat
  BY Typed DEF IInv
<1>p. /\ Peer(d) \in Daemons /\ Peer(d) # d /\ Peer(Peer(d)) = d
      /\ \A e \in Daemons : Peer(e) \in Daemons
  BY Peers
<1>u. wire' = {r \in wire : r.to # d} /\ drawn' = drawn
  BY DEF Ends
<1>k. /\ PausesTyped'
      /\ ~master'[d] /\ ~byPeer'[d] /\ lease'[d] = 0 /\ ~manual'[d] /\ ~free'[d]
      /\ \A e \in Daemons : e # d => PauseKept(e)
  BY <1>t DEF Ends, PausesTyped, PauseKept
<1>b. /\ boot' \in [Daemons -> {"no", "wait", "found", "ask", "done"}]
      /\ boot'[d] = "no" /\ \A e \in Daemons : e # d => boot'[e] = boot[e]
      /\ life' \in [Daemons -> {"down", "boot", "live", "leaving"}]
      /\ life'[d] = "down" /\ \A e \in Daemons : e # d => life'[e] = life[e]
  BY <1>t DEF Ends, TypeOK
<1>m. /\ mine' \in [Daemons -> 0..MaxLeases]
      /\ mine'[d] = 0 /\ \A e \in Daemons : e # d => mine'[e] = mine[e]
  BY <1>t DEF Ends, TypeOK
<1>s. /\ serving' \in [Daemons -> [id : 0..MaxLeases,
                       act : {"none", "acquire", "owned", "manual", "released", "refused"}]]
      /\ serving'[d] = NoRequest /\ \A e \in Daemons : e # d => serving'[e] = serving[e]
  BY <1>t DEF Ends, TypeOK, NoRequest
<1>a. /\ asking' \in [Daemons -> [Askers -> 0..MaxLeases]]
      /\ \A a \in Askers : asking'[d][a] = 0
      /\ \A e \in Daemons : e # d => asking'[e] = asking[e]
  BY <1>t DEF Ends, AsksTyped
<1>w. /\ answer' \in [Daemons -> [Askers -> Answers]]
      /\ \A e \in Daemons, a \in Askers : answer'[e][a] = "none"
  BY DEF Ends, All, Answers
<1>0. TypeOK'
  <2>1. \A e \in Daemons : lease'[e] # 0 => byPeer'[e]
    BY <1>t, <1>k DEF PauseKept, TypeOK
  <2>2. watchdog' \in [Daemons -> {"off", "watch", "dead", "took"}]
    BY <1>t DEF Ends, TypeOK
  <2>3. RestTyped'
    BY <1>t, <1>b, <1>m, <1>s, <2>1, <2>2 DEF Ends, RestTyped, TypeOK
  <2>4. AsksTyped'
    BY <1>t, <1>u, <1>a, <1>w DEF AsksTyped
  <2> QED BY <1>k, <2>3, <2>4 DEF TypeOK, PausesTyped, AsksTyped, RestTyped, Answers
<1>1. Numbered'
  <2>1. ASSUME NEW e \in Daemons
        PROVE  /\ lease'[e] <= drawn /\ mine'[e] <= drawn /\ serving'[e].id <= drawn
               /\ \A a \in Askers : asking'[e][a] <= drawn
               /\ serving'[e].act # "none" => serving'[e].id # 0
    <3>1. CASE e = d
      BY <1>t, <1>k, <1>m, <1>s, <1>a, <3>1 DEF NoRequest, AsksTyped
    <3>2. CASE e # d
      BY <1>k, <1>m, <1>s, <1>a, <3>2 DEF IInv, Numbered, PauseKept
    <3> QED BY <3>1, <3>2
  <2> QED BY <1>u, <2>1 DEF IInv, Numbered
<1>2. Asked'
  BY <1>w DEF Asked
<1>3. Fresh'
  <2>1. SUFFICES ASSUME NEW e \in Daemons, life'[e] \in {"down", "boot"}
                 PROVE  /\ \A r \in wire' : r.to # e
                        /\ serving'[e] = NoRequest /\ lease'[e] = 0
                        /\ asking'[e]["hand"] = 0 /\ answer'[e]["hand"] = "none"
                        /\ \A b \in Askers : answer'[Peer(e)][b] = "none"
    BY DEF Fresh
  <2>2. CASE e = d
    BY <1>u, <1>k, <1>s, <1>a, <1>w, <1>p, <2>2 DEF Askers
  <2>3. CASE e # d
    BY <1>u, <1>k, <1>s, <1>a, <1>b, <1>w, <1>p, <2>1, <2>3 DEF Askers, IInv, Fresh, PauseKept
  <2> QED BY <2>2, <2>3
<1>4. OwnAsks'
  BY <1>a, <1>b DEF IInv, OwnAsks, Daemons, Askers
<1>5. Standing'
  BY <1>k DEF IInv, Standing, PauseKept
<1>6. Passive'
  BY <1>a, <1>b, <1>k, <1>m DEF IInv, Passive, Silent, PauseKept
<1>7. Returned'
  <2>1. SUFFICES ASSUME NEW e \in Daemons, NEW r \in Releases(e)', life'[Peer(e)] # "leaving",
                        Draws(Peer(e), r.id)'
                 PROVE  FALSE
    BY DEF Returned
  <2>2. r \in Releases(e) /\ r.id # 0
    BY <1>t, <1>u, <2>1, ReleaseIds DEF Releases
  <2>3. Peer(e) # d
    BY <1>a, <1>m, <2>1, <2>2 DEF Draws
  <2>4. life[Peer(e)] # "leaving" /\ Draws(Peer(e), r.id)
    BY <1>a, <1>b, <1>m, <1>p, <2>1, <2>3 DEF Draws
  <2> QED BY <2>2, <2>4 DEF IInv, Returned
<1>8. Spared'
  BY <1>k, <1>s DEF IInv, Spared, PauseKept, NoRequest
<1>9. ~Both'
  BY <1>b DEF Both, Live
<1> QED BY <1>0, <1>1, <1>2, <1>3, <1>4, <1>5, <1>6, <1>7, <1>8, <1>9
        DEF IInv, Consents, Consented, OneListens

\* On its way out d gives back the lease on record.
LEMMA LeaveKeeps ==
    ASSUME IInv, NEW d \in Daemons, Leave(d)
    PROVE  IInv'
<1>1. CASE (mine[d] = 0 \/ ~Live(Peer(d))) /\ Ends(d)
  BY <1>1, EndsKeeps
<1>2. CASE /\ mine[d] # 0 /\ Live(Peer(d))
           /\ life' = [life EXCEPT ![d] = "leaving"]
           /\ Ask(d, "exit", FALSE)
           /\ UNCHANGED <<starts, presses, pauseVars, mine, watchdog, boot, serving>>
  <2>t. TypeOK /\ AsksTyped /\ PausesTyped /\ MaxLeases \in Nat /\ drawn \in Nat
        /\ mine \in [Daemons -> 0..MaxLeases]
    BY Typed DEF IInv
  <2>p. /\ Peer(d) \in Daemons /\ Peer(d) # d /\ Peer(Peer(d)) = d
        /\ \A e \in Daemons : Peer(e) \in Daemons
    BY Peers
  <2>u. /\ mine' = mine /\ serving' = serving /\ boot' = boot
        /\ master' = master /\ byPeer' = byPeer /\ lease' = lease /\ manual' = manual
        /\ free' = free
        /\ life[d] = "live"
    BY <1>2 DEF pauseVars, Leave, Live
  <2>l. /\ life' \in [Daemons -> {"down", "boot", "live", "leaving"}]
        /\ life'[d] = "leaving" /\ \A e \in Daemons : e # d => life'[e] = life[e]
    BY <1>2, <2>t DEF TypeOK
  <2>x. "exit" \in Askers /\ FALSE \in BOOLEAN
    BY DEF Askers
  <2>a. AsksTyped' /\ \E id \in 1..MaxLeases :
           /\ id = mine[d] \/ id = drawn + 1
           /\ id <= drawn' /\ drawn <= drawn'
           /\ wire' = wire \cup {[to |-> Peer(d), id |-> id, pause |-> FALSE]}
           /\ asking'[d]["exit"] = id /\ answer'[d]["exit"] = "none"
    BY <1>2, <2>t, <2>x, AskMoves
  <2>b. \A e \in Daemons, b \in Askers :
           e # d \/ b # "exit" => asking'[e][b] = asking[e][b] /\ answer'[e][b] = answer[e][b]
    BY <1>2, <2>t, <2>x, AskMoves
  <2>i. PICK id \in 1..MaxLeases :
           /\ id = mine[d] \/ id = drawn + 1
           /\ id <= drawn' /\ drawn <= drawn'
           /\ wire' = wire \cup {[to |-> Peer(d), id |-> id, pause |-> FALSE]}
           /\ asking'[d]["exit"] = id /\ answer'[d]["exit"] = "none"
    BY <2>a
  <2>n. id \in Nat /\ id # 0 /\ drawn' \in Nat
    BY <2>a, <2>t DEF AsksTyped
  <2>0. TypeOK'
    <3>1. RestTyped'
      BY <1>2, <2>t, <2>u, <2>l DEF RestTyped, TypeOK
    <3>2. PausesTyped'
      BY <2>t, <2>u DEF PausesTyped
    <3> QED BY <2>a, <3>1, <3>2 DEF TypeOK, PausesTyped, AsksTyped, RestTyped, Answers
  <2>1. Numbered'
    <3>1. \A e \in Daemons :
            /\ lease[e] <= drawn' /\ mine[e] <= drawn' /\ serving[e].id <= drawn'
            /\ serving[e].act # "none" => serving[e].id # 0
      BY <2>t, <2>i, <2>n DEF IInv, Numbered, TypeOK
    <3>2. \A e \in Daemons : \A b \in Askers : asking'[e][b] <= drawn'
      BY <2>t, <2>i, <2>b, <2>n DEF IInv, Numbered, AsksTyped
    <3>3. \A r \in wire' : r.id <= drawn'
      BY <2>t, <2>i, <2>n DEF IInv, Numbered, AsksTyped
    <3> QED BY <2>u, <3>1, <3>2, <3>3 DEF Numbered
  <2>2. Asked'
    BY <2>i, <2>b, <2>n DEF IInv, Asked
  <2>3. Fresh'
    <3>1. SUFFICES ASSUME NEW e \in Daemons, life'[e] \in {"down", "boot"}
                   PROVE  /\ \A r \in wire' : r.to # e
                          /\ serving'[e] = NoRequest /\ lease'[e] = 0
                          /\ asking'[e]["hand"] = 0 /\ answer'[e]["hand"] = "none"
                          /\ \A b \in Askers : answer'[Peer(e)][b] = "none"
      BY DEF Fresh
    <3>2. e # d /\ e # Peer(d) /\ life[e] \in {"down", "boot"}
      BY <1>2, <2>l, <2>p, <3>1 DEF Live
    <3> QED BY <2>p, <3>2, Peers
  <2>4. OwnAsks'
    BY <2>b, <2>u DEF IInv, OwnAsks, Daemons, Askers
  <2>5. Standing' /\ Spared'
    BY <2>u DEF IInv, Standing, Spared
  <2>6. Passive'
    <3>1. SUFFICES ASSUME NEW e \in Daemons
                   PROVE  /\ life'[e] = "down" => Silent(e)' /\ boot'[e] = "no"
                          /\ life'[e] = "boot" /\ ~free[e] =>
                                Silent(e)' /\ (boot[e] = "wait" \/ (boot[e] = "done" /\ master[e]))
      BY <2>u DEF Passive
    <3>2. CASE e = d
      BY <2>l, <3>2
    <3>3. CASE e # d
      BY <2>b, <2>u, <2>l, <3>3 DEF IInv, Passive, Silent
    <3> QED BY <3>2, <3>3
  <2>7. Returned'
    <3>1. SUFFICES ASSUME NEW e \in Daemons, NEW r \in Releases(e)', life'[Peer(e)] # "leaving",
                          Draws(Peer(e), r.id)'
                   PROVE  FALSE
      BY DEF Returned
    <3>2. Peer(e) # d
      BY <2>l, <3>1
    <3>3. e = d
      BY <2>p, <3>2, Peers
    <3>4. r \in Releases(e)
      BY <2>i, <2>p, <3>1, <3>3 DEF Releases
    <3>5. life[Peer(e)] # "leaving" /\ Draws(Peer(e), r.id)
      BY <2>b, <2>u, <2>l, <2>p, <3>1, <3>2 DEF Draws
    <3> QED BY <3>4, <3>5 DEF IInv, Returned
  <2>9. ~Both'
    BY <2>l DEF Both, Live
  <2> QED BY <2>0, <2>1, <2>2, <2>3, <2>4, <2>5, <2>6, <2>7, <2>9
          DEF IInv, Consents, Consented, OneListens
<1> QED BY <1>1, <1>2 DEF Leave

-----------------------------------------------------------------------------
(* Requests.                                                                  *)

LEMMA LeaseActionMeans ==
    ASSUME NEW d \in Daemons, NEW r
    PROVE  LET act == LeaseAction(d, r)
           IN  /\ act \in {"acquire", "owned", "manual", "released", "refused"}
               /\ act = "owned" => byPeer[d] /\ lease[d] = r.id
               /\ act = "manual" => ~byPeer[d] /\ master[d]
               /\ act = "acquire" => ~master[d]
               /\ act = "released" => ~r.pause /\ byPeer[d] /\ lease[d] = r.id
BY DEF LeaseAction

LEMMA HandleKeeps ==
    ASSUME IInv, NEW d \in Daemons, NEW r \in wire, Handle(d, r)
    PROVE  IInv'
<1>t. TypeOK /\ AsksTyped /\ PausesTyped /\ MaxLeases \in Nat /\ drawn \in Nat
  BY Typed DEF IInv
<1>p. "prod" \in Daemons /\ "dev" \in Daemons /\ "hand" \in Askers /\ "boot" \in Askers
  BY DEF Daemons, Askers
<1>u. /\ life' = life /\ mine' = mine /\ boot' = boot /\ watchdog' = watchdog
      /\ asking' = asking /\ answer' = answer /\ drawn' = drawn
      /\ master' = master /\ byPeer' = byPeer /\ lease' = lease /\ manual' = manual
      /\ free' = free
      /\ wire' = wire \ {r} /\ r.to = d /\ life[d] \in {"live", "leaving"}
      /\ serving[d] = NoRequest
  BY DEF Handle, pauseVars
<1> DEFINE act == LeaseAction(d, r)
<1>a. /\ act \in {"acquire", "owned", "manual", "released", "refused"}
      /\ act = "owned" => byPeer[d] /\ lease[d] = r.id
      /\ act = "manual" => ~byPeer[d] /\ master[d]
      /\ act = "acquire" => ~master[d]
      /\ act = "released" => ~r.pause /\ byPeer[d] /\ lease[d] = r.id
  BY LeaseActionMeans
<1>s. serving' = [serving EXCEPT ![d] = [id |-> r.id, act |-> act]]
  BY DEF Handle
<1> HIDE DEF act
<1>i. r.id \in 1..MaxLeases /\ r.id # 0 /\ r.id <= drawn
  <2>1. r \in [to : Daemons, id : 1..MaxLeases, pause : BOOLEAN]
    BY <1>t DEF AsksTyped
  <2> QED BY <1>t, <2>1 DEF IInv, Numbered
<1>v. /\ serving' \in [Daemons -> [id : 0..MaxLeases,
                       act : {"none", "acquire", "owned", "manual", "released", "refused"}]]
      /\ serving'[d].id = r.id /\ serving'[d].act = act
      /\ \A e \in Daemons : e # d => serving'[e] = serving[e]
  <2>1. serving \in [Daemons -> [id : 0..MaxLeases,
                       act : {"none", "acquire", "owned", "manual", "released", "refused"}]]
    BY <1>t DEF TypeOK
  <2>2. [id |-> r.id, act |-> act] \in [id : 0..MaxLeases,
                       act : {"none", "acquire", "owned", "manual", "released", "refused"}]
    BY <1>a, <1>i, <1>t
  <2> QED BY <1>s, <2>1, <2>2
<1>r. \A e \in Daemons : Releases(e)' \subseteq Releases(e)
  BY <1>u DEF Releases
<1>m. lease[d] # 0 => byPeer[d]
  BY <1>t DEF TypeOK
<1>0. TypeOK'
  <2>1. RestTyped'
    BY <1>t, <1>u, <1>v DEF Handle, RestTyped, TypeOK
  <2>2. PausesTyped' /\ AsksTyped'
    BY <1>t, <1>u DEF PausesTyped, AsksTyped
  <2> QED BY <2>1, <2>2 DEF TypeOK, PausesTyped, AsksTyped, RestTyped, Answers
<1>1. Numbered'
  BY <1>u, <1>v, <1>i DEF IInv, Numbered
<1>2. Asked' /\ OwnAsks' /\ Standing' /\ Passive'
  BY <1>u DEF IInv, Asked, OwnAsks, Standing, Passive, Silent
<1>3. Fresh'
  BY <1>u, <1>v DEF IInv, Fresh
<1>4. Returned'
  BY <1>u, <1>r DEF IInv, Returned, Draws
<1>5. Spared'
  <2>1. SUFFICES ASSUME NEW e \in Daemons, lease[e] # 0 \/ serving'[e].act = "released"
                 PROVE  ~manual[e]
    BY <1>u DEF Spared
  <2>2. CASE e # d
    BY <1>v, <2>1, <2>2 DEF IInv, Spared
  <2>3. CASE e = d
    <3>1. lease[d] # 0
      BY <1>v, <1>a, <1>i, <2>1, <2>3
    <3> QED BY <3>1, <2>3 DEF IInv, Spared
  <2> QED BY <2>2, <2>3
<1>6. Both' => Both
  BY <1>u DEF Both, Live
\* d judges the request by what it already is: a release that finds its lease was
\* on its way to it, and a lease is granted by a daemon that is not paused.
<1>7. \A e \in Daemons : Sinks(e)
  <2>1. SUFFICES ASSUME NEW e \in Daemons PROVE Sinks(e)
    OBVIOUS
  <2>2. CASE e # d
    <3>1. Releases(e)' \subseteq Releases(e) /\ serving'[e] = serving[e]
      BY <1>r, <1>v, <2>2
    <3> QED BY <1>t, <1>u, <3>1, LessHeard
  <2>3. CASE e = d
    <3>1. ASSUME MayListen(d)' PROVE MayListen(d)
      <4>1. CASE ~master[d] /\ (boot[d] = "done" \/ Releases(d)' # {})
        BY <1>r, <4>1 DEF MayListen
      <4>2. CASE serving'[d].act = "released"
        <5>1. r \in Releases(d) /\ r.id = lease[d]
          BY <1>u, <1>v, <1>a, <4>2 DEF Releases
        <5> QED BY <5>1 DEF MayListen
      <4>3. CASE serving'[d].act = "acquire" /\ Releases(d)' # {}
        <5>1. ~master[d] /\ Releases(d) # {}
          BY <1>v, <1>a, <1>r, <4>3
        <5> QED BY <5>1 DEF MayListen
      <4>4. CASE \E x \in Releases(d)' : x.id = lease[d]
        BY <1>r, <4>4 DEF MayListen
      <4> QED BY <1>u, <3>1, <4>1, <4>2, <4>3, <4>4 DEF MayListen
    <3>2. Yields(d) => Yields(d)'
      BY <1>u, <3>1 DEF Yields
    <3> QED BY <2>3, <3>1, <3>2 DEF Sinks
  <2> QED BY <2>2, <2>3
<1>8. /\ Yields("prod") => Yields("prod")'
      /\ Yields("dev") => Yields("dev")'
      /\ MayListen("prod")' => MayListen("prod")
      /\ MayListen("dev")' => MayListen("dev")
  BY <1>p, <1>7 DEF Sinks
<1>9. Consented' /\ OneListens'
  BY <1>u, <1>6, <1>8 DEF IInv, Consented, OneListens
\* A consent is judged under the pause it is about.
<1>10. Consents'
  <2>1. SUFFICES ASSUME Both', NEW e \in Daemons, serving'[e].act \in {"owned", "manual"},
                        Draws(Peer(e), serving[e].id)'
                 PROVE  Holds(e)' \/ (e = "dev" /\ Yields("prod")')
    BY DEF Consents
  <2>2. CASE e = d
    <3>1. byPeer[d] => master[d]
      BY <1>u, <2>1 DEF Both, IInv, Standing
    <3>2. master[d] /\ lease[d] \in {0, r.id}
      BY <1>v, <1>a, <1>m, <2>1, <2>2, <3>1
    <3> QED BY <1>u, <1>v, <2>2, <3>2 DEF Holds
  <2>3. CASE e # d
    <3>1. serving'[e] = serving[e] /\ Draws(Peer(e), serving[e].id)
      BY <1>u, <1>v, <2>1, <2>3 DEF Draws
    <3>2. Holds(e) \/ (e = "dev" /\ Yields("prod"))
      BY <1>6, <2>1, <3>1 DEF IInv, Consents
    <3> QED BY <1>u, <1>8, <3>1, <3>2 DEF Holds
  <2> QED BY <2>2, <2>3
<1> QED BY <1>0, <1>1, <1>2, <1>3, <1>4, <1>5, <1>9, <1>10 DEF IInv

\* The stores of a request, pointwise.
LEMMA ApplyMoves ==
    ASSUME TypeOK, NEW d \in Daemons, Apply(d)
    PROVE  /\ PausesTyped'
           /\ \A e \in Daemons : e # d => PauseKept(e)
           /\ serving[d].act = "acquire" =>
                 /\ master'[d] /\ byPeer'[d] /\ lease'[d] = serving[d].id /\ ~manual'[d]
                 /\ free'[d] <=> free[d]
           /\ serving[d].act = "released" =>
                 /\ ~master'[d] /\ ~byPeer'[d] /\ lease'[d] = 0 /\ ~manual'[d]
                 /\ free'[d] <=> free[d]
           /\ serving[d].act \notin {"acquire", "released"} => PauseKept(d)
<1>t. PausesTyped /\ 0 \in 0..MaxLeases
  BY Typed
<1>1. CASE serving[d].act = "acquire"
  <2>1. SetPause(d, TRUE, TRUE, serving[d].id, FALSE, FALSE)
    BY <1>1 DEF Apply
  <2>2. serving[d].id \in 0..MaxLeases
    BY DEF TypeOK
  <2>3. /\ PausesTyped'
        /\ master'[d] /\ byPeer'[d] /\ lease'[d] = serving[d].id /\ ~manual'[d]
        /\ free'[d] <=> free[d]
        /\ \A e \in Daemons : e # d => PauseKept(e)
    BY <1>t, <2>1, <2>2, SetPauseMoves
  <2> QED BY <1>1, <2>3
<1>2. CASE serving[d].act = "released"
  <2>1. SetPause(d, FALSE, FALSE, 0, FALSE, FALSE)
    BY <1>2 DEF Apply
  <2>2. /\ PausesTyped'
        /\ ~master'[d] /\ ~byPeer'[d] /\ lease'[d] = 0 /\ ~manual'[d]
        /\ free'[d] <=> free[d]
        /\ \A e \in Daemons : e # d => PauseKept(e)
    BY <1>t, <2>1, SetPauseMoves
  <2> QED BY <1>2, <2>2
<1>3. CASE serving[d].act \notin {"acquire", "released"}
  <2>1. UNCHANGED pauseVars
    BY <1>3 DEF Apply
  <2>2. PausesTyped' /\ \A e \in Daemons : PauseKept(e)
    BY <1>t, <2>1, UnchangedPauses
  <2> QED BY <1>3, <2>2
<1> QED BY <1>1, <1>2, <1>3

\* What a request is answered.
Reply(d) == IF serving[d].act = "acquire" THEN "owned" ELSE serving[d].act

LEMMA ApplyAnswers ==
    ASSUME IInv, NEW d \in Daemons, Apply(d)
    PROVE  /\ answer' \in [Daemons -> [Askers -> Answers]]
           /\ answer'[d] = answer[d]
           /\ \A a \in Askers :
                 \/ answer'[Peer(d)][a] = answer[Peer(d)][a]
                 \/ /\ asking[Peer(d)][a] = serving[d].id /\ asking[Peer(d)][a] # 0
                    /\ answer'[Peer(d)][a] = Reply(d)
<1>t. TypeOK /\ AsksTyped
  BY Typed DEF IInv
<1>p. Peer(d) \in Daemons /\ Peer(d) # d
  BY Peers
<1>1. answer' = [answer EXCEPT ![Peer(d)] = [a \in Askers |->
                   IF asking[Peer(d)][a] = serving[d].id /\ @[a] = "none" THEN Reply(d) ELSE @[a]]]
  BY DEF Apply, Reply
<1>2. Reply(d) \in Answers
  BY <1>t DEF Reply, Answers, TypeOK
<1>3. answer \in [Daemons -> [Askers -> Answers]]
  BY <1>t DEF AsksTyped
<1>4. /\ answer' \in [Daemons -> [Askers -> Answers]]
      /\ answer'[d] = answer[d]
  BY <1>1, <1>2, <1>3, <1>p
<1>5. ASSUME NEW a \in Askers, answer'[Peer(d)][a] # answer[Peer(d)][a]
      PROVE  /\ asking[Peer(d)][a] = serving[d].id /\ asking[Peer(d)][a] # 0
             /\ answer'[Peer(d)][a] = Reply(d)
  <2>1. /\ asking[Peer(d)][a] = serving[d].id /\ answer[Peer(d)][a] = "none"
        /\ answer'[Peer(d)][a] = Reply(d)
    BY <1>1, <1>3, <1>5, <1>p
  <2>2. serving[d].act # "none"
    BY <1>5, <2>1 DEF Reply
  <2> QED BY <2>1, <2>2 DEF IInv, Numbered
<1> QED BY <1>4, <1>5

LEMMA ApplyKeeps ==
    ASSUME IInv, NEW d \in Daemons, Apply(d)
    PROVE  IInv'
<1>t. TypeOK /\ AsksTyped /\ PausesTyped /\ MaxLeases \in Nat /\ drawn \in Nat
  BY Typed DEF IInv
<1>p. /\ "prod" \in Daemons /\ "dev" \in Daemons /\ "hand" \in Askers /\ "boot" \in Askers
      /\ Peer(d) \in Daemons /\ Peer(d) # d
      /\ \A e \in Daemons : e = d \/ e = Peer(d)
  BY Peers DEF Askers
<1>q. \A e \in Daemons : Peer(e) \in Daemons /\ Peer(Peer(e)) = e
  BY Peers
<1>u. /\ life' = life /\ mine' = mine /\ boot' = boot /\ watchdog' = watchdog
      /\ asking' = asking /\ wire' = wire /\ drawn' = drawn
      /\ serving' = [serving EXCEPT ![d] = NoRequest]
      /\ serving[d] # NoRequest /\ life[d] # "down"
  BY DEF Apply, Up
<1>k. /\ PausesTyped'
      /\ \A e \in Daemons : e # d => PauseKept(e)
      /\ serving[d].act = "acquire" =>
            /\ master'[d] /\ byPeer'[d] /\ lease'[d] = serving[d].id /\ ~manual'[d]
            /\ free'[d] <=> free[d]
      /\ serving[d].act = "released" =>
            /\ ~master'[d] /\ ~byPeer'[d] /\ lease'[d] = 0 /\ ~manual'[d]
            /\ free'[d] <=> free[d]
      /\ serving[d].act \notin {"acquire", "released"} => PauseKept(d)
  BY <1>t, ApplyMoves
<1>w. /\ answer' \in [Daemons -> [Askers -> Answers]]
      /\ answer'[d] = answer[d]
      /\ \A a \in Askers :
            \/ answer'[Peer(d)][a] = answer[Peer(d)][a]
            \/ /\ asking[Peer(d)][a] = serving[d].id /\ asking[Peer(d)][a] # 0
               /\ answer'[Peer(d)][a] = Reply(d)
  BY ApplyAnswers
<1>v. /\ serving' \in [Daemons -> [id : 0..MaxLeases,
                       act : {"none", "acquire", "owned", "manual", "released", "refused"}]]
      /\ serving'[d] = NoRequest /\ \A e \in Daemons : e # d => serving'[e] = serving[e]
  BY <1>t, <1>u DEF TypeOK, NoRequest
<1>l. life[d] \notin {"down", "boot"}
  BY <1>u DEF IInv, Fresh
<1>f. \A e \in Daemons : free'[e] <=> free[e]
  BY <1>k DEF PauseKept
<1>r. \A e \in Daemons : Releases(e)' = Releases(e)
  BY <1>u DEF Releases
<1>0. TypeOK'
  <2>1. \A e \in Daemons : lease'[e] # 0 => byPeer'[e]
    BY <1>t, <1>k DEF PauseKept, TypeOK
  <2>2. RestTyped'
    BY <1>t, <1>u, <1>v, <2>1 DEF Apply, RestTyped, TypeOK
  <2>3. AsksTyped'
    BY <1>t, <1>u, <1>w DEF AsksTyped
  <2> QED BY <1>k, <2>2, <2>3 DEF TypeOK, PausesTyped, AsksTyped, RestTyped, Answers
<1>1. Numbered'
  <2>1. \A e \in Daemons : lease'[e] <= drawn
    BY <1>t, <1>k DEF IInv, Numbered, PauseKept
  <2>2. \A e \in Daemons : /\ serving'[e].id <= drawn
                           /\ serving'[e].act # "none" => serving'[e].id # 0
    BY <1>t, <1>v DEF IInv, Numbered, NoRequest
  <2> QED BY <1>u, <2>1, <2>2 DEF IInv, Numbered
<1>2. Asked'
  <2>1. SUFFICES ASSUME NEW e \in Daemons, NEW a \in Askers, asking[e][a] = 0
                 PROVE  answer'[e][a] = "none"
    BY <1>u DEF Asked
  <2>2. answer[e][a] = "none"
    BY <2>1 DEF IInv, Asked
  <2>3. answer'[e][a] = answer[e][a]
    BY <1>p, <1>w, <2>1
  <2> QED BY <2>2, <2>3
<1>3. Fresh'
  <2>1. SUFFICES ASSUME NEW e \in Daemons, life[e] \in {"down", "boot"}
                 PROVE  /\ \A r \in wire : r.to # e
                        /\ serving'[e] = NoRequest /\ lease'[e] = 0
                        /\ asking[e]["hand"] = 0 /\ answer'[e]["hand"] = "none"
                        /\ \A b \in Askers : answer'[Peer(e)][b] = "none"
    BY <1>u DEF Fresh
  <2>2. /\ \A r \in wire : r.to # e
        /\ serving[e] = NoRequest /\ lease[e] = 0
        /\ asking[e]["hand"] = 0
        /\ \A b \in Askers : answer[Peer(e)][b] = "none"
    BY <2>1 DEF IInv, Fresh
  <2>3. e # d /\ Peer(e) = d
    BY <1>l, <1>p, <1>q, <2>1
  <2>4. answer'[e]["hand"] = "none"
    BY <1>2, <1>p, <1>u, <2>2 DEF Asked
  <2> QED BY <1>v, <1>k, <1>w, <2>2, <2>3, <2>4 DEF PauseKept
<1>4. OwnAsks'
  BY <1>u DEF IInv, OwnAsks
<1>5. Standing'
  BY <1>k DEF IInv, Standing, PauseKept
<1>6. Passive'
  BY <1>u, <1>k, <1>l DEF IInv, Passive, Silent, PauseKept
<1>7. Returned'
  BY <1>u, <1>r DEF IInv, Returned, Draws
<1>8. Spared'
  BY <1>k, <1>v DEF IInv, Spared, PauseKept, NoRequest
<1>9. Both' => Both
  BY <1>u, <1>f DEF Both, Live
<1>10. \A e \in Daemons : Sinks(e)
  <2>1. SUFFICES ASSUME NEW e \in Daemons PROVE Sinks(e)
    OBVIOUS
  <2>2. CASE e # d
    <3>1. Releases(e)' \subseteq Releases(e) /\ serving'[e] = serving[e]
      BY <1>r, <1>v, <2>2
    <3>2. lease'[e] \in {lease[e], 0} /\ (master[e] => master'[e])
      BY <1>k, <2>2 DEF PauseKept
    <3> QED BY <1>t, <1>u, <3>1, <3>2, LessHeard
  <2>3. CASE e = d
    <3>1. CASE serving[d].act = "released"
      BY <2>3, <3>1 DEF Sinks, Yields, MayListen
    <3>2. CASE serving[d].act = "acquire"
      <4>1. ASSUME MayListen(d)' PROVE MayListen(d)
        <5>1. Releases(d) # {}
          BY <1>k, <1>v, <1>r, <3>2, <4>1 DEF MayListen, NoRequest
        <5> QED BY <3>2, <5>1 DEF MayListen
      <4>2. Yields(d) => Yields(d)'
        BY <1>k, <3>2, <4>1 DEF Yields
      <4> QED BY <2>3, <4>1, <4>2 DEF Sinks
    <3>3. CASE serving[d].act \notin {"acquire", "released"}
      <4>1. ASSUME MayListen(d)' PROVE MayListen(d)
        BY <1>k, <1>u, <1>v, <1>r, <3>3, <4>1 DEF MayListen, NoRequest, PauseKept
      <4>2. Yields(d) => Yields(d)'
        BY <1>k, <3>3, <4>1 DEF Yields, PauseKept
      <4> QED BY <2>3, <4>1, <4>2 DEF Sinks
    <3> QED BY <3>1, <3>2, <3>3
  <2> QED BY <2>2, <2>3
<1>11. /\ Yields("prod") => Yields("prod")'
       /\ Yields("dev") => Yields("dev")'
       /\ MayListen("prod")' => MayListen("prod")
       /\ MayListen("dev")' => MayListen("dev")
  BY <1>p, <1>10 DEF Sinks
<1>12. OneListens'
  BY <1>9, <1>11 DEF IInv, OneListens
<1>13. Consents'
  <2>1. SUFFICES ASSUME Both', NEW e \in Daemons, serving'[e].act \in {"owned", "manual"},
                        Draws(Peer(e), serving[e].id)'
                 PROVE  Holds(e)' \/ (e = "dev" /\ Yields("prod")')
    BY DEF Consents
  <2>2. e # d
    BY <1>v, <2>1 DEF NoRequest
  <2>3. serving'[e] = serving[e] /\ Draws(Peer(e), serving[e].id)
    BY <1>u, <1>v, <2>1, <2>2 DEF Draws
  <2>4. Holds(e) \/ (e = "dev" /\ Yields("prod"))
    BY <1>9, <2>1, <2>3 DEF IInv, Consents
  <2> QED BY <1>11, <1>k, <2>2, <2>3, <2>4 DEF Holds, PauseKept
\* Who is told that it may listen now, is told the truth: no release of the id it
\* asked with is on its way, so nothing lifts the pause behind it.
<1>14. ASSUME Both', NEW a \in Askers, asking[Peer(d)][a] = serving[d].id,
              Reply(d) \in {"owned", "manual"}
       PROVE  Yields(d)' \/ (d = "dev" /\ Yields("prod")')
  <2>1. Both
    BY <1>9, <1>14
  <2>2. Draws(Peer(d), serving[d].id)
    BY <1>14 DEF Draws
  <2>3. \A x \in Releases(d) : x.id # serving[d].id /\ x.id # 0
    BY <1>p, <1>t, <2>1, <2>2, ReleaseIds DEF Both, Live, IInv, Returned
  <2>4. ASSUME master'[d], lease'[d] \in {0, serving[d].id} PROVE Yields(d)'
    BY <1>v, <1>r, <2>3, <2>4 DEF Yields, MayListen, NoRequest
  <2>5. CASE serving[d].act = "acquire"
    BY <1>k, <2>4, <2>5
  <2>6. CASE serving[d].act # "acquire"
    <3>1. serving[d].act \in {"owned", "manual"}
      BY <1>14, <2>6 DEF Reply
    <3>2. Holds(d) \/ (d = "dev" /\ Yields("prod"))
      BY <2>1, <2>2, <3>1 DEF IInv, Consents
    <3>3. Holds(d) => Yields(d)'
      BY <1>k, <2>4, <3>1 DEF Holds, PauseKept
    <3> QED BY <1>11, <3>2, <3>3
  <2> QED BY <2>5, <2>6
<1>15. Consented'
  <2>1. SUFFICES ASSUME Both'
                 PROVE  /\ answer'["dev"]["hand"] \in {"owned", "manual"} => Yields("prod")'
                        /\ answer'["prod"]["boot"] \in {"owned", "manual"} =>
                              Yields("prod")' \/ Yields("dev")'
    BY DEF Consented
  <2>2. Both
    BY <1>9, <2>1
  <2>3. ASSUME answer'["dev"]["hand"] \in {"owned", "manual"} PROVE Yields("prod")'
    <3>1. CASE answer'["dev"]["hand"] = answer["dev"]["hand"]
      BY <1>11, <2>2, <2>3, <3>1 DEF IInv, Consented
    <3>2. CASE answer'["dev"]["hand"] # answer["dev"]["hand"]
      <4>1. d = "prod" /\ Peer(d) = "dev"
        BY <1>w, <3>2 DEF Daemons, Peer
      <4>2. asking[Peer(d)]["hand"] = serving[d].id /\ Reply(d) \in {"owned", "manual"}
        BY <1>p, <1>w, <2>3, <3>2, <4>1
      <4> QED BY <1>p, <1>14, <2>1, <4>1, <4>2
    <3> QED BY <3>1, <3>2
  <2>4. ASSUME answer'["prod"]["boot"] \in {"owned", "manual"} PROVE Yields("prod")' \/ Yields("dev")'
    <3>1. CASE answer'["prod"]["boot"] = answer["prod"]["boot"]
      BY <1>11, <2>2, <2>4, <3>1 DEF IInv, Consented
    <3>2. CASE answer'["prod"]["boot"] # answer["prod"]["boot"]
      <4>1. d = "dev" /\ Peer(d) = "prod"
        BY <1>w, <3>2 DEF Daemons, Peer
      <4>2. asking[Peer(d)]["boot"] = serving[d].id /\ Reply(d) \in {"owned", "manual"}
        BY <1>p, <1>w, <2>4, <3>2, <4>1
      <4> QED BY <1>p, <1>14, <2>1, <4>1, <4>2
    <3> QED BY <3>1, <3>2
  <2> QED BY <2>3, <2>4
<1> QED BY <1>0, <1>1, <1>2, <1>3, <1>4, <1>5, <1>6, <1>7, <1>8, <1>12, <1>13, <1>15 DEF IInv

-----------------------------------------------------------------------------
(* The theorems.                                                              *)

LEMMA UnchangedKeeps ==
    ASSUME IInv, UNCHANGED vars
    PROVE  IInv'
<1>u. /\ life' = life /\ starts' = starts /\ mine' = mine /\ watchdog' = watchdog
      /\ boot' = boot /\ serving' = serving /\ presses' = presses
      /\ wire' = wire /\ asking' = asking /\ answer' = answer /\ drawn' = drawn
      /\ master' = master /\ byPeer' = byPeer /\ lease' = lease /\ manual' = manual
      /\ free' = free
  BY DEF vars, pauseVars, askVars
<1>1. TypeOK' /\ Numbered' /\ Asked' /\ Fresh' /\ OwnAsks' /\ Standing' /\ Spared'
  BY <1>u DEF IInv, TypeOK, Numbered, Asked, Fresh, OwnAsks, Standing, Spared
<1>2. Passive' /\ Returned'
  BY <1>u DEF IInv, Passive, Silent, Returned, Releases, Draws
<1>3. /\ Both' <=> Both
      /\ \A d \in Daemons : MayListen(d)' <=> MayListen(d)
      /\ \A d \in Daemons : Yields(d)' <=> Yields(d)
  BY <1>u DEF Both, Live, Yields, MayListen, Releases
<1>4. "prod" \in Daemons /\ "dev" \in Daemons
  BY DEF Daemons
<1>5. Consents' /\ Consented' /\ OneListens'
  BY <1>u, <1>3, <1>4 DEF IInv, Consents, Consented, OneListens, Holds, Draws
<1> QED BY <1>1, <1>2, <1>5 DEF IInv

LEMMA HandoffInit == Init => IInv
<1> SUFFICES ASSUME Init PROVE IInv
  OBVIOUS
<1>1. TypeOK
  BY PeerAssumption DEF Init, TypeOK, All, NoRequest
<1>2. Numbered /\ Asked /\ Fresh /\ OwnAsks /\ Standing /\ Passive /\ Spared
  BY PeerAssumption, Peers DEF Init, All, NoRequest, Numbered, Asked, Fresh, OwnAsks, Standing,
     Passive, Silent, Spared, Daemons, Askers
<1>3. Returned
  BY DEF Init, Returned, Releases
<1>4. ~Both
  BY DEF Init, Both, Live, All, Daemons
<1> QED BY <1>1, <1>2, <1>3, <1>4 DEF IInv, Consents, Consented, OneListens

LEMMA HandoffStep ==
    ASSUME IInv, [Next]_vars
    PROVE  IInv'
<1>1. CASE UNCHANGED vars
  BY <1>1, UnchangedKeeps
<1>2. CASE Next
  <2>1. PICK d \in Daemons :
          \/ Start(d) \/ Bind(d) \/ BootStep(d) \/ Resume(d)
          \/ ResumeEnd(d, answer[d]["hand"])
          \/ TogglePauses(d) \/ (\E paused \in BOOLEAN : SetPaused(d, paused))
          \/ (\E r \in wire : Handle(d, r))
          \/ Apply(d) \/ WatchStep(d) \/ Leave(d) \/ LeaveEnd(d) \/ Kill(d)
    BY <1>2 DEF Next
  <2>2. CASE BootStep(d)
    BY <2>2, BootReadyKeeps, BootAskKeeps, BootEndKeeps DEF BootStep
  <2>3. CASE LeaveEnd(d) \/ Kill(d)
    BY <2>3, EndsKeeps DEF LeaveEnd, Kill
  <2>4. CASE Start(d) \/ Bind(d) \/ Leave(d)
    BY <2>4, StartKeeps, BindKeeps, LeaveKeeps
  <2>5. CASE Resume(d) \/ ResumeEnd(d, answer[d]["hand"])
    BY <2>5, ResumeKeeps, ResumeEndKeeps
  <2>6. CASE TogglePauses(d) \/ \E paused \in BOOLEAN : SetPaused(d, paused)
    BY <2>6, TogglePausesKeeps, SetPausedKeeps
  <2>7. CASE Apply(d) \/ \E r \in wire : Handle(d, r)
    BY <2>7, ApplyKeeps, HandleKeeps
  <2>8. CASE WatchStep(d)
    BY <2>8, WatchStepKeeps
  <2> QED BY <2>1, <2>2, <2>3, <2>4, <2>5, <2>6, <2>7, <2>8
<1> QED BY <1>1, <1>2

\* The inductive invariant holds: what the two daemons asked each other for, what they
\* were told and what is still on its way agree with who is paused.
THEOREM HandoffInv == Spec => []IInv
<1>1. Init => IInv
  BY HandoffInit
<1>2. IInv /\ [Next]_vars => IInv'
  BY HandoffStep
<1> QED BY <1>1, <1>2, PTL DEF Spec

\* Types, for any number of starts, leases, requests and presses.
THEOREM PeerTypeCorrect == Spec => []TypeOK
<1>1. IInv => TypeOK
  BY DEF IInv
<1> QED BY <1>1, HandoffInv, PTL

\* Two settled daemons never both listen, unless one of them was let go by its user,
\* its watchdog or a slow start: pause_peer_when_ready, resume and the leases of
\* uds_server.rs hand the microphone over, whatever is killed, late or lost.
THEOREM OneListener == Spec => []OneMicrophone
<1>1. IInv => OneMicrophone
  <2>1. SUFFICES ASSUME IInv, Settled, \A d \in Daemons : ~master[d], \A d \in Daemons : ~free[d]
                 PROVE  FALSE
    BY DEF OneMicrophone
  <2>2. Both
    BY <2>1 DEF Both, Settled
  <2>3. \A d \in Daemons : MayListen(d)
    BY <2>1 DEF Settled, MayListen
  <2> QED BY <2>1, <2>2, <2>3 DEF IInv, OneListens, Daemons
<1> QED BY <1>1, HandoffInv, PTL

\* A release that was delayed, or is carried out after its sender gave up, never lifts
\* a pause the user set meanwhile (peer_pause_lease_action checks the lease).
THEOREM LateReleaseSpares == Spec => ReleaseSparesManual
<1>1. IInv => \A d \in Daemons : Apply(d) /\ serving[d].act = "released" => ~manual[d]
  BY DEF IInv, Spared
<1>2. IInv /\ [Next]_vars =>
        [\A d \in Daemons : Apply(d) /\ serving[d].act = "released" => ~manual[d]]_vars
  BY <1>1
<1> QED BY <1>2, HandoffInv, PTL DEF Spec, ReleaseSparesManual
=============================================================================
