----------------------------- MODULE UdsClients -----------------------------
(* A connection of the daemon's socket, from accept to its end                *)
(* (handle_client of uds_server.rs, EventBroadcaster of event.rs): it lifts    *)
(* the no-GUI mute, subscribes, takes a snapshot, writes it, and then relays   *)
(* events while a second task reads commands; the consume lease both tasks     *)
(* give back is the one of ConsumeLeases.  A peer may leave or hang at any     *)
(* point.  The state relayed is one pause flag; controls that overlap are in   *)
(* PauseState.                                                                *)
EXTENDS ConsumeLeases, Sequences, SequencesExt

CONSTANTS
    Capacity,        \* of the broadcast channel
    MaxChanges,      \* bound: manual changes of the pause
    MaxConnections   \* bound: connections accepted

ASSUME ClientsAssumption ==
    Capacity \in Nat \ {0} /\ MaxChanges \in Nat /\ MaxConnections \in Nat

VARIABLES
    at,       \* where handle_client is: "idle", "lift", "tell", "subscribe", "snapshot",
              \* "write", "serve", "over", "closed"
    snap,     \* the snapshot it took
    peer,     \* the other side: "none", "alive", "stuck", "gone"
    view,     \* the pause state the peer shows
    queue,    \* events the connection's receiver has not taken
    lagged,   \* did it lose some?
    muted,    \* the no-GUI pause
    manual,   \* the user's pause
    telling,  \* a control has changed the state and not yet broadcast it
    changes,  \* changes left
    accepts   \* connections left

connVars  == <<at, snap, peer, view, queue, lagged>>
pauseVars == <<muted, manual, telling, changes, accepts>>
leaseVars == vars
allVars   == <<connVars, pauseVars, leaseVars>>

Effective == IF manual \/ muted THEN "paused" ELSE "listening"

ClientsInit ==
    /\ Init
    /\ at = [c \in Clients |-> "idle"] /\ snap = [c \in Clients |-> "none"]
    /\ peer = [c \in Clients |-> "none"] /\ view = [c \in Clients |-> "none"]
    /\ queue = [c \in Clients |-> <<>>] /\ lagged = [c \in Clients |-> FALSE]
    /\ muted \in BOOLEAN /\ manual = FALSE /\ telling = FALSE
    /\ changes = MaxChanges /\ accepts = MaxConnections

\* EventBroadcaster::send: every receiver keeps the newest Capacity events.
Subscribed == {c \in Clients : at[c] \in {"snapshot", "write", "serve"}}
Broadcast(e) ==
    /\ queue' = [c \in Clients |->
          IF c \notin Subscribed THEN queue[c]
          ELSE IF Len(queue[c]) < Capacity THEN Append(queue[c], e)
          ELSE Append(Tail(queue[c]), e)]
    /\ lagged' = [c \in Clients |->
          lagged[c] \/ (c \in Subscribed /\ Len(queue[c]) = Capacity)]

-----------------------------------------------------------------------------
(* handle_client.                                                            *)

Go(c, next) == at' = [at EXCEPT ![c] = next]

Accept(c) ==
    /\ at[c] = "idle" /\ accepts > 0 /\ accepts' = accepts - 1
    /\ Connect(c) /\ Go(c, "lift")
    /\ peer' = [peer EXCEPT ![c] = "alive"] /\ view' = [view EXCEPT ![c] = "none"]
    /\ queue' = [queue EXCEPT ![c] = <<>>] /\ lagged' = [lagged EXCEPT ![c] = FALSE]
    /\ UNCHANGED <<snap, muted, manual, telling, changes>>

\* The no-GUI mute is lifted before the snapshot; the other clients are told.
Lift(c) ==
    /\ at[c] = "lift" /\ ~telling
    /\ muted' = FALSE
    /\ IF muted /\ ~manual THEN Go(c, "tell") /\ telling' = TRUE
                           ELSE Go(c, "subscribe") /\ UNCHANGED telling
    /\ UNCHANGED <<snap, peer, view, queue, lagged, manual, changes, accepts, leaseVars>>
Tell(c) ==
    /\ at[c] = "tell" /\ Go(c, "subscribe")
    /\ Broadcast(Effective) /\ telling' = FALSE
    /\ UNCHANGED <<snap, peer, view, muted, manual, changes, accepts, leaseVars>>

SnapshotFirst(c) ==  \* mutant
    /\ at[c] \in {"subscribe", "snapshot"}
    /\ snap' = IF at[c] = "subscribe" THEN [snap EXCEPT ![c] = Effective] ELSE snap
    /\ Go(c, IF at[c] = "subscribe" THEN "snapshot" ELSE "write")
    /\ queue' = [queue EXCEPT ![c] = <<>>]
    /\ UNCHANGED <<peer, view, lagged, pauseVars, leaseVars>>

\* Subscribe, then the snapshot.
Subscribe(c) ==
    /\ at[c] \in {"subscribe", "snapshot"}
    /\ snap' = IF at[c] = "snapshot" THEN [snap EXCEPT ![c] = Effective] ELSE snap
    /\ Go(c, IF at[c] = "subscribe" THEN "snapshot" ELSE "write")
    /\ UNCHANGED <<peer, view, queue, lagged, pauseVars, leaseVars>>

\* The initial burst: only a time-out ends the connection here; a peer that is gone
\* is noticed at the first event.  Then the reader is spawned.
WriteInitial(c) ==
    /\ at[c] = "write"
    /\ snap' = [snap EXCEPT ![c] = "none"]
    /\ \/ /\ Go(c, "serve") /\ SpawnReader(c)
          /\ view' = IF peer[c] = "alive" THEN [view EXCEPT ![c] = snap[c]] ELSE view
       \/ peer[c] = "stuck" /\ Go(c, "over") /\ UNCHANGED <<view, leaseVars>>
    /\ UNCHANGED <<peer, queue, lagged, pauseVars>>

\* One event is taken and written; a stuck peer blocks the write, one that is gone
\* fails it.
RelayIgnoresEpipe(c) ==  \* mutant
    /\ at[c] = "serve" /\ queue[c] # <<>> /\ peer[c] \in {"alive", "gone"}
    /\ queue' = [queue EXCEPT ![c] = Tail(@)]
    /\ view' = IF Head(queue[c]) = "beat" \/ peer[c] = "gone" THEN view
               ELSE [view EXCEPT ![c] = Head(queue[c])]
    /\ UNCHANGED <<at, snap, peer, lagged, pauseVars, leaseVars>>
Relay(c) ==
    /\ at[c] = "serve" /\ queue[c] # <<>> /\ peer[c] \in {"alive", "gone"}
    /\ queue' = [queue EXCEPT ![c] = Tail(@)]
    /\ IF peer[c] = "alive"
       THEN /\ view' = IF Head(queue[c]) = "beat" THEN view
                       ELSE [view EXCEPT ![c] = Head(queue[c])]
            /\ UNCHANGED at
       ELSE Go(c, "over") /\ UNCHANGED view
    /\ UNCHANGED <<snap, peer, lagged, pauseVars, leaseVars>>

\* handle_client returns, its receiver with it: the guard gives the lease back and
\* uncounts the client.
Returns(c) ==
    /\ at[c] = "over" /\ GuardReleases(c)
    /\ queue' = [queue EXCEPT ![c] = <<>>] /\ lagged' = [lagged EXCEPT ![c] = FALSE]
    /\ UNCHANGED <<at, snap, peer, view, pauseVars>>
Uncounts(c) ==
    /\ at[c] = "over"
    /\ GuardUncounts(c) \/ (guard[c] = "off" /\ UNCHANGED leaseVars)
    /\ Go(c, "closed")
    /\ UNCHANGED <<snap, peer, view, queue, lagged, pauseVars>>
Forget(c) ==
    /\ at[c] = "closed" /\ reader[c] \in {"none", "done"} /\ Go(c, "idle")
    /\ peer' = [peer EXCEPT ![c] = "none"]
    /\ UNCHANGED <<snap, view, queue, lagged, pauseVars, leaseVars>>

\* The command reader: consume commands, also those a peer that has gone left in the
\* socket, then the end of file.  (A command above the rate limit is dropped: no step.)
Reads(c) ==
    /\ \/ AcquireSwap(c) \/ AcquireCount(c)
       \/ ReaderReleases(c, FALSE) \/ ReaderUncounts(c)
       \/ peer[c] = "gone" /\ ReaderReleases(c, TRUE)
    /\ UNCHANGED <<connVars, pauseVars>>

Handler(c) ==
    \/ Lift(c) \/ Tell(c) \/ Subscribe(c) \/ WriteInitial(c) \/ Relay(c)
    \/ Returns(c) \/ Uncounts(c)

-----------------------------------------------------------------------------
(* The world around.                                                         *)

Moves(c, from, to) ==
    /\ peer[c] \in from /\ peer' = [peer EXCEPT ![c] = to]
    /\ view' = [view EXCEPT ![c] = "none"]
    /\ UNCHANGED <<at, snap, queue, lagged, pauseVars, leaseVars>>
Leaves(c) == Moves(c, {"alive", "stuck"}, "gone")
Hangs(c)  == Moves(c, {"alive"}, "stuck")

\* spawn_orphan_watchdog, which broadcasts nothing; its check and its store are two
\* steps in PauseState.
Mute ==
    /\ \A c \in Clients : guard[c] = "off"
    /\ ~muted /\ muted' = TRUE
    /\ UNCHANGED <<connVars, manual, telling, changes, accepts, leaseVars>>

\* A control: the flag first, the broadcast after it if EFFECTIVE changed.
Change ==
    /\ changes > 0 /\ ~telling
    /\ changes' = changes - 1 /\ manual' = ~manual
    /\ telling' = ~muted
    /\ UNCHANGED <<connVars, muted, accepts, leaseVars>>
Announce ==
    /\ telling /\ \A c \in Clients : at[c] # "tell"
    /\ Broadcast(Effective) /\ telling' = FALSE
    /\ UNCHANGED <<at, snap, peer, view, muted, manual, changes, accepts, leaseVars>>

\* Every five seconds.
Heartbeat ==
    /\ Broadcast("beat")
    /\ UNCHANGED <<at, snap, peer, view, pauseVars, leaseVars>>

ClientsNext ==
    \/ \E c \in Clients :
          Accept(c) \/ Handler(c) \/ Forget(c) \/ Reads(c) \/ Leaves(c) \/ Hangs(c)
    \/ Mute \/ Change \/ Announce \/ Heartbeat

\* Handlers run, and the heartbeat never stops.
ClientsSpec ==
    /\ ClientsInit /\ [][ClientsNext]_allVars
    /\ \A c \in Clients : WF_allVars(Handler(c))
    /\ WF_allVars(Announce) /\ WF_allVars(Heartbeat)

-----------------------------------------------------------------------------
\* A client that has read everything sent to it, and missed nothing, shows the state
\* the daemon is in -- also when the state changed between its subscription, its
\* snapshot and its first event.  (A receiver that lagged has lost events for good.)
CaughtUpIsRight ==
    \A c \in Clients :
        /\ at[c] = "serve" /\ peer[c] = "alive" /\ queue[c] = <<>> /\ ~lagged[c] /\ ~telling
        /\ view[c] # "none"
        => view[c] = Effective

\* A peer that has gone is noticed, wherever its handler was, and its guard falls: the
\* client is no longer counted and its lease is given back.
GoneIsNoticed == \A c \in Clients : peer[c] = "gone" ~> guard[c] = "off"

=============================================================================
