---------------------------- MODULE ConsumeLeases ----------------------------
(* Who routes finals to itself: each connection owns at most one consume     *)
(* lease (pause.rs), taken and given back by its command reader and given    *)
(* back again by its ClientGuard (uds_server.rs).  The two run on their own: *)
(* the guard falls when a write fails, the reader ends at end of file.  The  *)
(* flag and the counter are separate atomics.                                *)
EXTENDS Integers, FiniteSets

CONSTANTS
    Clients,    \* connections, each used again once both its tasks are over
    MaxCount    \* the largest value of the counter, which wraps

ASSUME LeaseAssumption ==
    /\ IsFiniteSet(Clients)
    /\ MaxCount \in Nat /\ 2 * Cardinality(Clients) <= MaxCount

VARIABLES
    guard,     \* the connection's ClientGuard: "off", "on", "sub"
    reader,    \* its command reader: "none", "on", "add", "sub", "lastSub", "done"
    lease,     \* its consume lease
    leases     \* CONSUME_MODE_LEASES

vars == <<guard, reader, lease, leases>>

Init ==
    /\ guard = [c \in Clients |-> "off"] /\ reader = [c \in Clients |-> "none"]
    /\ lease = [c \in Clients |-> FALSE] /\ leases = 0

\* fetch_add and fetch_sub, which wrap.
PlusOne  == IF leases = MaxCount THEN 0 ELSE leases + 1
\* Mutant: a counter that stops at zero.
MinusOneSaturating == IF leases = 0 THEN 0 ELSE leases - 1
MinusOne == IF leases = 0 THEN MaxCount ELSE leases - 1

\* is_consume_mode
Consuming == leases > 0

-----------------------------------------------------------------------------
\* handle_client: the guard first, with a flag of its own ...
Connect(c) ==
    /\ guard[c] = "off" /\ reader[c] \in {"none", "done"}
    /\ guard' = [guard EXCEPT ![c] = "on"] /\ reader' = [reader EXCEPT ![c] = "none"]
    /\ lease' = [lease EXCEPT ![c] = FALSE]
    /\ UNCHANGED leases

\* ... the reader once the initial state is written; a failed write ends it all.
SpawnReader(c) ==
    /\ guard[c] = "on" /\ reader[c] = "none"
    /\ reader' = [reader EXCEPT ![c] = "on"]
    /\ UNCHANGED <<guard, lease, leases>>

\* acquire_consume_mode: swap the connection's flag, then count.
AcquireSwap(c) ==
    /\ reader[c] = "on"
    /\ reader' = [reader EXCEPT ![c] = IF lease[c] THEN "on" ELSE "add"]
    /\ lease' = [lease EXCEPT ![c] = TRUE]
    /\ UNCHANGED <<guard, leases>>

AcquireCount(c) ==
    /\ reader[c] = "add"
    /\ reader' = [reader EXCEPT ![c] = "on"]
    /\ leases' = PlusOne
    /\ UNCHANGED <<guard, lease>>

\* Mutant: the reader's end leaves the lease to the guard.
ReaderJustEnds(c, last) ==
    /\ reader[c] = "on"
    /\ reader' = [reader EXCEPT ![c] = IF last THEN "done" ELSE IF lease[c] THEN "sub" ELSE "on"]
    /\ lease' = IF last THEN lease ELSE [lease EXCEPT ![c] = FALSE]
    /\ UNCHANGED <<guard, leases>>

\* release_consume_mode, by SetConsumeMode(FALSE) or at the reader's end ...
ReaderReleases(c, last) ==
    /\ reader[c] = "on"
    /\ \/ lease[c] /\ reader' = [reader EXCEPT ![c] = IF last THEN "lastSub" ELSE "sub"]
       \/ ~lease[c] /\ reader' = [reader EXCEPT ![c] = IF last THEN "done" ELSE "on"]
    /\ lease' = [lease EXCEPT ![c] = FALSE]
    /\ UNCHANGED <<guard, leases>>

ReaderUncounts(c) ==
    /\ reader[c] \in {"sub", "lastSub"}
    /\ reader' = [reader EXCEPT ![c] = IF @ = "sub" THEN "on" ELSE "done"]
    /\ leases' = MinusOne
    /\ UNCHANGED <<guard, lease>>

\* ... and by the ClientGuard, when handle_client returns.
GuardReleases(c) ==
    /\ guard[c] = "on"
    /\ guard' = [guard EXCEPT ![c] = IF lease[c] THEN "sub" ELSE "off"]
    /\ lease' = [lease EXCEPT ![c] = FALSE]
    /\ UNCHANGED <<reader, leases>>

GuardUncounts(c) ==
    /\ guard[c] = "sub"
    /\ guard' = [guard EXCEPT ![c] = "off"]
    /\ leases' = MinusOne
    /\ UNCHANGED <<reader, lease>>

LeaseStep(c) ==
    \/ Connect(c) \/ SpawnReader(c) \/ AcquireSwap(c) \/ AcquireCount(c)
    \/ \E last \in BOOLEAN : ReaderReleases(c, last)
    \/ ReaderUncounts(c) \/ GuardReleases(c) \/ GuardUncounts(c)

Next == \E c \in Clients : LeaseStep(c)

Spec == Init /\ [][Next]_vars

-----------------------------------------------------------------------------
\* The types; the counter stays within a usize.
TypeOK ==
    /\ guard \in [Clients -> {"off", "on", "sub"}]
    /\ reader \in [Clients -> {"none", "on", "add", "sub", "lastSub", "done"}]
    /\ lease \in [Clients -> BOOLEAN]
    /\ leases \in 0..MaxCount

Holding  == {c \in Clients : lease[c]}
Adding   == {c \in Clients : reader[c] = "add"}
Leaving  == {c \in Clients : reader[c] \in {"sub", "lastSub"}}
Dropping == {c \in Clients : guard[c] = "sub"}

\* However the two tasks of a connection interleave, the counter agrees with the
\* flags as soon as nobody is between the two atomics: no lease is counted twice
\* by the guard and the reader, none is given back twice or never.
LeasesMatchFlags ==
    Adding \cup Leaving \cup Dropping = {} => leases = Cardinality(Holding)

\* "Cleared when the last client disconnects": with every connection over, finals
\* are typed again, whatever the order in which guards and readers went.
ConsumeEndsWithClients ==
    (\A c \in Clients : guard[c] = "off" /\ reader[c] \in {"none", "done"}) => ~Consuming

=============================================================================
