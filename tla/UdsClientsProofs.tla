--------------------------- MODULE UdsClientsProofs ---------------------------
(* The consume leases, for any number of connections and any counter that    *)
(* can count two for each of them.  The counter is compared with what the    *)
(* flags and the tasks between two atomics will have it count, modulo its    *)
(* width: a guard may count down before the reader has counted up.  Then the *)
(* connections themselves, for any capacity of the broadcast channel.        *)
EXTENDS UdsClients, FiniteSetTheorems, SequenceTheorems, TLAPS

\* What the counter would be if it did not wrap: leases held or about to be
\* given back, less those taken and not counted yet.
Balance == Cardinality(Holding) + Cardinality(Leaving) + Cardinality(Dropping)
             - Cardinality(Adding)

\* The counter is the balance, wrapped below zero.
Counted == leases = IF Balance >= 0 THEN Balance ELSE Balance + MaxCount + 1

\* Only a reader that is running owns a lease.
Unheld == \A c \in Clients : reader[c] \notin {"on", "add"} => ~lease[c]

LeaseInv == TypeOK /\ Unheld /\ Counted

\* The connections in each of the four situations are finitely many.
LEMMA Sizes ==
    /\ IsFiniteSet(Holding) /\ Cardinality(Holding) \in Nat
    /\ IsFiniteSet(Leaving) /\ Cardinality(Leaving) \in Nat
    /\ IsFiniteSet(Dropping) /\ Cardinality(Dropping) \in Nat
    /\ IsFiniteSet(Adding) /\ Cardinality(Adding) \in Nat
<1>1. /\ Holding \in SUBSET Clients /\ Leaving \in SUBSET Clients
      /\ Dropping \in SUBSET Clients /\ Adding \in SUBSET Clients
    BY DEF Holding, Leaving, Dropping, Adding
<1>2. \A S \in SUBSET Clients : IsFiniteSet(S) /\ Cardinality(S) \in Nat
    BY LeaseAssumption, FS_Subset, FS_CardinalityType
<1> QED BY <1>1, <1>2

\* The counter wraps only below zero: a lease is held or being given back by the
\* reader, never both, so a connection counts for two at most.
LEMMA Bounds ==
    ASSUME Unheld
    PROVE  Balance \in Int /\ -MaxCount <= Balance /\ Balance <= MaxCount
<1>1. /\ Holding \cup Leaving \in SUBSET Clients
      /\ Dropping \in SUBSET Clients /\ Adding \in SUBSET Clients
    BY DEF Holding, Leaving, Dropping, Adding
<1>2. /\ Cardinality(Clients) \in Nat
      /\ \A S \in SUBSET Clients : Cardinality(S) <= Cardinality(Clients)
    BY LeaseAssumption, FS_Subset, FS_CardinalityType
<1>3. Holding \cap Leaving = {}
    BY DEF Unheld, Holding, Leaving
<1>4. Cardinality(Holding \cup Leaving) = Cardinality(Holding) + Cardinality(Leaving)
    BY <1>3, Sizes, FS_Union, FS_EmptySet
<1>5. /\ Cardinality(Holding \cup Leaving) <= Cardinality(Clients)
      /\ Cardinality(Dropping) <= Cardinality(Clients)
      /\ Cardinality(Adding) <= Cardinality(Clients)
    BY <1>1, <1>2
<1> QED BY <1>2, <1>4, <1>5, Sizes, LeaseAssumption, SMT DEF Balance

\* One connection more, or one less, in one of the four situations.
LEMMA OneMore ==
    ASSUME NEW S, IsFiniteSet(S), NEW x, x \notin S
    PROVE  Cardinality(S \cup {x}) = Cardinality(S) + 1
BY FS_AddElement

\* The same for one less.
LEMMA OneLess ==
    ASSUME NEW S, IsFiniteSet(S), NEW x \in S
    PROVE  Cardinality(S \ {x}) = Cardinality(S) - 1
BY FS_RemoveElement

\* What each step does to the balance: a swap that takes a lease is counted by
\* the reader at once, one that gives it back by whoever swapped.
LEMMA SwapsKeepBalance ==
    ASSUME TypeOK, Unheld, NEW c \in Clients,
           \/ Connect(c) \/ SpawnReader(c) \/ AcquireSwap(c) \/ GuardReleases(c)
           \/ \E last \in BOOLEAN : ReaderReleases(c, last)
    PROVE  Balance' = Balance
<1>1. CASE Connect(c)
  <2>1. Holding' = Holding /\ Leaving' = Leaving /\ Dropping' = Dropping /\ Adding' = Adding
      BY <1>1 DEF Connect, Unheld, TypeOK, Holding, Leaving, Dropping, Adding
  <2> QED BY <2>1 DEF Balance
<1>2. CASE SpawnReader(c)
  <2>1. Holding' = Holding /\ Leaving' = Leaving /\ Dropping' = Dropping /\ Adding' = Adding
      BY <1>2 DEF SpawnReader, TypeOK, Holding, Leaving, Dropping, Adding
  <2> QED BY <2>1 DEF Balance
<1>3. CASE AcquireSwap(c)
  <2>1. CASE lease[c]
    <3>1. Holding' = Holding /\ Leaving' = Leaving /\ Dropping' = Dropping /\ Adding' = Adding
        BY <1>3, <2>1 DEF AcquireSwap, TypeOK, Holding, Leaving, Dropping, Adding
    <3> QED BY <3>1 DEF Balance
  <2>2. CASE ~lease[c]
    <3>1. /\ Holding' = Holding \cup {c} /\ c \notin Holding
          /\ Adding' = Adding \cup {c} /\ c \notin Adding
          /\ Leaving' = Leaving /\ Dropping' = Dropping
        BY <1>3, <2>2 DEF AcquireSwap, TypeOK, Holding, Leaving, Dropping, Adding
    <3>2. /\ Cardinality(Holding') = Cardinality(Holding) + 1
          /\ Cardinality(Adding') = Cardinality(Adding) + 1
        BY <3>1, Sizes, OneMore
    <3> QED BY <3>1, <3>2, Sizes DEF Balance
  <2> QED BY <2>1, <2>2
<1>4. CASE GuardReleases(c)
  <2>1. CASE ~lease[c]
    <3>1. Holding' = Holding /\ Leaving' = Leaving /\ Dropping' = Dropping /\ Adding' = Adding
        BY <1>4, <2>1 DEF GuardReleases, TypeOK, Holding, Leaving, Dropping, Adding
    <3> QED BY <3>1 DEF Balance
  <2>2. CASE lease[c]
    <3>1. /\ Holding' = Holding \ {c} /\ c \in Holding
          /\ Dropping' = Dropping \cup {c} /\ c \notin Dropping
          /\ Leaving' = Leaving /\ Adding' = Adding
        BY <1>4, <2>2 DEF GuardReleases, TypeOK, Holding, Leaving, Dropping, Adding
    <3>2. /\ Cardinality(Holding') = Cardinality(Holding) - 1
          /\ Cardinality(Dropping') = Cardinality(Dropping) + 1
        BY <3>1, Sizes, OneMore, OneLess
    <3> QED BY <3>1, <3>2, Sizes DEF Balance
  <2> QED BY <2>1, <2>2
<1>5. ASSUME NEW last \in BOOLEAN, ReaderReleases(c, last)
      PROVE  Balance' = Balance
  <2>1. CASE ~lease[c]
    <3>1. Holding' = Holding /\ Leaving' = Leaving /\ Dropping' = Dropping /\ Adding' = Adding
        BY <1>5, <2>1 DEF ReaderReleases, TypeOK, Holding, Leaving, Dropping, Adding
    <3> QED BY <3>1 DEF Balance
  <2>2. CASE lease[c]
    <3>1. /\ Holding' = Holding \ {c} /\ c \in Holding
          /\ Leaving' = Leaving \cup {c} /\ c \notin Leaving
          /\ Dropping' = Dropping /\ Adding' = Adding
        BY <1>5, <2>2 DEF ReaderReleases, TypeOK, Holding, Leaving, Dropping, Adding
    <3>2. /\ Cardinality(Holding') = Cardinality(Holding) - 1
          /\ Cardinality(Leaving') = Cardinality(Leaving) + 1
        BY <3>1, Sizes, OneMore, OneLess
    <3> QED BY <3>1, <3>2, Sizes DEF Balance
  <2> QED BY <2>1, <2>2
<1> QED BY <1>1, <1>2, <1>3, <1>4, <1>5

\* A count moves the balance by one, as it moves the counter.
LEMMA CountsMoveBalance ==
    ASSUME TypeOK, NEW c \in Clients
    PROVE  /\ AcquireCount(c) => Balance' = Balance + 1
           /\ ReaderUncounts(c) \/ GuardUncounts(c) => Balance' = Balance - 1
<1>1. ASSUME AcquireCount(c) PROVE Balance' = Balance + 1
  <2>1. /\ Adding' = Adding \ {c} /\ c \in Adding
        /\ Holding' = Holding /\ Leaving' = Leaving /\ Dropping' = Dropping
      BY <1>1 DEF AcquireCount, TypeOK, Holding, Leaving, Dropping, Adding
  <2>2. Cardinality(Adding') = Cardinality(Adding) - 1
      BY <2>1, Sizes, OneLess
  <2> QED BY <2>1, <2>2, Sizes DEF Balance
<1>2. ASSUME ReaderUncounts(c) PROVE Balance' = Balance - 1
  <2>1. /\ Leaving' = Leaving \ {c} /\ c \in Leaving
        /\ Holding' = Holding /\ Adding' = Adding /\ Dropping' = Dropping
      BY <1>2 DEF ReaderUncounts, TypeOK, Holding, Leaving, Dropping, Adding
  <2>2. Cardinality(Leaving') = Cardinality(Leaving) - 1
      BY <2>1, Sizes, OneLess
  <2> QED BY <2>1, <2>2, Sizes DEF Balance
<1>3. ASSUME GuardUncounts(c) PROVE Balance' = Balance - 1
  <2>1. /\ Dropping' = Dropping \ {c} /\ c \in Dropping
        /\ Holding' = Holding /\ Adding' = Adding /\ Leaving' = Leaving
      BY <1>3 DEF GuardUncounts, TypeOK, Holding, Leaving, Dropping, Adding
  <2>2. Cardinality(Dropping') = Cardinality(Dropping) - 1
      BY <2>1, Sizes, OneLess
  <2> QED BY <2>1, <2>2, Sizes DEF Balance
<1> QED BY <1>1, <1>2, <1>3

-----------------------------------------------------------------------------
\* Nobody holds or counts anything at the start.
LEMMA LeasesInit == Init => LeaseInv
<1> SUFFICES ASSUME Init PROVE LeaseInv
    OBVIOUS
<1>1. TypeOK /\ Unheld
    BY LeaseAssumption DEF Init, TypeOK, Unheld
<1>2. Holding = {} /\ Leaving = {} /\ Dropping = {} /\ Adding = {}
    BY DEF Init, Holding, Leaving, Dropping, Adding
<1>3. Balance = 0
    BY <1>2, FS_EmptySet DEF Balance
<1> QED BY <1>1, <1>3 DEF LeaseInv, Counted, Init

\* Every step keeps the types, and a reader that ends or counts down has let go
\* of the lease first.
LEMMA LeasesTyped ==
    ASSUME TypeOK, Unheld, [Next]_vars
    PROVE  TypeOK' /\ Unheld'
<1> USE LeaseAssumption DEF TypeOK, Unheld
<1>1. CASE UNCHANGED vars
    BY <1>1 DEF vars
<1>2. ASSUME NEW c \in Clients, LeaseStep(c) PROVE TypeOK' /\ Unheld'
  <2>1. CASE Connect(c)            BY <2>1 DEF Connect
  <2>2. CASE SpawnReader(c)        BY <2>2 DEF SpawnReader
  <2>3. CASE AcquireSwap(c)        BY <2>3 DEF AcquireSwap
  <2>4. CASE AcquireCount(c)       BY <2>4 DEF AcquireCount, PlusOne
  <2>5. CASE GuardReleases(c)      BY <2>5 DEF GuardReleases
  <2>6. CASE GuardUncounts(c)      BY <2>6 DEF GuardUncounts, MinusOne
  <2>7. CASE ReaderUncounts(c)     BY <2>7 DEF ReaderUncounts, MinusOne
  <2>8. ASSUME NEW last \in BOOLEAN, ReaderReleases(c, last) PROVE TypeOK' /\ Unheld'
      BY <2>8 DEF ReaderReleases
  <2> QED BY <1>2, <2>1, <2>2, <2>3, <2>4, <2>5, <2>6, <2>7, <2>8 DEF LeaseStep
<1> QED BY <1>1, <1>2 DEF Next

\* Every step keeps the counter at the balance, wrapped.
LEMMA LeasesCounted ==
    ASSUME LeaseInv, [Next]_vars
    PROVE  Counted'
<1> USE DEF LeaseInv
<1>1. TypeOK' /\ Unheld'
    BY LeasesTyped
<1>2. /\ Balance \in Int /\ -MaxCount <= Balance /\ Balance <= MaxCount
      /\ Balance' \in Int /\ -MaxCount <= Balance' /\ Balance' <= MaxCount
  <2>1. Balance \in Int /\ -MaxCount <= Balance /\ Balance <= MaxCount
      BY Bounds
  <2>2. (Balance \in Int /\ -MaxCount <= Balance /\ Balance <= MaxCount)'
      BY <1>1, Bounds, PTL
  <2> QED BY <2>1, <2>2
<1>3. MaxCount \in Nat /\ leases \in 0..MaxCount
    BY LeaseAssumption DEF TypeOK
<1>4. CASE UNCHANGED vars
  <2>1. Balance' = Balance
      BY <1>4 DEF vars, Balance, Holding, Leaving, Dropping, Adding
  <2> QED BY <1>4, <2>1 DEF vars, Counted
<1>5. ASSUME NEW c \in Clients, LeaseStep(c) PROVE Counted'
  <2>1. CASE \/ Connect(c) \/ SpawnReader(c) \/ AcquireSwap(c) \/ GuardReleases(c)
             \/ \E last \in BOOLEAN : ReaderReleases(c, last)
    <3>1. Balance' = Balance
        BY <2>1, SwapsKeepBalance
    <3>2. leases' = leases
        BY <2>1 DEF Connect, SpawnReader, AcquireSwap, GuardReleases, ReaderReleases
    <3> QED BY <3>1, <3>2 DEF Counted
  <2>2. CASE AcquireCount(c)
    <3>1. Balance' = Balance + 1
        BY <2>2, CountsMoveBalance
    <3>2. leases' = PlusOne
        BY <2>2 DEF AcquireCount
    <3> QED BY <1>2, <1>3, <3>1, <3>2 DEF Counted, PlusOne
  <2>3. CASE ReaderUncounts(c) \/ GuardUncounts(c)
    <3>1. Balance' = Balance - 1
        BY <2>3, CountsMoveBalance
    <3>2. leases' = MinusOne
        BY <2>3 DEF ReaderUncounts, GuardUncounts
    <3> QED BY <1>2, <1>3, <3>1, <3>2 DEF Counted, MinusOne
  <2> QED BY <1>5, <2>1, <2>2, <2>3 DEF LeaseStep
<1> QED BY <1>4, <1>5 DEF Next

\* The invariant holds in every behaviour.
LEMMA LeasesInvariant == Spec => []LeaseInv
<1>1. LeaseInv /\ [Next]_vars => LeaseInv'
    BY LeasesTyped, LeasesCounted DEF LeaseInv
<1> QED BY <1>1, LeasesInit, PTL DEF Spec

-----------------------------------------------------------------------------
\* The states of the guards, the readers, the flags and the counter are typed in
\* every behaviour (acquire_consume_mode and release_consume_mode of pause.rs):
\* the counter never leaves its width.
THEOREM LeasesTypeCorrect == Spec => []TypeOK
<1>1. LeaseInv => TypeOK
    BY DEF LeaseInv
<1> QED BY <1>1, LeasesInvariant, PTL

\* The counter agrees with the flags whenever no connection is between its two
\* atomics, for any number of connections and any interleaving of guards and
\* readers (release_consume_mode is "safe to call repeatedly").
THEOREM LeasesExact == Spec => []LeasesMatchFlags
<1>1. LeaseInv => LeasesMatchFlags
  <2> SUFFICES ASSUME LeaseInv, Adding \cup Leaving \cup Dropping = {}
               PROVE  leases = Cardinality(Holding)
      BY DEF LeasesMatchFlags
  <2>1. Adding = {} /\ Leaving = {} /\ Dropping = {}
      OBVIOUS
  <2>2. Balance = Cardinality(Holding) /\ Balance \in Nat
      BY <2>1, Sizes, FS_EmptySet DEF Balance
  <2> QED BY <2>2 DEF LeaseInv, Counted
<1> QED BY <1>1, LeasesInvariant, PTL

\* Consume mode ends with the last connection, for any number of them.
THEOREM ConsumeEnds == Spec => []ConsumeEndsWithClients
<1>1. LeaseInv => ConsumeEndsWithClients
  <2> SUFFICES ASSUME LeaseInv,
                      \A c \in Clients : guard[c] = "off" /\ reader[c] \in {"none", "done"}
               PROVE  ~Consuming
      BY DEF ConsumeEndsWithClients
  <2>1. Adding = {} /\ Leaving = {} /\ Dropping = {} /\ Holding = {}
      BY DEF LeaseInv, Unheld, Adding, Leaving, Dropping, Holding
  <2>2. Balance = 0
      BY <2>1, FS_EmptySet DEF Balance
  <2> QED BY <2>2 DEF LeaseInv, Counted, Consuming
<1> QED BY <1>1, LeasesInvariant, PTL

-----------------------------------------------------------------------------
(* The connections.                                                           *)

\* The leases of the connections are those of ConsumeLeases: whatever a handler
\* does to them is one of its steps.
LEMMA HandlersStepLeases ==
    ASSUME [ClientsNext]_allVars PROVE [Next]_vars
<1>1. CASE UNCHANGED allVars
  BY <1>1 DEF allVars, leaseVars
<1>2. ASSUME NEW c \in Clients,
             Accept(c) \/ Handler(c) \/ Forget(c) \/ Reads(c) \/ Leaves(c) \/ Hangs(c)
      PROVE  [Next]_vars
  <2>1. CASE Accept(c) \/ WriteInitial(c)
    BY <2>1 DEF Accept, WriteInitial, Next, LeaseStep, leaseVars
  <2>2. CASE Returns(c) \/ Uncounts(c)
    BY <2>2 DEF Returns, Uncounts, Next, LeaseStep, leaseVars
  <2>3. CASE Lift(c) \/ Tell(c) \/ Subscribe(c) \/ Relay(c) \/ Forget(c)
    BY <2>3 DEF Lift, Tell, Subscribe, Relay, Forget, leaseVars
  <2>4. CASE Leaves(c) \/ Hangs(c)
    BY <2>4 DEF Leaves, Hangs, Moves, leaseVars
  <2>5. CASE Reads(c)
    BY <2>5 DEF Reads, Next, LeaseStep
  <2> QED
    BY <1>2, <2>1, <2>2, <2>3, <2>4, <2>5 DEF Handler
<1>3. CASE Mute \/ Change \/ Announce \/ Heartbeat
  BY <1>3 DEF Mute, Change, Announce, Heartbeat, leaseVars
<1> QED
  BY <1>1, <1>2, <1>3 DEF ClientsNext

\* handle_client and its reader take and give leases as ConsumeLeases has it: every
\* behaviour of the connections is one of the leases.
THEOREM ClientsStepLeases == ClientsSpec => Spec
<1>1. ClientsInit => Init
  BY DEF ClientsInit
<1>2. [ClientsNext]_allVars => [Next]_vars
  BY HandlersStepLeases
<1> QED
  BY <1>1, <1>2, PTL DEF ClientsSpec, Spec


-----------------------------------------------------------------------------
(* What a client is told.                                                     *)

States == {"paused", "listening"}
Events == States \cup {"beat"}

\* No state among the events, and the newest state among them.
Silent(q) == \A i \in 1..Len(q) : q[i] = "beat"
News(q)   == {q[i] : i \in {j \in 1..Len(q) : /\ q[j] # "beat"
                                              /\ \A k \in 1..Len(q) : k > j => q[k] = "beat"}}

ClientsTyped ==
    /\ at \in [Clients -> {"idle", "lift", "tell", "subscribe", "snapshot", "write", "serve",
                           "over", "closed"}]
    /\ snap \in [Clients -> States \cup {"none"}] /\ view \in [Clients -> States \cup {"none"}]
    /\ peer \in [Clients -> {"none", "alive", "stuck", "gone"}]
    /\ queue \in [Clients -> Seq(Events)] /\ \A c \in Clients : Len(queue[c]) <= Capacity
    /\ lagged \in [Clients -> BOOLEAN]
    /\ muted \in BOOLEAN /\ manual \in BOOLEAN /\ telling \in BOOLEAN
    /\ changes \in 0..MaxChanges /\ accepts \in 0..MaxConnections

\* A connection that runs has its guard, and hears nothing before it subscribes.
Guarded ==
    \A c \in Clients :
        /\ at[c] \in {"lift", "tell", "subscribe", "snapshot", "write", "serve"} => guard[c] = "on"
        /\ at[c] \in {"lift", "tell", "subscribe"} => queue[c] = <<>>

\* With no broadcast due, the newest state a client that missed nothing was sent is
\* the state of the daemon: in its queue, or with nothing there what it was told before.
Told(c) ==
    /\ News(queue[c]) \subseteq {Effective}
    /\ Silent(queue[c]) /\ at[c] = "write" => snap[c] = Effective
    /\ Silent(queue[c]) /\ at[c] = "serve" /\ peer[c] = "alive" /\ view[c] # "none"
          => view[c] = Effective
AllTold == \A c \in Subscribed : lagged[c] \/ telling \/ Told(c)

ClientsInv == TypeOK /\ ClientsTyped /\ Guarded /\ AllTold

LEMMA EffectiveIsState == Effective \in States
BY DEF Effective, States

\* An event at the end of a queue, and one taken from its front.
LEMMA AppendedNews ==
    ASSUME NEW q \in Seq(Events), NEW e \in Events
    PROVE  /\ Append(q, e) \in Seq(Events) /\ Len(Append(q, e)) = Len(q) + 1
           /\ e # "beat" => News(Append(q, e)) = {e} /\ ~Silent(Append(q, e))
           /\ e = "beat" => /\ News(Append(q, e)) = News(q)
                            /\ Silent(Append(q, e)) => Silent(q)
<1> DEFINE r == Append(q, e)
<1>1. /\ r \in Seq(Events) /\ Len(r) = Len(q) + 1 /\ Len(q) \in Nat
      /\ \A i \in 1..Len(q) : r[i] = q[i]
      /\ r[Len(q) + 1] = e
  BY AppendProperties
<1> HIDE DEF r
<1>2. 1..Len(r) = 1..Len(q) \cup {Len(q) + 1} /\ \A k \in 1..Len(q) : Len(q) + 1 > k
  BY <1>1
<1>3. ASSUME e # "beat" PROVE News(r) = {e} /\ ~Silent(r)
  BY <1>1, <1>2, <1>3 DEF News, Silent
<1>4. ASSUME e = "beat" PROVE News(r) = News(q) /\ (Silent(r) => Silent(q))
  <2>1. Silent(r) => Silent(q)
    BY <1>1, <1>2 DEF Silent
  <2>2. ASSUME NEW x \in News(r) PROVE x \in News(q)
    <3>1. PICK j \in 1..Len(r) :
             x = r[j] /\ r[j] # "beat" /\ \A k \in 1..Len(r) : k > j => r[k] = "beat"
      BY <2>2 DEF News
    <3>2. j \in 1..Len(q)
      BY <1>1, <1>2, <1>4, <3>1
    <3>3. x = q[j] /\ q[j] # "beat" /\ \A k \in 1..Len(q) : k > j => q[k] = "beat"
      BY <1>1, <1>2, <3>1, <3>2
    <3> QED
      BY <3>2, <3>3 DEF News
  <2>3. ASSUME NEW x \in News(q) PROVE x \in News(r)
    <3>1. PICK j \in 1..Len(q) :
             x = q[j] /\ q[j] # "beat" /\ \A k \in 1..Len(q) : k > j => q[k] = "beat"
      BY <2>3 DEF News
    <3>2. j \in 1..Len(r) /\ x = r[j] /\ r[j] # "beat"
          /\ \A k \in 1..Len(r) : k > j => r[k] = "beat"
      BY <1>1, <1>2, <1>4, <3>1
    <3> QED
      BY <3>2 DEF News
  <2> QED
    BY <2>1, <2>2, <2>3
<1> QED
  BY <1>1, <1>3, <1>4 DEF r

LEMMA TakenNews ==
    ASSUME NEW q \in Seq(Events), q # <<>>
    PROVE  /\ Tail(q) \in Seq(Events) /\ Len(Tail(q)) = Len(q) - 1 /\ Head(q) \in Events
           /\ News(Tail(q)) \subseteq News(q)
           /\ Silent(Tail(q)) /\ Head(q) = "beat" => Silent(q)
           /\ Silent(Tail(q)) /\ Head(q) # "beat" => Head(q) \in News(q)
<1> DEFINE r == Tail(q)
<1>1. /\ r \in Seq(Events) /\ Len(r) = Len(q) - 1 /\ Len(q) \in Nat /\ Len(q) >= 1
      /\ \A i \in 1..Len(r) : r[i] = q[i + 1]
      /\ Head(q) = q[1] /\ Head(q) \in Events
  BY HeadTailProperties
<1> HIDE DEF r
<1>2. \A k \in 1..Len(q) : k > 1 => k - 1 \in 1..Len(r) /\ q[k] = r[k - 1]
  BY <1>1
<1>3. ASSUME NEW x \in News(r) PROVE x \in News(q)
  <2>1. PICK j \in 1..Len(r) :
           x = r[j] /\ r[j] # "beat" /\ \A k \in 1..Len(r) : k > j => r[k] = "beat"
    BY <1>3 DEF News
  <2>2. j + 1 \in 1..Len(q) /\ x = q[j + 1] /\ q[j + 1] # "beat"
    BY <1>1, <2>1
  <2>3. ASSUME NEW k \in 1..Len(q), k > j + 1 PROVE q[k] = "beat"
    <3>1. k - 1 \in 1..Len(r) /\ q[k] = r[k - 1] /\ k - 1 > j
      BY <1>1, <1>2, <2>3
    <3> QED
      BY <2>1, <3>1
  <2> QED
    BY <2>2, <2>3 DEF News
<1>4. ASSUME Silent(r) PROVE \A k \in 1..Len(q) : k > 1 => q[k] = "beat"
  BY <1>2, <1>4 DEF Silent
<1>5. Silent(r) /\ Head(q) = "beat" => Silent(q)
  <2>1. \A k \in 1..Len(q) : k > 1 \/ k = 1
    OBVIOUS
  <2> QED
    BY <1>1, <1>4, <2>1 DEF Silent
<1>6. Silent(r) /\ Head(q) # "beat" => Head(q) \in News(q)
  <2>1. 1 \in 1..Len(q)
    BY <1>1
  <2> QED
    BY <1>1, <1>4, <2>1 DEF News
<1> QED
  BY <1>1, <1>3, <1>5, <1>6 DEF r

LEMMA NoNews == News(<<>>) = {} /\ Silent(<<>>)
BY DEF News, Silent

\* A broadcast reaches whoever has subscribed, and who loses an event for it has lagged.
LEMMA Sent ==
    ASSUME ClientsTyped, NEW e \in Events, Broadcast(e)
    PROVE  /\ queue' \in [Clients -> Seq(Events)] /\ \A c \in Clients : Len(queue'[c]) <= Capacity
           /\ lagged' \in [Clients -> BOOLEAN]
           /\ \A c \in Clients \ Subscribed : queue'[c] = queue[c]
           /\ \A c \in Subscribed : ~lagged'[c] =>
                 /\ ~lagged[c]
                 /\ e # "beat" => News(queue'[c]) = {e} /\ ~Silent(queue'[c])
                 /\ e = "beat" => /\ News(queue'[c]) = News(queue[c])
                                  /\ Silent(queue'[c]) => Silent(queue[c])
<1> DEFINE full(c) == Append(Tail(queue[c]), e)
<1>1. /\ queue \in [Clients -> Seq(Events)] /\ \A c \in Clients : Len(queue[c]) <= Capacity
      /\ lagged \in [Clients -> BOOLEAN] /\ Capacity \in Nat /\ Capacity > 0
      /\ Subscribed \subseteq Clients
  BY ClientsAssumption DEF ClientsTyped, Subscribed
<1>2. /\ queue' = [c \in Clients |-> IF c \notin Subscribed THEN queue[c]
                     ELSE IF Len(queue[c]) < Capacity THEN Append(queue[c], e) ELSE full(c)]
      /\ lagged' = [c \in Clients |-> lagged[c] \/ (c \in Subscribed /\ Len(queue[c]) = Capacity)]
  BY DEF Broadcast
<1>3. ASSUME NEW c \in Subscribed, Len(queue[c]) = Capacity
      PROVE  full(c) \in Seq(Events) /\ Len(full(c)) = Capacity
  <2>1. queue[c] \in Seq(Events) /\ queue[c] # <<>>
    BY <1>1, <1>3
  <2>2. Tail(queue[c]) \in Seq(Events) /\ Len(Tail(queue[c])) = Capacity - 1
    BY <1>3, <2>1, TakenNews
  <2> QED
    BY <1>1, <2>2, AppendProperties
<1> HIDE DEF full
<1>4. \A c \in Clients : Len(queue[c]) \in Nat
  BY <1>1
<1>5. ASSUME NEW c \in Clients
      PROVE  queue'[c] \in Seq(Events) /\ Len(queue'[c]) <= Capacity
  <2>1. CASE c \notin Subscribed
    BY <1>1, <1>2, <2>1
  <2>2. CASE c \in Subscribed /\ Len(queue[c]) < Capacity
    <3>1. queue'[c] = Append(queue[c], e) /\ queue[c] \in Seq(Events)
      BY <1>1, <1>2, <2>2
    <3>2. Append(queue[c], e) \in Seq(Events) /\ Len(Append(queue[c], e)) = Len(queue[c]) + 1
      BY <3>1, AppendProperties
    <3> QED
      BY <1>1, <1>4, <2>2, <3>1, <3>2
  <2>3. CASE c \in Subscribed /\ ~(Len(queue[c]) < Capacity)
    <3>1. queue'[c] = full(c) /\ Len(queue[c]) = Capacity
      BY <1>1, <1>2, <1>4, <2>3
    <3> QED
      BY <1>1, <1>3, <2>3, <3>1
  <2> QED
    BY <2>1, <2>2, <2>3
<1>6. ASSUME NEW c \in Subscribed, ~lagged'[c]
      PROVE  ~lagged[c] /\ queue'[c] = Append(queue[c], e) /\ queue[c] \in Seq(Events)
  <2>1. c \in Clients /\ queue[c] \in Seq(Events) /\ Len(queue[c]) <= Capacity
    BY <1>1, <1>6
  <2>2. lagged'[c] = (lagged[c] \/ Len(queue[c]) = Capacity)
    BY <1>2, <1>6, <2>1
  <2>4. ~lagged[c] /\ Len(queue[c]) # Capacity
    BY <1>6, <2>2
  <2>3. ~lagged[c] /\ Len(queue[c]) < Capacity
    BY <1>1, <1>4, <2>1, <2>4
  <2> QED
    BY <1>2, <1>6, <2>1, <2>3
<1>7. queue' \in [Clients -> Seq(Events)] /\ lagged' \in [Clients -> BOOLEAN]
  BY <1>1, <1>2, <1>5
<1>8. \A c \in Clients \ Subscribed : queue'[c] = queue[c]
  BY <1>2
<1>9. ASSUME NEW c \in Subscribed, ~lagged'[c]
      PROVE  /\ ~lagged[c]
             /\ e # "beat" => News(queue'[c]) = {e} /\ ~Silent(queue'[c])
             /\ e = "beat" => /\ News(queue'[c]) = News(queue[c])
                              /\ Silent(queue'[c]) => Silent(queue[c])
  <2>1. ~lagged[c] /\ queue'[c] = Append(queue[c], e) /\ queue[c] \in Seq(Events)
    BY <1>6, <1>9
  <2>2. /\ e # "beat" => News(Append(queue[c], e)) = {e} /\ ~Silent(Append(queue[c], e))
        /\ e = "beat" => /\ News(Append(queue[c], e)) = News(queue[c])
                         /\ Silent(Append(queue[c], e)) => Silent(queue[c])
    BY <2>1, AppendedNews
  <2> QED
    BY <2>1, <2>2
<1> QED
  BY <1>5, <1>7, <1>8, <1>9

\* A client for which nothing changes still knows what it knew.
LEMMA StillTold ==
    ASSUME NEW c, Told(c), Effective' = Effective, at'[c] = at[c], snap'[c] = snap[c],
           peer'[c] = peer[c], view'[c] = view[c], queue'[c] = queue[c]
    PROVE  Told(c)'
BY DEF Told

LEMMA ConnectionsTyped ==
    ASSUME ClientsInv, [ClientsNext]_allVars PROVE ClientsTyped' /\ Guarded'
<1> USE DEF ClientsInv, ClientsTyped, Guarded
<1>1. Effective \in States /\ "beat" \in Events /\ States \subseteq Events
  BY EffectiveIsState DEF Events
<1>2. CASE UNCHANGED allVars
  BY <1>2 DEF allVars, connVars, pauseVars, leaseVars, vars
<1>3. ASSUME NEW c \in Clients, Accept(c) PROVE ClientsTyped' /\ Guarded'
  <2>1. <<>> \in Seq(Events) /\ Len(<<>>) <= Capacity
    BY ClientsAssumption
  <2> QED
    BY <1>3, <2>1, ClientsAssumption DEF Accept, Connect, Go, TypeOK
<1>4. ASSUME NEW c \in Clients, Lift(c) PROVE ClientsTyped' /\ Guarded'
  BY <1>4 DEF Lift, Go, leaseVars, vars
<1>5. ASSUME NEW c \in Clients, Tell(c) PROVE ClientsTyped' /\ Guarded'
  <2>1. /\ at[c] = "tell" /\ at' = [at EXCEPT ![c] = "subscribe"] /\ telling' = FALSE
        /\ Broadcast(Effective)
        /\ UNCHANGED <<snap, peer, view, muted, manual, changes, accepts, guard>>
    BY <1>5 DEF Tell, Go, leaseVars, vars
  <2>2. \A d \in Clients \ Subscribed : queue'[d] = queue[d]
    BY <1>1, <2>1, Sent
  <2> QED
    BY <1>1, <2>1, <2>2, Sent DEF Subscribed
<1>6. ASSUME NEW c \in Clients, Subscribe(c) PROVE ClientsTyped' /\ Guarded'
  BY <1>1, <1>6 DEF Subscribe, Go, leaseVars, vars, pauseVars
<1>7. ASSUME NEW c \in Clients, WriteInitial(c) PROVE ClientsTyped' /\ Guarded'
  BY ZenonT(30), <1>7 DEF WriteInitial, SpawnReader, Go, leaseVars, vars, pauseVars
<1>8. ASSUME NEW c \in Clients, Relay(c) PROVE ClientsTyped' /\ Guarded'
  <2>1. /\ at[c] = "serve" /\ queue[c] # <<>> /\ queue' = [queue EXCEPT ![c] = Tail(@)]
        /\ UNCHANGED <<snap, peer, lagged, pauseVars, guard>>
        /\ view' \in {view, [view EXCEPT ![c] = Head(queue[c])]}
        /\ view' = view \/ Head(queue[c]) # "beat"
        /\ at' \in {at, [at EXCEPT ![c] = "over"]}
    BY <1>8 DEF Relay, Go, leaseVars, vars
  <2>2. /\ Tail(queue[c]) \in Seq(Events) /\ Len(Tail(queue[c])) = Len(queue[c]) - 1
        /\ Head(queue[c]) \in Events /\ Len(queue[c]) \in Nat
    BY <2>1, TakenNews
  <2>3. Len(Tail(queue[c])) <= Capacity
    BY <2>2, ClientsAssumption
  <2> QED
    BY ZenonT(30), <2>1, <2>2, <2>3 DEF Events, pauseVars
<1>9. ASSUME NEW c \in Clients, Returns(c) \/ Uncounts(c) \/ Forget(c)
      PROVE  ClientsTyped' /\ Guarded'
  <2>1. <<>> \in Seq(Events) /\ Len(<<>>) <= Capacity
    BY ClientsAssumption
  <2>2. CASE Returns(c)
    BY <2>1, <2>2 DEF Returns, GuardReleases, pauseVars, TypeOK
  <2>3. CASE Uncounts(c)
    <3>1. /\ at[c] = "over" /\ at' = [at EXCEPT ![c] = "closed"]
          /\ \A d \in Clients \ {c} : guard'[d] = guard[d]
          /\ UNCHANGED <<snap, peer, view, queue, lagged, pauseVars>>
      BY <2>3 DEF Uncounts, Go, GuardUncounts, leaseVars, vars, TypeOK
    <3> QED
      BY <3>1 DEF pauseVars
  <2>4. CASE Forget(c)
    BY <2>4 DEF Forget, Go, leaseVars, vars, pauseVars
  <2> QED
    BY <1>9, <2>2, <2>3, <2>4
<1>10. ASSUME NEW c \in Clients, Reads(c) PROVE ClientsTyped' /\ Guarded'
  BY <1>10
  DEF Reads, AcquireSwap, AcquireCount, ReaderReleases, ReaderUncounts, connVars, pauseVars
<1>11. ASSUME NEW c \in Clients, Leaves(c) \/ Hangs(c) PROVE ClientsTyped' /\ Guarded'
  BY <1>11 DEF Leaves, Hangs, Moves, leaseVars, vars, pauseVars
<1>12. CASE Mute \/ Change
  <2>1. CASE Mute
    BY <2>1 DEF Mute, leaseVars, vars, connVars
  <2>2. CASE Change
    <3>1. changes' \in 0..MaxChanges
      BY <2>2, ClientsAssumption DEF Change
    <3> QED
      BY <2>2, <3>1 DEF Change, leaseVars, vars, connVars
  <2> QED
    BY <1>12, <2>1, <2>2
<1>13. CASE Announce \/ Heartbeat
  <2>1. /\ \E e \in Events : Broadcast(e)
        /\ telling' \in BOOLEAN
        /\ UNCHANGED <<at, snap, peer, view, muted, manual, changes, accepts, guard>>
    BY <1>1, <1>13 DEF Announce, Heartbeat, leaseVars, vars, pauseVars
  <2> QED
    BY <2>1, Sent DEF Subscribed
<1> QED
  BY <1>2, <1>3, <1>4, <1>5, <1>6, <1>7, <1>8, <1>9, <1>10, <1>11, <1>12, <1>13
  DEF ClientsNext, Handler

LEMMA ConnectionsTold ==
    ASSUME ClientsInv, [ClientsNext]_allVars PROVE AllTold'
<1>1. /\ ClientsTyped /\ Guarded /\ AllTold /\ Effective \in States /\ "beat" \in Events
      /\ States \subseteq Events /\ Subscribed \subseteq Clients /\ "beat" \notin States
  BY EffectiveIsState DEF ClientsInv, Events, States, Subscribed
<1>2. ASSUME UNCHANGED <<at, snap, peer, view, queue, lagged>>, Effective' = Effective,
             telling => telling'
      PROVE  AllTold'
  BY <1>1, <1>2, StillTold DEF AllTold, Subscribed
<1>3. ASSUME NEW c \in Clients, c \notin Subscribed', Effective' = Effective \/ telling',
             telling => telling',
             \A d \in Clients \ {c} :
                /\ at'[d] = at[d] /\ snap'[d] = snap[d] /\ peer'[d] = peer[d]
                /\ view'[d] = view[d] /\ queue'[d] = queue[d] /\ lagged'[d] = lagged[d]
      PROVE  AllTold'
  <2>1. ASSUME NEW d \in Subscribed', ~lagged'[d], ~telling' PROVE Told(d)'
    <3>1. d \in Clients \ {c} /\ d \in Subscribed
      BY <1>3, <2>1 DEF Subscribed
    <3> QED
      BY <1>1, <1>3, <2>1, <3>1, StillTold DEF AllTold
  <2> QED
    BY <2>1 DEF AllTold
<1>4. ASSUME NEW e \in Events, Broadcast(e), UNCHANGED <<snap, peer, view>>,
             Effective' = Effective, Subscribed' = Subscribed,
             \A d \in Subscribed : at'[d] = at[d],
             e = Effective \/ (e = "beat" /\ telling' = telling)
      PROVE  AllTold'
  <2>1. ASSUME NEW d \in Subscribed, ~lagged'[d], ~telling' PROVE Told(d)'
    <3>1. /\ ~lagged[d]
          /\ e # "beat" => News(queue'[d]) = {e} /\ ~Silent(queue'[d])
          /\ e = "beat" => /\ News(queue'[d]) = News(queue[d])
                           /\ Silent(queue'[d]) => Silent(queue[d])
      BY <1>1, <1>4, <2>1, Sent
    <3>2. CASE e = Effective
      BY <1>1, <1>4, <3>1, <3>2 DEF Told
    <3>3. CASE e = "beat" /\ telling' = telling
      BY <1>1, <1>4, <2>1, <3>1, <3>3 DEF Told, AllTold
    <3> QED
      BY <1>4, <3>2, <3>3
  <2> QED
    BY <1>4, <2>1 DEF AllTold
<1>5. CASE UNCHANGED allVars
  BY <1>2, <1>5 DEF allVars, connVars, pauseVars, Effective
<1>6. ASSUME NEW c \in Clients, Accept(c) PROVE AllTold'
  BY <1>1, <1>3, <1>6 DEF Accept, Go, ClientsTyped, Subscribed, Effective
<1>7. ASSUME NEW c \in Clients, Lift(c) PROVE AllTold'
  BY <1>1, <1>3, <1>7 DEF Lift, Go, ClientsTyped, Subscribed, Effective
<1>8. ASSUME NEW c \in Clients, Tell(c) PROVE AllTold'
  <2>1. /\ Broadcast(Effective) /\ UNCHANGED <<snap, peer, view>> /\ Effective' = Effective
        /\ at[c] = "tell" /\ at' = [at EXCEPT ![c] = "subscribe"]
    BY <1>8 DEF Tell, Go, Effective
  <2>2. Subscribed' = Subscribed /\ \A d \in Subscribed : at'[d] = at[d]
    BY <1>1, <2>1 DEF Subscribed, ClientsTyped
  <2> QED
    BY <1>1, <1>4, <2>1, <2>2
<1>9. ASSUME NEW c \in Clients, Subscribe(c) PROVE AllTold'
  <2>1. ASSUME NEW d \in Subscribed', ~lagged'[d], ~telling' PROVE Told(d)'
    <3>1. CASE d # c
      BY <1>1, <1>9, <2>1, <3>1, StillTold
      DEF Subscribe, Go, ClientsTyped, Subscribed, AllTold, Effective, pauseVars
    <3>2. CASE d = c /\ at[c] = "subscribe"
      BY <1>1, <1>9, <3>2, NoNews DEF Subscribe, Go, ClientsTyped, Guarded, Told
    <3>3. CASE d = c /\ at[c] = "snapshot"
      <4>1. /\ snap'[c] = Effective /\ Effective' = Effective /\ at'[c] = "write"
            /\ UNCHANGED <<queue, lagged, telling>>
        BY <1>1, <1>9, <3>3 DEF Subscribe, Go, ClientsTyped, Effective, pauseVars
      <4>2. Told(c)
        BY <1>1, <2>1, <3>3, <4>1 DEF AllTold, Subscribed
      <4> QED
        BY <3>3, <4>1, <4>2 DEF Told
    <3> QED
      BY <1>9, <3>1, <3>2, <3>3 DEF Subscribe
  <2> QED
    BY <2>1 DEF AllTold
<1>10. ASSUME NEW c \in Clients, WriteInitial(c) PROVE AllTold'
  <2>1. /\ at[c] = "write" /\ UNCHANGED <<peer, queue, lagged, telling, muted, manual>>
        /\ snap' = [snap EXCEPT ![c] = "none"]
        /\ \/ /\ at' = [at EXCEPT ![c] = "serve"]
              /\ view' = IF peer[c] = "alive" THEN [view EXCEPT ![c] = snap[c]] ELSE view
           \/ at' = [at EXCEPT ![c] = "over"] /\ view' = view
    BY <1>10 DEF WriteInitial, Go, pauseVars
  <2>2. Effective' = Effective
    BY <2>1 DEF Effective
  <2>3. ASSUME NEW d \in Subscribed', ~lagged'[d], ~telling' PROVE Told(d)'
    <3>1. d \in Subscribed /\ Told(d)
      BY <1>1, <2>1, <2>3 DEF Subscribed, AllTold, ClientsTyped
    <3>2. CASE d # c
      BY <1>1, <2>1, <2>2, <3>1, <3>2, StillTold DEF ClientsTyped
    <3>3. CASE d = c
      <4>1. at'[c] = "serve" /\ (peer[c] = "alive" => view'[c] = snap[c])
        BY <1>1, <2>1, <2>3, <3>3 DEF Subscribed, ClientsTyped
      <4> QED
        BY <2>1, <2>2, <3>1, <3>3, <4>1 DEF Told
    <3> QED
      BY <3>2, <3>3
  <2> QED
    BY <2>3 DEF AllTold
<1>11. ASSUME NEW c \in Clients, Relay(c) PROVE AllTold'
  <2>1. /\ at[c] = "serve" /\ queue[c] # <<>> /\ queue' = [queue EXCEPT ![c] = Tail(@)]
        /\ UNCHANGED <<snap, peer, lagged, telling, muted, manual>>
        /\ \/ /\ view' = IF Head(queue[c]) = "beat" THEN view
                         ELSE [view EXCEPT ![c] = Head(queue[c])]
              /\ at' = at
           \/ at' = [at EXCEPT ![c] = "over"] /\ view' = view
    BY <1>11 DEF Relay, Go, pauseVars
  <2>2. Effective' = Effective
    BY <2>1 DEF Effective
  <2>3. ASSUME NEW d \in Subscribed', ~lagged'[d], ~telling' PROVE Told(d)'
    <3>1. d \in Subscribed /\ Told(d)
      BY <1>1, <2>1, <2>3 DEF Subscribed, AllTold, ClientsTyped
    <3>2. CASE d # c
      BY <1>1, <2>1, <2>2, <3>1, <3>2, StillTold DEF ClientsTyped
    <3>3. CASE d = c
      <4>1. /\ at'[c] = "serve" /\ queue'[c] = Tail(queue[c]) /\ queue[c] \in Seq(Events)
            /\ view'[c] = IF Head(queue[c]) = "beat" THEN view[c] ELSE Head(queue[c])
        BY <1>1, <2>1, <2>3, <3>3 DEF Subscribed, ClientsTyped
      <4>2. /\ News(queue'[c]) \subseteq News(queue[c])
            /\ Silent(queue'[c]) /\ Head(queue[c]) = "beat" => Silent(queue[c])
            /\ Silent(queue'[c]) /\ Head(queue[c]) # "beat" => Head(queue[c]) \in News(queue[c])
        BY <2>1, <4>1, TakenNews
      <4> QED
        BY <2>1, <2>2, <3>1, <3>3, <4>1, <4>2 DEF Told
    <3> QED
      BY <3>2, <3>3
  <2> QED
    BY <2>3 DEF AllTold
<1>12. ASSUME NEW c \in Clients, Returns(c) \/ Uncounts(c) \/ Forget(c) PROVE AllTold'
  <2>1. /\ Effective' = Effective /\ telling' = telling
        /\ at[c] \in {"over", "closed"} /\ at'[c] \in {"over", "closed", "idle"}
        /\ \A d \in Clients \ {c} :
              /\ at'[d] = at[d] /\ snap'[d] = snap[d] /\ peer'[d] = peer[d]
              /\ view'[d] = view[d] /\ queue'[d] = queue[d] /\ lagged'[d] = lagged[d]
    <3>1. CASE Returns(c)
      BY <1>1, <3>1 DEF Returns, ClientsTyped, Effective, pauseVars
    <3>2. CASE Uncounts(c)
      BY <1>1, <3>2 DEF Uncounts, Go, ClientsTyped, Effective, pauseVars
    <3>3. CASE Forget(c)
      BY <1>1, <3>3 DEF Forget, Go, ClientsTyped, Effective, pauseVars
    <3> QED
      BY <1>12, <3>1, <3>2, <3>3
  <2>2. c \notin Subscribed'
    BY <2>1 DEF Subscribed
  <2> QED
    BY <1>3, <2>1, <2>2
<1>13. ASSUME NEW c \in Clients, Reads(c) PROVE AllTold'
  BY <1>2, <1>13 DEF Reads, connVars, pauseVars, Effective
<1>14. ASSUME NEW c \in Clients, Leaves(c) \/ Hangs(c) PROVE AllTold'
  <2>1. /\ peer'[c] # "alive" /\ UNCHANGED <<at, snap, queue, lagged, telling, muted, manual>>
        /\ \A d \in Clients \ {c} : peer'[d] = peer[d] /\ view'[d] = view[d]
    BY <1>1, <1>14 DEF Leaves, Hangs, Moves, ClientsTyped, pauseVars
  <2>2. Effective' = Effective
    BY <2>1 DEF Effective
  <2>3. ASSUME NEW d \in Subscribed', ~lagged'[d], ~telling' PROVE Told(d)'
    <3>1. Told(d) /\ d \in Clients
      BY <1>1, <2>1, <2>3 DEF Subscribed, AllTold
    <3> QED
      BY <2>1, <2>2, <3>1 DEF Told
  <2> QED
    BY <2>3 DEF AllTold
<1>15. CASE Mute
  <2>1. \A c \in Clients : guard[c] = "off" /\ at'[c] = at[c]
    BY <1>15 DEF Mute, connVars
  <2>2. Subscribed' = {}
    BY <1>1, <2>1 DEF Subscribed, Guarded
  <2> QED
    BY <2>2 DEF AllTold
<1>16. CASE Change
  <2>1. UNCHANGED <<at, snap, peer, view, queue, lagged, muted>> /\ ~telling /\ telling' = ~muted
    BY <1>16 DEF Change, connVars
  <2>2. CASE muted
    <3>1. Effective' = Effective
      BY <2>1, <2>2 DEF Effective
    <3> QED
      BY <1>2, <2>1, <3>1
  <2>3. CASE ~muted
    BY <2>1, <2>3 DEF AllTold
  <2> QED
    BY <2>2, <2>3
<1>17. CASE Announce \/ Heartbeat
  <2>1. /\ UNCHANGED <<at, snap, peer, view>> /\ Effective' = Effective
        /\ Broadcast(Effective) \/ (Broadcast("beat") /\ telling' = telling)
    BY <1>17 DEF Announce, Heartbeat, Effective, pauseVars
  <2>2. Subscribed' = Subscribed /\ \A d \in Subscribed : at'[d] = at[d]
    BY <2>1 DEF Subscribed
  <2> QED
    BY <1>1, <1>4, <2>1, <2>2
<1> QED
  BY <1>5, <1>6, <1>7, <1>8, <1>9, <1>10, <1>11, <1>12, <1>13, <1>14, <1>15, <1>16, <1>17
  DEF ClientsNext, Handler

LEMMA ConnectionsInvariant == ClientsSpec => []ClientsInv
<1>1. ClientsInit => ClientsInv
  <2> SUFFICES ASSUME ClientsInit PROVE ClientsInv
    OBVIOUS
  <2>1. TypeOK
    BY LeasesInit DEF ClientsInit, LeaseInv
  <2>2. ClientsTyped
    <3>1. <<>> \in Seq(Events) /\ Len(<<>>) <= Capacity
      BY ClientsAssumption
    <3>2. queue \in [Clients -> Seq(Events)] /\ \A c \in Clients : Len(queue[c]) <= Capacity
      BY <3>1 DEF ClientsInit
    <3> QED
      <4>1. /\ at \in [Clients -> {"idle"}] /\ snap \in [Clients -> {"none"}]
            /\ view \in [Clients -> {"none"}] /\ peer \in [Clients -> {"none"}]
            /\ lagged \in [Clients -> BOOLEAN]
        BY DEF ClientsInit
      <4>2. /\ muted \in BOOLEAN /\ manual \in BOOLEAN /\ telling \in BOOLEAN
        BY DEF ClientsInit
      <4>3. changes \in 0..MaxChanges /\ accepts \in 0..MaxConnections
        BY ClientsAssumption DEF ClientsInit
      <4> QED
        BY <3>2, <4>1, <4>2, <4>3 DEF ClientsTyped
  <2>3. Guarded /\ AllTold
    BY DEF ClientsInit, Guarded, AllTold, Subscribed
  <2> QED
    BY <2>1, <2>2, <2>3 DEF ClientsInv
<1>2. ClientsInv /\ [ClientsNext]_allVars /\ TypeOK' => ClientsInv'
  BY ConnectionsTyped, ConnectionsTold DEF ClientsInv
<1> QED
  BY <1>1, <1>2, ClientsStepLeases, LeasesTypeCorrect, PTL DEF ClientsSpec

\* The variables of a connection hold what their declarations say, and no queue is
\* longer than the channel.
THEOREM ClientsTypeCorrect == ClientsSpec => [](TypeOK /\ ClientsTyped)
<1>1. ClientsInv => TypeOK /\ ClientsTyped
  BY DEF ClientsInv
<1> QED
  BY <1>1, ConnectionsInvariant, PTL

\* A client that has read all it was sent and missed nothing shows the pause state
\* the daemon is in, wherever changes fell around its subscription and its snapshot.
THEOREM CaughtUpShowsState == ClientsSpec => []CaughtUpIsRight
<1>1. ClientsInv => CaughtUpIsRight
  <2> SUFFICES ASSUME ClientsInv, NEW c \in Clients, at[c] = "serve", peer[c] = "alive",
                      queue[c] = <<>>, ~lagged[c], ~telling, view[c] # "none"
               PROVE  view[c] = Effective
    BY DEF CaughtUpIsRight
  <2> QED
    BY NoNews DEF ClientsInv, AllTold, Subscribed, Told
<1> QED
  BY <1>1, ConnectionsInvariant, PTL

=============================================================================
