--------------------------- MODULE MCPastingProofs ---------------------------
(* Theorems about PasteDelivery and AutoEnterCountdown, for any number of     *)
(* utterances, threads, pastes and cancellers and any length of the queue,    *)
(* the ring and the countdown.                                                *)
EXTENDS MCPasting, SequenceTheorems, TLAPS

-----------------------------------------------------------------------------
(* The inductive invariant of the countdown.                                  *)

\* The task of the last paste is started by the last step of its schedule.
Unstarted ==
    \A i \in Countdown!Tasks :
        i > pastes \/ (pasting # "no" /\ i = pastes) => task[i] = "none"

TicksLeft == \A i \in Countdown!Tasks : task[i] = "counting" => remaining[i] > 0

\* A cancel that is set is meant for whoever may take it.
CancelIsMeant == cancel => Countdown!Listening \subseteq meant

\* The task a key press found alone stays alone, under a set cancel, until it stops.
DoomedIsAlone ==
    /\ pasting = "spawn" => doomed = {}
    /\ \A i \in doomed : task[i] = "counting" => cancel /\ Countdown!Counting = {i}

CountdownInv ==
    /\ Countdown!TypeOK /\ Unstarted /\ TicksLeft /\ CancelIsMeant /\ DoomedIsAlone
    /\ Countdown!NoStaleCancel /\ Countdown!KeyStopsCountdown
    /\ Countdown!ReturnClosesMergeWindow

-----------------------------------------------------------------------------
(* The inductive invariant of the delivery.                                   *)

\* A thread that still has to decide what becomes of its text; one with the paste lock.
Carrying == {"route", "park", "begin", "locked", "copied"}
Locked   == {"locked", "copied", "settling", "closing"}

\* Every number names an utterance that was spoken.
Spoken ==
    /\ ToSet(held) \cup barred \subseteq 1..said
    /\ \A t \in Threads : pc[t] # "idle" => doing[t] \in 1..said
    /\ hotkey.text = 0 <=> hotkey.at = "idle"

\* What anybody may have typed but the deliveries: all of it was withheld.
Withheld == (ToSet(ring) \cup {slot, hotkey.text}) \ {0} \subseteq barred

\* A text is in one place until it is withheld: held, or carried by one thread.
Unasked(t) == t \notin asked /\ pc[t] \in Carrying
OnePlace ==
    /\ \A i, j \in DOMAIN held : held[i] = held[j] => i = j
    /\ ToSet(held) \cap barred = {}
    /\ \A t \in Threads : Unasked(t) => doing[t] \notin barred \cup ToSet(held)
    /\ \A t, s \in Threads : Unasked(t) /\ Unasked(s) /\ doing[t] = doing[s] => t = s
    /\ \A t \in asked : pc[t] \in Carrying => doing[t] \in barred

\* The paste lock, and the clipboard under it.
OneInFlight ==
    /\ \A t, s \in Threads : pc[t] \in Locked /\ pc[s] \in Locked => t = s
    /\ \A t \in Threads : pc[t] \in Locked => inFlight
    /\ \A t \in Threads : pc[t] = "copied" /\ clip.by = "paste" => clip.text = doing[t]

\* An open text is somewhere, and not only with a thread that is done with it.
Placed(u) ==
    \/ u \in ToSet(held) \cup ToSet(ring) \cup {slot, hotkey.text}
    \/ \E t \in Threads : pc[t] \in Carrying /\ doing[t] = u
AllPlaced == \A u \in 1..said : fate[u] = "open" => Placed(u)

DeliveryInv ==
    TypeOK /\ Spoken /\ Withheld /\ OnePlace /\ OneInFlight /\ AllPlaced

IInv == CountdownInv /\ DeliveryInv

-----------------------------------------------------------------------------
(* The countdown.                                                             *)

LEMMA CountdownInit == ASSUME Countdown!Init PROVE CountdownInv
<1> USE PastingAssumption DEF Countdown!Init
<1>1. Countdown!TypeOK
  <2>1. 0 \in 0..MaxPastes /\ 0 \in 0..Delay
    OBVIOUS
  <2>2. /\ task \in [Countdown!Tasks -> {"none"}] /\ remaining \in [Countdown!Tasks -> {0}]
        /\ hand \in [Countdown!Cancellers -> {"idle"}]
    OBVIOUS
  <2> QED
    BY <2>1, <2>2 DEF Countdown!TypeOK
<1>2. Unstarted /\ TicksLeft /\ Countdown!NoStaleCancel
  BY DEF Unstarted, TicksLeft, Countdown!NoStaleCancel
<1>3. CancelIsMeant /\ DoomedIsAlone /\ Countdown!KeyStopsCountdown
      /\ Countdown!ReturnClosesMergeWindow
  BY DEF CancelIsMeant, DoomedIsAlone, Countdown!KeyStopsCountdown,
     Countdown!ReturnClosesMergeWindow
<1> QED
  BY <1>1, <1>2, <1>3 DEF CountdownInv

\* A paste and the steps of its schedule.
LEMMA DeliverCounts == ASSUME CountdownInv, Countdown!Deliver PROVE CountdownInv'
<1> USE PastingAssumption
    DEF CountdownInv, Countdown!TypeOK, Unstarted, TicksLeft, CancelIsMeant,
    DoomedIsAlone, Countdown!NoStaleCancel, Countdown!KeyStopsCountdown, Countdown!Counting,
    Countdown!Listening, Countdown!ReturnClosesMergeWindow, Countdown!Tasks
<1>1. ASSUME NEW merge \in BOOLEAN, Countdown!Paste(merge) PROVE CountdownInv'
  <2>2. Countdown!TypeOK' /\ TicksLeft'
    <3>1. Countdown!Listening \subseteq Countdown!Tasks
      OBVIOUS
    <3>2. pastes' \in 0..MaxPastes /\ pastes' > 0 /\ cancel' \in BOOLEAN
      BY <1>1 DEF Countdown!Paste
    <3>3. meant' \subseteq Countdown!Tasks
      BY <1>1, <3>1 DEF Countdown!Paste
    <3> QED
      BY <1>1, <3>2, <3>3 DEF Countdown!Paste
  <2>3. Unstarted' /\ Countdown!ReturnClosesMergeWindow'
    BY <1>1 DEF Countdown!Paste
  <2>4. CancelIsMeant' /\ Countdown!NoStaleCancel'
    BY <1>1 DEF Countdown!Paste
  <2>5. DoomedIsAlone' /\ Countdown!KeyStopsCountdown'
    BY <1>1 DEF Countdown!Paste
  <2> QED
    BY <2>2, <2>3, <2>4, <2>5
<1>2. CASE Countdown!NoCountdown
  BY <1>2 DEF Countdown!NoCountdown
<1>3. CASE Countdown!ScheduleSupersede
  BY <1>3 DEF Countdown!ScheduleSupersede
<1>4. CASE Countdown!ScheduleArm
  BY <1>4 DEF Countdown!ScheduleArm
<1>5. CASE Countdown!ScheduleClear
  BY <1>5 DEF Countdown!ScheduleClear
<1>6. CASE Countdown!ScheduleSpawn
  BY <1>6 DEF Countdown!ScheduleSpawn
<1> QED
  BY <1>1, <1>2, <1>3, <1>4, <1>5, <1>6 DEF Countdown!Deliver, Countdown!Schedule

\* A task.
LEMMA TaskCounts ==
    ASSUME CountdownInv, NEW i \in Countdown!Tasks, Countdown!TaskStep(i)
    PROVE  CountdownInv'
<1> USE PastingAssumption
    DEF CountdownInv, Countdown!TypeOK, Unstarted, TicksLeft, CancelIsMeant,
    DoomedIsAlone, Countdown!NoStaleCancel, Countdown!KeyStopsCountdown, Countdown!Counting,
    Countdown!Listening, Countdown!ReturnClosesMergeWindow, Countdown!Tasks
<1>1. CASE Countdown!TakeCancel(i)
  <2>2. Countdown!TypeOK' /\ TicksLeft'
    BY <1>1 DEF Countdown!TakeCancel
  <2>3. Unstarted' /\ Countdown!ReturnClosesMergeWindow'
    BY <1>1 DEF Countdown!TakeCancel
  <2>4. CancelIsMeant' /\ Countdown!NoStaleCancel'
    BY <1>1 DEF Countdown!TakeCancel
  <2>5. DoomedIsAlone' /\ Countdown!KeyStopsCountdown'
    <3>1. task' = [task EXCEPT ![i] = "stopping"] /\ task[i] = "counting"
          /\ UNCHANGED <<doomed, pasting>>
      BY <1>1 DEF Countdown!TakeCancel
    <3>2. ASSUME NEW j \in doomed, task'[j] = "counting" PROVE FALSE
      <4>1. j # i /\ task[j] = "counting" /\ i \in Countdown!Counting
        BY <3>1, <3>2
      <4>2. DoomedIsAlone
        OBVIOUS
      <4> HIDE DEF CountdownInv, Countdown!TypeOK, Unstarted, TicksLeft, CancelIsMeant,
               Countdown!NoStaleCancel, Countdown!KeyStopsCountdown, Countdown!Counting,
               Countdown!Listening, Countdown!ReturnClosesMergeWindow, Countdown!Tasks
      <4> QED
        BY <3>2, <4>1, <4>2
    <3> QED
      BY <3>1, <3>2
  <2> QED
    BY <2>2, <2>3, <2>4, <2>5
<1>2. CASE Countdown!Tick(i)
  BY <1>2 DEF Countdown!Tick
<1>3. CASE Countdown!PressReturn(i)
  <2>2. Countdown!TypeOK' /\ TicksLeft'
    BY <1>3 DEF Countdown!PressReturn
  <2>3. Unstarted' /\ Countdown!ReturnClosesMergeWindow'
    BY <1>3 DEF Countdown!PressReturn
  <2>4. CancelIsMeant' /\ Countdown!NoStaleCancel'
    BY <1>3 DEF Countdown!PressReturn
  <2>5. DoomedIsAlone' /\ Countdown!KeyStopsCountdown'
    BY <1>3 DEF Countdown!PressReturn
  <2> QED
    BY <2>2, <2>3, <2>4, <2>5
<1>4. CASE Countdown!EndMergeWindow(i)
  <2>2. Countdown!TypeOK' /\ TicksLeft'
    BY <1>4 DEF Countdown!EndMergeWindow
  <2>3. Unstarted' /\ Countdown!ReturnClosesMergeWindow'
    BY <1>4 DEF Countdown!EndMergeWindow
  <2>4. CancelIsMeant' /\ Countdown!NoStaleCancel'
    BY <1>4 DEF Countdown!EndMergeWindow
  <2>5. DoomedIsAlone' /\ Countdown!KeyStopsCountdown'
    BY <1>4 DEF Countdown!EndMergeWindow
  <2> QED
    BY <2>2, <2>3, <2>4, <2>5
<1>5. CASE Countdown!EndCountdown(i)
  <2>2. Countdown!TypeOK' /\ TicksLeft'
    BY <1>5 DEF Countdown!EndCountdown
  <2>3. Unstarted' /\ Countdown!ReturnClosesMergeWindow'
    BY <1>5 DEF Countdown!EndCountdown
  <2>4. CancelIsMeant' /\ Countdown!NoStaleCancel'
    BY <1>5 DEF Countdown!EndCountdown
  <2>5. DoomedIsAlone' /\ Countdown!KeyStopsCountdown'
    BY <1>5 DEF Countdown!EndCountdown
  <2> QED
    BY <2>2, <2>3, <2>4, <2>5
<1> QED
  BY <1>1, <1>2, <1>3, <1>4, <1>5 DEF Countdown!TaskStep

\* A key press, a click or the user's voice.
LEMMA CancelCounts ==
    ASSUME CountdownInv, NEW c \in Countdown!Cancellers, Countdown!CancelStep(c)
    PROVE  CountdownInv'
<1> USE PastingAssumption
    DEF CountdownInv, Countdown!TypeOK, Unstarted, TicksLeft, CancelIsMeant,
    DoomedIsAlone, Countdown!NoStaleCancel, Countdown!KeyStopsCountdown, Countdown!Counting,
    Countdown!Listening, Countdown!ReturnClosesMergeWindow, Countdown!Tasks
<1>1. CASE Countdown!SeeActive(c)
  BY <1>1 DEF Countdown!SeeActive
<1>2. CASE Countdown!RequestCancel(c)
  <2>1. \A i \in doomed' : task[i] = "counting" => Countdown!Counting = {i}
    BY <1>2 DEF Countdown!RequestCancel
  <2>2. Countdown!TypeOK' /\ TicksLeft'
    <3>1. Countdown!Listening \subseteq Countdown!Tasks
      OBVIOUS
    <3>2. hand' \in [Countdown!Cancellers -> {"idle", "ask", "drop"}]
      BY <1>2 DEF Countdown!RequestCancel
    <3> QED
      BY <1>2, <3>1, <3>2 DEF Countdown!RequestCancel
  <2>3. Unstarted' /\ Countdown!ReturnClosesMergeWindow'
    BY <1>2, <2>1 DEF Countdown!RequestCancel
  <2>4. CancelIsMeant' /\ Countdown!NoStaleCancel'
    BY <1>2, <2>1 DEF Countdown!RequestCancel
  <2>5. DoomedIsAlone' /\ Countdown!KeyStopsCountdown'
    BY <1>2, <2>1 DEF Countdown!RequestCancel
  <2> QED
    BY <2>2, <2>3, <2>4, <2>5
<1>3. CASE Countdown!DropBuffer(c)
  BY <1>3 DEF Countdown!DropBuffer
<1> QED
  BY <1>1, <1>2, <1>3 DEF Countdown!CancelStep

LEMMA CountdownStays == ASSUME CountdownInv, UNCHANGED countdown PROVE CountdownInv'
BY DEF countdown, CountdownInv, Countdown!TypeOK, Unstarted, TicksLeft, CancelIsMeant,
    DoomedIsAlone, Countdown!NoStaleCancel, Countdown!KeyStopsCountdown, Countdown!Counting,
    Countdown!Listening, Countdown!ReturnClosesMergeWindow, Countdown!Tasks

-----------------------------------------------------------------------------
(* The queue, the ring and the fates.                                         *)

LEMMA LoopIsNoPaster == "loop" \notin Pasters /\ MaxUtterances \in Nat /\ RingMax \in Nat \ {0}
BY PastingAssumption

\* Taking one entry away leaves the others, and takes the text when it was there once.
Once(q) == \A i, j \in DOMAIN q : q[i] = q[j] => i = j

LEMMA Elements ==
    ASSUME NEW S, NEW q \in Seq(S)
    PROVE  DOMAIN q = 1..Len(q) /\ ToSet(q) = {q[i] : i \in 1..Len(q)} /\ ToSet(q) \subseteq S
BY DEF ToSet

LEMMA WithoutOne ==
    ASSUME NEW S, NEW q \in Seq(S), NEW u, NEW r \in Without(q, u)
    PROVE  /\ r \in Seq(S) /\ Len(r) = Len(q) - 1 /\ u \in ToSet(q)
           /\ ToSet(r) \subseteq ToSet(q) /\ ToSet(q) \subseteq ToSet(r) \cup {u}
           /\ Once(q) => Once(r) /\ u \notin ToSet(r)
<1>1. PICK i \in 1..Len(q) : q[i] = u /\ r = RemoveAt(q, i)
  BY DEF Without
<1> DEFINE a == SubSeq(q, 1, i - 1)
           b == SubSeq(q, i + 1, Len(q))
<1>2. a \in Seq(S) /\ Len(a) = i - 1 /\ \A k \in 1..Len(a) : a[k] = q[k]
  BY SubSeqProperties
<1>3. b \in Seq(S) /\ Len(b) = Len(q) - i /\ \A k \in 1..Len(b) : b[k] = q[k + i]
  BY SubSeqProperties
<1>8. r = a \o b
  BY <1>1 DEF RemoveAt
<1> HIDE DEF a, b
<1>4. /\ r \in Seq(S) /\ Len(r) = Len(q) - 1
      /\ \A k \in 1..Len(r) : r[k] = IF k < i THEN q[k] ELSE q[k + 1]
  <2>1. /\ a \o b \in Seq(S) /\ Len(a \o b) = Len(a) + Len(b)
        /\ \A k \in 1..(Len(a) + Len(b)) :
              (a \o b)[k] = IF k <= Len(a) THEN a[k] ELSE b[k - Len(a)]
    BY <1>2, <1>3, ConcatProperties
  <2>2. r \in Seq(S) /\ Len(r) = Len(q) - 1
    BY <1>2, <1>3, <1>8, <2>1
  <2>3. \A k \in 1..Len(r) : r[k] = IF k <= Len(a) THEN a[k] ELSE b[k - Len(a)]
    BY <1>2, <1>3, <1>8, <2>1
  <2>4. ASSUME NEW k \in 1..Len(r) PROVE r[k] = IF k < i THEN q[k] ELSE q[k + 1]
    <3>1. CASE k < i
      BY <1>2, <2>3, <3>1
    <3>2. CASE ~(k < i)
      <4>1. k - Len(a) \in 1..Len(b) /\ (k - Len(a)) + i = k + 1 /\ ~(k <= Len(a))
        BY <1>2, <1>3, <2>2, <3>2
      <4>2. r[k] = b[k - Len(a)]
        BY <2>3, <4>1
      <4>3. b[k - Len(a)] = q[(k - Len(a)) + i]
        BY <1>3, <4>1
      <4> QED
        BY <3>2, <4>1, <4>2, <4>3
    <3> QED
      BY <3>1, <3>2
  <2> QED
    BY <2>2, <2>4
<1>5. ToSet(r) \subseteq ToSet(q) /\ u \in ToSet(q)
  BY <1>1, <1>4 DEF ToSet
<1>6. ASSUME NEW k \in 1..Len(q) PROVE q[k] \in ToSet(r) \cup {u}
  <2>1. CASE k < i
    BY <1>4, <2>1 DEF ToSet
  <2>2. CASE k > i
    <3>1. k - 1 \in 1..Len(r) /\ r[k - 1] = q[k]
      BY <1>4, <2>2
    <3> QED
      BY <1>4, <3>1 DEF ToSet
  <2> QED
    BY <1>1, <2>1, <2>2
<1>7. ASSUME Once(q) PROVE Once(r) /\ u \notin ToSet(r)
  <2>1. Once(r)
    <3>1. DOMAIN r = 1..Len(r) /\ DOMAIN q = 1..Len(q)
      BY <1>4, Elements
    <3>2. ASSUME NEW j \in 1..Len(r), NEW k \in 1..Len(r), r[j] = r[k] PROVE j = k
      <4>1. \E l \in 1..Len(q) : r[j] = q[l] /\ l = IF j < i THEN j ELSE j + 1
        BY <1>4
      <4>2. \E l \in 1..Len(q) : r[k] = q[l] /\ l = IF k < i THEN k ELSE k + 1
        BY <1>4
      <4>3. (IF j < i THEN j ELSE j + 1) = (IF k < i THEN k ELSE k + 1)
        BY <1>7, <3>1, <3>2, <4>1, <4>2 DEF Once
      <4> QED
        BY <4>3
    <3> QED
      BY <3>1, <3>2 DEF Once
  <2>2. ASSUME NEW k \in 1..Len(r) PROVE r[k] # u
    BY <1>1, <1>4, <1>7 DEF Once
  <2> QED
    BY <1>4, <2>1, <2>2 DEF ToSet
<1> QED
  BY <1>4, <1>5, <1>6, <1>7, Elements

\* The ends of a sequence.
LEMMA Ends ==
    ASSUME NEW S, NEW q \in Seq(S), NEW x \in S
    PROVE  /\ ToSet(Append(q, x)) = ToSet(q) \cup {x}
           /\ q # <<>> => /\ ToSet(q) = ToSet(Tail(q)) \cup {Head(q)} /\ Head(q) \in S
                          /\ Once(q) => Once(Tail(q)) /\ Head(q) \notin ToSet(Tail(q))
<1>1. ToSet(Append(q, x)) = ToSet(q) \cup {x}
  <2>1. /\ Append(q, x) \in Seq(S) /\ Len(Append(q, x)) = Len(q) + 1
        /\ \A i \in 1..Len(q) : Append(q, x)[i] = q[i]
        /\ Append(q, x)[Len(q) + 1] = x
    BY AppendProperties
  <2>2. /\ ToSet(Append(q, x)) = {Append(q, x)[i] : i \in 1..(Len(q) + 1)}
        /\ ToSet(q) = {q[i] : i \in 1..Len(q)}
    BY <2>1, Elements
  <2> QED
    BY <2>1, <2>2
<1>2. ASSUME q # <<>>
      PROVE  /\ ToSet(q) = ToSet(Tail(q)) \cup {Head(q)} /\ Head(q) \in S
             /\ Once(q) => Once(Tail(q)) /\ Head(q) \notin ToSet(Tail(q))
  <2>1. /\ Tail(q) \in Seq(S) /\ Len(Tail(q)) = Len(q) - 1 /\ Len(q) >= 1
        /\ \A i \in 1..Len(Tail(q)) : Tail(q)[i] = q[i + 1]
        /\ Head(q) = q[1]
    BY <1>2, HeadTailProperties
  <2>2. /\ ToSet(q) = {q[i] : i \in 1..Len(q)} /\ DOMAIN q = 1..Len(q)
        /\ ToSet(Tail(q)) = {Tail(q)[i] : i \in 1..Len(Tail(q))}
        /\ DOMAIN Tail(q) = 1..Len(Tail(q))
    BY <2>1, Elements
  <2>3. ASSUME NEW i \in 2..Len(q) PROVE q[i] \in ToSet(Tail(q))
    <3>1. i - 1 \in 1..Len(Tail(q)) /\ Tail(q)[i - 1] = q[i]
      BY <2>1
    <3> QED
      BY <2>2, <3>1
  <2>4. ToSet(q) = ToSet(Tail(q)) \cup {Head(q)}
    BY <2>1, <2>2, <2>3
  <2>5. ASSUME Once(q) PROVE Once(Tail(q)) /\ Head(q) \notin ToSet(Tail(q))
    BY <2>1, <2>2, <2>5 DEF Once
  <2> QED
    BY <2>1, <2>4, <2>5
<1> QED
  BY <1>1, <1>2

\* A sequence in two.
LEMMA InTwo ==
    ASSUME NEW S, NEW q \in Seq(S), NEW n \in 0..Len(q)
    PROVE  LET a == SubSeq(q, 1, n)
               b == SubSeq(q, n + 1, Len(q))
           IN  /\ a \in Seq(S) /\ Len(a) = n /\ b \in Seq(S) /\ Len(b) = Len(q) - n
               /\ ToSet(q) = ToSet(a) \cup ToSet(b)
               /\ Once(q) => Once(b) /\ ToSet(a) \cap ToSet(b) = {}
<1> DEFINE a == SubSeq(q, 1, n)
           b == SubSeq(q, n + 1, Len(q))
<1>1. a \in Seq(S) /\ Len(a) = n /\ \A k \in 1..n : a[k] = q[k]
  BY SubSeqProperties
<1>2. b \in Seq(S) /\ Len(b) = Len(q) - n /\ \A k \in 1..(Len(q) - n) : b[k] = q[k + n]
  BY SubSeqProperties
<1> HIDE DEF a, b
<1>3. /\ ToSet(a) = {a[k] : k \in 1..n} /\ ToSet(b) = {b[k] : k \in 1..(Len(q) - n)}
      /\ ToSet(q) = {q[k] : k \in 1..Len(q)}
      /\ DOMAIN q = 1..Len(q) /\ DOMAIN b = 1..(Len(q) - n)
  BY <1>1, <1>2, Elements
<1>4. ASSUME NEW k \in 1..Len(q) PROVE q[k] \in ToSet(a) \cup ToSet(b)
  <2>1. CASE k <= n
    BY <1>1, <1>3, <2>1
  <2>2. CASE k > n
    <3>1. k - n \in 1..(Len(q) - n) /\ b[k - n] = q[(k - n) + n] /\ (k - n) + n = k
      BY <1>2, <2>2
    <3> QED
      BY <1>3, <3>1
  <2> QED
    BY <2>1, <2>2
<1>5. ToSet(a) \cup ToSet(b) \subseteq ToSet(q)
  <2>1. ASSUME NEW k \in 1..n PROVE a[k] \in ToSet(q)
    BY <1>1, <1>3
  <2>2. ASSUME NEW k \in 1..(Len(q) - n) PROVE b[k] \in ToSet(q)
    <3>1. k + n \in 1..Len(q) /\ b[k] = q[k + n]
      BY <1>2
    <3> QED
      BY <1>3, <3>1
  <2> QED
    BY <1>3, <2>1, <2>2
<1>6. ASSUME Once(q) PROVE Once(b) /\ ToSet(a) \cap ToSet(b) = {}
  <2>1. Once(b)
    <3>1. ASSUME NEW j \in 1..(Len(q) - n), NEW k \in 1..(Len(q) - n), b[j] = b[k] PROVE j = k
      <4>1. j + n \in 1..Len(q) /\ k + n \in 1..Len(q) /\ q[j + n] = q[k + n]
        BY <1>2, <3>1
      <4>2. j + n = k + n
        BY <1>3, <1>6, <4>1 DEF Once
      <4> QED
        BY <4>2
    <3> QED
      BY <1>3, <3>1 DEF Once
  <2>2. ASSUME NEW j \in 1..n, NEW k \in 1..(Len(q) - n) PROVE a[j] # b[k]
    <3>1. j \in 1..Len(q) /\ k + n \in 1..Len(q) /\ a[j] = q[j] /\ b[k] = q[k + n] /\ j # k + n
      BY <1>1, <1>2
    <3> QED
      BY <1>3, <1>6, <3>1 DEF Once
  <2> QED
    BY <1>3, <2>1, <2>2
<1>7. ToSet(q) = ToSet(a) \cup ToSet(b)
  BY <1>3, <1>4, <1>5
<1> QED
  BY <1>1, <1>2, <1>6, <1>7 DEF a, b

\* The ring keeps its newest entries: what is pushed is in it.
LEMMA Pushed ==
    ASSUME ring \in Seq(Utterances), NEW q \in Seq(Utterances), Len(q) <= RingMax
    PROVE  /\ PushAll(q) \in Seq(Utterances) /\ Len(PushAll(q)) <= RingMax
           /\ ToSet(PushAll(q)) \subseteq ToSet(ring) \cup ToSet(q)
           /\ ToSet(q) \subseteq ToSet(PushAll(q))
<1> DEFINE all == ring \o q
           n   == IF Len(all) > RingMax THEN Len(all) - RingMax + 1 ELSE 1
           p   == SubSeq(all, n, Len(all))
<1>1. /\ all \in Seq(Utterances) /\ Len(all) = Len(ring) + Len(q)
      /\ \A k \in 1..Len(all) :
            all[k] = IF k <= Len(ring) THEN ring[k] ELSE q[k - Len(ring)]
  BY ConcatProperties
<1> HIDE DEF all
<1>2. n \in 1..(Len(ring) + 1) /\ n \in Nat
  BY <1>1, LoopIsNoPaster
<1>8. Len(all) - n + 1 <= RingMax
  BY <1>1, LoopIsNoPaster
<1>4. PushAll(q) = p
  BY DEF PushAll, all
<1> HIDE DEF n
<1>3. /\ p \in Seq(Utterances) /\ Len(p) = Len(all) - n + 1
      /\ \A k \in 1..Len(p) : p[k] = all[k + n - 1]
  BY <1>1, <1>2, SubSeqProperties
<1>5. Len(p) <= RingMax
  BY <1>3, <1>8
<1> HIDE DEF p
<1>9. Len(ring) \in Nat /\ Len(q) \in Nat /\ Len(p) = Len(ring) + Len(q) - n + 1
  BY <1>1, <1>2, <1>3
<1>11. \A j \in 1..(Len(ring) + Len(q)) :
          all[j] = IF j <= Len(ring) THEN ring[j] ELSE q[j - Len(ring)]
  BY <1>1
<1>6. ASSUME NEW k \in 1..Len(p) PROVE p[k] \in ToSet(ring) \cup ToSet(q)
  <2> DEFINE j == k + n - 1
  <2>1. j \in 1..(Len(ring) + Len(q))
    BY <1>2, <1>9
  <2>2. p[k] = all[j]
    BY <1>3
  <2> HIDE DEF j
  <2>3. CASE j <= Len(ring)
    <3>1. j \in 1..Len(ring) /\ p[k] = ring[j]
      BY <1>9, <1>11, <2>1, <2>2, <2>3
    <3> QED
      BY <3>1, Elements
  <2>4. CASE ~(j <= Len(ring))
    <3>1. j - Len(ring) \in 1..Len(q) /\ p[k] = q[j - Len(ring)]
      BY <1>9, <1>11, <2>1, <2>2, <2>4
    <3> QED
      BY <3>1, Elements
  <2> QED
    BY <2>3, <2>4
<1>7. ASSUME NEW k \in 1..Len(q) PROVE q[k] \in ToSet(p)
  <2>1. Len(ring) + k - n + 1 \in 1..Len(p)
    BY <1>1, <1>2, <1>3
  <2>2. p[Len(ring) + k - n + 1] = all[Len(ring) + k]
    BY <1>3, <2>1, <1>2
  <2>3. all[Len(ring) + k] = q[k]
    <3>1. /\ Len(ring) + k \in 1..(Len(ring) + Len(q)) /\ ~(Len(ring) + k <= Len(ring))
          /\ Len(ring) + k - Len(ring) = k
      BY <1>9
    <3> QED
      BY <1>11, <3>1
  <2> QED
    BY <1>3, <2>1, <2>2, <2>3, Elements
<1>10. ToSet(p) = {p[k] : k \in 1..Len(p)} /\ ToSet(q) = {q[k] : k \in 1..Len(q)}
  BY <1>3, Elements
<1> QED
  BY <1>3, <1>4, <1>5, <1>6, <1>7, <1>10

\* What became of a text.
FateNames == {"open", "typed", "claimed", "duplicate", "collided", "failed", "swapped",
              "pushedOut", "dropped"}

LEMMA FatesKnown ==
    ASSUME fate \in [Utterances -> FateNames], NEW u, NEW f \in FateNames, NEW r, NEW s
    PROVE  /\ Fates(u, f, r, s) \in [Utterances -> FateNames]
           /\ \A v \in Utterances : Fates(u, f, r, s)[v] = "open" =>
                 \/ v = u /\ f = "open"
                 \/ /\ v # u /\ fate[v] = "open"
                    /\ v \in ToSet(ring) \cup {slot} => v \in ToSet(r) \cup {s}
BY DEF Fates, FateNames

\* A text is kept in the ring or the slot, from now on as one withheld.
Recovered(u) ==
    /\ ring' \in Seq(Utterances) /\ Len(ring') <= RingMax /\ slot' \in 0..MaxUtterances
    /\ u \in ToSet(ring') \cup {slot'}
    /\ ToSet(ring') \cup {slot'} \subseteq ToSet(ring) \cup {slot, u}
    /\ barred' = barred \cup {u}
    /\ fate' \in [Utterances -> FateNames]
    /\ \A v \in Utterances : fate'[v] = "open" =>
          v = u \/ (fate[v] = "open" /\
                    (v \in ToSet(ring) \cup {slot} => v \in ToSet(ring') \cup {slot'}))

\* A text meets an end, and so may others.
GivenUp(u) ==
    /\ UNCHANGED <<ring, slot, barred>>
    /\ fate' \in [Utterances -> FateNames]
    /\ \A v \in Utterances : fate'[v] = "open" => v # u /\ fate[v] = "open"

LEMMA PushRecovers ==
    ASSUME TypeOK, NEW u \in Utterances, Push(u) \/ IntoSlot(u) \/ PushAndIntoSlot(u)
    PROVE  Recovered(u)
<1>1. <<u>> \in Seq(Utterances) /\ Len(<<u>>) <= RingMax /\ ToSet(<<u>>) = {u}
  BY LoopIsNoPaster DEF ToSet
<1>2. /\ PushAll(<<u>>) \in Seq(Utterances) /\ Len(PushAll(<<u>>)) <= RingMax
      /\ ToSet(PushAll(<<u>>)) \subseteq ToSet(ring) \cup {u} /\ u \in ToSet(PushAll(<<u>>))
  BY <1>1, Pushed DEF TypeOK
<1>3. fate \in [Utterances -> FateNames] /\ "open" \in FateNames /\ u \in 0..MaxUtterances
  BY LoopIsNoPaster DEF TypeOK, FateNames, Utterances
<1>4. /\ fate' = Fates(u, "open", ring', slot') /\ barred' = barred \cup {u}
      /\ ring' \in {ring, PushAll(<<u>>)} /\ slot' \in {slot, u}
      /\ ring' = PushAll(<<u>>) \/ slot' = u
  BY DEF Push, IntoSlot, PushAndIntoSlot
<1>5. /\ fate' \in [Utterances -> FateNames]
      /\ \A v \in Utterances : fate'[v] = "open" =>
            v = u \/ (fate[v] = "open" /\
                      (v \in ToSet(ring) \cup {slot} => v \in ToSet(ring') \cup {slot'}))
  BY <1>3, <1>4, FatesKnown
<1>6. /\ ring' \in Seq(Utterances) /\ Len(ring') <= RingMax /\ slot' \in 0..MaxUtterances
      /\ ToSet(ring') \subseteq ToSet(ring) \cup {u}
  BY <1>2, <1>3, <1>4 DEF TypeOK
<1> QED
  BY <1>2, <1>4, <1>5, <1>6 DEF Recovered

LEMMA EndsGiveUp ==
    ASSUME TypeOK, NEW u, NEW f \in FateNames \ {"open"}, fate' = Fates(u, f, ring, slot),
           UNCHANGED <<ring, slot, barred>>
    PROVE  GivenUp(u)
<1>1. fate \in [Utterances -> FateNames]
  BY DEF TypeOK, FateNames
<1> QED
  BY <1>1, FatesKnown DEF GivenUp

LEMMA TypedGivesUp ==
    ASSUME TypeOK, NEW u, fate' = Typed(u), UNCHANGED <<ring, slot, barred>> PROVE GivenUp(u)
BY DEF TypeOK, FateNames, Typed, GivenUp

-----------------------------------------------------------------------------
(* The delivery.                                                              *)

\* What one step of a delivery comes to.
Threading == UNCHANGED <<said, doing, asked, held, hotkey, consuming>>
Texts     == UNCHANGED <<ring, slot, fate, barred>>
Goes(t, from, to) == pc[t] \in from /\ \E b \in to : pc' = [pc EXCEPT ![t] = b]
Kept(t)     == /\ Goes(t, {"locked", "copied"}, {"closing"}) /\ Recovered(doing[t])
               /\ Threading /\ UNCHANGED <<inFlight, clip>>
Refused(t)  == /\ Goes(t, {"begin"}, {"idle"}) /\ GivenUp(doing[t])
               /\ Threading /\ UNCHANGED <<inFlight, clip>>
Pressed(t)  == /\ Goes(t, {"copied"}, {"closing", "settling"}) /\ GivenUp(doing[t])
               /\ Threading /\ UNCHANGED <<inFlight, clip>>
Takes(t)    == /\ Goes(t, {"begin"}, {"locked"}) /\ ~inFlight /\ inFlight' = TRUE
               /\ Threading /\ Texts /\ UNCHANGED clip
Copies(t)   == /\ Goes(t, {"locked"}, {"copied"})
               /\ clip' = [text |-> doing[t], by |-> "paste"]
               /\ Threading /\ Texts /\ UNCHANGED inFlight
LetsGo(t)   == /\ Goes(t, {"closing", "settling"}, {"idle"}) /\ inFlight' = FALSE
               /\ Threading /\ Texts /\ UNCHANGED clip

LEMMA DeliverComesTo ==
    ASSUME DeliveryInv, NEW t \in Threads, DeliverStep(t)
    PROVE  \/ Kept(t) \/ Refused(t) \/ Pressed(t) \/ Takes(t) \/ Copies(t) \/ LetsGo(t)
<1>1. pc[t] # "idle" => doing[t] \in Utterances
  BY DEF DeliveryInv, TypeOK, Spoken, Utterances
<1>2. TypeOK /\ {"duplicate", "collided", "failed", "typed"} \subseteq FateNames \ {"open"}
  BY DEF DeliveryInv, FateNames
<1> USE DEF At, Threading, Texts, Goes, textVars
<1>3. CASE Withhold(t) \/ CopyFails(t) \/ CmdHeld(t) \/ FocusMoved(t)
  <2>1. pc[t] \in {"locked", "copied"} /\ pc' = [pc EXCEPT ![t] = "closing"]
        /\ (IntoSlot(doing[t]) \/ PushAndIntoSlot(doing[t]))
        /\ UNCHANGED <<said, doing, asked, held, hotkey, consuming, inFlight, clip>>
    BY <1>3 DEF Withhold, CopyFails, CmdHeld, FocusMoved
  <2> QED
    BY <1>1, <1>2, <2>1, PushRecovers DEF Kept
<1>4. CASE SuppressDuplicate(t) \/ Collide(t)
  BY <1>2, <1>4, EndsGiveUp DEF SuppressDuplicate, Collide, Refused
<1>5. CASE PasteFails(t) \/ Corrected(t)
  BY <1>2, <1>5, EndsGiveUp DEF PasteFails, Corrected, Pressed
<1>6. CASE PressPaste(t)
  BY <1>2, <1>6, TypedGivesUp DEF PressPaste, Pressed
<1>7. CASE TryBeginPaste(t)
  BY <1>7 DEF TryBeginPaste, Takes
<1>8. CASE Copy(t)
  BY <1>8 DEF Copy, Copies
<1>9. CASE EndPaste(t)
  BY <1>9 DEF EndPaste, LetsGo
<1> QED
  BY <1>3, <1>4, <1>5, <1>6, <1>7, <1>8, <1>9 DEF DeliverStep

\* Each keeps the invariant.
PcNames == {"idle", "route", "park", "begin", "locked", "copied", "settling", "closing"}
LEMMA DeliverKeeps ==
    ASSUME DeliveryInv, NEW t \in Threads, DeliverStep(t)
    PROVE  DeliveryInv'
<1> DEFINE u == doing[t]
<1>1. Kept(t) \/ Refused(t) \/ Pressed(t) \/ Takes(t) \/ Copies(t) \/ LetsGo(t)
  BY DeliverComesTo
<1>2. /\ TypeOK /\ Spoken /\ Withheld /\ OnePlace /\ OneInFlight /\ AllPlaced
      /\ pc \in [Threads -> PcNames]
  BY DEF DeliveryInv, TypeOK, PcNames
<1>3. Threading /\ pc[t] # "idle" /\ \E b \in PcNames : pc' = [pc EXCEPT ![t] = b]
  BY <1>1 DEF Kept, Refused, Pressed, Takes, Copies, LetsGo, Goes, PcNames
<1>4. \/ Recovered(u) /\ pc[t] \in Carrying /\ pc'[t] \notin Carrying
      \/ GivenUp(u)
      \/ Texts /\ (pc[t] \in Carrying => pc'[t] \in Carrying)
  BY <1>1, <1>2 DEF Kept, Refused, Pressed, Takes, Copies, LetsGo, Goes, Carrying
<1>5. u \in 1..said /\ u \in 1..MaxUtterances /\ u # 0
  BY <1>2, <1>3, LoopIsNoPaster DEF Spoken, TypeOK
<1>6. pc' \in [Threads -> PcNames] /\ (pc'[t] \in Carrying => pc[t] \in Carrying)
      /\ \A s \in Threads \ {t} : pc'[s] = pc[s]
  BY <1>1, <1>2 DEF Kept, Refused, Pressed, Takes, Copies, LetsGo, Goes, Carrying, PcNames
<1>7. /\ ring' \in Seq(Utterances) /\ Len(ring') <= RingMax /\ slot' \in 0..MaxUtterances
      /\ fate' \in [Utterances -> FateNames] /\ barred \subseteq barred'
      /\ barred' \subseteq barred \cup {u}
      /\ ToSet(ring') \cup {slot'} \subseteq ToSet(ring) \cup {slot, u}
      /\ u \notin barred' => ring' = ring /\ slot' = slot
  BY <1>2, <1>4 DEF Recovered, GivenUp, Texts, TypeOK, FateNames
<1>8. TypeOK'
  <2>1. inFlight' \in BOOLEAN
        /\ clip' \in [text : 0..MaxUtterances, by : {"user", "paste", "filter", "hotkey"}]
    <3>1. CASE Copies(t)
      BY <1>2, <1>5, <3>1 DEF Copies, TypeOK
    <3> QED
      BY <1>1, <1>2, <3>1 DEF Kept, Refused, Pressed, Takes, LetsGo, TypeOK
  <2>2. barred' \subseteq Utterances
    BY <1>2, <1>5, <1>7 DEF TypeOK, Utterances
  <2> QED
    BY <1>2, <1>3, <1>6, <1>7, <2>1, <2>2 DEF TypeOK, Threading, PcNames, FateNames
<1>9. Spoken'
  BY <1>2, <1>3, <1>5, <1>6, <1>7 DEF Spoken, Threading
<1>10. Withheld'
  BY <1>2, <1>3, <1>7 DEF Withheld, Threading
<1>11. OnePlace'
  <2>1. barred' # barred => pc[t] \in Carrying /\ pc'[t] \notin Carrying
    BY <1>4 DEF GivenUp, Texts
  <2>2. pc[t] \in Carrying => u \notin ToSet(held)
    BY <1>2 DEF OnePlace, Unasked
  <2>3. ASSUME NEW s \in Threads, s # t, Unasked(s), pc[t] \in Carrying PROVE doing[s] # u
    BY <1>2, <2>3 DEF OnePlace, Unasked
  <2> QED
    BY <1>2, <1>3, <1>6, <1>7, <2>1, <2>2, <2>3 DEF OnePlace, Unasked, Threading
<1>12. OneInFlight'
  <2>1. CASE Kept(t) \/ Refused(t) \/ Pressed(t)
    BY <1>2, <1>3, <1>6, <2>1
    DEF Kept, Refused, Pressed, Goes, OneInFlight, Locked, Threading
  <2>2. CASE Takes(t)
    BY <1>2, <1>3, <1>6, <2>2 DEF Takes, Goes, OneInFlight, Locked, Threading
  <2>3. CASE Copies(t)
    BY <1>2, <1>3, <1>6, <2>3 DEF Copies, Goes, OneInFlight, Locked, Threading
  <2>4. CASE LetsGo(t)
    BY <1>2, <1>3, <1>6, <2>4 DEF LetsGo, Goes, OneInFlight, Locked, Threading
  <2> QED
    BY <1>1, <2>1, <2>2, <2>3, <2>4
<1>13. AllPlaced'
  <2>1. ASSUME NEW v \in 1..said, fate'[v] = "open" PROVE Placed(v)'
    <3>1. v \in Utterances
      BY <1>2, LoopIsNoPaster DEF TypeOK, Utterances
    <3>2. CASE v = u
      BY <1>2, <1>3, <1>4, <1>6, <2>1, <3>1, <3>2
      DEF Recovered, GivenUp, Texts, AllPlaced, Placed, Threading
    <3>3. CASE v # u
      <4>1. fate[v] = "open" /\ (v \in ToSet(ring) \cup {slot} => v \in ToSet(ring') \cup {slot'})
        BY <1>4, <2>1, <3>1, <3>3 DEF Recovered, GivenUp, Texts
      <4>2. Placed(v)
        BY <1>2, <4>1 DEF AllPlaced
      <4> QED
        BY <1>3, <1>6, <3>3, <4>1, <4>2 DEF Placed, Threading
    <3> QED
      BY <3>2, <3>3
  <2> QED
    BY <1>3, <2>1 DEF AllPlaced, Threading
<1> QED
  BY <1>8, <1>9, <1>10, <1>11, <1>12, <1>13 DEF DeliveryInv

-----------------------------------------------------------------------------
(* The event loop.                                                            *)

\* A new utterance is new to everybody.
LEMMA SpeakKeeps ==
    ASSUME DeliveryInv,
           \/ SpeakFinal \/ SpeakInCooldown \/ SpeakFiltered
           \/ SpeakHallucinated \/ SpeakForeign \/ SpeakRejected
    PROVE  DeliveryInv'
<1> DEFINE u == said + 1
<1>1. /\ TypeOK /\ Spoken /\ Withheld /\ OnePlace /\ OneInFlight /\ AllPlaced
      /\ pc \in [Threads -> PcNames] /\ "loop" \in Threads \ asked
  BY LoopIsNoPaster DEF DeliveryInv, TypeOK, PcNames, Threads
<1>2. /\ said' = u /\ u \in 1..MaxUtterances /\ u \in Utterances /\ u \notin 1..said
      /\ 1..u = 1..said \cup {u} /\ said \in Nat
      /\ UNCHANGED <<asked, inFlight, held, hotkey, consuming>>
  BY <1>1, LoopIsNoPaster
  DEF SpeakFinal, SpeakInCooldown, SpeakFiltered, SpeakHallucinated, SpeakForeign,
      SpeakRejected, TypeOK, Utterances, textVars
<1>3. CASE SpeakFinal
  <2>1. /\ pc["loop"] = "idle" /\ pc' = [pc EXCEPT !["loop"] = "route"]
        /\ doing' = [doing EXCEPT !["loop"] = u]
        /\ UNCHANGED <<ring, slot, fate, barred, clip>>
    BY <1>2, <1>3 DEF SpeakFinal, textVars
  <2>2. TypeOK'
    BY <1>1, <1>2, <2>1 DEF TypeOK, PcNames
  <2>3. Spoken' /\ Withheld'
    BY <1>1, <1>2, <2>1 DEF Spoken, Withheld, PcNames, TypeOK
  <2>4. OnePlace'
    BY <1>1, <1>2, <2>1 DEF OnePlace, Unasked, Spoken, Carrying, PcNames, TypeOK
  <2>5. OneInFlight'
    BY <1>1, <1>2, <2>1 DEF OneInFlight, Locked, PcNames, TypeOK
  <2>6. AllPlaced'
    <3>1. ASSUME NEW v \in 1..said', v = u PROVE Placed(v)'
      <4>1. "loop" \in Threads /\ pc'["loop"] = "route" /\ doing'["loop"] = u
        BY <1>1, <2>1 DEF TypeOK
      <4> QED
        BY <3>1, <4>1 DEF Placed, Carrying
    <3>2. ASSUME NEW v \in 1..said, fate[v] = "open" PROVE Placed(v)'
      BY <1>1, <1>2, <2>1, <3>2 DEF AllPlaced, Placed, Carrying, TypeOK
    <3> QED
      <4>1. ASSUME NEW v \in 1..said', fate'[v] = "open" PROVE Placed(v)'
        BY <1>2, <2>1, <3>1, <3>2, <4>1
      <4> QED
        BY <4>1 DEF AllPlaced
  <2> QED
    BY <2>2, <2>3, <2>4, <2>5, <2>6 DEF DeliveryInv
<1>4. CASE \/ SpeakInCooldown \/ SpeakFiltered \/ SpeakHallucinated
           \/ SpeakForeign \/ SpeakRejected
  <2>1. /\ UNCHANGED <<pc, doing>> /\ (GivenUp(u) \/ Recovered(u))
        /\ clip' \in {clip, [text |-> u, by |-> "filter"]}
    <3>1. "dropped" \in FateNames \ {"open"}
      BY DEF FateNames
    <3> QED
      BY <1>1, <1>2, <1>4, <3>1, EndsGiveUp, PushRecovers
      DEF SpeakInCooldown, SpeakFiltered, SpeakHallucinated, SpeakForeign, SpeakRejected
  <2>2. /\ ring' \in Seq(Utterances) /\ Len(ring') <= RingMax /\ slot' \in 0..MaxUtterances
        /\ fate' \in [Utterances -> FateNames] /\ barred \subseteq barred'
        /\ barred' \subseteq barred \cup {u}
        /\ ToSet(ring') \cup {slot'} \subseteq ToSet(ring) \cup {slot, u}
        /\ u \notin barred' => ring' = ring /\ slot' = slot
    BY <1>1, <2>1 DEF Recovered, GivenUp, TypeOK, FateNames
  <2>3. TypeOK'
    <3>1. clip' \in [text : 0..MaxUtterances, by : {"user", "paste", "filter", "hotkey"}]
      BY <1>1, <1>2, <2>1 DEF TypeOK
    <3> QED
      BY <1>1, <1>2, <2>1, <2>2, <3>1 DEF TypeOK, FateNames
  <2>4. Spoken' /\ Withheld'
    BY <1>1, <1>2, <2>1, <2>2 DEF Spoken, Withheld
  <2>5. OnePlace'
    <3>1. u \notin ToSet(held) /\ \A t \in Threads : pc[t] # "idle" => doing[t] # u
      BY <1>1, <1>2 DEF Spoken
    <3>2. \A t \in Threads : pc[t] \in Carrying => pc[t] # "idle"
      BY DEF Carrying
    <3> QED
      BY <1>1, <1>2, <2>1, <2>2, <3>1, <3>2 DEF OnePlace, Unasked
  <2>6. OneInFlight'
    BY <1>1, <1>2, <2>1 DEF OneInFlight, Locked
  <2>7. AllPlaced'
    <3>1. ASSUME NEW v \in 1..said', fate'[v] = "open" PROVE Placed(v)'
      <4>1. CASE v = u
        BY <1>2, <2>1, <3>1, <4>1 DEF GivenUp, Recovered, Placed
      <4>2. CASE v # u
        <5>1. v \in 1..said /\ v \in Utterances
          <6>1. v \in 1..u
            BY <1>2
          <6>2. v \in 1..said
            BY <1>2, <4>2, <6>1
          <6>3. 1..said \subseteq Utterances
            BY <1>1, LoopIsNoPaster DEF TypeOK, Utterances
          <6> QED
            BY <6>2, <6>3
        <5>2. fate[v] = "open" /\ (v \in ToSet(ring) \cup {slot} => v \in ToSet(ring') \cup {slot'})
          BY <2>1, <3>1, <4>2, <5>1 DEF Recovered, GivenUp
        <5> QED
          BY <1>1, <1>2, <2>1, <5>1, <5>2 DEF AllPlaced, Placed
      <4> QED
        BY <4>1, <4>2
    <3> QED
      BY <3>1 DEF AllPlaced
  <2> QED
    BY <2>3, <2>4, <2>5, <2>6, <2>7 DEF DeliveryInv
<1> QED
  BY <1>3, <1>4

LEMMA RouteKeeps == ASSUME DeliveryInv, Route PROVE DeliveryInv'
<1>1. /\ pc["loop"] = "route" /\ \E b \in {"park", "begin"} : pc' = [pc EXCEPT !["loop"] = b]
      /\ UNCHANGED <<said, doing, asked, inFlight, textVars, consuming>>
      /\ pc \in [Threads -> PcNames] /\ "loop" \in Threads
  BY DEF Route, At, DeliveryInv, TypeOK, PcNames, Threads
<1>2. /\ pc' \in [Threads -> PcNames]
      /\ \A t \in Threads : /\ pc'[t] \in Carrying <=> pc[t] \in Carrying
                            /\ pc'[t] \in Locked <=> pc[t] \in Locked
                            /\ pc'[t] = "copied" <=> pc[t] = "copied"
                            /\ pc'[t] = "idle" <=> pc[t] = "idle"
  BY <1>1 DEF Carrying, Locked, PcNames
<1>3. TypeOK'
  BY <1>1, <1>2 DEF DeliveryInv, TypeOK, PcNames, textVars
<1>4. Spoken' /\ Withheld' /\ OnePlace'
  BY <1>1, <1>2 DEF DeliveryInv, Spoken, Withheld, OnePlace, Unasked, textVars
<1>5. OneInFlight' /\ AllPlaced'
  BY <1>1, <1>2 DEF DeliveryInv, OneInFlight, AllPlaced, Placed, textVars
<1> QED
  BY <1>3, <1>4, <1>5 DEF DeliveryInv

\* A parked text is held, and at most one older one goes to the ring for it.
LEMMA ParkKeeps == ASSUME DeliveryInv, Park PROVE DeliveryInv'
<1> DEFINE u   == doing["loop"]
           all == Append(held, u)
           n   == IF Len(all) > HeldMax THEN Len(all) - HeldMax ELSE 0
           a   == SubSeq(all, 1, n)
           b   == SubSeq(all, n + 1, Len(all))
<1>1. /\ TypeOK /\ Spoken /\ Withheld /\ OnePlace /\ OneInFlight /\ AllPlaced
      /\ pc \in [Threads -> PcNames] /\ "loop" \in Threads \ asked
  BY LoopIsNoPaster DEF DeliveryInv, TypeOK, PcNames, Threads
<1>2. /\ pc["loop"] = "park" /\ pc' = [pc EXCEPT !["loop"] = "idle"]
      /\ held' = b /\ ring' = PushAll(a) /\ barred' = barred \cup ToSet(a)
      /\ fate' = Fates(0, "open", ring', slot)
      /\ UNCHANGED <<said, doing, asked, inFlight, slot, clip, hotkey, consuming>>
  BY DEF Park, At
<1>3. u \in 1..said /\ u \in Utterances
  BY <1>1, <1>2, LoopIsNoPaster DEF Spoken, TypeOK, Utterances
<1>4. /\ all \in Seq(Utterances) /\ Len(all) = Len(held) + 1 /\ ToSet(all) = ToSet(held) \cup {u}
  BY <1>1, <1>3, AppendProperties, Ends DEF TypeOK
<1>5. u \notin ToSet(held) \cup barred
  BY <1>1, <1>2 DEF OnePlace, Unasked, Carrying
<1>6. Once(all)
  <2>1. /\ \A i \in 1..Len(held) : all[i] = held[i] /\ held[i] # u
        /\ all[Len(held) + 1] = u
        /\ DOMAIN all = 1..(Len(held) + 1) /\ DOMAIN held = 1..Len(held)
    BY <1>1, <1>3, <1>4, <1>5, AppendProperties, Elements DEF TypeOK
  <2> QED
    BY <1>1, <2>1 DEF Once, OnePlace
<1>7. n \in 0..Len(all) /\ n <= 1 /\ Len(all) - n <= HeldMax
  BY <1>1, <1>4, PastingAssumption DEF TypeOK
<1> HIDE DEF n, all
<1>8. /\ a \in Seq(Utterances) /\ Len(a) = n /\ b \in Seq(Utterances) /\ Len(b) = Len(all) - n
      /\ ToSet(all) = ToSet(a) \cup ToSet(b) /\ Once(b) /\ ToSet(a) \cap ToSet(b) = {}
  BY <1>4, <1>6, <1>7, InTwo
<1> HIDE DEF a, b
<1>9. /\ ring' \in Seq(Utterances) /\ Len(ring') <= RingMax
      /\ ToSet(ring') \subseteq ToSet(ring) \cup ToSet(a) /\ ToSet(a) \subseteq ToSet(ring')
  <2>1. ring \in Seq(Utterances) /\ Len(a) <= RingMax /\ ring' = PushAll(a)
    BY <1>1, <1>2, <1>7, <1>8, LoopIsNoPaster DEF TypeOK
  <2> QED
    BY <1>8, <2>1, Pushed
<1>10. /\ fate' \in [Utterances -> FateNames]
       /\ \A v \in Utterances : fate'[v] = "open" =>
             fate[v] = "open" /\ (v \in ToSet(ring) \cup {slot} => v \in ToSet(ring') \cup {slot})
  <2>1. fate \in [Utterances -> FateNames] /\ "open" \in FateNames /\ 0 \notin Utterances
    BY <1>1 DEF TypeOK, FateNames, Utterances
  <2> QED
    BY <1>2, <2>1, FatesKnown
<1>11. /\ pc' \in [Threads -> PcNames] /\ \A t \in Threads \ {"loop"} : pc'[t] = pc[t]
       /\ pc'["loop"] = "idle"
  BY <1>1, <1>2 DEF PcNames
<1>12. ToSet(a) \subseteq ToSet(held) \cup {u} /\ ToSet(b) \subseteq ToSet(held) \cup {u}
  BY <1>4, <1>8
<1>13. TypeOK'
  BY <1>1, <1>2, <1>7, <1>8, <1>9, <1>10, <1>11, Elements DEF TypeOK, PcNames, FateNames
<1>14. Spoken' /\ Withheld'
  BY <1>1, <1>2, <1>3, <1>9, <1>11, <1>12 DEF Spoken, Withheld
<1>15. OnePlace'
  <2>1. \A t \in Threads : Unasked(t)' => t # "loop" /\ Unasked(t) /\ doing[t] # u
    BY <1>1, <1>2, <1>11 DEF OnePlace, Unasked, Carrying
  <2>2. ToSet(b) \cap (barred \cup ToSet(a)) = {}
    BY <1>1, <1>5, <1>8, <1>12 DEF OnePlace
  <2>3. \A t \in asked : pc'[t] \in Carrying => doing[t] \in barred
    BY <1>1, <1>11 DEF OnePlace, TypeOK, Threads
  <2> QED
    BY <1>1, <1>2, <1>8, <1>12, <2>1, <2>2, <2>3 DEF OnePlace, Once
<1>16. OneInFlight'
  BY <1>1, <1>2, <1>11 DEF OneInFlight, Locked
<1>17. AllPlaced'
  <2>1. ASSUME NEW v \in 1..said, fate'[v] = "open" PROVE Placed(v)'
    <3>1. v \in Utterances
      BY <1>1, LoopIsNoPaster DEF TypeOK, Utterances
    <3>2. Placed(v) /\ (v \in ToSet(ring) \cup {slot} => v \in ToSet(ring') \cup {slot})
      BY <1>1, <1>10, <2>1, <3>1 DEF AllPlaced
    <3>3. v \in ToSet(held) \cup {u} => v \in ToSet(held') \cup ToSet(ring')
      BY <1>2, <1>4, <1>8, <1>9
    <3> QED
      BY <1>2, <1>11, <3>2, <3>3 DEF Placed
  <2> QED
    BY <1>2, <2>1 DEF AllPlaced
<1> QED
  BY <1>13, <1>14, <1>15, <1>16, <1>17 DEF DeliveryInv

-----------------------------------------------------------------------------
(* The consumer's verdict, the ring's requests and the hotkey.                *)

\* A text goes on with a thread.
LEMMA StartKeeps ==
    ASSUME DeliveryInv, NEW t \in Pasters, NEW u \in Utterances,
           ReleaseHeld(t, u) \/ PasteRejected(t, u)
    PROVE  DeliveryInv'
<1>1. /\ TypeOK /\ Spoken /\ Withheld /\ OnePlace /\ OneInFlight /\ AllPlaced
      /\ pc \in [Threads -> PcNames] /\ t \in Threads
  BY DEF DeliveryInv, TypeOK, PcNames, Threads
<1>2. /\ pc[t] = "idle" /\ pc' = [pc EXCEPT ![t] = "begin"]
      /\ doing' = [doing EXCEPT ![t] = u]
      /\ UNCHANGED <<said, inFlight, slot, clip, hotkey, fate, barred, consuming>>
      /\ asked' \in {asked \cup {t}, asked \ {t}}
  BY DEF ReleaseHeld, PasteRejected, Start
<1>3. /\ pc' \in [Threads -> PcNames] /\ pc'[t] = "begin" /\ doing'[t] = u
      /\ \A s \in Threads \ {t} : pc'[s] = pc[s] /\ doing'[s] = doing[s]
      /\ doing' \in [Threads -> 0..MaxUtterances]
  BY <1>1, <1>2, LoopIsNoPaster DEF TypeOK, PcNames, Utterances
<1>4. /\ held' \in Seq(Utterances) /\ Len(held') <= HeldMax
      /\ ring' \in Seq(Utterances) /\ Len(ring') <= RingMax
      /\ ToSet(held') \subseteq ToSet(held) /\ ToSet(ring') \subseteq ToSet(ring)
      /\ ToSet(held) \subseteq ToSet(held') \cup {u}
      /\ ToSet(ring) \subseteq ToSet(ring') \cup {u}
      /\ Once(held')
      /\ \/ u \in ToSet(held) /\ u \notin ToSet(held') /\ asked' = asked \ {t}
         \/ u \in ToSet(ring) /\ held' = held /\ asked' = asked \cup {t}
  <2>1. Once(held) /\ held \in Seq(Utterances) /\ ring \in Seq(Utterances)
        /\ Len(held) \in Nat /\ Len(ring) \in Nat /\ HeldMax \in Nat /\ RingMax \in Nat
    BY <1>1, PastingAssumption DEF OnePlace, Once, TypeOK
  <2>2. CASE ReleaseHeld(t, u)
    <3>1. held' \in Without(held, u) /\ ring' = ring /\ asked' = asked \ {t}
      BY <2>2 DEF ReleaseHeld, Start
    <3> QED
      BY <1>1, <2>1, <3>1, WithoutOne DEF TypeOK
  <2>3. CASE PasteRejected(t, u)
    <3>1. ring' \in Without(ring, u) /\ held' = held /\ asked' = asked \cup {t}
      BY <2>3 DEF PasteRejected, Start
    <3> QED
      BY <1>1, <2>1, <3>1, WithoutOne DEF TypeOK
  <2> QED
    BY <2>2, <2>3
<1>5. u \in 1..said /\ u # 0
  BY <1>1, <1>4 DEF Spoken, Withheld, Utterances
<1>6. TypeOK'
  BY <1>1, <1>2, <1>3, <1>4 DEF TypeOK, PcNames
<1>7. Spoken' /\ Withheld'
  BY <1>1, <1>2, <1>3, <1>4, <1>5 DEF Spoken, Withheld
<1>8. OnePlace'
  <2>1. CASE u \in ToSet(held) /\ u \notin ToSet(held') /\ asked' = asked \ {t}
    BY <1>1, <1>2, <1>3, <1>4, <2>1 DEF OnePlace, Unasked, Once
  <2>2. CASE u \in ToSet(ring) /\ held' = held /\ asked' = asked \cup {t}
    BY <1>1, <1>2, <1>3, <1>4, <1>5, <2>2 DEF OnePlace, Unasked, Withheld
  <2> QED
    BY <1>4, <2>1, <2>2
<1>9. OneInFlight'
  BY <1>1, <1>2, <1>3 DEF OneInFlight, Locked
<1>10. AllPlaced'
  <2>1. ASSUME NEW v \in 1..said, fate[v] = "open" PROVE Placed(v)'
    <3>1. Placed(v) /\ Placed(u)'
      BY <1>1, <1>3, <2>1 DEF AllPlaced, Placed, Carrying
    <3> QED
      BY <1>2, <1>3, <1>4, <3>1 DEF Placed, Carrying
  <2> QED
    BY <1>2, <2>1 DEF AllPlaced
<1> QED
  BY <1>6, <1>7, <1>8, <1>9, <1>10 DEF DeliveryInv

\* A held text, or with no u the oldest of the ring, is decided without a thread.
Decided(u) ==
    /\ UNCHANGED <<said, pc, doing, asked, inFlight, clip, hotkey, consuming, slot>>
    /\ held' \in Seq(Utterances) /\ Len(held') <= HeldMax /\ Once(held')
    /\ ToSet(held') \subseteq ToSet(held) /\ ToSet(held) \subseteq ToSet(held') \cup {u}
    /\ ring' \in Seq(Utterances) /\ Len(ring') <= RingMax
    /\ ToSet(ring') \subseteq ToSet(ring) \cup ({u} \ {0})
    /\ barred' = barred \cup ({u} \ {0}) /\ fate' \in [Utterances -> FateNames]
    /\ u # 0 => u \in ToSet(held) /\ u \notin ToSet(held')
    /\ \A v \in Utterances : fate'[v] = "open" =>
          \/ v = u /\ v \in ToSet(ring') \cup {slot}
          \/ /\ v # u /\ fate[v] = "open"
             /\ v \in ToSet(ring) \cup {slot} => v \in ToSet(ring') \cup {slot}

LEMMA DecidedSo ==
    ASSUME DeliveryInv, (\E u \in Utterances : DiscardHeld(u)) \/ Expire \/ Age
    PROVE  \E u \in 0..MaxUtterances : Decided(u)
<1>1. /\ TypeOK /\ Once(held) /\ held \in Seq(Utterances) /\ ring \in Seq(Utterances)
      /\ Len(held) \in Nat /\ Len(ring) \in Nat /\ HeldMax \in Nat /\ RingMax \in Nat
      /\ fate \in [Utterances -> FateNames] /\ 0 \notin Utterances
      /\ Utterances \subseteq 0..MaxUtterances /\ 0 \in 0..MaxUtterances
      /\ {"claimed", "open"} \subseteq FateNames
      /\ Len(held) <= HeldMax /\ Len(ring) <= RingMax
  BY PastingAssumption DEF DeliveryInv, TypeOK, OnePlace, Once, FateNames, Utterances
<1>2. ASSUME NEW u \in Utterances, DiscardHeld(u) PROVE Decided(u)
  <2>1. /\ held' \in Without(held, u) /\ fate' = Fates(u, "claimed", ring, slot)
        /\ barred' = barred \cup {u} /\ u # 0
        /\ UNCHANGED <<said, pc, doing, asked, inFlight, clip, hotkey, consuming, ring, slot>>
    BY <1>1, <1>2 DEF DiscardHeld
  <2>4. /\ Fates(u, "claimed", ring, slot) \in [Utterances -> FateNames]
        /\ \A v \in Utterances :
              Fates(u, "claimed", ring, slot)[v] = "open" => v # u /\ fate[v] = "open"
    BY <1>1, FatesKnown
  <2>2. /\ fate' \in [Utterances -> FateNames]
        /\ \A v \in Utterances : fate'[v] = "open" => v # u /\ fate[v] = "open"
    BY <2>1, <2>4
  <2>3. /\ held' \in Seq(Utterances) /\ Len(held') <= HeldMax /\ u \in ToSet(held)
        /\ ToSet(held') \subseteq ToSet(held) /\ ToSet(held) \subseteq ToSet(held') \cup {u}
        /\ Once(held') /\ u \notin ToSet(held')
    BY <1>1, <2>1, WithoutOne
  <2> QED
    BY <1>1, <2>1, <2>2, <2>3 DEF Decided
<1>3. ASSUME Expire PROVE Decided(Head(held)) /\ Head(held) \in Utterances
  <2>1. /\ held # <<>> /\ held' = Tail(held) /\ Push(Head(held))
        /\ UNCHANGED <<said, pc, doing, asked, inFlight, clip, hotkey, consuming>>
    BY <1>3 DEF Expire
  <2>2. /\ Head(held) \in Utterances /\ ToSet(held) = ToSet(held') \cup {Head(held)}
        /\ Once(held') /\ Head(held) \notin ToSet(held')
        /\ held' \in Seq(Utterances) /\ Len(held') <= HeldMax
    BY <1>1, <2>1, Ends, HeadTailProperties
  <2>3. /\ ring' = PushAll(<<Head(held)>>) /\ slot' = slot
        /\ Recovered(Head(held))
    BY <1>1, <2>1, <2>2, PushRecovers DEF Push
  <2>4. ToSet(ring') \subseteq ToSet(ring) \cup {Head(held)}
    <3>1. <<Head(held)>> \in Seq(Utterances) /\ Len(<<Head(held)>>) <= RingMax
          /\ ToSet(<<Head(held)>>) = {Head(held)}
      BY <2>2, LoopIsNoPaster DEF ToSet
    <3> QED
      BY <1>1, <2>3, <3>1, Pushed
  <2> QED
    BY <1>1, <2>1, <2>2, <2>3, <2>4 DEF Decided, Recovered
<1>4. ASSUME Age PROVE Decided(0)
  <2>1. /\ ring # <<>> /\ ring' = Tail(ring) /\ fate' = Fates(0, "open", ring', slot)
        /\ UNCHANGED <<said, pc, doing, asked, inFlight, held, slot, clip, hotkey, barred,
                       consuming>>
    BY <1>4 DEF Age
  <2>2. /\ ring' \in Seq(Utterances) /\ Len(ring') <= RingMax /\ ToSet(ring') \subseteq ToSet(ring)
    <3>1. \E x \in Utterances : TRUE
      BY <1>1, <2>1, HeadTailProperties
    <3> QED
      BY <1>1, <2>1, <3>1, Ends, HeadTailProperties
  <2>3. /\ fate' \in [Utterances -> FateNames]
        /\ \A v \in Utterances : fate'[v] = "open" =>
              fate[v] = "open" /\ (v \in ToSet(ring) \cup {slot} => v \in ToSet(ring') \cup {slot})
    <3>1. "open" \in FateNames /\ \A v \in Utterances : v # 0
      BY <1>1
    <3>2. /\ Fates(0, "open", ring', slot) \in [Utterances -> FateNames]
          /\ \A v \in Utterances : Fates(0, "open", ring', slot)[v] = "open" =>
                \/ v = 0 /\ "open" = "open"
                \/ /\ v # 0 /\ fate[v] = "open"
                   /\ v \in ToSet(ring) \cup {slot} => v \in ToSet(ring') \cup {slot}
      BY <1>1, <3>1, FatesKnown
    <3> QED
      BY <2>1, <3>1, <3>2
  <2> QED
    BY <1>1, <2>1, <2>2, <2>3 DEF Decided
<1> QED
  BY <1>1, <1>2, <1>3, <1>4

LEMMA HeldKeeps ==
    ASSUME DeliveryInv, (\E u \in Utterances : DiscardHeld(u)) \/ Expire \/ Age
    PROVE  DeliveryInv'
<1>1. TypeOK /\ Spoken /\ Withheld /\ OnePlace /\ OneInFlight /\ AllPlaced
  BY DEF DeliveryInv
<1>2. PICK u \in 0..MaxUtterances : Decided(u)
  BY DecidedSo
<1>3. {u} \ {0} \subseteq 1..said /\ 1..said \subseteq Utterances
  BY <1>1, <1>2, LoopIsNoPaster DEF Decided, Spoken, TypeOK, Utterances
<1>4. TypeOK'
  BY <1>1, <1>2, <1>3 DEF Decided, TypeOK, FateNames
<1>5. Spoken' /\ Withheld'
  BY <1>1, <1>2, <1>3 DEF Decided, Spoken, Withheld
<1>6. OnePlace'
  BY <1>1, <1>2 DEF Decided, OnePlace, Unasked, Once
<1>7. OneInFlight'
  BY <1>1, <1>2 DEF Decided, OneInFlight
<1>8. AllPlaced'
  <2>1. ASSUME NEW v \in 1..said, fate'[v] = "open" PROVE Placed(v)'
    <3>1. v \in Utterances
      BY <1>3
    <3>2. CASE v = u
      BY <1>2, <2>1, <3>1, <3>2 DEF Decided, Placed
    <3>3. CASE v # u
      BY <1>1, <1>2, <2>1, <3>1, <3>3 DEF Decided, Placed, AllPlaced
    <3> QED
      BY <3>2, <3>3
  <2> QED
    BY <1>2, <2>1 DEF AllPlaced, Decided
<1> QED
  BY <1>4, <1>5, <1>6, <1>7, <1>8 DEF DeliveryInv

\* The hotkey has its text in hand, and puts it back when it fails.
LEMMA ForceKeeps ==
    ASSUME DeliveryInv, ForceTake \/ ForceCopy \/ ForcePress \/ ForceFails
    PROVE  DeliveryInv'
<1>1. /\ TypeOK /\ Spoken /\ Withheld /\ OnePlace /\ OneInFlight /\ AllPlaced
      /\ fate \in [Utterances -> FateNames]
  BY DEF DeliveryInv, TypeOK, FateNames
<1>2. UNCHANGED <<said, pc, doing, asked, inFlight, held, consuming>>
  BY DEF ForceTake, ForceCopy, ForcePress, ForceFails
<1>3. /\ hotkey' \in [at : {"idle", "taken", "copied"}, text : 0..MaxUtterances]
      /\ clip' \in [text : 0..MaxUtterances, by : {"user", "paste", "filter", "hotkey"}]
      /\ hotkey'.text = 0 <=> hotkey'.at = "idle"
      /\ clip' # clip => clip'.by = "hotkey"
      /\ hotkey'.text \in {hotkey.text, slot, 0}
  <2>1. hotkey \in [at : {"idle", "taken", "copied"}, text : 0..MaxUtterances]
        /\ hotkey.text = 0 <=> hotkey.at = "idle"
    BY <1>1 DEF TypeOK, Spoken
  <2>2. CASE ForceTake
    BY <1>1, <2>1, <2>2, LoopIsNoPaster DEF ForceTake, TypeOK
  <2>3. CASE ForceCopy
    BY <1>1, <2>1, <2>3 DEF ForceCopy, TypeOK
  <2>4. CASE ForcePress \/ ForceFails
    BY <1>1, <2>1, <2>4, LoopIsNoPaster DEF ForcePress, ForceFails, TypeOK
  <2> QED
    BY <2>2, <2>3, <2>4
<1>4. hotkey.text # 0 => hotkey.text \in barred /\ hotkey.text \in Utterances
  BY <1>1 DEF Withheld, TypeOK
<1>5. /\ ring' \in Seq(Utterances) /\ Len(ring') <= RingMax /\ slot' \in 0..MaxUtterances
      /\ ToSet(ring') \cup {slot'} \subseteq ToSet(ring) \cup {slot, hotkey.text, 0}
      /\ barred' = barred /\ fate' \in [Utterances -> FateNames]
      /\ \A v \in Utterances : fate'[v] = "open" =>
            \/ v \in ToSet(ring') \cup {slot', hotkey'.text}
            \/ fate[v] = "open" /\ v \notin ToSet(ring) \cup {slot, hotkey.text}
  <2>1. /\ ring \in Seq(Utterances) /\ Len(ring) <= RingMax /\ slot \in 0..MaxUtterances
        /\ 0 \in 0..MaxUtterances
        /\ hotkey.at # "idle" => hotkey.text # 0
        /\ \A v \in Utterances : v # 0
    BY <1>1, LoopIsNoPaster DEF TypeOK, Spoken, Utterances
  <2>2. CASE ForceTake
    <3>1. /\ hotkey.text = 0 /\ hotkey'.text = slot /\ slot' = 0
          /\ UNCHANGED <<ring, fate, barred>>
      BY <1>1, <2>2 DEF ForceTake, Spoken
    <3> QED
      BY <1>1, <2>1, <3>1
  <2>3. CASE ForceCopy
    <3>1. hotkey'.text = hotkey.text /\ UNCHANGED <<ring, slot, fate, barred>>
      BY <1>1, <2>3 DEF ForceCopy, TypeOK
    <3> QED
      BY <1>1, <2>1, <3>1
  <2>4. CASE ForcePress
    <3>1. GivenUp(hotkey.text)
      BY <1>1, <2>4, TypedGivesUp DEF ForcePress
    <3> QED
      BY <1>1, <2>1, <3>1 DEF GivenUp
  <2>5. CASE ForceFails
    <3>1. hotkey.text \in barred /\ hotkey.text \in Utterances
      BY <1>4, <2>1, <2>5 DEF ForceFails
    <3>2. IntoSlot(hotkey.text) /\ slot' = hotkey.text
      BY <2>5 DEF ForceFails, IntoSlot
    <3>3. Recovered(hotkey.text)
      BY <1>1, <3>1, <3>2, PushRecovers
    <3> QED
      BY <1>1, <2>1, <3>1, <3>2, <3>3 DEF Recovered
  <2> QED
    BY <2>2, <2>3, <2>4, <2>5
<1>6. TypeOK'
  BY <1>1, <1>2, <1>3, <1>5 DEF TypeOK, FateNames
<1>7. Spoken' /\ Withheld'
  <2>1. Spoken'
    BY <1>1, <1>2, <1>3, <1>5 DEF Spoken
  <2>2. (ToSet(ring') \cup {slot', hotkey'.text}) \ {0} \subseteq barred
    BY <1>1, <1>3, <1>5 DEF Withheld
  <2> QED
    BY <1>5, <2>1, <2>2 DEF Withheld
<1>8. OnePlace' /\ OneInFlight'
  BY <1>1, <1>2, <1>3, <1>5 DEF OnePlace, Unasked, OneInFlight
<1>9. AllPlaced'
  <2>1. ASSUME NEW v \in 1..said, fate'[v] = "open" PROVE Placed(v)'
    <3>1. v \in Utterances
      BY <1>1, LoopIsNoPaster DEF TypeOK, Utterances
    <3> QED
      BY <1>1, <1>2, <1>5, <2>1, <3>1 DEF Placed, AllPlaced
  <2> QED
    BY <1>2, <2>1 DEF AllPlaced
<1> QED
  BY <1>6, <1>7, <1>8, <1>9 DEF DeliveryInv

LEMMA DeliveryStays ==
    ASSUME DeliveryInv, ConsumeModeChanges \/ UNCHANGED vars PROVE DeliveryInv'
<1>1. /\ UNCHANGED <<said, pc, doing, asked, inFlight, held, ring, slot, clip, hotkey, fate, barred>>
      /\ consuming' \in BOOLEAN
  BY DEF ConsumeModeChanges, vars, textVars, DeliveryInv, TypeOK
<1>2. TypeOK' /\ Spoken' /\ Withheld'
  BY <1>1 DEF DeliveryInv, TypeOK, Spoken, Withheld
<1>3. OnePlace' /\ OneInFlight' /\ AllPlaced'
  BY <1>1 DEF DeliveryInv, OnePlace, Unasked, OneInFlight, AllPlaced, Placed
<1> QED
  BY <1>2, <1>3 DEF DeliveryInv

LEMMA DeliveryInit == ASSUME Init PROVE DeliveryInv
<1>1. /\ said = 0 /\ pc = [t \in Threads |-> "idle"] /\ doing = [t \in Threads |-> 0]
      /\ asked = {} /\ inFlight = FALSE /\ held = <<>> /\ ring = <<>> /\ slot = 0
      /\ clip = [text |-> 0, by |-> "user"] /\ hotkey = [at |-> "idle", text |-> 0]
      /\ fate = [u \in Utterances |-> "open"] /\ barred = {} /\ consuming = FALSE
  BY DEF Init
<1>2. /\ <<>> \in Seq(Utterances) /\ Len(<<>>) = 0 /\ DOMAIN <<>> = {} /\ ToSet(<<>>) = {}
      /\ 0 \in 0..MaxUtterances /\ 0 <= HeldMax /\ 0 <= RingMax /\ 1..0 = {}
  BY PastingAssumption DEF ToSet
<1>3. TypeOK
  BY <1>1, <1>2 DEF TypeOK
<1>4. Spoken /\ Withheld
  BY <1>1, <1>2 DEF Spoken, Withheld
<1>5. OnePlace
  BY <1>1, <1>2 DEF OnePlace, Unasked, Carrying
<1>6. OneInFlight /\ AllPlaced
  BY <1>1, <1>2 DEF OneInFlight, AllPlaced, Locked
<1> QED
  BY <1>3, <1>4, <1>5, <1>6 DEF DeliveryInv

-----------------------------------------------------------------------------
(* Both together.                                                             *)

LEMMA Invariance == PastingSpec => []IInv
<1>1. PastingInit => IInv
  BY CountdownInit, DeliveryInit DEF PastingInit, IInv
<1>2. IInv /\ [Pasting]_<<side, vars, countdown>> => IInv'
  <2> SUFFICES ASSUME IInv, [Pasting]_<<side, vars, countdown>> PROVE IInv'
    OBVIOUS
  <2>1. CASE Countdown!Next /\ UNCHANGED vars
    <3>1. CountdownInv'
      <4>1. Countdown!Deliver \/ (\E i \in Countdown!Tasks : Countdown!TaskStep(i))
            \/ (\E c \in Countdown!Cancellers : Countdown!CancelStep(c))
        BY <2>1 DEF Countdown!Next
      <4> QED
        BY <4>1, DeliverCounts, TaskCounts, CancelCounts DEF IInv
    <3> QED
      BY <2>1, <3>1, DeliveryStays DEF IInv
  <2>2. CASE Next /\ UNCHANGED countdown
    <3>1. DeliveryInv'
      BY <2>2, SpeakKeeps, RouteKeeps, ParkKeeps, DeliverKeeps, StartKeeps, HeldKeeps,
         ForceKeeps, DeliveryStays
      DEF Next, LoopStep, IInv
    <3> QED
      BY <2>2, <3>1, CountdownStays DEF IInv
  <2>3. CASE UNCHANGED <<side, vars, countdown>>
    BY <2>3, CountdownStays, DeliveryStays DEF IInv
  <2> QED
    BY <2>1, <2>2, <2>3 DEF Pasting
<1> QED
  BY <1>1, <1>2, PTL DEF PastingSpec

\* The variables of both sides hold what their declarations say.
THEOREM PastingTypeCorrect == PastingSpec => [](TypeOK /\ Countdown!TypeOK)
<1>1. IInv => TypeOK /\ Countdown!TypeOK
  BY DEF IInv, CountdownInv, DeliveryInv
<1> QED
  BY <1>1, Invariance, PTL

\* A cancel stops the countdown it was meant for and no later one, a key press
\* stops a countdown that runs alone, and a pressed Return ends the merging.
THEOREM CancelsFindTheirMark == PastingSpec => []CancelsHitTheirMark
<1>1. IInv => CancelsHitTheirMark
  BY DEF IInv, CountdownInv, CancelsHitTheirMark, Countdown!CancelsHitTheirMark
<1> QED
  BY <1>1, Invariance, PTL

\* No text the daemon has is lost without one of the named ends, whatever the
\* threads, the hotkey, the consumer and the expiry do in between.
THEOREM NoTextIsLost == PastingSpec => []EveryTextAccounted
<1>1. IInv => EveryTextAccounted
  BY DEF IInv, DeliveryInv, AllPlaced, Placed, Carrying, EveryTextAccounted
<1> QED
  BY <1>1, Invariance, PTL

\* What a delivery types is its own text, and never one that was withheld,
\* unless the user asked for it.
THEOREM TypedAsIntended == PastingSpec => TypedAsMeant
<1>1. ASSUME IInv, NEW t \in Threads, PressPaste(t) \/ Corrected(t)
      PROVE  t \in asked \/ doing[t] \notin barred
  BY <1>1 DEF IInv, DeliveryInv, OnePlace, Unasked, Carrying, PressPaste, Corrected, At
<1>2. ASSUME IInv, NEW t \in Threads, PressPaste(t), clip.by = "paste" PROVE clip.text = doing[t]
  BY <1>2 DEF IInv, DeliveryInv, OneInFlight, PressPaste, At
<1>3. IInv /\ [Pasting]_<<side, vars, countdown>> =>
         [\A t \in Threads :
            PressPaste(t) \/ Corrected(t) => t \in asked \/ doing[t] \notin barred]_vars
  BY <1>1
<1>4. IInv /\ [Pasting]_<<side, vars, countdown>> =>
         [\A t \in Threads : PressPaste(t) /\ clip.by = "paste" => clip.text = doing[t]]_vars
  BY <1>2
<1> QED
  BY <1>3, <1>4, Invariance, PTL
  DEF PastingSpec, TypedAsMeant, NeverTypedUnasked, DeliveriesKeepTheirText

=============================================================================
