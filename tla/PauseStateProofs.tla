-------------------------- MODULE PauseStateProofs --------------------------
(* Theorems about PauseState, for every set of apps, threads and watchdogs   *)
(* and for any number of controls in flight.                                 *)
EXTENDS PauseState, SequenceTheorems, TLAPS

\* A plan a control may decide on: empty, or ending in a recompute.
Plans == {p \in Seq(Steps) : p = <<>> \/ p[Len(p)] = Recompute}

\* A step that starts no control and moves none: it touches neither the flags
\* nor EFFECTIVE nor a thread.
QuietStep ==
    /\ UNCHANGED <<flags, app, allowed, effective, threadVars, solo, fresh, calm>>
    /\ connected' \in BOOLEAN /\ shown' \in {"none", "paused", "resumed"}
    /\ micPaused' \in BOOLEAN /\ freePolls' \in Nat /\ micTaken' \in BOOLEAN

\* A step in which some thread starts a control.
BeginStep ==
    /\ \E t \in Threads, c \in Controls, p \in Plans : Begin(t, c, p)
    /\ connected' \in BOOLEAN /\ shown' = shown
    /\ micPaused' \in BOOLEAN /\ freePolls' \in Nat

-----------------------------------------------------------------------------
(* Every plan of the module is one of Plans.                                 *)

\* Every single step a plan may hold is one of Steps.
LEMMA StepsOfPlans ==
    /\ Recompute \in Steps
    /\ \A f \in Flags : On(f) \in Steps /\ Off(f) \in Steps
    /\ \A a \in Apps \cup {Own, NoApp} : Focus(a) \in Steps
    /\ \A a \in Apps : List(a) \in Steps /\ Delist(a) \in Steps
BY DEF Steps

\* A control may have nothing to store (a snapshot, a failed peer pause).
LEMMA EmptyPlan == <<>> \in Plans
BY DEF Plans

\* A store followed by a recompute.
LEMMA StorePlan == ASSUME NEW s \in Steps PROVE <<s, Recompute>> \in Plans
BY StepsOfPlans DEF Plans

\* Two stores followed by a recompute.
LEMMA StoresPlan ==
    ASSUME NEW r \in Steps, NEW s \in Steps PROVE <<r, s, Recompute>> \in Plans
BY StepsOfPlans DEF Plans

\* Both orders in which the overridable sources are cleared are plans.
LEMMA ClearPlans == ClearAll \in Plans /\ ClearKeepMaster \in Plans
<1>1. /\ Off("idle") \in Steps /\ Off("master") \in Steps /\ Off("audio") \in Steps
      /\ Off("mic") \in Steps /\ Recompute \in Steps
  BY StepsOfPlans DEF Flags, Sources
<1>2. ClearAll \in Seq(Steps) /\ ClearKeepMaster \in Seq(Steps)
  BY <1>1 DEF ClearAll, ClearKeepMaster
<1>3. ClearAll[Len(ClearAll)] = Recompute /\ ClearKeepMaster[Len(ClearKeepMaster)] = Recompute
  BY DEF ClearAll, ClearKeepMaster
<1>. QED
  BY <1>2, <1>3 DEF Plans

\* A plan that does not end the recompute early may be prefixed with a store.
LEMMA PrefixPlan ==
    ASSUME NEW s \in Steps, NEW p \in Plans, p # <<>>
    PROVE  <<s>> \o p \in Plans /\ <<>> \o p \in Plans
<1>1. p \in Seq(Steps) /\ Len(p) \in Nat /\ Len(p) > 0 /\ p[Len(p)] = Recompute
  BY EmptySeq, LenProperties DEF Plans
<1>2. <<s>> \in Seq(Steps) /\ Len(<<s>>) = 1
  OBVIOUS
<1>3. /\ <<s>> \o p \in Seq(Steps) /\ Len(<<s>> \o p) = 1 + Len(p)
      /\ (<<s>> \o p)[1 + Len(p)] = p[Len(p)]
  BY <1>1, <1>2, ConcatProperties
<1>4. <<>> \o p = p
  BY <1>1, ConcatEmptySeq
<1>. QED
  BY <1>1, <1>3, <1>4 DEF Plans

-----------------------------------------------------------------------------
(* Every action is a step of one of three kinds: it starts a control, moves  *)
(* one, or touches no thread at all.                                         *)

\* The start of any control, whoever starts it, is a BeginStep.
LEMMA BeginIsAStep ==
    ASSUME NEW t \in Threads, NEW c \in Controls, NEW p \in Plans, Begin(t, c, p),
           connected' \in BOOLEAN, shown' = shown, micPaused' \in BOOLEAN, freePolls' \in Nat
    PROVE  BeginStep
BY DEF BeginStep

\* Every user control starts by adopting a plan and changes no flag at once.
LEMMA UserControlBegins ==
    ASSUME TypeOK, NEW t \in Workers, UserControl(t)
    PROVE  BeginStep
<1>. USE PauseAssumption, BeginIsAStep DEF Controls
<1>1. t \in Threads
  BY DEF Threads
<1>2. /\ \A f \in Flags : <<On(f), Recompute>> \in Plans /\ <<Off(f), Recompute>> \in Plans
      /\ \A a \in Apps \cup {Own, NoApp} : <<Focus(a), Recompute>> \in Plans
      /\ \A a \in Apps : <<List(a), Recompute>> \in Plans /\ <<Delist(a), Recompute>> \in Plans
  BY StepsOfPlans, StorePlan
<1>3. /\ connected \in BOOLEAN /\ micPaused \in BOOLEAN /\ freePolls \in Nat
      /\ allowed \subseteq Apps
  BY DEF TypeOK
<1>4. {"idle", "master", "audio", "mic", "noGui", "setup"} \subseteq Flags
  BY DEF Flags, Sources
<1>5. CASE Resume(t)
  BY <1>1, <1>3, <1>5, ClearPlans, EmptyPlan DEF Resume, micVars
<1>6. CASE Toggle(t)
  BY <1>1, <1>2, <1>3, <1>4, <1>6, ClearPlans, EmptyPlan DEF Toggle, micVars
<1>7. CASE PerAppChord(t)
  <2>. DEFINE p == IF app \in allowed THEN <<>> ELSE <<List(app)>>
  <2>1. app \in Apps
    BY <1>7 DEF PerAppChord
  <2>2. <<List(app)>> \o ClearKeepMaster \in Plans /\ <<>> \o ClearKeepMaster \in Plans
    BY <2>1, ClearPlans, StepsOfPlans, PrefixPlan DEF ClearKeepMaster
  <2>3. p \o ClearKeepMaster \in Plans
    BY <2>2
  <2>4. <<IF app \in allowed THEN Delist(app) ELSE List(app), Recompute>> \in Plans
    BY <2>1, <1>2
  <2>. QED
    BY <1>1, <1>2, <1>3, <1>7, <2>1, <2>3, <2>4 DEF PerAppChord, micVars
<1>8. CASE \E b \in BOOLEAN : SetPaused(t, b)
  <2>1. <<Off("idle"), Off("master"), Recompute>> \in Plans
    BY <1>4, StepsOfPlans, StoresPlan
  <2>. QED
    BY <1>1, <1>2, <1>3, <1>4, <1>8, <2>1 DEF SetPaused, micVars
<1>9. CASE \E a \in Apps \cup {Own, NoApp} : FocusChanged(t, a)
  <2>1. PICK a \in Apps \cup {Own, NoApp} : FocusChanged(t, a)
    BY <1>9
  <2>2. <<Focus(a), Recompute>> \in Plans /\ Off("idle") \in Steps
    BY <1>2, <1>4, StepsOfPlans
  <2>3. /\ <<Off("idle")>> \o <<Focus(a), Recompute>> \in Plans
        /\ <<>> \o <<Focus(a), Recompute>> \in Plans
    BY <2>2, PrefixPlan
  <2>4. (IF "idle" \in flags /\ a \in allowed THEN <<Off("idle")>> ELSE <<>>)
           \o <<Focus(a), Recompute>> \in Plans
    BY <2>3
  <2>. QED
    BY <1>1, <1>3, <2>1, <2>4 DEF FocusChanged, micVars
<1>10. CASE \E a \in Apps, listed \in BOOLEAN : SetAppPaused(t, a, listed)
  BY <1>1, <1>2, <1>3, <1>10 DEF SetAppPaused, micVars
<1>11. CASE \E playing, gated \in BOOLEAN : SystemAudio(t, playing, gated)
  BY <1>1, <1>2, <1>3, <1>4, <1>11 DEF SystemAudio, micVars
<1>12. CASE \E enabled \in BOOLEAN : SetupMode(t, enabled)
  BY <1>1, <1>2, <1>3, <1>4, <1>12 DEF SetupMode, micVars
<1>13. CASE Connect(t)
  BY <1>1, <1>2, <1>3, <1>4, <1>13, EmptyPlan DEF Connect, micVars
<1>. QED
  BY <1>5, <1>6, <1>7, <1>8, <1>9, <1>10, <1>11, <1>12, <1>13 DEF UserControl

\* Every watchdog adopts a plan too, or changes no thread (a poll that waits).
LEMMA WatcherBegins ==
    ASSUME TypeOK, WatcherStep
    PROVE  BeginStep \/ QuietStep
<1>. USE PauseAssumption, BeginIsAStep DEF Controls
<1>1. /\ connected \in BOOLEAN /\ shown \in {"none", "paused", "resumed"}
      /\ micPaused \in BOOLEAN /\ freePolls \in Nat /\ micTaken \in BOOLEAN
  BY DEF TypeOK
<1>2. {"idle", "master", "audio", "mic", "noGui", "setup"} \subseteq Flags
  BY DEF Flags, Sources
<1>3. /\ \A f \in Flags : <<On(f), Recompute>> \in Plans /\ <<Off(f), Recompute>> \in Plans
      /\ <<Off("idle"), Off("mic"), Recompute>> \in Plans
  BY <1>2, StepsOfPlans, StorePlan, StoresPlan
<1>4. \A w \in Watchers : w \in Threads
  BY DEF Threads
<1>5. CASE MicPoll
  <2>1. "mic" \in Watchers
    BY <1>5 DEF MicPoll
  <2>2. CASE MicPollTaken
    <3>1. CASE ~micPaused
      <4>1. /\ Begin("mic", "micPause", <<On("mic"), Recompute>>)
            /\ UNCHANGED <<connected, shown>> /\ micPaused' = TRUE /\ freePolls' = 0
        BY <2>2, <3>1, Zenon DEF MicPollTaken
      <4>. QED
        BY <1>1, <1>2, <1>3, <1>4, <2>1, <4>1
    <3>2. CASE micPaused
      BY <1>1, <2>2, <3>2 DEF MicPollTaken, QuietStep, threadVars
    <3>. QED
      BY <3>1, <3>2
  <2>3. ASSUME NEW b \in BOOLEAN, MicPollFree(b) PROVE BeginStep \/ QuietStep
    <3>. DEFINE polls == IF b THEN ResumeFreePolls ELSE freePolls + 1
    <3>1. polls \in Nat
      BY <1>1
    <3>2. CASE /\ polls < ResumeFreePolls /\ pc["mic"] = "ready" /\ freePolls' = polls
               /\ UNCHANGED <<flags, app, allowed, effective, connected, shown, micPaused,
                              micTaken, threadVars, solo, fresh, calm>>
      BY <1>1, <3>1, <3>2 DEF QuietStep, threadVars
    <3>3. CASE /\ micPaused' = FALSE /\ freePolls' = 0
               /\ Begin("mic", "micResume", <<Off("idle"), Off("mic"), Recompute>>)
               /\ UNCHANGED <<connected, shown>>
      BY <1>1, <1>3, <1>4, <2>1, <3>3
    <3>. QED
      BY <2>3, <3>2, <3>3 DEF MicPollFree, FreePollWith, FreePolls
  <2>. QED
    BY <1>5, <2>2, <2>3 DEF MicPoll
<1>6. CASE IdleTick
  BY <1>1, <1>2, <1>3, <1>4, <1>6 DEF IdleTick, micVars
<1>7. CASE WakeOnVoice
  BY <1>1, <1>2, <1>3, <1>4, <1>7 DEF WakeOnVoice, micVars
<1>8. CASE OrphanTick
  BY <1>1, <1>2, <1>3, <1>4, <1>8 DEF OrphanTick, micVars
<1>. QED
  BY <1>5, <1>6, <1>7, <1>8 DEF WatcherStep

\* The three kinds of steps of the whole pause state.
LEMMA StepKinds ==
    ASSUME TypeOK, [Next]_vars
    PROVE  BeginStep \/ QuietStep \/ \E t \in Threads : ThreadStep(t)
<1>1. CASE \E t \in Workers : UserControl(t)
  BY <1>1, UserControlBegins
<1>2. CASE WatcherStep
  BY <1>2, WatcherBegins
<1>3. CASE MicTakenChanges
  BY <1>3 DEF MicTakenChanges, QuietStep, TypeOK, micVars, threadVars
<1>4. CASE Disconnect
  BY <1>4 DEF Disconnect, QuietStep, TypeOK, micVars, threadVars
<1>5. CASE UNCHANGED vars
  BY <1>5 DEF vars, QuietStep, TypeOK, threadVars
<1>. QED
  BY <1>1, <1>2, <1>3, <1>4, <1>5 DEF Next
-----------------------------------------------------------------------------
(* Type correctness, and the facts about plans and overlaps the other        *)
(* theorems need.                                                            *)

\* A thread on its way to EFFECTIVE still has the recompute before it.
PlansEndInRecompute ==
    \A t \in Threads : pc[t] \in {"run", "read", "swap"} => todo[t] # <<>> /\ todo[t] \in Plans

\* The next step of a plan that is not finished, and what is left after it.
LEMMA HeadOfPlan ==
    ASSUME NEW p \in Plans, p # <<>>
    PROVE  /\ p \in Seq(Steps) /\ Head(p) \in Steps /\ Tail(p) \in Plans
           /\ Head(p) # Recompute => Tail(p) # <<>>
<1>0. \A q \in Seq(Steps) : Len(q) \in Nat /\ (q # <<>> <=> Len(q) # 0)
  BY EmptySeq, LenProperties
<1>1. p \in Seq(Steps) /\ Len(p) \in Nat /\ Len(p) # 0 /\ p[Len(p)] = Recompute
  BY <1>0 DEF Plans
<1>2. PICK tl : /\ tl = Tail(p) /\ tl \in Seq(Steps) /\ Len(tl) = Len(p) - 1
                /\ \A i \in 1..Len(tl) : tl[i] = p[i+1]
  BY <1>1, HeadTailProperties
<1>3. Head(p) \in Steps /\ Head(p) = p[1]
  BY <1>1, HeadTailProperties
<1>4. CASE tl = <<>>
  <2>0. Len(tl) = 0
    BY <1>0, <1>2, <1>4
  <2>1. Len(p) = 1
    BY <1>1, <1>2, <2>0
  <2>. QED
    BY <1>1, <1>2, <1>3, <1>4, <2>1 DEF Plans
<1>5. CASE tl # <<>>
  <2>1. Len(tl) \in 1..Len(tl) /\ Len(tl) + 1 = Len(p)
    BY <1>0, <1>1, <1>2, <1>5
  <2>2. tl[Len(tl)] = Recompute
    BY <1>1, <1>2, <2>1
  <2>. QED
    BY <1>1, <1>2, <1>3, <1>5, <2>2 DEF Plans
<1>. QED
  BY <1>4, <1>5

\* What one store may write.
LEMMA StoreTypes ==
    ASSUME TypeOK, NEW t \in Threads, PlansEndInRecompute, Store(t)
    PROVE  flags' \in SUBSET Flags /\ app' \in Apps \cup {Own, NoApp} /\ allowed' \in SUBSET Apps
<1>1. Head(todo[t]) \in Steps
  BY HeadOfPlan DEF Store, PlansEndInRecompute
<1>2. /\ Head(todo[t]).do \in {"on", "off"} => Head(todo[t]).arg \in Flags
      /\ Head(todo[t]).do = "focus" => Head(todo[t]).arg \in Apps \cup {Own, NoApp}
      /\ Head(todo[t]).do \in {"list", "delist"} => Head(todo[t]).arg \in Apps
  BY <1>1 DEF Steps, On, Off, Focus, List, Delist, Recompute
<1>. QED
  BY <1>2 DEF Store, TypeOK

Typed == TypeOK /\ PlansEndInRecompute

\* The typing invariant holds at start-up.
LEMMA TypedInit == Init => Typed
<1>. SUFFICES ASSUME Init PROVE Typed
  OBVIOUS
<1>1. <<>> \in Seq(Steps)
  BY EmptySeq
<1>2. TypeOK
  <2>1. /\ flags \in SUBSET Flags /\ app \in Apps \cup {Own, NoApp} /\ allowed \in SUBSET Apps
        /\ freePolls \in Nat /\ shown \in {"none", "paused", "resumed"}
    BY DEF Init
  <2>2. /\ effective \in BOOLEAN /\ connected \in BOOLEAN /\ micPaused \in BOOLEAN
        /\ micTaken \in BOOLEAN /\ solo \in BOOLEAN /\ fresh \in BOOLEAN
        /\ calm \in BOOLEAN
    BY DEF Init
  <2>3. /\ pc \in [Threads -> {"ready", "run", "read", "swap", "say"}]
        /\ cmd \in [Threads -> Controls \cup {"none"}] /\ at \in [Threads -> 1..7]
    BY DEF Init
  <2>4. todo \in [Threads -> Seq(Steps)]
    BY <1>1 DEF Init
  <2>5. val \in [Threads -> BOOLEAN] /\ flip \in [Threads -> BOOLEAN]
    BY DEF Init
  <2>. QED
    BY <2>1, <2>2, <2>3, <2>4, <2>5 DEF TypeOK
<1>3. PlansEndInRecompute
  BY DEF Init, PlansEndInRecompute
<1>. QED
  BY <1>2, <1>3 DEF Typed

\* Starting a control keeps it.
LEMMA TypedBegin == ASSUME Typed, BeginStep PROVE Typed'
<1>1. PICK t \in Threads, c \in Controls, p \in Plans : Begin(t, c, p)
  BY DEF BeginStep
<1>2. p \in Seq(Steps)
  BY DEF Plans
<1>3. TypeOK'
  BY <1>1, <1>2 DEF Begin, BeginStep, Typed, TypeOK
<1>4. PlansEndInRecompute'
  BY <1>1 DEF Begin, Typed, TypeOK, PlansEndInRecompute
<1>. QED
  BY <1>3, <1>4 DEF Typed

\* Every step of a running control keeps it.
LEMMA TypedThread == ASSUME Typed, NEW t \in Threads, ThreadStep(t) PROVE Typed'
<1>. USE DEF Typed
<1>1. pc[t] \in {"run", "read", "swap"} =>
        /\ todo[t] # <<>> /\ todo[t] \in Plans /\ Tail(todo[t]) \in Plans
        /\ Tail(todo[t]) \in Seq(Steps)
        /\ Head(todo[t]) # Recompute => Tail(todo[t]) # <<>>
  BY HeadOfPlan DEF PlansEndInRecompute, Plans
<1>2. CASE Store(t)
  <2>1. TypeOK'
    BY ZenonT(30), <1>1, <1>2, StoreTypes DEF Store, TypeOK, micVars
  <2>2. PlansEndInRecompute'
    BY <1>1, <1>2 DEF Store, TypeOK, PlansEndInRecompute
  <2>. QED
    BY <2>1, <2>2
<1>3. CASE StartRecompute(t)
  BY <1>1, <1>3 DEF StartRecompute, TypeOK, PlansEndInRecompute, micVars
<1>4. CASE LoadFlag(t)
  <2>1. Len(LoadOrder) = 6
    BY DEF LoadOrder
  <2>2. at[t] \in 1..6
    BY <1>4, <2>1 DEF LoadFlag, TypeOK
  <2>3. at' \in [Threads -> 1..7]
    <3>1. CASE UNCHANGED at
      BY <3>1 DEF TypeOK
    <3>2. CASE at' = [at EXCEPT ![t] = at[t] + 1]
      BY <2>2, <3>2 DEF TypeOK
    <3>. QED
      BY <1>4, <3>1, <3>2 DEF LoadFlag
  <2>. QED
    BY ZenonT(30), <1>1, <1>4, <2>3 DEF LoadFlag, TypeOK, PlansEndInRecompute, micVars
<1>5. CASE LoadApp(t)
  <2>1. PausedHere(app, allowed) \in BOOLEAN
    BY PauseAssumption DEF PausedHere
  <2>. QED
    BY <1>1, <1>5, <2>1 DEF LoadApp, TypeOK, PlansEndInRecompute, micVars
<1>6. CASE Swap(t)
  BY <1>1, <1>6 DEF Swap, TypeOK, PlansEndInRecompute, micVars
<1>7. CASE Say(t)
  <2>1. shown' \in {"none", "paused", "resumed"}
    BY <1>7 DEF Say, Heard, TypeOK
  <2>. QED
    BY <1>7, <2>1 DEF Say, TypeOK, PlansEndInRecompute, micVars
<1>. QED
  BY <1>2, <1>3, <1>4, <1>5, <1>6, <1>7 DEF ThreadStep

\* So does every step.
LEMMA TypedNext == Typed /\ [Next]_vars => Typed'
<1>. SUFFICES ASSUME Typed, [Next]_vars PROVE Typed'
  OBVIOUS
<1>1. CASE QuietStep
  BY <1>1 DEF QuietStep, Typed, TypeOK, PlansEndInRecompute, threadVars
<1>. QED
  BY <1>1, StepKinds, TypedBegin, TypedThread DEF Typed

\* Every variable keeps its type whatever controls overlap: in particular a
\* recompute never loads past the last flag, and a plan is never run past its end.
THEOREM TypeCorrect == Spec => []TypeOK
BY TypedInit, TypedNext, PTL DEF Spec, Typed

-----------------------------------------------------------------------------
(* EFFECTIVE is exact after a recompute that overlapped nothing.             *)

\* A control that started alone is still the only one.
SoloIsAlone == solo => \A t, u \in InFlight : t = u

\* What its recompute has loaded so far still holds.
SoloReadsHold ==
    solo => \A t \in Threads :
        /\ pc[t] = "read" => \A i \in 1..(at[t] - 1) : LoadOrder[i] \notin flags
        /\ pc[t] = "swap" => val[t] = Derived

\* Between controls, EFFECTIVE is what the flags derive.
FreshIsDerived ==
    fresh /\ (\A t \in Threads : pc[t] \in {"ready", "say"}) => effective = Derived

Exact == SoloIsAlone /\ SoloReadsHold /\ FreshIsDerived

\* The flags LoadOrder lists are all the flags compute_effective tests.
LEMMA LoadOrderComplete ==
    /\ \A i \in 1..6 : LoadOrder[i] \in Flags /\ (LoadOrder[i] # "setup" <=> i # 6)
    /\ \A f \in Flags : \E i \in 1..6 : LoadOrder[i] = f
    /\ Len(LoadOrder) = 6
<1>1. /\ LoadOrder[1] = "master" /\ LoadOrder[2] = "audio" /\ LoadOrder[3] = "mic"
      /\ LoadOrder[4] = "noGui" /\ LoadOrder[5] = "idle" /\ LoadOrder[6] = "setup"
      /\ Len(LoadOrder) = 6
  BY DEF LoadOrder
<1>2. 1..6 = {1, 2, 3, 4, 5, 6}
  OBVIOUS
<1>. QED
  BY <1>1, <1>2 DEF Flags, Sources

\* The invariant about recomputes that run alone holds at start-up.
LEMMA ExactInit == Init => Exact
BY DEF Init, Exact, SoloIsAlone, SoloReadsHold, FreshIsDerived

\* Starting a control keeps it: a second one is never called solo.
LEMMA ExactBegin == ASSUME Typed, Exact, BeginStep PROVE Exact'
<1>1. PICK t \in Threads, c \in Controls, p \in Plans : Begin(t, c, p)
  BY DEF BeginStep
<1>2. Derived' = Derived
  BY <1>1 DEF Begin, Derived
<1>3. /\ pc' = [pc EXCEPT ![t] = pc'[t]] /\ pc'[t] \in {"run", "say"} /\ pc[t] = "ready"
      /\ solo' = (InFlight = {})
  BY <1>1 DEF Begin, Typed, TypeOK
<1>4. SoloIsAlone'
  BY ZenonT(30), <1>3 DEF SoloIsAlone, InFlight, Typed, TypeOK
<1>5. SoloReadsHold'
  BY <1>3 DEF SoloReadsHold, InFlight, Typed, TypeOK
<1>6. FreshIsDerived'
  BY <1>1, <1>2, <1>3 DEF Begin, Exact, FreshIsDerived, Typed, TypeOK
<1>. QED
  BY <1>4, <1>5, <1>6 DEF Exact

\* The other threads are idle while a solo control runs.
LEMMA OthersReady ==
    ASSUME Exact, solo, NEW t \in Threads, pc[t] # "ready", NEW u \in Threads, u # t
    PROVE  pc[u] = "ready"
BY DEF Exact, SoloIsAlone, InFlight

\* Every step of a running control keeps it.
LEMMA ExactThread == ASSUME Typed, Exact, NEW t \in Threads, ThreadStep(t) PROVE Exact'
<1>1. CASE Store(t)
  <2>1. pc' = pc /\ solo' = solo /\ pc[t] = "run"
    BY <1>1 DEF Store
  <2>2. SoloIsAlone'
    BY <2>1 DEF Exact, SoloIsAlone, InFlight
  <2>3. SoloReadsHold'
    BY <2>1, OthersReady DEF SoloReadsHold
  <2>4. FreshIsDerived'
    BY <2>1 DEF FreshIsDerived
  <2>. QED
    BY <2>2, <2>3, <2>4 DEF Exact
<1>2. CASE StartRecompute(t)
  <2>1. /\ pc' = [pc EXCEPT ![t] = "read"] /\ at' = [at EXCEPT ![t] = 1] /\ pc[t] = "run"
        /\ UNCHANGED <<flags, solo, val>> /\ Derived' = Derived
    BY <1>2 DEF StartRecompute, Derived
  <2>2. SoloIsAlone'
    BY <2>1 DEF Exact, SoloIsAlone, InFlight, Typed, TypeOK
  <2>3. SoloReadsHold'
    <3>1. pc'[t] = "read" /\ at'[t] = 1
      BY <2>1 DEF Typed, TypeOK
    <3>2. \A u \in Threads : u # t => pc'[u] = pc[u]
      BY <2>1 DEF Typed, TypeOK
    <3>. QED
      BY <2>1, <3>1, <3>2, OthersReady DEF SoloReadsHold
  <2>4. FreshIsDerived'
    BY <2>1 DEF FreshIsDerived, Typed, TypeOK
  <2>. QED
    BY <2>2, <2>3, <2>4 DEF Exact
<1>3. CASE LoadFlag(t)
  <2>1. pc[t] = "read" /\ at[t] \in 1..6 /\ UNCHANGED <<flags, solo>> /\ Derived' = Derived
    BY <1>3, LoadOrderComplete DEF LoadFlag, Derived, Typed, TypeOK
  <2>2. CASE /\ LoadOrder[at[t]] \in flags /\ val' = [val EXCEPT ![t] = (LoadOrder[at[t]] # "setup")]
             /\ pc' = [pc EXCEPT ![t] = "swap"] /\ UNCHANGED at
    <3>1. SoloIsAlone'
      BY <2>1, <2>2 DEF Exact, SoloIsAlone, InFlight, Typed, TypeOK
    <3>2. ASSUME solo PROVE (LoadOrder[at[t]] # "setup") = Derived
      <4>1. \A i \in 1..(at[t] - 1) : LoadOrder[i] \notin flags
        BY <2>1, <3>2 DEF Exact, SoloReadsHold
      <4>2. CASE at[t] = 6
        <5>1. \A f \in Sources : f \notin flags
          BY <2>1, <4>1, <4>2, LoadOrderComplete DEF Flags, Sources
        <5>2. "setup" \in flags
          BY <2>2, <4>2 DEF LoadOrder
        <5>3. Derived = FALSE
          BY <5>1, <5>2 DEF Derived
        <5>4. (LoadOrder[at[t]] # "setup") = FALSE
          BY <4>2, LoadOrderComplete
        <5>. QED
          BY <5>3, <5>4, Zenon
      <4>3. CASE at[t] # 6
        <5>1. LoadOrder[at[t]] \in Sources /\ LoadOrder[at[t]] # "setup"
          BY <2>1, <4>3, LoadOrderComplete DEF Flags
        <5>2. LoadOrder[at[t]] \in flags \cap Sources
          BY <2>2, <5>1
        <5>3. Derived = TRUE
          BY <5>2 DEF Derived
        <5>4. (LoadOrder[at[t]] # "setup") = TRUE
          BY <5>1
        <5>. QED
          BY <5>3, <5>4, Zenon
      <4>. QED
        BY <4>2, <4>3
    <3>3. SoloReadsHold'
      BY <2>1, <2>2, <3>2, OthersReady DEF SoloReadsHold, Typed, TypeOK
    <3>4. FreshIsDerived'
      BY <2>1, <2>2 DEF FreshIsDerived, Typed, TypeOK
    <3>. QED
      BY <3>1, <3>3, <3>4 DEF Exact
  <2>3. CASE /\ LoadOrder[at[t]] \notin flags /\ at' = [at EXCEPT ![t] = @ + 1]
             /\ UNCHANGED <<val, pc>>
    <3>1. SoloIsAlone'
      BY <2>1, <2>3 DEF Exact, SoloIsAlone, InFlight
    <3>2. ASSUME solo PROVE \A i \in 1..(at'[t] - 1) : LoadOrder[i] \notin flags
      <4>1. \A i \in 1..(at[t] - 1) : LoadOrder[i] \notin flags
        BY <2>1, <3>2 DEF Exact, SoloReadsHold
      <4>2. at'[t] = at[t] + 1
        BY <2>3 DEF Typed, TypeOK
      <4>. QED
        BY <2>1, <2>3, <4>1, <4>2
    <3>3. SoloReadsHold'
      BY <2>1, <2>3, <3>2, OthersReady DEF SoloReadsHold
    <3>4. FreshIsDerived'
      BY <2>1, <2>3 DEF FreshIsDerived
    <3>. QED
      BY <3>1, <3>3, <3>4 DEF Exact
  <2>. QED
    BY <1>3, <2>2, <2>3 DEF LoadFlag
<1>4. CASE LoadApp(t)
  <2>1. /\ pc[t] = "read" /\ at[t] = 7 /\ UNCHANGED <<flags, solo>> /\ Derived' = Derived
        /\ val' = [val EXCEPT ![t] = PausedHere(app, allowed)] /\ pc' = [pc EXCEPT ![t] = "swap"]
    <3>1. at[t] \in 1..7 /\ at[t] > 6 /\ pc[t] = "read"
      BY <1>4, LoadOrderComplete DEF LoadApp, Typed, TypeOK
    <3>2. /\ UNCHANGED <<flags, solo, app, allowed>>
          /\ val' = [val EXCEPT ![t] = PausedHere(app, allowed)] /\ pc' = [pc EXCEPT ![t] = "swap"]
      BY <1>4 DEF LoadApp
    <3>3. Derived' = Derived
      BY <3>2 DEF Derived
    <3>. QED
      BY <3>1, <3>2, <3>3
  <2>2. SoloIsAlone'
    BY <2>1 DEF Exact, SoloIsAlone, InFlight, Typed, TypeOK
  <2>3. ASSUME solo PROVE PausedHere(app, allowed) = Derived
    <3>1. \A i \in 1..6 : LoadOrder[i] \notin flags
      BY <2>1, <2>3 DEF Exact, SoloReadsHold
    <3>2. flags \cap Flags = {}
      BY <3>1, LoadOrderComplete
    <3>3. PausedHere(app, allowed) \in BOOLEAN
      BY PauseAssumption DEF PausedHere
    <3>. QED
      BY <3>2, <3>3 DEF Derived, Flags
  <2>4. SoloReadsHold'
    BY <2>1, <2>3, OthersReady DEF SoloReadsHold, Typed, TypeOK
  <2>5. FreshIsDerived'
    BY <2>1 DEF FreshIsDerived, Typed, TypeOK
  <2>. QED
    BY <2>2, <2>4, <2>5 DEF Exact
<1>5. CASE Swap(t)
  <2>1. /\ pc[t] = "swap" /\ effective' = val[t] /\ fresh' = solo /\ UNCHANGED <<flags, solo, val, at>>
        /\ Derived' = Derived /\ pc' = [pc EXCEPT ![t] = pc'[t]] /\ pc'[t] \in {"run", "say"}
    BY <1>5 DEF Swap, Derived, Typed, TypeOK
  <2>2. SoloIsAlone'
    BY <2>1 DEF Exact, SoloIsAlone, InFlight, Typed, TypeOK
  <2>3. SoloReadsHold'
    BY <2>1, OthersReady DEF SoloReadsHold, Typed, TypeOK
  <2>4. FreshIsDerived'
    BY <2>1 DEF FreshIsDerived, Exact, SoloReadsHold
  <2>. QED
    BY <2>2, <2>3, <2>4 DEF Exact
<1>6. CASE Say(t)
  <2>1. /\ pc[t] = "say" /\ UNCHANGED <<flags, solo, effective, fresh>> /\ Derived' = Derived
        /\ pc' = [pc EXCEPT ![t] = "ready"]
        /\ \A u \in Threads : u # t => at'[u] = at[u] /\ val'[u] = val[u]
    BY <1>6 DEF Say, Derived, Typed, TypeOK
  <2>2. SoloIsAlone'
    BY <2>1 DEF Exact, SoloIsAlone, InFlight, Typed, TypeOK
  <2>3. SoloReadsHold'
    BY <2>1, OthersReady DEF SoloReadsHold, Typed, TypeOK
  <2>4. FreshIsDerived'
    BY <2>1 DEF FreshIsDerived, Exact, Typed, TypeOK
  <2>. QED
    BY <2>2, <2>3, <2>4 DEF Exact
<1>. QED
  BY <1>1, <1>2, <1>3, <1>4, <1>5, <1>6 DEF ThreadStep

\* So does every step.
LEMMA ExactNext == Typed /\ Exact /\ [Next]_vars => Exact'
<1>. SUFFICES ASSUME Typed, Exact, [Next]_vars PROVE Exact'
  OBVIOUS
<1>1. CASE QuietStep
  BY <1>1 DEF QuietStep, Exact, SoloIsAlone, SoloReadsHold, FreshIsDerived, InFlight, Derived,
              threadVars
<1>. QED
  BY <1>1, StepKinds, ExactBegin, ExactThread DEF Typed

\* EFFECTIVE_PAUSED cannot drift by itself: however many controls overlapped
\* earlier, one control that runs alone leaves it equal to what master, the
\* watchdogs, setup mode and the allowlist say, until another control starts.
THEOREM EffectiveExact == Spec => []EffectiveIsDerived
<1>1. Exact => EffectiveIsDerived
  BY DEF Exact, FreshIsDerived, EffectiveIsDerived, Quiescent, InFlight
<1>. QED
  BY <1>1, TypedInit, TypedNext, ExactInit, ExactNext, PTL DEF Spec

-----------------------------------------------------------------------------
(* What the controls are about to do, and what they mean.                     *)

\* The steps a plan holds.
StepsIn(p) == {p[i] : i \in 1..Len(p)}
Ahead(t)   == StepsIn(todo[t])

\* No step of the plan but the last recomputes.
RecomputesLast(p) == \A i \in 1..Len(p) : p[i] = Recompute => i = Len(p)

Overridable == {"idle", "master", "audio", "mic"}
Lifting == {Off(f) : f \in Overridable} \cup {Recompute}
Muting  == {On("master"), Recompute}
Easing  == {Off("audio"), Off("idle"), Recompute}

\* The controls by which a watchdog pauses, and the source each of them sets.
Raising == {"audioPlay", "micPause", "idlePause"}
Raised(c) == CASE c = "audioPlay" -> "audio" [] c = "micPause" -> "mic" [] OTHER -> "idle"

\* What the pause state shows and what the user cannot override by the toggle.
Told == IF effective THEN "paused" ELSE "resumed"
Stays == "noGui" \in flags \/ ("setup" \notin flags /\ PausedHere(app, allowed))

\* How control c decides on plan p.
Decides(t, c, p) ==
    /\ t \in Watchers => Off("master") \notin StepsIn(p)
    /\ c # "chord" => RecomputesLast(p)
    /\ p = <<>> => c \in {"resume", "toggle", "connect"}
    /\ c = "toggle" /\ p # <<>> =>
          \/ StepsIn(p) = Lifting /\ (UserResumable \/ StartupDefault)
          \/ StepsIn(p) = Muting /\ ~(UserResumable \/ StartupDefault)
    /\ c \in Raising => StepsIn(p) = {On(Raised(c)), Recompute}
    /\ c \in {"audioGated", "idleWake"} => StepsIn(p) \subseteq Easing
    /\ c = "audioStopIdle" => StepsIn(p) = {Off("audio"), Recompute} /\ "idle" \in flags
    /\ c \in {"orphan", "connect"} => ~connected
    /\ c = "setup" => "setup" \in Commands
    /\ shown' = shown /\ (c = "connect" => connected') /\ (c # "connect" => UNCHANGED connected)

\* A step that starts a control, and one that touches no thread.
StartStep == \E t \in Threads, c \in Controls, p \in Plans : Begin(t, c, p) /\ Decides(t, c, p)
IdleStep ==
    /\ UNCHANGED <<flags, app, allowed, effective, threadVars, solo, fresh, calm>>
    /\ \/ UNCHANGED <<connected, shown>>
       \/ shown # "none" /\ connected' = FALSE /\ shown' = "none"

-----------------------------------------------------------------------------
(* The inductive invariant.                                                   *)

\* No watchdog is about to lift the user's pause.
MasterSpared == \A t \in Watchers : pc[t] # "ready" => Off("master") \notin Ahead(t)

\* A recompute that was begun is the next step of its plan.
AtRecompute == \A t \in Threads : pc[t] \in {"read", "swap"} => Head(todo[t]) = Recompute
LastRecompute ==
    \A t \in Threads : pc[t] # "ready" /\ cmd[t] # "chord" => RecomputesLast(todo[t])

\* A press that is to lift lifts from a pause, and one that is to mute finds either
\* no pause or one that stays.
Lifts(t) ==
    /\ effective /\ Ahead(t) \subseteq Lifting
    /\ \A f \in flags \cap Overridable : Off(f) \in Ahead(t)
Mutes(t) ==
    /\ ~effective \/ Stays
    /\ Ahead(t) \subseteq Muting /\ ("master" \in flags \/ On("master") \in Ahead(t))
Toggles ==
    \A t \in Threads :
        pc[t] \in {"run", "read", "swap"} /\ cmd[t] = "toggle" => Lifts(t) \/ Mutes(t)

\* Until two controls overlap, each runs solo and EFFECTIVE is never short of a pause.
CalmIsSolo == InFlight # {} => solo
NoPauseMissed == (\A t \in Threads : pc[t] \in {"ready", "say"}) => (Derived => effective)

CalmInv == calm => CalmIsSolo /\ NoPauseMissed /\ Toggles

ControlInv == AtRecompute /\ LastRecompute /\ MasterSpared /\ CalmInv

\* What the GUI was told while a control runs: the controls that tell it in every
\* case aside, what it was told stands until the swap.
Loud == {"resume", "toggle", "chord", "connect"}
GuiRuns(t) ==
    /\ cmd[t] \in Loud \/ shown \in {"none", Told}
    /\ cmd[t] \in Raising =>
          /\ Ahead(t) \subseteq {On(Raised(cmd[t])), Recompute}
          /\ Raised(cmd[t]) \in flags \/ On(Raised(cmd[t])) \in Ahead(t)
    /\ cmd[t] \in {"audioGated", "idleWake"} => Ahead(t) \subseteq Easing /\ (Derived => effective)
    /\ cmd[t] = "audioStopIdle" =>
          Ahead(t) \subseteq {Off("audio"), Recompute} /\ "idle" \in flags /\ effective

\* At its end a control says what the GUI does not know yet.
GuiEnds(t) ==
    /\ val[t] = effective
    /\ \/ shown = "none"
       \/ Heard(cmd[t], val[t], flip[t]) = Told
       \/ Heard(cmd[t], val[t], flip[t]) = "silent" /\ shown = Told

GuiInv ==
    calm =>
        /\ ~connected => shown = "none"
        /\ Quiescent => shown \in {"none", Told}
        /\ \A t \in Threads :
              /\ cmd[t] # "setup"
              /\ pc[t] # "ready" =>
                    /\ cmd[t] \in Controls
                    /\ cmd[t] = "orphan" => shown = "none"
                    /\ cmd[t] = "connect" => shown = "none" /\ connected
              /\ pc[t] \in {"run", "read", "swap"} => GuiRuns(t)
              /\ pc[t] = "say" => GuiEnds(t)

-----------------------------------------------------------------------------
(* The steps of a plan.                                                       *)

\* Steps of different kinds differ, and so do those about different flags.
LEMMA StepNames ==
    /\ \A f : On(f) # Recompute /\ Off(f) # Recompute
    /\ \A f : Focus(f) # Recompute /\ List(f) # Recompute /\ Delist(f) # Recompute
    /\ \A f, g : On(f) # Off(g) /\ (On(f) = On(g) => f = g) /\ (Off(f) = Off(g) => f = g)
BY DEF On, Off, Focus, List, Delist, Recompute

\* A plan holds its first step and those of what is left after it, and a plan
\* whose only recompute is the last step is over once it has come to it.
LEMMA StepsLeft ==
    ASSUME NEW p \in Seq(Steps), p # <<>>
    PROVE  /\ Head(p) \in StepsIn(p) /\ StepsIn(p) = {Head(p)} \cup StepsIn(Tail(p))
           /\ RecomputesLast(p) => RecomputesLast(Tail(p))
           /\ RecomputesLast(p) /\ Head(p) = Recompute => Tail(p) = <<>> /\ StepsIn(p) = {Recompute}
<1>1. Len(p) \in Nat /\ Len(p) # 0
  BY EmptySeq, LenProperties
<1>2. PICK tl : /\ tl = Tail(p) /\ tl \in Seq(Steps) /\ Len(tl) = Len(p) - 1
                /\ \A i \in 1..Len(tl) : tl[i] = p[i+1]
  BY <1>1, HeadTailProperties
<1>3. Head(p) = p[1] /\ 1 \in 1..Len(p)
  BY <1>1, HeadTailProperties
<1>4. StepsIn(p) = {Head(p)} \cup StepsIn(tl)
  <2>1. ASSUME NEW i \in 1..Len(p) PROVE p[i] = Head(p) \/ p[i] \in StepsIn(tl)
    <3>1. CASE i = 1
      BY <1>3, <3>1
    <3>2. CASE i # 1
      <4>1. i - 1 \in 1..Len(tl) /\ (i - 1) + 1 = i
        BY <1>1, <1>2, <3>2
      <4>2. tl[i - 1] = p[i]
        BY <1>2, <4>1
      <4>. QED
        BY <4>1, <4>2 DEF StepsIn
    <3>. QED
      BY <3>1, <3>2
  <2>2. ASSUME NEW i \in 1..Len(tl) PROVE tl[i] \in StepsIn(p)
    <3>1. i + 1 \in 1..Len(p) /\ tl[i] = p[i + 1]
      BY <1>1, <1>2
    <3>. QED
      BY <3>1 DEF StepsIn
  <2>. QED
    BY <1>3, <2>1, <2>2 DEF StepsIn
<1>5. ASSUME RecomputesLast(p) PROVE RecomputesLast(tl)
  <2>1. ASSUME NEW i \in 1..Len(tl), tl[i] = Recompute PROVE i = Len(tl)
    <3>1. i + 1 \in 1..Len(p) /\ p[i + 1] = Recompute
      BY <1>1, <1>2, <2>1
    <3>2. i + 1 = Len(p)
      BY <1>5, <3>1 DEF RecomputesLast
    <3>3. Len(tl) = Len(p) - 1 /\ i \in Int
      BY <1>2
    <3>. QED
      BY <1>1, <3>2, <3>3
  <2>. QED
    BY <2>1 DEF RecomputesLast
<1>6. ASSUME RecomputesLast(p), Head(p) = Recompute PROVE tl = <<>> /\ StepsIn(tl) = {}
  <2>1. Len(p) = 1
    BY <1>3, <1>6 DEF RecomputesLast
  <2>2. Len(tl) = 0
    BY <1>2, <2>1
  <2>3. tl = <<>>
    BY <1>2, <2>2, EmptySeq
  <2>. QED
    BY <2>2, <2>3 DEF StepsIn
<1>. QED
  BY <1>2, <1>4, <1>5, <1>6

\* The steps of the short plans, and of the one that clears everything.
LEMMA StepsOf ==
    /\ StepsIn(<<>>) = {} /\ RecomputesLast(<<>>)
    /\ \A r : r # Recompute => /\ StepsIn(<<r, Recompute>>) = {r, Recompute}
                               /\ RecomputesLast(<<r, Recompute>>)
    /\ \A r, s : r # Recompute /\ s # Recompute =>
           /\ StepsIn(<<r, s, Recompute>>) = {r, s, Recompute}
           /\ RecomputesLast(<<r, s, Recompute>>)
    /\ StepsIn(ClearAll) = Lifting /\ RecomputesLast(ClearAll)
<1>1. 1..0 = {} /\ 1..2 = {1, 2} /\ 1..3 = {1, 2, 3} /\ 1..5 = {1, 2, 3, 4, 5}
  OBVIOUS
<1>2. StepsIn(<<>>) = {} /\ RecomputesLast(<<>>)
  BY <1>1 DEF StepsIn, RecomputesLast
<1>3. ASSUME NEW r, r # Recompute
      PROVE  StepsIn(<<r, Recompute>>) = {r, Recompute} /\ RecomputesLast(<<r, Recompute>>)
  <2>. DEFINE p == <<r, Recompute>>
  <2>1. Len(p) = 2 /\ p[1] = r /\ p[2] = Recompute
    OBVIOUS
  <2>. HIDE DEF p
  <2>2. StepsIn(p) = {r, Recompute} /\ RecomputesLast(p)
    BY <1>1, <1>3, <2>1 DEF StepsIn, RecomputesLast
  <2>. QED
    BY <2>2 DEF p
<1>4. ASSUME NEW r, NEW s, r # Recompute, s # Recompute
      PROVE  /\ StepsIn(<<r, s, Recompute>>) = {r, s, Recompute}
             /\ RecomputesLast(<<r, s, Recompute>>)
  <2>. DEFINE p == <<r, s, Recompute>>
  <2>1. Len(p) = 3 /\ p[1] = r /\ p[2] = s /\ p[3] = Recompute
    OBVIOUS
  <2>. HIDE DEF p
  <2>2. StepsIn(p) = {r, s, Recompute} /\ RecomputesLast(p)
    BY <1>1, <1>4, <2>1 DEF StepsIn, RecomputesLast
  <2>. QED
    BY <2>2 DEF p
<1>5. StepsIn(ClearAll) = Lifting /\ RecomputesLast(ClearAll)
  <2>1. /\ Len(ClearAll) = 5 /\ ClearAll[1] = Off("idle") /\ ClearAll[2] = Off("master")
        /\ ClearAll[3] = Off("audio") /\ ClearAll[4] = Off("mic") /\ ClearAll[5] = Recompute
    BY DEF ClearAll
  <2>2. StepsIn(ClearAll) = {Off("idle"), Off("master"), Off("audio"), Off("mic"), Recompute}
    BY <1>1, <2>1 DEF StepsIn
  <2>3. {Off(f) : f \in Overridable} = {Off("idle"), Off("master"), Off("audio"), Off("mic")}
    BY DEF Overridable
  <2>4. RecomputesLast(ClearAll)
    BY <1>1, <2>1, StepNames DEF RecomputesLast
  <2>. QED
    BY <2>2, <2>3, <2>4 DEF Lifting
<1>. QED
  BY <1>2, <1>3, <1>4, <1>5

-----------------------------------------------------------------------------
(* Every action starts a control as Decides says, moves one, or moves none.   *)

\* The controls that only store and recompute decide nothing else.
LEMMA DecidesPlain ==
    ASSUME NEW t \in Threads, NEW p \in Plans, RecomputesLast(p), p # <<>>,
           NEW c \in {"resume", "setPaused", "focus", "setApp", "audioStop", "micResume"},
           t \in Watchers => Off("master") \notin StepsIn(p),
           connected' = connected, shown' = shown
    PROVE  Decides(t, c, p)
BY DEF Decides, Raised, Raising

\* A control starts whenever a thread adopts a plan it may decide on.
LEMMA StartIsAStep ==
    ASSUME NEW t \in Threads, NEW c \in Controls, NEW p \in Plans, Begin(t, c, p), Decides(t, c, p)
    PROVE  StartStep
BY DEF StartStep

\* The plans of the user's controls and of the watchdogs.
LEMMA PlansUsed ==
    /\ <<>> \in Plans /\ ClearAll \in Plans /\ ClearKeepMaster \in Plans
    /\ \A f \in Flags : /\ <<On(f), Recompute>> \in Plans /\ <<Off(f), Recompute>> \in Plans
                        /\ <<On(f), Recompute>> # <<>> /\ <<Off(f), Recompute>> # <<>>
    /\ \A f, g \in Flags : /\ <<Off(f), Off(g), Recompute>> \in Plans
                           /\ <<Off(f), Off(g), Recompute>> # <<>>
    /\ \A a \in Apps : <<List(a), Recompute>> \in Plans /\ <<Delist(a), Recompute>> \in Plans
    /\ {"idle", "master", "audio", "mic", "noGui", "setup"} \subseteq Flags
<1>1. {"idle", "master", "audio", "mic", "noGui", "setup"} \subseteq Flags
  BY DEF Flags, Sources
<1>2. \A r, s : <<r, Recompute>> # <<>> /\ <<r, s, Recompute>> # <<>>
  <2>1. ASSUME NEW r, NEW s PROVE <<r, Recompute>> # <<>> /\ <<r, s, Recompute>> # <<>>
    <3>1. Len(<<r, Recompute>>) = 2 /\ Len(<<r, s, Recompute>>) = 3 /\ Len(<<>>) = 0
      OBVIOUS
    <3>. QED
      BY <3>1
  <2>. QED
    BY <2>1
<1>. QED
  BY <1>1, <1>2, EmptyPlan, ClearPlans, StorePlan, StoresPlan, StepsOfPlans

\* A plan of two steps after none, and after one.
LEMMA PairAfter ==
    ASSUME NEW r, NEW s, NEW u
    PROVE  <<>> \o <<s, u>> = <<s, u>> /\ <<r>> \o <<s, u>> = <<r, s, u>>
<1>. DEFINE S == {r, s, u}
<1>1. <<r>> \in Seq(S) /\ <<s, u>> \in Seq(S) /\ <<r, s, u>> \in Seq(S)
  OBVIOUS
<1>2. <<>> \o <<s, u>> = <<s, u>>
  BY <1>1, ConcatEmptySeq
<1>3. <<r>> \o <<s, u>> = <<r, s, u>>
  <2>. DEFINE p == <<r>>
              q == <<s, u>>
              pq == <<r, s, u>>
  <2>1. /\ p \in Seq(S) /\ Len(p) = 1 /\ p[1] = r
        /\ q \in Seq(S) /\ Len(q) = 2 /\ q[1] = s /\ q[2] = u
        /\ pq \in Seq(S) /\ Len(pq) = 3 /\ pq[1] = r /\ pq[2] = s /\ pq[3] = u
    BY <1>1
  <2>. HIDE DEF p, q, pq
  <2>2. /\ p \o q \in Seq(S) /\ Len(p \o q) = 3
        /\ (p \o q)[1] = r /\ (p \o q)[2] = s /\ (p \o q)[3] = u
    <3>1. /\ p \o q \in Seq(S) /\ Len(p \o q) = Len(p) + Len(q)
          /\ \A i \in 1..(Len(p) + Len(q)) :
                (p \o q)[i] = IF i <= Len(p) THEN p[i] ELSE q[i - Len(p)]
      BY <2>1, ConcatProperties
    <3>2. \A i \in 1..3 : (p \o q)[i] = IF i <= 1 THEN p[i] ELSE q[i - 1]
      BY <2>1, <3>1
    <3>. QED
      BY <2>1, <3>1, <3>2
  <2>3. \A i \in 1..3 : (p \o q)[i] = pq[i]
    BY <2>1, <2>2
  <2>4. p \o q = pq
    BY <2>1, <2>2, <2>3, SeqEqual
  <2>. QED
    BY <2>4 DEF p, q, pq
<1>. QED
  BY <1>2, <1>3

\* A user's control starts as Decides says.
LEMMA UserStarts ==
    ASSUME TypeOK, NEW t \in Workers, UserControl(t)
    PROVE  StartStep
<1>. USE DEF Controls
<1>1. t \in Threads /\ t \notin Watchers
  BY PauseAssumption DEF Threads
<1>2. \A c \in {"resume", "setPaused", "focus", "setApp", "audioStop"}, p \in Plans :
          Begin(t, c, p) /\ RecomputesLast(p) /\ p # <<>> /\ UNCHANGED <<connected, shown>>
             => StartStep
  BY <1>1, DecidesPlain, StartIsAStep
<1>3. allowed \subseteq Apps
  BY DEF TypeOK
<1>5. CASE Resume(t)
  <2>1. PICK p \in {<<>>, ClearAll} : Begin(t, "resume", p)
    BY <1>5 DEF Resume
  <2>2. Decides(t, "resume", p)
    BY <1>1, <1>5, StepsOf, <2>1 DEF Resume, Decides, Raising
  <2>. QED
    BY <1>1, <2>1, <2>2, PlansUsed, StartIsAStep
<1>6. CASE Toggle(t)
  <2>1. PICK p \in {<<>>, ClearAll, <<On("master"), Recompute>>} :
               /\ Begin(t, "toggle", p)
               /\ IF p = <<On("master"), Recompute>> THEN ~(UserResumable \/ StartupDefault)
                                                     ELSE UserResumable \/ StartupDefault
    <3>1. StepsIn(<<On("master"), Recompute>>) # StepsIn(ClearAll) /\ StepsIn(<<>>) # StepsIn(<<On("master"), Recompute>>)
      BY StepsOf, StepNames DEF Lifting
    <3>2. <<On("master"), Recompute>> # ClearAll /\ <<On("master"), Recompute>> # <<>>
      BY <3>1
    <3>. QED
      BY <1>6, <3>2 DEF Toggle
  <2>2. StepsIn(<<On("master"), Recompute>>) = Muting
    BY StepsOf, StepNames DEF Muting
  <2>3. Decides(t, "toggle", p)
    BY <1>1, <1>6, StepsOf, StepNames, <2>1, <2>2 DEF Toggle, Decides, Raising
  <2>. QED
    BY <1>1, <2>1, <2>3, PlansUsed, StartIsAStep
<1>7. CASE PerAppChord(t)
  <2>1. PICK p \in Plans : Begin(t, "chord", p) /\ p # <<>>
    <3>. DEFINE l == IF app \in allowed THEN <<>> ELSE <<List(app)>>
                o == <<IF app \in allowed THEN Delist(app) ELSE List(app), Recompute>>
                d == <<Delist(app), Recompute>>
    <3>1. app \in Apps
      BY <1>7 DEF PerAppChord
    <3>2. <<List(app)>> \o ClearKeepMaster \in Plans /\ <<>> \o ClearKeepMaster \in Plans
      BY <3>1, ClearPlans, StepsOfPlans, PrefixPlan DEF ClearKeepMaster
    <3>3. Len(ClearKeepMaster) = 5 /\ ClearKeepMaster \in Seq(Steps)
      BY ClearPlans DEF ClearKeepMaster, Plans
    <3>4. l \in Seq(Steps)
      BY <3>1, StepsOfPlans
    <3>. HIDE DEF l
    <3>5. Len(l \o ClearKeepMaster) = Len(l) + 5 /\ Len(l) \in Nat /\ Len(<<>>) = 0
      <4>1. Len(l \o ClearKeepMaster) = Len(l) + Len(ClearKeepMaster)
        BY <3>3, <3>4, ConcatProperties
      <4>. QED
        BY <3>3, <3>4, <4>1, LenProperties
    <3>6. l \o ClearKeepMaster # <<>>
      BY <3>5
    <3>8. l \o ClearKeepMaster \in Plans
      BY <3>2 DEF l
    <3>7. o \in Plans /\ d \in Plans /\ o # <<>> /\ d # <<>>
      BY <3>1, PlansUsed
    <3>. QED
      BY <1>7, <3>6, <3>7, <3>8 DEF PerAppChord, l
  <2>2. Decides(t, "chord", p)
    BY <1>1, <1>7, <2>1 DEF PerAppChord, Decides, Raising
  <2>. QED
    BY <1>1, <2>1, <2>2, StartIsAStep
<1>8. CASE \E b \in BOOLEAN : SetPaused(t, b)
  <2>1. PICK p \in {<<On("master"), Recompute>>, <<Off("idle"), Off("master"), Recompute>>} :
               Begin(t, "setPaused", p)
    BY <1>8 DEF SetPaused
  <2>2. p \in Plans /\ p # <<>> /\ RecomputesLast(p)
    <3>1. "idle" \in Flags /\ "master" \in Flags
      BY PlansUsed
    <3>2. /\ <<On("master"), Recompute>> \in Plans /\ <<On("master"), Recompute>> # <<>>
          /\ RecomputesLast(<<On("master"), Recompute>>)
      BY <3>1, PlansUsed, StepsOf, StepNames
    <3>3. /\ <<Off("idle"), Off("master"), Recompute>> \in Plans
          /\ <<Off("idle"), Off("master"), Recompute>> # <<>>
      BY <3>1, PlansUsed
    <3>4. RecomputesLast(<<Off("idle"), Off("master"), Recompute>>)
      BY StepsOf, StepNames
    <3>. QED
      BY <2>1, <3>2, <3>3, <3>4
  <2>. QED
    BY <1>2, <1>8, <2>1, <2>2 DEF SetPaused
<1>9. CASE \E a \in Apps \cup {Own, NoApp} : FocusChanged(t, a)
  <2>1. PICK a \in Apps \cup {Own, NoApp} : FocusChanged(t, a)
    BY <1>9
  <2>2. <<>> \o <<Focus(a), Recompute>> = <<Focus(a), Recompute>>
        /\ <<Off("idle")>> \o <<Focus(a), Recompute>> = <<Off("idle"), Focus(a), Recompute>>
    BY PairAfter
  <2>3. PICK p \in {<<Focus(a), Recompute>>, <<Off("idle"), Focus(a), Recompute>>} :
               Begin(t, "focus", p)
    BY <2>1, <2>2 DEF FocusChanged
  <2>4. p \in Plans
    BY <2>3, PlansUsed, StepsOfPlans, StorePlan, StoresPlan
  <2>5. p # <<>> /\ RecomputesLast(p)
    <3>1. Recompute \in StepsIn(p) /\ RecomputesLast(p)
      BY <2>3, StepsOf, StepNames
    <3>. QED
      BY <3>1, StepsOf
  <2>. QED
    BY <1>2, <2>1, <2>3, <2>4, <2>5 DEF FocusChanged
<1>10. CASE \E a \in Apps, listed \in BOOLEAN : SetAppPaused(t, a, listed)
  <2>1. PICK a \in Apps, listed \in BOOLEAN : SetAppPaused(t, a, listed)
    BY <1>10
  <2>2. PICK r \in {List(a), Delist(a)} : Begin(t, "setApp", <<r, Recompute>>)
    BY <2>1 DEF SetAppPaused
  <2>3. <<r, Recompute>> \in Plans /\ RecomputesLast(<<r, Recompute>>) /\ <<r, Recompute>> # <<>>
    BY <2>2, PlansUsed, StepsOf, StepNames
  <2>. QED
    BY <1>2, <2>1, <2>2, <2>3 DEF SetAppPaused
<1>11. CASE \E playing, gated \in BOOLEAN : SystemAudio(t, playing, gated)
  <2>1. UNCHANGED <<connected, shown>>
    BY <1>11 DEF SystemAudio
  <2>2. /\ StepsIn(<<Off("audio"), Recompute>>) = {Off("audio"), Recompute}
        /\ StepsIn(<<On("audio"), Recompute>>) = {On("audio"), Recompute}
        /\ RecomputesLast(<<Off("audio"), Recompute>>) /\ RecomputesLast(<<On("audio"), Recompute>>)
    BY StepsOf, StepNames
  <2>3. /\ <<Off("audio"), Recompute>> \in Plans /\ <<On("audio"), Recompute>> \in Plans
        /\ <<Off("audio"), Recompute>> # <<>> /\ <<On("audio"), Recompute>> # <<>>
    BY PlansUsed
  <2>4. CASE Begin(t, "audioGated", <<Off("audio"), Recompute>>)
    <3>1. Decides(t, "audioGated", <<Off("audio"), Recompute>>)
      BY <1>1, <2>1, <2>2, <2>3 DEF Decides, Raising, Easing
    <3>. QED
      BY <1>1, <2>3, <2>4, <3>1, StartIsAStep
  <2>5. CASE Begin(t, "audioPlay", <<On("audio"), Recompute>>)
    <3>1. Decides(t, "audioPlay", <<On("audio"), Recompute>>)
      BY <1>1, <2>1, <2>2, <2>3 DEF Decides, Raising, Raised
    <3>. QED
      BY <1>1, <2>3, <2>5, <3>1, StartIsAStep
  <2>6. CASE Begin(t, "audioStop", <<Off("audio"), Recompute>>)
    BY <1>2, <2>1, <2>2, <2>3, <2>6
  <2>7. CASE "idle" \in flags /\ Begin(t, "audioStopIdle", <<Off("audio"), Recompute>>)
    <3>1. Decides(t, "audioStopIdle", <<Off("audio"), Recompute>>)
      BY <1>1, <2>1, <2>2, <2>3, <2>7 DEF Decides, Raising
    <3>. QED
      BY <1>1, <2>3, <2>7, <3>1, StartIsAStep
  <2>. QED
    BY <1>11, <2>4, <2>5, <2>6, <2>7 DEF SystemAudio
<1>12. CASE "setup" \in Commands /\ \E enabled \in BOOLEAN : SetupMode(t, enabled)
  <2>1. PICK p \in {<<On("setup"), Recompute>>, <<Off("setup"), Recompute>>} : Begin(t, "setup", p)
    BY <1>12 DEF SetupMode
  <2>2. p \in Plans /\ p # <<>> /\ RecomputesLast(p)
    <3>1. PICK r \in {On("setup"), Off("setup")} : p = <<r, Recompute>>
      BY <2>1
    <3>2. r # Recompute /\ "setup" \in Flags
      BY <3>1, StepNames, PlansUsed
    <3>. QED
      BY <3>1, <3>2, PlansUsed, StepsOf
  <2>3. Decides(t, "setup", p)
    BY <1>1, <1>12, <2>2 DEF SetupMode, Decides, Raising
  <2>. QED
    BY <1>1, <2>1, <2>2, <2>3, StartIsAStep
<1>13. CASE Connect(t)
  <2>1. PICK p \in {<<>>, <<Off("noGui"), Recompute>>} : Begin(t, "connect", p)
    BY <1>13 DEF Connect
  <2>2. p \in Plans /\ RecomputesLast(p)
    <3>1. <<>> \in Plans /\ RecomputesLast(<<>>) /\ "noGui" \in Flags
      BY PlansUsed, StepsOf
    <3>2. <<Off("noGui"), Recompute>> \in Plans /\ RecomputesLast(<<Off("noGui"), Recompute>>)
      BY <3>1, PlansUsed, StepsOf, StepNames
    <3>. QED
      BY <2>1, <3>1, <3>2
  <2>3. ~connected /\ connected' = TRUE /\ shown' = shown
    BY <1>13 DEF Connect
  <2>4. Decides(t, "connect", p)
    BY <1>1, <2>2, <2>3 DEF Decides, Raising
  <2>. QED
    BY <1>1, <2>1, <2>2, <2>4, StartIsAStep
<1>. QED
  BY <1>5, <1>6, <1>7, <1>8, <1>9, <1>10, <1>11, <1>12, <1>13 DEF UserControl

\* So does a watchdog's, and a poll that waits moves no thread.
LEMMA WatcherStarts ==
    ASSUME TypeOK, WatcherStep
    PROVE  StartStep \/ IdleStep
<1>. USE DEF Controls
<1>1. \A w \in Watchers : w \in Threads
  BY DEF Threads
<1>2. /\ \A r : r # Recompute /\ r # Off("master") => Off("master") \notin StepsIn(<<r, Recompute>>)
      /\ Off("master") \notin StepsIn(<<Off("idle"), Off("mic"), Recompute>>)
  BY StepsOf, StepNames
<1>3. ASSUME NEW f \in {"mic", "idle"}
      PROVE  /\ StepsIn(<<On(f), Recompute>>) = {On(f), Recompute}
             /\ Off("master") \notin StepsIn(<<On(f), Recompute>>)
             /\ RecomputesLast(<<On(f), Recompute>>)
             /\ <<On(f), Recompute>> \in Plans /\ <<On(f), Recompute>> # <<>>
  BY <1>2, PlansUsed, StepsOf, StepNames
<1>4. CASE MicPoll
  <2>1. "mic" \in Watchers /\ "mic" \in Threads
    BY <1>1, <1>4 DEF MicPoll
  <2>2. UNCHANGED <<connected, shown>>
    BY <1>4 DEF MicPoll, MicPollTaken, MicPollFree, FreePollWith
  <2>3. CASE UNCHANGED <<flags, app, allowed, effective, threadVars, solo, fresh, calm>>
    BY <2>2, <2>3 DEF IdleStep
  <2>4. CASE Begin("mic", "micPause", <<On("mic"), Recompute>>)
    <3>1. Decides("mic", "micPause", <<On("mic"), Recompute>>)
      BY <1>3, <2>2 DEF Decides, Raising, Raised
    <3>. QED
      BY <1>3, <2>1, <2>4, <3>1, StartIsAStep
  <2>5. CASE Begin("mic", "micResume", <<Off("idle"), Off("mic"), Recompute>>)
    <3>. DEFINE p == <<Off("idle"), Off("mic"), Recompute>>
    <3>1. p \in Plans /\ p # <<>> /\ RecomputesLast(p)
      BY PlansUsed, StepsOf, StepNames
    <3>2. Decides("mic", "micResume", p)
      BY <1>2, <2>1, <2>2, <3>1, DecidesPlain
    <3>. QED
      BY <2>1, <2>5, <3>1, <3>2, StartIsAStep
  <2>. QED
    BY <1>4, <2>3, <2>4, <2>5
    DEF MicPoll, MicPollTaken, MicPollFree, FreePollWith, threadVars
<1>5. CASE IdleTick
  <2>1. Decides("idle", "idlePause", <<On("idle"), Recompute>>)
    BY <1>3, <1>5 DEF IdleTick, Decides, Raising, Raised
  <2>. QED
    BY <1>1, <1>3, <1>5, <2>1, StartIsAStep DEF IdleTick
<1>6. CASE WakeOnVoice
  <2>1. /\ StepsIn(<<Off("idle"), Recompute>>) = {Off("idle"), Recompute}
        /\ RecomputesLast(<<Off("idle"), Recompute>>)
        /\ <<Off("idle"), Recompute>> \in Plans /\ <<Off("idle"), Recompute>> # <<>>
        /\ Off("master") \notin StepsIn(<<Off("idle"), Recompute>>)
    BY <1>2, PlansUsed, StepsOf, StepNames
  <2>2. Decides("loop", "idleWake", <<Off("idle"), Recompute>>)
    BY <1>6, <2>1 DEF WakeOnVoice, Decides, Raising, Easing
  <2>. QED
    BY <1>1, <1>6, <2>1, <2>2, StartIsAStep DEF WakeOnVoice
<1>7. CASE OrphanTick
  <2>1. /\ RecomputesLast(<<On("noGui"), Recompute>>)
        /\ <<On("noGui"), Recompute>> \in Plans /\ <<On("noGui"), Recompute>> # <<>>
        /\ Off("master") \notin StepsIn(<<On("noGui"), Recompute>>)
    BY <1>2, PlansUsed, StepsOf, StepNames
  <2>2. Decides("orphan", "orphan", <<On("noGui"), Recompute>>)
    BY <1>7, <2>1 DEF OrphanTick, Decides, Raising
  <2>. QED
    BY <1>1, <1>7, <2>1, <2>2, StartIsAStep DEF OrphanTick
<1>. QED
  BY <1>4, <1>5, <1>6, <1>7 DEF WatcherStep

\* The three kinds of steps, with what their controls decide.
LEMMA StartKinds ==
    ASSUME TypeOK, [Next]_vars
    PROVE  StartStep \/ IdleStep \/ \E t \in Threads : ThreadStep(t)
<1>1. CASE \E t \in Workers : UserControl(t)
  BY <1>1, UserStarts
<1>2. CASE WatcherStep
  BY <1>2, WatcherStarts
<1>3. CASE MicTakenChanges
  BY <1>3 DEF MicTakenChanges, IdleStep
<1>4. CASE Disconnect
  BY <1>4 DEF Disconnect, IdleStep
<1>5. CASE UNCHANGED vars
  BY <1>5 DEF vars, IdleStep, threadVars
<1>. QED
  BY <1>1, <1>2, <1>3, <1>4, <1>5 DEF Next

-----------------------------------------------------------------------------
(* The controls do as meant.                                                  *)

\* A step that starts no control and ends none, but reads for its recompute.
Reads(t) == StartRecompute(t) \/ LoadFlag(t) \/ LoadApp(t)

\* What the reads of a recompute leave alone.
LEMMA ReadMoves ==
    ASSUME Typed, NEW t \in Threads, Reads(t)
    PROVE  /\ pc[t] \in {"run", "read"} /\ pc'[t] \in {"read", "swap"}
           /\ pc[t] = "run" => Head(todo[t]) = Recompute
           /\ \A u \in Threads : u # t => pc'[u] = pc[u]
           /\ UNCHANGED <<flags, app, allowed, effective, connected, shown, cmd, todo,
                          flip, solo, fresh, calm>>
BY DEF Reads, StartRecompute, LoadFlag, LoadApp, Typed, TypeOK

\* What a store leaves alone.
LEMMA StoreMoves ==
    ASSUME Typed, NEW t \in Threads, Store(t)
    PROVE  /\ pc[t] = "run" /\ Head(todo[t]) # Recompute
           /\ todo' = [todo EXCEPT ![t] = Tail(todo[t])] /\ todo'[t] = Tail(todo[t])
           /\ \A u \in Threads : u # t => todo'[u] = todo[u]
           /\ UNCHANGED <<effective, connected, shown, pc, cmd, val, flip, solo, fresh, calm>>
BY DEF Store, Typed, TypeOK

\* What the swap of a recompute leaves alone.
LEMMA SwapMoves ==
    ASSUME Typed, NEW t \in Threads, Swap(t)
    PROVE  /\ pc[t] = "swap" /\ todo'[t] = Tail(todo[t]) /\ effective' = val[t]
           /\ pc'[t] = (IF Tail(todo[t]) = <<>> THEN "say" ELSE "run")
           /\ flip'[t] = (effective # val[t])
           /\ \A u \in Threads : u # t => todo'[u] = todo[u] /\ pc'[u] = pc[u]
           /\ UNCHANGED <<flags, app, allowed, connected, shown, cmd, val, solo, calm>>
BY DEF Swap, Typed, TypeOK

\* What the end of a control leaves alone.
LEMMA SayMoves ==
    ASSUME Typed, NEW t \in Threads, Say(t)
    PROVE  /\ pc[t] = "say" /\ pc'[t] = "ready" /\ cmd'[t] = "none"
           /\ \A u \in Threads : u # t => pc'[u] = pc[u] /\ cmd'[u] = cmd[u]
           /\ UNCHANGED <<flags, app, allowed, effective, connected, todo, solo, fresh, calm>>
BY DEF Say, Typed, TypeOK

\* What the start of a control leaves alone.
LEMMA BeginMoves ==
    ASSUME Typed, NEW t \in Threads, NEW c \in Controls, NEW p \in Plans, Begin(t, c, p)
    PROVE  /\ pc[t] = "ready" /\ cmd'[t] = c /\ todo'[t] = p /\ val'[t] = effective
           /\ pc'[t] = (IF p = <<>> THEN "say" ELSE "run")
           /\ \A u \in Threads : u # t => pc'[u] = pc[u] /\ cmd'[u] = cmd[u] /\ todo'[u] = todo[u]
           /\ UNCHANGED <<flags, app, allowed, effective, fresh>>
           /\ calm' => calm /\ InFlight = {} /\ solo'
BY DEF Begin, Typed, TypeOK, Plans

\* The steps of a running plan.
LEMMA StepsAhead ==
    ASSUME Typed, NEW t \in Threads, pc[t] \in {"run", "read", "swap"}
    PROVE  /\ todo[t] # <<>> /\ Head(todo[t]) \in Ahead(t)
           /\ Ahead(t) = {Head(todo[t])} \cup StepsIn(Tail(todo[t]))
           /\ RecomputesLast(todo[t]) => RecomputesLast(Tail(todo[t]))
           /\ RecomputesLast(todo[t]) /\ Head(todo[t]) = Recompute
                 => Tail(todo[t]) = <<>> /\ Ahead(t) = {Recompute}
<1>1. todo[t] \in Seq(Steps) /\ todo[t] # <<>>
  BY DEF Typed, TypeOK, PlansEndInRecompute
<1>. QED
  BY <1>1, StepsLeft DEF Ahead

\* While no two controls overlap, the others are idle.
LEMMA CalmOthers ==
    ASSUME Exact, ControlInv, calm, NEW t \in Threads, pc[t] # "ready"
    PROVE  solo /\ \A u \in Threads : u # t => pc[u] = "ready"
<1>1. solo
  BY DEF ControlInv, CalmInv, CalmIsSolo, InFlight
<1>. QED
  BY <1>1, OthersReady

\* A user's pause is worth what the sources say.
LEMMA ResumableIsDerived ==
    /\ UserResumable <=> flags \cap Overridable # {}
    /\ UserResumable => Derived
    /\ flags \cap Overridable = {} /\ Derived => Stays
BY DEF UserResumable, AnyGlobalPause, Overridable, Derived, Sources, Stays

\* Lifting or muting goes on as it was meant to, store by store.
LEMMA ToggleStores ==
    ASSUME Typed, NEW t \in Threads, Store(t), Lifts(t) \/ Mutes(t)
    PROVE  (Lifts(t) \/ Mutes(t))'
<1>. DEFINE s == Head(todo[t])
<1>1. /\ s \in Ahead(t) /\ Ahead(t) = {s} \cup Ahead(t)' /\ s # Recompute
      /\ UNCHANGED effective
  BY StoreMoves, StepsAhead DEF Ahead
<1>2. /\ flags' = CASE s.do = "on"  -> flags \cup {s.arg}
                    [] s.do = "off" -> flags \ {s.arg}
                    [] OTHER        -> flags
      /\ s.do # "focus" => app' = app
      /\ s.do \notin {"list", "delist"} => allowed' = allowed
  BY DEF Store
<1>. HIDE DEF s
<1>3. CASE Lifts(t)
  <2>1. PICK g \in Overridable : s = Off(g)
    BY <1>1, <1>3 DEF Lifts, Lifting
  <2>2. flags' = flags \ {g}
    BY <1>2, <2>1 DEF Off
  <2>3. ASSUME NEW f \in flags' \cap Overridable PROVE Off(f) \in Ahead(t)'
    <3>1. f \in flags \cap Overridable /\ f # g
      BY <2>2
    <3>2. Off(f) \in Ahead(t)
      BY <1>3, <3>1 DEF Lifts
    <3>3. Off(f) # s
      BY <2>1, <3>1, StepNames
    <3>. QED
      BY <1>1, <3>2, <3>3
  <2>4. Ahead(t)' \subseteq Lifting /\ effective'
    BY <1>1, <1>3 DEF Lifts
  <2>5. Lifts(t)'
    BY <2>3, <2>4 DEF Lifts, Lifting
  <2>. QED
    BY <2>5
<1>4. CASE Mutes(t)
  <2>1. s = On("master")
    BY <1>1, <1>4 DEF Mutes, Muting
  <2>2. flags' = flags \cup {"master"} /\ app' = app /\ allowed' = allowed
    BY <1>2, <2>1 DEF On
  <2>3. Stays => Stays'
    BY <2>2 DEF Stays
  <2>4. Ahead(t)' \subseteq Muting
    BY <1>1, <1>4 DEF Mutes
  <2>5. Mutes(t)'
    BY <1>1, <1>4, <2>2, <2>3, <2>4 DEF Mutes, Muting
  <2>. QED
    BY <2>5
<1>. QED
  BY <1>3, <1>4

\* The invariant of the controls holds at start-up.
LEMMA ControlInit == Init => ControlInv
<1>. SUFFICES ASSUME Init PROVE ControlInv
  OBVIOUS
<1>1. AtRecompute /\ LastRecompute /\ MasterSpared
  BY DEF Init, AtRecompute, LastRecompute, MasterSpared, Threads
<1>2. CalmIsSolo /\ NoPauseMissed /\ Toggles
  BY DEF Init, CalmIsSolo, InFlight, NoPauseMissed, Toggles
<1>. QED
  BY <1>1, <1>2 DEF ControlInv, CalmInv

\* A control that starts keeps it.
LEMMA ControlStart == ASSUME Typed, Exact, ControlInv, StartStep PROVE ControlInv'
<1>1. PICK t \in Threads, c \in Controls, p \in Plans : Begin(t, c, p) /\ Decides(t, c, p)
  BY DEF StartStep
<1>2. /\ pc[t] = "ready" /\ cmd'[t] = c /\ todo'[t] = p
      /\ pc'[t] = (IF p = <<>> THEN "say" ELSE "run")
      /\ \A u \in Threads : u # t => pc'[u] = pc[u] /\ cmd'[u] = cmd[u] /\ todo'[u] = todo[u]
      /\ UNCHANGED <<flags, app, allowed, effective>>
      /\ calm' => calm /\ InFlight = {} /\ solo'
  BY <1>1, BeginMoves
<1>3. AtRecompute'
  BY <1>2 DEF ControlInv, AtRecompute
<1>4. LastRecompute'
  BY <1>1, <1>2 DEF ControlInv, LastRecompute, Decides
<1>5. MasterSpared'
  <2>1. \A u \in Watchers : u \in Threads
    BY DEF Threads
  <2>. QED
    BY <1>1, <1>2, <2>1 DEF ControlInv, MasterSpared, Decides, Ahead
<1>6. ASSUME calm' PROVE CalmIsSolo' /\ NoPauseMissed' /\ Toggles'
  <2>1. /\ \A u \in Threads : pc[u] = "ready"
        /\ solo' /\ (Derived => effective)
    <3>1. calm /\ InFlight = {} /\ solo'
      BY <1>2, <1>6
    <3>. QED
      BY <3>1 DEF InFlight, ControlInv, CalmInv, NoPauseMissed
  <2>2. CalmIsSolo'
    BY <2>1 DEF CalmIsSolo
  <2>3. NoPauseMissed'
    BY <1>2, <2>1 DEF NoPauseMissed, Derived
  <2>4. ASSUME NEW u \in Threads, pc'[u] \in {"run", "read", "swap"}, cmd'[u] = "toggle"
        PROVE  (Lifts(u) \/ Mutes(u))'
    <3>1. u = t /\ c = "toggle" /\ p # <<>> /\ Ahead(t)' = StepsIn(p)
      BY <1>2, <2>1, <2>4 DEF Ahead
    <3>2. CASE StepsIn(p) = Lifting /\ (UserResumable \/ StartupDefault)
      <4>1. effective'
        BY <1>2, <2>1, <3>2, ResumableIsDerived DEF StartupDefault
      <4>. QED
        BY <3>1, <3>2, <4>1 DEF Lifts, Lifting
    <3>3. CASE StepsIn(p) = Muting /\ ~(UserResumable \/ StartupDefault)
      <4>1. ~effective \/ Stays
        BY <3>3, ResumableIsDerived DEF StartupDefault
      <4>2. (~effective \/ Stays)'
        BY <1>2, <4>1 DEF Stays
      <4>. QED
        BY <3>1, <3>3, <4>2 DEF Mutes, Muting
    <3>. QED
      BY <1>1, <3>1, <3>2, <3>3 DEF Decides
  <2>. QED
    BY <2>2, <2>3, <2>4 DEF Toggles
<1>. QED
  BY <1>3, <1>4, <1>5, <1>6 DEF ControlInv, CalmInv

\* So does a step that moves no thread.
LEMMA ControlIdle == ASSUME ControlInv, IdleStep PROVE ControlInv'
<1>1. /\ UNCHANGED <<flags, app, allowed, effective, pc, cmd, todo, val, flip, solo, fresh, calm>>
  BY DEF IdleStep, threadVars
<1>2. /\ UNCHANGED <<Derived, Stays, InFlight>>
      /\ \A t \in Threads : Ahead(t)' = Ahead(t)
  BY <1>1 DEF Derived, Stays, InFlight, Ahead
<1>3. AtRecompute' /\ LastRecompute' /\ MasterSpared'
  BY <1>1 DEF ControlInv, AtRecompute, LastRecompute, MasterSpared, Ahead
<1>4. CalmInv => CalmInv'
  BY <1>1, <1>2 DEF CalmInv, CalmIsSolo, NoPauseMissed, Toggles, Lifts, Mutes
<1>. QED
  BY <1>3, <1>4 DEF ControlInv

\* Every step of a running control keeps it.
LEMMA ControlThread ==
    ASSUME Typed, Exact, ControlInv, NEW t \in Threads, ThreadStep(t) PROVE ControlInv'
<1>0. \A u \in Watchers : u \in Threads
  BY DEF Threads
<1>1. CASE Reads(t)
  <2>1. /\ pc[t] \in {"run", "read"} /\ pc'[t] \in {"read", "swap"}
        /\ pc[t] = "run" => Head(todo[t]) = Recompute
        /\ \A u \in Threads : u # t => pc'[u] = pc[u]
        /\ UNCHANGED <<flags, app, allowed, effective, cmd, todo, solo, calm>>
    BY <1>1, ReadMoves
  <2>2. AtRecompute' /\ LastRecompute' /\ MasterSpared'
    BY <1>0, <2>1 DEF ControlInv, AtRecompute, LastRecompute, MasterSpared, Ahead
  <2>3. \A u \in Threads : /\ Ahead(u)' = Ahead(u)
                           /\ Lifts(u)' = Lifts(u) /\ Mutes(u)' = Mutes(u)
    BY <2>1 DEF Ahead, Lifts, Mutes, Stays
  <2>4. CalmInv'
    BY <2>1, <2>3 DEF ControlInv, CalmInv, CalmIsSolo, InFlight, NoPauseMissed, Toggles
  <2>. QED
    BY <2>2, <2>4 DEF ControlInv
<1>2. CASE Store(t)
  <2>1. /\ pc[t] = "run" /\ todo'[t] = Tail(todo[t])
        /\ \A u \in Threads : u # t => todo'[u] = todo[u]
        /\ UNCHANGED <<effective, pc, cmd, solo, calm>>
    BY <1>2, StoreMoves
  <2>2. /\ Ahead(t) = {Head(todo[t])} \cup Ahead(t)'
        /\ RecomputesLast(todo[t]) => RecomputesLast(todo'[t])
    BY <2>1, StepsAhead DEF Ahead
  <2>3. AtRecompute'
    BY <2>1 DEF ControlInv, AtRecompute
  <2>4. LastRecompute'
    BY <2>1, <2>2 DEF ControlInv, LastRecompute
  <2>5. MasterSpared'
    <3>1. \A u \in Threads : u # t => Ahead(u)' = Ahead(u)
      BY <2>1 DEF Ahead
    <3>. QED
      BY <1>0, <2>1, <2>2, <3>1 DEF ControlInv, MasterSpared
  <2>6. ASSUME calm' PROVE CalmIsSolo' /\ NoPauseMissed' /\ Toggles'
    <3>1. solo /\ \A u \in Threads : u # t => pc[u] = "ready"
      BY <2>1, <2>6, CalmOthers
    <3>2. CalmIsSolo' /\ NoPauseMissed'
      BY <2>1, <3>1 DEF CalmIsSolo, NoPauseMissed
    <3>3. cmd[t] = "toggle" => (Lifts(t) \/ Mutes(t))'
      BY <1>2, <2>1, <2>6, ToggleStores DEF ControlInv, CalmInv, Toggles
    <3>4. Toggles'
      BY <2>1, <3>1, <3>3 DEF Toggles
    <3>. QED
      BY <3>2, <3>4
  <2>. QED
    BY <2>3, <2>4, <2>5, <2>6 DEF ControlInv, CalmInv
<1>3. CASE Swap(t)
  <2>1. /\ pc[t] = "swap" /\ todo'[t] = Tail(todo[t]) /\ effective' = val[t]
        /\ pc'[t] = (IF Tail(todo[t]) = <<>> THEN "say" ELSE "run")
        /\ \A u \in Threads : u # t => todo'[u] = todo[u] /\ pc'[u] = pc[u]
        /\ UNCHANGED <<flags, app, allowed, cmd, solo, calm>>
    BY <1>3, SwapMoves
  <2>2. /\ Ahead(t) = {Head(todo[t])} \cup Ahead(t)' /\ Head(todo[t]) = Recompute
        /\ RecomputesLast(todo[t]) => RecomputesLast(todo'[t]) /\ todo'[t] = <<>>
    BY <2>1, StepsAhead DEF Ahead, ControlInv, AtRecompute
  <2>3. AtRecompute'
    BY <2>1 DEF ControlInv, AtRecompute
  <2>4. LastRecompute'
    BY <2>1, <2>2 DEF ControlInv, LastRecompute
  <2>5. MasterSpared'
    <3>1. \A u \in Threads : u # t => Ahead(u)' = Ahead(u)
      BY <2>1 DEF Ahead
    <3>. QED
      BY <1>0, <2>1, <2>2, <3>1 DEF ControlInv, MasterSpared
  <2>6. ASSUME calm' PROVE CalmIsSolo' /\ NoPauseMissed' /\ Toggles'
    <3>1. solo /\ \A u \in Threads : u # t => pc[u] = "ready"
      BY <2>1, <2>6, CalmOthers
    <3>2. CalmIsSolo'
      BY <2>1, <3>1 DEF CalmIsSolo
    <3>3. NoPauseMissed'
      <4>1. val[t] = Derived
        BY <2>1, <3>1 DEF Exact, SoloReadsHold
      <4>2. Derived' = Derived
        BY <2>1 DEF Derived
      <4>. QED
        BY <2>1, <4>1, <4>2 DEF NoPauseMissed
    <3>4. cmd[t] = "toggle" => pc'[t] = "say"
      BY <2>1, <2>2 DEF ControlInv, LastRecompute
    <3>5. Toggles'
      BY <2>1, <3>1, <3>4 DEF Toggles
    <3>. QED
      BY <3>2, <3>3, <3>5
  <2>. QED
    BY <2>3, <2>4, <2>5, <2>6 DEF ControlInv, CalmInv
<1>4. CASE Say(t)
  <2>1. /\ pc[t] = "say" /\ pc'[t] = "ready"
        /\ \A u \in Threads : u # t => pc'[u] = pc[u] /\ cmd'[u] = cmd[u]
        /\ UNCHANGED <<flags, app, allowed, effective, todo, solo, calm>>
    BY <1>4, SayMoves
  <2>2. AtRecompute' /\ LastRecompute' /\ MasterSpared'
    BY <1>0, <2>1 DEF ControlInv, AtRecompute, LastRecompute, MasterSpared, Ahead
  <2>3. ASSUME calm' PROVE CalmIsSolo' /\ NoPauseMissed' /\ Toggles'
    <3>1. solo /\ \A u \in Threads : u # t => pc[u] = "ready"
      BY <2>1, <2>3, CalmOthers
    <3>2. CalmIsSolo' /\ Toggles'
      BY <2>1, <3>1 DEF CalmIsSolo, Toggles
    <3>3. NoPauseMissed'
      <4>1. Derived => effective
        BY <2>1, <2>3, <3>1 DEF ControlInv, CalmInv, NoPauseMissed
      <4>. QED
        BY <2>1, <4>1 DEF NoPauseMissed, Derived
    <3>. QED
      BY <3>2, <3>3
  <2>. QED
    BY <2>2, <2>3 DEF ControlInv, CalmInv
<1>. QED
  BY <1>1, <1>2, <1>3, <1>4 DEF ThreadStep, Reads

\* So does every step.
LEMMA ControlNext == Typed /\ Exact /\ ControlInv /\ [Next]_vars => ControlInv'
BY StartKinds, ControlStart, ControlIdle, ControlThread DEF Typed

\* A press of the toggle that swaps EFFECTIVE is felt, unless what it does not
\* override holds the pause.
LEMMA PressFelt ==
    ASSUME Typed, Exact, ControlInv, NEW t \in Workers, cmd[t] = "toggle", calm, Swap(t)
    PROVE  effective' # effective \/ "noGui" \in flags
              \/ ("setup" \notin flags /\ PausedHere(app, allowed))
<1>. SUFFICES ASSUME ~Stays PROVE effective' # effective
  BY DEF Stays
<1>0. t \in Threads
  BY DEF Threads
<1>1. pc[t] = "swap" /\ effective' = val[t] /\ effective \in BOOLEAN /\ val[t] \in BOOLEAN
  BY <1>0, SwapMoves DEF Typed, TypeOK
<1>2. val[t] = Derived
  BY <1>0, <1>1, CalmOthers DEF Exact, SoloReadsHold
<1>3. Ahead(t) = {Recompute}
  BY <1>0, <1>1, StepsAhead DEF ControlInv, AtRecompute, LastRecompute
<1>4. CASE Lifts(t)
  <2>1. flags \cap Overridable = {} /\ effective
    BY <1>3, <1>4, StepNames DEF Lifts
  <2>2. ~Derived
    BY <2>1, ResumableIsDerived
  <2>. QED
    BY <1>1, <1>2, <2>1, <2>2
<1>5. CASE Mutes(t)
  <2>1. "master" \in flags /\ ~effective
    BY <1>3, <1>5, StepNames DEF Mutes
  <2>2. Derived
    BY <2>1 DEF Derived, Sources
  <2>. QED
    BY <1>1, <1>2, <2>1, <2>2
<1>. QED
  BY <1>0, <1>1, <1>4, <1>5 DEF ControlInv, CalmInv, Toggles

\* A watchdog's store never lifts master.
LEMMA MasterStands ==
    ASSUME Typed, ControlInv, NEW t \in Watchers, "master" \in flags, Store(t)
    PROVE  "master" \in flags'
<1>. DEFINE s == Head(todo[t])
<1>0. t \in Threads
  BY DEF Threads
<1>1. s # Off("master") /\ s \in Steps
  <2>1. pc[t] = "run"
    BY <1>0, StoreMoves
  <2>2. s \in Ahead(t)
    BY <1>0, <2>1, StepsAhead
  <2>3. s \in Steps
    BY <1>0, <2>1, HeadOfPlan DEF Typed, PlansEndInRecompute
  <2>. QED
    BY <2>1, <2>2, <2>3 DEF ControlInv, MasterSpared
<1>2. flags' = CASE s.do = "on"  -> flags \cup {s.arg}
                 [] s.do = "off" -> flags \ {s.arg}
                 [] OTHER        -> flags
  BY DEF Store
<1>3. s.do = "off" => s.arg # "master"
  BY <1>1 DEF Steps, On, Off, Focus, List, Delist, Recompute
<1>. QED
  BY <1>2, <1>3

\* The controls do what the user means by them, for every set of threads and
\* watchdogs: no watchdog lifts the user's master pause however many controls
\* overlap, and a press of the toggle that overlapped nothing flips EFFECTIVE
\* unless the no-GUI pause or the focused app's own holds it.
THEOREM ControlsMean == Spec => ControlsDoAsMeant
<1>1. Typed /\ Exact /\ ControlInv /\ [Next]_vars =>
        /\ [\A t \in Watchers : "master" \in flags /\ Store(t) => "master" \in flags']_vars
        /\ [\A t \in Workers : cmd[t] = "toggle" /\ calm /\ Swap(t) =>
              \/ effective' # effective
              \/ "noGui" \in flags
              \/ "setup" \notin flags /\ PausedHere(app, allowed)]_vars
  BY PressFelt, MasterStands
<1>. QED
  BY <1>1, TypedInit, TypedNext, ExactInit, ExactNext, ControlInit, ControlNext, PTL
  DEF Spec, ControlsDoAsMeant, OnlyUserLiftsMaster, TogglePressIsFelt

-----------------------------------------------------------------------------
(* The GUI is told.                                                           *)

\* The invariant of what the GUI was told holds at start-up.
LEMMA GuiInit == Init => GuiInv
BY DEF Init, GuiInv, Threads

\* A control that starts tells nothing yet; what it will say depends on what the
\* GUI shows and on what it has decided.
LEMMA GuiStart ==
    ASSUME "setup" \notin Commands, Typed, Exact, ControlInv, GuiInv, StartStep PROVE GuiInv'
<1>1. PICK t \in Threads, c \in Controls, p \in Plans : Begin(t, c, p) /\ Decides(t, c, p)
  BY DEF StartStep
<1>. SUFFICES ASSUME calm' PROVE GuiInv'
  BY DEF GuiInv
<1>2. /\ pc[t] = "ready" /\ cmd'[t] = c /\ todo'[t] = p /\ val'[t] = effective
      /\ pc'[t] = (IF p = <<>> THEN "say" ELSE "run")
      /\ \A u \in Threads : u # t => pc'[u] = pc[u] /\ cmd'[u] = cmd[u]
      /\ UNCHANGED <<flags, app, allowed, effective>>
      /\ calm /\ InFlight = {}
  BY <1>1, BeginMoves
<1>3. \A u \in Threads : pc[u] = "ready"
  BY <1>2 DEF InFlight
<1>4. /\ ~connected => shown = "none"
      /\ shown \in {"none", Told}
      /\ \A u \in Threads : cmd[u] # "setup"
  BY <1>2 DEF GuiInv, Quiescent
<1>5. Derived => effective
  BY <1>2, <1>3 DEF ControlInv, CalmInv, NoPauseMissed
<1>6. /\ Derived' = Derived /\ Told' = Told /\ shown' = shown /\ Ahead(t)' = StepsIn(p)
      /\ c = "connect" => connected'
      /\ c # "connect" => UNCHANGED connected
  BY <1>1, <1>2 DEF Derived, Told, Decides, Ahead
<1>7. c # "setup" /\ (c \in {"orphan", "connect"} => shown = "none")
  BY <1>1, <1>4 DEF Decides
<1>8. ASSUME p # <<>> PROVE GuiRuns(t)'
  <2>1. c \in Raising => Ahead(t)' = {On(Raised(c)), Recompute}
    BY <1>1, <1>6 DEF Decides
  <2>2. c \in {"audioGated", "idleWake"} => Ahead(t)' \subseteq Easing
    BY <1>1, <1>6 DEF Decides
  <2>3. c = "audioStopIdle" =>
           Ahead(t)' = {Off("audio"), Recompute} /\ "idle" \in flags /\ effective
    BY <1>1, <1>5, <1>6 DEF Decides, Derived, Sources
  <2>4. shown' \in {"none", Told'}
    BY <1>4, <1>6
  <2>. QED
    BY <1>2, <1>5, <1>6, <2>1, <2>2, <2>3, <2>4 DEF GuiRuns
<1>9. ASSUME p = <<>> PROVE GuiEnds(t)'
  <2>1. c \in {"resume", "toggle", "connect"} /\ val'[t] = effective'
    BY <1>1, <1>2, <1>9 DEF Decides
  <2>2. c \in {"resume", "toggle"} => Heard(c, val'[t], flip'[t]) = Told'
    BY <2>1 DEF Heard, Told
  <2>. QED
    BY <1>2, <1>6, <1>7, <2>1, <2>2 DEF GuiEnds
<1>. QED
  BY <1>2, <1>3, <1>4, <1>6, <1>7, <1>8, <1>9 DEF GuiInv, Quiescent, InFlight

\* Neither a poll that waits nor a GUI that leaves disturbs it.
LEMMA GuiIdle == ASSUME GuiInv, IdleStep PROVE GuiInv'
<1>1. UNCHANGED <<flags, app, allowed, effective, pc, cmd, todo, val, flip, calm>>
  BY DEF IdleStep, threadVars
<1>2. /\ UNCHANGED <<Derived, Told, InFlight>>
      /\ \A t \in Threads : Ahead(t)' = Ahead(t)
  BY <1>1 DEF Derived, Told, InFlight, Ahead
<1>3. CASE connected' = connected /\ shown' = shown
  BY <1>1, <1>2, <1>3 DEF GuiInv, Quiescent, GuiRuns, GuiEnds
<1>4. CASE shown # "none" /\ connected' = FALSE /\ shown' = "none"
  BY <1>1, <1>2, <1>4 DEF GuiInv, Quiescent, GuiRuns, GuiEnds
<1>. QED
  BY <1>3, <1>4 DEF IdleStep

\* What a running control will say survives its stores ...
LEMMA GuiStores ==
    ASSUME Typed, NEW t \in Threads, Store(t), GuiRuns(t) PROVE GuiRuns(t)'
<1>. DEFINE s == Head(todo[t])
<1>1. /\ s \in Ahead(t) /\ Ahead(t) = {s} \cup Ahead(t)' /\ s # Recompute
      /\ UNCHANGED <<effective, shown, cmd>>
  BY StoreMoves, StepsAhead DEF Ahead
<1>2. /\ flags' = CASE s.do = "on"  -> flags \cup {s.arg}
                    [] s.do = "off" -> flags \ {s.arg}
                    [] OTHER        -> flags
      /\ s.do # "focus" => app' = app
      /\ s.do \notin {"list", "delist"} => allowed' = allowed
  BY DEF Store
<1>. HIDE DEF s
<1>3. cmd'[t] \in Loud \/ shown' \in {"none", Told'}
  BY <1>1 DEF GuiRuns, Told
<1>4. ASSUME cmd[t] \in Raising
      PROVE  /\ Ahead(t)' \subseteq {On(Raised(cmd[t])), Recompute}
             /\ Raised(cmd[t]) \in flags'
  <2>1. s = On(Raised(cmd[t]))
    BY <1>1, <1>4 DEF GuiRuns
  <2>2. flags' = flags \cup {Raised(cmd[t])}
    BY <1>2, <2>1 DEF On
  <2>. QED
    BY <1>1, <1>4, <2>2 DEF GuiRuns
<1>5. ASSUME cmd[t] \in {"audioGated", "idleWake"}
      PROVE  Ahead(t)' \subseteq Easing /\ (Derived' => effective')
  <2>1. PICK f \in {"audio", "idle"} : s = Off(f)
    BY <1>1, <1>5 DEF GuiRuns, Easing
  <2>2. flags' = flags \ {f} /\ app' = app /\ allowed' = allowed
    BY <1>2, <2>1 DEF Off
  <2>3. Derived' => Derived
    BY <2>2 DEF Derived
  <2>. QED
    BY <1>1, <1>5, <2>3 DEF GuiRuns
<1>6. ASSUME cmd[t] = "audioStopIdle"
      PROVE  Ahead(t)' \subseteq {Off("audio"), Recompute} /\ "idle" \in flags' /\ effective'
  <2>1. s = Off("audio")
    BY <1>1, <1>6 DEF GuiRuns
  <2>2. flags' = flags \ {"audio"}
    BY <1>2, <2>1 DEF Off
  <2>. QED
    BY <1>1, <1>6, <2>2 DEF GuiRuns
<1>. QED
  BY <1>1, <1>3, <1>4, <1>5, <1>6 DEF GuiRuns

\* ... and its last swap leaves it with what the GUI does not know yet to say.
LEMMA GuiSwaps ==
    ASSUME Typed, Exact, ControlInv, NEW t \in Threads, Swap(t), GuiRuns(t), calm,
           cmd[t] \in Controls \ {"setup"}, cmd[t] \in {"orphan", "connect"} => shown = "none",
           cmd[t] = "chord" \/ Ahead(t) = {Recompute}
    PROVE  GuiEnds(t)'
<1>1. /\ pc[t] = "swap" /\ effective' = val[t] /\ flip'[t] = (effective # val[t])
      /\ UNCHANGED <<flags, app, allowed, shown, cmd, val>>
      /\ effective \in BOOLEAN /\ val[t] \in BOOLEAN
  BY SwapMoves DEF Typed, TypeOK
<1>2. val[t] = Derived
  BY <1>1, CalmOthers DEF Exact, SoloReadsHold
<1>3. /\ Told' = (IF val[t] THEN "paused" ELSE "resumed")
      /\ Told = (IF effective THEN "paused" ELSE "resumed")
  BY <1>1 DEF Told
<1>. DEFINE heard == Heard(cmd[t], val[t], flip'[t])
<1>. SUFFICES shown = "none" \/ heard = Told' \/ (heard = "silent" /\ shown = Told')
  BY <1>1 DEF GuiEnds
<1>4. CASE cmd[t] \in {"resume", "toggle", "chord"}
  BY <1>3, <1>4 DEF Heard
<1>5. CASE cmd[t] \in {"setPaused", "focus", "setApp", "audioStop", "micResume"}
  <2>1. shown \in {"none", Told}
    BY <1>5 DEF GuiRuns, Loud
  <2>2. CASE effective # val[t]
    BY <1>1, <1>3, <1>5, <2>2 DEF Heard
  <2>3. CASE effective = val[t]
    BY <1>1, <1>3, <1>5, <2>1, <2>3 DEF Heard
  <2>. QED
    BY <2>2, <2>3
<1>6. CASE cmd[t] \in Raising
  <2>1. shown \in {"none", Told}
    BY <1>6 DEF GuiRuns, Loud, Raising
  <2>2. Raised(cmd[t]) \in flags
    BY <1>6, StepNames DEF GuiRuns, Raising
  <2>3. Raised(cmd[t]) \in Sources
    BY <1>6 DEF Raised, Raising, Sources
  <2>4. val[t]
    BY <1>2, <2>2, <2>3 DEF Derived
  <2>5. CASE ~effective
    BY <1>1, <1>3, <1>6, <2>4, <2>5 DEF Heard, Raising
  <2>6. CASE effective
    BY <1>1, <1>3, <1>6, <2>1, <2>4, <2>6 DEF Heard, Raising
  <2>. QED
    BY <2>5, <2>6
<1>7. CASE cmd[t] \in {"audioGated", "idleWake"}
  <2>1. shown \in {"none", Told} /\ (Derived => effective)
    BY <1>7 DEF GuiRuns, Loud
  <2>2. CASE val[t]
    BY <1>1, <1>2, <1>3, <1>7, <2>1, <2>2 DEF Heard
  <2>3. CASE ~val[t] /\ effective
    BY <1>1, <1>3, <1>7, <2>3 DEF Heard
  <2>4. CASE ~val[t] /\ ~effective
    BY <1>1, <1>3, <1>7, <2>1, <2>4 DEF Heard
  <2>. QED
    BY <2>2, <2>3, <2>4
<1>8. CASE cmd[t] = "audioStopIdle"
  <2>1. shown \in {"none", Told} /\ effective /\ "idle" \in flags
    BY <1>8 DEF GuiRuns, Loud
  <2>2. val[t]
    BY <1>2, <2>1 DEF Derived, Sources
  <2>. QED
    BY <1>3, <1>8, <2>1, <2>2 DEF Heard
<1>9. CASE cmd[t] \in {"orphan", "connect"}
  BY <1>9
<1>. QED
  BY <1>4, <1>5, <1>6, <1>7, <1>8, <1>9 DEF Controls, Raising

\* Every step of a running control keeps it.
LEMMA GuiThread ==
    ASSUME Typed, Exact, ControlInv, GuiInv, NEW t \in Threads, ThreadStep(t) PROVE GuiInv'
<1>. SUFFICES ASSUME calm' PROVE GuiInv'
  BY DEF GuiInv
<1>1. pc[t] # "ready" /\ calm
  <2>1. Reads(t) \/ Store(t) \/ Swap(t) \/ Say(t)
    BY DEF ThreadStep, Reads
  <2>. QED
    BY <2>1, ReadMoves, StoreMoves, SwapMoves, SayMoves
<1>2. \A u \in Threads : u # t => pc[u] = "ready"
  BY <1>1, CalmOthers
<1>3. /\ ~connected => shown = "none"
      /\ \A u \in Threads : cmd[u] # "setup"
      /\ cmd[t] \in Controls /\ cmd[t] # "setup"
      /\ cmd[t] = "orphan" => shown = "none"
      /\ cmd[t] = "connect" => shown = "none" /\ connected
      /\ pc[t] \in {"run", "read", "swap"} => GuiRuns(t)
      /\ pc[t] = "say" => GuiEnds(t)
  BY <1>1 DEF GuiInv
<1>4. CASE Reads(t)
  <2>1. /\ pc[t] \in {"run", "read"} /\ pc'[t] \in {"read", "swap"}
        /\ \A u \in Threads : u # t => pc'[u] = pc[u]
        /\ UNCHANGED <<flags, app, allowed, effective, connected, shown, cmd, todo>>
    BY <1>4, ReadMoves
  <2>2. GuiRuns(t)'
    BY <1>3, <2>1 DEF GuiRuns, Ahead, Told, Derived
  <2>. QED
    BY <1>2, <1>3, <2>1, <2>2 DEF GuiInv, Quiescent, InFlight
<1>5. CASE Store(t)
  <2>1. pc[t] = "run" /\ UNCHANGED <<connected, shown, pc, cmd>>
    BY <1>5, StoreMoves
  <2>2. GuiRuns(t)'
    BY <1>3, <1>5, <2>1, GuiStores
  <2>. QED
    BY <1>2, <1>3, <2>1, <2>2 DEF GuiInv, Quiescent, InFlight
<1>6. CASE Swap(t)
  <2>1. /\ pc[t] = "swap" /\ todo'[t] = Tail(todo[t])
        /\ pc'[t] = (IF Tail(todo[t]) = <<>> THEN "say" ELSE "run")
        /\ \A u \in Threads : u # t => pc'[u] = pc[u]
        /\ UNCHANGED <<connected, shown, cmd>>
    BY <1>6, SwapMoves
  <2>2. cmd[t] = "chord" \/ (Ahead(t) = {Recompute} /\ Tail(todo[t]) = <<>>)
    BY <2>1, StepsAhead DEF ControlInv, AtRecompute, LastRecompute
  <2>3. GuiEnds(t)'
    BY <1>1, <1>3, <1>6, <2>1, <2>2, GuiSwaps
  <2>4. pc'[t] = "run" => GuiRuns(t)'
    BY <2>1, <2>2 DEF GuiRuns, Loud, Raising
  <2>. QED
    BY <1>2, <1>3, <2>1, <2>3, <2>4 DEF GuiInv, Quiescent, InFlight
<1>7. CASE Say(t)
  <2>1. /\ pc[t] = "say" /\ pc'[t] = "ready" /\ cmd'[t] = "none"
        /\ \A u \in Threads : u # t => pc'[u] = pc[u] /\ cmd'[u] = cmd[u]
        /\ UNCHANGED <<effective, connected>>
    BY <1>7, SayMoves
  <2>2. shown' = CASE cmd[t] = "connect" -> Told
                   [] cmd[t] # "connect" /\ shown # "none" /\ Heard(cmd[t], val[t], flip[t]) # "silent"
                        -> Heard(cmd[t], val[t], flip[t])
                   [] OTHER -> shown
    BY <1>7 DEF Say, Told
  <2>3. Told' = Told /\ Told # "silent"
    BY <2>1 DEF Told
  <2>4. shown' \in {"none", Told'}
    BY <1>3, <2>1, <2>2, <2>3 DEF GuiEnds
  <2>5. ~connected' => shown' = "none"
    BY <1>3, <2>1, <2>2
  <2>. QED
    BY <1>2, <1>3, <2>1, <2>4, <2>5 DEF GuiInv
<1>. QED
  BY <1>4, <1>5, <1>6, <1>7 DEF ThreadStep, Reads

\* A GUI that is attached shows what capture obeys: as long as no two controls
\* overlap, every control that flips EFFECTIVE tells it, and none tells it
\* anything else.  Setup mode, which recomputes and broadcasts nothing, is left out.
THEOREM GuiIsTold == ASSUME "setup" \notin Commands PROVE Spec => []GuiShowsEffective
<1>1. Typed /\ Exact /\ ControlInv /\ GuiInv /\ [Next]_vars => GuiInv'
  BY StartKinds, GuiStart, GuiIdle, GuiThread DEF Typed
<1>2. GuiInv => GuiShowsEffective
  BY DEF GuiInv, GuiShowsEffective, Told
<1>. QED
  BY <1>1, <1>2, TypedInit, TypedNext, ExactInit, ExactNext, ControlInit, ControlNext, GuiInit,
     PTL DEF Spec
=============================================================================
