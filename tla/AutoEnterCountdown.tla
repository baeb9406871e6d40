------------------------- MODULE AutoEnterCountdown -------------------------
(* The auto-Enter countdown (auto_enter_countdown.rs): after a paste, a task *)
(* counts down and presses Return, unless a cancel arrives.  Tasks, pastes,  *)
(* key presses and the voice detector share two atomics, COUNTDOWN_ACTIVE    *)
(* and COUNTDOWN_CANCEL (pause.rs), and nothing tells one task from another. *)
EXTENDS Naturals, FiniteSets

CONSTANTS
    MaxPastes,   \* bound: how many pastes are delivered
    Delay,       \* the countdown's length in 100 ms ticks
    Keys,        \* threads that see key presses and clicks
    Voices       \* threads that see the user speak again

Tasks == 1..MaxPastes
Cancellers == Keys \cup Voices

VARIABLES
    active,     \* COUNTDOWN_ACTIVE
    cancel,     \* COUNTDOWN_CANCEL
    buffer,     \* does DICTATION_BUFFER hold a merge anchor?
    pasting,    \* where deliver_paste and schedule are
    pastes,     \* pastes delivered so far; the last one's task has this number
    task,       \* where each countdown task is
    remaining,  \* ticks each has left
    hand,       \* where each canceller is between its check and its stores
    asked,      \* history: tasks running when some cancel was stored after their arming
    doomed      \* history: the task a key press found alone and counting

vars == <<active, cancel, buffer, pasting, pastes, task, remaining, hand, asked, doomed>>

Init ==
    /\ active = FALSE /\ cancel = FALSE /\ buffer = FALSE
    /\ pasting = "no" /\ pastes = 0
    /\ task = [i \in Tasks |-> "none"] /\ remaining = [i \in Tasks |-> 0]
    /\ hand = [c \in Cancellers |-> "idle"]
    /\ asked = {} /\ doomed = {}

Counting == {i \in Tasks : task[i] = "counting"}

\* The tasks a cancel stored now is meant for: those counting, and the one
\* whose stale cancel schedule has already cleared.
Listening == Counting \cup (IF pasting = "spawn" THEN {pastes} ELSE {})

-----------------------------------------------------------------------------
(* deliver_paste, under the paste lock, and schedule.                        *)

\* A continuation of the previous paste cancels its countdown first.  Whether it
\* is one was read earlier, the anchor may be gone by now.
Paste(merge) ==
    /\ pasting = "no" /\ pastes < MaxPastes
    /\ merge => pastes > 0
    /\ cancel' = (cancel \/ merge)
    /\ asked' = IF merge THEN asked \cup Listening ELSE asked
    /\ pastes' = pastes + 1
    /\ pasting' = "pasted"
    /\ UNCHANGED <<active, buffer, task, remaining, hand, doomed>>

\* No countdown for this paste: no Return is due (auto-Enter is off, the text is
\* too short, part of the dictation was lost), or it is pressed at once
\* (delay_ms = 0).  Either way the merge window is closed.
NoCountdown ==
    /\ pasting = "pasted"
    /\ buffer' = FALSE /\ pasting' = "no"
    /\ UNCHANGED <<active, cancel, pastes, task, remaining, hand, asked, doomed>>

\* The merge anchor is stored before schedule runs; schedule then asks an
\* active countdown to stop.
ScheduleSupersede ==
    /\ pasting = "pasted"
    /\ buffer' = TRUE
    /\ cancel' = (cancel \/ active)
    /\ asked' = IF active THEN asked \cup Listening ELSE asked
    /\ pasting' = "arm"
    /\ UNCHANGED <<active, pastes, task, remaining, hand, doomed>>

ScheduleArm ==
    /\ pasting = "arm"
    /\ active' = TRUE /\ pasting' = "clear"
    /\ UNCHANGED <<cancel, buffer, pastes, task, remaining, hand, asked, doomed>>

\* Mutant: the stale cancel stays.
ScheduleClearKept ==
    /\ pasting = "clear"
    /\ pasting' = "spawn" /\ doomed' = {}
    /\ UNCHANGED <<active, cancel, buffer, pastes, task, remaining, hand, asked>>

\* "Clear any stale cancel from a previous run".
ScheduleClear ==
    /\ pasting = "clear"
    /\ cancel' = FALSE /\ pasting' = "spawn" /\ doomed' = {}
    /\ UNCHANGED <<active, buffer, pastes, task, remaining, hand, asked>>

ScheduleSpawn ==
    /\ pasting = "spawn"
    /\ task' = [task EXCEPT ![pastes] = "counting"]
    /\ remaining' = [remaining EXCEPT ![pastes] = Delay]
    /\ pasting' = "no"
    /\ UNCHANGED <<active, cancel, buffer, pastes, hand, asked, doomed>>

\* A paste that has started runs to its end.
Schedule == NoCountdown \/ ScheduleSupersede \/ ScheduleArm \/ ScheduleClear \/ ScheduleSpawn

Deliver == (\E merge \in BOOLEAN : Paste(merge)) \/ Schedule

-----------------------------------------------------------------------------
(* A countdown task.                                                         *)

TakeCancel(i) ==
    /\ task[i] = "counting" /\ cancel
    /\ cancel' = FALSE
    /\ task' = [task EXCEPT ![i] = "stopping"]
    /\ UNCHANGED <<active, buffer, pasting, pastes, remaining, hand, asked, doomed>>

\* Mutant: the last tick presses Return without looking at the flag.
TickBlind(i) ==
    /\ task[i] = "counting" /\ (~cancel \/ remaining[i] = 1)
    /\ remaining' = [remaining EXCEPT ![i] = @ - 1]
    /\ task' = [task EXCEPT ![i] = IF remaining[i] = 1 THEN "due" ELSE "counting"]
    /\ UNCHANGED <<active, cancel, buffer, pasting, pastes, hand, asked, doomed>>

Tick(i) ==
    /\ task[i] = "counting" /\ ~cancel
    /\ remaining' = [remaining EXCEPT ![i] = @ - 1]
    /\ task' = [task EXCEPT ![i] = IF remaining[i] = 1 THEN "due" ELSE "counting"]
    /\ UNCHANGED <<active, cancel, buffer, pasting, pastes, hand, asked, doomed>>

PressReturn(i) ==
    /\ task[i] = "due"
    /\ task' = [task EXCEPT ![i] = "pressed"]
    /\ UNCHANGED <<active, cancel, buffer, pasting, pastes, remaining, hand, asked, doomed>>

\* The text is sent: the next utterance starts afresh.
EndMergeWindow(i) ==
    /\ task[i] = "pressed"
    /\ buffer' = FALSE
    /\ task' = [task EXCEPT ![i] = "finishing"]
    /\ UNCHANGED <<active, cancel, pasting, pastes, remaining, hand, asked, doomed>>

\* Mutant: a cancelled countdown stays active.
EndCountdownActive(i) ==
    /\ task[i] \in {"stopping", "finishing"}
    /\ active' = (task[i] = "stopping")
    /\ task' = [task EXCEPT ![i] = IF @ = "stopping" THEN "cancelled" ELSE "returned"]
    /\ UNCHANGED <<cancel, buffer, pasting, pastes, remaining, hand, asked, doomed>>

EndCountdown(i) ==
    /\ task[i] \in {"stopping", "finishing"}
    /\ active' = FALSE
    /\ task' = [task EXCEPT ![i] = IF @ = "stopping" THEN "cancelled" ELSE "returned"]
    /\ UNCHANGED <<cancel, buffer, pasting, pastes, remaining, hand, asked, doomed>>

TaskStep(i) ==
    TakeCancel(i) \/ Tick(i) \/ PressReturn(i) \/ EndMergeWindow(i) \/ EndCountdown(i)

-----------------------------------------------------------------------------
(* Key presses, clicks, the GUI's cancel button; the voice detector.         *)

\* The check: `if pause::countdown_active()'.
SeeActive(c) ==
    /\ hand[c] = "idle" /\ active
    /\ hand' = [hand EXCEPT ![c] = "ask"]
    /\ UNCHANGED <<active, cancel, buffer, pasting, pastes, task, remaining, asked, doomed>>

RequestCancel(c) ==
    /\ hand[c] = "ask"
    /\ cancel' = TRUE
    /\ asked' = asked \cup Listening
    /\ doomed' = IF c \in Keys /\ pasting = "no" /\ \E i \in Tasks : Counting = {i}
                 THEN Counting ELSE doomed
    /\ hand' = [hand EXCEPT ![c] = IF c \in Keys THEN "drop" ELSE "idle"]
    /\ UNCHANGED <<active, buffer, pasting, pastes, task, remaining>>

\* A key press also means that the user took over the field.
DropBuffer(c) ==
    /\ hand[c] = "drop"
    /\ buffer' = FALSE
    /\ hand' = [hand EXCEPT ![c] = "idle"]
    /\ UNCHANGED <<active, cancel, pasting, pastes, task, remaining, asked, doomed>>

CancelStep(c) == SeeActive(c) \/ RequestCancel(c) \/ DropBuffer(c)

Next == Deliver \/ (\E i \in Tasks : TaskStep(i)) \/ (\E c \in Cancellers : CancelStep(c))

Spec == Init /\ [][Next]_vars

\* Tasks run on the tokio runtime, and a paste that has started runs to its end.
Fairness == /\ \A i \in Tasks : WF_vars(TaskStep(i))
            /\ WF_vars(Schedule)

FairSpec == Spec /\ Fairness

-----------------------------------------------------------------------------
TypeOK ==
    /\ active \in BOOLEAN /\ cancel \in BOOLEAN /\ buffer \in BOOLEAN
    /\ pasting \in {"no", "pasted", "arm", "clear", "spawn"}
    /\ pastes \in 0..MaxPastes
    /\ pasting # "no" => pastes > 0
    /\ task \in [Tasks -> {"none", "counting", "stopping", "cancelled", "due", "pressed",
                           "finishing", "returned"}]
    /\ remaining \in [Tasks -> 0..Delay]
    /\ hand \in [Cancellers -> {"idle", "ask", "drop"}]
    /\ asked \subseteq Tasks /\ doomed \subseteq Tasks

Running(i) == task[i] \in {"counting", "stopping", "due", "pressed", "finishing"}

\* A stale cancel kills nobody: a countdown is cancelled only by a cancel stored
\* after schedule cleared the flag for it, however late the check that led to an
\* earlier store was made.
NoStaleCancel == \A i \in Tasks : task[i] \in {"stopping", "cancelled"} => i \in asked

\* Any key cancels it: a key press that finds one countdown running and no
\* paste under way stops that countdown, even on its last tick, unless a later
\* paste schedules again.
KeyStopsCountdown ==
    \A i \in doomed : task[i] \in {"counting", "stopping", "cancelled"}

\* Once Return has sent the last paste's text, the dictation buffer anchors no
\* merge with it: the next utterance does not continue a message already gone.
\* (The session dictation.rs keeps beside the buffer is not modelled.)
ReturnClosesMergeWindow ==
    pasting = "no" /\ pastes > 0 /\ task[pastes] \in {"finishing", "returned"} => ~buffer

\* A cancel stops the countdown it is meant for and no other, and Return ends the merge:
\* the three above.
CancelsHitTheirMark == NoStaleCancel /\ KeyStopsCountdown /\ ReturnClosesMergeWindow

\* schedule: "If a countdown is already active, the new one supersedes it (we
\* cancel the previous so it doesn't fire after the new paste)".
OneCountdownAtATime ==
    pasting = "no" /\ cancel = FALSE => Cardinality(Counting) <= 1

\* The overlay's countdown never stays up.
CountdownEnds == active ~> ~active
=============================================================================
