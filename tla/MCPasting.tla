------------------------------ MODULE MCPasting ------------------------------
(* A paste and what follows it, one at a time: the delivery of finals         *)
(* (PasteDelivery), and the countdown that a delivered paste starts           *)
(* (AutoEnterCountdown).  The side that does not play rests in a state where  *)
(* nothing of it is due.                                                      *)
EXTENDS PasteDelivery, FiniteSets

CONSTANTS MaxPastes, Delay, Keys, Voices      \* of AutoEnterCountdown

ASSUME PastingAssumption ==
    /\ MaxUtterances \in Nat /\ HeldMax \in Nat \ {0} /\ RingMax \in Nat \ {0}
    /\ "loop" \notin Pasters
    /\ MaxPastes \in Nat /\ Delay \in Nat \ {0} /\ Keys \cap Voices = {}

VARIABLES
    side,   \* "countdown" or "delivery"
    active, cancel, buffer, pasting, pastes, task, remaining, hand, meant, doomed

Countdown == INSTANCE AutoEnterCountdown WITH asked <- meant

countdown == <<active, cancel, buffer, pasting, pastes, task, remaining, hand, meant, doomed>>

PastingInit == side \in {"countdown", "delivery"} /\ Init /\ Countdown!Init
Pasting ==
    \/ side = "countdown" /\ Countdown!Next /\ UNCHANGED <<side, vars>>
    \/ side = "delivery" /\ Next /\ UNCHANGED <<side, countdown>>

PastingSpec == /\ PastingInit /\ [][Pasting]_<<side, vars, countdown>>
               /\ Fairness /\ Countdown!Fairness

\* The properties of AutoEnterCountdown, see there.
CancelsHitTheirMark == Countdown!CancelsHitTheirMark
CountdownEnds       == Countdown!CountdownEnds

=============================================================================
