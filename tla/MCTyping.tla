------------------------------ MODULE MCTyping ------------------------------
(* What Always writes into a field, one side at a time: the words of an       *)
(* utterance being spoken (LiveTyping), with previews that revise a word,     *)
(* that only differ in case ("A" and "a"), and a committed chunk; and the     *)
(* spoken edits of what was dictated (VoiceEdit), where the opaque field is a *)
(* terminal, an application of its own.                                       *)
EXTENDS LiveTyping, EditPromise

MCSettled == {<<>>, <<"b">>}
MCOpen    == {<<"a", "b">>, <<"A", "b", "a">>}
MCFinals  == {<<"A", "b", "b">>}
MCBare    == [w \in {"a", "A", "b"} |-> IF w = "A" THEN "a" ELSE w]
Symmetry  == Permutations(Windows)

CONSTANTS Opaque, MaxAnchors, MaxEvents, MaxEdits, MaxText

VARIABLES
    side,   \* "live" or "edit"
    caret,  \* the focused field of VoiceEdit
    before, selected, pastes, grace, snaps, pasting, edit, edits, events

MCAppOf == [f \in Fields |-> IF f \in Opaque THEN "terminal" ELSE "notes"]
Voice   == INSTANCE VoiceEdit WITH AppOf <- MCAppOf, focus <- caret
voice   == <<caret, before, selected, anchors, pastes, grace, snaps, pasting, edit, edits,
             events, during, unseen, erased>>

TypingInit ==
    /\ side \in {"live", "edit"} /\ Init /\ Voice!Init
    /\ side = "live" => caret \in Opaque
Typing ==
    \/ side = "live" /\ Next /\ UNCHANGED <<side, voice>>
    \/ side = "edit" /\ Voice!Next /\ UNCHANGED <<side, vars>>

TypingSpec == TypingInit /\ [][Typing]_<<side, vars, voice>>

\* The bound: a pause or a delivery by another thread, not both.
OneDisturbance == pauses' + foreign' >= MaxPauses

=============================================================================
