---------------------------- MODULE EditPromise ----------------------------
(* What spoken edits promise the user about the fields they work in, whatever *)
(* is pasted, typed and clicked meanwhile: what VoiceEdit keeps.              *)
EXTENDS Naturals, Sequences

CONSTANTS
    Fields,      \* text fields
    None,        \* no field: accessibility identified none
    Commands,    \* what the user may say
    MaxPastes    \* bound: pastes

ASSUME EditAssumption ==
    /\ None \notin Fields /\ MaxPastes \in Nat
    /\ Commands \subseteq {"scratch", "change", "newline", "undo", "select", "word", "enter",
                            "goto", "rewrite", "iris"}

VARIABLES
    anchors,   \* STATE.anchors
    during,    \* history: did the field change while a command was being run?
    unseen,    \* history: did a change escape the anchors?
    erased     \* history: the paths that erased the user's own typing

\* "Scratch that" only ever walks back within one field of one application, though the
\* snapshots that tell the fields are taken late and in any order.
OneField ==
    \A i, j \in DOMAIN anchors :
        /\ anchors[i].app = anchors[j].app
        /\ None \notin {anchors[i].elem, anchors[j].elem} => anchors[i].elem = anchors[j].elem

\* An edit of the last paste through accessibility never takes the user's own typing,
\* whatever went unnoticed, unless it came while the edit was being made.
AxSparesTyping == "ax" \in erased => during

\* Keystrokes erase the user's own typing only where the anchor could not know of a
\* change: input within the grace, between a paste and its note or during the edit, a
\* focus that moved by itself, a selection that an edit left (on purpose, or because its
\* write failed), an anchor stamped anew.
KeysSpareTyping == "keys" \in erased => unseen

\* No edit takes the user's own typing but by the named ways: both of the above.
EditsSpareTyping == AxSparesTyping /\ KeysSpareTyping

=============================================================================
