----------------------------- MODULE VoiceEdit -----------------------------
(* Editing by voice what was just dictated (voice_edit.rs): a stack of        *)
(* anchors remembers every paste; a command is gated on the newest one, is    *)
(* planned against the focused field, and is carried out through the          *)
(* accessibility API where the field can be read (AX) and else by keystrokes, *)
(* which trust the anchor.  Meanwhile other threads paste, snapshot threads   *)
(* look at the focused field, the countdown presses Return, the user types.   *)
EXTENDS Integers, Sequences, SequencesExt, EditPromise

CONSTANTS
    Opaque,      \* those whose text accessibility cannot read or write
    AppOf,       \* the application of each field
    MaxAnchors,  \* MAX_ANCHORS
    MaxEvents, MaxEdits, MaxText  \* bounds: inputs, commands, pieces in a field

VARIABLES
    focus,     \* the focused field
    before,    \* the pieces of text before the caret of each field
    selected,  \* fields whose last piece is selected
    pastes,    \* STATE.next_id
    grace,     \* does self_post_until lie ahead?
    snaps,     \* pastes whose snapshot thread has not looked yet
    pasting,   \* PASTE_IN_FLIGHT: a paste is on the screen and not yet noted
    edit,      \* the command being run
    edits, events    \* counters of commands and inputs

world == <<focus, before, selected>>
state == <<anchors, pastes, grace, snaps>>
history == <<during, unseen, erased>>
vars == <<world, state, pasting, edit, edits, events, history>>

\* Pieces of text: the user's own typing, a paste (its number), its edited form, other.
Own == 0
Edited(n) == IF n > 0 THEN -n ELSE n
Other == MaxPastes + 1

Unsent == [id |-> 0, text |-> Own, app |-> None, elem |-> None, since |-> {}, old |-> FALSE]
Rest   == [at |-> "idle", anchor |-> Unsent, text |-> Own, elem |-> None,
           does |-> "none", by |-> "none", index |-> 0, effect |-> "none"]

Init ==
    /\ focus \in Fields
    /\ before = [f \in Fields |-> <<>>] /\ selected = {}
    /\ anchors = <<>> /\ pastes = 0 /\ grace = FALSE /\ snaps = {}
    /\ pasting = FALSE /\ edit = Rest /\ edits = 0 /\ events = 0
    /\ during = FALSE /\ unseen = FALSE /\ erased = {}

\* pause::current_app follows the focus.
App == AppOf[focus]

-----------------------------------------------------------------------------
(* What happened since each anchor's time stamp.                             *)

Since(what, as) == [i \in DOMAIN as |-> [as[i] EXCEPT !.since = @ \cup {what}]]
Top(as) == IF as = <<>> THEN Unsent ELSE Last(as)
\* Text typed or pasted replaces what is selected.
Put(f, piece) ==
    LET kept == IF f \in selected THEN Front(before[f]) ELSE before[f]
    IN  /\ Len(kept) < MaxText
        /\ before' = [before EXCEPT ![f] = Append(kept, piece)]
        /\ selected' = selected \ {f}

-----------------------------------------------------------------------------
(* The hooks of the pipeline.                                                *)

\* deliver_paste types a text into the focused field ...
Paste ==
    /\ ~pasting /\ pastes < MaxPastes
    /\ pasting' = TRUE
    /\ Put(focus, pastes + 1)
    /\ UNCHANGED <<focus, state, edit, edits, events, history>>

\* ... and note_paste remembers it: another application starts a new stack, the
\* oldest anchor falls off a full one.
NotePaste ==
    /\ pasting /\ pasting' = FALSE
    /\ pastes' = pastes + 1
    /\ LET stack == IF anchors # <<>> /\ Last(anchors).app # App THEN <<>> ELSE anchors
           all   == Append(stack, [Unsent EXCEPT !.id = pastes', !.text = pastes', !.app = App])
       IN  anchors' = IF Len(all) > MaxAnchors THEN Tail(all) ELSE all
    /\ grace' = TRUE /\ snaps' = snaps \cup {pastes'}
    /\ UNCHANGED <<world, edit, edits, events, history>>

\* retain: numbers are not reused, so that one anchor is left, or none.
Only(n, as) == IF \E i \in DOMAIN as : as[i].id = n
               THEN <<as[CHOOSE i \in DOMAIN as : as[i].id = n]>> ELSE <<>>
SetElem(n, e, as) == [i \in DOMAIN as |-> IF as[i].id = n THEN [as[i] EXCEPT !.elem = e] ELSE as[i]]
SnapshotKeepsAll(n, e) ==  \* mutant
    /\ n \in snaps /\ snaps' = snaps \ {n}
    /\ anchors' = SetElem(n, e, anchors)
    /\ UNCHANGED <<world, pastes, grace, pasting, edit, edits, events, history>>

\* A paste's snapshot thread looks at the field focused by now, if accessibility tells:
\* anchors of another field go.
Snapshot(n, e) ==
    /\ n \in snaps /\ snaps' = snaps \ {n}
    /\ LET differs == e # None /\ \E i \in DOMAIN anchors :
                          anchors[i].id # n /\ anchors[i].elem \notin {None, e}
       IN  anchors' = SetElem(n, e, IF differs THEN Only(n, anchors) ELSE anchors)
    /\ UNCHANGED <<world, pastes, grace, pasting, edit, edits, events, history>>

\* note_committed, then Return: the field's text is sent.
Commit ==
    /\ anchors # <<>> /\ ~(\A i \in DOMAIN anchors : "committed" \in anchors[i].since)
    /\ events < MaxEvents /\ events' = events + 1
    /\ anchors' = Since("committed", anchors) /\ grace' = TRUE
    /\ before' = [before EXCEPT ![focus] = <<>>] /\ selected' = selected \ {focus}
    /\ during' = (during \/ edit.at # "idle") /\ unseen' = (unseen \/ edit.at # "idle")
    /\ UNCHANGED <<focus, pastes, snaps, pasting, edit, edits, erased>>

GraceEnds ==
    /\ grace /\ grace' = FALSE
    /\ UNCHANGED <<world, anchors, pastes, snaps, pasting, edit, edits, events, history>>

\* Half a minute goes by.
TimePasses ==
    /\ edit.at = "idle" /\ ~pasting /\ ~grace /\ snaps = {}
    /\ \E i \in DOMAIN anchors : ~anchors[i].old
    /\ anchors' = [i \in DOMAIN anchors |-> [anchors[i] EXCEPT !.old = TRUE]]
    /\ UNCHANGED <<world, pastes, grace, snaps, pasting, edit, edits, events, history>>

-----------------------------------------------------------------------------
(* The user.                                                                 *)

\* note_user_input: nothing counts within the grace of our own key strokes.
Input ==
    /\ events < MaxEvents /\ events' = events + 1
    /\ anchors' = IF grace THEN anchors ELSE Since("input", anchors)
    /\ during' = (during \/ edit.at # "idle")
    /\ unseen' = (unseen \/ grace \/ pasting \/ edit.at # "idle")
    /\ UNCHANGED <<pastes, grace, snaps, pasting, edit, edits, erased>>

TypeText == Input /\ Put(focus, Own) /\ UNCHANGED <<focus>>

\* A click into another field, or to another place of this one.
Click(f) ==
    /\ Input /\ focus' = f
    /\ before' = IF f = focus THEN [before EXCEPT ![f] = <<>>] ELSE before
    /\ selected' = selected \ {f}

\* The focus may also move by itself.
FocusMoves(f) ==
    /\ f # focus /\ focus' = f
    /\ events < MaxEvents /\ events' = events + 1
    /\ unseen' = TRUE
    /\ UNCHANGED <<before, selected, state, pasting, edit, edits, during, erased>>

-----------------------------------------------------------------------------
(* A command: run_inner, bare or addressed to Iris (forced), and Iris's own   *)
(* replace_target ("iris").                                                   *)

\* The newest anchor and what happened since, read under the lock.
Look ==
    /\ edit.at = "idle" /\ edits < MaxEdits
    /\ edits' = edits + 1
    /\ edit' = [Rest EXCEPT !.at = "plan", !.anchor = Top(anchors)]
    /\ UNCHANGED <<world, state, pasting, events, history>>

Declined == edit' = Rest /\ UNCHANGED <<world, state, pasting, edits, events, history>>

SameField(a, e) == a.elem = None \/ e = None \/ a.elem = e

\* gate_verdict, for a bare command.
Gate(a, e) ==
    /\ a.id # 0 /\ ~a.old
    /\ a.app = App
    /\ SameField(a, e)
    /\ a.since \cap {"committed", "input"} = {}

Readable(e) == e \in Fields \ Opaque
Trusted(a, e) == a.id # 0 /\ ~a.old /\ SameField(a, e)
LocatedBlindly(a, e) == Trusted(a, e) /\ Readable(e) /\ before[e] # <<>>  \* mutant
\* locate_anchor: the payload ends at the caret.
AtCaret(a, e) == Readable(e) /\ e \notin selected /\ before[e] # <<>> /\ Last(before[e]) = a.text
Located(a, e) == Trusted(a, e) /\ AtCaret(a, e)
KeysExactTracked(a, e) == Trusted(a, e) /\ a.since \ {"untracked"} = {}  \* mutant
KeysExact(a, e) == Trusted(a, e) /\ a.since = {}

\* What is done, by which path, at which piece of the field, and to the anchor.
Do(does, by, index, effect) == [does |-> does, by |-> by, index |-> index, effect |-> effect]
OnAnchor(a, e, does, effect) ==
    IF Located(a, e) THEN {Do(does, "ax", Len(before[e]), effect)}
    ELSE IF ~Readable(e) /\ KeysExact(a, e) THEN {Do(does, "keys", 0, effect)} ELSE {}
AnyPath(e, does, effect) == {Do(does, IF Readable(e) THEN "ax" ELSE "keys", 0, effect)}
LastWord(e) ==
    IF Readable(e) THEN {Do("erase", "word", Len(before[e]), "untracked")} \ {Do("erase", "word", 0, "untracked")}
    ELSE {Do("erase", "wordKeys", 0, "untracked")}

\* plan
Plans(c, a, e, forced) ==
    CASE c = "scratch" -> OnAnchor(a, e, "erase", "pop")
      [] c = "change"  -> IF forced /\ Readable(e) /\ ~Located(a, e)
                          THEN {Do("change", "field", i, "untracked") : i \in DOMAIN before[e]}
                          ELSE OnAnchor(a, e, "change", "rewrite")
      [] c = "newline" -> AnyPath(e, "newline", "untracked")
      [] c = "undo"    -> {Do("undo", "keys", 0, "untracked")}
      [] c = "select"  -> OnAnchor(a, e, "select", "none")
      [] c = "word"    -> LastWord(e)
      [] c = "enter"   -> {Do("enter", "keys", 0, "none")}
      [] c = "goto"    -> AnyPath(e, "goto", "none")
      [] c = "rewrite" -> IF Located(a, e) \/ (Readable(e) /\ e \in selected)
                          THEN {Do("handoff", "iris", 0, "none")} ELSE {}
      [] c = "iris"    -> IF Readable(e) /\ e \in selected
                          THEN {Do("change", "field", Len(before[e]), "skip")}
                          ELSE IF a.id # 0 /\ ~a.old /\ AtCaret(a, e) THEN {Do("change", "ax", Len(before[e]), "rewrite")} ELSE {}

\* The command said, the focused element, if accessibility tells, the gate and the plan.
Plan(c, forced) ==
    /\ edit.at = "plan"
    /\ c = "iris" => forced
    /\ \E e \in {focus, None} :
        LET plans == Plans(c, edit.anchor, e, forced)
        IN  IF (forced \/ Gate(edit.anchor, e)) /\ plans # {}
            THEN /\ \E p \in plans : edit' = [Rest EXCEPT !.at = "execute", !.text = edit.anchor.text, !.elem = e,
                                  !.does = p.does, !.by = p.by, !.index = p.index, !.effect = p.effect]
                 /\ UNCHANGED <<world, state, pasting, edits, events, history>>
            ELSE Declined

\* A paste is landing, or the element, the keys or the rewriter fails: the words are dictated.
Fails == edit.at = "execute" /\ Declined

\* Take piece i of field f away, or put another in its place.
Without(f, i) == [before EXCEPT ![f] = RemoveAt(@, i)]
With(f, i, p) == [before EXCEPT ![f] = [@ EXCEPT ![i] = p]]

\* Through accessibility: the range is selected, overwritten and verified.  A write that
\* is not what was expected, or typed over the selection and not seen in time, is an
\* error that leaves the selection.
ExecuteAx ==
    /\ edit.at = "execute" /\ ~pasting
    /\ edit.by \in {"ax", "field", "word"} /\ edit.index \in 1..Len(before[edit.elem])
    /\ LET f == edit.elem
           i == edit.index
           piece == before[f][i]
           Wrote(text) == before' = text /\ selected' = selected \ {f}
       IN  \/ /\ edit.does = "erase" /\ Wrote(Without(f, i))
              /\ edit' = [edit EXCEPT !.at = "apply"] /\ grace' \in {grace, TRUE}
           \/ /\ edit.does = "change" /\ Wrote(With(f, i, IF edit.by = "ax" THEN Edited(piece) ELSE Other))
              /\ edit' = [edit EXCEPT !.at = "apply"] /\ grace' \in {grace, TRUE}
           \/ /\ edit.does = "select" /\ selected' = selected \cup {f} /\ before' = before
              /\ edit' = [edit EXCEPT !.at = "apply"] /\ grace' = grace
           \/ /\ edit.does \in {"erase", "change"}
              /\ before' \in {before, With(f, i, Other)}
              /\ selected' = IF i = Len(before[f]) THEN selected \cup {f} ELSE selected
              /\ edit' = Rest /\ grace' \in {grace, TRUE}
    /\ erased' = IF edit.by = "ax" /\ before' # before /\ before[edit.elem][edit.index] = Own
                 THEN erased \cup {"ax"} ELSE erased
    /\ unseen' = (unseen \/ ~(selected' \subseteq selected))
    /\ UNCHANGED <<focus, anchors, pastes, snaps, pasting, edits, events, during>>

\* A new line, Return, undo or a caret move, by whichever path.
ExecuteOther ==
    /\ edit.at = "execute" /\ ~pasting /\ edit.does \in {"newline", "undo", "enter", "goto", "handoff"}
    /\ LET f == IF edit.by = "ax" THEN edit.elem ELSE focus
       IN  CASE edit.does = "newline" -> Put(f, Other)
             [] edit.does = "undo"    -> /\ before' \in {before} \cup
                                              (IF before[f] = <<>> THEN {} ELSE {[before EXCEPT ![f] = Front(@)]})
                                         /\ selected' = selected \ {f}
             [] edit.does = "enter"   -> before' = [before EXCEPT ![f] = <<>>] /\ selected' = selected \ {f}
             [] edit.does = "goto"    -> /\ before' \in {before, [before EXCEPT ![f] = <<>>]}
                                         /\ selected' = selected \ {f}
             [] OTHER                 -> UNCHANGED <<before, selected>>
    /\ edit' = [edit EXCEPT !.at = "apply"]
    /\ grace' = (grace \/ edit.by = "keys")
    /\ UNCHANGED <<focus, anchors, pastes, snaps, pasting, edits, events, history>>

\* By keystrokes, into whatever has the focus now: as many Backspaces as the text is
\* long, then the new text.
ExecuteKeys ==
    /\ edit.at = "execute" /\ ~pasting /\ edit.by \in {"keys", "wordKeys"}
    /\ edit.does \in {"erase", "change", "select"}
    /\ LET f == focus
           kept == IF before[f] = <<>> THEN <<>> ELSE Front(before[f])
       IN  /\ before' = CASE edit.does = "erase"  -> [before EXCEPT ![f] = kept]
                          [] edit.does = "change" -> [before EXCEPT ![f] = Append(kept, Edited(edit.text))]
                          [] OTHER                -> before
           /\ selected' = IF edit.does = "select" /\ before[f] # <<>> THEN selected \cup {f} ELSE selected \ {f}
           /\ erased' = IF edit.by = "keys" /\ edit.does # "select" /\ before[f] # <<>> /\ Last(before[f]) = Own
                        THEN erased \cup {"keys"} ELSE erased
    /\ unseen' = (unseen \/ edit.does = "select")
    /\ grace' = TRUE /\ edit' = [edit EXCEPT !.at = "apply"]
    /\ UNCHANGED <<focus, anchors, pastes, snaps, pasting, edits, events, during>>

\* apply_effect: to whichever anchor is the newest by now, which is stamped anew, for
\* chained edits; then the Return of "press enter" is noted.
Apply ==
    /\ edit.at = "apply" /\ edit' = Rest
    /\ LET left    == IF edit.effect = "pop" /\ anchors # <<>> THEN Front(anchors) ELSE anchors
           text    == IF edit.effect = "rewrite" THEN Edited(edit.text) ELSE Top(left).text
           stamped == IF left = <<>> \/ edit.effect = "skip" THEN left
                      ELSE Append(Front(left), [Last(left) EXCEPT !.text = text, !.since = {}, !.old = FALSE])
           tracked == IF edit.effect = "untracked" THEN Since("untracked", stamped) ELSE stamped
       IN  /\ anchors' = IF edit.does = "enter" THEN Since("committed", tracked) ELSE tracked
           /\ unseen' = (unseen \/ (Top(left).since # {} /\ edit.effect # "skip"))
    /\ grace' = (grace \/ edit.does = "enter")
    /\ UNCHANGED <<world, pastes, snaps, pasting, edits, events, during, erased>>

Next ==
    \/ Paste \/ NotePaste \/ Commit \/ GraceEnds \/ TimePasses
    \/ \E n \in snaps, e \in {focus, None} : Snapshot(n, e)
    \/ TypeText
    \/ \E f \in Fields : Click(f) \/ FocusMoves(f)
    \/ \E c \in Commands, forced \in BOOLEAN : Plan(c, forced)
    \/ Look \/ Fails \/ ExecuteAx \/ ExecuteOther \/ ExecuteKeys \/ Apply

Spec == Init /\ [][Next]_vars

-----------------------------------------------------------------------------
TypeOK ==
    /\ focus \in Fields /\ selected \subseteq Fields /\ snaps \subseteq 1..MaxPastes
    /\ \A f \in Fields : Len(before[f]) <= MaxText
    /\ Len(anchors) <= MaxAnchors /\ pasting \in BOOLEAN /\ grace \in BOOLEAN
    /\ edit.at \in {"idle", "plan", "execute", "apply"}

\* SAFETY CONTRACT (voice_edit.rs:15-16, 25-27): keystrokes only edit a field "provably
\* untouched since the paste".  The code does not keep this.
KeysOnlyUntouched == "keys" \notin erased
=============================================================================
