----------------------------- MODULE LiveTyping -----------------------------
(* Live typing (live_type.rs, with the merger of live_preview.rs and the      *)
(* preview thread of vad.rs): while an utterance is being spoken its agreed    *)
(* words are typed into the focused field; its outcome (event_loop.rs)         *)
(* corrects them to the final, removes them or leaves them.  Previews answer   *)
(* late, focus moves, a pause begins, keystrokes fail half-way, and another    *)
(* thread may deliver a held text meanwhile.  A text is its words, each with   *)
(* the utterance it is from; a field holds what Always put there.              *)
EXTENDS Integers, SequencesExt, TypingPromise

CONSTANTS MaxPreviews, MaxForeign, MaxPauses   \* bounds

VARIABLES
    uttered,   \* GENERATION: utterances begun
    phase,     \* the recording loop: "idle", "speaking"
    thread,    \* per utterance, its preview call: "none", "asked", or "answered" with
               \* what it carries
    asks,      \* previews left
    paused,    \* a pause or consume mode
    pauses, foreign,   \* pauses and deliveries by other threads left
    focus

vars == <<session, uttered, phase, thread, asks, paused, pauses, foreign, focus,
          field, wanted, fate, broken, after>>
loopVars   == <<uttered, phase, asks>>
screenVars == <<field, wanted, broken>>
worldVars  == <<paused, pauses, foreign, focus>>

NoCall    == [at |-> "none"]
Of(u, text) == [n \in DOMAIN text |-> <<u, text[n]>>]

Init ==
    /\ session = NoSession /\ uttered = 0 /\ phase = "idle"
    /\ thread = [u \in Utterances |-> NoCall] /\ asks = MaxPreviews
    /\ paused = FALSE /\ pauses = MaxPauses /\ foreign = MaxForeign /\ focus \in Windows
    /\ field = [w \in Windows |-> <<>>] /\ wanted = field
    /\ fate = [u \in Utterances |-> "open"] /\ broken = FALSE /\ after = 0

-----------------------------------------------------------------------------
(* Texts.                                                                    *)

\* agreed_prefix_all, and the count of common leading characters in plan.
Common(s, t) == LongestCommonPrefix({s, t})

\* stable_prefix: what every kept preview and this one agree on, never its last word;
\* nothing while no preview is 600 ms old.  The oldest previews but the last aged one
\* were dropped.
Kept(s) == SubSeq(s.recent, IF s.aged > 1 THEN s.aged ELSE 1, Len(s.recent))
StablePrefix(s, open) ==
    IF s.aged = 0 THEN <<>>
    ELSE LET agreed == LongestCommonPrefix(ToSet(Kept(s)) \cup {open})
         IN  IF Len(agreed) < Len(open) THEN agreed ELSE Front(open)

\* keep_typed_formatting: words that differ in case or punctuation only stay as typed.
KeepFormatting(typed, target) ==
    IF /\ typed # <<>> /\ Len(typed) <= Len(target)
       /\ \A n \in DOMAIN typed : Bare[typed[n][2]] = Bare[target[n][2]]
    THEN typed \o SubSeq(target, Len(typed) + 1, Len(target))
    ELSE target

\* plan: Backspaces over what differs, then the rest of the target.
\* Mutant: one Backspace too few when the whole text differs.
BackspacesShort(typed, target) ==
    IF Common(typed, target) = <<>> /\ typed # <<>> THEN Len(typed) - 1
    ELSE Len(typed) - Len(Common(typed, target))
Rest(typed, target) == SubSeq(target, Len(Common(typed, target)) + 1, Len(target))
Backspaces(typed, target) == Len(typed) - Len(Common(typed, target))
Edit(text, n, rest) == SubSeq(text, 1, Len(text) - n) \o rest

SameWindow(s) == s.window \in {"unset", focus}

-----------------------------------------------------------------------------
(* Keystrokes.                                                               *)

\* inject: one batch into the focused field; an error may leave any part of it sent.
Sent(n, rest) ==
    field' = [field EXCEPT ![focus] = Edit(@, n, rest)] /\ UNCHANGED broken
Failed(n, rest) ==
    /\ \E m \in 0..n, k \in 0..Len(rest) :
          /\ m = n \/ k = 0
          /\ <<m, k>> # <<n, Len(rest)>>
          /\ field' = [field EXCEPT ![focus] = Edit(@, m, SubSeq(rest, 1, k))]
    /\ broken' = TRUE

Leave(w, text) == wanted' = [wanted EXCEPT ![w] = @ \o text]

\* The fate of utterance `u', and of the one whose session a delivery by another
\* thread took.
Fate(u, what) ==
    fate' = [v \in Utterances |->
        IF fate[v] = "robbed" THEN "robbed"
        ELSE IF v = u THEN what
        ELSE IF v = session.utterance /\ v = uttered /\ phase = "speaking" THEN "robbed"
        ELSE fate[v]]

-----------------------------------------------------------------------------
(* Previews.                                                                 *)

\* begin, at the first voiced frame; a session still open is replaced.
Begin ==
    /\ phase = "idle" /\ uttered < MaxUtterances
    /\ uttered' = uttered + 1 /\ phase' = "speaking"
    /\ session' = [utterance |-> uttered', typed |-> <<>>, window |-> "unset",
                   recent |-> <<>>, aged |-> 0, stopped |-> FALSE]
    /\ IF session # NoSession /\ session.typed # <<>> THEN Leave(session.window, session.typed)
                                                     ELSE UNCHANGED wanted
    /\ UNCHANGED <<asks, thread, worldVars, field, fate, broken, after>>

\* One preview at a time is asked for while the user speaks (preview_pending).
Ask ==
    /\ phase = "speaking" /\ asks > 0 /\ thread[uttered] = NoCall
    /\ asks' = asks - 1 /\ thread' = [thread EXCEPT ![uttered] = [at |-> "asked"]]
    /\ UNCHANGED <<session, uttered, phase, worldVars, screenVars, fate, after>>

\* Mutant: the flags are not read.
AnswerBlind(u) ==
    /\ thread[u].at = "asked" /\ session.utterance = u
    /\ \E settled \in Settled, open \in Open :
          thread' = [thread EXCEPT ![u] =
              [at |-> "answered", settled |-> settled, open |-> open, paused |-> FALSE]]
    /\ UNCHANGED <<session, loopVars, worldVars, screenVars, fate, after>>

\* The engine answered; the pause flags are read before the session is locked.
Answer(u) ==
    /\ thread[u].at = "asked"
    /\ \/ thread' = [thread EXCEPT ![u] = NoCall]   \* failed, or a chunk is in flight
       \/ /\ session.utterance = u
          /\ \E settled \in Settled, open \in Open :
                 thread' = [thread EXCEPT ![u] =
                     [at |-> "answered", settled |-> settled, open |-> open, paused |-> paused]]
    /\ UNCHANGED <<session, loopVars, worldVars, screenVars, fate, after>>

Locked(u)    == session.utterance = u /\ ~session.stopped

PreviewSees(u) ==
    /\ thread[u].at = "answered" /\ thread' = [thread EXCEPT ![u] = NoCall]
PreviewDropped(u) ==
    /\ PreviewSees(u) /\ ~Locked(u)
    /\ UNCHANGED <<session, loopVars, worldVars, screenVars, fate, after>>
PreviewPaused(u) ==
    /\ PreviewSees(u) /\ Locked(u) /\ thread[u].paused
    /\ session' = [session EXCEPT !.stopped = TRUE]
    /\ UNCHANGED <<loopVars, worldVars, screenVars, fate, after>>

\* The session with the preview remembered, `aged' of the earlier ones 600 ms old.
Remembering(u, aged) ==
    [session EXCEPT !.recent = Append(Kept([session EXCEPT !.aged = aged]), thread[u].open),
                    !.aged = IF aged > 0 THEN 1 ELSE 0]
Target(u, aged) ==
    LET text == thread[u].settled \o StablePrefix([session EXCEPT !.aged = aged], thread[u].open)
    IN  KeepFormatting(session.typed, Of(u, text))

PreviewTypes(u) ==
    /\ PreviewSees(u) /\ Locked(u) /\ ~thread[u].paused
    /\ \E aged \in session.aged..Len(session.recent) :
          LET target == Target(u, aged)
              back   == Backspaces(session.typed, target)
              rest   == Rest(session.typed, target)
              kept   == Remembering(u, aged)
          IN  \/ \* nothing new, or shorter than what is typed
                 /\ rest = <<>> /\ session' = kept
                 /\ UNCHANGED <<field, broken, after>>
              \/ /\ rest # <<>> /\ ~SameWindow(session)
                 /\ session' = [kept EXCEPT !.stopped = TRUE]
                 /\ UNCHANGED <<field, broken, after>>
              \/ /\ rest # <<>> /\ SameWindow(session)
                 /\ \/ /\ Sent(back, rest)
                       /\ session' = [kept EXCEPT !.typed = target, !.window = focus]
                    \/ /\ Failed(back, rest)
                       /\ session' = [kept EXCEPT !.stopped = TRUE, !.window = focus]
                 /\ after' = IF paused THEN after + 1 ELSE after
    /\ UNCHANGED <<loopVars, worldVars, wanted, fate>>

-----------------------------------------------------------------------------
(* Outcomes.  Each takes the session.                                        *)

\* finish: the caller pastes when nothing was typed; the final stays recoverable when
\* focus has moved; else the typed words are corrected.
NotTyped(u, text) ==
    /\ ~Typed /\ Sent(0, text) /\ Leave(focus, text) /\ Fate(u, "shown")
FocusMoved(u) ==
    /\ Typed /\ ~SameWindow(session)
    /\ Leave(session.window, session.typed) /\ Fate(u, "left") /\ UNCHANGED <<field, broken>>
Corrected(u, text, what) ==
    /\ Typed /\ SameWindow(session)
    /\ LET target == KeepFormatting(session.typed, text)
           back   == Backspaces(session.typed, target)
           rest   == Rest(session.typed, target)
       IN  /\ Sent(back, rest) \/ Failed(back, rest)
           /\ Leave(focus, target) /\ Fate(u, what)

Finish(u) ==
    /\ session' = NoSession
    /\ \E payload \in Finals :
          LET text == Of(u, payload)
          IN  NotTyped(u, text) \/ FocusMoved(u) \/ Corrected(u, text, "shown")

\* retract is finish(""), and pastes nothing.
Retract(u) ==
    /\ session' = NoSession
    /\ \/ ~Typed /\ Fate(u, "gone") /\ UNCHANGED screenVars
       \/ FocusMoved(u) \/ Corrected(u, <<>>, "gone")

Abandon(u) ==
    /\ session' = NoSession /\ Fate(u, "left")
    /\ IF Typed THEN Leave(session.window, session.typed) ELSE UNCHANGED wanted
    /\ UNCHANGED <<field, broken>>

\* deliver_paste: a duplicate or a paste in flight, a text withheld or not copied, or
\* the delivery itself.
Deliver(u) == Retract(u) \/ Abandon(u) \/ Finish(u)

\* A preview call may outlast the utterance (those pushed by the Apple engine do not:
\* LivePreview::close).  process_one and handle_speech: speech that is pasted, held for the consumer with the
\* session untouched, or dropped; a microphone conflict, an error.
Ends ==
    /\ phase = "speaking" /\ phase' = "idle"
    /\ \/ Deliver(uttered)
       \/ paused /\ Fate(uttered, "held") /\ UNCHANGED <<session, screenVars>>
    /\ UNCHANGED <<uttered, asks, thread, worldVars, after>>

\* A capture without speech retracts, too.
Silence ==
    /\ phase = "idle" /\ session # NoSession /\ Retract(session.utterance)
    /\ UNCHANGED <<loopVars, thread, worldVars, after>>

\* A released or re-confirmed text is delivered by another thread.
DeliverHeld ==
    /\ foreign > 0 /\ foreign' = foreign - 1
    /\ Deliver(0)
    /\ UNCHANGED <<loopVars, thread, paused, pauses, focus, after>>

-----------------------------------------------------------------------------
(* The world around.                                                         *)

MovesFocus ==
    /\ focus' \in Windows \ {focus}
    /\ UNCHANGED <<session, loopVars, thread, paused, pauses, foreign, screenVars,
                   fate, after>>

Pauses ==
    /\ paused \/ pauses > 0
    /\ paused' = ~paused /\ after' = 0
    /\ pauses' = IF paused THEN pauses ELSE pauses - 1
    /\ UNCHANGED <<session, loopVars, thread, foreign, focus, screenVars, fate>>

Preview(u) == Answer(u) \/ PreviewDropped(u) \/ PreviewPaused(u) \/ PreviewTypes(u)

Next ==
    \/ Begin \/ Ask \/ Ends \/ Silence \/ DeliverHeld
    \/ \E u \in Utterances : Preview(u)
    \/ MovesFocus \/ Pauses

Spec == Init /\ [][Next]_vars

=============================================================================
