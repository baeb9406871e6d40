---------------------------- MODULE PasteDelivery ----------------------------
(* What happens to a final text: typed into the focused app under the paste  *)
(* lock (deliver_paste of event_loop.rs), parked for a consumer's verdict    *)
(* (held.rs), kept in the recoverable ring (rejected.rs) or in the slot of   *)
(* the force-paste hotkey (LAST_FILTERED of pause.rs).  The event loop, the  *)
(* threads of released and re-confirmed texts, the hotkey and the expiry     *)
(* threads all run concurrently.                                             *)
EXTENDS Naturals, Sequences, SequencesExt

CONSTANTS
    MaxUtterances,  \* bound: utterances spoken
    HeldMax,        \* HELD_MAX
    RingMax,        \* RING_MAX
    Pasters         \* bound: threads spawned for released and confirmed texts

Utterances == 1..MaxUtterances
Threads == {"loop"} \cup Pasters

VARIABLES
    said,      \* utterances spoken so far
    pc,        \* where each thread is
    doing,     \* the text it handles
    asked,     \* history: threads the user's request started
    inFlight,  \* PASTE_IN_FLIGHT
    held,      \* HELD, oldest first
    ring,      \* RING, oldest first
    slot,      \* LAST_FILTERED, 0 when empty
    clip,      \* the clipboard: its text and who copied it there
    hotkey,    \* the force-paste: "idle", "taken" or "copied", and its text
    fate,      \* history: what became of each text
    barred,    \* history: texts not to be typed by themselves
    consuming  \* is_consume_mode: some connection has a lease

textVars == <<held, ring, slot, clip, hotkey, fate, barred>>
vars == <<said, pc, doing, asked, inFlight, textVars, consuming>>

Init ==
    /\ said = 0
    /\ pc = [t \in Threads |-> "idle"] /\ doing = [t \in Threads |-> 0] /\ asked = {}
    /\ inFlight = FALSE
    /\ held = <<>> /\ ring = <<>> /\ slot = 0
    /\ clip = [text |-> 0, by |-> "user"] /\ hotkey = [at |-> "idle", text |-> 0]
    /\ fate = [u \in Utterances |-> "open"] /\ barred = {}
    /\ consuming = FALSE

-----------------------------------------------------------------------------
(* The ring and the queue of held texts.                                     *)

\* rejected::push: the oldest entries go when the ring is full.
PushAll(texts) == LET all == ring \o texts
                  IN  SubSeq(all, IF Len(all) > RingMax THEN Len(all) - RingMax + 1 ELSE 1, Len(all))

\* `position' and `remove': the queue without one entry of u.
Without(q, u) == {RemoveAt(q, i) : i \in {j \in DOMAIN q : q[j] = u}}

\* What became of the texts when u met f, and the ring and the slot are now r
\* and s: a text that left both, and was not taken for a paste, is gone.
Fates(u, f, r, s) ==
    [v \in Utterances |->
        IF fate[v] = "typed" THEN "typed"
        ELSE IF v = u THEN f
        ELSE IF v \in (ToSet(ring) \cup {slot}) \ (ToSet(r) \cup {s}) THEN "pushedOut"
        ELSE fate[v]]

\* Cmd+V meant for u types what the clipboard holds by then.
Typed(u) == [v \in Utterances |-> CASE v = clip.text -> "typed"
                                    [] v = u /\ v # clip.text /\ fate[v] # "typed" -> "swapped"
                                    [] OTHER -> fate[v]]

\* keep_withheld and the other ways into the ring; set_last_filtered.
Push(u) ==
    /\ ring' = PushAll(<<u>>) /\ slot' = slot
    /\ fate' = Fates(u, "open", ring', slot)
    /\ barred' = barred \cup {u}
IntoSlot(u) ==
    /\ slot' = u /\ ring' = ring
    /\ fate' = Fates(u, "open", ring, u)
    /\ barred' = barred \cup {u}
PushAndIntoSlot(u) ==
    /\ slot' = u /\ ring' = PushAll(<<u>>)
    /\ fate' = Fates(u, "open", ring', u)
    /\ barred' = barred \cup {u}

Start(t, u, wanted) ==
               /\ pc[t] = "idle"
               /\ asked' = IF wanted THEN asked \cup {t} ELSE asked \ {t}
               /\ pc' = [pc EXCEPT ![t] = "begin"] /\ doing' = [doing EXCEPT ![t] = u]
At(t, from, to) == pc[t] = from /\ pc' = [pc EXCEPT ![t] = to] /\ UNCHANGED <<doing, asked>>

-----------------------------------------------------------------------------
(* The event loop has a final (process_one, handle_speech).                  *)

\* A final the action table pastes; the consume check comes at the very end.
SpeakFinal ==
    /\ pc["loop"] = "idle" /\ said < MaxUtterances
    /\ said' = said + 1
    /\ pc' = [pc EXCEPT !["loop"] = "route"] /\ doing' = [doing EXCEPT !["loop"] = said']
    /\ UNCHANGED <<asked, inFlight, textVars, consuming>>

\* Dropped: a final within the cooldown of the last one.
SpeakInCooldown ==
    /\ pc["loop"] = "idle" /\ said < MaxUtterances
    /\ said' = said + 1
    /\ fate' = Fates(said', "dropped", ring, slot)
    /\ UNCHANGED <<pc, doing, asked, inFlight, held, ring, slot, clip, hotkey, barred, consuming>>

\* A filter rule blocked it: it stays in the slot and on the clipboard.
SpeakFiltered ==
    /\ pc["loop"] = "idle" /\ said < MaxUtterances
    /\ said' = said + 1
    /\ IntoSlot(said') /\ clip' = [text |-> said', by |-> "filter"]
    /\ UNCHANGED <<pc, doing, asked, inFlight, held, hotkey, consuming>>

\* A hallucination, or a filtered text that could not be copied.
SpeakHallucinated ==
    /\ pc["loop"] = "idle" /\ said < MaxUtterances
    /\ said' = said + 1
    /\ IntoSlot(said')
    /\ UNCHANGED <<pc, doing, asked, inFlight, held, clip, hotkey, consuming>>

\* Speech in another language: kept in both places.
SpeakForeign ==
    /\ pc["loop"] = "idle" /\ said < MaxUtterances
    /\ said' = said + 1
    /\ PushAndIntoSlot(said')
    /\ UNCHANGED <<pc, doing, asked, inFlight, held, clip, hotkey, consuming>>

\* A mic conflict cut it short, or it is not the user's voice.
SpeakRejected ==
    /\ said < MaxUtterances
    /\ said' = said + 1
    /\ Push(said')
    /\ UNCHANGED <<pc, doing, asked, inFlight, held, clip, hotkey, consuming>>

Route ==
    /\ At("loop", "route", IF consuming THEN "park" ELSE "begin")
    /\ UNCHANGED <<said, inFlight, textVars, consuming>>

\* held::park; a queue that is too long loses its oldest to the ring.
Park ==
    /\ At("loop", "park", "idle")
    /\ LET all == Append(held, doing["loop"])
           n   == IF Len(all) > HeldMax THEN Len(all) - HeldMax ELSE 0
       IN  /\ held' = SubSeq(all, n + 1, Len(all))
           /\ ring' = PushAll(SubSeq(all, 1, n))
           /\ barred' = barred \cup ToSet(SubSeq(all, 1, n))
           /\ fate' = Fates(0, "open", ring', slot)
    /\ UNCHANGED <<said, inFlight, slot, clip, hotkey, consuming>>

-----------------------------------------------------------------------------
(* deliver_paste.                                                            *)

\* Too like what was just pasted.
SuppressDuplicate(t) ==
    /\ At(t, "begin", "idle")
    /\ \E v \in Utterances : fate[v] = "typed"
    /\ fate' = Fates(doing[t], "duplicate", ring, slot)
    /\ UNCHANGED <<said, inFlight, held, ring, slot, clip, hotkey, barred, consuming>>

\* try_begin_paste fails: another paste is in flight.
Collide(t) ==
    /\ At(t, "begin", "idle")
    /\ inFlight
    /\ fate' = Fates(doing[t], "collided", ring, slot)
    /\ UNCHANGED <<said, inFlight, held, ring, slot, clip, hotkey, barred, consuming>>

\* Mutant: the flag is stored, not swapped.
BeginPasteAnyway(t) ==
    /\ At(t, "begin", "locked")
    /\ inFlight' = TRUE
    /\ UNCHANGED <<said, textVars, consuming>>

TryBeginPaste(t) ==
    /\ At(t, "begin", "locked")
    /\ ~inFlight /\ inFlight' = TRUE
    /\ UNCHANGED <<said, textVars, consuming>>

\* A pause began after capture started: not typed, but kept in both places.
Withhold(t) ==
    /\ At(t, "locked", "closing")
    /\ PushAndIntoSlot(doing[t])
    /\ UNCHANGED <<said, inFlight, held, clip, hotkey, consuming>>

\* Mutant: the early return of a failed copy keeps the lock.
CopyFailsLocked(t) ==
    /\ At(t, "locked", "idle")
    /\ IntoSlot(doing[t])
    /\ UNCHANGED <<said, inFlight, held, clip, hotkey, consuming>>

CopyFails(t) ==
    /\ At(t, "locked", "closing")
    /\ IntoSlot(doing[t])
    /\ UNCHANGED <<said, inFlight, held, clip, hotkey, consuming>>

Copy(t) ==
    /\ At(t, "locked", "copied")
    /\ clip' = [text |-> doing[t], by |-> "paste"]
    /\ UNCHANGED <<said, inFlight, held, ring, slot, hotkey, fate, barred, consuming>>

\* Command is held: a shortcut is in flight.
CmdHeld(t) ==
    /\ At(t, "copied", "closing")
    /\ IntoSlot(doing[t])
    /\ UNCHANGED <<said, inFlight, held, clip, hotkey, consuming>>

\* Live typing lost its window.
FocusMoved(t) ==
    /\ At(t, "copied", "closing")
    /\ PushAndIntoSlot(doing[t])
    /\ UNCHANGED <<said, inFlight, held, clip, hotkey, consuming>>

PasteFails(t) ==
    /\ At(t, "copied", "closing")
    /\ fate' = Fates(doing[t], "failed", ring, slot)
    /\ UNCHANGED <<said, inFlight, held, ring, slot, clip, hotkey, barred, consuming>>

\* Cmd+V types what the clipboard holds.
PressPaste(t) ==
    /\ At(t, "copied", "settling")
    /\ fate' = Typed(doing[t])
    /\ UNCHANGED <<said, inFlight, held, ring, slot, clip, hotkey, barred, consuming>>

\* Live typing had typed the words already and corrects them in place.
Corrected(t) ==
    /\ At(t, "copied", "settling")
    /\ fate' = Fates(doing[t], "typed", ring, slot)
    /\ UNCHANGED <<said, inFlight, held, ring, slot, clip, hotkey, barred, consuming>>

EndPaste(t) ==
    /\ pc[t] \in {"closing", "settling"}
    /\ pc' = [pc EXCEPT ![t] = "idle"] /\ UNCHANGED <<doing, asked>>
    /\ inFlight' = FALSE
    /\ UNCHANGED <<said, textVars, consuming>>

DeliverStep(t) ==
    \/ SuppressDuplicate(t) \/ Collide(t) \/ TryBeginPaste(t)
    \/ Withhold(t) \/ CopyFails(t) \/ Copy(t)
    \/ CmdHeld(t) \/ FocusMoved(t) \/ PasteFails(t) \/ PressPaste(t) \/ Corrected(t)
    \/ EndPaste(t)

-----------------------------------------------------------------------------
(* The consumer's verdict, the ring's requests and the hotkey.               *)

ReleaseHeld(t, u) ==
    /\ held' \in Without(held, u)
    /\ Start(t, u, FALSE)
    /\ UNCHANGED <<said, inFlight, ring, slot, clip, hotkey, fate, barred, consuming>>

\* Mutant: a claimed text stays held.
DiscardKeepsHeld(u) ==
    /\ u \in ToSet(held)
    /\ fate' = Fates(u, "claimed", ring, slot)
    /\ barred' = barred \cup {u}
    /\ UNCHANGED <<said, pc, doing, asked, inFlight, held, ring, slot, clip, hotkey, consuming>>

DiscardHeld(u) ==
    /\ held' \in Without(held, u)
    /\ fate' = Fates(u, "claimed", ring, slot)
    /\ barred' = barred \cup {u}
    /\ UNCHANGED <<said, pc, doing, asked, inFlight, ring, slot, clip, hotkey, consuming>>

\* Mutants: an expired text is dropped; only a full queue expires.
ExpireDrops ==
    /\ held # <<>>
    /\ held' = Tail(held)
    /\ UNCHANGED <<said, pc, doing, asked, inFlight, ring, slot, clip, hotkey, fate, barred, consuming>>

ExpireWhenFull ==
    /\ Len(held) > HeldMax
    /\ held' = Tail(held)
    /\ Push(Head(held))
    /\ UNCHANGED <<said, pc, doing, asked, inFlight, clip, hotkey, consuming>>

\* HELD_TTL passes: the oldest held text becomes recoverable.
Expire ==
    /\ held # <<>>
    /\ held' = Tail(held)
    /\ Push(Head(held))
    /\ UNCHANGED <<said, pc, doing, asked, inFlight, clip, hotkey, consuming>>

\* RECOVER_TTL passes: `retain' drops the oldest.
Age ==
    /\ ring # <<>>
    /\ ring' = Tail(ring)
    /\ fate' = Fates(0, "open", ring', slot)
    /\ UNCHANGED <<said, pc, doing, asked, inFlight, held, slot, clip, hotkey, barred, consuming>>

\* PasteRejected: the user wants it typed after all.
PasteRejected(t, u) ==
    /\ ring' \in Without(ring, u)
    /\ Start(t, u, TRUE)
    /\ UNCHANGED <<said, inFlight, held, slot, clip, hotkey, fate, barred, consuming>>

\* The hotkey takes the slot, copies it and presses Cmd+V, without the lock.
ForceTake ==
    /\ hotkey.at = "idle" /\ slot # 0
    /\ hotkey' = [at |-> "taken", text |-> slot] /\ slot' = 0
    /\ UNCHANGED <<said, pc, doing, asked, inFlight, held, ring, clip, fate, barred, consuming>>

ForceCopy ==
    /\ hotkey.at = "taken"
    /\ hotkey' = [hotkey EXCEPT !.at = "copied"]
    /\ clip' = [text |-> hotkey.text, by |-> "hotkey"]
    /\ UNCHANGED <<said, pc, doing, asked, inFlight, held, ring, slot, fate, barred, consuming>>

ForcePress ==
    /\ hotkey.at = "copied"
    /\ hotkey' = [at |-> "idle", text |-> 0]
    /\ fate' = Typed(hotkey.text)
    /\ UNCHANGED <<said, pc, doing, asked, inFlight, held, ring, slot, clip, barred, consuming>>

ForceFails ==
    /\ hotkey.at \in {"taken", "copied"}
    /\ IntoSlot(hotkey.text) /\ hotkey' = [at |-> "idle", text |-> 0]
    /\ UNCHANGED <<said, pc, doing, asked, inFlight, held, clip, consuming>>

-----------------------------------------------------------------------------
(* Connections take and give back consume leases (ConsumeLeases).            *)

ConsumeModeChanges ==
    /\ consuming' = ~consuming
    /\ UNCHANGED <<said, pc, doing, asked, inFlight, textVars>>

-----------------------------------------------------------------------------
LoopStep == Route \/ Park

Next ==
    \/ SpeakFinal \/ SpeakInCooldown \/ SpeakFiltered
    \/ SpeakHallucinated \/ SpeakForeign \/ SpeakRejected
    \/ LoopStep
    \/ \E t \in Threads : DeliverStep(t)
    \/ \E t \in Pasters, u \in Utterances : ReleaseHeld(t, u) \/ PasteRejected(t, u)
    \/ \E u \in Utterances : DiscardHeld(u)
    \/ Expire \/ Age
    \/ ForceTake \/ ForceCopy \/ ForcePress \/ ForceFails
    \/ ConsumeModeChanges

Spec == Init /\ [][Next]_vars

\* A delivery that started runs on, and every parked text has an expiry thread.
Fairness == /\ WF_vars(LoopStep) /\ WF_vars(Expire)
            /\ \A t \in Threads : WF_vars(DeliverStep(t))

FairSpec == Spec /\ Fairness

-----------------------------------------------------------------------------
TypeOK ==
    /\ said \in 0..MaxUtterances
    /\ pc \in [Threads -> {"idle", "route", "park", "begin", "locked", "copied", "settling", "closing"}]
    /\ doing \in [Threads -> 0..MaxUtterances]
    /\ asked \subseteq Pasters /\ inFlight \in BOOLEAN
    /\ held \in Seq(Utterances) /\ Len(held) <= HeldMax
    /\ ring \in Seq(Utterances) /\ Len(ring) <= RingMax
    /\ slot \in 0..MaxUtterances
    /\ clip \in [text : 0..MaxUtterances, by : {"user", "paste", "filter", "hotkey"}]
    /\ hotkey \in [at : {"idle", "taken", "copied"}, text : 0..MaxUtterances]
    /\ fate \in [Utterances -> {"open", "typed", "claimed", "duplicate", "collided", "failed",
                           "swapped", "pushedOut", "dropped"}]
    /\ barred \subseteq Utterances
    /\ consuming \in BOOLEAN

\* Every text the daemon has is somewhere: being routed or delivered, held, in
\* the ring, in the slot or with the hotkey, until it is typed, claimed, or
\* given up at one of the named places.  Nothing else loses a text.
EveryTextAccounted ==
    \A u \in 1..said : fate[u] = "open" =>
        \/ u \in ToSet(held) \cup ToSet(ring) \cup {slot, hotkey.text}
        \/ \E t \in Threads : pc[t] # "idle" /\ doing[t] = u

\* A text withheld, blocked, expired or claimed by the consumer is never typed
\* by a delivery unless the user asked for it: "never typed automatically".
NeverTypedUnasked ==
    [][\A t \in Threads :
          PressPaste(t) \/ Corrected(t) => t \in asked \/ doing[t] \notin barred]_vars

\* A delivery's Cmd+V never types another delivery's text: the lock spans copy
\* and paste, so only a filter's copy or the hotkey may come in between.
DeliveriesKeepTheirText ==
    [][\A t \in Threads :
          PressPaste(t) /\ clip.by = "paste" => clip.text = doing[t]]_vars

\* What a delivery types is its own text, and one that may be typed: both of the above.
TypedAsMeant == NeverTypedUnasked /\ DeliveriesKeepTheirText

\* The daemon never goes mute: the paste lock always comes free again.
LockComesFree == inFlight ~> ~inFlight

\* A held text is decided or expires, even if nobody ever answers for it.
HeldIsDecided == \A u \in Utterances : (u \in ToSet(held)) ~> (u \notin ToSet(held))

\* Nothing hangs: both of the above.
DeliveryEnds == LockComesFree /\ HeldIsDecided

\* SPEC: a text that is not typed "is never silently lost"; one that met another
\* paste in flight is still recoverable.
NeverSilentlyLost ==
    \A u \in Utterances :
        fate[u] = "collided" => u \in ToSet(ring) \cup {slot, hotkey.text}
=============================================================================
