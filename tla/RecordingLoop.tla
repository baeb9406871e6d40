---------------------------- MODULE RecordingLoop ----------------------------
(* One utterance in the capture thread (record_with_local_vad of vad.rs):    *)
(* frames go through the onset, the open buffer and the chunk flushes; a     *)
(* pause starts a speculative transcription in a thread of its own, whose    *)
(* answer is used if the speech does not resume; the "My Voice" gate scores  *)
(* windows in another thread and cuts or drops what is not the user's; at    *)
(* the end one of three sources supplies the text.  Audio is a sequence of   *)
(* frame numbers, a text is the audio it was recognized from.  How long the  *)
(* words before a pause stretch it, and what a window scores, are chosen.    *)
EXTENDS Integers, Sequences, FiniteSets, RecordingPromise

CONSTANTS
    MaxFrames,     \* bound: max_speech_frames
    MinSpeech,     \* min_speech_frames, the onset
    PreBuffer,     \* pre_buffer_frames
    Tentative,     \* eff_tentative_frames
    FinalCuts,     \* what final_silence_cut_frames may answer
    ChunkTarget,   \* CHUNK_TARGET_SECS, in frames
    HardMax,       \* CHUNK_HARD_MAX_SECS, in frames
    Window,        \* WINDOW_SAMPLES, in frames
    MinRun,        \* MIN_FOREIGN_RUN
    MinEmbed,      \* MIN_EMBED_SAMPLES, in frames
    Early,         \* SPEAKER_GATE_EARLY_SAMPLES, in frames
    TailChecks,    \* speaker_tail_fail_checks
    RejectStreak,  \* SPEAKER_GATE_REJECT_STREAK
    Backends,      \* the engines to consider: "apple", "groq", "local"
    Gates,         \* My Voice: "off", "on", "down" (requested, no embedder)
    Verdicts       \* what a window may score, see Allowed and IsForeign

\* The pre-buffer (200 ms) holds what is voiced before the onset (onset_ms, always 60 ms)
\* is detected; of a longer onset it would lose the beginning.
ASSUME FrameAssumption ==
    /\ MinSpeech \in Nat \ {0} /\ PreBuffer \in Nat /\ MinSpeech - 1 <= PreBuffer
    /\ HardMax \in Nat \ {0} /\ Window \in Nat /\ FinalCuts \subseteq Nat

VARIABLES
    slot,     \* SpeculationSlot.result
    phase     \* "loop", "ended" (the loop is left), "await", "done"

vars == <<backend, u, threads, slot, phase, outcome>>

NoJob  == [kind |-> "none"]
NoText == [ok |-> FALSE, audio |-> <<>>, gen |-> -1]
NoTrim == [lead |-> 0, trail |-> 0]

Init ==
    /\ backend \in Backends
    /\ \E g \in Gates, s \in IF backend = "apple" THEN BOOLEAN ELSE {FALSE} :
        u = [n |-> 0, words |-> <<>>,             \* frames read; history: the voiced ones
             pre |-> <<>>, speech |-> <<>>, chunks |-> 0, flushed |-> <<>>, committed |-> 0,
             run |-> 0, silence |-> 0, inSpeech |-> FALSE, logged |-> FALSE,
             shown |-> FALSE, transcribing |-> FALSE,
             fresh |-> TRUE, tailVoiced |-> 0, heard |-> 0,
             gate |-> g # "off", embedder |-> g = "on", verified |-> FALSE, vouched |-> FALSE,
             job |-> NoJob, confirmed |-> 0, tailFail |-> 0, gateFail |-> 0,
             windows |-> {}, epoch |-> 0, userBefore |-> FALSE,
             trimmed |-> FALSE, cut |-> {}, tailCut |-> FALSE, cutInPause |-> FALSE,
             pending |-> FALSE, specTrim |-> NoTrim, gen |-> 0,
             streamable |-> s, stream |-> FALSE, preempted |-> FALSE, stop |-> "no"]
    /\ threads = {} /\ slot = NoText
    /\ phase = "loop" /\ outcome = [kind |-> "none", text |-> <<>>, stale |-> FALSE]

-----------------------------------------------------------------------------
(* speaker_trim.rs: which frames around the user's are cut.                  *)

Allowed(v)     == v = "own"                     \* at or above the threshold, no veto, no edge
AllowedTail(v) == v \in {"own", "edge", "weak"} \* at or above 0.6 of the threshold
IsForeign(v)   == v = "foreign"                 \* far from the profile, close to an impostor

Judged(w, len) == {x \in w.windows : x.end <= len /\ x.end - x.start >= Window}
Mine(ws)       == {x \in ws : ~x.foreign}
First(ws)      == CHOOSE x \in ws : \A y \in ws : x.end <= y.end
Latest(ws)     == CHOOSE x \in ws : \A y \in ws : y.end <= x.end
Before(ws, x)  == {y \in ws : y.end < x.end}
Beyond(ws)     == IF Mine(ws) = {} THEN ws ELSE {y \in ws : Latest(Mine(ws)).end < y.end}

\* Timeline::plan: frames [1, lead] and [trail + 1, len] go; trail = 0 is None.
\* The guard kept next to the user's audio is below a frame here.
Plan(w, len) ==
    LET ws    == Judged(w, len)
        first == First(Mine(ws))
        last  == Latest(Mine(ws))
        lead  == IF Cardinality(Before(ws, first)) >= MinRun THEN first.start ELSE 0
        trail == IF Cardinality(Beyond(ws)) >= MinRun /\ last.end < len THEN last.end ELSE 0
    IN  IF w.epoch # w.committed THEN NoTrim
        ELSE IF Mine(ws) = {}
             THEN IF w.userBefore /\ Cardinality(ws) >= MinRun /\ len > 1
                  THEN [lead |-> 0, trail |-> 1] ELSE NoTrim
             ELSE [lead |-> lead, trail |-> trail]

\* TrimPlan::applied
Keep(plan, s) == SubSeq(s, plan.lead + 1, IF plan.trail = 0 \/ plan.trail > Len(s)
                                          THEN Len(s) ELSE plan.trail)

\* trailing_foreign
TrailingForeign(w, len) ==
    IF w.epoch # w.committed THEN 0 ELSE Cardinality(Beyond(Judged(w, len)))

\* Timeline::push: a flush in between starts a new generation of windows.
Push(w, x) ==
    IF w.epoch = w.committed THEN [w EXCEPT !.windows = @ \cup {x}]
    ELSE [w EXCEPT !.windows = {x}, !.epoch = w.committed,
                   !.userBefore = IF w.windows = {} THEN @ ELSE ~Latest(w.windows).foreign]

\* Timeline::drain_front
DrainFront(ws, k) ==
    {[x EXCEPT !.start = @ - k, !.end = @ - k] : x \in {y \in ws : y.start >= k}}

-----------------------------------------------------------------------------
(* The loop body, as the code composes it.                                   *)

\* speculation_pending = false; speculation_slot.invalidate(): the generation only
\* advances here.
Invalidate(w) == [w EXCEPT !.pending = FALSE, !.gen = @ + 1]

\* speaker_gate_allows_stt
MayTranscribe(w) == ~w.gate \/ w.verified

\* GateJob::spawn and GateJob::is_stale
Spawn(w, kind, scored) ==
    [w EXCEPT !.job = [kind |-> kind, verdict |-> "pending", len |-> Len(w.speech),
                       scored |-> scored, committed |-> w.committed]]
Stale(w) == w.job.committed # w.committed \/ Len(w.speech) < w.job.len

\* A cut at k frames, as history: what was cut, and whether silence was being counted.
CutAt(w, k) ==
    [w EXCEPT !.speech = SubSeq(@, 1, k), !.stop = "break",
              !.cut = @ \cup Ids(SubSeq(w.speech, k + 1, Len(w.speech))),
              !.cutInPause = @ \/ w.silence > 0]

\* VERIFIED phase: the tail monitor.
TailMonitor(w, j) ==
    IF j.kind # "Window" THEN w
    ELSE IF AllowedTail(j.verdict) THEN [w EXCEPT !.tailFail = 0, !.confirmed = j.len]
    ELSE IF w.tailFail + 1 < TailChecks THEN [w EXCEPT !.tailFail = @ + 1]
    ELSE [CutAt(w, w.confirmed) EXCEPT !.tailCut = TRUE]

\* Unverified: a pass verifies and drops the foreign lead-in; a streak of failing
\* windows has the whole utterance scored, whose failure drops the utterance.
Verify(w, j) ==
    LET planned == Plan(w, Len(w.speech)).lead
        free    == j.len - j.scored
        lead    == IF planned < free THEN planned ELSE free
    IN  [w EXCEPT !.verified = TRUE, !.vouched = TRUE, !.shown = TRUE, !.tailFail = 0,
                  !.speech = SubSeq(@, lead + 1, Len(@)),
                  !.windows = IF lead = 0 THEN @ ELSE DrainFront(@, lead),
                  !.cut = @ \cup Ids(SubSeq(w.speech, 1, lead)),
                  !.confirmed = IF lead < j.len THEN j.len - lead ELSE 0,
                  !.trimmed = @ \/ lead > 0]
Ladder(w, j) ==
    IF Allowed(j.verdict) THEN Verify(w, j)
    ELSE IF j.verdict = "edge" /\ j.kind = "Window" THEN w
    ELSE IF j.kind # "Window"
         THEN [w EXCEPT !.shown = FALSE, !.transcribing = FALSE, !.stop = "dropped"]
    ELSE IF w.gateFail + 1 < RejectStreak THEN [w EXCEPT !.gateFail = @ + 1]
    ELSE Spawn([w EXCEPT !.gateFail = @ + 1], "Decisive", Len(w.speech))

\* gate_apply_verdict!: nothing, a stale verdict, the cut behind the user's last
\* words, or one of the two phases.
ApplyVerdict(w) ==
    IF w.job = NoJob THEN w
    ELSE IF w.job.verdict = "pending" THEN w
    ELSE
    LET j  == w.job
        w0 == [w EXCEPT !.job = NoJob]
        x  == [start |-> j.len - j.scored, end |-> j.len, foreign |-> IsForeign(j.verdict)]
        w1 == IF j.kind = "Window" /\ j.scored >= Window THEN Push(w0, x) ELSE w0
        p  == Plan(w1, Len(w1.speech))
        beyond == TrailingForeign(w1, Len(w1.speech))
    IN  IF Stale(w) THEN w0
        ELSE IF /\ w1.verified /\ j.kind = "Window" /\ j.scored >= Window
                /\ beyond >= TailChecks /\ beyond >= MinRun /\ p.trail > 0
             THEN Invalidate([CutAt(w1, p.trail) EXCEPT !.trimmed = TRUE])
        ELSE IF w1.verified THEN TailMonitor(w1, j) ELSE Ladder(w1, j)

\* One window in flight at a time.
SpawnWindow(w) ==
    IF w.stop = "no" /\ w.embedder /\ w.job = NoJob /\ w.heard >= MinEmbed
    THEN Spawn(w, "Window", IF Len(w.speech) < Window THEN Len(w.speech) ELSE Window)
    ELSE w

\* The audio an engine gets: Groq is not sent the frames counted as silence, less
\* what the speaker trim took from the same end.
WithoutSilence(s, silence, trimmed) ==
    LET k == IF backend = "groq" /\ silence > trimmed THEN silence - trimmed ELSE 0
    IN  SubSeq(s, 1, IF k < Len(s) THEN Len(s) - k ELSE 0)

\* chunker.flush_with_context, in speech at the ceiling; carry frames stay.
HardFlush(w, carry) ==
    IF w.stop = "no" /\ Len(w.speech) >= HardMax /\ MayTranscribe(w)
    THEN LET cut == Len(w.speech) - carry IN
         [Invalidate(w) EXCEPT !.chunks = @ + 1, !.flushed = @ \o SubSeq(w.speech, 1, cut),
              !.speech = SubSeq(@, cut + 1, Len(@)), !.committed = @ + cut,
              !.fresh = carry > 0, !.tailVoiced = carry, !.confirmed = carry,
              !.tailFail = 0, !.gateFail = 0]
    ELSE w

\* ... and at a tentative pause with a target-sized buffer.
SoftFlush(w) ==
    IF w.logged /\ w.silence >= Tentative /\ Len(w.speech) >= ChunkTarget /\ MayTranscribe(w)
    THEN [Invalidate(w) EXCEPT !.chunks = @ + 1, !.flushed = @ \o WithoutSilence(w.speech, w.silence, 0),
              !.speech = <<>>, !.committed = @ + Len(w.speech),
              !.fresh = FALSE, !.tailVoiced = 0, !.confirmed = 0, !.tailFail = 0]
    ELSE w

\* An unverified utterance is scored as a whole at a tentative pause.
SpawnTentative(w) ==
    IF /\ w.stop = "no" /\ w.logged /\ w.fresh /\ ~w.pending /\ w.silence >= Tentative
       /\ w.embedder /\ ~w.verified /\ w.job = NoJob /\ w.heard >= MinEmbed
    THEN Spawn(w, "Tentative", Len(w.speech)) ELSE w

\* The speculative transcription, whose thread the frame starts.
MaySpeculate(w) ==
    w.stop = "no" /\ w.logged /\ w.fresh /\ ~w.pending /\ w.silence >= Tentative
SpeculateUnverified(w) ==  \* mutant
    IF MaySpeculate(w)
    THEN [Invalidate(w) EXCEPT !.pending = TRUE, !.transcribing = TRUE,
                               !.specTrim = Plan(w, Len(w.speech))]
    ELSE w
Speculate(w) ==
    IF MaySpeculate(w) /\ MayTranscribe(w)
    THEN [Invalidate(w) EXCEPT !.pending = TRUE, !.transcribing = TRUE,
                               !.specTrim = Plan(w, Len(w.speech))]
    ELSE w
SpecAudio(w) ==
    LET kept == Keep(w.specTrim, w.speech)
        tail == IF w.specTrim.trail = 0 \/ w.specTrim.trail > Len(w.speech) THEN 0
                ELSE Len(w.speech) - w.specTrim.trail
    IN  WithoutSilence(kept, w.silence, tail)

\* A voiced frame: whatever was speculated misses it.
ResumeKeeps(w) ==  \* mutant
    [w EXCEPT !.transcribing = FALSE, !.run = @ + 1, !.silence = 0]
Resume(w) ==
    LET r == IF w.pending THEN [Invalidate(w) EXCEPT !.transcribing = FALSE] ELSE w
    IN  [r EXCEPT !.run = @ + 1, !.silence = 0]

\* The onset: the pre-buffer opens the utterance, the badge waits for the gate.
Onset(w, loud) ==
    IF w.run < MinSpeech THEN w
    ELSE [w EXCEPT !.inSpeech = TRUE, !.stream = w.streamable,
                   !.logged = @ \/ loud, !.shown = @ \/ (loud /\ ~w.logged /\ ~w.gate),
                   !.words = IF w.inSpeech THEN @
                             ELSE [i \in 1..(MinSpeech - 1) |-> w.n - MinSpeech + i],
                   !.speech = @ \o w.pre, !.pre = <<>>]

KeepLast(s) == IF Len(s) > PreBuffer THEN Tail(s) ELSE s

\* Fail open: nobody can be verified without an embedder.
FailOpen(w) ==
    IF w.gate /\ ~w.embedder /\ w.heard >= Early THEN [w EXCEPT !.gate = FALSE] ELSE w

VoicedFrame(w, loud, carry) ==
    LET o == Onset(Resume(w), loud)
        a == [o EXCEPT !.speech = Append(@, w.n), !.fresh = TRUE, !.heard = @ + 1,
                       !.tailVoiced = @ + 1, !.words = Append(@, w.n)]
    IN  IF o.inSpeech THEN HardFlush(SpawnWindow(ApplyVerdict(FailOpen(a))), carry)
                      ELSE [o EXCEPT !.pre = KeepLast(Append(@, w.n))]

\* A silent frame of an open utterance: flush, verdict, tentative score, speculation,
\* and the final cut, unless the option key holds the utterance open.
SilentFrame(w, held, cutAt) ==
    LET a == [w EXCEPT !.speech = Append(@, w.n), !.run = 0, !.silence = IF held THEN 0 ELSE @ + 1]
        s == Speculate(SpawnTentative(ApplyVerdict(SoftFlush(a))))
    IN  IF held THEN a
        ELSE IF s.stop = "no" /\ s.silence >= cutAt THEN [s EXCEPT !.stop = "break"] ELSE s

\* ... and before the onset: a badge nothing came of is retracted.
IdleFrame(w, retract) ==
    [w EXCEPT !.run = 0, !.pre = KeepLast(Append(@, w.n)),
              !.shown = @ /\ ~(retract /\ ~w.logged)]

\* Voice just before the onset may already raise the badge, if nothing has to be verified.
EarlyBadge(w, early) == [w EXCEPT !.shown = @ \/ (early /\ ~w.gate /\ ~w.inSpeech)]

\* The call returns.
Return(kind, text) ==
    phase' = "done" /\ outcome' = [kind |-> kind, text |-> text, stale |-> FALSE]

\* One frame was read and classified.
Frame(voice, a, b, carry, cutAt) ==
    LET w0 == [u EXCEPT !.n = @ + 1]
        w1 == IF voice THEN VoicedFrame(EarlyBadge(w0, b), a, carry)
              ELSE IF u.inSpeech THEN SilentFrame(w0, a, cutAt) ELSE IdleFrame(w0, a)
        w  == IF w1.stop = "no" /\ w1.n = MaxFrames THEN [w1 EXCEPT !.stop = "break"] ELSE w1
    IN  /\ phase = "loop" /\ u.n < MaxFrames
        /\ u' = w
        /\ slot' = IF w.gen # u.gen THEN NoText ELSE slot
        /\ threads' = IF w.pending /\ w.gen # u.gen
                      THEN threads \cup {[gen |-> w.gen, audio |-> SpecAudio(w), at |-> "stt"]}
                      ELSE threads
        /\ IF w.stop = "dropped"
           THEN Return("DroppedSpeaker", <<>>)
           ELSE phase' = (IF w.stop = "no" THEN "loop" ELSE "ended") /\ UNCHANGED outcome
        /\ UNCHANGED backend

\* Another app takes the microphone, or the device is gone: the rest still runs.
CaptureStops(preempted) ==
    /\ phase = "loop"
    /\ u' = [u EXCEPT !.preempted = preempted, !.stop = "break"]
    /\ phase' = "ended"
    /\ UNCHANGED <<backend, threads, slot, outcome>>

\* An enrolment wants the microphone: the utterance is abandoned.
EnrollmentPending ==
    /\ phase = "loop"
    /\ u' = [u EXCEPT !.shown = FALSE, !.transcribing = FALSE]
    /\ Return("Silence", <<>>)
    /\ UNCHANGED <<backend, threads, slot>>

-----------------------------------------------------------------------------
(* The threads.                                                              *)

\* A gate job's score lands.
Score(v) ==
    /\ u.job # NoJob /\ phase \in {"loop", "ended"}
    /\ u.job.verdict = "pending"
    /\ u' = [u EXCEPT !.job.verdict = v]
    /\ UNCHANGED <<backend, threads, slot, phase, outcome>>

\* The engine answered; store_if_current compares the generation ...
Answer(t) ==
    /\ t \in threads /\ t.at = "stt"
    /\ threads' = (threads \ {t}) \cup
                  (IF t.gen = u.gen THEN {[t EXCEPT !.at = "storing"]} ELSE {})
    /\ UNCHANGED <<backend, u, slot, phase, outcome>>

\* ... and then takes the lock and stores.  The engine may also have failed.
Store(t, ok) ==
    /\ t \in threads /\ t.at = "storing"
    /\ threads' = threads \ {t}
    /\ slot' = [ok |-> ok, audio |-> t.audio, gen |-> t.gen]
    /\ UNCHANGED <<backend, u, phase, outcome>>

-----------------------------------------------------------------------------
(* After the loop.                                                           *)

\* Nothing was captured: the badge ends.
NothingCaptured ==
    /\ phase = "ended" /\ u.speech = <<>> /\ u.chunks = 0
    /\ u' = [u EXCEPT !.shown = FALSE]
    /\ Return("Silence", <<>>)
    /\ UNCHANGED <<backend, threads, slot>>

TooQuiet ==
    /\ phase = "ended" /\ u.speech # <<>> /\ u.chunks = 0
    /\ u' = [u EXCEPT !.shown = FALSE, !.transcribing = FALSE]
    /\ Return(IF u.logged THEN "DroppedLowEnergy" ELSE "Silence", <<>>)
    /\ UNCHANGED <<backend, threads, slot>>

\* The final speaker check: a landed verdict of this buffer, or the whole is scored
\* here; only a pass goes on.  `whole` is the score of the whole utterance.
FinalScore(whole) ==
    LET usable == u.job # NoJob /\ ~Stale(u)
        landed == IF u.job = NoJob THEN "pending" ELSE u.job.verdict
    IN  IF usable /\ landed \in {"own", "edge"} THEN landed
        ELSE IF usable /\ landed # "pending" /\ u.job.kind # "Window" THEN landed
        ELSE IF u.embedder /\ u.heard >= MinEmbed THEN whole ELSE "none"

SpeakerRejected(whole) ==
    /\ phase = "ended" /\ (u.speech # <<>> \/ u.chunks # 0)
    /\ u.gate /\ ~u.verified /\ ~Allowed(FinalScore(whole))
    /\ u' = [u EXCEPT !.shown = FALSE, !.transcribing = FALSE]
    /\ Return("DroppedSpeaker", <<>>)
    /\ UNCHANGED <<backend, threads, slot>>

\* The utterance is accepted: the final trim, and what it means for a speculation
\* that was cut by another plan; then the text is awaited.
TrimOf(w, plan) ==
    IF w.pending /\ plan # w.specTrim THEN Invalidate(w) ELSE w
Accept(whole) ==
    LET plan == IF u.gate THEN Plan(u, Len(u.speech)) ELSE NoTrim
        kept == Keep(plan, u.speech)
        w    == TrimOf([u EXCEPT !.speech = kept, !.trimmed = @ \/ plan # NoTrim,
                                 !.cut = @ \cup (Ids(u.speech) \ Ids(kept)),
                                 !.transcribing = TRUE, !.vouched = TRUE,
                                 !.silence = IF plan.trail = 0 \/ plan.trail > Len(u.speech) THEN @
                                             ELSE IF @ > Len(u.speech) - plan.trail
                                                  THEN @ - (Len(u.speech) - plan.trail) ELSE 0],
                       plan)
    IN  /\ phase = "ended" /\ (u.speech # <<>> \/ u.chunks # 0)
        /\ ~u.gate \/ u.verified \/ Allowed(FinalScore(whole))
        /\ u' = w
        /\ slot' = IF w.gen # u.gen THEN NoText ELSE slot
        /\ phase' = "await"
        /\ UNCHANGED <<backend, threads, outcome>>

\* apply_mic_conflict_preemption
Finish(text, stale) ==
    /\ phase' = "done"
    /\ outcome' = [kind |-> IF u.preempted THEN "Preempted" ELSE "Speech",
                   text |-> u.flushed \o text, stale |-> stale]

\* A chunked utterance with a silent tail is assembled at once.
SilentTail ==
    /\ phase = "await" /\ u.chunks # 0 /\ u.tailVoiced = 0
    /\ Finish(<<>>, FALSE)
    /\ UNCHANGED <<backend, u, threads, slot>>

\* The live session's final text is preferred; a chunked or trimmed utterance has
\* none.  It heard everything since the onset.
StreamUsable == u.stream /\ u.chunks = 0 /\ ~u.trimmed
StreamFinal ==
    /\ phase = "await" /\ StreamUsable /\ (u.pending => slot # NoText)
    /\ Finish(u.words, FALSE)
    /\ UNCHANGED <<backend, u, threads, slot>>

\* A speculation discarded because the speech resumed is in the slot after all:
\* its thread compared the generation before and stored after.
Poisoned == slot # NoText /\ slot.gen # u.gen

\* The speculation, if it landed in time and succeeded.
UseSpeculation ==
    /\ phase = "await" /\ (u.chunks = 0 \/ u.tailVoiced > 0)
    /\ u.pending /\ slot # NoText /\ slot.ok
    /\ Finish(slot.audio, Poisoned)
    /\ UNCHANGED <<backend, u, threads, slot>>

\* No speculation, a failed one, or one that is too late: a fresh transcription.
FreshText(audio) ==
    /\ phase = "await" /\ (u.chunks = 0 \/ u.tailVoiced > 0)
    /\ ~(u.pending /\ slot # NoText /\ slot.ok)
    /\ Finish(audio, FALSE)
    /\ UNCHANGED <<backend, u, threads, slot>>
Fresh == FreshText(WithoutSilence(u.speech, u.silence, 0))

\* It fails: without chunks the utterance fails, with chunks their text is kept
\* (the tail was rescued, retried, or is lost and saved).
FreshFails ==
    /\ phase = "await" /\ (u.chunks = 0 \/ u.tailVoiced > 0)
    /\ ~(u.pending /\ slot # NoText /\ slot.ok)
    /\ u' = [u EXCEPT !.transcribing = u.chunks # 0]
    /\ IF u.chunks = 0 THEN Return("Err", <<>>) ELSE Return("TailLost", u.flushed)
    /\ UNCHANGED <<backend, threads, slot>>

\* Recognized as nothing, or as too little.
Noise ==
    /\ phase = "await" /\ u.chunks = 0
    /\ Return("DroppedNoise", <<>>)
    /\ UNCHANGED <<backend, u, threads, slot>>

LoopStep ==
    \/ \E voice, a, b \in BOOLEAN, carry \in 0..1, cutAt \in FinalCuts :
          Frame(voice, a, b, carry, cutAt)
    \/ \E p \in BOOLEAN : CaptureStops(p)
    \/ EnrollmentPending
EndStep ==
    \/ NothingCaptured \/ TooQuiet
    \/ \E v \in Verdicts : SpeakerRejected(v)
    \/ \E v \in Verdicts : Accept(v)
    \/ SilentTail \/ StreamFinal \/ UseSpeculation \/ Fresh \/ FreshFails \/ Noise
ThreadStep ==
    \/ \E v \in Verdicts : Score(v)
    \/ \E t \in threads : Answer(t)
    \/ \E t \in threads, ok \in BOOLEAN : Store(t, ok)

Next == LoopStep \/ EndStep \/ ThreadStep

Spec == Init /\ [][Next]_vars

=============================================================================
