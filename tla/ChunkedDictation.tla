-------------------------- MODULE ChunkedDictation --------------------------
(* A long dictation (chunker.rs and finalize_chunked of vad.rs): while the   *)
(* user keeps talking, finished chunks are transcribed by a thread each;     *)
(* when the utterance ends, finalize collects them in flush order, retries   *)
(* the ones that failed or are late, and saves the audio of the ones it      *)
(* gives up.  A worker may be late enough to answer after that.              *)
EXTENDS Naturals, FiniteSets, Sequences

CONSTANTS
    MaxChunks,   \* bound: chunks flushed in one utterance
    Answers      \* what the engine may answer: "words", "nothing", "error"

ASSUME ChunkAssumption ==
    MaxChunks \in Nat \ {0} /\ Answers \subseteq {"words", "nothing", "error"}

Chunks == 1..MaxChunks

VARIABLES
    flushed,  \* chunks committed so far
    worker,   \* where each chunk's thread is
    result,   \* ChunkSlot.result: "none", "words", "corrected", "nothing", "error"
    audio,    \* chunks whose ChunkSlot.audio is still there
    heard,    \* history: chunks some engine call heard words in
    phase,    \* where the recording loop is in finalizing
    cur,      \* the slot finalize is at
    late,     \* did the wait for this slot run out?
    text,     \* the joined transcript: the chunks in it, in order
    quiet,    \* chunks whose transcription recognized no words
    failed,   \* chunks counted in failed_chunks
    spilled,  \* chunks whose audio is in the failed-chunks directory
    tail,     \* the last stretch of the utterance: "open", "words", "nothing", "lost"
    outcome   \* what finalize_chunked returns, "none" before

slotVars == <<worker, result, audio, heard>>
vars == <<flushed, worker, result, audio, heard, phase, cur, late, text, quiet,
          failed, spilled, tail, outcome>>

Init ==
    /\ flushed = 0
    /\ worker = [i \in Chunks |-> "unborn"] /\ result = [i \in Chunks |-> "none"]
    /\ audio = {} /\ heard = {}
    /\ phase = "recording" /\ cur = 1 /\ late = FALSE
    /\ text = <<>> /\ quiet = {} /\ failed = {} /\ spilled = {}
    /\ tail = "open" /\ outcome = "none"

-----------------------------------------------------------------------------
(* Recording.                                                                *)

\* flush: commit a chunk and start its thread.
Flush ==
    /\ phase = "recording" /\ flushed < MaxChunks
    /\ flushed' = flushed + 1
    /\ worker' = [worker EXCEPT ![flushed'] = "transcribing"]
    /\ audio' = audio \cup {flushed'}
    /\ UNCHANGED <<result, heard, phase, cur, late, text, quiet, failed, spilled, tail, outcome>>

\* The utterance ends; its tail was transcribed, rescued, or lost (its audio is
\* saved first, see recover_failed_chunked_tail).
EndOfSpeech(t) ==
    /\ phase = "recording" /\ flushed > 0
    /\ tail' = t
    /\ phase' = "wait"
    /\ UNCHANGED <<flushed, slotVars, cur, late, text, quiet, failed, spilled, outcome>>

-----------------------------------------------------------------------------
(* A chunk's thread.  It may also never answer.                              *)

\* The engine answered; the raw text is published before anything else.
WorkerAnswer(i, a) ==
    /\ worker[i] = "transcribing"
    /\ result' = [result EXCEPT ![i] = a]
    /\ heard' = IF a = "words" THEN heard \cup {i} ELSE heard
    /\ worker' = [worker EXCEPT ![i] = IF a = "error" THEN "done" ELSE "published"]
    /\ UNCHANGED <<flushed, audio, phase, cur, late, text, quiet, failed, spilled, tail, outcome>>

\* Mutant: the audio goes before the result is published.
DropAudioEarly(i) ==
    /\ worker[i] \in {"transcribing", "published"}
    /\ audio' = audio \ {i}
    /\ worker' = [worker EXCEPT ![i] = IF @ = "published" THEN "correcting" ELSE @]
    /\ UNCHANGED <<flushed, result, heard, phase, cur, late, text, quiet, failed, spilled,
                   tail, outcome>>

WorkerDropAudio(i) ==
    /\ worker[i] = "published"
    /\ audio' = audio \ {i}
    /\ worker' = [worker EXCEPT ![i] = "correcting"]
    /\ UNCHANGED <<flushed, result, heard, phase, cur, late, text, quiet, failed, spilled,
                   tail, outcome>>

\* The per-chunk correction, best effort: it lands in the slot only if the
\* text has not been taken meanwhile.
WorkerCorrect(i) ==
    /\ worker[i] = "correcting"
    /\ worker' = [worker EXCEPT ![i] = "done"]
    /\ \/ result' = result
       \/ result[i] = "words" /\ result' = [result EXCEPT ![i] = "corrected"]
    /\ UNCHANGED <<flushed, audio, heard, phase, cur, late, text, quiet, failed, spilled,
                   tail, outcome>>

WorkerStep(i) ==
    (\E a \in Answers : WorkerAnswer(i, a)) \/ WorkerDropAudio(i) \/ WorkerCorrect(i)

-----------------------------------------------------------------------------
(* finalize, slot after slot.                                                *)

HasText(r) == r \in {"words", "corrected"}

\* Take the result if there is one: its text goes into the transcript, an
\* error leads to a retry.
Take ==
    /\ phase = "wait" /\ cur <= flushed /\ result[cur] # "none"
    /\ result' = [result EXCEPT ![cur] = "none"]
    /\ text' = IF HasText(result[cur]) THEN Append(text, cur) ELSE text
    /\ quiet' = IF result[cur] = "nothing" THEN quiet \cup {cur} ELSE quiet
    /\ late' = FALSE
    /\ IF result[cur] = "error" THEN phase' = "retry" /\ cur' = cur
                                ELSE phase' = "wait" /\ cur' = cur + 1
    /\ UNCHANGED <<flushed, worker, audio, heard, failed, spilled, tail, outcome>>

\* Mutant: the wait has no budget.
WaitForWorker ==
    /\ phase = "wait" /\ cur <= flushed /\ result[cur] = "none" /\ worker[cur] = "done"
    /\ late' = TRUE /\ phase' = "retry"
    /\ UNCHANGED <<flushed, slotVars, cur, text, quiet, failed, spilled, tail, outcome>>

\* The wait budget is spent.
WaitTimeout ==
    /\ phase = "wait" /\ cur <= flushed /\ result[cur] = "none"
    /\ late' = TRUE /\ phase' = "retry"
    /\ UNCHANGED <<flushed, slotVars, cur, text, quiet, failed, spilled, tail, outcome>>

\* Given up: only a late chunk's own result gets a last look first.
GiveUpOrLook ==
    IF late THEN phase' = "look" /\ failed' = failed
            ELSE phase' = "spill" /\ failed' = failed \cup {cur}

\* retry_sync needs the audio ...
RetryStart ==
    /\ phase = "retry"
    /\ IF cur \in audio THEN phase' = "retrying" /\ failed' = failed ELSE GiveUpOrLook
    /\ UNCHANGED <<flushed, slotVars, cur, late, text, quiet, spilled, tail, outcome>>

\* ... which it drops when the engine answers, words or not.
RetryAnswer(a) ==
    /\ phase = "retrying"
    /\ audio' = IF a = "error" THEN audio ELSE audio \ {cur}
    /\ heard' = IF a = "words" THEN heard \cup {cur} ELSE heard
    /\ IF a = "words"
       THEN text' = Append(text, cur) /\ phase' = "wait" /\ cur' = cur + 1 /\ failed' = failed
       ELSE GiveUpOrLook /\ UNCHANGED <<text, cur>>
    /\ UNCHANGED <<flushed, worker, result, late, quiet, spilled, tail, outcome>>

\* "... then a last look at the straggler's own result".
LastLook ==
    /\ phase = "look"
    /\ result' = [result EXCEPT ![cur] = "none"]
    /\ IF HasText(result[cur])
       THEN text' = Append(text, cur) /\ phase' = "wait" /\ cur' = cur + 1 /\ failed' = failed
       ELSE phase' = "spill" /\ failed' = failed \cup {cur} /\ UNCHANGED <<text, cur>>
    /\ UNCHANGED <<flushed, worker, audio, heard, late, quiet, spilled, tail, outcome>>

\* spill: write the audio, if it is still there.
Spill ==
    /\ phase = "spill"
    /\ spilled' = IF cur \in audio THEN spilled \cup {cur} ELSE spilled
    /\ phase' = "wait" /\ cur' = cur + 1
    /\ UNCHANGED <<flushed, slotVars, late, text, quiet, failed, tail, outcome>>

\* Mutant: only the tail counts.
LostTailOnly == IF tail = "lost" THEN 1 ELSE 0

UnrecoveredParts == Cardinality(failed) + (IF tail = "lost" THEN 1 ELSE 0)

\* finalize_chunked: append the tail and decide what the utterance was.  A
\* dictation with a missing part is pasted without Return.
Assemble ==
    /\ phase = "wait" /\ cur > flushed
    /\ phase' = "done"
    /\ outcome' = CASE text = <<>> /\ tail # "words" /\ UnrecoveredParts > 0 -> "lost"
                    [] text = <<>> /\ tail # "words" /\ UnrecoveredParts = 0 -> "noise"
                    [] (text # <<>> \/ tail = "words") /\ UnrecoveredParts > 0 -> "incomplete"
                    [] OTHER -> "complete"
    /\ UNCHANGED <<flushed, slotVars, cur, late, text, quiet, failed, spilled, tail>>

FinalizeStep ==
    \/ Take \/ WaitTimeout \/ RetryStart
    \/ \E a \in Answers : RetryAnswer(a)
    \/ LastLook \/ Spill \/ Assemble

Next ==
    \/ Flush
    \/ \E t \in {"words", "nothing", "lost"} : EndOfSpeech(t)
    \/ \E i \in Chunks : WorkerStep(i)
    \/ FinalizeStep

Spec == Init /\ [][Next]_vars

\* The recording loop runs; the chunk threads may hang in the engine for ever.
FairSpec == Spec /\ WF_vars(FinalizeStep)

-----------------------------------------------------------------------------
InText == {text[n] : n \in DOMAIN text}

TypeOK ==
    /\ flushed \in 0..MaxChunks
    /\ worker \in [Chunks -> {"unborn", "transcribing", "published", "correcting", "done"}]
    /\ result \in [Chunks -> {"none", "words", "corrected", "nothing", "error"}]
    /\ audio \subseteq Chunks /\ heard \subseteq Chunks
    /\ phase \in {"recording", "wait", "retry", "retrying", "look", "spill", "done"}
    /\ cur \in 1..(MaxChunks + 1) /\ late \in BOOLEAN
    /\ text \in Seq(Chunks)
    /\ quiet \subseteq Chunks /\ failed \subseteq Chunks /\ spilled \subseteq Chunks
    /\ tail \in {"open", "words", "nothing", "lost"}
    /\ outcome \in {"none", "lost", "noise", "incomplete", "complete"}

\* Until finalize reaches a chunk, the chunk's words can still be had: its audio
\* is there, or its text is (the worker publishes before it drops the audio).
AudioOrResult ==
    \A i \in 1..flushed : i >= cur /\ phase \in {"recording", "wait"} =>
        i \in audio \/ result[i] \in {"words", "corrected", "nothing"}

\* Every chunk finalize is done with is accounted for exactly once: in the
\* transcript, heard as silence, or counted as failed, never twice and never
\* dropped, whatever its thread does meanwhile.
EveryChunkAccounted ==
    LET passed == {i \in Chunks : i < cur}
    IN  /\ InText \cup quiet \cup failed \subseteq passed \cup (IF phase = "spill" THEN {cur} ELSE {})
        /\ passed \subseteq InText \cup quiet \cup failed
        /\ InText \cap quiet = {} /\ InText \cap failed = {} /\ quiet \cap failed = {}

\* The chunks are joined in flush order, whatever order the threads finish in.
FlushOrder == \A m, n \in DOMAIN text : m < n => text[m] < text[n]

\* Words the engine heard are never missing from a dictation that is treated as
\* complete (and so may be sent with Return), nor is one with heard words or a
\* lost tail passed over as noise.
MissingWordsAreCued ==
    /\ outcome = "complete" => heard \subseteq InText \cup quiet /\ tail # "lost"
    /\ outcome = "noise" => heard \subseteq quiet /\ failed = {}

\* What the user is promised: chunks settle one by one in the order of the speech, each
\* in exactly one place, and the dictation is published once, with its true verdict,
\* whatever the threads do meanwhile.  A chunk counts as missing once it was spilled.
Promise == INSTANCE Transcript WITH
    said    <- flushed,
    settled <- cur - 1,
    missing <- IF phase = "spill" THEN failed \ {cur} ELSE failed
KeepsPromise == Promise!FairSpec

=============================================================================
