----------------------- MODULE ChunkedDictationProofs -----------------------
(* Theorems about ChunkedDictation, for every number of chunks and whatever    *)
(* the engine may answer: the types, what becomes of every chunk, and that the *)
(* threads, the retries and the spill keep the promise of module Transcript;   *)
(* and about MicCapture, which supplies the audio, for every set of Macs, size *)
(* of the ring and patience of the supervisor; and about LiveTyping, which     *)
(* types the words while they are spoken, for every set of windows and texts   *)
(* and any number of utterances, previews, pauses and other deliveries.        *)
EXTENDS ChunkedDictation, MicPromise, TypingPromise, FiniteSetTheorems, SequenceTheorems,
        WellFoundedInduction, TLAPS

CONSTANTS Hosts, RingCapacity, StuckAfter, ExitAfter
VARIABLES host, faulty, up, gate, wasGated, holder, switch, stage, run, pipe, reaped,
          helperFailed, failures, backoff, stuck

\* Its constants and variables have their own names, but for what both call failed.
Mic == INSTANCE MicCapture WITH failed <- helperFailed

CONSTANTS MaxPreviews, MaxForeign, MaxPauses
VARIABLES uttered, talk, thread, asks, paused, pauses, foreign, focus

\* And those of live typing theirs, but for the state of the recording loop.
Live == INSTANCE LiveTyping WITH phase <- talk

\* Where finalize is agrees with the tail, the outcome and the slot it looks at, and
\* only committed chunks have a thread or a result.
Phases ==
    /\ cur <= flushed + 1
    /\ phase = "recording" <=> tail = "open"
    /\ phase = "recording" => cur = 1
    /\ phase = "done" <=> outcome # "none"
    /\ phase = "done" => cur > flushed
    /\ phase \in {"retry", "retrying", "look", "spill"} => cur <= flushed
    /\ heard \subseteq 1..flushed
    /\ \A i \in Chunks : i > flushed => worker[i] = "unborn" /\ result[i] = "none"

\* Chunks finalize has decided: those before cur, and one whose audio it is saving.
Decided == {i \in Chunks : i < cur \/ (i = cur /\ phase = "spill")}

\* They are accounted for exactly once, in the order of the speech.
Accounted ==
    /\ InText \cup quiet \cup failed = Decided
    /\ phase = "spill" => cur \in failed
    /\ InText \cap quiet = {} /\ InText \cap failed = {} /\ quiet \cap failed = {}
    /\ FlushOrder

\* Chunks whose slot finalize has not touched.
Untouched == {i \in 1..flushed : i > cur \/ (i = cur /\ phase \in {"recording", "wait"})}

\* Their thread is at work or has published, and no audio went before a text.
Kept ==
    \A i \in Untouched :
        /\ worker[i] = "transcribing" => i \in audio
        /\ result[i] = "none" => worker[i] = "transcribing"
        /\ result[i] = "error" => worker[i] = "done" /\ i \in audio

\* The verdict is the one the counts give.
Verdict ==
    /\ outcome = "complete" => failed = {} /\ tail # "lost"
    /\ outcome = "noise" => failed = {} /\ text = <<>> /\ tail # "lost"

IInv == TypeOK /\ Phases /\ Accounted /\ Kept /\ Verdict

-----------------------------------------------------------------------------
(* Appending the next chunk to the transcript.                               *)

Range1(s) == {s[n] : n \in DOMAIN s}

\* One more chunk is in the transcript.
LEMMA AppendRange ==
    ASSUME NEW s \in Seq(Chunks), NEW i \in Chunks
    PROVE  Append(s, i) \in Seq(Chunks) /\ Range1(Append(s, i)) = Range1(s) \cup {i}
<1>1. /\ Append(s, i) \in Seq(Chunks) /\ Len(Append(s, i)) = Len(s) + 1
      /\ DOMAIN Append(s, i) = 1..(Len(s) + 1) /\ DOMAIN s = 1..Len(s) /\ Len(s) \in Nat
      /\ \A n \in 1..Len(s) : Append(s, i)[n] = s[n]
      /\ Append(s, i)[Len(s) + 1] = i
  OBVIOUS
<1>2. Range1(Append(s, i)) \subseteq Range1(s) \cup {i}
  BY <1>1 DEF Range1
<1>3. Range1(s) \cup {i} \subseteq Range1(Append(s, i))
  BY <1>1 DEF Range1
<1>. QED
  BY <1>1, <1>2, <1>3

\* It keeps the order if it comes after all that are there.
LEMMA AppendOrdered ==
    ASSUME NEW s \in Seq(Chunks), NEW i \in Chunks,
           \A m, n \in DOMAIN s : m < n => s[m] < s[n],
           \A j \in Range1(s) : j < i,
           NEW m \in DOMAIN Append(s, i), NEW n \in DOMAIN Append(s, i), m < n
    PROVE  Append(s, i)[m] < Append(s, i)[n]
<1>1. /\ DOMAIN Append(s, i) = 1..(Len(s) + 1) /\ DOMAIN s = 1..Len(s) /\ Len(s) \in Nat
      /\ \A k \in 1..Len(s) : Append(s, i)[k] = s[k]
      /\ Append(s, i)[Len(s) + 1] = i
  OBVIOUS
<1>2. m \in 1..Len(s) /\ (n \in 1..Len(s) \/ n = Len(s) + 1)
  BY <1>1
<1>. QED
  BY <1>1, <1>2 DEF Range1

\* Nothing is missing exactly when no part counts as unrecovered.
LEMMA NothingMissing ==
    ASSUME TypeOK PROVE UnrecoveredParts \in Nat /\ (UnrecoveredParts = 0 <=> failed = {} /\ tail # "lost")
<1>1. IsFiniteSet(1..MaxChunks)
  BY ChunkAssumption, FS_Interval
<1>2. IsFiniteSet(failed)
  BY <1>1, FS_Subset DEF TypeOK, Chunks
<1>3. Cardinality(failed) \in Nat /\ (Cardinality(failed) = 0 <=> failed = {})
  BY <1>2, FS_CardinalityType, FS_EmptySet
<1>. QED
  BY <1>3 DEF UnrecoveredParts

-----------------------------------------------------------------------------
(* Type correctness.                                                         *)

LEMMA TypeInit == Init => TypeOK
<1>1. 0 \in 0..MaxChunks /\ 1 \in 1..(MaxChunks + 1) /\ <<>> \in Seq(Chunks)
  BY ChunkAssumption
<1>. QED
  BY <1>1 DEF Init, TypeOK

\* The types need to know where finalize is: cur only moves up to a flushed chunk.
LEMMA TypeNext == TypeOK /\ Phases /\ [Next]_vars => TypeOK'
<1>. SUFFICES ASSUME TypeOK, Phases, [Next]_vars PROVE TypeOK'
  OBVIOUS
<1>. USE ChunkAssumption
<1>a. cur <= flushed => cur \in Chunks /\ cur + 1 \in 1..(MaxChunks + 1)
  BY DEF TypeOK, Chunks
<1>b. cur <= flushed => Append(text, cur) \in Seq(Chunks)
  BY <1>a, AppendRange DEF TypeOK
<1>1. CASE Flush
  <2>1. flushed' \in Chunks
    BY <1>1 DEF Flush, TypeOK, Chunks
  <2>. QED
    BY <1>1, <2>1 DEF Flush, TypeOK, Chunks
<1>2. ASSUME NEW t \in {"words", "nothing", "lost"}, EndOfSpeech(t) PROVE TypeOK'
  BY <1>2 DEF EndOfSpeech, TypeOK, slotVars
<1>3. ASSUME NEW i \in Chunks, WorkerStep(i) PROVE TypeOK'
  <2>1. ASSUME NEW a \in Answers, WorkerAnswer(i, a) PROVE TypeOK'
    <3>1. a \in {"words", "nothing", "error"}
      OBVIOUS
    <3>. QED
      BY <2>1, <3>1 DEF WorkerAnswer, TypeOK
  <2>2. CASE WorkerDropAudio(i)
    BY <2>2 DEF WorkerDropAudio, TypeOK
  <2>3. CASE WorkerCorrect(i)
    BY <2>3 DEF WorkerCorrect, TypeOK
  <2>. QED
    BY <1>3, <2>1, <2>2, <2>3 DEF WorkerStep
<1>4. CASE Take
  BY <1>4, <1>a, <1>b DEF Take, TypeOK
<1>5. CASE WaitTimeout
  BY <1>5 DEF WaitTimeout, TypeOK, slotVars
<1>6. CASE RetryStart
  BY <1>6, <1>a DEF RetryStart, GiveUpOrLook, Phases, TypeOK, slotVars
<1>7. ASSUME NEW a \in Answers, RetryAnswer(a) PROVE TypeOK'
  BY <1>7, <1>a, <1>b DEF RetryAnswer, GiveUpOrLook, Phases, TypeOK
<1>8. CASE LastLook
  BY <1>8, <1>a, <1>b DEF LastLook, Phases, TypeOK
<1>9. CASE Spill
  BY <1>9, <1>a DEF Spill, Phases, TypeOK, slotVars
<1>10. CASE Assemble
  BY <1>10 DEF Assemble, TypeOK, slotVars
<1>11. CASE UNCHANGED vars
  BY <1>11 DEF vars, TypeOK
<1>. QED
  BY <1>1, <1>2, <1>3, <1>4, <1>5, <1>6, <1>7, <1>8, <1>9, <1>10, <1>11 DEF Next, FinalizeStep

LEMMA PhasesInit == Init => Phases
BY DEF Init, Phases, Chunks

LEMMA PhasesNext == TypeOK /\ Phases /\ [Next]_vars => Phases'
<1>. SUFFICES ASSUME TypeOK, Phases, [Next]_vars PROVE Phases'
  OBVIOUS
<1>. USE ChunkAssumption
<1>1. CASE Flush
  BY <1>1 DEF Flush, TypeOK, Phases
<1>2. ASSUME NEW t \in {"words", "nothing", "lost"}, EndOfSpeech(t) PROVE Phases'
  BY <1>2 DEF EndOfSpeech, TypeOK, Phases, slotVars
<1>3. ASSUME NEW i \in Chunks, WorkerStep(i) PROVE Phases'
  <2>1. ASSUME NEW a \in Answers, WorkerAnswer(i, a) PROVE Phases'
    <3>1. i \in 1..flushed
      BY <2>1 DEF WorkerAnswer, TypeOK, Phases, Chunks
    <3>2. heard' \subseteq 1..flushed'
      BY <2>1, <3>1 DEF WorkerAnswer, Phases
    <3>3. \A j \in Chunks : j > flushed' => worker'[j] = "unborn" /\ result'[j] = "none"
      BY <2>1, <3>1 DEF WorkerAnswer, Phases, TypeOK
    <3>. QED
      BY <2>1, <3>2, <3>3 DEF WorkerAnswer, Phases
  <2>2. CASE WorkerDropAudio(i)
    BY <2>2 DEF WorkerDropAudio, TypeOK, Phases
  <2>3. CASE WorkerCorrect(i)
    BY <2>3 DEF WorkerCorrect, TypeOK, Phases
  <2>. QED
    BY <1>3, <2>1, <2>2, <2>3 DEF WorkerStep
<1>4. CASE Take
  BY <1>4 DEF Take, TypeOK, Phases
<1>5. CASE WaitTimeout
  BY <1>5 DEF WaitTimeout, TypeOK, Phases, slotVars
<1>6. CASE RetryStart
  BY <1>6 DEF RetryStart, GiveUpOrLook, TypeOK, Phases, slotVars
<1>7. ASSUME NEW a \in Answers, RetryAnswer(a) PROVE Phases'
  BY <1>7 DEF RetryAnswer, GiveUpOrLook, TypeOK, Phases
<1>8. CASE LastLook
  BY <1>8 DEF LastLook, TypeOK, Phases
<1>9. CASE Spill
  BY <1>9 DEF Spill, TypeOK, Phases, slotVars
<1>10. CASE Assemble
  BY <1>10 DEF Assemble, TypeOK, Phases, slotVars
<1>11. CASE UNCHANGED vars
  BY <1>11 DEF vars, TypeOK, Phases
<1>. QED
  BY <1>1, <1>2, <1>3, <1>4, <1>5, <1>6, <1>7, <1>8, <1>9, <1>10, <1>11 DEF Next, FinalizeStep

-----------------------------------------------------------------------------
(* Every step is of one of five kinds, as far as the decided chunks go.       *)

\* Nothing is decided.
KeepStep ==
    /\ UNCHANGED <<cur, text, quiet, failed>>
    /\ phase' = phase \/ (phase # "spill" /\ phase' # "spill")

\* The chunk finalize is at goes into the transcript, counts as silence, or is given up.
WordsStep ==
    /\ cur <= flushed /\ phase # "spill" /\ phase' = "wait" /\ cur' = cur + 1
    /\ text' = Append(text, cur) /\ UNCHANGED <<quiet, failed>>

SilenceStep ==
    /\ cur <= flushed /\ phase # "spill" /\ phase' = "wait" /\ cur' = cur + 1
    /\ quiet' = quiet \cup {cur} /\ UNCHANGED <<text, failed>>

FailStep ==
    /\ cur <= flushed /\ phase # "spill" /\ phase' = "spill" /\ cur' = cur
    /\ failed' = failed \cup {cur} /\ UNCHANGED <<text, quiet>>

\* The given-up chunk's audio is saved.
SpillStep ==
    /\ phase = "spill" /\ phase' = "wait" /\ cur' = cur + 1
    /\ UNCHANGED <<text, quiet, failed>>

\* A step of finalize decides one chunk at most and leaves the speech alone.
LEMMA FinalizeKinds ==
    ASSUME TypeOK, Phases, FinalizeStep, ~Assemble
    PROVE  /\ KeepStep \/ WordsStep \/ SilenceStep \/ FailStep \/ SpillStep
           /\ UNCHANGED <<flushed, tail, outcome, worker>>
           /\ phase # "recording" /\ phase' # "recording" /\ phase # "done" /\ phase' # "done"
<1>1. CASE Take
  <2>1. /\ phase = "wait" /\ cur <= flushed /\ UNCHANGED <<flushed, tail, outcome, worker, failed>>
        /\ IF result[cur] = "error" THEN phase' = "retry" /\ cur' = cur
                                    ELSE phase' = "wait" /\ cur' = cur + 1
        /\ text' = IF HasText(result[cur]) THEN Append(text, cur) ELSE text
        /\ quiet' = IF result[cur] = "nothing" THEN quiet \cup {cur} ELSE quiet
        /\ result[cur] # "none"
    BY <1>1 DEF Take
  <2>2. result[cur] \in {"words", "corrected", "nothing", "error"}
    BY <2>1, ChunkAssumption DEF TypeOK, Chunks
  <2>. QED
    BY <2>1, <2>2 DEF HasText, KeepStep, WordsStep, SilenceStep
<1>2. CASE WaitTimeout
  BY <1>2 DEF WaitTimeout, KeepStep, slotVars
<1>3. CASE RetryStart
  BY <1>3 DEF RetryStart, GiveUpOrLook, KeepStep, FailStep, Phases, slotVars
<1>4. ASSUME NEW a \in Answers, RetryAnswer(a)
      PROVE  /\ KeepStep \/ WordsStep \/ FailStep
             /\ UNCHANGED <<flushed, tail, outcome, worker>>
             /\ phase = "retrying" /\ phase' \in {"wait", "look", "spill"}
  BY <1>4 DEF RetryAnswer, GiveUpOrLook, KeepStep, WordsStep, FailStep, Phases
<1>5. CASE LastLook
  BY <1>5 DEF LastLook, WordsStep, FailStep, Phases
<1>6. CASE Spill
  BY <1>6 DEF Spill, SpillStep, slotVars
<1>. QED
  BY <1>1, <1>2, <1>3, <1>4, <1>5, <1>6 DEF FinalizeStep

\* So does every other step, which decides nothing.
LEMMA StepKinds ==
    ASSUME TypeOK, Phases, [Next]_vars
    PROVE  KeepStep \/ WordsStep \/ SilenceStep \/ FailStep \/ SpillStep
<1>1. CASE Flush
  BY <1>1 DEF Flush, KeepStep
<1>2. ASSUME NEW t \in {"words", "nothing", "lost"}, EndOfSpeech(t) PROVE KeepStep
  BY <1>2 DEF EndOfSpeech, KeepStep
<1>3. ASSUME NEW i \in Chunks, WorkerStep(i) PROVE KeepStep
  BY <1>3 DEF WorkerStep, WorkerAnswer, WorkerDropAudio, WorkerCorrect, KeepStep
<1>4. CASE Assemble
  BY <1>4 DEF Assemble, KeepStep
<1>5. CASE UNCHANGED vars
  BY <1>5 DEF vars, KeepStep
<1>. QED
  BY <1>1, <1>2, <1>3, <1>4, <1>5, FinalizeKinds DEF Next

-----------------------------------------------------------------------------
(* Each chunk is accounted for once, in order.                               *)

LEMMA AccountedInit == Init => Accounted
BY DEF Init, Accounted, InText, Decided, FlushOrder, Chunks

LEMMA AccountedNext == TypeOK /\ Phases /\ Accounted /\ [Next]_vars => Accounted'
<1>. SUFFICES ASSUME TypeOK, Phases, Accounted, [Next]_vars PROVE Accounted'
  OBVIOUS
<1>. USE ChunkAssumption
<1>1. CASE KeepStep
  <2>1. UNCHANGED <<cur, text, quiet, failed>> /\ Decided' = Decided
    BY <1>1 DEF KeepStep, Decided, Chunks, TypeOK
  <2>. QED
    BY <1>1, <2>1 DEF KeepStep, Accounted, InText, FlushOrder
<1>a. ASSUME cur <= flushed, phase # "spill"
      PROVE  cur \in Chunks /\ cur \notin Decided /\ \A j \in Decided : j < cur
  BY <1>a DEF TypeOK, Decided, Chunks
<1>b. ASSUME cur <= flushed, phase # "spill",
             \/ cur' = cur + 1 /\ phase' = "wait"
             \/ cur' = cur /\ phase' = "spill"
      PROVE  Decided' = Decided \cup {cur}
  BY <1>b DEF TypeOK, Decided, Chunks
<1>2. CASE WordsStep
  <2>1. Decided' = Decided \cup {cur} /\ cur \in Chunks /\ cur \notin Decided /\ \A j \in Decided : j < cur
    BY <1>2, <1>a, <1>b DEF WordsStep
  <2>2. InText' = InText \cup {cur}
    <3>1. text' = Append(text, cur) /\ text \in Seq(Chunks)
      BY <1>2 DEF WordsStep, TypeOK
    <3>2. Range1(text') = Range1(text) \cup {cur}
      BY <3>1, <2>1, AppendRange
    <3>. QED
      BY <3>2 DEF Range1, InText
  <2>3. FlushOrder'
    <3>1. /\ text' = Append(text, cur) /\ text \in Seq(Chunks)
          /\ \A j \in Range1(text) : j < cur
          /\ \A m, n \in DOMAIN text : m < n => text[m] < text[n]
      BY <1>2, <2>1 DEF WordsStep, TypeOK, Accounted, FlushOrder, InText, Range1
    <3>2. \A m, n \in DOMAIN text' : m < n => text'[m] < text'[n]
      BY <3>1, <2>1, AppendOrdered
    <3>. QED
      BY <3>2 DEF FlushOrder
  <2>. QED
    BY <1>2, <2>1, <2>2, <2>3 DEF WordsStep, Accounted
<1>3. CASE SilenceStep
  <2>1. Decided' = Decided \cup {cur} /\ cur \notin Decided
    BY <1>3, <1>a, <1>b DEF SilenceStep
  <2>. QED
    BY <1>3, <2>1 DEF SilenceStep, Accounted, InText, FlushOrder
<1>4. CASE FailStep
  <2>1. Decided' = Decided \cup {cur} /\ cur \notin Decided
    BY <1>4, <1>a, <1>b DEF FailStep
  <2>. QED
    BY <1>4, <2>1 DEF FailStep, Accounted, InText, FlushOrder
<1>5. CASE SpillStep
  <2>1. Decided' = Decided
    BY <1>5 DEF SpillStep, Decided, Chunks, TypeOK
  <2>. QED
    BY <1>5, <2>1 DEF SpillStep, Accounted, InText, FlushOrder
<1>. QED
  BY <1>1, <1>2, <1>3, <1>4, <1>5, StepKinds

-----------------------------------------------------------------------------
(* The words of a chunk finalize has not reached are still there.             *)

LEMMA KeptInit == Init => Kept
BY DEF Init, Kept, Untouched

\* No step looks back: a chunk finalize has touched is never untouched again.
LEMMA KeptNext == TypeOK /\ Phases /\ Kept /\ [Next]_vars => Kept'
<1>. SUFFICES ASSUME TypeOK, Phases, Kept, [Next]_vars PROVE Kept'
  OBVIOUS
<1>. USE ChunkAssumption
<1>1. CASE Flush
  <2>. SUFFICES ASSUME NEW i \in Untouched'
                PROVE  /\ worker'[i] = "transcribing" => i \in audio'
                       /\ result'[i] = "none" => worker'[i] = "transcribing"
                       /\ result'[i] = "error" => worker'[i] = "done" /\ i \in audio'
    BY DEF Kept
  <2>1. /\ flushed' = flushed + 1 /\ flushed' \in Chunks /\ UNCHANGED <<cur, phase, result>>
        /\ worker' = [worker EXCEPT ![flushed'] = "transcribing"]
        /\ audio' = audio \cup {flushed'}
    BY <1>1 DEF Flush, TypeOK, Chunks
  <2>2. CASE i = flushed'
    BY <2>1, <2>2 DEF Phases, TypeOK
  <2>3. CASE i # flushed'
    <3>1. i \in Untouched /\ i \in Chunks
      BY <2>1, <2>3 DEF Untouched, TypeOK, Chunks
    <3>. QED
      BY <2>1, <2>3, <3>1 DEF Kept, TypeOK
  <2>. QED
    BY <2>2, <2>3
<1>2. ASSUME NEW t \in {"words", "nothing", "lost"}, EndOfSpeech(t) PROVE Kept'
  BY <1>2 DEF EndOfSpeech, Kept, Untouched, Phases, TypeOK, slotVars
<1>3. ASSUME NEW w \in Chunks, WorkerStep(w) PROVE Kept'
  <2>1. Untouched' = Untouched
    BY <1>3 DEF WorkerStep, WorkerAnswer, WorkerDropAudio, WorkerCorrect, Untouched
  <2>. SUFFICES ASSUME NEW i \in Untouched
                PROVE  /\ worker'[i] = "transcribing" => i \in audio'
                       /\ result'[i] = "none" => worker'[i] = "transcribing"
                       /\ result'[i] = "error" => worker'[i] = "done" /\ i \in audio'
    BY <2>1 DEF Kept
  <2>2. i \in Chunks
    BY DEF Untouched, TypeOK, Chunks
  <2>3. ASSUME NEW a \in Answers, WorkerAnswer(w, a)
        PROVE  /\ worker'[i] = "transcribing" => i \in audio'
               /\ result'[i] = "none" => worker'[i] = "transcribing"
               /\ result'[i] = "error" => worker'[i] = "done" /\ i \in audio'
    <3>1. a \in {"words", "nothing", "error"}
      OBVIOUS
    <3>. QED
      BY <2>2, <2>3, <3>1 DEF WorkerAnswer, Kept, TypeOK
  <2>4. CASE WorkerDropAudio(w)
    BY <2>2, <2>4 DEF WorkerDropAudio, Kept, TypeOK
  <2>5. CASE WorkerCorrect(w)
    BY <2>2, <2>5 DEF WorkerCorrect, Kept, TypeOK
  <2>. QED
    BY <1>3, <2>3, <2>4, <2>5 DEF WorkerStep
<1>4. CASE Take
  <2>1. Untouched' \subseteq Untouched \ {cur}
    BY <1>4 DEF Take, Untouched, TypeOK
  <2>2. /\ UNCHANGED <<worker, audio>> /\ \A i \in Chunks : i # cur => result'[i] = result[i]
    BY <1>4 DEF Take, TypeOK
  <2>. QED
    BY <2>1, <2>2 DEF Kept, Untouched, TypeOK, Chunks
<1>5. CASE WaitTimeout
  BY <1>5 DEF WaitTimeout, Kept, Untouched, TypeOK, slotVars
<1>6. CASE RetryStart
  BY <1>6 DEF RetryStart, GiveUpOrLook, Kept, Untouched, TypeOK, slotVars
<1>7. ASSUME NEW a \in Answers, RetryAnswer(a) PROVE Kept'
  <2>1. Untouched' \subseteq Untouched \ {cur} /\ UNCHANGED <<worker, result>> /\ audio \ {cur} \subseteq audio'
    BY <1>7 DEF RetryAnswer, GiveUpOrLook, Untouched, TypeOK
  <2>. QED
    BY <2>1 DEF Kept
<1>8. CASE LastLook
  <2>1. Untouched' \subseteq Untouched \ {cur}
    BY <1>8 DEF LastLook, Untouched, TypeOK
  <2>2. /\ UNCHANGED <<worker, audio>> /\ \A i \in Chunks : i # cur => result'[i] = result[i]
    BY <1>8 DEF LastLook, TypeOK
  <2>. QED
    BY <2>1, <2>2 DEF Kept, Untouched, TypeOK, Chunks
<1>9. CASE Spill
  <2>1. Untouched' \subseteq Untouched /\ UNCHANGED <<worker, result, audio>>
    BY <1>9 DEF Spill, Untouched, TypeOK, slotVars
  <2>. QED
    BY <2>1 DEF Kept
<1>10. CASE Assemble
  <2>1. Untouched' \subseteq Untouched /\ UNCHANGED <<worker, result, audio>>
    BY <1>10 DEF Assemble, Untouched, TypeOK, slotVars
  <2>. QED
    BY <2>1 DEF Kept
<1>11. CASE UNCHANGED vars
  BY <1>11 DEF vars, Kept, Untouched
<1>. QED
  BY <1>1, <1>2, <1>3, <1>4, <1>5, <1>6, <1>7, <1>8, <1>9, <1>10, <1>11 DEF Next, FinalizeStep

-----------------------------------------------------------------------------
(* The verdict.                                                              *)

LEMMA VerdictInit == Init => Verdict
BY DEF Init, Verdict

\* Once it is given, only threads go on.
LEMMA VerdictNext == TypeOK /\ Phases /\ Verdict /\ [Next]_vars => Verdict'
<1>. SUFFICES ASSUME TypeOK, Phases, Verdict, [Next]_vars PROVE Verdict'
  OBVIOUS
<1>1. CASE Assemble
  BY <1>1, NothingMissing DEF Assemble, Verdict
<1>2. CASE FinalizeStep /\ ~Assemble
  BY <1>2, FinalizeKinds DEF Phases, Verdict
<1>3. CASE Flush
  BY <1>3 DEF Flush, Phases, Verdict
<1>4. ASSUME NEW t \in {"words", "nothing", "lost"}, EndOfSpeech(t) PROVE Verdict'
  BY <1>4 DEF EndOfSpeech, Phases, Verdict
<1>5. ASSUME NEW i \in Chunks, WorkerStep(i) PROVE Verdict'
  BY <1>5 DEF WorkerStep, WorkerAnswer, WorkerDropAudio, WorkerCorrect, Verdict
<1>6. CASE UNCHANGED vars
  BY <1>6 DEF vars, Verdict
<1>. QED
  BY <1>1, <1>2, <1>3, <1>4, <1>5, <1>6 DEF Next

-----------------------------------------------------------------------------
(* The theorems.                                                             *)

\* The whole of it is inductive.
LEMMA Inductive == Spec => []IInv
<1>1. Init => IInv
  BY TypeInit, PhasesInit, AccountedInit, KeptInit, VerdictInit DEF IInv
<1>2. IInv /\ [Next]_vars => IInv'
  BY TypeNext, PhasesNext, AccountedNext, KeptNext, VerdictNext DEF IInv
<1>. QED
  BY <1>1, <1>2, PTL DEF Spec

\* The chunker's state keeps its types: finalize never runs past the committed chunks.
THEOREM ChunksTypeCorrect == Spec => []TypeOK
<1>1. IInv => TypeOK
  BY DEF IInv
<1>. QED
  BY <1>1, Inductive, PTL

\* Until finalize reaches a chunk, its audio or its text is there (a chunk's thread
\* publishes before it drops the audio, chunker.rs).
THEOREM NoChunkDisappears == Spec => []AudioOrResult
<1>1. IInv => AudioOrResult
  BY ChunkAssumption DEF IInv, TypeOK, Chunks, Kept, Untouched, AudioOrResult
<1>. QED
  BY <1>1, Inductive, PTL

\* Every chunk finalize is done with is in exactly one place.
THEOREM ChunksAccounted == Spec => []EveryChunkAccounted
<1>1. IInv => EveryChunkAccounted
  <2>. SUFFICES ASSUME IInv PROVE EveryChunkAccounted
    OBVIOUS
  <2>1. /\ InText \cup quiet \cup failed = Decided
        /\ InText \cap quiet = {} /\ InText \cap failed = {} /\ quiet \cap failed = {}
    BY DEF IInv, Accounted
  <2>2. Decided \subseteq {i \in Chunks : i < cur} \cup (IF phase = "spill" THEN {cur} ELSE {})
    BY DEF Decided
  <2>3. {i \in Chunks : i < cur} \subseteq Decided
    BY DEF Decided
  <2>. QED
    BY <2>1, <2>2, <2>3 DEF EveryChunkAccounted
<1>. QED
  BY <1>1, Inductive, PTL

\* The transcript keeps the order of the speech, whichever thread is the fastest.
THEOREM TextInOrder == Spec => []FlushOrder
<1>1. IInv => FlushOrder
  BY DEF IInv, Accounted
<1>. QED
  BY <1>1, Inductive, PTL

\* A dictation with a missing part is never taken for complete, nor one with words for
\* noise (finalize_chunked).
THEOREM MissingIsCued == Spec => []MissingWordsAreCued
<1>1. IInv => MissingWordsAreCued
  <2>. SUFFICES ASSUME IInv PROVE MissingWordsAreCued
    OBVIOUS
  <2>1. ASSUME outcome # "none" PROVE heard \subseteq InText \cup quiet \cup failed
    <3>1. cur > flushed /\ heard \subseteq 1..flushed /\ flushed \in 0..MaxChunks /\ cur \in 1..(MaxChunks + 1)
      BY <2>1 DEF IInv, Phases, TypeOK
    <3>2. heard \subseteq Decided
      BY <3>1, ChunkAssumption DEF Decided, Chunks
    <3>. QED
      BY <3>2 DEF IInv, Accounted
  <2>2. text = <<>> => InText = {}
    BY DEF InText
  <2>. QED
    BY <2>1, <2>2 DEF IInv, Verdict, MissingWordsAreCued
<1>. QED
  BY <1>1, Inductive, PTL

-----------------------------------------------------------------------------
(* The promise.                                                              *)

Missing == IF phase = "spill" THEN failed \ {cur} ELSE failed

\* A step that decides a chunk settles the next one; any other leaves the promise alone.
LEMMA KindsSettle ==
    ASSUME IInv, UNCHANGED <<flushed, tail, outcome>>, tail # "open",
           KeepStep \/ WordsStep \/ SilenceStep \/ FailStep \/ SpillStep
    PROVE  Promise!Settle \/ UNCHANGED <<cur, text, quiet, Missing>>
<1>. USE DEF Missing
<1>0. /\ cur \in Nat /\ cur >= 1 /\ flushed \in Nat /\ (cur - 1) + 1 = cur /\ (cur + 1) - 1 = cur
      /\ (cur <= flushed => cur - 1 < flushed)
  BY ChunkAssumption DEF IInv, TypeOK
<1>1. CASE KeepStep
  BY <1>1 DEF KeepStep
<1>2. CASE WordsStep
  BY <1>0, <1>2 DEF WordsStep, Promise!Settle
<1>3. CASE SilenceStep
  BY <1>0, <1>3 DEF SilenceStep, Promise!Settle
<1>4. CASE FailStep
  <2>1. cur \notin failed
    BY <1>0, <1>4 DEF FailStep, IInv, Accounted, Decided
  <2>. QED
    BY <1>4, <2>1 DEF FailStep
<1>5. CASE SpillStep
  <2>1. cur \in failed /\ cur <= flushed
    BY <1>0, <1>5 DEF SpillStep, IInv, Accounted, Phases
  <2>. QED
    BY <1>0, <1>5, <2>1 DEF SpillStep, Promise!Settle
<1>. QED
  BY <1>1, <1>2, <1>3, <1>4, <1>5

\* The verdict is published once all chunks are settled.
LEMMA AssemblePublishes == ASSUME IInv, Assemble PROVE Promise!Publish
<1>1. /\ tail # "open" /\ outcome = "none" /\ cur - 1 = flushed
      /\ UNCHANGED <<flushed, cur, text, quiet, failed, tail>> /\ phase # "spill" /\ phase' # "spill"
  BY ChunkAssumption DEF Assemble, IInv, Phases, TypeOK
<1>2. UnrecoveredParts > 0 <=> ~(failed = {} /\ tail # "lost")
  BY NothingMissing DEF IInv
<1>3. outcome' = IF text # <<>> \/ tail = "words"
                 THEN (IF failed = {} /\ tail # "lost" THEN "complete" ELSE "incomplete")
                 ELSE (IF failed = {} /\ tail # "lost" THEN "noise" ELSE "lost")
  BY <1>2, NothingMissing DEF Assemble, IInv
<1>. QED
  BY <1>1, <1>3 DEF Promise!Publish, Promise!Worded, Promise!Whole

LEMMA PromiseStep == IInv /\ [Next]_vars => [Promise!Next]_Promise!vars
<1>. SUFFICES ASSUME IInv, [Next]_vars PROVE [Promise!Next]_Promise!vars
  OBVIOUS
<1>1. CASE Flush
  <2>1. Promise!Speak
    BY <1>1 DEF Flush, IInv, Phases, Promise!Speak
  <2>. QED
    BY <2>1 DEF Promise!Next
<1>2. ASSUME NEW t \in {"words", "nothing", "lost"}, EndOfSpeech(t) PROVE Promise!Next
  BY <1>2 DEF EndOfSpeech, IInv, Phases, Promise!Stop, Promise!Next
<1>3. ASSUME NEW i \in Chunks, WorkerStep(i) PROVE UNCHANGED Promise!vars
  BY <1>3 DEF WorkerStep, WorkerAnswer, WorkerDropAudio, WorkerCorrect, Promise!vars
<1>4. CASE FinalizeStep /\ ~Assemble
  <2>1. /\ KeepStep \/ WordsStep \/ SilenceStep \/ FailStep \/ SpillStep
        /\ UNCHANGED <<flushed, tail, outcome>> /\ tail # "open"
    BY <1>4, FinalizeKinds DEF IInv, Phases
  <2>. QED
    BY <2>1, KindsSettle DEF Missing, Promise!Next, Promise!vars
<1>5. CASE Assemble
  BY <1>5, AssemblePublishes DEF Promise!Next
<1>6. CASE UNCHANGED vars
  BY <1>6 DEF vars, Promise!vars
<1>. QED
  BY <1>1, <1>2, <1>3, <1>4, <1>5, <1>6 DEF Next

\* Whatever the threads do, the user sees chunks settled one by one in the order of the
\* speech and one verdict at the end (finalize and finalize_chunked): ChunkedDictation
\* implements Transcript.  That the verdict comes is checked by TLC (KeepsPromise).
THEOREM ImplementsTranscript == Spec => Promise!Spec
<1>1. Init => Promise!Init
  BY DEF Init, Promise!Init
<1>. QED
  BY <1>1, PromiseStep, Inductive, PTL DEF Spec, Promise!Spec

-----------------------------------------------------------------------------
(* The microphone: who holds the recorder lock, and what may be in the ring.  *)

\* The lock is held by who spawns, or waits for a frame; what is tried meanwhile is the
\* only recorder; whoever started one has reaped what a killed daemon left.
Locked ==
    /\ holder = "loop" <=> pc \in {"spawn", "wait"}
    /\ holder = "uds" <=> switch = "spawning"
    /\ stage # "none" <=> pc = "spawn" \/ switch = "spawning"
    /\ trial # "none" => stage = trial /\ trial # "rec"
    /\ stage # "none" => slot = "none"
    /\ stage \in Mic!Kinds \/ slot # "none" => reaped
    /\ reaped => orphans = 0
    /\ slot = "none" => ring = <<>> /\ pipe = <<>>
    /\ ~up => pc = "dead" /\ switch = "none"

\* The loop knows that capture is not gated when it reads, and only a resume that has
\* still to drain leaves frames behind that were captured while it was.
Reads ==
    /\ pc \in {"top", "dead"} => goal = "read"
    /\ goal = "read" /\ pc # "top" => ~wasGated
    /\ goal = "resume" => ~wasGated /\ pc \in {"get", "spawn", "have"}
Fresh(q) == \A k \in DOMAIN q : q[k].cut \/ ~q[k].deaf
Undeaf == ~wasGated /\ goal # "resume" => Fresh(ring) /\ Fresh(pipe)

MicInv == Mic!TypeOK /\ Locked /\ Reads /\ Undeaf

\* The kinds of step: of the recorder lock, and of the frames.
\* Its types: of the queues, of what is true or false, and of the rest.
Queues ==
    /\ pipe \in Seq(Mic!Frames) /\ Len(pipe) <= 1
    /\ ring \in Seq(Mic!Frames) /\ Len(ring) <= RingCapacity
Flags ==
    /\ faulty \in BOOLEAN /\ up \in BOOLEAN /\ wasGated \in BOOLEAN /\ reaped \in BOOLEAN
    /\ backoff \in BOOLEAN /\ stuck \in BOOLEAN
Places ==
    /\ pc \in {"top", "get", "spawn", "have", "read", "heard", "wait", "evict", "dead"}
    /\ goal \in {"read", "wake", "enroll", "drain", "resume", "pollIdle", "pollMedia"}
    /\ holder \in {"none", "loop", "uds"} /\ switch \in {"none", "asked", "spawning"}
Recorders ==
    /\ stage \in {"none", "reap", "vp", "plain", "rec"} /\ slot \in {"none", "vp", "plain", "rec"}
    /\ trial \in {"none", "vp", "plain", "rec"} /\ run \in {"flowing", "wedged", "eof"}
Counts ==
    /\ host \in Mic!HostTypes /\ gate \in Mic!Gates
    /\ orphans \in 0..1 /\ helperFailed \subseteq Mic!Kinds /\ failures \in 0..ExitAfter

LEMMA MicTypes == Mic!TypeOK <=> Queues /\ Flags /\ Places /\ Recorders /\ Counts
<1>1. /\ {"none", "reap"} \cup Mic!Kinds = {"none", "reap", "vp", "plain", "rec"}
      /\ {"none"} \cup Mic!Kinds = {"none", "vp", "plain", "rec"}
  BY DEF Mic!Kinds
<1> QED
  BY <1>1, Zenon DEF Mic!TypeOK, Queues, Flags, Places, Recorders, Counts, Mic!None

LEMMA MicInit == ASSUME Mic!CaptureAssumption, Mic!Init PROVE MicInv
<1> USE DEF Mic!Init, Mic!CaptureAssumption, Mic!None
<1>1. Queues
  BY DEF Queues
<1>2. Flags
  BY DEF Flags
<1>3. Places /\ Recorders /\ Counts
  BY DEF Places, Recorders, Counts, Mic!Gates
<1>4. Locked /\ Reads /\ Undeaf
  BY DEF Locked, Reads, Undeaf, Fresh, Mic!Kinds
<1> QED
  BY <1>1, <1>2, <1>3, <1>4, MicTypes DEF MicInv

\* A drain marks what is in the pipe, and leaves it there.
LEMMA DrainMarks ==
    ASSUME NEW q \in Seq(Mic!Frames)
    PROVE  /\ Mic!Drained(q) \in Seq(Mic!Frames) /\ Len(Mic!Drained(q)) = Len(q)
           /\ \A k \in DOMAIN Mic!Drained(q) : Mic!Drained(q)[k].cut
<1>1. DOMAIN q = 1..Len(q) /\ Len(q) \in Nat
  BY LenProperties
<1>2. \A k \in 1..Len(q) : q[k] \in Mic!Frames
  BY ElementOfSeq
<1>3. \A k \in 1..Len(q) : [q[k] EXCEPT !.cut = TRUE] \in Mic!Frames /\ [q[k] EXCEPT !.cut = TRUE].cut
  BY <1>2 DEF Mic!Frames
<1>4. Mic!Drained(q) = [k \in 1..Len(q) |-> [q[k] EXCEPT !.cut = TRUE]]
  BY <1>1 DEF Mic!Drained
<1>5. Mic!Drained(q) \in [1..Len(q) -> Mic!Frames]
  BY <1>3, <1>4
<1>6. Mic!Drained(q) \in Seq(Mic!Frames)
  BY <1>1, <1>5, SeqDef, Zenon
<1>7. Len(Mic!Drained(q)) = Len(q)
  BY <1>1, <1>5, <1>6, LenProperties
<1> QED
  BY <1>3, <1>4, <1>6, <1>7

LEMMA QueuesKeep ==
    ASSUME Mic!CaptureAssumption, Queues, Mic!Next
    PROVE  Queues'
<1> USE DEF Queues
<1>1. CASE UNCHANGED <<pipe, ring>>
  BY <1>1
<1>2. CASE pipe' = <<>> /\ ring' = <<>>
  BY <1>2, Mic!CaptureAssumption DEF Mic!CaptureAssumption
<1>3. CASE Mic!Drain
  BY <1>3, DrainMarks, Mic!CaptureAssumption DEF Mic!Drain, Mic!CaptureAssumption
<1>4. CASE Mic!ReadFrame
  <2>1. PICK k \in DOMAIN ring : ring' = SubSeq(ring, k + 1, Len(ring))
    BY <1>4 DEF Mic!ReadFrame
  <2>2. UNCHANGED pipe
    BY <1>4 DEF Mic!ReadFrame
  <2> QED
    BY <2>1, <2>2, SubSeqProperties, Mic!CaptureAssumption DEF Mic!CaptureAssumption
<1>5. CASE Mic!Capture
  BY <1>5 DEF Mic!Capture, Mic!Frame, Mic!Frames
<1>6. CASE Mic!Pump
  BY <1>6 DEF Mic!Pump, Mic!CaptureAssumption
<1>7. CASE Mic!Spawning
  BY <1>1, <1>2, <1>7 DEF Mic!Spawning, Mic!SpawnReap, Mic!SpawnHelper, Mic!HelperFails, Mic!HelperStarts,
     Mic!SpawnRec, Mic!SpawnFails, Mic!Install, Mic!procVars
<1> QED
  BY <1>1, <1>2, <1>3, <1>4, <1>5, <1>6, <1>7
     DEF Mic!Next, Mic!Having, Mic!Getting, Mic!Reading, Mic!procVars, Mic!Top,
     Mic!TopEnroll, Mic!TopGated, Mic!TopOpen, Mic!Probe, Mic!GetHealthy, Mic!GetReplace, Mic!Dropped,
     Mic!SwitchStart, Mic!ReadEnds, Mic!ReadStart, Mic!ReadEof, Mic!Evict, Mic!ReadTimeout,
     Mic!TimeoutEvicts, Mic!BackoffElapses, Mic!FailureForgotten, Mic!GateChanges, Mic!RecorderFails,
     Mic!DeviceSwitched, Mic!Heal, Mic!Respawned, Mic!OrphanDies, Mic!Killed

LEMMA FlagsKeep ==
    ASSUME Flags, Mic!Next
    PROVE  Flags'
<1> USE DEF Flags
<1> USE DEF Mic!loopVars, Mic!procVars, Mic!supVars
<1>1. CASE Mic!Top
  BY <1>1 DEF Mic!Top, Mic!TopEnroll, Mic!TopGated, Mic!TopOpen
<1>2. CASE Mic!Having \/ Mic!GetHealthy
  BY <1>2 DEF Mic!Having, Mic!Drain, Mic!Probe, Mic!GetHealthy
<1>3. CASE Mic!GetReplace
  BY <1>3 DEF Mic!GetReplace, Mic!Dies
<1>4. CASE Mic!Spawning
  BY <1>4 DEF Mic!Spawning, Mic!SpawnReap, Mic!SpawnHelper, Mic!HelperFails, Mic!HelperStarts,
     Mic!SpawnRec, Mic!SpawnFails, Mic!Install, Mic!NoteFailure
<1>5. CASE Mic!SwitchStart
  BY <1>5 DEF Mic!SwitchStart
<1>6. CASE Mic!Reading
  BY <1>6 DEF Mic!Reading, Mic!ReadEnds, Mic!ReadStart, Mic!ReadFrame, Mic!ReadEof, Mic!Evict,
     Mic!ReadTimeout, Mic!NoteFailure, Mic!NoteAudio
<1>7. CASE Mic!Capture \/ Mic!Pump \/ Mic!BackoffElapses
            \/ (\E kind \in Mic!Kinds : Mic!FailureForgotten(kind))
            \/ Mic!GateChanges \/ Mic!RecorderFails \/ Mic!DeviceSwitched \/ Mic!Heal
            \/ Mic!Respawned \/ Mic!OrphanDies
  BY <1>7 DEF Mic!Capture, Mic!Pump, Mic!BackoffElapses, Mic!FailureForgotten, Mic!GateChanges,
     Mic!RecorderFails, Mic!DeviceSwitched, Mic!Heal, Mic!Respawned, Mic!OrphanDies
<1>8. CASE Mic!Killed
  BY <1>8 DEF Mic!Killed, Mic!Dies
<1> QED
  BY <1>1, <1>2, <1>3, <1>4, <1>5, <1>6, <1>7, <1>8 DEF Mic!Next, Mic!Getting

LEMMA PlacesKeep ==
    ASSUME Places, Mic!Next
    PROVE  Places'
<1> USE DEF Places, Mic!None
<1> USE DEF Mic!loopVars, Mic!procVars, Mic!supVars
<1>1. CASE Mic!Top
  BY <1>1 DEF Mic!Top, Mic!TopEnroll, Mic!TopGated, Mic!TopOpen
<1>2. CASE Mic!Having \/ Mic!GetHealthy
  BY <1>2 DEF Mic!Having, Mic!Drain, Mic!Probe, Mic!GetHealthy, Mic!AfterGet
<1>3. CASE Mic!GetReplace
  BY <1>3 DEF Mic!GetReplace, Mic!Dies, Mic!Dropped
<1>4. CASE Mic!SpawnReap \/ Mic!SpawnHelper
  BY <1>4 DEF Mic!SpawnReap, Mic!SpawnHelper, Mic!FirstStage
<1>5. CASE Mic!HelperFails
  BY <1>5 DEF Mic!HelperFails
<1>6. CASE Mic!HelperStarts
  BY <1>6 DEF Mic!HelperStarts, Mic!Install, Mic!AfterGet
<1>7. CASE Mic!SpawnRec
  BY <1>7 DEF Mic!SpawnRec, Mic!Install, Mic!AfterGet
<1>8. CASE Mic!SpawnFails
  BY <1>8 DEF Mic!SpawnFails, Mic!AfterErr, Mic!Rearmed, Mic!NoteFailure
<1>9. CASE Mic!SwitchStart
  BY <1>9 DEF Mic!SwitchStart, Mic!Dropped
<1>10. CASE Mic!ReadEnds \/ Mic!ReadStart \/ Mic!Evict
  BY <1>10 DEF Mic!ReadEnds, Mic!ReadStart, Mic!Evict, Mic!Dropped
<1>11. CASE Mic!ReadFrame \/ Mic!ReadEof \/ Mic!ReadTimeout
  BY <1>11 DEF Mic!ReadFrame, Mic!ReadEof, Mic!ReadTimeout, Mic!TimeoutEvicts, Mic!Dropped,
     Mic!NoteFailure, Mic!NoteAudio
<1>12. CASE Mic!Capture \/ Mic!Pump \/ Mic!BackoffElapses
            \/ \E kind \in Mic!Kinds : Mic!FailureForgotten(kind)
  BY <1>12 DEF Mic!Capture, Mic!Pump, Mic!BackoffElapses, Mic!FailureForgotten
<1>13. CASE Mic!GateChanges \/ Mic!RecorderFails \/ Mic!DeviceSwitched \/ Mic!Heal
            \/ Mic!Respawned \/ Mic!OrphanDies
  BY <1>13 DEF Mic!GateChanges, Mic!RecorderFails, Mic!DeviceSwitched, Mic!Heal,
     Mic!Respawned, Mic!OrphanDies
<1>14. CASE Mic!Killed
  BY <1>14 DEF Mic!Killed, Mic!Dies, Mic!Dropped
<1> QED
  BY <1>1, <1>2, <1>3, <1>4, <1>5, <1>6, <1>7, <1>8, <1>9, <1>10, <1>11, <1>12, <1>13, <1>14
     DEF Mic!Next, Mic!Getting, Mic!Spawning, Mic!Reading

LEMMA RecordersKeep ==
    ASSUME Recorders, Mic!Next
    PROVE  Recorders'
<1> USE DEF Recorders, Mic!None
<1> USE DEF Mic!loopVars, Mic!procVars, Mic!supVars
<1>1. CASE Mic!Top
  BY <1>1 DEF Mic!Top, Mic!TopEnroll, Mic!TopGated, Mic!TopOpen
<1>2. CASE Mic!Having \/ Mic!GetHealthy
  BY <1>2 DEF Mic!Having, Mic!Drain, Mic!Probe, Mic!GetHealthy, Mic!AfterGet
<1>3. CASE Mic!GetReplace
  BY <1>3 DEF Mic!GetReplace, Mic!Dies, Mic!Dropped
<1>4. CASE Mic!SpawnReap \/ Mic!SpawnHelper
  BY <1>4 DEF Mic!SpawnReap, Mic!SpawnHelper, Mic!FirstStage
<1>5. CASE Mic!HelperFails
  BY <1>5 DEF Mic!HelperFails
<1>6. CASE Mic!HelperStarts
  BY <1>6 DEF Mic!HelperStarts, Mic!Install, Mic!AfterGet
<1>7. CASE Mic!SpawnRec
  BY <1>7 DEF Mic!SpawnRec, Mic!Install, Mic!AfterGet
<1>8. CASE Mic!SpawnFails
  BY <1>8 DEF Mic!SpawnFails, Mic!AfterErr, Mic!Rearmed, Mic!NoteFailure
<1>9. CASE Mic!SwitchStart
  BY <1>9 DEF Mic!SwitchStart, Mic!Dropped
<1>10. CASE Mic!ReadEnds \/ Mic!ReadStart \/ Mic!Evict
  BY <1>10 DEF Mic!ReadEnds, Mic!ReadStart, Mic!Evict, Mic!Dropped
<1>11. CASE Mic!ReadFrame \/ Mic!ReadEof \/ Mic!ReadTimeout
  BY <1>11 DEF Mic!ReadFrame, Mic!ReadEof, Mic!ReadTimeout, Mic!TimeoutEvicts, Mic!Dropped,
     Mic!NoteFailure, Mic!NoteAudio
<1>12. CASE Mic!Capture \/ Mic!Pump \/ Mic!BackoffElapses
            \/ \E kind \in Mic!Kinds : Mic!FailureForgotten(kind)
  BY <1>12 DEF Mic!Capture, Mic!Pump, Mic!BackoffElapses, Mic!FailureForgotten
<1>13. CASE Mic!GateChanges \/ Mic!RecorderFails \/ Mic!DeviceSwitched \/ Mic!Heal
            \/ Mic!Respawned \/ Mic!OrphanDies
  BY <1>13 DEF Mic!GateChanges, Mic!RecorderFails, Mic!DeviceSwitched, Mic!Heal,
     Mic!Respawned, Mic!OrphanDies
<1>14. CASE Mic!Killed
  BY <1>14 DEF Mic!Killed, Mic!Dies, Mic!Dropped
<1> QED
  BY <1>1, <1>2, <1>3, <1>4, <1>5, <1>6, <1>7, <1>8, <1>9, <1>10, <1>11, <1>12, <1>13, <1>14
     DEF Mic!Next, Mic!Getting, Mic!Spawning, Mic!Reading

LEMMA CountsKeep ==
    ASSUME Mic!CaptureAssumption, Recorders, Counts, Mic!Next
    PROVE  Counts'
<1> USE DEF Counts, Mic!None, Mic!Gates, Mic!CaptureAssumption
<1> USE DEF Mic!loopVars, Mic!procVars, Mic!supVars
<1>1. CASE Mic!Top
  BY <1>1 DEF Mic!Top, Mic!TopEnroll, Mic!TopGated, Mic!TopOpen
<1>2. CASE Mic!Having \/ Mic!GetHealthy
  BY <1>2 DEF Mic!Having, Mic!Drain, Mic!Probe, Mic!GetHealthy, Mic!AfterGet
<1>3. CASE Mic!GetReplace
  BY <1>3 DEF Mic!GetReplace, Mic!Dies, Mic!Dropped
<1>4. CASE Mic!SpawnReap \/ Mic!SpawnHelper
  BY <1>4 DEF Mic!SpawnReap, Mic!SpawnHelper, Mic!FirstStage
<1>5. CASE Mic!HelperFails
  BY <1>5 DEF Mic!HelperFails, Recorders, Mic!Kinds
<1>6. CASE Mic!HelperStarts
  BY <1>6 DEF Mic!HelperStarts, Mic!Install, Mic!AfterGet
<1>7. CASE Mic!SpawnRec
  BY <1>7 DEF Mic!SpawnRec, Mic!Install, Mic!AfterGet
<1>8. CASE Mic!SpawnFails
  BY <1>8 DEF Mic!SpawnFails, Mic!AfterErr, Mic!Rearmed, Mic!NoteFailure
<1>9. CASE Mic!SwitchStart
  BY <1>9 DEF Mic!SwitchStart, Mic!Dropped
<1>10. CASE Mic!ReadEnds \/ Mic!ReadStart \/ Mic!Evict
  BY <1>10 DEF Mic!ReadEnds, Mic!ReadStart, Mic!Evict, Mic!Dropped
<1>11. CASE Mic!ReadFrame \/ Mic!ReadEof \/ Mic!ReadTimeout
  BY <1>11 DEF Mic!ReadFrame, Mic!ReadEof, Mic!ReadTimeout, Mic!TimeoutEvicts, Mic!Dropped,
     Mic!NoteFailure, Mic!NoteAudio
<1>12. CASE Mic!Capture \/ Mic!Pump \/ Mic!BackoffElapses
            \/ \E kind \in Mic!Kinds : Mic!FailureForgotten(kind)
  BY <1>12 DEF Mic!Capture, Mic!Pump, Mic!BackoffElapses, Mic!FailureForgotten
<1>13. CASE Mic!GateChanges \/ Mic!RecorderFails \/ Mic!DeviceSwitched \/ Mic!Heal
            \/ Mic!Respawned \/ Mic!OrphanDies
  BY <1>13 DEF Mic!GateChanges, Mic!RecorderFails, Mic!DeviceSwitched, Mic!Heal,
     Mic!Respawned, Mic!OrphanDies
<1>14. CASE Mic!Killed
  BY <1>14 DEF Mic!Killed, Mic!Dies, Mic!Dropped
<1> QED
  BY <1>1, <1>2, <1>3, <1>4, <1>5, <1>6, <1>7, <1>8, <1>9, <1>10, <1>11, <1>12, <1>13, <1>14
     DEF Mic!Next, Mic!Getting, Mic!Spawning, Mic!Reading

LEMMA LockedKeeps ==
    ASSUME Recorders, Counts, Locked, Mic!Next
    PROVE  Locked'
<1> USE DEF Recorders, Counts, Locked, Mic!None, Mic!Kinds
<1> USE DEF Mic!loopVars, Mic!procVars, Mic!supVars
<1>1. CASE Mic!Top
  BY <1>1 DEF Mic!Top, Mic!TopEnroll, Mic!TopGated, Mic!TopOpen
<1>2. CASE Mic!Drain
  BY <1>2 DEF Mic!Drain, Mic!Drained
<1>3. CASE Mic!Probe \/ Mic!GetHealthy
  BY <1>3 DEF Mic!Probe, Mic!GetHealthy, Mic!AfterGet
<1>4. CASE Mic!GetReplace
  BY <1>4 DEF Mic!GetReplace, Mic!Dies, Mic!Dropped
<1>5. CASE Mic!SpawnReap
  BY <1>5 DEF Mic!SpawnReap, Mic!FirstStage
<1>6. CASE Mic!SpawnHelper
  BY <1>6 DEF Mic!SpawnHelper
<1>7. CASE Mic!HelperFails
  BY <1>7 DEF Mic!HelperFails
<1>8. CASE Mic!HelperStarts
  BY <1>8 DEF Mic!HelperStarts, Mic!Install, Mic!AfterGet
<1>16. CASE Mic!SpawnRec
  BY <1>16 DEF Mic!SpawnRec, Mic!Install, Mic!AfterGet
<1>9. CASE Mic!SpawnFails
  BY <1>9 DEF Mic!SpawnFails, Mic!AfterErr
<1>10. CASE Mic!SwitchStart
  BY <1>10 DEF Mic!SwitchStart, Mic!Dropped
<1>11. CASE Mic!ReadEnds \/ Mic!ReadStart \/ Mic!ReadEof \/ Mic!Evict \/ Mic!ReadTimeout
  BY <1>11 DEF Mic!ReadEnds, Mic!ReadStart, Mic!ReadEof, Mic!Evict,
     Mic!ReadTimeout, Mic!TimeoutEvicts, Mic!Dropped
<1>12. CASE Mic!ReadFrame
  BY <1>12 DEF Mic!ReadFrame
<1>13. CASE Mic!Capture \/ Mic!Pump
  BY <1>13 DEF Mic!Capture, Mic!Pump
<1>14. CASE Mic!BackoffElapses \/ (\E kind \in Mic!Kinds : Mic!FailureForgotten(kind))
            \/ Mic!GateChanges \/ Mic!RecorderFails \/ Mic!DeviceSwitched \/ Mic!Heal
            \/ Mic!Respawned \/ Mic!OrphanDies
  BY <1>14 DEF Mic!BackoffElapses, Mic!FailureForgotten, Mic!GateChanges,
     Mic!RecorderFails, Mic!DeviceSwitched, Mic!Heal, Mic!Respawned, Mic!OrphanDies
<1>15. CASE Mic!Killed
  BY <1>15 DEF Mic!Killed, Mic!Dies, Mic!Dropped
<1> QED
  BY <1>1, <1>2, <1>3, <1>4, <1>5, <1>6, <1>7, <1>8, <1>9, <1>10, <1>11, <1>12, <1>13, <1>14, <1>15,
     <1>16 DEF Mic!Next, Mic!Getting, Mic!Spawning, Mic!Having, Mic!Reading

LEMMA ReadsKeep ==
    ASSUME Flags, Places, Locked, Reads, Mic!Next
    PROVE  Reads'
<1> USE DEF Reads, Locked, Mic!None
<1> USE DEF Mic!loopVars, Mic!procVars, Mic!supVars
<1>1. CASE Mic!Top
  BY <1>1 DEF Mic!Top, Mic!TopEnroll, Mic!TopGated, Mic!TopOpen
<1>2. CASE Mic!Drain
  BY <1>2 DEF Mic!Drain
<1>3. CASE Mic!Probe \/ Mic!GetHealthy
  BY <1>3 DEF Mic!Probe, Mic!GetHealthy, Mic!AfterGet
<1>4. CASE Mic!GetReplace
  BY <1>4 DEF Mic!GetReplace, Mic!Dies
<1>5. CASE Mic!SpawnReap \/ Mic!SpawnHelper \/ Mic!HelperFails
  BY <1>5 DEF Mic!SpawnReap, Mic!SpawnHelper, Mic!HelperFails
<1>6. CASE Mic!HelperStarts
  BY <1>6 DEF Mic!HelperStarts, Mic!Install, Mic!AfterGet, Recorders
<1>7. CASE Mic!SpawnRec
  BY <1>7 DEF Mic!SpawnRec, Mic!Install, Mic!AfterGet
<1>8. CASE Mic!SpawnFails
  BY <1>8 DEF Mic!SpawnFails, Mic!AfterErr
<1>9. CASE Mic!SwitchStart
  BY <1>9 DEF Mic!SwitchStart
<1>10. CASE Mic!Reading
  BY <1>10 DEF Mic!Reading, Mic!ReadEnds, Mic!ReadStart, Mic!ReadFrame, Mic!ReadEof, Mic!Evict,
     Mic!ReadTimeout
<1>11. CASE Mic!Capture \/ Mic!Pump \/ Mic!BackoffElapses
            \/ (\E kind \in Mic!Kinds : Mic!FailureForgotten(kind))
            \/ Mic!GateChanges \/ Mic!RecorderFails \/ Mic!DeviceSwitched \/ Mic!Heal
            \/ Mic!OrphanDies
  BY <1>11 DEF Mic!Capture, Mic!Pump, Mic!BackoffElapses, Mic!FailureForgotten, Mic!GateChanges,
     Mic!RecorderFails, Mic!DeviceSwitched, Mic!Heal, Mic!OrphanDies
<1>12. CASE Mic!Respawned
  BY <1>12 DEF Mic!Respawned
<1>13. CASE Mic!Killed
  BY <1>13 DEF Mic!Killed, Mic!Dies
<1> QED
  BY <1>1, <1>2, <1>3, <1>4, <1>5, <1>6, <1>7, <1>8, <1>9, <1>10, <1>11, <1>12, <1>13
     DEF Mic!Next, Mic!Getting, Mic!Spawning, Mic!Having

\* What the reader thread moves, and what is dropped or taken, was in the queues before.
LEMMA FreshQueues ==
    ASSUME Mic!CaptureAssumption, Queues, Fresh(ring), Fresh(pipe),
           UNCHANGED <<pipe, ring>> \/ (pipe' = <<>> /\ ring' = <<>>) \/ Mic!ReadFrame \/ Mic!Pump
    PROVE  Fresh(ring)' /\ Fresh(pipe)'
<1> USE DEF Fresh
<1>1. CASE UNCHANGED <<pipe, ring>>
  BY <1>1
<1>2. CASE pipe' = <<>> /\ ring' = <<>>
  BY <1>2
<1>3. CASE Mic!ReadFrame
  <2>1. PICK k \in DOMAIN ring : ring' = SubSeq(ring, k + 1, Len(ring))
    BY <1>3 DEF Mic!ReadFrame
  <2>2. UNCHANGED pipe
    BY <1>3 DEF Mic!ReadFrame
  <2> QED
    BY <2>1, <2>2, SubSeqProperties DEF Queues
<1>4. CASE Mic!Pump
  <2>1. ASSUME NEW kept \in Seq(Mic!Frames), Fresh(kept), ring' = kept \o pipe
        PROVE  Fresh(ring)'
    BY <2>1, ConcatProperties DEF Queues
  <2>2. CASE Len(ring) >= RingCapacity
    <3>1. ring # <<>>
      BY <2>2 DEF Queues, Mic!CaptureAssumption
    <3>2. Tail(ring) \in Seq(Mic!Frames) /\ Fresh(Tail(ring))
      BY <3>1, HeadTailProperties DEF Queues
    <3>3. ring' = Tail(ring) \o pipe /\ pipe' = <<>>
      BY <1>4, <2>2 DEF Mic!Pump
    <3>4. Fresh(ring)'
      BY <2>1, <3>2, <3>3
    <3> QED
      BY <3>3, <3>4
  <2>3. CASE ~(Len(ring) >= RingCapacity)
    BY <1>4, <2>1, <2>3 DEF Mic!Pump, Queues
  <2> QED
    BY <2>2, <2>3
<1> QED
  BY <1>1, <1>2, <1>3, <1>4

LEMMA UndeafKeeps ==
    ASSUME Mic!CaptureAssumption, Queues, Flags, Places, Locked, Reads, Undeaf, Mic!Next
    PROVE  Undeaf'
<1> USE DEF Undeaf
<1>1. CASE UNCHANGED <<wasGated, goal>>
           /\ (UNCHANGED <<pipe, ring>> \/ (pipe' = <<>> /\ ring' = <<>>) \/ Mic!ReadFrame \/ Mic!Pump)
  BY <1>1, FreshQueues
<1>2. CASE pipe' = <<>> /\ ring' = <<>>
  BY <1>2 DEF Fresh
<1>3. CASE Mic!TopEnroll \/ Mic!TopGated \/ Mic!TopOpen
  BY <1>3 DEF Mic!TopEnroll, Mic!TopGated, Mic!TopOpen, Reads, Fresh, Mic!procVars
<1>4. CASE Mic!Drain
  <2>1. ring' = <<>> /\ pipe' = Mic!Drained(pipe)
    BY <1>4 DEF Mic!Drain
  <2>2. Fresh(ring)' /\ Fresh(pipe)'
    BY <2>1, DrainMarks DEF Queues, Fresh
  <2> QED
    BY <2>2
<1>5. CASE Mic!Probe
  BY <1>5 DEF Mic!Probe, Mic!procVars, Fresh
<1>6. CASE Mic!Capture
  <2>1. pipe' = <<Mic!Frame>> /\ UNCHANGED <<wasGated, goal, ring>>
    BY <1>6 DEF Mic!Capture, Mic!loopVars
  <2>2. ~wasGated => Mic!Frame.deaf = FALSE
    BY DEF Mic!Frame
  <2> QED
    BY <2>1, <2>2 DEF Fresh
<1>7. CASE Mic!SpawnFails
  BY <1>7 DEF Mic!SpawnFails, Mic!procVars, Locked, Fresh, Mic!None
<1>8. CASE Mic!ReadEnds \/ Mic!ReadStart
  BY <1>8 DEF Mic!ReadEnds, Mic!ReadStart, Mic!procVars, Reads, Fresh
<1>9. CASE Mic!SpawnReap \/ Mic!SpawnHelper \/ Mic!HelperFails \/ Mic!HelperStarts \/ Mic!SpawnRec
           \/ Mic!ReadFrame \/ Mic!ReadEof \/ Mic!Evict \/ Mic!ReadTimeout
  BY <1>1, <1>2, <1>9 DEF Mic!SpawnReap, Mic!SpawnHelper, Mic!HelperFails, Mic!HelperStarts,
     Mic!SpawnRec, Mic!Install, Mic!ReadFrame, Mic!ReadEof, Mic!Evict, Mic!ReadTimeout,
     Mic!TimeoutEvicts, Mic!Dropped, Mic!loopVars, Mic!procVars
<1>10. CASE Mic!Killed \/ Mic!GetReplace \/ Mic!SwitchStart \/ Mic!GetHealthy \/ Mic!Pump
  BY <1>1, <1>2, <1>10 DEF Mic!Killed, Mic!GetReplace, Mic!SwitchStart, Mic!GetHealthy, Mic!Pump,
     Mic!Dropped, Mic!loopVars, Mic!procVars
<1>11. CASE Mic!BackoffElapses \/ (\E kind \in Mic!Kinds : Mic!FailureForgotten(kind))
            \/ Mic!GateChanges \/ Mic!RecorderFails \/ Mic!DeviceSwitched \/ Mic!Heal
            \/ Mic!OrphanDies \/ Mic!Respawned
  BY <1>1, <1>11 DEF Mic!BackoffElapses, Mic!FailureForgotten, Mic!GateChanges,
     Mic!RecorderFails, Mic!DeviceSwitched, Mic!Heal, Mic!OrphanDies, Mic!Respawned,
     Mic!loopVars, Mic!procVars
<1> QED
  BY <1>3, <1>4, <1>5, <1>6, <1>7, <1>8, <1>9, <1>10, <1>11
     DEF Mic!Next, Mic!Top, Mic!Getting, Mic!Spawning, Mic!Having, Mic!Reading

LEMMA MicStep ==
    ASSUME Mic!CaptureAssumption, MicInv, [Mic!Next]_Mic!vars
    PROVE  MicInv'
<1>1. CASE Mic!Next
  BY <1>1, MicTypes, QueuesKeep, FlagsKeep, PlacesKeep, RecordersKeep, CountsKeep, LockedKeeps,
     ReadsKeep, UndeafKeeps, PTL DEF MicInv
<1>2. CASE UNCHANGED Mic!vars
  BY <1>2 DEF MicInv, Mic!TypeOK, Locked, Reads, Undeaf, Fresh, Mic!vars
<1> QED
  BY <1>1, <1>2

\* Every behaviour of the recorder keeps the inductive invariant.
LEMMA MicInvariance == ASSUME Mic!CaptureAssumption PROVE Mic!Spec => []MicInv
<1>1. Mic!Init => MicInv
  BY MicInit
<1>2. MicInv /\ [Mic!Next]_Mic!vars => MicInv'
  BY MicStep
<1> QED
  BY <1>1, <1>2, PTL DEF Mic!Spec

\* Types hold for every set of Macs, ring and patience of the supervisor: no queue
\* overflows, and the supervisor's count stays within its limit (audio.rs).
THEOREM MicTypeCorrect == ASSUME Mic!CaptureAssumption PROVE Mic!Spec => []Mic!TypeOK
<1>1. MicInv => Mic!TypeOK
  BY DEF MicInv
<1> QED
  BY <1>1, MicInvariance, PTL

\* Two recorders never hold the microphone at once (invariant I4 of audio.rs), however
\* the loop's spawns, a device switch, failing helpers and killed daemons interleave.
THEOREM OneRecorderEver == ASSUME Mic!CaptureAssumption PROVE Mic!Spec => []OneRecorder
<1>1. MicInv => OneRecorder
  BY MicTypes DEF MicInv, Locked, OneRecorder, Recorders, Counts, Mic!Kinds, None
<1> QED
  BY <1>1, MicInvariance, PTL

\* No utterance contains what was heard while the loop knew that a call or the user
\* gated capture (I6 of audio.rs), for any length of the ring.
THEOREM GatedIsUnheard == ASSUME Mic!CaptureAssumption PROVE Mic!Spec => DeafWhileGated
<1>1. ASSUME MicInv, [Mic!Next]_Mic!vars
      PROVE  [Hears /\ goal = "read" => \A k \in DOMAIN ring : Pops(k) => ~ring[k].deaf]_<<pc, goal, ring>>
  <2>1. ASSUME pc = "wait", goal = "read", NEW k \in DOMAIN ring, Pops(k)
        PROVE  ~ring[k].deaf
    BY <1>1, <2>1 DEF MicInv, Reads, Undeaf, Fresh, Pops
  <2> QED
    BY <2>1 DEF Hears
<1> QED
  BY <1>1, MicInvariance, PTL DEF Mic!Spec, DeafWhileGated

-----------------------------------------------------------------------------
(* Live typing: sequences.                                                    *)

\* A function on 1..n is a sequence.
LEMMA FunctionIsSeq ==
    ASSUME NEW S, NEW n \in Nat, NEW f \in [1..n -> S]
    PROVE  f \in Seq(S) /\ Len(f) = n
<1>1. f \in Seq(S)
  BY SeqDef
<1>2. DOMAIN f = 1..n /\ DOMAIN f = 1..Len(f) /\ Len(f) \in Nat
  BY <1>1, LenProperties
<1>. QED
  BY <1>1, <1>2

\* A bounded set of numbers has a greatest.
LEMMA Greatest ==
    ASSUME NEW T \in SUBSET Nat, NEW x \in T, NEW b \in Nat, \A n \in T : n <= b
    PROVE  \E m \in T : \A n \in T : n <= m
<1>. DEFINE D == {d \in Nat : b - d \in T}
            R == OpToRel(<, Nat)
<1>1. IsWellFoundedOn(R, Nat)
  BY NatLessThanWellFounded
<1>2. D \in SUBSET Nat /\ D # {}
  <2>1. b - x \in Nat /\ b - (b - x) = x
    OBVIOUS
  <2>. QED
    BY <2>1
<1>3. \A d, e \in Nat : d < e => <<d, e>> \in R
  BY DEF OpToRel
<1>. HIDE DEF D, R
<1>4. PICK d \in D : \A e \in D : ~(<<e, d>> \in R)
  BY <1>1, <1>2, WFMin
<1>5. b - d \in T /\ d \in Nat
  BY DEF D
<1>6. ASSUME NEW n \in T PROVE n <= b - d
  <2>1. b - n \in D /\ b - n \in Nat
    BY DEF D
  <2>2. ~(b - n < d)
    BY <1>3, <1>4, <1>5, <2>1
  <2>. QED
    BY <1>5, <2>1, <2>2
<1>. QED
  BY <1>5, <1>6

LEMMA PrefixIs ==
    ASSUME NEW W, NEW s \in Seq(W), NEW t \in Seq(W)
    PROVE  Live!IsPrefix(s, t) <=> Len(s) <= Len(t) /\ \A i \in 1..Len(s) : s[i] = t[i]
<1>. DEFINE n == Len(s)
            a == SubSeq(s, 1, n)
            b == SubSeq(t, 1, n)
<1>1. n \in Nat /\ Len(t) \in Nat
  BY LenProperties
<1>2. ASSUME n <= Len(t)
      PROVE  /\ a \in Seq(W) /\ Len(a) = n /\ \A i \in 1..n : a[i] = s[i]
             /\ b \in Seq(W) /\ Len(b) = n /\ \A i \in 1..n : b[i] = t[i]
  <2>1. (\A i \in 1..n : s[i] \in W) /\ \A i \in 1..n : t[i] \in W
    <3>1. \A i \in 1..n : i \in 1..Len(t)
      BY <1>1, <1>2
    <3>. QED
      BY <3>1, ElementOfSeq
  <2>2. /\ a \in Seq(W) /\ Len(a) = (IF 1 <= n THEN n - 1 + 1 ELSE 0)
        /\ \A i \in 1..(n - 1 + 1) : a[i] = s[1 + i - 1]
    BY <1>1, <2>1, SubSeqProperties
  <2>3. /\ b \in Seq(W) /\ Len(b) = (IF 1 <= n THEN n - 1 + 1 ELSE 0)
        /\ \A i \in 1..(n - 1 + 1) : b[i] = t[1 + i - 1]
    BY <1>1, <2>1, SubSeqProperties
  <2>. HIDE DEF a, b
  <2>4. n - 1 + 1 = n /\ \A i \in 1..n : 1 + i - 1 = i
    BY <1>1
  <2>. QED
    BY <1>1, <2>2, <2>3, <2>4
<1>3. Live!IsPrefix(s, t) <=> n <= Len(t) /\ a = b
  BY DEF Live!IsPrefix
<1>. HIDE DEF a, b
<1>4. ASSUME n <= Len(t), \A i \in 1..n : s[i] = t[i] PROVE a = b
  BY <1>2, <1>4, SeqEqual
<1>. QED
  BY <1>2, <1>3, <1>4

\* The longest common prefix of some texts is a prefix of each.
LEMMA LongestIs ==
    ASSUME NEW W, NEW S \in SUBSET Seq(W), NEW s \in S
    PROVE  LET c == Live!LongestCommonPrefix(S)
           IN  /\ c \in Seq(W)
               /\ \A t \in S : Len(c) <= Len(t) /\ \A i \in 1..Len(c) : c[i] = t[i]
<1>. DEFINE C == Live!CommonPrefixes(S)
            T == {Len(p) : p \in C}
            c == Live!LongestCommonPrefix(S)
<1>1. C \in SUBSET Seq(W) /\ \A p \in C : \A t \in S : Live!IsPrefix(p, t)
  <2>1. ASSUME NEW p \in C PROVE p \in Seq(W) /\ \A t \in S : Live!IsPrefix(p, t)
    <3>1. PICK q \in S : \E l \in 0..Len(q) : p = SubSeq(q, 1, l)
      BY DEF Live!CommonPrefixes, Live!Prefixes
    <3>2. PICK l \in 0..Len(q) : p = SubSeq(q, 1, l)
      BY <3>1
    <3>3. p \in Seq(W)
      <4>1. Len(q) \in Nat /\ \A i \in 1..l : q[i] \in W
        BY LenProperties, ElementOfSeq
      <4>. QED
        BY <3>2, <4>1, SubSeqProperties
    <3>. QED
      BY <3>3 DEF Live!CommonPrefixes
  <2>. QED
    BY <2>1
<1>2. <<>> \in C
  <2>1. Len(s) \in Nat /\ 0 \in 0..Len(s) /\ <<>> \in Seq(W) /\ Len(<<>>) = 0
    BY LenProperties, EmptySeq
  <2>2. <<>> = SubSeq(s, 1, 0)
    <3>1. SubSeq(s, 1, 0) \in Seq(W) /\ Len(SubSeq(s, 1, 0)) = 0
      BY SubSeqProperties
    <3>. QED
      BY <3>1, EmptySeq
  <2>3. ASSUME NEW t \in S PROVE Live!IsPrefix(<<>>, t)
    <3>1. t \in Seq(W) /\ Len(t) \in Nat
      BY LenProperties
    <3>2. SubSeq(t, 1, 0) \in Seq(W) /\ Len(SubSeq(t, 1, 0)) = 0
      BY <3>1, SubSeqProperties
    <3>3. SubSeq(<<>>, 1, 0) \in Seq(W) /\ Len(SubSeq(<<>>, 1, 0)) = 0
      BY <2>1, SubSeqProperties
    <3>4. SubSeq(t, 1, 0) = <<>> /\ SubSeq(<<>>, 1, 0) = <<>>
      BY <3>2, <3>3, EmptySeq
    <3>. QED
      BY <2>1, <3>1, <3>4 DEF Live!IsPrefix
  <2>4. <<>> \in Live!Prefixes(s)
    BY <2>1, <2>2 DEF Live!Prefixes
  <2>. QED
    BY <2>3, <2>4 DEF Live!CommonPrefixes
<1>. HIDE DEF C
<1>3. \A p \in C : Len(p) \in Nat /\ Len(p) <= Len(s)
  BY <1>1, PrefixIs, LenProperties
<1>4. \E p \in C : \A o \in C : Len(o) <= Len(p)
  <2>1. T \in SUBSET Nat /\ Len(<<>>) \in T /\ Len(s) \in Nat /\ \A n \in T : n <= Len(s)
    BY <1>2, <1>3, LenProperties
  <2>2. PICK m \in T : \A n \in T : n <= m
    BY <2>1, Greatest
  <2>. QED
    BY <2>2
<1>5. c \in C
  BY <1>4, Zenon DEF Live!LongestCommonPrefix, C
<1>. HIDE DEF c
<1>6. c \in Seq(W) /\ \A t \in S : Len(c) <= Len(t) /\ \A i \in 1..Len(c) : c[i] = t[i]
  BY <1>1, <1>5, PrefixIs
<1>. QED
  BY <1>6 DEF c

-----------------------------------------------------------------------------
(* Texts.                                                                     *)

Pieces == Nat \X DOMAIN Bare
\* Is a word of the text from utterance v?
Speaks(words, v) == \E n \in 1..Len(words) : words[n][1] = v

LEMMA OfIs ==
    ASSUME NEW v \in Nat, NEW payload \in Seq(DOMAIN Bare)
    PROVE  /\ Live!Of(v, payload) \in Seq(Pieces) /\ Len(Live!Of(v, payload)) = Len(payload)
           /\ \A n \in 1..Len(payload) : Live!Of(v, payload)[n] = <<v, payload[n]>>
<1>. DEFINE t == [n \in 1..Len(payload) |-> <<v, payload[n]>>]
<1>1. Len(payload) \in Nat /\ DOMAIN payload = 1..Len(payload)
      /\ \A n \in 1..Len(payload) : payload[n] \in DOMAIN Bare
  BY LenProperties, ElementOfSeq
<1>2. Live!Of(v, payload) = t
  BY <1>1 DEF Live!Of
<1>3. t \in [1..Len(payload) -> Pieces]
  BY <1>1 DEF Pieces
<1>4. t \in Seq(Pieces) /\ Len(t) = Len(payload)
  <2>. HIDE DEF t
  <2>. QED
    BY <1>1, <1>3, FunctionIsSeq
<1>. QED
  BY <1>2, <1>4

\* What follows a prefix.
LEMMA RestOf ==
    ASSUME NEW W, NEW t \in Seq(W), NEW n \in 0..Len(t)
    PROVE  /\ SubSeq(t, n + 1, Len(t)) \in Seq(W) /\ Len(SubSeq(t, n + 1, Len(t))) = Len(t) - n
           /\ \A i \in 1..(Len(t) - n) : SubSeq(t, n + 1, Len(t))[i] = t[n + i]
<1>. DEFINE q == SubSeq(t, n + 1, Len(t))
<1>1. Len(t) \in Nat /\ n \in Nat /\ \A i \in (n + 1)..Len(t) : t[i] \in W
  <2>1. Len(t) \in Nat /\ n \in Nat /\ \A i \in 1..Len(t) : t[i] \in W
    BY LenProperties, ElementOfSeq
  <2>. QED
    BY <2>1
<1>2. /\ q \in Seq(W) /\ Len(q) = (IF n + 1 <= Len(t) THEN Len(t) - (n + 1) + 1 ELSE 0)
      /\ \A i \in 1..(Len(t) - (n + 1) + 1) : q[i] = t[n + 1 + i - 1]
  BY <1>1, SubSeqProperties
<1>. HIDE DEF q
<1>3. \A i \in 1..(Len(t) - n) : i \in 1..(Len(t) - (n + 1) + 1) /\ n + 1 + i - 1 = n + i
  BY <1>1
<1>4. Len(t) - n = (IF n + 1 <= Len(t) THEN Len(t) - (n + 1) + 1 ELSE 0)
  BY <1>1
<1>. QED
  BY <1>2, <1>3, <1>4 DEF q

LEMMA StartOf ==
    ASSUME NEW W, NEW t \in Seq(W), NEW n \in 0..Len(t)
    PROVE  /\ SubSeq(t, 1, n) \in Seq(W) /\ Len(SubSeq(t, 1, n)) = n
           /\ \A i \in 1..n : SubSeq(t, 1, n)[i] = t[i]
<1>. DEFINE q == SubSeq(t, 1, n)
<1>1. Len(t) \in Nat /\ n \in Nat /\ \A i \in 1..n : t[i] \in W
  <2>1. Len(t) \in Nat /\ n \in Nat /\ \A i \in 1..Len(t) : t[i] \in W
    BY LenProperties, ElementOfSeq
  <2>. QED
    BY <2>1
<1>2. /\ q \in Seq(W) /\ Len(q) = (IF 1 <= n THEN n - 1 + 1 ELSE 0)
      /\ \A i \in 1..(n - 1 + 1) : q[i] = t[1 + i - 1]
  BY <1>1, SubSeqProperties
<1>. HIDE DEF q
<1>3. \A i \in 1..n : i \in 1..(n - 1 + 1) /\ 1 + i - 1 = i
  BY <1>1
<1>4. n = (IF 1 <= n THEN n - 1 + 1 ELSE 0)
  BY <1>1
<1>. QED
  BY <1>2, <1>3, <1>4 DEF q

LEMMA JoinIs ==
    ASSUME NEW W, NEW s \in Seq(W), NEW t \in Seq(W)
    PROVE  /\ s \o t \in Seq(W) /\ Len(s \o t) = Len(s) + Len(t)
           /\ Len(s) \in Nat /\ Len(t) \in Nat
           /\ \A i \in 1..Len(s) : (s \o t)[i] = s[i]
           /\ \A i \in 1..Len(t) : (s \o t)[Len(s) + i] = t[i]
<1>1. Len(s) \in Nat /\ Len(t) \in Nat
  BY LenProperties
<1>2. /\ s \o t \in Seq(W) /\ Len(s \o t) = Len(s) + Len(t)
      /\ \A i \in 1..(Len(s) + Len(t)) :
            (s \o t)[i] = IF i <= Len(s) THEN s[i] ELSE t[i - Len(s)]
  BY ConcatProperties
<1>3. \A i \in 1..Len(s) : i \in 1..(Len(s) + Len(t)) /\ i <= Len(s)
  BY <1>1
<1>4. \A i \in 1..Len(t) : /\ Len(s) + i \in 1..(Len(s) + Len(t))
                           /\ ~(Len(s) + i <= Len(s)) /\ Len(s) + i - Len(s) = i
  BY <1>1
<1>. QED
  BY <1>1, <1>2, <1>3, <1>4

\* Backspaces over what differs and the rest of the target turn what is typed, at the
\* end of a field, into the target.
LEMMA EditIs ==
    ASSUME NEW before \in Seq(Pieces), NEW typed \in Seq(Pieces), NEW target \in Seq(Pieces)
    PROVE  Live!Edit(before \o typed, Live!Backspaces(typed, target), Live!Rest(typed, target))
              = before \o target
<1>. DEFINE c == Live!Common(typed, target)
            n == Len(before)
            words == before \o typed
            start == SubSeq(words, 1, n + Len(c))
            rest == Live!Rest(typed, target)
<1>1. /\ Len(c) \in 0..Len(typed) /\ Len(c) \in 0..Len(target)
      /\ \A i \in 1..Len(c) : typed[i] = target[i]
  <2>. DEFINE S == {typed, target}
  <2>1. /\ c \in Seq(Pieces)
        /\ \A t \in S : Len(c) <= Len(t) /\ \A i \in 1..Len(c) : c[i] = t[i]
    <3>1. S \in SUBSET Seq(Pieces) /\ typed \in S
      OBVIOUS
    <3>2. c = Live!LongestCommonPrefix(S)
      BY DEF Live!Common
    <3>. HIDE DEF S
    <3>. QED
      BY <3>1, <3>2, LongestIs
  <2>2. Len(c) \in Nat /\ Len(typed) \in Nat /\ Len(target) \in Nat
    BY <2>1, LenProperties
  <2>. HIDE DEF c
  <2>3. /\ Len(c) <= Len(typed) /\ Len(c) <= Len(target)
        /\ \A i \in 1..Len(c) : c[i] = typed[i] /\ c[i] = target[i]
    BY <2>1
  <2>. QED
    BY <2>2, <2>3
<1>2. /\ words \in Seq(Pieces) /\ Len(words) = n + Len(typed) /\ n \in Nat /\ Len(typed) \in Nat
      /\ (\A i \in 1..n : words[i] = before[i])
      /\ \A i \in 1..Len(typed) : words[n + i] = typed[i]
  BY JoinIs
<1>3. Live!Backspaces(typed, target) = Len(typed) - Len(c)
  BY DEF Live!Backspaces
<1>4. rest = SubSeq(target, Len(c) + 1, Len(target))
  BY DEF Live!Rest
<1>. HIDE DEF c, words, rest, n
<1>5. /\ rest \in Seq(Pieces) /\ Len(rest) = Len(target) - Len(c)
      /\ \A i \in 1..(Len(target) - Len(c)) : rest[i] = target[Len(c) + i]
  BY <1>1, <1>4, RestOf
<1>6. /\ start \in Seq(Pieces) /\ Len(start) = n + Len(c)
      /\ \A i \in 1..(n + Len(c)) : start[i] = words[i]
  <2>1. n + Len(c) \in 0..Len(words)
    BY <1>1, <1>2
  <2>. QED
    BY <1>2, <2>1, StartOf
<1>7. Live!Edit(words, Len(typed) - Len(c), rest) = start \o rest
  <2>1. Len(words) - (Len(typed) - Len(c)) = n + Len(c)
    BY <1>1, <1>2
  <2>. QED
    BY <2>1 DEF Live!Edit
<1>. HIDE DEF start
<1>8. /\ start \o rest \in Seq(Pieces) /\ Len(start \o rest) = Len(start) + Len(rest)
      /\ (\A i \in 1..Len(start) : (start \o rest)[i] = start[i])
      /\ \A i \in 1..Len(rest) : (start \o rest)[Len(start) + i] = rest[i]
  <2>1. start \in Seq(Pieces) /\ rest \in Seq(Pieces)
    BY <1>5, <1>6
  <2>. QED
    BY <2>1, JoinIs
<1>. DEFINE l == start \o rest
            r == before \o target
<1>9. /\ r \in Seq(Pieces) /\ Len(r) = n + Len(target) /\ Len(target) \in Nat
      /\ (\A i \in 1..n : r[i] = before[i])
      /\ \A i \in 1..Len(target) : r[n + i] = target[i]
  BY JoinIs DEF n
<1>. HIDE DEF l, r
<1>10. Len(l) = Len(r)
  BY <1>1, <1>2, <1>5, <1>6, <1>8, <1>9 DEF l
<1>11. ASSUME NEW i \in 1..Len(r) PROVE l[i] = r[i]
  <2>1. CASE i \in 1..n
    <3>1. i \in 1..Len(start) /\ i \in 1..(n + Len(c))
      BY <1>1, <1>2, <1>6, <2>1
    <3>. QED
      BY <1>2, <1>6, <1>8, <1>9, <2>1, <3>1 DEF l
  <2>2. CASE i \notin 1..n
    <3>. DEFINE j == i - n
    <3>1. j \in 1..Len(target) /\ i = n + j
      BY <1>2, <1>9, <2>2
    <3>2. r[i] = target[j]
      BY <1>9, <3>1
    <3>. HIDE DEF j
    <3>3. CASE j \in 1..Len(c)
      <4>1. i \in 1..Len(start) /\ i \in 1..(n + Len(c)) /\ j \in 1..Len(typed)
        BY <1>1, <1>2, <1>6, <3>1, <3>3
      <4>2. l[i] = words[n + j]
        BY <1>6, <1>8, <3>1, <4>1 DEF l
      <4>. QED
        BY <1>1, <1>2, <3>2, <3>3, <4>1, <4>2
    <3>4. CASE j \notin 1..Len(c)
      <4>. DEFINE k == j - Len(c)
      <4>1. k \in 1..Len(rest) /\ k \in 1..(Len(target) - Len(c)) /\ i = Len(start) + k
            /\ Len(c) + k = j
        BY <1>1, <1>2, <1>5, <1>6, <3>1, <3>4
      <4>. HIDE DEF k
      <4>2. l[i] = rest[k] /\ rest[k] = target[j]
        BY <1>5, <1>8, <4>1 DEF l
      <4>. QED
        BY <3>2, <4>2
    <3>. QED
      BY <3>3, <3>4
  <2>. QED
    BY <2>1, <2>2
<1>12. l = r
  BY <1>8, <1>9, <1>10, <1>11, SeqEqual DEF l
<1>. QED
  BY <1>3, <1>7, <1>12 DEF l, r, words, rest

\* Keeping the typed formatting changes no word but in case and punctuation.
LEMMA KeepIs ==
    ASSUME NEW typed \in Seq(Pieces), NEW target \in Seq(Pieces), NEW V
    PROVE  LET kept == Live!KeepFormatting(typed, target)
           IN  /\ kept \in Seq(Pieces) /\ Len(kept) = Len(target)
               /\ \A n \in 1..Len(target) : Bare[kept[n][2]] = Bare[target[n][2]]
               /\ (\A n \in 1..Len(typed) : typed[n][1] \in V)
                     /\ (\A n \in 1..Len(target) : target[n][1] \in V)
                  => \A n \in 1..Len(target) : kept[n][1] \in V
<1>. DEFINE kept == Live!KeepFormatting(typed, target)
            rest == SubSeq(target, Len(typed) + 1, Len(target))
<1>1. /\ Len(typed) \in Nat /\ Len(target) \in Nat /\ DOMAIN typed = 1..Len(typed)
  BY LenProperties
<1>2. CASE /\ typed # <<>> /\ Len(typed) <= Len(target)
           /\ \A n \in 1..Len(typed) : Bare[typed[n][2]] = Bare[target[n][2]]
  <2>1. kept = typed \o rest
    BY <1>1, <1>2 DEF Live!KeepFormatting
  <2>2. /\ rest \in Seq(Pieces) /\ Len(rest) = Len(target) - Len(typed)
        /\ \A i \in 1..(Len(target) - Len(typed)) : rest[i] = target[Len(typed) + i]
    BY <1>1, <1>2, RestOf
  <2>. HIDE DEF kept, rest
  <2>3. /\ kept \in Seq(Pieces) /\ Len(kept) = Len(typed) + Len(rest)
        /\ (\A i \in 1..Len(typed) : kept[i] = typed[i])
        /\ \A i \in 1..Len(rest) : kept[Len(typed) + i] = rest[i]
    BY <2>1, <2>2, JoinIs
  <2>4. ASSUME NEW n \in 1..Len(target)
        PROVE  \/ n \in 1..Len(typed) /\ kept[n] = typed[n]
               \/ kept[n] = target[n]
    <3>1. CASE n \in 1..Len(typed)
      BY <2>3, <3>1
    <3>2. CASE n \notin 1..Len(typed)
      <4>. DEFINE i == n - Len(typed)
      <4>1. i \in 1..Len(rest) /\ i \in 1..(Len(target) - Len(typed)) /\ n = Len(typed) + i
        BY <1>1, <2>2, <3>2
      <4>. HIDE DEF i
      <4>. QED
        BY <2>2, <2>3, <4>1
    <3>. QED
      BY <3>1, <3>2
  <2>5. Len(kept) = Len(target)
    BY <1>1, <2>2, <2>3
  <2>. QED
    BY <1>2, <2>3, <2>4, <2>5 DEF kept
<1>3. CASE ~(/\ typed # <<>> /\ Len(typed) <= Len(target)
             /\ \A n \in 1..Len(typed) : Bare[typed[n][2]] = Bare[target[n][2]])
  <2>1. kept = target
    BY <1>1, <1>3 DEF Live!KeepFormatting
  <2>. QED
    BY <2>1
<1>. QED
  BY <1>2, <1>3

\* An open session: its utterance, what was typed and where, and the previews kept.
Sessions ==
    [utterance : Nat, typed : Seq(Pieces), window : Windows \cup {"unset"},
     recent : Seq(Open), aged : Nat, stopped : BOOLEAN]

LEMMA KeptIs ==
    ASSUME NEW s \in Sessions, s.aged <= Len(s.recent)
    PROVE  Live!Kept(s) \in Seq(Open)
<1>. DEFINE m == IF s.aged > 1 THEN s.aged ELSE 1
<1>1. s.recent \in Seq(Open) /\ s.aged \in Nat
  BY DEF Sessions
<1>2. Len(s.recent) \in Nat /\ \A i \in 1..Len(s.recent) : s.recent[i] \in Open
  BY <1>1, LenProperties, ElementOfSeq
<1>3. m \in Int /\ \A i \in m..Len(s.recent) : s.recent[i] \in Open
  BY <1>1, <1>2
<1>4. SubSeq(s.recent, m, Len(s.recent)) \in Seq(Open)
  <2>. HIDE DEF m
  <2>. QED
    BY <1>2, <1>3, SubSeqProperties
<1>. QED
  BY <1>4 DEF Live!Kept

\* What the kept previews agree on is a text.
LEMMA StableIs ==
    ASSUME NEW s \in Sessions, s.aged <= Len(s.recent), NEW open \in Open
    PROVE  Live!StablePrefix(s, open) \in Seq(DOMAIN Bare)
<1>. DEFINE S == Live!ToSet(Live!Kept(s)) \cup {open}
            c == Live!LongestCommonPrefix(S)
<1>1. open \in Seq(DOMAIN Bare) /\ Open \subseteq Seq(DOMAIN Bare)
  BY TypingAssumption
<1>2. Live!ToSet(Live!Kept(s)) \subseteq Open
  <2>. DEFINE k == Live!Kept(s)
  <2>1. k \in Seq(Open)
    BY KeptIs
  <2>. HIDE DEF k
  <2>2. DOMAIN k = 1..Len(k) /\ \A i \in 1..Len(k) : k[i] \in Open
    BY <2>1, LenProperties, ElementOfSeq
  <2>3. Live!ToSet(k) = {k[i] : i \in DOMAIN k}
    BY DEF Live!ToSet
  <2>. QED
    BY <2>2, <2>3 DEF k
<1>3. S \in SUBSET Seq(DOMAIN Bare) /\ open \in S
  BY <1>1, <1>2
<1>. HIDE DEF S
<1>4. c \in Seq(DOMAIN Bare)
  BY <1>3, LongestIs
<1>. HIDE DEF c
<1>5. Live!Front(open) \in Seq(DOMAIN Bare)
  <2>1. Len(open) \in Nat /\ \A i \in 1..Len(open) : open[i] \in DOMAIN Bare
    BY <1>1, LenProperties, ElementOfSeq
  <2>2. Len(open) - 1 \in Int /\ \A i \in 1..(Len(open) - 1) : open[i] \in DOMAIN Bare
    BY <2>1
  <2>3. SubSeq(open, 1, Len(open) - 1) \in Seq(DOMAIN Bare)
    BY <2>2, SubSeqProperties
  <2>. QED
    BY <2>3 DEF Live!Front
<1>6. <<>> \in Seq(DOMAIN Bare)
  BY EmptySeq
<1>7. Live!StablePrefix(s, open) \in {<<>>, c, Live!Front(open)}
  BY DEF Live!StablePrefix, c, S
<1>. QED
  BY <1>4, <1>5, <1>6, <1>7

\* What a preview would have typed belongs to the utterance that is being spoken.
LEMMA TargetIs ==
    ASSUME session \in Sessions, NEW u \in Utterances, NEW aged \in Nat,
           session.aged <= Len(session.recent), aged <= Len(session.recent),
           thread[u].settled \in Settled, thread[u].open \in Open,
           \A n \in 1..Len(session.typed) : session.typed[n][1] = u
    PROVE  LET target == Live!Target(u, aged)
           IN  target \in Seq(Pieces) /\ \A n \in 1..Len(target) : target[n][1] = u
<1>. DEFINE s == [session EXCEPT !.aged = aged]
            open == thread[u].open
            words == thread[u].settled \o Live!StablePrefix(s, open)
            of == Live!Of(u, words)
<1>1. s \in Sessions /\ s.aged <= Len(s.recent)
  BY DEF Sessions
<1>2. u \in Nat /\ thread[u].settled \in Seq(DOMAIN Bare)
  BY TypingAssumption DEF Utterances
<1>3. Live!StablePrefix(s, open) \in Seq(DOMAIN Bare)
  <2>. HIDE DEF s
  <2>. QED
    BY <1>1, StableIs
<1>4. words \in Seq(DOMAIN Bare)
  <2>. HIDE DEF s
  <2>. QED
    BY <1>2, <1>3, ConcatProperties
<1>5. Live!Target(u, aged) = Live!KeepFormatting(session.typed, of)
  BY DEF Live!Target
<1>. HIDE DEF words, s
<1>6. /\ of \in Seq(Pieces) /\ Len(of) = Len(words)
      /\ \A n \in 1..Len(words) : of[n] = <<u, words[n]>>
  BY <1>2, <1>4, OfIs
<1>. DEFINE V == {u}
<1>7. /\ \A n \in 1..Len(of) : of[n][1] \in V
      /\ \A n \in 1..Len(session.typed) : session.typed[n][1] \in V
  BY <1>6
<1>8. session.typed \in Seq(Pieces)
  BY DEF Sessions
<1>. HIDE DEF of
<1>. DEFINE kept == Live!KeepFormatting(session.typed, of)
<1>9. /\ kept \in Seq(Pieces) /\ Len(kept) = Len(of) /\ \A n \in 1..Len(of) : kept[n][1] \in V
  <2>. HIDE DEF V
  <2>. QED
    BY <1>6, <1>7, <1>8, KeepIs
<1>. QED
  BY <1>5, <1>9

-----------------------------------------------------------------------------
(* What holds of the screen.                                                  *)

Calls ==
    {Live!NoCall, [at |-> "asked"]}
      \cup [at : {"answered"}, settled : Settled, open : Open, paused : BOOLEAN]

\* What a batch that failed half-way leaves in a field is of no account.
ScreenOK ==
    /\ session \in {NoSession} \cup Sessions /\ uttered \in Nat
    /\ thread \in [Utterances -> Calls] /\ paused \in BOOLEAN /\ focus \in Windows
    /\ DOMAIN field = Windows /\ wanted \in [Windows -> Seq(Pieces)] /\ after \in 0..1

\* The open session is the last utterance's, which has not been settled.
Opened ==
    session # NoSession =>
        /\ session.utterance = uttered /\ uttered \in Utterances
        /\ \A n \in 1..Len(session.typed) : session.typed[n][1] = uttered
        /\ session.typed # <<>> => session.window \in Windows
        /\ fate[uttered] \in {"open", "held"} /\ session.aged <= Len(session.recent)

Begun ==
    /\ talk = "speaking" => uttered \in Utterances /\ fate[uttered] \in {"open", "robbed"}
    /\ \A v \in Utterances : v > uttered => fate[v] = "open" /\ thread[v] = Live!NoCall

\* No word of an utterance is on screen for good before its outcome.
Ongoing(v) ==
    \/ v > uttered
    \/ v = uttered /\ session # NoSession
    \/ v = uttered /\ talk = "speaking" /\ fate[v] # "robbed"
Unsaid == \A v \in Utterances : Ongoing(v) => \A w \in Windows : ~Speaks(wanted[w], v)

\* What SaidOnce says, of the words that are on screen for good.
Stands(u, w, k, payload) ==
    /\ \A v \in Windows : \A n \in 1..Len(wanted[v]) :
          wanted[v][n][1] = u <=> v = w /\ n \in (k + 1)..(k + Len(payload))
    /\ \A n \in 1..Len(payload) :
          k + n \in 1..Len(wanted[w]) /\ Bare[wanted[w][k + n][2]] = Bare[payload[n]]
StandsOnce(u) ==
    \E w \in Windows, payload \in Finals : \E k \in 0..Len(wanted[w]) : Stands(u, w, k, payload)
Settles ==
    \A u \in Utterances :
        /\ fate[u] = "shown" => StandsOnce(u)
        /\ fate[u] = "gone" => \A w \in Windows : ~Speaks(wanted[w], u)

\* Once a batch has been typed in a pause, the answers still to come have read the flags.
Heeds ==
    /\ ~paused => after = 0
    /\ paused /\ after # 0 =>
          \A v \in Utterances :
              v = session.utterance /\ thread[v].at = "answered" => thread[v].paused

TypingInv ==
    ScreenOK /\ Opened /\ Begun /\ Unsaid /\ Settles /\ Heeds /\ FieldsReadRight

\* The invariant says what the runs check.
LEMMA TypingInvSays == TypingInv => ScreenIsRight /\ PauseStopsTyping
<1>. SUFFICES ASSUME TypingInv PROVE SaidOnce /\ after <= 1
  BY DEF ScreenIsRight, PauseStopsTyping, TypingInv
<1>1. after <= 1
  BY DEF TypingInv, ScreenOK
<1>2. ASSUME ~broken, NEW v \in Windows
      PROVE  /\ Len(wanted[v]) \in Nat /\ Len(OpenWords(v)) \in Nat
             /\ DOMAIN field[v] = 1..(Len(wanted[v]) + Len(OpenWords(v)))
             /\ \A n \in 1..Len(wanted[v]) : field[v][n] = wanted[v][n]
             /\ \A n \in (Len(wanted[v]) + 1)..(Len(wanted[v]) + Len(OpenWords(v))) :
                   field[v][n][1] = uttered /\ session # NoSession
  <2>1. wanted[v] \in Seq(Pieces)
    BY DEF TypingInv, ScreenOK
  <2>2. OpenWords(v) \in Seq(Pieces)
    BY EmptySeq DEF TypingInv, ScreenOK, OpenWords, Typed, Sessions
  <2>3. \A n \in 1..Len(OpenWords(v)) : OpenWords(v)[n][1] = uttered /\ session # NoSession
    <3>1. CASE Typed /\ session.window = v
      BY <3>1 DEF TypingInv, Opened, OpenWords, Typed
    <3>2. CASE ~(Typed /\ session.window = v)
      BY <3>2, EmptySeq DEF OpenWords
    <3>. QED
      BY <3>1, <3>2
  <2>4. field[v] = wanted[v] \o OpenWords(v)
    BY <1>2 DEF TypingInv, FieldsReadRight
  <2>. DEFINE s == wanted[v]
              t == OpenWords(v)
  <2>5. /\ s \o t \in Seq(Pieces) /\ Len(s \o t) = Len(s) + Len(t)
        /\ Len(s) \in Nat /\ Len(t) \in Nat
        /\ \A i \in 1..Len(s) : (s \o t)[i] = s[i]
        /\ \A i \in 1..Len(t) : (s \o t)[Len(s) + i] = t[i]
    <3>1. s \in Seq(Pieces) /\ t \in Seq(Pieces)
      BY <2>1, <2>2
    <3>. HIDE DEF s, t
    <3>. QED
      BY <3>1, JoinIs
  <2>6. DOMAIN (s \o t) = 1..(Len(s) + Len(t))
    BY <2>5, LenProperties
  <2>7. ASSUME NEW n \in (Len(s) + 1)..(Len(s) + Len(t))
        PROVE  field[v][n][1] = uttered /\ session # NoSession
    <3>. DEFINE i == n - Len(s)
    <3>1. i \in 1..Len(t) /\ n = Len(s) + i
      BY <2>5
    <3>. HIDE DEF i
    <3>2. (s \o t)[n] = t[i]
      BY <2>5, <3>1
    <3>. QED
      BY <2>3, <2>4, <3>1, <3>2
  <2>. QED
    BY <2>4, <2>5, <2>6, <2>7
<1>3. ASSUME ~broken, NEW u \in Utterances, fate[u] \in {"shown", "gone"},
             NEW v \in Windows, NEW n \in DOMAIN field[v], n \notin 1..Len(wanted[v])
      PROVE  field[v][n][1] # u
  <2>1. field[v][n][1] = uttered /\ session # NoSession
    BY <1>2, <1>3
  <2>. QED
    BY <1>3, <2>1 DEF TypingInv, Opened
<1>4. ASSUME ~broken, NEW u \in Utterances, fate[u] = "shown"
      PROVE  \E w \in Windows, payload \in Finals : \E k \in 0..Len(field[w]) :
                Says(u, w, k, payload)
  <2>1. StandsOnce(u)
    BY <1>4 DEF TypingInv, Settles
  <2>2. PICK w \in Windows, payload \in Finals :
            \E k \in 0..Len(wanted[w]) : Stands(u, w, k, payload)
    BY <2>1 DEF StandsOnce
  <2>3. PICK k \in 0..Len(wanted[w]) : Stands(u, w, k, payload)
    BY <2>2
  <2>4. /\ payload \in Seq(DOMAIN Bare) /\ Len(payload) \in Nat
        /\ DOMAIN payload = 1..Len(payload) /\ k \in Nat /\ Len(wanted[w]) \in Nat
    BY <1>2, <1>4, TypingAssumption, LenProperties
  <2>5. k \in 0..Len(field[w])
    <3>1. field[w] \in Seq(Pieces)
      <4>1. /\ wanted[w] \in Seq(Pieces) /\ OpenWords(w) \in Seq(Pieces)
            /\ field[w] = wanted[w] \o OpenWords(w)
        BY <1>4, EmptySeq DEF TypingInv, ScreenOK, FieldsReadRight, OpenWords, Typed, Sessions
      <4>. QED
        BY <4>1, ConcatProperties
    <3>2. Len(field[w]) \in Nat /\ DOMAIN field[w] = 1..Len(field[w])
      BY <3>1, LenProperties
    <3>3. k = 0 \/ k \in DOMAIN field[w]
      BY <1>2, <1>4, <2>4
    <3>. QED
      BY <2>4, <3>2, <3>3
  <2>6. ASSUME NEW v \in Windows, NEW n \in DOMAIN field[v]
        PROVE  field[v][n][1] = u <=> v = w /\ n \in (k + 1)..(k + Len(payload))
    <3>1. CASE n \in 1..Len(wanted[v])
      <4>1. field[v][n] = wanted[v][n]
        BY <1>2, <1>4, <3>1
      <4>2. wanted[v][n][1] = u <=> v = w /\ n \in (k + 1)..(k + Len(payload))
        BY <2>3, <3>1 DEF Stands
      <4>. QED
        BY <4>1, <4>2
    <3>2. CASE n \notin 1..Len(wanted[v])
      <4>1. field[v][n][1] # u
        BY <1>3, <1>4, <3>2
      <4>2. v = w => n \notin (k + 1)..(k + Len(payload))
        <5>. SUFFICES ASSUME v = w, n \in (k + 1)..(k + Len(payload)) PROVE FALSE
          OBVIOUS
        <5>1. n - k \in 1..Len(payload) /\ k + (n - k) = n
          BY <2>4
        <5>2. n \in 1..Len(wanted[w])
          BY <2>3, <5>1 DEF Stands
        <5>. QED
          BY <3>2, <5>2
      <4>. QED
        BY <4>1, <4>2
    <3>. QED
      BY <3>1, <3>2
  <2>7. ASSUME NEW n \in DOMAIN payload
        PROVE  k + n \in DOMAIN field[w] /\ Bare[field[w][k + n][2]] = Bare[payload[n]]
    <3>1. k + n \in 1..Len(wanted[w]) /\ Bare[wanted[w][k + n][2]] = Bare[payload[n]]
      BY <2>3, <2>4 DEF Stands
    <3>2. field[w][k + n] = wanted[w][k + n] /\ k + n \in DOMAIN field[w]
      BY <1>2, <1>4, <3>1
    <3>. QED
      BY <3>1, <3>2
  <2>8. Says(u, w, k, payload)
    BY <2>6, <2>7 DEF Says
  <2>. QED
    BY <2>5, <2>8
<1>5. ASSUME ~broken, NEW u \in Utterances, fate[u] = "gone",
             NEW w \in Windows, NEW n \in DOMAIN field[w]
      PROVE  field[w][n][1] # u
  <2>1. CASE n \in 1..Len(wanted[w])
    BY <1>2, <1>5, <2>1 DEF TypingInv, Settles, Speaks
  <2>2. CASE n \notin 1..Len(wanted[w])
    BY <1>3, <1>5, <2>2
  <2>. QED
    BY <2>1, <2>2
<1>. QED
  BY <1>1, <1>4, <1>5 DEF SaidOnce

\* What the component calls by the names of its promise.
LEMMA SameNames ==
    /\ Live!NoSession = NoSession /\ Live!Utterances = Utterances /\ (Live!Typed <=> Typed)
BY DEF Live!NoSession, NoSession, Live!Utterances, Utterances, Live!Typed, Typed

LEMMA TypingStarts == Live!Init => TypingInv
<1>. SUFFICES ASSUME Live!Init PROVE TypingInv
  OBVIOUS
<1>. USE SameNames DEF Live!Init
<1>1. <<>> \in Seq(Pieces) /\ Len(<<>>) = 0
  BY EmptySeq
<1>2. ScreenOK
  <2>1. Live!NoCall \in Calls
    BY DEF Calls
  <2>2. thread \in [Utterances -> Calls]
    BY <2>1
  <2>3. wanted \in [Windows -> Seq(Pieces)] /\ DOMAIN field = Windows
    BY <1>1
  <2>4. session \in {NoSession} \cup Sessions /\ uttered \in Nat /\ after \in 0..1
    OBVIOUS
  <2>5. paused \in BOOLEAN /\ focus \in Windows
    OBVIOUS
  <2>. QED
    BY <2>2, <2>3, <2>4, <2>5, Zenon DEF ScreenOK
<1>3. \A w \in Windows : wanted[w] = <<>> /\ \A v \in Utterances : ~Speaks(wanted[w], v)
  <2>1. \A w \in Windows : wanted[w] = <<>>
    OBVIOUS
  <2>2. \A v \in Utterances : ~Speaks(<<>>, v)
    BY <1>1 DEF Speaks
  <2>. QED
    BY <2>1, <2>2
<1>4. \A w \in Windows : field[w] = wanted[w] \o <<>>
  BY <1>1, <1>3, ConcatEmptySeq
<1>5. FieldsReadRight
  BY <1>4 DEF FieldsReadRight, OpenWords, Typed
<1>6. Opened /\ Heeds
  BY DEF Opened, Heeds
<1>7. Begun
  BY DEF Begun
<1>8. Unsaid /\ Settles
  BY <1>3 DEF Unsaid, Settles
<1>. QED
  BY <1>2, <1>5, <1>6, <1>7, <1>8 DEF TypingInv

-----------------------------------------------------------------------------
(* Steps that settle nothing.                                                 *)

LEMMA CallIs ==
    ASSUME ScreenOK, NEW u \in Utterances
    PROVE  /\ thread[u] \in Calls
           /\ thread[u].at = "answered" =>
                 thread[u].settled \in Settled /\ thread[u].open \in Open /\ thread[u].paused \in BOOLEAN
BY DEF ScreenOK, Calls, Live!NoCall

LEMMA OpenIs ==
    ASSUME TypingInv, session # NoSession
    PROVE  /\ session \in Sessions /\ session.utterance = uttered /\ uttered \in Utterances
           /\ uttered \in Nat /\ uttered # 0
BY DEF TypingInv, ScreenOK, Opened, Utterances

LEMMA WordsStay ==
    ASSUME TypingInv, UNCHANGED <<uttered, talk, wanted, fate>>,
           \A v \in Utterances : v > uttered => thread'[v] = Live!NoCall,
           \/ session' = session
           \/ /\ session # NoSession
              /\ session' \in Sessions /\ session'.utterance = uttered
              /\ \A n \in 1..Len(session'.typed) : session'.typed[n][1] = uttered
              /\ session'.typed # <<>> => session'.window \in Windows
              /\ session'.aged <= Len(session'.recent)
    PROVE  Opened' /\ Begun' /\ Unsaid' /\ Settles'
<1>1. session' # NoSession <=> session # NoSession
  <2>1. session # NoSession => uttered # 0
    BY OpenIs
  <2>2. NoSession.utterance = 0
    BY DEF NoSession
  <2>. QED
    BY <2>1, <2>2
<1>2. Opened'
  BY <1>1 DEF TypingInv, Opened
<1>3. Begun'
  BY DEF TypingInv, Begun
<1>4. Unsaid'
  BY <1>1 DEF TypingInv, Unsaid, Ongoing
<1>5. Settles'
  <2>1. \A u \in Utterances : StandsOnce(u)' <=> StandsOnce(u)
    BY DEF StandsOnce, Stands
  <2>. QED
    BY <2>1 DEF TypingInv, Settles
<1>. QED
  BY <1>2, <1>3, <1>4, <1>5

LEMMA ScreenStays ==
    ASSUME FieldsReadRight, UNCHANGED <<session, field, wanted, broken>>
    PROVE  FieldsReadRight'
BY DEF FieldsReadRight, OpenWords, Typed

LEMMA QuietKeeps ==
    ASSUME TypingInv,
           \/ Live!Ask \/ \E u \in Utterances : Live!Answer(u) \/ Live!PreviewDropped(u)
           \/ Live!MovesFocus \/ Live!Pauses \/ UNCHANGED Live!vars
    PROVE  TypingInv'
<1>. USE SameNames
<1>1. UNCHANGED <<session, uttered, talk, wanted, fate, field, broken>>
  BY DEF Live!Ask, Live!Answer, Live!PreviewDropped, Live!MovesFocus, Live!Pauses, Live!vars,
         Live!loopVars, Live!screenVars
<1>2. /\ thread' \in [Utterances -> Calls]
      /\ \A v \in Utterances : v > uttered => thread'[v] = Live!NoCall
  <2>0. /\ thread \in [Utterances -> Calls] /\ uttered \in Nat
        /\ \A v \in Utterances : v > uttered => thread[v] = Live!NoCall
    BY DEF TypingInv, ScreenOK, Begun
  <2>1. CASE Live!Ask
    <3>1. /\ thread' = [thread EXCEPT ![uttered] = [at |-> "asked"]]
          /\ ~(uttered > uttered)
      BY <2>0, <2>1 DEF Live!Ask
    <3>2. [at |-> "asked"] \in Calls
      BY DEF Calls
    <3>. QED
      BY <2>0, <3>1, <3>2
  <2>2. ASSUME NEW u \in Utterances, Live!Answer(u)
        PROVE  /\ thread' \in [Utterances -> Calls]
               /\ \A v \in Utterances : v > uttered => thread'[v] = Live!NoCall
    <3>1. thread[u] # Live!NoCall /\ Live!NoCall \in Calls
      BY <2>2 DEF Live!Answer, Live!NoCall, Calls
    <3>2. \E c \in Calls : thread' = [thread EXCEPT ![u] = c]
      <4>1. CASE thread' = [thread EXCEPT ![u] = Live!NoCall]
        BY <3>1, <4>1
      <4>2. CASE \E settled \in Settled, open \in Open :
                    thread' = [thread EXCEPT ![u] =
                        [at |-> "answered", settled |-> settled, open |-> open, paused |-> paused]]
        <5>1. PICK settled \in Settled, open \in Open :
                    thread' = [thread EXCEPT ![u] =
                        [at |-> "answered", settled |-> settled, open |-> open, paused |-> paused]]
          BY <4>2
        <5>2. paused \in BOOLEAN
          BY DEF TypingInv, ScreenOK
        <5>3. [at |-> "answered", settled |-> settled, open |-> open, paused |-> paused] \in Calls
          BY <5>2 DEF Calls
        <5>. QED
          BY <5>1, <5>3
      <4>. QED
        BY <2>2, <4>1, <4>2 DEF Live!Answer
    <3>. QED
      BY <2>0, <3>1, <3>2
  <2>3. ASSUME NEW u \in Utterances, Live!PreviewDropped(u)
        PROVE  /\ thread' \in [Utterances -> Calls]
               /\ \A v \in Utterances : v > uttered => thread'[v] = Live!NoCall
    <3>1. thread' = [thread EXCEPT ![u] = Live!NoCall] /\ Live!NoCall \in Calls
      BY <2>3 DEF Live!PreviewDropped, Live!PreviewSees, Calls
    <3>. QED
      BY <2>0, <3>1
  <2>4. CASE Live!MovesFocus \/ Live!Pauses \/ UNCHANGED Live!vars
    BY <2>0, <2>4 DEF Live!MovesFocus, Live!Pauses, Live!vars
  <2>. QED
    BY <2>1, <2>2, <2>3, <2>4
<1>3. Opened' /\ Begun' /\ Unsaid' /\ Settles'
  BY <1>1, <1>2, WordsStay
<1>4. FieldsReadRight'
  BY <1>1, ScreenStays DEF TypingInv
<1>5. ScreenOK' /\ Heeds'
  <2>0. ScreenOK /\ Heeds
    BY DEF TypingInv
  <2>1. paused' \in BOOLEAN /\ focus' \in Windows /\ after' \in 0..1
    <3>1. CASE Live!Pauses
      <4>1. after' = 0 /\ focus' = focus /\ paused' = ~paused
        BY <3>1 DEF Live!Pauses
      <4>. QED
        BY <2>0, <4>1 DEF ScreenOK
    <3>2. CASE ~Live!Pauses
      BY <2>0, <3>2 DEF ScreenOK, Live!Ask, Live!Answer, Live!PreviewDropped, Live!MovesFocus,
                        Live!vars, Live!worldVars
    <3>. QED
      BY <3>1, <3>2
  <2>2. ScreenOK'
    BY <1>1, <1>2, <2>0, <2>1 DEF ScreenOK
  <2>3. CASE Live!Pauses
    <3>1. after' = 0
      BY <2>3 DEF Live!Pauses
    <3>. QED
      BY <2>2, <3>1 DEF Heeds
  <2>4. ASSUME ~Live!Pauses PROVE UNCHANGED <<paused, after>>
    BY <2>4 DEF Live!Ask, Live!Answer, Live!PreviewDropped, Live!MovesFocus, Live!vars, Live!worldVars
  <2>5. ASSUME ~Live!Pauses, NEW v \in Utterances, thread'[v].at = "answered"
        PROVE  \/ thread[v].at = "answered" /\ thread'[v] = thread[v]
               \/ thread'[v].paused <=> paused
    <3>0. thread \in [Utterances -> Calls]
      BY <2>0 DEF ScreenOK
    <3>1. CASE Live!Ask
      BY <2>5, <3>0, <3>1 DEF Live!Ask
    <3>2. ASSUME NEW u \in Utterances, Live!Answer(u)
          PROVE  thread'[v] = thread[v] \/ (thread'[v].paused <=> paused)
      <4>1. v # u => thread'[v] = thread[v]
        BY <3>0, <3>2 DEF Live!Answer
      <4>2. v = u => thread'[v].paused <=> paused
        <5>. SUFFICES ASSUME v = u PROVE thread'[v].paused <=> paused
          OBVIOUS
        <5>1. thread' # [thread EXCEPT ![u] = Live!NoCall]
          BY <2>5, <3>0 DEF Live!NoCall
        <5>2. PICK settled \in Settled, open \in Open :
                  thread' = [thread EXCEPT ![u] =
                    [at |-> "answered", settled |-> settled, open |-> open, paused |-> paused]]
          BY <3>2, <5>1 DEF Live!Answer
        <5>3. thread'[u] = [at |-> "answered", settled |-> settled, open |-> open, paused |-> paused]
          BY <3>0, <5>2
        <5>. QED
          BY <5>3
      <4>. QED
        BY <4>1, <4>2
    <3>3. ASSUME NEW u \in Utterances, Live!PreviewDropped(u)
          PROVE  thread'[v] = thread[v]
      BY <2>5, <3>0, <3>3 DEF Live!PreviewDropped, Live!PreviewSees, Live!NoCall
    <3>4. CASE Live!MovesFocus \/ UNCHANGED Live!vars
      BY <2>5, <3>4 DEF Live!MovesFocus, Live!vars
    <3>. QED
      BY <2>5, <3>1, <3>2, <3>3, <3>4
  <2>6. CASE ~Live!Pauses
    <3>1. /\ ~paused => after = 0
          /\ paused /\ after # 0 =>
                \A v \in Utterances :
                    v = session.utterance /\ thread[v].at = "answered" => thread[v].paused
      BY <2>0 DEF Heeds
    <3>2. paused' = paused /\ after' = after /\ session' = session
      BY <1>1, <2>4, <2>6
    <3>3. ASSUME paused, after # 0, NEW v \in Utterances, v = session.utterance,
                 thread'[v].at = "answered"
          PROVE  thread'[v].paused
      <4>1. CASE thread[v].at = "answered" /\ thread'[v] = thread[v]
        BY <3>1, <3>3, <4>1
      <4>2. CASE thread'[v].paused <=> paused
        BY <3>3, <4>2
      <4>. QED
        BY <2>5, <2>6, <3>3, <4>1, <4>2
    <3>. QED
      BY <2>2, <3>1, <3>2, <3>3 DEF Heeds
  <2>. QED
    BY <2>2, <2>3, <2>6
<1>. QED
  BY <1>3, <1>4, <1>5 DEF TypingInv

-----------------------------------------------------------------------------
(* Previews.                                                                  *)

LEMMA OpenWordsAre ==
    ASSUME TypingInv, NEW w \in Windows
    PROVE  /\ OpenWords(w) \in Seq(Pieces)
           /\ ~Typed => OpenWords(w) = <<>>
           /\ session # NoSession /\ Live!SameWindow(session) =>
                 OpenWords(focus) = session.typed /\ (w # focus => OpenWords(w) = <<>>)
<1>1. OpenWords(w) \in Seq(Pieces) /\ (~Typed => OpenWords(w) = <<>>)
  BY EmptySeq DEF TypingInv, ScreenOK, OpenWords, Typed, Sessions
<1>2. ASSUME session # NoSession, Live!SameWindow(session)
      PROVE  OpenWords(focus) = session.typed /\ (w # focus => OpenWords(w) = <<>>)
  <2>1. session.typed # <<>> => session.window = focus
    BY <1>2, TypingAssumption DEF TypingInv, Opened, Live!SameWindow
  <2>. QED
    BY <1>2, <2>1 DEF OpenWords, Typed
<1>. QED
  BY <1>1, <1>2

LEMMA SentIs ==
    ASSUME TypingInv, NEW target \in Seq(Pieces),
           Live!Sent(Live!Backspaces(OpenWords(focus), target), Live!Rest(OpenWords(focus), target))
    PROVE  /\ broken' = broken /\ DOMAIN field' = Windows
           /\ ~broken => field'[focus] = wanted[focus] \o target
           /\ \A w \in Windows : w # focus => field'[w] = field[w]
<1>. DEFINE typed == OpenWords(focus)
            next == Live!Edit(field[focus], Live!Backspaces(typed, target), Live!Rest(typed, target))
<1>1. focus \in Windows /\ wanted[focus] \in Seq(Pieces) /\ typed \in Seq(Pieces)
      /\ DOMAIN field = Windows
  BY OpenWordsAre DEF TypingInv, ScreenOK
<1>2. field' = [field EXCEPT ![focus] = next] /\ broken' = broken
  BY DEF Live!Sent
<1>3. ASSUME ~broken PROVE next = wanted[focus] \o target
  <2>1. field[focus] = wanted[focus] \o typed
    BY <1>1, <1>3 DEF TypingInv, FieldsReadRight
  <2>. DEFINE before == wanted[focus]
  <2>2. before \in Seq(Pieces) /\ typed \in Seq(Pieces)
    BY <1>1
  <2>. HIDE DEF typed, before
  <2>3. Live!Edit(before \o typed, Live!Backspaces(typed, target), Live!Rest(typed, target))
           = before \o target
    BY <2>2, EditIs
  <2>. QED
    BY <2>1, <2>3 DEF before
<1>. HIDE DEF next
<1>. QED
  BY <1>1, <1>2, <1>3

LEMMA FailedIs ==
    ASSUME TypingInv, NEW n, NEW rest, Live!Failed(n, rest)
    PROVE  broken' /\ DOMAIN field' = Windows
BY DEF TypingInv, ScreenOK, Live!Failed

\* A preview that is remembered leaves the session's words, window and utterance alone.
LEMMA RememberedIs ==
    ASSUME session \in Sessions, NEW u, NEW aged \in Nat,
           aged <= Len(session.recent), thread[u].open \in Open
    PROVE  LET kept == Live!Remembering(u, aged)
           IN  /\ kept \in Sessions /\ kept.utterance = session.utterance
               /\ kept.typed = session.typed /\ kept.window = session.window
               /\ kept.aged <= Len(kept.recent)
<1>. DEFINE s == [session EXCEPT !.aged = aged]
            q == Append(Live!Kept(s), thread[u].open)
            m == IF aged > 0 THEN 1 ELSE 0
<1>1. s \in Sessions /\ s.aged <= Len(s.recent)
  BY DEF Sessions
<1>2. Live!Remembering(u, aged) = [session EXCEPT !.recent = q, !.aged = m]
  BY DEF Live!Remembering
<1>. HIDE DEF s
<1>3. Live!Kept(s) \in Seq(Open) /\ Len(Live!Kept(s)) \in Nat
  BY <1>1, KeptIs, LenProperties
<1>4. q \in Seq(Open) /\ Len(q) = Len(Live!Kept(s)) + 1
  BY <1>3, AppendProperties
<1>5. m \in Nat /\ m <= 1
  OBVIOUS
<1>. HIDE DEF q, m
<1>. DEFINE kept == [session EXCEPT !.recent = q, !.aged = m]
<1>6. /\ kept \in Sessions /\ kept.utterance = session.utterance
      /\ kept.typed = session.typed /\ kept.window = session.window
      /\ kept.aged = m /\ kept.recent = q
  BY <1>4, <1>5 DEF Sessions
<1>. HIDE DEF kept
<1>7. kept.aged <= Len(kept.recent)
  BY <1>3, <1>4, <1>5, <1>6
<1>. QED
  BY <1>2, <1>6, <1>7 DEF kept

LEMMA PreviewKeeps ==
    ASSUME TypingInv, NEW u \in Utterances, Live!PreviewPaused(u) \/ Live!PreviewTypes(u)
    PROVE  TypingInv'
<1>. USE SameNames
<1>1. /\ thread[u].at = "answered" /\ thread' = [thread EXCEPT ![u] = Live!NoCall]
      /\ session.utterance = u
      /\ UNCHANGED <<uttered, talk, paused, focus, wanted, fate>>
  BY DEF Live!PreviewPaused, Live!PreviewTypes, Live!PreviewSees, Live!Locked, Live!loopVars,
         Live!worldVars, Live!screenVars
<1>2. session # NoSession
  BY <1>1 DEF NoSession, Utterances
<1>3. /\ session \in Sessions /\ u = uttered /\ ScreenOK
      /\ \A n \in 1..Len(session.typed) : session.typed[n][1] = u
      /\ session.typed # <<>> => session.window \in Windows
      /\ session.aged <= Len(session.recent)
  BY <1>1, <1>2, OpenIs DEF TypingInv, Opened
<1>4. thread[u].settled \in Settled /\ thread[u].open \in Open /\ thread[u].paused \in BOOLEAN
  BY <1>1, <1>3, CallIs
<1>5. /\ thread' \in [Utterances -> Calls]
      /\ \A v \in Utterances : v > uttered => thread'[v] = Live!NoCall
      /\ \A v \in Utterances : v = u => thread'[v] = Live!NoCall
  <2>1. thread \in [Utterances -> Calls] /\ Live!NoCall \in Calls
        /\ \A v \in Utterances : v > uttered => thread[v] = Live!NoCall
    BY DEF TypingInv, ScreenOK, Calls, Begun
  <2>. QED
    BY <1>1, <2>1
\* Whatever becomes of the session and the fields, nobody types in the pause but one.
<1>6. ASSUME session' \in Sessions, session'.utterance = u,
             DOMAIN field' = Windows, after' \in 0..1, ~paused => after' = 0,
             \A n \in 1..Len(session'.typed) : session'.typed[n][1] = u,
             session'.typed # <<>> => session'.window \in Windows,
             session'.aged <= Len(session'.recent), FieldsReadRight'
      PROVE  TypingInv'
  <2>1. Opened' /\ Begun' /\ Unsaid' /\ Settles'
    BY <1>1, <1>2, <1>3, <1>5, <1>6, WordsStay
  <2>2. ScreenOK'
    BY <1>1, <1>3, <1>5, <1>6 DEF ScreenOK
  <2>3. \A v \in Utterances : v = session'.utterance => thread'[v].at # "answered"
    BY <1>5, <1>6 DEF Live!NoCall
  <2>4. Heeds'
    BY <1>1, <1>6, <2>3 DEF Heeds
  <2>. QED
    BY <1>6, <2>1, <2>2, <2>4 DEF TypingInv
<1>7. after \in 0..1 /\ (~paused => after = 0) /\ DOMAIN field = Windows
  BY DEF TypingInv, ScreenOK, Heeds
<1>8. CASE Live!PreviewPaused(u)
  <2>1. session' = [session EXCEPT !.stopped = TRUE] /\ UNCHANGED <<field, wanted, broken, after>>
    BY <1>8 DEF Live!PreviewPaused, Live!screenVars
  <2>2. /\ session' \in Sessions /\ session'.utterance = u
        /\ session'.typed = session.typed /\ session'.window = session.window
        /\ session'.aged = session.aged /\ session'.recent = session.recent
    BY <1>1, <1>3, <2>1 DEF Sessions
  <2>3. session' # NoSession
    BY <1>3, <2>2 DEF NoSession, Utterances
  <2>4. FieldsReadRight'
    BY <1>2, <2>1, <2>2, <2>3 DEF TypingInv, FieldsReadRight, OpenWords, Typed
  <2>. QED
    BY <1>3, <1>6, <1>7, <2>1, <2>2, <2>4
<1>9. CASE Live!PreviewTypes(u)
  <2>1. ~thread[u].paused /\ session.stopped = FALSE
    BY <1>3, <1>9 DEF Live!PreviewTypes, Live!Locked, Sessions
  <2>. DEFINE Heard(aged) ==
          LET target == Live!Target(u, aged)
              back   == Live!Backspaces(session.typed, target)
              rest   == Live!Rest(session.typed, target)
              kept   == Live!Remembering(u, aged)
          IN  \/ session' = kept /\ UNCHANGED <<field, broken, after>>
              \/ session' = [kept EXCEPT !.stopped = TRUE] /\ UNCHANGED <<field, broken, after>>
              \/ /\ Live!SameWindow(session)
                 /\ \/ /\ Live!Sent(back, rest)
                       /\ session' = [kept EXCEPT !.typed = target, !.window = focus]
                    \/ /\ Live!Failed(back, rest)
                       /\ session' = [kept EXCEPT !.stopped = TRUE, !.window = focus]
                 /\ after' = IF paused THEN after + 1 ELSE after
  <2>2. \E aged \in session.aged..Len(session.recent) : Heard(aged)
    BY <1>9 DEF Live!PreviewTypes
  <2>3. PICK aged \in session.aged..Len(session.recent) : Heard(aged)
    BY <2>2
  <2>4. aged \in Nat /\ aged <= Len(session.recent)
    <3>1. session.aged \in Nat /\ Len(session.recent) \in Nat
      BY <1>3, LenProperties DEF Sessions
    <3>. QED
      BY <3>1
  <2>. DEFINE target == Live!Target(u, aged)
              kept == Live!Remembering(u, aged)
              back == Live!Backspaces(session.typed, target)
              rest == Live!Rest(session.typed, target)
  <2>5. target \in Seq(Pieces) /\ \A n \in 1..Len(target) : target[n][1] = u
    BY <1>3, <1>4, <2>4, TargetIs
  <2>6. /\ kept \in Sessions /\ kept.utterance = u
        /\ kept.typed = session.typed /\ kept.window = session.window
        /\ kept.aged <= Len(kept.recent)
    BY <1>1, <1>3, <1>4, <2>4, RememberedIs
  <2>7. \/ session' \in {kept, [kept EXCEPT !.stopped = TRUE]} /\ UNCHANGED <<field, broken, after>>
        \/ /\ Live!SameWindow(session) /\ Live!Sent(back, rest)
           /\ session' = [kept EXCEPT !.typed = target, !.window = focus]
           /\ after' = IF paused THEN after + 1 ELSE after
        \/ /\ Live!SameWindow(session) /\ Live!Failed(back, rest)
           /\ session' = [kept EXCEPT !.stopped = TRUE, !.window = focus]
           /\ after' = IF paused THEN after + 1 ELSE after
    BY <2>3
  <2>. HIDE DEF target, kept, back, rest, Heard
  <2>8. CASE session' \in {kept, [kept EXCEPT !.stopped = TRUE]} /\ UNCHANGED <<field, broken, after>>
    <3>1. /\ session' \in Sessions /\ session'.utterance = u
          /\ session'.typed = session.typed /\ session'.window = session.window
          /\ session'.aged <= Len(session'.recent)
      BY <2>6, <2>8 DEF Sessions
    <3>2. session' # NoSession
      BY <1>3, <3>1 DEF NoSession, Utterances
    <3>3. FieldsReadRight'
      BY <1>1, <1>2, <2>8, <3>1, <3>2 DEF TypingInv, FieldsReadRight, OpenWords, Typed
    <3>. QED
      BY <1>3, <1>6, <1>7, <2>8, <3>1, <3>3
  \* No batch was typed in this pause before: this answer had not read the flags.
  <2>9. ASSUME after' = IF paused THEN after + 1 ELSE after
        PROVE  after' \in 0..1 /\ (~paused => after' = 0)
    <3>1. paused => after = 0
      BY <1>1, <2>1 DEF TypingInv, Heeds
    <3>. QED
      BY <1>7, <2>9, <3>1
  <2>10. CASE /\ Live!SameWindow(session) /\ Live!Sent(back, rest)
              /\ session' = [kept EXCEPT !.typed = target, !.window = focus]
              /\ after' = IF paused THEN after + 1 ELSE after
    <3>1. focus \in Windows
      BY <1>3 DEF ScreenOK
    <3>2. /\ session' \in Sessions /\ session'.utterance = u
          /\ session'.typed = target /\ session'.window = focus
          /\ session'.aged <= Len(session'.recent)
      BY <2>5, <2>6, <2>10, <3>1 DEF Sessions
    <3>3. OpenWords(focus) = session.typed
      BY <1>2, <2>10, <3>1, OpenWordsAre
    <3>4. /\ broken' = broken /\ DOMAIN field' = Windows
          /\ ~broken => field'[focus] = wanted[focus] \o target
          /\ \A w \in Windows : w # focus => field'[w] = field[w]
      BY <2>5, <2>10, <3>3, SentIs DEF back, rest
    <3>5. session' # NoSession
      BY <1>3, <3>2 DEF NoSession, Utterances
    <3>6. /\ OpenWords(focus)' = target
          /\ \A w \in Windows : w # focus => OpenWords(w) = <<>> /\ OpenWords(w)' = <<>>
      <4>1. OpenWords(focus)' = target
        BY <1>1, <3>2, <3>5 DEF OpenWords, Typed
      <4>2. ASSUME NEW w \in Windows, w # focus PROVE OpenWords(w) = <<>> /\ OpenWords(w)' = <<>>
        BY <1>2, <2>10, <3>2, <3>5, <4>2, OpenWordsAre DEF OpenWords, Typed
      <4>. QED
        BY <4>1, <4>2
    <3>7. ASSUME ~broken, NEW w \in Windows PROVE field'[w] = wanted'[w] \o OpenWords(w)'
      <4>1. CASE w = focus
        BY <1>1, <3>4, <3>6, <3>7, <4>1
      <4>2. CASE w # focus
        <5>1. field[w] = wanted[w] \o OpenWords(w)
          BY <3>7 DEF TypingInv, FieldsReadRight
        <5>. QED
          BY <1>1, <3>4, <3>6, <4>2, <5>1
      <4>. QED
        BY <4>1, <4>2
    <3>8. FieldsReadRight'
      BY <3>4, <3>7 DEF FieldsReadRight
    <3>. QED
      BY <1>6, <2>5, <2>9, <2>10, <3>1, <3>2, <3>4, <3>8
  <2>11. CASE /\ Live!SameWindow(session) /\ Live!Failed(back, rest)
              /\ session' = [kept EXCEPT !.stopped = TRUE, !.window = focus]
              /\ after' = IF paused THEN after + 1 ELSE after
    <3>1. focus \in Windows
      BY <1>3 DEF ScreenOK
    <3>2. /\ session' \in Sessions /\ session'.utterance = u
          /\ session'.typed = session.typed /\ session'.window = focus
          /\ session'.aged <= Len(session'.recent)
      BY <2>6, <2>11, <3>1 DEF Sessions
    <3>3. broken' /\ DOMAIN field' = Windows
      BY <2>11, FailedIs
    <3>4. FieldsReadRight'
      BY <3>3 DEF FieldsReadRight
    <3>. QED
      BY <1>3, <1>6, <2>9, <2>11, <3>1, <3>2, <3>3, <3>4
  <2>. QED
    BY <2>7, <2>8, <2>10, <2>11
<1>. QED
  BY <1>8, <1>9

-----------------------------------------------------------------------------
(* Words left on screen for good.                                             *)

LEMMA LeaveIs ==
    ASSUME ScreenOK, NEW w \in Windows, NEW words \in Seq(Pieces), Live!Leave(w, words)
    PROVE  /\ wanted' \in [Windows -> Seq(Pieces)] /\ wanted'[w] = wanted[w] \o words
           /\ \A x \in Windows : x # w => wanted'[x] = wanted[x]
<1>1. wanted \in [Windows -> Seq(Pieces)] /\ wanted[w] \o words \in Seq(Pieces)
  BY ConcatProperties DEF ScreenOK
<1>. QED
  BY <1>1 DEF Live!Leave

LEMMA LeaveNothing ==
    ASSUME ScreenOK, NEW w \in Windows, wanted' = wanted
    PROVE  Live!Leave(w, <<>>)
<1>1. wanted[w] \o <<>> = wanted[w]
  BY ConcatEmptySeq DEF ScreenOK
<1>. QED
  BY <1>1 DEF Live!Leave, ScreenOK

\* Where the words of the fields are once a text follows those of field w.
LEMMA LeaveReads ==
    ASSUME ScreenOK, NEW w \in Windows, NEW words \in Seq(Pieces), Live!Leave(w, words),
           NEW x \in Windows
    PROVE  /\ Len(wanted[x]) \in Nat /\ Len(words) \in Nat /\ Len(wanted'[x]) \in Nat
           /\ Len(wanted'[x]) = IF x = w THEN Len(wanted[x]) + Len(words) ELSE Len(wanted[x])
           /\ \A n \in 1..Len(wanted[x]) : wanted'[x][n] = wanted[x][n]
           /\ x = w => \A n \in 1..Len(words) : wanted'[x][Len(wanted[x]) + n] = words[n]
<1>. DEFINE s == wanted[x]
            r == wanted'[x]
<1>1. s \in Seq(Pieces)
  BY DEF ScreenOK
<1>2. (x = w => r = s \o words) /\ (x # w => r = s)
  BY LeaveIs
<1>. HIDE DEF s, r
<1>3. /\ Len(s \o words) = Len(s) + Len(words) /\ Len(s) \in Nat /\ Len(words) \in Nat
      /\ \A i \in 1..Len(s) : (s \o words)[i] = s[i]
      /\ \A i \in 1..Len(words) : (s \o words)[Len(s) + i] = words[i]
  BY <1>1, JoinIs
<1>4. ASSUME x = w
      PROVE  /\ Len(r) = Len(s) + Len(words) /\ \A n \in 1..Len(s) : r[n] = s[n]
             /\ \A n \in 1..Len(words) : r[Len(s) + n] = words[n]
  BY <1>2, <1>3, <1>4
<1>5. /\ Len(r) = (IF x = w THEN Len(s) + Len(words) ELSE Len(s)) /\ Len(r) \in Nat
      /\ \A n \in 1..Len(s) : r[n] = s[n]
  BY <1>2, <1>3, <1>4
<1>. QED
  BY <1>3, <1>4, <1>5 DEF s, r

\* A text without words of utterance u leaves those where they are.
LEMMA LeaveStands ==
    ASSUME ScreenOK, NEW w \in Windows, NEW words \in Seq(Pieces), Live!Leave(w, words),
           NEW u \in Utterances, ~Speaks(words, u)
    PROVE  /\ StandsOnce(u) => StandsOnce(u)'
           /\ \A x \in Windows : ~Speaks(wanted[x], u) => ~Speaks(wanted'[x], u)
<1>1. ASSUME NEW x \in Windows, NEW n \in 1..Len(wanted'[x]), n \notin 1..Len(wanted[x])
      PROVE  wanted'[x][n][1] # u
  <2>. DEFINE i == n - Len(wanted[x])
  <2>1. x = w /\ i \in 1..Len(words) /\ n = Len(wanted[x]) + i
    BY <1>1, LeaveReads
  <2>. HIDE DEF i
  <2>2. wanted'[x][n] = words[i]
    BY <2>1, LeaveReads
  <2>. QED
    BY <2>1, <2>2 DEF Speaks
<1>2. ASSUME NEW x \in Windows, ~Speaks(wanted[x], u), NEW n \in 1..Len(wanted'[x])
      PROVE  wanted'[x][n][1] # u
  <2>1. CASE n \in 1..Len(wanted[x])
    BY <1>2, <2>1, LeaveReads DEF Speaks
  <2>2. CASE n \notin 1..Len(wanted[x])
    BY <1>1, <1>2, <2>2
  <2>. QED
    BY <2>1, <2>2
<1>3. ASSUME StandsOnce(u) PROVE StandsOnce(u)'
  <2>1. PICK z \in Windows, payload \in Finals :
            \E k \in 0..Len(wanted[z]) : Stands(u, z, k, payload)
    BY <1>3 DEF StandsOnce
  <2>2. PICK k \in 0..Len(wanted[z]) : Stands(u, z, k, payload)
    BY <2>1
  <2>3. payload \in Seq(DOMAIN Bare) /\ Len(payload) \in Nat /\ k \in Nat
    BY TypingAssumption, LenProperties, LeaveReads
  <2>4. k \in 0..Len(wanted'[z])
    <3>1. /\ Len(wanted[z]) \in Nat /\ Len(words) \in Nat /\ Len(wanted'[z]) \in Nat
          /\ Len(wanted'[z]) = IF z = w THEN Len(wanted[z]) + Len(words) ELSE Len(wanted[z])
      BY LeaveReads
    <3>. QED
      BY <2>3, <3>1
  <2>5. ASSUME NEW v \in Windows, NEW n \in 1..Len(wanted'[v])
        PROVE  wanted'[v][n][1] = u <=> v = z /\ n \in (k + 1)..(k + Len(payload))
    <3>1. CASE n \in 1..Len(wanted[v])
      <4>1. wanted'[v][n] = wanted[v][n]
        BY <3>1, LeaveReads
      <4>. QED
        BY <2>2, <3>1, <4>1 DEF Stands
    <3>2. CASE n \notin 1..Len(wanted[v])
      <4>1. wanted'[v][n][1] # u
        BY <1>1, <3>2
      <4>2. ASSUME v = z, n \in (k + 1)..(k + Len(payload)) PROVE FALSE
        <5>1. n - k \in 1..Len(payload) /\ k + (n - k) = n
          BY <2>3, <4>2
        <5>2. n \in 1..Len(wanted[z])
          BY <2>2, <5>1 DEF Stands
        <5>. QED
          BY <3>2, <4>2, <5>2
      <4>. QED
        BY <4>1, <4>2
    <3>. QED
      BY <3>1, <3>2
  <2>6. ASSUME NEW n \in 1..Len(payload)
        PROVE  /\ k + n \in 1..Len(wanted'[z])
               /\ Bare[wanted'[z][k + n][2]] = Bare[payload[n]]
    <3>1. k + n \in 1..Len(wanted[z]) /\ Bare[wanted[z][k + n][2]] = Bare[payload[n]]
      BY <2>2 DEF Stands
    <3>2. k + n \in 1..Len(wanted'[z]) /\ wanted'[z][k + n] = wanted[z][k + n]
      BY <3>1, LeaveReads
    <3>. QED
      BY <3>1, <3>2
  <2>7. Stands(u, z, k, payload)'
    BY <2>5, <2>6 DEF Stands
  <2>. QED
    BY <2>4, <2>7 DEF StandsOnce
<1>. QED
  BY <1>2, <1>3 DEF Speaks

\* A final of which no word was on screen before is there once.
LEMMA LeaveShows ==
    ASSUME ScreenOK, NEW w \in Windows, NEW words \in Seq(Pieces), Live!Leave(w, words),
           NEW u \in Utterances, \A x \in Windows : ~Speaks(wanted[x], u),
           NEW payload \in Finals, Len(words) = Len(payload),
           \A n \in 1..Len(payload) : words[n][1] = u /\ Bare[words[n][2]] = Bare[payload[n]]
    PROVE  StandsOnce(u)'
<1>0. Len(wanted[w]) \in Nat
  BY LeaveReads
<1>. PICK k \in Nat : k = Len(wanted[w])
  BY <1>0
<1>1. k \in Nat /\ Len(payload) \in Nat /\ Len(wanted'[w]) = k + Len(payload)
      /\ \A n \in 1..Len(payload) : wanted'[w][k + n] = words[n]
  <2>1. /\ Len(words) \in Nat /\ Len(wanted'[w]) = Len(wanted[w]) + Len(words)
        /\ \A n \in 1..Len(words) : wanted'[w][Len(wanted[w]) + n] = words[n]
    BY LeaveReads
  <2>. QED
    BY <2>1
<1>2. k \in 0..Len(wanted'[w])
  BY <1>1
<1>3. ASSUME NEW v \in Windows, NEW n \in 1..Len(wanted'[v])
      PROVE  wanted'[v][n][1] = u <=> v = w /\ n \in (k + 1)..(k + Len(payload))
  <2>1. CASE n \in 1..Len(wanted[v])
    <3>0. wanted'[v][n] = wanted[v][n] /\ ~Speaks(wanted[v], u)
      BY <2>1, LeaveReads
    <3>1. wanted'[v][n][1] # u
      BY <2>1, <3>0 DEF Speaks
    <3>2. v = w => n \notin (k + 1)..(k + Len(payload))
      BY <1>1, <2>1
    <3>. QED
      BY <3>1, <3>2
  <2>2. CASE n \notin 1..Len(wanted[v])
    <3>1. v = w /\ n \in (k + 1)..(k + Len(payload))
      BY <1>1, <2>2, LeaveReads
    <3>2. n - k \in 1..Len(payload) /\ k + (n - k) = n
      BY <1>1, <3>1
    <3>3. wanted'[w][k + (n - k)] = words[n - k] /\ words[n - k][1] = u
      BY <1>1, <3>2
    <3>. QED
      BY <3>1, <3>2, <3>3
  <2>. QED
    BY <2>1, <2>2
<1>4. ASSUME NEW n \in 1..Len(payload)
      PROVE  k + n \in 1..Len(wanted'[w]) /\ Bare[wanted'[w][k + n][2]] = Bare[payload[n]]
  <2>1. k + n \in 1..Len(wanted'[w])
    BY <1>1
  <2>2. wanted'[w][k + n] = words[n] /\ Bare[words[n][2]] = Bare[payload[n]]
    BY <1>1
  <2>. QED
    BY <2>1, <2>2
<1>5. Stands(u, w, k, payload)'
  BY <1>3, <1>4 DEF Stands
<1>. QED
  BY <1>2, <1>5 DEF StandsOnce

\* The fields read right when what an abandoned session typed stays.
LEMMA LeaveTyped ==
    ASSUME TypingInv, UNCHANGED <<field, broken>>, ~Typed',
           IF Typed THEN Live!Leave(session.window, session.typed) ELSE wanted' = wanted
    PROVE  /\ FieldsReadRight'
           /\ \E w \in Windows, words \in Seq(Pieces) :
                 /\ Live!Leave(w, words)
                 /\ ~Typed => words = <<>>
                 /\ \A n \in 1..Len(words) : Typed /\ words[n][1] = uttered
<1>. DEFINE w == IF Typed THEN session.window ELSE focus
            words == IF Typed THEN session.typed ELSE <<>>
<1>0. ScreenOK /\ <<>> \in Seq(Pieces) /\ Len(<<>>) = 0
  BY EmptySeq DEF TypingInv
<1>1. w \in Windows /\ words \in Seq(Pieces)
      /\ \A n \in 1..Len(words) : Typed /\ words[n][1] = uttered
  BY <1>0 DEF TypingInv, ScreenOK, Opened, Typed, Sessions
<1>2. Live!Leave(w, words)
  <2>1. focus \in Windows
    BY <1>0 DEF ScreenOK
  <2>. QED
    BY <1>0, <2>1, LeaveNothing
<1>3. \A x \in Windows : OpenWords(x) = IF x = w THEN words ELSE <<>>
  BY DEF OpenWords
<1>4. ~Typed => words = <<>>
  OBVIOUS
<1>. HIDE DEF w, words
<1>5. ASSUME ~broken, NEW x \in Windows PROVE field'[x] = wanted'[x] \o OpenWords(x)'
  <2>1. field[x] = wanted[x] \o OpenWords(x) /\ wanted[x] \in Seq(Pieces)
    BY <1>0, <1>5 DEF TypingInv, FieldsReadRight, ScreenOK
  <2>2. wanted[x] \o <<>> = wanted[x]
    BY <2>1, ConcatEmptySeq
  <2>3. /\ wanted' \in [Windows -> Seq(Pieces)] /\ wanted'[w] = wanted[w] \o words
        /\ \A z \in Windows : z # w => wanted'[z] = wanted[z]
    BY <1>0, <1>1, <1>2, LeaveIs
  <2>4. field'[x] = wanted'[x]
    BY <1>3, <2>1, <2>2, <2>3
  <2>5. wanted'[x] \o <<>> = wanted'[x]
    BY <2>3, ConcatEmptySeq
  <2>6. OpenWords(x)' = <<>>
    BY DEF OpenWords
  <2>. QED
    BY <2>4, <2>5, <2>6
<1>6. FieldsReadRight'
  BY <1>5 DEF FieldsReadRight
<1>. QED
  BY <1>1, <1>2, <1>4, <1>6

-----------------------------------------------------------------------------
(* Outcomes.                                                                  *)

\* What an outcome for utterance u leaves: the session is gone, a text of u, of the
\* session or of both is on screen for good, and u's fate says what became of it.
Leaves(u, what, w, words) ==
    /\ session' = NoSession /\ Live!Leave(w, words) /\ Live!Fate(u, what)
    /\ what \in {"shown", "gone", "left"} /\ (what = "gone" => words = <<>>)
    /\ \A n \in 1..Len(words) : words[n][1] = u \/ (Typed /\ words[n][1] = uttered)
    /\ what = "shown" => \E payload \in Finals :
          /\ Len(words) = Len(payload)
          /\ \A n \in 1..Len(payload) : Bare[words[n][2]] = Bare[payload[n]]
Outcome(u) ==
    \E what \in {"shown", "gone", "left"}, w \in Windows, words \in Seq(Pieces) :
        Leaves(u, what, w, words)

LEMMA NothingTyped ==
    ASSUME NEW words \in Seq(Pieces)
    PROVE  Live!Backspaces(<<>>, words) = 0 /\ Live!Rest(<<>>, words) = words
<1>. DEFINE S == {<<>>, words}
            c == Live!Common(<<>>, words)
<1>1. <<>> \in Seq(Pieces) /\ Len(<<>>) = 0
  BY EmptySeq
<1>2. S \in SUBSET Seq(Pieces) /\ <<>> \in S
  BY <1>1
<1>3. c = Live!LongestCommonPrefix(S)
  BY DEF Live!Common
<1>4. c \in Seq(Pieces) /\ Len(c) <= Len(<<>>)
  <2>. HIDE DEF S
  <2>. QED
    BY <1>2, <1>3, LongestIs
<1>. HIDE DEF c
<1>5. Len(c) = 0
  BY <1>1, <1>4, LenProperties
<1>6. Len(words) \in Nat /\ 0 \in 0..Len(words)
  BY LenProperties
<1>. DEFINE r == SubSeq(words, 0 + 1, Len(words))
<1>7. /\ r \in Seq(Pieces) /\ Len(r) = Len(words) - 0
      /\ \A i \in 1..(Len(words) - 0) : r[i] = words[0 + i]
  BY <1>6, RestOf
<1>. HIDE DEF r
<1>8. Len(r) = Len(words) /\ \A i \in 1..Len(r) : r[i] = words[i]
  <2>1. Len(words) - 0 = Len(words) /\ \A i \in 1..Len(words) : 0 + i = i
    BY <1>6
  <2>. QED
    BY <1>7, <2>1
<1>9. r = words
  BY <1>7, <1>8, SeqEqual
<1>10. Live!Backspaces(<<>>, words) = 0
  BY <1>1, <1>5 DEF Live!Backspaces, c
<1>11. Live!Rest(<<>>, words) = r
  BY <1>5 DEF Live!Rest, c, r
<1>. QED
  BY <1>9, <1>10, <1>11

\* When the batch that turns what was typed into the text went, or broke off.
LEMMA CorrectedRead ==
    ASSUME TypingInv, NEW words \in Seq(Pieces), session' = NoSession, Live!Leave(focus, words),
           \A w \in Windows : w # focus => OpenWords(w) = <<>>,
           \/ Live!Sent(Live!Backspaces(OpenWords(focus), words), Live!Rest(OpenWords(focus), words))
           \/ Live!Failed(Live!Backspaces(OpenWords(focus), words), Live!Rest(OpenWords(focus), words))
    PROVE  FieldsReadRight' /\ DOMAIN field' = Windows
<1>1. ScreenOK /\ focus \in Windows
  BY DEF TypingInv, ScreenOK
<1>2. CASE Live!Failed(Live!Backspaces(OpenWords(focus), words), Live!Rest(OpenWords(focus), words))
  BY <1>2, FailedIs DEF FieldsReadRight
<1>3. CASE Live!Sent(Live!Backspaces(OpenWords(focus), words), Live!Rest(OpenWords(focus), words))
  <2>1. /\ broken' = broken /\ DOMAIN field' = Windows
        /\ ~broken => field'[focus] = wanted[focus] \o words
        /\ \A w \in Windows : w # focus => field'[w] = field[w]
    BY <1>3, SentIs
  <2>2. /\ wanted' \in [Windows -> Seq(Pieces)] /\ wanted'[focus] = wanted[focus] \o words
        /\ \A w \in Windows : w # focus => wanted'[w] = wanted[w]
    BY <1>1, LeaveIs
  <2>3. ASSUME ~broken, NEW w \in Windows PROVE field'[w] = wanted'[w] \o OpenWords(w)'
    <3>1. OpenWords(w)' = <<>>
      BY DEF OpenWords, Typed
    <3>2. wanted'[w] \o <<>> = wanted'[w]
      BY <2>2, ConcatEmptySeq
    <3>3. field'[w] = wanted'[w]
      <4>1. CASE w = focus
        BY <2>1, <2>2, <2>3, <4>1
      <4>2. CASE w # focus
        <5>1. field[w] = wanted[w] \o <<>> /\ wanted[w] \in Seq(Pieces)
          BY <1>1, <2>3, <4>2 DEF TypingInv, FieldsReadRight, ScreenOK
        <5>2. field[w] = wanted[w]
          BY <5>1, ConcatEmptySeq
        <5>. QED
          BY <2>1, <2>2, <4>2, <5>2
      <4>. QED
        BY <4>1, <4>2
    <3>. QED
      BY <3>1, <3>2, <3>3
  <2>4. FieldsReadRight'
    BY <2>1, <2>3 DEF FieldsReadRight
  <2>. QED
    BY <2>1, <2>4
<1>. QED
  BY <1>2, <1>3

LEMMA NotTypedIs ==
    ASSUME TypingInv, NEW u \in Nat, NEW payload \in Finals, session' = NoSession,
           Live!NotTyped(u, Live!Of(u, payload))
    PROVE  Outcome(u) /\ FieldsReadRight' /\ DOMAIN field' = Windows
<1>. DEFINE words == Live!Of(u, payload)
<1>1. payload \in Seq(DOMAIN Bare) /\ Len(payload) \in Nat
  BY TypingAssumption, LenProperties
<1>2. /\ words \in Seq(Pieces) /\ Len(words) = Len(payload)
      /\ \A n \in 1..Len(payload) : words[n] = <<u, payload[n]>>
  BY <1>1, OfIs
<1>3. /\ ~Typed /\ Live!Sent(0, words) /\ Live!Leave(focus, words) /\ Live!Fate(u, "shown")
  BY SameNames DEF Live!NotTyped
<1>. HIDE DEF words
<1>4. focus \in Windows /\ \A w \in Windows : OpenWords(w) = <<>>
  BY <1>3, OpenWordsAre DEF TypingInv, ScreenOK
<1>5. Live!Sent(Live!Backspaces(OpenWords(focus), words), Live!Rest(OpenWords(focus), words))
  BY <1>2, <1>3, <1>4, NothingTyped
<1>6. FieldsReadRight' /\ DOMAIN field' = Windows
  BY <1>2, <1>3, <1>4, <1>5, CorrectedRead
<1>7. /\ \A n \in 1..Len(words) : words[n][1] = u
      /\ \A n \in 1..Len(payload) : Bare[words[n][2]] = Bare[payload[n]]
  BY <1>2
<1>8. Leaves(u, "shown", focus, words)
  BY <1>2, <1>3, <1>7 DEF Leaves
<1>. QED
  BY <1>2, <1>4, <1>6, <1>8 DEF Outcome

\* The words an outcome leaves as they are: focus has moved, or the session is abandoned.
LEMMA LeftIs ==
    ASSUME TypingInv, NEW u \in Nat, session' = NoSession, Live!Fate(u, "left"),
           UNCHANGED <<field, broken>>,
           IF Typed THEN Live!Leave(session.window, session.typed) ELSE wanted' = wanted
    PROVE  Outcome(u) /\ FieldsReadRight' /\ DOMAIN field' = Windows
<1>1. ~Typed'
  BY DEF Typed
<1>2. PICK w \in Windows, words \in Seq(Pieces) :
          /\ Live!Leave(w, words)
          /\ \A n \in 1..Len(words) : Typed /\ words[n][1] = uttered
  BY <1>1, LeaveTyped
<1>3. Leaves(u, "left", w, words)
  BY <1>2 DEF Leaves
<1>4. FieldsReadRight'
  BY <1>1, LeaveTyped
<1>. QED
  BY <1>2, <1>3, <1>4 DEF Outcome, TypingInv, ScreenOK

LEMMA GoneIs ==
    ASSUME TypingInv, NEW u \in Nat, session' = NoSession, ~Typed, Live!Fate(u, "gone"),
           UNCHANGED <<field, wanted, broken>>
    PROVE  Outcome(u) /\ FieldsReadRight' /\ DOMAIN field' = Windows
<1>1. ~Typed' /\ ScreenOK /\ focus \in Windows
  BY DEF Typed, TypingInv, ScreenOK
<1>2. FieldsReadRight'
  BY <1>1, LeaveTyped
<1>3. Live!Leave(focus, <<>>) /\ <<>> \in Seq(Pieces) /\ Len(<<>>) = 0
  BY <1>1, LeaveNothing, EmptySeq
<1>4. Leaves(u, "gone", focus, <<>>)
  BY <1>3 DEF Leaves
<1>. QED
  BY <1>1, <1>2, <1>3, <1>4 DEF Outcome, ScreenOK

LEMMA CorrectedIs ==
    ASSUME TypingInv, NEW u \in Nat, NEW words \in Seq(Pieces), NEW what \in {"shown", "gone"},
           session' = NoSession, Live!Corrected(u, words, what),
           \A n \in 1..Len(words) : words[n][1] = u,
           what = "gone" => words = <<>>,
           what = "shown" => \E payload \in Finals :
                /\ Len(words) = Len(payload)
                /\ \A n \in 1..Len(payload) : Bare[words[n][2]] = Bare[payload[n]]
    PROVE  Outcome(u) /\ FieldsReadRight' /\ DOMAIN field' = Windows
<1>. DEFINE target == Live!KeepFormatting(session.typed, words)
            V == {u, uttered}
<1>1. /\ Typed /\ Live!SameWindow(session) /\ Live!Leave(focus, target) /\ Live!Fate(u, what)
      /\ \/ Live!Sent(Live!Backspaces(session.typed, target), Live!Rest(session.typed, target))
         \/ Live!Failed(Live!Backspaces(session.typed, target), Live!Rest(session.typed, target))
  BY SameNames DEF Live!Corrected
<1>2. session # NoSession /\ focus \in Windows /\ session.typed \in Seq(Pieces)
      /\ \A n \in 1..Len(session.typed) : session.typed[n][1] \in V
  BY <1>1, OpenIs DEF Typed, TypingInv, ScreenOK, Opened, Sessions
<1>3. \A n \in 1..Len(words) : words[n][1] \in V
  OBVIOUS
<1>. HIDE DEF V
<1>4. /\ target \in Seq(Pieces) /\ Len(target) = Len(words)
      /\ \A n \in 1..Len(words) : Bare[target[n][2]] = Bare[words[n][2]]
      /\ \A n \in 1..Len(words) : target[n][1] \in V
  BY <1>2, <1>3, KeepIs
<1>. HIDE DEF target
<1>5. OpenWords(focus) = session.typed /\ \A w \in Windows : w # focus => OpenWords(w) = <<>>
  BY <1>1, <1>2, OpenWordsAre
<1>6. FieldsReadRight' /\ DOMAIN field' = Windows
  BY <1>1, <1>4, <1>5, CorrectedRead
<1>7. what = "gone" => target = <<>>
  BY <1>4, EmptySeq
<1>8. ASSUME what = "shown"
      PROVE  \E payload \in Finals :
                /\ Len(target) = Len(payload)
                /\ \A n \in 1..Len(payload) : Bare[target[n][2]] = Bare[payload[n]]
  <2>1. PICK payload \in Finals :
                /\ Len(words) = Len(payload)
                /\ \A n \in 1..Len(payload) : Bare[words[n][2]] = Bare[payload[n]]
    BY <1>8
  <2>. QED
    BY <1>4, <2>1
<1>9. \A n \in 1..Len(target) : target[n][1] = u \/ (Typed /\ target[n][1] = uttered)
  BY <1>1, <1>4 DEF V
<1>10. Leaves(u, what, focus, target)
  BY <1>1, <1>7, <1>8, <1>9 DEF Leaves
<1>. QED
  BY <1>2, <1>4, <1>6, <1>10 DEF Outcome

LEMMA FocusMovedIs ==
    ASSUME TypingInv, NEW u \in Nat, session' = NoSession, Live!FocusMoved(u)
    PROVE  Outcome(u) /\ FieldsReadRight' /\ DOMAIN field' = Windows
BY LeftIs, SameNames DEF Live!FocusMoved

LEMMA RetractIs ==
    ASSUME TypingInv, NEW u \in Nat, Live!Retract(u)
    PROVE  Outcome(u) /\ FieldsReadRight' /\ DOMAIN field' = Windows
<1>. USE SameNames
<1>1. session' = NoSession
  BY DEF Live!Retract
<1>2. CASE ~Typed /\ Live!Fate(u, "gone") /\ UNCHANGED Live!screenVars
  BY <1>1, <1>2, GoneIs DEF Live!screenVars
<1>3. CASE Live!FocusMoved(u)
  BY <1>1, <1>3, FocusMovedIs
<1>4. CASE Live!Corrected(u, <<>>, "gone")
  <2>. DEFINE none == <<>>
              gone == "gone"
  <2>1. /\ none \in Seq(Pieces) /\ none = <<>> /\ \A n \in 1..Len(none) : none[n][1] = u
        /\ gone \in {"shown", "gone"} /\ gone # "shown" /\ Live!Corrected(u, none, gone)
    BY <1>4, EmptySeq
  <2>. HIDE DEF none, gone
  <2>. QED
    BY <1>1, <2>1, CorrectedIs
<1>. QED
  BY <1>2, <1>3, <1>4 DEF Live!Retract

LEMMA FinishIs ==
    ASSUME TypingInv, NEW u \in Nat, Live!Finish(u)
    PROVE  Outcome(u) /\ FieldsReadRight' /\ DOMAIN field' = Windows
<1>. USE SameNames
<1>1. PICK payload \in Finals :
          \/ Live!NotTyped(u, Live!Of(u, payload)) \/ Live!FocusMoved(u)
          \/ Live!Corrected(u, Live!Of(u, payload), "shown")
  BY DEF Live!Finish
<1>2. session' = NoSession
  BY DEF Live!Finish
<1>3. CASE Live!NotTyped(u, Live!Of(u, payload))
  BY <1>2, <1>3, NotTypedIs
<1>4. CASE Live!FocusMoved(u)
  BY <1>2, <1>4, FocusMovedIs
<1>5. CASE Live!Corrected(u, Live!Of(u, payload), "shown")
  <2>. DEFINE words == Live!Of(u, payload)
  <2>1. payload \in Seq(DOMAIN Bare)
    BY TypingAssumption
  <2>2. /\ words \in Seq(Pieces) /\ Len(words) = Len(payload)
        /\ \A n \in 1..Len(payload) : words[n] = <<u, payload[n]>>
    BY <2>1, OfIs
  <2>. HIDE DEF words
  <2>3. /\ \A n \in 1..Len(words) : words[n][1] = u
        /\ \A n \in 1..Len(payload) : Bare[words[n][2]] = Bare[payload[n]]
    BY <2>2
  <2>4. Live!Corrected(u, words, "shown")
    BY <1>5 DEF words
  <2>. QED
    BY <1>2, <2>2, <2>3, <2>4, CorrectedIs
<1>. QED
  BY <1>1, <1>3, <1>4, <1>5

LEMMA DeliverIs ==
    ASSUME TypingInv, NEW u \in Nat, Live!Deliver(u)
    PROVE  Outcome(u) /\ FieldsReadRight' /\ DOMAIN field' = Windows
<1>1. CASE Live!Abandon(u)
  BY <1>1, LeftIs, SameNames DEF Live!Abandon
<1>. QED
  BY <1>1, RetractIs, FinishIs DEF Live!Deliver

-----------------------------------------------------------------------------
(* The steps that settle.                                                     *)

LEMMA FateIs ==
    ASSUME NEW u, NEW what, Live!Fate(u, what)
    PROVE  \A v \in Utterances :
              fate'[v] = IF fate[v] = "robbed" THEN "robbed"
                         ELSE IF v = u THEN what
                         ELSE IF v = session.utterance /\ v = uttered /\ talk = "speaking" THEN "robbed"
                         ELSE fate[v]
BY SameNames DEF Live!Fate

\* The utterance itself is settled, at its end or by a capture without speech.
LEMMA OwnOutcomeKeeps ==
    ASSUME TypingInv, Outcome(uttered), FieldsReadRight', DOMAIN field' = Windows,
           uttered \in Utterances, Ongoing(uttered) \/ fate[uttered] = "robbed",
           talk' = "idle", UNCHANGED <<uttered, thread, paused, focus, after>>
    PROVE  TypingInv'
<1>0. ScreenOK /\ uttered \in Nat /\ uttered # 0
  BY DEF TypingInv, ScreenOK, Utterances
<1>1. PICK what \in {"shown", "gone", "left"} : \E w \in Windows, words \in Seq(Pieces) :
          Leaves(uttered, what, w, words)
  BY DEF Outcome
<1>2. PICK w \in Windows, words \in Seq(Pieces) : Leaves(uttered, what, w, words)
  BY <1>1
<1>3. /\ session' = NoSession /\ Live!Leave(w, words) /\ (what = "gone" => words = <<>>)
      /\ \A n \in 1..Len(words) : words[n][1] = uttered
      /\ \A v \in Utterances : v # uttered => ~Speaks(words, v)
  BY <1>2 DEF Leaves, Speaks
<1>4. \A v \in Utterances : fate'[v] = IF v # uttered \/ fate[v] = "robbed" THEN fate[v] ELSE what
  <2>1. Live!Fate(uttered, what)
    BY <1>2 DEF Leaves
  <2>. QED
    BY <2>1, FateIs
<1>5. ScreenOK'
  <2>1. wanted' \in [Windows -> Seq(Pieces)]
    BY <1>0, <1>3, LeaveIs
  <2>. QED
    BY <1>0, <1>3, <2>1 DEF ScreenOK
<1>6. Opened'
  BY <1>3 DEF Opened
<1>7. Begun'
  BY <1>0, <1>4 DEF TypingInv, Begun
<1>8. Unsaid'
  <2>1. ASSUME NEW v \in Utterances, Ongoing(v)', NEW x \in Windows PROVE ~Speaks(wanted'[x], v)
    <3>1. v > uttered /\ v \in Nat
      BY <1>3, <2>1 DEF Ongoing, Utterances
    <3>2. v # uttered /\ ~Speaks(wanted[x], v)
      BY <1>0, <3>1 DEF TypingInv, Unsaid, Ongoing
    <3>. QED
      BY <1>0, <1>3, <3>2, LeaveStands
  <2>. QED
    BY <2>1 DEF Unsaid, Speaks
<1>9. Settles'
  <2>1. ASSUME NEW v \in Utterances, v # uttered
        PROVE  /\ fate'[v] = "shown" => StandsOnce(v)'
               /\ fate'[v] = "gone" => \A x \in Windows : ~Speaks(wanted'[x], v)
    <3>1. fate'[v] = fate[v] /\ ~Speaks(words, v)
      BY <1>3, <1>4, <2>1
    <3>2. /\ fate[v] = "shown" => StandsOnce(v)
          /\ fate[v] = "gone" => \A x \in Windows : ~Speaks(wanted[x], v)
      BY DEF TypingInv, Settles
    <3>. QED
      BY <1>0, <1>3, <3>1, <3>2, LeaveStands
  <2>2. /\ fate'[uttered] = "shown" => StandsOnce(uttered)'
        /\ fate'[uttered] = "gone" => \A x \in Windows : ~Speaks(wanted'[x], uttered)
    <3>. SUFFICES ASSUME fate'[uttered] \in {"shown", "gone"}
                  PROVE  /\ fate'[uttered] = "shown" => StandsOnce(uttered)'
                         /\ fate'[uttered] = "gone" =>
                                \A x \in Windows : ~Speaks(wanted'[x], uttered)
      OBVIOUS
    <3>1. fate[uttered] # "robbed" /\ fate'[uttered] = what
      BY <1>4
    <3>2. \A x \in Windows : ~Speaks(wanted[x], uttered)
      BY <3>1 DEF TypingInv, Unsaid
    <3>3. ASSUME what = "shown" PROVE StandsOnce(uttered)'
      <4>1. PICK payload \in Finals :
                /\ Len(words) = Len(payload)
                /\ \A n \in 1..Len(payload) : Bare[words[n][2]] = Bare[payload[n]]
        BY <1>2, <3>3 DEF Leaves
      <4>2. \A n \in 1..Len(payload) : words[n][1] = uttered /\ Bare[words[n][2]] = Bare[payload[n]]
        BY <1>3, <4>1
      <4>. QED
        BY <1>0, <1>3, <3>2, <4>1, <4>2, LeaveShows
    <3>4. ASSUME what = "gone" PROVE \A x \in Windows : ~Speaks(wanted'[x], uttered)
      <4>1. ~Speaks(words, uttered)
        BY <1>3, <3>4, EmptySeq DEF Speaks
      <4>. QED
        BY <1>0, <1>3, <3>2, <4>1, LeaveStands
    <3>. QED
      BY <3>1, <3>3, <3>4
  <2>. QED
    BY <2>1, <2>2 DEF Settles, Speaks
<1>10. Heeds'
  <2>1. \A v \in Utterances : v # session'.utterance
    BY <1>3 DEF NoSession, Utterances
  <2>. QED
    BY <2>1 DEF TypingInv, Heeds
<1>. QED
  BY <1>5, <1>6, <1>7, <1>8, <1>9, <1>10 DEF TypingInv

\* A text another thread delivers takes the session, and settles no utterance.
LEMMA ForeignKeeps ==
    ASSUME TypingInv, Live!DeliverHeld
    PROVE  TypingInv'
<1>0. ScreenOK /\ uttered \in Nat /\ 0 \notin Utterances
  BY DEF TypingInv, ScreenOK, Utterances
<1>1. Live!Deliver(0) /\ UNCHANGED <<uttered, talk, thread, paused, focus, after>>
  BY DEF Live!DeliverHeld, Live!loopVars
<1>2. Outcome(0) /\ FieldsReadRight' /\ DOMAIN field' = Windows
  BY <1>1, DeliverIs
<1>3. PICK what \in {"shown", "gone", "left"} : \E w \in Windows, words \in Seq(Pieces) :
          Leaves(0, what, w, words)
  BY <1>2 DEF Outcome
<1>4. PICK w \in Windows, words \in Seq(Pieces) : Leaves(0, what, w, words)
  BY <1>3
<1>5. /\ session' = NoSession /\ Live!Leave(w, words)
      /\ \A n \in 1..Len(words) : words[n][1] = 0 \/ (Typed /\ words[n][1] = uttered)
      /\ \A v \in Utterances : v # uttered \/ session = NoSession => ~Speaks(words, v)
  BY <1>0, <1>4 DEF Leaves, Speaks, Typed
<1>6. \A v \in Utterances :
          fate'[v] = IF fate[v] # "robbed" /\ v = session.utterance /\ v = uttered /\ talk = "speaking"
                     THEN "robbed" ELSE fate[v]
  <2>1. Live!Fate(0, what)
    BY <1>4 DEF Leaves
  <2>. QED
    BY <1>0, <2>1, FateIs
<1>7. session # NoSession => session.utterance = uttered /\ fate[uttered] \in {"open", "held"}
  BY DEF TypingInv, Opened
<1>8. ScreenOK'
  <2>1. wanted' \in [Windows -> Seq(Pieces)]
    BY <1>0, <1>5, LeaveIs
  <2>. QED
    BY <1>0, <1>1, <1>2, <1>5, <2>1 DEF ScreenOK
<1>9. Opened'
  BY <1>5 DEF Opened
<1>10. Begun'
  BY <1>0, <1>1, <1>6 DEF TypingInv, Begun
<1>11. Unsaid'
  <2>1. ASSUME NEW v \in Utterances, Ongoing(v)', NEW x \in Windows PROVE ~Speaks(wanted'[x], v)
    <3>1. v > uttered \/ (v = uttered /\ talk = "speaking" /\ fate'[v] # "robbed")
      BY <1>1, <1>5, <2>1 DEF Ongoing
    <3>2. v # uttered \/ session = NoSession
      BY <1>0, <1>6, <1>7, <3>1 DEF Utterances
    <3>3. Ongoing(v)
      BY <1>6, <3>1 DEF Ongoing
    <3>4. ~Speaks(words, v) /\ ~Speaks(wanted[x], v)
      BY <1>5, <3>2, <3>3 DEF TypingInv, Unsaid
    <3>. QED
      BY <1>0, <1>5, <3>4, LeaveStands
  <2>. QED
    BY <2>1 DEF Unsaid, Speaks
<1>12. Settles'
  <2>1. ASSUME NEW v \in Utterances, fate'[v] \in {"shown", "gone"}
        PROVE  /\ fate'[v] = "shown" => StandsOnce(v)'
               /\ fate'[v] = "gone" => \A x \in Windows : ~Speaks(wanted'[x], v)
    <3>1. fate'[v] = fate[v]
      BY <1>6, <2>1
    <3>2. ~Speaks(words, v)
      BY <1>5, <1>7, <2>1, <3>1
    <3>3. /\ fate[v] = "shown" => StandsOnce(v)
          /\ fate[v] = "gone" => \A x \in Windows : ~Speaks(wanted[x], v)
      BY DEF TypingInv, Settles
    <3>. QED
      BY <1>0, <1>5, <3>1, <3>2, <3>3, LeaveStands
  <2>. QED
    BY <2>1 DEF Settles, Speaks
<1>13. Heeds'
  <2>1. \A v \in Utterances : v # session'.utterance
    BY <1>5 DEF NoSession, Utterances
  <2>. QED
    BY <1>1, <2>1 DEF TypingInv, Heeds
<1>. QED
  BY <1>2, <1>8, <1>9, <1>10, <1>11, <1>12, <1>13 DEF TypingInv

LEMMA EndsKeeps ==
    ASSUME TypingInv, Live!Ends \/ Live!Silence
    PROVE  TypingInv'
<1>. USE SameNames
<1>0. uttered \in Nat /\ ScreenOK
  BY DEF TypingInv, ScreenOK
<1>1. CASE Live!Ends /\ Live!Deliver(uttered)
  <2>1. Outcome(uttered) /\ FieldsReadRight' /\ DOMAIN field' = Windows
    BY <1>0, <1>1, DeliverIs
  <2>2. /\ talk = "speaking" /\ talk' = "idle" /\ UNCHANGED <<uttered, thread, paused, focus, after>>
    BY <1>1 DEF Live!Ends, Live!worldVars
  <2>3. uttered \in Utterances /\ (Ongoing(uttered) \/ fate[uttered] = "robbed")
    BY <2>2 DEF TypingInv, Begun, Ongoing
  <2>. QED
    BY <2>1, <2>2, <2>3, OwnOutcomeKeeps
<1>2. CASE Live!Silence
  <2>1. /\ talk = "idle" /\ session # NoSession /\ Live!Retract(session.utterance)
        /\ UNCHANGED <<uttered, talk, thread, paused, focus, after>>
    BY <1>2 DEF Live!Silence, Live!loopVars, Live!worldVars
  <2>2. session.utterance = uttered /\ uttered \in Utterances /\ Ongoing(uttered)
    BY <2>1, OpenIs DEF Ongoing
  <2>3. Outcome(uttered) /\ FieldsReadRight' /\ DOMAIN field' = Windows
    BY <1>0, <2>1, <2>2, RetractIs
  <2>. QED
    BY <2>1, <2>2, <2>3, OwnOutcomeKeeps
\* Held for the consumer, with the session untouched.
<1>3. CASE Live!Ends /\ Live!Fate(uttered, "held") /\ UNCHANGED <<session, Live!screenVars>>
  <2>1. /\ talk = "speaking" /\ talk' = "idle"
        /\ UNCHANGED <<uttered, thread, paused, focus, after, session, field, wanted, broken>>
    BY <1>3 DEF Live!Ends, Live!worldVars, Live!screenVars
  <2>2. \A v \in Utterances :
            fate'[v] = IF v # uttered \/ fate[v] = "robbed" THEN fate[v] ELSE "held"
    BY <1>3, FateIs
  <2>3. ScreenOK' /\ FieldsReadRight'
    BY <1>0, <2>1, ScreenStays DEF ScreenOK, TypingInv
  <2>4. Opened' /\ Begun'
    BY <1>0, <2>1, <2>2 DEF TypingInv, Opened, Begun
  <2>5. Unsaid'
    <3>1. \A v \in Utterances : Ongoing(v)' => Ongoing(v)
      BY <2>1 DEF Ongoing
    <3>. QED
      BY <2>1, <3>1 DEF TypingInv, Unsaid
  <2>6. Settles'
    <3>1. \A u \in Utterances : StandsOnce(u)' <=> StandsOnce(u)
      BY <2>1 DEF StandsOnce, Stands
    <3>2. \A u \in Utterances : fate'[u] \in {"shown", "gone"} => fate'[u] = fate[u]
      BY <2>2
    <3>. QED
      BY <2>1, <3>1, <3>2 DEF TypingInv, Settles
  <2>7. Heeds'
    BY <2>1 DEF TypingInv, Heeds
  <2>. QED
    BY <2>3, <2>4, <2>5, <2>6, <2>7 DEF TypingInv
<1>. QED
  BY <1>1, <1>2, <1>3 DEF Live!Ends

\* The next utterance replaces a session still open.
LEMMA BeginKeeps ==
    ASSUME TypingInv, Live!Begin
    PROVE  TypingInv'
<1>. USE SameNames
<1>0. ScreenOK /\ uttered \in Nat /\ MaxUtterances \in Nat
  BY TypingAssumption DEF TypingInv, ScreenOK
<1>1. /\ uttered < MaxUtterances /\ uttered' = uttered + 1 /\ talk' = "speaking"
      /\ session' = [utterance |-> uttered', typed |-> <<>>, window |-> "unset",
                     recent |-> <<>>, aged |-> 0, stopped |-> FALSE]
      /\ (IF Typed THEN Live!Leave(session.window, session.typed) ELSE wanted' = wanted)
      /\ UNCHANGED <<thread, paused, focus, field, fate, broken, after>>
  BY DEF Live!Begin, Live!worldVars, Typed
<1>2. uttered' \in Utterances /\ uttered' \in Nat
  BY <1>0, <1>1 DEF Utterances
<1>3. /\ session' \in Sessions /\ session'.utterance = uttered' /\ session'.typed = <<>>
      /\ session'.aged <= Len(session'.recent) /\ session' # NoSession
  <2>1. <<>> \in Seq(Pieces) /\ <<>> \in Seq(Open) /\ Len(<<>>) = 0
    BY EmptySeq
  <2>2. session'.utterance # 0
    BY <1>0, <1>1
  <2>. QED
    BY <1>1, <1>2, <2>1, <2>2 DEF Sessions, NoSession
<1>4. ~Typed'
  BY <1>3 DEF Typed
<1>5. FieldsReadRight'
  BY <1>1, <1>4, LeaveTyped
<1>6. PICK w \in Windows, words \in Seq(Pieces) :
          /\ Live!Leave(w, words)
          /\ \A n \in 1..Len(words) : Typed /\ words[n][1] = uttered
  BY <1>1, <1>4, LeaveTyped
<1>7. \A v \in Utterances : v # uttered \/ session = NoSession => ~Speaks(words, v)
  BY <1>6 DEF Speaks, Typed
<1>8. ScreenOK'
  <2>1. wanted' \in [Windows -> Seq(Pieces)]
    BY <1>0, <1>6, LeaveIs
  <2>. QED
    BY <1>0, <1>1, <1>2, <1>3, <2>1 DEF ScreenOK
<1>9. fate'[uttered'] = "open" /\ thread'[uttered'] = Live!NoCall
  BY <1>0, <1>1, <1>2 DEF TypingInv, Begun
<1>10. Opened'
  BY <1>2, <1>3, <1>9, EmptySeq DEF Opened
<1>11. Begun'
  <2>1. ASSUME NEW v \in Utterances, v > uttered'
        PROVE  fate'[v] = "open" /\ thread'[v] = Live!NoCall
    <3>1. v > uttered
      BY <1>0, <1>1, <2>1 DEF Utterances
    <3>. QED
      BY <1>1, <3>1 DEF TypingInv, Begun
  <2>. QED
    BY <1>2, <1>9, <2>1 DEF Begun
<1>12. Unsaid'
  <2>1. ASSUME NEW v \in Utterances, Ongoing(v)', NEW x \in Windows PROVE ~Speaks(wanted'[x], v)
    <3>1. v > uttered /\ v # uttered
      BY <1>0, <1>1, <2>1 DEF Ongoing, Utterances
    <3>2. ~Speaks(wanted[x], v) /\ ~Speaks(words, v)
      BY <1>7, <3>1 DEF TypingInv, Unsaid, Ongoing
    <3>. QED
      BY <1>0, <1>6, <3>2, LeaveStands
  <2>. QED
    BY <2>1 DEF Unsaid, Speaks
<1>13. Settles'
  <2>1. ASSUME NEW v \in Utterances, fate'[v] \in {"shown", "gone"}
        PROVE  /\ fate'[v] = "shown" => StandsOnce(v)'
               /\ fate'[v] = "gone" => \A x \in Windows : ~Speaks(wanted'[x], v)
    <3>1. session # NoSession => fate[uttered] \in {"open", "held"}
      BY DEF TypingInv, Opened
    <3>2. ~Speaks(words, v) /\ fate'[v] = fate[v]
      BY <1>1, <1>7, <2>1, <3>1
    <3>3. /\ fate[v] = "shown" => StandsOnce(v)
          /\ fate[v] = "gone" => \A x \in Windows : ~Speaks(wanted[x], v)
      BY DEF TypingInv, Settles
    <3>. QED
      BY <1>0, <1>6, <3>2, <3>3, LeaveStands
  <2>. QED
    BY <2>1 DEF Settles, Speaks
<1>14. Heeds'
  <2>1. \A v \in Utterances : v = session'.utterance => thread'[v].at # "answered"
    BY <1>3, <1>9 DEF Live!NoCall
  <2>. QED
    BY <1>1, <2>1 DEF TypingInv, Heeds
<1>. QED
  BY <1>5, <1>8, <1>10, <1>11, <1>12, <1>13, <1>14 DEF TypingInv

LEMMA TypingKept == TypingInv /\ [Live!Next]_Live!vars => TypingInv'
<1>. SUFFICES ASSUME TypingInv, [Live!Next]_Live!vars PROVE TypingInv'
  OBVIOUS
<1>1. CASE Live!Begin
  BY <1>1, BeginKeeps
<1>2. CASE Live!Ends \/ Live!Silence
  BY <1>2, EndsKeeps
<1>3. CASE Live!DeliverHeld
  BY <1>3, ForeignKeeps
<1>4. CASE Live!Ask \/ Live!MovesFocus \/ Live!Pauses \/ UNCHANGED Live!vars
  BY <1>4, QuietKeeps
<1>5. ASSUME NEW u \in Utterances, Live!Preview(u) PROVE TypingInv'
  BY <1>5, QuietKeeps, PreviewKeeps DEF Live!Preview
<1>. QED
  BY <1>1, <1>2, <1>3, <1>4, <1>5, SameNames DEF Live!Next

LEMMA TypingHolds == Live!Spec => []TypingInv
<1>1. Live!Init => TypingInv
  BY TypingStarts
<1>2. TypingInv /\ [Live!Next]_Live!vars => TypingInv'
  BY TypingKept
<1>. QED
  BY <1>1, <1>2, PTL DEF Live!Spec

\* ScreenIsRight (live_type.rs): whatever is previewed, corrected, retracted or
\* delivered by another thread, in whatever order, the fields read as if every final had
\* been put there once; a final is on screen once and in one field, and a dropped
\* utterance is not.
THEOREM WhatWasSaidIsRead == Live!Spec => []ScreenIsRight
<1>1. TypingInv => ScreenIsRight
  BY TypingInvSays
<1>. QED
  BY <1>1, TypingHolds, PTL

\* PauseStopsTyping (live_type.rs): at most one batch is typed after a pause has begun,
\* that of the preview which had read the flags before.
THEOREM PauseIsHeeded == Live!Spec => []PauseStopsTyping
<1>1. TypingInv => PauseStopsTyping
  BY TypingInvSays
<1>. QED
  BY <1>1, TypingHolds, PTL

=============================================================================
