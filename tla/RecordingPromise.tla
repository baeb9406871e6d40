-------------------------- MODULE RecordingPromise --------------------------
(* What an utterance promises, whatever is heard, scored and answered while   *)
(* it lasts: what RecordingLoop keeps.                                        *)
EXTENDS Naturals, Sequences

VARIABLES
    backend,  \* cfg.transcriber_backend
    u,        \* the locals of record_with_local_vad
    threads,  \* speculation threads: what each transcribes and for which generation
    outcome   \* the RecordResult with the text it carries

Ids(s) == {s[i] : i \in DOMAIN s}

Delivered == outcome.kind \in {"Speech", "Preempted"}

\* What is delivered is every voiced frame from the first one of the onset on, once
\* and in order, less what was cut as somebody else's, whichever source supplied the
\* text.  (A tail-monitor cut, a cut in a pause on Groq and a slot poisoned by a late
\* write of a discarded speculation are the exceptions.)
InOrder(s) == \A i, j \in DOMAIN s : i < j => s[i] < s[j]
EveryWordOnce ==
    Delivered /\ ~u.tailCut /\ ~outcome.stale /\ ~(backend = "groq" /\ u.cutInPause)
        => /\ InOrder(outcome.text)
           /\ Ids(outcome.text) \cap Ids(u.words) = Ids(u.words) \ u.cut

\* "A foreign voice never even transcribes": while a gate nobody satisfied is asked
\* for, no chunk, no speculation and no result exists.
UnverifiedIsNeverTranscribed ==
    u.gate /\ ~u.vouched => u.chunks = 0 /\ threads = {} /\ ~Delivered

=============================================================================
