----------------------------- MODULE Transcript -----------------------------
(* What a long dictation promises its user, without threads, retries or       *)
(* audio: the chunks are spoken, then settled one after the other in the order *)
(* of the speech, each as words, as silence or as missing, and the whole is    *)
(* published once, marked when a part of it is missing.                        *)
EXTENDS Naturals, Sequences

CONSTANT MaxChunks   \* bound: chunks of one dictation

VARIABLES
    said,      \* chunks spoken
    settled,   \* chunks decided, a prefix of the spoken ones
    text,      \* chunks whose words are in the transcript, in order
    quiet,     \* chunks without words
    missing,   \* chunks given up
    tail,      \* the stretch after the last chunk: "open" while the user speaks
    outcome    \* "none" until published

vars == <<said, settled, text, quiet, missing, tail, outcome>>

Init ==
    /\ said = 0 /\ settled = 0
    /\ text = <<>> /\ quiet = {} /\ missing = {}
    /\ tail = "open" /\ outcome = "none"

Speak ==
    /\ tail = "open" /\ said < MaxChunks
    /\ said' = said + 1
    /\ UNCHANGED <<settled, text, quiet, missing, tail, outcome>>

Stop ==
    /\ tail = "open" /\ said > 0
    /\ tail' \in {"words", "nothing", "lost"}
    /\ UNCHANGED <<said, settled, text, quiet, missing, outcome>>

\* The next chunk, and only that one, goes to one of the three places.
Settle ==
    /\ tail # "open" /\ settled < said
    /\ settled' = settled + 1
    /\ \/ text' = Append(text, settled') /\ UNCHANGED <<quiet, missing>>
       \/ quiet' = quiet \cup {settled'} /\ UNCHANGED <<text, missing>>
       \/ missing' = missing \cup {settled'} /\ UNCHANGED <<text, quiet>>
    /\ UNCHANGED <<said, tail, outcome>>

Worded == text # <<>> \/ tail = "words"
Whole  == missing = {} /\ tail # "lost"

Publish ==
    /\ tail # "open" /\ settled = said /\ outcome = "none"
    /\ outcome' = IF Worded THEN (IF Whole THEN "complete" ELSE "incomplete")
                            ELSE (IF Whole THEN "noise" ELSE "lost")
    /\ UNCHANGED <<said, settled, text, quiet, missing, tail>>

Next == Speak \/ Stop \/ Settle \/ Publish

Spec == Init /\ [][Next]_vars

\* A dictation that has ended is settled and published.
FairSpec == Spec /\ WF_vars(Settle) /\ WF_vars(Publish)

=============================================================================
