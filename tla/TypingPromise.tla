--------------------------- MODULE TypingPromise ---------------------------
(* What live typing promises the user who speaks, whatever is previewed,      *)
(* corrected, delivered by another thread or paused meanwhile: what           *)
(* LiveTyping keeps.                                                          *)
EXTENDS Naturals, Sequences

CONSTANTS
    Windows,     \* fields that can have focus
    Settled,     \* texts of committed chunks a preview may carry, <<>> for none
    Open,        \* previews of the speech after them
    Finals,      \* final payloads
    Bare,        \* a word without its case and punctuation
    MaxUtterances   \* bound

ASSUME TypingAssumption ==
    /\ "unset" \notin Windows /\ MaxUtterances \in Nat
    /\ Settled \cup Open \cup Finals \subseteq Seq(DOMAIN Bare)

VARIABLES
    session,   \* SESSION; NoSession, or the utterance, what was typed and where, the
               \* recent previews and how many of them are 600 ms old, and `stopped'
    field,     \* what Always has put into each field
    wanted,    \* history: what each field should hold apart from the open session's words
    fate,      \* history: what became of each utterance on screen
    broken,    \* history: keystrokes have failed half-way
    after      \* history: batches typed since the present pause began

Utterances == 1..MaxUtterances
NoSession  == [utterance |-> 0]
Typed      == session # NoSession /\ session.typed # <<>>

OpenWords(w) == IF Typed /\ session.window = w THEN session.typed ELSE <<>>

\* Typing word by word, correcting and removing by counted Backspaces ends with the
\* same fields as putting every final there once and in order, and in between a field
\* holds exactly what the open session believes it typed.
FieldsReadRight == ~broken => \A w \in Windows : field[w] = wanted[w] \o OpenWords(w)

\* All the words of utterance u on screen: together, in field w, after k others, and
\* those of the payload but for case and punctuation.
Says(u, w, k, payload) ==
    /\ \A v \in Windows : \A n \in DOMAIN field[v] :
          field[v][n][1] = u <=> v = w /\ n \in (k + 1)..(k + Len(payload))
    /\ \A n \in DOMAIN payload :
          k + n \in DOMAIN field[w] /\ Bare[field[w][k + n][2]] = Bare[payload[n]]

\* An utterance that was delivered is on screen once, in one field; one that was dropped
\* is not on screen, whatever previews were still under way.
SaidOnce ==
    ~broken => \A u \in Utterances :
        /\ fate[u] = "shown" =>
              \E w \in Windows, payload \in Finals :
                 \E k \in 0..Len(field[w]) : Says(u, w, k, payload)
        /\ fate[u] = "gone" =>
              \A w \in Windows : \A n \in DOMAIN field[w] : field[w][n][1] # u

\* What is on the screen is what was said: both of the above.
ScreenIsRight == FieldsReadRight /\ SaidOnce

\* A pause stops the typing: the preview that had read the flags before it is the last.
PauseStopsTyping == after <= 1

=============================================================================
