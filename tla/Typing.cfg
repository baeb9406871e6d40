\* Two utterances, three previews, one delivery by another thread or one pause.  A
\* readable field and an opaque one; two pastes, two commands, and one input, focus
\* move or Return.  Undo, a caret move and a rewrite treat the anchors as "word" and
\* "select" do.
SPECIFICATION TypingSpec
CONSTANTS
    Windows = {w1, w2}
    Settled <- MCSettled
    Open <- MCOpen
    Finals <- MCFinals
    Bare <- MCBare
    MaxUtterances = 2
    MaxPreviews = 3
    MaxForeign = 1
    MaxPauses = 1
    Fields = {doc, term}
    Opaque = {term}
    Commands = {"scratch", "change", "newline", "select", "word", "enter", "iris"}
    None = None
    MaxAnchors = 2
    MaxPastes = 2
    MaxEvents = 1
    MaxEdits = 2
    MaxText = 3
SYMMETRY Symmetry
ACTION_CONSTRAINT OneDisturbance
INVARIANTS    EditsSpareTyping
CHECK_DEADLOCK FALSE
