\* Three chunks: a late one between two others, threads that never answer.
CONSTANTS
    MaxChunks = 3
    Answers = {"words", "nothing", "error"}
SPECIFICATION FairSpec
INVARIANTS AudioOrResult MissingWordsAreCued
 
CHECK_DEADLOCK FALSE
