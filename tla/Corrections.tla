----------------------------- MODULE Corrections -----------------------------
(* What the user teaches (SPEC.md 9b): the pairs "wrong -> right" that reach  *)
(* glossary.json from the hotkey, the dialog, the second opinion, a voice     *)
(* edit and reviews (correction.rs), the import and the counts written beside *)
(* them (vocab.rs, glossary.rs), the cache its readers share, and the queue   *)
(* of pairs that wait for a review (correction_queue.rs), which the command   *)
(* line opens too.                                                            *)
EXTENDS Naturals, FiniteSets

CONSTANTS
    Words,      \* the words a correction is about
    Threads,    \* threads of the daemon that teach, import or review
    Readers,    \* threads of the daemon that look words up
    MaxPending, \* MAX_PENDING
    MaxIds,     \* bound: corrections ever queued
    Budgets     \* bound: jobs begun (teach, review), words counted (count) and
                \* kills, failed writes, edits by hand (fault) of one behaviour

Workers == Threads \cup {"cli", "counter"}

ASSUME TeachingAssumption ==
    /\ Threads \cap {"cli", "counter", "none"} = {} /\ MaxPending \in Nat \ {0} /\ MaxIds \in Nat
    /\ Budgets \subseteq [teach : Nat, review : Nat, count : Nat, fault : Nat]

Ids    == 1..MaxIds      \* a Uuid; the smaller was queued earlier
Pairs  == {p \in Words \X Words : p[1] # p[2]}
Rev(p) == <<p[2], p[1]>>
NoPair == <<>>

VARIABLES
    file,    \* glossary.json: "absent", "empty", "partial" or "whole", its pairs, its mtime
    stamps,  \* modification times used so far
    cache,   \* GlossaryCache: its pairs and the mtime it was loaded at
    look,    \* each reader: its step, the mtime it saw, the pairs it read
    work,    \* each worker: its step, its job, what it read
    queue,   \* the daemon's queue: loaded yet, locked by, the pending ids
    disk,    \* the ids in pending_corrections.json
    other,   \* the ids the command line has in memory
    pair,    \* the pair of each id
    counts,  \* words counted; of them waiting (PENDING_BUMPS), in a flush, written
    left,       \* what is left of the budget
    announced,  \* history: ids the clients were told of
    gone,       \* history: ids decided, evicted, stale or cleared
    applied,    \* history: ids whose pair went to the glossary
    meddled     \* history: a write of the queue failed, or two processes wrote it

glossary == <<file, stamps, cache>>
review   == <<queue, disk, other, pair, announced, gone, applied, meddled>>
vars == <<glossary, look, work, review, counts, left>>

Task(s, j, p, i) == [step |-> s, job |-> j, pair |-> p, snap |-> {}, id |-> i]
Idle   == Task("idle", "none", NoPair, 0)
Empty  == [pairs |-> {}, mtime |-> 0]
NoLook == [step |-> "idle", pairs |-> {}, mtime |-> 0]

Init ==
    /\ \E S \in SUBSET Pairs :
          /\ \A p \in S : Rev(p) \notin S
          /\ file \in {[is |-> "absent", pairs |-> {}, mtime |-> 0],
                       [is |-> "whole", pairs |-> S, mtime |-> 1]}
    /\ stamps = 1 /\ cache = Empty
    /\ look = [r \in Readers |-> NoLook] /\ work = [t \in Workers |-> Idle]
    /\ queue = [loaded |-> FALSE, by |-> "none", ids |-> {}]
    /\ disk = {} /\ other = {} /\ pair = [i \in Ids |-> NoPair]
    /\ counts = [made |-> 0, waiting |-> 0, taken |-> 0, written |-> 0]
    /\ left \in Budgets
    /\ announced = {} /\ gone = {} /\ applied = {} /\ meddled = FALSE

At(t, s)   == work[t].step = s
Goes(t, s) == work' = [work EXCEPT ![t].step = s]
Takes(t, task) == work' = [work EXCEPT ![t] = task]
Ends(t)    == Takes(t, Idle)
Spend(what) == left[what] > 0 /\ left' = [left EXCEPT ![what] = @ - 1]

\* Every write leaves a modification time of its own.
Becomes(is, pairs) ==
    /\ stamps' = stamps + 1
    /\ file' = [is |-> is, pairs |-> pairs, mtime |-> stamps + 1]

-----------------------------------------------------------------------------
(* apply_pairs_to_glossary, add_or_bump_term, merge_into_glossary and         *)
(* flush_bumps_to: read, change, write back; no lock but the flush's own.     *)

\* A pair that corrects back what was learned forgets it and is not learned.
LearnAlways(known, p) == known \cup {p}    \* mutant
Learn(known, p) == IF Rev(p) \in known THEN known \ {Rev(p)} ELSE known \cup {p}

Changed(t) == IF work[t].job = "apply" THEN Learn(file.pairs, work[t].pair) ELSE file.pairs

\* The counts return to those recorded meanwhile.
PutBackOver(c) == [c EXCEPT !.waiting = c.taken, !.taken = 0]    \* mutant
PutBack(c)     == [c EXCEPT !.waiting = @ + c.taken, !.taken = 0]
Written(c)     == [c EXCEPT !.written = @ + c.taken, !.taken = 0]

Begins(t, j, p) ==
    /\ At(t, "idle") /\ t \in Threads /\ Spend("teach") /\ Takes(t, Task("read", j, p, 0))
    /\ UNCHANGED <<glossary, look, review, counts>>

\* With auto-learn: the corrected selection, the second opinion on it, a voice edit.
Capture(t)       == \E p \in Pairs : Begins(t, "apply", p)
SecondOpinion(t) == \E p \in Pairs : Begins(t, "apply", p)
VoiceLesson(t)   == \E p \in Pairs : Begins(t, "apply", p)
\* The dialog: the word of the last transcript it resembles, or a new term.
Dialog(t)      == Begins(t, "term", NoPair) \/ \E p \in Pairs : Begins(t, "apply", p)
Import(t)      == Begins(t, "import", NoPair)

Teach(t) == Capture(t) \/ SecondOpinion(t) \/ VoiceLesson(t) \/ Dialog(t) \/ Import(t)

Snaps(t, s) == work' = [work EXCEPT ![t].snap = Changed(t), ![t].step = s]

\* An empty file is an empty glossary, but not for the counts; a term that is there
\* already and a count of a word that is not leave the file alone.
ReadFile(t) ==
    /\ At(t, "read")
    /\ IF file.is \in (IF work[t].job = "count" THEN {"whole"} ELSE {"absent", "empty", "whole"})
       THEN /\ Snaps(t, IF work[t].job \in {"apply", "term"} THEN "truncate" ELSE "rename")
            /\ UNCHANGED counts
       ELSE Ends(t) /\ counts' = IF work[t].job = "count" THEN PutBack(counts) ELSE counts
    /\ UNCHANGED <<glossary, look, review, left>>
NothingNew(t) ==
    /\ At(t, "read") /\ work[t].job \in {"import", "count"} /\ file.is = "whole"
    /\ Ends(t)
    /\ counts' = IF work[t].job = "count" THEN Written(counts) ELSE counts
    /\ UNCHANGED <<glossary, look, review, left>>

\* std::fs::write truncates, then fills; a write that fails leaves what it wrote.
Truncate(t) ==
    /\ At(t, "truncate") /\ Becomes("empty", {}) /\ Goes(t, "fill")
    /\ UNCHANGED <<cache, look, review, counts, left>>
Fill(t) ==
    /\ At(t, "fill")
    /\ \/ Becomes("whole", work[t].snap) /\ Goes(t, "invalidate") /\ UNCHANGED left
       \/ Becomes("partial", {}) /\ Ends(t) /\ Spend("fault")
    /\ UNCHANGED <<cache, look, review, counts>>
\* write_atomic.
Rename(t) ==
    /\ At(t, "rename")
    /\ \/ /\ Becomes("whole", work[t].snap) /\ Goes(t, "invalidate")
          /\ counts' = IF work[t].job = "count" THEN Written(counts) ELSE counts
          /\ UNCHANGED left
       \/ /\ Spend("fault") /\ Ends(t) /\ UNCHANGED <<file, stamps>>
          /\ counts' = IF work[t].job = "count" THEN PutBack(counts) ELSE counts
    /\ UNCHANGED <<cache, look, review>>
\* Of one's own process.
Invalidate(t) ==
    /\ At(t, "invalidate") /\ Ends(t)
    /\ cache' = IF t = "cli" THEN cache ELSE Empty
    /\ UNCHANGED <<file, stamps, look, review, counts, left>>

Writes(t) == ReadFile(t) \/ NothingNew(t) \/ Truncate(t) \/ Fill(t) \/ Rename(t) \/ Invalidate(t)

\* bump_frequency; the flush takes what is waiting.
Count ==
    /\ Spend("count")
    /\ counts' = [counts EXCEPT !.made = @ + 1, !.waiting = @ + 1]
    /\ UNCHANGED <<glossary, look, work, review>>
Flush ==
    /\ At("counter", "idle") /\ counts.waiting > 0
    /\ counts' = [counts EXCEPT !.taken = counts.waiting, !.waiting = 0]
    /\ Takes("counter", Task("read", "count", NoPair, 0))
    /\ UNCHANGED <<glossary, look, review, left>>

-----------------------------------------------------------------------------
(* ensure_fresh; the clone of the cache that follows changes nothing.         *)

Loaded == IF file.is = "whole" THEN file.pairs ELSE {}

Stat(r) ==
    /\ look[r].step = "idle" /\ cache.mtime # file.mtime
    /\ look' = [look EXCEPT ![r] = [NoLook EXCEPT !.mtime = file.mtime, !.step = "load"]]
    /\ UNCHANGED <<glossary, work, review, counts, left>>
Load(r) ==
    /\ look[r].step = "load"
    /\ look' = [look EXCEPT ![r] = [@ EXCEPT !.step = "store", !.pairs = Loaded]]
    /\ UNCHANGED <<glossary, work, review, counts, left>>
\* Mutant: the mtime is read after the file.
StatLate(r) ==
    /\ look[r].step = "store"
    /\ cache' = [pairs |-> look[r].pairs, mtime |-> file.mtime]
    /\ look' = [look EXCEPT ![r] = NoLook]
    /\ UNCHANGED <<file, stamps, work, review, counts, left>>
Store(r) ==
    /\ look[r].step = "store"
    /\ cache' = [pairs |-> look[r].pairs, mtime |-> look[r].mtime]
    /\ look' = [look EXCEPT ![r] = NoLook]
    /\ UNCHANGED <<file, stamps, work, review, counts, left>>
Looks(r) == Stat(r) \/ Load(r) \/ Store(r)

-----------------------------------------------------------------------------
(* CorrectionQueue: the map under its lock, the file written under it too.    *)

\* On the first access; what waited for a week is pruned.
Stale(k) == {i \in disk : i <= k}
Prune(k) == disk' = disk \ Stale(k) /\ gone' = gone \cup Stale(k)
LoadQueue ==
    /\ ~queue.loaded
    /\ \E k \in 0..MaxIds :
          Prune(k) /\ queue' = [loaded |-> TRUE, by |-> "none", ids |-> disk \ Stale(k)]
    /\ UNCHANGED <<glossary, look, work, other, pair, announced, applied, meddled, counts, left>>

Ready(t) == queue.loaded /\ queue.by = "none" /\ At(t, "idle") /\ t \in Threads
Holds(t, ids) == queue' = [queue EXCEPT !.by = t, !.ids = ids]
Oldest(S) == {i \in S : \A j \in S : i <= j}

\* A pair that is pending keeps its id.
Add(t, j) ==
    /\ Ready(t) /\ Spend("review")
    /\ \E p \in Pairs, i \in Ids :
          LET same == {k \in queue.ids : pair[k] = p}
              out  == IF Cardinality(queue.ids) >= MaxPending THEN Oldest(queue.ids) ELSE {} IN
          IF same # {}
          THEN /\ i \in same /\ announced' = IF j = "watched" THEN announced \cup {i} ELSE announced
               /\ UNCHANGED <<queue, pair, gone, work>>
          ELSE /\ pair[i] = NoPair /\ \A k \in 1..(i - 1) : pair[k] # NoPair
               /\ pair' = [pair EXCEPT ![i] = p]
               /\ Holds(t, (queue.ids \ out) \cup {i})
               /\ gone' = gone \cup out
               /\ Takes(t, Task("persist", j, NoPair, i))
               /\ UNCHANGED announced
    /\ UNCHANGED <<glossary, look, disk, other, applied, meddled, counts>>
\* The clipboard watcher tells the clients; a voice edit without auto-learn does not.
Watched(t)     == Add(t, "watched")
QueueLesson(t) == Add(t, "quiet")

\* Mutant: the entry leaves the map and not the file.
TakeUnsaved(t) ==
    /\ Ready(t) /\ Spend("review")
    /\ \E i \in queue.ids \cap announced, approve \in BOOLEAN :
          /\ queue' = [queue EXCEPT !.ids = @ \ {i}]
          /\ gone' = gone \cup {i}
          /\ applied' = IF approve THEN applied \cup {i} ELSE applied
          /\ Takes(t, IF approve THEN Task("read", "apply", pair[i], i) ELSE Idle)
    /\ UNCHANGED <<glossary, look, disk, other, pair, announced, meddled, counts>>

\* The user approves or rejects what the clients were told of.
Decide(t) ==
    /\ Ready(t) /\ Spend("review")
    /\ \E i \in queue.ids \cap announced, j \in {"apply", "reject"} :
          /\ Holds(t, queue.ids \ {i})
          /\ gone' = gone \cup {i}
          /\ Takes(t, Task("persist", j, pair[i], i))
    /\ UNCHANGED <<glossary, look, disk, other, pair, announced, applied, meddled, counts>>

\* The temporary file is renamed over the queue's, or the write fails; then the
\* clients are told of what is new, and what is approved is applied.
Persist(t) ==
    /\ At(t, "persist") /\ t # "cli"
    /\ \/ disk' = queue.ids /\ UNCHANGED <<meddled, left>>
       \/ Spend("fault") /\ meddled' = TRUE /\ UNCHANGED disk
    /\ queue' = [queue EXCEPT !.by = "none"]
    /\ announced' = IF work[t].job = "watched" THEN announced \cup {work[t].id} ELSE announced
    /\ applied' = IF work[t].job = "apply" THEN applied \cup {work[t].id} ELSE applied
    /\ IF work[t].job = "apply" THEN Goes(t, "read") ELSE Ends(t)
    /\ UNCHANGED <<glossary, look, other, pair, gone, counts>>

\* always corrections: its own copy of the queue, decided and written back.
CliLoad ==
    /\ At("cli", "idle") /\ Spend("review") /\ disk # {}
    /\ \E k \in 0..MaxIds :
          /\ Prune(k) /\ other' = disk \ Stale(k)
          /\ meddled' = (meddled \/ (queue.loaded /\ Stale(k) # {}))
    /\ Goes("cli", "choose")
    /\ UNCHANGED <<glossary, look, queue, pair, announced, applied, counts>>
CliDecide ==
    /\ At("cli", "choose")
    /\ \E S \in {{i} : i \in other} \cup {other}, j \in {"apply", "reject"} :
          /\ j = "apply" => Cardinality(S) = 1
          /\ disk' = other \ S /\ other' = {} /\ gone' = gone \cup S
          /\ meddled' = (meddled \/ queue.loaded \/ disk # other)
          /\ applied' = IF j = "apply" THEN applied \cup S ELSE applied
          /\ Takes("cli", IF j = "reject" THEN Idle
                          ELSE Task("read", "apply", pair[CHOOSE i \in S : TRUE], 0))
    /\ UNCHANGED <<glossary, look, queue, pair, announced, counts, left>>

Reviews == \/ LoadQueue \/ CliLoad \/ CliDecide
           \/ \E t \in Threads : Watched(t) \/ QueueLesson(t) \/ Decide(t) \/ Persist(t)

-----------------------------------------------------------------------------
(* The daemon is killed and started again, a user edits the file.             *)

\* A decision that did not reach the disk is undone, unwritten counts are lost.
Kill ==
    /\ Spend("fault")
    /\ work' = [t \in Workers |-> IF t = "cli" THEN work[t] ELSE Idle]
    /\ look' = [r \in Readers |-> NoLook] /\ cache' = Empty
    /\ queue' = [loaded |-> FALSE, by |-> "none", ids |-> {}]
    /\ gone' = gone \ disk
    /\ counts' = [counts EXCEPT !.made = counts.written, !.waiting = 0, !.taken = 0]
    /\ UNCHANGED <<file, stamps, disk, other, pair, announced, applied, meddled>>
Edit ==
    /\ Spend("fault") /\ Becomes("whole", {})
    /\ UNCHANGED <<cache, look, work, review, counts>>

Next ==
    \/ \E t \in Workers : Teach(t) \/ Writes(t)
    \/ Count \/ Flush
    \/ \E r \in Readers : Looks(r)
    \/ Reviews \/ Kill \/ Edit

Spec == Init /\ [][Next]_vars

-----------------------------------------------------------------------------
(* Correctness.                                                               *)

Steps == {"idle", "read", "truncate", "fill", "rename", "invalidate", "persist", "choose"}
TypeOK ==
    /\ file.is \in {"absent", "empty", "partial", "whole"} /\ file.pairs \subseteq Pairs
    /\ file.mtime \in 0..stamps /\ stamps \in Nat
    /\ cache.pairs \subseteq Pairs /\ cache.mtime \in 0..stamps
    /\ \A r \in Readers : look[r].step \in {"idle", "load", "store"}
    /\ \A t \in Workers : /\ work[t].step \in Steps /\ work[t].snap \subseteq Pairs
                          /\ work[t].pair \in Pairs \cup {NoPair}
    /\ queue.ids \subseteq Ids /\ disk \subseteq Ids /\ other \subseteq Ids
    /\ {announced, gone, applied} \subseteq SUBSET Ids
    /\ queue.by \in Threads \cup {"none"} /\ meddled \in BOOLEAN
    /\ pair \in [Ids -> Pairs \cup {NoPair}]

\* Hot reload (SPEC.md 9b): a cache that claims the file's modification time holds
\* what the file holds, however reads, writes and invalidations interleave.
CacheIsFile ==
    cache.mtime = file.mtime /\ file.is = "whole" => cache.pairs = file.pairs

\* "The reverse mapping is NOT learned" (SPEC.md 9b): no two words ever correct
\* each other, though writers overwrite each other's work.
NeverBothWays == \A p \in file.pairs : Rev(p) \notin file.pairs

\* "The queue survives daemon restarts" (correction_queue.rs): what the clients were
\* told of and nobody decided is on disk, and what went to the glossary is not asked
\* again; but for failed writes and the command line beside a running daemon.
QueueIsKept == meddled \/ (announced \ gone \subseteq disk /\ applied \cap disk = {})

\* "Failed flushes retain the pending counts, including counts recorded while a
\* flush was running" (SPEC.md 9b).
CountsAreKept == counts.made = counts.waiting + counts.taken + counts.written

\* What the user taught and is to be asked outlives failures: both of the above.
LessonsAreKept == QueueIsKept /\ CountsAreKept

=============================================================================
