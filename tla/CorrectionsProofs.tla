------------------------- MODULE CorrectionsProofs -------------------------
(* Theorems about Corrections, for every vocabulary, every number of threads, *)
(* of pending corrections and of faults.                                      *)
EXTENDS Corrections, EditPromise, FiniteSetTheorems, SequenceTheorems, TLAPS

-----------------------------------------------------------------------------
(* The inductive invariant.                                                   *)

Jobs == {"none", "apply", "term", "import", "count", "watched", "quiet", "reject"}

Works == [step : Steps, job : Jobs, pair : Pairs \cup {NoPair}, snap : SUBSET Pairs, id : Ids \cup {0}]
Counts  == [made : Nat, waiting : Nat, taken : Nat, written : Nat]
Queues  == [loaded : BOOLEAN, by : Threads \cup {"none"}, ids : SUBSET Ids]
Lefts   == [teach : Nat, review : Nat, count : Nat, fault : Nat]

Typed ==
    /\ file \in [is : {"absent", "empty", "partial", "whole"}, pairs : SUBSET Pairs, mtime : Nat]
    /\ stamps \in Nat
    /\ cache \in [pairs : SUBSET Pairs, mtime : Nat]
    /\ look \in [Readers -> [step : {"idle", "load", "store"}, pairs : SUBSET Pairs, mtime : Nat]]
    /\ work \in [Workers -> Works] /\ queue \in Queues
    /\ disk \in SUBSET Ids /\ other \in SUBSET Ids
    /\ announced \in SUBSET Ids /\ gone \in SUBSET Ids /\ applied \in SUBSET Ids
    /\ pair \in [Ids -> Pairs \cup {NoPair}] /\ meddled \in BOOLEAN
    /\ counts \in Counts /\ left \in Lefts

\* Whatever is queued, on disk or applied has a pair, and so has every job that
\* will learn one.
Known == {i \in Ids : pair[i] \in Pairs}
HavePairs ==
    /\ queue.ids \cup disk \cup other \cup announced \cup applied \subseteq Known
    /\ \A t \in Workers : /\ work[t].job = "apply" => work[t].pair \in Pairs
                          /\ work[t].step = "persist" => work[t].id \in Known

\* The file and every snapshot of it that a writer is about to put back.
OneWay(S) == \A p \in S : Rev(p) \notin S
OneWays == OneWay(file.pairs) /\ \A t \in Workers : OneWay(work[t].snap)

\* No modification time is from the future, that of a whole file is not the empty
\* cache's, and whoever saw the file's own has read what the file holds.
Stamped ==
    /\ file.mtime <= stamps /\ cache.mtime <= stamps
    /\ \A r \in Readers : look[r].mtime <= stamps
    /\ file.is = "whole" => file.mtime > 0
    /\ CacheIsFile
    /\ \A r \in Readers :
          look[r].step = "store" /\ look[r].mtime = file.mtime /\ file.is = "whole"
             => look[r].pairs = file.pairs

\* Counts are in a flush only while the counter works on one.
Counted ==
    /\ CountsAreKept
    /\ work["counter"].step \in {"idle", "read", "rename", "invalidate"}
    /\ work["counter"].step # "idle" => work["counter"].job = "count"
    /\ work["counter"].step \in {"idle", "invalidate"} => counts.taken = 0

\* Only who holds the queue's lock is about to write its file.
Locked ==
    /\ \A t \in Threads : work[t].step = "persist" <=> queue.by = t
    /\ work["cli"].step # "persist" /\ work["counter"].step # "persist"
    /\ ~queue.loaded => queue.by = "none"

\* Unmeddled, the daemon's queue is the file's whenever nobody holds the lock, and
\* keeps the promise of the file by itself: what is being added is in it, what is
\* being approved no more.
Kept ==
    ~meddled =>
        /\ announced \ gone \subseteq disk /\ applied \cap disk = {}
        /\ queue.loaded => /\ announced \ gone \subseteq queue.ids
                           /\ applied \cap queue.ids = {}
                           /\ queue.by = "none" => queue.ids = disk
        /\ \A t \in Threads : work[t].step = "persist" =>
              /\ work[t].job = "watched" => work[t].id \in queue.ids
              /\ work[t].job = "apply" => work[t].id \notin queue.ids

IInv == Typed /\ HavePairs /\ OneWays /\ Stamped /\ Counted /\ Locked /\ Kept

-----------------------------------------------------------------------------
(* Facts about the operators.                                                 *)

\* Exactly the pairs are pairs: the id nobody used has none.
LEMMA NoPairIsNone == NoPair \notin Pairs
BY DEF NoPair, Pairs

\* Turning a pair around twice gives it back, and gives a pair.
LEMMA RevOfPair == ASSUME NEW p \in Pairs PROVE Rev(p) \in Pairs /\ Rev(Rev(p)) = p /\ Rev(p) # p
BY DEF Rev, Pairs

\* learn_single_pair: what was one-way stays one-way, whichever pair is learned.
LEMMA LearnKeepsOneWay ==
    ASSUME NEW S \in SUBSET Pairs, OneWay(S), NEW p \in Pairs
    PROVE  Learn(S, p) \in SUBSET Pairs /\ OneWay(Learn(S, p))
<1>1. CASE Rev(p) \in S
  BY <1>1 DEF Learn, OneWay
<1>2. CASE Rev(p) \notin S
  <2> SUFFICES ASSUME NEW q \in S \cup {p}, Rev(q) \in S \cup {p} PROVE FALSE
    BY <1>2 DEF Learn, OneWay
  <2>1. Rev(p) # p /\ Rev(q) # q /\ Rev(Rev(q)) = q
    BY RevOfPair
  <2>2. q # p
    BY <1>2, <2>1
  <2>3. Rev(q) # p
    BY <1>2, <2>1, <2>2
  <2> QED
    BY <2>2, <2>3 DEF OneWay
<1> QED
  BY <1>1, <1>2

-----------------------------------------------------------------------------
(* How one step changes a worker, the counts, the queue and the budget.       *)

\* The tasks that the actions hand out.
LEMMA TaskTyped ==
    ASSUME NEW st \in Steps, NEW j \in Jobs, NEW p \in Pairs \cup {NoPair}, NEW i \in Ids \cup {0}
    PROVE  /\ Task(st, j, p, i) \in Works
           /\ Task(st, j, p, i).step = st /\ Task(st, j, p, i).job = j
           /\ Task(st, j, p, i).pair = p /\ Task(st, j, p, i).id = i
           /\ Task(st, j, p, i).snap = {}
BY DEF Task, Works, Jobs, Steps

\* Those of the queue, of a lesson and of a flush.
LEMMA TasksTyped ==
    /\ \A j \in {"apply", "term", "import"}, p \in Pairs \cup {NoPair} : Task("read", j, p, 0) \in Works
    /\ \A j \in {"watched", "quiet"}, i \in Ids : Task("persist", j, NoPair, i) \in Works
    /\ \A j \in {"apply", "reject"}, p \in Pairs, i \in Ids : Task("persist", j, p, i) \in Works
    /\ Task("read", "count", NoPair, 0) \in Works
BY TaskTyped DEF Steps, Jobs

\* A worker with nothing to do.
LEMMA IdleTyped ==
    Idle \in Works /\ Idle.step = "idle" /\ Idle.job = "none" /\ Idle.snap = {}
BY TaskTyped DEF Idle, Steps, Jobs

\* A worker takes up a task, and nobody else's changes.
LEMMA TakesOne ==
    ASSUME work \in [Workers -> Works], NEW t \in Workers, NEW w \in Works, Takes(t, w)
    PROVE  /\ work' \in [Workers -> Works] /\ work'[t] = w
           /\ \A u \in Workers \ {t} : work'[u] = work[u]
BY DEF Takes

\* A worker ends, and nobody else's task changes.
LEMMA EndsOne ==
    ASSUME work \in [Workers -> Works], NEW t \in Workers, Ends(t)
    PROVE  /\ work' \in [Workers -> Works] /\ work'[t].step = "idle"
           /\ work'[t].job = "none" /\ work'[t].snap = {}
           /\ \A u \in Workers \ {t} : work'[u] = work[u]
BY TakesOne, IdleTyped DEF Ends

\* A worker goes on with its task, and nobody else's changes.
LEMMA GoesOne ==
    ASSUME work \in [Workers -> Works], NEW t \in Workers, NEW st \in Steps, Goes(t, st)
    PROVE  /\ work' \in [Workers -> Works] /\ work'[t].step = st
           /\ work'[t].job = work[t].job /\ work'[t].pair = work[t].pair
           /\ work'[t].snap = work[t].snap /\ work'[t].id = work[t].id
           /\ \A u \in Workers \ {t} : work'[u] = work[u]
BY DEF Goes, Works, Steps, Jobs

\* A worker has read the file, and nobody else's task changes.
LEMMA ReadsOne ==
    ASSUME work \in [Workers -> Works], NEW t \in Workers, NEW st \in Steps,
           Changed(t) \in SUBSET Pairs, Snaps(t, st)
    PROVE  /\ work' \in [Workers -> Works] /\ work'[t].step = st /\ work'[t].snap = Changed(t)
           /\ work'[t].job = work[t].job /\ work'[t].pair = work[t].pair
           /\ work'[t].id = work[t].id
           /\ \A u \in Workers \ {t} : work'[u] = work[u]
<1>. DEFINE one == [work[t] EXCEPT !.step = st, !.snap = Changed(t)]
<1>1. one \in Works /\ one.step = st /\ one.snap = Changed(t) /\ one.job = work[t].job
      /\ one.pair = work[t].pair /\ one.id = work[t].id
  BY DEF Works, Steps, Jobs
<1>2. work' = [work EXCEPT ![t] = one]
  BY DEF Snaps
<1>. HIDE DEF one
<1>. QED
  BY <1>1, <1>2

\* What is written or put back leaves the flush, and no count is lost.
LEMMA CountsMove ==
    ASSUME NEW c \in Counts
    PROVE  /\ PutBack(c) \in Counts /\ PutBack(c).made = c.made /\ PutBack(c).taken = 0
           /\ PutBack(c).waiting = c.waiting + c.taken /\ PutBack(c).written = c.written
           /\ Written(c) \in Counts /\ Written(c).made = c.made /\ Written(c).taken = 0
           /\ Written(c).waiting = c.waiting /\ Written(c).written = c.written + c.taken
<1>1. c.waiting + c.taken \in Nat /\ c.written + c.taken \in Nat
  BY DEF Counts
<1>2. PutBack(c) \in Counts /\ Written(c) \in Counts
  BY <1>1 DEF Counts, PutBack, Written
<1> QED
  BY <1>1, <1>2 DEF Counts, PutBack, Written

\* The queue changes hands.
LEMMA HoldsMoves ==
    ASSUME queue \in Queues, NEW t \in Threads, NEW S \in SUBSET Ids, Holds(t, S)
    PROVE  queue' \in Queues /\ queue'.loaded = queue.loaded /\ queue'.by = t /\ queue'.ids = S
BY DEF Queues, Holds

\* A budget is spent down to zero and never below.
LEMMA SpentWell ==
    ASSUME left \in Lefts, NEW w \in {"teach", "review", "count", "fault"}, Spend(w)
    PROVE  left' \in Lefts
BY DEF Spend, Lefts

-----------------------------------------------------------------------------
(* What each action does to the workers and to the queue.                     *)

WriteSteps == {"read", "truncate", "fill", "rename", "invalidate"}
OnlyMoves(t) == work' \in [Workers -> Works] /\ \A u \in Workers \ {t} : work'[u] = work[u]

\* What a writer puts back is a set of pairs.
LEMMA ChangedTyped ==
    ASSUME Typed, HavePairs, NEW t \in Workers PROVE Changed(t) \in SUBSET Pairs
<1>1. file.pairs \in SUBSET Pairs
  BY DEF Typed
<1>2. CASE work[t].job = "apply"
  BY <1>1, <1>2 DEF HavePairs, Changed, Learn
<1>3. CASE work[t].job # "apply"
  BY <1>1, <1>3 DEF Changed
<1> QED
  BY <1>2, <1>3

\* Teaching starts a task that has the pair it will learn.
LEMMA TeachMoves ==
    ASSUME Typed, NEW t \in Workers, Teach(t)
    PROVE  /\ UNCHANGED <<glossary, look, review, counts>> /\ left' \in Lefts
           /\ t \in Threads /\ OnlyMoves(t)
           /\ work[t].step = "idle" /\ work'[t].step = "read" /\ work'[t].snap = {}
           /\ work'[t].job = "apply" => work'[t].pair \in Pairs
<1>1. PICK j \in {"apply", "term", "import"}, p \in Pairs \cup {NoPair} :
         Begins(t, j, p) /\ (j = "apply" => p \in Pairs)
  BY DEF Teach, Capture, SecondOpinion, VoiceLesson, Dialog, Import
<1>2. Task("read", j, p, 0) \in Works
  BY TasksTyped
<1>3. work'[t] = Task("read", j, p, 0) /\ OnlyMoves(t)
  BY <1>1, <1>2, TakesOne DEF Begins, Typed, OnlyMoves
<1>4. /\ Task("read", j, p, 0).step = "read" /\ Task("read", j, p, 0).snap = {}
      /\ Task("read", j, p, 0).job = j /\ Task("read", j, p, 0).pair = p
  BY DEF Task
<1>5. left' \in Lefts
  BY <1>1, SpentWell DEF Begins, Typed
<1> QED
  BY <1>1, <1>3, <1>4, <1>5 DEF Begins, At

\* The counter takes up what is waiting.
LEMMA FlushMoves ==
    ASSUME Typed, Flush
    PROVE  /\ OnlyMoves("counter")
           /\ work["counter"].step = "idle" /\ work'["counter"].step = "read"
           /\ work'["counter"].job = "count" /\ work'["counter"].snap = {}
<1>1. "counter" \in Workers /\ Task("read", "count", NoPair, 0) \in Works
  BY TasksTyped DEF Workers
<1>2. work'["counter"] = Task("read", "count", NoPair, 0) /\ OnlyMoves("counter")
  BY <1>1, TakesOne DEF Flush, Typed, OnlyMoves
<1> QED
  BY <1>2 DEF Flush, At, Task

\* What a writer that has read the file, or gives up, does next.
WritesOn(t) ==
    \/ /\ work'[t].step \in WriteSteps /\ work'[t].snap \in {work[t].snap, Changed(t)}
       /\ work'[t].job = work[t].job /\ work'[t].pair = work[t].pair
    \/ work'[t].step = "idle" /\ work'[t].job = "none" /\ work'[t].snap = {}

\* Reading takes the snapshot that will be put back, or gives up.
LEMMA ReadMoves ==
    ASSUME Typed, HavePairs, NEW t \in Workers, ReadFile(t)
    PROVE  /\ OnlyMoves(t) /\ work[t].step = "read" /\ WritesOn(t)
           /\ work'[t].step \in {"truncate", "rename", "idle"}
           /\ work[t].job = "count" => work'[t].step \in {"rename", "idle"}
<1>0. work \in [Workers -> Works]
  BY DEF Typed
<1>1. work[t].step = "read"
  BY DEF ReadFile, At
<1>2. CASE Ends(t)
  BY <1>0, <1>1, <1>2, EndsOne DEF OnlyMoves, WritesOn
<1>3. CASE Snaps(t, IF work[t].job \in {"apply", "term"} THEN "truncate" ELSE "rename")
  <2>1. PICK st \in {"truncate", "rename"} : Snaps(t, st) /\ (work[t].job = "count" => st = "rename")
    BY <1>3
  <2>2. st \in Steps /\ st \in WriteSteps /\ Changed(t) \in SUBSET Pairs
    BY ChangedTyped DEF Steps, WriteSteps
  <2>3. /\ work' \in [Workers -> Works] /\ \A u \in Workers \ {t} : work'[u] = work[u]
        /\ work'[t].step = st /\ work'[t].snap = Changed(t)
        /\ work'[t].job = work[t].job /\ work'[t].pair = work[t].pair
    BY <1>0, <2>1, <2>2, ReadsOne
  <2>4. OnlyMoves(t)
    BY <2>3 DEF OnlyMoves
  <2> QED
    BY <1>1, <2>1, <2>2, <2>3, <2>4 DEF WritesOn
<1> QED
  BY <1>2, <1>3 DEF ReadFile

\* A writer goes on towards the end of its task, or ends; the queue is not its
\* business.
LEMMA WritesMove ==
    ASSUME Typed, HavePairs, NEW t \in Workers, Writes(t)
    PROVE  UNCHANGED review /\ OnlyMoves(t) /\ work[t].step \in WriteSteps /\ WritesOn(t)
<1> USE DEF OnlyMoves, WritesOn, WriteSteps
<1>0. work \in [Workers -> Works] /\ WriteSteps \subseteq Steps
  BY DEF Typed, Steps
<1>1. CASE ReadFile(t)
  BY <1>1, ReadMoves DEF ReadFile
<1>2. CASE NothingNew(t)
  BY <1>0, <1>2, EndsOne DEF NothingNew, At
<1>3. CASE Truncate(t)
  BY <1>0, <1>3, GoesOne DEF Truncate, At
<1>4. CASE Fill(t)
  BY <1>0, <1>4, GoesOne, EndsOne DEF Fill, At
<1>5. CASE Rename(t)
  BY <1>0, <1>5, GoesOne, EndsOne DEF Rename, At
<1>6. CASE Invalidate(t)
  BY <1>0, <1>6, EndsOne DEF Invalidate, At
<1> QED
  BY <1>1, <1>2, <1>3, <1>4, <1>5, <1>6 DEF Writes

\* The command line takes its copy of the queue: nobody else's business.
LEMMA CliLoadMoves ==
    ASSUME Typed, CliLoad
    PROVE  /\ OnlyMoves("cli") /\ left' \in Lefts
           /\ work'["cli"].step = "choose" /\ work'["cli"].job = work["cli"].job
           /\ work'["cli"].pair = work["cli"].pair /\ work'["cli"].snap = work["cli"].snap
<1>1. "cli" \in Workers /\ work \in [Workers -> Works] /\ "choose" \in Steps
  BY DEF Workers, Typed, Steps
<1> QED
  BY <1>1, GoesOne, SpentWell DEF CliLoad, OnlyMoves, Typed

\* The command line decides: what it leaves of its copy is on disk, and what it
\* approves has a pair.
LEMMA CliDecideMoves ==
    ASSUME Typed, HavePairs, CliDecide
    PROVE  /\ OnlyMoves("cli") /\ work'["cli"].step \in {"idle", "read"}
           /\ work'["cli"].snap = {}
           /\ work'["cli"].job = "apply" => work'["cli"].pair \in Pairs
           /\ \E S \in SUBSET other :
                 /\ disk' = other \ S /\ other' = {} /\ gone' = gone \cup S
                 /\ meddled' = (meddled \/ queue.loaded \/ disk # other)
                 /\ applied' \in {applied, applied \cup S}
<1>1. PICK S \in {{i} : i \in other} \cup {other}, j \in {"apply", "reject"} :
         /\ j = "apply" => Cardinality(S) = 1
         /\ disk' = other \ S /\ other' = {} /\ gone' = gone \cup S
         /\ meddled' = (meddled \/ queue.loaded \/ disk # other)
         /\ applied' = IF j = "apply" THEN applied \cup S ELSE applied
         /\ Takes("cli", IF j = "reject" THEN Idle
                         ELSE Task("read", "apply", pair[CHOOSE i \in S : TRUE], 0))
  BY DEF CliDecide
<1>2. S \subseteq other
  OBVIOUS
<1>3. CASE j = "apply"
  <2>1. Cardinality(S) = 1
    BY <1>1, <1>3
  <2>2. S = {} => Cardinality(S) = 0
    BY FS_EmptySet, Zenon
  <2>3. S # {}
    BY <2>1, <2>2
  <2>4. pair[CHOOSE i \in S : TRUE] \in Pairs
    BY <1>2, <2>3 DEF HavePairs, Known
  <2>5. PICK p \in Pairs : Takes("cli", Task("read", "apply", p, 0))
    BY <1>1, <1>3, <2>4
  <2>6. Task("read", "apply", p, 0) \in Works /\ "cli" \in Workers /\ work \in [Workers -> Works]
    BY TasksTyped DEF Workers, Typed
  <2>7. OnlyMoves("cli") /\ work'["cli"] = Task("read", "apply", p, 0)
    BY <2>5, <2>6, TakesOne DEF OnlyMoves
  <2> QED
    BY <1>1, <1>2, <1>3, <2>7 DEF Task
<1>4. CASE j = "reject"
  <2>1. Takes("cli", Idle) /\ "cli" \in Workers /\ work \in [Workers -> Works]
    BY <1>1, <1>4 DEF Workers, Typed
  <2>2. OnlyMoves("cli") /\ work'["cli"] = Idle
    BY <2>1, IdleTyped, TakesOne DEF OnlyMoves
  <2> QED
    BY <1>1, <1>2, <1>4, <2>2, IdleTyped
<1> QED
  BY <1>3, <1>4

\* What is added is pending already.
Repeats ==
    /\ UNCHANGED <<queue, pair, gone, work>>
    /\ \E i \in queue.ids : announced' \in {announced, announced \cup {i}}

\* What is added gets an id, the lock is held, and others may be pushed out.
AddsNew(t, j, i, out, p) ==
    /\ UNCHANGED announced /\ OnlyMoves(t)
    /\ pair[i] = NoPair /\ pair' = [pair EXCEPT ![i] = p]
    /\ queue' \in Queues /\ queue'.loaded /\ queue'.by = t
    /\ queue'.ids = (queue.ids \ out) \cup {i} /\ gone' = gone \cup out
    /\ work'[t] = Task("persist", j, NoPair, i)

\* Adding does one or the other.
LEMMA AddMoves ==
    ASSUME Typed, HavePairs, NEW t \in Threads, NEW j \in {"watched", "quiet"}, Add(t, j)
    PROVE  /\ UNCHANGED <<glossary, look, disk, other, applied, meddled, counts>>
           /\ left' \in Lefts /\ queue.loaded /\ queue.by = "none" /\ work[t].step = "idle"
           /\ \/ Repeats
              \/ \E i \in Ids, out \in SUBSET queue.ids, p \in Pairs : AddsNew(t, j, i, out, p)
<1>1. PICK p \in Pairs, i \in Ids :
        LET same == {k \in queue.ids : pair[k] = p}
            out  == IF Cardinality(queue.ids) >= MaxPending THEN Oldest(queue.ids) ELSE {} IN
        IF same # {}
        THEN /\ i \in same /\ announced' = IF j = "watched" THEN announced \cup {i} ELSE announced
             /\ UNCHANGED <<queue, pair, gone, work>>
        ELSE /\ pair[i] = NoPair /\ \A k \in 1..(i - 1) : pair[k] # NoPair
             /\ pair' = [pair EXCEPT ![i] = p]
             /\ Holds(t, (queue.ids \ out) \cup {i})
             /\ gone' = gone \cup out
             /\ Takes(t, Task("persist", j, NoPair, i))
             /\ UNCHANGED announced
  BY DEF Add
<1>2. /\ left' \in Lefts /\ queue.loaded /\ queue.by = "none" /\ work[t].step = "idle"
      /\ UNCHANGED <<glossary, look, disk, other, applied, meddled, counts>>
  BY SpentWell DEF Add, Ready, At, Typed
<1>3. CASE {k \in queue.ids : pair[k] = p} # {}
  BY <1>1, <1>2, <1>3 DEF Repeats
<1>4. CASE {k \in queue.ids : pair[k] = p} = {}
  <2>. DEFINE out == IF Cardinality(queue.ids) >= MaxPending THEN Oldest(queue.ids) ELSE {}
  <2>1. /\ pair[i] = NoPair /\ pair' = [pair EXCEPT ![i] = p] /\ gone' = gone \cup out
        /\ Holds(t, (queue.ids \ out) \cup {i})
        /\ Takes(t, Task("persist", j, NoPair, i)) /\ UNCHANGED announced
    BY <1>1, <1>4
  <2>2. out \in SUBSET queue.ids
    BY DEF Oldest
  <2>3. (queue.ids \ out) \cup {i} \in SUBSET Ids /\ queue \in Queues
    BY <2>2 DEF Typed, Queues
  <2>4. /\ queue' \in Queues /\ queue'.loaded = queue.loaded /\ queue'.by = t
        /\ queue'.ids = (queue.ids \ out) \cup {i}
    BY <2>1, <2>3, HoldsMoves
  <2>5. t \in Workers /\ work \in [Workers -> Works] /\ Task("persist", j, NoPair, i) \in Works
    BY TasksTyped DEF Workers, Typed
  <2>6. OnlyMoves(t) /\ work'[t] = Task("persist", j, NoPair, i)
    BY <2>1, <2>5, TakesOne DEF OnlyMoves
  <2>. HIDE DEF out
  <2>7. AddsNew(t, j, i, out, p)
    BY <1>2, <2>1, <2>4, <2>6 DEF AddsNew
  <2> QED
    BY <1>2, <2>2, <2>7
<1> QED
  BY <1>3, <1>4

\* What is decided leaves the queue, and who decided holds the lock.
LEMMA DecideMoves ==
    ASSUME Typed, HavePairs, NEW t \in Threads, Decide(t)
    PROVE  /\ left' \in Lefts /\ queue.loaded /\ queue.by = "none" /\ work[t].step = "idle"
           /\ OnlyMoves(t)
           /\ \E i \in queue.ids \cap announced, j \in {"apply", "reject"} :
                 /\ queue' \in Queues /\ queue'.loaded /\ queue'.by = t
                 /\ queue'.ids = queue.ids \ {i} /\ gone' = gone \cup {i}
                 /\ i \in Known /\ work'[t] = Task("persist", j, pair[i], i)
<1>1. PICK i \in queue.ids \cap announced, j \in {"apply", "reject"} :
        /\ Holds(t, queue.ids \ {i})
        /\ gone' = gone \cup {i}
        /\ Takes(t, Task("persist", j, pair[i], i))
  BY DEF Decide
<1>2. left' \in Lefts /\ queue.loaded /\ queue.by = "none" /\ work[t].step = "idle"
  BY SpentWell DEF Decide, Ready, At, Typed
<1>3. i \in Known /\ i \in Ids /\ pair[i] \in Pairs
  BY DEF HavePairs, Known
<1>4. queue.ids \ {i} \in SUBSET Ids /\ queue \in Queues
  BY DEF Typed, Queues
<1>5. /\ queue' \in Queues /\ queue'.loaded = queue.loaded /\ queue'.by = t
      /\ queue'.ids = queue.ids \ {i}
  BY <1>1, <1>4, HoldsMoves
<1>6. t \in Workers /\ work \in [Workers -> Works] /\ Task("persist", j, pair[i], i) \in Works
  BY <1>3, TasksTyped DEF Workers, Typed
<1>7. OnlyMoves(t) /\ work'[t] = Task("persist", j, pair[i], i)
  BY <1>1, <1>6, TakesOne DEF OnlyMoves
<1> QED
  BY <1>1, <1>2, <1>3, <1>5, <1>7

\* The lock comes free, and what is approved is to be applied.
LEMMA PersistMoves ==
    ASSUME Typed, NEW t \in Threads, Persist(t)
    PROVE  /\ left' \in Lefts /\ OnlyMoves(t) /\ work[t].step = "persist"
           /\ queue' \in Queues /\ queue'.loaded = queue.loaded /\ queue'.by = "none"
           /\ queue'.ids = queue.ids
           /\ work'[t].step \in {"idle", "read"} /\ work'[t].snap \in {work[t].snap, {}}
           /\ work'[t].job = "apply" => work[t].job = "apply" /\ work'[t].pair = work[t].pair
<1>1. /\ t \in Workers /\ work \in [Workers -> Works] /\ queue \in Queues /\ left \in Lefts
      /\ "read" \in Steps
  BY DEF Workers, Typed, Steps
<1>2. left' \in Lefts
  BY <1>1, SpentWell DEF Persist
<1>3. queue' = [queue EXCEPT !.by = "none"]
  BY DEF Persist
<1>4. /\ queue' \in Queues /\ queue'.loaded = queue.loaded /\ queue'.by = "none"
      /\ queue'.ids = queue.ids
  BY <1>1, <1>3 DEF Queues
<1>5. CASE work[t].job = "apply"
  BY <1>1, <1>2, <1>4, <1>5, GoesOne DEF Persist, At, OnlyMoves
<1>6. CASE work[t].job # "apply"
  BY <1>1, <1>2, <1>4, <1>6, EndsOne DEF Persist, At, OnlyMoves
<1> QED
  BY <1>5, <1>6

-----------------------------------------------------------------------------
(* Types.                                                                     *)

\* The steps of the writers keep the types.
LEMMA WritesTyped ==
    ASSUME Typed, HavePairs, NEW t \in Workers, Writes(t) PROVE Typed'
<1> USE DEF Typed, glossary, review
<1>1. UNCHANGED review /\ work' \in [Workers -> Works] /\ work[t].snap \in SUBSET Pairs
  BY WritesMove DEF OnlyMoves, Works
<1>2. CASE ReadFile(t)
  BY <1>1, <1>2, CountsMove DEF ReadFile
<1>3. CASE NothingNew(t)
  BY <1>1, <1>3, CountsMove DEF NothingNew
<1>4. CASE Truncate(t)
  BY <1>1, <1>4 DEF Truncate, Becomes
<1>5. CASE Fill(t)
  BY <1>1, <1>5, SpentWell DEF Fill, Becomes
<1>6. CASE Rename(t)
  BY <1>1, <1>6, SpentWell, CountsMove DEF Rename, Becomes
<1>7. CASE Invalidate(t)
  BY <1>1, <1>7 DEF Invalidate, Empty
<1> QED
  BY <1>2, <1>3, <1>4, <1>5, <1>6, <1>7 DEF Writes

\* The steps of the queue keep the types.
LEMMA ReviewsTyped ==
    ASSUME Typed, HavePairs, Reviews PROVE Typed'
<1> USE DEF Typed, glossary, OnlyMoves
<1>1. CASE LoadQueue
  BY <1>1 DEF LoadQueue, Prune, Stale, Queues
<1>2. CASE CliLoad
  BY <1>2, CliLoadMoves DEF CliLoad, Prune, Stale
<1>3. CASE CliDecide
  BY <1>3, CliDecideMoves DEF CliDecide
<1>4. ASSUME NEW t \in Threads, NEW j \in {"watched", "quiet"}, Add(t, j) PROVE Typed'
  <2>1. queue.ids \in SUBSET Ids
    BY DEF Queues
  <2> QED
    BY <1>4, <2>1, AddMoves DEF Repeats, AddsNew
<1>5. ASSUME NEW t \in Threads, Decide(t) PROVE Typed'
  <2>1. UNCHANGED <<glossary, look, disk, other, pair, announced, applied, meddled, counts>>
    BY <1>5 DEF Decide
  <2> QED
    BY <1>5, <2>1, DecideMoves
<1>6. ASSUME NEW t \in Threads, Persist(t) PROVE Typed'
  <2>1. work[t].id \in Ids /\ queue.ids \in SUBSET Ids
    BY <1>6, PersistMoves DEF HavePairs, Known, Queues, Workers
  <2> QED
    BY <1>6, <2>1, PersistMoves DEF Persist
<1> QED
  BY <1>1, <1>2, <1>3, <1>4, <1>5, <1>6 DEF Reviews, Watched, QueueLesson

\* Every step keeps the types.
LEMMA StepTyped ==
    ASSUME Typed, HavePairs, [Next]_vars PROVE Typed'
<1> USE DEF Typed, glossary, review
<1>1. CASE UNCHANGED vars
  BY <1>1 DEF vars
<1>2. ASSUME NEW t \in Workers, Teach(t) PROVE Typed'
  BY <1>2, TeachMoves DEF OnlyMoves
<1>3. CASE Count
  <2>1. counts.made + 1 \in Nat /\ counts.waiting + 1 \in Nat
    BY DEF Counts
  <2>2. counts' \in Counts
    BY <1>3, <2>1 DEF Count, Counts
  <2> QED
    BY <1>3, <2>2, SpentWell DEF Count
<1>4. CASE Flush
  BY <1>4, FlushMoves DEF Flush, OnlyMoves, Counts
<1>5. ASSUME NEW r \in Readers, Looks(r) PROVE Typed'
  <2>1. CASE Stat(r)   BY <2>1 DEF Stat, NoLook
  <2>2. CASE Load(r)   BY ZenonT(30), <2>2 DEF Load, Loaded
  <2>3. CASE Store(r)  BY <2>3 DEF Store, NoLook
  <2> QED              BY <1>5, <2>1, <2>2, <2>3 DEF Looks
<1>6. CASE Kill
  <2>1. left' \in Lefts /\ counts' \in Counts
    BY <1>6, SpentWell DEF Kill, Counts
  <2> QED
    BY <1>6, <2>1, IdleTyped DEF Kill, NoLook, Empty, Queues
<1>7. CASE Edit
  BY <1>7, SpentWell DEF Edit, Becomes
<1> QED
  BY <1>1, <1>2, <1>3, <1>4, <1>5, <1>6, <1>7, WritesTyped, ReviewsTyped DEF Next

-----------------------------------------------------------------------------
(* Whatever is queued or about to be learned has a pair.                      *)

\* Every step of the queue keeps it.
LEMMA ReviewsHavePairs ==
    ASSUME Typed, HavePairs, Reviews PROVE HavePairs'
<1> USE DEF HavePairs, Known, OnlyMoves
<1>1. CASE LoadQueue
  BY <1>1 DEF LoadQueue, Prune, Stale
<1>2. CASE CliLoad
  BY <1>2, CliLoadMoves DEF CliLoad, Prune, Stale
<1>3. CASE CliDecide
  <2>1. PICK S \in SUBSET other : disk' = other \ S /\ other' = {} /\ applied' \in {applied, applied \cup S}
    BY <1>3, CliDecideMoves
  <2>2. UNCHANGED <<queue, pair, announced>>
    BY <1>3 DEF CliDecide
  <2>3. queue.ids' \cup disk' \cup other' \cup announced' \cup applied' \subseteq Known'
    BY <2>1, <2>2
  <2>4. \A t \in Workers : /\ work'[t].job = "apply" => work'[t].pair \in Pairs
                           /\ work'[t].step # "persist" \/ work'[t].id \in Known
    BY <1>3, CliDecideMoves
  <2> QED
    BY <2>2, <2>3, <2>4
<1>4. ASSUME NEW t \in Threads, NEW j \in {"watched", "quiet"}, Add(t, j) PROVE HavePairs'
  <2>1. UNCHANGED <<disk, other, applied>>
    BY <1>4, AddMoves
  <2>2. CASE Repeats
    BY <2>1, <2>2 DEF Repeats
  <2>3. ASSUME NEW i \in Ids, NEW out \in SUBSET queue.ids, NEW p \in Pairs,
               AddsNew(t, j, i, out, p)
        PROVE  HavePairs'
    <3>1. Known \cup {i} \subseteq Known'
      BY <2>3 DEF AddsNew, Typed
    <3>2. work'[t].job # "apply" /\ work'[t].id = i
      BY <2>3 DEF AddsNew, Task
    <3> QED
      BY <2>1, <2>3, <3>1, <3>2 DEF AddsNew
  <2> QED
    BY <1>4, <2>2, <2>3, AddMoves
<1>5. ASSUME NEW t \in Threads, Decide(t) PROVE HavePairs'
  <2>1. UNCHANGED <<disk, other, pair, announced, applied>>
    BY <1>5 DEF Decide
  <2>2. PICK i \in queue.ids \cap announced, j \in {"apply", "reject"} :
            queue'.ids = queue.ids \ {i} /\ work'[t] = Task("persist", j, pair[i], i)
    BY <1>5, DecideMoves
  <2>3. work'[t].pair = pair[i] /\ work'[t].id = i
    BY <2>2 DEF Task
  <2> QED
    BY <1>5, <2>1, <2>2, <2>3, DecideMoves
<1>6. ASSUME NEW t \in Threads, Persist(t) PROVE HavePairs'
  <2>1. t \in Workers /\ work[t].id \in Known
    BY <1>6, PersistMoves DEF Workers
  <2>2. /\ UNCHANGED <<other, pair>> /\ disk' \in {disk, queue.ids}
        /\ announced' \subseteq announced \cup {work[t].id}
        /\ applied' \subseteq applied \cup {work[t].id}
    BY <1>6 DEF Persist
  <2> QED
    BY <1>6, <2>1, <2>2, PersistMoves
<1> QED
  BY <1>1, <1>2, <1>3, <1>4, <1>5, <1>6 DEF Reviews, Watched, QueueLesson

\* Every step keeps it.
LEMMA StepHasPairs ==
    ASSUME Typed, HavePairs, [Next]_vars PROVE HavePairs'
<1> USE DEF HavePairs, Known, OnlyMoves
<1>1. CASE UNCHANGED vars
  BY <1>1 DEF vars, review
<1>2. ASSUME NEW t \in Workers, Teach(t) PROVE HavePairs'
  BY <1>2, TeachMoves DEF review
<1>3. ASSUME NEW t \in Workers, Writes(t) PROVE HavePairs'
  BY <1>3, WritesMove DEF review, WritesOn, WriteSteps
<1>4. CASE Count
  BY <1>4 DEF Count, review
<1>5. CASE Flush
  BY <1>5, FlushMoves DEF Flush, review
<1>6. ASSUME NEW r \in Readers, Looks(r) PROVE HavePairs'
  BY <1>6 DEF Looks, Stat, Load, Store, review
<1>7. CASE Kill
  BY <1>7, IdleTyped DEF Kill
<1>8. CASE Edit
  BY <1>8 DEF Edit, review
<1> QED
  BY <1>1, <1>2, <1>3, <1>4, <1>5, <1>6, <1>7, <1>8, ReviewsHavePairs DEF Next

-----------------------------------------------------------------------------
(* No two words correct each other.                                           *)

\* What a writer puts back is one-way, whatever it read and learns.
LEMMA ChangedOneWay ==
    ASSUME Typed, HavePairs, OneWays, NEW t \in Workers PROVE OneWay(Changed(t))
<1>1. file.pairs \in SUBSET Pairs /\ OneWay(file.pairs)
  BY DEF Typed, OneWays
<1>2. CASE work[t].job = "apply"
  BY <1>1, <1>2, LearnKeepsOneWay DEF HavePairs, Changed
<1>3. CASE work[t].job # "apply"
  BY <1>1, <1>3 DEF Changed
<1> QED
  BY <1>2, <1>3

\* An empty glossary has no two words that correct each other.
LEMMA EmptyOneWay == OneWay({})
BY DEF OneWay

\* A step that leaves the file and every snapshot, or empties them, keeps them one-way.
LEMMA OneWayKept ==
    ASSUME OneWays, file'.pairs \in {file.pairs, {}},
           \A u \in Workers : work'[u].snap \in {work[u].snap, {}}
    PROVE  OneWays'
<1>1. OneWay(file'.pairs) /\ \A u \in Workers : OneWay(work'[u].snap)
  BY EmptyOneWay DEF OneWays
<1> QED
  BY <1>1 DEF OneWays, OneWay

\* Every step keeps the file and the snapshots one-way.
LEMMA StepOneWay ==
    ASSUME Typed, HavePairs, OneWays, [Next]_vars PROVE OneWays'
<1>1. ASSUME NEW t \in Workers, Writes(t) PROVE OneWays'
  <2>1. OnlyMoves(t) /\ work'[t].snap \in {work[t].snap, Changed(t), {}}
    BY <1>1, WritesMove DEF WritesOn
  <2>2. OneWay(work'[t].snap)
    BY <2>1, ChangedOneWay, EmptyOneWay DEF OneWays
  <2>3. file'.pairs \in {file.pairs, {}, work[t].snap}
    <3>1. CASE UNCHANGED file
      BY <3>1
    <3>2. CASE Truncate(t)
      BY <3>2 DEF Truncate, Becomes
    <3>3. CASE Fill(t)
      BY <3>3 DEF Fill, Becomes
    <3>4. CASE Rename(t)
      BY <3>4 DEF Rename, Becomes
    <3> QED
      BY <1>1, <3>1, <3>2, <3>3, <3>4 DEF Writes, ReadFile, NothingNew, Invalidate, glossary
  <2>4. OneWay(file'.pairs)
    BY <2>3, EmptyOneWay DEF OneWays
  <2>5. \A u \in Workers : OneWay(work'[u].snap)
    BY <2>1, <2>2 DEF OneWays, OnlyMoves
  <2> QED
    BY <2>4, <2>5 DEF OneWays, OneWay
<1>2. CASE UNCHANGED vars
  BY <1>2, OneWayKept DEF vars, glossary
<1>3. ASSUME NEW t \in Workers, Teach(t) PROVE OneWays'
  BY <1>3, TeachMoves, OneWayKept DEF OnlyMoves, glossary
<1>4. CASE Count
  BY <1>4, OneWayKept DEF Count, glossary
<1>5. CASE Flush
  BY <1>5, FlushMoves, OneWayKept DEF Flush, OnlyMoves, glossary
<1>6. ASSUME NEW r \in Readers, Looks(r) PROVE OneWays'
  BY <1>6, OneWayKept DEF Looks, Stat, Load, Store, glossary
<1>7. CASE LoadQueue
  BY <1>7, OneWayKept DEF LoadQueue, glossary
<1>8. CASE CliLoad
  BY <1>8, CliLoadMoves, OneWayKept DEF CliLoad, OnlyMoves, glossary
<1>9. CASE CliDecide
  BY <1>9, CliDecideMoves, OneWayKept DEF CliDecide, OnlyMoves, glossary
<1>10. ASSUME NEW t \in Threads, NEW j \in {"watched", "quiet"}, Add(t, j) PROVE OneWays'
  <2>1. CASE Repeats
    BY <1>10, <2>1, AddMoves, OneWayKept DEF Repeats, glossary
  <2>2. ASSUME NEW i \in Ids, NEW out \in SUBSET queue.ids, NEW p \in Pairs,
               AddsNew(t, j, i, out, p)
        PROVE  OneWays'
    <3>1. work'[t].snap = {} /\ OnlyMoves(t)
      BY <2>2 DEF AddsNew, Task
    <3> QED
      BY <1>10, <3>1, AddMoves, OneWayKept DEF OnlyMoves, glossary
  <2> QED
    BY <1>10, <2>1, <2>2, AddMoves
<1>11. ASSUME NEW t \in Threads, Decide(t) PROVE OneWays'
  <2>1. PICK i \in Ids, j \in {"apply", "reject"} : work'[t] = Task("persist", j, pair[i], i)
    BY <1>11, DecideMoves DEF Known
  <2>2. work'[t].snap = {} /\ OnlyMoves(t)
    BY <1>11, <2>1, DecideMoves DEF Task
  <2> QED
    BY <1>11, <2>2, OneWayKept DEF Decide, OnlyMoves, glossary
<1>12. ASSUME NEW t \in Threads, Persist(t) PROVE OneWays'
  BY <1>12, PersistMoves, OneWayKept DEF Persist, OnlyMoves, glossary
<1>13. CASE Kill
  BY <1>13, IdleTyped, OneWayKept DEF Kill
<1>14. CASE Edit
  BY <1>14, OneWayKept DEF Edit, Becomes
<1>15. Reviews => OneWays'
  BY <1>7, <1>8, <1>9, <1>10, <1>11, <1>12 DEF Reviews, Watched, QueueLesson
<1> QED
  BY <1>1, <1>2, <1>3, <1>4, <1>5, <1>6, <1>13, <1>14, <1>15 DEF Next

-----------------------------------------------------------------------------
(* The cache.                                                                 *)

\* A step that touches neither the file, nor the cache, nor a reader.
LEMMA StampedKept ==
    ASSUME Stamped, UNCHANGED <<glossary, look>> PROVE Stamped'
BY DEF Stamped, CacheIsFile, glossary

\* A new file has a modification time that nobody has seen.
LEMMA BecomesStamped ==
    ASSUME Typed, Stamped, NEW is \in {"empty", "partial", "whole"}, NEW S \in SUBSET Pairs,
           Becomes(is, S), UNCHANGED <<cache, look>>
    PROVE  Stamped'
<1>1. stamps' = stamps + 1 /\ file'.mtime = stamps + 1 /\ stamps \in Nat
  BY DEF Becomes, Typed
<1>2. /\ cache.mtime \in Nat /\ cache.mtime <= stamps
      /\ \A r \in Readers : look[r].mtime \in Nat /\ look[r].mtime <= stamps
  BY DEF Typed, Stamped
<1>3. cache'.mtime # file'.mtime /\ \A r \in Readers : look'[r].mtime # file'.mtime
  BY <1>1, <1>2
<1> QED
  BY <1>1, <1>2, <1>3 DEF Stamped, CacheIsFile

\* Every step keeps the cache honest.
LEMMA StepStamped ==
    ASSUME Typed, HavePairs, Stamped, [Next]_vars PROVE Stamped'
<1>1. ASSUME NEW t \in Workers, Writes(t) PROVE Stamped'
  <2>0. work[t].snap \in SUBSET Pairs
    BY DEF Typed, Works
  <2>1. CASE ReadFile(t) \/ NothingNew(t)
    BY <2>1, StampedKept DEF ReadFile, NothingNew
  <2>2. CASE Truncate(t)
    BY <2>2, BecomesStamped DEF Truncate
  <2>3. CASE Fill(t)
    BY <2>0, <2>3, BecomesStamped DEF Fill
  <2>4. CASE Rename(t)
    BY <2>0, <2>4, BecomesStamped, StampedKept DEF Rename, glossary
  <2>5. CASE Invalidate(t)
    BY <2>5 DEF Invalidate, Stamped, CacheIsFile, Empty, Typed
  <2> QED
    BY <1>1, <2>1, <2>2, <2>3, <2>4, <2>5 DEF Writes
<1>2. ASSUME NEW r \in Readers, Looks(r) PROVE Stamped'
  <2>1. CASE Stat(r)
    BY <2>1 DEF Stat, Stamped, CacheIsFile, NoLook, glossary, Typed
  <2>2. CASE Load(r)
    BY <2>2 DEF Load, Loaded, Stamped, CacheIsFile, glossary, Typed
  <2>3. CASE Store(r)
    BY <2>3 DEF Store, Stamped, CacheIsFile, NoLook, Typed
  <2> QED
    BY <1>2, <2>1, <2>2, <2>3 DEF Looks
<1>3. CASE UNCHANGED vars
  BY <1>3, StampedKept DEF vars
<1>4. ASSUME NEW t \in Workers, Teach(t) PROVE Stamped'
  BY <1>4, TeachMoves, StampedKept
<1>5. CASE Count \/ Flush
  BY <1>5, StampedKept DEF Count, Flush
<1>6. CASE Reviews
  BY <1>6, StampedKept DEF Reviews, LoadQueue, CliLoad, CliDecide, Watched, QueueLesson, Add,
        Decide, Persist
<1>7. CASE Kill
  BY <1>7 DEF Kill, Stamped, CacheIsFile, NoLook, Empty, Typed
<1>8. CASE Edit
  BY <1>8, BecomesStamped DEF Edit
<1> QED
  BY <1>1, <1>2, <1>3, <1>4, <1>5, <1>6, <1>7, <1>8 DEF Next

-----------------------------------------------------------------------------
(* The counts.                                                                *)

\* The three who may work are three.
LEMMA WorkersDiffer ==
    /\ "cli" \notin Threads /\ "counter" \notin Threads /\ "none" \notin Threads
    /\ "cli" \in Workers /\ "counter" \in Workers /\ Threads \subseteq Workers
BY TeachingAssumption DEF Workers

\* A step that touches neither the counts nor the counter.
LEMMA CountedKept ==
    ASSUME Counted, UNCHANGED counts, work'["counter"] = work["counter"] PROVE Counted'
BY DEF Counted, CountsAreKept

\* Another writer's step keeps the sum, and takes nothing into a flush.
LEMMA OthersCounted ==
    ASSUME Typed, HavePairs, Counted, NEW t \in Workers \ {"counter"}, Writes(t)
    PROVE  Counted'
<1>1. work'["counter"] = work["counter"]
  BY WritesMove, WorkersDiffer DEF OnlyMoves
<1>2. counts' \in {counts, PutBack(counts), Written(counts)}
  BY DEF Writes, ReadFile, NothingNew, Truncate, Fill, Rename, Invalidate
<1>3. counts \in Counts /\ counts.made \in Nat /\ counts.waiting \in Nat /\ counts.taken \in Nat
      /\ counts.written \in Nat
  BY DEF Typed, Counts
<1> QED
  BY <1>1, <1>2, <1>3, CountsMove DEF Counted, CountsAreKept

\* The counter's own: a flush that fails puts the counts back, one that succeeds has
\* written them.
LEMMA CounterCounted ==
    ASSUME Typed, HavePairs, Counted, Writes("counter") PROVE Counted'
<1>0. /\ "counter" \in Workers /\ work \in [Workers -> Works] /\ counts \in Counts
      /\ counts.made \in Nat /\ counts.waiting \in Nat /\ counts.taken \in Nat
      /\ counts.written \in Nat
  BY WorkersDiffer DEF Typed, Counts
<1>1. CASE ReadFile("counter")
  <2>1. work["counter"].step = "read" /\ work["counter"].job = "count"
    BY <1>1 DEF ReadFile, At, Counted
  <2>2. CASE UNCHANGED counts /\ Snaps("counter", "rename")
    <3>1. work'["counter"].step = "rename" /\ work'["counter"].job = "count"
      BY <1>0, <2>1, <2>2, ChangedTyped, ReadsOne DEF Steps
    <3> QED
      BY <2>2, <3>1 DEF Counted, CountsAreKept
  <2>3. CASE Ends("counter") /\ counts' = PutBack(counts)
    BY <1>0, <2>3, EndsOne, CountsMove DEF Counted, CountsAreKept
  <2> QED
    BY <1>1, <2>1, <2>2, <2>3 DEF ReadFile
<1>2. CASE NothingNew("counter")
  <2>1. Ends("counter") /\ counts' = Written(counts)
    BY <1>2 DEF NothingNew, At, Counted
  <2> QED
    BY <1>0, <2>1, EndsOne, CountsMove DEF Counted, CountsAreKept
<1>3. CASE Rename("counter")
  <2>1. work["counter"].job = "count"
    BY <1>3 DEF Rename, At, Counted
  <2>2. CASE Goes("counter", "invalidate") /\ counts' = Written(counts)
    <3>1. work'["counter"].step = "invalidate" /\ work'["counter"].job = "count"
      BY <1>0, <2>1, <2>2, GoesOne DEF Steps
    <3> QED
      BY <1>0, <2>2, <3>1, CountsMove DEF Counted, CountsAreKept
  <2>3. CASE Ends("counter") /\ counts' = PutBack(counts)
    BY <1>0, <2>3, EndsOne, CountsMove DEF Counted, CountsAreKept
  <2> QED
    BY <1>3, <2>1, <2>2, <2>3 DEF Rename
<1>4. CASE Invalidate("counter")
  <2>1. Ends("counter") /\ UNCHANGED counts /\ counts.taken = 0
    BY <1>4 DEF Invalidate, At, Counted
  <2> QED
    BY <1>0, <2>1, EndsOne DEF Counted, CountsAreKept
<1>5. ~Truncate("counter") /\ ~Fill("counter")
  BY DEF Truncate, Fill, At, Counted
<1> QED
  BY <1>1, <1>2, <1>3, <1>4, <1>5 DEF Writes

\* Every step keeps count.
LEMMA StepCounted ==
    ASSUME Typed, HavePairs, Counted, [Next]_vars PROVE Counted'
<1> USE WorkersDiffer
<1>0. /\ counts \in Counts /\ counts.made \in Nat /\ counts.waiting \in Nat
      /\ counts.taken \in Nat /\ counts.written \in Nat
  BY DEF Typed, Counts
<1>1. ASSUME NEW t \in Workers, Writes(t) PROVE Counted'
  BY <1>1, OthersCounted, CounterCounted
<1>2. CASE Count
  <2>1. /\ counts'.made = counts.made + 1 /\ counts'.waiting = counts.waiting + 1
        /\ counts'.taken = counts.taken /\ counts'.written = counts.written /\ UNCHANGED work
    BY <1>0, <1>2 DEF Count, Counts
  <2> QED
    BY <1>0, <2>1 DEF Counted, CountsAreKept
<1>3. CASE Flush
  <2>1. /\ counts'.made = counts.made /\ counts'.waiting = 0
        /\ counts'.taken = counts.waiting /\ counts'.written = counts.written
    BY <1>0, <1>3 DEF Flush, Counts
  <2>2. counts.taken = 0 /\ work'["counter"].step = "read" /\ work'["counter"].job = "count"
    BY <1>3, FlushMoves DEF Counted
  <2> QED
    BY <1>0, <2>1, <2>2 DEF Counted, CountsAreKept
<1>4. CASE Kill
  <2>1. /\ counts'.made = counts.written /\ counts'.waiting = 0
        /\ counts'.taken = 0 /\ counts'.written = counts.written
    BY <1>0, <1>4 DEF Kill, Counts
  <2>2. work'["counter"].step = "idle"
    BY <1>4, IdleTyped DEF Kill
  <2> QED
    BY <1>0, <2>1, <2>2 DEF Counted, CountsAreKept
<1>5. CASE UNCHANGED vars
  BY <1>5, CountedKept DEF vars
<1>6. ASSUME NEW t \in Workers, Teach(t) PROVE Counted'
  BY <1>6, TeachMoves, CountedKept DEF OnlyMoves
<1>7. ASSUME NEW r \in Readers, Looks(r) PROVE Counted'
  BY <1>7, CountedKept DEF Looks, Stat, Load, Store
<1>8. CASE Edit
  BY <1>8, CountedKept DEF Edit
<1>9. CASE LoadQueue
  BY <1>9, CountedKept DEF LoadQueue
<1>10. CASE CliLoad
  BY <1>10, CliLoadMoves, CountedKept DEF CliLoad, OnlyMoves
<1>11. CASE CliDecide
  BY <1>11, CliDecideMoves, CountedKept DEF CliDecide, OnlyMoves
<1>12. ASSUME NEW t \in Threads, NEW j \in {"watched", "quiet"}, Add(t, j) PROVE Counted'
  BY <1>12, AddMoves, CountedKept DEF Repeats, AddsNew, OnlyMoves
<1>13. ASSUME NEW t \in Threads, Decide(t) PROVE Counted'
  <2>1. work'["counter"] = work["counter"] /\ UNCHANGED counts
    BY <1>13, DecideMoves DEF Decide, OnlyMoves
  <2> QED
    BY <2>1, CountedKept
<1>14. ASSUME NEW t \in Threads, Persist(t) PROVE Counted'
  <2>1. UNCHANGED counts
    BY <1>14 DEF Persist
  <2>2. work'["counter"] = work["counter"]
    BY <1>14, PersistMoves DEF OnlyMoves
  <2> QED
    BY <2>1, <2>2, CountedKept
<1>15. Reviews => Counted'
  BY <1>9, <1>10, <1>11, <1>12, <1>13, <1>14 DEF Reviews, Watched, QueueLesson
<1> QED
  BY <1>1, <1>2, <1>3, <1>4, <1>5, <1>6, <1>7, <1>8, <1>15 DEF Next

-----------------------------------------------------------------------------
(* The queue's lock.                                                          *)

\* A step that leaves the queue alone and lets nobody reach its file.
LEMMA LockedKept ==
    ASSUME Locked, NEW t \in Workers, OnlyMoves(t), UNCHANGED <<queue>>,
           work[t].step # "persist", work'[t].step # "persist"
    PROVE  Locked'
BY WorkersDiffer DEF Locked, OnlyMoves

\* Every step of the queue keeps the lock.
LEMMA ReviewsLocked ==
    ASSUME Typed, HavePairs, Locked, Reviews PROVE Locked'
<1> USE WorkersDiffer
<1>1. CASE LoadQueue
  BY <1>1 DEF LoadQueue, Locked
<1>2. CASE CliLoad
  BY <1>2, CliLoadMoves, LockedKept DEF CliLoad, At
<1>3. CASE CliDecide
  BY <1>3, CliDecideMoves, LockedKept DEF CliDecide, At
<1>4. ASSUME NEW t \in Threads, OnlyMoves(t), queue.by = "none", queue'.loaded, queue'.by = t,
             work'[t].step = "persist"
      PROVE  Locked'
  BY <1>4 DEF Locked, OnlyMoves
<1>5. ASSUME NEW t \in Threads, NEW j \in {"watched", "quiet"}, Add(t, j) PROVE Locked'
  <2>1. CASE Repeats
    BY <2>1 DEF Repeats, Locked
  <2>2. ASSUME NEW i \in Ids, NEW out \in SUBSET queue.ids, NEW p \in Pairs,
               AddsNew(t, j, i, out, p)
        PROVE  Locked'
    BY <1>4, <1>5, <2>2, AddMoves DEF AddsNew, Task
  <2> QED
    BY <1>5, <2>1, <2>2, AddMoves
<1>6. ASSUME NEW t \in Threads, Decide(t) PROVE Locked'
  <2>1. PICK i \in Ids, j \in {"apply", "reject"} :
           /\ queue'.loaded /\ queue'.by = t /\ queue.by = "none" /\ OnlyMoves(t)
           /\ work'[t] = Task("persist", j, pair[i], i)
    BY <1>6, DecideMoves DEF Known
  <2>2. work'[t].step = "persist"
    BY <2>1 DEF Task
  <2> QED
    BY <1>4, <2>1, <2>2
<1>7. ASSUME NEW t \in Threads, Persist(t) PROVE Locked'
  BY <1>7, PersistMoves DEF Locked, OnlyMoves
<1> QED
  BY <1>1, <1>2, <1>3, <1>5, <1>6, <1>7 DEF Reviews, Watched, QueueLesson

\* Every step keeps the lock.
LEMMA StepLocked ==
    ASSUME Typed, HavePairs, Locked, [Next]_vars PROVE Locked'
<1> USE WorkersDiffer
<1>1. CASE UNCHANGED vars
  BY <1>1 DEF vars, review, Locked
<1>2. ASSUME NEW t \in Workers, Teach(t) PROVE Locked'
  BY <1>2, TeachMoves, LockedKept DEF review
<1>3. ASSUME NEW t \in Workers, Writes(t) PROVE Locked'
  BY <1>3, WritesMove, LockedKept DEF review, WritesOn, WriteSteps
<1>4. CASE Count
  BY <1>4 DEF Count, review, Locked
<1>5. CASE Flush
  BY <1>5, FlushMoves, LockedKept DEF Flush, review
<1>6. ASSUME NEW r \in Readers, Looks(r) PROVE Locked'
  BY <1>6 DEF Looks, Stat, Load, Store, review, Locked
<1>7. CASE Kill
  BY <1>7, IdleTyped DEF Kill, Locked
<1>8. CASE Edit
  BY <1>8 DEF Edit, review, Locked
<1> QED
  BY <1>1, <1>2, <1>3, <1>4, <1>5, <1>6, <1>7, <1>8, ReviewsLocked DEF Next

-----------------------------------------------------------------------------
(* The queue and its file.                                                    *)

\* A step that leaves the queue's side alone and lets nobody reach its file.
LEMMA KeptAlone ==
    ASSUME Kept, NEW t \in Workers, OnlyMoves(t), UNCHANGED review, work'[t].step # "persist"
    PROVE  Kept'
BY WorkersDiffer DEF Kept, OnlyMoves, review

\* Nobody is about to write the queue's file while it is not loaded, or not locked.
LEMMA NobodyPersists ==
    ASSUME Locked, queue.by = "none" PROVE \A t \in Workers : work[t].step # "persist"
BY WorkersDiffer DEF Locked, Workers

\* Adding keeps the promise: a new id was neither announced nor applied.
LEMMA AddKept ==
    ASSUME Typed, HavePairs, Locked, Kept, NEW t \in Threads, NEW j \in {"watched", "quiet"},
           Add(t, j)
    PROVE  Kept'
<1> USE WorkersDiffer
<1>1. /\ queue.loaded /\ queue.by = "none" /\ UNCHANGED <<disk, applied, meddled>>
      /\ \A u \in Workers : work[u].step # "persist"
  BY AddMoves, NobodyPersists
<1>2. CASE Repeats
  BY <1>1, <1>2 DEF Repeats, Kept
<1>3. ASSUME NEW i \in Ids, NEW out \in SUBSET queue.ids, NEW p \in Pairs, AddsNew(t, j, i, out, p)
      PROVE  Kept'
  <2>1. i \notin announced /\ i \notin applied
    BY <1>3, NoPairIsNone DEF AddsNew, HavePairs, Known
  <2>2. /\ work'[t].id = i /\ work'[t].job # "apply"
        /\ \A u \in Threads \ {t} : work'[u].step # "persist"
    BY <1>1, <1>3 DEF AddsNew, OnlyMoves, Task
  <2> QED
    BY <1>1, <1>3, <2>1, <2>2 DEF AddsNew, Kept
<1> QED
  BY <1>2, <1>3, AddMoves

\* Deciding keeps it: what leaves the queue is gone.
LEMMA DecideKept ==
    ASSUME Typed, HavePairs, Locked, Kept, NEW t \in Threads, Decide(t) PROVE Kept'
<1> USE WorkersDiffer
<1>1. PICK i \in Ids, j \in {"apply", "reject"} :
         /\ queue.loaded /\ queue.by = "none" /\ queue'.loaded /\ queue'.by = t /\ OnlyMoves(t)
         /\ queue'.ids = queue.ids \ {i} /\ gone' = gone \cup {i}
         /\ work'[t] = Task("persist", j, pair[i], i)
  BY DecideMoves DEF Known
<1>2. UNCHANGED <<disk, announced, applied, meddled>>
  BY DEF Decide
<1>3. \A u \in Threads \ {t} : work'[u].step # "persist"
  BY <1>1, NobodyPersists DEF OnlyMoves
<1>4. work'[t].id = i /\ work'[t].job # "watched"
  BY <1>1 DEF Task
<1> QED
  BY <1>1, <1>2, <1>3, <1>4 DEF Kept

\* Writing the queue's file keeps it, and a write that fails ends it.
LEMMA PersistKept ==
    ASSUME Typed, HavePairs, Locked, Kept, NEW t \in Threads, Persist(t) PROVE Kept'
<1> USE WorkersDiffer
<1>1. /\ queue'.loaded = queue.loaded /\ queue'.by = "none" /\ queue'.ids = queue.ids
      /\ work[t].step = "persist" /\ work'[t].step # "persist" /\ OnlyMoves(t)
  BY PersistMoves
<1>2. \A u \in Threads \ {t} : work[u].step # "persist" /\ work'[u].step # "persist"
  BY <1>1 DEF Locked, OnlyMoves
<1>3. \/ disk' = queue.ids /\ UNCHANGED meddled
      \/ meddled'
  BY DEF Persist
<1>4. /\ UNCHANGED gone
      /\ announced' = IF work[t].job = "watched" THEN announced \cup {work[t].id} ELSE announced
      /\ applied' = IF work[t].job = "apply" THEN applied \cup {work[t].id} ELSE applied
  BY DEF Persist
<1>5. queue.loaded
  BY <1>1 DEF Locked
<1>6. CASE meddled'
  BY <1>6 DEF Kept
<1>7. CASE disk' = queue.ids /\ ~meddled
  <2>1. announced \ gone \subseteq queue.ids /\ applied \cap queue.ids = {}
    BY <1>5, <1>7 DEF Kept
  <2>2. /\ work[t].job = "watched" => work[t].id \in queue.ids
        /\ work[t].job = "apply" => work[t].id \notin queue.ids
    BY <1>1, <1>7 DEF Kept
  <2>3. announced' \ gone' \subseteq queue.ids /\ applied' \cap queue.ids = {}
    BY <1>4, <2>1, <2>2
  <2> QED
    BY <1>1, <1>2, <1>7, <2>3 DEF Kept
<1> QED
  BY <1>3, <1>6, <1>7 DEF Kept

\* Every step keeps the promise of the queue.
LEMMA StepKept ==
    ASSUME Typed, HavePairs, Locked, Kept, [Next]_vars PROVE Kept'
<1> USE WorkersDiffer
<1>1. CASE UNCHANGED vars
  BY <1>1 DEF vars, review, Kept
<1>2. ASSUME NEW t \in Workers, Teach(t) PROVE Kept'
  BY <1>2, TeachMoves, KeptAlone
<1>3. ASSUME NEW t \in Workers, Writes(t) PROVE Kept'
  BY <1>3, WritesMove, KeptAlone DEF WritesOn, WriteSteps
<1>4. CASE Count
  BY <1>4 DEF Count, review, Kept
<1>5. CASE Flush
  BY <1>5, FlushMoves, KeptAlone DEF Flush
<1>6. ASSUME NEW r \in Readers, Looks(r) PROVE Kept'
  BY <1>6 DEF Looks, Stat, Load, Store, review, Kept
<1>7. CASE Kill
  BY <1>7, IdleTyped DEF Kill, Kept
<1>8. CASE Edit
  BY <1>8 DEF Edit, review, Kept
<1>9. CASE LoadQueue
  <2>1. \A t \in Workers : work[t].step # "persist"
    BY <1>9, NobodyPersists DEF LoadQueue, Locked
  <2> QED
    BY <1>9, <2>1 DEF LoadQueue, Prune, Stale, Kept
<1>10. CASE CliLoad
  <2>1. \A t \in Threads : work'[t] = work[t]
    BY <1>10, CliLoadMoves DEF OnlyMoves
  <2> QED
    BY <1>10, <2>1 DEF CliLoad, Prune, Stale, Kept
<1>11. CASE CliDecide
  <2>1. PICK S \in SUBSET other :
          /\ disk' = other \ S /\ gone' = gone \cup S
          /\ meddled' = (meddled \/ queue.loaded \/ disk # other)
          /\ applied' \in {applied, applied \cup S}
    BY <1>11, CliDecideMoves
  <2>2. UNCHANGED <<queue, announced>> /\ \A t \in Threads : work'[t] = work[t]
    BY <1>11, CliDecideMoves DEF CliDecide, OnlyMoves
  <2>3. CASE meddled'
    BY <2>3 DEF Kept
  <2>4. CASE ~meddled /\ ~queue.loaded /\ disk = other
    <3>1. \A t \in Workers : work[t].step # "persist"
      BY <2>4, NobodyPersists DEF Locked
    <3>2. announced \ gone \subseteq other /\ applied \cap other = {}
      BY <2>4 DEF Kept
    <3>3. announced' \ gone' \subseteq disk' /\ applied' \cap disk' = {}
      BY <2>1, <2>2, <3>2
    <3> QED
      BY <2>2, <2>4, <3>1, <3>3 DEF Kept
  <2> QED
    BY <2>1, <2>3, <2>4
<1>12. Reviews => Kept'
  BY <1>9, <1>10, <1>11, AddKept, DecideKept, PersistKept DEF Reviews, Watched, QueueLesson
<1> QED
  BY <1>1, <1>2, <1>3, <1>4, <1>5, <1>6, <1>7, <1>8, <1>12 DEF Next

-----------------------------------------------------------------------------
(* Theorems.                                                                  *)

\* A whole glossary or none, an empty cache and an idle daemon.
LEMMA TeachInit == Init => IInv
<1> SUFFICES ASSUME Init PROVE IInv
  OBVIOUS
<1> USE TeachingAssumption, WorkersDiffer, IdleTyped, NoPairIsNone
<1>1. PICK S \in SUBSET Pairs :
         /\ OneWay(S)
         /\ file \in {[is |-> "absent", pairs |-> {}, mtime |-> 0],
                      [is |-> "whole", pairs |-> S, mtime |-> 1]}
  BY DEF Init, OneWay
<1>2. Typed
  <2>1. /\ file \in [is : {"absent", "empty", "partial", "whole"}, pairs : SUBSET Pairs, mtime : Nat]
        /\ stamps \in Nat /\ cache \in [pairs : SUBSET Pairs, mtime : Nat]
    BY <1>1 DEF Init, Empty
  <2>2. look \in [Readers -> [step : {"idle", "load", "store"}, pairs : SUBSET Pairs, mtime : Nat]]
    BY DEF Init, NoLook
  <2>3. work \in [Workers -> Works] /\ queue \in Queues /\ counts \in Counts
    BY DEF Init, Queues, Counts
  <2>4. left \in Lefts
    BY DEF Init, Lefts
  <2> QED
    BY <2>1, <2>2, <2>3, <2>4 DEF Init, Typed
<1>3. HavePairs
  BY DEF Init, HavePairs
<1>4. OneWays
  <2>1. OneWay(file.pairs)
    BY <1>1, EmptyOneWay
  <2>2. \A t \in Workers : work[t].snap = {}
    BY DEF Init
  <2> QED
    BY <2>1, <2>2, EmptyOneWay DEF OneWays
<1>5. Stamped
  BY <1>1 DEF Init, Stamped, CacheIsFile, Empty, NoLook
<1>6. Counted
  BY DEF Init, Counted, CountsAreKept
<1>7. Locked /\ Kept
  BY DEF Init, Locked, Kept
<1> QED
  BY <1>2, <1>3, <1>4, <1>5, <1>6, <1>7 DEF IInv

\* The invariant holds in every behaviour.
LEMMA TeachInvariant == Spec => []IInv
<1>1. IInv /\ [Next]_vars => IInv'
  BY StepTyped, StepHasPairs, StepOneWay, StepStamped, StepCounted, StepLocked, StepKept DEF IInv
<1> QED
  BY <1>1, TeachInit, PTL DEF Spec

\* The files, tasks, counts and ids of Corrections are typed in every behaviour.
THEOREM TeachTypeCorrect == Spec => []TypeOK
<1>1. IInv => TypeOK
  <2> SUFFICES ASSUME IInv PROVE TypeOK
    OBVIOUS
  <2>1. /\ file.mtime \in 0..stamps /\ cache.mtime \in 0..stamps
    BY DEF IInv, Typed, Stamped
  <2>2. \A t \in Workers : /\ work[t].step \in Steps /\ work[t].snap \subseteq Pairs
                           /\ work[t].pair \in Pairs \cup {NoPair}
    BY DEF IInv, Typed, Works
  <2> QED
    BY <2>1, <2>2 DEF IInv, Typed, TypeOK, Queues
<1> QED
  BY <1>1, TeachInvariant, PTL

\* GlossaryCache::ensure_fresh of glossary.rs: a cache that claims the file's
\* modification time holds what the file holds, however the readers' three steps, the
\* writers of every process and the invalidations interleave.
THEOREM CacheNeverLies == Spec => []CacheIsFile
<1>1. IInv => CacheIsFile
  BY DEF IInv, Stamped
<1> QED
  BY <1>1, TeachInvariant, PTL

\* apply_pairs_to_glossary_with_provenance of correction.rs: no two words ever correct
\* each other, though writers read, learn and write back without a lock.
THEOREM LearningIsOneWay == Spec => []NeverBothWays
<1>1. IInv => NeverBothWays
  BY DEF IInv, OneWays, OneWay, NeverBothWays
<1> QED
  BY <1>1, TeachInvariant, PTL

\* correction_queue.rs and flush_bumps_to of glossary.rs: what is to be decided is on
\* disk and what was applied is not asked again, and every counted word waits, is being
\* written or was written, over restarts and failed writes.
THEOREM LessonsOutliveFailures == Spec => []LessonsAreKept
<1>1. IInv => LessonsAreKept
  BY DEF IInv, Counted, Kept, LessonsAreKept, QueueIsKept
<1> QED
  BY <1>1, TeachInvariant, PTL

-----------------------------------------------------------------------------
(* VoiceEdit: the spoken edits a correction often starts from.  Every set of  *)
(* fields and applications, and any number of pastes, inputs and commands.    *)

CONSTANTS Opaque, AppOf, MaxAnchors, MaxEvents, MaxEdits, MaxText
VARIABLES caret, before, selected, pastes, grace, snaps, pasting, edit, edits, events

Voice == INSTANCE VoiceEdit WITH focus <- caret

Whats   == {"input", "committed", "untracked"}
Anchors == [id : Nat, text : Int, app : {AppOf[f] : f \in Fields} \cup {None},
            elem : Fields \cup {None}, since : SUBSET Whats, old : BOOLEAN]
Effects == {"none", "pop", "rewrite", "untracked", "skip"}

Acts    == {"none", "erase", "change", "newline", "undo", "enter", "select", "goto", "handoff"}
Paths   == {"none", "ax", "keys", "word", "wordKeys", "field", "iris"}

\* What a plan may be: what is done, by which path, and to the anchor.
Way(does, by, effect) ==
    \/ does = "erase" /\ by \in {"ax", "keys"} /\ effect = "pop"
    \/ does = "erase" /\ by \in {"word", "wordKeys"} /\ effect = "untracked"
    \/ does = "change" /\ by \in {"ax", "keys"} /\ effect = "rewrite"
    \/ does = "change" /\ by = "field" /\ effect \in {"untracked", "skip"}
    \/ does = "newline" /\ by \in {"ax", "keys"} /\ effect = "untracked"
    \/ does = "undo" /\ by = "keys" /\ effect = "untracked"
    \/ does = "enter" /\ by = "keys" /\ effect = "none"
    \/ does \in {"select", "goto"} /\ by \in {"ax", "keys"} /\ effect = "none"
    \/ does = "handoff" /\ by = "iris" /\ effect = "none"

-----------------------------------------------------------------------------
(* The stack of anchors.                                                      *)

LEMMA AnchorFields ==
    ASSUME NEW a \in Anchors
    PROVE  /\ a.id \in Nat /\ a.text \in Int /\ a.since \in SUBSET Whats
           /\ a.app \in {AppOf[f] : f \in Fields} \cup {None} /\ a.elem \in Fields \cup {None}
BY DEF Anchors

LEMMA UnsentTyped ==
    /\ Voice!Unsent \in Anchors
    /\ Voice!Unsent.id = 0 /\ Voice!Unsent.since = {} /\ Voice!Unsent.text = 0
    /\ Voice!Unsent.elem = None
BY DEF Voice!Unsent, Voice!Own, Anchors

\* A function on 1..n is a sequence.
LEMMA FunctionIsSeq ==
    ASSUME NEW S, NEW n \in Nat, NEW f \in [1..n -> S]
    PROVE  f \in Seq(S) /\ Len(f) = n
<1>1. f \in Seq(S)
  BY SeqDef
<1>2. DOMAIN f = 1..n /\ DOMAIN f = 1..Len(f) /\ Len(f) \in Nat
  BY <1>1, LenProperties
<1>. QED
  BY <1>1, <1>2

\* An event marks every anchor.
LEMMA SinceIs ==
    ASSUME NEW st \in Seq(Anchors), NEW what \in Whats
    PROVE  /\ Voice!Since(what, st) \in Seq(Anchors)
           /\ Len(Voice!Since(what, st)) = Len(st)
           /\ \A i \in 1..Len(st) :
                 /\ Voice!Since(what, st)[i].id = st[i].id
                 /\ Voice!Since(what, st)[i].text = st[i].text
                 /\ Voice!Since(what, st)[i].app = st[i].app
                 /\ Voice!Since(what, st)[i].elem = st[i].elem
                 /\ Voice!Since(what, st)[i].since # {}
<1>. DEFINE mark(a) == [a EXCEPT !.since = @ \cup {what}]
            bs == [i \in 1..Len(st) |-> mark(st[i])]
<1>1. DOMAIN st = 1..Len(st) /\ Len(st) \in Nat
  BY LenProperties
<1>2. Voice!Since(what, st) = bs
  BY <1>1 DEF Voice!Since
<1>3. \A a \in Anchors : /\ mark(a) \in Anchors /\ mark(a).id = a.id /\ mark(a).text = a.text
                          /\ mark(a).app = a.app /\ mark(a).elem = a.elem
                          /\ mark(a).since # {}
  BY DEF Anchors
<1>4. \A i \in 1..Len(st) : st[i] \in Anchors
  BY <1>1, ElementOfSeq
<1>. HIDE DEF mark
<1>5. bs \in Seq(Anchors) /\ Len(bs) = Len(st)
  <2>1. bs \in [1..Len(st) -> Anchors]
    BY <1>3, <1>4
  <2>. QED
    BY <1>1, <2>1, FunctionIsSeq
<1>6. \A i \in 1..Len(st) : bs[i] = mark(st[i])
  OBVIOUS
<1>. QED
  BY <1>2, <1>3, <1>4, <1>5, <1>6

\* So does the half minute that goes by.
Aged(st) == [i \in DOMAIN st |-> [st[i] EXCEPT !.old = TRUE]]
LEMMA AgedIs ==
    ASSUME NEW st \in Seq(Anchors)
    PROVE  /\ Aged(st) \in Seq(Anchors) /\ Len(Aged(st)) = Len(st)
           /\ \A i \in 1..Len(st) :
                 /\ Aged(st)[i].id = st[i].id /\ Aged(st)[i].text = st[i].text
                 /\ Aged(st)[i].app = st[i].app /\ Aged(st)[i].elem = st[i].elem
                 /\ Aged(st)[i].since = st[i].since
<1>. DEFINE mark(a) == [a EXCEPT !.old = TRUE]
            bs == Aged(st)
<1>1. DOMAIN st = 1..Len(st) /\ Len(st) \in Nat
  BY LenProperties
<1>2. bs = [i \in 1..Len(st) |-> mark(st[i])]
  BY <1>1 DEF Aged
<1>3. \A a \in Anchors : /\ mark(a) \in Anchors /\ mark(a).id = a.id /\ mark(a).text = a.text
                          /\ mark(a).app = a.app /\ mark(a).elem = a.elem
                          /\ mark(a).since = a.since
  BY DEF Anchors
<1>4. \A i \in 1..Len(st) : st[i] \in Anchors
  BY <1>1, ElementOfSeq
<1>. HIDE DEF mark, bs
<1>5. bs \in Seq(Anchors) /\ Len(bs) = Len(st)
  <2>1. bs \in [1..Len(st) -> Anchors]
    BY <1>2, <1>3, <1>4
  <2>. QED
    BY <1>1, <2>1, FunctionIsSeq
<1>6. ASSUME NEW i \in 1..Len(st)
      PROVE  /\ bs[i].id = st[i].id /\ bs[i].text = st[i].text /\ bs[i].app = st[i].app
             /\ bs[i].elem = st[i].elem /\ bs[i].since = st[i].since
  <2>1. bs[i] = mark(st[i])
    BY <1>2
  <2>. QED
    BY <1>3, <1>4, <2>1
<1>. QED
  BY <1>5, <1>6 DEF bs

\* A snapshot says where the anchor of its paste is.
LEMMA SetElemIs ==
    ASSUME NEW st \in Seq(Anchors), NEW n, NEW e \in Fields \cup {None}
    PROVE  /\ Voice!SetElem(n, e, st) \in Seq(Anchors)
           /\ Len(Voice!SetElem(n, e, st)) = Len(st)
           /\ \A i \in 1..Len(st) :
                 /\ Voice!SetElem(n, e, st)[i].id = st[i].id
                 /\ Voice!SetElem(n, e, st)[i].text = st[i].text
                 /\ Voice!SetElem(n, e, st)[i].app = st[i].app
                 /\ Voice!SetElem(n, e, st)[i].since = st[i].since
                 /\ Voice!SetElem(n, e, st)[i].elem = IF st[i].id = n THEN e ELSE st[i].elem
<1>. DEFINE there(a) == [a EXCEPT !.elem = e]
            bs == [i \in 1..Len(st) |-> IF st[i].id = n THEN there(st[i]) ELSE st[i]]
<1>1. DOMAIN st = 1..Len(st) /\ Len(st) \in Nat
  BY LenProperties
<1>2. Voice!SetElem(n, e, st) = bs
  BY <1>1 DEF Voice!SetElem
<1>3. \A a \in Anchors : /\ there(a) \in Anchors /\ there(a).id = a.id
                          /\ there(a).text = a.text /\ there(a).app = a.app
                          /\ there(a).since = a.since /\ there(a).elem = e
  BY DEF Anchors
<1>4. \A i \in 1..Len(st) : st[i] \in Anchors
  BY <1>1, ElementOfSeq
<1>. HIDE DEF there
<1>5. bs \in Seq(Anchors) /\ Len(bs) = Len(st)
  <2>1. bs \in [1..Len(st) -> Anchors]
    BY <1>3, <1>4
  <2>. QED
    BY <1>1, <2>1, FunctionIsSeq
<1>6. ASSUME NEW i \in 1..Len(st)
      PROVE  /\ bs[i].id = st[i].id /\ bs[i].text = st[i].text /\ bs[i].app = st[i].app
             /\ bs[i].since = st[i].since
             /\ bs[i].elem = IF st[i].id = n THEN e ELSE st[i].elem
  <2>1. CASE st[i].id = n
    <3>1. bs[i] = there(st[i])
      BY <2>1
    <3>. QED
      BY <1>3, <1>4, <2>1, <3>1
  <2>2. CASE st[i].id # n
    BY <2>2
  <2>. QED
    BY <2>1, <2>2
<1>. HIDE DEF bs
<1>. QED
  BY <1>2, <1>5, <1>6

\* One anchor is kept, or none is there.
LEMMA OnlyIs ==
    ASSUME NEW st \in Seq(Anchors), NEW n
    PROVE  /\ Voice!Only(n, st) \in Seq(Anchors)
           /\ \/ Len(Voice!Only(n, st)) = 0
              \/ /\ Len(Voice!Only(n, st)) = 1
                 /\ \E i \in 1..Len(st) : st[i].id = n /\ Voice!Only(n, st)[1] = st[i]
<1>1. DOMAIN st = 1..Len(st) /\ \A i \in 1..Len(st) : st[i] \in Anchors
  BY LenProperties, ElementOfSeq
<1>2. CASE \E i \in DOMAIN st : st[i].id = n
  <2>. DEFINE j == CHOOSE i \in DOMAIN st : st[i].id = n
  <2>1. j \in 1..Len(st) /\ st[j].id = n /\ Voice!Only(n, st) = <<st[j]>>
    BY <1>1, <1>2, Zenon DEF Voice!Only
  <2>. HIDE DEF j
  <2>2. st[j] \in Anchors
    BY <1>1, <2>1
  <2>3. Voice!Only(n, st) \in Seq(Anchors) /\ Len(Voice!Only(n, st)) = 1
        /\ Voice!Only(n, st)[1] = st[j]
    <3>. DEFINE a == st[j]
    <3>1. <<a>> \in Seq(Anchors) /\ Len(<<a>>) = 1 /\ <<a>>[1] = a
      <4>1. a \in Anchors
        BY <2>2
      <4>. HIDE DEF a
      <4>. QED
        BY <4>1
    <3>. QED
      BY <2>1, <3>1
  <2>. QED
    BY <2>1, <2>3
<1>3. CASE ~\E i \in DOMAIN st : st[i].id = n
  BY <1>3, EmptySeq DEF Voice!Only
<1>. QED
  BY <1>2, <1>3

\* The newest anchor goes.
LEMMA FrontIs ==
    ASSUME NEW S, NEW s \in Seq(S)
    PROVE  /\ Voice!Front(s) \in Seq(S)
           /\ Len(Voice!Front(s)) = IF Len(s) = 0 THEN 0 ELSE Len(s) - 1
           /\ \A i \in 1..(Len(s) - 1) : Voice!Front(s)[i] = s[i]
<1>1. Len(s) \in Nat /\ \A i \in 1..(Len(s) - 1) : s[i] \in S
  BY LenProperties, ElementOfSeq
<1>. QED
  BY <1>1, SubSeqProperties DEF Voice!Front

\* An edit stamps the newest anchor anew.
Anew(a, text)   == [a EXCEPT !.text = text, !.since = {}, !.old = FALSE]
Stamp(st, text) == Append(Voice!Front(st), Anew(Voice!Last(st), text))
LEMMA StampIs ==
    ASSUME NEW st \in Seq(Anchors), Len(st) # 0, NEW text \in Int
    PROVE  /\ Stamp(st, text) \in Seq(Anchors)
           /\ Len(Stamp(st, text)) = Len(st) /\ Len(st) \in Nat \ {0}
           /\ \A i \in 1..(Len(st) - 1) : Stamp(st, text)[i] = st[i]
           /\ Stamp(st, text)[Len(st)].id = st[Len(st)].id
           /\ Stamp(st, text)[Len(st)].app = st[Len(st)].app
           /\ Stamp(st, text)[Len(st)].elem = st[Len(st)].elem
           /\ Stamp(st, text)[Len(st)].text = text
<1>. DEFINE top == Voice!Last(st)
            new == Anew(top, text)
            front == Voice!Front(st)
            bs == Stamp(st, text)
<1>1. Len(st) \in Nat \ {0} /\ Len(st) \in 1..Len(st)
  BY LenProperties
<1>2. top \in Anchors /\ top = st[Len(st)]
  BY <1>1, ElementOfSeq DEF Voice!Last
<1>3. new \in Anchors /\ new.id = top.id /\ new.app = top.app /\ new.elem = top.elem
      /\ new.text = text
  <2>. HIDE DEF top
  <2>. QED
    BY <1>2 DEF Anew, Anchors
<1>4. front \in Seq(Anchors) /\ Len(front) = Len(st) - 1
      /\ \A i \in 1..(Len(st) - 1) : front[i] = st[i]
  BY <1>1, FrontIs
<1>5. bs = Append(front, new)
  BY DEF Stamp
<1>. HIDE DEF new, front, bs
<1>6. bs \in Seq(Anchors) /\ Len(bs) = Len(front) + 1
      /\ (\A i \in 1..Len(front) : bs[i] = front[i])
      /\ bs[Len(front) + 1] = new
  BY <1>3, <1>4, <1>5, AppendProperties
<1>7. Len(front) + 1 = Len(st)
  BY <1>1, <1>4
<1>8. bs[Len(st)] = new
  BY <1>6, <1>7
<1>9. \A i \in 1..(Len(st) - 1) : bs[i] = st[i]
  BY <1>1, <1>4, <1>6
<1>. HIDE DEF top
<1>. QED
  BY <1>1, <1>2, <1>3, <1>6, <1>7, <1>8, <1>9 DEF bs

\* What the stack is like: numbers rise, no text is the user's own, and all anchors are
\* of one application and, as far as that is known, of one field.
Rising(st, n) ==
    /\ \A i \in 1..Len(st) : st[i].text # Voice!Own /\ st[i].id \in 1..n
    /\ \A i, j \in 1..Len(st) : i < j => st[i].id < st[j].id
Together(st) ==
    \A i, j \in 1..Len(st) :
        /\ st[i].app = st[j].app
        /\ st[i].elem = None \/ st[j].elem = None \/ st[i].elem = st[j].elem
Stacked(st, n) == st \in Seq(Anchors) /\ Rising(st, n) /\ Together(st)

\* ... and what leaves it so: the same anchors with other stamps, and a shorter stack.
LEMMA AlikeStacked ==
    ASSUME NEW st, NEW n \in Nat, Stacked(st, n), NEW bs \in Seq(Anchors),
           Len(bs) <= Len(st),
           \A i \in 1..Len(bs) : /\ bs[i].id = st[i].id /\ bs[i].text # Voice!Own
                                 /\ bs[i].app = st[i].app /\ bs[i].elem = st[i].elem
    PROVE  Stacked(bs, n)
<1>1. Len(st) \in Nat /\ Len(bs) \in Nat
  BY LenProperties DEF Stacked
<1>2. \A i \in 1..Len(bs) : i \in 1..Len(st)
  BY <1>1
<1>3. Rising(bs, n)
  BY <1>2 DEF Stacked, Rising
<1>4. Together(bs)
  BY <1>2 DEF Stacked, Together
<1>. QED
  BY <1>3, <1>4 DEF Stacked

LEMMA SinceStacked ==
    ASSUME NEW st, NEW n \in Nat, Stacked(st, n), NEW what \in Whats
    PROVE  Stacked(Voice!Since(what, st), n)
<1>1. st \in Seq(Anchors) /\ Len(st) \in Nat
  BY LenProperties DEF Stacked
<1>. DEFINE bs == Voice!Since(what, st)
<1>2. bs \in Seq(Anchors) /\ Len(bs) = Len(st)
      /\ \A i \in 1..Len(bs) : /\ bs[i].id = st[i].id /\ bs[i].text = st[i].text
                               /\ bs[i].app = st[i].app /\ bs[i].elem = st[i].elem
  BY <1>1, SinceIs
<1>. HIDE DEF bs
<1>3. \A i \in 1..Len(bs) : bs[i].text # Voice!Own
  BY <1>2 DEF Stacked, Rising
<1>. QED
  BY <1>1, <1>2, <1>3, AlikeStacked DEF bs

LEMMA AgedStacked ==
    ASSUME NEW st, NEW n \in Nat, Stacked(st, n)
    PROVE  Stacked(Aged(st), n)
<1>1. st \in Seq(Anchors) /\ Len(st) \in Nat
  BY LenProperties DEF Stacked
<1>. DEFINE bs == Aged(st)
<1>2. bs \in Seq(Anchors) /\ Len(bs) = Len(st)
      /\ \A i \in 1..Len(bs) : /\ bs[i].id = st[i].id /\ bs[i].text = st[i].text
                               /\ bs[i].app = st[i].app /\ bs[i].elem = st[i].elem
  BY <1>1, AgedIs
<1>. HIDE DEF bs
<1>3. \A i \in 1..Len(bs) : bs[i].text # Voice!Own
  BY <1>2 DEF Stacked, Rising
<1>. QED
  BY <1>1, <1>2, <1>3, AlikeStacked DEF bs

\* A paste puts an anchor on top, in an empty stack if the application is another.
New(n)       == [Voice!Unsent EXCEPT !.id = n, !.text = n, !.app = Voice!App]
Base(st)     == IF st # <<>> /\ Voice!Last(st).app # Voice!App THEN <<>> ELSE st
Pushed(st, n) == Append(Base(st), New(n))
Capped(st)   == IF Len(st) > MaxAnchors THEN Tail(st) ELSE st

LEMMA NewIs ==
    ASSUME NEW n \in Nat \ {0}, caret \in Fields
    PROVE  /\ New(n) \in Anchors /\ New(n).id = n /\ New(n).text = n
           /\ New(n).app = Voice!App /\ New(n).elem = None /\ New(n).since = {}
<1>1. Voice!App \in {AppOf[f] : f \in Fields}
  BY DEF Voice!App
<1>. DEFINE a == Voice!Unsent
<1>2. a \in Anchors /\ a.elem = None /\ a.since = {}
  BY UnsentTyped
<1>3. New(n) = [a EXCEPT !.id = n, !.text = n, !.app = Voice!App]
  BY DEF New
<1>. HIDE DEF a
<1>4. /\ New(n).id = n /\ New(n).text = n /\ New(n).app = Voice!App
      /\ New(n).elem = a.elem /\ New(n).since = a.since
  BY <1>2, <1>3 DEF Anchors
<1>5. New(n) \in Anchors
  <2>. DEFINE Apps == {AppOf[f] : f \in Fields} \cup {None}
  <2>1. Voice!App \in Apps
    BY <1>1
  <2>2. a \in [id : Nat, text : Int, app : Apps, elem : Fields \cup {None},
                since : SUBSET Whats, old : BOOLEAN]
    BY <1>2 DEF Anchors
  <2>. HIDE DEF Apps
  <2>3. \A m \in Int : [a EXCEPT !.id = n, !.text = m, !.app = Voice!App]
                          \in [id : Nat, text : Int, app : Apps, elem : Fields \cup {None},
                              since : SUBSET Whats, old : BOOLEAN]
    BY <2>1, <2>2
  <2>4. n \in Int
    OBVIOUS
  <2>. QED
    BY <1>3, <2>3, <2>4 DEF Apps, Anchors
<1>. QED
  BY <1>2, <1>4, <1>5

LEMMA BaseStacked ==
    ASSUME NEW st, NEW n \in Nat, Stacked(st, n)
    PROVE  /\ Stacked(Base(st), n)
           /\ \A i \in 1..Len(Base(st)) : Base(st)[i].app = Voice!App
           /\ Base(st) = st \/ Len(Base(st)) = 0
<1>1. st \in Seq(Anchors) /\ Len(st) \in Nat
  BY LenProperties DEF Stacked
<1>2. CASE st = <<>> \/ Voice!Last(st).app # Voice!App
  <2>1. Base(st) = <<>>
    BY <1>2 DEF Base
  <2>2. <<>> \in Seq(Anchors) /\ Len(<<>>) = 0
    BY EmptySeq
  <2>. QED
    BY <2>1, <2>2 DEF Stacked, Rising, Together
<1>3. CASE st # <<>> /\ Voice!Last(st).app = Voice!App
  <2>1. Base(st) = st
    BY <1>3 DEF Base
  <2>2. Len(st) \in 1..Len(st)
    BY <1>1, <1>3, EmptySeq
  <2>3. \A i \in 1..Len(st) : st[i].app = Voice!App
    BY <1>3, <2>2 DEF Voice!Last, Stacked, Together
  <2>. QED
    BY <2>1, <2>3
<1>. QED
  BY <1>2, <1>3

LEMMA PushedStacked ==
    ASSUME NEW st, NEW n \in Nat, Stacked(st, n), caret \in Fields
    PROVE  /\ Stacked(Pushed(st, n + 1), n + 1)
           /\ Len(Pushed(st, n + 1)) = Len(Base(st)) + 1
           /\ \A i \in 1..Len(Base(st)) : Pushed(st, n + 1)[i] = st[i]
<1>. DEFINE b == Base(st)
            new == New(n + 1)
            bs == Pushed(st, n + 1)
<1>1. Stacked(b, n) /\ (\A i \in 1..Len(b) : b[i].app = Voice!App) /\ (b = st \/ Len(b) = 0)
  BY BaseStacked
<1>2. b \in Seq(Anchors) /\ Len(b) \in Nat
  BY <1>1, LenProperties DEF Stacked
<1>3. /\ new \in Anchors /\ new.id = n + 1 /\ new.text = n + 1
      /\ new.app = Voice!App /\ new.elem = None
  BY NewIs
<1>4. bs = Append(b, new)
  BY DEF Pushed
<1>. HIDE DEF b, new, bs
<1>5. /\ bs \in Seq(Anchors) /\ Len(bs) = Len(b) + 1
      /\ (\A i \in 1..Len(b) : bs[i] = b[i]) /\ bs[Len(b) + 1] = new
  BY <1>2, <1>3, <1>4, AppendProperties
<1>6. \A i \in 1..Len(bs) : i \in 1..Len(b) \/ i = Len(b) + 1
  BY <1>2, <1>5
<1>7. \A i \in 1..Len(b) : b[i].id \in 1..n /\ b[i].text # Voice!Own
  BY <1>1 DEF Stacked, Rising
<1>8. \A i \in 1..Len(bs) : bs[i].text # Voice!Own /\ bs[i].id \in 1..(n + 1)
  BY <1>3, <1>5, <1>6, <1>7 DEF Voice!Own
<1>9. ASSUME NEW i \in 1..Len(bs), NEW j \in 1..Len(bs), i < j PROVE bs[i].id < bs[j].id
  <2>1. i \in 1..Len(b)
    BY <1>2, <1>5, <1>9
  <2>2. CASE j \in 1..Len(b)
    BY <1>1, <1>5, <1>9, <2>1, <2>2 DEF Stacked, Rising
  <2>3. CASE j = Len(b) + 1
    BY <1>3, <1>5, <1>7, <2>1, <2>3
  <2>. QED
    BY <1>6, <2>2, <2>3
<1>10. ASSUME NEW i \in 1..Len(bs), NEW j \in 1..Len(bs)
       PROVE  /\ bs[i].app = bs[j].app
              /\ bs[i].elem = None \/ bs[j].elem = None \/ bs[i].elem = bs[j].elem
  <2>1. \A k \in 1..Len(bs) : bs[k].app = Voice!App
    BY <1>1, <1>3, <1>5, <1>6
  <2>2. CASE i \in 1..Len(b) /\ j \in 1..Len(b)
    BY <1>1, <1>5, <2>1, <2>2 DEF Stacked, Together
  <2>3. CASE i = Len(b) + 1 \/ j = Len(b) + 1
    BY <1>3, <1>5, <2>1, <2>3
  <2>. QED
    BY <1>6, <2>2, <2>3
<1>. QED
  <2>1. Stacked(bs, n + 1)
    BY <1>5, <1>8, <1>9, <1>10 DEF Stacked, Rising, Together
  <2>2. \A i \in 1..Len(b) : bs[i] = st[i]
    BY <1>1, <1>5
  <2>. QED
    BY <1>5, <2>1, <2>2 DEF b, bs

LEMMA CappedStacked ==
    ASSUME NEW st, NEW n \in Nat, Stacked(st, n), Len(st) # 0
    PROVE  /\ Stacked(Capped(st), n)
           /\ \/ Capped(st) = st
              \/ /\ Len(Capped(st)) = Len(st) - 1
                 /\ \A i \in 1..(Len(st) - 1) : Capped(st)[i] = st[i + 1]
<1>1. st \in Seq(Anchors) /\ Len(st) \in Nat
  BY LenProperties DEF Stacked
<1>2. CASE Len(st) > MaxAnchors
  <2>. DEFINE bs == Tail(st)
  <2>1. bs \in Seq(Anchors) /\ Len(bs) = Len(st) - 1 /\ (\A i \in 1..Len(bs) : bs[i] = st[i + 1])
    <3>1. st # <<>>
      BY <1>1, EmptySeq
    <3>. QED
      BY <1>1, <3>1, HeadTailProperties
  <2>2. Capped(st) = bs
    BY <1>2 DEF Capped
  <2>. HIDE DEF bs
  <2>3. \A i \in 1..Len(bs) : i + 1 \in 1..Len(st) /\ i \in Nat
    BY <1>1, <2>1
  <2>4. Rising(bs, n)
    <3>1. \A i \in 1..Len(bs) : bs[i].text # Voice!Own /\ bs[i].id \in 1..n
      BY <2>1, <2>3 DEF Stacked, Rising
    <3>2. ASSUME NEW i \in 1..Len(bs), NEW j \in 1..Len(bs), i < j
          PROVE  bs[i].id < bs[j].id
      <4>1. i + 1 \in 1..Len(st) /\ j + 1 \in 1..Len(st) /\ i + 1 < j + 1
        BY <2>3, <3>2
      <4>2. bs[i] = st[i + 1] /\ bs[j] = st[j + 1]
        BY <2>1
      <4>. QED
        BY <4>1, <4>2 DEF Stacked, Rising
    <3>. QED
      BY <3>1, <3>2 DEF Rising
  <2>5. Together(bs)
    <3>1. ASSUME NEW i \in 1..Len(bs), NEW j \in 1..Len(bs)
          PROVE  /\ bs[i].app = bs[j].app
                 /\ bs[i].elem = None \/ bs[j].elem = None \/ bs[i].elem = bs[j].elem
      <4>1. i + 1 \in 1..Len(st) /\ j + 1 \in 1..Len(st)
        BY <2>3
      <4>2. bs[i] = st[i + 1] /\ bs[j] = st[j + 1]
        BY <2>1
      <4>. QED
        BY <4>1, <4>2 DEF Stacked, Together
    <3>. QED
      BY <3>1 DEF Together
  <2>. QED
    BY <2>1, <2>2, <2>4, <2>5 DEF Stacked
<1>3. CASE ~(Len(st) > MaxAnchors)
  BY <1>3 DEF Capped
<1>. QED
  BY <1>2, <1>3

\* What a snapshot leaves of the stack: one anchor, or what fits the field it saw.
Seen(n, e, st) ==
    Voice!SetElem(n, e, IF e # None /\ \E i \in DOMAIN st :
                                           st[i].id # n /\ st[i].elem \notin {None, e}
                        THEN Voice!Only(n, st) ELSE st)

LEMMA SeenStacked ==
    ASSUME NEW st, NEW n \in Nat, Stacked(st, n), NEW k, NEW e \in Fields \cup {None}
    PROVE  /\ Stacked(Seen(k, e, st), n)
           /\ \/ /\ Len(Seen(k, e, st)) = Len(st)
                 /\ \A i \in 1..Len(st) : Seen(k, e, st)[i].since = st[i].since
              \/ Len(Seen(k, e, st)) = 0
              \/ /\ Len(Seen(k, e, st)) = 1
                 /\ \E i \in 1..Len(st) : Seen(k, e, st)[1].since = st[i].since
<1>1. st \in Seq(Anchors) /\ Len(st) \in Nat /\ DOMAIN st = 1..Len(st)
  BY LenProperties DEF Stacked
<1>. DEFINE differs == e # None /\ \E i \in DOMAIN st :
                                       st[i].id # k /\ st[i].elem \notin {None, e}
            bs == Voice!SetElem(k, e, st)
            one == Voice!Only(k, st)
            os == Voice!SetElem(k, e, one)
<1>2. CASE ~differs
  <2>1. Seen(k, e, st) = bs
    BY <1>2, Zenon DEF Seen
  <2>2. /\ bs \in Seq(Anchors) /\ Len(bs) = Len(st)
        /\ \A i \in 1..Len(st) :
              /\ bs[i].id = st[i].id /\ bs[i].text = st[i].text /\ bs[i].app = st[i].app
              /\ bs[i].since = st[i].since
              /\ bs[i].elem = IF st[i].id = k THEN e ELSE st[i].elem
    BY <1>1, SetElemIs
  <2>. HIDE DEF bs
  <2>3. Rising(bs, n)
    BY <2>2 DEF Stacked, Rising
  <2>4. e = None \/ \A i \in 1..Len(st) : st[i].id = k \/ st[i].elem \in {None, e}
    BY <1>1, <1>2
  <2>5. Together(bs)
    BY <2>2, <2>4 DEF Stacked, Together
  <2>. QED
    BY <2>1, <2>2, <2>3, <2>5 DEF Stacked
<1>3. CASE differs
  <2>1. Seen(k, e, st) = os
    BY <1>3, Zenon DEF Seen
  <2>2. /\ one \in Seq(Anchors)
        /\ Len(one) = 0 \/ (Len(one) = 1 /\ \E i \in 1..Len(st) : one[1] = st[i])
    BY <1>1, OnlyIs
  <2>. HIDE DEF one
  <2>3. /\ os \in Seq(Anchors) /\ Len(os) = Len(one)
        /\ \A i \in 1..Len(one) : /\ os[i].id = one[i].id /\ os[i].text = one[i].text
                                  /\ os[i].since = one[i].since
    BY <2>2, SetElemIs
  <2>. HIDE DEF os
  <2>4. CASE Len(one) = 0
    BY <2>1, <2>3, <2>4 DEF Stacked, Rising, Together
  <2>5. CASE Len(one) = 1 /\ \E i \in 1..Len(st) : one[1] = st[i]
    <3>1. PICK i \in 1..Len(st) : one[1] = st[i]
      BY <2>5
    <3>2. \A j \in 1..Len(os) : j = 1
      BY <2>3, <2>5
    <3>3. /\ os[1].id = st[i].id /\ os[1].text = st[i].text /\ os[1].since = st[i].since
      BY <2>3, <2>5, <3>1
    <3>4. Rising(os, n) /\ Together(os)
      BY <3>2, <3>3 DEF Stacked, Rising, Together
    <3>. QED
      BY <2>1, <2>3, <2>5, <3>3, <3>4 DEF Stacked
  <2>. QED
    BY <2>2, <2>4, <2>5
<1>. QED
  BY <1>2, <1>3

-----------------------------------------------------------------------------
(* Plans.                                                                     *)

\* What is planned for anchor a in the element e: through accessibility only where it
\* can read, at the caret where the anchor's text was seen, and by erasing keystrokes
\* only on an anchor since which nothing happened.
Sound(a, e, p) ==
    /\ Way(p.does, p.by, p.effect) /\ p.index \in Nat
    /\ p.by \in {"ax", "field", "word"} => e \in Fields
    /\ p.by = "ax" => p.index = 0 \/ (a.id # 0 /\ Voice!AtCaret(a, e) /\ p.index = Len(before[e]))
    /\ p.by = "keys" /\ p.does \in {"erase", "change"} => a.id # 0 /\ a.since = {}
    /\ p.effect = "rewrite" => a.id # 0

LEMMA DoIs ==
    ASSUME NEW does, NEW by, NEW index, NEW effect
    PROVE  /\ Voice!Do(does, by, index, effect).does = does
           /\ Voice!Do(does, by, index, effect).by = by
           /\ Voice!Do(does, by, index, effect).index = index
           /\ Voice!Do(does, by, index, effect).effect = effect
BY DEF Voice!Do

LEMMA LengthsTyped ==
    ASSUME before \in [Fields -> Seq(Int)], NEW e \in Fields
    PROVE  Len(before[e]) \in Nat /\ DOMAIN before[e] = 1..Len(before[e])
<1>1. before[e] \in Seq(Int)
  OBVIOUS
<1>. QED
  BY <1>1, LenProperties

LEMMA OnAnchorSound ==
    ASSUME before \in [Fields -> Seq(Int)], NEW a, NEW e, NEW does, NEW effect,
           Way(does, "ax", effect), Way(does, "keys", effect),
           NEW p \in Voice!OnAnchor(a, e, does, effect)
    PROVE  Sound(a, e, p)
<1>1. CASE Voice!Located(a, e)
  <2>1. p = Voice!Do(does, "ax", Len(before[e]), effect)
    BY <1>1 DEF Voice!OnAnchor
  <2>2. e \in Fields /\ a.id # 0 /\ Voice!AtCaret(a, e)
    BY <1>1 DEF Voice!Located, Voice!Trusted, Voice!AtCaret, Voice!Readable
  <2>3. Len(before[e]) \in Nat
    BY <2>2, LengthsTyped
  <2>. QED
    BY <2>1, <2>2, <2>3, DoIs DEF Sound
<1>2. CASE ~Voice!Located(a, e)
  <2>1. p = Voice!Do(does, "keys", 0, effect) /\ Voice!KeysExact(a, e)
    BY <1>2 DEF Voice!OnAnchor
  <2>2. a.id # 0 /\ a.since = {}
    BY <2>1 DEF Voice!KeysExact, Voice!Trusted
  <2>. QED
    BY <2>1, <2>2, DoIs DEF Sound
<1>. QED
  BY <1>1, <1>2

LEMMA AnyPathSound ==
    ASSUME NEW a, NEW e, NEW does, NEW effect, does \notin {"erase", "change"},
           effect # "rewrite", Way(does, "ax", effect), Way(does, "keys", effect),
           NEW p \in Voice!AnyPath(e, does, effect)
    PROVE  Sound(a, e, p)
<1>1. CASE Voice!Readable(e)
  <2>1. p = Voice!Do(does, "ax", 0, effect) /\ e \in Fields
    BY <1>1 DEF Voice!AnyPath, Voice!Readable
  <2>. QED
    BY <2>1, DoIs DEF Sound
<1>2. CASE ~Voice!Readable(e)
  <2>1. p = Voice!Do(does, "keys", 0, effect)
    BY <1>2 DEF Voice!AnyPath
  <2>. QED
    BY <2>1, DoIs DEF Sound
<1>. QED
  BY <1>1, <1>2

LEMMA LastWordSound ==
    ASSUME before \in [Fields -> Seq(Int)], NEW a, NEW e, NEW p \in Voice!LastWord(e)
    PROVE  Sound(a, e, p)
<1>1. CASE Voice!Readable(e)
  <2>1. p = Voice!Do("erase", "word", Len(before[e]), "untracked") /\ e \in Fields
    BY <1>1 DEF Voice!LastWord, Voice!Readable
  <2>2. Len(before[e]) \in Nat
    BY <2>1, LengthsTyped
  <2>. QED
    BY <2>1, <2>2, DoIs DEF Sound, Way
<1>2. CASE ~Voice!Readable(e)
  <2>1. p = Voice!Do("erase", "wordKeys", 0, "untracked")
    BY <1>2 DEF Voice!LastWord
  <2>. QED
    BY <2>1, DoIs DEF Sound, Way
<1>. QED
  BY <1>1, <1>2

LEMMA PlansSound ==
    ASSUME before \in [Fields -> Seq(Int)], NEW c \in Commands, NEW a, NEW e, NEW forced,
           NEW p \in Voice!Plans(c, a, e, forced)
    PROVE  Sound(a, e, p)
<1>1. CASE c = "scratch"
  <2>1. p \in Voice!OnAnchor(a, e, "erase", "pop")
    BY <1>1 DEF Voice!Plans
  <2>. QED
    BY <2>1, OnAnchorSound DEF Way
<1>2. CASE c = "change"
  <2>1. CASE p \in Voice!OnAnchor(a, e, "change", "rewrite")
    BY <2>1, OnAnchorSound DEF Way
  <2>2. CASE forced /\ Voice!Readable(e) /\ ~Voice!Located(a, e)
    <3>1. e \in Fields
      BY <2>2 DEF Voice!Readable
    <3>2. PICK i \in DOMAIN before[e] : p = Voice!Do("change", "field", i, "untracked")
      BY <1>2, <2>2 DEF Voice!Plans
    <3>3. i \in Nat
      BY <3>1, <3>2, LengthsTyped
    <3>. QED
      BY <3>1, <3>2, <3>3, DoIs DEF Sound, Way
  <2>. QED
    BY <1>2, <2>1, <2>2 DEF Voice!Plans
<1>3. CASE c = "newline"
  <2>1. p \in Voice!AnyPath(e, "newline", "untracked")
    BY <1>3 DEF Voice!Plans
  <2>. QED
    BY <2>1, AnyPathSound DEF Way
<1>4. CASE c = "undo"
  <2>1. p = Voice!Do("undo", "keys", 0, "untracked")
    BY <1>4 DEF Voice!Plans
  <2>. QED
    BY <2>1, DoIs DEF Sound, Way
<1>5. CASE c = "select"
  <2>1. p \in Voice!OnAnchor(a, e, "select", "none")
    BY <1>5 DEF Voice!Plans
  <2>. QED
    BY <2>1, OnAnchorSound DEF Way
<1>6. CASE c = "word"
  BY <1>6, LastWordSound DEF Voice!Plans
<1>7. CASE c = "enter"
  <2>1. p = Voice!Do("enter", "keys", 0, "none")
    BY <1>7 DEF Voice!Plans
  <2>. QED
    BY <2>1, DoIs DEF Sound, Way
<1>8. CASE c = "goto"
  <2>1. p \in Voice!AnyPath(e, "goto", "none")
    BY <1>8 DEF Voice!Plans
  <2>. QED
    BY <2>1, AnyPathSound DEF Way
<1>9. CASE c = "rewrite"
  <2>1. p = Voice!Do("handoff", "iris", 0, "none")
    BY <1>9 DEF Voice!Plans
  <2>. QED
    BY <2>1, DoIs DEF Sound, Way
<1>10. CASE c = "iris"
  <2>1. \/ Voice!Readable(e) /\ p = Voice!Do("change", "field", Len(before[e]), "skip")
        \/ /\ a.id # 0 /\ Voice!AtCaret(a, e)
           /\ p = Voice!Do("change", "ax", Len(before[e]), "rewrite")
    BY <1>10 DEF Voice!Plans
  <2>2. e \in Fields
    BY <2>1 DEF Voice!Readable, Voice!AtCaret
  <2>3. Len(before[e]) \in Nat
    BY <2>2, LengthsTyped
  <2>. QED
    BY <2>1, <2>2, <2>3, DoIs DEF Sound, Way
<1>. QED
  BY <1>1, <1>2, <1>3, <1>4, <1>5, <1>6, <1>7, <1>8, <1>9, <1>10, EditAssumption

-----------------------------------------------------------------------------
(* Texts: which of the last pieces are not the user's own.                    *)

Clean(s, k) == \A i \in 1..Len(s) : i > Len(s) - k => s[i] # Voice!Own

LEMMA CleanLess ==
    ASSUME NEW s \in Seq(Int), NEW k \in Int, NEW j \in Int, j <= k, Clean(s, k) PROVE Clean(s, j)
<1>1. Len(s) \in Nat
  BY LenProperties
<1>. QED
  BY <1>1 DEF Clean

LEMMA CleanEmpty == ASSUME NEW k PROVE <<>> \in Seq(Int) /\ Clean(<<>>, k)
<1>1. <<>> \in Seq(Int) /\ Len(<<>>) = 0
  BY EmptySeq
<1>. QED
  BY <1>1 DEF Clean

LEMMA CleanAppend ==
    ASSUME NEW s \in Seq(Int), NEW k \in Int, Clean(s, k), NEW x \in Int, x # Voice!Own
    PROVE  Append(s, x) \in Seq(Int) /\ Clean(Append(s, x), k + 1)
<1>. DEFINE t == Append(s, x)
<1>1. Len(s) \in Nat /\ t \in Seq(Int) /\ Len(t) = Len(s) + 1
      /\ (\A i \in 1..Len(s) : t[i] = s[i]) /\ t[Len(s) + 1] = x
  BY LenProperties, AppendProperties
<1>. HIDE DEF t
<1>2. ASSUME NEW i \in 1..Len(t), i > Len(t) - (k + 1) PROVE t[i] # Voice!Own
  <2>1. i \in 1..Len(s) \/ i = Len(s) + 1
    BY <1>1
  <2>2. i > Len(s) - k
    BY <1>1, <1>2
  <2>. QED
    BY <1>1, <2>1, <2>2 DEF Clean
<1>. QED
  BY <1>1, <1>2 DEF Clean, t

LEMMA CleanLast ==
    ASSUME NEW s \in Seq(Int), NEW x \in Int, x # Voice!Own
    PROVE  Append(s, x) \in Seq(Int) /\ Clean(Append(s, x), 1)
<1>1. Clean(s, 0)
  <2>1. Len(s) \in Nat
    BY LenProperties
  <2>. QED
    BY <2>1 DEF Clean
<1>2. 0 + 1 = 1
  OBVIOUS
<1>. QED
  BY <1>1, <1>2, CleanAppend

LEMMA CleanFront ==
    ASSUME NEW s \in Seq(Int), NEW k \in Int, Clean(s, k)
    PROVE  Voice!Front(s) \in Seq(Int) /\ Clean(Voice!Front(s), k - 1)
<1>. DEFINE t == Voice!Front(s)
<1>1. Len(s) \in Nat /\ t \in Seq(Int) /\ Len(t) = (IF Len(s) = 0 THEN 0 ELSE Len(s) - 1)
      /\ (\A i \in 1..(Len(s) - 1) : t[i] = s[i])
  BY LenProperties, FrontIs
<1>. HIDE DEF t
<1>2. ASSUME NEW i \in 1..Len(t), i > Len(t) - (k - 1) PROVE t[i] # Voice!Own
  <2>1. i \in 1..(Len(s) - 1) /\ i \in 1..Len(s) /\ i > Len(s) - k
    BY <1>1, <1>2
  <2>. QED
    BY <1>1, <2>1 DEF Clean
<1>. QED
  BY <1>1, <1>2 DEF Clean, t

LEMMA CleanSet ==
    ASSUME NEW s \in Seq(Int), NEW k \in Int, Clean(s, k), NEW i \in 1..Len(s),
           NEW x \in Int, x = Voice!Own => s[i] = Voice!Own
    PROVE  [s EXCEPT ![i] = x] \in Seq(Int) /\ Clean([s EXCEPT ![i] = x], k)
<1>. DEFINE t == [s EXCEPT ![i] = x]
<1>1. t \in Seq(Int) /\ Len(t) = Len(s) /\ (\A j \in 1..Len(s) : t[j] = IF j = i THEN x ELSE s[j])
  BY ExceptSeq
<1>. HIDE DEF t
<1>. QED
  BY <1>1 DEF Clean, t

LEMMA RemoveAtIs ==
    ASSUME NEW s \in Seq(Int), NEW i \in 1..Len(s)
    PROVE  /\ Voice!RemoveAt(s, i) \in Seq(Int) /\ Len(Voice!RemoveAt(s, i)) = Len(s) - 1
           /\ \A j \in 1..(Len(s) - 1) :
                 Voice!RemoveAt(s, i)[j] = IF j < i THEN s[j] ELSE s[j + 1]
<1>. DEFINE p == SubSeq(s, 1, i - 1)
            q == SubSeq(s, i + 1, Len(s))
            n == Len(s)
<1>1. n \in Nat /\ i \in 1..n /\ i \in Int /\ n \in Int /\ i - 1 \in Int /\ i + 1 \in Int
      /\ \A j \in 1..n : s[j] \in Int
  BY LenProperties, ElementOfSeq
<1>2. p \in Seq(Int) /\ Len(p) = i - 1 /\ \A j \in 1..(i - 1) : p[j] = s[j]
  <2>1. \A j \in 1..(i - 1) : s[j] \in Int
    BY <1>1
  <2>2. /\ p \in Seq(Int) /\ Len(p) = IF 1 <= i - 1 THEN i - 1 - 1 + 1 ELSE 0
        /\ \A j \in 1..(i - 1 - 1 + 1) : p[j] = s[1 + j - 1]
    BY <1>1, <2>1, SubSeqProperties
  <2>. HIDE DEF p
  <2>. QED
    BY <1>1, <2>2
<1>3. q \in Seq(Int) /\ Len(q) = n - i /\ \A j \in 1..(n - i) : q[j] = s[i + j]
  <2>1. \A j \in (i + 1)..n : s[j] \in Int
    BY <1>1
  <2>2. /\ q \in Seq(Int) /\ Len(q) = IF i + 1 <= n THEN n - (i + 1) + 1 ELSE 0
        /\ \A j \in 1..(n - (i + 1) + 1) : q[j] = s[i + 1 + j - 1]
    BY <1>1, <2>1, SubSeqProperties
  <2>. HIDE DEF q
  <2>3. \A j \in 1..(n - i) : j \in 1..(n - (i + 1) + 1) /\ i + 1 + j - 1 = i + j
    BY <1>1
  <2>. QED
    BY <1>1, <2>2, <2>3
<1>4. Voice!RemoveAt(s, i) = p \o q
  BY DEF Voice!RemoveAt
<1>. HIDE DEF p, q
<1>5. /\ p \o q \in Seq(Int) /\ Len(p \o q) = Len(p) + Len(q)
      /\ \A j \in 1..(Len(p) + Len(q)) :
            (p \o q)[j] = IF j <= Len(p) THEN p[j] ELSE q[j - Len(p)]
  BY <1>2, <1>3, ConcatProperties
<1>6. ASSUME NEW j \in 1..(n - 1) PROVE (p \o q)[j] = IF j < i THEN s[j] ELSE s[j + 1]
  <2>1. (p \o q)[j] = IF j <= i - 1 THEN p[j] ELSE q[j - (i - 1)]
    <3>1. j \in 1..(Len(p) + Len(q))
      BY <1>1, <1>2, <1>3
    <3>2. (p \o q)[j] = IF j <= Len(p) THEN p[j] ELSE q[j - Len(p)]
      BY <1>5, <3>1
    <3>. QED
      BY <1>2, <3>2
  <2>2. CASE j < i
    BY <1>1, <1>2, <2>1, <2>2
  <2>3. CASE ~(j < i)
    <3>1. j - (i - 1) \in 1..(n - i) /\ i + (j - (i - 1)) = j + 1
      BY <1>1, <2>3
    <3>. QED
      BY <1>1, <1>3, <2>1, <2>3, <3>1
  <2>. QED
    BY <2>2, <2>3
<1>7. Len(p) + Len(q) = n - 1
  BY <1>1, <1>2, <1>3
<1>8. p \o q \in Seq(Int) /\ Len(p \o q) = n - 1
  BY <1>5, <1>7
<1>. QED
  BY <1>4, <1>6, <1>8

LEMMA CleanRemove ==
    ASSUME NEW s \in Seq(Int), NEW k \in Int, Clean(s, k), NEW i \in 1..Len(s)
    PROVE  Voice!RemoveAt(s, i) \in Seq(Int) /\ Clean(Voice!RemoveAt(s, i), k - 1)
<1>. DEFINE t == Voice!RemoveAt(s, i)
<1>1. Len(s) \in Nat /\ t \in Seq(Int) /\ Len(t) = Len(s) - 1
      /\ (\A j \in 1..(Len(s) - 1) : t[j] = IF j < i THEN s[j] ELSE s[j + 1])
  BY LenProperties, RemoveAtIs
<1>. HIDE DEF t
<1>2. ASSUME NEW j \in 1..Len(t), j > Len(t) - (k - 1) PROVE t[j] # Voice!Own
  <2>1. j \in 1..(Len(s) - 1) /\ j > Len(s) - 1 - (k - 1)
    BY <1>1, <1>2
  <2>2. j \in 1..Len(s) /\ j + 1 \in 1..Len(s)
    BY <1>1, <2>1
  <2>3. j > Len(s) - k /\ j + 1 > Len(s) - k
    BY <1>1, <2>1
  <2>4. s[j] # Voice!Own /\ s[j + 1] # Voice!Own
    BY <2>2, <2>3 DEF Clean
  <2>. QED
    BY <1>1, <2>1, <2>4
<1>. QED
  BY <1>1, <1>2 DEF Clean, t

\* An edited text is not the user's own, if the text was not.
LEMMA EditedIs ==
    ASSUME NEW n \in Int
    PROVE  Voice!Edited(n) \in Int /\ (Voice!Edited(n) = Voice!Own <=> n = Voice!Own)
BY DEF Voice!Edited, Voice!Own

LEMMA OtherIs == Voice!Other \in Int /\ Voice!Other # Voice!Own
BY EditAssumption DEF Voice!Other, Voice!Own

-----------------------------------------------------------------------------
(* The command being run.                                                     *)

EditStates == [at : {"idle", "plan", "execute", "apply"}, anchor : Anchors, text : Int,
               elem : Fields \cup {None}, does : Acts, by : Paths, index : Nat,
               effect : Effects]

\* A command is being carried out by one of the ways, and rewrites no text of the user's.
EditOK(ed) ==
    /\ ed \in EditStates
    /\ ed.anchor.id # 0 => ed.anchor.text # Voice!Own
    /\ ed.at \in {"execute", "apply"} =>
          /\ Way(ed.does, ed.by, ed.effect)
          /\ ed.effect = "rewrite" => ed.text # Voice!Own
    /\ ed.at = "execute" /\ ed.by \in {"ax", "field", "word"} => ed.elem \in Fields

LEMMA RestIs ==
    /\ Voice!Rest \in EditStates /\ Voice!Rest.at = "idle" /\ Voice!Rest.anchor = Voice!Unsent
    /\ EditOK(Voice!Rest)
<1>1. Voice!Rest \in EditStates
  BY UnsentTyped DEF Voice!Rest, EditStates, Voice!Own, Acts, Paths, Effects
<1>2. Voice!Rest.at = "idle" /\ Voice!Rest.anchor = Voice!Unsent
  BY DEF Voice!Rest
<1>. QED
  BY <1>1, <1>2, UnsentTyped DEF EditOK

\* The command begins with the newest anchor ...
Looking(a) == [Voice!Rest EXCEPT !.at = "plan", !.anchor = a]
LEMMA LookingIs ==
    ASSUME NEW a \in Anchors, a.id # 0 => a.text # Voice!Own
    PROVE  EditOK(Looking(a)) /\ Looking(a).at = "plan" /\ Looking(a).anchor = a
<1>. DEFINE r == Voice!Rest
<1>1. r \in EditStates
  BY RestIs
<1>2. Looking(a) = [r EXCEPT !.at = "plan", !.anchor = a]
  BY DEF Looking
<1>. HIDE DEF r
<1>3. Looking(a) \in EditStates /\ Looking(a).at = "plan" /\ Looking(a).anchor = a
  BY <1>1, <1>2 DEF EditStates
<1>. QED
  BY <1>3 DEF EditOK

\* ... is planned ...
Decided(t, e, p) ==
    [Voice!Rest EXCEPT !.at = "execute", !.text = t, !.elem = e, !.does = p.does, !.by = p.by,
                       !.index = p.index, !.effect = p.effect]
LEMMA DecidedIs ==
    ASSUME NEW a \in Anchors, a.id # 0 => a.text # Voice!Own, NEW e \in Fields \cup {None},
           NEW p, Sound(a, e, p)
    PROVE  /\ EditOK(Decided(a.text, e, p))
           /\ Decided(a.text, e, p).at = "execute" /\ Decided(a.text, e, p).elem = e
           /\ Decided(a.text, e, p).does = p.does /\ Decided(a.text, e, p).by = p.by
           /\ Decided(a.text, e, p).index = p.index /\ Decided(a.text, e, p).effect = p.effect
<1>. DEFINE r == Voice!Rest
            t == a.text
            d == Decided(t, e, p)
<1>1. r \in EditStates /\ r.anchor.id = 0
  BY RestIs, UnsentTyped
<1>2. d = [r EXCEPT !.at = "execute", !.text = t, !.elem = e, !.does = p.does, !.by = p.by,
                    !.index = p.index, !.effect = p.effect]
  BY DEF Decided
<1>3. p.does \in Acts /\ p.by \in Paths /\ p.effect \in Effects /\ p.index \in Nat
  BY DEF Sound, Way, Acts, Paths, Effects
<1>4. t \in Int
  BY AnchorFields
<1>. HIDE DEF r, t, d
<1>5. /\ d \in EditStates /\ d.at = "execute" /\ d.elem = e /\ d.does = p.does /\ d.by = p.by
      /\ d.index = p.index /\ d.effect = p.effect /\ d.text = t /\ d.anchor = r.anchor
  BY <1>1, <1>2, <1>3, <1>4 DEF EditStates
<1>6. EditOK(d)
  BY <1>1, <1>5 DEF EditOK, Sound, t
<1>. QED
  BY <1>5, <1>6 DEF d, t

\* ... and leaves its mark.
Done(ed) == [ed EXCEPT !.at = "apply"]
LEMMA DoneIs ==
    ASSUME NEW ed, EditOK(ed), ed.at = "execute"
    PROVE  /\ EditOK(Done(ed)) /\ Done(ed).at = "apply"
           /\ Done(ed).does = ed.does /\ Done(ed).by = ed.by /\ Done(ed).effect = ed.effect
           /\ Done(ed).anchor = ed.anchor
<1>1. ed \in EditStates
  BY DEF EditOK
<1>2. /\ Done(ed) \in EditStates /\ Done(ed).at = "apply" /\ Done(ed).anchor = ed.anchor
      /\ Done(ed).does = ed.does /\ Done(ed).by = ed.by /\ Done(ed).effect = ed.effect
      /\ Done(ed).text = ed.text
  BY <1>1 DEF Done, EditStates
<1>. QED
  BY <1>2 DEF EditOK

\* What is done to the stack when the command is through.
Popped(st, ed) == IF ed.effect = "pop" /\ st # <<>> THEN Voice!Front(st) ELSE st
Stamps(st, ed) ==
    IF st = <<>> \/ ed.effect = "skip" THEN st
    ELSE Stamp(st, IF ed.effect = "rewrite" THEN Voice!Edited(ed.text) ELSE Voice!Top(st).text)
Marks(st, ed) ==
    LET tracked == IF ed.effect = "untracked" THEN Voice!Since("untracked", st) ELSE st
    IN  IF ed.does = "enter" THEN Voice!Since("committed", tracked) ELSE tracked
Applied(st, ed) == Marks(Stamps(Popped(st, ed), ed), ed)

LEMMA PoppedStacked ==
    ASSUME NEW st, NEW n \in Nat, Stacked(st, n), NEW ed
    PROVE  /\ Stacked(Popped(st, ed), n)
           /\ \/ Popped(st, ed) = st /\ (ed.effect = "pop" => Len(st) = 0)
              \/ ed.effect = "pop" /\ Len(Popped(st, ed)) = Len(st) - 1
           /\ \A i \in 1..Len(Popped(st, ed)) : Popped(st, ed)[i] = st[i]
<1>1. st \in Seq(Anchors) /\ Len(st) \in Nat
  BY LenProperties DEF Stacked
<1>2. CASE ed.effect = "pop" /\ st # <<>>
  <2>. DEFINE bs == Popped(st, ed)
  <2>1. bs = Voice!Front(st)
    BY <1>2 DEF Popped
  <2>2. Len(st) # 0
    BY <1>1, <1>2, EmptySeq
  <2>3. bs \in Seq(Anchors) /\ Len(bs) = Len(st) - 1 /\ \A i \in 1..(Len(st) - 1) : bs[i] = st[i]
    BY <1>1, <2>1, <2>2, FrontIs
  <2>. HIDE DEF bs
  <2>4. \A i \in 1..Len(bs) : bs[i] = st[i] /\ i \in 1..Len(st)
    BY <1>1, <2>3
  <2>5. \A i \in 1..Len(bs) : /\ bs[i].id = st[i].id /\ bs[i].text # Voice!Own
                              /\ bs[i].app = st[i].app /\ bs[i].elem = st[i].elem
    BY <2>4 DEF Stacked, Rising
  <2>6. Stacked(bs, n)
    BY <1>1, <2>3, <2>5, AlikeStacked
  <2>. QED
    BY <1>2, <2>3, <2>4, <2>6 DEF bs
<1>3. CASE ~(ed.effect = "pop" /\ st # <<>>)
  <2>1. Popped(st, ed) = st
    BY <1>3 DEF Popped
  <2>2. ed.effect = "pop" => Len(st) = 0
    BY <1>3, EmptySeq
  <2>. QED
    BY <2>1, <2>2
<1>. QED
  BY <1>2, <1>3

LEMMA StampsStacked ==
    ASSUME NEW st, NEW n \in Nat, Stacked(st, n), NEW ed, EditOK(ed), ed.at = "apply"
    PROVE  /\ Stacked(Stamps(st, ed), n) /\ Len(Stamps(st, ed)) = Len(st)
           /\ \A i \in 1..(Len(st) - 1) : Stamps(st, ed)[i] = st[i]
           /\ ed.effect = "skip" => Stamps(st, ed) = st
<1>1. st \in Seq(Anchors) /\ Len(st) \in Nat
  BY LenProperties DEF Stacked
<1>2. CASE st = <<>> \/ ed.effect = "skip"
  <2>1. Stamps(st, ed) = st
    BY <1>2 DEF Stamps
  <2>. QED
    BY <2>1
<1>3. CASE st # <<>> /\ ed.effect # "skip"
  <2>. DEFINE text == IF ed.effect = "rewrite" THEN Voice!Edited(ed.text) ELSE Voice!Top(st).text
              bs == Stamp(st, text)
  <2>1. Stamps(st, ed) = bs
    BY <1>3, Zenon DEF Stamps
  <2>2. Len(st) # 0 /\ Len(st) \in 1..Len(st)
    BY <1>1, <1>3, EmptySeq
  <2>3. Voice!Top(st) = st[Len(st)]
    BY <1>3 DEF Voice!Top, Voice!Last
  <2>4. st[Len(st)] \in Anchors /\ st[Len(st)].text # Voice!Own
    BY <1>1, <2>2, ElementOfSeq DEF Stacked, Rising
  <2>5. st[Len(st)].text \in Int
    BY <2>4, AnchorFields
  <2>6. ed.text \in Int
    BY DEF EditOK, EditStates
  <2>7. text \in Int /\ text # Voice!Own
    BY <2>3, <2>4, <2>5, <2>6, EditedIs DEF EditOK
  <2>. HIDE DEF text
  <2>8. /\ bs \in Seq(Anchors) /\ Len(bs) = Len(st)
        /\ (\A i \in 1..(Len(st) - 1) : bs[i] = st[i])
        /\ bs[Len(st)].id = st[Len(st)].id /\ bs[Len(st)].app = st[Len(st)].app
        /\ bs[Len(st)].elem = st[Len(st)].elem /\ bs[Len(st)].text = text
    BY <1>1, <2>2, <2>7, StampIs
  <2>. HIDE DEF bs
  <2>9. \A i \in 1..Len(bs) : /\ bs[i].id = st[i].id /\ bs[i].text # Voice!Own
                              /\ bs[i].app = st[i].app /\ bs[i].elem = st[i].elem
    <3>1. \A i \in 1..Len(bs) : i \in 1..(Len(st) - 1) \/ i = Len(st)
      BY <1>1, <2>8
    <3>2. \A i \in 1..(Len(st) - 1) : st[i].text # Voice!Own
      BY <1>1 DEF Stacked, Rising
    <3>. QED
      BY <2>7, <2>8, <3>1, <3>2
  <2>10. Stacked(bs, n)
    BY <1>1, <2>8, <2>9, AlikeStacked
  <2>. QED
    BY <1>3, <2>1, <2>8, <2>10
<1>. QED
  BY <1>2, <1>3

LEMMA MarksStacked ==
    ASSUME NEW st, NEW n \in Nat, Stacked(st, n), NEW ed
    PROVE  /\ Stacked(Marks(st, ed), n) /\ Len(Marks(st, ed)) = Len(st)
           /\ \A i \in 1..Len(st) :
                 Marks(st, ed)[i].since = {} => Marks(st, ed) = st /\ ed.effect # "untracked"
<1>. DEFINE tracked == IF ed.effect = "untracked" THEN Voice!Since("untracked", st) ELSE st
            bs == Voice!Since("committed", tracked)
<1>1. st \in Seq(Anchors) /\ Len(st) \in Nat
  BY LenProperties DEF Stacked
<1>2. /\ Stacked(tracked, n) /\ Len(tracked) = Len(st)
      /\ \A i \in 1..Len(st) : tracked[i].since = {} => tracked = st /\ ed.effect # "untracked"
  <2>1. CASE ed.effect = "untracked"
    <3>1. "untracked" \in Whats
      BY DEF Whats
    <3>2. Stacked(Voice!Since("untracked", st), n)
      BY <3>1, SinceStacked
    <3>3. Len(Voice!Since("untracked", st)) = Len(st)
          /\ \A i \in 1..Len(st) : Voice!Since("untracked", st)[i].since # {}
      BY <1>1, <3>1, SinceIs
    <3>. QED
      BY <2>1, <3>2, <3>3
  <2>2. CASE ed.effect # "untracked"
    BY <2>2
  <2>. QED
    BY <2>1, <2>2
<1>. HIDE DEF tracked
<1>3. /\ Stacked(bs, n) /\ Len(bs) = Len(st) /\ \A i \in 1..Len(st) : bs[i].since # {}
  <2>1. "committed" \in Whats /\ tracked \in Seq(Anchors)
    BY <1>2 DEF Whats, Stacked
  <2>. QED
    BY <1>2, <2>1, SinceStacked, SinceIs
<1>. HIDE DEF bs
<1>4. Marks(st, ed) = IF ed.does = "enter" THEN bs ELSE tracked
  BY DEF Marks, bs, tracked
<1>. QED
  BY <1>2, <1>3, <1>4

LEMMA AppliedStacked ==
    ASSUME NEW st, NEW n \in Nat, Stacked(st, n), NEW ed, EditOK(ed), ed.at = "apply"
    PROVE  Stacked(Applied(st, ed), n)
<1>1. Stacked(Popped(st, ed), n)
  BY PoppedStacked
<1>2. Stacked(Stamps(Popped(st, ed), ed), n)
  BY <1>1, StampsStacked
<1>. QED
  BY <1>2, MarksStacked DEF Applied

\* An anchor nothing happened to since was there before, and nothing happened to it
\* then, if the newest was not stamped anew.
LEMMA AppliedFresh ==
    ASSUME NEW st, NEW n \in Nat, Stacked(st, n), NEW ed, EditOK(ed), ed.at = "apply",
           ed.effect = "skip" \/ Voice!Top(Popped(st, ed)).since = {},
           NEW i \in 1..Len(Applied(st, ed)), Applied(st, ed)[i].since = {}
    PROVE  /\ i \in 1..Len(st) /\ st[i].since = {} /\ ed.effect # "untracked"
           /\ IF ed.effect = "pop" THEN Len(Applied(st, ed)) = Len(st) - 1
              ELSE Len(Applied(st, ed)) = Len(st)
<1>. DEFINE p == Popped(st, ed)
            q == Stamps(p, ed)
            r == Applied(st, ed)
<1>1. /\ Stacked(p, n) /\ (\A k \in 1..Len(p) : p[k] = st[k])
      /\ \/ p = st /\ (ed.effect = "pop" => Len(st) = 0)
         \/ ed.effect = "pop" /\ Len(p) = Len(st) - 1
  BY PoppedStacked
<1>2. Len(st) \in Nat /\ Len(p) \in Nat /\ p \in Seq(Anchors)
  BY <1>1, LenProperties DEF Stacked
<1>3. /\ Stacked(q, n) /\ Len(q) = Len(p) /\ (\A k \in 1..(Len(p) - 1) : q[k] = p[k])
      /\ ed.effect = "skip" => q = p
  BY <1>1, StampsStacked
<1>4. /\ Len(r) = Len(q) /\ r = q /\ ed.effect # "untracked"
  <2>1. /\ Len(Marks(q, ed)) = Len(q)
        /\ \A k \in 1..Len(q) :
              Marks(q, ed)[k].since = {} => Marks(q, ed) = q /\ ed.effect # "untracked"
    BY <1>3, MarksStacked
  <2>2. r = Marks(q, ed)
    BY DEF Applied
  <2>. QED
    BY <2>1, <2>2
<1>5. i \in 1..Len(p) /\ i \in 1..Len(st)
  BY <1>1, <1>2, <1>3, <1>4
<1>6. p[i].since = {}
  <2>1. CASE ed.effect = "skip" \/ i # Len(p)
    <3>1. ed.effect = "skip" \/ i \in 1..(Len(p) - 1)
      BY <1>2, <1>5, <2>1
    <3>2. q[i] = p[i]
      BY <1>3, <3>1
    <3>. QED
      BY <1>4, <3>2
  <2>2. CASE ed.effect # "skip" /\ i = Len(p)
    <3>1. p # <<>>
      BY <1>2, <1>5, EmptySeq
    <3>2. Voice!Top(p) = p[Len(p)]
      BY <3>1 DEF Voice!Top, Voice!Last
    <3>. QED
      BY <2>2, <3>2
  <2>. QED
    BY <2>1, <2>2
<1>7. st[i].since = {}
  BY <1>1, <1>5, <1>6
<1>8. IF ed.effect = "pop" THEN Len(r) = Len(st) - 1 ELSE Len(r) = Len(st)
  BY <1>1, <1>2, <1>3, <1>4, <1>5
<1>. QED
  BY <1>4, <1>5, <1>7, <1>8

-----------------------------------------------------------------------------
(* How the stack and the focused field belong together: an anchor since which *)
(* nothing happened still stands for pieces that are not the user's own.      *)

Spent(st) == \A i \in 1..Len(st) : st[i].since # {}
\* Counted from the caret, b pieces beyond the anchors.
Deep(st, s, b) == \A i \in 1..Len(st) : st[i].since = {} => Clean(s, Len(st) - i + 1 + b)

LEMMA SpentDeep ==
    ASSUME NEW st, Spent(st), NEW s, NEW b PROVE Deep(st, s, b)
BY DEF Spent, Deep

LEMMA SinceSpent ==
    ASSUME NEW st \in Seq(Anchors), NEW what \in Whats PROVE Spent(Voice!Since(what, st))
<1>1. /\ Len(Voice!Since(what, st)) = Len(st)
      /\ \A i \in 1..Len(st) : Voice!Since(what, st)[i].since # {}
  BY SinceIs
<1>. QED
  BY <1>1 DEF Spent

LEMMA AgedDeep ==
    ASSUME NEW st \in Seq(Anchors), NEW s, NEW b
    PROVE  (Deep(st, s, b) => Deep(Aged(st), s, b)) /\ (Spent(st) => Spent(Aged(st)))
<1>1. Len(Aged(st)) = Len(st) /\ \A i \in 1..Len(st) : Aged(st)[i].since = st[i].since
  BY AgedIs
<1>. QED
  BY <1>1 DEF Deep, Spent

\* What becomes of the text.
LEMMA DeepEmpty == ASSUME NEW st, NEW b PROVE Deep(st, <<>>, b)
<1>1. \A k : Clean(<<>>, k)
  BY CleanEmpty
<1>. QED
  BY <1>1 DEF Deep

LEMMA DeepAppend ==
    ASSUME NEW st \in Seq(Anchors), NEW s \in Seq(Int), NEW b \in Int, Deep(st, s, b),
           NEW x \in Int, x # Voice!Own
    PROVE  Deep(st, Append(s, x), b + 1)
<1>1. Len(st) \in Nat
  BY LenProperties
<1>2. ASSUME NEW i \in 1..Len(st), st[i].since = {}
      PROVE  Clean(Append(s, x), Len(st) - i + 1 + (b + 1))
  <2>. DEFINE k == Len(st) - i + 1 + b
  <2>1. Clean(s, k) /\ k \in Int /\ k + 1 = Len(st) - i + 1 + (b + 1)
    BY <1>1, <1>2 DEF Deep
  <2>. HIDE DEF k
  <2>. QED
    BY <2>1, CleanAppend
<1>. QED
  BY <1>2 DEF Deep

LEMMA DeepFront ==
    ASSUME NEW st \in Seq(Anchors), NEW s \in Seq(Int), NEW b \in Int, Deep(st, s, b)
    PROVE  Deep(st, Voice!Front(s), b - 1)
<1>1. Len(st) \in Nat
  BY LenProperties
<1>2. ASSUME NEW i \in 1..Len(st), st[i].since = {}
      PROVE  Clean(Voice!Front(s), Len(st) - i + 1 + (b - 1))
  <2>. DEFINE k == Len(st) - i + 1 + b
  <2>1. Clean(s, k) /\ k \in Int /\ k - 1 = Len(st) - i + 1 + (b - 1)
    BY <1>1, <1>2 DEF Deep
  <2>. HIDE DEF k
  <2>. QED
    BY <2>1, CleanFront
<1>. QED
  BY <1>2 DEF Deep

LEMMA DeepRemove ==
    ASSUME NEW st \in Seq(Anchors), NEW s \in Seq(Int), NEW b \in Int, Deep(st, s, b),
           NEW j \in 1..Len(s)
    PROVE  Deep(st, Voice!RemoveAt(s, j), b - 1)
<1>1. Len(st) \in Nat
  BY LenProperties
<1>2. ASSUME NEW i \in 1..Len(st), st[i].since = {}
      PROVE  Clean(Voice!RemoveAt(s, j), Len(st) - i + 1 + (b - 1))
  <2>. DEFINE k == Len(st) - i + 1 + b
  <2>1. Clean(s, k) /\ k \in Int /\ k - 1 = Len(st) - i + 1 + (b - 1)
    BY <1>1, <1>2 DEF Deep
  <2>. HIDE DEF k
  <2>. QED
    BY <2>1, CleanRemove
<1>. QED
  BY <1>2 DEF Deep

LEMMA DeepSet ==
    ASSUME NEW st \in Seq(Anchors), NEW s \in Seq(Int), NEW b \in Int, Deep(st, s, b),
           NEW j \in 1..Len(s), NEW x \in Int, x = Voice!Own => s[j] = Voice!Own
    PROVE  Deep(st, [s EXCEPT ![j] = x], b)
<1>1. Len(st) \in Nat
  BY LenProperties
<1>2. ASSUME NEW i \in 1..Len(st), st[i].since = {}
      PROVE  Clean([s EXCEPT ![j] = x], Len(st) - i + 1 + b)
  <2>. DEFINE k == Len(st) - i + 1 + b
  <2>1. Clean(s, k) /\ k \in Int
    BY <1>1, <1>2 DEF Deep
  <2>. HIDE DEF k
  <2>2. Clean([s EXCEPT ![j] = x], k)
    BY <2>1, CleanSet
  <2>. QED
    BY <2>2 DEF k
<1>. QED
  BY <1>2 DEF Deep

\* What becomes of the stack.
LEMMA DeepPushed ==
    ASSUME NEW st, NEW n \in Nat, Stacked(st, n), caret \in Fields, NEW s \in Seq(Int),
           Clean(s, 1), NEW b \in Int, b <= 1, Deep(st, s, b)
    PROVE  Deep(Pushed(st, n + 1), s, b - 1)
<1>. DEFINE d == Base(st)
            bs == Pushed(st, n + 1)
<1>1. /\ Len(bs) = Len(d) + 1 /\ (\A i \in 1..Len(d) : bs[i] = st[i])
      /\ Len(st) \in Nat /\ Len(d) \in Nat /\ (d = st \/ Len(d) = 0)
  <2>1. Stacked(d, n) /\ (d = st \/ Len(d) = 0)
    BY BaseStacked
  <2>2. Len(d) \in Nat /\ Len(st) \in Nat
    BY <2>1, LenProperties DEF Stacked
  <2>. QED
    BY <2>1, <2>2, PushedStacked
<1>. HIDE DEF d, bs
<1>2. ASSUME NEW i \in 1..Len(bs), bs[i].since = {}
      PROVE  Clean(s, Len(bs) - i + 1 + (b - 1))
  <2>1. CASE i = Len(d) + 1
    <3>1. Len(bs) - i + 1 + (b - 1) \in Int /\ Len(bs) - i + 1 + (b - 1) <= 1
      BY <1>1, <2>1
    <3>. QED
      BY <3>1, CleanLess
  <2>2. CASE i # Len(d) + 1
    <3>1. i \in 1..Len(d) /\ i \in 1..Len(st) /\ Len(d) = Len(st)
      BY <1>1, <2>2
    <3>2. st[i].since = {} /\ Len(bs) - i + 1 + (b - 1) = Len(st) - i + 1 + b
      BY <1>1, <1>2, <3>1
    <3>. QED
      BY <3>1, <3>2 DEF Deep
  <2>. QED
    BY <2>1, <2>2
<1>. QED
  BY <1>2 DEF Deep, bs

LEMMA DeepCapped ==
    ASSUME NEW st, NEW n \in Nat, Stacked(st, n), Len(st) # 0, NEW s, NEW b \in Int,
           Deep(st, s, b)
    PROVE  Deep(Capped(st), s, b)
<1>. DEFINE bs == Capped(st)
<1>1. Len(st) \in Nat
  BY LenProperties DEF Stacked
<1>2. CASE bs = st
  BY <1>2
<1>3. CASE Len(bs) = Len(st) - 1 /\ \A i \in 1..(Len(st) - 1) : bs[i] = st[i + 1]
  <2>. HIDE DEF bs
  <2>1. ASSUME NEW i \in 1..Len(bs), bs[i].since = {} PROVE Clean(s, Len(bs) - i + 1 + b)
    <3>1. /\ i \in 1..(Len(st) - 1) /\ i + 1 \in 1..Len(st)
          /\ Len(bs) - i + 1 + b = Len(st) - (i + 1) + 1 + b
      BY <1>1, <1>3
    <3>2. st[i + 1].since = {}
      BY <1>3, <2>1, <3>1
    <3>. QED
      BY <3>1, <3>2 DEF Deep
  <2>. QED
    BY <2>1 DEF Deep, bs
<1>. QED
  BY <1>2, <1>3, CappedStacked

LEMMA DeepSeen ==
    ASSUME NEW st, NEW n \in Nat, Stacked(st, n), NEW k, NEW e \in Fields \cup {None},
           NEW s \in Seq(Int), NEW b \in Int
    PROVE  /\ Deep(st, s, b) => Deep(Seen(k, e, st), s, b)
           /\ Spent(st) => Spent(Seen(k, e, st))
<1>. DEFINE bs == Seen(k, e, st)
<1>1. Len(st) \in Nat
  BY LenProperties DEF Stacked
<1>2. \/ Len(bs) = Len(st) /\ \A i \in 1..Len(st) : bs[i].since = st[i].since
      \/ Len(bs) = 0
      \/ Len(bs) = 1 /\ \E i \in 1..Len(st) : bs[1].since = st[i].since
  BY SeenStacked
<1>. HIDE DEF bs
<1>3. CASE Len(bs) = Len(st) /\ \A i \in 1..Len(st) : bs[i].since = st[i].since
  BY <1>3 DEF Deep, Spent, bs
<1>4. CASE Len(bs) = 0
  BY <1>4 DEF Deep, Spent, bs
<1>5. CASE Len(bs) = 1 /\ \E i \in 1..Len(st) : bs[1].since = st[i].since
  <2>1. PICK j \in 1..Len(st) : bs[1].since = st[j].since
    BY <1>5
  <2>2. \A i \in 1..Len(bs) : i = 1
    BY <1>5
  <2>3. Spent(st) => Spent(bs)
    BY <2>1, <2>2 DEF Spent
  <2>4. ASSUME Deep(st, s, b), bs[1].since = {} PROVE Clean(s, 1 + b)
    <3>1. Clean(s, Len(st) - j + 1 + b)
      BY <2>1, <2>4 DEF Deep
    <3>2. Len(st) - j + 1 + b \in Int /\ 1 + b \in Int /\ 1 + b <= Len(st) - j + 1 + b
      BY <1>1
    <3>. QED
      BY <3>1, <3>2, CleanLess
  <2>5. Len(bs) - 1 + 1 + b = 1 + b
    BY <1>5
  <2>6. Deep(st, s, b) => Deep(bs, s, b)
    BY <2>2, <2>4, <2>5 DEF Deep
  <2>. QED
    BY <2>3, <2>6 DEF bs
<1>. QED
  BY <1>2, <1>3, <1>4, <1>5

\* The anchor a command has yet to pop, after what it does to the text.
Late(ed) == IF ed.at = "apply" /\ ed.effect = "pop" THEN 1 ELSE 0
LEMMA DeepApplied ==
    ASSUME NEW st, NEW n \in Nat, Stacked(st, n), NEW ed, EditOK(ed), ed.at = "apply",
           ed.effect = "skip" \/ Voice!Top(Popped(st, ed)).since = {},
           NEW s, NEW b \in Int, ed.effect = "untracked" \/ Deep(st, s, b - Late(ed))
    PROVE  /\ Deep(Applied(st, ed), s, b)
           /\ Spent(st) => Spent(Applied(st, ed))
<1>. DEFINE bs == Applied(st, ed)
<1>1. Len(st) \in Nat
  BY LenProperties DEF Stacked
<1>2. ASSUME NEW i \in 1..Len(bs), bs[i].since = {}
      PROVE  /\ i \in 1..Len(st) /\ st[i].since = {} /\ ed.effect # "untracked"
             /\ IF ed.effect = "pop" THEN Len(bs) = Len(st) - 1 ELSE Len(bs) = Len(st)
  BY <1>2, AppliedFresh
<1>. HIDE DEF bs
<1>3. ASSUME NEW i \in 1..Len(bs), bs[i].since = {} PROVE Clean(s, Len(bs) - i + 1 + b)
  <2>1. Clean(s, Len(st) - i + 1 + (b - Late(ed)))
    BY <1>2, <1>3 DEF Deep
  <2>2. Len(st) - i + 1 + (b - Late(ed)) = Len(bs) - i + 1 + b
    BY <1>1, <1>2, <1>3 DEF Late
  <2>. QED
    BY <2>1, <2>2
<1>. QED
  BY <1>2, <1>3 DEF Deep, Spent, bs

-----------------------------------------------------------------------------
(* The state.                                                                 *)

WorldOK ==
    /\ caret \in Fields /\ before \in [Fields -> Seq(Int)]
    /\ pastes \in Nat /\ Stacked(anchors, pastes) /\ EditOK(edit)

\* What is still known of the focused field, its text s and whether it is selected.
Knows(s, sel, st, p, ed, f) ==
    /\ p => Clean(s, 1)
    /\ \/ ed.at = "apply" /\ ed.effect = "untracked"
       \/ IF p THEN Deep(st, s, 1 - Late(ed)) ELSE Deep(st, s, 0 - Late(ed))
    /\ ed.at = "plan" /\ ed.anchor.id # 0 /\ ed.anchor.since = {} => Clean(s, 1)
    /\ ed.at = "execute" /\ ed.by = "keys" /\ ed.does \in {"erase", "change"} => Clean(s, 1)
    /\ sel => ~p /\ Spent(st)
    /\ ed.at = "execute" => ed.elem \in {f, None}
Vouched   == Knows(before[caret], caret \in selected, anchors, pasting, edit, caret)
Noticed == ~unseen => Vouched

\* The piece an edit through accessibility is about to take was not typed by the user.
Aim(bf, ed) ==
    ed.at = "execute" /\ ed.by = "ax" /\ ed.index \in 1..Len(bf[ed.elem])
        => bf[ed.elem][ed.index] # Voice!Own
Aimed == ~during => Aim(before, edit)

EditInv == WorldOK /\ Noticed /\ Aimed /\ EditsSpareTyping

LEMMA LateIs ==
    ASSUME NEW ed
    PROVE  /\ Late(ed) \in {0, 1} /\ 1 - Late(ed) \in Int /\ 0 - Late(ed) \in Int
           /\ (0 - Late(ed)) + 1 = 1 - Late(ed) /\ (1 - Late(ed)) - 1 = 0 - Late(ed)
           /\ ed.at # "apply" \/ ed.effect # "pop" => Late(ed) = 0
           /\ ed.at = "apply" /\ ed.effect = "pop" => Late(ed) = 1
BY DEF Late

\* A text is put in the place of what is selected.
Left(f) == IF f \in selected THEN Voice!Front(before[f]) ELSE before[f]
LEMMA PutIs ==
    ASSUME before \in [Fields -> Seq(Int)], NEW f \in Fields, NEW x \in Int, Voice!Put(f, x)
    PROVE  /\ before' \in [Fields -> Seq(Int)] /\ selected' = selected \ {f}
           /\ \A g \in Fields : g # f => before'[g] = before[g]
           /\ before'[f] = Append(Left(f), x) /\ Left(f) \in Seq(Int)
<1>1. before[f] \in Seq(Int)
  OBVIOUS
<1>2. Left(f) \in Seq(Int)
  BY <1>1, FrontIs DEF Left
<1>3. before' = [before EXCEPT ![f] = Append(Left(f), x)] /\ selected' = selected \ {f}
  BY DEF Voice!Put, Left
<1>4. Append(Left(f), x) \in Seq(Int)
  BY <1>2, AppendProperties
<1>. QED
  BY <1>2, <1>3, <1>4

\* A field's text is replaced.
LEMMA FieldSet ==
    ASSUME before \in [Fields -> Seq(Int)], NEW f \in Fields, NEW s \in Seq(Int),
           before' = [before EXCEPT ![f] = s]
    PROVE  /\ before' \in [Fields -> Seq(Int)] /\ before'[f] = s
           /\ \A g \in Fields : g # f => before'[g] = before[g]
OBVIOUS

-----------------------------------------------------------------------------
(* What each action does, in these words.                                     *)

LEMMA NotePasteIs ==
    ASSUME Voice!NotePaste
    PROVE  /\ pasting /\ ~pasting' /\ pastes' = pastes + 1
           /\ anchors' = Capped(Pushed(anchors, pastes + 1))
           /\ UNCHANGED <<caret, before, selected, edit, during, unseen, erased>>
BY DEF Voice!NotePaste, Capped, Pushed, Base, New, Voice!App, Voice!world, Voice!history

LEMMA SnapshotIs ==
    ASSUME NEW n, NEW e, Voice!Snapshot(n, e)
    PROVE  /\ anchors' = Seen(n, e, anchors)
           /\ UNCHANGED <<caret, before, selected, pastes, pasting, edit, during, unseen, erased>>
BY Zenon DEF Voice!Snapshot, Seen, Voice!world, Voice!history

LEMMA LookIs ==
    ASSUME Voice!Look
    PROVE  /\ edit.at = "idle" /\ edit' = Looking(Voice!Top(anchors))
           /\ UNCHANGED <<caret, before, selected, anchors, pastes, pasting, during, unseen, erased>>
BY DEF Voice!Look, Looking, Voice!world, Voice!state, Voice!history

LEMMA DeclinedIs ==
    ASSUME Voice!Declined
    PROVE  /\ edit' = Voice!Rest
           /\ UNCHANGED <<caret, before, selected, anchors, pastes, pasting, during, unseen, erased>>
BY DEF Voice!Declined, Voice!world, Voice!state, Voice!history

LEMMA PlanIs ==
    ASSUME NEW c, NEW forced, Voice!Plan(c, forced)
    PROVE  /\ edit.at = "plan"
           /\ UNCHANGED <<caret, before, selected, anchors, pastes, pasting, during, unseen, erased>>
           /\ \/ edit' = Voice!Rest
              \/ \E e \in {caret, None} : \E p \in Voice!Plans(c, edit.anchor, e, forced) :
                    edit' = Decided(edit.anchor.text, e, p)
<1>1. PICK e \in {caret, None} :
        IF (forced \/ Voice!Gate(edit.anchor, e)) /\ Voice!Plans(c, edit.anchor, e, forced) # {}
        THEN /\ \E p \in Voice!Plans(c, edit.anchor, e, forced) :
                   edit' = Decided(edit.anchor.text, e, p)
             /\ UNCHANGED <<Voice!world, Voice!state, pasting, edits, events, Voice!history>>
        ELSE Voice!Declined
  BY Zenon DEF Voice!Plan, Decided
<1>2. edit.at = "plan"
  BY DEF Voice!Plan
<1>3. CASE Voice!Declined
  BY <1>2, <1>3, DeclinedIs
<1>4. CASE /\ \E p \in Voice!Plans(c, edit.anchor, e, forced) :
                 edit' = Decided(edit.anchor.text, e, p)
           /\ UNCHANGED <<Voice!world, Voice!state, pasting, edits, events, Voice!history>>
  BY <1>2, <1>4 DEF Voice!world, Voice!state, Voice!history
<1>. QED
  BY <1>1, <1>3, <1>4

LEMMA ApplyIs ==
    ASSUME Voice!Apply
    PROVE  /\ edit.at = "apply" /\ edit' = Voice!Rest
           /\ anchors' = Applied(anchors, edit)
           /\ unseen' <=> (unseen \/ (Voice!Top(Popped(anchors, edit)).since # {}
                                      /\ edit.effect # "skip"))
           /\ UNCHANGED <<caret, before, selected, pastes, pasting, during, erased>>
BY Zenon DEF Voice!Apply, Applied, Marks, Stamps, Stamp, Anew, Popped, Voice!world

-----------------------------------------------------------------------------
(* What each action keeps.                                                    *)

LEMMA WorldIs ==
    ASSUME EditInv
    PROVE  /\ caret \in Fields /\ before \in [Fields -> Seq(Int)] /\ before[caret] \in Seq(Int)
           /\ pastes \in Nat
           /\ Stacked(anchors, pastes) /\ anchors \in Seq(Anchors) /\ Len(anchors) \in Nat
           /\ EditOK(edit)
BY LenProperties DEF EditInv, WorldOK, Stacked

LEMMA VoiceInit == Voice!Init => EditInv
<1>. SUFFICES ASSUME Voice!Init PROVE EditInv
  OBVIOUS
<1>1. <<>> \in Seq(Int) /\ <<>> \in Seq(Anchors) /\ Len(<<>>) = 0
  BY EmptySeq
<1>2. WorldOK
  <2>1. Stacked(<<>>, 0)
    BY <1>1 DEF Stacked, Rising, Together
  <2>2. EditOK(Voice!Rest)
    BY RestIs
  <2>3. caret \in Fields /\ before = [f \in Fields |-> <<>>] /\ anchors = <<>> /\ pastes = 0
        /\ pasting = FALSE /\ edit = Voice!Rest
    BY DEF Voice!Init
  <2>4. before \in [Fields -> Seq(Int)]
    BY <1>1, <2>3
  <2>. QED
    BY <2>1, <2>2, <2>3, <2>4 DEF WorldOK
<1>3. edit.at = "idle"
  BY RestIs DEF Voice!Init
<1>4. Noticed
  BY <1>1, <1>3 DEF Noticed, Vouched, Knows, Deep, Spent, Voice!Init
<1>5. Aimed
  BY <1>3 DEF Aimed, Aim
<1>6. EditsSpareTyping
  BY DEF Voice!Init, EditsSpareTyping, AxSparesTyping, KeysSpareTyping
<1>. QED
  BY <1>2, <1>4, <1>5, <1>6 DEF EditInv

\* A text put in that is not the user's own leaves an edit's aim.
LEMMA PutAim ==
    ASSUME before \in [Fields -> Seq(Int)], EditOK(edit), NEW f \in Fields, NEW x \in Int,
           x # Voice!Own, Voice!Put(f, x), Aim(before, edit)
    PROVE  Aim(before', edit)
<1>. SUFFICES ASSUME edit.at = "execute", edit.by = "ax", edit.index \in 1..Len(before'[edit.elem])
              PROVE  before'[edit.elem][edit.index] # Voice!Own
  BY DEF Aim
<1>1. edit.elem \in Fields
  BY DEF EditOK
<1>2. /\ \A g \in Fields : g # f => before'[g] = before[g]
      /\ before'[f] = Append(Left(f), x) /\ Left(f) \in Seq(Int)
  BY PutIs
<1>3. CASE edit.elem # f
  BY <1>1, <1>2, <1>3 DEF Aim
<1>4. CASE edit.elem = f
  <2>. DEFINE l == Left(f)
              t == Append(l, x)
              s == before[f]
              j == edit.index
  <2>1. /\ s \in Seq(Int) /\ Len(s) \in Nat /\ l \in Seq(Int) /\ Len(l) \in Nat
        /\ Len(l) <= Len(s) /\ \A i \in 1..Len(l) : l[i] = s[i]
    <3>1. s \in Seq(Int) /\ Len(s) \in Nat
      BY LenProperties
    <3>2. CASE f \in selected
      <4>1. l = Voice!Front(s)
        BY <3>2 DEF Left
      <4>2. /\ l \in Seq(Int) /\ Len(l) = (IF Len(s) = 0 THEN 0 ELSE Len(s) - 1)
            /\ \A i \in 1..(Len(s) - 1) : l[i] = s[i]
        BY <3>1, <4>1, FrontIs
      <4>3. Len(l) \in Nat /\ Len(l) <= Len(s) /\ \A i \in 1..Len(l) : i \in 1..(Len(s) - 1)
        BY <3>1, <4>2
      <4>. QED
        BY <3>1, <4>2, <4>3
    <3>3. CASE f \notin selected
      BY <3>1, <3>3 DEF Left
    <3>. QED
      BY <3>2, <3>3
  <2>. HIDE DEF l, s
  <2>2. /\ Len(t) = Len(l) + 1 /\ (\A i \in 1..Len(l) : t[i] = l[i]) /\ t[Len(l) + 1] = x
    BY <2>1, AppendProperties
  <2>3. before'[f] = t
    BY <1>2 DEF l
  <2>. HIDE DEF t
  <2>4. j \in 1..Len(t) /\ (j \in 1..Len(l) \/ j = Len(l) + 1)
    BY <1>4, <2>1, <2>2, <2>3
  <2>5. CASE j \in 1..Len(l)
    <3>1. j \in 1..Len(s)
      BY <2>1, <2>5
    <3>2. s[j] # Voice!Own
      BY <1>4, <3>1 DEF Aim, s
    <3>. QED
      BY <1>4, <2>1, <2>2, <2>3, <2>5, <3>2
  <2>6. CASE j = Len(l) + 1
    BY <1>4, <2>2, <2>3, <2>6
  <2>. QED
    BY <2>4, <2>5, <2>6
<1>. QED
  BY <1>3, <1>4

LEMMA PasteKeeps == ASSUME EditInv, Voice!Paste PROVE EditInv'
<1>. DEFINE x == pastes + 1
            s == before[caret]
            l == Left(caret)
            b == 0 - Late(edit)
<1>1. /\ caret \in Fields /\ before \in [Fields -> Seq(Int)] /\ s \in Seq(Int)
      /\ pastes \in Nat /\ Stacked(anchors, pastes) /\ anchors \in Seq(Anchors)
      /\ EditOK(edit) /\ x \in Int /\ x # Voice!Own
  BY WorldIs DEF Voice!Own
<1>2. /\ ~pasting /\ pasting' = TRUE /\ Voice!Put(caret, x)
      /\ UNCHANGED <<caret, anchors, pastes, edit, during, unseen, erased>>
  BY DEF Voice!Paste, Voice!state, Voice!history
<1>3. /\ before' \in [Fields -> Seq(Int)] /\ selected' = selected \ {caret}
      /\ before'[caret] = Append(l, x) /\ l \in Seq(Int)
  BY <1>1, <1>2, PutIs
<1>. HIDE DEF x
<1>4. WorldOK'
  BY <1>1, <1>2, <1>3 DEF WorldOK
<1>5. ASSUME ~unseen' PROVE Vouched'
  <2>1. Knows(s, caret \in selected, anchors, pasting, edit, caret)
    BY <1>2, <1>5 DEF EditInv, Noticed, Vouched
  <2>2. Clean(Append(l, x), 1)
    BY <1>1, <1>3, CleanLast
  <2>3. b \in Int /\ 1 - Late(edit) = b + 1
    BY LateIs
  <2>4. (edit.at = "apply" /\ edit.effect = "untracked") \/ Deep(anchors, Append(l, x), b + 1)
    <3>1. CASE caret \in selected
      <4>1. Spent(anchors)
        BY <2>1, <3>1 DEF Knows
      <4>. QED
        BY <4>1, SpentDeep
    <3>2. CASE caret \notin selected
      <4>1. l = s
        BY <3>2 DEF Left
      <4>2. CASE Deep(anchors, s, b)
        <5>. HIDE DEF b, s, l
        <5>. QED
          BY <1>1, <2>3, <4>1, <4>2, DeepAppend
      <4>. QED
        BY <1>2, <2>1, <4>2 DEF Knows
    <3>. QED
      BY <3>1, <3>2
  <2>. HIDE DEF b, s, l
  <2>5. Knows(Append(l, x), FALSE, anchors, TRUE, edit, caret)
    BY <2>1, <2>2, <2>3, <2>4 DEF Knows
  <2>6. ~(caret' \in selected')
    BY <1>2, <1>3
  <2>. QED
    BY <1>2, <1>3, <2>5, <2>6 DEF Vouched, Knows
<1>6. ASSUME ~during' PROVE Aim(before', edit')
  <2>1. Aim(before, edit)
    BY <1>2, <1>6 DEF EditInv, Aimed
  <2>. QED
    BY <1>1, <1>2, <2>1, PutAim
<1>7. EditsSpareTyping'
  BY <1>2 DEF EditInv, EditsSpareTyping, AxSparesTyping, KeysSpareTyping
<1>. QED
  BY <1>4, <1>5, <1>6, <1>7 DEF EditInv, Noticed, Aimed

LEMMA NotePasteKeeps == ASSUME EditInv, Voice!NotePaste PROVE EditInv'
<1>. DEFINE s == before[caret]
            b == 1 - Late(edit)
            up == Pushed(anchors, pastes + 1)
<1>1. /\ caret \in Fields /\ before \in [Fields -> Seq(Int)] /\ s \in Seq(Int)
      /\ pastes \in Nat /\ Stacked(anchors, pastes) /\ EditOK(edit)
  BY WorldIs
<1>2. /\ pasting /\ ~pasting' /\ pastes' = pastes + 1 /\ anchors' = Capped(up)
      /\ UNCHANGED <<caret, before, selected, edit, during, unseen, erased>>
  BY NotePasteIs
<1>3. Stacked(up, pastes + 1) /\ Len(up) # 0
  <2>1. Len(up) = Len(Base(anchors)) + 1 /\ Stacked(up, pastes + 1)
    BY <1>1, PushedStacked
  <2>2. Len(Base(anchors)) \in Nat
    <3>1. Base(anchors) \in Seq(Anchors)
      BY <1>1, BaseStacked DEF Stacked
    <3>. QED
      BY <3>1, LenProperties
  <2>. QED
    BY <2>1, <2>2
<1>. HIDE DEF up
<1>4. Stacked(anchors', pastes')
  <2>1. pastes + 1 \in Nat
    BY <1>1
  <2>. QED
    BY <1>2, <1>3, <2>1, CappedStacked
<1>5. WorldOK'
  <2>1. pastes' \in Nat
    BY <1>1, <1>2
  <2>. QED
    BY <1>1, <1>2, <1>4, <2>1 DEF WorldOK
<1>6. ASSUME ~unseen' PROVE Vouched'
  <2>1. Knows(s, caret \in selected, anchors, pasting, edit, caret)
    BY <1>2, <1>6 DEF EditInv, Noticed, Vouched
  <2>2. Clean(s, 1) /\ caret \notin selected
    BY <1>2, <2>1 DEF Knows
  <2>3. b \in Int /\ b <= 1 /\ 0 - Late(edit) = b - 1
    BY LateIs
  <2>4. (edit.at = "apply" /\ edit.effect = "untracked") \/ Deep(anchors', s, b - 1)
    <3>1. CASE Deep(anchors, s, b)
      <4>. HIDE DEF b, s
      <4>1. Deep(up, s, b - 1)
        BY <1>1, <2>2, <2>3, <3>1, DeepPushed DEF up
      <4>2. pastes + 1 \in Nat /\ b - 1 \in Int
        BY <1>1, <2>3
      <4>. QED
        BY <1>2, <1>3, <4>1, <4>2, DeepCapped
    <3>. QED
      BY <1>2, <2>1, <3>1 DEF Knows
  <2>. HIDE DEF b, s
  <2>5. Knows(s, FALSE, anchors', FALSE, edit, caret)
    BY <2>1, <2>2, <2>3, <2>4 DEF Knows
  <2>. QED
    BY <1>2, <2>2, <2>5 DEF Vouched, Knows, s
<1>7. Aimed'
  BY <1>2 DEF EditInv, Aimed, Aim
<1>8. EditsSpareTyping'
  BY <1>2 DEF EditInv, EditsSpareTyping, AxSparesTyping, KeysSpareTyping
<1>. QED
  BY <1>5, <1>6, <1>7, <1>8 DEF EditInv, Noticed

\* The anchors are seen, and the fields are not touched.
LEMMA LookersKeep ==
    ASSUME EditInv, Stacked(anchors', pastes),
           \A s \in Seq(Int) : \A b \in Int :
              /\ Deep(anchors, s, b) => Deep(anchors', s, b)
              /\ Spent(anchors) => Spent(anchors'),
           UNCHANGED <<caret, before, selected, pastes, pasting, edit, during, unseen, erased>>
    PROVE  EditInv'
<1>. DEFINE s == before[caret]
<1>1. /\ caret \in Fields /\ before \in [Fields -> Seq(Int)] /\ s \in Seq(Int)
      /\ pastes \in Nat /\ EditOK(edit)
  BY WorldIs
<1>2. WorldOK'
  BY <1>1 DEF WorldOK
<1>3. ASSUME ~unseen' PROVE Vouched'
  <2>1. Knows(s, caret \in selected, anchors, pasting, edit, caret)
    BY <1>3 DEF EditInv, Noticed, Vouched
  <2>2. 0 - Late(edit) \in Int /\ 1 - Late(edit) \in Int
    BY LateIs
  <2>3. /\ \A b \in Int : Deep(anchors, s, b) => Deep(anchors', s, b)
        /\ Spent(anchors) => Spent(anchors')
    <3>. HIDE DEF s
    <3>1. 0 \in Int
      OBVIOUS
    <3>. QED
      BY <1>1, <3>1
  <2>. HIDE DEF s
  <2>4. Knows(s, caret \in selected, anchors', pasting, edit, caret)
    BY <2>1, <2>2, <2>3 DEF Knows
  <2>. QED
    BY <2>4 DEF Vouched, s
<1>4. Aimed'
  BY DEF EditInv, Aimed, Aim
<1>5. EditsSpareTyping'
  BY DEF EditInv, EditsSpareTyping, AxSparesTyping, KeysSpareTyping
<1>. QED
  BY <1>2, <1>3, <1>4, <1>5 DEF EditInv, Noticed

LEMMA GraceEndsKeeps == ASSUME EditInv, Voice!GraceEnds PROVE EditInv'
<1>1. UNCHANGED <<caret, before, selected, anchors, pastes, pasting, edit, during, unseen, erased>>
  BY DEF Voice!GraceEnds, Voice!world, Voice!history
<1>2. Stacked(anchors', pastes)
  BY <1>1, WorldIs
<1>. QED
  BY <1>1, <1>2, LookersKeep

LEMMA TimePassesKeeps == ASSUME EditInv, Voice!TimePasses PROVE EditInv'
<1>1. /\ anchors' = Aged(anchors)
      /\ UNCHANGED <<caret, before, selected, pastes, pasting, edit, during, unseen, erased>>
  BY DEF Voice!TimePasses, Aged, Voice!world, Voice!history
<1>2. anchors \in Seq(Anchors) /\ Stacked(anchors, pastes) /\ pastes \in Nat
  BY WorldIs
<1>3. Stacked(anchors', pastes)
  BY <1>1, <1>2, AgedStacked
<1>4. \A s \in Seq(Int) : \A b \in Int :
         /\ Deep(anchors, s, b) => Deep(anchors', s, b)
         /\ Spent(anchors) => Spent(anchors')
  BY <1>1, <1>2, AgedDeep
<1>. QED
  BY <1>1, <1>3, <1>4, LookersKeep

LEMMA SnapshotKeeps ==
    ASSUME EditInv, NEW n, NEW e \in {caret, None}, Voice!Snapshot(n, e) PROVE EditInv'
<1>1. /\ anchors' = Seen(n, e, anchors)
      /\ UNCHANGED <<caret, before, selected, pastes, pasting, edit, during, unseen, erased>>
  BY SnapshotIs
<1>2. Stacked(anchors, pastes) /\ pastes \in Nat /\ e \in Fields \cup {None}
  BY WorldIs
<1>3. Stacked(anchors', pastes)
  BY <1>1, <1>2, SeenStacked
<1>4. \A s \in Seq(Int) : \A b \in Int :
         /\ Deep(anchors, s, b) => Deep(anchors', s, b)
         /\ Spent(anchors) => Spent(anchors')
  BY <1>1, <1>2, DeepSeen
<1>. QED
  BY <1>1, <1>3, <1>4, LookersKeep

\* Something the anchors are told of, or that goes unseen.
LEMMA EventKeeps ==
    ASSUME EditInv, Stacked(anchors', pastes), caret' \in Fields,
           before' \in [Fields -> Seq(Int)],
           unseen' \/ (/\ edit.at = "idle" /\ Spent(anchors')
                       /\ caret' \notin selected' /\ (pasting => Clean(before'[caret'], 1))),
           during' \/ (/\ ~during /\ edit.at = "idle"),
           unseen => unseen', during => during',
           UNCHANGED <<pastes, pasting, edit, erased>>
    PROVE  EditInv'
<1>1. pastes \in Nat /\ EditOK(edit)
  BY WorldIs
<1>2. WorldOK'
  BY <1>1 DEF WorldOK
<1>3. ASSUME ~unseen' PROVE Vouched'
  <2>1. \A b : Deep(anchors', before'[caret'], b)
    BY <1>3, SpentDeep
  <2>. QED
    BY <1>3, <2>1 DEF Vouched, Knows
<1>4. Aimed'
  BY DEF Aimed, Aim
<1>5. EditsSpareTyping'
  BY DEF EditInv, EditsSpareTyping, AxSparesTyping, KeysSpareTyping
<1>. QED
  BY <1>2, <1>3, <1>4, <1>5 DEF EditInv, Noticed

LEMMA CommitKeeps == ASSUME EditInv, Voice!Commit PROVE EditInv'
<1>1. /\ caret \in Fields /\ before \in [Fields -> Seq(Int)]
      /\ pastes \in Nat /\ anchors \in Seq(Anchors) /\ Stacked(anchors, pastes)
  BY WorldIs
<1>2. /\ anchors' = Voice!Since("committed", anchors)
      /\ before' = [before EXCEPT ![caret] = <<>>] /\ selected' = selected \ {caret}
      /\ during' <=> (during \/ edit.at # "idle")
      /\ unseen' <=> (unseen \/ edit.at # "idle")
      /\ UNCHANGED <<caret, pastes, pasting, edit, erased>>
  BY Zenon DEF Voice!Commit
<1>3. "committed" \in Whats
  BY DEF Whats
<1>4. Stacked(anchors', pastes) /\ Spent(anchors')
  BY <1>1, <1>2, <1>3, SinceStacked, SinceSpent
<1>5. <<>> \in Seq(Int) /\ Clean(<<>>, 1)
  BY CleanEmpty
<1>6. before' \in [Fields -> Seq(Int)] /\ before'[caret] = <<>>
  BY <1>1, <1>2, <1>5, FieldSet
<1>. QED
  BY <1>1, <1>2, <1>4, <1>5, <1>6, EventKeeps

LEMMA InputKeeps ==
    ASSUME EditInv, Voice!Input, caret' \in Fields, before' \in [Fields -> Seq(Int)],
           caret' \notin selected'
    PROVE  EditInv'
<1>1. pastes \in Nat /\ anchors \in Seq(Anchors) /\ Stacked(anchors, pastes)
  BY WorldIs
<1>2. /\ anchors' = IF grace THEN anchors ELSE Voice!Since("input", anchors)
      /\ during' <=> (during \/ edit.at # "idle")
      /\ unseen' <=> (unseen \/ grace \/ pasting \/ edit.at # "idle")
      /\ UNCHANGED <<pastes, pasting, edit, erased>>
  BY Zenon DEF Voice!Input
<1>3. "input" \in Whats
  BY DEF Whats
<1>4. Stacked(Voice!Since("input", anchors), pastes) /\ Spent(Voice!Since("input", anchors))
  BY <1>1, <1>3, SinceStacked, SinceSpent
<1>5. Stacked(anchors', pastes) /\ (~grace => Spent(anchors'))
  BY <1>1, <1>2, <1>4
<1>. QED
  BY <1>2, <1>5, EventKeeps

LEMMA TypeTextKeeps == ASSUME EditInv, Voice!TypeText PROVE EditInv'
<1>1. caret \in Fields /\ before \in [Fields -> Seq(Int)] /\ Voice!Own \in Int
  BY WorldIs DEF Voice!Own
<1>2. Voice!Input /\ Voice!Put(caret, Voice!Own) /\ caret' = caret
  BY DEF Voice!TypeText
<1>3. before' \in [Fields -> Seq(Int)] /\ selected' = selected \ {caret}
  BY <1>1, <1>2, PutIs
<1>. QED
  BY <1>1, <1>2, <1>3, InputKeeps

LEMMA ClickKeeps == ASSUME EditInv, NEW f \in Fields, Voice!Click(f) PROVE EditInv'
<1>1. caret \in Fields /\ before \in [Fields -> Seq(Int)] /\ <<>> \in Seq(Int)
  BY WorldIs, EmptySeq
<1>2. /\ Voice!Input /\ caret' = f /\ selected' = selected \ {f}
      /\ before' = IF f = caret THEN [before EXCEPT ![f] = <<>>] ELSE before
  BY DEF Voice!Click
<1>3. before' \in [Fields -> Seq(Int)]
  BY <1>1, <1>2
<1>. QED
  BY <1>2, <1>3, InputKeeps

LEMMA FocusMovesKeeps == ASSUME EditInv, NEW f \in Fields, Voice!FocusMoves(f) PROVE EditInv'
<1>1. /\ caret' = f /\ unseen'
      /\ UNCHANGED <<before, selected, anchors, pastes, pasting, edit, during, erased>>
  BY DEF Voice!FocusMoves, Voice!state
<1>2. WorldOK'
  BY <1>1 DEF EditInv, WorldOK
<1>3. Noticed' /\ Aimed'
  BY <1>1 DEF EditInv, Noticed, Aimed, Aim
<1>4. EditsSpareTyping'
  BY <1>1 DEF EditInv, EditsSpareTyping, AxSparesTyping, KeysSpareTyping
<1>. QED
  BY <1>2, <1>3, <1>4 DEF EditInv

-----------------------------------------------------------------------------
(* The command.                                                               *)

\* A command goes on, and nothing else changes.
LEMMA CommandKeeps ==
    ASSUME EditInv, EditOK(edit'),
           ~unseen => (Vouched => Vouched'), ~during => Aim(before, edit'),
           UNCHANGED <<caret, before, selected, anchors, pastes, pasting, during, unseen, erased>>
    PROVE  EditInv'
<1>1. WorldOK'
  BY DEF EditInv, WorldOK
<1>2. Noticed' /\ Aimed'
  BY DEF EditInv, Noticed, Aimed
<1>3. EditsSpareTyping'
  BY DEF EditInv, EditsSpareTyping, AxSparesTyping, KeysSpareTyping
<1>. QED
  BY <1>1, <1>2, <1>3 DEF EditInv

LEMMA LookKeeps == ASSUME EditInv, Voice!Look PROVE EditInv'
<1>. DEFINE s == before[caret]
            a == Voice!Top(anchors)
            n == Len(anchors)
<1>1. /\ s \in Seq(Int) /\ n \in Nat /\ anchors \in Seq(Anchors)
      /\ Stacked(anchors, pastes)
  BY WorldIs
<1>2. /\ edit.at = "idle" /\ edit' = Looking(a)
      /\ UNCHANGED <<caret, before, selected, anchors, pastes, pasting, during, unseen, erased>>
  BY LookIs
<1>3. /\ a \in Anchors /\ (a.id # 0 => a.text # Voice!Own)
      /\ a.id # 0 => n \in 1..n /\ a = anchors[n]
  <2>1. CASE anchors = <<>>
    BY <2>1, UnsentTyped DEF Voice!Top
  <2>2. CASE anchors # <<>>
    <3>1. n \in 1..n /\ a = anchors[n]
      BY <1>1, <2>2, EmptySeq DEF Voice!Top, Voice!Last
    <3>2. a \in Anchors /\ a.text # Voice!Own
      BY <1>1, <3>1, ElementOfSeq DEF Stacked, Rising
    <3>. QED
      BY <3>1, <3>2
  <2>. QED
    BY <2>1, <2>2
<1>. HIDE DEF a, n
<1>4. EditOK(edit') /\ edit'.at = "plan" /\ edit'.anchor = a
  BY <1>2, <1>3, LookingIs
<1>5. ASSUME Vouched PROVE Vouched'
  <2>. DEFINE b == IF pasting THEN 1 ELSE 0
  <2>1. Knows(s, caret \in selected, anchors, pasting, edit, caret)
    BY <1>5 DEF Vouched
  <2>2. Late(edit) = 0 /\ Late(edit') = 0
    BY <1>2, <1>4, LateIs
  <2>3. Deep(anchors, s, b) /\ b \in {0, 1}
    BY <1>2, <2>1, <2>2 DEF Knows
  <2>. HIDE DEF b
  <2>4. ASSUME a.id # 0, a.since = {} PROVE Clean(s, 1)
    <3>1. n \in 1..n /\ a = anchors[n]
      BY <1>3, <2>4
    <3>2. Clean(s, n - n + 1 + b)
      BY <2>3, <2>4, <3>1 DEF Deep, n
    <3>3. n - n + 1 + b \in Int /\ 1 <= n - n + 1 + b
      BY <1>1, <2>3
    <3>. HIDE DEF s
    <3>. QED
      BY <1>1, <3>2, <3>3, CleanLess
  <2>. HIDE DEF s
  <2>5. Knows(s, caret \in selected, anchors, pasting, edit', caret)
    BY <1>4, <2>1, <2>2, <1>2, <2>4 DEF Knows
  <2>. QED
    BY <1>2, <2>5 DEF Vouched, s
<1>6. Aim(before, edit')
  BY <1>4 DEF Aim
<1>. QED
  BY <1>2, <1>4, <1>5, <1>6, CommandKeeps

\* A command that comes to nothing.
LEMMA DeclinedKeeps ==
    ASSUME EditInv, edit.at \in {"plan", "execute"}, Voice!Declined PROVE EditInv'
<1>1. /\ edit' = Voice!Rest
      /\ UNCHANGED <<caret, before, selected, anchors, pastes, pasting, during, unseen, erased>>
  BY DeclinedIs
<1>2. EditOK(edit') /\ edit'.at = "idle"
  BY <1>1, RestIs
<1>3. ASSUME Vouched PROVE Vouched'
  <2>1. Late(edit) = 0 /\ Late(edit') = 0
    BY <1>2, LateIs
  <2>. QED
    BY <1>1, <1>2, <1>3, <2>1 DEF Vouched, Knows
<1>4. Aim(before, edit')
  BY <1>2 DEF Aim
<1>. QED
  BY <1>1, <1>2, <1>3, <1>4, CommandKeeps

LEMMA PlanKeeps ==
    ASSUME EditInv, NEW c \in Commands, NEW forced \in BOOLEAN, Voice!Plan(c, forced)
    PROVE  EditInv'
<1>. DEFINE s == before[caret]
            a == edit.anchor
<1>1. /\ caret \in Fields /\ before \in [Fields -> Seq(Int)] /\ EditOK(edit)
  BY WorldIs
<1>2. a \in Anchors /\ (a.id # 0 => a.text # Voice!Own)
  BY <1>1 DEF EditOK, EditStates
<1>3. /\ edit.at = "plan"
      /\ UNCHANGED <<caret, before, selected, anchors, pastes, pasting, during, unseen, erased>>
      /\ \/ edit' = Voice!Rest
         \/ \E e \in {caret, None} : \E p \in Voice!Plans(c, a, e, forced) :
               edit' = Decided(a.text, e, p)
  BY PlanIs
<1>4. CASE edit' = Voice!Rest
  <2>1. EditOK(edit') /\ edit'.at = "idle"
    BY <1>4, RestIs
  <2>2. ASSUME Vouched PROVE Vouched'
    <3>1. Late(edit) = 0 /\ Late(edit') = 0
      BY <1>3, <2>1, LateIs
    <3>. QED
      BY <1>3, <2>1, <2>2, <3>1 DEF Vouched, Knows
  <2>3. Aim(before, edit')
    BY <2>1 DEF Aim
  <2>. QED
    BY <1>3, <2>1, <2>2, <2>3, CommandKeeps
<1>5. ASSUME NEW e \in {caret, None}, NEW p \in Voice!Plans(c, a, e, forced),
             edit' = Decided(a.text, e, p)
      PROVE  EditInv'
  <2>1. Sound(a, e, p) /\ e \in Fields \cup {None}
    BY <1>1, PlansSound
  <2>2. /\ EditOK(edit') /\ edit'.at = "execute" /\ edit'.elem = e /\ edit'.does = p.does
        /\ edit'.by = p.by /\ edit'.index = p.index
    BY <1>2, <1>5, <2>1, DecidedIs
  <2>3. ASSUME Vouched PROVE Vouched'
    <3>1. Late(edit) = 0 /\ Late(edit') = 0
      BY <1>3, <2>2, LateIs
    <3>2. Knows(s, caret \in selected, anchors, pasting, edit, caret)
      BY <2>3 DEF Vouched
    <3>3. ASSUME edit'.by = "keys", edit'.does \in {"erase", "change"} PROVE Clean(s, 1)
      <4>1. a.id # 0 /\ a.since = {}
        BY <2>1, <2>2, <3>3 DEF Sound
      <4>. QED
        BY <1>3, <3>2, <4>1 DEF Knows
    <3>. HIDE DEF s
    <3>4. Knows(s, caret \in selected, anchors, pasting, edit', caret)
      BY <1>3, <1>5, <2>2, <3>1, <3>2, <3>3 DEF Knows
    <3>. QED
      BY <1>3, <3>4 DEF Vouched, s
  <2>4. Aim(before, edit')
    <3>. SUFFICES ASSUME edit'.by = "ax", edit'.index \in 1..Len(before[edit'.elem])
                  PROVE  before[edit'.elem][edit'.index] # Voice!Own
      BY DEF Aim
    <3>1. /\ a.id # 0 /\ Voice!AtCaret(a, e) /\ p.index = Len(before[e])
      BY <2>1, <2>2 DEF Sound
    <3>2. before[e][Len(before[e])] = a.text
      BY <3>1 DEF Voice!AtCaret, Voice!Last
    <3>. QED
      BY <1>2, <2>2, <3>1, <3>2
  <2>. QED
    BY <1>3, <2>2, <2>3, <2>4, CommandKeeps
<1>. QED
  BY <1>3, <1>4, <1>5

LEMMA FailsKeeps == ASSUME EditInv, Voice!Fails PROVE EditInv'
BY DeclinedKeeps DEF Voice!Fails

LEMMA ApplyKeeps == ASSUME EditInv, Voice!Apply PROVE EditInv'
<1>. DEFINE s == before[caret]
<1>1. /\ caret \in Fields /\ before \in [Fields -> Seq(Int)] /\ s \in Seq(Int)
      /\ pastes \in Nat /\ Stacked(anchors, pastes) /\ EditOK(edit)
  BY WorldIs
<1>2. /\ edit.at = "apply" /\ edit' = Voice!Rest
      /\ anchors' = Applied(anchors, edit)
      /\ unseen' <=> (unseen \/ (Voice!Top(Popped(anchors, edit)).since # {}
                                 /\ edit.effect # "skip"))
      /\ UNCHANGED <<caret, before, selected, pastes, pasting, during, erased>>
  BY ApplyIs
<1>3. EditOK(edit') /\ edit'.at = "idle"
  BY <1>2, RestIs
<1>4. WorldOK'
  <2>1. Stacked(Applied(anchors, edit), pastes)
    BY <1>1, <1>2, AppliedStacked
  <2>. QED
    BY <1>1, <1>2, <1>3, <2>1 DEF WorldOK
<1>5. ASSUME ~unseen' PROVE Vouched'
  <2>. DEFINE b == IF pasting THEN 1 ELSE 0
  <2>1. Knows(s, caret \in selected, anchors, pasting, edit, caret)
    BY <1>2, <1>5 DEF EditInv, Noticed, Vouched
  <2>2. edit.effect = "skip" \/ Voice!Top(Popped(anchors, edit)).since = {}
    BY <1>2, <1>5
  <2>3. b \in Int /\ (edit.effect = "untracked" \/ Deep(anchors, s, b - Late(edit)))
    BY <1>2, <2>1 DEF Knows
  <2>. HIDE DEF b, s
  <2>4. /\ Deep(Applied(anchors, edit), s, b)
        /\ Spent(anchors) => Spent(Applied(anchors, edit))
    BY <1>1, <1>2, <2>2, <2>3, DeepApplied
  <2>5. Late(edit') = 0
    BY <1>3, LateIs
  <2>6. Knows(s, caret \in selected, anchors', pasting, edit', caret)
    BY <1>2, <1>3, <2>1, <2>4, <2>5 DEF Knows, b
  <2>. QED
    BY <1>2, <2>6 DEF Vouched, s
<1>6. Aimed'
  BY <1>3 DEF Aimed, Aim
<1>7. EditsSpareTyping'
  BY <1>2 DEF EditInv, EditsSpareTyping, AxSparesTyping, KeysSpareTyping
<1>. QED
  BY <1>4, <1>5, <1>6, <1>7 DEF EditInv, Noticed

\* A command is carried out, or fails on the way.
LEMMA ActKeeps ==
    ASSUME EditInv, edit.at = "execute", ~pasting,
           edit' = Done(edit) \/ edit' = Voice!Rest,
           before' \in [Fields -> Seq(Int)], unseen => unseen', EditsSpareTyping',
           ~unseen' => \/ edit'.at = "apply" /\ edit'.effect = "untracked"
                       \/ Deep(anchors, before'[caret], 0 - Late(edit')),
           ~unseen' => caret \notin selected' \/ caret \in selected,
           UNCHANGED <<caret, anchors, pastes, pasting, during>>
    PROVE  EditInv'
<1>1. edit'.at \in {"apply", "idle"} /\ EditOK(edit')
  <2>1. EditOK(edit)
    BY WorldIs
  <2>2. EditOK(Done(edit)) /\ Done(edit).at = "apply"
    BY <2>1, DoneIs
  <2>3. EditOK(Voice!Rest) /\ Voice!Rest.at = "idle"
    BY RestIs
  <2>. QED
    BY <2>2, <2>3
<1>2. WorldOK'
  BY <1>1, WorldIs DEF WorldOK
<1>3. ASSUME ~unseen' PROVE Vouched'
  <2>1. Vouched
    BY <1>3 DEF EditInv, Noticed
  <2>. QED
    BY <1>1, <1>3, <2>1 DEF Vouched, Knows
<1>4. Aimed'
  BY <1>1 DEF Aimed, Aim
<1>. QED
  BY <1>2, <1>3, <1>4 DEF EditInv, Noticed

\* While the field is as it was, so are the pieces.
LEMMA ActingIs ==
    ASSUME EditInv, edit.at = "execute", ~pasting
    PROVE  /\ edit \in EditStates /\ Way(edit.does, edit.by, edit.effect)
           /\ edit.by \in {"ax", "field", "word"} => edit.elem \in Fields
           /\ ~unseen => /\ Deep(anchors, before[caret], 0)
                         /\ edit.by \in {"ax", "field", "word"} => edit.elem = caret
                         /\ caret \in selected => Spent(anchors)
                         /\ edit.by = "keys" /\ edit.does \in {"erase", "change"}
                               => Clean(before[caret], 1)
<1>1. EditOK(edit)
  BY WorldIs
<1>2. edit \in EditStates /\ Way(edit.does, edit.by, edit.effect)
      /\ (edit.by \in {"ax", "field", "word"} => edit.elem \in Fields)
  BY <1>1 DEF EditOK
<1>3. Late(edit) = 0 /\ 0 - 0 = 0
  BY LateIs
<1>4. ASSUME ~unseen
      PROVE  /\ Deep(anchors, before[caret], 0) /\ edit.elem \in {caret, None}
             /\ caret \in selected => Spent(anchors)
             /\ edit.by = "keys" /\ edit.does \in {"erase", "change"} => Clean(before[caret], 1)
  BY <1>3, <1>4 DEF EditInv, Noticed, Vouched, Knows
<1>. QED
  BY <1>2, <1>4, EditAssumption

LEMMA ExecuteAxIs ==
    ASSUME Voice!ExecuteAx
    PROVE  /\ edit.at = "execute" /\ ~pasting /\ edit.by \in {"ax", "field", "word"}
           /\ edit.index \in 1..Len(before[edit.elem])
           /\ \/ /\ edit.does = "erase" /\ selected' = selected \ {edit.elem}
                 /\ before' = Voice!Without(edit.elem, edit.index) /\ edit' = Done(edit)
              \/ /\ edit.does = "change" /\ selected' = selected \ {edit.elem}
                 /\ before' = Voice!With(edit.elem, edit.index,
                        IF edit.by = "ax" THEN Voice!Edited(before[edit.elem][edit.index])
                                          ELSE Voice!Other)
                 /\ edit' = Done(edit)
              \/ /\ edit.does = "select" /\ before' = before /\ edit' = Done(edit)
              \/ /\ before' \in {before, Voice!With(edit.elem, edit.index, Voice!Other)}
                 /\ edit' = Voice!Rest
           /\ erased' = erased
              \/ (erased' = erased \cup {"ax"} /\ edit.by = "ax"
                  /\ before[edit.elem][edit.index] = Voice!Own)
           /\ unseen' <=> (unseen \/ ~(selected' \subseteq selected))
           /\ UNCHANGED <<caret, anchors, pastes, pasting, during>>
<1>1. /\ edit.at = "execute" /\ ~pasting /\ edit.by \in {"ax", "field", "word"}
      /\ edit.index \in 1..Len(before[edit.elem])
      /\ unseen' <=> (unseen \/ ~(selected' \subseteq selected))
      /\ UNCHANGED <<caret, anchors, pastes, pasting, during>>
  BY Zenon DEF Voice!ExecuteAx
<1>2. erased' = IF edit.by = "ax" /\ before' # before /\ before[edit.elem][edit.index] = Voice!Own
                THEN erased \cup {"ax"} ELSE erased
  BY Zenon DEF Voice!ExecuteAx
<1>3. \/ /\ edit.does = "erase" /\ selected' = selected \ {edit.elem}
         /\ before' = Voice!Without(edit.elem, edit.index) /\ edit' = Done(edit)
      \/ /\ edit.does = "change" /\ selected' = selected \ {edit.elem}
         /\ before' = Voice!With(edit.elem, edit.index,
                IF edit.by = "ax" THEN Voice!Edited(before[edit.elem][edit.index])
                                  ELSE Voice!Other)
         /\ edit' = Done(edit)
      \/ /\ edit.does = "select" /\ before' = before /\ edit' = Done(edit)
      \/ /\ before' \in {before, Voice!With(edit.elem, edit.index, Voice!Other)}
         /\ edit' = Voice!Rest
  BY Zenon DEF Voice!ExecuteAx, Done
<1>. QED
  BY <1>1, <1>2, <1>3

LEMMA ExecuteAxKeeps == ASSUME EditInv, Voice!ExecuteAx PROVE EditInv'
<1>. DEFINE f == edit.elem
            i == edit.index
            s == before[f]
<1>1. /\ caret \in Fields /\ before \in [Fields -> Seq(Int)] /\ anchors \in Seq(Anchors)
      /\ EditOK(edit)
  BY WorldIs
<1>2. /\ edit.at = "execute" /\ ~pasting /\ edit.by \in {"ax", "field", "word"}
      /\ i \in 1..Len(s)
      /\ unseen' <=> (unseen \/ ~(selected' \subseteq selected))
      /\ UNCHANGED <<caret, anchors, pastes, pasting, during>>
  BY ExecuteAxIs
<1>3. f \in Fields /\ Way(edit.does, edit.by, edit.effect)
  BY <1>2, ActingIs
<1>4. s \in Seq(Int) /\ \A j \in 1..Len(s) : s[j] \in Int
  BY <1>1, <1>3, ElementOfSeq
<1>5. EditsSpareTyping'
  <2>1. erased' = erased \/ (erased' = erased \cup {"ax"} /\ edit.by = "ax" /\ s[i] = Voice!Own)
    BY ExecuteAxIs
  <2>2. ASSUME edit.by = "ax", s[i] = Voice!Own PROVE during
    BY <1>2, <2>2 DEF EditInv, Aimed, Aim
  <2>3. AxSparesTyping'
    BY <1>2, <2>1, <2>2 DEF EditInv, EditsSpareTyping, AxSparesTyping
  <2>4. KeysSpareTyping'
    BY <1>2, <2>1 DEF EditInv, EditsSpareTyping, KeysSpareTyping
  <2>. QED
    BY <2>3, <2>4 DEF EditsSpareTyping
<1>6. ASSUME ~unseen'
      PROVE  /\ Deep(anchors, s, 0) /\ f = caret
             /\ caret \notin selected' \/ caret \in selected
  BY <1>2, <1>6, ActingIs
<1>7. /\ EditOK(Done(edit)) /\ Done(edit).at = "apply" /\ Done(edit).effect = edit.effect
      /\ Voice!Rest.at = "idle"
  BY <1>1, <1>2, DoneIs, RestIs
<1>8. CASE /\ edit.does = "erase" /\ before' = Voice!Without(f, i) /\ edit' = Done(edit)
  <2>. DEFINE r == Voice!RemoveAt(s, i)
  <2>1. r \in Seq(Int)
    BY <1>2, <1>4, RemoveAtIs
  <2>2. before' = [before EXCEPT ![f] = r]
    BY <1>8 DEF Voice!Without
  <2>. HIDE DEF r
  <2>3. before' \in [Fields -> Seq(Int)] /\ before'[f] = r
    BY <1>1, <1>3, <2>1, <2>2, FieldSet
  <2>4. ASSUME ~unseen' PROVE \/ edit'.at = "apply" /\ edit'.effect = "untracked"
                              \/ Deep(anchors, before'[caret], 0 - Late(edit'))
    <3>1. edit.effect = "untracked" \/ edit.effect = "pop"
      BY <1>2, <1>3, <1>8 DEF Way
    <3>2. CASE edit.effect = "pop"
      <4>1. Late(edit') = 1
        BY <1>7, <1>8, <3>2, LateIs
      <4>2. Deep(anchors, s, 0)
        BY <1>6, <2>4
      <4>. HIDE DEF s, i
      <4>3. Deep(anchors, r, 0 - 1)
        BY <1>1, <1>2, <1>4, <4>2, DeepRemove DEF r
      <4>. QED
        BY <1>6, <2>3, <2>4, <4>1, <4>3
    <3>. QED
      BY <1>7, <1>8, <3>1, <3>2
  <2>. QED
    BY <1>2, <1>5, <1>6, <1>8, <2>3, <2>4, ActKeeps
<1>9. ASSUME NEW x \in Int, x = Voice!Own => s[i] = Voice!Own, before' = Voice!With(f, i, x),
             edit' = Done(edit) \/ edit' = Voice!Rest, edit.does # "erase" \/ edit' = Voice!Rest
      PROVE  EditInv'
  <2>. DEFINE r == [s EXCEPT ![i] = x]
  <2>1. r \in Seq(Int)
    BY <1>2, <1>4, ExceptSeq
  <2>2. before' = [before EXCEPT ![f] = r]
    BY <1>9 DEF Voice!With
  <2>. HIDE DEF r
  <2>3. before' \in [Fields -> Seq(Int)] /\ before'[f] = r
    BY <1>1, <1>3, <2>1, <2>2, FieldSet
  <2>4. Late(edit') = 0
    BY <1>3, <1>7, <1>9, LateIs DEF Way
  <2>5. ASSUME ~unseen' PROVE Deep(anchors, before'[caret], 0 - Late(edit'))
    <3>1. Deep(anchors, s, 0)
      BY <1>6, <2>5
    <3>2. Deep(anchors, r, 0)
      <4>1. 0 \in Int
        OBVIOUS
      <4>. HIDE DEF s, i
      <4>. QED
        BY <1>1, <1>2, <1>4, <1>9, <3>1, <4>1, DeepSet DEF r
    <3>. QED
      BY <1>6, <2>3, <2>4, <2>5, <3>2
  <2>. QED
    BY <1>2, <1>5, <1>6, <1>9, <2>3, <2>5, ActKeeps
<1>10. CASE before' = before /\ edit.does # "erase" /\ edit' = Done(edit)
  <2>1. Late(edit') = 0
    BY <1>3, <1>7, <1>10, LateIs DEF Way
  <2>2. ASSUME ~unseen' PROVE Deep(anchors, before'[caret], 0 - Late(edit'))
    BY <1>6, <1>10, <2>1, <2>2
  <2>. QED
    BY <1>1, <1>2, <1>5, <1>6, <1>10, <2>2, ActKeeps
<1>11. CASE before' = before /\ edit' = Voice!Rest
  <2>1. Late(edit') = 0
    BY <1>7, <1>11, LateIs
  <2>2. ASSUME ~unseen' PROVE Deep(anchors, before'[caret], 0 - Late(edit'))
    BY <1>6, <1>11, <2>1, <2>2
  <2>. QED
    BY <1>1, <1>2, <1>5, <1>6, <1>11, <2>2, ActKeeps
<1>12. Voice!Other \in Int /\ Voice!Other # Voice!Own
  BY OtherIs
<1>13. /\ Voice!Edited(s[i]) \in Int
       /\ Voice!Edited(s[i]) = Voice!Own => s[i] = Voice!Own
  BY <1>2, <1>4, EditedIs
<1>14. \/ /\ edit.does = "erase" /\ before' = Voice!Without(f, i) /\ edit' = Done(edit)
       \/ /\ edit.does = "change" /\ edit' = Done(edit)
          /\ \/ before' = Voice!With(f, i, Voice!Edited(s[i]))
             \/ before' = Voice!With(f, i, Voice!Other)
       \/ /\ edit.does = "select" /\ before' = before /\ edit' = Done(edit)
       \/ /\ before' = before \/ before' = Voice!With(f, i, Voice!Other)
          /\ edit' = Voice!Rest
  BY ExecuteAxIs
<1>. HIDE DEF f, i, s
<1>. QED
  BY <1>8, <1>9, <1>10, <1>11, <1>12, <1>13, <1>14

LEMMA ExecuteOtherKeeps == ASSUME EditInv, Voice!ExecuteOther PROVE EditInv'
<1>. DEFINE f == IF edit.by = "ax" THEN edit.elem ELSE caret
            s == before[f]
<1>1. /\ caret \in Fields /\ before \in [Fields -> Seq(Int)] /\ anchors \in Seq(Anchors)
      /\ EditOK(edit)
  BY WorldIs
<1>2. /\ edit.at = "execute" /\ ~pasting /\ edit' = Done(edit)
      /\ edit.does \in {"newline", "undo", "enter", "goto", "handoff"}
      /\ UNCHANGED <<caret, anchors, pastes, pasting, during, unseen, erased>>
  BY Zenon DEF Voice!ExecuteOther, Done, Voice!history
<1>3. f \in Fields /\ Way(edit.does, edit.by, edit.effect)
  BY <1>1, <1>2, ActingIs
<1>4. s \in Seq(Int)
  BY <1>1, <1>3
<1>5. EditsSpareTyping'
  BY <1>2 DEF EditInv, EditsSpareTyping, AxSparesTyping, KeysSpareTyping
<1>6. ASSUME ~unseen' PROVE Deep(anchors, s, 0) /\ f = caret
  <2>1. f = caret
    BY <1>2, <1>6, ActingIs
  <2>. HIDE DEF f
  <2>. QED
    BY <1>2, <1>6, <2>1, ActingIs
<1>7. /\ EditOK(Done(edit)) /\ edit'.at = "apply" /\ edit'.effect = edit.effect
  BY <1>1, <1>2, DoneIs
<1>8. Late(edit') = 0
  BY <1>2, <1>3, <1>7, LateIs DEF Way
<1>9. CASE edit.does = "newline"
  <2>1. Voice!Put(f, Voice!Other)
    BY <1>9, Zenon DEF Voice!ExecuteOther
  <2>2. Voice!Other \in Int
    BY OtherIs
  <2>3. before' \in [Fields -> Seq(Int)] /\ selected' = selected \ {f}
    <3>. HIDE DEF f
    <3>. QED
      BY <1>1, <1>3, <2>1, <2>2, PutIs
  <2>4. edit'.effect = "untracked"
    BY <1>3, <1>7, <1>9 DEF Way
  <2>. HIDE DEF f, s
  <2>. QED
    BY <1>2, <1>5, <1>7, <2>3, <2>4, ActKeeps
<1>10. CASE edit.does = "undo"
  <2>1. /\ before' \in {before} \cup
                (IF before[f] = <<>> THEN {} ELSE {[before EXCEPT ![f] = Voice!Front(@)]})
        /\ selected' = selected \ {f}
    BY <1>10, Zenon DEF Voice!ExecuteOther
  <2>2. before' \in [Fields -> Seq(Int)]
    <3>. DEFINE r == Voice!Front(s)
    <3>1. r \in Seq(Int)
      BY <1>4, FrontIs
    <3>2. before' = before \/ before' = [before EXCEPT ![f] = r]
      BY <2>1
    <3>. HIDE DEF r, f
    <3>. QED
      BY <1>1, <1>3, <3>1, <3>2, FieldSet
  <2>3. edit'.effect = "untracked"
    BY <1>3, <1>7, <1>10 DEF Way
  <2>. HIDE DEF f, s
  <2>. QED
    BY <1>2, <1>5, <1>7, <2>1, <2>2, <2>3, ActKeeps
<1>11. CASE edit.does \in {"enter", "goto"}
  <2>1. /\ before' \in {before, [before EXCEPT ![f] = <<>>]}
        /\ selected' = selected \ {f}
    BY <1>11, Zenon DEF Voice!ExecuteOther
  <2>2. <<>> \in Seq(Int)
    BY EmptySeq
  <2>3. before' \in [Fields -> Seq(Int)] /\ (before' = before \/ before'[f] = <<>>)
    <3>. HIDE DEF f
    <3>. QED
      BY <1>1, <1>3, <2>1, <2>2, FieldSet
  <2>4. ASSUME ~unseen' PROVE Deep(anchors, before'[caret], 0 - Late(edit'))
    <3>1. Deep(anchors, before'[f], 0)
      BY <1>6, <2>3, <2>4, DeepEmpty
    <3>. HIDE DEF f
    <3>. QED
      BY <1>6, <1>8, <2>4, <3>1
  <2>. HIDE DEF f, s
  <2>. QED
    BY <1>2, <1>5, <2>1, <2>3, <2>4, ActKeeps
<1>12. CASE edit.does = "handoff"
  <2>1. UNCHANGED <<before, selected>>
    BY <1>12, Zenon DEF Voice!ExecuteOther
  <2>2. ASSUME ~unseen' PROVE Deep(anchors, before'[caret], 0 - Late(edit'))
    <3>. HIDE DEF f
    <3>. QED
      BY <1>6, <1>8, <2>1, <2>2
  <2>. HIDE DEF f, s
  <2>. QED
    BY <1>1, <1>2, <1>5, <2>1, <2>2, ActKeeps
<1>. QED
  BY <1>2, <1>9, <1>10, <1>11, <1>12

LEMMA ExecuteKeysIs ==
    ASSUME Voice!ExecuteKeys
    PROVE  LET kept == IF before[caret] = <<>> THEN <<>> ELSE Voice!Front(before[caret])
           IN  /\ edit.at = "execute" /\ ~pasting /\ edit.by \in {"keys", "wordKeys"}
               /\ edit.does \in {"erase", "change", "select"} /\ edit' = Done(edit)
               /\ edit.does = "erase" => before' = [before EXCEPT ![caret] = kept]
               /\ edit.does = "change"
                     => before' = [before EXCEPT ![caret] = Append(kept, Voice!Edited(edit.text))]
               /\ edit.does = "select" => before' = before
               /\ edit.does # "select" => selected' = selected \ {caret}
               /\ erased' = erased
                  \/ (/\ erased' = erased \cup {"keys"} /\ edit.by = "keys"
                      /\ edit.does # "select" /\ before[caret] # <<>>
                      /\ Voice!Last(before[caret]) = Voice!Own)
               /\ unseen' <=> (unseen \/ edit.does = "select")
               /\ UNCHANGED <<caret, anchors, pastes, pasting, during>>
<1>. DEFINE kept == IF before[caret] = <<>> THEN <<>> ELSE Voice!Front(before[caret])
<1>1. /\ edit.at = "execute" /\ ~pasting /\ edit.by \in {"keys", "wordKeys"}
      /\ edit.does \in {"erase", "change", "select"} /\ edit' = Done(edit)
      /\ unseen' <=> (unseen \/ edit.does = "select")
      /\ UNCHANGED <<caret, anchors, pastes, pasting, during>>
  BY Zenon DEF Voice!ExecuteKeys, Done
<1>2. /\ before' = CASE edit.does = "erase"  -> [before EXCEPT ![caret] = kept]
                     [] edit.does = "change" ->
                          [before EXCEPT ![caret] = Append(kept, Voice!Edited(edit.text))]
                     [] OTHER                -> before
      /\ selected' = IF edit.does = "select" /\ before[caret] # <<>> THEN selected \cup {caret}
                     ELSE selected \ {caret}
      /\ erased' = IF edit.by = "keys" /\ edit.does # "select" /\ before[caret] # <<>>
                      /\ Voice!Last(before[caret]) = Voice!Own
                   THEN erased \cup {"keys"} ELSE erased
  BY Zenon DEF Voice!ExecuteKeys
<1>. HIDE DEF kept
<1>3. /\ edit.does = "erase" => before' = [before EXCEPT ![caret] = kept]
      /\ edit.does = "change"
            => before' = [before EXCEPT ![caret] = Append(kept, Voice!Edited(edit.text))]
      /\ edit.does = "select" => before' = before
  BY <1>2
<1>4. /\ edit.does # "select" => selected' = selected \ {caret}
      /\ erased' = erased
         \/ (/\ erased' = erased \cup {"keys"} /\ edit.by = "keys"
             /\ edit.does # "select" /\ before[caret] # <<>>
             /\ Voice!Last(before[caret]) = Voice!Own)
  BY <1>2
<1>. QED
  BY <1>1, <1>3, <1>4 DEF kept

LEMMA ExecuteKeysKeeps == ASSUME EditInv, Voice!ExecuteKeys PROVE EditInv'
<1>. DEFINE s == before[caret]
            kept == IF s = <<>> THEN <<>> ELSE Voice!Front(s)
            x == Voice!Edited(edit.text)
<1>1. /\ caret \in Fields /\ before \in [Fields -> Seq(Int)] /\ anchors \in Seq(Anchors)
      /\ EditOK(edit) /\ s \in Seq(Int) /\ Len(s) \in Nat
  BY WorldIs, LenProperties
<1>2. /\ edit.at = "execute" /\ ~pasting /\ edit.by \in {"keys", "wordKeys"}
      /\ edit.does \in {"erase", "change", "select"} /\ edit' = Done(edit)
      /\ unseen' <=> (unseen \/ edit.does = "select")
      /\ UNCHANGED <<caret, anchors, pastes, pasting, during>>
  BY ExecuteKeysIs
<1>3. Way(edit.does, edit.by, edit.effect) /\ edit.text \in Int
  BY <1>2, ActingIs DEF EditStates
<1>4. /\ edit.does = "erase" => before' = [before EXCEPT ![caret] = kept]
      /\ edit.does = "change" => before' = [before EXCEPT ![caret] = Append(kept, x)]
      /\ edit.does = "select" => before' = before
      /\ edit.does # "select" => selected' = selected \ {caret}
  BY ExecuteKeysIs
<1>5. EditsSpareTyping'
  <2>1. erased' = erased
        \/ (/\ erased' = erased \cup {"keys"} /\ edit.by = "keys" /\ edit.does # "select"
            /\ s # <<>> /\ Voice!Last(s) = Voice!Own)
    BY ExecuteKeysIs
  <2>2. ASSUME edit.by = "keys", edit.does # "select", s # <<>>, Voice!Last(s) = Voice!Own
        PROVE  unseen
    <3>1. Len(s) \in 1..Len(s) /\ s[Len(s)] = Voice!Own
      BY <1>1, <2>2, EmptySeq DEF Voice!Last
    <3>2. ~Clean(s, 1)
      BY <1>1, <3>1 DEF Clean
    <3>. QED
      BY <1>2, <2>2, <3>2, ActingIs
  <2>3. AxSparesTyping'
    BY <1>2, <2>1 DEF EditInv, EditsSpareTyping, AxSparesTyping
  <2>4. KeysSpareTyping'
    BY <1>2, <2>1, <2>2 DEF EditInv, EditsSpareTyping, KeysSpareTyping
  <2>. QED
    BY <2>3, <2>4 DEF EditsSpareTyping
<1>6. ASSUME ~unseen' PROVE Deep(anchors, s, 0)
  BY <1>2, <1>6, ActingIs
<1>7. edit'.at = "apply" /\ edit'.effect = edit.effect
  BY <1>1, <1>2, DoneIs
<1>8. kept \in Seq(Int) /\ (Deep(anchors, s, 0) => Deep(anchors, kept, 0 - 1))
  <2>1. CASE s = <<>>
    <3>1. kept = <<>>
      BY <2>1
    <3>. HIDE DEF kept
    <3>. QED
      BY <3>1, CleanEmpty, DeepEmpty
  <2>2. CASE s # <<>>
    <3>1. kept = Voice!Front(s) /\ 0 \in Int
      BY <2>2
    <3>. HIDE DEF kept, s
    <3>. QED
      BY <1>1, <3>1, FrontIs, DeepFront
  <2>. QED
    BY <2>1, <2>2
<1>. HIDE DEF kept, x
<1>9. CASE edit.does = "erase"
  <2>1. before' \in [Fields -> Seq(Int)] /\ before'[caret] = kept
    BY <1>1, <1>4, <1>8, <1>9, FieldSet
  <2>2. edit.effect = "untracked" \/ Late(edit') = 1
    BY <1>2, <1>3, <1>7, <1>9, LateIs DEF Way
  <2>3. ASSUME ~unseen' PROVE \/ edit'.at = "apply" /\ edit'.effect = "untracked"
                              \/ Deep(anchors, before'[caret], 0 - Late(edit'))
    BY <1>6, <1>7, <1>8, <2>1, <2>2, <2>3
  <2>. QED
    BY <1>2, <1>4, <1>5, <1>9, <2>1, <2>3, ActKeeps
<1>10. CASE edit.does = "change"
  <2>1. edit.effect = "rewrite" /\ x \in Int /\ x # Voice!Own
    <3>1. edit.effect = "rewrite"
      BY <1>2, <1>3, <1>10 DEF Way
    <3>2. edit.text # Voice!Own
      BY <1>1, <1>2, <3>1 DEF EditOK
    <3>. QED
      BY <1>3, <3>1, <3>2, EditedIs DEF x
  <2>2. Append(kept, x) \in Seq(Int)
    BY <1>8, <2>1, AppendProperties
  <2>3. before' \in [Fields -> Seq(Int)] /\ before'[caret] = Append(kept, x)
    BY <1>1, <1>4, <1>10, <2>2, FieldSet
  <2>4. Late(edit') = 0
    BY <1>7, <2>1, LateIs
  <2>5. ASSUME ~unseen' PROVE Deep(anchors, before'[caret], 0 - Late(edit'))
    <3>1. Deep(anchors, kept, 0 - 1)
      BY <1>6, <1>8, <2>5
    <3>2. 0 - 1 \in Int /\ (0 - 1) + 1 = 0 - 0
      OBVIOUS
    <3>3. Deep(anchors, Append(kept, x), (0 - 1) + 1)
      BY <1>1, <1>8, <2>1, <3>1, <3>2, DeepAppend
    <3>. QED
      BY <2>3, <2>4, <3>2, <3>3
  <2>. QED
    BY <1>2, <1>4, <1>5, <1>10, <2>3, <2>5, ActKeeps
<1>11. CASE edit.does = "select"
  <2>1. unseen' /\ before' = before
    BY <1>2, <1>4, <1>11
  <2>. QED
    BY <1>1, <1>2, <1>5, <2>1, ActKeeps
<1>. QED
  BY <1>2, <1>9, <1>10, <1>11

LEMMA VoiceStep == EditInv /\ [Voice!Next]_(Voice!vars) => EditInv'
<1>. SUFFICES ASSUME EditInv, [Voice!Next]_(Voice!vars) PROVE EditInv'
  OBVIOUS
<1>1. CASE Voice!Paste
  BY <1>1, PasteKeeps
<1>2. CASE Voice!NotePaste
  BY <1>2, NotePasteKeeps
<1>3. CASE Voice!Commit
  BY <1>3, CommitKeeps
<1>4. CASE Voice!GraceEnds
  BY <1>4, GraceEndsKeeps
<1>5. CASE Voice!TimePasses
  BY <1>5, TimePassesKeeps
<1>6. CASE \E n \in snaps, e \in {caret, None} : Voice!Snapshot(n, e)
  BY <1>6, SnapshotKeeps
<1>7. CASE Voice!TypeText
  BY <1>7, TypeTextKeeps
<1>8. CASE \E f \in Fields : Voice!Click(f) \/ Voice!FocusMoves(f)
  BY <1>8, ClickKeeps, FocusMovesKeeps
<1>9. CASE \E c \in Commands, forced \in BOOLEAN : Voice!Plan(c, forced)
  BY <1>9, PlanKeeps
<1>10. CASE Voice!Look
  BY <1>10, LookKeeps
<1>11. CASE Voice!Fails
  BY <1>11, FailsKeeps
<1>12. CASE Voice!ExecuteAx
  BY <1>12, ExecuteAxKeeps
<1>13. CASE Voice!ExecuteOther
  BY <1>13, ExecuteOtherKeeps
<1>14. CASE Voice!ExecuteKeys
  BY <1>14, ExecuteKeysKeeps
<1>15. CASE Voice!Apply
  BY <1>15, ApplyKeeps
<1>16. CASE UNCHANGED Voice!vars
  <2>1. UNCHANGED <<caret, before, selected, anchors, pastes, pasting, edit, during, unseen, erased>>
    BY <1>16 DEF Voice!vars, Voice!world, Voice!state, Voice!history
  <2>2. Stacked(anchors', pastes)
    BY <2>1, WorldIs
  <2>. QED
    BY <2>1, <2>2, LookersKeep
<1>. QED
  BY <1>1, <1>2, <1>3, <1>4, <1>5, <1>6, <1>7, <1>8, <1>9, <1>10, <1>11, <1>12, <1>13,
     <1>14, <1>15, <1>16 DEF Voice!Next

LEMMA VoiceInvariant == Voice!Spec => []EditInv
<1>. QED
  BY VoiceInit, VoiceStep, PTL DEF Voice!Spec

\* "Scratch that" only walks back within one field of one application, however late the
\* snapshot threads look and whatever was pasted, typed and clicked meanwhile.
THEOREM StackIsOneField == Voice!Spec => []OneField
<1>1. EditInv => OneField
  <2>. SUFFICES ASSUME EditInv, NEW i \in DOMAIN anchors, NEW j \in DOMAIN anchors
                PROVE  /\ anchors[i].app = anchors[j].app
                       /\ None \notin {anchors[i].elem, anchors[j].elem}
                             => anchors[i].elem = anchors[j].elem
    BY DEF OneField
  <2>1. Together(anchors) /\ i \in 1..Len(anchors) /\ j \in 1..Len(anchors)
    BY WorldIs, LenProperties DEF Stacked
  <2>. QED
    BY <2>1 DEF Together
<1>. QED
  BY <1>1, VoiceInvariant, PTL

\* No spoken edit takes the user's own typing but where a change escaped the anchors.
THEOREM TypingIsSpared == Voice!Spec => []EditsSpareTyping
<1>1. EditInv => EditsSpareTyping
  BY DEF EditInv
<1>. QED
  BY <1>1, VoiceInvariant, PTL

=============================================================================
