------------------------ MODULE TranscriberSwitchProofs ------------------------
(* Theorems about ModelRegistry and TranscriberSwitch, for every catalogue,   *)
(* every set of clients and languages and any number of requests and kills;   *)
(* then about RecordingLoop, whose utterances the installed engine gets.      *)
EXTENDS TranscriberSwitch, RecordingPromise, TLAPS, SequenceTheorems, WellFoundedInduction

\* Where a model's files, its download and its deletion can be.
Contents  == {"none", "part", "whole", "bad"}
Places    == [final : Contents, partial : Contents, staging : Contents, marker : BOOLEAN]
Downloads == {"off", "request", "stream", "check", "unpack", "unpacking", "promote", "mark",
              "finish"}
Deletions == {"no", "tearing", "rest", "refresh"}
RegistryTyped ==
    /\ disk \in [Models -> Places]
    /\ dl \in [Models -> Downloads] /\ del \in [Models -> Deletions]

\* A download that has not yet put anything under the model's final name.
Fetching == {"request", "stream", "check", "unpack", "unpacking", "promote"}

\* What is true of one model, whatever the tasks on the others do: a directory is
\* complete or gone outside a removal; what is promoted is complete, because the
\* archive it was unpacked from was checked and its staging directory is not swept
\* while the model is in `extracting'; and a download under way found nothing usable.
ModelInv(m) ==
    /\ m \notin Bins /\ m \notin torn /\ del[m] # "tearing" => disk[m].final \in {"none", "whole"}
    /\ m \notin Bins /\ dl[m] = "promote" => disk[m].staging = "whole"
    /\ m \in Archives /\ dl[m] \in {"unpack", "unpacking"} => disk[m].partial \in {"none", "whole"}
    /\ m \in Archives /\ dl[m] \in {"unpacking", "promote"} => m \in extracting
    /\ m \in Bundles => dl[m] \notin {"request", "check", "unpack", "unpacking"}
    /\ dl[m] \in Fetching => disk[m].final = "none" \/ (m \notin Bins /\ ~disk[m].marker)

RegistryInv == RegistryTyped /\ \A m \in Models : ModelInv(m)

\* A step leaves model n alone, but for a sweep of its staging directory.
Kept(n) ==
    /\ \/ disk'[n] = disk[n]
       \/ n \in Archives \ extracting /\ disk'[n] = [disk[n] EXCEPT !.staging = "none"]
    /\ dl'[n] = dl[n] /\ del'[n] = del[n]
    /\ (n \in extracting') <=> (n \in extracting)
    /\ (n \in torn') <=> (n \in torn)

\* What InstalledStays says of one model.
Remains(m) ==
    Trusted(disk, m) /\ del[m] = "no" /\ del'[m] = "no" =>
        Trusted(disk', m) \/ (m \in Bins /\ disk'[m].final = "bad")

\* What a step of a task on model m has to do.
Does(m) ==
    /\ RegistryTyped' /\ ModelInv(m)' /\ Remains(m)
    /\ \A n \in Models : n # m => Kept(n)

-----------------------------------------------------------------------------
(* The engine.                                                                *)

Backends == Choices \cup {"none"}
Engines  == [for : Backends, runs : {"nothing", "pending", "unconfigured", "groq", "apple", "local"},
             content : Contents]
Orders   == [op : {"none", "switch", "lang", "delete"}, to : Backends \cup Langs,
             at : {"idle", "wait", "build", "swap", "announce", "deleting", "deleted"},
             engine : Engines, now : Backends]
SwitchTyped ==
    /\ host \in [platform : Platforms, key : Keys]
    /\ cfg \in [backend : Backends, lang : Langs]
    /\ active \in Engines
    /\ boot \in [at : {"build", "store", "signal", "done", "failed"}, want : Backends, engine : Engines]
    /\ cmd \in [Clients -> Orders]
    /\ sent \in BOOLEAN /\ late \in BOOLEAN

\* A choice the daemon can start with as it is: a machine without Apple's engine
\* has a key for Groq.
Startable(b) == b \in Choices /\ (b = "groq" => host.platform = "macos" \/ host.key)

\* Commands that rebuild hold the lock; what they install was built for the choice.
Rebuilding == {"build", "swap", "announce"}
WellFormed(o) ==
    /\ o.op = "switch" => o.to \in Choices
    /\ o.op = "lang" => o.to \in Langs
    /\ o.at = "wait" => o.op \in {"switch", "lang"}
    /\ o.at = "build" => o.op \in {"switch", "lang"}
    /\ o.at = "deleting" => o.to \in Models
Commanded ==
    \A c \in Clients :
        /\ WellFormed(cmd[c])
        /\ cmd[c].at \in Rebuilding => lock = c
        /\ cmd[c].at = "swap" => sent /\ (cmd[c].op = "switch" => Startable(cmd[c].to))
        /\ cmd[c].at = "swap" /\ ~late => cmd[c].engine.for = cfg.backend

\* Until a command has touched the engine, what the init thread builds is what the
\* config names.
Booting ==
    /\ Startable(stored)
    /\ ~sent /\ boot.at \in {"build", "store"} => active = Placeholder
    /\ ~sent /\ boot.at = "build" => cfg.backend = boot.want
    /\ ~sent /\ boot.at = "store" => boot.engine.for = cfg.backend

\* The config names the engine unless one is about to be installed.
Named ==
    ~late /\ (\A c \in Clients : cmd[c].at # "swap") =>
        active = Placeholder \/ active.for = cfg.backend

SwitchInv == SwitchTyped /\ Commanded /\ Booting /\ Named

-----------------------------------------------------------------------------
(* The registry, one task's step at a time.                                   *)

\* A model that a step leaves alone keeps its part of the invariant.
LEMMA KeptModel ==
    ASSUME RegistryTyped, NEW n \in Models, ModelInv(n), Kept(n)
    PROVE  ModelInv(n)' /\ Remains(n)
<1>1. /\ disk'[n].final = disk[n].final /\ disk'[n].partial = disk[n].partial
      /\ disk'[n].marker = disk[n].marker
      /\ n \notin Archives \/ n \in extracting => disk'[n].staging = disk[n].staging
  BY DEF Kept, RegistryTyped, Places
<1>2. ModelInv(n)'
  BY <1>1, RegistryAssumption DEF Kept, ModelInv, Models
<1>3. Remains(n)
  BY <1>1 DEF Remains, Trusted
<1>. QED
  BY <1>2, <1>3

\* A sweep of the staging directories keeps every model of no task.
LEMMA SweepKeeps ==
    ASSUME NEW d \in [Models -> Places], NEW m \in Models
    PROVE  /\ Swept(d) \in [Models -> Places]
           /\ \A n \in Models :
                /\ Swept(d)[n].final = d[n].final /\ Swept(d)[n].partial = d[n].partial
                /\ Swept(d)[n].marker = d[n].marker
                /\ \/ Swept(d)[n] = d[n]
                   \/ n \in Archives \ extracting /\ Swept(d)[n] = [d[n] EXCEPT !.staging = "none"]
BY DEF Swept, Places, Contents

\* A step of a task on model m that leaves its files at p, and may sweep the
\* staging directories of the others.
Writes(m, p) ==
    /\ disk' = [disk EXCEPT ![m] = p] \/ disk' = Swept([disk EXCEPT ![m] = p])
    /\ dl' \in [Models -> Downloads] /\ del' \in [Models -> Deletions]
    /\ \A n \in Models : n # m =>
          /\ dl'[n] = dl[n] /\ del'[n] = del[n]
          /\ n \in extracting' <=> n \in extracting
          /\ n \in torn' <=> n \in torn

\* Such a step keeps the types, and keeps every other model.
LEMMA OneTask ==
    ASSUME RegistryTyped, NEW m \in Models, NEW p \in Places, Writes(m, p)
    PROVE  /\ RegistryTyped'
           /\ \A n \in Models : n # m => Kept(n)
           /\ disk'[m].final = p.final /\ disk'[m].partial = p.partial
           /\ disk'[m].marker = p.marker
           /\ disk'[m].staging = p.staging \/ m \in Archives \ extracting
<1>. DEFINE d == [disk EXCEPT ![m] = p]
<1>1. d \in [Models -> Places] /\ d[m] = p /\ \A n \in Models : n # m => d[n] = disk[n]
  BY DEF RegistryTyped
<1>2. disk' = d \/ disk' = Swept(d)
  BY DEF Writes
<1>. HIDE DEF d
<1>3. /\ disk' \in [Models -> Places]
      /\ \A n \in Models :
           /\ disk'[n].final = d[n].final /\ disk'[n].partial = d[n].partial
           /\ disk'[n].marker = d[n].marker
           /\ \/ disk'[n] = d[n]
              \/ n \in Archives \ extracting /\ disk'[n] = [d[n] EXCEPT !.staging = "none"]
  BY <1>1, <1>2, SweepKeeps
<1>4. RegistryTyped'
  BY <1>3 DEF RegistryTyped, Writes
<1>5. ASSUME NEW n \in Models, n # m PROVE Kept(n)
  BY <1>1, <1>3, <1>5 DEF Writes, Kept
<1>. QED
  BY <1>1, <1>3, <1>4, <1>5

\* The files of one model, written field by field.
LEMMA FieldWrites ==
    ASSUME RegistryTyped, NEW m \in Models
    PROVE  /\ disk[m] \in Places /\ [disk EXCEPT ![m] = disk[m]] = disk
           /\ \A v \in Contents :
                /\ [disk EXCEPT ![m].final = v] = [disk EXCEPT ![m] = [disk[m] EXCEPT !.final = v]]
                /\ [disk EXCEPT ![m].partial = v] = [disk EXCEPT ![m] = [disk[m] EXCEPT !.partial = v]]
                /\ [disk EXCEPT ![m].staging = v] = [disk EXCEPT ![m] = [disk[m] EXCEPT !.staging = v]]
                /\ [disk[m] EXCEPT !.final = v] \in Places
                /\ [disk[m] EXCEPT !.partial = v] \in Places
                /\ [disk[m] EXCEPT !.staging = v] \in Places
BY DEF RegistryTyped, Places

\* A step of a download touches no deletion.
LEMMA DownloadKeepsOthers ==
    ASSUME RegistryTyped, NEW m \in Models, DownloadStep(m)
    PROVE  /\ UNCHANGED <<del, torn>> /\ del' \in [Models -> Deletions]
           /\ dl' \in [Models -> Downloads]
           /\ \A n \in Models : n # m => dl'[n] = dl[n] /\ (n \in extracting' <=> n \in extracting)
<1>1. UNCHANGED <<del, torn>>
  BY DEF DownloadStep, Download, Request, StreamStops, StreamEnds, Check, Unpack, UnpackEnds,
         Promote, Mark, Finish, CancelDownload, GiveUp, Go
<1>2. dl' = dl \/ \E s \in Downloads : dl' = [dl EXCEPT ![m] = s]
  BY DEF DownloadStep, Download, Request, StreamStops, StreamEnds, Check, Unpack, UnpackEnds,
         Promote, Mark, Finish, CancelDownload, GiveUp, CleanUp, Go, Downloads
<1>3. extracting' \in {extracting, extracting \cup {m}, extracting \ {m}}
  BY DEF DownloadStep, Download, Request, StreamStops, StreamEnds, Check, Unpack, UnpackEnds,
         Promote, Mark, Finish, CancelDownload
<1>. QED
  BY <1>1, <1>2, <1>3 DEF RegistryTyped

\* So it has to leave only its own model in order.
LEMMA DownloadWrites ==
    ASSUME RegistryInv, NEW m \in Models, DownloadStep(m), NEW p \in Places,
           disk' = [disk EXCEPT ![m] = p] \/ disk' = Swept([disk EXCEPT ![m] = p])
    PROVE  /\ RegistryTyped' /\ ModelInv(m)
           /\ \A n \in Models : n # m => Kept(n)
           /\ disk'[m].final = p.final /\ disk'[m].partial = p.partial
           /\ disk'[m].marker = p.marker
           /\ disk'[m].staging = p.staging \/ m \in Archives \ extracting
           /\ UNCHANGED <<del, torn>>
<1>1. Writes(m, p)
  BY DownloadKeepsOthers DEF Writes, RegistryInv
<1>. QED
  BY <1>1, OneTask, DownloadKeepsOthers DEF RegistryInv

\* A request that finds the model usable, and one that starts a download.
LEMMA DownloadDoes == ASSUME RegistryInv, NEW m \in Models, Download(m) PROVE Does(m)
<1>0. RegistryTyped /\ DownloadStep(m) /\ dl[m] = "off" /\ UNCHANGED extracting
  BY DEF RegistryInv, DownloadStep, Download
<1>1. CASE AlreadyUsable(m)
  <2>. DEFINE p == [disk[m] EXCEPT !.partial = "none"]
  <2>1. p \in Places /\ p.final = disk[m].final /\ p.marker = disk[m].marker
    BY <1>0 DEF RegistryTyped, Contents, Places
  <2>2. disk' = Swept([disk EXCEPT ![m] = p]) /\ dl' = dl
    BY <1>0, <1>1, FieldWrites DEF Download, Refresh, Contents
  <2>. HIDE DEF p
  <2>3. /\ RegistryTyped' /\ ModelInv(m) /\ \A n \in Models : n # m => Kept(n)
        /\ disk'[m].final = disk[m].final /\ disk'[m].marker = disk[m].marker
        /\ UNCHANGED <<del, torn>>
    BY <1>0, <2>1, <2>2, DownloadWrites
  <2>4. ModelInv(m)'
    BY <1>0, <2>2, <2>3 DEF ModelInv, Fetching
  <2>5. Remains(m)
    BY <2>3 DEF Remains, Trusted
  <2>. QED
    BY <2>3, <2>4, <2>5 DEF Does
<1>2. CASE ~AlreadyUsable(m)
  <2>1. PICK p \in Places :
           /\ disk' = [disk EXCEPT ![m] = p] /\ p.final = disk[m].final
           /\ p.partial = disk[m].partial /\ p.marker = disk[m].marker
    <3>. DEFINE v == IF m \in Bundles /\ disk[m].staging = "none" THEN "part" ELSE disk[m].staging
    <3>1. v \in Contents
      BY <1>0 DEF RegistryTyped, Contents, Places
    <3>2. disk' = [disk EXCEPT ![m].staging = v]
      BY <1>0, <1>2 DEF Download, RegistryTyped
    <3>. HIDE DEF v
    <3>. DEFINE q == [disk[m] EXCEPT !.staging = v]
    <3>3. q \in Places /\ disk' = [disk EXCEPT ![m] = q]
      BY <1>0, <3>1, <3>2, FieldWrites
    <3>4. q.final = disk[m].final /\ q.partial = disk[m].partial /\ q.marker = disk[m].marker
      BY <1>0 DEF RegistryTyped, Places
    <3>. HIDE DEF q
    <3>. QED
      BY <3>3, <3>4
  <2>2. dl'[m] = IF m \in Bundles THEN "stream" ELSE "request"
    BY <1>0, <1>2 DEF Download, RegistryTyped
  <2>3. disk[m].final = "none" \/ (m \notin Bins /\ ~disk[m].marker)
    BY <1>2 DEF AlreadyUsable, Trusted
  <2>. QED
    BY <1>0, <2>1, <2>2, <2>3, DownloadWrites DEF Does, ModelInv, Remains, Trusted
<1>. QED
  BY <1>1, <1>2

\* The files of model m after a step that sweeps nothing.
Leaves(m, f, p, s, k) ==
    /\ RegistryTyped' /\ (\A n \in Models : n # m => Kept(n))
    /\ disk'[m].final = f /\ disk'[m].partial = p /\ disk'[m].staging = s /\ disk'[m].marker = k

\* A download step that leaves the files of its model at given contents.
LEMMA DownloadLeaves ==
    ASSUME RegistryInv, NEW m \in Models, DownloadStep(m),
           NEW f \in Contents, NEW p \in Contents, NEW s \in Contents, NEW k \in BOOLEAN,
           disk' = [disk EXCEPT ![m] = [final |-> f, partial |-> p, staging |-> s, marker |-> k]]
    PROVE  Leaves(m, f, p, s, k)
<1>. DEFINE q == [final |-> f, partial |-> p, staging |-> s, marker |-> k]
<1>1. q \in Places /\ q.final = f /\ q.partial = p /\ q.staging = s /\ q.marker = k
  BY DEF Places
<1>2. disk' = [disk EXCEPT ![m] = q]
  OBVIOUS
<1>. HIDE DEF q
<1>3. RegistryTyped' /\ (\A n \in Models : n # m => Kept(n))
  BY <1>1, <1>2, DownloadWrites
<1>4. disk'[m] = q
  BY <1>2 DEF RegistryInv, RegistryTyped
<1>. QED
  BY <1>1, <1>3, <1>4 DEF Leaves

\* The files of one model, one of them replaced.
LEMMA FieldExcept ==
    ASSUME NEW q \in Places, NEW v
    PROVE  /\ [q EXCEPT !.partial = v] = [final |-> q.final, partial |-> v,
                                          staging |-> q.staging, marker |-> q.marker]
           /\ [q EXCEPT !.staging = v] = [final |-> q.final, partial |-> q.partial,
                                          staging |-> v, marker |-> q.marker]
BY DEF Places

\* The same, for the fields a step names.
LEMMA DownloadFields ==
    ASSUME RegistryInv, NEW m \in Models, DownloadStep(m)
    PROVE  LET r == disk[m] IN
           /\ disk' = disk => Leaves(m, r.final, r.partial, r.staging, r.marker)
           /\ \A v \in Contents :
                /\ disk' = [disk EXCEPT ![m].final = v]
                      => Leaves(m, v, r.partial, r.staging, r.marker)
                /\ disk' = [disk EXCEPT ![m].partial = v]
                      => Leaves(m, r.final, v, r.staging, r.marker)
                /\ disk' = [disk EXCEPT ![m].staging = v]
                      => Leaves(m, r.final, r.partial, v, r.marker)
           /\ disk' = [disk EXCEPT ![m].staging = "none", ![m].partial = "none"]
                 => Leaves(m, r.final, "none", "none", r.marker)
           /\ disk' = [disk EXCEPT ![m].final = r.partial, ![m].partial = "none"]
                 => Leaves(m, r.partial, "none", r.staging, r.marker)
           /\ disk' = [disk EXCEPT ![m].final = r.staging, ![m].staging = "none"]
                 => Leaves(m, r.staging, r.partial, "none", r.marker)
           /\ \A ok \in BOOLEAN, v \in Contents :
                disk' = [disk EXCEPT ![m].marker = @ \/ ok, ![m].partial = v]
                   => Leaves(m, r.final, v, r.staging, r.marker \/ ok)
<1>. DEFINE r == disk[m]
            P(f, p, s, k) == [final |-> f, partial |-> p, staging |-> s, marker |-> k]
<1>1. /\ disk \in [Models -> Places] /\ r \in Places
      /\ r.final \in Contents /\ r.partial \in Contents /\ r.staging \in Contents
      /\ r.marker \in BOOLEAN /\ "none" \in Contents
      /\ r = P(r.final, r.partial, r.staging, r.marker)
  BY DEF RegistryInv, RegistryTyped, Places, Contents
<1>2. ASSUME disk' = disk PROVE Leaves(m, r.final, r.partial, r.staging, r.marker)
  <2>1. disk' = [disk EXCEPT ![m] = P(r.final, r.partial, r.staging, r.marker)]
    BY <1>1, <1>2
  <2>. QED
    BY <1>1, <2>1, DownloadLeaves
<1>3. ASSUME NEW v \in Contents, disk' = [disk EXCEPT ![m].final = v]
      PROVE  Leaves(m, v, r.partial, r.staging, r.marker)
  <2>1. disk' = [disk EXCEPT ![m] = P(v, r.partial, r.staging, r.marker)]
    <3>1. [r EXCEPT !.final = v] = P(v, r.partial, r.staging, r.marker)
      BY <1>1 DEF Places
    <3>2. disk' = [disk EXCEPT ![m] = [r EXCEPT !.final = v]]
      BY <1>3, FieldWrites DEF RegistryInv
    <3>. QED
      BY <3>1, <3>2
  <2>. QED
    BY <1>1, <2>1, DownloadLeaves
<1>4. ASSUME NEW v \in Contents, disk' = [disk EXCEPT ![m].partial = v]
      PROVE  Leaves(m, r.final, v, r.staging, r.marker)
  <2>1. disk' = [disk EXCEPT ![m] = P(r.final, v, r.staging, r.marker)]
    <3>1. [r EXCEPT !.partial = v] = P(r.final, v, r.staging, r.marker)
      BY <1>1 DEF Places
    <3>2. disk' = [disk EXCEPT ![m] = [r EXCEPT !.partial = v]]
      BY <1>4, FieldWrites DEF RegistryInv
    <3>. QED
      BY <3>1, <3>2
  <2>. QED
    BY <1>1, <2>1, DownloadLeaves
<1>5. ASSUME NEW v \in Contents, disk' = [disk EXCEPT ![m].staging = v]
      PROVE  Leaves(m, r.final, r.partial, v, r.marker)
  <2>1. disk' = [disk EXCEPT ![m] = P(r.final, r.partial, v, r.marker)]
    <3>1. [r EXCEPT !.staging = v] = P(r.final, r.partial, v, r.marker)
      BY <1>1 DEF Places
    <3>2. disk' = [disk EXCEPT ![m] = [r EXCEPT !.staging = v]]
      BY <1>5, FieldWrites DEF RegistryInv
    <3>. QED
      BY <3>1, <3>2
  <2>. QED
    BY <1>1, <2>1, DownloadLeaves
<1>6. ASSUME disk' = [disk EXCEPT ![m].staging = "none", ![m].partial = "none"]
      PROVE  Leaves(m, r.final, "none", "none", r.marker)
  <2>1. disk' = [disk EXCEPT ![m] = P(r.final, "none", "none", r.marker)]
    <3>1. [r EXCEPT !.staging = "none", !.partial = "none"] = P(r.final, "none", "none", r.marker)
      <4>1. [r EXCEPT !.staging = "none", !.partial = "none"]
              = [[r EXCEPT !.staging = "none"] EXCEPT !.partial = "none"]
        BY <1>1 DEF Places
      <4>. DEFINE q == P(r.final, r.partial, "none", r.marker)
      <4>2. [r EXCEPT !.staging = "none"] = q
        BY <1>1 DEF Places
      <4>3. /\ q \in Places /\ q.final = r.final /\ q.partial = r.partial
            /\ q.staging = "none" /\ q.marker = (r.marker)
        BY <1>1 DEF Places
      <4>. HIDE DEF q
      <4>4. [q EXCEPT !.partial = "none"] = P(r.final, "none", "none", r.marker)
        BY ZenonT(30), <4>3, FieldExcept
      <4>. QED
        BY <4>1, <4>2, <4>4
    <3>2. disk' = [disk EXCEPT ![m] = [r EXCEPT !.staging = "none", !.partial = "none"]]
      BY <1>1, <1>6
    <3>. QED
      BY <3>1, <3>2
  <2>. QED
    BY <1>1, <2>1, DownloadLeaves
<1>7. ASSUME disk' = [disk EXCEPT ![m].final = r.partial, ![m].partial = "none"]
      PROVE  Leaves(m, r.partial, "none", r.staging, r.marker)
  <2>1. disk' = [disk EXCEPT ![m] = P(r.partial, "none", r.staging, r.marker)]
    <3>1. [r EXCEPT !.final = r.partial, !.partial = "none"] = P(r.partial, "none", r.staging, r.marker)
      <4>1. [r EXCEPT !.final = r.partial, !.partial = "none"]
              = [[r EXCEPT !.final = r.partial] EXCEPT !.partial = "none"]
        BY <1>1 DEF Places
      <4>. DEFINE q == P(r.partial, r.partial, r.staging, r.marker)
      <4>2. [r EXCEPT !.final = r.partial] = q
        BY <1>1 DEF Places
      <4>3. /\ q \in Places /\ q.final = r.partial /\ q.partial = r.partial
            /\ q.staging = r.staging /\ q.marker = (r.marker)
        BY <1>1 DEF Places
      <4>. HIDE DEF q
      <4>4. [q EXCEPT !.partial = "none"] = P(r.partial, "none", r.staging, r.marker)
        BY ZenonT(30), <4>3, FieldExcept
      <4>. QED
        BY <4>1, <4>2, <4>4
    <3>2. disk' = [disk EXCEPT ![m] = [r EXCEPT !.final = r.partial, !.partial = "none"]]
      BY <1>1, <1>7
    <3>. QED
      BY <3>1, <3>2
  <2>. QED
    BY <1>1, <2>1, DownloadLeaves
<1>8. ASSUME disk' = [disk EXCEPT ![m].final = r.staging, ![m].staging = "none"]
      PROVE  Leaves(m, r.staging, r.partial, "none", r.marker)
  <2>1. disk' = [disk EXCEPT ![m] = P(r.staging, r.partial, "none", r.marker)]
    <3>1. [r EXCEPT !.final = r.staging, !.staging = "none"] = P(r.staging, r.partial, "none", r.marker)
      <4>1. [r EXCEPT !.final = r.staging, !.staging = "none"]
              = [[r EXCEPT !.final = r.staging] EXCEPT !.staging = "none"]
        BY <1>1 DEF Places
      <4>. DEFINE q == P(r.staging, r.partial, r.staging, r.marker)
      <4>2. [r EXCEPT !.final = r.staging] = q
        BY <1>1 DEF Places
      <4>3. /\ q \in Places /\ q.final = r.staging /\ q.partial = r.partial
            /\ q.staging = r.staging /\ q.marker = (r.marker)
        BY <1>1 DEF Places
      <4>. HIDE DEF q
      <4>4. [q EXCEPT !.staging = "none"] = P(r.staging, r.partial, "none", r.marker)
        BY ZenonT(30), <4>3, FieldExcept
      <4>. QED
        BY <4>1, <4>2, <4>4
    <3>2. disk' = [disk EXCEPT ![m] = [r EXCEPT !.final = r.staging, !.staging = "none"]]
      BY <1>1, <1>8
    <3>. QED
      BY <3>1, <3>2
  <2>. QED
    BY <1>1, <2>1, DownloadLeaves
<1>9. ASSUME NEW ok \in BOOLEAN, NEW v \in Contents,
             disk' = [disk EXCEPT ![m].marker = @ \/ ok, ![m].partial = v]
      PROVE  Leaves(m, r.final, v, r.staging, r.marker \/ ok)
  <2>. DEFINE k == r.marker \/ ok
  <2>1. k \in BOOLEAN
    OBVIOUS
  <2>2. disk' = [disk EXCEPT ![m] = [r EXCEPT !.marker = k, !.partial = v]]
    BY <1>1, <1>9
  <2>. HIDE DEF k
  <2>3. [r EXCEPT !.marker = k, !.partial = v] = P(r.final, v, r.staging, k)
    <3>1. [r EXCEPT !.marker = k, !.partial = v] = [[r EXCEPT !.marker = k] EXCEPT !.partial = v]
      BY <1>1 DEF Places
    <3>. DEFINE q == P(r.final, r.partial, r.staging, k)
    <3>2. [r EXCEPT !.marker = k] = q
      BY <1>1 DEF Places
    <3>3. q \in Places /\ q.final = r.final /\ q.staging = r.staging /\ q.marker = k
      BY <1>1, <2>1 DEF Places
    <3>. HIDE DEF q
    <3>4. [q EXCEPT !.partial = v] = P(q.final, v, q.staging, q.marker)
      BY <3>3, FieldExcept
    <3>. QED
      BY <3>1, <3>2, <3>3, <3>4
  <2>4. Leaves(m, r.final, v, r.staging, k)
    <3>1. disk' = [disk EXCEPT ![m] = P(r.final, v, r.staging, k)]
      BY <2>2, <2>3
    <3>. QED
      BY <1>1, <2>1, <3>1, DownloadLeaves
  <2>. QED
    BY <2>4 DEF k
<1>. QED
  BY <1>2, <1>3, <1>4, <1>5, <1>6, <1>7, <1>8, <1>9

\* What a download does to its own model, once its files are known.
LEMMA DoesLeaves ==
    ASSUME RegistryInv, NEW m \in Models, DownloadStep(m),
           NEW f, NEW p, NEW s, NEW k, Leaves(m, f, p, s, k),
           m \notin Bins /\ m \notin torn /\ del[m] # "tearing" => f \in {"none", "whole"},
           m \notin Bins /\ dl'[m] = "promote" => s = "whole",
           m \in Archives /\ dl'[m] \in {"unpack", "unpacking"} => p \in {"none", "whole"},
           m \in Archives /\ dl'[m] \in {"unpacking", "promote"} => m \in extracting',
           m \in Bundles => dl'[m] \notin {"request", "check", "unpack", "unpacking"},
           dl'[m] \in Fetching => f = "none" \/ (m \notin Bins /\ ~k),
           Trusted(disk, m) =>
              IF m \in Bins THEN f \in {"whole", "bad"} ELSE f # "none" /\ k
    PROVE  Does(m)
<1>1. UNCHANGED <<del, torn>>
  BY DownloadKeepsOthers DEF RegistryInv
<1>2. ModelInv(m)'
  BY <1>1 DEF Leaves, ModelInv
<1>3. Remains(m)
  BY <1>1 DEF Leaves, Remains, Trusted
<1>. QED
  BY <1>2, <1>3 DEF Leaves, Does

\* The files of a model, and what is true of them while it is fetched.
LEMMA ModelFacts ==
    ASSUME RegistryInv, NEW m \in Models
    PROVE  /\ disk[m].final \in Contents /\ disk[m].partial \in Contents
           /\ disk[m].staging \in Contents /\ disk[m].marker \in BOOLEAN
           /\ RegistryTyped /\ ModelInv(m)
           /\ dl[m] \in Fetching => ~Trusted(disk, m)
           /\ Trusted(disk, m) =>
                IF m \in Bins THEN disk[m].final = "whole" ELSE disk[m].final # "none" /\ disk[m].marker
BY DEF RegistryInv, RegistryTyped, Places, ModelInv, Trusted

\* Where a step that goes on, or gives up, leaves the download.
LEMMA DownloadAt ==
    ASSUME RegistryTyped, NEW m \in Models
    PROVE  /\ \A at : Go(m, at) => dl'[m] = at
           /\ \A d : GiveUp(m, d) => dl'[m] = "off" /\ disk' = d
BY DEF RegistryTyped, Go, GiveUp, CleanUp

\* The server's answer.
LEMMA RequestDoes == ASSUME RegistryInv, NEW m \in Models, Request(m) PROVE Does(m)
<1>1. DownloadStep(m) /\ dl[m] = "request" /\ UNCHANGED extracting
  BY DEF DownloadStep, Request
<1>2. CASE dl'[m] = "off" /\ disk' = disk
  BY <1>1, <1>2, ModelFacts, DownloadFields, DoesLeaves DEF ModelInv, Fetching
<1>3. CASE /\ dl'[m] \in {"off", "stream"}
           /\ \E v \in {"none", "part"} : disk' = [disk EXCEPT ![m].partial = v]
  <2>1. PICK v \in {"none", "part"} : disk' = [disk EXCEPT ![m].partial = v]
    BY <1>3
  <2>2. Leaves(m, disk[m].final, v, disk[m].staging, disk[m].marker)
    BY <1>1, <2>1, DownloadFields DEF Contents
  <2>. QED
    BY <1>1, <1>3, <2>2, ModelFacts, DoesLeaves DEF ModelInv, Fetching
<1>. QED
  BY <1>2, <1>3, ModelFacts, DownloadAt DEF Request

\* The bytes, the check, the archive.
LEMMA StreamStopsDoes == ASSUME RegistryInv, NEW m \in Models, StreamStops(m) PROVE Does(m)
<1>1. DownloadStep(m) /\ dl[m] = "stream" /\ dl'[m] = "off" /\ UNCHANGED extracting
  BY ModelFacts, DownloadAt DEF DownloadStep, StreamStops
<1>2. PICK v \in Contents : Leaves(m, disk[m].final, disk[m].partial, v, disk[m].marker)
  <2>1. disk' = disk \/ disk' = Abandoned(m)
    BY ModelFacts, DownloadAt DEF StreamStops
  <2>2. \/ disk' = disk
        \/ disk' = [disk EXCEPT ![m].staging = "none"]
        \/ disk' = [disk EXCEPT ![m].staging = disk[m].staging]
    BY <2>1, ModelFacts DEF Abandoned
  <2>. QED
    BY <1>1, <2>2, ModelFacts, DownloadFields DEF Contents
<1>. QED
  BY <1>1, <1>2, ModelFacts, DoesLeaves DEF ModelInv, Fetching

\* The last byte: a bundle is promoted, another kind is checked first.
LEMMA StreamEndsDoes == ASSUME RegistryInv, NEW m \in Models, StreamEnds(m) PROVE Does(m)
<1>1. DownloadStep(m) /\ dl[m] = "stream" /\ UNCHANGED extracting /\ "stream" \in Fetching
  BY DEF DownloadStep, StreamEnds, Fetching
<1>2. CASE m \in Bundles
  <2>1. m \notin Bins /\ m \notin Archives
    BY <1>2, RegistryAssumption
  <2>2. CASE disk' = [disk EXCEPT ![m].staging = "whole"] /\ Go(m, "promote")
    <3>1. Leaves(m, disk[m].final, disk[m].partial, "whole", disk[m].marker) /\ dl'[m] = "promote"
      BY <1>1, <2>2, ModelFacts, DownloadAt, DownloadFields DEF Contents
    <3>. QED
      BY <1>1, <2>1, <3>1, ModelFacts, DoesLeaves DEF ModelInv
  <2>3. CASE GiveUp(m, Abandoned(m))
    <3>1. disk' = [disk EXCEPT ![m].staging = "none"] /\ dl'[m] = "off"
      BY <1>2, <2>3, ModelFacts, DownloadAt DEF Abandoned
    <3>2. Leaves(m, disk[m].final, disk[m].partial, "none", disk[m].marker)
      BY <1>1, <3>1, DownloadFields DEF Contents
    <3>. QED
      BY <1>1, <2>1, <3>1, <3>2, ModelFacts, DoesLeaves DEF ModelInv, Fetching
  <2>. QED
    BY <1>2, <2>2, <2>3 DEF StreamEnds
<1>3. CASE m \notin Bundles
  <2>1. PICK got \in {"part", "whole", "bad"} :
           /\ disk' = [disk EXCEPT ![m].partial = IF @ = "none" THEN "none" ELSE got]
           /\ Go(m, "check")
    BY <1>3 DEF StreamEnds
  <2>2. PICK v \in Contents : disk' = [disk EXCEPT ![m].partial = v]
    BY <2>1 DEF Contents
  <2>3. Leaves(m, disk[m].final, v, disk[m].staging, disk[m].marker) /\ dl'[m] = "check"
    BY <1>1, <2>1, <2>2, ModelFacts, DownloadAt, DownloadFields
  <2>. QED
    BY <1>1, <1>3, <2>3, ModelFacts, DoesLeaves DEF ModelInv
<1>. QED
  BY <1>2, <1>3

\* Only what passed the check goes on.
LEMMA CheckDoes == ASSUME RegistryInv, NEW m \in Models, Check(m) PROVE Does(m)
<1>1. DownloadStep(m) /\ dl[m] = "check" /\ UNCHANGED extracting /\ "check" \in Fetching
  BY DEF DownloadStep, Check, Fetching
<1>2. m \notin Bundles
  BY <1>1, ModelFacts DEF ModelInv
<1>3. CASE disk[m].partial = "whole"
  <2>1. disk' = disk /\ Go(m, IF m \in Archives THEN "unpack" ELSE "promote")
    BY <1>3 DEF Check
  <2>2. Leaves(m, disk[m].final, disk[m].partial, disk[m].staging, disk[m].marker)
        /\ dl'[m] = (IF m \in Archives THEN "unpack" ELSE "promote")
    BY <1>1, <2>1, ModelFacts, DownloadAt, DownloadFields
  <2>. QED
    BY <1>1, <1>2, <1>3, <2>2, ModelFacts, DoesLeaves DEF ModelInv, Models
<1>4. CASE disk[m].partial # "whole"
  <2>1. disk' = [disk EXCEPT ![m].partial = "none"] /\ dl'[m] = "off"
    BY <1>4, ModelFacts, DownloadAt DEF Check
  <2>2. Leaves(m, disk[m].final, "none", disk[m].staging, disk[m].marker)
    BY <1>1, <2>1, DownloadFields DEF Contents
  <2>. QED
    BY <1>1, <2>1, <2>2, ModelFacts, DoesLeaves DEF ModelInv, Fetching
<1>. QED
  BY <1>3, <1>4

\* From here on the staging directory is not swept.
LEMMA UnpackDoes == ASSUME RegistryInv, NEW m \in Models, Unpack(m) PROVE Does(m)
<1>1. /\ DownloadStep(m) /\ dl[m] = "unpack" /\ extracting' = extracting \cup {m}
      /\ "unpack" \in Fetching /\ dl'[m] = "unpacking"
  BY ModelFacts, DownloadAt DEF DownloadStep, Unpack, Fetching
<1>2. Leaves(m, disk[m].final, disk[m].partial, "part", disk[m].marker)
  BY <1>1, DownloadFields DEF Unpack, Contents
<1>3. m \notin Bundles
  BY <1>1, ModelFacts DEF ModelInv
<1>. QED
  BY <1>1, <1>2, <1>3, ModelFacts, DoesLeaves DEF ModelInv

\* An archive that was checked unpacks whole, or not at all.
LEMMA UnpackEndsDoes == ASSUME RegistryInv, NEW m \in Models, UnpackEnds(m) PROVE Does(m)
<1>1. DownloadStep(m) /\ dl[m] = "unpacking" /\ "unpacking" \in Fetching
  BY DEF DownloadStep, UnpackEnds, Fetching
<1>2. m \notin Bundles
  BY <1>1, ModelFacts DEF ModelInv
<1>3. CASE /\ disk[m].partial # "none"
           /\ disk' = [disk EXCEPT ![m].staging = IF disk[m].partial = "whole" THEN "whole" ELSE "bad"]
           /\ Go(m, "promote") /\ UNCHANGED extracting
  <2>. DEFINE v == IF disk[m].partial = "whole" THEN "whole" ELSE "bad"
  <2>1. v \in Contents /\ (m \in Archives => v = "whole")
    BY <1>1, <1>3, ModelFacts DEF ModelInv, Contents
  <2>2. disk' = [disk EXCEPT ![m].staging = v] /\ dl'[m] = "promote"
    BY <1>3, ModelFacts, DownloadAt
  <2>. HIDE DEF v
  <2>3. Leaves(m, disk[m].final, disk[m].partial, v, disk[m].marker)
    BY <1>1, <2>1, <2>2, DownloadFields
  <2>. QED
    BY <1>1, <1>2, <1>3, <2>1, <2>2, <2>3, ModelFacts, DoesLeaves DEF ModelInv, Models
<1>4. CASE GiveUp(m, [disk EXCEPT ![m].staging = "none", ![m].partial = "none"])
  <2>1. Leaves(m, disk[m].final, "none", "none", disk[m].marker) /\ dl'[m] = "off"
    BY <1>1, <1>4, ModelFacts, DownloadAt, DownloadFields
  <2>. QED
    BY <1>1, <2>1, ModelFacts, DoesLeaves DEF ModelInv, Fetching
<1>5. CASE GiveUp(m, disk)
  <2>1. /\ Leaves(m, disk[m].final, disk[m].partial, disk[m].staging, disk[m].marker)
        /\ dl'[m] = "off"
    BY <1>1, <1>5, ModelFacts, DownloadAt, DownloadFields
  <2>. QED
    BY <1>1, <2>1, ModelFacts, DoesLeaves DEF ModelInv, Fetching
<1>. QED
  BY <1>3, <1>4, <1>5 DEF UnpackEnds

\* The promotion and what follows it.
LEMMA PromoteDoes == ASSUME RegistryInv, NEW m \in Models, Promote(m) PROVE Does(m)
<1>1. DownloadStep(m) /\ dl[m] = "promote" /\ "promote" \in Fetching
  BY DEF DownloadStep, Promote, Fetching
<1>2. ~Trusted(disk, m)
  BY <1>1, ModelFacts
<1>3. CASE /\ m \in Bins /\ Go(m, "finish")
           /\ disk' = [disk EXCEPT ![m].final = disk[m].partial, ![m].partial = "none"]
  <2>1. Leaves(m, disk[m].partial, "none", disk[m].staging, disk[m].marker) /\ dl'[m] = "finish"
    BY <1>1, <1>3, ModelFacts, DownloadAt, DownloadFields
  <2>. QED
    BY <1>1, <1>2, <1>3, <2>1, RegistryAssumption, DoesLeaves DEF Fetching
<1>4. CASE /\ m \notin Bins /\ Go(m, "mark")
           /\ disk' = [disk EXCEPT ![m].final = disk[m].staging, ![m].staging = "none"]
  <2>1. /\ Leaves(m, disk[m].staging, disk[m].partial, "none", disk[m].marker) /\ dl'[m] = "mark"
        /\ disk[m].staging = "whole"
    BY <1>1, <1>4, ModelFacts, DownloadAt, DownloadFields DEF ModelInv
  <2>. QED
    BY <1>1, <1>2, <1>4, <2>1, DoesLeaves DEF Fetching
<1>5. CASE GiveUp(m, disk)
  <2>1. /\ Leaves(m, disk[m].final, disk[m].partial, disk[m].staging, disk[m].marker)
        /\ dl'[m] = "off"
    BY <1>1, <1>5, ModelFacts, DownloadAt, DownloadFields
  <2>. QED
    BY <1>1, <2>1, ModelFacts, DoesLeaves DEF ModelInv, Fetching
<1>6. CASE m \notin Bins /\ GiveUp(m, [disk EXCEPT ![m].final = "none"])
  <2>1. Leaves(m, "none", disk[m].partial, disk[m].staging, disk[m].marker) /\ dl'[m] = "off"
    BY <1>1, <1>6, ModelFacts, DownloadAt, DownloadFields DEF Contents
  <2>. QED
    BY <1>1, <1>2, <2>1, DoesLeaves DEF Fetching
<1>. QED
  BY <1>3, <1>4, <1>5, <1>6 DEF Promote

\* The marker is written for what was promoted whole.
LEMMA MarkDoes == ASSUME RegistryInv, NEW m \in Models, Mark(m) PROVE Does(m)
<1>1. DownloadStep(m) /\ dl[m] = "mark" /\ dl'[m] = "finish"
  BY ModelFacts, DownloadAt DEF DownloadStep, Mark
<1>2. PICK ok \in BOOLEAN :
        disk' = [disk EXCEPT ![m].marker = @ \/ ok,
                             ![m].partial = IF m \in Archives THEN "none" ELSE @]
  BY DEF Mark
<1>3. PICK v \in Contents : disk' = [disk EXCEPT ![m].marker = @ \/ ok, ![m].partial = v]
  <2>1. CASE m \in Archives
    BY <1>2, <2>1 DEF Contents
  <2>2. CASE m \notin Archives
    <3>1. disk' = [disk EXCEPT ![m].marker = @ \/ ok, ![m].partial = disk[m].partial]
      BY <1>2, <2>2
    <3>. QED
      BY <3>1, ModelFacts
  <2>. QED
    BY <2>1, <2>2
<1>4. Leaves(m, disk[m].final, v, disk[m].staging, disk[m].marker \/ ok)
  BY <1>1, <1>3, DownloadFields
<1>. QED
  BY <1>1, <1>4, ModelFacts, DoesLeaves DEF ModelInv, Fetching

\* The end of a download, or a cancellation, may sweep staging directories.
LEMMA FinishDoes ==
    ASSUME RegistryInv, NEW m \in Models, Finish(m) \/ CancelDownload(m) PROVE Does(m)
<1>1. DownloadStep(m)
  BY DEF DownloadStep
<1>2. /\ dl'[m] \in {"off", dl[m]} /\ UNCHANGED extracting
      /\ disk' = disk \/ disk' = Swept(disk)
  BY ModelFacts DEF Finish, CancelDownload, CleanUp, Refresh, RegistryTyped
<1>3. disk' = [disk EXCEPT ![m] = disk[m]] \/ disk' = Swept([disk EXCEPT ![m] = disk[m]])
  BY <1>2, ModelFacts, FieldWrites
<1>4. disk[m] \in Places
  BY ModelFacts, FieldWrites
<1>5. disk'[m].staging = disk[m].staging \/ (m \in Archives \ extracting /\ disk' = Swept(disk))
  BY <1>1, <1>2, <1>3, <1>4, DownloadWrites
<1>. QED
  BY <1>1, <1>2, <1>3, <1>4, <1>5, DownloadWrites
  DEF Does, ModelInv, Remains, Trusted, Fetching

\* Every step of a download.
LEMMA DownloadStepDoes == ASSUME RegistryInv, NEW m \in Models, DownloadStep(m) PROVE Does(m)
BY DownloadDoes, RequestDoes, StreamStopsDoes, StreamEndsDoes, CheckDoes, UnpackDoes,
   UnpackEndsDoes, PromoteDoes, MarkDoes, FinishDoes DEF DownloadStep

\* The deletions.
LEMMA DeleteDoes ==
    ASSUME RegistryInv, NEW m \in Models,
           Delete(m) \/ (\E ok \in BOOLEAN : DeleteTorn(m, ok)) \/ DeleteRest(m) \/ DeleteDone(m)
    PROVE  Does(m)
<1>1. RegistryTyped /\ UNCHANGED <<dl, extracting>>
  BY DEF RegistryInv, Delete, DeleteTorn, DeleteRest, DeleteDone
<1>2. /\ del' \in [Models -> Deletions] /\ ~(del[m] = "no" /\ del'[m] = "no")
      /\ \A n \in Models : n # m => del'[n] = del[n] /\ (n \in torn' <=> n \in torn)
  BY <1>1 DEF RegistryTyped, Deletions, Delete, DeleteTorn, DeleteRest, DeleteDone
<1>3. ASSUME NEW p \in Places, Writes(m, p),
             /\ p.partial \in {"none", disk[m].partial} /\ p.staging = disk[m].staging
             /\ p.final \in {"none", disk[m].final} \/ (m \notin Bins /\ del'[m] = "tearing"
                                                        /\ disk[m].final # "none")
             /\ p.marker => disk[m].marker,
             m \in torn => m \in torn',
             del[m] = "tearing" /\ del'[m] # "tearing" /\ m \notin torn' => p.final = "none"
      PROVE  Does(m)
  <2>1. /\ RegistryTyped' /\ \A n \in Models : n # m => Kept(n)
        /\ disk'[m].final = p.final /\ disk'[m].partial = p.partial /\ disk'[m].marker = p.marker
        /\ disk'[m].staging = p.staging \/ m \in Archives \ extracting
    BY <1>1, <1>3, OneTask
  <2>2. ModelInv(m)'
    BY <1>1, <1>3, <2>1, ModelFacts DEF ModelInv
  <2>. QED
    BY <1>2, <2>1, <2>2 DEF Does, Remains
<1>4. CASE Delete(m)
  <2>. DEFINE v == IF m \notin Bins /\ disk[m].final # "none" THEN "bad" ELSE "none"
              p == [disk[m] EXCEPT !.final = v]
  <2>1. v \in Contents
    BY DEF Contents
  <2>2. disk' = [disk EXCEPT ![m].final = v] /\ UNCHANGED torn
        /\ (v = "bad" => del'[m] = "tearing" /\ m \notin Bins /\ disk[m].final # "none")
        /\ v \in {"bad", "none"} /\ (del'[m] # "tearing" => v = "none")
    BY <1>1, <1>4 DEF Delete, RegistryTyped
  <2>. HIDE DEF v
  <2>3. p \in Places /\ disk' = [disk EXCEPT ![m] = p]
    BY <1>1, <2>1, <2>2, FieldWrites
  <2>4. p.final = v /\ p.partial = disk[m].partial /\ p.staging = disk[m].staging
        /\ p.marker = disk[m].marker
    BY <1>1 DEF RegistryTyped, Places
  <2>. HIDE DEF p
  <2>5. Writes(m, p)
    BY <1>1, <1>2, <2>3 DEF Writes, RegistryTyped
  <2>. QED
    BY <1>3, <2>2, <2>3, <2>4, <2>5
<1>5. ASSUME NEW ok \in BOOLEAN, DeleteTorn(m, ok) PROVE Does(m)
  <2>. DEFINE v == IF ok THEN "none" ELSE disk[m].final
              p == [disk[m] EXCEPT !.final = v]
  <2>1. v \in Contents
    BY ModelFacts DEF Contents
  <2>2. disk' = [disk EXCEPT ![m].final = v]
    BY <1>5 DEF DeleteTorn
  <2>3. (m \in torn => m \in torn') /\ (m \notin torn' => v = "none") /\ v \in {"none", disk[m].final}
    BY <1>5 DEF DeleteTorn
  <2>. HIDE DEF v
  <2>4. p \in Places /\ disk' = [disk EXCEPT ![m] = p]
    BY <1>1, <2>1, <2>2, FieldWrites
  <2>5. p.final = v /\ p.partial = disk[m].partial /\ p.staging = disk[m].staging
        /\ p.marker = disk[m].marker
    BY <1>1 DEF RegistryTyped, Places
  <2>. HIDE DEF p
  <2>6. Writes(m, p)
    BY <1>1, <1>2, <2>4 DEF Writes, RegistryTyped
  <2>. QED
    BY <1>3, <2>3, <2>4, <2>5, <2>6
<1>6. CASE DeleteRest(m)
  <2>. DEFINE p == [disk[m] EXCEPT !.partial = "none", !.marker = FALSE]
  <2>1. disk' = [disk EXCEPT ![m] = p] /\ UNCHANGED torn /\ del[m] # "tearing"
    BY <1>1, <1>6 DEF DeleteRest, RegistryTyped
  <2>2. /\ p \in Places /\ p.final = disk[m].final /\ p.staging = disk[m].staging
        /\ p.partial = "none" /\ p.marker = FALSE
    BY <1>1 DEF RegistryTyped, Places, Contents
  <2>. HIDE DEF p
  <2>3. Writes(m, p)
    BY <1>1, <1>2, <2>1 DEF Writes, RegistryTyped
  <2>. QED
    BY <1>3, <2>1, <2>2, <2>3
<1>7. CASE DeleteDone(m)
  <2>1. disk' = Swept([disk EXCEPT ![m] = disk[m]]) /\ disk[m] \in Places
        /\ UNCHANGED torn /\ del[m] # "tearing"
    BY <1>1, <1>7, FieldWrites DEF DeleteDone, Refresh
  <2>2. Writes(m, disk[m])
    BY <1>1, <1>2, <2>1 DEF Writes, RegistryTyped
  <2>. QED
    BY <1>3, <2>1, <2>2
<1>. QED
  BY <1>4, <1>5, <1>6, <1>7

\* The startup verification, and a kill.
LEMMA VerifyKeeps ==
    ASSUME RegistryInv, BackgroundVerify
    PROVE  RegistryInv' /\ \A m \in Models : Remains(m)
<1>1. RegistryTyped /\ disk \in [Models -> Places] /\ disk' = Swept(disk)
      /\ UNCHANGED <<dl, extracting, del, torn>>
  BY DEF RegistryInv, RegistryTyped, BackgroundVerify, Refresh
<1>2. ASSUME NEW n \in Models PROVE Kept(n)
  BY <1>1, SweepKeeps DEF Kept
<1>3. RegistryTyped'
  <2>1. disk' \in [Models -> Places]
    <3>1. CASE Models = {}
      BY <1>1, <3>1 DEF Swept
    <3>2. CASE Models # {}
      BY <1>1, <3>2, SweepKeeps
    <3>. QED
      BY <3>1, <3>2
  <2>. QED
    BY <1>1, <2>1 DEF RegistryTyped
<1>. QED
  BY <1>1, <1>2, <1>3, KeptModel DEF RegistryInv

\* Nothing is under way in a daemon that starts; a removal cut short is remembered.
LEMMA RestartKeeps ==
    ASSUME RegistryInv, Restart
    PROVE  RegistryInv' /\ \A m \in Models : Remains(m)
<1>1. PICK changed \in SUBSET {m \in Bins : disk[m].final = "whole"} :
        Started([m \in Models |-> IF m \in changed THEN [disk[m] EXCEPT !.final = "bad"]
                                  ELSE disk[m]])
  BY DEF Restart
<1>. DEFINE d == [m \in Models |-> IF m \in changed THEN [disk[m] EXCEPT !.final = "bad"]
                                   ELSE disk[m]]
<1>2. /\ d \in [Models -> Places]
      /\ \A m \in Models :
           /\ d[m].marker = disk[m].marker
           /\ d[m].final = disk[m].final \/ (m \in Bins /\ d[m].final = "bad")
  BY <1>1 DEF RegistryInv, RegistryTyped, Places, Contents
<1>3. /\ disk' = [m \in Models |->
                     IF m \in Archives THEN [d[m] EXCEPT !.staging = "none"] ELSE d[m]]
      /\ dl' = [m \in Models |-> "off"] /\ del' = [m \in Models |-> "no"]
      /\ torn' = torn \cup {m \in Models : del[m] = "tearing"}
  BY <1>1 DEF Started, Restart
<1>. HIDE DEF d
<1>4. /\ disk' \in [Models -> Places]
      /\ \A m \in Models : disk'[m].final = d[m].final /\ disk'[m].marker = d[m].marker
  BY <1>2, <1>3 DEF Places, Contents
<1>5. RegistryTyped'
  BY <1>3, <1>4 DEF RegistryTyped, Downloads, Deletions
<1>6. ASSUME NEW m \in Models PROVE ModelInv(m)' /\ Remains(m)
  <2>1. ModelInv(m)'
    BY <1>2, <1>3, <1>4, ModelFacts DEF ModelInv, Fetching
  <2>2. Remains(m)
    BY <1>2, <1>4 DEF Remains, Trusted
  <2>. QED
    BY <2>1, <2>2
<1>. QED
  BY <1>5, <1>6 DEF RegistryInv

\* A step of any task keeps the invariant for every model.
LEMMA RegistryStep ==
    ASSUME RegistryInv, RegistryNext
    PROVE  RegistryInv' /\ \A m \in Models : Remains(m)
<1>1. ASSUME NEW m \in Models, Does(m) PROVE RegistryInv' /\ \A n \in Models : Remains(n)
  <2>1. ASSUME NEW n \in Models, n # m PROVE ModelInv(n)' /\ Remains(n)
    BY <1>1, <2>1, KeptModel DEF Does, RegistryInv
  <2>. QED
    BY <1>1, <2>1 DEF Does, RegistryInv
<1>. QED
  BY <1>1, DownloadStepDoes, DeleteDoes, VerifyKeeps, RestartKeeps DEF RegistryNext

\* A step of the daemon that moves no file, download or deletion.
LEMMA RegistryRests ==
    ASSUME RegistryInv, UNCHANGED <<disk, dl, extracting, del, torn>>
    PROVE  RegistryInv' /\ \A m \in Models : Remains(m)
<1>1. RegistryTyped'
  BY DEF RegistryInv, RegistryTyped
<1>2. ASSUME NEW n \in Models PROVE Kept(n)
  BY DEF Kept
<1>. QED
  BY <1>1, <1>2, KeptModel DEF RegistryInv

\* A disk holds complete models, marked, and none under way.
LEMMA RegistryStarts == RegistryInit => RegistryInv
<1>. SUFFICES ASSUME RegistryInit PROVE RegistryInv
  OBVIOUS
<1>1. PICK here \in SUBSET Models :
        disk = [m \in Models |-> [final |-> IF m \in here THEN "whole" ELSE "none",
                                  partial |-> "none", staging |-> "none",
                                  marker |-> m \in here /\ m \notin Bins]]
  BY DEF RegistryInit
<1>. DEFINE mark(m) == m \in here /\ m \notin Bins
<1>2. ASSUME NEW m \in Models
      PROVE  disk[m] \in Places /\ disk[m].final \in {"none", "whole"}
  <2>1. mark(m) \in BOOLEAN
    OBVIOUS
  <2>2. disk[m] = [final |-> IF m \in here THEN "whole" ELSE "none",
                   partial |-> "none", staging |-> "none", marker |-> mark(m)]
    BY <1>1
  <2>. HIDE DEF mark
  <2>. QED
    BY <2>1, <2>2 DEF Places, Contents
<1>3. disk \in [Models -> Places]
  <2>1. disk = [m \in Models |-> disk[m]]
    BY <1>1
  <2>. QED
    BY <1>2, <2>1
<1>. QED
  BY <1>2, <1>3 DEF RegistryInit, RegistryInv, RegistryTyped, ModelInv, Downloads, Deletions,
     Fetching

\* A marker is found only on complete directories.
LEMMA TrustFollows == RegistryInv => TrustedIsWhole
BY DEF RegistryInv, ModelInv, TrustedIsWhole, Trusted, Models

\* The registry alone, whatever the requests, deletions and kills: a model it trusts
\* is complete (model_registry.rs:262), and only a deletion takes one away.
THEOREM RegistryTrusts == RegistrySpec => []TrustedIsWhole /\ InstalledStays
<1>1. RegistryInv /\ [RegistryNext]_registryVars => RegistryInv'
  BY RegistryStep, RegistryRests DEF registryVars
<1>2. RegistryInv /\ [RegistryNext]_registryVars =>
        [\A m \in Models :
          Trusted(disk, m) /\ del[m] = "no" /\ del'[m] = "no" =>
              Trusted(disk', m) \/ (m \in Bins /\ disk'[m].final = "bad")]_registryVars
  BY RegistryStep, RegistryRests DEF Remains
<1>. QED
  BY <1>1, <1>2, RegistryStarts, TrustFollows, PTL DEF RegistrySpec, InstalledStays

-----------------------------------------------------------------------------
(* The engine: what each step does to what the config names.                  *)

\* build_transcriber returns an engine for the choice it was given; Groq without a
\* key is built only where Apple's engine stands in for it.
LEMMA BuiltFor ==
    ASSUME RegistryTyped, SwitchTyped, NEW b \in Backends, NEW e \in Built(b)
    PROVE  e \in Engines /\ e.for = b /\ (b # "none" => Startable(b))
<1>1. CASE b = "groq"
  BY <1>1, SwitchAssumption DEF Built, Engine, Engines, Backends, Choices, Contents, Startable
<1>2. CASE b = "apple"
  BY <1>2, SwitchAssumption DEF Built, Engine, Engines, Backends, Choices, Contents, Startable
<1>3. CASE b = "none"
  BY <1>3, SwitchAssumption DEF Built, Engine, Engines, IdleEngine, Backends, Choices, Contents
<1>4. CASE b \in Models
  <2>1. b \notin {"groq", "apple", "none"}
    BY <1>4, SwitchAssumption
  <2>2. e = Local(b) /\ disk[b].final \in Contents
    BY <1>4, <2>1 DEF Built, RegistryTyped, Places
  <2>. QED
    BY <1>4, <2>1, <2>2 DEF Local, Engines, Backends, Choices, Startable
<1>. QED
  BY <1>1, <1>2, <1>3, <1>4 DEF Backends, Choices

\* The constants of the engine and of the commands are of their types.
LEMMA EnginesAndOrders ==
    /\ Placeholder \in Engines /\ IdleEngine \in Engines /\ Unbuilt \in Engines
    /\ Placeholder.for = "none" /\ IdleEngine.for = "none" /\ Rest \in Orders
    /\ Rest.op = "none" /\ Rest.at = "idle"
<1>1. "none" \in Backends /\ "whole" \in Contents
  BY DEF Backends, Contents
<1>2. Placeholder \in Engines /\ IdleEngine \in Engines /\ Unbuilt \in Engines
  BY <1>1 DEF Placeholder, IdleEngine, Unbuilt, Engine, Engines
<1>3. Placeholder.for = "none" /\ IdleEngine.for = "none"
  BY DEF Placeholder, IdleEngine, Engine
<1>. QED
  BY <1>1, <1>2, <1>3 DEF Rest, Orders

\* A command that neither arrives at an installation nor makes one.
LEMMA CommandMoves ==
    ASSUME SwitchInv, NEW c \in Clients, NEW o \in Orders, cmd' = [cmd EXCEPT ![c] = o],
           UNCHANGED <<host, stored, active, boot, sent, late>>,
           cfg' \in [backend : Backends, lang : Langs], cfg'.backend = cfg.backend,
           cmd[c].at # "swap", o.at # "swap", WellFormed(o),
           \A d \in Clients : d # c /\ lock = d => lock' = d,
           o.at \in Rebuilding => lock' = c
    PROVE  SwitchInv'
<1>1. cmd \in [Clients -> Orders] /\ cmd'[c] = o /\ \A d \in Clients : d # c => cmd'[d] = cmd[d]
  BY DEF SwitchInv, SwitchTyped
<1>2. SwitchTyped'
  BY <1>1 DEF SwitchInv, SwitchTyped
<1>3. Commanded'
  BY <1>1 DEF SwitchInv, Commanded, Startable, WellFormed
<1>4. Booting'
  BY DEF SwitchInv, Booting, Startable, Placeholder, Engine
<1>5. Named'
  BY <1>1 DEF SwitchInv, Named, Placeholder, Engine
<1>. QED
  BY <1>2, <1>3, <1>4, <1>5 DEF SwitchInv

\* The fields of a command that a step writes.
Written(o, a, e, n) == [op |-> o.op, to |-> o.to, at |-> a, engine |-> e, now |-> n]

\* What the invariant says of one client's command.
LEMMA OrderFields ==
    ASSUME SwitchInv, NEW c \in Clients
    PROVE  /\ cmd \in [Clients -> Orders] /\ cmd[c] \in Orders
           /\ cmd[c].to \in Backends \cup Langs /\ cmd[c].engine \in Engines
           /\ cfg.backend \in Backends /\ WellFormed(cmd[c])
           /\ cmd[c].at \in Rebuilding => lock = c
           /\ lock = c => \A d \in Clients : d # c => cmd[d].at \notin Rebuilding
           /\ lock = Nobody => \A d \in Clients : cmd[d].at \notin Rebuilding
BY SwitchAssumption DEF SwitchInv, SwitchTyped, Commanded, Orders

At(o, a)             == [o EXCEPT !.at = a]
AtNow(o, a, n)       == [o EXCEPT !.at = a, !.now = n]
AtEngine(o, a, e)    == [o EXCEPT !.at = a, !.engine = e]
AtBoth(o, a, e, n)   == [o EXCEPT !.at = a, !.engine = e, !.now = n]

\* A command with those fields written is a command.
LEMMA OrderWrites ==
    ASSUME NEW o \in Orders,
           NEW a \in {"idle", "wait", "build", "swap", "announce", "deleting", "deleted"},
           NEW n \in Backends, NEW e \in Engines
    PROVE  /\ At(o, a) = Written(o, a, o.engine, o.now)
           /\ AtNow(o, a, n) = Written(o, a, o.engine, n)
           /\ AtEngine(o, a, e) = Written(o, a, e, o.now)
           /\ AtBoth(o, a, e, n) = Written(o, a, e, n)
           /\ Written(o, a, o.engine, o.now) \in Orders /\ Written(o, a, o.engine, n) \in Orders
           /\ Written(o, a, e, o.now) \in Orders /\ Written(o, a, e, n) \in Orders
<1>1. \A x \in Engines, y \in Backends : Written(o, a, x, y) \in Orders
  BY DEF Orders, Written
<1>2. o.engine \in Engines /\ o.now \in Backends
  BY DEF Orders
<1>3. At(o, a) = Written(o, a, o.engine, o.now)
  BY DEF At, Orders, Written
<1>. DEFINE p == [o EXCEPT !.at = a]
            q == [p EXCEPT !.engine = e]
<1>4. /\ AtNow(o, a, n) = [p EXCEPT !.now = n] /\ AtEngine(o, a, e) = q
      /\ AtBoth(o, a, e, n) = [q EXCEPT !.now = n]
  BY DEF AtNow, AtEngine, AtBoth
<1>5. p \in Orders /\ p = Written(o, a, o.engine, o.now)
  BY <1>1, <1>2, <1>3 DEF At
<1>6. p.op = o.op /\ p.to = o.to /\ p.at = a /\ p.engine = o.engine /\ p.now = o.now
  BY <1>5 DEF Written
<1>. HIDE DEF p
<1>7. q = Written(o, a, e, o.now) /\ [p EXCEPT !.now = n] = Written(o, a, o.engine, n)
  BY <1>5, <1>6 DEF Written, Orders
<1>8. q \in Orders
  BY <1>1, <1>2, <1>7
<1>9. q.op = o.op /\ q.to = o.to /\ q.at = a /\ q.engine = e
  BY <1>7 DEF Written
<1>. HIDE DEF q
<1>10. [q EXCEPT !.now = n] = Written(o, a, e, n)
  BY <1>8, <1>9 DEF Written, Orders
<1>. QED
  BY <1>1, <1>2, <1>3, <1>4, <1>7, <1>10

\* The same where all three are written.
LEMMA BothWrites ==
    ASSUME NEW o \in Orders, NEW n \in Backends, NEW e \in Engines
    PROVE  AtBoth(o, "swap", e, n) = Written(o, "swap", e, n) /\ Written(o, "swap", e, n) \in Orders
BY OrderWrites

LEMMA NowWrites ==
    ASSUME NEW o \in Orders, NEW a \in {"build", "announce"}, NEW n \in Backends
    PROVE  AtNow(o, a, n) = Written(o, a, o.engine, n)
<1>. DEFINE p == At(o, a)
<1>1. o.engine \in Engines /\ o.now \in Backends
  BY DEF Orders
<1>2. p = Written(o, a, o.engine, o.now) /\ p \in Orders
  <2>1. p = Written(o, a, o.engine, o.now)
    BY DEF At, Orders, Written
  <2>2. Written(o, a, o.engine, o.now) \in Orders
    BY <1>1 DEF Orders, Written
  <2>. QED
    BY <2>1, <2>2
<1>3. p.op = o.op /\ p.to = o.to /\ p.at = a /\ p.engine = o.engine
  BY <1>2 DEF Written
<1>4. AtNow(o, a, n) = [p EXCEPT !.now = n]
  BY DEF At, AtNow
<1>. HIDE DEF p
<1>. QED
  BY <1>2, <1>3, <1>4 DEF Written, Orders

\* A new command.
LEMMA RestWrites ==
    ASSUME NEW op, NEW to, NEW at
    PROVE  [Rest EXCEPT !.op = op, !.to = to, !.at = at]
              = [op |-> op, to |-> to, at |-> at, engine |-> Unbuilt, now |-> "none"]
<1>. DEFINE p == [Rest EXCEPT !.op = op]
            q == [p EXCEPT !.to = to]
<1>1. p = [op |-> op, to |-> "none", at |-> "idle", engine |-> Unbuilt, now |-> "none"]
  BY DEF Rest
<1>2. [Rest EXCEPT !.op = op, !.to = to, !.at = at] = [q EXCEPT !.at = at]
  OBVIOUS
<1>. HIDE DEF p
<1>3. q = [op |-> op, to |-> to, at |-> "idle", engine |-> Unbuilt, now |-> "none"]
  BY <1>1
<1>. HIDE DEF q
<1>. QED
  BY <1>2, <1>3

\* What a client asks for.
LEMMA SendKeeps ==
    ASSUME SwitchInv, NEW c \in Clients, NEW op \in {"switch", "lang", "delete"},
           NEW to \in Backends \cup Langs, NEW at \in {"wait", "deleting"}, Send(c, op, to, at),
           op = "switch" => to \in Choices, op = "lang" => to \in Langs,
           at = "wait" => op # "delete", at = "deleting" => to \in Models
    PROVE  SwitchInv'
<1>. DEFINE o == [Rest EXCEPT !.op = op, !.to = to, !.at = at]
<1>1. o = [op |-> op, to |-> to, at |-> at, engine |-> Unbuilt, now |-> "none"]
  BY ZenonT(30), RestWrites
<1>2. o \in Orders /\ o.op = op /\ o.to = to /\ o.at = at
  BY <1>1, EnginesAndOrders DEF Orders, Backends
<1>3. cmd' = [cmd EXCEPT ![c] = o]
  BY DEF Send
<1>. HIDE DEF o
<1>4. cmd[c].at = "idle" /\ UNCHANGED <<host, stored, cfg, active, boot, sent, late, lock>>
  BY DEF Send
<1>5. cfg \in [backend : Backends, lang : Langs]
  BY DEF SwitchInv, SwitchTyped
<1>. QED
  BY <1>2, <1>3, <1>4, <1>5, CommandMoves DEF WellFormed, Rebuilding

\* The lock is taken; only the language may change.
LEMMA TakeLockKeeps == ASSUME SwitchInv, NEW c \in Clients, TakeLock(c) PROVE SwitchInv'
<1>1. /\ cmd[c].at = "wait" /\ lock = Nobody /\ lock' = c
      /\ UNCHANGED <<host, stored, active, boot, sent, late>>
  BY DEF TakeLock
<1>2. cfg \in [backend : Backends, lang : Langs]
  BY DEF SwitchInv, SwitchTyped
<1>3. PICK a \in {"announce", "build"}, n \in Backends :
        cmd' = [cmd EXCEPT ![c] = Written(cmd[c], a, cmd[c].engine, n)]
  <2>1. CASE cmd[c].op = "switch"
    <3>. DEFINE a == IF cfg.backend = cmd[c].to THEN "announce" ELSE "build"
    <3>1. cmd' = [cmd EXCEPT ![c] = AtNow(cmd[c], a, cfg.backend)]
      BY <2>1, OrderFields DEF TakeLock, AtNow
    <3>2. a \in {"announce", "build"}
      OBVIOUS
    <3>. HIDE DEF a
    <3>3. AtNow(cmd[c], a, cfg.backend) = Written(cmd[c], a, cmd[c].engine, cfg.backend)
      <4>1. cmd[c] \in Orders /\ cfg.backend \in Backends /\ cmd[c].engine \in Engines
        BY OrderFields
      <4>. QED
        BY <3>2, <4>1, NowWrites
    <3>. QED
      BY <3>1, <3>2, <3>3, OrderFields
  <2>2. CASE cmd[c].op # "switch"
    <3>1. cmd' = [cmd EXCEPT ![c] = At(cmd[c], "build")]
      BY <2>2, OrderFields DEF TakeLock, At
    <3>2. At(cmd[c], "build") = Written(cmd[c], "build", cmd[c].engine, cmd[c].now)
      BY OrderFields, OrderWrites, <1>2
    <3>3. cmd[c].now \in Backends
      BY OrderFields DEF Orders
    <3>. QED
      BY <3>1, <3>2, <3>3
  <2>. QED
    BY <2>1, <2>2
<1>. DEFINE o == Written(cmd[c], a, cmd[c].engine, n)
<1>4. o \in Orders /\ o.op = cmd[c].op /\ o.to = cmd[c].to /\ o.at = a
  BY OrderFields, OrderWrites DEF Written
<1>. HIDE DEF o
<1>5. cmd' = [cmd EXCEPT ![c] = o]
  BY <1>3 DEF o
<1>6. cfg' \in [backend : Backends, lang : Langs] /\ cfg'.backend = cfg.backend
  <2>1. cfg' = cfg \/ (cfg' = [cfg EXCEPT !.lang = cmd[c].to] /\ cmd[c].to \in Langs)
    BY <1>1, OrderFields DEF TakeLock, WellFormed
  <2>. QED
    BY <1>2, <2>1
<1>7. WellFormed(o)
  BY <1>1, <1>4, OrderFields DEF WellFormed
<1>8. \A d \in Clients : lock # d
  BY <1>1, SwitchAssumption
<1>. QED
  BY <1>1, <1>4, <1>5, <1>6, <1>7, <1>8, CommandMoves

\* The rebuild ends, or the delete goes on.
LEMMA EndsKeep ==
    ASSUME SwitchInv, NEW c \in Clients, cmd[c].at # "swap",
           UNCHANGED <<host, stored, cfg, active, boot, sent, late>>,
           \/ cmd' = [cmd EXCEPT ![c] = Rest] /\ (UNCHANGED lock \/ Unlock(c))
           \/ cmd' = [cmd EXCEPT ![c].at = "announce"] /\ cmd[c].at = "build" /\ UNCHANGED lock
           \/ cmd' = [cmd EXCEPT ![c].at = "deleted"] /\ UNCHANGED lock
           \/ /\ cmd' = [cmd EXCEPT ![c] = [Rest EXCEPT !.op = "switch", !.to = "groq", !.at = "wait"]]
              /\ UNCHANGED lock
    PROVE  SwitchInv'
<1>1. cfg \in [backend : Backends, lang : Langs] /\ "none" \in Backends
  BY DEF SwitchInv, SwitchTyped, Backends
<1>2. /\ \A d \in Clients : d # c /\ lock = d => lock' = d
      /\ cmd[c].at = "build" /\ UNCHANGED lock => lock' = c
  BY OrderFields, SwitchAssumption DEF Unlock, Rebuilding
<1>3. CASE cmd' = [cmd EXCEPT ![c] = Rest]
  <2>1. WellFormed(Rest) /\ Rest.at = "idle"
    BY EnginesAndOrders DEF WellFormed
  <2>. QED
    BY <1>1, <1>2, <1>3, <2>1, EnginesAndOrders, CommandMoves DEF Rebuilding
<1>4. ASSUME NEW a \in {"announce", "deleted"}, cmd' = [cmd EXCEPT ![c].at = a],
             a = "announce" => lock' = c
      PROVE  SwitchInv'
  <2>. DEFINE o == Written(cmd[c], a, cmd[c].engine, cmd[c].now)
  <2>1. o \in Orders /\ o.op = cmd[c].op /\ o.to = cmd[c].to /\ o.at = a
    BY <1>1, OrderFields, OrderWrites DEF Written
  <2>2. cmd' = [cmd EXCEPT ![c] = o]
    <3>1. cmd' = [cmd EXCEPT ![c] = At(cmd[c], a)]
      BY <1>4, OrderFields DEF At
    <3>. QED
      <4>1. /\ a \in {"idle", "wait", "build", "swap", "announce", "deleting", "deleted"}
            /\ cmd[c] \in Orders /\ cfg.backend \in Backends /\ cmd[c].engine \in Engines
        BY OrderFields
      <4>2. At(cmd[c], a) = o
        BY <4>1, OrderWrites
      <4>. QED
        BY <3>1, <4>2
  <2>. HIDE DEF o
  <2>3. WellFormed(o)
    BY <2>1, OrderFields DEF WellFormed
  <2>. QED
    BY <1>1, <1>2, <1>4, <2>1, <2>2, <2>3, CommandMoves DEF Rebuilding
<1>5. CASE cmd' = [cmd EXCEPT ![c] = [Rest EXCEPT !.op = "switch", !.to = "groq", !.at = "wait"]]
  <2>. DEFINE o == [Rest EXCEPT !.op = "switch", !.to = "groq", !.at = "wait"]
  <2>1. o = [op |-> "switch", to |-> "groq", at |-> "wait", engine |-> Unbuilt, now |-> "none"]
    BY ZenonT(30), RestWrites
  <2>2. o \in Orders /\ o.op = "switch" /\ o.to = "groq" /\ o.at = "wait"
    BY <2>1, EnginesAndOrders DEF Orders, Backends, Choices
  <2>3. cmd' = [cmd EXCEPT ![c] = o]
    BY <1>5
  <2>. HIDE DEF o
  <2>4. WellFormed(o)
    BY <2>2 DEF WellFormed, Choices
  <2>. QED
    BY <1>1, <1>2, <2>2, <2>3, <2>4, CommandMoves DEF Rebuilding
<1>. QED
  BY <1>2, <1>3, <1>4, <1>5

\* An engine is built: it is the one the config now names.
LEMMA BuildsKeeps == ASSUME RegistryTyped, SwitchInv, NEW c \in Clients, Builds(c) PROVE SwitchInv'
<1>1. /\ cmd[c].at = "build" /\ sent' = TRUE
      /\ UNCHANGED <<host, stored, active, boot, lock, late>>
      /\ cfg' = [cfg EXCEPT !.backend = Target(c)]
  BY DEF Builds
<1>. DEFINE b == Target(c)
<1>2. PICK e \in Built(b) :
        cmd' = [cmd EXCEPT ![c].at = "swap", ![c].engine = e, ![c].now = b]
  BY DEF Builds
<1>3. b \in Backends /\ (cmd[c].op = "switch" => b = cmd[c].to /\ b # "none")
  BY OrderFields, SwitchAssumption DEF Target, WellFormed, Backends, Choices
<1>. HIDE DEF b
<1>4. e \in Engines /\ e.for = b /\ (b # "none" => Startable(b)) /\ SwitchTyped
  BY <1>2, <1>3, BuiltFor DEF SwitchInv
<1>. DEFINE o == Written(cmd[c], "swap", e, b)
<1>5. cmd' = [cmd EXCEPT ![c] = o] /\ o \in Orders
  <2>1. cmd' = [cmd EXCEPT ![c] = AtBoth(cmd[c], "swap", e, b)]
    BY <1>2, OrderFields DEF AtBoth
  <2>2. cmd[c] \in Orders /\ b \in Backends /\ e \in Engines
    BY <1>3, <1>4, OrderFields
  <2>3. AtBoth(cmd[c], "swap", e, b) = o /\ o \in Orders
    BY <2>2, BothWrites
  <2>. QED
    BY <2>1, <2>3
<1>6. o.op = cmd[c].op /\ o.to = cmd[c].to /\ o.at = "swap" /\ o.engine = e
  BY DEF Written
<1>. HIDE DEF o
<1>7. /\ cmd' \in [Clients -> Orders] /\ cmd'[c] = o
      /\ \A d \in Clients : d # c => cmd'[d] = cmd[d] /\ cmd[d].at # "swap"
      /\ lock = c
  BY <1>1, <1>5, OrderFields DEF Rebuilding
<1>8. cfg' \in [backend : Backends, lang : Langs] /\ cfg'.backend = b
  BY <1>1, <1>3, <1>4 DEF SwitchTyped, b
<1>9. SwitchTyped'
  BY <1>1, <1>4, <1>7, <1>8 DEF SwitchTyped
<1>10. WellFormed(o)
  BY <1>6, OrderFields DEF WellFormed
<1>11. Commanded'
  <2>1. ASSUME NEW d \in Clients, d # c
        PROVE  /\ WellFormed(cmd'[d]) /\ (cmd'[d].at \in Rebuilding => lock' = d)
               /\ cmd'[d].at # "swap"
    BY <1>1, <1>7, <2>1 DEF SwitchInv, Commanded
  <2>. QED
    BY <1>1, <1>3, <1>4, <1>6, <1>7, <1>8, <1>10, <2>1 DEF Commanded, WellFormed, Startable
<1>12. Booting' /\ Named'
  BY <1>1, <1>6, <1>7 DEF SwitchInv, Booting, Startable, Named
<1>. QED
  BY <1>9, <1>11, <1>12 DEF SwitchInv

\* It is installed.
LEMMA SwapsKeeps == ASSUME SwitchInv, NEW c \in Clients, Swaps(c) PROVE SwitchInv'
<1>1. /\ cmd[c].at = "swap" /\ active' = cmd[c].engine
      /\ UNCHANGED <<host, cfg, boot, sent, late>>
      /\ stored' = IF cmd[c].op = "switch" THEN cmd[c].to ELSE stored
      /\ \A d \in Clients : d # c /\ lock = d => lock' = d
      /\ cmd[c].op = "switch" => lock' = lock
  BY SwitchAssumption DEF Swaps, Unlock
<1>2. /\ SwitchTyped /\ sent /\ lock = c
      /\ cmd[c].op = "switch" => Startable(cmd[c].to)
      /\ ~late => cmd[c].engine.for = cfg.backend
  BY <1>1 DEF SwitchInv, Commanded, Rebuilding
<1>3. PICK o \in Orders :
        /\ cmd' = [cmd EXCEPT ![c] = o] /\ WellFormed(o) /\ o.at # "swap"
        /\ o.at \in Rebuilding => lock' = c
  <2>1. CASE cmd[c].op = "switch"
    <3>. DEFINE o == Written(cmd[c], "announce", Unbuilt, cmd[c].now)
    <3>1. cmd[c] \in Orders /\ cmd[c].now \in Backends
      BY OrderFields DEF Orders
    <3>2. cmd' = [cmd EXCEPT ![c] = AtEngine(cmd[c], "announce", Unbuilt)]
      BY <2>1, OrderFields DEF Swaps, AtEngine
    <3>3. cmd' = [cmd EXCEPT ![c] = o] /\ o \in Orders
      BY <3>1, <3>2, OrderWrites, EnginesAndOrders
    <3>4. o.op = cmd[c].op /\ o.to = cmd[c].to /\ o.at = "announce"
      BY DEF Written
    <3>. HIDE DEF o
    <3>5. WellFormed(o)
      BY <3>4, OrderFields DEF WellFormed
    <3>. QED
      BY <1>1, <1>2, <2>1, <3>3, <3>4, <3>5
  <2>2. CASE cmd[c].op # "switch"
    <3>1. cmd' = [cmd EXCEPT ![c] = Rest]
      BY <2>2 DEF Swaps
    <3>. QED
      BY <3>1, EnginesAndOrders DEF WellFormed, Rebuilding
  <2>. QED
    BY <2>1, <2>2
<1>4. /\ cmd' \in [Clients -> Orders] /\ cmd'[c] = o
      /\ \A d \in Clients : d # c => cmd'[d] = cmd[d] /\ cmd[d].at # "swap"
  BY <1>2, <1>3, OrderFields DEF Rebuilding
<1>5. SwitchTyped'
  BY <1>1, <1>2, <1>4, OrderFields DEF SwitchTyped
<1>6. Commanded'
  BY <1>1, <1>3, <1>4 DEF SwitchInv, Commanded, WellFormed
<1>7. Booting'
  BY <1>1, <1>2 DEF SwitchInv, Booting, Startable
<1>8. Named'
  BY <1>1, <1>2 DEF Named
<1>. QED
  BY <1>5, <1>6, <1>7, <1>8 DEF SwitchInv

\* The start-up thread.
LEMMA BootStepKeeps == ASSUME RegistryTyped, SwitchInv, BootStep PROVE SwitchInv'
<1>1. /\ SwitchTyped /\ Commanded /\ Booting /\ Named
      /\ UNCHANGED <<host, stored, lock, cmd, sent>>
  BY DEF SwitchInv, BootStep, BootBuilds, BootFails, BootStores, BootSignals
<1>2. boot \in [at : {"build", "store", "signal", "done", "failed"}, want : Backends, engine : Engines]
  BY <1>1 DEF SwitchTyped
<1>3. CASE BootBuilds
  <2>1. PICK e \in Built(boot.want) : boot' = [boot EXCEPT !.at = "store", !.engine = e]
    BY <1>3 DEF BootBuilds
  <2>2. e \in Engines /\ e.for = boot.want
    BY <1>1, <1>2, <2>1, BuiltFor
  <2>3. /\ boot' \in [at : {"build", "store", "signal", "done", "failed"}, want : Backends, engine : Engines]
        /\ boot'.at = "store" /\ boot'.engine = e
    BY <1>2, <2>1, <2>2
  <2>4. boot.at = "build" /\ UNCHANGED <<cfg, active, late>>
    BY <1>3 DEF BootBuilds
  <2>5. SwitchTyped' /\ Commanded'
    BY <1>1, <2>3, <2>4 DEF SwitchTyped, Commanded, Startable
  <2>6. Booting'
    BY <1>1, <2>2, <2>3, <2>4 DEF Booting, Startable, Placeholder, Engine
  <2>7. Named'
    BY <1>1, <2>4 DEF Named, Placeholder, Engine
  <2>. QED
    BY <2>5, <2>6, <2>7 DEF SwitchInv
<1>4. CASE BootFails /\ host.platform = "macos"
  <2>1. boot' = [boot EXCEPT !.at = "failed"] /\ UNCHANGED <<cfg, active, late>>
    BY <1>4 DEF BootFails
  <2>2. /\ boot' \in [at : {"build", "store", "signal", "done", "failed"}, want : Backends, engine : Engines]
        /\ boot'.at = "failed"
    BY <1>2, <2>1
  <2>3. SwitchTyped' /\ Commanded'
    BY <1>1, <2>1, <2>2 DEF SwitchTyped, Commanded, Startable
  <2>4. Booting' /\ Named'
    BY <1>1, <2>1, <2>2 DEF Booting, Startable, Named, Placeholder, Engine
  <2>. QED
    BY <2>3, <2>4 DEF SwitchInv
<1>5. CASE BootFails /\ host.platform # "macos"
  <2>1. /\ boot.at = "build" /\ UNCHANGED active
        /\ boot' = [boot EXCEPT !.at = "store", !.engine = IdleEngine]
        /\ cfg' = [cfg EXCEPT !.backend = "none"]
        /\ late' = (late \/ sent)
    BY <1>5 DEF BootFails
  <2>2. late' \in BOOLEAN /\ (~late' => ~late /\ ~sent)
    BY <2>1
  <2>3. /\ boot' \in [at : {"build", "store", "signal", "done", "failed"}, want : Backends, engine : Engines]
        /\ boot'.at = "store" /\ boot'.engine.for = "none"
    BY <1>2, <2>1, EnginesAndOrders
  <2>4. cfg' \in [backend : Backends, lang : Langs] /\ cfg'.backend = "none"
    BY <1>1, <2>1 DEF SwitchTyped, Backends
  <2>5. SwitchTyped'
    BY <1>1, <2>1, <2>2, <2>3, <2>4 DEF SwitchTyped
  <2>6. Commanded'
    BY <1>1, <2>2 DEF Commanded, Startable
  <2>7. Booting'
    BY <1>1, <2>1, <2>3, <2>4 DEF Booting, Startable, Placeholder, Engine
  <2>8. Named'
    BY <1>1, <2>1, <2>2 DEF Booting, Named, Placeholder, Engine
  <2>. QED
    BY <2>5, <2>6, <2>7, <2>8 DEF SwitchInv
<1>6. CASE BootStores
  <2>1. /\ boot.at = "store" /\ boot' = [boot EXCEPT !.at = "signal"]
        /\ active' = boot.engine /\ UNCHANGED cfg
        /\ late' = (late \/ sent)
    BY <1>6 DEF BootStores
  <2>2. late' \in BOOLEAN /\ (~late' => ~late /\ ~sent)
    BY <2>1
  <2>3. /\ boot' \in [at : {"build", "store", "signal", "done", "failed"}, want : Backends, engine : Engines]
        /\ boot'.at = "signal" /\ boot.engine \in Engines
    BY <1>2, <2>1
  <2>4. SwitchTyped'
    BY <1>1, <2>1, <2>2, <2>3 DEF SwitchTyped
  <2>5. Commanded'
    BY <1>1, <2>1, <2>2 DEF Commanded, Startable
  <2>6. Booting' /\ Named'
    BY <1>1, <2>1, <2>2, <2>3 DEF Booting, Startable, Named
  <2>. QED
    BY <2>4, <2>5, <2>6 DEF SwitchInv
<1>7. CASE BootSignals
  <2>1. boot' = [boot EXCEPT !.at = "done"] /\ UNCHANGED <<cfg, active, late>>
    BY <1>7 DEF BootSignals
  <2>2. /\ boot' \in [at : {"build", "store", "signal", "done", "failed"}, want : Backends, engine : Engines]
        /\ boot'.at = "done"
    BY <1>2, <2>1
  <2>3. SwitchTyped' /\ Commanded'
    BY <1>1, <2>1, <2>2 DEF SwitchTyped, Commanded, Startable
  <2>4. Booting' /\ Named'
    BY <1>1, <2>1, <2>2 DEF Booting, Startable, Named, Placeholder, Engine
  <2>. QED
    BY <2>3, <2>4 DEF SwitchInv
<1>. QED
  BY <1>3, <1>4, <1>5, <1>6, <1>7 DEF BootStep

\* A daemon that starts with a choice it can start with, starts with that choice.
LEMMA BootBegins ==
    ASSUME NEW want, Startable(want), Boot(want), UNCHANGED <<host, stored>>,
           host \in [platform : Platforms, key : Keys], Startable(stored)
    PROVE  SwitchInv'
<1>1. StartupBackends(want) = {want} /\ want \in Backends /\ want # "none"
  BY SwitchAssumption DEF Startable, StartupBackends, Backends, Choices
<1>2. PICK l \in Langs :
        /\ cfg' = [backend |-> want, lang |-> l]
        /\ active' = Placeholder /\ lock' = Nobody /\ cmd' = [c \in Clients |-> Rest]
        /\ boot' = [at |-> "build", want |-> want, engine |-> Unbuilt]
        /\ sent' = FALSE /\ late' = FALSE
  BY <1>1 DEF Boot
<1>3. SwitchTyped'
  BY <1>1, <1>2, EnginesAndOrders DEF SwitchTyped
<1>4. Commanded'
  BY <1>2, EnginesAndOrders DEF Commanded, WellFormed, Rebuilding
<1>5. Booting' /\ Named'
  BY <1>2 DEF Booting, Startable, Named, Placeholder, Engine
<1>. QED
  BY <1>3, <1>4, <1>5 DEF SwitchInv

\* A step that does not touch the engine, the config or a command.
LEMMA SwitchRests ==
    ASSUME SwitchInv, UNCHANGED <<host, stored, cfg, active, boot, lock, cmd, sent, late>>
    PROVE  SwitchInv'
BY DEF SwitchInv, SwitchTyped, Commanded, Booting, Named, Startable, WellFormed,
       Placeholder, Engine

-----------------------------------------------------------------------------
(* The daemon.                                                                *)

\* A step of the daemon is one of the registry's, or leaves the models alone.
LEMMA RegistryMoves ==
    ASSUME SwitchInv, Next
    PROVE  RegistryNext \/ UNCHANGED <<disk, dl, extracting, del, torn>>
<1>1. CASE DiskStep
  BY <1>1 DEF DiskStep, RegistryNext
<1>2. CASE BootStep
  BY <1>2 DEF BootStep, BootBuilds, BootFails, BootStores, BootSignals, registryVars
<1>3. CASE Reboot
  BY <1>3 DEF Reboot, RegistryNext
<1>4. CASE BridgeNone \/ Speak \/ Wake \/ TimesOut
  BY <1>4 DEF BridgeNone, Speak, Wake, TimesOut, registryVars
<1>5. ASSUME NEW c \in Clients, SetActiveTranscriber(c) \/ SetLanguage(c)
      PROVE  UNCHANGED <<disk, dl, extracting, del, torn>>
  BY <1>5 DEF SetActiveTranscriber, SetLanguage, Command
<1>6. ASSUME NEW c \in Clients, DeleteModel(c) PROVE RegistryNext
  BY <1>6 DEF DeleteModel, RegistryNext
<1>7. ASSUME NEW c \in Clients, DeleteReturns(c) PROVE RegistryNext
  <2>1. cmd[c].to \in Models /\ DeleteDone(cmd[c].to)
    BY <1>7, OrderFields DEF DeleteReturns, WellFormed
  <2>. QED
    BY <2>1 DEF RegistryNext
<1>8. ASSUME NEW c \in Clients,
             \/ TakeLock(c) \/ Builds(c) \/ BuildFails(c) \/ Swaps(c) \/ Announces(c) \/ FallBack(c)
      PROVE  UNCHANGED <<disk, dl, extracting, del, torn>>
  BY <1>8 DEF TakeLock, Builds, BuildFails, Swaps, Announces, FallBack, registryVars
<1>. QED
  BY <1>1, <1>2, <1>3, <1>4, <1>5, <1>6, <1>7, <1>8 DEF Next, Executes

\* Whatever a client's reader does, the config and the engine keep in step.
LEMMA ClientKeeps ==
    ASSUME RegistryTyped, SwitchInv, NEW c \in Clients,
           SetActiveTranscriber(c) \/ SetLanguage(c) \/ DeleteModel(c) \/ Executes(c)
    PROVE  SwitchInv'
<1>1. CASE SetActiveTranscriber(c)
  <2>1. PICK b \in Choices : Send(c, "switch", b, "wait")
    BY <1>1 DEF SetActiveTranscriber, Command
  <2>. QED
    BY <2>1, SendKeeps DEF Backends
<1>2. CASE SetLanguage(c)
  <2>1. PICK l \in Langs : Send(c, "lang", l, "wait")
    BY <1>2 DEF SetLanguage, Command
  <2>. QED
    BY <2>1, SendKeeps
<1>3. CASE DeleteModel(c)
  <2>1. PICK m \in Models : Send(c, "delete", m, "deleting")
    BY <1>3 DEF DeleteModel
  <2>. QED
    BY <2>1, SendKeeps DEF Backends, Choices
<1>4. CASE BuildFails(c)
  <2>1. /\ cmd[c].at = "build" /\ UNCHANGED <<host, stored, cfg, active, boot, sent, late>>
        /\ \/ cmd' = [cmd EXCEPT ![c] = Rest] /\ Unlock(c)
           \/ cmd' = [cmd EXCEPT ![c].at = "announce"] /\ UNCHANGED lock
    BY <1>4 DEF BuildFails
  <2>. QED
    BY <2>1, EndsKeep
<1>5. CASE Announces(c)
  <2>1. /\ cmd[c].at = "announce" /\ UNCHANGED <<host, stored, cfg, active, boot, sent, late>>
        /\ cmd' = [cmd EXCEPT ![c] = Rest] /\ Unlock(c)
    BY <1>5 DEF Announces
  <2>. QED
    BY <2>1, EndsKeep
<1>6. CASE DeleteReturns(c)
  <2>1. /\ cmd[c].at = "deleting" /\ UNCHANGED <<host, stored, cfg, active, boot, sent, late, lock>>
        /\ cmd' = [cmd EXCEPT ![c].at = "deleted"]
    BY <1>6 DEF DeleteReturns
  <2>. QED
    BY <2>1, EndsKeep
<1>7. CASE FallBack(c)
  <2>1. /\ cmd[c].at = "deleted" /\ UNCHANGED <<host, stored, cfg, active, boot, sent, late, lock>>
        /\ \/ cmd' = [cmd EXCEPT ![c] = Rest]
           \/ cmd' = [cmd EXCEPT ![c] = [Rest EXCEPT !.op = "switch", !.to = "groq", !.at = "wait"]]
    BY <1>7 DEF FallBack
  <2>. QED
    BY <2>1, EndsKeep
<1>. QED
  BY <1>1, <1>2, <1>3, <1>4, <1>5, <1>6, <1>7, TakeLockKeeps, BuildsKeeps, SwapsKeeps DEF Executes

\* The invariant of the whole.
DaemonInv == RegistryInv /\ SwitchInv

\* Every step of the daemon keeps it, and takes no model away.
LEMMA DaemonStep ==
    ASSUME DaemonInv, [Next]_vars
    PROVE  DaemonInv' /\ \A m \in Models : Remains(m)
<1>1. RegistryInv /\ RegistryTyped /\ SwitchInv
  BY DEF DaemonInv, RegistryInv
<1>2. CASE UNCHANGED vars
  <2>1. UNCHANGED <<disk, dl, extracting, del, torn>>
    BY <1>2 DEF vars, registryVars
  <2>2. UNCHANGED <<host, stored, cfg, active, boot, lock, cmd, sent, late>>
    BY <1>2 DEF vars, switchVars
  <2>. QED
    BY <1>1, <2>1, <2>2, RegistryRests, SwitchRests DEF DaemonInv
<1>3. CASE Next
  <2>1. RegistryInv' /\ \A m \in Models : Remains(m)
    BY <1>1, <1>3, RegistryMoves, RegistryStep, RegistryRests
  <2>2. ASSUME DiskStep \/ BridgeNone \/ Speak \/ Wake \/ TimesOut PROVE SwitchInv'
    <3>1. UNCHANGED <<host, stored, cfg, active, boot, lock, cmd, sent, late>>
      BY <2>2 DEF DiskStep, BridgeNone, Speak, Wake, TimesOut, switchVars
    <3>. QED
      BY <1>1, <3>1, SwitchRests
  <2>3. ASSUME BootStep PROVE SwitchInv'
    BY <1>1, <2>3, BootStepKeeps
  <2>4. ASSUME Reboot PROVE SwitchInv'
    <3>1. Boot(stored) /\ UNCHANGED <<host, stored>> /\ Startable(stored)
          /\ host \in [platform : Platforms, key : Keys]
      BY <1>1, <2>4 DEF Reboot, SwitchInv, Booting, SwitchTyped
    <3>. QED
      BY <3>1, BootBegins
  <2>5. ASSUME NEW c \in Clients,
               SetActiveTranscriber(c) \/ SetLanguage(c) \/ DeleteModel(c) \/ Executes(c)
        PROVE  SwitchInv'
    BY <1>1, <2>5, ClientKeeps
  <2>6. SwitchInv'
    BY <1>3, <2>2, <2>3, <2>4, <2>5 DEF Next
  <2>. QED
    BY <2>1, <2>6 DEF DaemonInv
<1>. QED
  BY <1>2, <1>3

\* The daemon starts with a choice it can start with.
LEMMA DaemonStarts == Init => DaemonInv
<1>. SUFFICES ASSUME Init PROVE DaemonInv
  OBVIOUS
<1>1. RegistryInv
  BY RegistryStarts DEF Init
<1>2. Startable(stored) /\ stored \in Backends
  BY DEF Init, Startable, Choices, Backends
<1>3. PICK l \in Langs : cfg = [backend |-> stored, lang |-> l]
  BY DEF Init
<1>4. /\ cmd = [c \in Clients |-> Rest] /\ active = Placeholder /\ ~sent /\ ~late
      /\ boot = [at |-> "build", want |-> stored, engine |-> Unbuilt]
      /\ host \in [platform : Platforms, key : Keys] /\ sent = FALSE /\ late = FALSE
  BY DEF Init
<1>5. SwitchTyped
  BY <1>2, <1>3, <1>4, EnginesAndOrders DEF SwitchTyped
<1>6. Commanded
  BY <1>4, EnginesAndOrders DEF Commanded, WellFormed, Rebuilding
<1>7. Booting /\ Named
  BY <1>2, <1>3, <1>4 DEF Booting, Named
<1>. QED
  BY <1>1, <1>5, <1>6, <1>7 DEF DaemonInv, SwitchInv

\* The fairness of the readers is not needed for safety.
LEMMA DaemonRuns == Spec => []DaemonInv
<1>1. DaemonInv /\ [Next]_vars => DaemonInv'
  BY DaemonStep
<1>. QED
  BY <1>1, DaemonStarts, PTL DEF Spec

\* The same in the whole daemon, whatever clients delete and whenever it is killed.
THEOREM TrustedAreWhole == Spec => []TrustedIsWhole
<1>1. DaemonInv => TrustedIsWhole
  BY TrustFollows DEF DaemonInv
<1>. QED
  BY <1>1, DaemonRuns, PTL

THEOREM InstalledRemain == Spec => InstalledStays
<1>1. DaemonInv /\ [Next]_vars =>
        [\A m \in Models :
          Trusted(disk, m) /\ del[m] = "no" /\ del'[m] = "no" =>
              Trusted(disk', m) \/ (m \in Bins /\ disk'[m].final = "bad")]_registryVars
  BY DaemonStep DEF Remains
<1>. QED
  BY <1>1, DaemonRuns, PTL DEF Spec, InstalledStays

\* uds_server.rs:1470: the rebuild lock is what keeps the config and the engine in
\* step; with it free, the config names the backend the installed engine was built
\* for, unless the init thread finished after a command.
THEOREM EngineIsNamed == Spec => []ConfigNamesEngine
<1>1. DaemonInv => ConfigNamesEngine
  <2>. SUFFICES ASSUME DaemonInv, lock = Nobody, ~late
                PROVE  active.for = cfg.backend \/ active = Placeholder
    BY DEF ConfigNamesEngine
  <2>1. \A c \in Clients : cmd[c].at # "swap"
    BY OrderFields DEF DaemonInv, Rebuilding
  <2>. QED
    BY <2>1 DEF DaemonInv, SwitchInv, Named
<1>. QED
  BY <1>1, DaemonRuns, PTL
-----------------------------------------------------------------------------
(* RecordingLoop: the utterance the installed engine transcribes.  Whatever   *)
(* the bounds, the engines and the scores, what is done to the utterance      *)
(* leaves it in good standing, and once cleared it stays cleared.             *)

CONSTANTS
    MaxFrames, MinSpeech, PreBuffer, Tentative, FinalCuts, ChunkTarget, HardMax, Window, MinRun,
    MinEmbed, Early, TailChecks, RejectStreak, Recognizers, Gates, Verdicts
VARIABLES slot, phase

Loop == INSTANCE RecordingLoop WITH Backends <- Recognizers

\* Nothing has to be verified, or it has been.
Cleared(w) == ~w.gate \/ w.vouched

\* What the gate is about is there; only a pass verifies; and nothing leaves an
\* utterance that is not cleared.
GateKeys == {"gate", "verified", "vouched", "chunks", "pending"}
Standing(w) ==
    /\ GateKeys \subseteq DOMAIN w
    /\ w.verified => w.vouched
    /\ Cleared(w) \/ (w.chunks = 0 /\ ~w.pending)

\* From w the code may go to v.
Leads(w, v) == Standing(v) /\ (Cleared(w) => Cleared(v))

\* A step that touches none of what the gate is about.
Aside(w, v) ==
    /\ GateKeys \subseteq DOMAIN v
    /\ \A k \in GateKeys : v[k] = w[k]

\* Such a step is harmless.
LEMMA AsideLeads ==
    ASSUME NEW w, NEW v, Standing(w), Aside(w, v) PROVE Leads(w, v)
<1>1. GateKeys \subseteq DOMAIN v /\ v.gate = w.gate /\ v.verified = w.verified
      /\ v.vouched = w.vouched /\ v.chunks = w.chunks /\ v.pending = w.pending
  BY DEF Aside, GateKeys
<1>. QED
  BY <1>1 DEF Leads, Standing, Cleared

\* A standing that only falls, or a vouched for utterance, is harmless too.
LEMMA LeadsOn ==
    ASSUME NEW w, NEW x, NEW v, Leads(w, x), Leads(x, v) PROVE Leads(w, v)
BY DEF Leads

LEMMA Stays == ASSUME NEW w, Standing(w) PROVE Leads(w, w)
BY DEF Leads

\* Invalidating the speculation only withdraws it.
LEMMA InvalidateLeads ==
    ASSUME NEW w, Standing(w)
    PROVE  Leads(w, Loop!Invalidate(w)) /\ ~Loop!Invalidate(w).pending
<1>. DEFINE v == Loop!Invalidate(w)
<1>1. DOMAIN v = DOMAIN w /\ (\A k \in DOMAIN w : k \notin {"pending", "gen"} => v[k] = w[k])
      /\ ("pending" \in DOMAIN w => ~v.pending)
  BY DEF Loop!Invalidate
<1>2. GateKeys \subseteq DOMAIN v /\ v.gate = w.gate /\ v.verified = w.verified
      /\ v.vouched = w.vouched /\ v.chunks = w.chunks /\ ~v.pending
  BY <1>1 DEF Standing, GateKeys
<1>. QED
  BY <1>2 DEF Leads, Standing, Cleared

\* The operators that only move audio, counters, windows, jobs and badges.
LEMMA SpawnAside ==
    ASSUME NEW w, NEW kind, NEW scored, Standing(w)
    PROVE  Aside(w, Loop!Spawn(w, kind, scored))
BY DEF Loop!Spawn, Aside, Standing, GateKeys

LEMMA CutAside ==
    ASSUME NEW w, NEW k, Standing(w) PROVE Aside(w, Loop!CutAt(w, k))
BY DEF Loop!CutAt, Aside, Standing, GateKeys

LEMMA PushAside ==
    ASSUME NEW w, NEW x, Standing(w) PROVE Aside(w, Loop!Push(w, x))
BY DEF Loop!Push, Aside, Standing, GateKeys

LEMMA TailMonitorAside ==
    ASSUME NEW w, NEW j, Standing(w) PROVE Aside(w, Loop!TailMonitor(w, j))
<1>1. Aside(w, Loop!CutAt(w, w.confirmed))
  BY CutAside
<1>. DEFINE c == Loop!CutAt(w, w.confirmed)
<1>2. Aside(w, [c EXCEPT !.tailCut = TRUE])
  <2>. HIDE DEF c
  <2>. QED
    BY <1>1 DEF Aside, GateKeys, c
<1>. QED
  BY <1>2 DEF Loop!TailMonitor, Aside, Standing, GateKeys

\* Verifying is the one step that clears a gated utterance, with a passing score.
LEMMA VerifyLeads ==
    ASSUME NEW w, NEW j, Standing(w) PROVE Leads(w, Loop!Verify(w, j))
<1>. DEFINE v == Loop!Verify(w, j)
<1>1. GateKeys \subseteq DOMAIN v /\ v.verified /\ v.vouched
      /\ v.gate = w.gate /\ v.chunks = w.chunks /\ v.pending = w.pending
  BY DEF Loop!Verify, Standing, GateKeys
<1>. QED
  BY <1>1 DEF Leads, Standing, Cleared

LEMMA LadderLeads ==
    ASSUME NEW w, NEW j, Standing(w) PROVE Leads(w, Loop!Ladder(w, j))
<1>. DEFINE drop == [w EXCEPT !.shown = FALSE, !.transcribing = FALSE, !.stop = "dropped"]
            more == [w EXCEPT !.gateFail = @ + 1]
<1>1. Leads(w, Loop!Verify(w, j)) /\ Leads(w, w)
  BY VerifyLeads, Stays
<1>2. Leads(w, drop)
  <2>1. Aside(w, drop)
    BY DEF Aside, Standing, GateKeys
  <2>. QED
    BY <2>1, AsideLeads
<1>3. Leads(w, more)
  <2>1. Aside(w, more)
    BY DEF Aside, Standing, GateKeys
  <2>. QED
    BY <2>1, AsideLeads
<1>4. Leads(w, Loop!Spawn(more, "Decisive", Len(w.speech)))
  <2>1. Standing(more)
    BY <1>3 DEF Leads
  <2>2. Aside(more, Loop!Spawn(more, "Decisive", Len(w.speech)))
    BY <2>1, SpawnAside
  <2>. HIDE DEF more
  <2>3. Leads(more, Loop!Spawn(more, "Decisive", Len(w.speech)))
    BY <2>1, <2>2, AsideLeads
  <2>. QED
    BY <1>3, <2>3, LeadsOn
<1>. QED
  BY <1>1, <1>2, <1>3, <1>4 DEF Loop!Ladder

\* A verdict: stale, a cut behind the user's last words, the tail monitor, or the ladder.
LEMMA ApplyVerdictLeads ==
    ASSUME NEW w, Standing(w) PROVE Leads(w, Loop!ApplyVerdict(w))
<1>. DEFINE j  == w.job
            w0 == [w EXCEPT !.job = Loop!NoJob]
            x  == [start |-> j.len - j.scored, end |-> j.len,
                   foreign |-> Loop!IsForeign(j.verdict)]
            w1 == IF j.kind = "Window" /\ j.scored >= Window THEN Loop!Push(w0, x) ELSE w0
            p  == Loop!Plan(w1, Len(w1.speech))
            beyond == Loop!TrailingForeign(w1, Len(w1.speech))
            c  == Loop!CutAt(w1, p.trail)
            t  == [c EXCEPT !.trimmed = TRUE]
<1>1. Leads(w, w0)
  <2>1. Aside(w, w0)
    BY DEF Aside, Standing, GateKeys
  <2>. QED
    BY <2>1, AsideLeads
<1>2. Leads(w, w1)
  <2>1. Standing(w0)
    BY <1>1 DEF Leads
  <2>. HIDE DEF w0, x
  <2>2. Leads(w0, Loop!Push(w0, x))
    BY <2>1, PushAside, AsideLeads
  <2>3. Leads(w, Loop!Push(w0, x))
    BY <1>1, <2>2, LeadsOn
  <2>. QED
    BY <1>1, <2>3
<1>3. Standing(w1)
  BY <1>2 DEF Leads
<1>. HIDE DEF w1
<1>4. Leads(w, Loop!Invalidate(t))
  <2>1. Aside(w1, c)
    BY <1>3, CutAside
  <2>2. Aside(w1, t)
    <3>. HIDE DEF c
    <3>. QED
      BY <2>1 DEF Aside, GateKeys
  <2>. HIDE DEF t
  <2>3. Leads(w1, t)
    BY <1>3, <2>2, AsideLeads
  <2>4. Standing(t)
    BY <2>3 DEF Leads
  <2>5. Leads(t, Loop!Invalidate(t))
    BY <2>4, InvalidateLeads
  <2>. QED
    BY <1>2, <2>3, <2>5, LeadsOn
<1>5. Leads(w, Loop!TailMonitor(w1, j))
  <2>1. Leads(w1, Loop!TailMonitor(w1, j))
    BY <1>3, TailMonitorAside, AsideLeads
  <2>. QED
    BY <1>2, <2>1, LeadsOn
<1>6. Leads(w, Loop!Ladder(w1, j))
  <2>1. Leads(w1, Loop!Ladder(w1, j))
    BY <1>3, LadderLeads
  <2>. QED
    BY <1>2, <2>1, LeadsOn
<1>7. \/ Loop!ApplyVerdict(w) = w
      \/ Loop!ApplyVerdict(w) = w0
      \/ Loop!ApplyVerdict(w) = Loop!Invalidate(t)
      \/ Loop!ApplyVerdict(w) = Loop!TailMonitor(w1, j)
      \/ Loop!ApplyVerdict(w) = Loop!Ladder(w1, j)
  BY Zenon DEF Loop!ApplyVerdict, w1
<1>. QED
  BY <1>1, <1>4, <1>5, <1>6, <1>7, Stays

LEMMA SpawnWindowLeads ==
    ASSUME NEW w, Standing(w) PROVE Leads(w, Loop!SpawnWindow(w))
<1>1. \A k : Leads(w, Loop!Spawn(w, "Window", k))
  BY SpawnAside, AsideLeads
<1>. QED
  BY <1>1, Stays DEF Loop!SpawnWindow

LEMMA SpawnTentativeLeads ==
    ASSUME NEW w, Standing(w) PROVE Leads(w, Loop!SpawnTentative(w))
<1>1. \A k : Leads(w, Loop!Spawn(w, "Tentative", k))
  BY SpawnAside, AsideLeads
<1>. QED
  BY <1>1, Stays DEF Loop!SpawnTentative

\* A chunk leaves only where the engine may be asked.
LEMMA MayTranscribeClears ==
    ASSUME NEW w, Standing(w), Loop!MayTranscribe(w) PROVE Cleared(w)
BY DEF Loop!MayTranscribe, Standing, Cleared

LEMMA HardFlushLeads ==
    ASSUME NEW w, NEW carry, Standing(w) PROVE Leads(w, Loop!HardFlush(w, carry))
<1>1. CASE Loop!HardFlush(w, carry) = w
  BY <1>1, Stays
<1>2. CASE Loop!HardFlush(w, carry) # w
  <2>. DEFINE i == Loop!Invalidate(w)
              cut == Len(w.speech) - carry
              v == [i EXCEPT !.chunks = @ + 1, !.flushed = @ \o SubSeq(w.speech, 1, cut),
                       !.speech = SubSeq(@, cut + 1, Len(@)), !.committed = @ + cut,
                       !.fresh = carry > 0, !.tailVoiced = carry, !.confirmed = carry,
                       !.tailFail = 0, !.gateFail = 0]
  <2>1. Loop!MayTranscribe(w) /\ Loop!HardFlush(w, carry) = v
    BY <1>2, Zenon DEF Loop!HardFlush
  <2>2. Standing(i) /\ Cleared(i)
    BY <2>1, InvalidateLeads, MayTranscribeClears DEF Leads
  <2>. HIDE DEF i
  <2>3. GateKeys \subseteq DOMAIN v /\ v.gate = i.gate /\ v.verified = i.verified
        /\ v.vouched = i.vouched
    BY <2>2 DEF Standing, GateKeys
  <2>. HIDE DEF v
  <2>4. Leads(w, v)
    BY <2>2, <2>3 DEF Leads, Standing, Cleared
  <2>. QED
    BY <2>1, <2>4
<1>. QED
  BY <1>1, <1>2

LEMMA SoftFlushLeads ==
    ASSUME NEW w, Standing(w) PROVE Leads(w, Loop!SoftFlush(w))
<1>1. CASE Loop!SoftFlush(w) = w
  BY <1>1, Stays
<1>2. CASE Loop!SoftFlush(w) # w
  <2>. DEFINE i == Loop!Invalidate(w)
              v == [i EXCEPT !.chunks = @ + 1, !.flushed = @ \o Loop!WithoutSilence(w.speech, w.silence, 0),
                       !.speech = <<>>, !.committed = @ + Len(w.speech),
                       !.fresh = FALSE, !.tailVoiced = 0, !.confirmed = 0, !.tailFail = 0]
  <2>1. Loop!MayTranscribe(w) /\ Loop!SoftFlush(w) = v
    BY <1>2, Zenon DEF Loop!SoftFlush
  <2>2. Standing(i) /\ Cleared(i)
    BY <2>1, InvalidateLeads, MayTranscribeClears DEF Leads
  <2>. HIDE DEF i
  <2>3. GateKeys \subseteq DOMAIN v /\ v.gate = i.gate /\ v.verified = i.verified
        /\ v.vouched = i.vouched
    BY <2>2 DEF Standing, GateKeys
  <2>. HIDE DEF v
  <2>4. Leads(w, v)
    BY <2>2, <2>3 DEF Leads, Standing, Cleared
  <2>. QED
    BY <2>1, <2>4
<1>. QED
  BY <1>1, <1>2

\* ... and so does a speculation.
LEMMA SpeculateLeads ==
    ASSUME NEW w, Standing(w) PROVE Leads(w, Loop!Speculate(w))
<1>1. CASE Loop!Speculate(w) = w
  BY <1>1, Stays
<1>2. CASE Loop!Speculate(w) # w
  <2>. DEFINE i == Loop!Invalidate(w)
              v == [i EXCEPT !.pending = TRUE, !.transcribing = TRUE,
                             !.specTrim = Loop!Plan(w, Len(w.speech))]
  <2>1. Loop!MayTranscribe(w) /\ Loop!Speculate(w) = v
    BY <1>2, Zenon DEF Loop!Speculate
  <2>2. Standing(i) /\ Cleared(i)
    BY <2>1, InvalidateLeads, MayTranscribeClears DEF Leads
  <2>. HIDE DEF i
  <2>3. GateKeys \subseteq DOMAIN v /\ v.gate = i.gate /\ v.verified = i.verified
        /\ v.vouched = i.vouched
    BY <2>2 DEF Standing, GateKeys
  <2>. HIDE DEF v
  <2>4. Leads(w, v)
    BY <2>2, <2>3 DEF Leads, Standing, Cleared
  <2>. QED
    BY <2>1, <2>4
<1>. QED
  BY <1>1, <1>2

LEMMA ResumeLeads ==
    ASSUME NEW w, Standing(w) PROVE Leads(w, Loop!Resume(w))
<1>. DEFINE i == Loop!Invalidate(w)
            q == [i EXCEPT !.transcribing = FALSE]
            r == IF w.pending THEN q ELSE w
            v == [r EXCEPT !.run = @ + 1, !.silence = 0]
<1>1. Leads(w, i)
  BY InvalidateLeads
<1>2. Leads(w, q)
  <2>1. Standing(i)
    BY <1>1 DEF Leads
  <2>. HIDE DEF i
  <2>2. Aside(i, q)
    BY <2>1 DEF Aside, Standing, GateKeys
  <2>. QED
    BY <1>1, <2>1, <2>2, AsideLeads, LeadsOn
<1>. HIDE DEF q
<1>3. Leads(w, r)
  BY <1>2, Stays
<1>4. Standing(r)
  BY <1>3 DEF Leads
<1>. HIDE DEF r
<1>5. Aside(r, v)
  BY <1>4 DEF Aside, Standing, GateKeys
<1>6. Leads(r, v)
  BY <1>4, <1>5, AsideLeads
<1>7. Loop!Resume(w) = v
  BY Zenon DEF Loop!Resume, r, q
<1>. QED
  BY <1>3, <1>6, <1>7, LeadsOn

LEMMA OnsetLeads ==
    ASSUME NEW w, NEW loud, Standing(w) PROVE Leads(w, Loop!Onset(w, loud))
<1>1. Aside(w, Loop!Onset(w, loud))
  BY DEF Loop!Onset, Aside, Standing, GateKeys
<1>. QED
  BY <1>1, AsideLeads

\* Failing open gives the gate up.
LEMMA FailOpenLeads ==
    ASSUME NEW w, Standing(w) PROVE Leads(w, Loop!FailOpen(w))
<1>. DEFINE v == [w EXCEPT !.gate = FALSE]
<1>1. GateKeys \subseteq DOMAIN v /\ ~v.gate /\ v.verified = w.verified
      /\ v.vouched = w.vouched
  BY DEF Standing, GateKeys
<1>2. Leads(w, v)
  BY <1>1 DEF Leads, Standing, Cleared
<1>. QED
  BY <1>2, Stays DEF Loop!FailOpen

LEMMA EarlyBadgeLeads ==
    ASSUME NEW w, NEW early, Standing(w) PROVE Leads(w, Loop!EarlyBadge(w, early))
<1>1. Aside(w, Loop!EarlyBadge(w, early))
  BY DEF Loop!EarlyBadge, Aside, Standing, GateKeys
<1>. QED
  BY <1>1, AsideLeads

LEMMA IdleFrameLeads ==
    ASSUME NEW w, NEW retract, Standing(w) PROVE Leads(w, Loop!IdleFrame(w, retract))
<1>1. Aside(w, Loop!IdleFrame(w, retract))
  BY DEF Loop!IdleFrame, Aside, Standing, GateKeys
<1>. QED
  BY <1>1, AsideLeads

LEMMA VoicedFrameLeads ==
    ASSUME NEW w, NEW loud, NEW carry, Standing(w)
    PROVE  Leads(w, Loop!VoicedFrame(w, loud, carry))
<1>. DEFINE o == Loop!Onset(Loop!Resume(w), loud)
            a == [o EXCEPT !.speech = Append(@, w.n), !.fresh = TRUE, !.heard = @ + 1,
                           !.tailVoiced = @ + 1, !.words = Append(@, w.n)]
            f == Loop!FailOpen(a)
            x == Loop!ApplyVerdict(f)
            s == Loop!SpawnWindow(x)
            h == Loop!HardFlush(s, carry)
            p == [o EXCEPT !.pre = Loop!KeepLast(Append(@, w.n))]
<1>1. Leads(w, o)
  <2>1. Leads(w, Loop!Resume(w)) /\ Standing(Loop!Resume(w))
    BY ResumeLeads DEF Leads
  <2>2. Leads(Loop!Resume(w), o)
    BY <2>1, OnsetLeads
  <2>. QED
    BY <2>1, <2>2, LeadsOn
<1>2. Standing(o)
  BY <1>1 DEF Leads
<1>3. Loop!VoicedFrame(w, loud, carry) = IF o.inSpeech THEN h ELSE p
  BY Zenon DEF Loop!VoicedFrame
<1>. HIDE DEF o
<1>4. Leads(w, p)
  <2>1. Aside(o, p)
    BY <1>2 DEF Aside, Standing, GateKeys
  <2>. HIDE DEF p
  <2>. QED
    BY <1>1, <1>2, <2>1, AsideLeads, LeadsOn
<1>5. Leads(w, a) /\ Standing(a)
  <2>1. Aside(o, a)
    BY <1>2 DEF Aside, Standing, GateKeys
  <2>. HIDE DEF a
  <2>2. Leads(w, a)
    BY <1>1, <1>2, <2>1, AsideLeads, LeadsOn
  <2>. QED
    BY <2>2 DEF Leads
<1>. HIDE DEF a
<1>6. Leads(w, f) /\ Standing(f)
  <2>1. Leads(a, f)
    BY <1>5, FailOpenLeads
  <2>. QED
    BY <1>5, <2>1, LeadsOn DEF Leads
<1>. HIDE DEF f
<1>7. Leads(w, x) /\ Standing(x)
  <2>1. Leads(f, x)
    BY <1>6, ApplyVerdictLeads
  <2>. QED
    BY <1>6, <2>1, LeadsOn DEF Leads
<1>. HIDE DEF x
<1>8. Leads(w, s) /\ Standing(s)
  <2>1. Leads(x, s)
    BY <1>7, SpawnWindowLeads
  <2>. QED
    BY <1>7, <2>1, LeadsOn DEF Leads
<1>. HIDE DEF s
<1>9. Leads(w, h)
  <2>1. Leads(s, h)
    BY <1>8, HardFlushLeads
  <2>. QED
    BY <1>8, <2>1, LeadsOn
<1>. QED
  BY <1>3, <1>4, <1>9

LEMMA SilentFrameLeads ==
    ASSUME NEW w, NEW held, NEW cutAt, Standing(w)
    PROVE  Leads(w, Loop!SilentFrame(w, held, cutAt))
<1>. DEFINE a == [w EXCEPT !.speech = Append(@, w.n), !.run = 0,
                           !.silence = IF held THEN 0 ELSE @ + 1]
            f == Loop!SoftFlush(a)
            x == Loop!ApplyVerdict(f)
            t == Loop!SpawnTentative(x)
            s == Loop!Speculate(t)
            b == [s EXCEPT !.stop = "break"]
<1>1. \/ Loop!SilentFrame(w, held, cutAt) = a
      \/ Loop!SilentFrame(w, held, cutAt) = b
      \/ Loop!SilentFrame(w, held, cutAt) = s
  BY Zenon DEF Loop!SilentFrame
<1>2. Leads(w, a) /\ Standing(a)
  <2>1. Aside(w, a)
    BY DEF Aside, Standing, GateKeys
  <2>. HIDE DEF a
  <2>. QED
    BY <2>1, AsideLeads DEF Leads
<1>. HIDE DEF a
<1>3. Leads(w, f) /\ Standing(f)
  <2>1. Leads(a, f)
    BY <1>2, SoftFlushLeads
  <2>. QED
    BY <1>2, <2>1, LeadsOn DEF Leads
<1>. HIDE DEF f
<1>4. Leads(w, x) /\ Standing(x)
  <2>1. Leads(f, x)
    BY <1>3, ApplyVerdictLeads
  <2>. QED
    BY <1>3, <2>1, LeadsOn DEF Leads
<1>. HIDE DEF x
<1>5. Leads(w, t) /\ Standing(t)
  <2>1. Leads(x, t)
    BY <1>4, SpawnTentativeLeads
  <2>. QED
    BY <1>4, <2>1, LeadsOn DEF Leads
<1>. HIDE DEF t
<1>6. Leads(w, s) /\ Standing(s)
  <2>1. Leads(t, s)
    BY <1>5, SpeculateLeads
  <2>. QED
    BY <1>5, <2>1, LeadsOn DEF Leads
<1>. HIDE DEF s
<1>7. Leads(w, b)
  <2>1. Aside(s, b)
    BY <1>6 DEF Aside, Standing, GateKeys
  <2>. HIDE DEF b
  <2>. QED
    BY <1>6, <2>1, AsideLeads, LeadsOn
<1>. QED
  BY <1>1, <1>2, <1>6, <1>7

\* The utterance is in good standing, and cleared before a thread transcribes any of
\* it, before its text is awaited and when it is delivered.
Guarded ==
    /\ Standing(u)
    /\ threads # {} \/ phase = "await" \/ Delivered => Cleared(u)

LEMMA GuardedAtFirst == Loop!Init => Guarded
<1>. SUFFICES ASSUME Loop!Init PROVE Guarded
  OBVIOUS
<1>1. GateKeys \subseteq DOMAIN u /\ ~u.verified /\ u.chunks = 0 /\ ~u.pending
  BY DEF Loop!Init, GateKeys
<1>2. threads = {} /\ phase = "loop" /\ outcome.kind = "none"
  BY DEF Loop!Init
<1>. QED
  BY <1>1, <1>2 DEF Guarded, Standing, Delivered

LEMMA FrameGuards ==
    ASSUME Guarded, NEW voice, NEW a, NEW b, NEW carry, NEW cutAt,
           Loop!Frame(voice, a, b, carry, cutAt)
    PROVE  Guarded'
<1>. DEFINE w0 == [u EXCEPT !.n = @ + 1]
            w1 == IF voice THEN Loop!VoicedFrame(Loop!EarlyBadge(w0, b), a, carry)
                  ELSE IF u.inSpeech THEN Loop!SilentFrame(w0, a, cutAt)
                  ELSE Loop!IdleFrame(w0, a)
            w  == IF w1.stop = "no" /\ w1.n = MaxFrames THEN [w1 EXCEPT !.stop = "break"]
                  ELSE w1
<1>1. /\ phase = "loop" /\ u' = w
      /\ threads' = threads \/ (w.pending /\ threads' # threads)
      /\ IF w.stop = "dropped" THEN phase' = "done" /\ outcome'.kind = "DroppedSpeaker"
         ELSE phase' \in {"loop", "ended"} /\ outcome' = outcome
  BY DEF Loop!Frame, Loop!Return
<1>2. Leads(u, w0) /\ Standing(w0)
  <2>1. Standing(u)
    BY DEF Guarded
  <2>2. Aside(u, w0)
    BY <2>1 DEF Aside, Standing, GateKeys
  <2>. HIDE DEF w0
  <2>. QED
    BY <2>1, <2>2, AsideLeads DEF Leads
<1>. HIDE DEF w0
<1>3. Leads(u, Loop!VoicedFrame(Loop!EarlyBadge(w0, b), a, carry))
  <2>1. Leads(w0, Loop!EarlyBadge(w0, b)) /\ Standing(Loop!EarlyBadge(w0, b))
    BY <1>2, EarlyBadgeLeads DEF Leads
  <2>2. Leads(Loop!EarlyBadge(w0, b), Loop!VoicedFrame(Loop!EarlyBadge(w0, b), a, carry))
    BY <2>1, VoicedFrameLeads
  <2>. QED
    BY <1>2, <2>1, <2>2, LeadsOn
<1>4. Leads(u, Loop!SilentFrame(w0, a, cutAt)) /\ Leads(u, Loop!IdleFrame(w0, a))
  <2>1. Leads(w0, Loop!SilentFrame(w0, a, cutAt)) /\ Leads(w0, Loop!IdleFrame(w0, a))
    BY <1>2, SilentFrameLeads, IdleFrameLeads
  <2>. QED
    BY <1>2, <2>1, LeadsOn
<1>5. Leads(u, w1) /\ Standing(w1)
  BY <1>3, <1>4 DEF Leads
<1>. HIDE DEF w1
<1>6. Leads(u, w)
  <2>1. Aside(w1, [w1 EXCEPT !.stop = "break"])
    BY <1>5 DEF Aside, Standing, GateKeys
  <2>2. Leads(u, [w1 EXCEPT !.stop = "break"])
    BY <1>5, <2>1, AsideLeads, LeadsOn
  <2>. QED
    BY <1>5, <2>2
<1>. HIDE DEF w
<1>7. Standing(u') /\ (Cleared(u) => Cleared(u'))
  BY <1>1, <1>6 DEF Leads
<1>8. w.pending => Cleared(u')
  BY <1>1, <1>6 DEF Leads, Standing
<1>9. ASSUME threads' # {} \/ phase' = "await" \/ Delivered' PROVE Cleared(u')
  <2>1. CASE threads' # {} /\ threads' = threads
    BY <1>7, <2>1 DEF Guarded
  <2>2. CASE threads' # threads
    BY <1>1, <1>8, <2>2
  <2>3. CASE Delivered'
    <3>1. outcome' = outcome
      BY <1>1, <2>3 DEF Delivered
    <3>. QED
      BY <1>7, <2>3, <3>1 DEF Guarded, Delivered
  <2>. QED
    BY <1>1, <1>9, <2>1, <2>2, <2>3
<1>. QED
  BY <1>7, <1>9 DEF Guarded

\* The steps that leave the utterance's standing and its threads alone: only how it
\* ends may change, and it is delivered only from where its text is awaited.
LEMMA BesideGuards ==
    ASSUME Guarded, Aside(u, u'), threads' # {} => threads # {},
           phase' = "await" => phase = "await",
           Delivered' => Delivered \/ phase = "await"
    PROVE  Guarded'
<1>1. Leads(u, u')
  BY AsideLeads DEF Guarded
<1>. QED
  BY <1>1 DEF Guarded, Leads

LEMMA EndsGuard ==
    ASSUME Guarded, NEW p,
           Loop!CaptureStops(p) \/ Loop!EnrollmentPending \/ Loop!NothingCaptured
           \/ Loop!TooQuiet \/ (\E v \in Verdicts : Loop!SpeakerRejected(v))
    PROVE  Guarded'
<1>1. Aside(u, u')
  BY DEF Guarded, Standing, Aside, GateKeys, Loop!CaptureStops, Loop!EnrollmentPending,
         Loop!NothingCaptured, Loop!TooQuiet, Loop!SpeakerRejected
<1>2. threads' = threads /\ phase' \in {"ended", "done"}
      /\ (outcome' = outcome \/ outcome'.kind \in {"Silence", "DroppedLowEnergy",
                                                    "DroppedSpeaker"})
  BY DEF Loop!CaptureStops, Loop!EnrollmentPending, Loop!NothingCaptured, Loop!TooQuiet,
         Loop!SpeakerRejected, Loop!Return
<1>. QED
  BY <1>1, <1>2, BesideGuards DEF Delivered

LEMMA ThreadGuards == ASSUME Guarded, Loop!ThreadStep PROVE Guarded'
<1>1. ASSUME NEW v \in Verdicts, Loop!Score(v) PROVE Guarded'
  <2>1. Aside(u, u')
    BY <1>1 DEF Guarded, Standing, Aside, GateKeys, Loop!Score
  <2>. QED
    BY <1>1, <2>1, BesideGuards DEF Loop!Score, Delivered
<1>2. ASSUME NEW t \in threads, Loop!Answer(t) \/ (\E ok \in BOOLEAN : Loop!Store(t, ok))
      PROVE  Guarded'
  <2>1. Aside(u, u')
    BY <1>2 DEF Guarded, Standing, Aside, GateKeys, Loop!Answer, Loop!Store
  <2>. QED
    BY <1>2, <2>1, BesideGuards DEF Loop!Answer, Loop!Store, Delivered
<1>. QED
  BY <1>1, <1>2 DEF Loop!ThreadStep

LEMMA TextGuards ==
    ASSUME Guarded,
           Loop!SilentTail \/ Loop!StreamFinal \/ Loop!UseSpeculation \/ Loop!Fresh
           \/ Loop!FreshFails \/ Loop!Noise
    PROVE  Guarded'
<1>1. phase = "await" /\ phase' = "done" /\ threads' = threads
  BY DEF Loop!SilentTail, Loop!StreamFinal, Loop!UseSpeculation, Loop!Fresh, Loop!FreshText,
         Loop!FreshFails, Loop!Noise, Loop!Finish, Loop!Return
<1>2. Aside(u, u')
  BY DEF Guarded, Standing, Aside, GateKeys, Loop!SilentTail, Loop!StreamFinal,
         Loop!UseSpeculation, Loop!Fresh, Loop!FreshText, Loop!FreshFails, Loop!Noise
<1>. QED
  BY <1>1, <1>2, BesideGuards

\* The final check: only a pass goes on to the text.
LEMMA AcceptGuards ==
    ASSUME Guarded, NEW whole, Loop!Accept(whole) PROVE Guarded'
<1>. DEFINE plan == IF u.gate THEN Loop!Plan(u, Len(u.speech)) ELSE Loop!NoTrim
            kept == Loop!Keep(plan, u.speech)
            x == [u EXCEPT !.speech = kept, !.trimmed = @ \/ plan # Loop!NoTrim,
                           !.cut = @ \cup (Loop!Ids(u.speech) \ Loop!Ids(kept)),
                           !.transcribing = TRUE, !.vouched = TRUE,
                           !.silence = IF plan.trail = 0 \/ plan.trail > Len(u.speech) THEN @
                                       ELSE IF @ > Len(u.speech) - plan.trail
                                            THEN @ - (Len(u.speech) - plan.trail) ELSE 0]
<1>1. u' = Loop!TrimOf(x, plan) /\ threads' = threads /\ outcome' = outcome
  BY Zenon DEF Loop!Accept
<1>2. GateKeys \subseteq DOMAIN x /\ x.vouched /\ x.verified = u.verified
      /\ x.chunks = u.chunks /\ x.pending = u.pending
  BY DEF Guarded, Standing, GateKeys
<1>. HIDE DEF x
<1>3. Standing(x) /\ Cleared(x)
  BY <1>2 DEF Standing, Cleared
<1>4. Leads(x, Loop!TrimOf(x, plan))
  BY <1>3, InvalidateLeads, Stays DEF Loop!TrimOf
<1>. QED
  BY <1>1, <1>3, <1>4 DEF Leads, Guarded

LEMMA GuardedKept == Guarded /\ [Loop!Next]_(Loop!vars) => Guarded'
<1>. SUFFICES ASSUME Guarded, [Loop!Next]_(Loop!vars) PROVE Guarded'
  OBVIOUS
<1>1. CASE UNCHANGED Loop!vars
  BY <1>1 DEF Loop!vars, Guarded, Standing, Cleared, Delivered
<1>2. CASE Loop!LoopStep
  BY <1>2, FrameGuards, EndsGuard DEF Loop!LoopStep
<1>3. CASE Loop!EndStep
  BY <1>3, EndsGuard, AcceptGuards, TextGuards DEF Loop!EndStep
<1>4. CASE Loop!ThreadStep
  BY <1>4, ThreadGuards
<1>. QED
  BY <1>1, <1>2, <1>3, <1>4 DEF Loop!Next

\* UnverifiedIsNeverTranscribed, for every length of utterance, every onset, pause and
\* chunk length, every engine, and every score a window may get.
THEOREM OnlyTheVerifiedAreHeard == Loop!Spec => []UnverifiedIsNeverTranscribed
<1>1. Guarded => UnverifiedIsNeverTranscribed
  BY DEF Guarded, Standing, Cleared, UnverifiedIsNeverTranscribed
<1>. QED
  BY <1>1, GuardedAtFirst, GuardedKept, PTL DEF Loop!Spec

-----------------------------------------------------------------------------
(* EveryWordOnce: every step of the utterance moves frames in order, and      *)
(* drops none that was voiced but those it counts as cut.                     *)

\* A stretch of audio: the frames after a, one after the other.
Span(s, a) == s \in Seq(Int) /\ \A i \in 1..Len(s) : s[i] = a + i

LEMMA SpanIds ==
    ASSUME NEW s, NEW a \in Int, Span(s, a)
    PROVE  /\ s \in Seq(Int) /\ Len(s) \in Nat /\ DOMAIN s = 1..Len(s)
           /\ Ids(s) = (a + 1)..(a + Len(s)) /\ InOrder(s)
<1>1. s \in Seq(Int) /\ Len(s) \in Nat /\ DOMAIN s = 1..Len(s)
  BY LenProperties DEF Span
<1>2. InOrder(s)
  BY <1>1 DEF InOrder, Span
<1>3. ASSUME NEW x \in Ids(s) PROVE x \in (a + 1)..(a + Len(s))
  BY <1>1 DEF Ids, Span
<1>4. ASSUME NEW x \in (a + 1)..(a + Len(s)) PROVE x \in Ids(s)
  <2>1. x - a \in 1..Len(s) /\ a + (x - a) = x
    BY <1>1
  <2>2. s[x - a] = x
    BY <2>1 DEF Span
  <2>. QED
    BY <1>1, <2>1, <2>2 DEF Ids
<1>. QED
  BY <1>1, <1>2, <1>3, <1>4

LEMMA SpanPart ==
    ASSUME NEW s, NEW a \in Int, Span(s, a), NEW k \in Nat, NEW m \in Int, m <= Len(s)
    PROVE  /\ Span(SubSeq(s, k + 1, m), a + k)
           /\ Len(SubSeq(s, k + 1, m)) = IF k < m THEN m - k ELSE 0
           /\ Ids(SubSeq(s, k + 1, m)) = (a + k + 1)..(a + m)
<1>. DEFINE t == SubSeq(s, k + 1, m)
<1>1. Len(s) \in Nat
  BY SpanIds
<1>2. \A i \in (k + 1)..m : s[i] \in Int
  <2>1. \A i \in (k + 1)..m : i \in 1..Len(s)
    BY <1>1
  <2>. QED
    BY <2>1 DEF Span
<1>3. /\ t \in Seq(Int) /\ Len(t) = IF k + 1 <= m THEN m - (k + 1) + 1 ELSE 0
      /\ \A i \in 1..(m - (k + 1) + 1) : t[i] = s[k + 1 + i - 1]
  BY <1>2, SubSeqProperties
<1>. HIDE DEF t
<1>4. Len(t) = IF k < m THEN m - k ELSE 0
  BY <1>3
<1>5. ASSUME NEW i \in 1..Len(t) PROVE t[i] = a + k + i
  <2>1. i \in 1..(m - (k + 1) + 1) /\ k + 1 + i - 1 = k + i /\ k + i \in 1..Len(s)
    BY <1>1, <1>4
  <2>2. t[i] = s[k + i] /\ s[k + i] = a + (k + i)
    BY <1>3, <2>1 DEF Span
  <2>. QED
    BY <2>1, <2>2
<1>6. Span(t, a + k)
  BY <1>3, <1>5 DEF Span
<1>7. Ids(t) = (a + k + 1)..(a + k + Len(t))
  BY <1>6, SpanIds
<1>8. Ids(t) = (a + k + 1)..(a + m)
  <2>1. CASE k < m
    BY <1>4, <1>7, <2>1
  <2>2. CASE ~(k < m)
    <3>1. (a + k + 1)..(a + k + Len(t)) = {} /\ (a + k + 1)..(a + m) = {}
      BY <1>4, <2>2
    <3>. QED
      BY <1>7, <3>1
  <2>. QED
    BY <2>1, <2>2
<1>. QED
  BY <1>4, <1>6, <1>8 DEF t

LEMMA SpanHead ==
    ASSUME NEW s, NEW a \in Int, Span(s, a), NEW m \in Nat, m <= Len(s)
    PROVE  /\ Span(SubSeq(s, 1, m), a) /\ Len(SubSeq(s, 1, m)) = m
           /\ Ids(SubSeq(s, 1, m)) = (a + 1)..(a + m)
<1>1. ASSUME NEW k \in Nat, k = 0
      PROVE  /\ Span(SubSeq(s, k + 1, m), a + k) /\ Len(SubSeq(s, k + 1, m)) = m
             /\ Ids(SubSeq(s, k + 1, m)) = (a + k + 1)..(a + m)
             /\ k + 1 = 1 /\ a + k = a
  BY <1>1, SpanPart, SMTT(20)
<1>. QED
  BY <1>1

LEMMA SpanRest ==
    ASSUME NEW s, NEW a \in Int, Span(s, a), NEW k \in Nat, k <= Len(s)
    PROVE  LET t == SubSeq(s, k + 1, Len(s))
           IN  /\ Span(t, a + k) /\ Len(t) = Len(s) - k /\ Ids(t) = (a + k + 1)..(a + Len(s))
<1>1. Len(s) \in Nat
  BY SpanIds
<1>2. ASSUME NEW m \in Int, m = Len(s)
      PROVE  /\ Span(SubSeq(s, k + 1, m), a + k)
             /\ Len(SubSeq(s, k + 1, m)) = IF k < m THEN m - k ELSE 0
             /\ Ids(SubSeq(s, k + 1, m)) = (a + k + 1)..(a + m)
  <2>1. m <= Len(s)
    BY <1>1, <1>2
  <2>. QED
    BY <2>1, SpanPart
<1>. DEFINE t == SubSeq(s, k + 1, Len(s))
<1>3. /\ Span(t, a + k) /\ Len(t) = (IF k < Len(s) THEN Len(s) - k ELSE 0)
      /\ Ids(t) = (a + k + 1)..(a + Len(s))
  BY <1>1, <1>2
<1>. HIDE DEF t
<1>4. Len(t) = Len(s) - k
  BY <1>1, <1>3
<1>. QED
  BY <1>3, <1>4 DEF t

\* What is appended in order stays in order.
LEMMA OrderedMore ==
    ASSUME NEW s \in Seq(Int), InOrder(s), NEW x \in Int, \A y \in Ids(s) : y < x
    PROVE  /\ Append(s, x) \in Seq(Int) /\ InOrder(Append(s, x))
           /\ Ids(Append(s, x)) = Ids(s) \cup {x}
<1>. DEFINE t == Append(s, x)
            n == Len(s)
<1>1. n \in Nat /\ DOMAIN s = 1..n
  BY LenProperties
<1>2. t \in Seq(Int) /\ Len(t) = n + 1 /\ (\A i \in 1..n : t[i] = s[i]) /\ t[n + 1] = x
  BY AppendProperties
<1>. HIDE DEF t
<1>3. DOMAIN t = 1..(n + 1)
  BY <1>2, LenProperties
<1>4. \A i \in 1..n : s[i] \in Ids(s)
  BY <1>1 DEF Ids
<1>. HIDE DEF n
<1>5. \A i \in 1..(n + 1) : i = n + 1 \/ i \in 1..n
  BY <1>1
<1>6. ASSUME NEW i \in 1..(n + 1), NEW j \in 1..(n + 1), i < j PROVE t[i] < t[j]
  <2>1. i \in 1..n
    BY <1>1, <1>6
  <2>2. CASE j = n + 1
    BY <1>2, <1>4, <2>1, <2>2
  <2>3. CASE j \in 1..n
    BY <1>1, <1>2, <1>6, <2>1, <2>3 DEF InOrder
  <2>. QED
    BY <1>5, <2>2, <2>3
<1>7. Ids(t) = Ids(s) \cup {x}
  <2>1. ASSUME NEW y \in Ids(t) PROVE y \in Ids(s) \cup {x}
    BY <1>2, <1>3, <1>4, <1>5, <2>1 DEF Ids
  <2>2. ASSUME NEW y \in Ids(s) PROVE y \in Ids(t)
    <3>1. PICK i \in 1..n : y = s[i]
      BY <1>1 DEF Ids
    <3>2. i \in 1..(n + 1) /\ t[i] = y
      BY <1>1, <1>2, <3>1
    <3>. QED
      BY <1>3, <3>2 DEF Ids
  <2>3. x \in Ids(t)
    <3>1. n + 1 \in 1..(n + 1)
      BY <1>1
    <3>. QED
      BY <1>2, <1>3, <3>1 DEF Ids
  <2>. QED
    BY <2>1, <2>2, <2>3
<1>. QED
  BY <1>2, <1>3, <1>6, <1>7 DEF InOrder, t

LEMMA SpanMore ==
    ASSUME NEW s, NEW a \in Int, Span(s, a), NEW x \in Int, x = a + Len(s) + 1
    PROVE  /\ Span(Append(s, x), a) /\ Len(Append(s, x)) = Len(s) + 1
           /\ Ids(Append(s, x)) = Ids(s) \cup {x}
<1>1. s \in Seq(Int) /\ Len(s) \in Nat /\ Ids(s) = (a + 1)..(a + Len(s))
  BY SpanIds
<1>. DEFINE t == Append(s, x)
<1>2. t \in Seq(Int) /\ Len(t) = Len(s) + 1 /\ (\A i \in 1..Len(s) : t[i] = s[i])
      /\ t[Len(s) + 1] = x
  BY <1>1, AppendProperties
<1>. HIDE DEF t
<1>3. Span(t, a)
  <2>1. \A i \in 1..Len(t) : i \in 1..Len(s) \/ i = Len(s) + 1
    BY <1>1, <1>2
  <2>2. \A i \in 1..Len(s) : t[i] = a + i
    BY <1>2 DEF Span
  <2>3. t[Len(s) + 1] = a + (Len(s) + 1)
    BY <1>1, <1>2
  <2>. QED
    BY <1>2, <2>1, <2>2, <2>3 DEF Span
<1>4. Ids(t) = (a + 1)..(a + Len(t))
  BY <1>3, SpanIds
<1>5. (a + 1)..(a + Len(t)) = (a + 1)..(a + Len(s)) \cup {x}
  BY <1>1, <1>2
<1>. QED
  BY <1>1, <1>2, <1>3, <1>4, <1>5 DEF t

LEMMA OrderedJoin ==
    ASSUME NEW p \in Seq(Int), NEW q \in Seq(Int), InOrder(p), InOrder(q),
           \A x \in Ids(p), y \in Ids(q) : x < y
    PROVE  p \o q \in Seq(Int) /\ InOrder(p \o q) /\ Ids(p \o q) = Ids(p) \cup Ids(q)
<1>. DEFINE t == p \o q
            m == Len(p)
            n == Len(q)
<1>1. m \in Nat /\ n \in Nat /\ DOMAIN p = 1..m /\ DOMAIN q = 1..n
  BY LenProperties
<1>2. t \in Seq(Int) /\ Len(t) = m + n
      /\ \A i \in 1..(m + n) : t[i] = IF i <= m THEN p[i] ELSE q[i - m]
  BY ConcatProperties
<1>. HIDE DEF t
<1>3. DOMAIN t = 1..(m + n)
  BY <1>2, LenProperties
<1>4. (\A i \in 1..m : p[i] \in Ids(p)) /\ (\A i \in 1..n : q[i] \in Ids(q))
  BY <1>1 DEF Ids
<1>5. (\A i \in 1..m : i \in 1..(m + n) /\ t[i] = p[i])
      /\ (\A i \in 1..n : m + i \in 1..(m + n) /\ t[m + i] = q[i])
  <2>1. \A i \in 1..m : i \in 1..(m + n) /\ i <= m
    BY <1>1
  <2>2. \A i \in 1..n : m + i \in 1..(m + n) /\ ~(m + i <= m) /\ m + i - m = i
    BY <1>1
  <2>. QED
    BY <1>2, <2>1, <2>2, SMTT(20)
<1>. HIDE DEF m, n
<1>6. \A i \in 1..(m + n) : i \in 1..m \/ (i - m \in 1..n /\ m + (i - m) = i)
  BY <1>1
<1>7. ASSUME NEW i \in 1..(m + n), NEW j \in 1..(m + n), i < j PROVE t[i] < t[j]
  <2>1. CASE i \in 1..m /\ j \in 1..m
    BY <1>1, <1>5, <1>7, <2>1 DEF InOrder
  <2>2. CASE i \in 1..m /\ j - m \in 1..n /\ m + (j - m) = j
    <3>1. t[i] = p[i] /\ t[j] = q[j - m]
      BY <1>5, <2>2
    <3>. QED
      BY <1>4, <2>2, <3>1
  <2>3. CASE i - m \in 1..n /\ m + (i - m) = i /\ j - m \in 1..n /\ m + (j - m) = j
    <3>1. t[i] = q[i - m] /\ t[j] = q[j - m]
      BY <1>5, <2>3
    <3>2. i - m < j - m
      BY <1>1, <1>7
    <3>. QED
      BY <1>1, <2>3, <3>1, <3>2 DEF InOrder
  <2>4. ~(i - m \in 1..n /\ j \in 1..m)
    BY <1>1, <1>7
  <2>. QED
    BY <1>6, <2>1, <2>2, <2>3, <2>4
<1>8. ASSUME NEW x \in Ids(t) PROVE x \in Ids(p) \cup Ids(q)
  <2>1. PICK i \in 1..(m + n) : x = t[i]
    BY <1>3 DEF Ids
  <2>2. CASE i \in 1..m
    BY <1>4, <1>5, <2>1, <2>2
  <2>3. CASE i - m \in 1..n /\ m + (i - m) = i
    BY <1>4, <1>5, <2>1, <2>3
  <2>. QED
    BY <1>6, <2>2, <2>3
<1>9. ASSUME NEW x \in Ids(p) \cup Ids(q) PROVE x \in Ids(t)
  <2>1. CASE x \in Ids(p)
    <3>1. PICK i \in 1..m : x = p[i]
      BY <1>1, <2>1 DEF Ids
    <3>. QED
      BY <1>3, <1>5, <3>1 DEF Ids
  <2>2. CASE x \in Ids(q)
    <3>1. PICK i \in 1..n : x = q[i]
      BY <1>1, <2>2 DEF Ids
    <3>. QED
      BY <1>3, <1>5, <3>1 DEF Ids
  <2>. QED
    BY <2>1, <2>2
<1>. QED
  BY <1>2, <1>3, <1>7, <1>8, <1>9 DEF InOrder, t

LEMMA NoIds == Ids(<<>>) = {} /\ InOrder(<<>>) /\ <<>> \in Seq(Int)
               /\ \A a \in Int : Span(<<>>, a)
<1>1. <<>> \in Seq(Int) /\ Len(<<>>) = 0
  BY EmptySeq
<1>2. DOMAIN <<>> = 1..0
  BY <1>1, LenProperties
<1>. QED
  BY <1>1, <1>2 DEF Ids, InOrder, Span

\* The instance's copy is the same.
LEMMA SameIds == \A s : Loop!Ids(s) = Ids(s)
BY DEF Loop!Ids, Ids

\* What an engine gets, and what Groq does not.
LEMMA WithoutIs ==
    ASSUME NEW s, NEW a \in Int, Span(s, a), NEW silence \in Nat, NEW trimmed \in Nat
    PROVE  LET t == Loop!WithoutSilence(s, silence, trimmed)
           IN  /\ Span(t, a) /\ Ids(t) \subseteq Ids(s)
               /\ \A x \in Ids(s) :
                     backend # "groq" \/ x <= a + Len(s) + trimmed - silence => x \in Ids(t)
<1>. DEFINE k == IF backend = "groq" /\ silence > trimmed THEN silence - trimmed ELSE 0
            m == IF k < Len(s) THEN Len(s) - k ELSE 0
            t == SubSeq(s, 1, m)
<1>1. Len(s) \in Nat /\ Ids(s) = (a + 1)..(a + Len(s))
  BY SpanIds
<1>2. k \in Nat
  OBVIOUS
<1>3. m \in Nat /\ m <= Len(s)
  BY <1>1, <1>2
<1>5. Loop!WithoutSilence(s, silence, trimmed) = t
  BY DEF Loop!WithoutSilence
<1>6. ASSUME NEW x \in Ids(s), backend # "groq" \/ x <= a + Len(s) + trimmed - silence
      PROVE  x \in (a + 1)..(a + m)
  BY <1>1, <1>6
<1>. HIDE DEF m
<1>7. Span(t, a) /\ Ids(t) = (a + 1)..(a + m)
  BY <1>3, SpanHead
<1>. HIDE DEF t
<1>9. Ids(t) \subseteq Ids(s)
  BY <1>1, <1>3, <1>7
<1>. QED
  BY <1>5, <1>6, <1>7, <1>9

\* What a plan keeps.
LEMMA KeepIs ==
    ASSUME NEW s, NEW a \in Int, Span(s, a), NEW plan, plan.lead \in Nat, plan.trail \in Nat
    PROVE  LET t == Loop!Keep(plan, s)
               m == IF plan.trail = 0 \/ plan.trail > Len(s) THEN Len(s) ELSE plan.trail
           IN  /\ Span(t, a + plan.lead) /\ Len(t) = IF plan.lead < m THEN m - plan.lead ELSE 0
               /\ Ids(t) = (a + plan.lead + 1)..(a + m) /\ m \in Nat /\ m <= Len(s)
               /\ Ids(t) \subseteq Ids(s)
<1>. DEFINE m == IF plan.trail = 0 \/ plan.trail > Len(s) THEN Len(s) ELSE plan.trail
            t == SubSeq(s, plan.lead + 1, m)
<1>1. Len(s) \in Nat /\ Ids(s) = (a + 1)..(a + Len(s))
  BY SpanIds
<1>2. m \in Nat /\ m <= Len(s)
  BY <1>1
<1>3. Loop!Keep(plan, s) = t
  BY DEF Loop!Keep
<1>. HIDE DEF m
<1>4. /\ Span(t, a + plan.lead) /\ Len(t) = IF plan.lead < m THEN m - plan.lead ELSE 0
      /\ Ids(t) = (a + plan.lead + 1)..(a + m)
  BY <1>2, SpanPart, SMTT(20)
<1>. HIDE DEF t
<1>5. Ids(t) \subseteq Ids(s)
  BY <1>1, <1>2, <1>4
<1>. QED
  BY <1>2, <1>3, <1>4, <1>5 DEF m

\* A frame more is all the difference a frame more can make.
LEMMA KeepMore ==
    ASSUME NEW s, NEW a \in Int, Span(s, a), NEW plan, plan.lead \in Nat, plan.trail \in Nat,
           plan.trail <= Len(s), NEW x \in Int, x = a + Len(s) + 1
    PROVE  \A y : y # x => (y \in Ids(Loop!Keep(plan, s)) <=> y \in Ids(Loop!Keep(plan, Append(s, x))))
<1>. DEFINE t == Append(s, x)
            m == IF plan.trail = 0 \/ plan.trail > Len(s) THEN Len(s) ELSE plan.trail
            h == IF plan.trail = 0 \/ plan.trail > Len(t) THEN Len(t) ELSE plan.trail
<1>1. Len(s) \in Nat
  BY SpanIds
<1>2. Span(t, a) /\ Len(t) = Len(s) + 1
  BY SpanMore
<1>. HIDE DEF t
<1>3. Ids(Loop!Keep(plan, s)) = (a + plan.lead + 1)..(a + m)
  BY KeepIs
<1>4. Ids(Loop!Keep(plan, t)) = (a + plan.lead + 1)..(a + h)
  BY <1>2, KeepIs
<1>5. m \in Nat /\ h \in Nat /\ (h = m \/ (m = Len(s) /\ h = m + 1))
  BY <1>1, <1>2
<1>. HIDE DEF m, h
<1>6. ASSUME NEW y, y # x
      PROVE  y \in (a + plan.lead + 1)..(a + m) <=> y \in (a + plan.lead + 1)..(a + h)
  <2>1. CASE h = m
    BY <2>1
  <2>2. CASE m = Len(s) /\ h = m + 1
    BY <1>1, <1>6, <2>2
  <2>. QED
    BY <1>5, <2>1, <2>2
<1>. QED
  BY <1>3, <1>4, <1>6 DEF t

\* The windows that were scored: the first and the last of those judged are found.
Windows == [start : Nat, end : Nat, foreign : BOOLEAN]
Scored(ws) == ws \subseteq Windows /\ \A x \in ws : x.start <= x.end

LEMMA LeastOf ==
    ASSUME NEW T \in SUBSET Nat, T # {}
    PROVE  \E n \in T : \A m \in T : n <= m
<1>. DEFINE R == OpToRel(<, Nat)
<1>1. IsWellFoundedOn(R, Nat)
  BY NatLessThanWellFounded
<1>2. \A d, e \in Nat : d < e => <<d, e>> \in R
  BY DEF OpToRel
<1>. HIDE DEF R
<1>3. PICK d \in T : \A e \in T : ~(<<e, d>> \in R)
  BY <1>1, WFMin
<1>4. ASSUME NEW m \in T PROVE d <= m
  <2>1. d \in Nat /\ m \in Nat /\ ~(m < d)
    BY <1>2, <1>3
  <2>. QED
    BY <2>1
<1>. QED
  BY <1>4

LEMMA FirstIs ==
    ASSUME NEW ws \in SUBSET Windows, ws # {}
    PROVE  Loop!First(ws) \in ws
<1>. DEFINE T == {x.end : x \in ws}
<1>1. T \in SUBSET Nat /\ T # {}
  BY DEF Windows
<1>2. PICK n \in T : \A m \in T : n <= m
  BY <1>1, LeastOf
<1>3. \E x \in ws : \A y \in ws : x.end <= y.end
  BY <1>2
<1>. QED
  BY <1>3 DEF Loop!First

LEMMA LatestIs ==
    ASSUME NEW ws \in SUBSET Windows, ws # {}, NEW len \in Nat, \A x \in ws : x.end <= len
    PROVE  Loop!Latest(ws) \in ws
<1>. DEFINE T == {len - x.end : x \in ws}
<1>1. \A x \in ws : x.end \in Nat /\ len - x.end \in Nat
  BY DEF Windows
<1>2. T \in SUBSET Nat /\ T # {}
  BY <1>1
<1>3. PICK n \in T : \A m \in T : n <= m
  BY <1>2, LeastOf
<1>4. PICK x \in ws : n = len - x.end
  OBVIOUS
<1>5. ASSUME NEW y \in ws PROVE y.end <= x.end
  <2>1. len - x.end <= len - y.end
    BY <1>3, <1>4
  <2>. QED
    BY <1>1, <2>1
<1>. QED
  BY <1>5 DEF Loop!Latest

\* A plan cuts inside the buffer.
LEMMA PlanIs ==
    ASSUME NEW w, NEW len \in Nat, Scored(w.windows)
    PROVE  LET p == Loop!Plan(w, len)
           IN  p.lead \in Nat /\ p.trail \in Nat /\ (p.trail # 0 => p.trail < len)
<1>. DEFINE ws    == Loop!Judged(w, len)
            first == Loop!First(Loop!Mine(ws))
            last  == Loop!Latest(Loop!Mine(ws))
            lead  == IF Loop!Cardinality(Loop!Before(ws, first)) >= MinRun THEN first.start ELSE 0
            trail == IF Loop!Cardinality(Loop!Beyond(ws)) >= MinRun /\ last.end < len
                     THEN last.end ELSE 0
<1>1. Loop!Mine(ws) \in SUBSET Windows /\ \A x \in Loop!Mine(ws) : x.end <= len
  BY DEF Loop!Mine, Loop!Judged, Scored
<1>2. ASSUME Loop!Mine(ws) # {}
      PROVE  lead \in Nat /\ trail \in Nat /\ (trail # 0 => trail < len)
  <2>1. first \in Windows /\ last \in Windows
    BY <1>1, <1>2, FirstIs, LatestIs
  <2>2. first.start \in Nat /\ last.end \in Nat
    BY <2>1 DEF Windows
  <2>. QED
    BY <2>2
<1>3. \/ Loop!Plan(w, len) = Loop!NoTrim
      \/ Loop!Plan(w, len) = [lead |-> 0, trail |-> 1] /\ len > 1
      \/ Loop!Plan(w, len) = [lead |-> lead, trail |-> trail] /\ Loop!Mine(ws) # {}
  <2>1. CASE w.epoch # w.committed
    BY <2>1, Zenon DEF Loop!Plan
  <2>2. CASE w.epoch = w.committed /\ Loop!Mine(ws) = {}
    BY <2>2, Zenon DEF Loop!Plan
  <2>3. CASE w.epoch = w.committed /\ Loop!Mine(ws) # {}
    BY <2>3, Zenon DEF Loop!Plan
  <2>. QED
    BY <2>1, <2>2, <2>3
<1>. HIDE DEF lead, trail
<1>. QED
  BY <1>2, <1>3 DEF Loop!NoTrim

\* What is known of the frames of an utterance: the buffer is a stretch that begins
\* after frame a; what was flushed lies before it; every voiced frame was flushed, is in
\* the buffer or was cut, and nothing cut is anywhere else.
Whole(w, a) ==
    /\ Span(w.speech, a)
    /\ w.words \in Seq(Int) /\ InOrder(w.words)
    /\ w.flushed \in Seq(Int) /\ InOrder(w.flushed) /\ (\A x \in Ids(w.flushed) : x <= a)
    /\ Ids(w.words) \subseteq Ids(w.flushed) \cup Ids(w.speech) \cup w.cut
    /\ w.cut \cap (Ids(w.flushed) \cup Ids(w.speech)) = {}
    /\ w.tailVoiced \in Nat /\ (w.tailVoiced = 0 => Ids(w.words) \cap Ids(w.speech) = {})
    /\ w.chunks \in Nat /\ (w.chunks = 0 => w.flushed = <<>>)
    /\ ~w.trimmed => w.cut = {}

\* No voiced frame is among those Groq is not sent.
Quiet(w, a) ==
    /\ w.silence \in Nat
    /\ \/ w.cutInPause
       \/ \A x \in Ids(w.words) \cap Ids(w.speech) : x <= a + Len(w.speech) - w.silence
Closed(w) == \E a \in Int : Whole(w, a) /\ Quiet(w, a)

\* In the loop the buffer ends with the last frame, after the onset and before it.
Hearing(w) ==
    /\ w.n \in Nat /\ w.silence \in Nat /\ w.run \in Nat /\ ~w.tailCut
    /\ w.inSpeech /\ w.pre = <<>>
    /\ Whole(w, w.n - Len(w.speech))
    /\ \A x \in Ids(w.words) : x <= w.n - w.silence
    /\ \A x \in w.cut : x \in Int /\ x <= w.n
Waiting(w) ==
    /\ w.n \in Nat /\ w.silence \in Nat /\ w.run \in Nat /\ ~w.tailCut
    /\ ~w.inSpeech /\ w.words = <<>> /\ w.speech = <<>> /\ w.flushed = <<>> /\ w.cut = {}
    /\ w.tailVoiced \in Nat /\ w.chunks \in Nat
    /\ w.run < MinSpeech /\ w.run <= w.n
    /\ Span(w.pre, w.n - Len(w.pre)) /\ (Len(w.pre) = w.n \/ Len(w.pre) >= PreBuffer)

\* Scores are of audio there is; only with an embedder is anything scored, and the gate
\* is then not given up; what is speculated on was cleared.
JobKeys == {"kind", "verdict", "len", "scored", "committed"}
Checked(w) ==
    /\ w.job # Loop!NoJob => /\ w.embedder /\ DOMAIN w.job = JobKeys
                             /\ w.job.len \in Nat /\ w.job.scored \in 0..w.job.len
    /\ w.embedder => w.gate
    /\ w.pending /\ w.gate => w.verified
    /\ Scored(w.windows)

AudioKeys == {"n", "words", "pre", "speech", "flushed", "chunks", "run", "silence", "inSpeech",
              "tailVoiced", "cut", "tailCut", "cutInPause", "trimmed"}
OtherKeys == {"job", "windows", "gate", "embedder", "verified", "pending", "specTrim", "gen",
              "stop"}
SoundKeys == AudioKeys \cup OtherKeys
Steady(w) ==
    /\ SoundKeys \subseteq DOMAIN w /\ w.gen \in Nat /\ Checked(w)
    /\ w.stop = "no" => Hearing(w)
    /\ w.tailCut \/ Closed(w)

\* A speculation is kept only with the audio and the plan it was made from; the tail
\* monitor's cut alone does not heed it.
Carries(w, v) ==
    /\ w.gen <= v.gen
    /\ v.pending /\ ~v.tailCut =>
           /\ w.pending /\ ~w.tailCut /\ v.gen = w.gen /\ v.specTrim = w.specTrim
           /\ v.words = w.words /\ v.speech = w.speech /\ v.flushed = w.flushed

\* What a step changes of an utterance.
Only(w, v, K) == DOMAIN v = DOMAIN w /\ \A k \in DOMAIN w \ K : v[k] = w[k]

LEMMA OnlyIs ==
    ASSUME NEW w, NEW v, NEW K, SoundKeys \subseteq DOMAIN w, Only(w, v, K)
    PROVE  SoundKeys \subseteq DOMAIN v /\ \A k \in SoundKeys \ K : v[k] = w[k]
BY DEF Only

LEMMA OnlyBoth ==
    ASSUME NEW w, NEW x, NEW v, NEW K, NEW L, NEW M, Only(w, x, K), Only(x, v, L),
           K \subseteq M, L \subseteq M
    PROVE  Only(w, v, M)
BY DEF Only

LEMMA CarriesOn ==
    ASSUME NEW w, NEW x, NEW v, Carries(w, x), Carries(x, v),
           w.gen \in Nat, x.gen \in Nat, v.gen \in Nat
    PROVE  Carries(w, v)
BY DEF Carries

LEMMA HearingCloses == ASSUME NEW w, Hearing(w) PROVE Closed(w)
<1>1. Len(w.speech) \in Nat
  BY LenProperties DEF Hearing, Whole, Span
<1>. DEFINE a == w.n - Len(w.speech)
<1>2. a \in Int /\ a + Len(w.speech) = w.n
  BY <1>1 DEF Hearing
<1>. HIDE DEF a
<1>3. Whole(w, a)
  BY DEF Hearing, a
<1>4. Quiet(w, a)
  <2>1. \A x \in Ids(w.words) : x <= a + Len(w.speech) - w.silence
    BY <1>2 DEF Hearing
  <2>. QED
    BY <2>1 DEF Quiet, Hearing
<1>. QED
  BY <1>2, <1>3, <1>4 DEF Closed

LEMMA WaitingCloses == ASSUME NEW w, Waiting(w) PROVE Closed(w)
<1>1. /\ Whole(w, w.n)
      /\ Quiet(w, w.n)
  BY NoIds DEF Waiting, Whole, Quiet
<1>. QED
  BY <1>1 DEF Closed, Waiting

\* What touches neither the audio nor the speculation.
LEMMA Unheard ==
    ASSUME NEW w, NEW v, NEW K, SoundKeys \subseteq DOMAIN w, Only(w, v, K),
           K \cap AudioKeys = {}
    PROVE  /\ Hearing(w) => Hearing(v)
           /\ Closed(w) => Closed(v)
           /\ v.tailCut = w.tailCut
<1>1. \A k \in AudioKeys : v[k] = w[k]
  BY OnlyIs DEF SoundKeys
<1>2. /\ v.n = w.n /\ v.words = w.words /\ v.pre = w.pre /\ v.speech = w.speech
      /\ v.flushed = w.flushed /\ v.chunks = w.chunks /\ v.run = w.run
      /\ v.silence = w.silence /\ v.inSpeech = w.inSpeech /\ v.tailVoiced = w.tailVoiced
      /\ v.cut = w.cut /\ v.tailCut = w.tailCut /\ v.cutInPause = w.cutInPause
      /\ v.trimmed = w.trimmed
  BY <1>1 DEF AudioKeys
<1>3. \A a : (Whole(w, a) => Whole(v, a)) /\ (Quiet(w, a) => Quiet(v, a))
  BY <1>2 DEF Whole, Quiet
<1>4. Hearing(w) => Hearing(v)
  BY <1>2, <1>3 DEF Hearing
<1>5. Closed(w) => Closed(v)
  BY <1>3 DEF Closed
<1>. QED
  BY <1>2, <1>4, <1>5

LEMMA UnheardSteady ==
    ASSUME NEW w, NEW v, NEW K, Steady(w), Only(w, v, K),
           K \cap AudioKeys = {}, K \cap {"pending", "specTrim", "gen", "stop"} = {}, Checked(v)
    PROVE  Steady(v) /\ Carries(w, v) /\ v.stop = w.stop
<1>1. SoundKeys \subseteq DOMAIN w
  BY DEF Steady
<1>2. SoundKeys \subseteq DOMAIN v /\ \A k \in SoundKeys \ K : v[k] = w[k]
  BY <1>1, OnlyIs
<1>3. /\ v.pending = w.pending /\ v.specTrim = w.specTrim /\ v.gen = w.gen /\ v.stop = w.stop
      /\ v.words = w.words /\ v.speech = w.speech /\ v.flushed = w.flushed
  BY <1>2 DEF SoundKeys, OtherKeys, AudioKeys
<1>4. (Hearing(w) => Hearing(v)) /\ (Closed(w) => Closed(v)) /\ v.tailCut = w.tailCut
  BY <1>1, Unheard
<1>5. Carries(w, v)
  BY <1>3, <1>4 DEF Carries, Steady
<1>. QED
  BY <1>2, <1>3, <1>4, <1>5 DEF Steady

LEMMA InvalidateIs ==
    ASSUME NEW w, SoundKeys \subseteq DOMAIN w
    PROVE  /\ Only(w, Loop!Invalidate(w), {"pending", "gen"})
           /\ ~Loop!Invalidate(w).pending /\ Loop!Invalidate(w).gen = w.gen + 1
<1>1. "pending" \in DOMAIN w /\ "gen" \in DOMAIN w
  BY DEF SoundKeys, OtherKeys
<1>. QED
  BY <1>1 DEF Loop!Invalidate, Only

\* The generation advances, and nothing that was speculated is wanted any more.
LEMMA Withdrawn ==
    ASSUME NEW w, w.gen \in Nat, SoundKeys \subseteq DOMAIN w, Checked(w),
           (w.stop = "no" => Hearing(w)), w.tailCut \/ Closed(w)
    PROVE  Steady(Loop!Invalidate(w)) /\ Carries(w, Loop!Invalidate(w))
           /\ Loop!Invalidate(w).stop = w.stop
<1>. DEFINE v == Loop!Invalidate(w)
<1>1. Only(w, v, {"pending", "gen"}) /\ ~v.pending /\ v.gen = w.gen + 1
  BY InvalidateIs
<1>. HIDE DEF v
<1>2. SoundKeys \subseteq DOMAIN v /\ \A k \in SoundKeys \ {"pending", "gen"} : v[k] = w[k]
  BY <1>1, OnlyIs
<1>3. {"pending", "gen"} \cap AudioKeys = {}
  BY DEF AudioKeys
<1>4. (Hearing(w) => Hearing(v)) /\ (Closed(w) => Closed(v)) /\ v.tailCut = w.tailCut
  BY <1>1, <1>3, Unheard
<1>5. /\ v.job = w.job /\ v.windows = w.windows /\ v.gate = w.gate
      /\ v.embedder = w.embedder /\ v.stop = w.stop
  BY <1>2 DEF SoundKeys, OtherKeys
<1>6. Checked(v)
  BY <1>1, <1>5 DEF Checked
<1>. QED
  BY <1>1, <1>2, <1>4, <1>5, <1>6 DEF Steady, Carries, v

LEMMA StaysSteady ==
    ASSUME NEW w, Steady(w) PROVE Steady(w) /\ Carries(w, w)
BY DEF Carries, Steady

LEMMA HeardLength ==
    ASSUME NEW w, Hearing(w)
    PROVE  Len(w.speech) \in Nat /\ w.n - Len(w.speech) \in Int /\ w.n \in Nat
           /\ (w.n - Len(w.speech)) + Len(w.speech) = w.n
           /\ Span(w.speech, w.n - Len(w.speech))
<1>1. Len(w.speech) \in Nat
  BY LenProperties DEF Hearing, Whole, Span
<1>. QED
  BY <1>1 DEF Hearing, Whole

LEMMA SpawnSteady ==
    ASSUME NEW w, Steady(w), w.stop = "no", w.embedder, NEW kind,
           NEW scored \in 0..Len(w.speech)
    PROVE  LET v == Loop!Spawn(w, kind, scored)
           IN  Steady(v) /\ Carries(w, v) /\ v.stop = w.stop
<1>. DEFINE v == Loop!Spawn(w, kind, scored)
<1>1. SoundKeys \subseteq DOMAIN w /\ Hearing(w) /\ "job" \in DOMAIN w
  BY DEF Steady, SoundKeys, OtherKeys
<1>2. Only(w, v, {"job"})
  BY <1>1 DEF Loop!Spawn, Only
<1>3. /\ v.job.len = Len(w.speech) /\ v.job.scored = scored /\ DOMAIN v.job = JobKeys
  BY <1>1 DEF Loop!Spawn, JobKeys
<1>. HIDE DEF v
<1>4. \A k \in SoundKeys \ {"job"} : v[k] = w[k]
  BY <1>1, <1>2, OnlyIs
<1>5. /\ v.windows = w.windows /\ v.gate = w.gate /\ v.embedder = w.embedder
      /\ v.pending = w.pending /\ v.verified = w.verified
  BY <1>4 DEF SoundKeys, OtherKeys
<1>6. Checked(v)
  BY <1>1, <1>3, <1>5, HeardLength DEF Checked, Steady
<1>7. {"job"} \cap AudioKeys = {} /\ {"job"} \cap {"pending", "specTrim", "gen", "stop"} = {}
  BY DEF AudioKeys
<1>. QED
  BY <1>2, <1>6, <1>7, UnheardSteady DEF v

LEMMA SpawnWindowSteady ==
    ASSUME Loop!FrameAssumption, NEW w, Steady(w)
    PROVE  Steady(Loop!SpawnWindow(w)) /\ Carries(w, Loop!SpawnWindow(w))
           /\ Loop!SpawnWindow(w).stop = w.stop
<1>1. CASE Loop!SpawnWindow(w) = w
  BY <1>1, StaysSteady
<1>2. CASE Loop!SpawnWindow(w) # w
  <2>. DEFINE scored == IF Len(w.speech) < Window THEN Len(w.speech) ELSE Window
  <2>1. /\ w.stop = "no" /\ w.embedder
        /\ Loop!SpawnWindow(w) = Loop!Spawn(w, "Window", scored)
    BY <1>2, Zenon DEF Loop!SpawnWindow
  <2>2. Len(w.speech) \in Nat
    BY <2>1, HeardLength DEF Steady
  <2>3. scored \in 0..Len(w.speech)
    BY <2>2 DEF Loop!FrameAssumption
  <2>. HIDE DEF scored
  <2>. QED
    BY <2>1, <2>3, SpawnSteady
<1>. QED
  BY <1>1, <1>2

LEMMA SpawnTentativeSteady ==
    ASSUME NEW w, Steady(w)
    PROVE  Steady(Loop!SpawnTentative(w)) /\ Carries(w, Loop!SpawnTentative(w))
           /\ Loop!SpawnTentative(w).stop = w.stop
<1>1. CASE Loop!SpawnTentative(w) = w
  BY <1>1, StaysSteady
<1>2. CASE Loop!SpawnTentative(w) # w
  <2>1. /\ w.stop = "no" /\ w.embedder
        /\ Loop!SpawnTentative(w) = Loop!Spawn(w, "Tentative", Len(w.speech))
    BY <1>2, Zenon DEF Loop!SpawnTentative
  <2>2. Len(w.speech) \in Nat
    BY <2>1, HeardLength DEF Steady
  <2>3. Len(w.speech) \in 0..Len(w.speech)
    BY <2>2
  <2>. QED
    BY <2>1, <2>3, SpawnSteady
<1>. QED
  BY <1>1, <1>2

LEMMA FailOpenSteady ==
    ASSUME NEW w, Steady(w)
    PROVE  Steady(Loop!FailOpen(w)) /\ Carries(w, Loop!FailOpen(w))
           /\ Loop!FailOpen(w).stop = w.stop
<1>1. CASE Loop!FailOpen(w) = w
  BY <1>1, StaysSteady
<1>2. CASE Loop!FailOpen(w) # w
  <2>. DEFINE v == [w EXCEPT !.gate = FALSE]
  <2>1. ~w.embedder /\ Loop!FailOpen(w) = v
    BY <1>2, Zenon DEF Loop!FailOpen
  <2>2. Only(w, v, {"gate"})
    BY DEF Only
  <2>. HIDE DEF v
  <2>3. \A k \in SoundKeys \ {"gate"} : v[k] = w[k]
    BY <2>2, OnlyIs DEF Steady
  <2>4. /\ v.windows = w.windows /\ v.job = w.job /\ v.embedder = w.embedder
        /\ v.pending = w.pending /\ v.verified = w.verified
    BY <2>3 DEF SoundKeys, OtherKeys
  <2>5. ~v.gate
    BY DEF v, Steady, SoundKeys, OtherKeys
  <2>6. Checked(v)
    BY <2>1, <2>4, <2>5 DEF Checked, Steady
  <2>7. {"gate"} \cap AudioKeys = {} /\ {"gate"} \cap {"pending", "specTrim", "gen", "stop"} = {}
    BY DEF AudioKeys
  <2>8. Steady(v) /\ Carries(w, v) /\ v.stop = w.stop
    BY <2>2, <2>6, <2>7, UnheardSteady
  <2>. QED
    BY <2>1, <2>8
<1>. QED
  BY <1>1, <1>2

LEMMA PushSteady ==
    ASSUME NEW w, Steady(w), NEW x \in Windows, x.start <= x.end
    PROVE  Steady(Loop!Push(w, x)) /\ Carries(w, Loop!Push(w, x)) /\ Loop!Push(w, x).stop = w.stop
           /\ Only(w, Loop!Push(w, x), {"windows", "epoch", "userBefore"})
<1>. DEFINE K == {"windows", "epoch", "userBefore"}
            v == Loop!Push(w, x)
<1>1. "windows" \in DOMAIN w /\ SoundKeys \subseteq DOMAIN w
  BY DEF Steady, SoundKeys, OtherKeys
<1>2. /\ Only(w, v, K)
      /\ v.windows = w.windows \cup {x} \/ v.windows = {x}
  <2>1. CASE w.epoch = w.committed
    <3>1. v = [w EXCEPT !.windows = @ \cup {x}]
      BY <2>1, Zenon DEF Loop!Push
    <3>. QED
      BY <1>1, <3>1 DEF Only
  <2>2. CASE w.epoch # w.committed
    <3>1. v = [w EXCEPT !.windows = {x}, !.epoch = w.committed,
                   !.userBefore = IF w.windows = {} THEN @ ELSE ~Loop!Latest(w.windows).foreign]
      BY <2>2, Zenon DEF Loop!Push
    <3>. QED
      BY <1>1, <3>1 DEF Only
  <2>. QED
    BY <2>1, <2>2
<1>. HIDE DEF v
<1>3. \A k \in SoundKeys \ K : v[k] = w[k]
  BY <1>1, <1>2, OnlyIs
<1>. HIDE DEF K
<1>4. /\ v.job = w.job /\ v.gate = w.gate /\ v.embedder = w.embedder
      /\ v.pending = w.pending /\ v.verified = w.verified
  BY <1>3 DEF SoundKeys, OtherKeys, K
<1>5. Checked(v)
  BY <1>2, <1>4 DEF Checked, Scored, Steady
<1>6. K \cap AudioKeys = {} /\ K \cap {"pending", "specTrim", "gen", "stop"} = {}
  BY DEF AudioKeys, K
<1>7. Steady(v) /\ Carries(w, v) /\ v.stop = w.stop
  BY <1>2, <1>5, <1>6, UnheardSteady
<1>. QED
  BY <1>2, <1>7 DEF v, K

LEMMA ForgetSteady ==
    ASSUME NEW w, Steady(w)
    PROVE  LET v == [w EXCEPT !.job = Loop!NoJob]
           IN  Steady(v) /\ Carries(w, v) /\ v.stop = w.stop /\ Only(w, v, {"job"})
<1>. DEFINE v == [w EXCEPT !.job = Loop!NoJob]
<1>1. Only(w, v, {"job"}) /\ v.job = Loop!NoJob /\ SoundKeys \subseteq DOMAIN w
  BY DEF Only, Steady, SoundKeys, OtherKeys
<1>. HIDE DEF v
<1>2. \A k \in SoundKeys \ {"job"} : v[k] = w[k]
  BY <1>1, OnlyIs
<1>3. /\ v.windows = w.windows /\ v.gate = w.gate /\ v.embedder = w.embedder
      /\ v.pending = w.pending /\ v.verified = w.verified
  BY <1>2 DEF SoundKeys, OtherKeys
<1>4. Checked(v)
  BY <1>1, <1>3 DEF Checked, Steady
<1>5. {"job"} \cap AudioKeys = {} /\ {"job"} \cap {"pending", "specTrim", "gen", "stop"} = {}
  BY DEF AudioKeys
<1>6. Steady(v) /\ Carries(w, v) /\ v.stop = w.stop
  BY <1>1, <1>4, <1>5, UnheardSteady
<1>. QED
  BY <1>1, <1>6 DEF v

\* What a cut takes is counted, and Groq's silence is only counted on what it left.
LEMMA CutAtIs ==
    ASSUME NEW w, SoundKeys \subseteq DOMAIN w, NEW k
    PROVE  LET v == Loop!CutAt(w, k)
           IN  /\ Only(w, v, {"speech", "stop", "cut", "cutInPause"})
               /\ v.speech = SubSeq(w.speech, 1, k) /\ v.stop = "break"
               /\ v.cut = w.cut \cup Ids(SubSeq(w.speech, k + 1, Len(w.speech)))
               /\ v.cutInPause = (w.cutInPause \/ w.silence > 0)
<1>1. {"speech", "stop", "cut", "cutInPause"} \subseteq DOMAIN w
  BY DEF SoundKeys, AudioKeys, OtherKeys
<1>2. Loop!Ids(SubSeq(w.speech, k + 1, Len(w.speech))) = Ids(SubSeq(w.speech, k + 1, Len(w.speech)))
  BY SameIds
<1>. QED
  BY <1>1, <1>2 DEF Loop!CutAt, Only

LEMMA TrailCutSteady ==
    ASSUME NEW w, Steady(w), w.stop = "no", NEW k \in Nat, k <= Len(w.speech)
    PROVE  LET v == Loop!Invalidate([Loop!CutAt(w, k) EXCEPT !.trimmed = TRUE])
           IN  Steady(v) /\ Carries(w, v)
<1>. DEFINE c == Loop!CutAt(w, k)
            K == {"speech", "stop", "cut", "cutInPause", "trimmed"}
            v == [c EXCEPT !.trimmed = TRUE]
            a == w.n - Len(w.speech)
<1>1. SoundKeys \subseteq DOMAIN w /\ Hearing(w) /\ "trimmed" \in DOMAIN w
  BY DEF Steady, SoundKeys, AudioKeys
<1>2. /\ Only(w, c, {"speech", "stop", "cut", "cutInPause"})
      /\ c.speech = SubSeq(w.speech, 1, k) /\ c.stop = "break"
      /\ c.cut = w.cut \cup Ids(SubSeq(w.speech, k + 1, Len(w.speech)))
      /\ c.cutInPause = (w.cutInPause \/ w.silence > 0)
  BY <1>1, CutAtIs
<1>. HIDE DEF c
<1>3. Only(w, v, K) /\ v.trimmed
  BY <1>1, <1>2 DEF Only
<1>4. /\ v.speech = SubSeq(w.speech, 1, k) /\ v.stop = "break"
      /\ v.cut = w.cut \cup Ids(SubSeq(w.speech, k + 1, Len(w.speech)))
      /\ v.cutInPause = (w.cutInPause \/ w.silence > 0)
  BY <1>2
<1>. HIDE DEF v
<1>5. SoundKeys \subseteq DOMAIN v /\ \A i \in SoundKeys \ K : v[i] = w[i]
  BY <1>1, <1>3, OnlyIs
<1>6. /\ v.words = w.words /\ v.flushed = w.flushed /\ v.chunks = w.chunks
      /\ v.silence = w.silence /\ v.tailVoiced = w.tailVoiced /\ v.tailCut = w.tailCut
      /\ v.job = w.job /\ v.windows = w.windows /\ v.gate = w.gate /\ v.gen = w.gen
      /\ v.embedder = w.embedder /\ v.pending = w.pending /\ v.verified = w.verified
  BY <1>5 DEF SoundKeys, AudioKeys, OtherKeys
<1>7. Checked(v)
  BY <1>6 DEF Checked, Steady
<1>8. Len(w.speech) \in Nat /\ a \in Int /\ w.n \in Nat /\ a + Len(w.speech) = w.n
  BY <1>1, HeardLength
<1>9. Whole(w, a) /\ w.silence \in Nat
  BY <1>1 DEF Hearing
<1>. HIDE DEF a
<1>10. Span(w.speech, a) /\ Ids(w.speech) = (a + 1)..(a + Len(w.speech))
  BY <1>8, <1>9, SpanIds DEF Whole
<1>11. Span(v.speech, a) /\ Len(v.speech) = k /\ Ids(v.speech) = (a + 1)..(a + k)
  <2>1. /\ Span(SubSeq(w.speech, 1, k), a) /\ Len(SubSeq(w.speech, 1, k)) = k
        /\ Ids(SubSeq(w.speech, 1, k)) = (a + 1)..(a + k)
    BY <1>8, <1>10, SpanHead
  <2>. QED
    BY <1>4, <2>1
<1>12. v.cut = w.cut \cup (a + k + 1)..(a + Len(w.speech))
  <2>1. Ids(SubSeq(w.speech, k + 1, Len(w.speech))) = (a + k + 1)..(a + Len(w.speech))
    BY <1>8, <1>10, SpanRest
  <2>. QED
    BY <1>4, <2>1
<1>13. /\ Ids(w.speech) = Ids(v.speech) \cup (a + k + 1)..(a + Len(w.speech))
       /\ Ids(v.speech) \subseteq Ids(w.speech)
       /\ Ids(v.speech) \cap (a + k + 1)..(a + Len(w.speech)) = {}
  BY <1>8, <1>10, <1>11
<1>14. \A x \in Ids(w.flushed) : x \notin (a + k + 1)..(a + Len(w.speech))
  BY <1>8, <1>9 DEF Whole
<1>15. Whole(v, a)
  BY <1>3, <1>6, <1>9, <1>11, <1>12, <1>13, <1>14 DEF Whole
<1>16. Quiet(v, a)
  <2>1. CASE w.silence > 0
    BY <1>4, <1>6, <1>9, <2>1 DEF Quiet
  <2>2. CASE w.silence = 0
    BY <1>6, <1>8, <1>9, <1>11, <2>2 DEF Quiet
  <2>. QED
    BY <1>9, <2>1, <2>2
<1>17. Closed(v)
  BY <1>8, <1>15, <1>16 DEF Closed
<1>18. v.gen \in Nat /\ v.stop # "no"
  BY <1>4, <1>6 DEF Steady
<1>19. /\ Only(v, Loop!Invalidate(v), {"pending", "gen"})
       /\ ~Loop!Invalidate(v).pending /\ Loop!Invalidate(v).gen = v.gen + 1
  BY <1>5, InvalidateIs
<1>20. Carries(w, Loop!Invalidate(v))
  BY <1>6, <1>18, <1>19 DEF Carries
<1>. QED
  BY <1>5, <1>7, <1>17, <1>18, <1>20, Withdrawn DEF v, c

LEMMA TailMonitorSteady ==
    ASSUME NEW w, Steady(w), NEW j
    PROVE  Steady(Loop!TailMonitor(w, j)) /\ Carries(w, Loop!TailMonitor(w, j))
<1>1. SoundKeys \subseteq DOMAIN w
  BY DEF Steady
<1>2. CASE Loop!TailMonitor(w, j) = w
  BY <1>2, StaysSteady
<1>3. ASSUME NEW v, Only(w, v, {"tailFail", "confirmed"}) PROVE Steady(v) /\ Carries(w, v)
  <2>1. \A k \in SoundKeys \ {"tailFail", "confirmed"} : v[k] = w[k]
    BY <1>1, <1>3, OnlyIs
  <2>2. Checked(v)
    BY <2>1 DEF Checked, Steady, SoundKeys, OtherKeys
  <2>3. /\ {"tailFail", "confirmed"} \cap AudioKeys = {}
        /\ {"tailFail", "confirmed"} \cap {"pending", "specTrim", "gen", "stop"} = {}
    BY DEF AudioKeys
  <2>. QED
    BY <1>3, <2>2, <2>3, UnheardSteady
<1>4. CASE \/ Loop!TailMonitor(w, j) = [w EXCEPT !.tailFail = 0, !.confirmed = j.len]
           \/ Loop!TailMonitor(w, j) = [w EXCEPT !.tailFail = @ + 1]
  <2>1. Only(w, Loop!TailMonitor(w, j), {"tailFail", "confirmed"})
    BY <1>4 DEF Only
  <2>. QED
    BY <1>3, <2>1
<1>5. CASE Loop!TailMonitor(w, j) = [Loop!CutAt(w, w.confirmed) EXCEPT !.tailCut = TRUE]
  <2>. DEFINE c == Loop!CutAt(w, w.confirmed)
              v == [c EXCEPT !.tailCut = TRUE]
              K == {"speech", "stop", "cut", "cutInPause", "tailCut"}
  <2>1. Only(w, c, {"speech", "stop", "cut", "cutInPause"}) /\ c.stop = "break"
    BY <1>1, CutAtIs
  <2>. HIDE DEF c
  <2>2. "tailCut" \in DOMAIN c
    BY <1>1, <2>1 DEF Only, SoundKeys, AudioKeys
  <2>3. Only(w, v, K) /\ v.tailCut /\ v.stop = "break"
    BY <2>1, <2>2 DEF Only
  <2>. HIDE DEF v
  <2>4. SoundKeys \subseteq DOMAIN v /\ \A k \in SoundKeys \ K : v[k] = w[k]
    BY <1>1, <2>3, OnlyIs
  <2>5. /\ v.job = w.job /\ v.windows = w.windows /\ v.gate = w.gate /\ v.gen = w.gen
        /\ v.embedder = w.embedder /\ v.pending = w.pending /\ v.verified = w.verified
    BY <2>4 DEF SoundKeys, OtherKeys
  <2>6. Checked(v)
    BY <2>5 DEF Checked, Steady
  <2>7. Steady(v)
    BY <2>3, <2>4, <2>5, <2>6 DEF Steady
  <2>8. Carries(w, v)
    BY <2>3, <2>5 DEF Carries, Steady
  <2>. QED
    BY <1>5, <2>7, <2>8 DEF v, c
<1>6. \/ Loop!TailMonitor(w, j) = w
      \/ Loop!TailMonitor(w, j) = [w EXCEPT !.tailFail = 0, !.confirmed = j.len]
      \/ Loop!TailMonitor(w, j) = [w EXCEPT !.tailFail = @ + 1]
      \/ Loop!TailMonitor(w, j) = [Loop!CutAt(w, w.confirmed) EXCEPT !.tailCut = TRUE]
  BY Zenon DEF Loop!TailMonitor
<1>. QED
  BY <1>2, <1>4, <1>5, <1>6

\* A drained front leaves windows of the rest.
LEMMA DrainFrontScored ==
    ASSUME NEW ws, Scored(ws), NEW k \in Nat
    PROVE  Scored(Loop!DrainFront(ws, k))
<1>1. ASSUME NEW y \in Loop!DrainFront(ws, k)
      PROVE  y \in Windows /\ y.start <= y.end
  <2>1. PICK x \in ws : x.start >= k /\ y = [x EXCEPT !.start = @ - k, !.end = @ - k]
    BY <1>1 DEF Loop!DrainFront
  <2>2. x \in Windows /\ x.start <= x.end
    BY DEF Scored
  <2>3. x.start \in Nat /\ x.end \in Nat
    BY <2>2 DEF Windows
  <2>4. x = [start |-> x.start, end |-> x.end, foreign |-> x.foreign] /\ x.foreign \in BOOLEAN
    BY <2>2 DEF Windows
  <2>5. y = [start |-> x.start - k, end |-> x.end - k, foreign |-> x.foreign]
    BY <2>1, <2>4
  <2>6. x.start - k \in Nat /\ x.end - k \in Nat /\ x.start - k <= x.end - k
    BY <2>1, <2>2, <2>3
  <2>. QED
    BY <2>4, <2>5, <2>6 DEF Windows
<1>. QED
  BY <1>1 DEF Scored

LEMMA VerifySteady ==
    ASSUME NEW w, Steady(w), w.stop = "no", ~w.pending, NEW j,
           j.len \in Nat, j.scored \in 0..j.len, j.len <= Len(w.speech)
    PROVE  Steady(Loop!Verify(w, j)) /\ Carries(w, Loop!Verify(w, j))
<1>. DEFINE planned == Loop!Plan(w, Len(w.speech)).lead
            free    == j.len - j.scored
            lead    == IF planned < free THEN planned ELSE free
            K == {"verified", "vouched", "shown", "tailFail", "speech", "windows", "cut",
                  "confirmed", "trimmed"}
            v == Loop!Verify(w, j)
            a == w.n - Len(w.speech)
<1>1. SoundKeys \subseteq DOMAIN w /\ Hearing(w) /\ Scored(w.windows)
  BY DEF Steady, Checked
<1>2. Len(w.speech) \in Nat /\ a \in Int /\ w.n \in Nat /\ a + Len(w.speech) = w.n
  BY <1>1, HeardLength
<1>3. planned \in Nat
  BY <1>1, <1>2, PlanIs
<1>. HIDE DEF planned
<1>4. lead \in Nat /\ lead <= Len(w.speech)
  BY <1>2, <1>3
<1>5. v = [w EXCEPT !.verified = TRUE, !.vouched = TRUE, !.shown = TRUE, !.tailFail = 0,
                  !.speech = SubSeq(@, lead + 1, Len(@)),
                  !.windows = IF lead = 0 THEN @ ELSE Loop!DrainFront(@, lead),
                  !.cut = @ \cup Loop!Ids(SubSeq(w.speech, 1, lead)),
                  !.confirmed = IF lead < j.len THEN j.len - lead ELSE 0,
                  !.trimmed = @ \/ lead > 0]
  BY DEF Loop!Verify, planned
<1>. HIDE DEF lead
<1>6. {"verified", "speech", "windows", "cut", "trimmed"} \subseteq DOMAIN w
  BY <1>1 DEF SoundKeys, AudioKeys, OtherKeys
<1>7. /\ Only(w, v, K) /\ v.verified
      /\ v.speech = SubSeq(w.speech, lead + 1, Len(w.speech))
      /\ v.windows = (IF lead = 0 THEN w.windows ELSE Loop!DrainFront(w.windows, lead))
      /\ v.cut = w.cut \cup Ids(SubSeq(w.speech, 1, lead))
      /\ v.trimmed = (w.trimmed \/ lead > 0)
  BY <1>5, <1>6, SameIds DEF Only
<1>. HIDE DEF v
<1>8. SoundKeys \subseteq DOMAIN v /\ \A i \in SoundKeys \ K : v[i] = w[i]
  BY <1>1, <1>7, OnlyIs
<1>. HIDE DEF K
<1>9. /\ v.n = w.n /\ v.words = w.words /\ v.flushed = w.flushed /\ v.chunks = w.chunks
      /\ v.silence = w.silence /\ v.tailVoiced = w.tailVoiced /\ v.tailCut = w.tailCut
      /\ v.job = w.job /\ v.gate = w.gate /\ v.gen = w.gen /\ v.run = w.run
      /\ v.embedder = w.embedder /\ v.pending = w.pending /\ v.inSpeech = w.inSpeech
      /\ v.pre = w.pre /\ v.stop = w.stop
  BY <1>8 DEF SoundKeys, AudioKeys, OtherKeys, K
<1>10. Scored(v.windows)
  BY <1>1, <1>4, <1>7, DrainFrontScored
<1>11. Checked(v)
  BY <1>7, <1>9, <1>10 DEF Checked, Steady
<1>12. Whole(w, a)
  BY <1>1 DEF Hearing
<1>. HIDE DEF a
<1>13. Span(w.speech, a) /\ Ids(w.speech) = (a + 1)..(a + Len(w.speech))
  BY <1>2, <1>12, SpanIds DEF Whole
<1>14. /\ Span(v.speech, a + lead) /\ Len(v.speech) = Len(w.speech) - lead
       /\ Ids(v.speech) = (a + lead + 1)..(a + Len(w.speech))
  <2>1. /\ Span(SubSeq(w.speech, lead + 1, Len(w.speech)), a + lead)
        /\ Len(SubSeq(w.speech, lead + 1, Len(w.speech))) = Len(w.speech) - lead
        /\ Ids(SubSeq(w.speech, lead + 1, Len(w.speech))) = (a + lead + 1)..(a + Len(w.speech))
    BY <1>2, <1>4, <1>13, SpanRest
  <2>. QED
    BY <1>7, <2>1
<1>15. v.cut = w.cut \cup (a + 1)..(a + lead)
  <2>1. Ids(SubSeq(w.speech, 1, lead)) = (a + 1)..(a + lead)
    BY <1>2, <1>4, <1>13, SpanHead
  <2>. QED
    BY <1>7, <2>1
<1>16. /\ Ids(w.speech) = Ids(v.speech) \cup (a + 1)..(a + lead)
       /\ Ids(v.speech) \subseteq Ids(w.speech)
       /\ Ids(v.speech) \cap (a + 1)..(a + lead) = {}
  BY <1>2, <1>4, <1>13, <1>14, SMTT(20)
<1>17. /\ \A x \in Ids(w.flushed) : x <= a + lead /\ x \notin (a + 1)..(a + lead)
       /\ \A x \in (a + 1)..(a + lead) : x \in Int /\ x <= w.n
  <2>1. \A x \in Ids(w.flushed) : x \in Int /\ x <= a
    BY <1>12 DEF Whole, Ids
  <2>. QED
    BY <1>2, <1>4, <2>1
<1>18. ~v.trimmed => v.cut = {}
  <2>1. ASSUME ~v.trimmed PROVE lead = 0 /\ w.cut = {}
    <3>1. ~w.trimmed /\ ~(lead > 0)
      BY <1>7, <2>1, Zenon
    <3>2. lead = 0
      BY <1>4, <3>1
    <3>3. w.cut = {}
      BY <1>12, <3>1, Zenon DEF Whole
    <3>. QED
      BY <3>2, <3>3
  <2>2. ASSUME lead = 0 PROVE (a + 1)..(a + lead) = {}
    BY <1>2, <2>2
  <2>. QED
    BY <1>15, <2>1, <2>2
<1>19. Whole(v, a + lead)
  BY <1>9, <1>12, <1>14, <1>15, <1>16, <1>17, <1>18 DEF Whole
<1>20. v.n - Len(v.speech) = a + lead
  BY <1>2, <1>4, <1>9, <1>14
<1>21. Hearing(v)
  BY <1>1, <1>9, <1>15, <1>17, <1>19, <1>20 DEF Hearing
<1>22. Closed(v)
  BY <1>21, HearingCloses
<1>23. Steady(v)
  BY <1>8, <1>9, <1>11, <1>21, <1>22 DEF Steady
<1>24. Carries(w, v)
  BY <1>9 DEF Carries, Steady
<1>. QED
  BY <1>23, <1>24 DEF v

LEMMA Untouched ==
    ASSUME NEW w, Steady(w), NEW v, NEW K, Only(w, v, K), K \cap SoundKeys = {}
    PROVE  Steady(v) /\ Carries(w, v) /\ \A k \in SoundKeys : v[k] = w[k]
<1>1. \A k \in SoundKeys : v[k] = w[k]
  <2>1. SoundKeys \subseteq DOMAIN w
    BY DEF Steady
  <2>. QED
    BY <2>1, OnlyIs
<1>2. K \cap AudioKeys = {} /\ K \cap {"pending", "specTrim", "gen", "stop"} = {}
  BY DEF SoundKeys, OtherKeys
<1>3. /\ v.job = w.job /\ v.windows = w.windows /\ v.gate = w.gate
      /\ v.embedder = w.embedder /\ v.pending = w.pending /\ v.verified = w.verified
  BY <1>1 DEF SoundKeys, OtherKeys
<1>4. Checked(v)
  BY <1>3 DEF Checked, Steady
<1>. QED
  BY <1>1, <1>2, <1>4, UnheardSteady

\* The loop is left, with what was heard so far.
LEMMA LeavingSteady ==
    ASSUME NEW w, Steady(w), NEW v, NEW K, Only(w, v, K), K \cap SoundKeys = {"stop"},
           v.stop # "no"
    PROVE  Steady(v) /\ Carries(w, v)
<1>1. SoundKeys \subseteq DOMAIN w
  BY DEF Steady
<1>2. SoundKeys \subseteq DOMAIN v /\ \A k \in SoundKeys \ {"stop"} : v[k] = w[k]
  BY <1>1, OnlyIs
<1>3. /\ v.job = w.job /\ v.windows = w.windows /\ v.gate = w.gate /\ v.gen = w.gen
      /\ v.embedder = w.embedder /\ v.pending = w.pending /\ v.verified = w.verified
      /\ v.specTrim = w.specTrim /\ v.words = w.words /\ v.speech = w.speech
      /\ v.flushed = w.flushed
  BY <1>2 DEF SoundKeys, OtherKeys, AudioKeys
<1>4. "stop" \notin AudioKeys
  BY DEF AudioKeys
<1>5. K \cap AudioKeys = {}
  BY <1>4 DEF SoundKeys
<1>6. (Closed(w) => Closed(v)) /\ v.tailCut = w.tailCut
  BY <1>1, <1>5, Unheard
<1>7. Checked(v)
  BY <1>3 DEF Checked, Steady
<1>. QED
  BY <1>2, <1>3, <1>6, <1>7 DEF Steady, Carries

LEMMA LadderSteady ==
    ASSUME NEW w, Steady(w), w.stop = "no", ~w.pending, w.embedder, NEW j,
           j.len \in Nat, j.scored \in 0..j.len, j.len <= Len(w.speech)
    PROVE  Steady(Loop!Ladder(w, j)) /\ Carries(w, Loop!Ladder(w, j))
<1>1. \/ Loop!Ladder(w, j) = Loop!Verify(w, j)
      \/ Loop!Ladder(w, j) = w
      \/ Loop!Ladder(w, j) = [w EXCEPT !.shown = FALSE, !.transcribing = FALSE,
                                       !.stop = "dropped"]
      \/ Loop!Ladder(w, j) = [w EXCEPT !.gateFail = @ + 1]
      \/ Loop!Ladder(w, j) = Loop!Spawn([w EXCEPT !.gateFail = @ + 1], "Decisive", Len(w.speech))
  BY Zenon DEF Loop!Ladder
<1>2. CASE Loop!Ladder(w, j) = Loop!Verify(w, j)
  BY <1>2, VerifySteady
<1>3. CASE Loop!Ladder(w, j) = w
  BY <1>3, StaysSteady
<1>4. CASE Loop!Ladder(w, j) = [w EXCEPT !.shown = FALSE, !.transcribing = FALSE,
                                         !.stop = "dropped"]
  <2>. DEFINE v == [w EXCEPT !.shown = FALSE, !.transcribing = FALSE, !.stop = "dropped"]
              K == {"shown", "transcribing", "stop"}
  <2>1. Only(w, v, K) /\ v.stop = "dropped"
    BY DEF Only, Steady, SoundKeys, OtherKeys
  <2>. HIDE DEF v
  <2>2. K \cap SoundKeys = {"stop"}
    BY DEF SoundKeys, OtherKeys, AudioKeys
  <2>. HIDE DEF K
  <2>3. Steady(v) /\ Carries(w, v)
    BY <2>1, <2>2, LeavingSteady
  <2>. QED
    BY <1>4, <2>3 DEF v
<1>. DEFINE g == [w EXCEPT !.gateFail = @ + 1]
<1>5. /\ Steady(g) /\ Carries(w, g) /\ g.stop = "no" /\ g.embedder /\ g.speech = w.speech
      /\ g.gen \in Nat
  <2>1. Only(w, g, {"gateFail"})
    BY DEF Only
  <2>2. {"gateFail"} \cap SoundKeys = {}
    BY DEF SoundKeys, OtherKeys, AudioKeys
  <2>. HIDE DEF g
  <2>3. Steady(g) /\ Carries(w, g) /\ \A k \in SoundKeys : g[k] = w[k]
    BY <2>1, <2>2, Untouched
  <2>4. g.stop = w.stop /\ g.embedder = w.embedder /\ g.speech = w.speech
    BY <2>3 DEF SoundKeys, OtherKeys, AudioKeys
  <2>. QED
    BY <2>3, <2>4 DEF Steady
<1>6. CASE Loop!Ladder(w, j) = g
  BY <1>5, <1>6
<1>7. CASE Loop!Ladder(w, j) = Loop!Spawn(g, "Decisive", Len(w.speech))
  <2>. HIDE DEF g
  <2>1. Len(g.speech) \in Nat
    BY <1>5, HeardLength DEF Steady
  <2>2. Len(g.speech) \in 0..Len(g.speech)
    BY <2>1
  <2>. DEFINE v == Loop!Spawn(g, "Decisive", Len(g.speech))
  <2>3. Steady(v) /\ Carries(g, v)
    BY <1>5, <2>2, SpawnSteady
  <2>4. v = Loop!Ladder(w, j)
    BY <1>5, <1>7
  <2>. HIDE DEF v
  <2>5. Carries(w, v)
    <3>1. w.gen \in Nat /\ v.gen \in Nat
      BY <2>3 DEF Steady
    <3>. QED
      BY <1>5, <2>3, <3>1, CarriesOn
  <2>. QED
    BY <2>3, <2>4, <2>5
<1>. HIDE DEF g
<1>. QED
  BY <1>1, <1>2, <1>3, <1>4, <1>6, <1>7 DEF g

LEMMA ApplyVerdictSteady ==
    ASSUME Loop!FrameAssumption, NEW w, Steady(w), w.stop = "no"
    PROVE  Steady(Loop!ApplyVerdict(w)) /\ Carries(w, Loop!ApplyVerdict(w))
<1>1. CASE Loop!ApplyVerdict(w) = w
  BY <1>1, StaysSteady
<1>2. CASE Loop!ApplyVerdict(w) # w
  <2>. DEFINE j  == w.job
              w0 == [w EXCEPT !.job = Loop!NoJob]
              x  == [start |-> j.len - j.scored, end |-> j.len,
                     foreign |-> Loop!IsForeign(j.verdict)]
              w1 == IF j.kind = "Window" /\ j.scored >= Window THEN Loop!Push(w0, x) ELSE w0
              p  == Loop!Plan(w1, Len(w1.speech))
              cut == Loop!Invalidate([Loop!CutAt(w1, p.trail) EXCEPT !.trimmed = TRUE])
  <2>1. /\ w.job # Loop!NoJob
        /\ \/ Loop!ApplyVerdict(w) = w0
           \/ ~Loop!Stale(w) /\ p.trail > 0 /\ Loop!ApplyVerdict(w) = cut
           \/ ~Loop!Stale(w) /\ w1.verified /\ Loop!ApplyVerdict(w) = Loop!TailMonitor(w1, j)
           \/ ~Loop!Stale(w) /\ ~w1.verified /\ Loop!ApplyVerdict(w) = Loop!Ladder(w1, j)
    BY <1>2, Zenon DEF Loop!ApplyVerdict
  <2>2. /\ Steady(w0) /\ Carries(w, w0) /\ w0.stop = "no" /\ w0.gen \in Nat /\ w.gen \in Nat
        /\ Only(w, w0, {"job"})
    BY ForgetSteady DEF Steady
  <2>3. /\ w.embedder /\ w.job.len \in Nat /\ w.job.scored \in 0..w.job.len
        /\ w.gate /\ (w.pending => w.verified)
    BY <2>1 DEF Steady, Checked
  <2>. HIDE DEF w0
  <2>4. x \in Windows /\ x.start <= x.end
    BY <2>3 DEF Windows, Loop!IsForeign
  <2>. HIDE DEF x
  <2>. DEFINE W == {"windows", "epoch", "userBefore"}
  <2>5. /\ Steady(w1) /\ Carries(w0, w1) /\ w1.stop = "no"
        /\ Only(w0, w1, W)
    <3>1. CASE w1 = w0
      BY <2>2, <3>1, StaysSteady DEF Only
    <3>2. CASE w1 = Loop!Push(w0, x)
      BY <2>2, <2>4, <3>2, PushSteady
    <3>. QED
      BY <3>1, <3>2
  <2>. HIDE DEF w1
  <2>6. /\ w1.speech = w.speech /\ w1.pending = w.pending /\ w1.embedder = w.embedder
        /\ w1.verified = w.verified
    <3>1. SoundKeys \subseteq DOMAIN w /\ SoundKeys \subseteq DOMAIN w0
      BY <2>2 DEF Steady
    <3>2. \A k \in SoundKeys \ {"job"} : w0[k] = w[k]
      BY <2>2, <3>1, OnlyIs
    <3>3. \A k \in SoundKeys \ W : w1[k] = w0[k]
      BY <2>5, <3>1, OnlyIs
    <3>. QED
      BY <3>2, <3>3 DEF SoundKeys, AudioKeys, OtherKeys
  <2>7. w1.gen \in Nat /\ Carries(w, w1)
    <3>1. w1.gen \in Nat
      BY <2>5 DEF Steady
    <3>. QED
      BY <2>2, <2>5, <3>1, CarriesOn
  <2>8. Len(w1.speech) \in Nat
    BY <2>5, HeardLength DEF Steady
  <2>9. ASSUME ~Loop!Stale(w) PROVE w.job.len <= Len(w1.speech)
    BY <2>3, <2>6, <2>8, <2>9 DEF Loop!Stale
  <2>10. ASSUME NEW v, Steady(v), Carries(w1, v) PROVE Carries(w, v)
    <3>1. v.gen \in Nat
      BY <2>10 DEF Steady
    <3>. QED
      BY <2>2, <2>7, <2>10, <3>1, CarriesOn
  <2>11. CASE Loop!ApplyVerdict(w) = w0
    BY <2>2, <2>11
  <2>12. CASE p.trail > 0 /\ Loop!ApplyVerdict(w) = cut
    <3>1. p.trail \in Nat /\ p.trail <= Len(w1.speech)
      <4>1. Scored(w1.windows)
        BY <2>5 DEF Steady, Checked
      <4>2. p.trail \in Nat /\ (p.trail # 0 => p.trail < Len(w1.speech))
        BY <2>8, <4>1, PlanIs
      <4>. HIDE DEF p
      <4>. QED
        BY <2>8, <2>12, <4>2
    <3>. HIDE DEF p
    <3>2. Steady(cut) /\ Carries(w1, cut)
      BY <2>5, <3>1, TrailCutSteady
    <3>. HIDE DEF cut
    <3>. QED
      BY <2>10, <2>12, <3>2
  <2>13. CASE Loop!ApplyVerdict(w) = Loop!TailMonitor(w1, j)
    BY <2>5, <2>10, <2>13, TailMonitorSteady
  <2>14. CASE /\ ~Loop!Stale(w) /\ ~w1.verified /\ Loop!ApplyVerdict(w) = Loop!Ladder(w1, j)
    <3>1. ~w1.pending /\ w1.embedder
      BY <2>3, <2>6, <2>14
    <3>2. Steady(Loop!Ladder(w1, j)) /\ Carries(w1, Loop!Ladder(w1, j))
      BY <2>3, <2>5, <2>9, <2>14, <3>1, LadderSteady
    <3>. QED
      BY <2>10, <2>14, <3>2
  <2>. QED
    BY <2>1, <2>11, <2>12, <2>13, <2>14
<1>. QED
  BY <1>1, <1>2

LEMMA HardFlushSteady ==
    ASSUME Loop!FrameAssumption, NEW w, Steady(w), NEW carry \in 0..1
    PROVE  Steady(Loop!HardFlush(w, carry)) /\ Carries(w, Loop!HardFlush(w, carry))
<1>1. CASE Loop!HardFlush(w, carry) = w
  BY <1>1, StaysSteady
<1>2. CASE Loop!HardFlush(w, carry) # w
  <2>. DEFINE i == Loop!Invalidate(w)
              cut == Len(w.speech) - carry
              a == w.n - Len(w.speech)
              v == [i EXCEPT !.chunks = @ + 1, !.flushed = @ \o SubSeq(w.speech, 1, cut),
              !.speech = SubSeq(@, cut + 1, Len(@)), !.committed = @ + cut,
              !.fresh = carry > 0, !.tailVoiced = carry, !.confirmed = carry,
              !.tailFail = 0, !.gateFail = 0]
              K == {"chunks", "flushed", "speech", "committed", "fresh", "tailVoiced", "confirmed",
                    "tailFail", "gateFail", "pending", "gen"}
  <2>1. w.stop = "no" /\ Len(w.speech) >= HardMax /\ Loop!HardFlush(w, carry) = v
    BY <1>2, Zenon DEF Loop!HardFlush
  <2>2. SoundKeys \subseteq DOMAIN w /\ Hearing(w) /\ w.gen \in Nat
    BY <2>1 DEF Steady
  <2>3. /\ Only(w, i, {"pending", "gen"}) /\ ~i.pending /\ i.gen = w.gen + 1
        /\ {"chunks", "flushed", "speech", "tailVoiced"} \subseteq DOMAIN i
        /\ i.chunks = w.chunks /\ i.flushed = w.flushed /\ i.speech = w.speech
    <3>1. Only(w, i, {"pending", "gen"}) /\ ~i.pending /\ i.gen = w.gen + 1
      BY <2>2, InvalidateIs
    <3>. HIDE DEF i
    <3>2. SoundKeys \subseteq DOMAIN i /\ \A k \in SoundKeys \ {"pending", "gen"} : i[k] = w[k]
      BY <2>2, <3>1, OnlyIs
    <3>. QED
      BY <3>1, <3>2 DEF SoundKeys, AudioKeys
  <2>. HIDE DEF i
  <2>4. Len(w.speech) \in Nat /\ a \in Int /\ w.n \in Nat /\ a + Len(w.speech) = w.n
    BY <2>2, HeardLength
  <2>5. carry \in Nat /\ cut \in Nat /\ cut <= Len(w.speech) /\ Len(w.speech) - cut = carry
    <3>1. HardMax \in Int /\ HardMax >= 1
      BY DEF Loop!FrameAssumption
    <3>2. Len(w.speech) >= 1
      BY <2>1, <2>4, <3>1
    <3>3. carry \in Nat /\ carry <= 1
      OBVIOUS
    <3>. QED
      BY <2>4, <3>2, <3>3
  <2>. HIDE DEF cut
  <2>6. /\ Only(w, v, K) /\ ~v.pending /\ v.gen = w.gen + 1 /\ v.chunks = w.chunks + 1
        /\ v.flushed = w.flushed \o SubSeq(w.speech, 1, cut)
        /\ v.speech = SubSeq(w.speech, cut + 1, Len(w.speech)) /\ v.tailVoiced = carry
    <3>1. Only(i, v, (K \ {"pending", "gen"}))
      BY Zenon DEF Only
    <3>2. /\ v.chunks = i.chunks + 1 /\ v.flushed = i.flushed \o SubSeq(w.speech, 1, cut)
          /\ v.speech = SubSeq(i.speech, cut + 1, Len(i.speech)) /\ v.tailVoiced = carry
      BY <2>3
    <3>. HIDE DEF v
    <3>3. /\ {"pending", "gen"} \subseteq K /\ (K \ {"pending", "gen"}) \subseteq K
          /\ {"pending", "gen"} \cap (K \ {"pending", "gen"}) = {}
      OBVIOUS
    <3>4. Only(w, v, K)
      BY <2>3, <3>1, <3>3, OnlyBoth
    <3>5. v.pending = i.pending /\ v.gen = i.gen
      BY <2>2, <2>3, <3>1 DEF Only, SoundKeys, OtherKeys
    <3>. QED
      BY <2>3, <3>2, <3>4, <3>5
  <2>. HIDE DEF v
  <2>7. SoundKeys \subseteq DOMAIN v /\ \A k \in SoundKeys \ K : v[k] = w[k]
    BY <2>2, <2>6, OnlyIs
  <2>. HIDE DEF K
  <2>8. /\ v.n = w.n /\ v.words = w.words /\ v.cut = w.cut /\ v.trimmed = w.trimmed
        /\ v.silence = w.silence /\ v.tailCut = w.tailCut /\ v.run = w.run
        /\ v.job = w.job /\ v.gate = w.gate /\ v.verified = w.verified /\ v.windows = w.windows
        /\ v.embedder = w.embedder /\ v.inSpeech = w.inSpeech
        /\ v.pre = w.pre /\ v.stop = w.stop
    BY <2>7 DEF SoundKeys, AudioKeys, OtherKeys, K
  <2>9. Checked(v)
    BY <2>6, <2>8 DEF Checked, Steady
  <2>10. Whole(w, a)
    BY <2>2 DEF Hearing
  <2>. HIDE DEF a
  <2>11. Span(w.speech, a) /\ Ids(w.speech) = (a + 1)..(a + Len(w.speech))
    BY <2>4, <2>10, SpanIds DEF Whole
  <2>. DEFINE p == SubSeq(w.speech, 1, cut)
              q == SubSeq(w.speech, cut + 1, Len(w.speech))
  <2>12. Span(p, a) /\ Ids(p) = (a + 1)..(a + cut)
    BY <2>4, <2>5, <2>11, SpanHead
  <2>13. /\ Span(q, a + cut) /\ Len(q) = Len(w.speech) - cut
         /\ Ids(q) = (a + cut + 1)..(a + Len(w.speech))
    BY <2>4, <2>5, <2>11, SpanRest
  <2>. HIDE DEF p, q
  <2>14. v.flushed = w.flushed \o p /\ v.speech = q
    BY <2>6 DEF p, q
  <2>15. \A x \in Ids(w.flushed) : x \in Int /\ x <= a
    BY <2>10 DEF Whole, Ids
  <2>16. /\ v.flushed \in Seq(Int) /\ InOrder(v.flushed)
         /\ Ids(v.flushed) = Ids(w.flushed) \cup Ids(p)
    <3>1. w.flushed \in Seq(Int) /\ InOrder(w.flushed)
      BY <2>10 DEF Whole
    <3>2. p \in Seq(Int) /\ InOrder(p)
      BY <2>4, <2>12, SpanIds
    <3>3. \A x \in Ids(w.flushed), y \in Ids(p) : x < y
      BY <2>4, <2>12, <2>15
    <3>. QED
      BY <2>14, <3>1, <3>2, <3>3, OrderedJoin
  <2>17. \A x \in Ids(v.flushed) : x <= a + cut
    BY <2>4, <2>5, <2>12, <2>15, <2>16
  <2>18. Ids(w.speech) = Ids(p) \cup Ids(q)
    BY <2>4, <2>5, <2>11, <2>12, <2>13
  <2>19. carry = 0 => Ids(q) = {}
    BY <2>4, <2>5, <2>13
  <2>20. v.chunks \in Nat /\ v.chunks # 0
    BY <2>6, <2>10, SMTT(20) DEF Whole
  <2>21. Whole(v, a + cut)
    BY <2>5, <2>6, <2>8, <2>10, <2>13, <2>14, <2>16, <2>17, <2>18, <2>19, <2>20 DEF Whole
  <2>22. v.n - Len(v.speech) = a + cut
    <3>1. Len(v.speech) = carry
      BY <2>5, <2>13, <2>14
    <3>. QED
      BY <2>4, <2>5, <2>8, <3>1
  <2>23. Hearing(v)
    BY <2>2, <2>8, <2>21, <2>22 DEF Hearing
  <2>24. Closed(v)
    BY <2>23, HearingCloses
  <2>25. Steady(v)
    BY <2>2, <2>6, <2>7, <2>9, <2>23, <2>24, SMTT(20) DEF Steady
  <2>26. Carries(w, v)
    BY <2>2, <2>6 DEF Carries
  <2>. QED
    BY <2>1, <2>25, <2>26
<1>. QED
  BY <1>1, <1>2

LEMMA SoftFlushSteady ==
    ASSUME NEW w, Steady(w), w.stop = "no"
    PROVE  Steady(Loop!SoftFlush(w)) /\ Carries(w, Loop!SoftFlush(w))
           /\ Loop!SoftFlush(w).stop = "no"
<1>1. CASE Loop!SoftFlush(w) = w
  BY <1>1, StaysSteady
<1>2. CASE Loop!SoftFlush(w) # w
  <2>. DEFINE i == Loop!Invalidate(w)
              t == Loop!WithoutSilence(w.speech, w.silence, 0)
              a == w.n - Len(w.speech)
              v == [i EXCEPT !.chunks = @ + 1,
              !.flushed = @ \o t,
              !.speech = <<>>, !.committed = @ + Len(w.speech),
              !.fresh = FALSE, !.tailVoiced = 0, !.confirmed = 0, !.tailFail = 0]
              K == {"chunks", "flushed", "speech", "committed", "fresh", "tailVoiced", "confirmed",
                    "tailFail", "pending", "gen"}
  <2>1. Loop!SoftFlush(w) = v
    BY <1>2, Zenon DEF Loop!SoftFlush
  <2>2. SoundKeys \subseteq DOMAIN w /\ Hearing(w) /\ w.gen \in Nat
    BY DEF Steady
  <2>3. /\ Only(w, i, {"pending", "gen"}) /\ ~i.pending /\ i.gen = w.gen + 1
        /\ {"chunks", "flushed", "speech", "tailVoiced"} \subseteq DOMAIN i
        /\ i.chunks = w.chunks /\ i.flushed = w.flushed /\ i.speech = w.speech
    <3>1. Only(w, i, {"pending", "gen"}) /\ ~i.pending /\ i.gen = w.gen + 1
      BY <2>2, InvalidateIs
    <3>. HIDE DEF i
    <3>2. SoundKeys \subseteq DOMAIN i /\ \A k \in SoundKeys \ {"pending", "gen"} : i[k] = w[k]
      BY <2>2, <3>1, OnlyIs
    <3>. QED
      BY <3>1, <3>2 DEF SoundKeys, AudioKeys
  <2>. HIDE DEF i
  <2>4. Len(w.speech) \in Nat /\ a \in Int /\ w.n \in Nat /\ a + Len(w.speech) = w.n
    BY <2>2, HeardLength
  <2>. HIDE DEF t
  <2>6. /\ Only(w, v, K) /\ ~v.pending /\ v.gen = w.gen + 1 /\ v.chunks = w.chunks + 1
        /\ v.flushed = w.flushed \o t /\ v.speech = <<>> /\ v.tailVoiced = 0
    <3>1. Only(i, v, (K \ {"pending", "gen"}))
      BY Zenon DEF Only
    <3>2. /\ v.chunks = i.chunks + 1 /\ v.flushed = i.flushed \o t
          /\ v.speech = <<>> /\ v.tailVoiced = 0
      BY <2>3
    <3>. HIDE DEF v
    <3>3. /\ {"pending", "gen"} \subseteq K /\ (K \ {"pending", "gen"}) \subseteq K
          /\ {"pending", "gen"} \cap (K \ {"pending", "gen"}) = {}
      OBVIOUS
    <3>4. Only(w, v, K)
      BY <2>3, <3>1, <3>3, OnlyBoth
    <3>5. v.pending = i.pending /\ v.gen = i.gen
      BY <2>2, <2>3, <3>1 DEF Only, SoundKeys, OtherKeys
    <3>. QED
      BY <2>3, <3>2, <3>4, <3>5
  <2>. HIDE DEF v
  <2>7. SoundKeys \subseteq DOMAIN v /\ \A k \in SoundKeys \ K : v[k] = w[k]
    BY <2>2, <2>6, OnlyIs
  <2>. HIDE DEF K
  <2>8. /\ v.n = w.n /\ v.words = w.words /\ v.cut = w.cut /\ v.trimmed = w.trimmed
        /\ v.silence = w.silence /\ v.tailCut = w.tailCut /\ v.run = w.run
        /\ v.job = w.job /\ v.gate = w.gate /\ v.verified = w.verified /\ v.windows = w.windows
        /\ v.embedder = w.embedder /\ v.inSpeech = w.inSpeech
        /\ v.pre = w.pre /\ v.stop = w.stop
    BY <2>7 DEF SoundKeys, AudioKeys, OtherKeys, K
  <2>9. Checked(v)
    BY <2>6, <2>8 DEF Checked, Steady
  <2>10. Whole(w, a) /\ w.silence \in Nat
    BY <2>2 DEF Hearing
  <2>. HIDE DEF a
  <2>11. Span(w.speech, a) /\ Ids(w.speech) = (a + 1)..(a + Len(w.speech))
    BY <2>4, <2>10, SpanIds DEF Whole
  <2>12. /\ Span(t, a) /\ Ids(t) \subseteq Ids(w.speech)
         /\ \A x \in Ids(w.speech) : x <= w.n - w.silence => x \in Ids(t)
    <3>1. ASSUME NEW z \in Nat, z = 0
          PROVE  LET t0 == Loop!WithoutSilence(w.speech, w.silence, z)
                 IN /\ Span(t0, a) /\ Ids(t0) \subseteq Ids(w.speech)
                    /\ \A x \in Ids(w.speech) :
                         backend # "groq" \/ x <= a + Len(w.speech) + z - w.silence => x \in Ids(t0)
      BY <2>4, <2>10, <2>11, WithoutIs
    <3>2. /\ Span(t, a) /\ Ids(t) \subseteq Ids(w.speech)
          /\ \A x \in Ids(w.speech) :
               backend # "groq" \/ x <= a + Len(w.speech) + 0 - w.silence => x \in Ids(t)
      BY <3>1 DEF t
    <3>. QED
      BY <2>4, <2>10, <3>2
  <2>15. \A x \in Ids(w.flushed) : x \in Int /\ x <= a
    BY <2>10 DEF Whole, Ids
  <2>16. /\ v.flushed \in Seq(Int) /\ InOrder(v.flushed)
         /\ Ids(v.flushed) = Ids(w.flushed) \cup Ids(t)
    <3>1. w.flushed \in Seq(Int) /\ InOrder(w.flushed)
      BY <2>10 DEF Whole
    <3>2. t \in Seq(Int) /\ InOrder(t)
      BY <2>4, <2>12, SpanIds
    <3>3. \A x \in Ids(w.flushed), y \in Ids(t) : x < y
      BY <2>4, <2>11, <2>12, <2>15
    <3>. QED
      BY <2>6, <3>1, <3>2, <3>3, OrderedJoin
  <2>17. \A x \in Ids(v.flushed) : x <= w.n
    BY <2>4, <2>11, <2>12, <2>15, <2>16
  <2>18. \A x \in Ids(w.words) \cap Ids(w.speech) : x \in Ids(t)
    BY <2>2, <2>12 DEF Hearing
  <2>19. /\ v.chunks \in Nat /\ v.chunks # 0
    BY <2>6, <2>10 DEF Whole
  <2>20. Ids(v.speech) = {} /\ Span(v.speech, w.n) /\ Len(v.speech) = 0
    BY <2>4, <2>6, NoIds, EmptySeq
  <2>21. Whole(v, w.n)
    BY <2>6, <2>8, <2>10, <2>12, <2>16, <2>17, <2>18, <2>19, <2>20 DEF Whole
  <2>22. v.n - Len(v.speech) = w.n
    BY <2>4, <2>8, <2>20
  <2>23. Hearing(v)
    BY <2>2, <2>8, <2>21, <2>22 DEF Hearing
  <2>24. Closed(v)
    BY <2>23, HearingCloses
  <2>25. Steady(v)
    BY <2>2, <2>6, <2>7, <2>9, <2>23, <2>24 DEF Steady
  <2>26. Carries(w, v)
    BY <2>2, <2>6 DEF Carries
  <2>. QED
    BY <2>1, <2>8, <2>25, <2>26
<1>. QED
  BY <1>1, <1>2

\* What a speculation may answer: the voiced frames of the buffer as it was cut for it.
Answers(w, s) ==
    s \in Seq(Int) /\ InOrder(s) /\ \A x \in Ids(w.flushed), y \in Ids(s) : x < y
Sought(w, s) ==
    /\ Answers(w, s)
    /\ w.specTrim.lead \in Nat /\ w.specTrim.trail \in Nat /\ w.specTrim.trail <= Len(w.speech)
    /\ Ids(s) \cap Ids(w.words) = Ids(Loop!Keep(w.specTrim, w.speech)) \cap Ids(w.words)
Fits(w, s) == Answers(w, s) /\ Ids(s) \cap Ids(w.words) = Ids(w.speech) \cap Ids(w.words)

LEMMA SpeculateSteady ==
    ASSUME NEW w, Steady(w)
    PROVE  LET v == Loop!Speculate(w)
           IN  /\ Steady(v) /\ v.stop = w.stop /\ w.gen <= v.gen
               /\ v # w => w.stop = "no" /\ v.pending /\ v.gen = w.gen + 1 /\ Sought(v, Loop!SpecAudio(v))
<1>1. CASE Loop!Speculate(w) = w
  BY <1>1, StaysSteady DEF Steady
<1>2. CASE Loop!Speculate(w) # w
  <2>. DEFINE i == Loop!Invalidate(w)
              plan == Loop!Plan(w, Len(w.speech))
              a == w.n - Len(w.speech)
              v == [i EXCEPT !.pending = TRUE, !.transcribing = TRUE, !.specTrim = plan]
              K == {"transcribing", "pending", "gen", "specTrim"}
  <2>1. w.stop = "no" /\ (w.gate => w.verified) /\ Loop!Speculate(w) = v
    <3>1. Loop!MaySpeculate(w) /\ Loop!MayTranscribe(w) /\ Loop!Speculate(w) = v
      BY <1>2, Zenon DEF Loop!Speculate
    <3>. QED
      BY <3>1 DEF Loop!MaySpeculate, Loop!MayTranscribe
  <2>2. SoundKeys \subseteq DOMAIN w /\ Hearing(w) /\ w.gen \in Nat /\ Scored(w.windows)
    BY <2>1 DEF Steady, Checked
  <2>3. /\ Only(w, i, {"pending", "gen"}) /\ ~i.pending /\ i.gen = w.gen + 1
        /\ {"pending", "specTrim"} \subseteq DOMAIN i
    <3>1. Only(w, i, {"pending", "gen"}) /\ ~i.pending /\ i.gen = w.gen + 1
      BY <2>2, InvalidateIs
    <3>. HIDE DEF i
    <3>2. SoundKeys \subseteq DOMAIN i
      BY <2>2, <3>1, OnlyIs
    <3>. QED
      BY <3>1, <3>2 DEF SoundKeys, OtherKeys
  <2>. HIDE DEF i
  <2>4. Len(w.speech) \in Nat /\ a \in Int /\ w.n \in Nat /\ a + Len(w.speech) = w.n
    BY <2>2, HeardLength
  <2>5. plan.lead \in Nat /\ plan.trail \in Nat /\ plan.trail <= Len(w.speech)
    <3>1. plan.lead \in Nat /\ plan.trail \in Nat /\ (plan.trail # 0 => plan.trail < Len(w.speech))
      BY <2>2, <2>4, PlanIs
    <3>. HIDE DEF plan
    <3>. QED
      BY <2>4, <3>1
  <2>. HIDE DEF plan
  <2>6. Only(w, v, K) /\ v.pending /\ v.gen = w.gen + 1 /\ v.specTrim = plan
    <3>1. Only(i, v, {"transcribing", "pending", "specTrim"})
      BY Zenon DEF Only
    <3>2. v.pending /\ v.specTrim = plan
      BY <2>3
    <3>. HIDE DEF v
    <3>3. /\ {"pending", "gen"} \subseteq K /\ {"transcribing", "pending", "specTrim"} \subseteq K
          /\ {"pending", "gen"} \cap {"transcribing", "pending", "specTrim"} = {"pending"}
      OBVIOUS
    <3>4. Only(w, v, K)
      BY <2>3, <3>1, <3>3, OnlyBoth
    <3>5. v.gen = i.gen
      BY <2>2, <2>3, <3>1 DEF Only, SoundKeys, OtherKeys
    <3>. QED
      BY <2>3, <3>2, <3>4, <3>5
  <2>. HIDE DEF v
  <2>7. SoundKeys \subseteq DOMAIN v /\ \A k \in SoundKeys \ K : v[k] = w[k]
    BY <2>2, <2>6, OnlyIs
  <2>8. /\ v.words = w.words /\ v.speech = w.speech /\ v.flushed = w.flushed
        /\ v.silence = w.silence
        /\ v.job = w.job /\ v.gate = w.gate /\ v.verified = w.verified /\ v.windows = w.windows
        /\ v.embedder = w.embedder /\ v.stop = w.stop
    BY <2>7 DEF SoundKeys, AudioKeys, OtherKeys
  <2>9. Hearing(v) /\ Closed(v)
    <3>1. K \cap AudioKeys = {}
      BY DEF AudioKeys
    <3>. HIDE DEF K
    <3>2. Hearing(v)
      BY <2>2, <2>6, <3>1, Unheard
    <3>. QED
      BY <3>2, HearingCloses
  <2>10. Checked(v)
    BY <2>1, <2>6, <2>8 DEF Checked, Steady
  <2>11. Steady(v)
    BY <2>2, <2>6, <2>7, <2>9, <2>10 DEF Steady
  <2>12. Whole(w, a) /\ w.silence \in Nat
    BY <2>2 DEF Hearing
  <2>. HIDE DEF a, K
  <2>13. Span(w.speech, a) /\ Ids(w.speech) = (a + 1)..(a + Len(w.speech))
    BY <2>4, <2>12, SpanIds DEF Whole
  <2>. DEFINE kept == Loop!Keep(plan, w.speech)
              m    == IF plan.trail = 0 \/ plan.trail > Len(w.speech) THEN Len(w.speech)
                      ELSE plan.trail
              tail == IF plan.trail = 0 \/ plan.trail > Len(w.speech) THEN 0
                      ELSE Len(w.speech) - plan.trail
              t    == Loop!WithoutSilence(kept, w.silence, tail)
  <2>14. /\ Span(kept, a + plan.lead) /\ Len(kept) = IF plan.lead < m THEN m - plan.lead ELSE 0
         /\ Ids(kept) = (a + plan.lead + 1)..(a + m) /\ m \in Nat /\ m <= Len(w.speech)
         /\ Ids(kept) \subseteq Ids(w.speech)
    BY <2>4, <2>5, <2>13, KeepIs
  <2>15. tail \in Nat /\ m + tail = Len(w.speech)
    BY <2>4, <2>5
  <2>. HIDE DEF kept, m, tail
  <2>16. a + plan.lead \in Int
    BY <2>4, <2>5
  <2>17. /\ Span(t, a + plan.lead) /\ Ids(t) \subseteq Ids(kept)
         /\ \A x \in Ids(kept) : backend # "groq"
              \/ x <= a + plan.lead + Len(kept) + tail - w.silence => x \in Ids(t)
    BY <2>12, <2>14, <2>15, <2>16, WithoutIs
  <2>18. Loop!SpecAudio(v) = t
    BY <2>6, <2>8 DEF Loop!SpecAudio, t, kept, tail
  <2>. HIDE DEF t
  <2>19. \A x \in Ids(kept) \cap Ids(w.words) : x \in Ids(t)
    <3>1. ASSUME NEW x \in Ids(kept) \cap Ids(w.words)
          PROVE  x <= a + plan.lead + Len(kept) + tail - w.silence
      <4>1. x <= w.n - w.silence /\ x \in (a + plan.lead + 1)..(a + m)
        BY <2>2, <2>14 DEF Hearing
      <4>2. plan.lead < m
        BY <2>4, <2>5, <2>14, <4>1
      <4>3. Len(kept) = m - plan.lead
        BY <2>14, <4>2
      <4>. QED
        <5>1. PICK l \in Nat : l = plan.lead
          BY <2>5
        <5>2. PICK h \in Nat : h = m
          BY <2>14
        <5>3. PICK e \in Nat : e = tail
          BY <2>15
        <5>4. PICK n \in Nat : n = Len(w.speech)
          BY <2>4
        <5>5. PICK d \in Nat : d = w.silence
          BY <2>12
        <5>6. Len(kept) = h - l /\ h + e = n
          BY <2>15, <4>3, <5>1, <5>2, <5>3, <5>4
        <5>7. x \in Int /\ x <= (a + n) - d
          BY <2>4, <4>1, <5>4, <5>5
        <5>8. x <= a + l + (h - l) + e - d
          BY <2>4, <5>6, <5>7
        <5>. QED
          BY <5>1, <5>3, <5>5, <5>6, <5>8
    <3>. QED
      BY <2>17, <3>1
  <2>20. Answers(v, t)
    <3>1. t \in Seq(Int) /\ InOrder(t)
      BY <2>16, <2>17, SpanIds
    <3>2. \A x \in Ids(w.flushed) : x \in Int /\ x <= a
      BY <2>12 DEF Whole, Ids
    <3>3. \A x \in Ids(w.flushed), y \in Ids(t) : x < y
      BY <2>4, <2>13, <2>14, <2>17, <3>2
    <3>. QED
      BY <2>8, <3>1, <3>3 DEF Answers
  <2>21. Ids(t) \cap Ids(w.words) = Ids(kept) \cap Ids(w.words)
    BY <2>17, <2>19
  <2>22. Sought(v, t)
    BY <2>5, <2>6, <2>8, <2>20, <2>21 DEF Sought, kept
  <2>23. w.gen <= v.gen
    BY <2>2, <2>6
  <2>. QED
    BY <2>1, <2>6, <2>8, <2>11, <2>18, <2>22, <2>23
<1>. QED
  BY <1>1, <1>2

\* What the loop keeps, before the onset and after it.
Ready(w) ==
    /\ SoundKeys \subseteq DOMAIN w /\ w.gen \in Nat /\ Checked(w)
    /\ w.stop = "no" => Hearing(w) \/ Waiting(w)
    /\ w.tailCut \/ Closed(w)

\* A speculation that is awaited is an old one that still answers, or a new one that does.
Follows(w, v) ==
    /\ w.gen <= v.gen
    /\ v.pending /\ ~v.tailCut =>
           IF v.gen = w.gen
           THEN w.pending /\ ~w.tailCut /\ \A s : Sought(w, s) => Sought(v, s)
           ELSE Sought(v, Loop!SpecAudio(v))

LEMMA SoughtSame ==
    ASSUME NEW w, NEW v, v.specTrim = w.specTrim, v.words = w.words, v.speech = w.speech,
           v.flushed = w.flushed
    PROVE  \A s : Sought(w, s) => Sought(v, s)
BY DEF Sought, Answers

\* The loop is left where it is.
LEMMA LeavesReady ==
    ASSUME NEW w, NEW v, Ready(v), Follows(w, v), NEW x, NEW K, Only(v, x, K),
           K \cap SoundKeys = {"stop"}, x.stop # "no"
    PROVE  Ready(x) /\ Follows(w, x)
<1>1. SoundKeys \subseteq DOMAIN v /\ v.gen \in Nat
  BY DEF Ready
<1>2. K \cap AudioKeys = {}
  BY DEF SoundKeys, AudioKeys
<1>3. SoundKeys \subseteq DOMAIN x /\ \A k \in SoundKeys \ {"stop"} : x[k] = v[k]
  BY <1>1, OnlyIs
<1>4. /\ x.job = v.job /\ x.windows = v.windows /\ x.gate = v.gate /\ x.gen = v.gen
      /\ x.embedder = v.embedder /\ x.pending = v.pending /\ x.verified = v.verified
      /\ x.specTrim = v.specTrim /\ x.words = v.words /\ x.speech = v.speech
      /\ x.flushed = v.flushed /\ x.silence = v.silence /\ x.tailCut = v.tailCut
  BY <1>3 DEF SoundKeys, OtherKeys, AudioKeys
<1>5. Closed(v) => Closed(x)
  BY <1>1, <1>2, Unheard
<1>6. Checked(x)
  BY <1>4 DEF Checked, Ready
<1>7. Ready(x)
  BY <1>1, <1>3, <1>4, <1>5, <1>6 DEF Ready
<1>8. Loop!SpecAudio(x) = Loop!SpecAudio(v)
  BY <1>4 DEF Loop!SpecAudio
<1>9. \A s : Sought(v, s) => Sought(x, s)
  BY <1>4, SoughtSame
<1>10. Follows(w, x)
  BY <1>4, <1>8, <1>9 DEF Follows
<1>. QED
  BY <1>7, <1>10

LEMMA BreaksReady ==
    ASSUME NEW w, NEW v, Ready(v), Follows(w, v)
    PROVE  LET x == [v EXCEPT !.stop = "break"] IN Ready(x) /\ Follows(w, x)
<1>. DEFINE x == [v EXCEPT !.stop = "break"]
<1>1. Only(v, x, {"stop"}) /\ x.stop = "break"
  BY DEF Only, Ready, SoundKeys, OtherKeys
<1>. HIDE DEF x
<1>2. {"stop"} \cap SoundKeys = {"stop"}
  BY DEF SoundKeys, OtherKeys
<1>. QED
  BY <1>1, <1>2, LeavesReady DEF x

LEMMA SteadyIsReady == ASSUME NEW w, Steady(w) PROVE Ready(w)
BY DEF Steady, Ready

\* A silent frame takes nothing from what a speculation answers.
LEMMA SilentAppend ==
    ASSUME NEW w, Ready(w), w.stop = "no", w.inSpeech,
           NEW v, Only(w, v, {"n", "speech", "run", "silence"}),
           v.n = w.n + 1, v.speech = Append(w.speech, w.n + 1), v.run = 0,
           v.silence \in {0, w.silence + 1}
    PROVE  /\ Steady(v) /\ v.stop = "no" /\ v.gen = w.gen /\ v.pending = w.pending
           /\ v.tailCut = w.tailCut /\ \A s : Sought(w, s) => Sought(v, s)
<1>. DEFINE K == {"n", "speech", "run", "silence"}
            a == w.n - Len(w.speech)
<1>1. SoundKeys \subseteq DOMAIN w /\ Hearing(w)
  BY DEF Ready, Waiting
<1>3. Only(w, v, K) /\ v.n = w.n + 1 /\ v.speech = Append(w.speech, w.n + 1)
  OBVIOUS
<1>4. SoundKeys \subseteq DOMAIN v /\ \A k \in SoundKeys \ K : v[k] = w[k]
  BY <1>1, <1>3, OnlyIs
<1>. HIDE DEF K
<1>5. /\ v.job = w.job /\ v.windows = w.windows /\ v.gate = w.gate /\ v.gen = w.gen
      /\ v.embedder = w.embedder /\ v.pending = w.pending /\ v.verified = w.verified
      /\ v.specTrim = w.specTrim /\ v.words = w.words /\ v.flushed = w.flushed
      /\ v.tailCut = w.tailCut /\ v.stop = w.stop /\ v.chunks = w.chunks
      /\ v.tailVoiced = w.tailVoiced /\ v.trimmed = w.trimmed /\ v.inSpeech = w.inSpeech
      /\ v.pre = w.pre /\ v.cut = w.cut
  BY <1>4 DEF SoundKeys, OtherKeys, AudioKeys, K
<1>6. Checked(v)
  BY <1>5 DEF Checked, Ready
<1>7. Len(w.speech) \in Nat /\ a \in Int /\ w.n \in Nat /\ a + Len(w.speech) = w.n
  BY <1>1, HeardLength
<1>8. Whole(w, a)
  BY <1>1 DEF Hearing
<1>. HIDE DEF a
<1>9. Span(w.speech, a) /\ Ids(w.speech) = (a + 1)..(a + Len(w.speech))
  BY <1>7, <1>8, SpanIds DEF Whole
<1>10. /\ Span(v.speech, a) /\ Len(v.speech) = Len(w.speech) + 1
       /\ Ids(v.speech) = Ids(w.speech) \cup {w.n + 1}
  <2>1. w.n + 1 \in Int /\ w.n + 1 = a + Len(w.speech) + 1
    BY <1>7
  <2>. QED
    <3>1. /\ Span(Append(w.speech, w.n + 1), a)
          /\ Len(Append(w.speech, w.n + 1)) = Len(w.speech) + 1
          /\ Ids(Append(w.speech, w.n + 1)) = Ids(w.speech) \cup {w.n + 1}
      BY <1>7, <1>9, <2>1, SpanMore, SMTT(20)
    <3>. QED
      BY <1>3, <3>1
<1>11. /\ w.n + 1 \notin Ids(w.words) /\ w.n + 1 \notin w.cut
       /\ \A x \in Ids(w.words) : x \in Int /\ x <= w.n - w.silence
  <2>1. \A x \in Ids(w.words) : x \in Int
    BY <1>8 DEF Whole, Ids
  <2>. QED
    BY <1>1, <2>1 DEF Hearing
<1>12. Whole(v, a)
  <2>1. w.n + 1 \notin Ids(w.flushed)
    BY <1>7, <1>8 DEF Whole
  <2>. QED
    BY <1>5, <1>8, <1>10, <1>11, <2>1 DEF Whole
<1>13. v.n - Len(v.speech) = a
  <2>1. v.n = w.n + 1 /\ Len(v.speech) = Len(w.speech) + 1
    BY <1>3, <1>10
  <2>2. (w.n + 1) - (Len(w.speech) + 1) = a
    BY <1>7
  <2>. QED
    BY <2>1, <2>2
<1>14. v.silence \in Nat /\ \A x \in Ids(v.words) : x <= v.n - v.silence
  <2>1. w.silence \in Nat
    BY <1>1 DEF Hearing
  <2>2. CASE v.silence = 0
    BY <1>3, <1>5, <1>7, <1>11, <2>1, <2>2
  <2>3. CASE v.silence = w.silence + 1
    BY <1>3, <1>5, <1>7, <1>11, <2>1, <2>3, SMTT(20)
  <2>. QED
    BY <2>2, <2>3
<1>15. \A x \in v.cut : x \in Int /\ x <= v.n
  BY <1>1, <1>3, <1>5, <1>7 DEF Hearing
<1>16. Hearing(v)
  BY <1>1, <1>3, <1>5, <1>7, <1>12, <1>13, <1>14, <1>15, SMTT(20) DEF Hearing
<1>17. Steady(v)
  BY <1>4, <1>5, <1>6, <1>16, HearingCloses DEF Steady, Ready
<1>18. ASSUME NEW s, Sought(w, s) PROVE Sought(v, s)
  <2>1. PICK plan : plan = w.specTrim
    OBVIOUS
  <2>2. plan.lead \in Nat /\ plan.trail \in Nat /\ plan.trail <= Len(w.speech)
    BY <1>18, <2>1 DEF Sought
  <2>3. PICK x \in Int : x = w.n + 1
    BY <1>7
  <2>4. x = a + Len(w.speech) + 1
    BY <1>7, <2>3
  <2>5. \A y : y # x => (y \in Ids(Loop!Keep(plan, w.speech))
                          <=> y \in Ids(Loop!Keep(plan, Append(w.speech, x))))
    BY <1>7, <1>9, <2>2, <2>4, KeepMore
  <2>6. Ids(Loop!Keep(plan, w.speech)) \cap Ids(w.words)
        = Ids(Loop!Keep(plan, v.speech)) \cap Ids(w.words)
    BY <1>3, <1>11, <2>3, <2>5
  <2>7. plan.trail <= Len(v.speech)
    BY <1>7, <1>10, <2>2
  <2>. QED
    BY <1>5, <1>18, <2>1, <2>6, <2>7 DEF Sought, Answers
<1>. QED
  BY <1>5, <1>17, <1>18

LEMMA SilentFrameReady ==
    ASSUME Loop!FrameAssumption, NEW w, Ready(w), w.stop = "no", w.inSpeech, NEW held, NEW cutAt
    PROVE  LET v == Loop!SilentFrame([w EXCEPT !.n = @ + 1], held, cutAt)
           IN  Ready(v) /\ Follows(w, v)
<1>. DEFINE w0 == [w EXCEPT !.n = @ + 1]
            a == [w0 EXCEPT !.speech = Append(@, w0.n), !.run = 0,
                            !.silence = IF held THEN 0 ELSE @ + 1]
            b == Loop!SoftFlush(a)
            c == Loop!ApplyVerdict(b)
            d == Loop!SpawnTentative(c)
            s == Loop!Speculate(d)
            v == Loop!SilentFrame(w0, held, cutAt)
<1>1. v = a \/ (~held /\ v = s) \/ (~held /\ v = [s EXCEPT !.stop = "break"])
  BY Zenon DEF Loop!SilentFrame
<1>2. /\ Steady(a) /\ a.stop = "no" /\ a.gen = w.gen /\ a.pending = w.pending
      /\ a.tailCut = w.tailCut /\ \A t : Sought(w, t) => Sought(a, t)
  <2>1. {"n", "speech", "run", "silence"} \subseteq DOMAIN w
    BY DEF Ready, SoundKeys, AudioKeys
  <2>2. /\ Only(w, a, {"n", "speech", "run", "silence"})
        /\ a.n = w.n + 1 /\ a.speech = Append(w.speech, w.n + 1) /\ a.run = 0
        /\ a.silence \in {0, w.silence + 1}
    BY <2>1 DEF Only
  <2>. HIDE DEF a
  <2>. QED
    BY <2>2, SilentAppend
<1>. HIDE DEF a, v
<1>3. Steady(b) /\ Carries(a, b) /\ b.stop = "no"
  BY <1>2, SoftFlushSteady
<1>. HIDE DEF b
<1>4. Steady(c) /\ Carries(b, c)
  BY <1>3, ApplyVerdictSteady
<1>. HIDE DEF c
<1>5. Steady(d) /\ Carries(c, d)
  BY <1>4, SpawnTentativeSteady
<1>. HIDE DEF d
<1>6. a.gen \in Nat /\ b.gen \in Nat /\ c.gen \in Nat /\ d.gen \in Nat /\ w.gen \in Nat
  BY <1>2, <1>3, <1>4, <1>5 DEF Steady
<1>7. Carries(a, d)
  <2>1. Carries(a, c)
    BY <1>3, <1>4, <1>6, CarriesOn
  <2>. QED
    BY <1>5, <1>6, <2>1, CarriesOn
<1>8. Ready(a) /\ Follows(w, a)
  BY <1>2, <1>6, SteadyIsReady DEF Follows
<1>9. Ready(s) /\ Follows(w, s)
  <2>1. /\ Steady(s) /\ s.stop = d.stop /\ d.gen <= s.gen
        /\ s # d => d.stop = "no" /\ s.pending /\ s.gen = d.gen + 1 /\ Sought(s, Loop!SpecAudio(s))
    BY <1>5, SpeculateSteady
  <2>. HIDE DEF s
  <2>2. CASE s = d
    <3>1. w.gen <= s.gen
      BY <1>2, <1>7, <2>2 DEF Carries
    <3>2. ASSUME s.pending, ~s.tailCut
          PROVE  s.gen = w.gen /\ w.pending /\ ~w.tailCut /\ \A t : Sought(w, t) => Sought(s, t)
      <4>1. /\ a.pending /\ ~a.tailCut /\ s.gen = a.gen /\ s.specTrim = a.specTrim
            /\ s.words = a.words /\ s.speech = a.speech /\ s.flushed = a.flushed
        BY <1>7, <2>2, <3>2 DEF Carries
      <4>2. \A t : Sought(a, t) => Sought(s, t)
        BY <4>1, SoughtSame
      <4>. QED
        BY <1>2, <4>1, <4>2
    <3>. QED
      BY <2>1, <3>1, <3>2, SteadyIsReady DEF Follows
  <2>3. CASE s # d
    <3>1. w.gen <= d.gen
      BY <1>2, <1>7 DEF Carries
    <3>2. w.gen <= s.gen /\ s.gen # w.gen
      BY <1>6, <2>1, <2>3, <3>1
    <3>. QED
      BY <2>1, <2>3, <3>2, SteadyIsReady DEF Follows
  <2>. QED
    BY <2>2, <2>3
<1>. HIDE DEF s
<1>10. CASE v = [s EXCEPT !.stop = "break"]
  BY <1>9, <1>10, BreaksReady DEF v
<1>. QED
  BY <1>1, <1>8, <1>9, <1>10 DEF v

\* An open utterance that frame n + 1 is about to join.
Opened(o, n, a) ==
    /\ o.n = n + 1 /\ a + Len(o.speech) = n /\ Span(o.speech, a)
    /\ o.words \in Seq(Int) /\ InOrder(o.words) /\ (\A x \in Ids(o.words) : x <= n)
    /\ o.flushed \in Seq(Int) /\ InOrder(o.flushed) /\ (\A x \in Ids(o.flushed) : x <= a)
    /\ Ids(o.words) \subseteq Ids(o.flushed) \cup Ids(o.speech) \cup o.cut
    /\ o.cut \cap (Ids(o.flushed) \cup Ids(o.speech)) = {}
    /\ \A x \in o.cut : x \in Int /\ x <= n
    /\ o.tailVoiced \in Nat /\ o.chunks \in Nat /\ (o.chunks = 0 => o.flushed = <<>>)
    /\ (~o.trimmed => o.cut = {}) /\ o.inSpeech /\ o.pre = <<>> /\ ~o.tailCut
    /\ o.run \in Nat /\ o.silence = 0

\* A voiced frame of an open utterance is in the buffer and among what was said.
LEMMA VoicedAppend ==
    ASSUME NEW o, NEW n \in Nat, NEW a \in Int, Opened(o, n, a), SoundKeys \subseteq DOMAIN o,
           NEW v, Only(o, v, {"speech", "fresh", "heard", "tailVoiced", "words"}),
           v.speech = Append(o.speech, n + 1), v.words = Append(o.words, n + 1),
           v.tailVoiced = o.tailVoiced + 1
    PROVE  Hearing(v)
<1>. DEFINE K == {"speech", "fresh", "heard", "tailVoiced", "words"}
<1>1. \A k \in SoundKeys \ K : v[k] = o[k]
  BY OnlyIs
<1>. HIDE DEF K
<1>2. /\ v.n = o.n /\ v.flushed = o.flushed /\ v.silence = o.silence /\ v.tailCut = o.tailCut
      /\ v.chunks = o.chunks /\ v.trimmed = o.trimmed /\ v.inSpeech = o.inSpeech
      /\ v.pre = o.pre /\ v.cut = o.cut /\ v.run = o.run
  BY <1>1 DEF SoundKeys, AudioKeys, K
<1>3. PICK y \in Int : y = n + 1
  OBVIOUS
<1>4. /\ Span(v.speech, a) /\ Len(v.speech) = Len(o.speech) + 1
      /\ Ids(v.speech) = Ids(o.speech) \cup {y}
  <2>1. y = a + Len(o.speech) + 1 /\ Span(o.speech, a)
    <3>1. Span(o.speech, a) /\ a + Len(o.speech) = n
      BY DEF Opened
    <3>2. Len(o.speech) \in Nat
      BY <3>1, SpanIds
    <3>. QED
      BY <1>3, <3>1, <3>2
  <2>2. /\ Span(Append(o.speech, y), a) /\ Len(Append(o.speech, y)) = Len(o.speech) + 1
        /\ Ids(Append(o.speech, y)) = Ids(o.speech) \cup {y}
    BY <2>1, SpanMore
  <2>. QED
    BY <1>3, <2>2
<1>5. v.words \in Seq(Int) /\ InOrder(v.words) /\ Ids(v.words) = Ids(o.words) \cup {y}
  <2>1. o.words \in Seq(Int) /\ InOrder(o.words) /\ (\A x \in Ids(o.words) : x <= n)
    BY DEF Opened
  <2>2. \A x \in Ids(o.words) : x < y
    <3>1. \A x \in Ids(o.words) : x \in Int
      BY <2>1 DEF Ids
    <3>. QED
      BY <1>3, <2>1, <3>1
  <2>3. /\ Append(o.words, y) \in Seq(Int) /\ InOrder(Append(o.words, y))
        /\ Ids(Append(o.words, y)) = Ids(o.words) \cup {y}
    BY <2>1, <2>2, OrderedMore
  <2>. QED
    BY <1>3, <2>3
<1>6. y \notin o.cut
  BY <1>3 DEF Opened
<1>7. Len(o.speech) \in Nat /\ a + Len(o.speech) = n
  <2>1. Span(o.speech, a) /\ a + Len(o.speech) = n
    BY DEF Opened
  <2>. QED
    BY <2>1, SpanIds
<1>8. v.tailVoiced \in Nat /\ v.tailVoiced # 0
  BY SMTT(20) DEF Opened
<1>9. Whole(v, a)
  BY <1>2, <1>4, <1>5, <1>6, <1>8 DEF Whole, Opened
<1>10. v.n = n + 1 /\ v.silence = 0
  BY <1>2 DEF Opened
<1>11. v.n - Len(v.speech) = a
  BY <1>4, <1>7, <1>10
<1>12. \A x \in Ids(v.words) : x <= v.n - v.silence
  <2>1. ASSUME NEW x \in Ids(o.words) PROVE x \in Int /\ x <= n
    BY <2>1 DEF Opened, Ids
  <2>2. v.n - v.silence = n + 1
    BY <1>10
  <2>. QED
    BY <1>3, <1>5, <2>1, <2>2
<1>13. \A x \in v.cut : x \in Int /\ x <= v.n
  BY <1>2, <1>10 DEF Opened
<1>14. v.n \in Nat /\ v.silence \in Nat /\ v.run \in Nat /\ ~v.tailCut /\ v.inSpeech /\ v.pre = <<>>
  BY <1>2, <1>10 DEF Opened
<1>. QED
  BY <1>9, <1>11, <1>12, <1>13, <1>14 DEF Hearing

LEMMA ResumeIs ==
    ASSUME NEW w, SoundKeys \subseteq DOMAIN w, w.gen \in Nat
    PROVE  LET r == Loop!Resume(w)
           IN  /\ Only(w, r, {"pending", "gen", "transcribing", "run", "silence"})
               /\ ~r.pending /\ r.gen \in Nat /\ w.gen <= r.gen
               /\ r.run = w.run + 1 /\ r.silence = 0
<1>. DEFINE i == Loop!Invalidate(w)
            t == [i EXCEPT !.transcribing = FALSE]
            q == IF w.pending THEN t ELSE w
            K == {"pending", "gen", "transcribing", "run", "silence"}
            r == [q EXCEPT !.run = @ + 1, !.silence = 0]
<1>1. Only(w, i, {"pending", "gen"}) /\ ~i.pending /\ i.gen = w.gen + 1
  BY InvalidateIs
<1>. HIDE DEF i
<1>2. /\ Only(w, t, {"pending", "gen", "transcribing"})
      /\ t.pending = i.pending /\ t.gen = i.gen
  BY <1>1 DEF Only, SoundKeys, OtherKeys
<1>. HIDE DEF t
<1>3. /\ Only(w, q, {"pending", "gen", "transcribing"})
      /\ ~q.pending /\ q.gen \in Nat /\ w.gen <= q.gen
  BY <1>1, <1>2 DEF Only
<1>4. Loop!Resume(w) = r
  BY DEF Loop!Resume, q, t, i
<1>. HIDE DEF q
<1>5. {"run", "silence", "pending", "gen"} \subseteq DOMAIN q /\ q.run = w.run
  BY <1>3 DEF Only, SoundKeys, AudioKeys, OtherKeys
<1>6. /\ Only(q, r, {"run", "silence"}) /\ r.run = q.run + 1 /\ r.silence = 0
      /\ r.pending = q.pending /\ r.gen = q.gen
  BY <1>5 DEF Only
<1>. HIDE DEF r
<1>7. Only(w, r, K)
  <2>1. {"pending", "gen", "transcribing"} \subseteq K /\ {"run", "silence"} \subseteq K
    OBVIOUS
  <2>. HIDE DEF K
  <2>. QED
    BY <1>3, <1>6, <2>1, OnlyBoth
<1>. QED
  BY <1>3, <1>4, <1>5, <1>6, <1>7

LEMMA OnsetIs ==
    ASSUME NEW r, SoundKeys \subseteq DOMAIN r, NEW loud
    PROVE  LET o == Loop!Onset(r, loud)
           IN  /\ Only(r, o, {"inSpeech", "stream", "logged", "shown", "words", "speech", "pre"})
               /\ IF r.run < MinSpeech THEN o = r
                  ELSE /\ o.inSpeech /\ o.speech = r.speech \o r.pre /\ o.pre = <<>>
                       /\ r.inSpeech => o.words = r.words
                       /\ ~r.inSpeech => o.words = [i \in 1..(MinSpeech - 1) |-> r.n - MinSpeech + i]
<1>. DEFINE o == Loop!Onset(r, loud)
            K == {"inSpeech", "stream", "logged", "shown", "words", "speech", "pre"}
<1>1. CASE r.run < MinSpeech
  <2>1. o = r
    BY <1>1, Zenon DEF Loop!Onset
  <2>. QED
    BY <1>1, <2>1 DEF Only
<1>2. CASE ~(r.run < MinSpeech)
  <2>1. o = [r EXCEPT !.inSpeech = TRUE, !.stream = r.streamable,
                   !.logged = @ \/ loud, !.shown = @ \/ (loud /\ ~r.logged /\ ~r.gate),
                   !.words = IF r.inSpeech THEN @
                             ELSE [i \in 1..(MinSpeech - 1) |-> r.n - MinSpeech + i],
                   !.speech = @ \o r.pre, !.pre = <<>>]
    BY <1>2, Zenon DEF Loop!Onset
  <2>. HIDE DEF o
  <2>2. {"inSpeech", "words", "speech", "pre"} \subseteq DOMAIN r
    BY DEF SoundKeys, AudioKeys
  <2>3. Only(r, o, K)
    BY <2>1, Zenon DEF Only
  <2>4. /\ o.inSpeech /\ o.speech = r.speech \o r.pre /\ o.pre = <<>>
        /\ r.inSpeech => o.words = r.words
        /\ ~r.inSpeech => o.words = [i \in 1..(MinSpeech - 1) |-> r.n - MinSpeech + i]
    BY <2>1, <2>2
  <2>. QED
    BY <1>2, <2>3, <2>4 DEF o
<1>. QED
  BY <1>1, <1>2

\* What the onset counts as said: the frames before the one that completes it.
LEMMA OnsetWords ==
    ASSUME NEW k \in Nat, NEW n \in Int
    PROVE  /\ Span([i \in 1..k |-> n + i], n) /\ Len([i \in 1..k |-> n + i]) = k
<1>. DEFINE s == [i \in 1..k |-> n + i]
<1>1. s \in [1..k -> Int]
  OBVIOUS
<1>2. s \in Seq(Int)
  BY <1>1, SeqDef
<1>3. DOMAIN s = 1..Len(s) /\ Len(s) \in Nat /\ DOMAIN s = 1..k
  BY <1>2, LenProperties
<1>. HIDE DEF s
<1>4. Len(s) = k
  <2>1. PICK h \in Nat : h = Len(s)
    BY <1>3
  <2>2. 1..h = 1..k
    BY <1>3, <2>1
  <2>3. h <= k
    <3>1. CASE h = 0
      BY <3>1
    <3>2. CASE h # 0
      <4>1. h \in 1..h
        BY <3>2
      <4>. QED
        BY <2>2, <4>1
    <3>. QED
      BY <3>1, <3>2
  <2>4. k <= h
    <3>1. CASE k = 0
      BY <3>1
    <3>2. CASE k # 0
      <4>1. k \in 1..k
        BY <3>2
      <4>. QED
        BY <2>2, <4>1
    <3>. QED
      BY <3>1, <3>2
  <2>. QED
    BY <2>1, <2>3, <2>4
<1>5. \A i \in 1..Len(s) : s[i] = n + i
  BY <1>4 DEF s
<1>. QED
  BY <1>2, <1>4, <1>5 DEF Span, s

\* A voiced frame finds the utterance open, opens it, or waits with the pre-buffer.
VoicedKeys == {"n", "shown", "pending", "gen", "transcribing", "run", "silence"}
LEMMA VoicedOpens ==
    ASSUME Loop!FrameAssumption, NEW w, Ready(w), w.stop = "no", NEW loud,
           NEW r, Only(w, r, VoicedKeys), r.n = w.n + 1, r.run = w.run + 1, r.silence = 0
    PROVE  LET o == Loop!Onset(r, loud)
           IN  /\ SoundKeys \subseteq DOMAIN o
               /\ Only(r, o, {"inSpeech", "stream", "logged", "shown", "words", "speech", "pre"})
               /\ o.inSpeech => \E a \in Int : Opened(o, w.n, a)
               /\ ~o.inSpeech => o = r /\ Waiting(w) /\ r.run < MinSpeech
<1>. DEFINE o == Loop!Onset(r, loud)
            O == {"inSpeech", "stream", "logged", "shown", "words", "speech", "pre"}
<1>1. SoundKeys \subseteq DOMAIN w /\ (Hearing(w) \/ Waiting(w))
  BY DEF Ready
<1>2. SoundKeys \subseteq DOMAIN r /\ \A k \in SoundKeys \ VoicedKeys : r[k] = w[k]
  BY <1>1, OnlyIs
<1>3. /\ Only(r, o, O)
      /\ IF r.run < MinSpeech THEN o = r
         ELSE /\ o.inSpeech /\ o.speech = r.speech \o r.pre /\ o.pre = <<>>
              /\ r.inSpeech => o.words = r.words
              /\ ~r.inSpeech => o.words = [i \in 1..(MinSpeech - 1) |-> r.n - MinSpeech + i]
  BY <1>2, OnsetIs
<1>. HIDE DEF o
<1>4. SoundKeys \subseteq DOMAIN o /\ \A k \in SoundKeys \ O : o[k] = r[k]
  BY <1>2, <1>3, OnlyIs
<1>5. /\ r.words = w.words /\ r.speech = w.speech /\ r.pre = w.pre /\ r.inSpeech = w.inSpeech
      /\ r.flushed = w.flushed /\ r.chunks = w.chunks /\ r.tailVoiced = w.tailVoiced
      /\ r.cut = w.cut /\ r.tailCut = w.tailCut /\ r.trimmed = w.trimmed
  BY <1>2 DEF SoundKeys, AudioKeys, OtherKeys, VoicedKeys
<1>. HIDE DEF O
<1>6. /\ o.flushed = w.flushed /\ o.chunks = w.chunks /\ o.tailVoiced = w.tailVoiced
      /\ o.cut = w.cut /\ o.tailCut = w.tailCut /\ o.trimmed = w.trimmed
      /\ o.n = w.n + 1 /\ o.run = w.run + 1 /\ o.silence = 0
  BY <1>4, <1>5 DEF SoundKeys, AudioKeys, O
<1>7. CASE Hearing(w)
  <2>. DEFINE a == w.n - Len(w.speech)
  <2>1. Len(w.speech) \in Nat /\ a \in Int /\ w.n \in Nat /\ a + Len(w.speech) = w.n
    BY <1>7, HeardLength
  <2>2. Whole(w, a) /\ w.pre = <<>> /\ w.inSpeech /\ w.run \in Nat /\ ~w.tailCut
    BY <1>7 DEF Hearing
  <2>. HIDE DEF a
  <2>3. w.speech \o <<>> = w.speech
    BY <2>2, ConcatEmptySeq DEF Whole, Span
  <2>4. o.inSpeech /\ o.speech = w.speech /\ o.pre = <<>> /\ o.words = w.words
    <3>1. r.inSpeech /\ r.speech = w.speech /\ r.pre = <<>> /\ r.words = w.words
      BY <1>5, <2>2
    <3>2. r.speech \o r.pre = w.speech
      BY <2>3, <3>1
    <3>3. CASE r.run < MinSpeech
      BY <1>3, <3>1, <3>3
    <3>4. CASE ~(r.run < MinSpeech)
      BY <1>3, <3>1, <3>2, <3>4
    <3>. QED
      BY <3>3, <3>4
  <2>5. /\ \A x \in Ids(w.words) : x <= w.n
        /\ \A x \in w.cut : x \in Int /\ x <= w.n
    <3>1. \A x \in Ids(w.words) : x \in Int
      BY <2>2 DEF Whole, Ids
    <3>2. \A x \in Ids(w.words) : x <= w.n - w.silence /\ w.silence \in Nat
      BY <1>7 DEF Hearing
    <3>. QED
      BY <1>7, <2>1, <3>1, <3>2 DEF Hearing
  <2>6. w.run + 1 \in Nat
    BY <2>2
  <2>7. Opened(o, w.n, a)
    BY <1>6, <2>1, <2>2, <2>4, <2>5, <2>6 DEF Opened, Whole
  <2>. QED
    BY <1>3, <1>4, <2>1, <2>4, <2>7 DEF o, O
<1>8. CASE Waiting(w)
  <2>. DEFINE a == w.n - Len(w.pre)
  <2>1. w.n \in Nat /\ w.run \in Nat /\ Span(w.pre, a)
    BY <1>8 DEF Waiting
  <2>2. w.pre \in Seq(Int) /\ Len(w.pre) \in Nat
    BY <2>1, LenProperties DEF Span
  <2>3. a \in Int /\ a + Len(w.pre) = w.n
    BY <2>1, <2>2
  <2>4. CASE r.run < MinSpeech
    <3>1. o = r /\ ~o.inSpeech
      BY <1>3, <1>5, <1>8, <2>4 DEF Waiting
    <3>. QED
      BY <1>3, <1>4, <1>8, <2>4, <3>1 DEF o, O
  <2>5. CASE ~(r.run < MinSpeech)
    <3>1. /\ o.inSpeech /\ o.speech = w.speech \o w.pre /\ o.pre = <<>>
          /\ o.words = [i \in 1..(MinSpeech - 1) |-> r.n - MinSpeech + i]
      BY <1>3, <1>5, <1>8, <2>5 DEF Waiting
    <3>2. o.speech = w.pre
      BY <1>8, <2>2, <3>1, ConcatEmptySeq DEF Waiting
    <3>3. PICK k \in Nat : k = MinSpeech - 1
      BY DEF Loop!FrameAssumption
    <3>4. /\ MinSpeech = k + 1 /\ w.run = k /\ k <= Len(w.pre)
      <4>1. MinSpeech = k + 1
        BY <3>3 DEF Loop!FrameAssumption
      <4>2. w.run < MinSpeech /\ ~(w.run + 1 < MinSpeech)
        BY <1>8, <2>5 DEF Waiting
      <4>3. w.run = k
        BY <2>1, <4>1, <4>2
      <4>4. PreBuffer \in Nat /\ k <= PreBuffer
        BY <3>3 DEF Loop!FrameAssumption
      <4>5. w.run <= w.n /\ (Len(w.pre) = w.n \/ Len(w.pre) >= PreBuffer)
        BY <1>8 DEF Waiting
      <4>. QED
        BY <2>1, <2>2, <4>1, <4>3, <4>4, <4>5
    <3>5. PICK m \in Int : m = w.n - k
      BY <2>1
    <3>6. o.words = [i \in 1..k |-> m + i]
      <4>1. r.n - MinSpeech = m
        BY <2>1, <3>4, <3>5
      <4>2. \A i \in 1..k : r.n - MinSpeech + i = m + i
        BY <4>1
      <4>. QED
        BY <3>1, <3>3, <4>2
    <3>7. Span(o.words, m) /\ Len(o.words) = k
      BY <3>6, OnsetWords
    <3>8. o.words \in Seq(Int) /\ InOrder(o.words) /\ Ids(o.words) = (m + 1)..(m + k)
      BY <3>7, SpanIds
    <3>9. Span(o.speech, a) /\ Ids(o.speech) = (a + 1)..(a + Len(w.pre))
      BY <2>1, <2>3, <3>2, SpanIds
    <3>10. /\ Ids(o.words) \subseteq Ids(o.speech)
           /\ \A x \in Ids(o.words) : x <= w.n
      <4>1. m + k = w.n /\ a <= m
        BY <2>1, <2>2, <2>3, <3>4, <3>5
      <4>2. Ids(o.words) = (m + 1)..w.n /\ Ids(o.speech) = (a + 1)..w.n
        BY <2>3, <3>8, <3>9, <4>1
      <4>. QED
        BY <2>1, <2>3, <4>1, <4>2
    <3>11. w.run + 1 \in Nat
      BY <2>1
    <3>12. /\ o.flushed = <<>> /\ o.cut = {} /\ o.tailVoiced \in Nat /\ o.chunks \in Nat
           /\ ~o.tailCut
      BY <1>6, <1>8 DEF Waiting
    <3>13. Ids(o.flushed) = {} /\ InOrder(o.flushed) /\ o.flushed \in Seq(Int)
      BY <3>12, NoIds
    <3>14. a + Len(o.speech) = w.n
      BY <2>3, <3>2
    <3>15. Opened(o, w.n, a)
      BY <1>6, <3>1, <3>8, <3>9, <3>10, <3>11, <3>12, <3>13, <3>14 DEF Opened
    <3>. QED
      BY <1>3, <1>4, <2>3, <3>1, <3>15 DEF o, O
  <2>. QED
    BY <2>4, <2>5
<1>. QED
  BY <1>1, <1>7, <1>8

\* The pre-buffer keeps the last frames.
LEMMA KeepLastIs ==
    ASSUME Loop!FrameAssumption, NEW s, NEW n \in Nat, Len(s) \in Nat,
           Span(s, n - Len(s)), Len(s) = n \/ Len(s) >= PreBuffer
    PROVE  LET t == Loop!KeepLast(Append(s, n + 1))
           IN  /\ Span(t, (n + 1) - Len(t)) /\ (Len(t) = n + 1 \/ Len(t) >= PreBuffer)
<1>. DEFINE a == n - Len(s)
            p == Append(s, n + 1)
            t == Loop!KeepLast(p)
<1>1. a \in Int /\ n + 1 = a + Len(s) + 1 /\ n + 1 \in Int /\ PreBuffer \in Nat
  BY DEF Loop!FrameAssumption
<1>2. PICK x \in Int : x = n + 1
  BY <1>1
<1>3. Span(p, a) /\ Len(p) = Len(s) + 1
  <2>1. x = a + Len(s) + 1 /\ Span(s, a)
    BY <1>1, <1>2
  <2>. HIDE DEF a
  <2>2. Span(Append(s, x), a) /\ Len(Append(s, x)) = Len(s) + 1
    BY <1>1, <2>1, SpanMore
  <2>. QED
    BY <1>2, <2>2
<1>. HIDE DEF p
<1>4. CASE Len(p) > PreBuffer
  <2>1. t = Tail(p) /\ p \in Seq(Int) /\ p # <<>>
    BY <1>1, <1>3, <1>4, EmptySeq DEF Loop!KeepLast, Span
  <2>2. t \in Seq(Int) /\ Len(t) = Len(s) /\ \A i \in 1..Len(t) : t[i] = p[i + 1]
    BY <1>3, <2>1, HeadTailProperties
  <2>. HIDE DEF t
  <2>3. \A i \in 1..Len(t) : i + 1 \in 1..Len(p) /\ p[i + 1] = a + (i + 1)
    <3>1. \A i \in 1..Len(t) : i + 1 \in 1..Len(p)
      BY <1>3, <2>2
    <3>. QED
      BY <3>1, <1>3 DEF Span
  <2>4. \A i \in 1..Len(t) : t[i] = (a + 1) + i
    BY <1>1, <2>2, <2>3
  <2>5. Span(t, a + 1) /\ (n + 1) - Len(t) = a + 1
    BY <1>1, <2>2, <2>4 DEF Span
  <2>6. Len(t) = n + 1 \/ Len(t) >= PreBuffer
    BY <1>1, <1>3, <1>4, <2>2
  <2>. QED
    BY <2>5, <2>6 DEF t, p
<1>5. CASE ~(Len(p) > PreBuffer)
  <2>1. t = p
    BY <1>5 DEF Loop!KeepLast
  <2>2. (n + 1) - Len(t) = a
    BY <1>1, <1>3, <2>1
  <2>3. Len(t) = n + 1 \/ Len(t) >= PreBuffer
    BY <1>1, <1>3, <1>5, <2>1
  <2>. HIDE DEF t
  <2>. QED
    BY <1>3, <2>1, <2>2, <2>3 DEF t, p
<1>. QED
  BY <1>4, <1>5

LEMMA VoicedFrameReady ==
    ASSUME Loop!FrameAssumption, NEW w, Ready(w), w.stop = "no", NEW loud, NEW b,
           NEW carry \in 0..1
    PROVE  LET v == Loop!VoicedFrame(Loop!EarlyBadge([w EXCEPT !.n = @ + 1], b), loud, carry)
           IN  Ready(v) /\ Follows(w, v)
<1>. DEFINE e == Loop!EarlyBadge([w EXCEPT !.n = @ + 1], b)
            r == Loop!Resume(e)
            o == Loop!Onset(r, loud)
            a == [o EXCEPT !.speech = Append(@, e.n), !.fresh = TRUE, !.heard = @ + 1,
                           !.tailVoiced = @ + 1, !.words = Append(@, e.n)]
            K == {"pending", "gen", "transcribing", "run", "silence"}
            v == Loop!VoicedFrame(e, loud, carry)
<1>1. SoundKeys \subseteq DOMAIN w /\ w.gen \in Nat /\ (Hearing(w) \/ Waiting(w))
      /\ w.n \in Nat
  BY DEF Ready, Hearing, Waiting
<1>2. Only(w, e, {"n", "shown"}) /\ e.n = w.n + 1
  BY <1>1 DEF Only, SoundKeys, AudioKeys, Loop!EarlyBadge
<1>3. v = IF o.inSpeech
          THEN Loop!HardFlush(Loop!SpawnWindow(Loop!ApplyVerdict(Loop!FailOpen(a))), carry)
          ELSE [o EXCEPT !.pre = Loop!KeepLast(Append(@, e.n))]
  BY DEF Loop!VoicedFrame
<1>. HIDE DEF e
<1>4. SoundKeys \subseteq DOMAIN e /\ \A k \in SoundKeys \ {"n", "shown"} : e[k] = w[k]
  BY <1>1, <1>2, OnlyIs
<1>5. e.gen = w.gen /\ e.run = w.run
  BY <1>4 DEF SoundKeys, AudioKeys, OtherKeys
<1>6. /\ Only(e, r, K) /\ ~r.pending /\ r.gen \in Nat /\ w.gen <= r.gen
      /\ r.run = w.run + 1 /\ r.silence = 0
  BY <1>1, <1>4, <1>5, ResumeIs
<1>. HIDE DEF r
<1>7. Only(w, r, VoicedKeys)
  <2>1. {"n", "shown"} \subseteq VoicedKeys /\ K \subseteq VoicedKeys
    BY DEF VoicedKeys
  <2>. HIDE DEF K
  <2>. QED
    BY <1>2, <1>6, <2>1, OnlyBoth
<1>8. SoundKeys \subseteq DOMAIN r /\ \A k \in SoundKeys \ VoicedKeys : r[k] = w[k]
  BY <1>1, <1>7, OnlyIs
<1>9. r.n = w.n + 1
  BY <1>2, <1>4, <1>6 DEF Only, SoundKeys, AudioKeys
<1>. DEFINE O == {"inSpeech", "stream", "logged", "shown", "words", "speech", "pre"}
<1>10. /\ SoundKeys \subseteq DOMAIN o /\ Only(r, o, O)
       /\ o.inSpeech => \E d \in Int : Opened(o, w.n, d)
       /\ ~o.inSpeech => o = r /\ Waiting(w) /\ r.run < MinSpeech
  BY <1>6, <1>7, <1>9, VoicedOpens
<1>. HIDE DEF o
<1>11. \A k \in SoundKeys \ O : o[k] = r[k]
  BY <1>8, <1>10, OnlyIs
<1>. HIDE DEF O
<1>12. /\ o.job = w.job /\ o.windows = w.windows /\ o.gate = w.gate /\ o.embedder = w.embedder
       /\ o.verified = w.verified /\ o.stop = "no" /\ ~o.pending /\ o.gen = r.gen
       /\ o.n = w.n + 1 /\ o.run = r.run /\ o.silence = 0
  BY <1>6, <1>8, <1>9, <1>11 DEF SoundKeys, AudioKeys, OtherKeys, VoicedKeys, O
<1>13. CASE o.inSpeech
  <2>. DEFINE A == {"speech", "fresh", "heard", "tailVoiced", "words"}
  <2>1. /\ Only(o, a, A) /\ a.speech = Append(o.speech, w.n + 1)
        /\ a.words = Append(o.words, w.n + 1) /\ a.tailVoiced = o.tailVoiced + 1
    <3>1. {"speech", "tailVoiced", "words"} \subseteq DOMAIN o
      BY <1>10 DEF SoundKeys, AudioKeys
    <3>2. Only(o, a, A)
      BY Zenon DEF Only
    <3>. QED
      BY <1>2, <3>1, <3>2
  <2>. HIDE DEF a
  <2>2. PICK d \in Int : Opened(o, w.n, d)
    BY <1>10, <1>13
  <2>3. Hearing(a)
    BY <1>1, <1>10, <2>1, <2>2, VoicedAppend
  <2>4. SoundKeys \subseteq DOMAIN a /\ \A k \in SoundKeys \ A : a[k] = o[k]
    BY <1>10, <2>1, OnlyIs
  <2>. HIDE DEF A
  <2>5. /\ a.job = w.job /\ a.windows = w.windows /\ a.gate = w.gate /\ a.embedder = w.embedder
        /\ a.verified = w.verified /\ a.stop = "no" /\ ~a.pending /\ a.gen = r.gen
    BY <1>12, <2>4 DEF SoundKeys, AudioKeys, OtherKeys, A
  <2>6. Checked(a)
    BY <2>5 DEF Checked, Ready
  <2>7. Steady(a)
    BY <1>6, <2>3, <2>4, <2>5, <2>6, HearingCloses DEF Steady
  <2>. DEFINE f == Loop!FailOpen(a)
              g == Loop!ApplyVerdict(f)
              h == Loop!SpawnWindow(g)
              i == Loop!HardFlush(h, carry)
  <2>8. Steady(f) /\ Carries(a, f) /\ f.stop = "no"
    BY <2>5, <2>7, FailOpenSteady
  <2>. HIDE DEF f
  <2>9. Steady(g) /\ Carries(f, g)
    BY <2>8, ApplyVerdictSteady
  <2>. HIDE DEF g
  <2>10. Steady(h) /\ Carries(g, h)
    BY <2>9, SpawnWindowSteady
  <2>. HIDE DEF h
  <2>11. Steady(i) /\ Carries(h, i)
    BY <2>10, HardFlushSteady
  <2>. HIDE DEF i
  <2>12. /\ a.gen \in Nat /\ f.gen \in Nat /\ g.gen \in Nat /\ h.gen \in Nat /\ i.gen \in Nat
    BY <2>7, <2>8, <2>9, <2>10, <2>11 DEF Steady
  <2>13. Carries(a, i)
    <3>1. Carries(a, g)
      BY <2>8, <2>9, <2>12, CarriesOn
    <3>2. Carries(a, h)
      BY <2>10, <2>12, <3>1, CarriesOn
    <3>. QED
      BY <2>11, <2>12, <3>2, CarriesOn
  <2>14. w.gen <= i.gen /\ ~(i.pending /\ ~i.tailCut)
    BY <1>1, <1>6, <2>5, <2>12, <2>13 DEF Carries
  <2>15. Follows(w, i)
    BY <2>14 DEF Follows
  <2>16. v = i
    BY <1>3, <1>13 DEF i, h, g, f
  <2>. QED
    BY <2>11, <2>15, <2>16, SteadyIsReady DEF v, e
<1>14. CASE ~o.inSpeech
  <2>. DEFINE p == [o EXCEPT !.pre = Loop!KeepLast(Append(@, e.n))]
  <2>1. v = p /\ o = r /\ Waiting(w) /\ r.run < MinSpeech
    BY <1>3, <1>10, <1>14
  <2>2. Only(o, p, {"pre"}) /\ p.pre = Loop!KeepLast(Append(o.pre, w.n + 1))
    BY <1>2, <1>10 DEF Only, SoundKeys, AudioKeys
  <2>. HIDE DEF p
  <2>3. SoundKeys \subseteq DOMAIN p /\ \A k \in SoundKeys \ {"pre"} : p[k] = o[k]
    BY <1>10, <2>2, OnlyIs
  <2>4. /\ p.job = w.job /\ p.windows = w.windows /\ p.gate = w.gate /\ p.embedder = w.embedder
        /\ p.verified = w.verified /\ p.stop = "no" /\ ~p.pending /\ p.gen = r.gen
        /\ p.n = w.n + 1 /\ p.run = w.run + 1 /\ p.silence = 0
    BY <1>6, <1>12, <2>3 DEF SoundKeys, AudioKeys, OtherKeys
  <2>5. /\ p.words = w.words /\ p.speech = w.speech /\ p.inSpeech = w.inSpeech
        /\ p.flushed = w.flushed /\ p.chunks = w.chunks /\ p.tailVoiced = w.tailVoiced
        /\ p.cut = w.cut /\ p.tailCut = w.tailCut /\ o.pre = w.pre
    BY <1>8, <2>1, <2>3 DEF SoundKeys, AudioKeys, OtherKeys, VoicedKeys
  <2>6. Checked(p)
    BY <2>4 DEF Checked, Ready
  <2>7. /\ Span(p.pre, (w.n + 1) - Len(p.pre))
        /\ (Len(p.pre) = w.n + 1 \/ Len(p.pre) >= PreBuffer)
    <3>1. Span(w.pre, w.n - Len(w.pre)) /\ (Len(w.pre) = w.n \/ Len(w.pre) >= PreBuffer)
      BY <2>1 DEF Waiting
    <3>2. Len(w.pre) \in Nat
      BY <3>1, LenProperties DEF Span
    <3>3. LET t == Loop!KeepLast(Append(w.pre, w.n + 1))
          IN  /\ Span(t, (w.n + 1) - Len(t)) /\ (Len(t) = w.n + 1 \/ Len(t) >= PreBuffer)
      BY <1>1, <3>1, <3>2, KeepLastIs
    <3>4. p.pre = Loop!KeepLast(Append(w.pre, w.n + 1))
      BY <2>2, <2>5
    <3>. QED
      BY <3>3, <3>4
  <2>8. Waiting(p)
    <3>1. p.run \in Nat /\ p.run < MinSpeech /\ p.run <= p.n /\ p.n \in Nat
      BY <1>6, <2>1, <2>4, SMTT(20) DEF Waiting
    <3>2. Span(p.pre, p.n - Len(p.pre)) /\ (Len(p.pre) = p.n \/ Len(p.pre) >= PreBuffer)
      BY <2>4, <2>7
    <3>3. p.silence \in Nat
      BY <2>4
    <3>. QED
      BY <2>1, <2>5, <3>1, <3>2, <3>3 DEF Waiting
  <2>9. Ready(p) /\ Follows(w, p)
    BY <1>6, <2>3, <2>4, <2>6, <2>8, WaitingCloses DEF Ready, Follows
  <2>. QED
    BY <2>1, <2>9 DEF v, e
<1>. QED
  BY <1>13, <1>14

LEMMA IdleFrameReady ==
    ASSUME Loop!FrameAssumption, NEW w, Ready(w), w.stop = "no", ~w.inSpeech, NEW retract
    PROVE  LET v == Loop!IdleFrame([w EXCEPT !.n = @ + 1], retract)
           IN  Ready(v) /\ Follows(w, v)
<1>. DEFINE v == Loop!IdleFrame([w EXCEPT !.n = @ + 1], retract)
            K == {"n", "run", "pre", "shown"}
<1>1. SoundKeys \subseteq DOMAIN w /\ Waiting(w) /\ w.gen \in Nat
  BY DEF Ready, Hearing
<1>2. {"n", "run", "pre"} \subseteq DOMAIN w
  BY <1>1 DEF SoundKeys, AudioKeys
<1>3. /\ Only(w, v, K) /\ v.n = w.n + 1 /\ v.run = 0
      /\ v.pre = Loop!KeepLast(Append(w.pre, w.n + 1))
  BY <1>2 DEF Only, Loop!IdleFrame
<1>. HIDE DEF v
<1>4. SoundKeys \subseteq DOMAIN v /\ \A k \in SoundKeys \ K : v[k] = w[k]
  BY <1>1, <1>3, OnlyIs
<1>. HIDE DEF K
<1>5. /\ v.job = w.job /\ v.windows = w.windows /\ v.gate = w.gate /\ v.gen = w.gen
      /\ v.embedder = w.embedder /\ v.pending = w.pending /\ v.verified = w.verified
      /\ v.specTrim = w.specTrim /\ v.words = w.words /\ v.flushed = w.flushed
      /\ v.tailCut = w.tailCut /\ v.stop = w.stop /\ v.chunks = w.chunks
      /\ v.tailVoiced = w.tailVoiced /\ v.inSpeech = w.inSpeech /\ v.speech = w.speech
      /\ v.cut = w.cut /\ v.silence = w.silence
  BY <1>4 DEF SoundKeys, OtherKeys, AudioKeys, K
<1>6. Checked(v)
  BY <1>5 DEF Checked, Ready
<1>7. Span(w.pre, w.n - Len(w.pre)) /\ (Len(w.pre) = w.n \/ Len(w.pre) >= PreBuffer)
      /\ w.n \in Nat
  BY <1>1 DEF Waiting
<1>8. Len(w.pre) \in Nat
  BY <1>7, LenProperties DEF Span
<1>9. LET t == Loop!KeepLast(Append(w.pre, w.n + 1))
      IN  /\ Span(t, (w.n + 1) - Len(t)) /\ (Len(t) = w.n + 1 \/ Len(t) >= PreBuffer)
  BY <1>7, <1>8, KeepLastIs
<1>10. /\ Span(v.pre, v.n - Len(v.pre)) /\ (Len(v.pre) = v.n \/ Len(v.pre) >= PreBuffer)
       /\ v.n \in Nat /\ v.run \in Nat /\ v.run < MinSpeech /\ v.run <= v.n
  BY <1>3, <1>7, <1>9 DEF Loop!FrameAssumption
<1>11. Waiting(v)
  BY <1>1, <1>5, <1>10 DEF Waiting
<1>12. Ready(v)
  BY <1>1, <1>4, <1>5, <1>6, <1>11, WaitingCloses DEF Ready
<1>13. \A s : Sought(w, s) => Sought(v, s)
  BY <1>5, SoughtSame
<1>14. Follows(w, v)
  BY <1>1, <1>5, <1>13 DEF Follows
<1>. QED
  BY <1>12, <1>14 DEF v

LEMMA FrameReady ==
    ASSUME Loop!FrameAssumption, NEW w, Ready(w), w.stop = "no",
           NEW voice, NEW a, NEW b, NEW carry \in 0..1, NEW cutAt
    PROVE  LET w0 == [w EXCEPT !.n = @ + 1]
               w1 == IF voice THEN Loop!VoicedFrame(Loop!EarlyBadge(w0, b), a, carry)
                     ELSE IF w.inSpeech THEN Loop!SilentFrame(w0, a, cutAt)
                     ELSE Loop!IdleFrame(w0, a)
               v  == IF w1.stop = "no" /\ w1.n = MaxFrames THEN [w1 EXCEPT !.stop = "break"]
                     ELSE w1
           IN  Ready(v) /\ Follows(w, v)
<1>. DEFINE w0 == [w EXCEPT !.n = @ + 1]
            w1 == IF voice THEN Loop!VoicedFrame(Loop!EarlyBadge(w0, b), a, carry)
                  ELSE IF w.inSpeech THEN Loop!SilentFrame(w0, a, cutAt)
                  ELSE Loop!IdleFrame(w0, a)
            v  == IF w1.stop = "no" /\ w1.n = MaxFrames THEN [w1 EXCEPT !.stop = "break"]
                  ELSE w1
<1>1. Ready(w1) /\ Follows(w, w1)
  <2>1. CASE voice
    BY <2>1, VoicedFrameReady
  <2>2. CASE ~voice /\ w.inSpeech
    BY <2>2, SilentFrameReady
  <2>3. CASE ~voice /\ ~w.inSpeech
    BY <2>3, IdleFrameReady
  <2>. QED
    BY <2>1, <2>2, <2>3
<1>. HIDE DEF w1
<1>2. Ready(v) /\ Follows(w, v)
  BY <1>1, BreaksReady
<1>. QED
  BY <1>2 DEF w1, v

\* The inductive invariant.  What may still be stored for the generation that is awaited
\* answers the buffer as it will be trimmed; once it is trimmed, the buffer as it is.
Generations ==
    /\ u.gen \in Nat
    /\ \A t \in threads : t.gen \in Int /\ t.gen <= u.gen /\ {"gen", "audio"} \subseteq DOMAIN t
    /\ slot.gen \in Int /\ slot.gen <= u.gen
Listened ==
    phase \in {"loop", "ended"} =>
        /\ Ready(u) /\ (phase = "loop" => u.stop = "no")
        /\ u.pending /\ ~u.tailCut => /\ \A t \in threads : t.gen = u.gen => Sought(u, t.audio)
                                      /\ slot.gen = u.gen => Sought(u, slot.audio)
Accepted ==
    phase = "await" =>
        /\ u.tailCut \/ Closed(u)
        /\ u.pending /\ ~u.tailCut => /\ \A t \in threads : t.gen = u.gen => Fits(u, t.audio)
                                      /\ slot.gen = u.gen => Fits(u, slot.audio)
WordsInv ==
    /\ Generations /\ Listened /\ Accepted
    /\ phase # "done" => ~Delivered
    /\ EveryWordOnce

LEMMA WordsAtFirst ==
    ASSUME Loop!FrameAssumption, Loop!Init PROVE WordsInv
<1>1. PICK g \in Gates, s \in IF backend = "apple" THEN BOOLEAN ELSE {FALSE} :
        u = [n |-> 0, words |-> <<>>,
             pre |-> <<>>, speech |-> <<>>, chunks |-> 0, flushed |-> <<>>, committed |-> 0,
             run |-> 0, silence |-> 0, inSpeech |-> FALSE, logged |-> FALSE,
             shown |-> FALSE, transcribing |-> FALSE,
             fresh |-> TRUE, tailVoiced |-> 0, heard |-> 0,
             gate |-> g # "off", embedder |-> g = "on", verified |-> FALSE, vouched |-> FALSE,
             job |-> Loop!NoJob, confirmed |-> 0, tailFail |-> 0, gateFail |-> 0,
             windows |-> {}, epoch |-> 0, userBefore |-> FALSE,
             trimmed |-> FALSE, cut |-> {}, tailCut |-> FALSE, cutInPause |-> FALSE,
             pending |-> FALSE, specTrim |-> Loop!NoTrim, gen |-> 0,
             streamable |-> s, stream |-> FALSE, preempted |-> FALSE, stop |-> "no"]
  BY Zenon DEF Loop!Init
<1>2. threads = {} /\ slot = Loop!NoText /\ phase = "loop" /\ outcome.kind = "none"
  BY DEF Loop!Init
<1>3. /\ u.n = 0 /\ u.words = <<>> /\ u.pre = <<>> /\ u.speech = <<>> /\ u.chunks = 0
      /\ u.flushed = <<>> /\ u.run = 0 /\ u.silence = 0 /\ ~u.inSpeech /\ u.tailVoiced = 0
      /\ u.cut = {} /\ ~u.tailCut
  BY <1>1
<1>4. /\ u.job = Loop!NoJob /\ u.windows = {} /\ u.gen = 0 /\ u.stop = "no" /\ ~u.pending
      /\ (u.embedder => u.gate)
  BY <1>1
<1>5. SoundKeys \subseteq DOMAIN u
  BY <1>1 DEF SoundKeys, AudioKeys, OtherKeys
<1>6. Waiting(u)
  <2>1. Len(u.pre) = 0 /\ Span(u.pre, 0)
    BY <1>3, NoIds, EmptySeq
  <2>2. u.n - Len(u.pre) = 0 /\ u.run < MinSpeech
    <3>1. MinSpeech \in Nat /\ 0 < MinSpeech /\ 0 - 0 = 0
      BY DEF Loop!FrameAssumption
    <3>. QED
      BY <1>3, <2>1, <3>1
  <2>. QED
    BY <1>3, <2>1, <2>2 DEF Waiting
<1>7. Checked(u)
  BY <1>4 DEF Checked, Scored
<1>8. Ready(u)
  BY <1>4, <1>5, <1>6, <1>7, WaitingCloses DEF Ready
<1>9. Generations
  BY <1>2, <1>4 DEF Generations, Loop!NoText
<1>10. ~Delivered
  BY <1>2 DEF Delivered
<1>. QED
  BY <1>2, <1>4, <1>8, <1>9, <1>10 DEF WordsInv, Listened, Accepted, EveryWordOnce

\* A frame.
LEMMA WordsFrame ==
    ASSUME Loop!FrameAssumption, WordsInv, NEW voice, NEW a, NEW b, NEW carry \in 0..1,
           NEW cutAt, Loop!Frame(voice, a, b, carry, cutAt)
    PROVE  WordsInv'
<1>. DEFINE w0 == [u EXCEPT !.n = @ + 1]
            w1 == IF voice THEN Loop!VoicedFrame(Loop!EarlyBadge(w0, b), a, carry)
                  ELSE IF u.inSpeech THEN Loop!SilentFrame(w0, a, cutAt)
                  ELSE Loop!IdleFrame(w0, a)
            v0 == IF w1.stop = "no" /\ w1.n = MaxFrames THEN [w1 EXCEPT !.stop = "break"]
                  ELSE w1
<1>1. PICK v : v = v0
  OBVIOUS
<1>2. phase = "loop" /\ u' = v0
  BY Zenon DEF Loop!Frame
<1>3. /\ slot' = IF v0.gen # u.gen THEN Loop!NoText ELSE slot
      /\ threads' = IF v0.pending /\ v0.gen # u.gen
                    THEN threads \cup {[gen |-> v0.gen, audio |-> Loop!SpecAudio(v0), at |-> "stt"]}
                    ELSE threads
  BY Zenon DEF Loop!Frame
<1>4. IF v0.stop = "dropped"
      THEN Loop!Return("DroppedSpeaker", <<>>)
      ELSE phase' = (IF v0.stop = "no" THEN "loop" ELSE "ended") /\ UNCHANGED outcome
  BY Zenon DEF Loop!Frame
<1>5. Ready(u) /\ u.stop = "no"
  BY <1>2 DEF WordsInv, Listened
<1>6. Ready(v0) /\ Follows(u, v0)
  BY <1>5, FrameReady
<1>. HIDE DEF v0
<1>7. Ready(v) /\ Follows(u, v) /\ u' = v
  BY <1>1, <1>2, <1>6
<1>8. /\ slot' = IF v.gen # u.gen THEN Loop!NoText ELSE slot
      /\ threads' = IF v.pending /\ v.gen # u.gen
                    THEN threads \cup {[gen |-> v.gen, audio |-> Loop!SpecAudio(v), at |-> "stt"]}
                    ELSE threads
  BY <1>1, <1>3, Zenon
<1>9. \/ phase' = "done" /\ outcome'.kind = "DroppedSpeaker"
      \/ phase' = "loop" /\ v.stop = "no" /\ outcome' = outcome
      \/ phase' = "ended" /\ outcome' = outcome
  BY <1>1, <1>4 DEF Loop!Return
<1>10. Generations /\ v.gen \in Nat /\ u.gen <= v.gen
  BY <1>7 DEF WordsInv, Ready, Follows
<1>11. Generations'
  BY <1>7, <1>8, <1>10 DEF Generations, Loop!NoText
<1>12. ASSUME v.pending, ~v.tailCut
       PROVE  /\ \A t \in threads' : t.gen = v.gen => Sought(v, t.audio)
              /\ slot'.gen = v.gen => Sought(v, slot'.audio)
  <2>1. CASE v.gen = u.gen
    <3>1. u.pending /\ ~u.tailCut /\ \A s : Sought(u, s) => Sought(v, s)
      BY <1>7, <1>12, <2>1 DEF Follows
    <3>2. threads' = threads /\ slot' = slot
      BY <1>8, <2>1
    <3>. QED
      BY <1>2, <2>1, <3>1, <3>2 DEF WordsInv, Listened
  <2>2. CASE v.gen # u.gen
    <3>1. Sought(v, Loop!SpecAudio(v))
      BY <1>7, <1>12, <2>2 DEF Follows
    <3>2. slot'.gen # v.gen
      BY <1>8, <1>10, <2>2 DEF Loop!NoText
    <3>3. \A t \in threads : t.gen # v.gen
      BY <1>10, <2>2 DEF Generations
    <3>. QED
      BY <1>8, <1>12, <2>2, <3>1, <3>2, <3>3
  <2>. QED
    BY <2>1, <2>2
<1>13. Listened'
  BY <1>7, <1>9, <1>12 DEF Listened
<1>14. ~Delivered'
  BY <1>2, <1>9 DEF Delivered, WordsInv
<1>. QED
  BY <1>9, <1>11, <1>13, <1>14 DEF WordsInv, Accepted, EveryWordOnce

\* Nothing of the audio, of the verdicts or of the speculation has changed but a score.
LEMMA ScoreReady ==
    ASSUME NEW w, Ready(w), w.job # Loop!NoJob, NEW s
    PROVE  LET v == [w EXCEPT !.job.verdict = s]
           IN  /\ Ready(v) /\ v.gen = w.gen /\ v.pending = w.pending /\ v.tailCut = w.tailCut
               /\ v.stop = w.stop /\ \A t : Sought(w, t) => Sought(v, t)
<1>. DEFINE v == [w EXCEPT !.job.verdict = s]
<1>1. SoundKeys \subseteq DOMAIN w /\ Checked(w)
  BY DEF Ready
<1>2. /\ Only(w, v, {"job"}) /\ v.job = [w.job EXCEPT !.verdict = s]
  BY <1>1 DEF Only, SoundKeys, OtherKeys
<1>. HIDE DEF v
<1>3. SoundKeys \subseteq DOMAIN v /\ \A k \in SoundKeys \ {"job"} : v[k] = w[k]
  BY <1>1, <1>2, OnlyIs
<1>4. /\ v.windows = w.windows /\ v.gate = w.gate /\ v.gen = w.gen
      /\ v.embedder = w.embedder /\ v.pending = w.pending /\ v.verified = w.verified
      /\ v.specTrim = w.specTrim /\ v.words = w.words /\ v.flushed = w.flushed
      /\ v.tailCut = w.tailCut /\ v.stop = w.stop /\ v.chunks = w.chunks
      /\ v.tailVoiced = w.tailVoiced /\ v.inSpeech = w.inSpeech /\ v.speech = w.speech
      /\ v.cut = w.cut /\ v.silence = w.silence /\ v.n = w.n /\ v.run = w.run /\ v.pre = w.pre
  BY <1>3 DEF SoundKeys, OtherKeys, AudioKeys
<1>5. {"job"} \cap AudioKeys = {}
  BY DEF AudioKeys
<1>6. (Hearing(w) => Hearing(v)) /\ (Closed(w) => Closed(v))
  BY <1>1, <1>2, <1>5, Unheard
<1>7. Waiting(w) => Waiting(v)
  BY <1>4 DEF Waiting
<1>8. /\ DOMAIN v.job = JobKeys /\ v.job.len = w.job.len /\ v.job.scored = w.job.scored
      /\ w.embedder /\ w.job.len \in Nat /\ w.job.scored \in 0..w.job.len
  BY <1>1, <1>2 DEF Checked, JobKeys
<1>9. Checked(v)
  BY <1>1, <1>4, <1>8 DEF Checked
<1>10. Ready(v)
  BY <1>3, <1>4, <1>6, <1>7, <1>9 DEF Ready
<1>11. \A t : Sought(w, t) => Sought(v, t)
  BY <1>4, SoughtSame
<1>. QED
  BY <1>4, <1>10, <1>11 DEF v

\* The final trim keeps what the speculation was cut to, or the speculation is withdrawn.
LEMMA TrimCloses ==
    ASSUME NEW w, NEW a \in Int, Whole(w, a), Quiet(w, a),
           NEW plan, plan.lead \in Nat, plan.trail \in Nat,
           NEW v, v.speech = Loop!Keep(plan, w.speech),
           v.trimmed = (w.trimmed \/ plan # Loop!NoTrim),
           v.cut = w.cut \cup (Ids(w.speech) \ Ids(v.speech)),
           v.silence = IF plan.trail = 0 \/ plan.trail > Len(w.speech) THEN w.silence
                       ELSE IF w.silence > Len(w.speech) - plan.trail
                            THEN w.silence - (Len(w.speech) - plan.trail) ELSE 0,
           v.words = w.words, v.flushed = w.flushed, v.tailVoiced = w.tailVoiced,
           v.chunks = w.chunks, v.cutInPause = w.cutInPause
    PROVE  Closed(v)
<1>. DEFINE m == IF plan.trail = 0 \/ plan.trail > Len(w.speech) THEN Len(w.speech)
                 ELSE plan.trail
<1>1. Span(w.speech, a) /\ Len(w.speech) \in Nat /\ Ids(w.speech) = (a + 1)..(a + Len(w.speech))
  <2>1. Span(w.speech, a)
    BY DEF Whole
  <2>. QED
    BY <2>1, SpanIds
<1>2. /\ Span(v.speech, a + plan.lead)
      /\ Len(v.speech) = IF plan.lead < m THEN m - plan.lead ELSE 0
      /\ Ids(v.speech) = (a + plan.lead + 1)..(a + m) /\ m \in Nat /\ m <= Len(w.speech)
      /\ Ids(v.speech) \subseteq Ids(w.speech)
  <2>1. LET t == Loop!Keep(plan, w.speech)
        IN  /\ Span(t, a + plan.lead) /\ Len(t) = IF plan.lead < m THEN m - plan.lead ELSE 0
            /\ Ids(t) = (a + plan.lead + 1)..(a + m) /\ m \in Nat /\ m <= Len(w.speech)
            /\ Ids(t) \subseteq Ids(w.speech)
    BY <1>1, KeepIs
  <2>. QED
    BY <2>1, Zenon
<1>3. ~v.trimmed => v.cut = {}
  <2>1. ASSUME ~v.trimmed PROVE v.cut = {}
    <3>1. ~w.trimmed /\ plan = Loop!NoTrim
      BY <2>1, Zenon
    <3>2. plan.lead = 0 /\ m = Len(w.speech)
      BY <3>1 DEF Loop!NoTrim
    <3>3. Ids(v.speech) = Ids(w.speech)
      BY <1>1, <1>2, <3>2
    <3>4. w.cut = {}
      BY <3>1, Zenon DEF Whole
    <3>. QED
      BY <3>3, <3>4
  <2>. QED
    BY <2>1
<1>4. \A x \in Ids(w.flushed) : x \in Int /\ x <= a /\ x <= a + plan.lead /\ x \notin Ids(w.speech)
  <2>1. \A x \in Ids(w.flushed) : x \in Int /\ x <= a
    BY DEF Whole, Ids
  <2>. QED
    BY <1>1, <2>1
<1>5. Whole(v, a + plan.lead)
  BY <1>2, <1>3, <1>4 DEF Whole
<1>6. Quiet(v, a + plan.lead)
  <2>1. w.silence \in Nat
    BY DEF Quiet
  <2>2. v.silence \in Nat /\ (v.silence <= w.silence)
        /\ (v.silence = 0 \/ v.silence = w.silence - (Len(w.speech) - m))
    <3>1. CASE plan.trail = 0 \/ plan.trail > Len(w.speech)
      <4>1. m = Len(w.speech) /\ v.silence = w.silence
        BY <3>1
      <4>. QED
        BY <1>1, <2>1, <4>1
    <3>2. CASE ~(plan.trail = 0 \/ plan.trail > Len(w.speech))
      <4>1. m = plan.trail
        BY <3>2
      <4>2. CASE w.silence > Len(w.speech) - plan.trail
        <5>1. v.silence = w.silence - (Len(w.speech) - plan.trail)
          BY <3>2, <4>2
        <5>. QED
          BY <1>1, <1>2, <2>1, <4>1, <4>2, <5>1
      <4>3. CASE ~(w.silence > Len(w.speech) - plan.trail)
        <5>1. v.silence = 0
          BY <3>2, <4>3
        <5>. QED
          BY <2>1, <5>1
      <4>. QED
        BY <4>2, <4>3
    <3>. QED
      BY <3>1, <3>2
  <2>. HIDE DEF m
  <2>3. CASE w.cutInPause
    BY <2>2, <2>3 DEF Quiet
  <2>4. CASE \A x \in Ids(w.words) \cap Ids(w.speech) : x <= a + Len(w.speech) - w.silence
    <3>1. ASSUME NEW x \in Ids(v.words) \cap Ids(v.speech)
          PROVE  x <= a + plan.lead + Len(v.speech) - v.silence
      <4>1. x \in Int /\ x > a + plan.lead /\ x <= a + m /\ x <= a + Len(w.speech) - w.silence
        BY <1>2, <2>4, <3>1
      <4>2. PICK l \in Nat : l = plan.lead
        OBVIOUS
      <4>3. PICK h \in Nat : h = m
        BY <1>2
      <4>4. PICK n \in Nat : n = Len(w.speech)
        BY <1>1
      <4>5. PICK d \in Nat : d = w.silence
        BY <2>1
      <4>6. PICK e \in Nat : e = v.silence
        BY <2>2
      <4>7. l < h
        BY <4>1, <4>2, <4>3
      <4>8. Len(v.speech) = h - l
        BY <1>2, <4>2, <4>3, <4>7
      <4>9. x <= a + h /\ x <= a + (n - d) /\ (e = 0 \/ e = d - (n - h))
        BY <2>2, <4>1, <4>3, <4>4, <4>5, <4>6
      <4>10. x <= a + l + ((h - l) - e)
        BY <4>1, <4>9
      <4>. QED
        BY <4>2, <4>6, <4>8, <4>10
    <3>. QED
      BY <2>2, <3>1 DEF Quiet
  <2>. QED
    BY <2>3, <2>4 DEF Quiet
<1>7. a + plan.lead \in Int
  OBVIOUS
<1>. QED
  BY <1>5, <1>6, <1>7 DEF Closed

LEMMA WordsAccept ==
    ASSUME WordsInv, NEW whole, Loop!Accept(whole) PROVE WordsInv'
<1>. DEFINE plan0 == IF u.gate THEN Loop!Plan(u, Len(u.speech)) ELSE Loop!NoTrim
            kept0 == Loop!Keep(plan0, u.speech)
            v0 == [u EXCEPT !.speech = kept0, !.trimmed = @ \/ plan0 # Loop!NoTrim,
                            !.cut = @ \cup (Loop!Ids(u.speech) \ Loop!Ids(kept0)),
                            !.transcribing = TRUE, !.vouched = TRUE,
                            !.silence = IF plan0.trail = 0 \/ plan0.trail > Len(u.speech) THEN @
                                        ELSE IF @ > Len(u.speech) - plan0.trail
                                             THEN @ - (Len(u.speech) - plan0.trail) ELSE 0]
            K == {"speech", "trimmed", "cut", "transcribing", "vouched", "silence"}
<1>1. PICK plan : plan = plan0
  OBVIOUS
<1>2. PICK v : v = v0
  OBVIOUS
<1>3. PICK w : w = u
  OBVIOUS
<1>4. /\ phase = "ended" /\ u' = Loop!TrimOf(v0, plan0) /\ phase' = "await"
      /\ slot' = IF Loop!TrimOf(v0, plan0).gen # u.gen THEN Loop!NoText ELSE slot
      /\ threads' = threads /\ outcome' = outcome
  BY Zenon DEF Loop!Accept
<1>5. Ready(w) /\ Generations /\ ~Delivered
  BY <1>3, <1>4 DEF WordsInv, Listened
<1>6. SoundKeys \subseteq DOMAIN w /\ w.gen \in Nat /\ Scored(w.windows)
  BY <1>5 DEF Ready, Checked
<1>7. {"speech", "trimmed", "cut", "silence"} \subseteq DOMAIN w
  BY <1>6 DEF SoundKeys, AudioKeys
<1>8. /\ Only(w, v, K) /\ v.speech = Loop!Keep(plan, w.speech)
      /\ v.trimmed = (w.trimmed \/ plan # Loop!NoTrim)
      /\ v.cut = w.cut \cup (Ids(w.speech) \ Ids(v.speech))
      /\ v.silence = IF plan.trail = 0 \/ plan.trail > Len(w.speech) THEN w.silence
                     ELSE IF w.silence > Len(w.speech) - plan.trail
                          THEN w.silence - (Len(w.speech) - plan.trail) ELSE 0
  <2>1. Only(w, v, K)
    BY <1>2, <1>3, Zenon DEF Only
  <2>2. v = [w EXCEPT !.speech = kept0, !.trimmed = @ \/ plan # Loop!NoTrim,
                      !.cut = @ \cup (Loop!Ids(w.speech) \ Loop!Ids(kept0)),
                      !.transcribing = TRUE, !.vouched = TRUE,
                      !.silence = IF plan.trail = 0 \/ plan.trail > Len(w.speech) THEN @
                                  ELSE IF @ > Len(w.speech) - plan.trail
                                       THEN @ - (Len(w.speech) - plan.trail) ELSE 0]
    BY <1>1, <1>2, <1>3, Zenon
  <2>3. kept0 = Loop!Keep(plan, w.speech)
    BY <1>1, <1>3, Zenon
  <2>. HIDE DEF kept0, plan0, v0
  <2>4. v.speech = kept0 /\ v.trimmed = (w.trimmed \/ plan # Loop!NoTrim)
        /\ v.cut = w.cut \cup (Loop!Ids(w.speech) \ Loop!Ids(kept0))
    BY <1>7, <2>2, Zenon
  <2>5. v.silence = IF plan.trail = 0 \/ plan.trail > Len(w.speech) THEN w.silence
                    ELSE IF w.silence > Len(w.speech) - plan.trail
                         THEN w.silence - (Len(w.speech) - plan.trail) ELSE 0
    BY <1>7, <2>2
  <2>. QED
    BY <2>1, <2>3, <2>4, <2>5, SameIds
<1>9. plan = (IF w.gate THEN Loop!Plan(w, Len(w.speech)) ELSE Loop!NoTrim)
  BY <1>1, <1>3, Zenon
<1>10. u' = Loop!TrimOf(v, plan) /\ slot' = IF u'.gen # w.gen THEN Loop!NoText ELSE slot
  BY <1>1, <1>2, <1>3, <1>4, Zenon
<1>. HIDE DEF plan0, kept0, v0
<1>11. SoundKeys \subseteq DOMAIN v /\ \A k \in SoundKeys \ K : v[k] = w[k]
  BY <1>6, <1>8, OnlyIs
<1>. HIDE DEF K
<1>12. /\ v.words = w.words /\ v.flushed = w.flushed /\ v.tailVoiced = w.tailVoiced
       /\ v.chunks = w.chunks /\ v.cutInPause = w.cutInPause /\ v.tailCut = w.tailCut
       /\ v.pending = w.pending /\ v.specTrim = w.specTrim /\ v.gen = w.gen
  BY <1>11 DEF SoundKeys, AudioKeys, OtherKeys, K
<1>13. v.tailCut \/ Closed(v)
  <2>1. ASSUME ~w.tailCut PROVE Closed(v)
    <3>1. PICK a \in Int : Whole(w, a) /\ Quiet(w, a)
      BY <1>5, <2>1 DEF Ready, Closed
    <3>2. Len(w.speech) \in Nat
      <4>1. Span(w.speech, a)
        BY <3>1 DEF Whole
      <4>. QED
        BY <4>1, SpanIds
    <3>3. plan.lead \in Nat /\ plan.trail \in Nat
      <4>1. CASE w.gate
        <5>1. plan = Loop!Plan(w, Len(w.speech))
          BY <1>9, <4>1
        <5>. QED
          BY <1>6, <3>2, <5>1, PlanIs
      <4>2. CASE ~w.gate
        BY <1>9, <4>2 DEF Loop!NoTrim
      <4>. QED
        BY <4>1, <4>2
    <3>. QED
      BY <1>8, <1>12, <3>1, <3>3, TrimCloses
  <2>. QED
    BY <1>12, <2>1
<1>14. /\ u'.tailCut = v.tailCut /\ (Closed(v) => Closed(u')) /\ v.gen <= u'.gen /\ u'.gen \in Nat
       /\ u'.pending /\ ~u'.tailCut =>
             /\ w.pending /\ ~w.tailCut /\ u'.gen = w.gen /\ plan = w.specTrim
             /\ u'.words = w.words /\ u'.flushed = w.flushed /\ u'.speech = v.speech
  <2>1. CASE u' = v
    <3>1. ASSUME v.pending PROVE plan = v.specTrim
      <4>1. CASE plan # v.specTrim
        <5>1. u' = Loop!Invalidate(v)
          BY <1>10, <3>1, <4>1, Zenon DEF Loop!TrimOf
        <5>2. Loop!Invalidate(v).gen = v.gen + 1
          BY <1>11, InvalidateIs
        <5>3. v.gen \in Nat
          BY <1>6, <1>12
        <5>4. Loop!Invalidate(v) = v
          BY <2>1, <5>1, Zenon
        <5>5. v.gen = v.gen + 1
          BY <5>2, <5>4, Zenon
        <5>. QED
          BY <5>3, <5>5
      <4>. QED
        BY <4>1
    <3>. QED
      BY <1>6, <1>12, <2>1, <3>1
  <2>2. CASE u' = Loop!Invalidate(v)
    <3>1. /\ Only(v, u', {"pending", "gen"}) /\ ~u'.pending /\ u'.gen = v.gen + 1
      BY <1>11, <2>2, InvalidateIs
    <3>2. {"pending", "gen"} \cap AudioKeys = {}
      BY DEF AudioKeys
    <3>3. PICK y : y = u'
      OBVIOUS
    <3>4. Only(v, y, {"pending", "gen"})
      BY <3>1, <3>3
    <3>5. (Closed(v) => Closed(y)) /\ y.tailCut = v.tailCut
      BY <1>11, <3>2, <3>4, Unheard
    <3>6. (Closed(v) => Closed(u')) /\ u'.tailCut = v.tailCut
      BY <3>3, <3>5, Zenon
    <3>. QED
      BY <1>6, <1>12, <3>1, <3>6
  <2>3. u' = v \/ u' = Loop!Invalidate(v)
    BY <1>10, Zenon DEF Loop!TrimOf
  <2>. QED
    BY <2>1, <2>2, <2>3
<1>15. ASSUME u'.pending, ~u'.tailCut
       PROVE  /\ \A t \in threads' : t.gen = u'.gen => Fits(u', t.audio)
              /\ slot'.gen = u'.gen => Fits(u', slot'.audio)
  <2>1. PICK y : y = u'
    OBVIOUS
  <2>2. /\ w.pending /\ ~w.tailCut /\ y.gen = w.gen /\ plan = w.specTrim
        /\ y.words = w.words /\ y.flushed = w.flushed /\ y.speech = v.speech
    BY <1>14, <1>15, <2>1
  <2>3. /\ \A t \in threads : t.gen = w.gen => Sought(w, t.audio)
        /\ slot.gen = w.gen => Sought(w, slot.audio)
    BY <1>3, <1>4, <2>2 DEF WordsInv, Listened
  <2>4. ASSUME NEW s, Sought(w, s) PROVE Fits(y, s)
    BY <1>8, <2>2, <2>4 DEF Sought, Fits, Answers
  <2>5. slot' = slot
    BY <1>10, <2>1, <2>2
  <2>. QED
    BY <1>4, <2>1, <2>2, <2>3, <2>4, <2>5
<1>16. Generations'
  BY <1>3, <1>4, <1>5, <1>10, <1>12, <1>14 DEF Generations, Loop!NoText
<1>17. Accepted'
  BY <1>13, <1>14, <1>15 DEF Accepted
<1>18. ~Delivered'
  BY <1>4, <1>5 DEF Delivered
<1>. QED
  BY <1>4, <1>16, <1>17, <1>18 DEF WordsInv, Listened, EveryWordOnce

\* The text that is returned.
LEMMA FitsIsRight ==
    ASSUME NEW w, NEW a \in Int, Whole(w, a), NEW s, Fits(w, s)
    PROVE  /\ InOrder(w.flushed \o s)
           /\ Ids(w.flushed \o s) \cap Ids(w.words) = Ids(w.words) \ w.cut
<1>1. w.flushed \in Seq(Int) /\ InOrder(w.flushed)
  BY DEF Whole
<1>2. s \in Seq(Int) /\ InOrder(s) /\ \A x \in Ids(w.flushed), y \in Ids(s) : x < y
  BY DEF Fits, Answers
<1>3. InOrder(w.flushed \o s) /\ Ids(w.flushed \o s) = Ids(w.flushed) \cup Ids(s)
  BY <1>1, <1>2, OrderedJoin
<1>. QED
  BY <1>3 DEF Whole, Fits

\* Delivered is what the buffer says, unless one of the exceptions holds.
LEMMA WordsFinish ==
    ASSUME WordsInv, phase = "await", NEW text, NEW stale, Loop!Finish(text, stale),
           u' = u, threads' = threads, slot' = slot, backend' = backend,
           ~u.tailCut /\ ~stale /\ ~(backend = "groq" /\ u.cutInPause) =>
               /\ InOrder(u.flushed \o text)
               /\ Ids(u.flushed \o text) \cap Ids(u.words) = Ids(u.words) \ u.cut
    PROVE  WordsInv'
<1>1. phase' = "done" /\ outcome'.text = u.flushed \o text /\ outcome'.stale = stale
  BY DEF Loop!Finish
<1>2. EveryWordOnce'
  <2>1. PICK w : w = u
    OBVIOUS
  <2>2. PICK o : o = outcome'
    OBVIOUS
  <2>3. o.text = w.flushed \o text /\ o.stale = stale
    BY <1>1, <2>1, <2>2
  <2>4. ~w.tailCut /\ ~o.stale /\ ~(backend = "groq" /\ w.cutInPause) =>
               /\ InOrder(o.text)
               /\ Ids(o.text) \cap Ids(w.words) = Ids(w.words) \ w.cut
    BY <2>1, <2>3
  <2>. QED
    BY <2>1, <2>2, <2>4 DEF EveryWordOnce, InOrder, Ids
<1>. QED
  BY <1>1, <1>2 DEF WordsInv, Listened, Accepted, Generations

LEMMA WordsFinal ==
    ASSUME WordsInv, Loop!SilentTail \/ Loop!StreamFinal \/ Loop!UseSpeculation \/ Loop!Fresh
    PROVE  WordsInv'
<1>. DEFINE Right(text) == /\ InOrder(u.flushed \o text)
                           /\ Ids(u.flushed \o text) \cap Ids(u.words) = Ids(u.words) \ u.cut
<1>1. phase = "await" /\ (u.tailCut \/ Closed(u))
  BY DEF WordsInv, Accepted, Loop!SilentTail, Loop!StreamFinal, Loop!UseSpeculation, Loop!Fresh,
         Loop!FreshText
<1>2. ASSUME NEW a \in Int, Whole(u, a), NEW s, Fits(u, s) PROVE Right(s)
  BY <1>2, FitsIsRight
<1>3. CASE Loop!SilentTail
  <2>1. u.tailVoiced = 0 /\ Loop!Finish(<<>>, FALSE) /\ UNCHANGED <<backend, u, threads, slot>>
    BY <1>3 DEF Loop!SilentTail
  <2>2. ASSUME ~u.tailCut PROVE Right(<<>>)
    <3>1. PICK a \in Int : Whole(u, a)
      BY <1>1, <2>2 DEF Closed
    <3>2. Fits(u, <<>>)
      BY <2>1, <3>1, NoIds DEF Fits, Answers, Whole
    <3>. QED
      BY <1>2, <3>1, <3>2
  <2>. HIDE DEF Right
  <2>. QED
    BY <1>1, <2>1, <2>2, WordsFinish DEF Right
<1>4. CASE Loop!StreamFinal
  <2>1. /\ u.chunks = 0 /\ ~u.trimmed /\ Loop!Finish(u.words, FALSE)
        /\ UNCHANGED <<backend, u, threads, slot>>
    BY <1>4 DEF Loop!StreamFinal, Loop!StreamUsable
  <2>2. ASSUME ~u.tailCut PROVE Right(u.words)
    <3>1. PICK a \in Int : Whole(u, a)
      BY <1>1, <2>2 DEF Closed
    <3>2. u.flushed = <<>> /\ u.cut = {} /\ InOrder(u.words) /\ u.words \in Seq(Int)
      BY <2>1, <3>1 DEF Whole
    <3>3. u.flushed \o u.words = u.words
      BY <3>2, ConcatEmptySeq
    <3>. QED
      BY <3>2, <3>3
  <2>. HIDE DEF Right
  <2>. QED
    BY <1>1, <2>1, <2>2, WordsFinish DEF Right
<1>5. CASE Loop!UseSpeculation
  <2>1. /\ u.pending /\ slot # Loop!NoText /\ Loop!Finish(slot.audio, Loop!Poisoned)
        /\ UNCHANGED <<backend, u, threads, slot>>
    BY <1>5 DEF Loop!UseSpeculation
  <2>2. ASSUME ~u.tailCut, ~Loop!Poisoned PROVE Right(slot.audio)
    <3>1. PICK a \in Int : Whole(u, a)
      BY <1>1, <2>2 DEF Closed
    <3>2. slot.gen = u.gen
      BY <2>1, <2>2 DEF Loop!Poisoned
    <3>3. Fits(u, slot.audio)
      BY <1>1, <2>1, <2>2, <3>2 DEF WordsInv, Accepted
    <3>. QED
      BY <1>2, <3>1, <3>3
  <2>. HIDE DEF Right
  <2>. QED
    BY <1>1, <2>1, <2>2, WordsFinish DEF Right
<1>6. CASE Loop!Fresh
  <2>. DEFINE t == Loop!WithoutSilence(u.speech, u.silence, 0)
  <2>1. Loop!Finish(t, FALSE) /\ UNCHANGED <<backend, u, threads, slot>>
    BY <1>6 DEF Loop!Fresh, Loop!FreshText
  <2>2. ASSUME ~u.tailCut, ~(backend = "groq" /\ u.cutInPause) PROVE Right(t)
    <3>1. PICK a \in Int : Whole(u, a) /\ Quiet(u, a)
      BY <1>1, <2>2 DEF Closed
    <3>2. Span(u.speech, a) /\ Ids(u.speech) = (a + 1)..(a + Len(u.speech)) /\ Len(u.speech) \in Nat
      <4>1. Span(u.speech, a)
        BY <3>1 DEF Whole
      <4>. QED
        BY <4>1, SpanIds
    <3>3. u.silence \in Nat
      BY <3>1 DEF Quiet
    <3>4. ASSUME NEW z \in Nat, z = 0
          PROVE  LET t0 == Loop!WithoutSilence(u.speech, u.silence, z)
                 IN /\ Span(t0, a) /\ Ids(t0) \subseteq Ids(u.speech)
                    /\ \A x \in Ids(u.speech) :
                         backend # "groq" \/ x <= a + Len(u.speech) + z - u.silence => x \in Ids(t0)
      BY <3>2, <3>3, WithoutIs
    <3>5. /\ Span(t, a) /\ Ids(t) \subseteq Ids(u.speech)
          /\ \A x \in Ids(u.speech) :
               backend # "groq" \/ x <= a + Len(u.speech) + 0 - u.silence => x \in Ids(t)
      BY <3>4
    <3>. HIDE DEF t
    <3>6. \A x \in Ids(u.words) \cap Ids(u.speech) : x \in Ids(t)
      <4>1. CASE backend # "groq"
        BY <3>5, <4>1
      <4>2. CASE \A x \in Ids(u.words) \cap Ids(u.speech) : x <= a + Len(u.speech) - u.silence
        <5>1. a + Len(u.speech) - u.silence = a + Len(u.speech) + 0 - u.silence
          BY <3>2, <3>3
        <5>. QED
          BY <3>5, <4>2, <5>1
      <4>. QED
        BY <2>2, <3>1, <4>1, <4>2 DEF Quiet
    <3>7. Answers(u, t)
      <4>1. t \in Seq(Int) /\ InOrder(t)
        BY <3>5, SpanIds
      <4>2. \A x \in Ids(u.flushed) : x \in Int /\ x <= a
        BY <3>1 DEF Whole, Ids
      <4>3. \A y \in Ids(t) : y \in Int /\ a < y
        BY <3>2, <3>5
      <4>. QED
        BY <4>1, <4>2, <4>3 DEF Answers
    <3>8. Fits(u, t)
      BY <3>5, <3>6, <3>7 DEF Fits
    <3>. QED
      BY <1>2, <3>1, <3>8
  <2>. HIDE DEF Right, t
  <2>. QED
    BY <1>1, <2>1, <2>2, WordsFinish DEF Right
<1>. QED
  BY <1>3, <1>4, <1>5, <1>6

\* What leaves the loop without a text, and what returns none.
LEMMA WordsLeave ==
    ASSUME WordsInv,
           \/ \E p \in BOOLEAN : Loop!CaptureStops(p)
           \/ Loop!EnrollmentPending \/ Loop!NothingCaptured \/ Loop!TooQuiet
           \/ \E x \in Verdicts : Loop!SpeakerRejected(x)
           \/ Loop!FreshFails \/ Loop!Noise
    PROVE  WordsInv'
<1>1. ASSUME NEW p \in BOOLEAN, Loop!CaptureStops(p) PROVE WordsInv'
  <2>. DEFINE v0 == [u EXCEPT !.preempted = p, !.stop = "break"]
              K == {"preempted", "stop"}
  <2>1. phase = "loop" /\ u' = v0 /\ phase' = "ended"
        /\ threads' = threads /\ slot' = slot /\ outcome' = outcome /\ backend' = backend
    BY <1>1 DEF Loop!CaptureStops
  <2>2. PICK v : v = v0
    OBVIOUS
  <2>3. Ready(u) /\ Generations /\ ~Delivered
    BY <2>1 DEF WordsInv, Listened
  <2>4. Only(u, v, K) /\ v.stop = "break"
    BY <2>2, <2>3 DEF Only, Ready, SoundKeys, OtherKeys
  <2>. HIDE DEF v0
  <2>5. K \cap SoundKeys = {"stop"}
    BY DEF SoundKeys, AudioKeys, OtherKeys
  <2>6. Follows(u, u)
    BY <2>3 DEF Follows, Generations
  <2>. HIDE DEF K
  <2>7. Ready(v) /\ Follows(u, v)
    BY <2>3, <2>4, <2>5, <2>6, LeavesReady
  <2>8. v.gen = u.gen
    <3>1. \A k \in SoundKeys \ K : v[k] = u[k]
      BY <2>3, <2>4, OnlyIs DEF Ready
    <3>. QED
      BY <3>1 DEF SoundKeys, OtherKeys, K
  <2>9. u' = v
    BY <2>1, <2>2
  <2>10. ASSUME v.pending, ~v.tailCut
         PROVE  /\ \A t \in threads : t.gen = v.gen => Sought(v, t.audio)
                /\ slot.gen = v.gen => Sought(v, slot.audio)
    <3>1. u.pending /\ ~u.tailCut /\ \A s : Sought(u, s) => Sought(v, s)
      BY <2>7, <2>8, <2>10 DEF Follows
    <3>. QED
      BY <2>1, <2>8, <3>1 DEF WordsInv, Listened
  <2>11. Listened'
    BY <2>1, <2>7, <2>9, <2>10 DEF Listened
  <2>12. Generations'
    BY <2>1, <2>3, <2>8, <2>9 DEF Generations
  <2>13. ~Delivered'
    BY <2>1, <2>3 DEF Delivered
  <2>. QED
    BY <2>1, <2>11, <2>12, <2>13 DEF WordsInv, Accepted, EveryWordOnce
<1>2. ASSUME u'.gen = u.gen, phase' = "done", outcome'.kind \notin {"Speech", "Preempted"},
             threads' = threads, slot' = slot
      PROVE  WordsInv'
  <2>1. ~Delivered'
    BY <1>2 DEF Delivered
  <2>2. Generations'
    BY <1>2 DEF WordsInv, Generations
  <2>. QED
    BY <1>2, <2>1, <2>2 DEF WordsInv, Listened, Accepted, EveryWordOnce
<1>3. ASSUME Loop!EnrollmentPending PROVE WordsInv'
  BY <1>2, <1>3 DEF Loop!EnrollmentPending, Loop!Return
<1>4. ASSUME Loop!NothingCaptured PROVE WordsInv'
  BY <1>2, <1>4 DEF Loop!NothingCaptured, Loop!Return
<1>5. ASSUME Loop!TooQuiet PROVE WordsInv'
  BY <1>2, <1>5 DEF Loop!TooQuiet, Loop!Return
<1>6. ASSUME NEW x \in Verdicts, Loop!SpeakerRejected(x) PROVE WordsInv'
  <2>1. /\ u' = [u EXCEPT !.shown = FALSE, !.transcribing = FALSE]
        /\ Loop!Return("DroppedSpeaker", <<>>) /\ UNCHANGED <<backend, threads, slot>>
    BY <1>6, Zenon DEF Loop!SpeakerRejected
  <2>. QED
    BY <1>2, <2>1 DEF Loop!Return
<1>7. ASSUME Loop!FreshFails PROVE WordsInv'
  BY <1>2, <1>7 DEF Loop!FreshFails, Loop!Return
<1>8. ASSUME Loop!Noise PROVE WordsInv'
  BY <1>2, <1>8 DEF Loop!Noise, Loop!Return
<1>. QED
  BY <1>1, <1>3, <1>4, <1>5, <1>6, <1>7, <1>8

\* The threads: a score lands, an engine answers, an answer is stored.
LEMMA WordsThread ==
    ASSUME WordsInv, Loop!ThreadStep PROVE WordsInv'
<1>1. ASSUME NEW x \in Verdicts, Loop!Score(x) PROVE WordsInv'
  <2>. DEFINE v0 == [u EXCEPT !.job.verdict = x]
  <2>1. /\ u.job # Loop!NoJob /\ phase \in {"loop", "ended"} /\ u' = v0
        /\ threads' = threads /\ slot' = slot /\ outcome' = outcome /\ phase' = phase
    BY <1>1 DEF Loop!Score
  <2>2. Ready(u) /\ Generations /\ ~Delivered /\ (phase = "loop" => u.stop = "no")
    BY <2>1 DEF WordsInv, Listened
  <2>3. PICK v : v = v0
    OBVIOUS
  <2>4. /\ Ready(v0) /\ v0.gen = u.gen /\ v0.pending = u.pending /\ v0.tailCut = u.tailCut
        /\ v0.stop = u.stop /\ \A t : Sought(u, t) => Sought(v0, t)
    BY <2>1, <2>2, ScoreReady
  <2>. HIDE DEF v0
  <2>5. /\ Ready(v) /\ v.gen = u.gen /\ v.pending = u.pending /\ v.tailCut = u.tailCut
        /\ v.stop = u.stop /\ u' = v /\ \A t : Sought(u, t) => Sought(v, t)
    BY <2>1, <2>3, <2>4
  <2>6. Listened'
    BY <2>1, <2>2, <2>5 DEF Listened, WordsInv
  <2>7. Generations'
    BY <2>1, <2>2, <2>5 DEF Generations
  <2>8. ~Delivered'
    BY <2>1, <2>2 DEF Delivered
  <2>. QED
    BY <2>1, <2>6, <2>7, <2>8 DEF WordsInv, Accepted, EveryWordOnce
<1>2. ASSUME u' = u, phase' = phase, outcome' = outcome, backend' = backend, Generations',
             ASSUME NEW t \in threads', t.gen = u.gen
             PROVE  \E r \in threads : r.gen = u.gen /\ r.audio = t.audio,
             slot'.gen = u.gen => \/ slot' = slot
                                  \/ \E r \in threads : r.gen = u.gen /\ r.audio = slot'.audio
      PROVE  WordsInv'
  <2>1. Listened' /\ Accepted'
    BY <1>2 DEF WordsInv, Listened, Accepted
  <2>2. EveryWordOnce' /\ (phase' # "done" => ~Delivered')
    BY <1>2 DEF WordsInv, EveryWordOnce, Delivered
  <2>. QED
    BY <1>2, <2>1, <2>2 DEF WordsInv
<1>3. ASSUME NEW t \in threads, Loop!Answer(t) PROVE WordsInv'
  <2>1. /\ threads' = (threads \ {t}) \cup
                  (IF t.gen = u.gen THEN {[t EXCEPT !.at = "storing"]} ELSE {})
        /\ UNCHANGED <<backend, u, slot, phase, outcome>>
    BY <1>3 DEF Loop!Answer
  <2>2. Generations /\ {"gen", "audio"} \subseteq DOMAIN t
    BY DEF WordsInv, Generations
  <2>3. PICK r : r = [t EXCEPT !.at = "storing"]
    OBVIOUS
  <2>4. r.gen = t.gen /\ r.audio = t.audio /\ DOMAIN r = DOMAIN t
    BY <2>2, <2>3
  <2>5. \A q \in threads' : q \in threads \/ q = r
    BY <2>1, <2>3
  <2>6. Generations'
    BY <2>1, <2>2, <2>4, <2>5 DEF Generations
  <2>7. ASSUME NEW q \in threads', q.gen = u.gen
        PROVE  \E p \in threads : p.gen = u.gen /\ p.audio = q.audio
    BY <2>4, <2>5, <2>7
  <2>. QED
    BY <1>2, <2>1, <2>6, <2>7
<1>4. ASSUME NEW t \in threads, NEW ok \in BOOLEAN, Loop!Store(t, ok) PROVE WordsInv'
  <2>1. /\ threads' = threads \ {t} /\ slot' = [ok |-> ok, audio |-> t.audio, gen |-> t.gen]
        /\ UNCHANGED <<backend, u, phase, outcome>>
    BY <1>4 DEF Loop!Store
  <2>2. Generations
    BY DEF WordsInv
  <2>3. slot'.gen = t.gen /\ slot'.audio = t.audio
    BY <2>1
  <2>4. Generations'
    BY <2>1, <2>2, <2>3 DEF Generations
  <2>5. ASSUME NEW q \in threads', q.gen = u.gen
        PROVE  \E p \in threads : p.gen = u.gen /\ p.audio = q.audio
    BY <2>1, <2>5
  <2>. QED
    BY <1>2, <2>1, <2>3, <2>4, <2>5
<1>. QED
  BY <1>1, <1>3, <1>4 DEF Loop!ThreadStep

\* EveryWordOnce: what is delivered is every voiced frame, once and in order, less what
\* was cut as somebody else's, whichever source supplied the text.
THEOREM EveryWordIsDelivered ==
    ASSUME Loop!FrameAssumption PROVE Loop!Spec => []EveryWordOnce
<1>1. Loop!Init => WordsInv
  BY WordsAtFirst
<1>2. ASSUME WordsInv, [Loop!Next]_Loop!vars PROVE WordsInv'
  <2>1. CASE UNCHANGED Loop!vars
    BY <1>2, <2>1 DEF Loop!vars, WordsInv, Generations, Listened, Accepted, EveryWordOnce, Delivered
  <2>2. CASE Loop!LoopStep
    BY <1>2, <2>2, WordsFrame, WordsLeave DEF Loop!LoopStep
  <2>3. CASE Loop!EndStep
    BY <1>2, <2>3, WordsAccept, WordsFinal, WordsLeave DEF Loop!EndStep
  <2>4. CASE Loop!ThreadStep
    BY <1>2, <2>4, WordsThread
  <2>. QED
    BY <1>2, <2>1, <2>2, <2>3, <2>4 DEF Loop!Next
<1>3. WordsInv => EveryWordOnce
  BY DEF WordsInv
<1>. QED
  BY <1>1, <1>2, <1>3, PTL DEF Loop!Spec

=============================================================================
