---------------------------- MODULE ModelRegistry ----------------------------
(* The local models of model_registry.rs: what is on disk, what the         *)
(* catalogue says of it, the download tasks (one per model at most), the     *)
(* deletions and the verification passes, with a daemon that may be killed   *)
(* at any point.  A model is a single file, an archive that is unpacked into *)
(* a directory, or a directory of loose files; contents are whole or bad.    *)
EXTENDS Naturals, FiniteSets

CONSTANTS
    Bins,          \* single-file models, checked against the catalogue's hash
    Archives,      \* tar.gz models, trusted by their `.verified' marker
    Bundles,       \* directories of loose files, trusted by the same marker
    MaxRequests    \* bound: requests of clients and kills of the daemon together

Models == Bins \cup Archives \cup Bundles

ASSUME RegistryAssumption ==
    /\ Bins \cap Archives = {} /\ Bins \cap Bundles = {} /\ Archives \cap Bundles = {}
    /\ MaxRequests \in Nat

VARIABLES
    disk,        \* per model: final, .partial, staging directory, marker
    info,        \* the catalogue's flags (available_models)
    dl,          \* where each model's download is; "off" without a claim
    cancel,      \* cancel_flags: "none", "clear", "raised"
    extracting,  \* extracting_models
    del,         \* where each model's deletion is
    verifying,   \* is the model-verify thread of this start still to run?
    budget,      \* how many of them are left
    torn         \* history: models whose directory was removed only in part

registryVars == <<disk, info, dl, cancel, extracting, del, verifying, budget, torn>>

\* The integrity gate of refresh_disk_status and model_path.
Trusted(d, m) == IF m \in Bins THEN d[m].final = "whole"
                 ELSE d[m].final # "none" /\ d[m].marker

\* refresh_disk_status: every flag from the disk, stale `.extracting' swept.  The
\* hash-free variant takes a file whose verdict it does not know as downloaded.
Swept(d) == [m \in Models |->
    IF m \in Archives \ extracting THEN [d[m] EXCEPT !.staging = "none"] ELSE d[m]]
Settled(d) == [m \in Models |->
    [downloaded |-> Trusted(d, m), downloading |-> FALSE, verifying |-> FALSE]]
Refresh(d) == disk' = Swept(d) /\ info' = Settled(d)
Provisional(d, known) == [m \in Models |->
    IF m \in Bins \ known
    THEN [downloaded |-> d[m].final # "none", downloading |-> FALSE,
          verifying |-> d[m].final # "none"]
    ELSE Settled(d)[m]]

\* A start of the daemon finds a disk; nothing of the last run's memory is left.
Started(d) ==
    /\ \E known \in SUBSET Bins : info' = Provisional(d, known)
    /\ disk' = [m \in Models |->
                   IF m \in Archives THEN [d[m] EXCEPT !.staging = "none"] ELSE d[m]]
    /\ dl' = [m \in Models |-> "off"] /\ cancel' = [m \in Models |-> "none"]
    /\ extracting' = {} /\ del' = [m \in Models |-> "no"] /\ verifying' = TRUE

RegistryInit ==
    /\ \E here \in SUBSET Models :
        disk = [m \in Models |-> [final |-> IF m \in here THEN "whole" ELSE "none",
                                  partial |-> "none", staging |-> "none",
                                  marker |-> m \in here /\ m \notin Bins]]
    /\ info = Provisional(disk, {}) /\ verifying = TRUE
    /\ dl = [m \in Models |-> "off"] /\ cancel = [m \in Models |-> "none"]
    /\ extracting = {} /\ del = [m \in Models |-> "no"]
    /\ budget = MaxRequests
    /\ torn = {}

\* The startup verification settles the provisional flags.
BackgroundVerify ==
    /\ verifying /\ verifying' = FALSE
    /\ Refresh(disk)
    /\ UNCHANGED <<dl, cancel, extracting, del, budget, torn>>

-----------------------------------------------------------------------------
(* download and download_files.                                              *)

NeverUsable(m) == FALSE  \* mutant
AlreadyUsable(m) == IF m \in Bins THEN disk[m].final # "none" ELSE Trusted(disk, m)

\* One download per model: a second request returns at once.
Download(m) ==
    /\ dl[m] = "off" /\ budget > 0
    /\ budget' = budget - 1
    /\ IF AlreadyUsable(m)
       THEN /\ Refresh([disk EXCEPT ![m].partial = "none"])
            /\ UNCHANGED <<dl, cancel>>
       ELSE /\ info' = [info EXCEPT ![m].downloading = TRUE]
            /\ cancel' = [cancel EXCEPT ![m] = "clear"]
            /\ dl' = [dl EXCEPT ![m] = IF m \in Bundles THEN "stream" ELSE "request"]
            /\ disk' = [disk EXCEPT ![m].staging = IF m \in Bundles /\ @ = "none" THEN "part" ELSE @]
    /\ UNCHANGED <<extracting, del, verifying, torn>>

\* Every way out: DownloadCleanup and InFlightClaim.
CleanUp(m) ==
    /\ dl' = [dl EXCEPT ![m] = "off"] /\ cancel' = [cancel EXCEPT ![m] = "none"]
GiveUp(m, d) ==
    /\ CleanUp(m) /\ disk' = d
    /\ info' = [info EXCEPT ![m].downloading = FALSE]
    /\ UNCHANGED <<del, verifying, budget, torn>>
Go(m, at) ==
    /\ dl' = [dl EXCEPT ![m] = at]
    /\ UNCHANGED <<info, cancel, del, verifying, budget, torn>>

\* A bundle that fails or is cancelled loses its staging directory, except by an
\* I/O error; a `.partial' is kept for a resume.
Abandoned(m) == [disk EXCEPT ![m].staging = IF m \in Bundles THEN "none" ELSE @]

\* The server resumes, starts over, or refuses (a complete `.partial' has no more
\* bytes to ask for).
Request(m) ==
    /\ dl[m] = "request"
    /\ \/ GiveUp(m, disk)
       \/ disk[m].partial # "none" /\ GiveUp(m, [disk EXCEPT ![m].partial = "none"])
       \/ /\ disk[m].partial \in {"none", "part"}
          /\ disk' = [disk EXCEPT ![m].partial = "part"] /\ Go(m, "stream")
       \/ /\ disk[m].partial # "none"
          /\ disk' = [disk EXCEPT ![m].partial = "part"] /\ Go(m, "stream")
    /\ UNCHANGED extracting

\* A chunk arrives and the cancel flag is seen, or is an error; or writing fails.
StreamStops(m) ==
    /\ dl[m] = "stream"
    /\ \/ GiveUp(m, Abandoned(m))
       \/ GiveUp(m, disk)
    /\ UNCHANGED extracting

\* The last byte arrived.  A `.partial' that was deleted meanwhile is written to
\* without a name.
StreamEnds(m) ==
    /\ dl[m] = "stream"
    /\ IF m \in Bundles
       THEN \/ disk' = [disk EXCEPT ![m].staging = "whole"] /\ Go(m, "promote")
            \/ GiveUp(m, Abandoned(m))
       ELSE \E got \in {"part", "whole", "bad"} :
               /\ disk' = [disk EXCEPT ![m].partial = IF @ = "none" THEN "none" ELSE got]
               /\ Go(m, "check")
    /\ UNCHANGED extracting

\* Size and hash: what fails is removed.
CheckSkipped(m) ==  \* mutant
    dl[m] = "check" /\ UNCHANGED <<extracting, disk>>
    /\ Go(m, IF m \in Archives THEN "unpack" ELSE "promote")
Check(m) ==
    /\ dl[m] = "check"
    /\ IF disk[m].partial = "whole"
       THEN disk' = disk /\ Go(m, IF m \in Archives THEN "unpack" ELSE "promote")
       ELSE GiveUp(m, [disk EXCEPT ![m].partial = "none"])
    /\ UNCHANGED extracting

Unpack(m) ==
    /\ dl[m] = "unpack"
    /\ extracting' = extracting \cup {m}
    /\ disk' = [disk EXCEPT ![m].staging = "part"]
    /\ Go(m, "unpacking")

\* The archive may be broken, or gone: the latter leaves the model in `extracting'.
UnpackEnds(m) ==
    /\ dl[m] = "unpacking"
    /\ \/ /\ disk[m].partial # "none"
          /\ disk' = [disk EXCEPT ![m].staging = IF disk[m].partial = "whole" THEN "whole" ELSE "bad"]
          /\ Go(m, "promote") /\ UNCHANGED extracting
       \/ /\ disk[m].partial # "none" /\ extracting' = extracting \ {m}
          /\ GiveUp(m, [disk EXCEPT ![m].staging = "none", ![m].partial = "none"])
       \/ GiveUp(m, disk) /\ UNCHANGED extracting

\* What was staged takes the final name; removing what is there, or the rename,
\* may fail.
Promote(m) ==
    /\ dl[m] = "promote"
    /\ \/ /\ m \in Bins /\ disk[m].partial # "none"
          /\ disk' = [disk EXCEPT ![m].final = disk[m].partial, ![m].partial = "none"]
          /\ Go(m, "finish")
       \/ /\ m \notin Bins
          /\ disk' = [disk EXCEPT ![m].final = disk[m].staging, ![m].staging = "none"]
          /\ Go(m, "mark")
       \/ GiveUp(m, disk)
       \/ m \notin Bins /\ GiveUp(m, [disk EXCEPT ![m].final = "none"])
    /\ extracting' = IF m \notin Bins /\ dl'[m] = "mark" THEN extracting \ {m} ELSE extracting

\* The trust marker; failing to write it is only logged.
Mark(m) ==
    /\ dl[m] = "mark"
    /\ \E ok \in BOOLEAN :
        disk' = [disk EXCEPT ![m].marker = @ \/ ok,
                             ![m].partial = IF m \in Archives THEN "none" ELSE @]
    /\ Go(m, "finish")
    /\ UNCHANGED extracting

Finish(m) ==
    /\ dl[m] = "finish" /\ CleanUp(m)
    /\ IF m \in Bundles THEN Refresh(disk)
       ELSE /\ info' = [info EXCEPT ![m].downloading = FALSE, ![m].downloaded = TRUE]
            /\ disk' = disk
    /\ UNCHANGED <<extracting, del, verifying, budget, torn>>

\* cancel_download: a flag there is, is raised.
CancelDownload(m) ==
    /\ cancel[m] = "clear" /\ cancel' = [cancel EXCEPT ![m] = "raised"]
    /\ UNCHANGED <<disk, info, dl, extracting, del, verifying, budget, torn>>

DownloadStep(m) ==
    \/ Download(m) \/ Request(m) \/ StreamStops(m) \/ StreamEnds(m) \/ Check(m)
    \/ Unpack(m) \/ UnpackEnds(m) \/ Promote(m) \/ Mark(m) \/ Finish(m)
    \/ CancelDownload(m)

-----------------------------------------------------------------------------
(* delete: the files first, entry by entry, the marker last, then a refresh. *)

Delete(m) ==
    /\ del[m] = "no" /\ budget > 0
    /\ budget' = budget - 1
    /\ LET tears == m \notin Bins /\ disk[m].final # "none" IN
        /\ disk' = [disk EXCEPT ![m].final = IF tears THEN "bad" ELSE "none"]
        /\ del' = [del EXCEPT ![m] = IF tears THEN "tearing" ELSE "rest"]
    /\ UNCHANGED <<info, dl, cancel, extracting, verifying, torn>>

\* An error of remove_dir_all is ignored.
DeleteTorn(m, ok) ==
    /\ del[m] = "tearing" /\ del' = [del EXCEPT ![m] = "rest"]
    /\ disk' = [disk EXCEPT ![m].final = IF ok THEN "none" ELSE @]
    /\ torn' = IF ok THEN torn ELSE torn \cup {m}
    /\ UNCHANGED <<info, dl, cancel, extracting, verifying, budget>>

DeleteRest(m) ==
    /\ del[m] = "rest" /\ del' = [del EXCEPT ![m] = "refresh"]
    /\ disk' = [disk EXCEPT ![m].partial = "none", ![m].marker = FALSE]
    /\ UNCHANGED <<info, dl, cancel, extracting, verifying, budget, torn>>

DeleteDone(m) ==
    /\ del[m] = "refresh" /\ del' = [del EXCEPT ![m] = "no"]
    /\ Refresh(disk)
    /\ UNCHANGED <<dl, cancel, extracting, verifying, budget, torn>>

\* The daemon is killed and started again; a single file may have changed meanwhile.
Restart ==
    /\ budget > 0 /\ budget' = budget - 1
    /\ torn' = torn \cup {m \in Models : del[m] = "tearing"}
    /\ \E changed \in SUBSET {m \in Bins : disk[m].final = "whole"} :
        Started([m \in Models |-> IF m \in changed THEN [disk[m] EXCEPT !.final = "bad"]
                                  ELSE disk[m]])

\* The registry alone, any task at any time.
RegistryNext ==
    \/ \E m \in Models : DownloadStep(m) \/ Delete(m) \/ DeleteRest(m) \/ DeleteDone(m)
    \/ \E m \in Models, ok \in BOOLEAN : DeleteTorn(m, ok)
    \/ BackgroundVerify \/ Restart

RegistrySpec == RegistryInit /\ [][RegistryNext]_registryVars

-----------------------------------------------------------------------------
\* "Nothing unverified": a directory that carries the marker is complete, whatever
\* downloads, deletions, verifications and kills came before, unless its removal is
\* under way or was cut short (delete removes the marker last).
TrustedIsWhole ==
    \A m \in Models \ torn :
        Trusted(disk, m) /\ del[m] # "tearing" => disk[m].final = "whole"

\* Only a deletion takes an installed model away: no repeated, failed, cancelled or
\* killed download does (a file altered while the daemon was down aside).
InstalledStays ==
    [][\A m \in Models :
          Trusted(disk, m) /\ del[m] = "no" /\ del'[m] = "no" =>
              Trusted(disk', m) \/ (m \in Bins /\ disk'[m].final = "bad")]_registryVars

=============================================================================
