---------------------------- MODULE UpdatePromise ----------------------------
(* What updates promise whoever runs the bundle: what the Updater keeps,     *)
(* however its checks, its staging and its installers interleave.            *)

VARIABLE installed  \* the bundle on disk: "old", or what an installer unpacked

\* Nothing is installed but what the release key signed for this release (SPEC.md 12a
\* U1), though a terminal and the daemon stage it in one directory.
InstalledIsVerified == installed \in {"old", "good"}

=============================================================================
