------------------------ MODULE MCTranscriberSwitch ------------------------
(* TranscriberSwitch over a small catalogue.                                 *)
EXTENDS TranscriberSwitch

CONSTANT Switched   \* the models that clients switch to and from

\* The registry by itself: nothing happens to the engine but that models are deleted.
RegistryAlone ==
    /\ host.platform = "macos" /\ stored = "groq" /\ boot.at = "build" /\ utt = "no"
    /\ \A c \in Clients : cmd[c].op \in {"none", "delete"}

Untouched(m) == disk'[m].final = "none" /\ dl'[m] = "off" /\ del'[m] = "no"
Alone(S) == \A m \in Models \ S : Untouched(m)

\* The instance: where only the registry runs, two requests for any models or all of
\* them for one; the engine is built, switched and lost with the models in Switched
\* and one request less.
SmallCatalogue ==
    \/ RegistryAlone' /\ (budget' > 0 \/ \E m \in Models : Alone({m}))
    \/ budget' > 0 /\ Alone(Switched)

=============================================================================
