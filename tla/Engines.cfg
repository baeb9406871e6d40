\* The registry with one model of each kind and three requests; start-up, switches and
\* deletions by two clients with one model and two requests (SmallCatalogue).
SPECIFICATION Spec
CONSTANTS
    Bins = {bin}
    Archives = {tar}
    Bundles = {files}
    Switched = {bin}
    MaxRequests = 3
    Clients = {c1, c2}
    Langs = {"auto"}
    Platforms = {"macos", "linux"}
    Keys = {FALSE}
    Nobody = Nobody
ACTION_CONSTRAINT SmallCatalogue
INVARIANTS TrustedIsWhole ConfigNamesEngine
PROPERTIES InstalledStays SwitchIsAnswered
CHECK_DEADLOCK FALSE
