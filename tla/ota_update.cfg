SPECIFICATION FairSpec
CONSTANTS
    Starters = {"mqtt", "shell"}
    Tasks = {"ota1", "ota2"}
    Versions <- MCVersions
    BuiltOn <- MCBuiltOn
    First <- MCFirst
    SavePasses = 2
    SaveDelay = 3
    Offered <- MCOffered
    Faults = {"create", "get", "download", "misc"}
INVARIANTS OneUpdate RefusedOnlyWhenBusy
PROPERTIES EventuallyFree VersionKept OnlyNewerInstalled
