SPECIFICATION FairSpec
CONSTANTS
    Content <- MCContent
    Missing = "none"
    Malformed <- MCMalformed
    Rejected <- MCRejected
    HalfTls <- MCHalfTls
    Path = {"p"}
    CertPath <- MCCertPath
    NoPath = "no path"
    NoPair = NoPair
    Boot = "old"
    MaxTime = 3
    MaxEdits = 3
    MaxHups = 1
    MaxRenewals = 1
    MaxFails = 1
INVARIANTS TypeOK NoSilentStale ServesFilesOfReload
PROPERTIES SaveIsLoaded
