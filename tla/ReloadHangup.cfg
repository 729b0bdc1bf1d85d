SPECIFICATION FairSpec
CONSTANTS
    Content <- MCContent
    Missing = "none"
    Malformed <- MCMalformed
    Rejected <- MCRejected
    HalfTls <- MCHalfTls
    Path = {"p"}
    CertPath <- MCCertPath
    NoPath = "no path"
    NoPair = NoPair
    Boot = "old"
    MaxTime = 2
    MaxEdits = 0
    MaxHups = 1
    MaxRenewals = 1
    MaxFails = 0
PROPERTIES HangupIsHeard
