SPECIFICATION Spec
CONSTANTS
    Group = {g1, g2}
    Bid = {"u1", "u2"}
    Url = {"u"}
    UrlOf <- OneUrl
    None = "none"
    MaxSamples = 2
    Errors = 2
    Sweeps = 3
INVARIANTS ErrorsConserved LostWithBackendOnly SweepIsComplete SamplesPerRoute RingIsRecent
