SPECIFICATION TimesSpec
CONSTANTS
    Routes <- TwoRoutes
    Gone = "gone"
    Interval = 3
    Timeout = 1
    Cooldown = 5
INVARIANTS TypeOK RecoversInTime FailsInTime
