SPECIFICATION Uninterrupted
CONSTANTS
    Routes <- OneRoute
    Gone = "gone"
    Interval = 2
    Timeout = 1
    Cooldown = 3
    DrainTimeout = 3
    StartupTimeout = 4
    Settle = 2
    Lag = 2
INVARIANTS ZeroDowntime
