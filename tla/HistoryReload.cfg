SPECIFICATION HistorySpec
CONSTANTS
    Host <- MCHost
    Pattern <- MCPattern
    Label <- MCLabel
    Empty = ""
    Star = "*"
    Starred = {"*"}
    LowerCase <- MCLowerCase
    Url = {"u", "v"}
    Request = {r1}
    Gid = {g1, g2, g3, g4}
    Bid = {b1, b2, b3, b4}
    NoGroup = NoGroup
    NoBackend = NoBackend
    Config <- RouteConfigs
    Boot <- Both
INVARIANTS CountExact ScanIsStable TableMatchesConfig ReloadKeepsBackends RoutesAsDocumented
