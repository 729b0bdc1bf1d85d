SPECIFICATION Spec
CONSTANTS
    Host <- OneHost
    Pattern <- MCPattern
    Label <- MCLabel
    Empty = ""
    Star = "*"
    Starred = {"*"}
    LowerCase <- MCLowerCase
    Url = {"u", "v"}
    Request = {r1, r2}
    Gid = {g1}
    Bid = {b1, b2}
    NoGroup = NoGroup
    NoBackend = NoBackend
    Config <- FixedConfig
    Boot <- Plain
INVARIANTS HardCap
