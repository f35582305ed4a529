CONSTANTS
    Conns = {c1}
    Window = 1
    MaxBytes = 2
    Upstreams = {h1, s1}
    Socks = {s1}
    NoExit = NoExit
    Accounts = {u1, u2}
    NoAccount = NoAccount
SPECIFICATION ProxyFairSpec
INVARIANTS
    ConnTypeOK
    PinnedExit
    OnlyKnownUsers
    NoSilentDrop
    OnlyDialsLeft
    StreamsIntact
PROPERTIES
    GoneClientsEnd
