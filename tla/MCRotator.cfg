CONSTANTS
    Endpoints = {e1, e2, e3}
    MaxID = 3
    Loop = Loop
    Admins = {a1}
    Holds = {1}
    NoProxyWait = 2
    NoRow = NoRow
SPECIFICATION HistoryFairSpec
INVARIANTS
    RotatorTypeOK
PROPERTIES
    RoundRobin
    AdvanceReturns
    StaleExitReplaced
    ExitFollowsPool
    ImplementsRing
    ImplementsTurns
