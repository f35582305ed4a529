CONSTANTS
    Endpoints = {e1, e2}
    MaxID = 2
    Fetchers = {f1}
    Retesters = {}
    Limit = 1
    MaxCandidates = 1
    Loop = Loop
    Admins = {a1}
    Holds = {1}
    NoProxyWait = 0
    NoRow = NoRow
SPECIFICATION SystemSpec
INVARIANTS
    DeletedExitReplaced
