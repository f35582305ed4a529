CONSTANTS
    Endpoints = {e1, e2}
    MaxID = 3
    Fetchers = {f1}
    Retesters = {r1}
    Limit = 2
    MaxCandidates = 2
SPECIFICATION ProbesFairSpec
INVARIANTS
    ProbesTypeOK
    TableInv
    ResultsAddUp
PROPERTIES
    TableChangesJustified
    PassesEnd
