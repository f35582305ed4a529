CONSTANTS
    Requests = {d1, d2}
    MaxRow = 2
    ChunkSize = 1
    NoRequest = NoRequest
    Refreshes = {f1, f2}
    PageSize = 1
    MaxPage = 2
    MaxOut = 2
SPECIFICATION PageFairSpec
INVARIANTS
    PageTypeOK
PROPERTIES
    ImplementsAtomicDelete
    BlankPagesExplained
    BlankPagesLeave
    DeletesReturn
    GoneRowsLeave
