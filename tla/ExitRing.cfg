CONSTANTS
    Endpoints = {e1, e2, e3, e4}
    NoExit = NoExit
SPECIFICATION RingSpec
INVARIANTS RingTypeOK
PROPERTIES NoStarvation
