\* A client whose engine is destroyed at any idle moment.
CONSTANTS
    Conn = {c1, c2}
    CID = {d1, d2}
    NoConn = NoConn
    Server = FALSE
    MaxInchoate = 0
    FirstAlloc = 1
    BatchSize = 2
    MaxOut = 1
    Events = {"destroy"}
SPECIFICATION FairSpec
CHECK_DEADLOCK FALSE
INVARIANTS
    HeapsAndDestroySound
PROPERTIES
    ClosedIsDestroyed
