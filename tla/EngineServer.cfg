CONSTANTS
    Conn = {c1, c2, c3}
    CID = {d1}
    NoConn = NoConn
    Server = TRUE
    MaxInchoate = 1
    FirstAlloc = 1
    BatchSize = 2
    MaxOut = 1
    Events = {"send_error"}
SPECIFICATION Spec
SYMMETRY Symmetry
INVARIANTS
    TypeOK
    LifetimesSound
    TickingSound
    OutgoingNotForgotten
PROPERTIES
    ImmedCloseIsFinal
    
