\* A server with two CIDs, cooldown, oversized datagrams and failing hash insertions.
CONSTANTS
    Conn = {c1, c2}
    CID = {d1, d2}
    NoConn = NoConn
    Server = TRUE
    MaxInchoate = 1
    FirstAlloc = 1
    BatchSize = 2
    MaxOut = 1
    Events = {"cooldown", "emsgsize", "hash_failure"}
SPECIFICATION Spec
SYMMETRY Symmetry
CHECK_DEADLOCK FALSE
INVARIANTS
    DirectorySound
