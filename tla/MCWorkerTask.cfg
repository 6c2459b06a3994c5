\* Two workers, three connections.
SPECIFICATION Spec
CONSTANTS
    Workers = {1, 2}
    Addrs = {p, q, r}
    Nil = nil
    MaxAdd = 3
SYMMETRY AddrSymmetry
INVARIANTS
    NoExtraConnections
    LookupSucceeds
CHECK_DEADLOCK FALSE
