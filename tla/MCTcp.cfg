SPECIFICATION Spec
CONSTANTS
    Clients = {c1}
    Slavers = 2
    Base = 2
    Messages <- SmallMessages
    MaxConn = 2
    Pieces = {3}
INVARIANT MessagesIntact
PROPERTY ClosesAfterSending
CHECK_DEADLOCK FALSE
