\* One worker, TASK0 and two clients with two messages altogether.
SPECIFICATION FairSpec
CONSTANTS
    Tasks = {task0, worker}
    TASK0 = task0
    Clients = {c1, c2}
    MaxSend = 2
    EvfdMax = 1
INVARIANTS
    TypeOK
    PromisedIsAwake
PROPERTIES
    MailSpec
    PromisedIsHandled
CHECK_DEADLOCK FALSE
