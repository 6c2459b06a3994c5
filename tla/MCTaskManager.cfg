\* Two workers, one of which may hang; both may be deleted and added again.
SPECIFICATION FairSpec
CONSTANTS
    Workers = {1, 2}
    MaxBox = 2
    MaxApp = 1
    MaxDel = 1
    MaxSet = 1
    SeqMod = 2
    Intervals = {1, 5}
    DefaultItval = 5
INVARIANTS
    SilentHasCause
PROPERTIES
    HungIsRestarted
    BeatsIfReplaced
