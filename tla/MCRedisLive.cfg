\* Liveness of regular commands and of disconnecting.
SPECIFICATION FairSpec
CONSTANTS
    Topics = {a}
    NoTopic = none
    CmdKinds = {"get"}
    MaxCmd = 3
    MaxPush = 1
    AskFree = TRUE
PROPERTIES
    DisconnectCompletes
    CommandConcludes
CHECK_DEADLOCK FALSE
