\* All kinds of commands, two channels.
SPECIFICATION Spec
CONSTANTS
    Topics = {a, b}
    NoTopic = none
    CmdKinds = {"get", "subscribe", "unsubscribe", "monitor"}
    MaxCmd = 3
    MaxPush = 1
    AskFree = TRUE
SYMMETRY TopicSymmetry
INVARIANTS
    OwnReply
    CallbackOnce
    OwnTopic
    NoAbortIfPlain
    ConnectDisconnectPaired
    NeverDeaf
CHECK_DEADLOCK FALSE
