SPECIFICATION Spec
CONSTANTS
    Depth = 3
    Discard = 6
    Options <- SmallOptions
    Formats <- SmallFormats
    Argvs <- SmallArgvs
    Answers <- SmallAnswers
    NAddrs = 2
    Retries = 2
    MaxConn = 2
    MaxCmd = 2
    WritePieces = {7}
    ReadPieces = {1}
INVARIANTS RepliesInOrder CommandsIntact DescriptorsOwned
PROPERTY GetReplyReturns
CHECK_DEADLOCK FALSE
