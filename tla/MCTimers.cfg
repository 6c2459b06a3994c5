SPECIFICATION Spec
CONSTANTS
    N = 2
    Rounds = {1, 2}
    Forever = 3
    MaxStarts = 2
INVARIANTS  RoundsKept Silent
PROPERTIES KillReturns Audited
CHECK_DEADLOCK FALSE
