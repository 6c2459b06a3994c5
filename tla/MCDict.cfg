\* The table starts with two chains and grows to eight.
SPECIFICATION Spec
CONSTANTS
    Keys <- Channels
    Vals = {f, g}
    InitialSize = 2
    HashMod = 65536
    NoKey = nokey
SYMMETRY ValSymmetry
INVARIANTS
    WellFormed
    IterationIsComplete
PROPERTIES
    MapSpec
