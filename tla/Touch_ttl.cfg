CONSTANTS
    Matrices = {m0}
    Bases = {b0}
    MaxAffine = 1
    None = None
    MaxCalls = 1
    MaxChanges = 0
    MaxStarts = 0
SPECIFICATION FairSpec
PROPERTY PreviewEnds
CHECK_DEADLOCK FALSE
