CONSTANTS
    Matrices = {m0, m1}
    Bases = {b0, b1}
    MaxAffine = 3
    None = None
    MaxCalls = 4
    MaxChanges = 1
    MaxStarts = 1
SPECIFICATION FairSpec
INVARIANTS TypeOK RuntimeMatchesSaved PreviousIsPrior
PROPERTIES SavedRevisionGrows PreviewExpires
CHECK_DEADLOCK FALSE
