SPECIFICATION FairSpec
CONSTANTS
    Call = {c1, c2}
    None = None
PROPERTY CancelReturns
CHECK_DEADLOCK FALSE
