SPECIFICATION FairSpec
CONSTANTS
    Call = {c1, c2, c3}
    None = None
INVARIANTS
    CallerHolds
    NoLostSignal
PROPERTIES
    RefinesRWLock
    CallsReturn
    AbandonedReleased
CHECK_DEADLOCK FALSE
