SPECIFICATION FairSpec
CONSTANTS
    Tx = {t1}
    Locking = {t1}
    Reader = {r1}
    Closer = {k1, k2}
    Key = {a}
    Val = {v}
    Absent = Absent
    Same = Same
    None = None
    Timeouts = {1}
    Offset = 1
    Delay = 1
    LastStart = 0
    Faulty = TRUE
INVARIANTS
    OutcomeHonest
PROPERTIES
    ClosedSendsNothing
    LockBecomesFree
    CallsReturn
CHECK_DEADLOCK FALSE
