SPECIFICATION Spec
CONSTANTS
    Tx = {t1, t2}
    Locking = {t1, t2}
    Reader = {}
    Closer = {}
    Key = {a}
    Val = {v}
    Absent = Absent
    Same = Same
    None = None
    Timeouts = {1, 2}
    Offset = 1
    Delay = 1
    LastStart = 1
    Faulty = TRUE
INVARIANTS
    LockedIsCurrent
CHECK_DEADLOCK FALSE
