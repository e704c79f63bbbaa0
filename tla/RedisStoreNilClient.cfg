SPECIFICATION Spec
CONSTANTS
    Tx = {t1}
    Locking = {t1}
    Reader = {}
    Closer = {k1}
    Key = {a}
    Val = {v}
    Absent = Absent
    Same = Same
    None = None
    Timeouts = {1}
    Offset = 1
    Delay = 1
    LastStart = 0
    Faulty = TRUE
INVARIANT
    ClosedIsReported
CHECK_DEADLOCK FALSE
