SPECIFICATION Spec
CONSTANTS
    Writer = {w1, w2}
    Reader = {}
    Closer = {k1}
    Iter = {i1}
    Key = {a}
    Val = {v}
    Absent = Absent
    Same = Same
    None = None
PROPERTIES
    RefinesTxStore
    DecidedOnCurrent
CHECK_DEADLOCK FALSE
