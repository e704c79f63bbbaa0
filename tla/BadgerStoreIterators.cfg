SPECIFICATION FairSpec
CONSTANTS
    Writer = {w1}
    Reader = {r1}
    Closer = {}
    Iter = {i1, i2}
    Key = {a}
    Val = {v}
    Absent = Absent
    Same = Same
    None = None
INVARIANTS
    NoOpenIteratorLeft
    TxnEnded
PROPERTIES
    CallsReturn
CHECK_DEADLOCK FALSE
