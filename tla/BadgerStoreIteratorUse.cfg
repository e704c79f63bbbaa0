SPECIFICATION Spec
CONSTANTS
    Writer = {w1}
    Reader = {}
    Closer = {}
    Iter = {i1}
    Key = {a}
    Val = {v}
    Absent = Absent
    Same = Same
    None = None
INVARIANTS
    IteratorUsable
CHECK_DEADLOCK FALSE
