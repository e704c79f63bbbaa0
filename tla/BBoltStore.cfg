SPECIFICATION FairSpec
CONSTANTS
    Tx = {t1, t2}
    Closer = {k1}
    Key = {a}
    Val = {v}
    Absent = Absent
    Same = Same
    None = None
INVARIANTS
    OpenTxIsCurrent
    HooksRunUnlocked
    ClosedIsQuiet
PROPERTIES
    RefinesTxStore
    CallsReturn
    CloseCompletes
CHECK_DEADLOCK FALSE
