SPECIFICATION Spec
CONSTANTS
    Ops = {o1, o2}
    Grace <- MCGrace
    Beat = 1
    Lease = 1
    ReapPeriod = 1
    Cap = 1
    MaxTime = 5
    MaxKills = 1
SYMMETRY Symmetry
INVARIANTS VouchedStaysFresh HungQueueResolved
PROPERTY ReapsOnlyStale
CHECK_DEADLOCK FALSE
