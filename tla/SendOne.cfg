SPECIFICATION Spec
CONSTANTS
    NoRow = NoRow
    Transfers = {t1}
    Dapps = {d1}
    Rows <- MCRows
    MaxSerial = 2
    MaxEpoch = 1
    MaxKills = 1
    MaxFaults = 1
CONSTRAINT Overlap
CHECK_DEADLOCK FALSE
INVARIANTS CancelledNeverSent SentIsTraceable DeadJobsSwept NoLeak ErasedStaysErased NoStuckCard LiveJobsKept
PROPERTIES LapsedStaysUnsent
