SPECIFICATION FairSpec
CONSTANTS
    NoRow = NoRow
    Transfers = {}
    Dapps = {d1, d2}
    Rows <- MCRows
    MaxSerial = 1
    MaxEpoch = 0
    MaxKills = 0
    MaxFaults = 0
CHECK_DEADLOCK FALSE
INVARIANT InOrder
PROPERTIES EverySendEnds
