SPECIFICATION Spec
CONSTANTS
    NoRow = NoRow
    Transfers = {}
    Dapps = {d1}
    Rows <- MCRows
    MaxSerial = 1
    MaxEpoch = 0
    MaxKills = 0
    MaxFaults = 1
CHECK_DEADLOCK FALSE
PROPERTIES CancelHonoured
