SPECIFICATION BootSpec
CONSTANTS
    k1 = k1
    k2 = k2
    Keys = {k1, k2}
    Original <- MCOriginal
    Migrations = {2, 3}
    Baseline = 1
    Sets <- MCSets
    Removes <- MCRemoves
    Reads <- MCReads
    Breaking = {}
    MaxRetries = 3
    MaxFaults = 4
    MaxKills = 1
    MaxTaps = 1
    MaxBuilds = 2
INVARIANT TerminalOnlyByGesture
CHECK_DEADLOCK FALSE
