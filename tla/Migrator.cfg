SPECIFICATION FairSpec
CONSTANTS
    k1 = k1
    k2 = k2
    k3 = k3
    k4 = k4
    Keys = {k1, k2, k3, k4}
    Original <- MCOriginal
    Migrations = {2, 3}
    Baseline = 1
    Sets <- MCSets
    Removes <- MCRemoves
    Reads <- MCReads
    Breaking = {2}
    MaxRetries = 3
    MaxFaults = 3
    MaxKills = 3
INVARIANTS DataRecoverable OutcomeTrue NeverCountedTwice OneAttemptPerRun
PROPERTY Converges
CHECK_DEADLOCK FALSE
