SPECIFICATION Spec
CONSTANTS
    Calls = {c1, c2, c3}
    Profiles = {pw, pk}
    Passkeys = {pk}
    Ttls = {0, 1}
    Step = 1
    Deferral = 1
    MaxTime = 2
    MaxSessions = 2
    MaxFaults = 1
    MaxKills = 1
    Boot = Boot
    Free = Free
SYMMETRY Symmetry
INVARIANTS LiveHasRow AutoLockArmed LockIsFinal DeferralBounded NoCircularWait StrictErasesBearer
CHECK_DEADLOCK FALSE
