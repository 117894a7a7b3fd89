SPECIFICATION Spec
CONSTANTS
    Ops = {o1}
    Window = 2
    MaxTime = 4
    MaxSessions = 3
    MaxFaults = 2
    MaxKills = 1
INVARIANT NoAnswerLost
PROPERTIES AnswerWhileLive AnsweredInTheEnd
CHECK_DEADLOCK FALSE
