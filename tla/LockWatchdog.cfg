SPECIFICATION SpecWatchdog
CONSTANTS
    Calls = {c1, c2, c3, c4}
    NoTicket = NoTicket
    Watchdog = TRUE
    TimerMayFail = TRUE
INVARIANTS NoLostWakeup MutualExclusion WatchdogOfCurrent
PROPERTIES EveryWaiterServed ImplementsFifoMutex
CHECK_DEADLOCK FALSE
