\* Timers that callers may stop: the list may empty, and a timer may be due at
\* once.  A second has three ticks.
SPECIFICATION FairSpec
CONSTANTS
    Timers = {a, b}
    NoTimer = NoTimer
    Startup <- MCNoStartup
    Intervals <- MCIntervals
    PingInterval <- MCPingInterval
    TicksPerSecond = 3
    MaxOverrun = 1
    MaxStep = 1
    MaxAge = 4
INVARIANTS
    ListAgrees
    WaitMeetsMaxima
PROPERTIES
    KeepsPromise
    TimersServed
