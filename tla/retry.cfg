\* Clients keep coming; one dies and the command of the second record fails.
SPECIFICATION BusySpec
CONSTANTS
    c1 = c1
    c2 = c2
    c3 = c3
    None = None
    N = 3
    Clients <- TwoClients
    Probes <- NoProbe
    Work <- Static
    Limit = 1
    Rounds = 2
    MaxClients = 2
    FailingJobs <- SecondFails
    FailsAllowed <- Unlimited
    MaxStarts <- Unlimited
    MaxDeaths = 1
    MaxCorrupt = 0
    MaxLost = 0
    MaxRestarts = 0
INVARIANT NothingBehindCursor
PROPERTY MainLoopEnds
CHECK_DEADLOCK FALSE
