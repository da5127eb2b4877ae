\* The command of the first record fails each time it is run.
SPECIFICATION BusySpec
CONSTANTS
    c1 = c1
    c2 = c2
    c3 = c3
    None = None
    N = 2
    Clients <- TwoClients
    Probes <- NoProbe
    Work <- Static
    Limit = 1
    Rounds = 3
    MaxClients = 2
    FailingJobs <- FirstFails
    FailsAllowed <- Unlimited
    MaxStarts <- Unlimited
    MaxDeaths = 0
    MaxCorrupt = 0
    MaxLost = 0
    MaxRestarts = 0
PROPERTY MainLoopEnds
CHECK_DEADLOCK FALSE
