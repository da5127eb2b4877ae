\* Any command may fail, over three rounds; one client dies.
SPECIFICATION FilesSpec
CONSTANTS
    c1 = c1
    c2 = c2
    None = None
    N = 4
    Clients <- TwoClients
    Probes <- NoProbe
    Work <- Static
    Limit = 2
    Rounds = 3
    MaxClients = 2
    FailingJobs <- AllFail
    FailsAllowed <- Unlimited
    MaxStarts <- Unlimited
    MaxDeaths = 1
    MaxCorrupt = 0
    MaxLost = 0
    MaxRestarts = 0
SYMMETRY Peers
INVARIANT SortedOnce
CHECK_DEADLOCK FALSE
