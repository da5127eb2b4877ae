\* Any command may fail and be tried again in the next round; a client dies, a
\* send fails, a transfer is corrupted, the server is restarted.
SPECIFICATION Spec
CONSTANTS
    c1 = c1
    c2 = c2
    c3 = c3
    None = None
    N = 3
    Clients <- TwoClients
    Probes <- NoProbe
    Work <- Static
    Limit = 2
    Rounds = 2
    MaxClients = 2
    FailingJobs <- AllFail
    FailsAllowed = 2
    MaxStarts <- Unlimited
    MaxDeaths = 1
    MaxCorrupt = 1
    MaxLost = 1
    MaxRestarts = 1
SYMMETRY Peers
INVARIANT TypeOK
INVARIANT CountersMatch
INVARIANT NoOrphan
INVARIANT EntryIsClientsSegment
INVARIANT DoneIsLogged
CHECK_DEADLOCK FALSE
