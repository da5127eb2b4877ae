\* A client dies after it asked for a chunk and the send of the chunk fails.
SPECIFICATION Spec
CONSTANTS
    c1 = c1
    c2 = c2
    c3 = c3
    None = None
    N = 2
    Clients <- TwoClients
    Probes <- NoProbe
    Work <- Static
    Limit = 1
    Rounds = 2
    MaxClients = 2
    FailingJobs <- NoFailure
    FailsAllowed <- Unlimited
    MaxStarts <- Unlimited
    MaxDeaths = 1
    MaxCorrupt = 0
    MaxLost = 1
    MaxRestarts = 0
PROPERTY AskGetsWork
CHECK_DEADLOCK FALSE
