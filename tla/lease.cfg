\* No command fails and no transfer is corrupted.  Two clients die, a send to a
\* dead client fails, the server is restarted once.
SPECIFICATION Spec
CONSTANTS
    c1 = c1
    c2 = c2
    c3 = c3
    None = None
    N = 4
    Clients <- ThreeClients
    Probes <- NoProbe
    Work <- Linear
    Limit = 3
    Rounds = 2
    MaxClients = 2
    FailingJobs <- NoFailure
    FailsAllowed <- Unlimited
    MaxStarts <- Unlimited
    MaxDeaths = 2
    MaxCorrupt = 0
    MaxLost = 1
    MaxRestarts = 1
INVARIANT OneHolder
INVARIANT AtMostOnceWritten
INVARIANT ExitMeansDone
PROPERTY LeaseSpec
PROPERTY DoneStays
CHECK_DEADLOCK FALSE
