\* Three processes, one of them a probe, and every kind of fault.
SPECIFICATION Spec
CONSTANTS
    c1 = c1
    c2 = c2
    c3 = c3
    None = None
    N = 3
    Clients <- TwoClients
    Probes <- OneProbe
    Work <- Static
    Limit = 1
    Rounds = 2
    MaxClients = 2
    FailingJobs <- AllFail
    FailsAllowed = 1
    MaxStarts = 3
    MaxDeaths = 1
    MaxCorrupt = 1
    MaxLost = 1
    MaxRestarts = 0
PROPERTY DrainTerminates
CHECK_DEADLOCK FALSE
