\* A command fails, a client leaves, the server is killed, the device is full.
SPECIFICATION Spec
CONSTANTS
    c1 = c1
    c2 = c2
    None = None
    N = 3
    Clients <- TwoClients
    MaxChunk = 2
    MaxFails = 1
    MaxLeaves = 1
    MaxCrashes = 1
    MaxFull = 1
SYMMETRY Peers
INVARIANT TypeOK
INVARIANT DoneIsSorted
INVARIANT RestartKeepsDone
INVARIANT QuietCheckIsRight
PROPERTY StoreSpec
PROPERTY RestartAgrees
CHECK_DEADLOCK FALSE
