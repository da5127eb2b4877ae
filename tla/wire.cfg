\* The client asks for two chunks; one read finds a field cut short, a word of
\* the data is damaged, the client dies.
SPECIFICATION Spec
CONSTANTS
    MaxSplits = 1
    MaxBad = 1
    MaxDeaths = 1
    MaxGets = 2
INVARIANT ActionsAreWords
INVARIANT InStep
INVARIANT AcceptedIntact
PROPERTY Answered
PROPERTY ServerReturns
CHECK_DEADLOCK FALSE
