\* The five policies on records of 1, 3 and 8 bytes with 8-bit totals: the square of
\* 8 overflows with two records, its cube alone.  A chunk may be lost.
SPECIFICATION Spec
CONSTANTS
    N = 3
    Clients <- NoClient
    None = None
    Policies <- AllKnown
    Limits <- ManyLimits
    Sizes <- ManySizes
    Half = 128
    MaxLost = 1
INVARIANT TypeOK
PROPERTY MatchesReference
PROPERTY NeverEmpty
PROPERTY AllHandedOut
CHECK_DEADLOCK FALSE
