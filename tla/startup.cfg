\* Every configuration of three lines, every input of three lines for three
\* sentinels, every command of five pieces.
SPECIFICATION Spec
CONSTANTS
    Word <- Words
    Inputs <- SomeInputs
    InLen = 12
    OutLen = 14
INVARIANT OwnValueIfWellFormed
INVARIANT EndedOffsetsRight
INVARIANT FilesInPlace
INVARIANT FillsItsBuffer
CHECK_DEADLOCK FALSE
