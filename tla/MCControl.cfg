SPECIFICATION FairControlSpec
CONSTANTS
    a = a
    b = b
    Client = {a, b}
    Pane = {1, 2}
    View <- TwoSessions
    Start <- MCStart
    NoClient = none
    Line = line
    Low = 1
    High = 2
    MaxBytes = 2
    MaxMoves = 2
INVARIANTS
    ControlInv
    BufferKept
    LineAfterOutput
    NoGap
PROPERTIES
    OutputGoesOut
    PaneReadAgain
\* After a fault the server has stopped.
CHECK_DEADLOCK FALSE
