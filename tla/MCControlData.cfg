SPECIFICATION ControlSpec
CONSTANTS
    a = a
    b = b
    Client = {a}
    Pane = {1}
    View <- OneSession
    Start <- OnePane
    NoClient = none
    Line = line
    Low = 1
    High = 2
    MaxBytes = 2
    MaxMoves = 2
INVARIANTS
    EnoughData
\* After a fault the server has stopped.
CHECK_DEADLOCK FALSE
