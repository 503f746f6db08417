SPECIFICATION LayoutSpec
CONSTANTS
    MaxPanes = 4
    Screen <- MCScreen
    Hint <- MCHint
    Adjustment <- MCAdjustment
    MainSize = 3
    OtherSize = 0
    Wrap = 1024
    Options <- MCSpreadOptions
    MaxMoves = 7
INVARIANT SpreadBounded
\* After the last command, or a fault, nothing is left to do.
CHECK_DEADLOCK FALSE
