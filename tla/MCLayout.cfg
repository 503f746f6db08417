SPECIFICATION LayoutSpec
CONSTANTS
    MaxPanes = 4
    Screen <- MCScreen
    Hint <- MCHint
    Adjustment <- MCAdjustment
    MainSize = 3
    OtherSize = 0
    Wrap = 1024
    Options <- MCOptions
    MaxMoves = 4
INVARIANTS
    LayoutInv
PROPERTIES
    UndoRestores
    OrderKept
\* After the last command, or a fault, nothing is left to do.
CHECK_DEADLOCK FALSE
