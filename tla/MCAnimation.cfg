SPECIFICATION FairAnimationSpec
CONSTANTS
    Client = {a, b}
    Control = {b}
    Session = {1, 2}
    Window = {1, 2, 3}
    Placement <- MCPlacement
    DetachOnDestroy = FALSE
    MaxMoves = 3
INVARIANTS
    AnimationInv
    DrawnWindowsExist
    WindowReferencesExact
    ClosingPaneHeld
PROPERTY
    AnimationsEnd
\* After the last move, or a fault, nothing is left to do.
CHECK_DEADLOCK FALSE
