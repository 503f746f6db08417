CONSTANTS
    Session = {1, 2, 3}
    Window = {1, 2, 3}
    Client = {c1, c2}
    c1 = c1
    c2 = c2
    Options <- MCOptions
SPECIFICATION SessionSpec
INVARIANTS SessionInv GroupShares
PROPERTIES StaysAttached WindowsKept
\* the number of commands is bounded
CHECK_DEADLOCK FALSE
