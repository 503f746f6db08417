CONSTANTS
    c1 = c1
    c2 = c2
    Client = {c1, c2}
    Char = {"x"}
    Options <- MCOptions
SPECIFICATION ScreenSpec
INVARIANTS ScreenTypeOK TerminalsShowScreen
PROPERTIES ResizeKeeps AlternateRestores
\* the number of commands and events is bounded
CHECK_DEADLOCK FALSE
