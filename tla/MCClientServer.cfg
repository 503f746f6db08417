CONSTANTS
    Controls <- MCControls
    MaxFiles = 2
    MaxMoves = 3
SPECIFICATION FairClientServerSpec
INVARIANTS
    ClientServerInv
    AnswersOwed
    OutputArrives
PROPERTY
    LeavesWhenTold
\* The client goes and its files are freed.
CHECK_DEADLOCK FALSE
