SPECIFICATION CmdQueueSpec
CONSTANTS
    Client = {a}
    Channel = {}
    Global = global
    MaxItems = 4
    Item <- MCItem
INVARIANTS
    CmdQueueInv
    ErrorEndsGroup
    NothingLost
    InSequence
\* When every item has fired and every client is gone nothing is left to do.
CHECK_DEADLOCK FALSE
