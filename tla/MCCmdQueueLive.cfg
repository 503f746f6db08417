SPECIFICATION FairCmdQueueSpec
CONSTANTS
    Client = {a}
    Channel = {ch}
    Global = global
    MaxItems = 3
    Item <- MCItem
INVARIANT
    CmdQueueInv
PROPERTY
    QueuesDrain
\* When every item has fired and every client is gone nothing is left to do.
CHECK_DEADLOCK FALSE
