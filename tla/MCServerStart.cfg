SPECIFICATION FairStartSpec
CONSTANTS
    a = a
    b = b
    c = c
    Client <- MCClient
    Server <- MCServer
INVARIANTS
    OneServer
    ServerReachable
PROPERTIES
    ClientsGetThrough
\* When every client has ended nothing is left to do.
CHECK_DEADLOCK FALSE
