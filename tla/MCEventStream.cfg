SPECIFICATION FairSpec
CONSTANTS
    w1 = w1
    w2 = w2
    c1 = c1
    c2 = c2
    c3 = c3
    Workflows <- MCWorkflows
    Conns <- MCConns
    NoConn = NoConn
    QueueCapacity = 1
    DedupCapacity = 1
    PageSize = 1
    TicketCapacity = 1
    MaxEvents = 2
    MaxSwitches = 1
    MaxRepeats = 1
    MaxDisturbances = 1
PROPERTIES ImplementsFeed EventuallyFed
\* With everything committed and handed over nothing is left to do.
CHECK_DEADLOCK FALSE
