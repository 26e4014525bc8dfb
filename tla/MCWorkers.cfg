SPECIFICATION MCSpec
CONSTANTS
    o1 = o1
    o2 = o2
    p1 = p1
    Ops = {o1, o2}
    Procs = {p1}
    MaxConnects = 3
    MaxDisconnects = 2
    Loads <- MCLoads
    NumRequests = 3
INVARIANTS
    WorkersTypeOK
    NoStrayConnection
    StatusHasConnection
    ShutdownClosesAll
    CommandsAreSerial
PROPERTIES
    KeepsLifecycle
    OperationsAnswered
    ConnectionSettles
    AnsweredOnce
    CallersAreAnswered
    ShutdownEndsThread
CHECK_DEADLOCK FALSE
