\* Two workers, a queue of two, five clients, a signal at any moment.
CONSTANTS
    WorkerCount = 2
    QueueCapacity = 2
    Listener = listener
    Submitters = {listener}
    Clients = {c1, c2, c3, c4, c5}
    NoJob = NoJob
    ConcurrentShutdown = FALSE
    Backlog = 2
    MaxConnections = 5
    NoSummary = NoSummary
SPECIFICATION ServerSpec
INVARIANTS
    ServerTypeOK
    HandlersAreServed
    EverythingReleased
    NoneLost
    SummaryComplete
    AtMostOneLate
PROPERTIES
    ImplementsJobQueue
    EveryJobHandled
    RunEnds
    NextIsAccepted
