\* Two threads submit, a third may shut the pool down under them.
CONSTANTS
    WorkerCount = 3
    QueueCapacity = 2
    Submitters = {s1, s2}
    Clients = {c1, c2, c3, c4, c5, c6, c7}
    NoJob = NoJob
    ConcurrentShutdown = TRUE
SPECIFICATION Spec
INVARIANTS
    TypeOK
    RingConsistent
    OneHolder
    NoLostWorkerWakeup
    NoLostSubmitterWakeup
    ShutdownReachesAll
    DrainedBeforeFreed
