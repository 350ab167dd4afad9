SPECIFICATION FairSpec
CONSTANTS
    w1 = w1
    w2 = w2
    t3 = t3
    t1 = t1
    t2 = t2
    chat = chat
    Main = Main
    NoThread = NoThread
    NoTask = NoTask
    Workers <- MCWorkers
    Tasks <- MCTasks
    Nested <- MCNested
    Endless <- MCEndless
    Impls <- MCImpls
INVARIANTS
    TypeOK
    Accounting
    WorkConserving
    NoSleeperAfterBroadcast
    DrainedAtJoin
PROPERTIES
    Refinement
    EveryAcceptedTaskEnds
    ShutdownCompletes
\* The pool stops for good once its owner has joined the workers.
CHECK_DEADLOCK FALSE
