CONSTANTS
    Producers = {p1, p2}
    Consumer = consumer
    Main = main
    Nobody = Nobody
    Capacity = 2
    Messages = 2
SPECIFICATION FairSpec
INVARIANTS NothingLost ReportIsExact NoLostWakeup
PROPERTIES ImplementsQueueSpec Terminates
