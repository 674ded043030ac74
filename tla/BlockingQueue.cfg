CONSTANTS
    Producers = {p1, p2}
    Consumers = {c1, c2}
    Stoppers = {s1}
    Nobody = Nobody
    Capacity = 1
    Items = 2
SPECIFICATION FairSpec
INVARIANTS TypeOK Fifo NoLostWakeup StopWakesAll
PROPERTIES ImplementsQueueSpec StopReleasesAll AllServed
