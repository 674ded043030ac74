CONSTANTS
    Pushers = {p1, p2}
    Poppers = {c1, c2}
    Stoppers = {s1}
    Nobody = Nobody
    Capacity = 2
    Frames = 2
SPECIFICATION FairSpec
INVARIANTS QueueOrder NoLostWakeup
PROPERTIES OnlyUrgencyEvicts NothingIsStuck
