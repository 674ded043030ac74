CONSTANTS
    Producer = producer
    Consumers = {c1, c2}
    Nobody = Nobody
    Last = 4
SPECIFICATION FairSpec
INVARIANTS SumIsExact NoValueAbandoned
PROPERTIES Terminates
