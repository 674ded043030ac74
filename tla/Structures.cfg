\* One structure a behaviour; the smallest arrays that wrap, fill and empty, two
\* senders, two receivers and a watcher with two numbers, tables of three records
\* and of any number of records with four numbers; lists of up to five nodes,
\* trees of nine places, three file objects.
CONSTANTS
    Value = {a, b}
    RB_CAPACITY = 4
    CounterModulus = 2
    MaxLost = 3
    QUEUE_CAPACITY = 4
    Sample = {0, 1}
    Zero = 0
    SENSOR_RING_CAPACITY = 4
    MAX = 4
    Kinds = {"queue", "stack"}
    Senders = {s1, s2}
    Receivers = {r1, r2}
    Watchers = {w}
    Nobody = Nobody
    Numbers = {n1, n2, n3, n4}
    capacity_ = 3
    Name = {"grab", "stop"}
    Addr = {p1, p2, p3, p4, p5}
    NULL = NULL
    Data = {1, 2}
    MaxLength = 3
    MaxNode = 9
    Objects = {o1, o2, o3}
    Files = {f1, f2, f3}
    nullptr = nullptr
SYMMETRY Symmetry
SPECIFICATION SuiteSpec
INVARIANTS
    IndicesFit
    OneAckWins
    NothingIsLost
    ContentsAreRight
PROPERTIES
    RingsAreFifos
    OrderIsKept
    VectorsAreTables
