CONSTANTS
    Value = {1, 2}
    MAX = 3
    Kinds = {"circular"}
SPECIFICATION Spec
PROPERTY
    ImplementsFifo
