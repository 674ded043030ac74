\* Three nodes at most; createNode as in linked_list.c.
CONSTANTS
    Addr = {p1, p2, p3}
    NULL = NULL
    Data = {1, 2}
    ChecksMalloc = FALSE
SPECIFICATION Spec
INVARIANT NoNullWrite
