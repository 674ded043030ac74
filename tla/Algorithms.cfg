\* Every list of four nodes with or without a cycle, arrays of three elements,
\* texts of five, trees of seven places, registers of four bits.
CONSTANTS
    MaxText = 5
    MaxItems = 3
    MaxNodes = 4
    MaxPlace = 7
    Width = 4
    Points = {1, 2, 3, 4}
    Readings = {0, 3, 255}
SPECIFICATION Spec
INVARIANT OutputIsRight
