CONSTANTS
    Byte = {b1, b2}
    Capacity = 2
    MaxString = 3
    MaxWritten = 5
SPECIFICATION Spec
INVARIANTS
    BoundedFifo
