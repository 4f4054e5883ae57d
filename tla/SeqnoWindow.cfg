CONSTANTS
    WRAP_MOD = 6
    MaxAbs = 20
SPECIFICATION Spec
INVARIANTS
    UnwrapClosest
    RoundTrip
PROPERTY UnwrapMonotone
