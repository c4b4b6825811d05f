SPECIFICATION Spec
CONSTANTS
    SECOND = 4
    CLOCK_MOD = 11
    SPREAD = 2
INVARIANTS NeverAhead InOrder
