SPECIFICATION Spec
CONSTANTS
    CLOCK_MOD = 9
    LATCH_HOLD_TIME_MS = 4
    LOOP = 2
INVARIANTS PowerOffInTime
PROPERTY NoEarlyPowerOff
