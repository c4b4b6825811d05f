SPECIFICATION LiveSpec
CONSTANTS
    BLOCKING = TRUE
    SAVE_ADDS_ROUTES = FALSE
    SENSORS = 3
    CLOCK_MOD = 3
INVARIANTS OneRound PortFree DtIsElapsed
PROPERTIES DataAnswered
