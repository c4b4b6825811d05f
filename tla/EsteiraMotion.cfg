SPECIFICATION LiveSpec
CONSTANTS
    Directions = {"F", "D", "P"}
    Speeds = {1, 40}
    CLOCK_MOD = 3
    WATCHDOG_TIMEOUT_MS = 1
    PERIOD = 1
    EXEC = 0
    OtaReachesPwm = FALSE
INVARIANTS FollowsSample LedTellsTruth
PROPERTIES AtomicCommands StopLeadsToRest SilenceLeadsToRest
