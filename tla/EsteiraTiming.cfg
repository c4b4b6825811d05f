SPECIFICATION Spec
CONSTANTS
    Directions = {"F", "T", "P"}
    Speeds = {100}
    CLOCK_MOD = 7
    WATCHDOG_TIMEOUT_MS = 2
    PERIOD = 1
    EXEC = 1
    OtaReachesPwm = TRUE
INVARIANTS WatchdogStops NeverBothBridges
PROPERTIES NoSpuriousTrip ActsAsRobot
