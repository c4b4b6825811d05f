SPECIFICATION Spec
CONSTANTS
    Directions = {"F", "P"}
    Speeds = {10}
    CLOCK_MOD = 7
    WATCHDOG_TIMEOUT_MS = 2
    PERIOD = 1
    EXEC = 1
    OtaReachesPwm = TRUE
INVARIANT UploadFindsMotorsCut
