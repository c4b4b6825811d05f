SPECIFICATION TimedSpec
CONSTANTS
    Twists <- MCTwists
    TICK_MOD = 7
    WATCHDOG_TIMEOUT_TICKS = 2
    PERIOD = 1
    EXEC = 1
    STORE = 1
INVARIANTS WatchdogStops MixtureHeals
PROPERTIES TripsExplained ActsAsRobot
