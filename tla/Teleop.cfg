SPECIFICATION LiveSpec
CONSTANTS
    p1 = p1
    s1 = s1
    s2 = s2
    None = None
    Pages = {p1}
    Dirs = {"F", "E"}
    Slots = {s1, s2}
    INFLIGHT = 2
    WATCHDOG = 0
INVARIANTS RepeatsOnlyWhatIsHeld LastWord
PROPERTIES SentIsHeld ReleaseStops HoldDrives OnlineWhileAvailable
