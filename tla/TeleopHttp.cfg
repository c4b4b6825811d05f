SPECIFICATION HttpSpec
CONSTANTS
    c1 = c1
    c2 = c2
    c3 = c3
    None = None
    Commands = {"F", "L", "S"}
    Stop = "S"
    Conns = {c1, c2, c3}
    DELAY = 2
    WATCHDOG = 2
    REACTION = 1
    FOREVER = 6
SYMMETRY AnyConnection
INVARIANTS StopsAfterRelease
