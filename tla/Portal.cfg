SPECIFICATION LedLiveSpec
CONSTANTS
    BLOCKING = FALSE
    SAVE_ADDS_ROUTES = TRUE
INVARIANTS ServersExist NeverDark NoStaleSave
PROPERTIES OfflineLeadsToPortal OnlineLeadsToPage
