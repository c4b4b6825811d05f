SPECIFICATION LiveSpec
CONSTANTS
    Speeds = {1, 100}
    RIM = 17
INVARIANTS TurnsAsAsked FollowsSample
PROPERTIES UploadLeadsToRest
