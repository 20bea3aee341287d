SPECIFICATION FairSpec
CONSTANTS
    user = user
    Users <- MCUsers
    Readings <- SteadyReadings
    Tolerated = 2
    MaxChanges = 2
    MaxFailures = 1
PROPERTIES
    UpdatesEnd
    DisableHonoured
    Engages
