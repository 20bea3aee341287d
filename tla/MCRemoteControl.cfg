SPECIFICATION Spec
CONSTANTS
    user = user
    Users <- MCUsers
    Readings <- MCReadings
    Tolerated = 1
    MaxChanges = 3
    MaxFailures = 1
INVARIANTS
    TypeOK
    EveryUpdateWaits
    EnabledMeansOn
