SPECIFICATION Spec
CONSTANTS
    user = user
    Users <- MCUsers
    Readings <- MCReadings
    Tolerated = 2
    MaxChanges = 2
    MaxFailures = 0
INVARIANT
    OnMeansEnabled
