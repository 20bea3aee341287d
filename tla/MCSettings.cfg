SPECIFICATION FairSpec
CONSTANTS
    NoValue = NoValue
    Charges <- MCCharges
    AppCharges <- MCAppCharges
    Initial <- Morning
    Numbers <- MCNumbers
    Minimum = 1
    Maximum = 8
    MaxCalls = 2
    MaxChanges = 1
    MaxFailures = 1
INVARIANTS
    TypeOK
    PeriodsWhole
    RemembersWhole
    ShowsPending
PROPERTIES
    ShowsSettings
CHECK_DEADLOCK FALSE
