SPECIFICATION Spec
CONSTANTS
    NoValue = NoValue
    Charges <- MCCharges
    AppCharges <- MCAppCharges
    Initial <- Morning
    Numbers <- MCNumbers
    Minimum = 1
    Maximum = 8
    MaxCalls = 2
    MaxChanges = 0
    MaxFailures = 0
PROPERTY UpdatesOnePeriod
CHECK_DEADLOCK FALSE
