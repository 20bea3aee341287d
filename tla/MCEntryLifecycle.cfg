SPECIFICATION FairSpec
CONSTANTS
    Inverters <- MCInverters
    Requests = 2
    MaxSetups = 4
    MaxChanges = 2
    MaxCalls = 1
    MaxRefusals = 1
INVARIANTS
    TypeOK
    OneGeneration
    ClosedStaysClosed
PROPERTIES
    TasksEnd
    FallsSilent
CHECK_DEADLOCK FALSE
