SPECIFICATION InverterSpec
CONSTANTS
    Registers <- MCRegisters
    MaxReads <- MCMaxReads
INVARIANTS
    ReadExactlyOnce
    AdmissiblePlan
    LeanPlan
    StepwisePlan
    EntitiesComplete
    RegistersAgree
    WholeValues
    VersionsRoundTrip
CHECK_DEADLOCK FALSE
