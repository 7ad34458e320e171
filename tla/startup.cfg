SPECIFICATION StartupSpec
CONSTANTS
    MaxOutages = 1
    Deployments <- AllDeployments
INVARIANTS
    StartupTypeOK
    RefusalIsExplained
    ReadersAgree
    AutomationIsValidated
PROPERTIES
    RefusedForAReason
CHECK_DEADLOCK FALSE
