CONSTANTS
    Policy <- MCPolicy
    ScanPolicy <- MCScanPolicy
    ReleaseKinds <- MCReleaseKinds
    BreachReasons <- MCBreachReasons
    Inventory <- MCInventory
    PinnedKey = "deployment-key"
    RetirementKey = "retirement-key"
    MaxFiles = 64
    ApprovalLifetime = 2
    FirstExpiry = 4
    RenewedExpiry = 10
    RetentionUntil = 14
    MaxTime = 9
    MaxMishaps = 1
    MaxDelay = 1
    Apart = {"sources"}
    Alterable = {"archive", "native"}
SPECIFICATION Spec
INVARIANTS
    StopWasAuthorized
    DisabledWindowIsQuiet
    CleanupWasAuthorized
    WrittenIsVerified
CHECK_DEADLOCK FALSE
