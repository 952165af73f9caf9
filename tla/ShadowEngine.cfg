SPECIFICATION Spec
CONSTANTS
    Tapes <- MCTapes
    Menu <- MCMenu
    Scenario <- MCScenario
    Limits <- MCLimits
    Day = 4
    DepthLevels = 2
    MaxInputAge = 2
    StateInterval = 2
    Capital = 40
    MarkoutHorizon = 2
    Independence = 2
    FundingInterval = 4
    Bar = 2
    WatchdogInterval = 1
    MaxLag = 2
    MaxTime = 5
    MaxIntents = 2
    MaxCrashes = 1
    MaxKills = 1
INVARIANTS TypeOK JournalBalances TapeOnce StatesAreCausal KilledOrdersDrain AuditGapIsVisible
PROPERTIES TerminalOrdersStay
CHECK_DEADLOCK FALSE
