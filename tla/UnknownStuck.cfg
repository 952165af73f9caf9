SPECIFICATION FairSpec
CONSTANTS
    Intents = {i1}
    NoIntent = NoIntent
    Size = 1
    StaleAge = 1
    ApprovalTTL = 0
    MaxInflight = 2
    MaxCrashes = 1
    MaxModifies = 0
PROPERTIES UndispatchedUnknownResolved
