SPECIFICATION FairSpec
CONSTANTS
    Intents = {i1}
    NoIntent = NoIntent
    Size = 2
    StaleAge = 1
    ApprovalTTL = 0
    MaxInflight = 2
    MaxCrashes = 1
    MaxModifies = 1
INVARIANTS TypeOK WriteAhead AtMostOneDispatch SettledIsSettled RecordedFillsAreReal IInv
PROPERTIES SubmitsOnce CommandsTimeOut VenueOutcomeRecorded
